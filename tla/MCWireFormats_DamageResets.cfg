SPECIFICATION Spec
CONSTANTS Refused = Refused Inputs <- MCInputs
CHECK_DEADLOCK FALSE
INVARIANT DamageResets
