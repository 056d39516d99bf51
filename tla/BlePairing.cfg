CONSTANTS
  MaxRetries = 2
  MaxFaults = 3

SPECIFICATION Spec

INVARIANT ConnectedIsPaired
PROPERTY SecretNeverReplaced
PROPERTY AttemptsEnd
\* A failed discovery leaves the link up and nothing to do.
CHECK_DEADLOCK FALSE
