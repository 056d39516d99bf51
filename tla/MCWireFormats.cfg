SPECIFICATION Spec
CONSTANTS Refused = Refused Inputs <- MCInputs
CHECK_DEADLOCK FALSE
INVARIANTS
  PromptsAndAnswersCross
  ReportsReachDevice
  PacketsArriveOnce
  CodecInStep
