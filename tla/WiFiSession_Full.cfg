CONSTANTS
  MaxConnections = 3
  MaxStrangers = 1

SPECIFICATION Spec

CHECK_DEADLOCK FALSE

INVARIANTS SessionTypeOK SendersUseLiveSession OneStream SessionIsActive
PROPERTIES ConnectedIsAnnounced
