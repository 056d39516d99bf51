CONSTANTS
  MaxConnections = 3
  MaxStrangers = 1

SPECIFICATION Spec

INVARIANT SendersUseLiveSession
INVARIANT OneSession
PROPERTY ConnectedIsAnnounced
CHECK_DEADLOCK FALSE
