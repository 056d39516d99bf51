CONSTANTS
  MaxEvents = 3
  MaxTries = 4

SPECIFICATION SetupSpec

INVARIANT ReconnectIsAwaited
INVARIANT PortalIsRetired
PROPERTY ConnectingEnds
CHECK_DEADLOCK FALSE
