CONSTANTS
  MaxEvents = 3
  MaxTries = 4

SPECIFICATION SetupSpec

INVARIANT AddressConnects
CHECK_DEADLOCK FALSE
