SPECIFICATION Spec
CONSTANTS
  Debounce = 2
  Lockout = 2
  Hold = 3
  Window = 5
  MaxStall = 2
  RemoteStates = {"Working", "Idle"}
  EdgeQueueLength = 3
  BounceTime = 2
  UsbUacMode = FALSE
PROPERTY ReleaseIsAnnounced
