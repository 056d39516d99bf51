CONSTANTS
  NoProfile = NoProfile
  NoDevice = NoDevice
  OwnMic = OwnMic
  CodexMic = CodexMic
  UsbMic = UsbMic
  Profiles <- MCHoldProfile
  Inputs = {"OwnInput", "VoiceInput"}
  NoInput = "NoInput"
  NoSource = "NoSource"
  OwnInput = "OwnInput"
  MaxMessages = 2
  MaxChanges = 2
  MaxPresses = 1
  QueueLimit = 2

SPECIFICATION Spec
CHECK_DEADLOCK FALSE

PROPERTY LostLinkReleasesKey
