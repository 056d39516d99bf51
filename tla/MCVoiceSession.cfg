CONSTANTS
  NoProfile = NoProfile
  NoDevice = NoDevice
  OwnMic = OwnMic
  CodexMic = CodexMic
  UsbMic = UsbMic
  Profiles <- MCProfiles
  Inputs = {"OwnInput", "VoiceInput"}
  NoInput = "NoInput"
  NoSource = "NoSource"
  OwnInput = "OwnInput"
  MaxMessages = 2
  MaxChanges = 2
  MaxPresses = 2
  QueueLimit = 2

SPECIFICATION Spec
CHECK_DEADLOCK FALSE

INVARIANT SessionsAgree
INVARIANT BorrowedIsReturnable
INVARIANT UsbSessionMatchesButton
INVARIANT MirroredOnce
PROPERTY SessionUndisturbed
PROPERTY BorrowsAndReturns
PROPERTY LostWifiEndsSession
