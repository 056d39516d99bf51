CONSTANTS
  NoProfile = NoProfile
  NoDevice = NoDevice
  OwnMic = OwnMic
  CodexMic = CodexMic
  UsbMic = UsbMic
  Profiles <- MCProfiles
  Inputs = {"OwnInput", "VoiceInput"}
  NoInput = "NoInput"
  NoSource = "NoSource"
  OwnInput = "OwnInput"
  MaxMessages = 3
  MaxChanges = 1
  MaxPresses = 2
  QueueLimit = 2

SPECIFICATION Spec
CHECK_DEADLOCK FALSE

INVARIANT VoiceTypeOK
INVARIANT SessionsAgree
INVARIANT BorrowedIsReturnable
INVARIANT FinishingIsScheduled
INVARIANT GatewayFollowsSession
INVARIANT UsbSessionMatchesButton
INVARIANT UnpluggedReleases
PROPERTY SessionUndisturbed
