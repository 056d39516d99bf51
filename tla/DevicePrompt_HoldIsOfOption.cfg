CONSTANTS
  Channels = {usb, air}
  MaxDialogs = 2
  MaxRevisions = 2
  MaxSelections = 1
  MaxDrops = 1
  usb = usb
  air = air

SPECIFICATION PromptSpec
CHECK_DEADLOCK FALSE

INVARIANT HoldIsOfOption
