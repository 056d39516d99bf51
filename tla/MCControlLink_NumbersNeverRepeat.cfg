SPECIFICATION Spec
CONSTANTS
  Links = {ble, wifi}
  QueueSize = 2
  LastNumber <- MCLastNumber
  MaxConnects = 3
CHECK_DEADLOCK FALSE
PROPERTY NumbersNeverRepeat
