CONSTANTS
  Window = 3
  FrameLimit = 3
  PrebufferLimit = 2
  StartCount = 2
  Jitter = 1
  Prebuffer = 2
  Stall = 4
  PostRoll = 3
  MaxFrame = 5

SPECIFICATION Spec

PROPERTY PlaysInOrder
PROPERTY DrainsOut
