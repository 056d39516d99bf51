CONSTANTS
  Tail = 1
  RealtimeTail = 2
  Hold = 3
  Grace = 4
  NoteTime = 2

SPECIFICATION Spec

INVARIANT RoutePerSession
