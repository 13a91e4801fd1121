SPECIFICATION Spec
CONSTANTS
  Publishers = {p1, p2}
  Buf = 2
  MaxEvents = 4
INVARIANTS
  EveryEventAccounted
CHECK_DEADLOCK FALSE
