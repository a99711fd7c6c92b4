SPECIFICATION PointerSpec
CONSTANTS
  None = None
  Positions = {a, b}
  Repaints = {TRUE, FALSE}
  MaxEvents = 2
INVARIANT OnePointer
CHECK_DEADLOCK FALSE
