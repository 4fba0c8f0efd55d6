SPECIFICATION Spec
CONSTANTS
  N = 4
  Depth = 2
  Windows <- MCLeaving
CHECK_DEADLOCK FALSE
INVARIANTS
  EachOnce
