CONSTANTS
  Process = {p1, p2}
  NINODES = 3
  Name = {a, b}
  a = a
  b = b
  Parts = {"wide"}
  Calls <- LinkCalls
  NoProc = NoProc
SPECIFICATION MCSpec
SYMMETRY Symmetry
CHECK_DEADLOCK FALSE
INVARIANT NoDeadlock
