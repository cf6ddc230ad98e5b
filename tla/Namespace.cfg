CONSTANTS
  Process = {p1, p2}
  NINODES = 3
  Name = {a, b}
  a = a
  b = b
  Parts = {"wide", "deep"}
  Calls <- WideCalls
  NoProc = NoProc
SPECIFICATION MCSpec
SYMMETRY Symmetry
CHECK_DEADLOCK FALSE
INVARIANTS
  NamesLeadToInodes
  DirectoriesAreATree
