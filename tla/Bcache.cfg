CONSTANTS
  Process = {p1, p2}
  Buf = {b1, b2, b3}
  Block = {k1, k2, k3, k4}
  Value = {0, 1}
  NoBlock = NoBlock
  NoBuf = NoBuf
  NoProc = NoProc
  PINNED = 2
  DISK_ERRORS = FALSE
SPECIFICATION MCSpec
SYMMETRY Symmetry
INVARIANTS
  Inv
PROPERTIES
  OnlyHolderChanges
