CONSTANTS
  Process = {p1, p2}
  Buf = {b1, b2, b3}
  Block = {k1, k2, k3, k4}
  Value = {0, 1}
  NoBlock = NoBlock
  NoBuf = NoBuf
  NoProc = NoProc
  PINNED = 1
  DISK_ERRORS = TRUE
SPECIFICATION MCSpec
SYMMETRY Symmetry
INVARIANT ValidWasRead
