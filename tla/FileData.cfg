CONSTANTS
  Process = {p1, p2}
  NINODES = 2
  NFILE = 2
  NBLOCKS = 6
  BSIZE = 1
  NDIRECT = 1
  NINDIRECT = 1
  MAXOPBLOCKS = 6
  Counts = {2}
  NoProc = NoProc
SPECIFICATION MCSpec
SYMMETRY Symmetry
INVARIANTS
  BlocksAccounted
