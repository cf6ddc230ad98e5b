CONSTANTS
  NPROC = 2
  NFRAMES = 11
  NPAGES = 4
  NPTENTRIES = 2
  REGROW = FALSE
  IProcess = {q1, q2, q3}
  NINODES = 2
  NINODE = 3
  NoEntry = NoEntry
  NoProc = NoProc
  MAXLINK = 2
  FProcess = {r1, r2}
  initproc = r1
  NFILE = 3
  NOFILE = 2
  MAXHELD = 2
SPECIFICATION MCSpec
SYMMETRY Symmetry
INVARIANTS
  Inv
  InodesCounted
  FilesCounted
PROPERTIES
  FailureLeavesMemory
  FreedWhenUnused
