CONSTANTS
  c1 = c1
  c2 = c2
  lkCond = lkCond
  lkPtable = lkPtable
  CPU <- MCCPU
  Lock <- MCLock
  Rank <- MCRank
  NoLock = NoLock
  NoCpu = NoCpu
  Apic = {1, 2, 3, 4}
  bsp = 1
  NCPU = 3
  LOWTOP = 4
  PHYSTOP = 6
  MAXALLOC = 4
  PASS = 7
SPECIFICATION MCSpec
INVARIANTS
  Inv
  InterruptsRestored
  StartUp
PROPERTIES
  EveryLockIsFreed
  EveryProcessorStarts
  ReturnsOneDate
