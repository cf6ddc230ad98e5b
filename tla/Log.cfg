\* Calls reserve 4 log blocks of 8 and write at most 2: a second call joins the
\* transaction or has to wait.
CONSTANTS
  Proc = {p1, p2}
  Block = {b1, b2}
  Value = {v1, v2}
  MAXOPBLOCKS = 4
  LOGSIZE = 8
  NLog = 8
  OpBlocks = 2
  NoBlock = NoBlock
  NotCached = NotCached
SPECIFICATION FairSpec
INVARIANT
  Inv
PROPERTIES
  AtomicUpdates
  WriteAhead
  WaiterIsWoken
