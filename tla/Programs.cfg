CONSTANTS
  MAXARGS = 3
  Lines <- AnyLines
  MAXLINES = 1
  NPROC = 8
  NOFILE = 6
  Programs = {"echo", "cat", "wc", "yes"}
  Readers = {"cat", "wc"}
  Tokens = {"echo", "wc", "<", ">", "|", "&", ";", "(", ")"}
  MAXTOK = 5
  Endless = {"yes"}
  MAXHEAP = 8
  NALLOC = 3
  Requests = {1, 2, 4}
  BUFSIZE = 5
  Page = {v1, v2, v3, v4}
  CLOCKSIZE = 3
  NoPage = NoPage
SPECIFICATION MCSpec
CHECK_DEADLOCK FALSE
INVARIANTS
  WiredAsTyped
  PromptAfterForeground
  ParsesTheGrammar
  HeapInv
  FiltersInv
  RingInv
PROPERTIES
  PromptReturns
  IsSecondChance
