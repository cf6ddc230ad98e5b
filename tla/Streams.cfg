\* Writes of more than the ring of the pipe holds; lines that fill the ring of
\* the console; counters that wrap.
CONSTANTS
  Reader = {r1}
  Writer = {w1, w2}
  PIPESIZE = 2
  UINT = 4
  Byte = {0, 1}
  MAXN = 3
  Killable = {r1}
  CProcess = {p1, p2}
  Key = {x, nul, cr, nl, eof}
  NUL = nul
  CR = cr
  NEWLINE = nl
  EOF = eof
  INPUT_BUF = 2
  WRAP = 4
  MAXREAD = 2
SPECIFICATION MCSpec
INVARIANTS
  Inv
  NoLostLine
PROPERTIES
  IsQueue
  EndOfFileReachesReader
  IsLineInput
  ReaderGetsLine
