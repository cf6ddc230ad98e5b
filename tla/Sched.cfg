\* Two processes on two CPUs.
CONSTANTS
  CPU = {c1, c2}
  NPROC = 2
  NoCpu = NoCpu
  NoProc = NoProc
  Scheduler = Scheduler
SPECIFICATION FairSpec
INVARIANTS
  Inv
  NoLostWakeup
PROPERTY
  RunnableRuns
