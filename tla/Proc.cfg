CONSTANTS
  NPROC = 3
  MAXPID = 4
  CALLS = {"fork", "wait", "kill", "sleep", "exit", "fault"}
SPECIFICATION FairSpec
INVARIANTS
  Inv
  SleepInWaitIsJustified
PROPERTY
  KilledExits
