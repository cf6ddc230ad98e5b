------------------------------ MODULE AtomicDisk ------------------------------
(***************************************************************************)
(* What xv6/log.c promises to file system calls: a disk on which the writes *)
(* of a set of concurrent calls become permanent together, at a moment when *)
(* no call is in progress, and a crash takes the disk back to the last such *)
(* moment ("The logging system only commits when there are no FS system     *)
(* calls active", log.c).                                                   *)
(***************************************************************************)
CONSTANTS Proc, Block, Value

VARIABLES
  mem,      \* the contents that running calls read and write
  stable,   \* the contents that a crash leaves
  active    \* the processes between begin_op and end_op

vars == <<mem, stable, active>>

Init ==
  /\ stable \in [Block -> Value]
  /\ mem = stable
  /\ active = {}

Begin(p) == p \notin active /\ active' = active \cup {p} /\ UNCHANGED <<mem, stable>>

Write(p, b, v) ==
  /\ p \in active
  /\ mem' = [mem EXCEPT ![b] = v]
  /\ UNCHANGED <<stable, active>>

End(p) == p \in active /\ active' = active \ {p} /\ UNCHANGED <<mem, stable>>

Commit == active = {} /\ stable' = mem /\ UNCHANGED <<mem, active>>

Crash == mem' = stable /\ active' = {} /\ UNCHANGED stable

Next ==
  \/ \E p \in Proc : Begin(p) \/ End(p) \/ \E b \in Block, v \in Value : Write(p, b, v)
  \/ Commit
  \/ Crash

Spec == Init /\ [][Next]_vars
=============================================================================
