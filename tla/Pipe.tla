-------------------------------- MODULE Pipe --------------------------------
(***************************************************************************)
(* xv6/pipe.c: the ring buffer between the processes that share the read    *)
(* end of a pipe and those that share the write end, with sleep, wakeup,    *)
(* close and kill.  A critical section of p->lock is one action, except     *)
(* that a process going to sleep has tested its conditions one step before  *)
(* sleep() makes it SLEEPING and releases the lock: kill() takes only       *)
(* ptable.lock and can come in between.                                     *)
(***************************************************************************)
EXTENDS Integers, Sequences, FiniteSets, FiniteSetsExt

CONSTANTS
  Reader, Writer,   \* processes with the read end, with the write end
  PIPESIZE,         \* bytes in the ring
  UINT,             \* number of values of a uint; PIPESIZE divides it
  Byte,
  MAXN,             \* bound on the length of a read or write
  Killable          \* bound: processes that kill() may strike

ASSUME PipeAssumption ==
  /\ PIPESIZE \in Nat \ {0} /\ UINT \in Nat /\ UINT % PIPESIZE = 0 /\ UINT > PIPESIZE
  /\ MAXN \in Nat \ {0} /\ Killable \subseteq Reader \cup Writer
  /\ Reader \cap Writer = {} /\ Reader # {} /\ Writer # {}

Process == Reader \cup Writer

VARIABLES
  data, nread, nwrite, readopen, writeopen,   \* struct pipe
  allocated,   \* pages that kfree has not had back: 1, 0, or less
  pc,          \* control point of a process
  left,        \* n - i: bytes the call has still to move
  addr,        \* what the last piperead of a reader delivered
  killed

ring == <<data, nread, nwrite>>
vars == <<data, nread, nwrite, readopen, writeopen, allocated, pc, left, addr, killed>>

TypeOK ==
  /\ data \in [0..(PIPESIZE - 1) -> Byte]
  /\ nread \in 0..(UINT - 1) /\ nwrite \in 0..(UINT - 1)
  /\ readopen \in {0, 1} /\ writeopen \in {0, 1}
  /\ allocated \in {0, 1}
  /\ pc \in [Process -> {"out", "call", "block", "asleep", "kfree", "closed"}]
  /\ left \in [Process -> 0..MAXN]
  /\ addr \in [Reader -> UNION {[1..k -> Byte] : k \in 0..MAXN}]
  /\ killed \in [Process -> {0, 1}]

\* pipealloc; the contents of the page are whatever they are.
Init ==
  /\ data \in {[j \in 0..(PIPESIZE - 1) |-> b] : b \in Byte}
  /\ nread = 0 /\ nwrite = 0 /\ readopen = 1 /\ writeopen = 1
  /\ allocated = 1
  /\ pc = [p \in Process |-> "out"]
  /\ left = [p \in Process |-> 0]
  /\ addr = [r \in Reader |-> << >>]
  /\ killed = [p \in Process |-> 0]

\* p->lock is free: nobody is between its tests and sleep().
Unlocked == \A p \in Process : pc[p] # "block"

\* wakeup() for the processes in P.
Wake(P) == [q \in Process |-> IF q \in P /\ pc[q] = "asleep" THEN "call" ELSE pc[q]]

Used == (nwrite - nread) % UINT

-----------------------------------------------------------------------------

\* read() or write() is called; trap() lets no killed process in.
call(p) ==
  /\ pc[p] = "out" /\ killed[p] = 0
  /\ \E n \in 1..MAXN : left' = [left EXCEPT ![p] = n]
  /\ pc' = [pc EXCEPT ![p] = "call"]
  /\ UNCHANGED <<ring, readopen, writeopen, allocated, addr, killed>>

\* Variant: the full pipe is noticed one byte late.
Room_off_by_one == PIPESIZE - Used + 1

\* Until nwrite == nread + PIPESIZE.
Room == PIPESIZE - Used

\* The bytes s are stored from nwrite on.
Store(s, k) ==
  /\ data' = [j \in 0..(PIPESIZE - 1) |->
                LET written == {x \in 0..(k - 1) : (nwrite + x) % PIPESIZE = j} IN
                  IF written = {} THEN data[j] ELSE s[Max(written)]]
  /\ nwrite' = (nwrite + k) % UINT

\* Variant: a writer goes to sleep without waking the readers.
pipewrite_silent(p) ==
  /\ pc[p] = "call" /\ Unlocked
  /\ LET k == Min({left[p], Room}) IN
       /\ \E s \in [0..(k - 1) -> Byte] : Store(s, k)
       /\ pc' = IF k = left[p] THEN [Wake(Reader) EXCEPT ![p] = "out"]
                ELSE [pc EXCEPT ![p] = IF readopen = 0 \/ killed[p] = 1 THEN "out" ELSE "block"]
       /\ left' = [left EXCEPT ![p] = IF pc'[p] = "out" THEN 0 ELSE left[p] - k]
  /\ UNCHANGED <<nread, readopen, writeopen, allocated, addr, killed>>

\* pipewrite from acquire, or from the end of sleep, until it returns or is
\* about to sleep.  Only a write that completes, or will sleep, wakes readers.
pipewrite(p) ==
  /\ pc[p] = "call" /\ Unlocked
  /\ LET k == Min({left[p], Room}) IN
       /\ \E s \in [0..(k - 1) -> Byte] : Store(s, k)
       /\ pc' = IF k = left[p] THEN [Wake(Reader) EXCEPT ![p] = "out"]
                ELSE IF readopen = 0 \/ killed[p] = 1 THEN [pc EXCEPT ![p] = "out"]
                ELSE [Wake(Reader) EXCEPT ![p] = "block"]
       /\ left' = [left EXCEPT ![p] = IF pc'[p] = "out" THEN 0 ELSE left[p] - k]
  /\ UNCHANGED <<nread, readopen, writeopen, allocated, addr, killed>>

\* piperead, likewise.
piperead(p) ==
  /\ pc[p] = "call" /\ Unlocked
  /\ IF nread = nwrite /\ writeopen = 1
       THEN /\ pc' = [pc EXCEPT ![p] = IF killed[p] = 1 THEN "out" ELSE "block"]
            /\ left' = [left EXCEPT ![p] = IF killed[p] = 1 THEN 0 ELSE left[p]]
            /\ UNCHANGED <<nread, addr>>
       ELSE LET k == Min({left[p], Used}) IN
            /\ addr' = [addr EXCEPT ![p] = [x \in 1..k |-> data[(nread + x - 1) % PIPESIZE]]]
            /\ nread' = (nread + k) % UINT
            /\ pc' = [Wake(Writer) EXCEPT ![p] = "out"]
            /\ left' = [left EXCEPT ![p] = 0]
  /\ UNCHANGED <<data, nwrite, readopen, writeopen, allocated, killed>>

\* sleep(): SLEEPING, and p->lock is free again.
sleep(p) ==
  /\ pc[p] = "block"
  /\ pc' = [pc EXCEPT ![p] = "asleep"]
  /\ UNCHANGED <<ring, readopen, writeopen, allocated, left, addr, killed>>

kill(p) ==
  /\ p \in Killable /\ killed[p] = 0 /\ pc[p] # "closed"
  /\ killed' = [killed EXCEPT ![p] = 1]
  /\ pc' = Wake({p})
  /\ UNCHANGED <<ring, readopen, writeopen, allocated, left, addr>>

\* With this end closed, both are.
LastEnd(p) == IF p \in Writer THEN readopen = 0 ELSE writeopen = 0

\* The end of p among the processes that share it.
End(p) == IF p \in Writer THEN Writer ELSE Reader

\* Variant: the other end is not told.
pipeclose_silent(p) ==
  /\ pc[p] = "out"
  /\ IF \E q \in End(p) \ {p} : pc[q] # "closed"
       THEN pc' = [pc EXCEPT ![p] = "closed"] /\ UNCHANGED <<readopen, writeopen>>
       ELSE /\ Unlocked
            /\ pc' = [pc EXCEPT ![p] = IF LastEnd(p) THEN "kfree" ELSE "closed"]
            /\ IF p \in Writer THEN writeopen' = 0 /\ UNCHANGED readopen
                               ELSE readopen' = 0 /\ UNCHANGED writeopen
  /\ UNCHANGED <<ring, allocated, left, addr, killed>>

\* fileclose: the last process of an end calls pipeclose.
pipeclose(p) ==
  /\ pc[p] = "out"
  /\ IF \E q \in End(p) \ {p} : pc[q] # "closed"
       THEN pc' = [pc EXCEPT ![p] = "closed"] /\ UNCHANGED <<readopen, writeopen>>
       ELSE /\ Unlocked
            /\ pc' = [Wake(Process \ End(p)) EXCEPT ![p] = IF LastEnd(p) THEN "kfree" ELSE "closed"]
            /\ IF p \in Writer THEN writeopen' = 0 /\ UNCHANGED readopen
                               ELSE readopen' = 0 /\ UNCHANGED writeopen
  /\ UNCHANGED <<ring, allocated, left, addr, killed>>

\* kfree, after the lock has been released.
kfree(p) ==
  /\ pc[p] = "kfree"
  /\ allocated' = allocated - 1
  /\ pc' = [pc EXCEPT ![p] = "closed"]
  /\ UNCHANGED <<ring, readopen, writeopen, left, addr, killed>>

\* Everybody has closed the pipe.
Done == (\A p \in Process : pc[p] = "closed") /\ UNCHANGED vars

-----------------------------------------------------------------------------

Kernel(p) ==
  \/ p \in Writer /\ pipewrite(p)
  \/ p \in Reader /\ piperead(p)
  \/ sleep(p) \/ kfree(p)

Next == (\E p \in Process : Kernel(p) \/ call(p) \/ kill(p) \/ pipeclose(p)) \/ Done

\* A process in the kernel keeps running.  Nothing is assumed of contended locks.
Fairness == \A p \in Process : WF_vars(Kernel(p))

Spec == Init /\ [][Next]_vars
FairSpec == Spec /\ Fairness

-----------------------------------------------------------------------------
(* Properties *)

\* The ring buffer, with its wrapping counters, is a bounded queue of bytes
\* with an end of file: nothing is lost, duplicated, reordered or overwritten.
Queue == INSTANCE ByteQueue WITH
  Capacity <- PIPESIZE, got <- addr, writers <- writeopen,
  queue <- [x \in 1..Used |-> data[(nread + x - 1) % PIPESIZE]]
IsQueue == Queue!Spec

\* Nobody sleeps on a pipe that has something for them: a sleeping reader has
\* no data and a writer to expect it from, a sleeping writer has no room and a
\* reader to make it.  This is so while no writer is killed, that is for
\* Killable \subseteq Reader: a killed writer that finds the ring full returns
\* without waking the readers of what it has stored (pipe.c:86).
NoLostWakeup ==
  \A p \in Process : pc[p] = "asleep" =>
    IF p \in Reader THEN nread = nwrite /\ writeopen = 1 ELSE Used = PIPESIZE /\ readopen = 1

\* The pipe's page is freed once, after both ends are closed and everybody has
\* left.
FreedWhenClosed ==
  /\ allocated < 1 => \A p \in Process : pc[p] = "closed"
  /\ (\A p \in Process : pc[p] = "closed") => allocated = 0

\* A reader learns that the last writer has gone, however far it got.
EndOfFileReachesReader ==
  \A r \in Reader : pc[r] \in {"call", "block", "asleep"} /\ writeopen = 0 ~> pc[r] = "out"

\* Sleepers and the page: nobody sleeps on a pipe that has something for them
\* (readers may be killed, writers not), and the pipe's memory is freed exactly when everybody has left.
Inv == TypeOK /\ NoLostWakeup /\ FreedWhenClosed
=============================================================================
