------------------------------- MODULE Bcache -------------------------------
(***************************************************************************)
(* The buffer cache (xv6/bio.c) over the disk driver (xv6/ide.c).           *)
(* Processes read blocks, modify them, write them or leave them to the log  *)
(* (log.c's log_write marks a buffer B_DIRTY and releases it), and release  *)
(* them.  A critical section of bcache.lock, of idelock or of a sleep       *)
(* lock's spinlock is one action.                                           *)
(***************************************************************************)
EXTENDS Integers, Sequences, FiniteSets, Functions

CONSTANTS
  Process, Buf, Block, Value,
  NoBlock, NoBuf, NoProc,
  PINNED,      \* bound: buffers the log keeps dirty between transactions
  DISK_ERRORS  \* whether a read may fail

ASSUME BcacheAssumption ==
  /\ IsFiniteSet(Process) /\ IsFiniteSet(Buf) /\ Value # {}
  /\ PINNED \in Nat /\ DISK_ERRORS \in BOOLEAN
  /\ NoBlock \notin Block /\ NoBuf \notin Buf /\ NoProc \notin Process

VARIABLES
  lru,        \* bcache.head's list, most recently used first
  blockno, valid, dirty, refcnt, data,   \* fields of struct buf
  lock,       \* the process that holds b->lock
  waiting,    \* processes asleep in acquiresleep or in iderw, on the buffer buf[p]
  idequeue,   \* the queue of buffers; the first is the active request
  active,     \* the request idestart has given to the controller
  disk,
  pc, buf, want,   \* control point, the buffer and the block of bread
  panicked    \* 0; 1 if a check failed; NoBuffers if bget found no buffer

buffers == <<blockno, valid, dirty, refcnt, data>>
vars == <<lru, blockno, valid, dirty, refcnt, data, lock, waiting, idequeue, active, disk,
          pc, buf, want, panicked>>

NoBuffers == 2

Idle == [buf |-> NoBuf, write |-> 0, data |-> CHOOSE v \in Value : TRUE]

TypeOK ==
  /\ lru \in [1..Cardinality(Buf) -> Buf] /\ Range(lru) = Buf
  /\ blockno \in [Buf -> Block \cup {NoBlock}]
  /\ valid \in [Buf -> {0, 1}] /\ dirty \in [Buf -> {0, 1}]
  /\ refcnt \in [Buf -> 0..Cardinality(Process)]
  /\ data \in [Buf -> Value]
  /\ lock \in [Buf -> Process \cup {NoProc}]
  /\ waiting \subseteq Process
  /\ idequeue \in Seq(Buf)
  /\ active \in [buf : Buf \cup {NoBuf}, write : {0, 1}, data : Value]
  /\ disk \in [Block -> Value]
  /\ pc \in [Process -> {"out", "acquiresleep", "bread", "iderw", "hold", "bwrite", "brelse"}]
  /\ buf \in [Process -> Buf \cup {NoBuf}]
  /\ want \in [Process -> Block \cup {NoBlock}]
  /\ panicked \in {0, 1, NoBuffers}

\* binit: all buffers are empty.
Init ==
  /\ lru = CHOOSE s \in [1..Cardinality(Buf) -> Buf] : Range(s) = Buf
  /\ blockno = [b \in Buf |-> NoBlock]
  /\ valid = [b \in Buf |-> 0] /\ dirty = [b \in Buf |-> 0] /\ refcnt = [b \in Buf |-> 0]
  /\ data = [b \in Buf |-> CHOOSE v \in Value : TRUE]
  /\ lock = [b \in Buf |-> NoProc]
  /\ waiting = {} /\ idequeue = << >> /\ active = Idle
  /\ disk \in [Block -> Value]
  /\ pc = [p \in Process |-> "out"]
  /\ buf = [p \in Process |-> NoBuf]
  /\ want = [p \in Process |-> NoBlock]
  /\ panicked = 0

At(p, s) == panicked = 0 /\ pc[p] = s /\ p \notin waiting
Goto(p, s) == pc' = [pc EXCEPT ![p] = s]

-----------------------------------------------------------------------------
(* bio.c *)

Cached(n) == {b \in Buf : blockno[b] = n}

\* Variant: a buffer the log needs is recycled.
Recyclable_dirty == {b \in Buf : refcnt[b] = 0}

\* Neither referenced nor kept for the log.
Recyclable == {b \in Buf : refcnt[b] = 0 /\ dirty[b] = 0}

\* b is the last of B in the list, that is the least recently used.
LeastRecent(b, B) ==
  \E j \in 1..Cardinality(Buf) : lru[j] = b /\ \A i \in (j + 1)..Cardinality(Buf) : lru[i] \notin B

\* bget up to release(&bcache.lock): the block's buffer, or a recycled one.
bget(p, n) ==
  /\ At(p, "out")
  /\ want' = [want EXCEPT ![p] = n]
  /\ IF Cached(n) # {}
       THEN \E b \in Cached(n) :
              /\ refcnt' = [refcnt EXCEPT ![b] = @ + 1]
              /\ buf' = [buf EXCEPT ![p] = b]
              /\ UNCHANGED <<blockno, valid, dirty, data, panicked>>
       ELSE IF Recyclable # {}
       THEN \E b \in Recyclable :
              /\ LeastRecent(b, Recyclable)
              /\ blockno' = [blockno EXCEPT ![b] = n]
              /\ valid' = [valid EXCEPT ![b] = 0] /\ dirty' = [dirty EXCEPT ![b] = 0]
              /\ refcnt' = [refcnt EXCEPT ![b] = 1]
              /\ buf' = [buf EXCEPT ![p] = b]
              /\ UNCHANGED <<data, panicked>>
       ELSE panicked' = NoBuffers /\ UNCHANGED <<buffers, buf>>
  /\ Goto(p, "acquiresleep")
  /\ UNCHANGED <<lru, lock, waiting, idequeue, active, disk>>

\* One round of acquiresleep's loop.
acquiresleep(p) ==
  /\ At(p, "acquiresleep")
  /\ IF lock[buf[p]] # NoProc
       THEN waiting' = waiting \cup {p} /\ UNCHANGED <<lock, pc>>
       ELSE /\ lock' = [lock EXCEPT ![buf[p]] = p]
            /\ Goto(p, "bread")
            /\ UNCHANGED waiting
  /\ UNCHANGED <<lru, buffers, idequeue, active, disk, buf, want, panicked>>

\* idestart(b): a write hands over the data now.
Request(b, dirt) ==
  IF dirt = 1 THEN [buf |-> b, write |-> 1, data |-> data[b]] ELSE [Idle EXCEPT !.buf = b]

\* iderw: append to the queue, start the disk if it was idle, and sleep.
iderw(p, dirt) ==
  LET b == buf[p] IN
    /\ panicked' = IF lock[b] # p \/ (valid[b] = 1 /\ dirt = 0) THEN 1 ELSE 0
    /\ idequeue' = Append(idequeue, b)
    /\ active' = IF idequeue = << >> THEN Request(b, dirt) ELSE active
    /\ waiting' = waiting \cup {p}
    /\ Goto(p, "iderw")

\* bread, once it has the buffer's lock.
bread(p) ==
  /\ At(p, "bread")
  /\ IF valid[buf[p]] = 1
       THEN Goto(p, "hold") /\ UNCHANGED <<idequeue, active, waiting, panicked>>
       ELSE iderw(p, dirty[buf[p]])
  /\ UNCHANGED <<lru, buffers, lock, disk, buf, want>>

\* The loop of iderw after a wakeup.
iderw_wake(p) ==
  /\ At(p, "iderw")
  /\ IF valid[buf[p]] = 1 /\ dirty[buf[p]] = 0
       THEN Goto(p, "hold") /\ UNCHANGED waiting
       ELSE waiting' = waiting \cup {p} /\ UNCHANGED pc
  /\ UNCHANGED <<lru, buffers, lock, idequeue, active, disk, buf, want, panicked>>

\* The holder changes the data and calls bwrite, which marks it and calls iderw.
modify(p, v) ==
  /\ At(p, "hold")
  /\ data' = [data EXCEPT ![buf[p]] = v]
  /\ dirty' = [dirty EXCEPT ![buf[p]] = 1]
  /\ Goto(p, "bwrite")
  /\ UNCHANGED <<lru, blockno, valid, refcnt, lock, waiting, idequeue, active, disk, buf, want,
                 panicked>>

bwrite(p) ==
  /\ At(p, "bwrite")
  /\ iderw(p, dirty[buf[p]])
  /\ UNCHANGED <<lru, buffers, lock, disk, buf, want>>

\* The holder changes the data and leaves the writing to the log.
log_write(p, v) ==
  /\ At(p, "hold")
  /\ Cardinality({b \in Buf : dirty[b] = 1} \cup {buf[p]}) <= PINNED
  /\ data' = [data EXCEPT ![buf[p]] = v]
  /\ dirty' = [dirty EXCEPT ![buf[p]] = 1]
  /\ UNCHANGED <<lru, blockno, valid, refcnt, lock, waiting, idequeue, active, disk, pc, buf, want,
                 panicked>>

\* Variant: processes waiting for the lock are not woken.
releasesleep_silent(p) ==
  /\ At(p, "hold")
  /\ panicked' = IF lock[buf[p]] # p THEN 1 ELSE 0
  /\ lock' = [lock EXCEPT ![buf[p]] = NoProc]
  /\ Goto(p, "brelse")
  /\ UNCHANGED <<lru, buffers, waiting, idequeue, active, disk, buf, want>>

\* brelse: first releasesleep, with its wakeup ...
releasesleep(p) ==
  /\ At(p, "hold")
  /\ panicked' = IF lock[buf[p]] # p THEN 1 ELSE 0
  /\ lock' = [lock EXCEPT ![buf[p]] = NoProc]
  /\ waiting' = waiting \ {q \in Process : buf[q] = buf[p] /\ pc[q] = "acquiresleep"}
  /\ Goto(p, "brelse")
  /\ UNCHANGED <<lru, buffers, idequeue, active, disk, buf, want>>

\* Unlinked, and linked in again at the head.
MoveToFront(b) ==
  LET k == CHOOSE j \in 1..Cardinality(Buf) : lru[j] = b IN
    [j \in 1..Cardinality(Buf) |-> IF j = 1 THEN b ELSE IF j <= k THEN lru[j - 1] ELSE lru[j]]

\* ... then, under bcache.lock, the reference and the place in the list.
brelse(p) ==
  /\ At(p, "brelse")
  /\ LET b == buf[p] IN
       /\ refcnt' = [refcnt EXCEPT ![b] = @ - 1]
       /\ lru' = IF refcnt[b] = 1 THEN MoveToFront(b) ELSE lru
  /\ buf' = [buf EXCEPT ![p] = NoBuf]
  /\ want' = [want EXCEPT ![p] = NoBlock]
  /\ Goto(p, "out")
  /\ UNCHANGED <<blockno, valid, dirty, data, lock, waiting, idequeue, active, disk, panicked>>

-----------------------------------------------------------------------------
(* ide.c *)

\* idestart on the rest of the queue.
StartNext ==
  IF Len(idequeue) = 1 THEN Idle ELSE Request(idequeue[2], dirty[idequeue[2]])

\* What ideintr leaves in buffer b: the block, unless it was written or
\* idewait(1) reports an error.
Transferred(b) ==
  {IF dirty[b] = 0 THEN [data EXCEPT ![b] = disk[blockno[b]]] ELSE data}
    \cup (IF DISK_ERRORS THEN {data} ELSE {})

\* The active request completes and the controller interrupts.  The buffer is
\* valid whether or not the read failed.
ideintr ==
  /\ panicked = 0
  /\ active.buf # NoBuf
  /\ LET b == Head(idequeue) IN
       /\ disk' = IF active.write = 1 THEN [disk EXCEPT ![blockno[active.buf]] = active.data]
                                      ELSE disk
       /\ data' \in Transferred(b)
       /\ valid' = [valid EXCEPT ![b] = 1]
       /\ dirty' = [dirty EXCEPT ![b] = 0]
       /\ waiting' = waiting \ {q \in Process : buf[q] = b /\ pc[q] = "iderw"}
  /\ idequeue' = Tail(idequeue)
  /\ active' = StartNext
  /\ UNCHANGED <<lru, blockno, refcnt, lock, pc, buf, want, panicked>>

-----------------------------------------------------------------------------

Step(p) ==
  \/ acquiresleep(p) \/ bread(p) \/ iderw_wake(p) \/ bwrite(p) \/ brelse(p)

Next ==
  \/ \E p \in Process :
       \/ Step(p) \/ releasesleep(p)
       \/ \E n \in Block : bget(p, n)
       \/ \E v \in Value : modify(p, v) \/ log_write(p, v)
  \/ ideintr

Spec == Init /\ [][Next]_vars

-----------------------------------------------------------------------------
(* Properties *)

\* The cache is the synchronization point for blocks: a block never has two
\* buffers, not even while one of them is on its way in.
OneBufferPerBlock ==
  \A a, b \in Buf : blockno[a] = blockno[b] /\ blockno[a] # NoBlock => a = b

\* What bread returned is, until brelse, the block that was asked for, read
\* from the disk and for this process alone: nobody recycles the buffer of a
\* process that was waiting for its lock.
HolderHasItsBlock ==
  \A p \in Process : pc[p] = "hold" =>
    /\ blockno[buf[p]] = want[p] /\ valid[buf[p]] = 1 /\ lock[buf[p]] = p
    /\ \A q \in Process \ {p} : pc[q] \in {"hold", "bwrite", "iderw"} => buf[q] # buf[p]

\* What a reader of block n would get: from its buffer, else from the disk.
Contents(n) ==
  IF \E b \in Cached(n) : valid[b] = 1 THEN data[CHOOSE b \in Cached(n) : TRUE] ELSE disk[n]

\* Only a process that holds a block changes what its readers get: recycling,
\* reading, writing back and reordering in the queue lose no update.
OnlyHolderChanges ==
  [][\A n \in Block : Contents(n)' # Contents(n) =>
       \E p \in Process : pc[p] = "hold" /\ want[p] = n]_vars

\* The driver: the disk works on the first buffer of the queue whenever there
\* is one, and every queued buffer is queued once, locked, and has its owner
\* waiting for it.
QueueIsServed ==
  /\ active.buf = IF idequeue = << >> THEN NoBuf ELSE Head(idequeue)
  /\ IsInjective(idequeue)
  /\ \A b \in Range(idequeue) :
       \E p \in waiting : pc[p] = "iderw" /\ buf[p] = b /\ lock[b] = p

\* No process sleeps on a lock that is free.
NoLostWakeup ==
  \A p \in waiting : pc[p] = "acquiresleep" => lock[buf[p]] # NoProc

\* The checks of brelse and iderw (the lock is held, there is
\* something to do) never fail, and bget panics only when every buffer is in use
\* or dirty.
PanicsOutOfBuffers == panicked # 1 /\ (panicked = NoBuffers => Recyclable = {})

\* What bio.c says of the flag: a valid buffer that nobody has changed holds what
\* is on the disk.
ValidWasRead ==
  \A b \in Buf : valid[b] = 1 /\ dirty[b] = 0 => data[b] = disk[blockno[b]]

\* The cache is consistent: one buffer for a block, the buffer a process holds
\* is the block it asked for, the disk works through a queue of locked buffers,
\* nobody sleeps on a free lock, a valid buffer holds what is on the disk, and
\* bio.c and ide.c panic only for want of a buffer.  (The panics of ide.c at a
\* block that is not on the disk and at a disk that is not there are left out:
\* Block is what is there.)
Inv == TypeOK /\ PanicsOutOfBuffers /\ NoLostWakeup /\ OneBufferPerBlock /\ HolderHasItsBlock /\ ValidWasRead /\ QueueIsServed
=============================================================================
