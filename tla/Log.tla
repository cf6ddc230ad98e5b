--------------------------------- MODULE Log ---------------------------------
(***************************************************************************)
(* The write-ahead log of xv6/log.c: concurrent file system calls share one *)
(* transaction, the last one to finish commits it block by block, and a     *)
(* crash may come between any two disk writes, also during recovery.        *)
(*                                                                         *)
(* A step under log.lock is one action: the lock excludes other CPUs        *)
(* (SpinLock) and sleep() gives it up and blocks in one step (Sched).  Disk *)
(* writes are synchronous and a block (one sector) is written whole.  The   *)
(* buffer cache appears as the contents it holds and the B_DIRTY flags that *)
(* keep a buffer from being recycled (bio.c); a process that changes a      *)
(* block holds its buffer's sleep lock.                                     *)
(***************************************************************************)
EXTENDS Naturals, Sequences, FiniteSets, Functions

CONSTANTS
  Proc, Block, Value,
  MAXOPBLOCKS,     \* param.h: log space reserved for one call
  LOGSIZE,         \* param.h: what begin_op takes the log to hold
  NLog,            \* sb.nlog: header and data blocks of the on-disk log
  OpBlocks,        \* the most distinct blocks that a call really writes
  NoBlock, NotCached

ASSUME LogAssumption ==
  /\ {MAXOPBLOCKS, LOGSIZE, NLog, OpBlocks} \subseteq Nat \ {0}
  /\ MAXOPBLOCKS <= LOGSIZE
  /\ NoBlock \notin Block /\ NotCached \notin Value

\* The log on disk is as large as mkfs makes it, and a call leaves two of the
\* blocks that begin_op reserves for it (10) unused: a chunk of filewrite, the
\* largest, writes at most four data blocks, the indirect block, the bitmap's
\* only block and the inode's.  With one left, log_write's test against
\* size - 1 can fail, since the header takes a block as well.
ASSUME SlopAssumption == LOGSIZE <= NLog /\ OpBlocks + 2 <= MAXOPBLOCKS

ASSUME FiniteAssumption == IsFiniteSet(Proc)

VARIABLES
  disk,         \* home locations of the blocks
  logblk,       \* the on-disk log's data blocks
  head,         \* the on-disk header: its first n block numbers
  cache,        \* contents of the cached buffers
  dirty,        \* blocks whose buffer has B_DIRTY
  lh,           \* log.lh: its first n block numbers
  outstanding, committing,   \* the fields of struct log
  pc,           \* where a process stands
  mod,          \* the block whose buffer a process has locked and changed
  wrote,        \* the blocks a call has written so far
  stage, tail,  \* progress of commit or of recovery
  panicked

diskvars == <<disk, logblk, head>>
logvars == <<lh, outstanding, committing>>
opvars == <<pc, mod, wrote>>
vars == <<disk, logblk, head, cache, dirty, lh, outstanding, committing,
          pc, mod, wrote, stage, tail, panicked>>

Stage == {"up", "write_log", "write_head", "install", "clear", "done",
          "read_head", "reinstall", "reclear"}

TypeOK ==
  /\ disk \in [Block -> Value]
  /\ logblk \in [1..(NLog - 1) -> Value]
  /\ head \in Seq(Block)
  /\ cache \in [Block -> Value \cup {NotCached}]
  /\ dirty \subseteq Block
  /\ lh \in Seq(Block)
  /\ outstanding \in Nat
  /\ committing \in {0, 1}
  /\ pc \in [Proc -> {"idle", "begin_op", "asleep", "op", "commit"}]
  /\ mod \in [Proc -> Block \cup {NoBlock}]
  /\ wrote \in [Proc -> SUBSET Block]
  /\ stage \in Stage
  /\ tail \in Nat \ {0}
  /\ panicked \in {0, 1}

\* A disk as mkfs leaves it, about to be booted.
Init ==
  /\ disk \in [Block -> Value]
  /\ \E v \in Value : logblk = [i \in 1..(NLog - 1) |-> v]
  /\ head = <<>>
  /\ cache = [b \in Block |-> NotCached]
  /\ dirty = {}
  /\ lh = <<>> /\ outstanding = 0 /\ committing = 0
  /\ pc = [p \in Proc |-> "idle"]
  /\ mod = [p \in Proc |-> NoBlock]
  /\ wrote = [p \in Proc |-> {}]
  /\ stage = "read_head" /\ tail = 1
  /\ panicked = 0

Recovering == stage \in {"read_head", "reinstall", "reclear"}
Running == panicked = 0 /\ ~Recovering

\* What bread returns for block b.
Content(b) == IF cache[b] = NotCached THEN disk[b] ELSE cache[b]

\* wakeup(&log)
Woken == [p \in Proc |-> IF pc[p] = "asleep" THEN "begin_op" ELSE pc[p]]

-----------------------------------------------------------------------------
(* The buffer cache, as far as the log depends on it. *)

\* A read of a block outside any transaction, or before changing it.
bread(b) ==
  /\ Running
  /\ cache[b] = NotCached
  /\ cache' = [cache EXCEPT ![b] = disk[b]]
  /\ UNCHANGED <<diskvars, dirty, logvars, opvars, stage, tail, panicked>>

\* Variant: a modified buffer may be recycled as soon as it is unlocked.
bget_recycles_dirty(b) ==
  /\ Running
  /\ cache[b] # NotCached /\ \A p \in Proc : mod[p] # b
  /\ cache' = [cache EXCEPT ![b] = NotCached]
  /\ UNCHANGED <<diskvars, dirty, logvars, opvars, stage, tail, panicked>>

\* bget recycles b's buffer for another block.
bget(b) ==
  /\ Running
  /\ cache[b] # NotCached /\ b \notin dirty /\ \A p \in Proc : mod[p] # b
  /\ cache' = [cache EXCEPT ![b] = NotCached]
  /\ UNCHANGED <<diskvars, dirty, logvars, opvars, stage, tail, panicked>>

-----------------------------------------------------------------------------
(* File system calls. *)

call(p) ==
  /\ Running
  /\ pc[p] = "idle"
  /\ pc' = [pc EXCEPT ![p] = "begin_op"]
  /\ wrote' = [wrote EXCEPT ![p] = {}]
  /\ UNCHANGED <<diskvars, cache, dirty, logvars, mod, stage, tail, panicked>>

LogFull == Len(lh) + (outstanding + 1) * MAXOPBLOCKS > LOGSIZE

\* One pass of the loop in begin_op.
begin_op(p) ==
  /\ Running
  /\ pc[p] = "begin_op"
  /\ IF committing = 1 \/ LogFull
       THEN pc' = [pc EXCEPT ![p] = "asleep"] /\ UNCHANGED outstanding
       ELSE pc' = [pc EXCEPT ![p] = "op"] /\ outstanding' = outstanding + 1
  /\ UNCHANGED <<diskvars, cache, dirty, lh, committing, mod, wrote, stage, tail, panicked>>

\* The two panics at the top of log_write, tested without log.lock.
log_write_panics ==
  \/ Len(lh) >= LOGSIZE \/ Len(lh) >= NLog - 1
  \/ outstanding < 1

\* bread, a change of the data, and log_write up to its acquire.
modify(p, b, v) ==
  /\ Running
  /\ pc[p] = "op" /\ mod[p] = NoBlock
  /\ \A q \in Proc : mod[q] # b
  /\ b \in wrote[p] \/ Cardinality(wrote[p]) < OpBlocks
  /\ cache' = [cache EXCEPT ![b] = v]
  /\ mod' = [mod EXCEPT ![p] = b]
  /\ wrote' = [wrote EXCEPT ![p] = @ \cup {b}]
  /\ panicked' = IF log_write_panics THEN 1 ELSE 0
  /\ UNCHANGED <<diskvars, dirty, logvars, pc, stage, tail>>

\* The critical section of log_write, then brelse.
log_write(p) ==
  /\ Running
  /\ mod[p] # NoBlock
  /\ lh' = IF mod[p] \in Range(lh) THEN lh ELSE Append(lh, mod[p])
  /\ dirty' = dirty \cup {mod[p]}
  /\ mod' = [mod EXCEPT ![p] = NoBlock]
  /\ UNCHANGED <<diskvars, cache, outstanding, committing, pc, wrote, stage, tail, panicked>>

\* end_op up to commit(): the last call turns committer, any other one wakes
\* the processes waiting for log space and returns.
end_op(p) ==
  /\ Running
  /\ pc[p] = "op" /\ mod[p] = NoBlock
  /\ outstanding' = outstanding - 1
  /\ panicked' = committing
  /\ IF outstanding = 1
       THEN /\ committing' = 1
            /\ pc' = [pc EXCEPT ![p] = "commit"]
            /\ stage' = IF lh # <<>> THEN "write_log" ELSE "done"
       ELSE /\ pc' = [Woken EXCEPT ![p] = "idle"]
            /\ UNCHANGED <<committing, stage>>
  /\ tail' = 1
  /\ UNCHANGED <<diskvars, cache, dirty, lh, mod, wrote>>

-----------------------------------------------------------------------------
(* commit(), one disk write at a time. *)

\* Variant: the loop ends one block early.
Advance_short(t) ==
  IF tail + 1 >= Len(lh) THEN stage' = t /\ tail' = 1
                         ELSE tail' = tail + 1 /\ UNCHANGED stage

\* Leaves the stage for t once tail has passed the last block.
Advance(t) ==
  IF tail = Len(lh) THEN stage' = t /\ tail' = 1
                    ELSE tail' = tail + 1 /\ UNCHANGED stage

\* Variant: the blocks are installed without the header having been written.
write_log_without_head ==
  /\ Running /\ stage = "write_log"
  /\ logblk' = [logblk EXCEPT ![tail] = Content(lh[tail])]
  /\ cache' = [cache EXCEPT ![lh[tail]] = Content(lh[tail])]
  /\ Advance("install")
  /\ UNCHANGED <<disk, head, dirty, logvars, opvars, panicked>>

\* One pass of the loop in write_log.
write_log ==
  /\ Running /\ stage = "write_log"
  /\ logblk' = [logblk EXCEPT ![tail] = Content(lh[tail])]
  /\ cache' = [cache EXCEPT ![lh[tail]] = Content(lh[tail])]
  /\ Advance("write_head")
  /\ UNCHANGED <<disk, head, dirty, logvars, opvars, panicked>>

\* The first write_head of commit: the true point of commit.
write_head ==
  /\ Running /\ stage = "write_head"
  /\ head' = lh
  /\ stage' = "install"
  /\ UNCHANGED <<disk, logblk, cache, dirty, logvars, opvars, tail, panicked>>

\* One pass of the loop in install_trans: bwrite puts the log block in its
\* home location and the disk interrupt clears B_DIRTY.
Install ==
  /\ disk' = [disk EXCEPT ![lh[tail]] = logblk[tail]]
  /\ cache' = [cache EXCEPT ![lh[tail]] = logblk[tail]]
  /\ dirty' = dirty \ {lh[tail]}
  /\ UNCHANGED <<logblk, head, logvars, opvars, panicked>>

install_trans == Running /\ stage = "install" /\ Install /\ Advance("clear")

\* log.lh.n = 0 and the write_head that erases the transaction.
Erase ==
  /\ lh' = <<>>
  /\ head' = <<>>
  /\ UNCHANGED <<disk, logblk, cache, dirty, outstanding, committing, opvars, tail, panicked>>

clear == Running /\ stage = "clear" /\ Erase /\ stage' = "done"

\* Variant: the committer does not wake the waiting calls.
commit_done_silent(p) ==
  /\ Running /\ stage = "done"
  /\ pc[p] = "commit"
  /\ committing' = 0
  /\ pc' = [pc EXCEPT ![p] = "idle"]
  /\ stage' = "up"
  /\ UNCHANGED <<diskvars, cache, dirty, lh, outstanding, mod, wrote, tail, panicked>>

\* The end of end_op, after commit.
commit_done(p) ==
  /\ Running /\ stage = "done"
  /\ pc[p] = "commit"
  /\ committing' = 0
  /\ pc' = [Woken EXCEPT ![p] = "idle"]
  /\ stage' = "up"
  /\ UNCHANGED <<diskvars, cache, dirty, lh, outstanding, mod, wrote, tail, panicked>>

-----------------------------------------------------------------------------
(* Crash and recovery. *)

\* Power failure or panic at any point: memory is lost, the disk is kept.
Crash ==
  /\ cache' = [b \in Block |-> NotCached]
  /\ dirty' = {}
  /\ lh' = <<>> /\ outstanding' = 0 /\ committing' = 0
  /\ pc' = [p \in Proc |-> "idle"]
  /\ mod' = [p \in Proc |-> NoBlock]
  /\ wrote' = [p \in Proc |-> {}]
  /\ stage' = "read_head" /\ tail' = 1
  /\ panicked' = 0
  /\ UNCHANGED diskvars

\* initlog calls recover_from_log before any process runs.
read_head ==
  /\ panicked = 0 /\ stage = "read_head"
  /\ lh' = head
  /\ stage' = IF head = <<>> THEN "reclear" ELSE "reinstall"
  /\ UNCHANGED <<diskvars, cache, dirty, outstanding, committing, opvars, tail, panicked>>

reinstall == panicked = 0 /\ stage = "reinstall" /\ Install /\ Advance("reclear")

reclear == panicked = 0 /\ stage = "reclear" /\ Erase /\ stage' = "up"

Commit == write_log \/ write_head \/ install_trans \/ clear
Recover == read_head \/ reinstall \/ reclear

Next ==
  \/ \E b \in Block : bread(b) \/ bget(b)
  \/ \E p \in Proc : call(p) \/ begin_op(p) \/ log_write(p) \/ end_op(p) \/ commit_done(p)
  \/ \E p \in Proc, b \in Block, v \in Value : modify(p, b, v)
  \/ Commit
  \/ Recover
  \/ Crash

\* A process that can step in the kernel does, and a call writes a bounded
\* number of blocks, so it comes to its end_op.
Fairness ==
  /\ WF_vars(Commit) /\ WF_vars(Recover)
  /\ \A p \in Proc :
       WF_vars(begin_op(p)) /\ WF_vars(log_write(p)) /\ WF_vars(commit_done(p)) /\ SF_vars(end_op(p))

Spec == Init /\ [][Next]_vars
FairSpec == Spec /\ Fairness

-----------------------------------------------------------------------------
(* Properties *)

\* The contents a crash leaves: the home locations, overlaid with the blocks
\* that a committed header names.
Overlay ==
  [b \in Block |-> IF b \in Range(head) THEN logblk[CHOOSE i \in DOMAIN head : head[i] = b]
                                        ELSE disk[b]]

Disk == INSTANCE AtomicDisk WITH
  stable <- Overlay,
  mem <- IF Recovering THEN Overlay ELSE [b \in Block |-> Content(b)],
  active <- {p \in Proc : pc[p] = "op"}

\* Crash atomicity: log, cache and disk together behave like a disk whose
\* contents change only at moments when no call is in progress, and to which a
\* crash at any point, also during commit or recovery, always goes back.
AtomicUpdates == Disk!Spec

\* end_op is synchronous: when no call is in progress and no commit is running,
\* everything that calls have written survives a crash.
QuiescentIsDurable ==
  Running /\ outstanding = 0 /\ committing = 0 =>
    \A b \in Block : Content(b) = Overlay[b]

\* Write-ahead: a home location is only ever overwritten while a committed
\* header on disk names it, so that the write can be redone.
WriteAhead == [][\A b \in Block : disk'[b] # disk[b] => b \in Range(head)]_vars

\* begin_op's reservation is sufficient: no call that writes at most OpBlocks
\* blocks runs into "too big a transaction", none is outside a transaction at
\* log_write, and none ends during a commit.
NoPanic == panicked = 0

\* A process asleep in begin_op has somebody to wake it: a call that will end
\* or a commit that will finish.
SleeperHasWaker ==
  Running => \A p \in Proc : pc[p] = "asleep" =>
    committing = 1 \/ (outstanding > 0 /\ LogFull)

\* A process that waits for log space is eventually woken.
WaiterIsWoken == \A p \in Proc : pc[p] = "asleep" ~> pc[p] # "asleep"

\* The log is consistent whenever somebody can look: what finished calls wrote
\* is durable, a sleeper in begin_op has somebody to wake it, and neither
\* begin_op's reservation nor the order of calls fails log.c's panics.
Inv == TypeOK /\ NoPanic /\ SleeperHasWaker /\ QuiescentIsDurable
=============================================================================
