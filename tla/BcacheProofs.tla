----------------------------- MODULE BcacheProofs -----------------------------
(***************************************************************************)
(* The safety properties of Bcache for any processes, buffers, blocks and   *)
(* contents.                                                                *)
(***************************************************************************)
EXTENDS BcacheStepProofs

-----------------------------------------------------------------------------
(* The interrupt *)

\* The disk is at work only while there is a queue, and then for its first
\* buffer, whose owner sleeps.
LEMMA AtWork ==
  ASSUME IInv, active.buf # NoBuf
  PROVE  /\ Len(idequeue) \in Nat /\ Len(idequeue) >= 1 /\ idequeue[1] \in Buf
         /\ active = Request(idequeue[1], dirty[idequeue[1]])
         /\ active.buf = idequeue[1] /\ blockno[idequeue[1]] \in Block
         /\ \E o \in waiting : pc[o] = "iderw" /\ buf[o] = idequeue[1]
<1>1. idequeue # << >> /\ active = Request(idequeue[1], dirty[idequeue[1]])
  BY DEF IInv, Served, Idle
<1>2. Len(idequeue) \in Nat /\ Len(idequeue) >= 1 /\ idequeue[1] \in Buf
  BY <1>1, Types
<1>3. PICK o \in waiting : pc[o] = "iderw" /\ buf[o] = idequeue[1]
  BY <1>2 DEF IInv, Queued
<1>4. blockno[idequeue[1]] \in Block
  BY <1>2, <1>3, Types, BcacheAssumption DEF IInv, Owns
<1>5. active.buf = idequeue[1]
  BY <1>1 DEF Request, Idle
<1>6. QED BY <1>1, <1>2, <1>3, <1>4, <1>5

LEMMA IdeintrIInv ==
  ASSUME IInv, ideintr
  PROVE  IInv'
<1>1. PICK b \in Buf :
        /\ b = idequeue[1] /\ Len(idequeue) \in Nat /\ Len(idequeue) >= 1 /\ blockno[b] \in Block
        /\ active = Request(b, dirty[b]) /\ active.buf = b
        /\ \E o \in waiting : pc[o] = "iderw" /\ buf[o] = b
  BY AtWork DEF ideintr
<1>2. Head(idequeue) = b
  BY <1>1, Types
<1>3. /\ panicked = 0
      /\ disk' = IF active.write = 1 THEN [disk EXCEPT ![blockno[active.buf]] = active.data] ELSE disk
      /\ data' \in Transferred(b)
      /\ valid' = [valid EXCEPT ![b] = 1] /\ dirty' = [dirty EXCEPT ![b] = 0]
      /\ waiting' = waiting \ {q \in Process : buf[q] = b /\ pc[q] = "iderw"}
      /\ idequeue' = Tail(idequeue)
      /\ active' = IF Len(idequeue) = 1 THEN Idle ELSE Request(idequeue[2], dirty[idequeue[2]])
      /\ UNCHANGED <<lru, blockno, refcnt, lock, pc, buf, want, panicked>>
  BY <1>2, Zenon DEF ideintr, StartNext
<1>4. /\ valid' \in [Buf -> {0, 1}] /\ dirty' \in [Buf -> {0, 1}] /\ waiting' \subseteq waiting
      /\ valid'[b] = 1 /\ dirty'[b] = 0
      /\ \A x \in Buf : x # b => valid'[x] = valid[x] /\ dirty'[x] = dirty[x]
  BY <1>3, Types
<1>5. disk \in [Block -> Value]
  BY DEF IInv, TypeOK
<1>6. data' \in [Buf -> Value] /\ \A x \in Buf : x # b => data'[x] = data[x]
  <2>1. data' = data \/ data' = [data EXCEPT ![b] = disk[blockno[b]]]
    BY <1>3, Zenon DEF Transferred
  <2>2. disk[blockno[b]] \in Value /\ data \in [Buf -> Value]
    BY <1>1, <1>5, Types
  <2>3. QED BY <2>1, <2>2
<1>7. disk' \in [Block -> Value]
  <2>1. active.data \in Value
    BY ActiveType
  <2>2. QED BY <1>1, <1>3, <1>5, <2>1
<1>8. /\ idequeue' \in Seq(Buf) /\ Len(idequeue') = Len(idequeue) - 1
      /\ \A j \in 1..Len(idequeue') : idequeue'[j] = idequeue[j + 1] /\ j + 1 \in 1..Len(idequeue)
  BY <1>1, <1>3, Types
<1>9. \A j \in 1..Len(idequeue') : idequeue'[j] # b
  BY <1>1, <1>8 DEF IInv, Queued
<1>10. active' \in [buf : Buf \cup {NoBuf}, write : {0, 1}, data : Value]
  <2>1. idequeue \in Seq(Buf) /\ Len(idequeue) \in Nat /\ Len(idequeue) >= 1
    BY <1>1, Types, Zenon
  <2>2. CASE Len(idequeue) = 1
    BY <1>3, <2>2, IdleType, Zenon
  <2>3. CASE Len(idequeue) # 1
    <3>1. \A k \in Nat : k >= 1 /\ k # 1 => 2 \in 1..k
      OBVIOUS
    <3>2. 2 \in 1..Len(idequeue)
      BY <2>1, <2>3, <3>1, Zenon
    <3>3. idequeue[2] \in Buf
      BY <2>1, <3>2
    <3>4. QED BY <1>3, <2>3, <3>3, RequestType, Zenon
  <2>4. QED BY <2>2, <2>3
<1>11. TypeOK'
  BY <1>3, <1>4, <1>6, <1>7, <1>8, <1>10, Types, Zenon DEF IInv, TypeOK
<1>12. Owns' /\ Refs' /\ Locks' /\ OneBufferPerBlock'
  BY <1>3 DEF IInv, Owns, Refs, Users, Locks, OneBufferPerBlock
<1>13. Flags'
  BY <1>1, <1>3, <1>4 DEF IInv, Flags
<1>14. Knows'
  <2>1. ASSUME NEW q \in Process, pc[q] \in Locked, pc[q] = "iderw" => q \notin waiting
        PROVE  buf[q] # b /\ valid'[buf[q]] = valid[buf[q]] /\ dirty'[buf[q]] = dirty[buf[q]]
    <3>1. PICK o \in waiting : pc[o] = "iderw" /\ buf[o] = b
      BY <1>1
    <3>2. buf[q] # b
      BY <2>1, <3>1, Types DEF IInv, Locks, Locked
    <3>3. buf[q] \in Buf
      BY <1>3, <2>1, Has DEF Locked
    <3>4. QED BY <1>4, <3>2, <3>3
  <2>2. ASSUME NEW q \in Process, pc[q] = "iderw", q \notin waiting', q \in waiting
        PROVE  valid'[buf[q]] = 1 /\ dirty'[buf[q]] = 0
    BY <1>3, <1>4, <2>2
  <2>3. QED BY <1>3, <1>4, <2>1, <2>2 DEF IInv, Knows, Locked
<1>15. Queued'
  <2>1. \A i, j \in 1..Len(idequeue') : idequeue'[i] = idequeue'[j] => i = j
    BY <1>1, <1>8, SMTT(20) DEF IInv, Queued
  <2>2. \A j \in 1..Len(idequeue') : \E q \in waiting' : pc[q] = "iderw" /\ buf[q] = idequeue'[j]
    BY <1>3, <1>8, <1>9 DEF IInv, Queued
  <2>3. QED BY <1>3, <2>1, <2>2 DEF Queued
<1>16. Served'
  <2>1. CASE Len(idequeue) = 1
    <3>1. idequeue' = << >>
      BY <1>8, <2>1
    <3>2. QED BY <1>3, <2>1, <3>1 DEF Served, Idle
  <2>2. CASE Len(idequeue) # 1
    <3>1. PICK x \in Buf : x = idequeue[2] /\ idequeue' # << >> /\ 1 \in 1..Len(idequeue') /\ idequeue'[1] = x
      BY <1>1, <1>8, <2>2, Types
    <3>2. x # b
      BY <1>9, <3>1
    <3>3. dirty'[x] = dirty[x] /\ data'[x] = data[x]
      BY <1>4, <1>6, <3>1, <3>2
    <3>4. Request(x, dirty[x])' = Request(x, dirty[x])
      BY <3>3 DEF Request, Idle
    <3>5. QED BY <1>3, <2>2, <3>1, <3>4 DEF Served
  <2>3. QED BY <2>1, <2>2
<1>17. NoLostWakeup'
  BY <1>3, <1>4 DEF IInv, NoLostWakeup
<1>18. QED BY <1>11, <1>12, <1>13, <1>14, <1>15, <1>16, <1>17 DEF IInv

-----------------------------------------------------------------------------
(* All steps *)

LEMMA InitIInv ==
  ASSUME Init
  PROVE  IInv
<1>1. Cardinality(Buf) \in Nat
  BY FS_CardinalityType, BcacheAssumption
<1>2. lru \in [1..Cardinality(Buf) -> Buf] /\ Range(lru) = Buf
  <2>1. PICK f \in Bijection(1..Cardinality(Buf), Buf) : TRUE
    BY FS_CardinalityType, BcacheAssumption DEF ExistsBijection
  <2>2. f \in [1..Cardinality(Buf) -> Buf] /\ Range(f) = Buf
    BY <2>1 DEF Bijection, Surjection, Range
  <2>3. QED BY <2>2 DEF Init
<1>3. (CHOOSE v \in Value : TRUE) \in Value
  BY BcacheAssumption
<1>4. Cardinality({}) = 0 /\ Cardinality(Process) \in Nat
  BY FS_EmptySet, FS_CardinalityType, BcacheAssumption
<1>5. TypeOK
  BY <1>2, <1>3, <1>4, IdleType DEF Init, TypeOK
<1>6. Refs
  <2>1. \A b \in Buf : Users(b) = {}
    BY BcacheAssumption DEF Init, Users
  <2>2. QED BY <1>4, <2>1, Zenon DEF Init, Refs
<1>7. Owns /\ Flags /\ Knows /\ Served /\ NoLostWakeup /\ OneBufferPerBlock
  BY DEF Init, Owns, Flags, Knows, Served, NoLostWakeup, OneBufferPerBlock
<1>8. Locks
  BY BcacheAssumption DEF Init, Locks, Locked
<1>9. Queued
  BY DEF Init, Queued
<1>10. QED BY <1>5, <1>6, <1>7, <1>8, <1>9 DEF IInv

LEMMA StutterIInv ==
  ASSUME IInv, UNCHANGED vars
  PROVE  IInv'
<1>1. TypeOK'
  BY Zenon DEF IInv, TypeOK, vars
<1>2. (Owns /\ Refs /\ Locks /\ Flags /\ Knows)'
  BY DEF IInv, Owns, Refs, Users, Locks, Flags, Knows, vars
<1>3. (Queued /\ Served /\ NoLostWakeup /\ OneBufferPerBlock)'
  BY DEF IInv, Queued, Served, Request, NoLostWakeup, OneBufferPerBlock, vars
<1>4. QED BY <1>1, <1>2, <1>3 DEF IInv

LEMMA NextIInv ==
  ASSUME IInv, [Next]_vars
  PROVE  IInv'
<1>1. ASSUME NEW p \in Process, Step(p) PROVE IInv'
  BY <1>1, AcquiresleepIInv, BreadIInv, IderwWakeIInv, BwriteIInv, BrelseIInv, Zenon DEF Step
<1>2. ASSUME NEW p \in Process, releasesleep(p) PROVE IInv'
  BY <1>2, ReleasesleepIInv
<1>3. ASSUME NEW p \in Process, NEW n \in Block, bget(p, n) PROVE IInv'
  BY <1>3, BgetIInv
<1>4. ASSUME NEW p \in Process, NEW v \in Value, modify(p, v) \/ log_write(p, v) PROVE IInv'
  BY <1>4, ModifyIInv, LogWriteIInv, Zenon
<1>5. ASSUME ideintr PROVE IInv'
  BY <1>5, IdeintrIInv
<1>6. ASSUME UNCHANGED vars PROVE IInv'
  BY <1>6, StutterIInv
<1>7. QED BY <1>1, <1>2, <1>3, <1>4, <1>5, <1>6, Zenon DEF Next

-----------------------------------------------------------------------------
(* However few the buffers, and whether or not the disk fails *)

LEMMA Consequences ==
  ASSUME IInv
  PROVE  TypeOK /\ NoLostWakeup /\ OneBufferPerBlock /\ HolderHasItsBlock /\ QueueIsServed
<1>1. HolderHasItsBlock
  <2>1. ASSUME NEW p \in Process, pc[p] = "hold"
        PROVE  /\ blockno[buf[p]] = want[p] /\ valid[buf[p]] = 1 /\ lock[buf[p]] = p
               /\ \A q \in Process \ {p} : pc[q] \in {"hold", "bwrite", "iderw"} => buf[q] # buf[p]
    <3>1. buf[p] \in Buf /\ blockno[buf[p]] = want[p]
      BY <2>1, Types DEF IInv, Owns
    <3>2. lock[buf[p]] = p /\ valid[buf[p]] = 1
      BY <2>1, <3>1 DEF IInv, Locks, Knows, Locked
    <3>3. \A q \in Process \ {p} : pc[q] \in {"hold", "bwrite", "iderw"} => buf[q] # buf[p]
      BY <2>1, <3>1 DEF IInv, Locks, Locked
    <3>4. QED BY <3>1, <3>2, <3>3
  <2>2. QED BY <2>1, Zenon DEF HolderHasItsBlock
<1>2. QueueIsServed
  <2>1. idequeue \in Seq(Buf) /\ Len(idequeue) \in Nat /\ DOMAIN idequeue = 1..Len(idequeue)
    BY Types
  <2>2. active.buf = IF idequeue = << >> THEN NoBuf ELSE Head(idequeue)
    <3>1. CASE idequeue = << >>
      BY <3>1 DEF IInv, Served, Idle
    <3>2. CASE idequeue # << >>
      <4>1. Head(idequeue) = idequeue[1]
        BY <2>1, <3>2
      <4>2. active.buf = idequeue[1]
        BY <3>2 DEF IInv, Served, Request, Idle
      <4>3. QED BY <3>2, <4>1, <4>2
    <3>3. QED BY <3>1, <3>2
  <2>3. IsInjective(idequeue)
    BY <2>1 DEF IInv, Queued, IsInjective
  <2>4. ASSUME NEW b \in Range(idequeue)
        PROVE  \E p \in waiting : pc[p] = "iderw" /\ buf[p] = b /\ lock[b] = p
    <3>1. PICK j \in 1..Len(idequeue) : idequeue[j] = b
      BY <2>1 DEF Range
    <3>2. b \in Buf
      BY <2>1, <3>1
    <3>3. PICK p \in waiting : pc[p] = "iderw" /\ buf[p] = b
      BY <3>1 DEF IInv, Queued
    <3>4. lock[b] = p
      BY <3>2, <3>3, Types DEF IInv, Locks, Locked
    <3>5. QED BY <3>3, <3>4
  <2>5. QED BY <2>2, <2>3, <2>4 DEF QueueIsServed
<1>3. QED BY <1>1, <1>2 DEF IInv

\* However few buffers there are and however many reads fail: a block never has
\* two buffers, what bread returns is the block it was asked for and for that
\* process alone, the disk serves a queue of locked buffers whose owners sleep,
\* and releasesleep leaves nobody asleep on a free lock.
THEOREM BcacheConsistent ==
  Spec => [](TypeOK /\ NoLostWakeup /\ OneBufferPerBlock /\ HolderHasItsBlock /\ QueueIsServed)
<1>1. Init => IInv
  BY InitIInv
<1>2. IInv /\ [Next]_vars => IInv'
  BY NextIInv
<1>3. IInv => TypeOK /\ NoLostWakeup /\ OneBufferPerBlock /\ HolderHasItsBlock /\ QueueIsServed
  BY Consequences
<1>4. QED BY <1>1, <1>2, <1>3, PTL DEF Spec

-----------------------------------------------------------------------------
(* While the disk does not fail *)

\* The other steps of a process.
LEMMA StepFrame ==
  ASSUME IInv, NEW p \in Process, Step(p) \/ releasesleep(p)
  PROVE  /\ UNCHANGED <<blockno, valid, dirty, data, disk>>
         /\ p \notin waiting /\ (pc[p] = "bwrite" => bwrite(p))
         /\ \A q \in Process : q # p => pc'[q] = pc[q] /\ buf'[q] = buf[q]
<1>1. CASE acquiresleep(p)
  BY <1>1, Types DEF acquiresleep, At, Goto, buffers
<1>2. CASE bread(p)
  BY <1>2, Types DEF bread, At, iderw, Goto, buffers
<1>3. CASE iderw_wake(p)
  BY <1>3, Types DEF iderw_wake, At, Goto, buffers
<1>4. CASE bwrite(p)
  BY <1>4, Types DEF bwrite, At, iderw, Goto, buffers
<1>5. CASE brelse(p)
  BY <1>5, Types DEF brelse, At, Goto
<1>6. CASE releasesleep(p)
  BY <1>6, Types DEF releasesleep, At, Goto, buffers
<1>7. QED BY <1>1, <1>2, <1>3, <1>4, <1>5, <1>6, Zenon DEF Step

LEMMA Changes ==
  ASSUME IInv, Next, ~UNCHANGED <<blockno, valid, dirty, data, disk>>
  PROVE  \/ ideintr
         \/ \E p \in Process, n \in Block : bget(p, n)
         \/ \E p \in Process, v \in Value : modify(p, v) \/ log_write(p, v)
BY StepFrame, Zenon DEF Next

\* A write by the holder: which buffer, and whose block.
LEMMA HolderWrites ==
  ASSUME IInv, NEW p \in Process, NEW v \in Value, modify(p, v) \/ log_write(p, v)
  PROVE  /\ pc[p] = "hold" /\ buf[p] \in Buf /\ blockno[buf[p]] = want[p]
         /\ dirty' = [dirty EXCEPT ![buf[p]] = 1] /\ dirty'[buf[p]] = 1
         /\ \A b \in Buf : b # buf[p] => data'[b] = data[b] /\ dirty'[b] = dirty[b]
         /\ UNCHANGED <<blockno, valid, disk>>
<1>1. /\ panicked = 0 /\ pc[p] = "hold" /\ data' = [data EXCEPT ![buf[p]] = v]
      /\ dirty' = [dirty EXCEPT ![buf[p]] = 1] /\ UNCHANGED <<blockno, valid, disk>>
  BY DEF modify, log_write, At
<1>2. buf[p] \in Buf
  BY <1>1, Has
<1>3. blockno[buf[p]] = want[p]
  BY <1>1, <1>2, BcacheAssumption DEF IInv, Owns
<1>4. QED BY <1>1, <1>2, <1>3, Types

\* The buffer that was recycled for block n.
Recycled(b, n) ==
  /\ dirty[b] = 0 /\ refcnt[b] = 0 /\ blockno'[b] = n /\ valid'[b] = 0 /\ dirty'[b] = 0
  /\ \A x \in Buf : x # b => blockno'[x] = blockno[x] /\ valid'[x] = valid[x] /\ dirty'[x] = dirty[x]

LEMMA BgetChanges ==
  ASSUME IInv, NEW p \in Process, NEW n \in Block, bget(p, n), ~UNCHANGED <<blockno, valid, dirty, data, disk>>
  PROVE  /\ \A b \in Buf : blockno[b] # n
         /\ \E b \in Buf : Recycled(b, n)
         /\ UNCHANGED <<data, disk>>
<1>1. UNCHANGED <<data, disk>>
  BY DEF bget, buffers
<1>2. Cached(n) = {} /\ Recyclable # {}
  BY DEF bget, buffers
<1>3. PICK b \in Recyclable : /\ blockno' = [blockno EXCEPT ![b] = n] /\ valid' = [valid EXCEPT ![b] = 0]
                              /\ dirty' = [dirty EXCEPT ![b] = 0]
  BY <1>2, Zenon DEF bget
<1>4. b \in Buf /\ dirty[b] = 0 /\ refcnt[b] = 0
  BY <1>3 DEF Recyclable
<1>5. /\ blockno'[b] = n /\ valid'[b] = 0 /\ dirty'[b] = 0
      /\ \A x \in Buf : x # b => blockno'[x] = blockno[x] /\ valid'[x] = valid[x] /\ dirty'[x] = dirty[x]
  BY <1>3, <1>4, Types
<1>6. \A x \in Buf : blockno[x] # n
  BY <1>2 DEF Cached
<1>7. QED BY <1>1, <1>4, <1>5, <1>6, Zenon DEF Recycled

\* A read leaves what is on the disk in the buffer, a write what is in the buffer
\* on the disk.
LEMMA IdeintrChanges ==
  ASSUME IInv, ideintr, DISK_ERRORS = FALSE
  PROVE  \E b \in Buf :
           /\ blockno[b] \in Block /\ blockno' = blockno /\ valid'[b] = 1 /\ dirty'[b] = 0
           /\ \A x \in Buf : x # b => data'[x] = data[x] /\ valid'[x] = valid[x] /\ dirty'[x] = dirty[x]
           /\ \A n \in Block : n # blockno[b] => disk'[n] = disk[n]
           /\ data'[b] = disk'[blockno[b]]
           /\ dirty[b] = 1 => data'[b] = data[b]
           /\ dirty[b] # 1 => data'[b] = disk[blockno[b]]
<1>1. PICK b \in Buf : /\ b = idequeue[1] /\ blockno[b] \in Block /\ active = Request(b, dirty[b]) /\ active.buf = b
  BY AtWork DEF ideintr
<1>2. Head(idequeue) = b
  BY <1>1, AtWork, Types DEF ideintr
<1>3. /\ disk' = IF active.write = 1 THEN [disk EXCEPT ![blockno[b]] = active.data] ELSE disk
      /\ data' \in Transferred(b) /\ blockno' = blockno
      /\ valid' = [valid EXCEPT ![b] = 1] /\ dirty' = [dirty EXCEPT ![b] = 0]
  BY <1>1, <1>2, Zenon DEF ideintr
<1>4. data' = IF dirty[b] = 0 THEN [data EXCEPT ![b] = disk[blockno[b]]] ELSE data
  BY <1>3 DEF Transferred
<1>5. disk \in [Block -> Value]
  BY DEF IInv, TypeOK
<1>6. /\ valid'[b] = 1 /\ dirty'[b] = 0
      /\ \A x \in Buf : x # b => data'[x] = data[x] /\ valid'[x] = valid[x] /\ dirty'[x] = dirty[x]
  BY <1>3, <1>4, Types
<1>7. CASE dirty[b] = 1
  <2>1. active.write = 1 /\ active.data = data[b]
    BY <1>1, <1>7 DEF Request
  <2>2. data' = data
    BY <1>4, <1>7
  <2>3. QED BY <1>1, <1>3, <1>5, <1>6, <1>7, <2>1, <2>2
<1>8. CASE dirty[b] = 0
  <2>1. active.write = 0
    BY <1>1, <1>8 DEF Request, Idle
  <2>2. disk' = disk /\ data'[b] = disk[blockno[b]]
    BY <1>3, <1>4, <1>8, <2>1, Types
  <2>3. QED BY <1>1, <1>3, <1>6, <1>8, <2>2
<1>9. QED BY <1>7, <1>8, Types

LEMMA NextValidWasRead ==
  ASSUME IInv, ValidWasRead, [Next]_vars, DISK_ERRORS = FALSE
  PROVE  ValidWasRead'
<1>1. CASE UNCHANGED <<blockno, valid, dirty, data, disk>>
  BY <1>1 DEF ValidWasRead
<1>2. ASSUME NEW p \in Process, NEW v \in Value, modify(p, v) \/ log_write(p, v) PROVE ValidWasRead'
  BY <1>2, HolderWrites DEF ValidWasRead
<1>3. ASSUME NEW p \in Process, NEW n \in Block, bget(p, n), ~UNCHANGED <<blockno, valid, dirty, data, disk>>
      PROVE  ValidWasRead'
  <2>1. PICK b \in Buf : Recycled(b, n)
    BY <1>3, BgetChanges, Zenon
  <2>2. UNCHANGED <<data, disk>>
    BY <1>3, BgetChanges, Zenon
  <2>3. QED BY <2>1, <2>2 DEF Recycled, ValidWasRead
<1>4. ASSUME ideintr PROVE ValidWasRead'
  <2>1. PICK b \in Buf :
          /\ blockno[b] \in Block /\ blockno' = blockno
          /\ \A x \in Buf : x # b => data'[x] = data[x] /\ valid'[x] = valid[x] /\ dirty'[x] = dirty[x]
          /\ \A n \in Block : n # blockno[b] => disk'[n] = disk[n]
          /\ data'[b] = disk'[blockno[b]]
    BY <1>4, IdeintrChanges, Zenon
  <2>2. ASSUME NEW x \in Buf, x # b, valid[x] = 1 PROVE disk'[blockno[x]] = disk[blockno[x]]
    <3>1. blockno[x] \in Block
      BY <2>2 DEF IInv, Flags
    <3>2. blockno[x] # blockno[b]
      BY <2>1, <2>2, BcacheAssumption DEF IInv, OneBufferPerBlock
    <3>3. QED BY <2>1, <3>1, <3>2
  <2>3. QED BY <2>1, <2>2 DEF ValidWasRead
<1>5. QED BY <1>1, <1>2, <1>3, <1>4, Changes, Zenon DEF vars

\* What readers of n get, from the buffer of n.
LEMMA ContentsOf ==
  ASSUME OneBufferPerBlock, NEW n \in Block, NEW b \in Buf, blockno[b] = n
  PROVE  Contents(n) = IF valid[b] = 1 THEN data[b] ELSE disk[n]
<1>1. Cached(n) = {b}
  BY BcacheAssumption DEF OneBufferPerBlock, Cached
<1>2. QED BY <1>1 DEF Contents

LEMMA NextContentsOf ==
  ASSUME OneBufferPerBlock', NEW n \in Block, NEW b \in Buf, blockno'[b] = n
  PROVE  Contents(n)' = IF valid'[b] = 1 THEN data'[b] ELSE disk'[n]
<1>1. Cached(n)' = {b}
  BY BcacheAssumption DEF OneBufferPerBlock, Cached
<1>2. QED BY <1>1 DEF Contents

\* ... and from the disk if it has none.
LEMMA Uncached ==
  ASSUME NEW n \in Block
  PROVE  /\ (\A b \in Buf : blockno[b] # n) => Contents(n) = disk[n]
         /\ (\A b \in Buf : blockno'[b] # n) => Contents(n)' = disk'[n]
BY DEF Contents, Cached

LEMMA SameContents ==
  ASSUME IInv, IInv', NEW n \in Block, disk'[n] = disk[n],
         \A b \in Buf : blockno'[b] = n <=> blockno[b] = n,
         \A b \in Buf : blockno[b] = n => valid'[b] = valid[b] /\ data'[b] = data[b]
  PROVE  Contents(n)' = Contents(n)
<1>1. CASE \E b \in Buf : blockno[b] = n
  <2>1. PICK b \in Buf : blockno[b] = n
    BY <1>1
  <2>2. QED BY <2>1, ContentsOf, NextContentsOf DEF IInv
<1>2. CASE \A b \in Buf : blockno[b] # n
  BY <1>2, Uncached
<1>3. QED BY <1>1, <1>2

LEMMA NextContents ==
  ASSUME IInv, IInv', ValidWasRead, Next, DISK_ERRORS = FALSE, NEW n \in Block, Contents(n)' # Contents(n)
  PROVE  \E p \in Process : pc[p] = "hold" /\ want[p] = n
<1>1. CASE UNCHANGED <<blockno, valid, dirty, data, disk>>
  BY <1>1, SameContents
<1>2. ASSUME NEW p \in Process, NEW v \in Value, modify(p, v) \/ log_write(p, v)
      PROVE  pc[p] = "hold" /\ want[p] = n
  <2>1. /\ pc[p] = "hold" /\ buf[p] \in Buf /\ blockno[buf[p]] = want[p]
        /\ \A b \in Buf : b # buf[p] => data'[b] = data[b]
        /\ UNCHANGED <<blockno, valid, disk>>
    BY <1>2, HolderWrites, Zenon
  <2>2. QED BY <2>1, SameContents
<1>3. ASSUME NEW p \in Process, NEW m \in Block, bget(p, m), ~UNCHANGED <<blockno, valid, dirty, data, disk>>
      PROVE  FALSE
  <2>1. PICK b \in Buf : Recycled(b, m)
    BY <1>3, BgetChanges, Zenon
  <2>2. UNCHANGED <<data, disk>> /\ \A x \in Buf : blockno[x] # m
    BY <1>3, BgetChanges, Zenon
  <2>3. CASE n = m
    BY <2>1, <2>2, <2>3, Uncached, NextContentsOf DEF Recycled, IInv
  <2>4. CASE n # m /\ n = blockno[b]
    <3>1. \A x \in Buf : blockno'[x] # n
      BY <2>1, <2>4, BcacheAssumption DEF Recycled, IInv, OneBufferPerBlock
    <3>2. Contents(n)' = disk[n]
      BY <2>2, <3>1, Uncached
    <3>3. Contents(n) = IF valid[b] = 1 THEN data[b] ELSE disk[n]
      BY <2>4, ContentsOf, Zenon DEF IInv
    <3>4. QED BY <2>1, <2>4, <3>2, <3>3 DEF Recycled, ValidWasRead
  <2>5. CASE n # m /\ n # blockno[b]
    BY <2>1, <2>2, <2>5, SameContents DEF Recycled
  <2>6. QED BY <2>3, <2>4, <2>5
<1>4. ASSUME ideintr PROVE FALSE
  <2>1. PICK b \in Buf :
          /\ blockno[b] \in Block /\ blockno' = blockno /\ valid'[b] = 1
          /\ \A x \in Buf : x # b => data'[x] = data[x] /\ valid'[x] = valid[x]
          /\ \A k \in Block : k # blockno[b] => disk'[k] = disk[k]
          /\ dirty[b] = 1 => data'[b] = data[b]
          /\ dirty[b] # 1 => data'[b] = disk[blockno[b]]
    BY <1>4, IdeintrChanges, Zenon
  <2>2. CASE n = blockno[b]
    <3>1. Contents(n)' = data'[b]
      BY <2>1, <2>2, NextContentsOf DEF IInv
    <3>2. Contents(n) = IF valid[b] = 1 THEN data[b] ELSE disk[n]
      BY <2>2, ContentsOf, Zenon DEF IInv
    <3>3. dirty[b] \in {0, 1} /\ (dirty[b] = 1 => valid[b] = 1)
      BY Types DEF IInv, Flags
    <3>4. QED BY <2>1, <2>2, <3>1, <3>2, <3>3 DEF ValidWasRead
  <2>3. CASE n # blockno[b]
    BY <2>1, <2>3, SameContents
  <2>4. QED BY <2>2, <2>3
<1>5. QED BY <1>1, <1>2, <1>3, <1>4, Changes, Zenon

\* While no read fails, only the holder of a block changes what its readers get:
\* bget's recycling, the reads and writes of ideintr and the order of the queue
\* lose no update.
THEOREM BcacheOnlyHolderChanges ==
  ASSUME DISK_ERRORS = FALSE
  PROVE  Spec => OnlyHolderChanges
<1>1. Init => IInv /\ ValidWasRead
  BY InitIInv DEF Init, ValidWasRead
<1>2. IInv /\ ValidWasRead /\ [Next]_vars => (IInv /\ ValidWasRead)'
  BY NextIInv, NextValidWasRead, Zenon
<1>3. IInv /\ ValidWasRead /\ [Next]_vars
        => [\A n \in Block : Contents(n)' # Contents(n) => \E p \in Process : pc[p] = "hold" /\ want[p] = n]_vars
  BY NextIInv, NextContents, Zenon
<1>4. QED BY <1>1, <1>2, <1>3, PTL DEF Spec, OnlyHolderChanges

-----------------------------------------------------------------------------
(* Panics *)

LEMMA NextPanics ==
  ASSUME IInv, PanicsOutOfBuffers, [Next]_vars
  PROVE  PanicsOutOfBuffers'
<1>1. ASSUME NEW p \in Process, iderw(p, dirty[buf[p]]), panicked = 0, p \notin waiting,
             pc[p] = "bwrite" \/ (pc[p] = "bread" /\ valid[buf[p]] # 1)
      PROVE  panicked' = 0
  <2>1. lock[buf[p]] = p
    BY <1>1, NotQueued DEF Locked
  <2>2. ~(valid[buf[p]] = 1 /\ dirty[buf[p]] = 0)
    BY <1>1 DEF IInv, Knows
  <2>3. QED BY <1>1, <2>1, <2>2 DEF iderw
<1>2. ASSUME NEW p \in Process, Step(p) PROVE panicked' = 0
  <2>1. CASE acquiresleep(p) \/ iderw_wake(p) \/ brelse(p)
    BY <2>1, Zenon DEF At, acquiresleep, iderw_wake, brelse
  <2>2. CASE bread(p) \/ bwrite(p)
    BY <1>1, <2>2, Zenon DEF bread, bwrite, At
  <2>3. QED BY <1>2, <2>1, <2>2, Zenon DEF Step
<1>3. ASSUME NEW p \in Process, releasesleep(p) PROVE panicked' = 0
  <2>1. lock[buf[p]] = p
    BY <1>3, NotQueued DEF releasesleep, At, Locked
  <2>2. QED BY <1>3, <2>1 DEF releasesleep
<1>4. ASSUME NEW p \in Process, NEW n \in Block, bget(p, n) PROVE PanicsOutOfBuffers'
  <2>1. CASE Cached(n) # {} \/ Recyclable # {}
    BY <1>4, <2>1 DEF bget, At, PanicsOutOfBuffers, NoBuffers
  <2>2. CASE Cached(n) = {} /\ Recyclable = {}
    BY <1>4, <2>2 DEF bget, buffers, PanicsOutOfBuffers, NoBuffers, Recyclable
  <2>3. QED BY <2>1, <2>2
<1>5. ASSUME NEW p \in Process, NEW v \in Value, modify(p, v) \/ log_write(p, v) PROVE panicked' = 0
  BY <1>5, Zenon DEF At, modify, log_write
<1>6. ASSUME ideintr PROVE panicked' = 0
  BY <1>6, Zenon DEF ideintr
<1>7. CASE UNCHANGED vars
  BY <1>7 DEF vars, PanicsOutOfBuffers, Recyclable
<1>8. panicked' = 0 => PanicsOutOfBuffers'
  BY DEF PanicsOutOfBuffers, NoBuffers
<1>9. QED BY <1>2, <1>3, <1>4, <1>5, <1>6, <1>7, <1>8, Zenon DEF Next

\* With any number of buffers and a disk that does not fail, no check of bio.c or
\* ide.c panics, bget panics only when every buffer is in use or kept dirty for
\* the log, a valid clean buffer holds what is on the disk, and the cache is
\* consistent.
THEOREM BcacheInv ==
  ASSUME DISK_ERRORS = FALSE
  PROVE  Spec => []Inv
<1>1. Init => IInv /\ PanicsOutOfBuffers /\ ValidWasRead
  BY InitIInv DEF Init, PanicsOutOfBuffers, NoBuffers, ValidWasRead
<1>2. IInv /\ PanicsOutOfBuffers /\ ValidWasRead /\ [Next]_vars => (IInv /\ PanicsOutOfBuffers /\ ValidWasRead)'
  BY NextIInv, NextPanics, NextValidWasRead, Zenon
<1>3. IInv /\ PanicsOutOfBuffers /\ ValidWasRead => Inv
  BY Consequences DEF Inv
<1>4. QED BY <1>1, <1>2, <1>3, PTL DEF Spec
================================================================================
