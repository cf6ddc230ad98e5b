----------------------------- MODULE BcacheStepProofs ---------------------------
(***************************************************************************)
(* The buffer cache of Bcache for any processes, buffers, blocks and         *)
(* contents: the inductive invariant, and that every step of a process       *)
(* preserves it.                                                             *)
(***************************************************************************)
EXTENDS Bcache, FiniteSetTheorems, TLAPS

\* Where a process has its buffer's lock.
Locked == {"bread", "iderw", "hold", "bwrite"}

\* Who refers to buffer b.
Users(b) == {p \in Process : buf[p] = b}

\* A process has a buffer from bget to brelse, and it is the buffer of the block
\* it asked for.
Owns ==
  \A p \in Process :
    /\ pc[p] = "out" => buf[p] = NoBuf
    /\ panicked = 0 /\ pc[p] # "out" => buf[p] # NoBuf
    /\ buf[p] # NoBuf => want[p] \in Block /\ blockno[buf[p]] = want[p]
    /\ buf[p] = NoBuf => pc[p] \in {"out", "acquiresleep"} /\ p \notin waiting

Refs == \A b \in Buf : refcnt[b] = Cardinality(Users(b))

Locks == \A b \in Buf, p \in Process : lock[b] = p <=> buf[p] = b /\ pc[p] \in Locked

Flags == \A b \in Buf : (dirty[b] = 1 => valid[b] = 1) /\ (valid[b] = 1 => blockno[b] \in Block)

\* What a process knows of the flags of its buffer.
Knows ==
  \A p \in Process :
    /\ pc[p] \in {"hold", "bwrite"} => valid[buf[p]] = 1
    /\ pc[p] = "bwrite" => dirty[buf[p]] = 1
    /\ pc[p] = "iderw" /\ p \notin waiting => valid[buf[p]] = 1 /\ dirty[buf[p]] = 0
    /\ p \in waiting => pc[p] \in {"acquiresleep", "iderw"}

\* A queued buffer belongs to a process asleep in iderw; the first of them is what
\* the disk works on.
Queued ==
  /\ \A i, j \in 1..Len(idequeue) : idequeue[i] = idequeue[j] => i = j
  /\ \A j \in 1..Len(idequeue) : \E p \in waiting : pc[p] = "iderw" /\ buf[p] = idequeue[j]
Served ==
  active = IF idequeue = << >> THEN Idle ELSE Request(idequeue[1], dirty[idequeue[1]])

IInv == TypeOK /\ Owns /\ Refs /\ Locks /\ Flags /\ Knows /\ Queued /\ Served /\ NoLostWakeup /\ OneBufferPerBlock

-----------------------------------------------------------------------------
(* Types, and who refers to a buffer *)

PC == {"out", "acquiresleep", "bread", "iderw", "hold", "bwrite", "brelse"}

LEMMA Types ==
  ASSUME IInv
  PROVE  /\ blockno \in [Buf -> Block \cup {NoBlock}] /\ refcnt \in [Buf -> 0..Cardinality(Process)]
         /\ valid \in [Buf -> {0, 1}] /\ dirty \in [Buf -> {0, 1}] /\ data \in [Buf -> Value]
         /\ lock \in [Buf -> Process \cup {NoProc}] /\ waiting \subseteq Process
         /\ idequeue \in Seq(Buf) /\ pc \in [Process -> PC]
         /\ buf \in [Process -> Buf \cup {NoBuf}] /\ want \in [Process -> Block \cup {NoBlock}]
BY DEF IInv, TypeOK, PC

\* A process in the middle of bread, bwrite or brelse has its buffer.
LEMMA Has ==
  ASSUME IInv, NEW p \in Process, panicked = 0, pc[p] # "out"
  PROVE  buf[p] \in Buf /\ buf[p] # NoBuf
BY Types DEF IInv, Owns

LEMMA Counted ==
  ASSUME NEW f, NEW b
  PROVE  LET S == {p \in Process : f[p] = b} IN
           IsFiniteSet(S) /\ Cardinality(S) \in Nat /\ Cardinality(S) \in 0..Cardinality(Process)
<1> DEFINE S == {p \in Process : f[p] = b}
<1>1. S \subseteq Process
  OBVIOUS
<1>2. IsFiniteSet(S) /\ Cardinality(S) <= Cardinality(Process)
  BY <1>1, FS_Subset, BcacheAssumption
<1>3. Cardinality(S) \in Nat /\ Cardinality(Process) \in Nat
  BY <1>2, FS_CardinalityType, BcacheAssumption
<1>4. QED BY <1>2, <1>3

LEMMA UsersCount ==
  ASSUME NEW x
  PROVE  Cardinality(Users(x))' \in 0..Cardinality(Process)
<1>1. Cardinality({p \in Process : buf'[p] = x}) \in 0..Cardinality(Process)
  BY Counted, Zenon
<1>2. QED BY <1>1 DEF Users

LEMMA UsersAdd ==
  ASSUME IInv, NEW p \in Process, NEW b \in Buf, buf[p] = NoBuf, buf' = [buf EXCEPT ![p] = b]
  PROVE  /\ Cardinality(Users(b))' = Cardinality(Users(b)) + 1
         /\ \A x \in Buf : x # b => Users(x)' = Users(x)
<1>1. p \notin Users(b) /\ Users(b)' = Users(b) \cup {p}
  BY Types, BcacheAssumption DEF Users
<1>2. IsFiniteSet(Users(b))
  BY Counted DEF Users
<1>3. Cardinality(Users(b) \cup {p}) = Cardinality(Users(b)) + 1
  BY <1>1, <1>2, FS_AddElement, Zenon
<1>4. \A x \in Buf : x # b => Users(x)' = Users(x)
  BY Types, BcacheAssumption DEF Users
<1>5. QED BY <1>1, <1>3, <1>4

LEMMA UsersRemove ==
  ASSUME IInv, NEW p \in Process, NEW b \in Buf, buf[p] = b, buf' = [buf EXCEPT ![p] = NoBuf]
  PROVE  /\ Cardinality(Users(b))' = Cardinality(Users(b)) - 1
         /\ \A x \in Buf : x # b => Users(x)' = Users(x)
<1>1. p \in Users(b) /\ Users(b)' = Users(b) \ {p}
  BY Types, BcacheAssumption DEF Users
<1>2. IsFiniteSet(Users(b))
  BY Counted DEF Users
<1>3. Cardinality(Users(b) \ {p}) = Cardinality(Users(b)) - 1
  BY <1>1, <1>2, FS_RemoveElement, Zenon
<1>4. \A x \in Buf : x # b => Users(x)' = Users(x)
  BY Types, BcacheAssumption DEF Users
<1>5. QED BY <1>1, <1>3, <1>4

\* Nobody refers to a buffer whose count is 0.
LEMMA NoUsers ==
  ASSUME IInv, NEW b \in Buf, refcnt[b] = 0
  PROVE  \A p \in Process : buf[p] # b
<1>1. IsFiniteSet(Users(b))
  BY Counted, Zenon DEF Users
<1>2. Cardinality(Users(b)) = 0
  BY DEF IInv, Refs
<1>3. Users(b) = {}
  BY <1>1, <1>2, FS_EmptySet
<1>4. QED BY <1>3 DEF Users

-----------------------------------------------------------------------------
(* The steps of a process that has a buffer *)

\* p moves on to s; who has which buffer of which block stays.
Moves(p, s) ==
  /\ panicked = 0 /\ pc[p] # "out" /\ p \notin waiting
  /\ pc' = [pc EXCEPT ![p] = s] /\ waiting' \subseteq waiting \cup {p}
  /\ UNCHANGED <<lru, blockno, refcnt, disk, buf, want, panicked>>

LEMMA MovesIInv ==
  ASSUME IInv, NEW p \in Process, NEW s \in PC \ {"out"}, Moves(p, s),
         valid' \in [Buf -> {0, 1}], dirty' \in [Buf -> {0, 1}], data' \in [Buf -> Value],
         lock' \in [Buf -> Process \cup {NoProc}], idequeue' \in Seq(Buf),
         active' \in [buf : Buf \cup {NoBuf}, write : {0, 1}, data : Value],
         Locks', Flags', Knows', Queued', Served', NoLostWakeup'
  PROVE  IInv'
<1>1. pc' \in [Process -> PC] /\ waiting' \subseteq Process
  BY Types DEF Moves
<1>2. TypeOK'
  BY <1>1, Zenon DEF Moves, IInv, TypeOK, PC
<1>3. Refs'
  BY DEF Moves, IInv, Refs, Users
<1>4. OneBufferPerBlock'
  BY DEF Moves, IInv, OneBufferPerBlock
<1>5. ASSUME NEW q \in Process, q # p
      PROVE  pc'[q] = pc[q] /\ (q \in waiting' => q \in waiting)
  BY <1>5, Types DEF Moves
<1>6. buf[p] # NoBuf /\ pc'[p] # "out"
  BY Has, Types DEF Moves
<1>7. Owns'
  BY <1>5, <1>6 DEF Moves, IInv, Owns
<1>8. QED BY <1>2, <1>3, <1>4, <1>7 DEF IInv

\* What the others do goes on.
LEMMA Others ==
  ASSUME IInv, NEW p \in Process, NEW s, Moves(p, s)
  PROVE  /\ \A q \in Process : q # p => pc'[q] = pc[q]
         /\ pc'[p] = s /\ buf[p] \in Buf /\ buf' = buf
BY Types, Has DEF Moves

\* The buffers stay as they are.
LEMMA SameFlags ==
  ASSUME IInv, NEW p \in Process, NEW s, Moves(p, s), UNCHANGED <<valid, dirty>>
  PROVE  Flags'
BY DEF Moves, IInv, Flags

LEMMA SameServed ==
  ASSUME IInv, UNCHANGED <<idequeue, active, dirty, data>>
  PROVE  Served'
BY DEF IInv, Served, Request

LEMMA SameQueued ==
  ASSUME IInv, NEW p \in Process, NEW s, Moves(p, s), UNCHANGED idequeue,
         \A q \in waiting : pc[q] = "iderw" => q \in waiting'
  PROVE  Queued'
<1>1. \A q \in waiting : pc[q] = "iderw" => q \in waiting' /\ pc'[q] = "iderw"
  BY Others, Types DEF Moves
<1>2. QED BY <1>1 DEF Moves, IInv, Queued

LEMMA ActiveType ==
  ASSUME IInv
  PROVE  active \in [buf : Buf \cup {NoBuf}, write : {0, 1}, data : Value]
BY DEF IInv, TypeOK

LEMMA IdleType ==
  Idle \in [buf : Buf \cup {NoBuf}, write : {0, 1}, data : Value]
BY BcacheAssumption DEF Idle

LEMMA RequestType ==
  ASSUME IInv, NEW b \in Buf
  PROVE  Request(b, dirty[b]) \in [buf : Buf \cup {NoBuf}, write : {0, 1}, data : Value]
<1>1. data[b] \in Value
  BY Types
<1>2. [Idle EXCEPT !.buf = b] \in [buf : Buf \cup {NoBuf}, write : {0, 1}, data : Value]
  BY IdleType
<1>3. [buf |-> b, write |-> 1, data |-> data[b]] \in [buf : Buf \cup {NoBuf}, write : {0, 1}, data : Value]
  BY <1>1
<1>4. QED BY <1>2, <1>3 DEF Request

LEMMA AcquiresleepIInv ==
  ASSUME IInv, NEW p \in Process, acquiresleep(p)
  PROVE  IInv'
<1>1. /\ panicked = 0 /\ pc[p] = "acquiresleep" /\ p \notin waiting
      /\ UNCHANGED <<lru, blockno, valid, dirty, refcnt, data, idequeue, active, disk, buf, want, panicked>>
  BY DEF acquiresleep, At, buffers
<1>2. buf[p] \in Buf
  BY <1>1, Has
<1>3. CASE lock[buf[p]] # NoProc
  <2>1. waiting' = waiting \cup {p} /\ lock' = lock /\ pc' = pc
    BY <1>3 DEF acquiresleep
  <2>2. Moves(p, "acquiresleep")
    BY <1>1, <2>1, Types DEF Moves
  <2>3. Locks' /\ Knows' /\ NoLostWakeup'
    BY <1>1, <1>3, <2>1 DEF IInv, Locks, Knows, NoLostWakeup
  <2>4. Flags' /\ Served' /\ Queued'
    BY <1>1, <2>1, <2>2, SameFlags, SameServed, SameQueued
  <2>5. "acquiresleep" \in PC \ {"out"}
    BY Zenon DEF PC
  <2>6. QED BY <1>1, <2>1, <2>2, <2>3, <2>4, <2>5, MovesIInv, Types, ActiveType, Zenon
<1>4. CASE lock[buf[p]] = NoProc
  <2>1. waiting' = waiting /\ lock' = [lock EXCEPT ![buf[p]] = p] /\ pc' = [pc EXCEPT ![p] = "bread"]
    BY <1>4 DEF acquiresleep, Goto
  <2>2. Moves(p, "bread")
    BY <1>1, <2>1 DEF Moves
  <2>3. \A q \in Process : q # p => pc'[q] = pc[q]
    BY <2>2, Others
  <2>4. pc'[p] = "bread" /\ lock'[buf[p]] = p /\ \A b \in Buf : b # buf[p] => lock'[b] = lock[b]
    BY <1>2, <2>1, Types
  <2>5. Locks'
    <3>1. ASSUME NEW b \in Buf, NEW q \in Process PROVE lock'[b] = q <=> buf'[q] = b /\ pc'[q] \in Locked
      <4>1. CASE b = buf[p]
        BY <1>1, <1>4, <2>3, <2>4, <4>1, BcacheAssumption DEF IInv, Locks, Locked
      <4>2. CASE b # buf[p]
        BY <1>1, <2>3, <2>4, <4>2 DEF IInv, Locks, Locked
      <4>3. QED BY <4>1, <4>2
    <3>2. QED BY <3>1 DEF Locks
  <2>6. Knows'
    BY <1>1, <2>1, <2>3, <2>4 DEF IInv, Knows
  <2>7. NoLostWakeup'
    BY <1>1, <1>2, <2>1, <2>3, <2>4, Types, BcacheAssumption DEF IInv, NoLostWakeup, Owns
  <2>8. Flags' /\ Served' /\ Queued'
    BY <1>1, <2>1, <2>2, SameFlags, SameServed, SameQueued
  <2>9. "bread" \in PC \ {"out"} /\ lock' \in [Buf -> Process \cup {NoProc}]
    BY <1>2, <2>1, Types DEF PC
  <2>10. QED BY <1>1, <2>1, <2>2, <2>5, <2>6, <2>7, <2>8, <2>9, MovesIInv, Types, ActiveType, Zenon
<1>5. QED BY <1>3, <1>4

\* A move between two points at which p has the lock, or at neither.
LEMMA SameLocks ==
  ASSUME IInv, NEW p \in Process, NEW s, Moves(p, s), lock' = lock, s \in Locked <=> pc[p] \in Locked
  PROVE  Locks'
<1>1. \A q \in Process : pc'[q] \in Locked <=> pc[q] \in Locked
  BY Others
<1>2. QED BY <1>1 DEF Moves, IInv, Locks

\* While p is asleep, or neither asleep nor in acquiresleep.
LEMMA SameSleepers ==
  ASSUME IInv, NEW p \in Process, NEW s, Moves(p, s), lock' = lock, s # "acquiresleep"
  PROVE  NoLostWakeup'
<1>1. \A q \in waiting' : pc'[q] = "acquiresleep" => q \in waiting /\ pc[q] = "acquiresleep"
  BY Others, Types DEF Moves
<1>2. QED BY <1>1 DEF Moves, IInv, NoLostWakeup

\* The buffer p has locked is in no queue while p is awake.
LEMMA NotQueued ==
  ASSUME IInv, NEW p \in Process, panicked = 0, p \notin waiting, pc[p] \in Locked
  PROVE  /\ \A j \in 1..Len(idequeue) : idequeue[j] # buf[p]
         /\ lock[buf[p]] = p /\ buf[p] \in Buf
         /\ \A q \in Process : q # p /\ pc[q] \in Locked => buf[q] # buf[p]
<1>1. buf[p] \in Buf
  BY Has DEF Locked
<1>2. lock[buf[p]] = p
  BY <1>1 DEF IInv, Locks
<1>3. \A q \in Process : q # p /\ pc[q] \in Locked => buf[q] # buf[p]
  BY <1>1, <1>2 DEF IInv, Locks
<1>4. ASSUME NEW j \in 1..Len(idequeue), idequeue[j] = buf[p] PROVE FALSE
  <2>1. PICK q \in waiting : pc[q] = "iderw" /\ buf[q] = buf[p]
    BY <1>4 DEF IInv, Queued
  <2>2. QED BY <1>3, <2>1, Types DEF Locked
<1>5. QED BY <1>1, <1>2, <1>3, <1>4

LEMMA IderwIInv ==
  ASSUME IInv, NEW p \in Process, panicked = 0, p \notin waiting, iderw(p, dirty[buf[p]]),
         pc[p] = "bwrite" \/ (pc[p] = "bread" /\ valid[buf[p]] = 0),
         UNCHANGED <<lru, blockno, valid, dirty, refcnt, data, lock, disk, buf, want>>
  PROVE  IInv'
<1> DEFINE b == buf[p]
<1>1. /\ panicked' = IF lock[b] # p \/ (valid[b] = 1 /\ dirty[b] = 0) THEN 1 ELSE 0
      /\ idequeue' = Append(idequeue, b)
      /\ active' = IF idequeue = << >> THEN Request(b, dirty[b]) ELSE active
      /\ waiting' = waiting \cup {p} /\ pc' = [pc EXCEPT ![p] = "iderw"]
  BY DEF iderw, Goto
<1>2. /\ \A j \in 1..Len(idequeue) : idequeue[j] # b
      /\ lock[b] = p /\ b \in Buf
  BY NotQueued DEF Locked
<1>3. panicked' = 0
  BY <1>1, <1>2 DEF IInv, Knows
<1>4. Moves(p, "iderw")
  BY <1>1, <1>3 DEF Moves
<1>5. pc'[p] = "iderw" /\ \A q \in Process : q # p => pc'[q] = pc[q]
  BY <1>4, Others
<1>6. Locks' /\ NoLostWakeup' /\ Flags'
  BY <1>4, SameLocks, SameSleepers, SameFlags DEF Locked
<1>7. Knows'
  BY <1>1, <1>5 DEF IInv, Knows
<1>8. /\ idequeue \in Seq(Buf) /\ Len(idequeue) \in Nat /\ Len(idequeue') = Len(idequeue) + 1
      /\ idequeue'[Len(idequeue) + 1] = b /\ \A j \in 1..Len(idequeue) : idequeue'[j] = idequeue[j]
      /\ idequeue' \in Seq(Buf)
  BY <1>1, <1>2, Types
<1>9. Queued'
  <2>1. ASSUME NEW i \in 1..Len(idequeue'), NEW j \in 1..Len(idequeue'), idequeue'[i] = idequeue'[j] PROVE i = j
    <3>1. CASE i \in 1..Len(idequeue) /\ j \in 1..Len(idequeue)
      BY <1>8, <2>1, <3>1 DEF IInv, Queued
    <3>2. CASE i = Len(idequeue) + 1 \/ j = Len(idequeue) + 1
      BY <1>2, <1>8, <2>1, <3>2
    <3>3. QED BY <1>8, <3>1, <3>2
  <2>2. ASSUME NEW j \in 1..Len(idequeue') PROVE \E q \in waiting' : pc'[q] = "iderw" /\ buf'[q] = idequeue'[j]
    <3>1. CASE j \in 1..Len(idequeue)
      <4>1. PICK q \in waiting : pc[q] = "iderw" /\ buf[q] = idequeue[j]
        BY <3>1 DEF IInv, Queued
      <4>2. q \in waiting' /\ pc'[q] = "iderw" /\ buf'[q] = idequeue'[j]
        BY <1>1, <1>5, <1>8, <3>1, <4>1, Types
      <4>3. QED BY <4>2
    <3>2. CASE j = Len(idequeue) + 1
      BY <1>1, <1>5, <1>8, <3>2
    <3>3. QED BY <1>8, <3>1, <3>2
  <2>3. QED BY <2>1, <2>2 DEF Queued
<1>10. Served'
  <2>1. idequeue' # << >> /\ (idequeue = << >> => idequeue'[1] = b) /\ (idequeue # << >> => idequeue'[1] = idequeue[1])
    BY <1>8
  <2>2. QED BY <1>1, <2>1 DEF IInv, Served, Request
<1>11. active' \in [buf : Buf \cup {NoBuf}, write : {0, 1}, data : Value]
  BY <1>1, <1>2, RequestType, ActiveType, Zenon
<1>12. "iderw" \in PC \ {"out"}
  BY Zenon DEF PC
<1>13. QED BY <1>4, <1>6, <1>7, <1>8, <1>9, <1>10, <1>11, <1>12, MovesIInv, Types, Zenon

LEMMA BreadIInv ==
  ASSUME IInv, NEW p \in Process, bread(p)
  PROVE  IInv'
<1>1. /\ panicked = 0 /\ pc[p] = "bread" /\ p \notin waiting
      /\ UNCHANGED <<lru, blockno, valid, dirty, refcnt, data, lock, disk, buf, want>>
  BY DEF bread, At, buffers
<1>2. CASE valid[buf[p]] = 1
  <2>1. pc' = [pc EXCEPT ![p] = "hold"] /\ UNCHANGED <<idequeue, active, waiting, panicked>>
    BY <1>2 DEF bread, Goto
  <2>2. Moves(p, "hold")
    BY <1>1, <2>1 DEF Moves
  <2>3. Locks' /\ NoLostWakeup' /\ Flags' /\ Served' /\ Queued'
    BY <1>1, <2>1, <2>2, SameLocks, SameSleepers, SameFlags, SameServed, SameQueued DEF Locked
  <2>4. Knows'
    BY <1>1, <1>2, <2>1, <2>2, Others DEF IInv, Knows
  <2>5. "hold" \in PC \ {"out"}
    BY Zenon DEF PC
  <2>6. QED BY <1>1, <2>1, <2>2, <2>3, <2>4, <2>5, MovesIInv, Types, ActiveType, Zenon
<1>3. CASE valid[buf[p]] # 1
  <2>1. valid[buf[p]] = 0
    BY <1>1, <1>3, Has, Types
  <2>2. iderw(p, dirty[buf[p]])
    BY <1>3 DEF bread
  <2>3. QED BY <1>1, <2>1, <2>2, IderwIInv
<1>4. QED BY <1>2, <1>3

LEMMA BwriteIInv ==
  ASSUME IInv, NEW p \in Process, bwrite(p)
  PROVE  IInv'
<1>1. /\ panicked = 0 /\ pc[p] = "bwrite" /\ p \notin waiting /\ iderw(p, dirty[buf[p]])
      /\ UNCHANGED <<lru, blockno, valid, dirty, refcnt, data, lock, disk, buf, want>>
  BY DEF bwrite, At, buffers
<1>2. QED BY <1>1, IderwIInv

LEMMA IderwWakeIInv ==
  ASSUME IInv, NEW p \in Process, iderw_wake(p)
  PROVE  IInv'
<1>1. /\ panicked = 0 /\ pc[p] = "iderw" /\ p \notin waiting
      /\ UNCHANGED <<lru, blockno, valid, dirty, refcnt, data, lock, idequeue, active, disk, buf, want, panicked>>
  BY DEF iderw_wake, At, buffers
<1>2. valid[buf[p]] = 1 /\ dirty[buf[p]] = 0
  BY <1>1 DEF IInv, Knows
<1>3. pc' = [pc EXCEPT ![p] = "hold"] /\ waiting' = waiting
  BY <1>2 DEF iderw_wake, Goto
<1>4. Moves(p, "hold")
  BY <1>1, <1>3 DEF Moves
<1>5. Locks' /\ NoLostWakeup' /\ Flags' /\ Served' /\ Queued'
  BY <1>1, <1>3, <1>4, SameLocks, SameSleepers, SameFlags, SameServed, SameQueued DEF Locked
<1>6. Knows'
  BY <1>1, <1>2, <1>3, <1>4, Others DEF IInv, Knows
<1>7. "hold" \in PC \ {"out"}
  BY Zenon DEF PC
<1>8. QED BY <1>1, <1>3, <1>4, <1>5, <1>6, <1>7, MovesIInv, Types, ActiveType, Zenon

\* p changes the buffer it holds: no queued buffer changes.
LEMMA ChangesIInv ==
  ASSUME IInv, NEW p \in Process, NEW v \in Value, NEW s \in {"hold", "bwrite"}, pc[p] = "hold", Moves(p, s),
         data' = [data EXCEPT ![buf[p]] = v], dirty' = [dirty EXCEPT ![buf[p]] = 1],
         UNCHANGED <<valid, lock, waiting, idequeue, active>>
  PROVE  IInv'
<1>1. panicked = 0 /\ p \notin waiting
  BY DEF Moves
<1>2. /\ \A j \in 1..Len(idequeue) : idequeue[j] # buf[p]
      /\ \A q \in Process : q # p /\ pc[q] \in Locked => buf[q] # buf[p]
      /\ buf[p] \in Buf
  BY <1>1, NotQueued DEF Locked
<1>3. data' \in [Buf -> Value] /\ dirty' \in [Buf -> {0, 1}] /\ dirty'[buf[p]] = 1
      /\ \A b \in Buf : b # buf[p] => dirty'[b] = dirty[b] /\ data'[b] = data[b]
  BY <1>2, Types
<1>4. Locks' /\ NoLostWakeup' /\ Queued'
  BY SameLocks, SameSleepers, SameQueued DEF Locked
<1>5. valid[buf[p]] = 1
  BY DEF IInv, Knows
<1>6. Flags'
  BY <1>3, <1>5 DEF Moves, IInv, Flags
<1>7. Knows'
  <2>1. ASSUME NEW q \in Process, q # p
        PROVE  /\ pc'[q] = pc[q] /\ buf'[q] = buf[q]
               /\ pc[q] \in Locked => dirty'[buf[q]] = dirty[buf[q]]
    <3>1. pc[q] \in Locked => buf[q] \in Buf
      BY <1>1, Has DEF Locked
    <3>2. QED BY <1>2, <1>3, <2>1, <3>1, Others
  <2>2. pc'[p] = s /\ buf' = buf
    BY Others
  <2>3. QED BY <1>1, <1>3, <1>5, <2>1, <2>2 DEF IInv, Knows, Locked
<1>8. Served'
  <2>1. CASE idequeue = << >>
    BY <2>1 DEF IInv, Served
  <2>2. CASE idequeue # << >>
    <3>1. idequeue[1] # buf[p] /\ idequeue[1] \in Buf
      BY <1>2, <2>2, Types
    <3>2. QED BY <1>3, <2>2, <3>1 DEF IInv, Served, Request
  <2>3. QED BY <2>1, <2>2
<1>9. s \in PC \ {"out"}
  BY Zenon DEF PC
<1>10. QED BY <1>3, <1>4, <1>6, <1>7, <1>8, <1>9, MovesIInv, Types, ActiveType, Zenon

LEMMA ModifyIInv ==
  ASSUME IInv, NEW p \in Process, NEW v \in Value, modify(p, v)
  PROVE  IInv'
<1>1. pc[p] = "hold" /\ Moves(p, "bwrite")
  BY DEF modify, At, Goto, Moves
<1>2. /\ data' = [data EXCEPT ![buf[p]] = v] /\ dirty' = [dirty EXCEPT ![buf[p]] = 1]
      /\ UNCHANGED <<valid, lock, waiting, idequeue, active>>
  BY DEF modify
<1>3. QED BY <1>1, <1>2, ChangesIInv, Zenon

LEMMA LogWriteIInv ==
  ASSUME IInv, NEW p \in Process, NEW v \in Value, log_write(p, v)
  PROVE  IInv'
<1>1. pc[p] = "hold" /\ panicked = 0 /\ p \notin waiting
      /\ UNCHANGED <<lru, blockno, refcnt, disk, buf, want, panicked, pc, waiting>>
  BY DEF log_write, At
<1>2. pc' = [pc EXCEPT ![p] = "hold"]
  BY <1>1, Types
<1>3. Moves(p, "hold")
  BY <1>1, <1>2, Zenon DEF Moves
<1>4. /\ data' = [data EXCEPT ![buf[p]] = v] /\ dirty' = [dirty EXCEPT ![buf[p]] = 1]
      /\ UNCHANGED <<valid, lock, waiting, idequeue, active>>
  BY DEF log_write
<1>5. QED BY <1>1, <1>3, <1>4, ChangesIInv, Zenon

LEMMA ReleasesleepIInv ==
  ASSUME IInv, NEW p \in Process, releasesleep(p)
  PROVE  IInv'
<1>1. /\ panicked = 0 /\ pc[p] = "hold" /\ p \notin waiting
      /\ panicked' = IF lock[buf[p]] # p THEN 1 ELSE 0
      /\ lock' = [lock EXCEPT ![buf[p]] = NoProc]
      /\ waiting' = waiting \ {q \in Process : buf[q] = buf[p] /\ pc[q] = "acquiresleep"}
      /\ pc' = [pc EXCEPT ![p] = "brelse"]
      /\ UNCHANGED <<lru, blockno, valid, dirty, refcnt, data, idequeue, active, disk, buf, want>>
  BY DEF releasesleep, At, Goto, buffers
<1>2. lock[buf[p]] = p /\ buf[p] \in Buf /\ \A q \in Process : q # p /\ pc[q] \in Locked => buf[q] # buf[p]
  BY <1>1, NotQueued DEF Locked
<1>3. Moves(p, "brelse")
  BY <1>1, <1>2 DEF Moves
<1>4. \A q \in waiting : pc[q] = "iderw" => q \in waiting'
  BY <1>1
<1>5. Flags' /\ Served' /\ Queued'
  BY <1>1, <1>3, <1>4, SameFlags, SameServed, SameQueued
<1>6. lock' \in [Buf -> Process \cup {NoProc}] /\ lock'[buf[p]] = NoProc
      /\ \A b \in Buf : b # buf[p] => lock'[b] = lock[b]
  BY <1>1, <1>2, Types
<1>7. Locks'
  <2>1. ASSUME NEW b \in Buf, NEW q \in Process PROVE lock'[b] = q <=> buf[q] = b /\ pc'[q] \in Locked
    <3>1. CASE b = buf[p]
      BY <1>2, <1>3, <1>6, <3>1, Others, BcacheAssumption DEF Locked
    <3>2. CASE b # buf[p]
      BY <1>3, <1>6, <3>2, Others DEF IInv, Locks
    <3>3. QED BY <3>1, <3>2
  <2>2. QED BY <1>1, <2>1 DEF Locks
<1>8. Knows'
  BY <1>1, <1>3, <1>4, Others DEF IInv, Knows
<1>9. NoLostWakeup'
  <2>1. ASSUME NEW q \in waiting', pc'[q] = "acquiresleep" PROVE lock'[buf'[q]] # NoProc
    <3>1. q \in Process /\ q \in waiting /\ q # p /\ pc[q] = "acquiresleep"
      BY <1>1, <1>3, <2>1, Others, Types
    <3>2. buf[q] # buf[p] /\ buf[q] \in Buf
      BY <1>1, <2>1, <3>1, Has
    <3>3. QED BY <1>1, <1>6, <3>1, <3>2 DEF IInv, NoLostWakeup
  <2>2. QED BY <2>1 DEF NoLostWakeup
<1>10. "brelse" \in PC \ {"out"}
  BY Zenon DEF PC
<1>11. QED BY <1>1, <1>3, <1>5, <1>6, <1>7, <1>8, <1>9, <1>10, MovesIInv, Types, ActiveType, Zenon

-----------------------------------------------------------------------------
(* Taking a reference to a buffer, and giving it back *)

\* bget and brelse touch no buffer another process refers to.
LEMMA Untouched ==
  ASSUME IInv, NEW p \in Process, panicked = 0, p \notin waiting, pc[p] \in {"out", "brelse"},
         NEW c, NEW s \in {"out", "acquiresleep"},
         pc' = [pc EXCEPT ![p] = s], buf' = [buf EXCEPT ![p] = c],
         UNCHANGED <<lock, waiting, idequeue, active, data>>,
         \A q \in Process : q # p /\ buf[q] \in Buf => valid'[buf[q]] = valid[buf[q]] /\ dirty'[buf[q]] = dirty[buf[q]]
  PROVE  Locks' /\ Knows' /\ Queued' /\ Served' /\ NoLostWakeup'
<1>1. /\ pc'[p] = s /\ buf'[p] = c
      /\ \A q \in Process : q # p => pc'[q] = pc[q] /\ buf'[q] = buf[q]
  BY Types
<1>2. Locks'
  BY <1>1 DEF IInv, Locks, Locked
<1>3. Knows'
  <2>1. ASSUME NEW q \in Process, q # p, pc[q] \in Locked
        PROVE  valid'[buf'[q]] = valid[buf[q]] /\ dirty'[buf'[q]] = dirty[buf[q]]
    BY <1>1, <2>1, Has DEF Locked
  <2>2. QED BY <1>1, <2>1 DEF IInv, Knows, Locked
<1>4. NoLostWakeup'
  BY <1>1, Types DEF IInv, NoLostWakeup
<1>5. \A j \in 1..Len(idequeue) : \E q \in waiting : q # p /\ pc[q] = "iderw" /\ buf[q] = idequeue[j]
  BY DEF IInv, Queued
<1>6. Queued'
  <2>1. \A j \in 1..Len(idequeue) : \E q \in waiting : pc'[q] = "iderw" /\ buf'[q] = idequeue[j]
    BY <1>1, <1>5, Types
  <2>2. QED BY <2>1 DEF IInv, Queued
<1>7. Served'
  <2>1. CASE idequeue = << >>
    BY <2>1 DEF IInv, Served
  <2>2. CASE idequeue # << >>
    <3>1. idequeue[1] \in Buf /\ 1 \in 1..Len(idequeue)
      BY <2>2, Types
    <3>2. PICK q \in waiting : q # p /\ buf[q] = idequeue[1]
      BY <1>5, <3>1
    <3>3. dirty'[idequeue[1]] = dirty[idequeue[1]]
      BY <3>1, <3>2, Types
    <3>4. QED BY <2>2, <3>3 DEF IInv, Served, Request
  <2>3. QED BY <2>1, <2>2
<1>8. QED BY <1>2, <1>3, <1>4, <1>6, <1>7

\* Moving a buffer to the front keeps every buffer on the list.
LEMMA MoveToFrontLists ==
  ASSUME IInv, NEW b \in Buf
  PROVE  MoveToFront(b) \in [1..Cardinality(Buf) -> Buf] /\ Range(MoveToFront(b)) = Buf
<1> DEFINE N == Cardinality(Buf)
           k == CHOOSE j \in 1..N : lru[j] = b
           m == [j \in 1..N |-> IF j = 1 THEN b ELSE IF j <= k THEN lru[j - 1] ELSE lru[j]]
<1>1. N \in Nat /\ lru \in [1..N -> Buf] /\ Range(lru) = Buf
  BY FS_CardinalityType, BcacheAssumption DEF IInv, TypeOK
<1>2. \A x \in Buf : \E j \in 1..N : lru[j] = x
  BY <1>1 DEF Range
<1>3. k \in 1..N /\ lru[k] = b
  BY <1>2
<1> HIDE DEF N, k
<1>4. m \in [1..N -> Buf]
  BY <1>1, <1>3
<1>5. ASSUME NEW x \in Buf PROVE \E j \in 1..N : m[j] = x
  <2>1. PICK i \in 1..N : lru[i] = x
    BY <1>2
  <2>2. CASE i = k
    <3>1. 1 \in 1..N /\ m[1] = x
      BY <1>1, <1>3, <2>1, <2>2
    <3>2. QED BY <3>1
  <2>3. CASE i < k
    <3>1. i + 1 \in 1..N /\ i + 1 # 1 /\ i + 1 <= k /\ (i + 1) - 1 = i
      BY <1>1, <1>3, <2>1, <2>3
    <3>2. m[i + 1] = x
      BY <2>1, <3>1
    <3>3. QED BY <3>1, <3>2
  <2>4. CASE i > k
    <3>1. i # 1 /\ ~(i <= k)
      BY <1>1, <1>3, <2>1, <2>4
    <3>2. QED BY <2>1, <3>1
  <2>5. QED BY <1>1, <1>3, <2>1, <2>2, <2>3, <2>4
<1>6. Range(m) = Buf
  BY <1>4, <1>5 DEF Range
<1>7. m = MoveToFront(b)
  BY DEF MoveToFront, N, k
<1>8. QED BY <1>4, <1>6, <1>7, Zenon DEF N

LEMMA BrelseIInv ==
  ASSUME IInv, NEW p \in Process, brelse(p)
  PROVE  IInv'
<1>1. /\ panicked = 0 /\ pc[p] = "brelse" /\ p \notin waiting
      /\ buf' = [buf EXCEPT ![p] = NoBuf] /\ want' = [want EXCEPT ![p] = NoBlock]
      /\ pc' = [pc EXCEPT ![p] = "out"]
      /\ UNCHANGED <<blockno, valid, dirty, data, lock, waiting, idequeue, active, disk, panicked>>
  BY DEF brelse, At, Goto
<1>2. PICK b \in Buf : /\ b = buf[p] /\ refcnt' = [refcnt EXCEPT ![b] = @ - 1]
                       /\ lru' = IF refcnt[b] = 1 THEN MoveToFront(b) ELSE lru
  BY <1>1, Has, Zenon DEF brelse
<1>3. Locks' /\ Knows' /\ Queued' /\ Served' /\ NoLostWakeup'
  BY <1>1, Untouched, Zenon
<1>4. /\ pc' \in [Process -> PC] /\ buf' \in [Process -> Buf \cup {NoBuf}] /\ want' \in [Process -> Block \cup {NoBlock}]
      /\ pc'[p] = "out" /\ buf'[p] = NoBuf
      /\ \A q \in Process : q # p => pc'[q] = pc[q] /\ buf'[q] = buf[q] /\ want'[q] = want[q]
  BY <1>1, Types DEF PC
<1>5. /\ Cardinality(Users(b))' = Cardinality(Users(b)) - 1
      /\ \A x \in Buf : x # b => Users(x)' = Users(x)
  BY <1>1, <1>2, UsersRemove, Zenon
<1>6. \A x \in Buf : refcnt'[x] = Cardinality(Users(x))'
  BY <1>1, <1>2, <1>5, Types DEF IInv, Refs
<1>7. refcnt' \in [Buf -> 0..Cardinality(Process)]
  <2>1. \A x \in Buf : Cardinality(Users(x))' \in 0..Cardinality(Process)
    BY UsersCount, Zenon
  <2>2. QED BY <1>2, <1>6, <2>1, Types
<1>8. lru' \in [1..Cardinality(Buf) -> Buf] /\ Range(lru') = Buf
  BY <1>1, <1>2, MoveToFrontLists DEF IInv, TypeOK
<1>9. TypeOK'
  BY <1>1, <1>4, <1>7, <1>8, Zenon DEF IInv, TypeOK, PC
<1>10. Refs'
  BY <1>6, Zenon DEF Refs
<1>11. Owns'
  BY <1>1, <1>4 DEF IInv, Owns
<1>12. Flags' /\ OneBufferPerBlock'
  BY <1>1 DEF IInv, Flags, OneBufferPerBlock
<1>13. QED BY <1>3, <1>9, <1>10, <1>11, <1>12 DEF IInv

\* What bget does whichever buffer it finds.
Gets(p, n) ==
  /\ panicked = 0 /\ pc[p] = "out" /\ p \notin waiting
  /\ want' = [want EXCEPT ![p] = n] /\ pc' = [pc EXCEPT ![p] = "acquiresleep"]
  /\ UNCHANGED <<lru, data, lock, waiting, idequeue, active, disk>>

LEMMA GetsIInv ==
  ASSUME IInv, NEW p \in Process, NEW n \in Block, NEW b \in Buf, Gets(p, n),
         buf' = [buf EXCEPT ![p] = b], refcnt' = [refcnt EXCEPT ![b] = refcnt[b] + 1],
         panicked' = 0, blockno' \in [Buf -> Block \cup {NoBlock}],
         valid' \in [Buf -> {0, 1}], dirty' \in [Buf -> {0, 1}], blockno'[b] = n,
         \A q \in Process : buf[q] \in Buf => /\ valid'[buf[q]] = valid[buf[q]] /\ dirty'[buf[q]] = dirty[buf[q]]
                                              /\ blockno'[buf[q]] = blockno[buf[q]],
         Flags', OneBufferPerBlock'
  PROVE  IInv'
<1>1. Locks' /\ Knows' /\ Queued' /\ Served' /\ NoLostWakeup'
  BY Untouched, Zenon DEF Gets
<1>2. /\ pc' \in [Process -> PC] /\ buf' \in [Process -> Buf \cup {NoBuf}] /\ want' \in [Process -> Block \cup {NoBlock}]
      /\ pc'[p] = "acquiresleep" /\ buf'[p] = b /\ want'[p] = n
      /\ \A q \in Process : q # p => pc'[q] = pc[q] /\ buf'[q] = buf[q] /\ want'[q] = want[q]
  BY Types DEF Gets, PC
<1>3. buf[p] = NoBuf
  BY DEF Gets, IInv, Owns
<1>4. /\ Cardinality(Users(b))' = Cardinality(Users(b)) + 1
      /\ \A x \in Buf : x # b => Users(x)' = Users(x)
  BY <1>3, UsersAdd, Zenon
<1>5. \A x \in Buf : refcnt'[x] = Cardinality(Users(x))'
  BY <1>4, Types DEF IInv, Refs
<1>6. refcnt' \in [Buf -> 0..Cardinality(Process)]
  <2>1. \A x \in Buf : Cardinality(Users(x))' \in 0..Cardinality(Process)
    BY UsersCount, Zenon
  <2>2. QED BY <1>5, <2>1, Types
<1>7. TypeOK'
  BY <1>2, <1>6, Zenon DEF Gets, IInv, TypeOK, PC
<1>8. Refs'
  BY <1>5, Zenon DEF Refs
<1>9. ASSUME NEW q \in Process, q # p, buf[q] # NoBuf
      PROVE  want[q] \in Block /\ blockno'[buf[q]] = want[q]
  BY <1>9, Types DEF IInv, Owns
<1>10. Owns'
  BY <1>2, <1>9, BcacheAssumption DEF Gets, IInv, Owns
<1>11. QED BY <1>1, <1>7, <1>8, <1>10 DEF IInv

LEMMA BgetIInv ==
  ASSUME IInv, NEW p \in Process, NEW n \in Block, bget(p, n)
  PROVE  IInv'
<1>1. Gets(p, n)
  <2>1. UNCHANGED data
    BY DEF bget, buffers
  <2>2. QED BY <2>1 DEF bget, Gets, At, Goto
<1>2. CASE Cached(n) # {}
  <2>1. PICK b \in Cached(n) : /\ refcnt' = [refcnt EXCEPT ![b] = @ + 1] /\ buf' = [buf EXCEPT ![p] = b]
                               /\ UNCHANGED <<blockno, valid, dirty, data, panicked>>
    BY <1>2, Zenon DEF bget
  <2>2. b \in Buf /\ blockno'[b] = n /\ panicked' = 0
    BY <1>1, <2>1, Zenon DEF Cached, Gets
  <2>3. Flags' /\ OneBufferPerBlock'
    BY <2>1, Zenon DEF IInv, Flags, OneBufferPerBlock
  <2>4. refcnt' = [refcnt EXCEPT ![b] = refcnt[b] + 1]
    BY <2>1
  <2>5. /\ blockno' \in [Buf -> Block \cup {NoBlock}] /\ valid' \in [Buf -> {0, 1}] /\ dirty' \in [Buf -> {0, 1}]
    BY <2>1, Types, Zenon
  <2>6. QED BY <1>1, <2>1, <2>2, <2>3, <2>4, <2>5, GetsIInv, Zenon
<1>3. CASE Cached(n) = {} /\ Recyclable # {}
  <2>1. PICK b \in Recyclable : /\ blockno' = [blockno EXCEPT ![b] = n] /\ valid' = [valid EXCEPT ![b] = 0]
                                /\ dirty' = [dirty EXCEPT ![b] = 0] /\ refcnt' = [refcnt EXCEPT ![b] = 1]
                                /\ buf' = [buf EXCEPT ![p] = b] /\ UNCHANGED <<data, panicked>>
    BY <1>3, Zenon DEF bget
  <2>2. b \in Buf /\ refcnt[b] = 0 /\ panicked' = 0
    BY <1>1, <2>1, Zenon DEF Recyclable, Gets
  <2>3. \A q \in Process : buf[q] # b
    BY <2>2, NoUsers
  <2>4. /\ blockno' \in [Buf -> Block \cup {NoBlock}] /\ valid' \in [Buf -> {0, 1}] /\ dirty' \in [Buf -> {0, 1}]
        /\ blockno'[b] = n /\ valid'[b] = 0 /\ dirty'[b] = 0
        /\ \A x \in Buf : x # b => blockno'[x] = blockno[x] /\ valid'[x] = valid[x] /\ dirty'[x] = dirty[x]
    BY <2>1, <2>2, Types
  <2>5. refcnt' = [refcnt EXCEPT ![b] = refcnt[b] + 1]
    BY <2>1, <2>2
  <2>6. Flags'
    BY <2>4 DEF IInv, Flags
  <2>7. OneBufferPerBlock'
    BY <1>3, <2>4 DEF IInv, OneBufferPerBlock, Cached
  <2>8. \A q \in Process : buf[q] \in Buf => /\ valid'[buf[q]] = valid[buf[q]] /\ dirty'[buf[q]] = dirty[buf[q]]
                                              /\ blockno'[buf[q]] = blockno[buf[q]]
    BY <2>3, <2>4
  <2>9. QED BY <1>1, <2>1, <2>2, <2>4, <2>5, <2>6, <2>7, <2>8, GetsIInv, Zenon
<1>4. CASE Cached(n) = {} /\ Recyclable = {}
  <2>1. panicked' = NoBuffers /\ UNCHANGED <<blockno, valid, dirty, refcnt, data, buf>>
    BY <1>4, Zenon DEF bget, buffers
  <2>2. buf[p] = NoBuf
    BY <1>1 DEF Gets, IInv, Owns
  <2>3. buf' = [buf EXCEPT ![p] = NoBuf]
    BY <2>1, <2>2, Types
  <2>4. Locks' /\ Knows' /\ Queued' /\ Served' /\ NoLostWakeup'
    BY <1>1, <2>1, <2>3, Untouched, Zenon DEF Gets
  <2>5. /\ pc' \in [Process -> PC] /\ want' \in [Process -> Block \cup {NoBlock}]
        /\ pc'[p] = "acquiresleep" /\ \A q \in Process : q # p => pc'[q] = pc[q] /\ want'[q] = want[q]
    BY <1>1, Types DEF Gets, PC
  <2>6. TypeOK'
    BY <1>1, <2>1, <2>5, Zenon DEF Gets, IInv, TypeOK, PC
  <2>7. Refs' /\ Flags' /\ OneBufferPerBlock'
    BY <2>1 DEF IInv, Refs, Users, Flags, OneBufferPerBlock
  <2>8. Owns'
    BY <1>1, <2>1, <2>2, <2>5 DEF Gets, IInv, Owns, NoBuffers
  <2>9. QED BY <2>4, <2>6, <2>7, <2>8 DEF IInv
<1>5. QED BY <1>2, <1>3, <1>4

====
