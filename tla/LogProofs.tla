------------------------------- MODULE LogProofs -------------------------------
(***************************************************************************)
(* The log of Log for any processes, blocks, contents and sizes: the rest  *)
(* of a commit, crash and recovery preserve the invariant; durability and  *)
(* write-ahead follow from it, and so does crash atomicity: Log implements *)
(* AtomicDisk.                                                             *)
(***************************************************************************)
EXTENDS LogOpProofs

\* Installing a block, in a commit or in a recovery: a step of the loop brings
\* one home location up to date and cleans one buffer.
LEMMA InstallFacts ==
  ASSUME IInv, Install, stage \in {"install", "reinstall"}
  PROVE  /\ tail \in 1..Len(lh) /\ Len(lh) \in Nat /\ head = lh
         /\ \A i \in 1..Len(lh) : lh[i] \in Block
         /\ disk' \in [Block -> Value] /\ cache' \in [Block -> Value \cup {NotCached}] /\ dirty' \subseteq Block
         /\ \A i \in 1..tail : disk'[lh[i]] = logblk[i]
         /\ \A b \in Block : b # lh[tail] => disk'[b] = disk[b] /\ cache'[b] = cache[b]
         /\ disk'[lh[tail]] = logblk[tail] /\ cache'[lh[tail]] = logblk[tail]
         /\ logblk[tail] \in Value /\ logblk[tail] # NotCached
<1>1. /\ tail \in 1..Len(lh) /\ Len(lh) \in Nat /\ head = lh /\ Len(lh) < NLog
      /\ \A i \in 1..Len(lh) : lh[i] \in Block
  BY DEF IInv, TypeOK, Control, Headers
<1>2. logblk[tail] \in Value /\ logblk[tail] # NotCached
  BY <1>1, Sizes, LogAssumption DEF IInv, TypeOK
<1>3. /\ disk' \in [Block -> Value] /\ cache' \in [Block -> Value \cup {NotCached}] /\ dirty' \subseteq Block
      /\ \A b \in Block : b # lh[tail] => disk'[b] = disk[b] /\ cache'[b] = cache[b]
      /\ disk'[lh[tail]] = logblk[tail] /\ cache'[lh[tail]] = logblk[tail]
  BY <1>1, <1>2 DEF Install, IInv, TypeOK
<1>4. \A i \in 1..(tail - 1) : lh[i] # lh[tail] /\ disk[lh[i]] = logblk[i]
  BY <1>1 DEF IInv, Headers, Contents, HomeCopies
<1>5. \A i \in 1..tail : disk'[lh[i]] = logblk[i]
  BY <1>1, <1>3, <1>4
<1>6. QED BY <1>1, <1>2, <1>3, <1>5

LEMMA InstallIInv ==
  ASSUME IInv, install_trans \/ reinstall
  PROVE  IInv'
<1>0. /\ stage \in {"install", "reinstall"} /\ Install
      /\ stage = "install" => stage' \in {"install", "clear"}
      /\ stage = "reinstall" => stage' \in {"reinstall", "reclear"}
      /\ IF tail = Len(lh) THEN stage' \in {"clear", "reclear"} /\ tail' = 1 ELSE stage' = stage /\ tail' = tail + 1
      /\ UNCHANGED <<logblk, head, lh, outstanding, committing, pc, mod, wrote, panicked>>
  BY DEF install_trans, reinstall, Install, Advance, logvars, opvars
<1>1. TypeOK' /\ NoPanic'
  BY <1>0, InstallFacts DEF IInv, TypeOK, NoPanic, Stage
<1>2. Buffers' /\ Space' /\ SleeperHasWaker' /\ Active' = {}
  BY <1>0, Inside DEF Recovering, opvars
<1>3. Control'
  BY <1>0, <1>2, InstallFacts DEF IInv, Control, Committing, Recovering
<1>4. Headers'
  BY <1>0 DEF IInv, Headers
<1>5. Contents'
  <2>1. stage = "install" => dirty' = {lh[i] : i \in (tail + 1)..Len(lh)}
    <3> SUFFICES ASSUME stage = "install" PROVE dirty' = {lh[i] : i \in (tail + 1)..Len(lh)}
      OBVIOUS
    <3>1. dirty = {lh[i] : i \in tail..Len(lh)} /\ dirty' = dirty \ {lh[tail]}
      BY <1>0 DEF IInv, Contents, DirtyBuffers, Install
    <3>2. \A i \in tail..Len(lh) : lh[i] # lh[tail] <=> i \in (tail + 1)..Len(lh)
      BY <1>0, InstallFacts DEF IInv, Headers
    <3>3. (tail + 1)..Len(lh) \subseteq tail..Len(lh)
      BY <1>0, InstallFacts
    <3>4. QED BY <3>1, <3>2, <3>3
  <2>2. stage = "reinstall" => dirty' = {}
    BY <1>0 DEF IInv, Contents, DirtyBuffers, Install
  <2>3. dirty' = IF stage' = "install" THEN {lh[i] : i \in tail'..Len(lh)} ELSE {}
    BY <1>0, <2>1, <2>2, InstallFacts
  <2>4. \A b \in Block : b \notin dirty' => b \notin dirty \/ b = lh[tail]
    BY <1>0 DEF Install
  <2>5. \A b \in Block : b \notin dirty' /\ (\A p \in Proc : mod'[p] # b) => cache'[b] \in {NotCached, disk'[b]}
    BY <1>0, <2>4, InstallFacts DEF IInv, Contents, CleanBuffers
  <2>6. stage = "install" => \A i \in 1..Len(lh) : logblk[i] = Content(lh[i])'
    <3> SUFFICES ASSUME stage = "install", NEW i \in 1..Len(lh) PROVE logblk[i] = Content(lh[i])'
      OBVIOUS
    <3>1. CASE i = tail
      BY <1>0, <3>1, InstallFacts DEF Content
    <3>2. CASE i # tail
      <4>1. lh[i] # lh[tail] /\ lh[i] \in Block
        BY <1>0, <3>2, InstallFacts DEF IInv, Headers
      <4>2. cache'[lh[i]] = cache[lh[i]] /\ disk'[lh[i]] = disk[lh[i]] /\ lh' = lh
        BY <1>0, <4>1, InstallFacts
      <4>3. logblk[i] = Content(lh[i])
        BY DEF IInv, Contents, LogCopies
      <4>4. QED BY <4>2, <4>3 DEF Content
    <3>3. QED BY <3>1, <3>2
  <2>7. \A i \in 1..tail : disk'[lh[i]] = logblk[i]
    BY <1>0, InstallFacts
  <2>8. DirtyBuffers'
    BY <1>0, <2>3, <2>5, <2>6, <2>7, InstallFacts DEF DirtyBuffers
  <2>9. CleanBuffers'
    BY <1>0, <2>3, <2>5, <2>6, <2>7, InstallFacts DEF CleanBuffers
  <2>10. LogCopies'
    BY <1>0, <2>3, <2>5, <2>6, <2>7, InstallFacts DEF LogCopies
  <2>11. HomeCopies'
    BY <1>0, <2>3, <2>5, <2>6, <2>7, InstallFacts DEF HomeCopies
  <2>12. QED BY <2>8, <2>9, <2>10, <2>11 DEF Contents
<1>6. QED BY <1>1, <1>2, <1>3, <1>4, <1>5 DEF IInv

LEMMA ClearIInv ==
  ASSUME IInv, clear
  PROVE  IInv'
<1>0. /\ stage = "clear" /\ stage' = "done" /\ lh' = <<>> /\ head' = <<>>
      /\ UNCHANGED <<disk, logblk, cache, dirty, outstanding, committing, pc, mod, wrote, tail, panicked>>
  BY DEF clear, Erase, opvars
<1>1. TypeOK' /\ NoPanic'
  BY <1>0 DEF IInv, TypeOK, NoPanic, Stage
<1>2. Buffers' /\ Space' /\ SleeperHasWaker' /\ Active' = {}
  BY <1>0, Inside DEF Recovering, opvars
<1>3. Control'
  BY <1>0, <1>2 DEF IInv, Control, Committing, Recovering
<1>4. Headers'
  BY <1>0, LogAssumption DEF Headers
<1>5. Contents'
  <2>1. DirtyBuffers'
    BY <1>0 DEF IInv, Contents, DirtyBuffers
  <2>2. CleanBuffers'
    BY <1>0 DEF IInv, Contents, CleanBuffers
  <2>3. LogCopies'
    BY <1>0 DEF IInv, Contents, LogCopies
  <2>4. HomeCopies'
    BY <1>0 DEF IInv, Contents, HomeCopies
  <2>5. QED BY <2>1, <2>2, <2>3, <2>4 DEF Contents
<1>6. QED BY <1>1, <1>2, <1>3, <1>4, <1>5 DEF IInv

LEMMA CommitDoneIInv ==
  ASSUME IInv, NEW p \in Proc, commit_done(p)
  PROVE  IInv'
<1>0. /\ stage = "done" /\ stage' = "up" /\ lh = <<>> /\ committing' = 0
      /\ pc' = [Woken EXCEPT ![p] = "idle"]
      /\ UNCHANGED <<disk, logblk, head, cache, dirty, lh, outstanding, mod, wrote, tail, panicked>>
  BY DEF commit_done, IInv, Control, diskvars
<1>1. \A q \in Proc : pc'[q] \notin {"op", "asleep"}
  BY <1>0, NobodyInside DEF Woken
<1>2. TypeOK' /\ NoPanic'
  <2>1. pc' \in [Proc -> {"idle", "begin_op", "asleep", "op", "commit"}]
    BY <1>0 DEF IInv, TypeOK, Woken
  <2>2. QED BY <1>0, <2>1 DEF IInv, TypeOK, NoPanic, Stage
<1>3. Active' = {} /\ Claims' = {} /\ outstanding = 0
  BY <1>0, <1>1, NobodyInside DEF Active, Claims
<1>4. Control'
  BY <1>0, <1>3 DEF Control, Committing, Recovering
<1>5. Buffers' /\ Headers'
  <2>1. \A q \in Proc : mod'[q] = NoBlock
    BY <1>0, NobodyInside
  <2>2. head' = <<>> /\ lh' = <<>> /\ NLog > 0
    BY <1>0, LogAssumption DEF IInv, Headers
  <2>3. Buffers'
    BY <2>1 DEF Buffers
  <2>4. Headers'
    BY <1>0, <2>2 DEF Headers
  <2>5. QED BY <2>3, <2>4
<1>6. Contents'
  <2>1. Range(lh) = {}
    BY <1>0 DEF Range
  <2>2. DirtyBuffers'
    BY <1>0, <2>1, Zenon DEF IInv, Contents, DirtyBuffers
  <2>3. CleanBuffers'
    BY <1>0, <2>1 DEF IInv, Contents, CleanBuffers
  <2>4. LogCopies'
    BY <1>0, <2>1 DEF IInv, Contents, LogCopies
  <2>5. HomeCopies'
    BY <1>0, <2>1 DEF IInv, Contents, HomeCopies
  <2>6. QED BY <2>2, <2>3, <2>4, <2>5 DEF Contents
<1>7. Space'
  <2>1. Cardinality(Active') = 0 /\ Cardinality(Claims') = 0
    BY <1>3, FS_EmptySet
  <2>2. Len(lh') = 0 /\ outstanding' = 0
    BY <1>0, <1>3
  <2>3. \A q \in Proc : IsFiniteSet(wrote'[q]) /\ Cardinality(wrote'[q]) <= OpBlocks
    BY <1>0 DEF IInv, Space
  <2>4. QED BY <2>1, <2>2, <2>3, Sizes DEF Space
<1>8. SleeperHasWaker'
  BY <1>1 DEF SleeperHasWaker
<1>9. QED BY <1>2, <1>4, <1>5, <1>6, <1>7, <1>8 DEF IInv

\* Only the disk counts after a crash: nothing that IInv asks of it depends on
\* where in a commit or in an earlier recovery the crash comes.
LEMMA CrashIInv ==
  ASSUME IInv, Crash
  PROVE  IInv'
<1>0. \A p \in Proc : pc'[p] = "idle" /\ mod'[p] = NoBlock /\ wrote'[p] = {}
  BY DEF Crash
<1>1. TypeOK' /\ NoPanic'
  BY DEF Crash, IInv, TypeOK, NoPanic, Stage, diskvars
<1>2. Active' = {} /\ Claims' = {}
  BY <1>0 DEF Active, Claims
<1>3. Control' /\ Buffers'
  BY <1>0, <1>2 DEF Crash, Control, Buffers, Committing, Recovering
<1>4. Headers' /\ Contents'
  <2>1. lh' = <<>> /\ head' = head /\ stage' = "read_head" /\ NLog > 0
    BY LogAssumption DEF Crash, diskvars
  <2>2. dirty' = {} /\ \A b \in Block : cache'[b] = NotCached
    BY DEF Crash
  <2>3. Headers'
    BY <2>1 DEF IInv, Headers
  <2>4. Contents'
    <3>1. DirtyBuffers'
      BY <2>1, <2>2 DEF DirtyBuffers
    <3>2. CleanBuffers'
      BY <2>1, <2>2 DEF CleanBuffers
    <3>3. LogCopies'
      BY <2>1, <2>2 DEF LogCopies
    <3>4. HomeCopies'
      BY <2>1, <2>2 DEF HomeCopies
    <3>5. QED BY <3>1, <3>2, <3>3, <3>4 DEF Contents
  <2>5. QED BY <2>3, <2>4
<1>5. Space'
  BY <1>0, <1>2, FS_EmptySet, Sizes DEF Crash, Space
<1>6. SleeperHasWaker'
  BY <1>0 DEF SleeperHasWaker
<1>7. QED BY <1>1, <1>3, <1>4, <1>5, <1>6 DEF IInv

LEMMA ReadHeadIInv ==
  ASSUME IInv, read_head
  PROVE  IInv'
<1>0. /\ stage = "read_head" /\ lh' = head /\ tail = 1 /\ head \in Seq(Block)
      /\ stage' = IF head = <<>> THEN "reclear" ELSE "reinstall"
      /\ UNCHANGED <<disk, logblk, head, cache, dirty, outstanding, committing, pc, mod, wrote, tail, panicked>>
  BY DEF read_head, IInv, TypeOK, Control, diskvars, opvars
<1>1. TypeOK' /\ NoPanic'
  BY <1>0 DEF IInv, TypeOK, NoPanic, Stage
<1>2. Buffers' /\ Space' /\ SleeperHasWaker' /\ Active' = {}
  BY <1>0, Inside DEF Recovering, opvars
<1>3. Control'
  BY <1>0, <1>2 DEF IInv, Control, Committing, Recovering
<1>4. Headers'
  BY <1>0 DEF IInv, Headers
<1>5. Contents'
  <2>1. dirty = {} /\ \A b \in Block : (\A p \in Proc : mod[p] # b) => cache[b] \in {NotCached, disk[b]}
    BY <1>0 DEF IInv, Contents, DirtyBuffers, CleanBuffers
  <2>2. stage' = "reclear" => Len(lh') = 0
    BY <1>0
  <2>3. DirtyBuffers'
    BY <1>0, <2>1, <2>2 DEF DirtyBuffers
  <2>4. CleanBuffers'
    BY <1>0, <2>1, <2>2 DEF CleanBuffers
  <2>5. LogCopies'
    BY <1>0, <2>1, <2>2 DEF LogCopies
  <2>6. HomeCopies'
    BY <1>0, <2>1, <2>2 DEF HomeCopies
  <2>7. QED BY <2>3, <2>4, <2>5, <2>6 DEF Contents
<1>6. QED BY <1>1, <1>2, <1>3, <1>4, <1>5 DEF IInv

LEMMA ReclearIInv ==
  ASSUME IInv, reclear
  PROVE  IInv'
<1>0. /\ stage = "reclear" /\ stage' = "up" /\ lh' = <<>> /\ head' = <<>>
      /\ UNCHANGED <<disk, logblk, cache, dirty, outstanding, committing, pc, mod, wrote, tail, panicked>>
      /\ \A p \in Proc : pc[p] = "idle"
  BY DEF reclear, Erase, IInv, Control, Recovering, opvars
<1>1. TypeOK' /\ NoPanic'
  BY <1>0 DEF IInv, TypeOK, NoPanic, Stage
<1>2. Active' = {} /\ Claims' = {} /\ outstanding = 0
  BY <1>0, NobodyInside DEF Active, Claims
<1>3. Control'
  BY <1>0, <1>2 DEF IInv, Control, Committing, Recovering
<1>4. Buffers' /\ Headers'
  <2>1. Buffers'
    BY <1>0 DEF IInv, Buffers
  <2>2. NLog > 0
    BY LogAssumption
  <2>3. Headers'
    BY <1>0, <2>2 DEF Headers
  <2>4. QED BY <2>1, <2>3
<1>5. Contents'
  <2>1. Range(lh') = {}
    BY <1>0 DEF Range
  <2>2. DirtyBuffers'
    BY <1>0, <2>1, Zenon DEF IInv, Contents, DirtyBuffers
  <2>3. CleanBuffers'
    BY <1>0, <2>1 DEF IInv, Contents, CleanBuffers
  <2>4. LogCopies'
    BY <1>0, <2>1 DEF IInv, Contents, LogCopies
  <2>5. HomeCopies'
    BY <1>0, <2>1 DEF IInv, Contents, HomeCopies
  <2>6. QED BY <2>2, <2>3, <2>4, <2>5 DEF Contents
<1>6. Space'
  <2>1. Cardinality(Active') = 0 /\ Cardinality(Claims') = 0
    BY <1>2, FS_EmptySet
  <2>2. Len(lh') = 0 /\ outstanding' = 0
    BY <1>0, <1>2
  <2>3. \A q \in Proc : IsFiniteSet(wrote'[q]) /\ Cardinality(wrote'[q]) <= OpBlocks
    BY <1>0 DEF IInv, Space
  <2>4. QED BY <2>1, <2>2, <2>3, Sizes DEF Space
<1>7. SleeperHasWaker'
  BY <1>0 DEF SleeperHasWaker
<1>8. QED BY <1>1, <1>3, <1>4, <1>5, <1>6, <1>7 DEF IInv

LEMMA StutterIInv ==
  ASSUME IInv, UNCHANGED vars
  PROVE  IInv'
<1>1. TypeOK' /\ NoPanic'
  BY DEF vars, IInv, TypeOK, NoPanic
<1>2. Control'
  BY DEF vars, IInv, Control, Active, Recovering
<1>3. Buffers' /\ Headers'
  BY DEF vars, IInv, Buffers, Headers
<1>4. Contents'
  <2>1. DirtyBuffers'
    BY DEF vars, IInv, Contents, DirtyBuffers
  <2>2. CleanBuffers'
    BY DEF vars, IInv, Contents, CleanBuffers
  <2>3. LogCopies'
    BY DEF vars, IInv, Content, Contents, LogCopies
  <2>4. HomeCopies'
    BY DEF vars, IInv, Contents, HomeCopies
  <2>5. QED BY <2>1, <2>2, <2>3, <2>4 DEF Contents
<1>5. Space'
  BY DEF vars, IInv, Space, Active, Claims, Logged
<1>6. SleeperHasWaker'
  BY DEF vars, IInv, SleeperHasWaker, Running, Recovering, LogFull
<1>7. QED BY <1>1, <1>2, <1>3, <1>4, <1>5, <1>6 DEF IInv

\* What holds at every point of any execution, with crashes anywhere (log.c).
THEOREM LogIInv == Spec => []IInv
<1>1. IInv /\ [Next]_vars => IInv'
  <2> SUFFICES ASSUME IInv, [Next]_vars PROVE IInv'
    OBVIOUS
  <2>1. ASSUME NEW b \in Block, bread(b) \/ bget(b) PROVE IInv'
    BY <2>1, CacheIInv
  <2>2. ASSUME NEW p \in Proc, call(p) PROVE IInv'
    BY <2>2, CallIInv
  <2>3. ASSUME NEW p \in Proc, begin_op(p) PROVE IInv'
    BY <2>3, BeginIInv
  <2>4. ASSUME NEW p \in Proc, NEW b \in Block, NEW v \in Value, modify(p, b, v) PROVE IInv'
    BY <2>4, ModifyIInv
  <2>5. ASSUME NEW p \in Proc, log_write(p) PROVE IInv'
    BY <2>5, LogWriteIInv
  <2>6. ASSUME NEW p \in Proc, end_op(p) PROVE IInv'
    BY <2>6, EndOpIInv
  <2>7. CASE Commit
    BY <2>7, WriteLogIInv, WriteHeadIInv, InstallIInv, ClearIInv DEF Commit
  <2>8. ASSUME NEW p \in Proc, commit_done(p) PROVE IInv'
    BY <2>8, CommitDoneIInv
  <2>9. CASE Recover
    BY <2>9, ReadHeadIInv, InstallIInv, ReclearIInv DEF Recover
  <2>10. CASE Crash
    BY <2>10, CrashIInv
  <2>11. CASE UNCHANGED vars
    BY <2>11, StutterIInv
  <2>12. QED BY <2>1, <2>2, <2>3, <2>4, <2>5, <2>6, <2>7, <2>8, <2>9, <2>10, <2>11 DEF Next
<1>2. QED BY InitIInv, <1>1, PTL DEF Spec

-----------------------------------------------------------------------------
(* Durability and write-ahead *)

\* A crash with an empty header leaves the home locations; one with a header
\* whose blocks have been installed leaves them too.
LEMMA OverlayFacts ==
  ASSUME IInv
  PROVE  /\ head = <<>> => Overlay = disk
         /\ \A i \in 1..Len(head) : head[i] \in Block /\ head[i] \in Range(head) /\ Overlay[head[i]] = logblk[i]
         /\ \A b \in Block : b \notin Range(head) => Overlay[b] = disk[b]
         /\ stage \in {"clear", "reclear"} => Overlay = disk
<1>1. DOMAIN head = 1..Len(head) /\ Len(head) \in Nat /\ \A i \in 1..Len(head) : head[i] \in Block
  BY DEF IInv, TypeOK
<1>2. \A b \in Block : b \notin Range(head) => Overlay[b] = disk[b]
  BY DEF Overlay
<1>3. \A i \in 1..Len(head) : head[i] \in Range(head) /\ Overlay[head[i]] = logblk[i]
  <2> SUFFICES ASSUME NEW i \in 1..Len(head)
               PROVE  head[i] \in Range(head) /\ Overlay[head[i]] = logblk[i]
    OBVIOUS
  <2> DEFINE k == CHOOSE j \in DOMAIN head : head[j] = head[i]
  <2>1. k \in 1..Len(head) /\ head[k] = head[i]
    BY <1>1
  <2>2. k = i
    BY <2>1 DEF IInv, Headers
  <2>3. head[i] \in Range(head)
    BY <1>1 DEF Range
  <2>4. Overlay[head[i]] = logblk[k]
    BY <1>1, <2>3 DEF Overlay
  <2>5. QED BY <2>2, <2>3, <2>4, Zenon
<1>4. \A b \in Block : b \in Range(head) => \E i \in 1..Len(head) : b = head[i]
  BY <1>1 DEF Range
<1>5. Overlay = [b \in Block |-> Overlay[b]] /\ disk = [b \in Block |-> disk[b]]
  BY DEF Overlay, IInv, TypeOK
<1>6. head = <<>> => \A b \in Block : Overlay[b] = disk[b]
  BY <1>2, <1>4
<1>7. stage \in {"clear", "reclear"} => \A b \in Block : Overlay[b] = disk[b]
  <2>1. stage \in {"clear", "reclear"} => \A i \in 1..Len(head) : disk[head[i]] = logblk[i]
    BY DEF IInv, Headers, Contents, HomeCopies
  <2>2. QED BY <1>2, <1>3, <1>4, <2>1
<1>8. QED BY <1>1, <1>2, <1>3, <1>5, <1>6, <1>7

\* With nobody inside a call and no dirty buffer, bread returns what is at home.
LEMMA CleanCache ==
  ASSUME IInv, Active = {}
  PROVE  \A b \in Block : b \notin dirty => Content(b) = disk[b]
<1>1. \A p \in Proc : mod[p] = NoBlock
  BY DEF Active, IInv, Buffers
<1>2. \A b \in Block : b \notin dirty /\ (\A p \in Proc : mod[p] # b) => cache[b] \in {NotCached, disk[b]}
  BY DEF IInv, Contents, CleanBuffers
<1>3. QED BY <1>1, <1>2, LogAssumption DEF Content

\* The log's safety invariant for any number of processes and blocks: what
\* finished calls wrote is durable, no call waits in begin_op without somebody
\* to wake it, and the reservation keeps log_write from panicking.
THEOREM LogInv == Spec => []Inv
<1>1. IInv => Inv
  <2> SUFFICES ASSUME IInv PROVE QuiescentIsDurable
    BY DEF IInv, Inv
  <2> SUFFICES ASSUME Running, outstanding = 0, committing = 0
               PROVE  \A b \in Block : Content(b) = Overlay[b]
    BY DEF QuiescentIsDurable
  <2>1. stage = "up" /\ lh = <<>> /\ head = <<>>
    BY DEF Running, Recovering, IInv, TypeOK, Control, Headers, Committing, Stage
  <2>2. dirty = {}
    BY <2>1 DEF IInv, Contents, DirtyBuffers, Range
  <2>3. Active = {}
    BY ClaimsBound, FS_EmptySet, Zenon DEF IInv, Space
  <2>4. QED BY <2>1, <2>2, <2>3, CleanCache, OverlayFacts
<1>2. QED BY LogIInv, <1>1, PTL

\* Write-ahead for any number of processes and blocks: install_trans is the only
\* writer of home locations, in a commit and in a recovery, and the header on
\* disk then lists the block.
THEOREM LogWriteAhead == Spec => WriteAhead
<1>1. IInv /\ [Next]_vars => [\A b \in Block : disk'[b] # disk[b] => b \in Range(head)]_vars
  <2> SUFFICES ASSUME IInv, Next PROVE \A b \in Block : disk'[b] # disk[b] => b \in Range(head)
    BY DEF vars
  <2>1. CASE install_trans \/ reinstall
    <3>1. Install /\ stage \in {"install", "reinstall"}
      BY <2>1 DEF install_trans, reinstall
    <3>2. /\ head = lh /\ tail \in 1..Len(head)
          /\ \A b \in Block : b # lh[tail] => disk'[b] = disk[b]
      BY <3>1, InstallFacts
    <3>3. QED BY <3>2, OverlayFacts
  <2>2. CASE disk' = disk
    BY <2>2
  <2>3. disk' = disk \/ install_trans \/ reinstall
    BY DEF Next, Commit, Recover, bread, bget, call, begin_op, modify, log_write, end_op, commit_done, write_log,
           write_head, clear, read_head, reclear, Crash, Erase, diskvars
  <2>4. QED BY <2>1, <2>2, <2>3
<1>2. QED BY LogIInv, <1>1, PTL DEF Spec, WriteAhead

-------------------------------------------------------------------------------
(* Crash atomicity: Log implements AtomicDisk *)

\* What the mapping makes of mem.
Mem == IF Recovering THEN Overlay ELSE [b \in Block |-> Content(b)]

LEMMA MemMapped == Disk!vars = <<Mem, Overlay, Active>>
BY DEF Disk!vars, Mem, Active

LEMMA OverlaySame ==
  ASSUME UNCHANGED <<disk, logblk, head>>
  PROVE  Overlay' = Overlay
BY DEF Overlay

LEMMA MemSame ==
  ASSUME Recovering' <=> Recovering, Overlay' = Overlay, \A b \in Block : Content(b)' = Content(b)
  PROVE  Mem' = Mem
BY DEF Mem

\* Steps that change neither what calls read nor what a crash leaves, nor who
\* is inside a call.
LEMMA CacheMapped ==
  ASSUME IInv, NEW b \in Block, bread(b) \/ bget(b)
  PROVE  UNCHANGED <<Mem, Overlay, Active>>
<1>1. UNCHANGED <<disk, logblk, head, stage, pc>>
  BY DEF bread, bget, diskvars, opvars
<1>2. \A x \in Block : Content(x)' = Content(x)
  BY CacheStep
<1>3. QED BY <1>1, <1>2, OverlaySame, MemSame DEF Recovering, Active

LEMMA QuietMapped ==
  ASSUME IInv, NEW p \in Proc, call(p) \/ log_write(p) \/ commit_done(p)
  PROVE  UNCHANGED <<Mem, Overlay, Active>>
<1>1. UNCHANGED <<disk, logblk, head, cache>> /\ (Recovering' <=> Recovering)
  BY DEF call, log_write, commit_done, diskvars, Recovering
<1>2. \A x \in Block : Content(x)' = Content(x)
  BY <1>1 DEF Content
<1>3. Active' = Active
  BY Zenon DEF call, log_write, commit_done, Active, IInv, TypeOK, Woken
<1>4. QED BY <1>1, <1>2, <1>3, OverlaySame, MemSame

LEMMA BeginMapped ==
  ASSUME IInv, NEW p \in Proc, begin_op(p)
  PROVE  Disk!Begin(p) \/ UNCHANGED <<Mem, Overlay, Active>>
<1>0. UNCHANGED <<disk, logblk, head, cache, stage>>
  BY DEF begin_op, diskvars
<1>1. Overlay' = Overlay /\ Mem' = Mem
  BY <1>0, OverlaySame, MemSame DEF Content, Recovering
<1>2. CASE pc' = [pc EXCEPT ![p] = "asleep"]
  BY <1>1, <1>2 DEF begin_op, Active, IInv, TypeOK
<1>3. CASE pc' = [pc EXCEPT ![p] = "op"]
  <2>1. p \notin Active /\ Active' = Active \cup {p}
    BY <1>3 DEF begin_op, Active, IInv, TypeOK
  <2>2. QED BY <1>1, <2>1 DEF Disk!Begin, Active, Mem
<1>4. QED BY <1>2, <1>3 DEF begin_op

LEMMA ModifyMapped ==
  ASSUME IInv, NEW p \in Proc, NEW b \in Block, NEW v \in Value, modify(p, b, v)
  PROVE  Disk!Write(p, b, v)
<1>1. Overlay' = Overlay /\ Active' = Active /\ p \in Active
  BY OverlaySame DEF modify, diskvars, Active
<1>2. ~Recovering /\ ~Recovering'
  BY DEF modify, Running, Recovering
<1>3. \A x \in Block : Content(x)' = IF x = b THEN v ELSE Content(x)
  BY LogAssumption DEF modify, Content, IInv, TypeOK, diskvars
<1>4. Mem' = [Mem EXCEPT ![b] = v]
  BY <1>2, <1>3, Zenon DEF Mem
<1>5. QED BY <1>1, <1>4 DEF Disk!Write, Mem, Active

LEMMA EndMapped ==
  ASSUME IInv, NEW p \in Proc, end_op(p)
  PROVE  Disk!End(p)
<1>1. Overlay' = Overlay /\ UNCHANGED <<disk, cache>>
  BY OverlaySame DEF end_op, diskvars
<1>2. Mem' = Mem
  BY <1>1, MemSame DEF end_op, Content, Running, Recovering
<1>3. p \in Active /\ Active' = Active \ {p}
  BY Zenon DEF end_op, Active, IInv, TypeOK, Woken
<1>4. QED BY <1>1, <1>2, <1>3 DEF Disk!End, Mem, Active

\* Before the header is written, a crash leaves the home locations.
LEMMA WriteLogMapped ==
  ASSUME IInv, write_log
  PROVE  UNCHANGED <<Mem, Overlay, Active>>
<1>1. IInv' /\ \A b \in Block : Content(b)' = Content(b)
  BY WriteLogIInv
<1>2. head = <<>> /\ head' = <<>> /\ disk' = disk
  BY DEF write_log, IInv, Headers
<1>3. Overlay' = Overlay
  <2>1. Overlay = disk
    BY <1>2, OverlayFacts
  <2>2. Overlay' = disk'
    BY <1>2 DEF Overlay, Range, IInv, TypeOK
  <2>3. QED BY <1>2, <2>1, <2>2
<1>4. Mem' = Mem
  BY <1>1, <1>3, MemSame DEF write_log, Advance, Recovering
<1>5. Active' = Active
  BY DEF write_log, Active, opvars
<1>6. QED BY <1>3, <1>4, <1>5

\* Writing the header is the commit: a crash then leaves what calls have
\* written, which is in the log, and the untouched home locations.
LEMMA WriteHeadMapped ==
  ASSUME IInv, write_head
  PROVE  Disk!Commit
<1>0. /\ stage = "write_head" /\ stage' = "install" /\ head' = lh
      /\ UNCHANGED <<disk, logblk, cache, lh, pc>>
      /\ DOMAIN lh = 1..Len(lh) /\ \A i \in 1..Len(lh) : lh[i] \in Block /\ logblk[i] = Content(lh[i])
  <2>1. /\ stage = "write_head" /\ stage' = "install" /\ head' = lh
        /\ UNCHANGED <<disk, logblk, cache, lh, pc>>
    BY DEF write_head, logvars, opvars
  <2>2. DOMAIN lh = 1..Len(lh) /\ \A i \in 1..Len(lh) : lh[i] \in Block
    BY DEF IInv, TypeOK
  <2>3. \A i \in 1..Len(lh) : logblk[i] = Content(lh[i])
    BY <2>1 DEF IInv, Contents, LogCopies
  <2>4. QED BY <2>1, <2>2, <2>3
<1>1. Active = {} /\ Active' = {}
  BY <1>0, NobodyInside DEF Active
<1>2. \A b \in Block : Content(b)' = Content(b)
  BY <1>0 DEF Content
<1>3. ~Recovering /\ ~Recovering'
  BY <1>0 DEF Recovering
<1>4. \A b \in Block : Overlay'[b] = Content(b)
  <2> SUFFICES ASSUME NEW b \in Block PROVE Overlay'[b] = Content(b)
    OBVIOUS
  <2>1. CASE b \in Range(lh)
    <3> DEFINE k == CHOOSE j \in DOMAIN lh : lh[j] = b
    <3>1. k \in 1..Len(lh) /\ lh[k] = b
      BY <1>0, <2>1 DEF Range
    <3>2. Overlay'[b] = logblk[k]
      BY <1>0, <2>1 DEF Overlay
    <3>3. QED BY <1>0, <3>1, <3>2
  <2>2. CASE b \notin Range(lh)
    <3>1. b \notin dirty
      BY <1>0, <2>2 DEF IInv, Contents, DirtyBuffers
    <3>2. Content(b) = disk[b]
      BY <1>1, <3>1, CleanCache
    <3>3. QED BY <1>0, <2>2, <3>2 DEF Overlay
  <2>3. QED BY <2>1, <2>2
<1>5. Overlay' = Mem
  BY <1>3, <1>4 DEF Mem, Overlay
<1>6. Mem' = Mem
  BY <1>2, <1>3 DEF Mem
<1>7. QED BY <1>1, <1>5, <1>6 DEF Disk!Commit, Mem, Active

\* Installing a block that the header lists changes nothing that anybody sees.
LEMMA InstallMapped ==
  ASSUME IInv, install_trans \/ reinstall
  PROVE  UNCHANGED <<Mem, Overlay, Active>>
<1>0. /\ stage \in {"install", "reinstall"} /\ Install /\ (Recovering' <=> Recovering)
      /\ UNCHANGED <<logblk, head, lh, pc>>
  BY DEF install_trans, reinstall, Install, Advance, Recovering, logvars, opvars
<1>1. /\ tail \in 1..Len(head) /\ head = lh /\ lh[tail] \in Block
      /\ \A b \in Block : b # lh[tail] => disk'[b] = disk[b] /\ cache'[b] = cache[b]
      /\ cache'[lh[tail]] = logblk[tail] /\ logblk[tail] # NotCached
  BY <1>0, InstallFacts
<1>2. lh[tail] \in Range(head)
  BY <1>1, OverlayFacts
<1>3. Overlay' = Overlay
  BY <1>0, <1>1, <1>2 DEF Overlay
<1>4. Mem' = Mem
  <2>1. CASE Recovering
    BY <1>0, <1>3, <2>1 DEF Mem
  <2>2. CASE ~Recovering
    <3>1. stage = "install"
      BY <1>0, <2>2 DEF Recovering
    <3>2. Content(lh[tail]) = logblk[tail]
      BY <1>1, <3>1 DEF IInv, Contents, LogCopies
    <3>3. \A b \in Block : Content(b)' = Content(b)
      BY <1>1, <3>2 DEF Content
    <3>4. QED BY <1>0, <1>3, <3>3, MemSame
  <2>3. QED BY <2>1, <2>2
<1>5. Active' = Active
  BY <1>0 DEF Active
<1>6. QED BY <1>3, <1>4, <1>5

\* Once every block is at home the header can go; after a recovery the empty
\* cache shows what the header protected.
LEMMA EraseMapped ==
  ASSUME IInv, clear \/ reclear
  PROVE  UNCHANGED <<Mem, Overlay, Active>>
<1>0. /\ stage \in {"clear", "reclear"} /\ head' = <<>>
      /\ stage = "clear" => stage' = "done"
      /\ stage = "reclear" => stage' = "up"
      /\ UNCHANGED <<disk, logblk, cache, pc>>
  BY DEF clear, reclear, Erase, opvars
<1>1. Overlay = disk
  BY <1>0, OverlayFacts
<1>2. Overlay' = disk
  BY <1>0 DEF Overlay, Range, IInv, TypeOK
<1>3. dirty = {} /\ Active = {} /\ Active' = Active
  BY <1>0, NobodyInside DEF IInv, Contents, DirtyBuffers, Active
<1>4. \A b \in Block : Content(b) = disk[b] /\ Content(b)' = Content(b)
  BY <1>0, <1>3, CleanCache DEF Content
<1>5. Mem = disk
  BY <1>1, <1>4 DEF Mem, IInv, TypeOK
<1>6. Mem' = disk
  BY <1>2, <1>4 DEF Mem, IInv, TypeOK
<1>7. QED BY <1>1, <1>2, <1>3, <1>5, <1>6

LEMMA ReadHeadMapped ==
  ASSUME read_head
  PROVE  UNCHANGED <<Mem, Overlay, Active>>
<1>1. Overlay' = Overlay
  BY OverlaySame DEF read_head, diskvars
<1>2. QED BY <1>1 DEF read_head, Mem, Recovering, Active, opvars

LEMMA CrashMapped ==
  ASSUME Crash
  PROVE  Disk!Crash
<1>1. Overlay' = Overlay
  BY OverlaySame DEF Crash, diskvars
<1>2. Recovering' /\ \A p \in Proc : pc'[p] # "op"
  BY DEF Crash, Recovering
<1>3. QED BY <1>1, <1>2 DEF Disk!Crash

\* log.c implements the atomic disk, for any number of processes and blocks and
\* any point at which a crash comes.
THEOREM LogAtomic == Spec => AtomicUpdates
<1>1. IInv /\ Init => Disk!Init
  <2> SUFFICES ASSUME IInv, Init PROVE Disk!Init
    OBVIOUS
  <2>1. Overlay = disk /\ disk \in [Block -> Value]
    BY OverlayFacts DEF Init
  <2>2. QED BY <2>1 DEF Init, Recovering, Disk!Init
<1>2. IInv /\ [Next]_vars => [Disk!Next]_(Disk!vars)
  <2> SUFFICES ASSUME IInv, [Next]_vars PROVE Disk!Next \/ UNCHANGED <<Mem, Overlay, Active>>
    BY MemMapped DEF Disk!vars, Mem, Active
  <2>1. ASSUME NEW b \in Block, bread(b) \/ bget(b) PROVE UNCHANGED <<Mem, Overlay, Active>>
    BY <2>1, CacheMapped
  <2>2. ASSUME NEW p \in Proc, call(p) \/ log_write(p) \/ commit_done(p)
        PROVE  UNCHANGED <<Mem, Overlay, Active>>
    BY <2>2, QuietMapped
  <2>3. ASSUME NEW p \in Proc, begin_op(p) PROVE Disk!Next \/ UNCHANGED <<Mem, Overlay, Active>>
    BY <2>3, BeginMapped DEF Disk!Next
  <2>4. ASSUME NEW p \in Proc, NEW b \in Block, NEW v \in Value, modify(p, b, v) PROVE Disk!Next
    BY <2>4, ModifyMapped DEF Disk!Next
  <2>5. ASSUME NEW p \in Proc, end_op(p) PROVE Disk!Next
    BY <2>5, EndMapped DEF Disk!Next
  <2>6. CASE Commit
    BY <2>6, WriteLogMapped, WriteHeadMapped, InstallMapped, EraseMapped DEF Commit, Disk!Next
  <2>7. CASE Recover
    BY <2>7, ReadHeadMapped, InstallMapped, EraseMapped DEF Recover
  <2>8. CASE Crash
    BY <2>8, CrashMapped DEF Disk!Next
  <2>9. CASE UNCHANGED vars
    <3>1. Overlay' = Overlay
      BY <2>9, OverlaySame DEF vars
    <3>2. (Recovering' <=> Recovering) /\ \A b \in Block : Content(b)' = Content(b)
      BY <2>9 DEF vars, Recovering, Content
    <3>3. Active' = Active
      BY <2>9 DEF vars, Active
    <3>4. QED BY <3>1, <3>2, <3>3, MemSame
  <2>10. QED BY <2>1, <2>2, <2>3, <2>4, <2>5, <2>6, <2>7, <2>8, <2>9 DEF Next
<1>3. QED BY InitIInv, LogIInv, <1>1, <1>2, PTL DEF Spec, AtomicUpdates, Disk!Spec
===============================================================================
