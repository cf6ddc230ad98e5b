----------------------------- MODULE LogOpProofs -----------------------------
(***************************************************************************)
(* The inductive invariant of Log, and that what the file system calls do  *)
(* (begin_op, changing a buffer, log_write, end_op) and the first half of  *)
(* a commit (write_log, write_head) preserve it.                           *)
(***************************************************************************)
EXTENDS Log, FiniteSetTheorems, TLAPS

Active == {p \in Proc : pc[p] = "op"}

\* The blocks that begin_op has set aside for the calls in progress and that
\* they have not put in the log yet.
Logged(p) == Cardinality(wrote[p] \cap Range(lh))
Claims == {c \in Proc \X (1..MAXOPBLOCKS) : pc[c[1]] = "op" /\ c[2] > Logged(c[1])}

Committing == {"write_log", "write_head", "install", "clear", "done"}

\* Nobody is inside a call during a commit or a recovery, and the stage says
\* which of the two it is.
Control ==
  /\ committing = 1 <=> stage \in Committing
  /\ stage # "up" => Active = {}
  /\ Recovering => \A p \in Proc : pc[p] = "idle"
  /\ stage = "up" /\ outstanding = 0 => lh = <<>>
  /\ stage \in {"done", "read_head"} => lh = <<>>
  /\ stage \in {"write_log", "write_head", "install", "reinstall"} => tail \in 1..Len(lh)
  /\ stage \in {"write_head", "read_head"} => tail = 1

\* A changed buffer is locked by one call, which counts it.
Buffers ==
  /\ \A p \in Proc : mod[p] # NoBlock => pc[p] = "op" /\ mod[p] \in wrote[p]
  /\ \A p, q \in Proc : mod[p] # NoBlock /\ mod[p] = mod[q] => p = q

\* The two headers list blocks once; the one on disk is empty until the commit
\* and is that in memory from then on.
Headers ==
  /\ \A i, j \in 1..Len(lh) : lh[i] = lh[j] => i = j
  /\ \A i, j \in 1..Len(head) : head[i] = head[j] => i = j
  /\ Len(lh) < NLog /\ Len(head) < NLog
  /\ stage \in {"up", "write_log", "write_head", "done"} => head = <<>>
  /\ stage \in {"install", "clear", "reinstall", "reclear"} => head = lh

\* The dirty buffers are those of the blocks in the log, until installed.
DirtyBuffers ==
  /\ stage \in {"up", "write_log", "write_head"} => dirty = Range(lh)
  /\ stage = "install" => dirty = {lh[i] : i \in tail..Len(lh)}
  /\ stage \notin {"up", "write_log", "write_head", "install"} => dirty = {}

\* Any other cached buffer has what is in the home location.
CleanBuffers ==
  \A b \in Block : b \notin dirty /\ (\A p \in Proc : mod[p] # b) => cache[b] \in {NotCached, disk[b]}

\* The log has what the cache has, as far as write_log has come.
LogCopies ==
  /\ stage = "write_log" => \A i \in 1..(tail - 1) : logblk[i] = Content(lh[i])
  /\ stage \in {"write_head", "install"} => \A i \in 1..Len(lh) : logblk[i] = Content(lh[i])

\* The home locations have what the log has, as far as install_trans has come.
HomeCopies ==
  /\ stage \in {"install", "reinstall"} => \A i \in 1..(tail - 1) : disk[lh[i]] = logblk[i]
  /\ stage \in {"clear", "reclear"} => \A i \in 1..Len(lh) : disk[lh[i]] = logblk[i]

Contents == DirtyBuffers /\ CleanBuffers /\ LogCopies /\ HomeCopies

\* Admission: what is in the log and what is set aside fit in it.
Space ==
  /\ outstanding = Cardinality(Active)
  /\ \A p \in Proc : IsFiniteSet(wrote[p]) /\ Cardinality(wrote[p]) <= OpBlocks
  /\ stage = "up" => Len(lh) + Cardinality(Claims) <= LOGSIZE

\* The inductive invariant.
IInv ==
  /\ TypeOK
  /\ NoPanic
  /\ Control
  /\ Buffers
  /\ Headers
  /\ Contents
  /\ Space
  /\ SleeperHasWaker
-----------------------------------------------------------------------------
(* Lemmas *)

LEMMA Sizes ==
  /\ MAXOPBLOCKS \in Nat /\ LOGSIZE \in Nat /\ NLog \in Nat /\ OpBlocks \in Nat
  /\ MAXOPBLOCKS <= LOGSIZE /\ LOGSIZE <= NLog /\ OpBlocks + 2 <= MAXOPBLOCKS
BY LogAssumption, SlopAssumption

\* No more than MAXOPBLOCKS blocks are set aside for a call in progress.
LEMMA ClaimsBound ==
  /\ IsFiniteSet(Active) /\ Cardinality(Active) \in Nat
  /\ IsFiniteSet(Claims) /\ Cardinality(Claims) \in Nat
  /\ Cardinality(Claims) <= Cardinality(Active) * MAXOPBLOCKS
<1>1. IsFiniteSet(Active) /\ Cardinality(Active) \in Nat
  BY FiniteAssumption, FS_Subset, FS_CardinalityType DEF Active
<1>2. IsFiniteSet(1..MAXOPBLOCKS) /\ Cardinality(1..MAXOPBLOCKS) = MAXOPBLOCKS
  BY Sizes, FS_Interval
<1>3. /\ IsFiniteSet(Active \X (1..MAXOPBLOCKS))
      /\ Cardinality(Active \X (1..MAXOPBLOCKS)) = Cardinality(Active) * MAXOPBLOCKS
  BY <1>1, <1>2, FS_Product, Zenon
<1>4. Claims \subseteq Active \X (1..MAXOPBLOCKS)
  BY DEF Claims, Active
<1>5. QED BY <1>1, <1>3, <1>4, FS_Subset, FS_CardinalityType

\* What a call has in the log is part of what it wrote.
LEMMA LoggedBound ==
  ASSUME NEW p \in Proc, IsFiniteSet(wrote[p]), Cardinality(wrote[p]) <= OpBlocks
  PROVE  Logged(p) \in Nat /\ Logged(p) <= OpBlocks
<1>1. wrote[p] \cap Range(lh) \subseteq wrote[p]
  OBVIOUS
<1>2. /\ IsFiniteSet(wrote[p] \cap Range(lh))
      /\ Cardinality(wrote[p] \cap Range(lh)) <= Cardinality(wrote[p])
  BY <1>1, FS_Subset
<1>3. Cardinality(wrote[p] \cap Range(lh)) \in Nat /\ Cardinality(wrote[p]) \in Nat
  BY <1>2, FS_CardinalityType
<1>4. QED BY <1>2, <1>3, Sizes DEF Logged

\* A call in progress always has two blocks set aside that it does not use.
LEMMA TwoLeft ==
  ASSUME Space, NEW p \in Proc, pc[p] = "op"
  PROVE  Cardinality(Claims) >= 2
<1> DEFINE x == <<p, MAXOPBLOCKS>>
           y == <<p, MAXOPBLOCKS - 1>>
<1>1. Logged(p) \in Nat /\ Logged(p) <= OpBlocks
  BY LoggedBound DEF Space
<1>2. x \in Claims /\ y \in Claims /\ x # y
  BY <1>1, Sizes DEF Claims
<1>3. IsFiniteSet({y}) /\ Cardinality({y}) = 1
  BY FS_Singleton, Zenon
<1>4. x \notin {y} /\ {y} \cup {x} \subseteq Claims
  BY <1>2
<1>5. IsFiniteSet({y} \cup {x}) /\ Cardinality({y} \cup {x}) = 2
  BY <1>3, <1>4, FS_AddElement
<1>6. QED BY <1>4, <1>5, ClaimsBound, FS_Subset

LEMMA Fewer ==
  ASSUME NEW S, NEW T, IsFiniteSet(T), S \subseteq T
  PROVE  /\ IsFiniteSet(S) /\ Cardinality(S) \in Nat /\ Cardinality(T) \in Nat
         /\ Cardinality(S) <= Cardinality(T)
BY FS_Subset, FS_CardinalityType

LEMMA AppendFacts ==
  ASSUME NEW S, NEW s \in Seq(S), NEW e \in S
  PROVE  /\ Append(s, e) \in Seq(S) /\ Len(Append(s, e)) = Len(s) + 1
         /\ Range(Append(s, e)) = Range(s) \cup {e}
         /\ e \notin Range(s) /\ (\A i, j \in 1..Len(s) : s[i] = s[j] => i = j) =>
              \A i, j \in 1..Len(Append(s, e)) : Append(s, e)[i] = Append(s, e)[j] => i = j
<1> DEFINE t == Append(s, e)
<1>1. t \in Seq(S) /\ Len(t) = Len(s) + 1 /\ Len(s) \in Nat /\ DOMAIN s = 1..Len(s) /\ DOMAIN t = 1..(Len(s) + 1)
  OBVIOUS
<1>2. (\A i \in 1..Len(s) : t[i] = s[i]) /\ t[Len(s) + 1] = e
  OBVIOUS
<1> HIDE DEF t
<1>3. Range(t) = Range(s) \cup {e}
  <2>1. \A x : x \in Range(t) => x \in Range(s) \cup {e}
    BY <1>1, <1>2 DEF Range
  <2>2. \A x : x \in Range(s) => x \in Range(t)
    BY <1>1, <1>2 DEF Range
  <2>3. e \in Range(t)
    BY <1>1, <1>2 DEF Range
  <2>4. QED BY <2>1, <2>2, <2>3
<1>4. ASSUME e \notin Range(s), \A i, j \in 1..Len(s) : s[i] = s[j] => i = j
      PROVE  \A i, j \in 1..Len(t) : t[i] = t[j] => i = j
  <2>1. \A i \in 1..Len(s) : s[i] # e
    BY <1>1, <1>4 DEF Range
  <2>2. QED BY <1>1, <1>2, <1>4, <2>1
<1>5. QED BY <1>1, <1>3, <1>4 DEF t

\* Recycling a clean buffer, or reading a block, does not change what bread
\* returns.
LEMMA CacheStep ==
  ASSUME IInv, NEW b \in Block, bread(b) \/ bget(b)
  PROVE  \A x \in Block : Content(x)' = Content(x)
<1>1. CASE bread(b)
  BY <1>1 DEF bread, Content, IInv, TypeOK, diskvars
<1>2. CASE bget(b)
  BY <1>2 DEF bget, Content, IInv, TypeOK, Contents, CleanBuffers, diskvars
<1>3. QED BY <1>1, <1>2

-----------------------------------------------------------------------------
(* The inductive invariant *)

LEMMA InitIInv == Init => IInv
<1> SUFFICES ASSUME Init PROVE IInv
  OBVIOUS
<1>1. TypeOK /\ NoPanic
  BY LogAssumption DEF Init, TypeOK, NoPanic, Stage
<1>2. Active = {} /\ Claims = {}
  BY DEF Init, Active, Claims
<1>3. Control /\ Buffers
  BY <1>2 DEF Init, Control, Buffers, Committing, Recovering
<1>4. Headers /\ Contents
  <2>1. Headers
    BY LogAssumption DEF Init, Headers
  <2>2. DirtyBuffers
    BY LogAssumption DEF Init, DirtyBuffers
  <2>3. CleanBuffers
    BY LogAssumption DEF Init, CleanBuffers
  <2>4. LogCopies
    BY LogAssumption DEF Init, LogCopies
  <2>5. HomeCopies
    BY LogAssumption DEF Init, HomeCopies
  <2>6. QED BY <2>1, <2>2, <2>3, <2>4, <2>5 DEF Contents
<1>5. Space
  BY <1>2, FS_EmptySet, Sizes DEF Init, Space
<1>6. SleeperHasWaker
  BY DEF Init, SleeperHasWaker, Running, Recovering
<1>7. QED BY <1>1, <1>3, <1>4, <1>5, <1>6 DEF IInv

\* Steps that leave the calls and the log alone.
LEMMA CacheIInv ==
  ASSUME IInv, NEW b \in Block, bread(b) \/ bget(b)
  PROVE  IInv'
<1>1. /\ UNCHANGED <<diskvars, dirty, logvars, opvars, stage, tail, panicked>>
      /\ cache' \in [Block -> Value \cup {NotCached}]
      /\ \A x \in Block : cache'[x] = cache[x] \/ cache'[x] \in {NotCached, disk[x]}
  BY DEF bread, bget, IInv, TypeOK
<1>2. TypeOK' /\ NoPanic'
  BY <1>1 DEF IInv, TypeOK, NoPanic, diskvars, logvars, opvars
<1>3. Control' /\ Buffers' /\ Headers' /\ Space' /\ SleeperHasWaker'
  BY <1>1 DEF IInv, Control, Buffers, Headers, Space, SleeperHasWaker, Active, Claims, Logged, Recovering, Running,
              LogFull, diskvars, logvars, opvars
<1>4. Contents'
  <2>1. \A i \in 1..Len(lh) : lh[i] \in Block /\ Content(lh[i])' = Content(lh[i])
    BY CacheStep, <1>1 DEF IInv, TypeOK, logvars, Content, diskvars
  <2>2. \A x \in Block : Content(x)' = IF cache'[x] = NotCached THEN disk[x] ELSE cache'[x]
    BY <1>1 DEF Content, diskvars
  <2>3. DirtyBuffers'
    BY <1>1, <2>1 DEF IInv, TypeOK, Control, diskvars, logvars, opvars, Contents, DirtyBuffers
  <2>4. CleanBuffers'
    BY <1>1, <2>1 DEF IInv, TypeOK, Control, diskvars, logvars, opvars, Contents, CleanBuffers
  <2>5. LogCopies'
    BY <1>1, <2>1 DEF IInv, TypeOK, Control, diskvars, logvars, opvars, Contents, LogCopies
  <2>6. HomeCopies'
    BY <1>1, <2>1 DEF IInv, TypeOK, Control, diskvars, logvars, opvars, Contents, HomeCopies
  <2>7. QED BY <2>3, <2>4, <2>5, <2>6 DEF Contents
<1>5. QED BY <1>2, <1>3, <1>4 DEF IInv

LEMMA CallIInv ==
  ASSUME IInv, NEW p \in Proc, call(p)
  PROVE  IInv'
<1>1. TypeOK' /\ NoPanic'
  BY DEF call, IInv, TypeOK, NoPanic, diskvars, logvars
<1>2. Active' = Active /\ Claims' = Claims
  BY Zenon DEF call, IInv, TypeOK, Active, Claims, Logged, logvars
<1>3. Control' /\ Buffers' /\ Headers'
  BY <1>2 DEF call, IInv, TypeOK, Control, Buffers, Headers, Running, Recovering, diskvars, logvars
<1>4. Contents'
  <2>1. DirtyBuffers'
    BY DEF call, IInv, diskvars, logvars, Contents, DirtyBuffers
  <2>2. CleanBuffers'
    BY DEF call, IInv, diskvars, logvars, Contents, CleanBuffers
  <2>3. LogCopies'
    BY DEF call, IInv, Content, diskvars, logvars, Contents, LogCopies
  <2>4. HomeCopies'
    BY DEF call, IInv, diskvars, logvars, Contents, HomeCopies
  <2>5. QED BY <2>1, <2>2, <2>3, <2>4 DEF Contents
<1>5. Space'
  BY <1>2, FS_EmptySet, Sizes DEF call, IInv, TypeOK, Space, logvars
<1>6. SleeperHasWaker'
  BY DEF call, IInv, TypeOK, SleeperHasWaker, Running, Recovering, LogFull, logvars
<1>7. QED BY <1>1, <1>3, <1>4, <1>5, <1>6 DEF IInv

\* A call is admitted only if MAXOPBLOCKS more blocks fit.
LEMMA BeginIInv ==
  ASSUME IInv, NEW p \in Proc, begin_op(p)
  PROVE  IInv'
<1>0. stage \notin {"read_head", "reinstall", "reclear"} /\ lh' = lh /\ Len(lh) \in Nat /\ outstanding \in Nat
  BY DEF begin_op, Running, Recovering, IInv, TypeOK
<1>1. TypeOK' /\ NoPanic'
  BY DEF begin_op, IInv, TypeOK, NoPanic, diskvars
<1>2. Buffers' /\ Headers' /\ Contents'
  <2>1. Buffers' /\ Headers'
    BY <1>0 DEF begin_op, IInv, TypeOK, Content, diskvars, Buffers, Headers
  <2>2. DirtyBuffers'
    BY <1>0 DEF begin_op, IInv, TypeOK, diskvars, Contents, DirtyBuffers
  <2>3. CleanBuffers'
    BY <1>0 DEF begin_op, IInv, TypeOK, diskvars, Contents, CleanBuffers
  <2>4. LogCopies'
    BY <1>0 DEF begin_op, IInv, TypeOK, Content, diskvars, Contents, LogCopies
  <2>5. HomeCopies'
    BY <1>0 DEF begin_op, IInv, TypeOK, diskvars, Contents, HomeCopies
  <2>6. QED BY <2>1, <2>2, <2>3, <2>4, <2>5 DEF Contents
<1>3. CASE committing = 1 \/ LogFull
  <2>1. Active' = Active /\ Claims' = Claims /\ outstanding' = outstanding
    BY <1>3 DEF begin_op, IInv, TypeOK, Active, Claims, Logged
  <2>2. Control' /\ Space'
    BY <1>0, <2>1 DEF begin_op, IInv, TypeOK, Control, Space, Recovering
  <2>3. outstanding = 0 /\ committing = 0 => lh = <<>>
    BY <1>0 DEF IInv, TypeOK, Control, Committing, Stage
  <2>4. outstanding = 0 => (outstanding + 1) * MAXOPBLOCKS = MAXOPBLOCKS
    BY Sizes
  <2>5. committing = 1 \/ (outstanding > 0 /\ LogFull)
    BY <1>0, <1>3, <2>3, <2>4, Sizes DEF LogFull, IInv, TypeOK
  <2>6. SleeperHasWaker'
    BY <2>1, <2>5, <1>0 DEF begin_op, SleeperHasWaker, LogFull
  <2>7. QED BY <1>1, <1>2, <2>2, <2>6 DEF IInv
<1>4. CASE ~(committing = 1 \/ LogFull)
  <2>1. stage = "up" /\ outstanding' = outstanding + 1 /\ pc' = [pc EXCEPT ![p] = "op"] /\ UNCHANGED <<lh, wrote, stage>>
    BY <1>0, <1>4 DEF begin_op, IInv, TypeOK, Control, Committing, Stage
  <2>2. p \notin Active /\ Active' = Active \cup {p}
    BY <2>1 DEF begin_op, IInv, TypeOK, Active
  <2>3. Cardinality(Active') = Cardinality(Active) + 1
    BY <2>2, ClaimsBound, FS_AddElement, Zenon
  <2>4. Control'
    BY <1>0, <2>1 DEF begin_op, IInv, TypeOK, Control, Recovering
  <2>5. Len(lh') + Cardinality(Claims') <= LOGSIZE
    <3> DEFINE own == {p} \X (1..MAXOPBLOCKS)
    <3>1. Claims' \subseteq Claims \cup own
      BY <2>1 DEF Claims, Logged, IInv, TypeOK
    <3>2. IsFiniteSet(own) /\ Cardinality(own) = MAXOPBLOCKS
      <4>1. IsFiniteSet({p}) /\ Cardinality({p}) = 1
        BY FS_Singleton
      <4>2. IsFiniteSet(1..MAXOPBLOCKS) /\ Cardinality(1..MAXOPBLOCKS) = MAXOPBLOCKS
        BY FS_Interval, Sizes
      <4>3. /\ IsFiniteSet({p} \X (1..MAXOPBLOCKS))
            /\ Cardinality({p} \X (1..MAXOPBLOCKS)) = Cardinality({p}) * Cardinality(1..MAXOPBLOCKS)
        BY <4>1, <4>2, FS_Product, Zenon
      <4>4. QED BY <4>1, <4>2, <4>3, Sizes
    <3>3. IsFiniteSet(Claims \cup own) /\ Cardinality(Claims \cup own) <= Cardinality(Claims) + MAXOPBLOCKS
      <4>1. /\ IsFiniteSet(Claims \cup own)
            /\ Cardinality(Claims \cup own) = Cardinality(Claims) + Cardinality(own) - Cardinality(Claims \cap own)
        BY <3>2, ClaimsBound, FS_Union
      <4>2. Cardinality(Claims \cap own) \in Nat
        BY <3>2, Fewer
      <4>3. QED BY <3>2, <4>1, <4>2, ClaimsBound, Sizes
    <3>4. Cardinality(Claims') <= Cardinality(Claims) + MAXOPBLOCKS /\ Cardinality(Claims') \in Nat
      <4> HIDE DEF own
      <4> QED BY <3>1, <3>3, Fewer, ClaimsBound, Sizes
    <3>5. Cardinality(Claims) <= outstanding * MAXOPBLOCKS
      BY ClaimsBound DEF IInv, Space
    <3>6. Len(lh) + (outstanding + 1) * MAXOPBLOCKS <= LOGSIZE
      BY <1>0, <1>4, Sizes DEF LogFull
    <3>7. (outstanding + 1) * MAXOPBLOCKS = outstanding * MAXOPBLOCKS + MAXOPBLOCKS
      BY <1>0, Sizes
    <3>8. outstanding * MAXOPBLOCKS \in Nat
      BY <1>0, Sizes
    <3>9. QED BY <1>0, <3>4, <3>5, <3>6, <3>7, <3>8, ClaimsBound, Sizes
  <2>6. Space'
    BY <2>1, <2>3, <2>5, ClaimsBound DEF IInv, Space
  <2>7. \A q \in Proc : pc[q] # "asleep"
    BY <1>0, <1>4 DEF IInv, TypeOK, SleeperHasWaker, Running, Recovering, NoPanic
  <2>8. SleeperHasWaker'
    BY <2>1, <2>7 DEF SleeperHasWaker, IInv, TypeOK
  <2>9. QED BY <1>1, <1>2, <2>4, <2>6, <2>8 DEF IInv
<1>5. QED BY <1>3, <1>4

\* The call has two blocks to spare, so that log_write does not panic.
LEMMA ModifyIInv ==
  ASSUME IInv, NEW p \in Proc, NEW b \in Block, NEW v \in Value, modify(p, b, v)
  PROVE  IInv'
<1>1. stage = "up" /\ p \in Active /\ Len(lh) \in Nat /\ outstanding \in Nat
  BY DEF modify, IInv, TypeOK, Control, Active
<1>2. ~log_write_panics
  <2>1. Cardinality(Claims) >= 2 /\ Len(lh) + Cardinality(Claims) <= LOGSIZE
    BY <1>1, TwoLeft DEF IInv, Space, Active
  <2>2. outstanding # 0
    BY <1>1, ClaimsBound, FS_EmptySet DEF IInv, Space
  <2>3. QED BY <1>1, <2>1, <2>2, ClaimsBound, Sizes DEF log_write_panics
<1>3. TypeOK' /\ NoPanic'
  BY <1>2 DEF modify, IInv, TypeOK, NoPanic, diskvars, logvars
<1>4. Active' = Active /\ lh' = lh /\ outstanding' = outstanding /\ stage' = stage
  BY DEF modify, Active, logvars
<1>5. Control'
  BY <1>4 DEF modify, IInv, Control, Recovering, logvars
<1>6. Buffers'
  BY LogAssumption DEF modify, IInv, TypeOK, Buffers
<1>7. Headers'
  BY DEF modify, IInv, Headers, diskvars, logvars
<1>8. Contents'
  <2>1. \A x \in Block : x # b => cache'[x] = cache[x]
    BY DEF modify, IInv, TypeOK
  <2>2. \A x \in Block : (\A q \in Proc : mod'[q] # x) => x # b /\ \A q \in Proc : mod[q] # x
    BY LogAssumption DEF modify, IInv, TypeOK
  <2>3. DirtyBuffers'
    BY <1>1, <2>1, <2>2 DEF modify, IInv, diskvars, logvars, Contents, DirtyBuffers
  <2>4. CleanBuffers'
    BY <1>1, <2>1, <2>2 DEF modify, IInv, diskvars, logvars, Contents, CleanBuffers
  <2>5. LogCopies'
    BY <1>1, <2>1, <2>2 DEF modify, IInv, diskvars, logvars, Contents, LogCopies
  <2>6. HomeCopies'
    BY <1>1, <2>1, <2>2 DEF modify, IInv, diskvars, logvars, Contents, HomeCopies
  <2>7. QED BY <2>3, <2>4, <2>5, <2>6 DEF Contents
<1>9. Space'
  <2>1. \A q \in Proc : IsFiniteSet(wrote'[q]) /\ Cardinality(wrote'[q]) <= OpBlocks /\ wrote[q] \subseteq wrote'[q]
    <3> SUFFICES ASSUME NEW q \in Proc
                 PROVE  IsFiniteSet(wrote'[q]) /\ Cardinality(wrote'[q]) <= OpBlocks /\ wrote[q] \subseteq wrote'[q]
      OBVIOUS
    <3>1. CASE q # p \/ b \in wrote[p]
      BY <3>1, Zenon DEF modify, IInv, TypeOK, Space
    <3>2. CASE q = p /\ b \notin wrote[p]
      <4>1. wrote'[p] = wrote[p] \cup {b} /\ Cardinality(wrote[p]) < OpBlocks
        BY <3>2 DEF modify, IInv, TypeOK
      <4>2. IsFiniteSet(wrote'[p]) /\ Cardinality(wrote'[p]) = Cardinality(wrote[p]) + 1
        BY <3>2, <4>1, FS_AddElement, Zenon DEF IInv, Space
      <4>3. Cardinality(wrote[p]) \in Nat
        BY FS_CardinalityType DEF IInv, Space
      <4>4. QED BY <3>2, <4>1, <4>2, <4>3, Sizes
    <3>3. QED BY <3>1, <3>2
  <2>2. \A q \in Proc : Logged(q) \in Nat /\ Logged(q)' \in Nat /\ Logged(q) <= Logged(q)'
    <3> SUFFICES ASSUME NEW q \in Proc
                 PROVE  Logged(q) \in Nat /\ Logged(q)' \in Nat /\ Logged(q) <= Logged(q)'
      OBVIOUS
    <3>1. /\ IsFiniteSet(wrote'[q] \cap Range(lh))
          /\ wrote[q] \cap Range(lh) \subseteq wrote'[q] \cap Range(lh)
      BY <2>1, FS_Subset, Fewer
    <3>2. QED BY <1>4, <3>1, Fewer DEF Logged
  <2>3. Claims' \subseteq Claims
    BY <2>2, Sizes DEF Claims, modify
  <2>4. Cardinality(Claims') \in Nat /\ Cardinality(Claims') <= Cardinality(Claims)
    BY <2>3, Fewer, ClaimsBound
  <2>5. QED BY <1>1, <1>4, <2>1, <2>4, ClaimsBound, Sizes DEF IInv, Space
<1>10. SleeperHasWaker'
  BY DEF modify, IInv, SleeperHasWaker, Running, Recovering, NoPanic, LogFull, logvars
<1>11. QED BY <1>3, <1>5, <1>6, <1>7, <1>8, <1>9, <1>10 DEF IInv

\* Whoever has changed a buffer is inside a call.
LEMMA ModIsUp ==
  ASSUME IInv, NEW p \in Proc, mod[p] # NoBlock
  PROVE  stage = "up" /\ pc[p] = "op" /\ mod[p] \in Block /\ mod[p] \in wrote[p]
BY DEF IInv, TypeOK, Control, Buffers, Active

\* What log_write makes of the header in memory.
LEMMA LogWriteHeader ==
  ASSUME IInv, NEW p \in Proc, log_write(p)
  PROVE  /\ lh' \in Seq(Block) /\ Len(lh') >= Len(lh)
         /\ mod[p] \in Range(lh) => lh' = lh
         /\ mod[p] \notin Range(lh) => Len(lh') = Len(lh) + 1
         /\ Range(lh') = Range(lh) \cup {mod[p]}
         /\ \A i, j \in 1..Len(lh') : lh'[i] = lh'[j] => i = j
<1>0. mod[p] \in Block /\ lh \in Seq(Block) /\ Len(lh) \in Nat /\ \A i, j \in 1..Len(lh) : lh[i] = lh[j] => i = j
  BY ModIsUp DEF log_write, IInv, TypeOK, Headers
<1>1. CASE mod[p] \in Range(lh)
  <2>1. lh' = lh
    BY <1>1 DEF log_write
  <2>2. Range(lh') = Range(lh) \cup {mod[p]}
    BY <1>1, <2>1
  <2>3. QED BY <1>0, <1>1, <2>1, <2>2
<1>2. CASE mod[p] \notin Range(lh)
  <2> DEFINE t == Append(lh, mod[p])
  <2>1. /\ t \in Seq(Block) /\ Len(t) = Len(lh) + 1
        /\ Range(t) = Range(lh) \cup {mod[p]}
        /\ \A i, j \in 1..Len(t) : t[i] = t[j] => i = j
    BY <1>0, <1>2, AppendFacts
  <2>2. lh' = t
    BY <1>2 DEF log_write
  <2> HIDE DEF t
  <2>3. QED BY <1>0, <1>2, <2>1, <2>2
<1>3. QED BY <1>1, <1>2

\* Putting a block in the log uses up a block that was set aside.
LEMMA LogWriteSpace ==
  ASSUME IInv, NEW p \in Proc, log_write(p)
  PROVE  Len(lh') + Cardinality(Claims') <= LOGSIZE /\ Len(lh') < NLog
<1> DEFINE m == mod[p]
<1>0. /\ stage = "up" /\ pc[p] = "op" /\ m \in Block /\ m \in wrote[p]
      /\ pc' = pc /\ wrote' = wrote /\ Len(lh) \in Nat
  BY ModIsUp DEF log_write, IInv, TypeOK
<1>1. /\ Len(lh) + Cardinality(Claims) <= LOGSIZE
      /\ Cardinality(Claims) \in Nat /\ IsFiniteSet(Claims) /\ Cardinality(Claims) >= 2
  BY <1>0, ClaimsBound, TwoLeft DEF IInv, Space
<1>2. Range(lh') = Range(lh) \cup {m}
  BY LogWriteHeader
<1>3. \A q \in Proc : Logged(q) \in Nat /\ Logged(q)' \in Nat /\ Logged(q) <= Logged(q)'
  <2> SUFFICES ASSUME NEW q \in Proc
               PROVE  Logged(q) \in Nat /\ Logged(q)' \in Nat /\ Logged(q) <= Logged(q)'
    OBVIOUS
  <2>1. IsFiniteSet(wrote[q] \cap Range(lh')) /\ wrote[q] \cap Range(lh) \subseteq wrote[q] \cap Range(lh')
    BY <1>2, Fewer, Zenon DEF IInv, Space
  <2>2. QED BY <1>0, <2>1, Fewer DEF Logged
<1>4. Claims' \subseteq Claims
  BY <1>0, <1>3, Sizes DEF Claims
<1>5. CASE m \in Range(lh)
  <2>1. lh' = lh
    BY <1>5 DEF log_write
  <2>2. QED BY <1>0, <1>1, <1>4, <2>1, Fewer, Sizes
<1>6. CASE m \notin Range(lh)
  <2> DEFINE c == <<p, Logged(p) + 1>>
  <2>1. Len(lh') = Len(lh) + 1
    BY <1>6, LogWriteHeader
  <2>2. Logged(p)' = Logged(p) + 1
    <3>1. wrote'[p] \cap Range(lh') = (wrote[p] \cap Range(lh)) \cup {m} /\ m \notin wrote[p] \cap Range(lh)
      BY <1>0, <1>2, <1>6
    <3>2. IsFiniteSet(wrote[p] \cap Range(lh))
      BY Fewer, Zenon DEF IInv, Space
    <3>3. QED BY <3>1, <3>2, FS_AddElement DEF Logged
  <2>3. c \in Claims /\ c \notin Claims'
    <3>1. Logged(p) <= OpBlocks /\ Logged(p) \in Nat
      BY LoggedBound DEF IInv, Space
    <3>2. QED BY <1>0, <2>2, <3>1, Sizes DEF Claims
  <2>4. /\ IsFiniteSet(Claims \ {c}) /\ Cardinality(Claims \ {c}) = Cardinality(Claims) - 1
        /\ Claims' \subseteq Claims \ {c}
    BY <1>1, <1>4, <2>3, FS_RemoveElement
  <2>5. Cardinality(Claims') \in Nat /\ Cardinality(Claims') <= Cardinality(Claims) - 1
    BY <2>4, Fewer
  <2>6. QED BY <1>0, <1>1, <2>1, <2>5, Sizes
<1>7. QED BY <1>5, <1>6

LEMMA LogWriteIInv ==
  ASSUME IInv, NEW p \in Proc, log_write(p)
  PROVE  IInv'
<1>0. /\ stage = "up" /\ pc[p] = "op" /\ mod[p] \in Block /\ mod[p] \in wrote[p]
      /\ Len(lh) \in Nat /\ lh \in Seq(Block) /\ outstanding \in Nat
  BY ModIsUp DEF log_write, IInv, TypeOK
<1>1. Range(lh') = Range(lh) \cup {mod[p]} /\ Len(lh') >= Len(lh) /\ lh' \in Seq(Block)
  BY LogWriteHeader
<1>2. TypeOK' /\ NoPanic'
  BY <1>0, <1>1 DEF log_write, IInv, TypeOK, NoPanic, diskvars
<1>3. Active' = Active
  BY DEF log_write, Active
<1>4. Control'
  <2>1. outstanding # 0
    BY <1>0, ClaimsBound, FS_EmptySet, Zenon DEF IInv, Space, Active
  <2>2. QED BY <1>0, <1>3, <2>1 DEF log_write, IInv, Control, Recovering
<1>5. Buffers'
  BY LogAssumption DEF log_write, IInv, TypeOK, Buffers
<1>6. Headers'
  <2>1. (\A i, j \in 1..Len(lh') : lh'[i] = lh'[j] => i = j) /\ Len(lh') < NLog
    BY LogWriteHeader, LogWriteSpace
  <2>2. stage' = "up" /\ head' = head /\ head = <<>>
    BY <1>0 DEF log_write, IInv, Headers, diskvars
  <2>3. QED BY <2>1, <2>2 DEF IInv, Headers
<1>7. Contents'
  <2>1. dirty' = Range(lh')
    BY <1>0, <1>1 DEF log_write, IInv, Contents, DirtyBuffers
  <2>2. \A x \in Block : x \notin dirty' /\ (\A q \in Proc : mod'[q] # x) =>
                           x \notin dirty /\ \A q \in Proc : mod[q] # x
    BY <1>0 DEF log_write, IInv, TypeOK
  <2>3. DirtyBuffers'
    BY <1>0, <2>1, <2>2 DEF log_write, IInv, diskvars, Contents, DirtyBuffers
  <2>4. CleanBuffers'
    BY <1>0, <2>1, <2>2 DEF log_write, IInv, diskvars, Contents, CleanBuffers
  <2>5. LogCopies'
    BY <1>0, <2>1, <2>2 DEF log_write, IInv, diskvars, Contents, LogCopies
  <2>6. HomeCopies'
    BY <1>0, <2>1, <2>2 DEF log_write, IInv, diskvars, Contents, HomeCopies
  <2>7. QED BY <2>3, <2>4, <2>5, <2>6 DEF Contents
<1>8. Space'
  BY <1>3, LogWriteSpace, Zenon DEF log_write, IInv, Space
<1>9. SleeperHasWaker'
  <2>1. (outstanding + 1) * MAXOPBLOCKS \in Nat
    BY <1>0, Sizes
  <2>2. LogFull => LogFull'
    <3>1. Len(lh') \in Nat /\ outstanding' = outstanding
      BY <1>1 DEF log_write
    <3>2. QED BY <1>0, <1>1, <2>1, <3>1, Sizes DEF LogFull
  <2>3. QED BY <1>0, <2>2 DEF log_write, IInv, SleeperHasWaker, Running, Recovering, NoPanic
<1>10. QED BY <1>2, <1>4, <1>5, <1>6, <1>7, <1>8, <1>9 DEF IInv

\* The last call to end finds nobody else inside a call.
LEMMA EndOpIInv ==
  ASSUME IInv, NEW p \in Proc, end_op(p)
  PROVE  IInv'
<1>0. /\ p \in Active /\ stage = "up" /\ committing = 0
      /\ lh \in Seq(Block) /\ Len(lh) \in Nat /\ outstanding \in Nat
  BY DEF end_op, IInv, TypeOK, Control, Active, Committing
<1>1. Active' = Active \ {p} /\ \A q \in Proc : pc'[q] = "op" => pc[q] = "op"
  BY Zenon DEF end_op, IInv, TypeOK, Active, Woken
<1>2. IsFiniteSet(Active') /\ Cardinality(Active') = outstanding - 1 /\ outstanding' = outstanding - 1
  BY <1>0, <1>1, ClaimsBound, FS_RemoveElement DEF end_op, IInv, Space
<1>3. Cardinality(Active') \in Nat
  BY <1>2, FS_CardinalityType
<1>4. TypeOK' /\ NoPanic'
  <2>1. pc' \in [Proc -> {"idle", "begin_op", "asleep", "op", "commit"}]
    BY Zenon DEF end_op, IInv, TypeOK, Woken
  <2>2. QED BY <1>0, <1>2, <1>3, <2>1 DEF end_op, IInv, TypeOK, NoPanic, Stage, diskvars
<1>5. Buffers'
  BY Zenon DEF end_op, IInv, TypeOK, Buffers, Woken
<1>6. Headers'
  BY <1>0 DEF end_op, IInv, Headers, diskvars
<1>7. CASE outstanding = 1
  <2>1. /\ committing' = 1 /\ tail' = 1 /\ lh' = lh
        /\ stage' = IF lh # <<>> THEN "write_log" ELSE "done"
    BY <1>7 DEF end_op
  <2>2. Active' = {}
    BY <1>2, <1>7, FS_EmptySet
  <2>3. lh # <<>> => 1 \in 1..Len(lh)
    BY <1>0
  <2>4. Control'
    BY <1>0, <2>1, <2>2, <2>3 DEF Control, Committing, Recovering
  <2>5. Contents'
    <3>1. lh = <<>> => Range(lh) = {}
      BY DEF Range
    <3>2. dirty = Range(lh) /\ UNCHANGED <<disk, logblk, cache, dirty, mod>>
      BY <1>0 DEF end_op, IInv, Contents, DirtyBuffers, diskvars
    <3>3. DirtyBuffers'
      BY <1>0, <2>1, <3>1, <3>2 DEF IInv, Contents, DirtyBuffers
    <3>4. CleanBuffers'
      BY <1>0, <2>1, <3>1, <3>2 DEF IInv, Contents, CleanBuffers
    <3>5. LogCopies'
      BY <1>0, <2>1, <3>1, <3>2 DEF IInv, Contents, LogCopies
    <3>6. HomeCopies'
      BY <1>0, <2>1, <3>1, <3>2 DEF IInv, Contents, HomeCopies
    <3>7. QED BY <3>3, <3>4, <3>5, <3>6 DEF Contents
  <2>6. Space'
    BY <1>2, <2>1 DEF end_op, IInv, Space
  <2>7. SleeperHasWaker'
    BY <2>1 DEF SleeperHasWaker
  <2>8. QED BY <1>4, <1>5, <1>6, <2>4, <2>5, <2>6, <2>7 DEF IInv
<1>8. CASE outstanding # 1
  <2>1. UNCHANGED <<committing, stage, lh, wrote>> /\ pc' = [Woken EXCEPT ![p] = "idle"]
    BY <1>8 DEF end_op
  <2>2. Control'
    BY <1>0, <1>2, <1>8, <2>1 DEF Control, Committing, Recovering
  <2>3. Contents'
    <3>1. DirtyBuffers'
      BY <1>0, <2>1 DEF end_op, IInv, diskvars, Contents, DirtyBuffers
    <3>2. CleanBuffers'
      BY <1>0, <2>1 DEF end_op, IInv, diskvars, Contents, CleanBuffers
    <3>3. LogCopies'
      BY <1>0, <2>1 DEF end_op, IInv, diskvars, Contents, LogCopies
    <3>4. HomeCopies'
      BY <1>0, <2>1 DEF end_op, IInv, diskvars, Contents, HomeCopies
    <3>5. QED BY <3>1, <3>2, <3>3, <3>4 DEF Contents
  <2>4. Claims' \subseteq Claims
    BY <1>1, <2>1 DEF Claims, Logged
  <2>5. Cardinality(Claims') \in Nat /\ Cardinality(Claims') <= Cardinality(Claims) /\ Cardinality(Claims) \in Nat
    BY <2>4, Fewer, ClaimsBound
  <2>6. Space'
    BY <1>0, <1>2, <2>1, <2>5, Sizes DEF IInv, Space
  <2>7. SleeperHasWaker'
    BY <2>1 DEF SleeperHasWaker, Woken
  <2>8. QED BY <1>4, <1>5, <1>6, <2>2, <2>3, <2>6, <2>7 DEF IInv
<1>9. QED BY <1>7, <1>8

\* During a commit or a recovery nobody has changed a buffer or has space set
\* aside.
LEMMA NobodyInside ==
  ASSUME IInv, stage # "up"
  PROVE  /\ Active = {} /\ Claims = {} /\ outstanding = 0
         /\ \A p \in Proc : pc[p] # "op" /\ mod[p] = NoBlock
<1>1. Active = {}
  BY DEF IInv, Control
<1>2. \A p \in Proc : pc[p] # "op"
  BY <1>1 DEF Active
<1>3. QED BY <1>1, <1>2, FS_EmptySet DEF IInv, Space, Buffers, Claims

\* Leaving the processes as they are and staying inside commit or recovery.
LEMMA Inside ==
  ASSUME IInv, stage # "up", stage' # "up", UNCHANGED <<outstanding, committing, opvars, panicked>>,
         Recovering' <=> Recovering
  PROVE  Buffers' /\ Space' /\ SleeperHasWaker' /\ Active' = {}
<1>1. Active' = Active /\ Active = {}
  BY NobodyInside DEF Active, opvars
<1>2. Buffers'
  BY DEF IInv, Buffers, opvars
<1>3. Space'
  BY <1>1 DEF IInv, Space, opvars
<1>4. SleeperHasWaker'
  <2>1. CASE Recovering
    BY <2>1 DEF SleeperHasWaker, Running
  <2>2. CASE ~Recovering
    <3>1. committing = 1
      BY <2>2 DEF IInv, TypeOK, Control, Committing, Recovering, Stage
    <3>2. QED BY <3>1 DEF SleeperHasWaker
  <2>3. QED BY <2>1, <2>2
<1>5. QED BY <1>1, <1>2, <1>3, <1>4

\* write_log copies the cached contents into the log, in order.
LEMMA WriteLogIInv ==
  ASSUME IInv, write_log
  PROVE  /\ IInv'
         /\ \A b \in Block : Content(b)' = Content(b)
<1>0. /\ stage = "write_log" /\ stage' \in {"write_log", "write_head"}
      /\ tail \in 1..Len(lh) /\ Len(lh) \in Nat /\ Len(lh) < NLog
      /\ \A i \in 1..Len(lh) : lh[i] \in Block
      /\ UNCHANGED <<disk, head, dirty, lh, outstanding, committing, pc, mod, wrote, panicked>>
  BY DEF write_log, Advance, IInv, TypeOK, Control, Headers, logvars, opvars
<1>1. Content(lh[tail]) \in Value /\ Content(lh[tail]) # NotCached
  BY <1>0, LogAssumption DEF IInv, TypeOK, Content
<1>2. \A b \in Block : Content(b)' = Content(b)
  BY <1>0, <1>1 DEF write_log, IInv, TypeOK, Content
<1>3. TypeOK' /\ NoPanic'
  BY <1>0, <1>1, Sizes DEF write_log, Advance, IInv, TypeOK, NoPanic, Stage
<1>4. Buffers' /\ Space' /\ SleeperHasWaker' /\ Active' = {}
  BY <1>0, Inside DEF Recovering, opvars
<1>5. Control'
  BY <1>0, <1>4 DEF write_log, Advance, IInv, Control, Committing, Recovering
<1>6. Headers'
  BY <1>0 DEF IInv, Headers
<1>7. Contents'
  <2>1. dirty = Range(lh) /\ lh[tail] \in dirty
    BY <1>0 DEF IInv, Contents, DirtyBuffers, TypeOK, Range
  <2>2. \A b \in Block : b \notin dirty => cache'[b] = cache[b]
    BY <2>1 DEF write_log, IInv, TypeOK
  <2>3. \A i \in 1..tail : logblk'[i] = Content(lh[i])'
    <3>1. logblk'[tail] = Content(lh[tail])
      BY <1>0, Sizes DEF write_log, IInv, TypeOK
    <3>2. \A i \in 1..(tail - 1) : logblk'[i] = logblk[i] /\ logblk[i] = Content(lh[i])
      BY <1>0, Sizes DEF write_log, IInv, TypeOK, Contents, LogCopies
    <3>3. \A i \in 1..Len(lh) : Content(lh[i])' = Content(lh[i])
      BY <1>0, <1>2 DEF Content
    <3>4. QED BY <1>0, <3>1, <3>2, <3>3
  <2>4. IF tail = Len(lh) THEN stage' = "write_head" /\ tail' = 1 ELSE stage' = "write_log" /\ tail' = tail + 1
    BY <1>0 DEF write_log, Advance
  <2>5. DirtyBuffers'
    BY <1>0, <2>1, <2>2, <2>3, <2>4 DEF IInv, Contents, DirtyBuffers
  <2>6. CleanBuffers'
    BY <1>0, <2>1, <2>2, <2>3, <2>4 DEF IInv, Contents, CleanBuffers
  <2>7. LogCopies'
    BY <1>0, <2>1, <2>2, <2>3, <2>4 DEF IInv, Contents, LogCopies
  <2>8. HomeCopies'
    BY <1>0, <2>1, <2>2, <2>3, <2>4 DEF IInv, Contents, HomeCopies
  <2>9. QED BY <2>5, <2>6, <2>7, <2>8 DEF Contents
<1>8. QED BY <1>2, <1>3, <1>4, <1>5, <1>6, <1>7 DEF IInv

LEMMA WriteHeadIInv ==
  ASSUME IInv, write_head
  PROVE  IInv'
<1>0. /\ stage = "write_head" /\ stage' = "install" /\ head' = lh /\ tail = 1
      /\ tail \in 1..Len(lh) /\ Len(lh) \in Nat /\ DOMAIN lh = 1..Len(lh)
      /\ UNCHANGED <<disk, logblk, cache, dirty, lh, outstanding, committing, pc, mod, wrote, tail, panicked>>
  BY DEF write_head, IInv, TypeOK, Control, logvars, opvars
<1>1. TypeOK' /\ NoPanic'
  BY <1>0 DEF IInv, TypeOK, NoPanic, Stage
<1>2. Buffers' /\ Space' /\ SleeperHasWaker' /\ Active' = {}
  BY <1>0, Inside DEF Recovering, opvars
<1>3. Control'
  BY <1>0, <1>2 DEF IInv, Control, Committing, Recovering
<1>4. Headers'
  BY <1>0 DEF IInv, Headers
<1>5. Contents'
  <2>1. dirty = {lh[i] : i \in tail..Len(lh)}
    BY <1>0 DEF IInv, Contents, DirtyBuffers, Range
  <2>2. DirtyBuffers'
    BY <1>0, <2>1 DEF IInv, Contents, DirtyBuffers
  <2>3. CleanBuffers'
    BY <1>0, <2>1 DEF IInv, Contents, CleanBuffers
  <2>4. LogCopies'
    BY <1>0, <2>1 DEF IInv, Content, Contents, LogCopies
  <2>5. HomeCopies'
    BY <1>0, <2>1 DEF IInv, Contents, HomeCopies
  <2>6. QED BY <2>2, <2>3, <2>4, <2>5 DEF Contents
<1>6. QED BY <1>1, <1>2, <1>3, <1>4, <1>5 DEF IInv
==============================================================================
