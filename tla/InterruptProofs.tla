---------------------------- MODULE InterruptProofs ----------------------------
(***************************************************************************)
(* What handlers of interrupts share with the code they interrupt: the      *)
(* spin locks of SpinLock, for any number of CPUs and locks, and the ring   *)
(* of the console that keys are put into and readers sleep on, for any      *)
(* readers, keys and sizes.                                                 *)
(***************************************************************************)
EXTENDS SpinLock, ConsoleLines, FiniteSetTheorems, TLAPS

\* The context that CPU c is executing, and the one that is not.
Cur(c) == <<c, level[c]>>

\* What an idle context looks like: no lock, not inside a call.
Idle(x) == held[x] = {} /\ at[x] = "run"

\* Only the executing context of a CPU is inside a call or owns locks.
OthersIdle == \A x \in Ctx : level[x[1]] # x[2] => Idle(x)

\* ncli counts the locks of the executing context, plus the pushcli whose
\* lock is not yet taken.
NcliCounts ==
  \A c \in CPU :
    /\ IsFiniteSet(held[Cur(c)])
    /\ cpu[c].ncli = Cardinality(held[Cur(c)])
                     + (IF at[Cur(c)] \in {"spin", "cli"} THEN 1 ELSE 0)

\* While a pushcli is outstanding interrupts are off, and intena remembers
\* whether to turn them on again: yes in a thread, no in a handler.
IntenaRemembers ==
  \A c \in CPU :
    /\ cpu[c].ncli > 0 => /\ cpu[c].FL_IF = 0
                          /\ cpu[c].intena = 1 <=> level[c] = "thread"
    /\ cpu[c].ncli = 0 => (cpu[c].FL_IF = 1 <=> level[c] = "thread")

\* The lock named by a call in progress.
CallArgument ==
  \A x \in Ctx :
    /\ at[x] = "spin" => lk[x] \in Lock /\ lk[x] \notin held[x]
    /\ at[x] \in {"got", "rel"} => lk[x] \in held[x]

\* The locked word is set exactly while some context owns the lock.
LockedIsOwned ==
  \A l \in Lock : locked[l] = 1 <=> \E x \in Ctx : l \in held[x]

\* Context x owns l and is not in the middle of acquire or release of it.
Settled(x, l) == l \in held[x] /\ ~(at[x] \in {"got", "rel"} /\ lk[x] = l)

\* lk->cpu names the CPU of the settled owner and nobody otherwise.
CpuFieldExact ==
  \A l \in Lock, c \in CPU :
    lkcpu[l] = c <=> \E x \in Ctx : x[1] = c /\ Settled(x, l)

IInv ==
  /\ TypeOK
  /\ NoPanic
  /\ OthersIdle
  /\ NcliCounts
  /\ IntenaRemembers
  /\ CallArgument
  /\ LockedIsOwned
  /\ MutualExclusion
  /\ CpuFieldExact

-----------------------------------------------------------------------------

LEMMA CtxPairs ==
  /\ \A x \in Ctx : x = <<x[1], x[2]>> /\ x[1] \in CPU /\ x[2] \in Level
  /\ \A c \in CPU, v \in Level : <<c, v>> \in Ctx
BY DEF Ctx

\* The initial states satisfy the invariant.
LEMMA InitIInv == Init => IInv
<1> SUFFICES ASSUME Init PROVE IInv
  OBVIOUS
<1>1. TypeOK
  BY DEF Init, TypeOK, CpuState, IdleCpu, Level, Control
<1>2. NcliCounts
  BY <1>1, FS_EmptySet, CtxPairs DEF Init, NcliCounts, IdleCpu, Cur, TypeOK
<1>3. OthersIdle /\ IntenaRemembers
  BY DEF Init, OthersIdle, IntenaRemembers, Idle, IdleCpu
<1>4. NoPanic /\ CallArgument /\ LockedIsOwned /\ MutualExclusion
  BY DEF Init, NoPanic, CallArgument, LockedIsOwned, MutualExclusion
<1>5. CpuFieldExact
  BY SpinLockAssumption DEF Init, CpuFieldExact, Settled
<1> QED BY <1>1, <1>2, <1>3, <1>4, <1>5 DEF IInv

LEMMA AcquireIInv ==
  ASSUME IInv, NEW x \in Ctx, NEW l \in Lock, acquire(x, l)
  PROVE  IInv'
<1> DEFINE c == x[1]
<1> USE DEF Running, Goto, lockvars
<1>1. x = <<c, level[c]>> /\ c \in CPU /\ x[2] \in Level /\ level[c] \in Level
  BY CtxPairs DEF acquire, IInv, TypeOK
<1>2. l \notin held[x]
  BY SpinLockAssumption DEF acquire, IInv, TypeOK
<1>3. ~ holding(c, l)
  <2>1. \A y \in Ctx : y[1] = c /\ y # x => held[y] = {}
    BY <1>1, CtxPairs DEF IInv, OthersIdle, Idle
  <2> QED BY <2>1, <1>1, <1>2 DEF holding, IInv, CpuFieldExact, Settled
<1>4. TypeOK'
  BY <1>1, CtxPairs DEF acquire, IInv, TypeOK, pushcli, CpuState, Control
<1>5. NoPanic'
  BY <1>3 DEF acquire, NoPanic
<1>6. OthersIdle'
  BY <1>1 DEF acquire, IInv, TypeOK, OthersIdle, Idle
<1>7. NcliCounts'
  <2> SUFFICES ASSUME NEW d \in CPU
      PROVE (/\ IsFiniteSet(held[Cur(d)])
             /\ cpu[d].ncli = Cardinality(held[Cur(d)])
                     + (IF at[Cur(d)] \in {"spin", "cli"} THEN 1 ELSE 0))'
    BY DEF NcliCounts
  <2>1. Cur(d)' = Cur(d) /\ Cur(d) \in Ctx /\ held' = held
    BY CtxPairs DEF acquire, Cur, IInv, TypeOK
  <2>2. CASE d = c
    <3>1. Cur(d) = x /\ at[x] = "run" /\ at'[x] = "spin"
      BY <2>2, <1>1 DEF Cur, acquire, IInv, TypeOK
    <3>2. cpu'[d].ncli = cpu[d].ncli + 1
      BY <2>2, <1>1 DEF acquire, pushcli, IInv, TypeOK
    <3> QED BY <3>1, <3>2, <2>1, FS_CardinalityType DEF IInv, NcliCounts
  <2>3. CASE d # c
    <3>1. at'[Cur(d)] = at[Cur(d)] /\ cpu'[d] = cpu[d]
      BY <2>3, <1>1, <2>1 DEF acquire, IInv, TypeOK, Cur
    <3> QED BY <3>1, <2>1 DEF IInv, NcliCounts
  <2> QED BY <2>2, <2>3
<1>8. IntenaRemembers'
  BY <1>1 DEF acquire, IInv, TypeOK, IntenaRemembers, pushcli, CpuState
<1>9. CallArgument'
  BY <1>2 DEF acquire, IInv, TypeOK, CallArgument
<1>10. LockedIsOwned' /\ MutualExclusion'
  BY DEF acquire, IInv, LockedIsOwned, MutualExclusion
<1>11. CpuFieldExact'
  BY DEF acquire, IInv, TypeOK, CpuFieldExact, Settled
<1> QED BY <1>4, <1>5, <1>6, <1>7, <1>8, <1>9, <1>10, <1>11 DEF IInv

LEMMA XchgIInv ==
  ASSUME IInv, NEW x \in Ctx, xchg(x)
  PROVE  IInv'
<1> DEFINE c == x[1]
<1> USE DEF Running, Goto, lockvars
<1> DEFINE l == lk[x]
<1>1. x = <<c, level[c]>> /\ c \in CPU /\ x[2] \in Level /\ level[c] \in Level
  BY CtxPairs DEF xchg, IInv, TypeOK
<1>2. l \in Lock /\ \A y \in Ctx : l \notin held[y]
  BY DEF xchg, IInv, CallArgument, LockedIsOwned
<1>3. held' = [held EXCEPT ![x] = held[x] \cup {l}] /\ at'[x] = "got" /\ lk' = lk
  BY DEF xchg, IInv, TypeOK
<1>4. TypeOK'
  BY <1>2 DEF xchg, IInv, TypeOK, Control
<1>5. NoPanic' /\ IntenaRemembers'
  BY DEF xchg, NoPanic, IntenaRemembers, IInv
<1>6. OthersIdle'
  BY <1>1 DEF xchg, IInv, TypeOK, OthersIdle, Idle
<1>7. NcliCounts'
  <2> SUFFICES ASSUME NEW d \in CPU
      PROVE (/\ IsFiniteSet(held[Cur(d)])
             /\ cpu[d].ncli = Cardinality(held[Cur(d)])
                     + (IF at[Cur(d)] \in {"spin", "cli"} THEN 1 ELSE 0))'
    BY DEF NcliCounts
  <2>1. Cur(d)' = Cur(d) /\ Cur(d) \in Ctx
    BY CtxPairs DEF xchg, Cur, IInv, TypeOK
  <2>2. CASE d = c
    <3>1. Cur(d) = x /\ Cur(d)' = x
      BY <2>2, <1>1, <2>1 DEF Cur
    <3>2. held'[x] = held[x] \cup {l} /\ at[x] = "spin" /\ at'[x] = "got" /\ cpu' = cpu
      BY <1>3 DEF xchg, IInv, TypeOK
    <3>3. IsFiniteSet(held[x]) /\ cpu[d].ncli = Cardinality(held[x]) + 1
      BY <3>1, <3>2 DEF IInv, NcliCounts
    <3>4. IsFiniteSet(held'[x]) /\ Cardinality(held'[x]) = Cardinality(held[x]) + 1
      <4>1. l \notin held[x]
        BY <1>2
      <4>2. held'[x] = held[x] \cup {l}
        BY <3>2
      <4> HIDE DEF l
      <4>3. IsFiniteSet(held[x] \cup {l}) /\ Cardinality(held[x] \cup {l}) = Cardinality(held[x]) + 1
        BY <4>1, <3>3, FS_AddElement
      <4> QED BY <4>2, <4>3
    <3> QED BY <3>1, <3>2, <3>3, <3>4, FS_CardinalityType
  <2>3. CASE d # c
    <3>1. at'[Cur(d)] = at[Cur(d)] /\ cpu'[d] = cpu[d] /\ held'[Cur(d)] = held[Cur(d)]
      BY <2>3, <1>1, <2>1 DEF xchg, IInv, TypeOK, Cur
    <3> QED BY <3>1, <2>1 DEF IInv, NcliCounts
  <2> QED BY <2>2, <2>3
<1>8. CallArgument'
  BY <1>2 DEF xchg, IInv, TypeOK, CallArgument
<1>9. LockedIsOwned'
  BY <1>2 DEF xchg, IInv, TypeOK, LockedIsOwned
<1>10. MutualExclusion'
  BY <1>2 DEF xchg, IInv, TypeOK, MutualExclusion
<1>11. CpuFieldExact'
  BY <1>2, <1>3 DEF xchg, IInv, TypeOK, CpuFieldExact, Settled
<1> QED BY <1>4, <1>5, <1>6, <1>7, <1>8, <1>9, <1>10, <1>11 DEF IInv

LEMMA AcquireRecordIInv ==
  ASSUME IInv, NEW x \in Ctx, acquire_record(x)
  PROVE  IInv'
<1> DEFINE c == x[1]
<1> USE DEF Running, Goto, lockvars
<1> DEFINE l == lk[x]
<1>1. x = <<c, level[c]>> /\ c \in CPU /\ x[2] \in Level /\ level[c] \in Level
  BY CtxPairs DEF acquire_record, IInv, TypeOK
<1>2. l \in held[x] /\ l \in Lock /\ \A y \in Ctx : y # x => l \notin held[y]
  BY DEF acquire_record, IInv, TypeOK, CallArgument, MutualExclusion
<1>4. TypeOK'
  BY <1>1, <1>2 DEF acquire_record, IInv, TypeOK, Control
<1>5. NoPanic' /\ IntenaRemembers' /\ LockedIsOwned' /\ MutualExclusion'
  BY DEF acquire_record, NoPanic, IntenaRemembers, LockedIsOwned, MutualExclusion, IInv
<1>6. OthersIdle'
  BY <1>1 DEF acquire_record, IInv, TypeOK, OthersIdle, Idle
<1>7. NcliCounts'
  <2> SUFFICES ASSUME NEW d \in CPU
      PROVE (/\ IsFiniteSet(held[Cur(d)])
             /\ cpu[d].ncli = Cardinality(held[Cur(d)])
                     + (IF at[Cur(d)] \in {"spin", "cli"} THEN 1 ELSE 0))'
    BY DEF NcliCounts
  <2>1. Cur(d)' = Cur(d) /\ Cur(d) \in Ctx
    BY CtxPairs DEF acquire_record, Cur, IInv, TypeOK
  <2>2. CASE d = c
    <3>1. Cur(d) = x /\ Cur(d)' = x
      BY <2>2, <1>1, <2>1 DEF Cur
    <3>2. held' = held /\ at[x] = "got" /\ at'[x] = "run" /\ cpu' = cpu
      BY DEF acquire_record, IInv, TypeOK
    <3> QED BY <3>1, <3>2 DEF IInv, NcliCounts
  <2>3. CASE d # c
    <3>1. at'[Cur(d)] = at[Cur(d)] /\ cpu'[d] = cpu[d] /\ held'[Cur(d)] = held[Cur(d)]
      BY <2>3, <1>1, <2>1 DEF acquire_record, IInv, TypeOK, Cur
    <3> QED BY <3>1, <2>1 DEF IInv, NcliCounts
  <2> QED BY <2>2, <2>3
<1>8. CallArgument'
  BY DEF acquire_record, IInv, TypeOK, CallArgument
<1>9. CpuFieldExact'
  BY <1>1, <1>2 DEF acquire_record, IInv, TypeOK, CpuFieldExact, Settled
<1> QED BY <1>4, <1>5, <1>6, <1>7, <1>8, <1>9 DEF IInv

LEMMA ReleaseIInv ==
  ASSUME IInv, NEW x \in Ctx, NEW l \in Lock, release(x, l)
  PROVE  IInv'
<1> DEFINE c == x[1]
<1> USE DEF Running, Goto, lockvars
<1>1. x = <<c, level[c]>> /\ c \in CPU /\ x[2] \in Level /\ level[c] \in Level
  BY CtxPairs DEF release, IInv, TypeOK
<1>2. l \in held[x] /\ \A y \in Ctx : y # x => l \notin held[y]
  BY DEF release, IInv, TypeOK, MutualExclusion
<1>3. holding(c, l)
  BY <1>1, <1>2 DEF release, holding, IInv, LockedIsOwned, CpuFieldExact, Settled
<1>4. TypeOK'
  BY <1>1 DEF release, IInv, TypeOK, Control
<1>5. NoPanic' /\ IntenaRemembers' /\ LockedIsOwned' /\ MutualExclusion'
  BY <1>3 DEF release, NoPanic, IntenaRemembers, LockedIsOwned, MutualExclusion, IInv
<1>6. OthersIdle'
  BY <1>1 DEF release, IInv, TypeOK, OthersIdle, Idle
<1>7. NcliCounts'
  <2> SUFFICES ASSUME NEW d \in CPU
      PROVE (/\ IsFiniteSet(held[Cur(d)])
             /\ cpu[d].ncli = Cardinality(held[Cur(d)])
                     + (IF at[Cur(d)] \in {"spin", "cli"} THEN 1 ELSE 0))'
    BY DEF NcliCounts
  <2>1. Cur(d)' = Cur(d) /\ Cur(d) \in Ctx
    BY CtxPairs DEF release, Cur, IInv, TypeOK
  <2>2. CASE d = c
    <3>1. Cur(d) = x /\ Cur(d)' = x
      BY <2>2, <1>1, <2>1 DEF Cur
    <3>2. held' = held /\ at[x] = "run" /\ at'[x] = "rel" /\ cpu' = cpu
      BY DEF release, IInv, TypeOK
    <3> QED BY <3>1, <3>2 DEF IInv, NcliCounts
  <2>3. CASE d # c
    <3>1. at'[Cur(d)] = at[Cur(d)] /\ cpu'[d] = cpu[d] /\ held'[Cur(d)] = held[Cur(d)]
      BY <2>3, <1>1, <2>1 DEF release, IInv, TypeOK, Cur
    <3> QED BY <3>1, <2>1 DEF IInv, NcliCounts
  <2> QED BY <2>2, <2>3
<1>8. CallArgument'
  BY <1>2 DEF release, IInv, TypeOK, CallArgument
<1>9. CpuFieldExact'
  BY <1>1, <1>2, SpinLockAssumption DEF release, IInv, TypeOK, CpuFieldExact, Settled
<1> QED BY <1>4, <1>5, <1>6, <1>7, <1>8, <1>9 DEF IInv

LEMMA ReleaseStoreIInv ==
  ASSUME IInv, NEW x \in Ctx, release_store(x)
  PROVE  IInv'
<1> DEFINE c == x[1]
           l == lk[x]
<1> USE DEF Running, Goto, lockvars
<1>1. x = <<c, level[c]>> /\ c \in CPU /\ x[2] \in Level /\ level[c] \in Level
  BY CtxPairs DEF release_store, IInv, TypeOK
<1>2. l \in held[x] /\ l \in Lock /\ \A y \in Ctx : y # x => l \notin held[y]
  BY DEF release_store, IInv, TypeOK, CallArgument, MutualExclusion
<1>3. /\ IsFiniteSet(held[x]) /\ Cardinality(held[x]) \in Nat
      /\ IsFiniteSet(held[x] \ {l}) /\ Cardinality(held[x] \ {l}) = Cardinality(held[x]) - 1
      /\ Cardinality(held[x] \ {l}) \in Nat
      /\ cpu[c].ncli = Cardinality(held[x])
  <2>1. IsFiniteSet(held[x]) /\ cpu[c].ncli = Cardinality(held[x]) + 0
    BY <1>1 DEF IInv, NcliCounts, Cur, release_store
  <2>2. l \in held[x]
    BY <1>2
  <2> HIDE DEF l
  <2> QED BY <2>1, <2>2, FS_RemoveElement, FS_CardinalityType
<1>4. cpu[c] \in CpuState /\ cpu[c].ncli > 0 /\ ~ popcli_panics(cpu[c])
  BY <1>1, <1>3 DEF IInv, TypeOK, IntenaRemembers, popcli_panics, CpuState
<1>5. TypeOK'
  BY <1>1, <1>2, <1>4 DEF release_store, IInv, TypeOK, Control, popcli, CpuState
<1>6. NoPanic'
  BY <1>4 DEF release_store, NoPanic
<1>7. OthersIdle'
  BY <1>1 DEF release_store, IInv, TypeOK, OthersIdle, Idle
<1>8. NcliCounts'
  <2> SUFFICES ASSUME NEW d \in CPU
      PROVE (/\ IsFiniteSet(held[Cur(d)])
             /\ cpu[d].ncli = Cardinality(held[Cur(d)])
                     + (IF at[Cur(d)] \in {"spin", "cli"} THEN 1 ELSE 0))'
    BY DEF NcliCounts
  <2>1. Cur(d)' = Cur(d) /\ Cur(d) \in Ctx
    BY CtxPairs DEF release_store, Cur, IInv, TypeOK
  <2>2. CASE d = c
    <3>1. Cur(d) = x /\ Cur(d)' = x
      BY <2>2, <1>1, <2>1 DEF Cur
    <3>2. held'[x] = held[x] \ {l} /\ at'[x] = "run" /\ cpu'[d].ncli = cpu[d].ncli - 1
      BY <2>2, <1>1 DEF release_store, popcli, IInv, TypeOK
    <3> QED BY <3>1, <3>2, <1>3, <2>2
  <2>3. CASE d # c
    <3>1. at'[Cur(d)] = at[Cur(d)] /\ cpu'[d] = cpu[d] /\ held'[Cur(d)] = held[Cur(d)]
      BY <2>3, <1>1, <2>1 DEF release_store, IInv, TypeOK, Cur
    <3> QED BY <3>1, <2>1 DEF IInv, NcliCounts
  <2> QED BY <2>2, <2>3
<1>9. IntenaRemembers'
  BY <1>1, <1>4 DEF release_store, IInv, TypeOK, IntenaRemembers, popcli, CpuState, Level
<1>10. CallArgument'
  BY DEF release_store, IInv, TypeOK, CallArgument
<1>11. LockedIsOwned' /\ MutualExclusion'
  BY <1>2 DEF release_store, IInv, TypeOK, LockedIsOwned, MutualExclusion
<1>12. CpuFieldExact'
  BY <1>2 DEF release_store, IInv, TypeOK, CpuFieldExact, Settled
<1> QED BY <1>5, <1>6, <1>7, <1>8, <1>9, <1>10, <1>11, <1>12 DEF IInv

\* A pushcli/popcli pair changes only ncli, intena, FL_IF and the control point.
LEMMA MyprocIInv ==
  ASSUME IInv, NEW x \in Ctx, myproc(x) \/ myproc_return(x)
  PROVE  IInv'
<1> DEFINE c == x[1]
<1> USE DEF Running, Goto, lockvars
<1>1. x = <<c, level[c]>> /\ c \in CPU /\ x[2] \in Level /\ level[c] \in Level
  BY CtxPairs DEF myproc, myproc_return, IInv, TypeOK
<1>2. /\ IsFiniteSet(held[x]) /\ Cardinality(held[x]) \in Nat
      /\ cpu[c].ncli = Cardinality(held[x]) + (IF at[x] \in {"spin", "cli"} THEN 1 ELSE 0)
      /\ cpu[c] \in CpuState
  BY <1>1, FS_CardinalityType DEF IInv, NcliCounts, Cur, TypeOK
<1>3. ASSUME myproc_return(x) PROVE cpu[c].ncli > 0 /\ ~ popcli_panics(cpu[c])
  BY <1>1, <1>2, <1>3 DEF IInv, IntenaRemembers, popcli_panics, CpuState, myproc_return
<1>4. TypeOK'
  <2>1. CASE myproc(x)
    BY <2>1, <1>1, <1>2 DEF myproc, IInv, TypeOK, Control, pushcli, CpuState
  <2>2. CASE myproc_return(x)
    BY <2>2, <1>1, <1>2, <1>3 DEF myproc_return, IInv, TypeOK, Control, popcli, CpuState
  <2> QED BY <2>1, <2>2
<1>5. NoPanic'
  BY <1>3 DEF myproc, myproc_return, NoPanic, IInv
<1>6. OthersIdle' /\ LockedIsOwned' /\ MutualExclusion'
  BY <1>1 DEF myproc, myproc_return, IInv, TypeOK, OthersIdle, Idle, LockedIsOwned, MutualExclusion
<1>7. NcliCounts'
  <2> SUFFICES ASSUME NEW d \in CPU
      PROVE (/\ IsFiniteSet(held[Cur(d)])
             /\ cpu[d].ncli = Cardinality(held[Cur(d)])
                     + (IF at[Cur(d)] \in {"spin", "cli"} THEN 1 ELSE 0))'
    BY DEF NcliCounts
  <2>1. Cur(d)' = Cur(d) /\ Cur(d) \in Ctx /\ held' = held
    BY CtxPairs DEF myproc, myproc_return, Cur, IInv, TypeOK
  <2>2. CASE d = c
    <3>1. Cur(d) = x /\ Cur(d)' = x
      BY <2>2, <1>1, <2>1 DEF Cur
    <3>2. CASE myproc(x)
      <4>1. at[x] = "run" /\ at'[x] = "cli" /\ cpu'[c].ncli = cpu[c].ncli + 1
        BY <3>2, <1>1 DEF myproc, pushcli, IInv, TypeOK
      <4> QED BY <4>1, <3>1, <2>1, <2>2, <1>2
    <3>3. CASE myproc_return(x)
      <4>1. at[x] = "cli" /\ at'[x] = "run" /\ cpu'[c].ncli = cpu[c].ncli - 1
        BY <3>3, <1>1 DEF myproc_return, popcli, IInv, TypeOK
      <4> QED BY <4>1, <3>1, <2>1, <2>2, <1>2
    <3> QED BY <3>2, <3>3
  <2>3. CASE d # c
    <3>1. at'[Cur(d)] = at[Cur(d)] /\ cpu'[d] = cpu[d]
      BY <2>3, <1>1, <2>1 DEF myproc, myproc_return, IInv, TypeOK, Cur
    <3> QED BY <3>1, <2>1 DEF IInv, NcliCounts
  <2> QED BY <2>2, <2>3
<1>8. IntenaRemembers'
  <2>1. CASE myproc(x)
    BY <2>1, <1>1, <1>2 DEF myproc, IInv, TypeOK, IntenaRemembers, pushcli, CpuState, Level
  <2>2. CASE myproc_return(x)
    BY <2>2, <1>1, <1>2, <1>3
    DEF myproc_return, IInv, TypeOK, IntenaRemembers, popcli, CpuState, Level
  <2> QED BY <2>1, <2>2
<1>9. CallArgument' /\ CpuFieldExact'
  <2>1. /\ UNCHANGED <<lkcpu, held, lk>>
        /\ \A y \in Ctx : at[y] \in {"got", "rel"} <=> at'[y] \in {"got", "rel"}
        /\ \A y \in Ctx : at'[y] = "spin" => at[y] = "spin"
    BY DEF myproc, myproc_return, IInv, TypeOK
  <2>2. CallArgument'
    BY <2>1 DEF IInv, CallArgument
  <2>3. \A y \in Ctx, l \in Lock : Settled(y, l)' <=> Settled(y, l)
    BY <2>1 DEF Settled
  <2>4. CpuFieldExact'
    BY <2>1, <2>3 DEF IInv, CpuFieldExact
  <2> QED BY <2>2, <2>4
<1> QED BY <1>4, <1>5, <1>6, <1>7, <1>8, <1>9 DEF IInv

\* An interrupt is taken only by a CPU that owns no lock, so both contexts of
\* the CPU are idle when control passes from one to the other.
LEMMA InterruptIInv ==
  ASSUME IInv, NEW c \in CPU, interrupt(c) \/ iret(c)
  PROVE  IInv'
<1> DEFINE x == <<c, level[c]>>
<1> USE DEF Running, lockvars
<1>1. x \in Ctx /\ level[c] \in Level
  BY CtxPairs DEF IInv, TypeOK
<1>2. cpu[c] \in CpuState /\ cpu[c].ncli = 0 /\ Idle(x)
  <2>1. /\ IsFiniteSet(held[x]) /\ Cardinality(held[x]) \in Nat
        /\ cpu[c].ncli = Cardinality(held[x]) + (IF at[x] \in {"spin", "cli"} THEN 1 ELSE 0)
        /\ cpu[c] \in CpuState
    BY <1>1, FS_CardinalityType DEF IInv, NcliCounts, Cur, TypeOK
  <2>2. CASE interrupt(c)
    <3>1. cpu[c].ncli = 0
      BY <2>1, <2>2 DEF interrupt, IInv, IntenaRemembers, CpuState
    <3>2. Cardinality(held[x]) = 0 /\ at[x] \notin {"spin", "cli"}
      BY <3>1, <2>1
    <3>3. held[x] = {}
      BY <3>2, <2>1, FS_EmptySet
    <3>4. at[x] = "run"
      BY <3>2, <3>3, <1>1 DEF IInv, CallArgument, TypeOK, Control
    <3> QED BY <2>1, <3>1, <3>3, <3>4 DEF Idle
  <2>3. CASE iret(c)
    <3>1. held[x] = {} /\ at[x] = "run"
      BY <2>3 DEF iret
    <3> QED BY <2>1, <3>1, FS_EmptySet DEF Idle
  <2> QED BY <2>2, <2>3
<1>3. \A v \in Level : Idle(<<c, v>>)
  BY <1>2, CtxPairs DEF IInv, OthersIdle
<1>4. level'[c] \in Level /\ \A d \in CPU : d # c => level'[d] = level[d] /\ cpu'[d] = cpu[d]
  BY DEF interrupt, iret, IInv, TypeOK, Level
<1>5. /\ cpu'[c].ncli = 0 /\ cpu'[c] \in CpuState
      /\ cpu'[c].FL_IF = 1 <=> level'[c] = "thread"
  <2>1. CASE interrupt(c)
    BY <2>1, <1>2 DEF interrupt, IInv, TypeOK, CpuState
  <2>2. CASE iret(c)
    BY <2>2, <1>2 DEF iret, IInv, TypeOK, CpuState
  <2> QED BY <2>1, <2>2
<1>6. UNCHANGED <<locked, lkcpu, held, at, lk, panicked>>
  BY DEF interrupt, iret
<1>7. TypeOK'
  <2>1. cpu' \in [CPU -> CpuState] /\ level' \in [CPU -> Level]
    BY <1>4, <1>5 DEF interrupt, iret, IInv, TypeOK
  <2> QED BY <2>1, <1>6 DEF IInv, TypeOK
<1>8. OthersIdle'
  BY <1>3, <1>4, <1>6, CtxPairs DEF IInv, OthersIdle, Idle
<1>9. NcliCounts'
  <2> SUFFICES ASSUME NEW d \in CPU
      PROVE (/\ IsFiniteSet(held[Cur(d)])
             /\ cpu[d].ncli = Cardinality(held[Cur(d)])
                     + (IF at[Cur(d)] \in {"spin", "cli"} THEN 1 ELSE 0))'
    BY DEF NcliCounts
  <2>1. CASE d = c
    <3>1. held[Cur(d)'] = {} /\ at[Cur(d)'] = "run"
      BY <2>1, <1>3, <1>4 DEF Cur, Idle
    <3> QED BY <3>1, <2>1, <1>5, <1>6, FS_EmptySet
  <2>2. CASE d # c
    BY <2>2, <1>4, <1>6 DEF IInv, NcliCounts, Cur
  <2> QED BY <2>1, <2>2
<1>10. IntenaRemembers'
  BY <1>4, <1>5 DEF IInv, IntenaRemembers
<1>11. CallArgument' /\ LockedIsOwned' /\ MutualExclusion' /\ CpuFieldExact' /\ NoPanic'
  BY <1>6 DEF IInv, CallArgument, LockedIsOwned, MutualExclusion, CpuFieldExact, Settled, NoPanic
<1> QED BY <1>7, <1>8, <1>9, <1>10, <1>11 DEF IInv

LEMMA StutterIInv == IInv /\ UNCHANGED vars => IInv'
BY DEF IInv, vars, TypeOK, NoPanic, OthersIdle, Idle, NcliCounts, Cur, IntenaRemembers,
       CallArgument, LockedIsOwned, MutualExclusion, CpuFieldExact, Settled

-----------------------------------------------------------------------------
\* The inductive invariant holds in every reachable state of the spin locks.
THEOREM IInvHolds == Spec => []IInv
<1>1. IInv /\ [Next]_vars => IInv'
  <2> SUFFICES ASSUME IInv, [Next]_vars PROVE IInv'
    OBVIOUS
  <2>1. ASSUME NEW x \in Ctx, NEW l \in Lock, acquire(x, l) \/ release(x, l) PROVE IInv'
    BY <2>1, AcquireIInv, ReleaseIInv
  <2>2. ASSUME NEW x \in Ctx, xchg(x) \/ acquire_record(x) \/ release_store(x) PROVE IInv'
    BY <2>2, XchgIInv, AcquireRecordIInv, ReleaseStoreIInv
  <2>3. ASSUME NEW x \in Ctx, myproc(x) \/ myproc_return(x) PROVE IInv'
    BY <2>3, MyprocIInv
  <2>4. ASSUME NEW c \in CPU, interrupt(c) \/ iret(c) PROVE IInv'
    BY <2>4, InterruptIInv
  <2>5. CASE UNCHANGED vars
    BY <2>5, StutterIInv
  <2> QED BY <2>1, <2>2, <2>3, <2>4, <2>5 DEF Next
<1> QED BY InitIInv, <1>1, PTL DEF Spec

\* acquire/release give mutual exclusion on any number of CPUs.
THEOREM SpinLockMutex == Spec => []MutualExclusion
<1>1. IInv => MutualExclusion
  BY DEF IInv
<1> QED BY IInvHolds, <1>1, PTL

\* Every variable keeps its type.
THEOREM SpinLockTypeOK == Spec => []TypeOK
<1>1. IInv => TypeOK
  BY DEF IInv
<1> QED BY IInvHolds, <1>1, PTL

\* No lock is owned or being taken on a CPU that can be interrupted.
THEOREM SpinLockInterruptsOff == Spec => []InterruptsOffInCriticalSection
<1>1. IInv => InterruptsOffInCriticalSection
  <2> SUFFICES ASSUME IInv, NEW c \in CPU, cpu[c].FL_IF = 1, NEW v \in Level
               PROVE Idle(<<c, v>>)
    BY DEF InterruptsOffInCriticalSection, Idle
  <2>1. level[c] = "thread" /\ cpu[c].ncli = 0
    BY DEF IInv, IntenaRemembers, TypeOK, CpuState
  <2>3. CASE v # level[c]
    BY <2>3, CtxPairs DEF IInv, OthersIdle
  <2>4. CASE v = level[c]
    <3> DEFINE x == <<c, v>>
    <3>1. /\ IsFiniteSet(held[x]) /\ Cardinality(held[x]) \in Nat
          /\ 0 = Cardinality(held[x]) + (IF at[x] \in {"spin", "cli"} THEN 1 ELSE 0)
      BY <2>1, <2>4, FS_CardinalityType DEF IInv, NcliCounts, Cur
    <3>2. held[x] = {} /\ at[x] \notin {"spin", "cli"}
      BY <3>1, FS_EmptySet
    <3> QED BY <3>2, CtxPairs DEF IInv, CallArgument, TypeOK, Control, Idle
  <2> QED BY <2>3, <2>4
<1> QED BY IInvHolds, <1>1, PTL

\* No panic of acquire, release or popcli is reachable.
THEOREM SpinLockNoPanic == Spec => []NoPanic
<1>1. IInv => NoPanic
  BY DEF IInv
<1> QED BY IInvHolds, <1>1, PTL

\* holding() answers exactly whether this CPU owns the lock.
THEOREM SpinLockHolding == Spec => []HoldingIsExact
<1>1. IInv => HoldingIsExact
  <2> SUFFICES ASSUME IInv, NEW c \in CPU, NEW l \in Lock
               PROVE holding(c, l) <=> \E v \in Level : Settled(<<c, v>>, l)
    BY DEF HoldingIsExact, Settled
  <2>1. lkcpu[l] = c <=> \E v \in Level : Settled(<<c, v>>, l)
    <3>1. lkcpu[l] = c <=> \E x \in Ctx : x[1] = c /\ Settled(x, l)
      BY DEF IInv, CpuFieldExact
    <3>2. ASSUME NEW x \in Ctx, x[1] = c, Settled(x, l)
          PROVE  \E v \in Level : Settled(<<c, v>>, l)
      <4>1. x = <<c, x[2]>> /\ x[2] \in Level
        BY <3>2, CtxPairs
      <4> QED BY <4>1, <3>2
    <3>3. ASSUME NEW v \in Level, Settled(<<c, v>>, l)
          PROVE  \E x \in Ctx : x[1] = c /\ Settled(x, l)
      BY <3>3, CtxPairs
    <3> QED BY <3>1, <3>2, <3>3
  <2>2. (\E v \in Level : Settled(<<c, v>>, l)) => locked[l] = 1
    BY CtxPairs DEF IInv, LockedIsOwned, Settled
  <2> QED BY <2>1, <2>2 DEF holding
<1> QED BY IInvHolds, <1>1, PTL

\* All of this together, for any number of CPUs and locks.
THEOREM SpinLockInv == Spec => []Inv
<1>1. TypeOK /\ NoPanic /\ MutualExclusion /\ InterruptsOffInCriticalSection /\ HoldingIsExact => Inv
  BY DEF Inv
<1> QED BY <1>1, SpinLockTypeOK, SpinLockNoPanic, SpinLockMutex, SpinLockInterruptsOff, SpinLockHolding, PTL

\* pushcli and popcli are matched: at depth 0 a thread has its interrupts back.
THEOREM SpinLockInterruptsRestored == Spec => []InterruptsRestored
<1>1. IInv => InterruptsRestored
  BY DEF IInv, IntenaRemembers, InterruptsRestored
<1> QED BY IInvHolds, <1>1, PTL

-----------------------------------------------------------------------------
(* The console *)

\* r, w and e in this order round the ring, e at most its size after r.
InOrder(a, b, c) ==
  /\ C!Minus(b, a) + C!Minus(c, b) = C!Minus(c, a)
  /\ C!Minus(c, a) <= INPUT_BUF

\* Remainders of numbers that are at most one round away.
LEMMA OneRound ==
  ASSUME NEW N \in Nat \ {0}, NEW x \in 0..(N - 1)
  PROVE  x % N = x /\ (x + N) % N = x /\ (x - N) % N = x
<1>1. x % N = x
  OBVIOUS
<1>2. (x + N) % N = x
  OBVIOUS
<1>3. (x - N) % N = x
  OBVIOUS
<1>4. QED BY <1>1, <1>2, <1>3

\* Wrapping sums and differences of indices.
LEMMA Wrap ==
  ASSUME C!Sizes, NEW x \in 0..(WRAP - 1)
  PROVE  /\ \A k \in 0..WRAP : C!Plus(x, k) = IF x + k < WRAP THEN x + k ELSE x + k - WRAP
         /\ \A y \in 0..(WRAP - 1) : C!Minus(x, y) = IF y <= x THEN x - y ELSE x - y + WRAP
<1>1. WRAP \in Nat \ {0}
  BY DEF C!Sizes
<1>2. ASSUME NEW k \in 0..WRAP PROVE C!Plus(x, k) = IF x + k < WRAP THEN x + k ELSE x + k - WRAP
  <2>1. CASE x + k < WRAP
    BY <1>1, <2>1, OneRound DEF C!Plus
  <2>2. CASE x + k >= WRAP
    <3>1. PICK y \in 0..(WRAP - 1) : y = x + k - WRAP /\ x + k = y + WRAP
      BY <1>1, <2>2
    <3>2. QED BY <1>1, <2>2, <3>1, OneRound DEF C!Plus
  <2>3. QED BY <1>1, <2>1, <2>2
<1>3. ASSUME NEW y \in 0..(WRAP - 1) PROVE C!Minus(x, y) = IF y <= x THEN x - y ELSE x - y + WRAP
  <2>1. CASE y <= x
    BY <1>1, <2>1, OneRound DEF C!Minus
  <2>2. CASE y > x
    <3>1. PICK z \in 0..(WRAP - 1) : z = x - y + WRAP /\ x - y = z - WRAP
      BY <1>1, <2>2
    <3>2. QED BY <1>1, <2>2, <3>1, OneRound DEF C!Minus
  <2>3. QED BY <1>1, <2>1, <2>2
<1>4. QED BY <1>2, <1>3

\* A character is typed; a committed line ends where it does.
LEMMA Type ==
  ASSUME C!Sizes, NEW a \in 0..(WRAP - 1), NEW b \in 0..(WRAP - 1), NEW c \in 0..(WRAP - 1),
         InOrder(a, b, c), C!Minus(c, a) < INPUT_BUF
  PROVE  /\ C!Plus(c, 1) \in 0..(WRAP - 1)
         /\ InOrder(a, b, C!Plus(c, 1)) /\ InOrder(a, C!Plus(c, 1), C!Plus(c, 1)) /\ C!Plus(c, 1) # a
         /\ C!Plus(c, 1) # C!Plus(a, INPUT_BUF) => C!Minus(C!Plus(c, 1), a) < INPUT_BUF
<1>1. {INPUT_BUF, WRAP} \subseteq Nat \ {0} /\ WRAP > INPUT_BUF
  BY DEF C!Sizes
<1>2. C!Plus(c, 1) \in 0..(WRAP - 1) /\ C!Plus(c, 1) = IF c + 1 < WRAP THEN c + 1 ELSE c + 1 - WRAP
  BY <1>1, Wrap
<1>3. C!Plus(a, INPUT_BUF) = IF a + INPUT_BUF < WRAP THEN a + INPUT_BUF ELSE a + INPUT_BUF - WRAP
  BY <1>1, Wrap
<1>4. \A x, y \in 0..(WRAP - 1) : C!Minus(x, y) = IF y <= x THEN x - y ELSE x - y + WRAP
  BY Wrap
<1>5. PICK d \in 0..(WRAP - 1) : d = C!Plus(c, 1)
  BY <1>2
<1>6. /\ C!Minus(b, a) = IF a <= b THEN b - a ELSE b - a + WRAP
      /\ C!Minus(c, b) = IF b <= c THEN c - b ELSE c - b + WRAP
      /\ C!Minus(c, a) = IF a <= c THEN c - a ELSE c - a + WRAP
      /\ C!Minus(d, b) = IF b <= d THEN d - b ELSE d - b + WRAP
      /\ C!Minus(d, a) = IF a <= d THEN d - a ELSE d - a + WRAP
      /\ C!Minus(d, d) = 0
  BY <1>4
<1>7. /\ InOrder(a, b, d) /\ InOrder(a, d, d) /\ d # a
      /\ d # C!Plus(a, INPUT_BUF) => C!Minus(d, a) < INPUT_BUF
  BY <1>1, <1>2, <1>3, <1>5, <1>6 DEF InOrder
<1>8. QED BY <1>5, <1>7

\* The end goes back, to no less than what is committed.
LEMMA Erase ==
  ASSUME C!Sizes, NEW a \in 0..(WRAP - 1), NEW b \in 0..(WRAP - 1), NEW c \in 0..(WRAP - 1),
         InOrder(a, b, c), NEW k \in 0..C!Minus(c, b)
  PROVE  /\ C!Minus(c, k) \in 0..(WRAP - 1) /\ InOrder(a, b, C!Minus(c, k))
         /\ C!Minus(C!Minus(c, k), a) = C!Minus(c, a) - k
<1>1. {INPUT_BUF, WRAP} \subseteq Nat \ {0} /\ WRAP > INPUT_BUF
  BY DEF C!Sizes
<1>2. \A x, y \in 0..(WRAP - 1) : C!Minus(x, y) = IF y <= x THEN x - y ELSE x - y + WRAP
  BY Wrap
<1>3. k \in 0..(WRAP - 1) /\ k <= C!Minus(c, b)
  BY <1>1, <1>2
<1>4. PICK d \in 0..(WRAP - 1) : d = C!Minus(c, k) /\ d = IF k <= c THEN c - k ELSE c - k + WRAP
  BY <1>1, <1>2, <1>3
<1>5. /\ C!Minus(b, a) = IF a <= b THEN b - a ELSE b - a + WRAP
      /\ C!Minus(c, b) = IF b <= c THEN c - b ELSE c - b + WRAP
      /\ C!Minus(c, a) = IF a <= c THEN c - a ELSE c - a + WRAP
      /\ C!Minus(d, b) = IF b <= d THEN d - b ELSE d - b + WRAP
      /\ C!Minus(d, a) = IF a <= d THEN d - a ELSE d - a + WRAP
  BY <1>2
<1>6. InOrder(a, b, d) /\ C!Minus(d, a) = C!Minus(c, a) - k
  BY <1>1, <1>3, <1>4, <1>5 DEF InOrder
<1>7. QED BY <1>4, <1>6

\* The start goes on, to no more than what is committed.
LEMMA Take ==
  ASSUME C!Sizes, NEW a \in 0..(WRAP - 1), NEW b \in 0..(WRAP - 1), NEW c \in 0..(WRAP - 1),
         InOrder(a, b, c), NEW k \in 0..C!Minus(b, a)
  PROVE  /\ C!Plus(a, k) \in 0..(WRAP - 1) /\ InOrder(C!Plus(a, k), b, c)
         /\ C!Minus(c, C!Plus(a, k)) = C!Minus(c, a) - k
<1>1. {INPUT_BUF, WRAP} \subseteq Nat \ {0} /\ WRAP > INPUT_BUF
  BY DEF C!Sizes
<1>2. \A x, y \in 0..(WRAP - 1) : C!Minus(x, y) = IF y <= x THEN x - y ELSE x - y + WRAP
  BY Wrap
<1>3. k \in 0..WRAP /\ C!Plus(a, k) = IF a + k < WRAP THEN a + k ELSE a + k - WRAP
  BY <1>1, <1>2, Wrap
<1>4. QED BY <1>1, <1>2, <1>3 DEF InOrder

-----------------------------------------------------------------------------

\* Beside the properties, a process that calls has bytes left to read, and one
\* that is about to sleep has seen nothing committed.
ConsoleIInv ==
  /\ C!TypeOK /\ InOrder(r, w, e)
  /\ \A p \in CProcess : cpc[p] # "user" => n[p] >= 1
  /\ \A p \in CProcess : cpc[p] \in {"sleep", "asleep"} => r = w
  /\ C!Minus(e, r) = INPUT_BUF => r # w

\* The indices, and the distances between them.
LEMMA ConsoleParts ==
  ASSUME C!Sizes, ConsoleIInv
  PROVE  /\ {INPUT_BUF, WRAP, MAXREAD} \subseteq Nat \ {0}
         /\ r \in 0..(WRAP - 1) /\ w \in 0..(WRAP - 1) /\ e \in 0..(WRAP - 1)
         /\ InOrder(r, w, e) /\ C!Minus(e, r) \in Nat /\ C!Minus(w, r) \in Nat /\ C!Minus(e, w) \in Nat
         /\ r = w <=> C!Minus(w, r) = 0
<1>1. {INPUT_BUF, WRAP, MAXREAD} \subseteq Nat \ {0}
  BY DEF C!Sizes
<1>2. r \in 0..(WRAP - 1) /\ w \in 0..(WRAP - 1) /\ e \in 0..(WRAP - 1) /\ InOrder(r, w, e)
  BY DEF ConsoleIInv, C!TypeOK
<1>3. QED BY <1>1, <1>2, Wrap

\* The invariant has what is to be shown.
LEMMA ConsoleInvs == C!Sizes /\ ConsoleIInv => NoLostLine
<1> SUFFICES ASSUME C!Sizes, ConsoleIInv PROVE NoLostLine
  OBVIOUS
<1>1. ~C!HasRoom => C!Minus(e, r) = INPUT_BUF
  BY ConsoleParts DEF C!HasRoom, InOrder
<1>2. QED BY <1>1 DEF NoLostLine, ConsoleIInv, C!Inv, C!NoLostLine, InOrder

\* The ring is empty at first.
LEMMA InitConsole == C!Sizes /\ C!Init => ConsoleIInv
<1> SUFFICES ASSUME C!Sizes, C!Init PROVE ConsoleIInv
  OBVIOUS
<1>1. C!TypeOK
  BY DEF C!Sizes, C!Init, C!TypeOK, C!Char
<1>2. C!Minus(0, 0) = 0 /\ INPUT_BUF \in Nat \ {0}
  <2>1. WRAP \in Nat \ {0} /\ 0 \in 0..(WRAP - 1) /\ INPUT_BUF \in Nat \ {0}
    BY DEF C!Sizes
  <2>2. QED BY <2>1, Wrap
<1>3. QED BY <1>1, <1>2 DEF C!Init, ConsoleIInv, InOrder

\* What is known of the readers.
LEMMA ConsoleTypes ==
  ASSUME C!Sizes, ConsoleIInv
  PROVE  /\ cpc \in [CProcess -> {"user", "reading", "sleep", "asleep"}]
         /\ n \in [CProcess -> 0..MAXREAD] /\ target \in [CProcess -> 0..MAXREAD]
         /\ ckilled \in [CProcess -> {0, 1}] /\ MAXREAD \in Nat \ {0}
         /\ \A p \in CProcess : cpc[p] # "user" => n[p] >= 1
         /\ \A p \in CProcess : cpc[p] \in {"sleep", "asleep"} => r = w
BY DEF ConsoleIInv, C!TypeOK, C!Sizes

\* A full ring is committed, so that no reader sleeps beside it.
LEMMA ConsoleintrStep ==
  ASSUME C!Sizes, ConsoleIInv, NEW key \in Key, C!consoleintr(key)
  PROVE  ConsoleIInv'
<1>0. /\ key # NUL /\ C!HasRoom /\ buf' = [buf EXCEPT ![e % INPUT_BUF] = C!Cooked(key)] /\ e' = C!Plus(e, 1)
      /\ ~C!Locked /\ r' = r /\ n' = n /\ target' = target /\ ckilled' = ckilled
      /\ \/ w' = C!Plus(e, 1) /\ cpc' = C!Woken
         \/ w' = w /\ cpc' = cpc /\ C!Plus(e, 1) # C!Plus(r, INPUT_BUF)
  BY DEF C!consoleintr, C!WokenBy, C!Commits
<1>1. /\ C!Plus(e, 1) \in 0..(WRAP - 1)
      /\ InOrder(r, w, C!Plus(e, 1)) /\ InOrder(r, C!Plus(e, 1), C!Plus(e, 1)) /\ C!Plus(e, 1) # r
      /\ C!Plus(e, 1) # C!Plus(r, INPUT_BUF) => C!Minus(C!Plus(e, 1), r) < INPUT_BUF
  BY <1>0, ConsoleParts, Type DEF C!HasRoom
<1>2. C!TypeOK'
  <2>1. C!Cooked(key) \in C!Char
    BY <1>0 DEF C!Sizes, C!Cooked, C!Char
  <2>2. buf' \in [0..(INPUT_BUF - 1) -> C!Char]
    BY <1>0, <2>1 DEF ConsoleIInv, C!TypeOK
  <2>3. {r', w', e'} \subseteq 0..(WRAP - 1)
    BY <1>0, <1>1, ConsoleParts
  <2>4. cpc' \in [CProcess -> {"user", "reading", "sleep", "asleep"}]
    BY <1>0, ConsoleTypes DEF C!Woken
  <2>5. QED BY <1>0, <2>2, <2>3, <2>4, ConsoleTypes DEF C!TypeOK
<1>3. InOrder(r, w, e)'
  BY <1>0, <1>1 DEF InOrder, C!Minus
<1>4. \A p \in CProcess : cpc'[p] # "user" => n'[p] >= 1
  BY <1>0 DEF ConsoleIInv, C!Woken
<1>5. \A p \in CProcess : cpc'[p] \in {"sleep", "asleep"} => r' = w'
  BY <1>0 DEF ConsoleIInv, C!Woken, C!Locked
<1>6. C!Minus(e, r)' = INPUT_BUF => r' # w'
  BY <1>0, <1>1, ConsoleParts DEF C!Minus
<1>7. QED BY <1>2, <1>3, <1>4, <1>5, <1>6 DEF ConsoleIInv

\* Erased is only what is not committed, so a full ring was full before.
LEMMA EraseStep ==
  ASSUME C!Sizes, ConsoleIInv, NEW k \in 0..C!Minus(e, w), e' = C!Minus(e, k),
         UNCHANGED <<buf, r, w, cpc, n, target, ckilled>>
  PROVE  ConsoleIInv'
<1>1. e' \in 0..(WRAP - 1) /\ InOrder(r, w, C!Minus(e, k)) /\ C!Minus(C!Minus(e, k), r) = C!Minus(e, r) - k
  BY ConsoleParts, Erase
<1>2. C!TypeOK'
  BY <1>1 DEF ConsoleIInv, C!TypeOK
<1>3. InOrder(r, w, e)'
  BY <1>1 DEF InOrder, C!Minus
<1>4. C!Minus(e, r)' = INPUT_BUF => C!Minus(e, r) = INPUT_BUF
  <2>1. C!Minus(e, r)' = C!Minus(e, r) - k
    BY <1>1 DEF C!Minus
  <2>2. k \in Nat
    BY ConsoleParts
  <2>3. QED BY <2>1, <2>2, ConsoleParts DEF InOrder
<1>5. QED BY <1>2, <1>3, <1>4 DEF ConsoleIInv

\* backspace erases one character, ...
LEMMA BackspaceStep ==
  ASSUME C!Sizes, ConsoleIInv, C!backspace
  PROVE  ConsoleIInv'
<1>1. 1 \in 0..C!Minus(e, w)
  <2>1. C!Minus(e, w) # 0
    BY ConsoleParts, Wrap DEF C!backspace
  <2>2. QED BY <2>1, ConsoleParts
<1>2. QED BY <1>1, EraseStep DEF C!backspace

\* ... and Control-U those of the line.
LEMMA KillLineStep ==
  ASSUME C!Sizes, ConsoleIInv, C!kill_line
  PROVE  ConsoleIInv'
BY EraseStep DEF C!kill_line

\* A step of a process that leaves the ring alone.
LEMMA ProcessStep ==
  ASSUME C!Sizes, ConsoleIInv, UNCHANGED C!input,
         cpc' \in [CProcess -> {"user", "reading", "sleep", "asleep"}],
         n' \in [CProcess -> 0..MAXREAD], target' \in [CProcess -> 0..MAXREAD], ckilled' \in [CProcess -> {0, 1}],
         \A p \in CProcess : cpc'[p] # "user" => n'[p] >= 1,
         \A p \in CProcess : cpc'[p] \in {"sleep", "asleep"} => cpc[p] \in {"sleep", "asleep"} \/ r = w
  PROVE  ConsoleIInv'
<1>1. C!TypeOK'
  BY DEF ConsoleIInv, C!TypeOK, C!input
<1>2. InOrder(r, w, e)' /\ (C!Minus(e, r)' = INPUT_BUF => r' # w')
  BY DEF ConsoleIInv, InOrder, C!Minus, C!input
<1>3. QED BY <1>1, <1>2 DEF ConsoleIInv, C!input

\* A reader goes to sleep when it has seen that nothing is committed, and no key
\* comes in between; one that is killed wakes up.
LEMMA CallStep ==
  ASSUME C!Sizes, ConsoleIInv, NEW p \in CProcess,
         C!call(p) \/ C!consoleread_wait(p) \/ C!sleep(p) \/ C!kill(p)
  PROVE  ConsoleIInv'
<1>1. CASE C!call(p)
  BY <1>1, ConsoleTypes, ProcessStep DEF C!call
<1>2. CASE C!consoleread_wait(p)
  BY <1>2, ConsoleTypes, ProcessStep DEF C!consoleread_wait, C!Return
<1>3. CASE C!sleep(p)
  BY <1>3, ConsoleTypes, ProcessStep DEF C!sleep
<1>4. CASE C!kill(p)
  BY <1>4, ConsoleTypes, ProcessStep DEF C!kill
<1>5. QED BY <1>1, <1>2, <1>3, <1>4

\* A set of naturals has a least element.
LEMMA Least ==
  ASSUME NEW S \in SUBSET Nat, S # {}
  PROVE  \E x \in S : \A y \in S : x <= y
<1>1. PICK x \in S : \A y \in S : ~(<<y, x>> \in OpToRel(<, Nat))
  BY NatLessThanWellFounded, WFMin
<1>2. ASSUME NEW y \in S PROVE x <= y
  <2>1. x \in Nat /\ y \in Nat /\ <<y, x>> \in Nat \X Nat
    OBVIOUS
  <2>2. ~(y < x)
    BY <1>1, <2>1 DEF OpToRel
  <2>3. QED BY <2>1, <2>2
<1>3. QED BY <1>2

\* The loop of consoleread takes a byte, no more than are committed or wanted.
LEMMA TakenFacts ==
  ASSUME C!Sizes, ConsoleIInv, NEW p \in CProcess, cpc[p] = "reading", r # w
  PROVE  /\ C!Taken(p) \in 1..C!Minus(w, r)
         /\ C!Ends(p, C!Taken(p)) \/ C!Taken(p) < n[p]
<1> DEFINE S == {k \in 1..C!Minus(w, r) : k = C!Minus(w, r) \/ C!Ends(p, k)}
<1>1. C!Minus(w, r) \in Nat \ {0} /\ n[p] \in Nat \ {0}
  BY ConsoleParts, ConsoleTypes
<1>2. C!Minus(w, r) \in S /\ S \in SUBSET Nat
  BY <1>1
<1>3. PICK k \in S : \A y \in S : k <= y
  BY <1>2, Least, Zenon
<1>4. \A j \in 1..(k - 1) : ~C!Ends(p, j)
  <2>1. \A j \in 1..(k - 1) : j \in 1..C!Minus(w, r) /\ ~(k <= j)
    BY <1>1, <1>3
  <2>2. QED BY <1>3, <2>1
<1>5. /\ C!Taken(p) \in 1..C!Minus(w, r)
      /\ \A j \in 1..(C!Taken(p) - 1) : ~C!Ends(p, j)
  BY <1>3, <1>4 DEF C!Taken
<1>6. ASSUME ~C!Ends(p, C!Taken(p)) PROVE C!Taken(p) < n[p]
  <2>1. \A j \in 1..C!Taken(p) : j # n[p]
    BY <1>1, <1>5, <1>6 DEF C!Ends
  <2>2. QED BY <1>1, <1>5, <2>1
<1>7. QED BY <1>5, <1>6

\* Nobody sleeps while there is a line to read, and what is taken makes room.
LEMMA ConsolereadStep ==
  ASSUME C!Sizes, ConsoleIInv, NEW p \in CProcess, C!consoleread(p)
  PROVE  ConsoleIInv'
<1>0. cpc[p] = "reading" /\ r # w /\ ~C!Locked /\ UNCHANGED <<buf, w, e, ckilled>>
  BY DEF C!consoleread
<1>1. PICK k \in 0..C!Minus(w, r) : r' = C!Plus(r, k)
  <2>1. C!Taken(p) \in 1..C!Minus(w, r) /\ C!Minus(w, r) \in Nat
    BY <1>0, TakenFacts, ConsoleParts
  <2>2. C!Taken(p) \in 0..C!Minus(w, r) /\ C!Taken(p) - 1 \in 0..C!Minus(w, r)
    BY <2>1
  <2>3. QED BY <2>2 DEF C!consoleread
<1>2. r' \in 0..(WRAP - 1) /\ InOrder(C!Plus(r, k), w, e) /\ C!Minus(e, C!Plus(r, k)) = C!Minus(e, r) - k
  BY <1>1, ConsoleParts, Take
<1>3. /\ n' \in [CProcess -> 0..MAXREAD] /\ target' \in [CProcess -> 0..MAXREAD]
      /\ cpc' \in [CProcess -> {"user", "reading", "sleep", "asleep"}]
      /\ \A q \in CProcess : cpc'[q] # "user" => n'[q] >= 1
      /\ \A q \in CProcess : cpc'[q] \in {"sleep", "asleep"} => cpc[q] \in {"sleep", "asleep"}
  <2>1. CASE C!Ends(p, C!Taken(p))
    <3>1. C!Return(p)
      BY <2>1 DEF C!consoleread
    <3>2. QED BY <3>1, ConsoleTypes DEF C!Return
  <2>2. CASE ~C!Ends(p, C!Taken(p))
    <3>1. n' = [n EXCEPT ![p] = @ - C!Taken(p)] /\ UNCHANGED <<cpc, target>>
      BY <2>2 DEF C!consoleread
    <3>2. C!Taken(p) \in Nat \ {0} /\ C!Taken(p) < n[p] /\ n[p] \in 0..MAXREAD /\ MAXREAD \in Nat
      BY <1>0, <2>2, TakenFacts, ConsoleParts, ConsoleTypes
    <3>3. n[p] - C!Taken(p) \in 0..MAXREAD /\ n[p] - C!Taken(p) >= 1
      BY <3>2
    <3>4. QED BY <3>1, <3>3, ConsoleTypes
  <2>3. QED BY <2>1, <2>2
<1>4. C!TypeOK'
  BY <1>0, <1>2, <1>3 DEF ConsoleIInv, C!TypeOK
<1>5. InOrder(r, w, e)'
  BY <1>0, <1>1, <1>2 DEF InOrder, C!Minus
<1>6. \A q \in CProcess : cpc'[q] \notin {"sleep", "asleep"}
  BY <1>0, <1>3, ConsoleTypes
<1>7. C!Minus(e, r)' = INPUT_BUF => r' # w'
  <2>1. C!Minus(e, r)' = C!Minus(e, r) - k /\ k \in Nat
    BY <1>0, <1>1, <1>2, ConsoleParts DEF C!Minus
  <2>2. CASE k = 0
    <3>1. C!Plus(r, 0) = r
      BY ConsoleParts, Wrap
    <3>2. QED BY <1>0, <1>1, <2>2, <3>1
  <2>3. CASE k # 0
    BY <2>1, <2>3, ConsoleParts DEF InOrder
  <2>4. QED BY <2>2, <2>3
<1>8. QED BY <1>3, <1>4, <1>5, <1>6, <1>7 DEF ConsoleIInv

\* A step of something else.
LEMMA StutterConsole ==
  ASSUME ConsoleIInv, UNCHANGED C!vars
  PROVE  ConsoleIInv'
BY DEF ConsoleIInv, C!vars, C!TypeOK, InOrder, C!Minus

\* Whatever is typed, erased and read, by however many readers and also when the
\* indices wrap around: r, w and e stay in order and within the ring, no reader
\* sleeps while a line is committed, and a full ring is committed (consoleintr,
\* consoleread).
THEOREM ConsoleNoLostLine ==
  ASSUME C!Sizes
  PROVE  C!Spec => []NoLostLine
<1>1. C!Init => ConsoleIInv
  BY InitConsole
<1>2. ConsoleIInv /\ [C!Next]_C!vars => ConsoleIInv'
  <2> SUFFICES ASSUME ConsoleIInv, [C!Next]_C!vars PROVE ConsoleIInv'
    OBVIOUS
  <2>1. ASSUME NEW key \in Key, C!consoleintr(key) PROVE ConsoleIInv'
    BY <2>1, ConsoleintrStep
  <2>2. CASE C!backspace \/ C!kill_line
    BY <2>2, BackspaceStep, KillLineStep
  <2>3. ASSUME NEW p \in CProcess, C!consoleread(p) PROVE ConsoleIInv'
    BY <2>3, ConsolereadStep
  <2>4. ASSUME NEW p \in CProcess, C!call(p) \/ C!consoleread_wait(p) \/ C!sleep(p) \/ C!kill(p) PROVE ConsoleIInv'
    BY <2>4, CallStep
  <2>5. CASE UNCHANGED C!vars
    BY <2>5, StutterConsole
  <2>6. QED BY <2>1, <2>2, <2>3, <2>4, <2>5 DEF C!Next
<1>3. ConsoleIInv => NoLostLine
  BY ConsoleInvs
<1>4. QED BY <1>1, <1>2, <1>3, PTL DEF C!Spec
===============================================================================
