------------------------------ MODULE ProcProofs ------------------------------
(***************************************************************************)
(* The safety properties of Proc for any size of the process table, any     *)
(* bound on pids and any choice of programs.                                *)
(***************************************************************************)
EXTENDS Proc, FiniteSetTheorems, WellFoundedInduction, TLAPS

\* Process p is between the two critical sections of fork.
Forking(p) == state[p] \in Alive /\ pc[p] \in InFork

\* pids given out are below nextpid, so that the next one is new.
PidsBelow == \A q \in Slot : pid[q] < nextpid

\* The slot that a fork is filling in, and how far it has come.
ForkOwns ==
  \A p \in Slot : Forking(p) =>
    /\ np[p] \in Slot /\ state[np[p]] = "EMBRYO"
    /\ pc[p] = "kalloc" => pgdir[np[p]] # 1
    /\ pc[p] # "kalloc" => kstack[np[p]] = 1
    /\ pc[p] # "run" => parent[np[p]] = None
    /\ pc[p] = "run" => pgdir[np[p]] = 1 /\ parent[np[p]] = p /\ ret[p] = pid[np[p]]

\* Every slot in the making is filled in by one fork only.
OneFork ==
  /\ \A p, q \in Slot : Forking(p) /\ Forking(q) /\ np[p] = np[q] => p = q
  /\ \A q \in Slot : state[q] = "EMBRYO" => \E p \in Slot : Forking(p) /\ np[p] = q

\* A free slot is nobody's child; a process or zombie is the child of a process.
Parents ==
  \A q \in Slot :
    /\ state[q] = "UNUSED" => parent[q] = None
    /\ q # initproc /\ state[q] \in Alive \cup {"ZOMBIE"} =>
         parent[q] \in Slot \ {q} /\ state[parent[q]] \in Alive

\* What fork is about to return is still its child; wait starts without one.
ForkReturn ==
  \A p \in Slot : state[p] \in Alive =>
    /\ pc[p] = "wait" => np[p] = None
    /\ pc[p] = "return" /\ np[p] # None /\ ret[p] > 0 => pid[np[p]] = ret[p] /\ parent[np[p]] = p

\* init lives; it comes to exit only because it was killed or could not fork.
Trouble == killed[initproc] = 1 \/ (shpid = 0 /\ ret[initproc] = -1)
InitLives ==
  /\ state[initproc] \in Alive
  /\ pc[initproc] = "exiting" => panicked = 1
  /\ pc[initproc] \in {"exit", "exiting"} \/ panicked = 1 => Trouble

\* SleepInWaitIsJustified without sets.
WaitJustified ==
  \A p \in Slot : state[p] = "SLEEPING" /\ chan[p] = p =>
    /\ killed[p] = 0
    /\ \E q \in Slot : parent[q] = p
    /\ \A q \in Slot : parent[q] = p => state[q] # "ZOMBIE"

IInv ==
  /\ TypeOK
  /\ PidsBelow
  /\ UniquePids
  /\ MemoryOwned
  /\ ForkOwns
  /\ OneFork
  /\ Parents
  /\ ForkReturn
  /\ InitLives
  /\ WaitJustified

-----------------------------------------------------------------------------
(* Lemmas *)

\* What the proofs use of the constants: slots are positive, 0 is no slot and &ticks
\* is no process.
LEMMA Constants ==
  /\ NPROC \in Nat \ {0} /\ Slot \subseteq Nat \ {0} /\ Slot \subseteq 0..Ticks
  /\ initproc \in Slot /\ None \notin Slot /\ None = 0
  /\ Ticks \notin Slot /\ Ticks \in 0..Ticks /\ 0 \in 0..Ticks
BY ProcAssumption DEF Slot, initproc, None, Ticks

\* The first slot of a set, as the loops over ptable find it, is in the set.
LEMMA MinIn == \A S \in SUBSET Slot : S # {} => Min(S) \in S
<1> SUFFICES ASSUME NEW S \in SUBSET Slot, S # {} PROVE Min(S) \in S
  OBVIOUS
<1>1. S \subseteq Nat
  BY Constants
<1>2. PICK x \in S : \A y \in S : ~ (<<y, x>> \in OpToRel(<, Nat))
  BY <1>1, NatLessThanWellFounded, WFMin
<1>3. ASSUME NEW y \in S PROVE x =< y
  <2>1. x \in Nat /\ y \in Nat
    BY <1>1
  <2>2. <<y, x>> \in Nat \X Nat
    BY <2>1
  <2>3. ~ (y < x)
    BY <1>2, <2>2 DEF OpToRel
  <2> QED BY <2>1, <2>3
<1> QED BY <1>3 DEF Min

\* A step that leaves all forks in progress, and the slots they fill in, alone.
SameForks ==
  /\ \A x \in Slot :
       /\ Forking(x)' <=> Forking(x)
       /\ Forking(x) => np'[x] = np[x] /\ ret'[x] = ret[x] /\ pc'[x] = pc[x]
  /\ \A q \in Slot :
       /\ state'[q] = "EMBRYO" <=> state[q] = "EMBRYO"
       /\ state[q] = "EMBRYO" => /\ kstack'[q] = kstack[q] /\ pgdir'[q] = pgdir[q]
                                 /\ parent'[q] = parent[q] /\ pid'[q] = pid[q]

\* Such a step preserves what is known of the forks.
LEMMA SameForksInv ==
  ASSUME ForkOwns, OneFork, SameForks
  PROVE  ForkOwns' /\ OneFork'
<1>1. ForkOwns'
  BY DEF ForkOwns, SameForks
<1>2. \A p, q \in Slot : Forking(p)' /\ Forking(q)' /\ np'[p] = np'[q] => p = q
  BY DEF OneFork, SameForks
<1>3. \A q \in Slot : state'[q] = "EMBRYO" => \E p \in Slot : Forking(p)' /\ np'[p] = q
  BY DEF OneFork, SameForks
<1> QED BY <1>1, <1>2, <1>3 DEF OneFork

\* userinit's state satisfies the invariant.
LEMMA InitIInv == Init => IInv
<1> SUFFICES ASSUME Init PROVE IInv
  OBVIOUS
<1>1. TypeOK /\ PidsBelow /\ UniquePids /\ MemoryOwned
  BY Constants DEF Init, TypeOK, PidsBelow, UniquePids, MemoryOwned, Alive, InFork
<1>2. ForkOwns /\ OneFork
  BY Constants DEF Init, ForkOwns, OneFork, Forking, InFork
<1>3. Parents /\ ForkReturn /\ InitLives /\ WaitJustified
  BY Constants DEF Init, Parents, ForkReturn, InitLives, Trouble, WaitJustified, Alive
<1> QED BY <1>1, <1>2, <1>3 DEF IInv

\* A system call begins.
LEMMA SyscallIInv ==
  ASSUME IInv, NEW p \in Slot, syscall(p)
  PROVE  IInv'
<1>1. PICK s \in {"fork", "wait", "kill", "sleep", "exit"} : pc' = [pc EXCEPT ![p] = s]
  BY ProcAssumption DEF syscall, Goto, Calls
<1>2. TypeOK'
  BY <1>1, Constants DEF IInv, TypeOK, syscall, table
<1>3. SameForks
  BY <1>1 DEF SameForks, Forking, Alive, InFork, IInv, TypeOK, syscall, Runs, table
<1>4. ForkOwns' /\ OneFork'
  BY <1>3, SameForksInv DEF IInv
<1>5. PidsBelow' /\ UniquePids' /\ MemoryOwned'
  BY DEF PidsBelow, UniquePids, MemoryOwned, Alive, IInv, TypeOK, syscall, Runs, Goto, Calls, table
<1>6. Parents' /\ ForkReturn'
  BY Constants DEF Parents, ForkReturn, Alive, IInv, TypeOK, syscall, Runs, Goto, Calls, table
<1>7. InitLives'
  BY Constants DEF InitLives, Trouble, Alive, IInv, TypeOK, syscall, Runs, Goto, Calls, table
<1>8. WaitJustified'
  BY Constants DEF WaitJustified, IInv, TypeOK, syscall, Runs, Goto, Calls, table
<1> QED BY <1>2, <1>4, <1>5, <1>6, <1>7, <1>8 DEF IInv

\* A system call returns.
LEMMA ReturnIInv ==
  ASSUME IInv, NEW p \in Slot, syscall_return(p)
  PROVE  IInv'
<1>1. TypeOK'
  BY Constants DEF IInv, TypeOK, InFork, syscall_return, Runs, Goto, init_main, table
<1>2. SameForks
  BY DEF SameForks, Forking, Alive, InFork, IInv, TypeOK, syscall_return, Runs, Goto, init_main, table
<1>3. ForkOwns' /\ OneFork'
  BY <1>2, SameForksInv DEF IInv
<1>4. PidsBelow' /\ UniquePids' /\ MemoryOwned'
  BY DEF PidsBelow, UniquePids, MemoryOwned, Alive, IInv, TypeOK, syscall_return, Runs, Goto, init_main, table
<1>5. Parents' /\ ForkReturn'
  BY Constants DEF Parents, ForkReturn, Alive, IInv, TypeOK, syscall_return, Runs, Goto, init_main, table
<1>6. InitLives'
  BY Constants DEF InitLives, Trouble, Alive, IInv, TypeOK, syscall_return, Runs, Goto, init_main, table
<1>7. WaitJustified'
  BY Constants DEF WaitJustified, IInv, TypeOK, syscall_return, Runs, Goto, init_main, table
<1> QED BY <1>1, <1>3, <1>4, <1>5, <1>6, <1>7 DEF IInv

\* A killed process is interrupted.
LEMMA TimerIInv ==
  ASSUME IInv, NEW p \in Slot, timer(p)
  PROVE  IInv'
<1>1. TypeOK'
  BY Constants DEF IInv, TypeOK, InFork, timer, Runs, Goto, table
<1>2. SameForks
  BY DEF SameForks, Forking, Alive, InFork, IInv, TypeOK, timer, Runs, Goto, table
<1>3. ForkOwns' /\ OneFork'
  BY <1>2, SameForksInv DEF IInv
<1>4. PidsBelow' /\ UniquePids' /\ MemoryOwned'
  BY DEF PidsBelow, UniquePids, MemoryOwned, Alive, IInv, TypeOK, timer, Runs, Goto, table
<1>5. Parents' /\ ForkReturn'
  BY Constants DEF Parents, ForkReturn, Alive, IInv, TypeOK, timer, Runs, Goto, table
<1>6. InitLives'
  BY Constants DEF InitLives, Trouble, Alive, IInv, TypeOK, timer, Runs, Goto, table
<1>7. WaitJustified'
  BY Constants DEF WaitJustified, IInv, TypeOK, timer, Runs, Goto, table
<1> QED BY <1>1, <1>3, <1>4, <1>5, <1>6, <1>7 DEF IInv

\* A process faults.
LEMMA FaultIInv ==
  ASSUME IInv, NEW p \in Slot, fault(p)
  PROVE  IInv'
<1>1. TypeOK'
  BY Constants DEF IInv, TypeOK, InFork, fault, Runs, Goto, table
<1>2. SameForks
  BY DEF SameForks, Forking, Alive, InFork, IInv, TypeOK, fault, Runs, Goto, table
<1>3. ForkOwns' /\ OneFork'
  BY <1>2, SameForksInv DEF IInv
<1>4. PidsBelow' /\ UniquePids' /\ MemoryOwned'
  BY DEF PidsBelow, UniquePids, MemoryOwned, Alive, IInv, TypeOK, fault, Runs, Goto, table
<1>5. Parents' /\ ForkReturn'
  BY Constants DEF Parents, ForkReturn, Alive, IInv, TypeOK, fault, Runs, Goto, table
<1>6. InitLives'
  BY Constants DEF InitLives, Trouble, Alive, IInv, TypeOK, fault, Runs, Goto, table
<1>7. WaitJustified'
  BY Constants DEF WaitJustified, IInv, TypeOK, fault, Runs, Goto, table
<1> QED BY <1>1, <1>3, <1>4, <1>5, <1>6, <1>7 DEF IInv

\* exit begins; init panics there.
LEMMA ExitIInv ==
  ASSUME IInv, NEW p \in Slot, exit(p)
  PROVE  IInv'
<1>1. TypeOK'
  BY Constants DEF IInv, TypeOK, InFork, exit, Runs, Goto, table
<1>2. SameForks
  BY DEF SameForks, Forking, Alive, InFork, IInv, TypeOK, exit, Runs, Goto, table
<1>3. ForkOwns' /\ OneFork'
  BY <1>2, SameForksInv DEF IInv
<1>4. PidsBelow' /\ UniquePids' /\ MemoryOwned'
  BY DEF PidsBelow, UniquePids, MemoryOwned, Alive, IInv, TypeOK, exit, Runs, Goto, table
<1>5. Parents' /\ ForkReturn'
  BY Constants DEF Parents, ForkReturn, Alive, IInv, TypeOK, exit, Runs, Goto, table
<1>6. InitLives'
  BY Constants DEF InitLives, Trouble, Alive, IInv, TypeOK, exit, Runs, Goto, table
<1>7. WaitJustified'
  BY Constants DEF WaitJustified, IInv, TypeOK, exit, Runs, Goto, table
<1> QED BY <1>1, <1>3, <1>4, <1>5, <1>6, <1>7 DEF IInv

\* The loop of sys_sleep.
LEMMA SysSleepIInv ==
  ASSUME IInv, NEW p \in Slot, sys_sleep(p)
  PROVE  IInv'
<1>1. TypeOK'
  BY Constants DEF IInv, TypeOK, InFork, sys_sleep, Runs, Goto, Return
<1>2. SameForks
  BY DEF SameForks, Forking, Alive, InFork, IInv, TypeOK, sys_sleep, Runs, Goto, Return
<1>3. ForkOwns' /\ OneFork'
  BY <1>2, SameForksInv DEF IInv
<1>4. PidsBelow' /\ UniquePids' /\ MemoryOwned'
  BY DEF PidsBelow, UniquePids, MemoryOwned, Alive, IInv, TypeOK, sys_sleep, Runs, Goto, Return
<1>5. Parents' /\ ForkReturn'
  BY Constants DEF Parents, ForkReturn, Alive, IInv, TypeOK, sys_sleep, Runs, Goto, Return
<1>6. InitLives'
  BY Constants DEF InitLives, Trouble, Alive, IInv, TypeOK, sys_sleep, Runs, Goto, Return
<1>7. WaitJustified'
  BY Constants DEF WaitJustified, IInv, TypeOK, sys_sleep, Runs, Goto, Return
<1> QED BY <1>1, <1>3, <1>4, <1>5, <1>6, <1>7 DEF IInv

\* sleep on &ticks.
LEMMA SleepIInv ==
  ASSUME IInv, NEW p \in Slot, sleep(p)
  PROVE  IInv'
<1>1. TypeOK'
  BY Constants DEF IInv, TypeOK, InFork, sleep, Runs, Goto
<1>2. SameForks
  BY DEF SameForks, Forking, Alive, InFork, IInv, TypeOK, sleep, Runs, Goto
<1>3. ForkOwns' /\ OneFork'
  BY <1>2, SameForksInv DEF IInv
<1>4. PidsBelow' /\ UniquePids' /\ MemoryOwned'
  BY DEF PidsBelow, UniquePids, MemoryOwned, Alive, IInv, TypeOK, sleep, Runs, Goto
<1>5. Parents' /\ ForkReturn'
  BY Constants DEF Parents, ForkReturn, Alive, IInv, TypeOK, sleep, Runs, Goto
<1>6. InitLives'
  BY Constants DEF InitLives, Trouble, Alive, IInv, TypeOK, sleep, Runs, Goto
<1>7. WaitJustified'
  BY Constants DEF WaitJustified, IInv, TypeOK, sleep, Runs, Goto
<1> QED BY <1>1, <1>3, <1>4, <1>5, <1>6, <1>7 DEF IInv

\* allocproc takes the first free slot, with a pid no slot has.
LEMMA AllocprocIInv ==
  ASSUME IInv, NEW p \in Slot, allocproc(p)
  PROVE  IInv'
<1> DEFINE free == {q \in Slot : state[q] = "UNUSED"}
<1>1. CASE free = {}
  <2>1. /\ pc' = [pc EXCEPT ![p] = "return"] /\ ret' = [ret EXCEPT ![p] = -1]
        /\ UNCHANGED <<table, nextpid, np, shpid, panicked>>
    BY <1>1 DEF allocproc, Return, Goto, table
  <2>2. Runs(p, "fork")
    BY DEF allocproc
  <2>3. SameForks
    BY <2>1, <2>2 DEF SameForks, Forking, InFork, Runs, IInv, TypeOK, table
  <2>4. ForkOwns' /\ OneFork'
    BY <2>3, SameForksInv DEF IInv
  <2>5. TypeOK' /\ PidsBelow' /\ UniquePids' /\ MemoryOwned'
    BY <2>1 DEF IInv, TypeOK, PidsBelow, UniquePids, MemoryOwned, table
  <2>6. Parents' /\ ForkReturn' /\ InitLives' /\ WaitJustified'
    BY <2>1, <2>2, Constants DEF IInv, TypeOK, Parents, ForkReturn, InitLives, Trouble,
                                 WaitJustified, Runs, table
  <2> QED BY <2>4, <2>5, <2>6 DEF IInv
<1>2. CASE free # {}
  <2> DEFINE q == Min(free)
  <2>1. q \in Slot /\ state[q] = "UNUSED"
    BY <1>2, MinIn
  <2>2. /\ state' = [state EXCEPT ![q] = "EMBRYO"] /\ pid' = [pid EXCEPT ![q] = nextpid]
        /\ nextpid' = nextpid + 1 /\ np' = [np EXCEPT ![p] = q]
        /\ pc' = [pc EXCEPT ![p] = "kalloc"]
        /\ UNCHANGED <<ret, parent, killed, chan, kstack, pgdir, shpid, panicked>>
    BY <1>2 DEF allocproc, Goto
  <2>3. state[p] = "RUNNABLE" /\ pc[p] = "fork" /\ panicked = 0
    BY DEF allocproc, Runs
  <2> HIDE DEF q
  <2>4. TypeOK' /\ PidsBelow' /\ UniquePids' /\ MemoryOwned'
    BY <2>1, <2>2, <2>3 DEF IInv, TypeOK, PidsBelow, UniquePids, MemoryOwned, InFork, Alive
  <2>5. \A x \in Slot : (Forking(x)' <=> Forking(x) \/ x = p) /\ ~Forking(p)
    BY <2>1, <2>2, <2>3 DEF Forking, IInv, TypeOK, InFork, Alive
  <2>6. ForkOwns'
    BY <2>1, <2>2, <2>3, <2>5 DEF ForkOwns, IInv, TypeOK, MemoryOwned, Parents
  <2>7. \A x \in Slot : Forking(x) => np[x] # q
    BY <2>1 DEF IInv, ForkOwns
  <2>8. \A x, y \in Slot : Forking(x)' /\ Forking(y)' /\ np'[x] = np'[y] => x = y
    BY <2>2, <2>5, <2>7 DEF IInv, TypeOK, OneFork
  <2>9. \A z \in Slot : state'[z] = "EMBRYO" => \E x \in Slot : Forking(x)' /\ np'[x] = z
    BY <2>1, <2>2, <2>5 DEF IInv, TypeOK, OneFork
  <2>10. Parents' /\ ForkReturn' /\ InitLives' /\ WaitJustified'
    BY <2>1, <2>2, <2>3, Constants DEF IInv, TypeOK, Parents, ForkReturn, InitLives, Trouble,
                                       WaitJustified, Alive
  <2> QED BY <2>4, <2>6, <2>8, <2>9, <2>10 DEF IInv, OneFork
<1> QED BY <1>1, <1>2

\* A fork that fails gives back its slot, with neither stack nor page directory.
LEMMA ForkFailsIInv ==
  ASSUME IInv, NEW p \in Slot, Forking(p), panicked = 0, state[p] = "RUNNABLE",
         pc[p] # "run",
         kstack' = [kstack EXCEPT ![np[p]] = 0],
         state' = [state EXCEPT ![np[p]] = "UNUSED"],
         pgdir' = [pgdir EXCEPT ![np[p]] = 0] \/ (pgdir' = pgdir /\ pc[p] = "kalloc"),
         pc' = [pc EXCEPT ![p] = "return"], ret' = [ret EXCEPT ![p] = -1],
         UNCHANGED <<pid, parent, killed, chan, nextpid, np, shpid, panicked>>
  PROVE  IInv'
<1> DEFINE q == np[p]
<1>1. q \in Slot /\ state[q] = "EMBRYO" /\ parent[q] = None /\ q # p
  BY DEF IInv, ForkOwns
<1>2. pgdir' \in [Slot -> {0, 1, 2}] /\ pgdir'[q] # 1 /\ \A x \in Slot \ {q} : pgdir'[x] = pgdir[x]
  BY <1>1 DEF IInv, TypeOK, ForkOwns
<1> HIDE DEF q
<1>3. /\ state' = [state EXCEPT ![q] = "UNUSED"] /\ kstack' = [kstack EXCEPT ![q] = 0]
      /\ np[p] = q
  BY DEF q
<1>4. TypeOK'
  BY <1>1, <1>2, <1>3 DEF IInv, TypeOK
<1>5. PidsBelow' /\ UniquePids' /\ MemoryOwned'
  BY <1>1, <1>2, <1>3 DEF IInv, TypeOK, PidsBelow, UniquePids, MemoryOwned, Alive
<1>6. \A x \in Slot : Forking(x)' <=> Forking(x) /\ x # p
  BY <1>1, <1>3 DEF Forking, IInv, TypeOK, InFork, Alive
<1>7. \A x \in Slot : Forking(x) /\ x # p => np[x] # q
  BY <1>3 DEF IInv, OneFork
<1>8. ForkOwns'
  BY <1>1, <1>2, <1>3, <1>6, <1>7 DEF ForkOwns, IInv, TypeOK
<1>9. OneFork'
  BY <1>1, <1>3, <1>6 DEF OneFork, IInv, TypeOK
<1>10. Parents' /\ ForkReturn' /\ InitLives' /\ WaitJustified'
  BY <1>1, <1>3, Constants DEF IInv, TypeOK, Parents, ForkReturn, InitLives, Trouble,
                               WaitJustified, Alive
<1> QED BY <1>4, <1>5, <1>8, <1>9, <1>10 DEF IInv

\* A fork that goes on: it has its stack, or its address space and parent.
LEMMA ForkGoesOnIInv ==
  ASSUME IInv, NEW p \in Slot, Forking(p), panicked = 0,
         \/ /\ pc[p] = "kalloc" /\ pc' = [pc EXCEPT ![p] = "copyuvm"]
            /\ kstack' = [kstack EXCEPT ![np[p]] = 1] /\ UNCHANGED <<pgdir, parent, ret>>
         \/ /\ pc[p] = "copyuvm" /\ pc' = [pc EXCEPT ![p] = "run"]
            /\ pgdir' = [pgdir EXCEPT ![np[p]] = 1] /\ parent' = [parent EXCEPT ![np[p]] = p]
            /\ ret' = [ret EXCEPT ![p] = pid[np[p]]] /\ UNCHANGED kstack,
         UNCHANGED <<state, pid, killed, chan, nextpid, np, shpid, panicked>>
  PROVE  IInv'
<1>1. np[p] \in Slot /\ state[np[p]] = "EMBRYO" /\ parent[np[p]] = None /\ np[p] # p
  BY DEF IInv, ForkOwns, Forking, Alive
<1>2. TypeOK'
  BY <1>1 DEF IInv, TypeOK, InFork
<1>3. PidsBelow' /\ UniquePids' /\ MemoryOwned'
  BY <1>1 DEF IInv, TypeOK, PidsBelow, UniquePids, MemoryOwned, Alive
<1>4. \A x \in Slot : Forking(x)' <=> Forking(x)
  BY DEF Forking, IInv, TypeOK, InFork
<1>5. OneFork'
  BY <1>4 DEF OneFork, IInv
<1>6. \A x \in Slot : Forking(x) /\ x # p => np[x] # np[p]
  BY DEF IInv, OneFork
<1>7. ForkOwns'
  BY <1>1, <1>4, <1>6 DEF ForkOwns, IInv, TypeOK
<1>8. Parents'
  BY <1>1, Constants DEF IInv, TypeOK, Parents, Alive
<1>9. ForkReturn'
  <2>1. \A x \in Slot : pc'[x] \in {"wait", "return"} => x # p /\ pc'[x] = pc[x] /\ ret'[x] = ret[x]
    BY DEF IInv, TypeOK
  <2>2. \A y \in Slot : parent[y] # None => parent'[y] = parent[y]
    BY <1>1 DEF IInv, TypeOK
  <2> SUFFICES ASSUME NEW x \in Slot, state'[x] \in Alive, pc'[x] \in {"wait", "return"}
               PROVE  /\ pc'[x] = "wait" => np'[x] = None
                      /\ pc'[x] = "return" /\ np'[x] # None /\ ret'[x] > 0 =>
                           pid'[np'[x]] = ret'[x] /\ parent'[np'[x]] = x
    BY DEF ForkReturn
  <2>3. x # p /\ pc'[x] = pc[x] /\ ret'[x] = ret[x] /\ np'[x] = np[x] /\ state[x] \in Alive
    BY <2>1
  <2>4. np[x] # None => np[x] \in Slot
    BY DEF IInv, TypeOK
  <2> QED BY <2>2, <2>3, <2>4, Constants DEF IInv, ForkReturn
<1>10. InitLives'
  BY <1>1, Constants DEF IInv, TypeOK, InitLives, Trouble
<1>11. WaitJustified'
  BY <1>1, Constants DEF IInv, TypeOK, WaitJustified
<1> QED BY <1>2, <1>3, <1>5, <1>7, <1>8, <1>9, <1>10, <1>11 DEF IInv

\* The two steps of fork outside the lock.
LEMMA ForkStepIInv ==
  ASSUME IInv, NEW p \in Slot, allocproc_kstack(p) \/ fork_copyuvm(p)
  PROVE  IInv'
<1>1. Forking(p) /\ panicked = 0 /\ state[p] = "RUNNABLE"
  BY DEF allocproc_kstack, fork_copyuvm, Runs, Forking, Alive, InFork
<1>2. CASE allocproc_kstack(p)
  BY <1>1, <1>2, ForkGoesOnIInv, ForkFailsIInv DEF allocproc_kstack, Runs, Return, Goto
<1>3. CASE fork_copyuvm(p)
  BY <1>1, <1>3, ForkGoesOnIInv, ForkFailsIInv DEF fork_copyuvm, Runs, Return, Goto
<1> QED BY <1>2, <1>3

\* The child becomes a process.
LEMMA ForkRunIInv ==
  ASSUME IInv, NEW p \in Slot, fork_run(p)
  PROVE  IInv'
<1> DEFINE q == np[p]
<1>1. Forking(p) /\ state[p] = "RUNNABLE" /\ pc[p] = "run" /\ panicked = 0
  BY DEF fork_run, Runs, Forking, Alive, InFork
<1>2. /\ q \in Slot /\ state[q] = "EMBRYO" /\ q # p
      /\ kstack[q] = 1 /\ pgdir[q] = 1 /\ parent[q] = p /\ ret[p] = pid[q]
  BY <1>1 DEF IInv, ForkOwns
<1>3. /\ state' = [state EXCEPT ![q] = "RUNNABLE"]
      /\ pc' = [pc EXCEPT ![p] = "return", ![q] = "user"]
      /\ ret' = [ret EXCEPT ![q] = 0] /\ np' = [np EXCEPT ![q] = None]
      /\ UNCHANGED <<pid, parent, killed, chan, kstack, pgdir, nextpid, shpid, panicked>>
  BY DEF fork_run
<1>4. np[p] = q
  OBVIOUS
<1> HIDE DEF q
<1>5. TypeOK' /\ PidsBelow' /\ UniquePids' /\ MemoryOwned'
  BY <1>2, <1>3 DEF IInv, TypeOK, PidsBelow, UniquePids, MemoryOwned, Alive
<1>6. \A x \in Slot : (Forking(x)' <=> Forking(x) /\ x # p) /\ ~Forking(q)
  BY <1>1, <1>2, <1>3 DEF Forking, IInv, TypeOK, InFork, Alive
<1>7. \A x \in Slot : Forking(x) /\ x # p => np[x] # q /\ x # q
  BY <1>1, <1>4, <1>6 DEF IInv, OneFork
<1>8. ForkOwns'
  BY <1>2, <1>3, <1>6, <1>7 DEF ForkOwns, IInv, TypeOK
<1>9. OneFork'
  BY <1>2, <1>3, <1>4, <1>6, <1>7 DEF OneFork, IInv, TypeOK
<1>10. Parents' /\ ForkReturn'
  BY <1>1, <1>2, <1>3, <1>4, Constants DEF IInv, TypeOK, Parents, ForkReturn, Alive
<1>11. InitLives' /\ WaitJustified'
  BY <1>1, <1>2, <1>3, Constants DEF IInv, TypeOK, InitLives, Trouble, WaitJustified, Alive
<1> QED BY <1>5, <1>8, <1>9, <1>10, <1>11 DEF IInv

\* exit's critical section: the children go to init, which is woken for zombies.
LEMMA ExitZombieIInv ==
  ASSUME IInv, NEW p \in Slot, exit_zombie(p)
  PROVE  IInv'
<1> DEFINE woken == {parent[p]} \cup IF ZombieChildren(p) # {} THEN {initproc} ELSE {}
<1>1. state[p] = "RUNNABLE" /\ pc[p] = "exiting" /\ panicked = 0 /\ p # initproc
  BY DEF exit_zombie, Runs, IInv, InitLives
<1>2. state' = [x \in Slot |-> IF x = p THEN "ZOMBIE"
                               ELSE IF state[x] = "SLEEPING" /\ chan[x] \in woken
                                 THEN "RUNNABLE" ELSE state[x]]
  BY DEF exit_zombie, Woken
<1>3. parent' = [x \in Slot |-> IF parent[x] = p THEN initproc ELSE parent[x]]
  BY DEF exit_zombie, Children
<1>4. /\ pc' = [pc EXCEPT ![p] = "user"] /\ np' = [np EXCEPT ![p] = None]
      /\ ret' = [ret EXCEPT ![p] = 0]
      /\ UNCHANGED <<pid, killed, chan, kstack, pgdir, nextpid, shpid, panicked>>
  BY DEF exit_zombie, Dead, Goto
<1>5. (\E x \in Slot : parent[x] = p /\ state[x] = "ZOMBIE") => initproc \in woken
  BY DEF ZombieChildren, Children
<1>6. parent[p] \in woken
  OBVIOUS
<1> HIDE DEF woken
<1>7. TypeOK'
  BY <1>2, <1>3, <1>4, Constants DEF IInv, TypeOK
<1>8. PidsBelow' /\ UniquePids' /\ MemoryOwned'
  BY <1>1, <1>2, <1>4 DEF IInv, TypeOK, PidsBelow, UniquePids, MemoryOwned, Alive
<1>9. \A x \in Slot : state[x] = "EMBRYO" => parent[x] # p
  BY <1>1, Constants DEF IInv, ForkOwns, OneFork, Forking, InFork
<1>10. SameForks
  BY <1>1, <1>2, <1>3, <1>4, <1>9 DEF SameForks, Forking, Alive, InFork, IInv, TypeOK
<1>11. ForkOwns' /\ OneFork'
  BY <1>10, SameForksInv DEF IInv
<1>12. Parents'
  BY <1>1, <1>2, <1>3, Constants DEF IInv, TypeOK, Parents, InitLives, Alive
<1>13. ForkReturn' /\ InitLives'
  BY <1>1, <1>2, <1>3, <1>4, Constants DEF IInv, TypeOK, ForkReturn, InitLives, Trouble, Alive
<1>14. WaitJustified'
  <2> SUFFICES ASSUME NEW x \in Slot, state'[x] = "SLEEPING", chan'[x] = x
               PROVE  /\ killed'[x] = 0
                      /\ \E y \in Slot : parent'[y] = x
                      /\ \A y \in Slot : parent'[y] = x => state'[y] # "ZOMBIE"
    BY DEF WaitJustified
  <2>1. state[x] = "SLEEPING" /\ chan[x] = x /\ x # p /\ x \notin woken
    BY <1>2, <1>4
  <2>2. killed'[x] = 0
    BY <1>4, <2>1 DEF IInv, WaitJustified
  <2>3. \E y \in Slot : parent'[y] = x
    BY <1>3, <2>1 DEF IInv, WaitJustified
  <2>4. ASSUME NEW y \in Slot, parent'[y] = x PROVE state'[y] # "ZOMBIE"
    <3>1. y # p
      BY <1>1, <1>3, <1>6, <2>1, <2>4, Constants DEF IInv, Parents, Alive
    <3>2. state[y] # "ZOMBIE"
      BY <1>3, <1>5, <2>1, <2>4 DEF IInv, WaitJustified
    <3> QED BY <1>2, <3>1, <3>2
  <2> QED BY <2>2, <2>3, <2>4
<1> QED BY <1>7, <1>8, <1>11, <1>12, <1>13, <1>14 DEF IInv

\* wait frees a zombie child.
LEMMA ReapIInv ==
  ASSUME IInv, NEW p \in Slot, Runs(p, "wait"), NEW q \in Slot,
         parent[q] = p, state[q] = "ZOMBIE", Reap(p, q),
         UNCHANGED <<nextpid, np, shpid, panicked>>
  PROVE  IInv'
<1>1. state[p] = "RUNNABLE" /\ pc[p] = "wait" /\ panicked = 0 /\ np[p] = None /\ q # initproc
  BY DEF Runs, IInv, ForkReturn, InitLives, Alive
<1>2. /\ state' = [state EXCEPT ![q] = "UNUSED"] /\ kstack' = [kstack EXCEPT ![q] = 0]
      /\ pgdir' = [pgdir EXCEPT ![q] = 2] /\ pid' = [pid EXCEPT ![q] = 0]
      /\ parent' = [parent EXCEPT ![q] = None] /\ killed' = [killed EXCEPT ![q] = 0]
      /\ chan' = [chan EXCEPT ![p] = 0] /\ pc' = [pc EXCEPT ![p] = "return"]
      /\ ret' = [ret EXCEPT ![p] = pid[q]]
  BY DEF Reap, Return, Goto
<1>3. TypeOK'
  BY <1>2, Constants DEF IInv, TypeOK
<1>4. PidsBelow' /\ UniquePids' /\ MemoryOwned'
  BY <1>2 DEF IInv, TypeOK, PidsBelow, UniquePids, MemoryOwned, Alive
<1>5. SameForks
  BY <1>1, <1>2 DEF SameForks, Forking, Alive, InFork, IInv, TypeOK
<1>6. ForkOwns' /\ OneFork'
  BY <1>5, SameForksInv DEF IInv
<1>7. Parents'
  BY <1>1, <1>2, Constants DEF IInv, TypeOK, Parents, Alive
<1>8. ForkReturn'
  BY <1>1, <1>2, Constants DEF IInv, TypeOK, ForkReturn, Alive
<1>9. InitLives'
  BY <1>1, <1>2, Constants DEF IInv, TypeOK, InitLives, Trouble, Alive
<1>10. WaitJustified'
  BY <1>1, <1>2, Constants DEF IInv, TypeOK, WaitJustified
<1> QED BY <1>3, <1>4, <1>6, <1>7, <1>8, <1>9, <1>10 DEF IInv

\* wait returns, sleeps or frees a zombie.
LEMMA WaitIInv ==
  ASSUME IInv, NEW p \in Slot, wait(p)
  PROVE  IInv'
<1>1. CASE ZombieChildren(p) # {}
  <2> DEFINE q == Min(ZombieChildren(p))
  <2>1. q \in Slot /\ parent[q] = p /\ state[q] = "ZOMBIE"
    BY <1>1, MinIn DEF ZombieChildren, Children
  <2>2. Runs(p, "wait") /\ Reap(p, q) /\ UNCHANGED <<nextpid, np, shpid, panicked>>
    BY <1>1 DEF wait
  <2> HIDE DEF q
  <2> QED BY <2>1, <2>2, ReapIInv
<1>2. CASE ZombieChildren(p) = {}
  <2>1. state[p] = "RUNNABLE" /\ pc[p] = "wait" /\ panicked = 0 /\ np[p] = None
    BY DEF wait, Runs, IInv, ForkReturn, Alive
  <2>2. /\ UNCHANGED <<pid, parent, killed, kstack, pgdir, nextpid, np, shpid, panicked>>
        /\ \/ /\ pc' = [pc EXCEPT ![p] = "return"] /\ ret' = [ret EXCEPT ![p] = -1]
              /\ chan' = [chan EXCEPT ![p] = 0] /\ UNCHANGED state
           \/ /\ state' = [state EXCEPT ![p] = "SLEEPING"] /\ chan' = [chan EXCEPT ![p] = p]
              /\ UNCHANGED <<pc, ret>>
              /\ Children(p) # {} /\ killed[p] # 1
    BY <1>2 DEF wait, Return, Goto
  <2>3. \A y \in Slot : parent[y] = p => state[y] # "ZOMBIE"
    BY <1>2 DEF ZombieChildren, Children
  <2>4. TypeOK' /\ PidsBelow' /\ UniquePids' /\ MemoryOwned'
    BY <2>1, <2>2, Constants DEF IInv, TypeOK, PidsBelow, UniquePids, MemoryOwned, Alive
  <2>5. SameForks
    BY <2>1, <2>2 DEF SameForks, Forking, Alive, InFork, IInv, TypeOK
  <2>6. ForkOwns' /\ OneFork'
    BY <2>5, SameForksInv DEF IInv
  <2>7. Parents'
    BY <2>1, <2>2 DEF IInv, TypeOK, Parents, Alive
  <2>8. InitLives'
    BY <2>1, <2>2, Constants DEF IInv, TypeOK, InitLives, Trouble, Alive
  <2>9. ForkReturn'
    BY <2>1, <2>2 DEF IInv, TypeOK, ForkReturn, Alive
  <2>10. Children(p) # {} => \E y \in Slot : parent[y] = p
    BY DEF Children
  <2>11. WaitJustified'
    BY <2>1, <2>2, <2>3, <2>10, Constants DEF IInv, TypeOK, WaitJustified
  <2> QED BY <2>4, <2>6, <2>7, <2>8, <2>9, <2>11 DEF IInv
<1> QED BY <1>1, <1>2

\* kill marks the first slot with the pid, in use or not, and wakes its process.
LEMMA KillIInv ==
  ASSUME IInv, NEW p \in Slot, kill(p)
  PROVE  IInv'
<1>1. state[p] = "RUNNABLE" /\ pc[p] = "kill" /\ panicked = 0
  BY DEF kill, Runs
<1>2. PICK k \in 0..(nextpid - 1) : LET match == {q \in Slot : pid[q] = k} IN
        IF match = {}
          THEN Return(p, -1) /\ UNCHANGED <<killed, state>>
          ELSE LET q == Min(match) IN
                 /\ killed' = [killed EXCEPT ![q] = 1]
                 /\ state' = IF state[q] = "SLEEPING" THEN [state EXCEPT ![q] = "RUNNABLE"] ELSE state
                 /\ Return(p, 0)
  BY DEF kill
<1>3. UNCHANGED <<pid, parent, chan, kstack, pgdir, nextpid, np, shpid, panicked>>
  BY DEF kill
<1>4. /\ pc' = [pc EXCEPT ![p] = "return"]
      /\ \E v \in {0, -1} : ret' = [ret EXCEPT ![p] = v]
  BY <1>2 DEF Return, Goto
<1>5. \/ UNCHANGED <<killed, state>>
      \/ \E q \in Slot : /\ killed' = [killed EXCEPT ![q] = 1]
                         /\ state' = IF state[q] = "SLEEPING" THEN [state EXCEPT ![q] = "RUNNABLE"]
                                     ELSE state
  BY <1>2, MinIn
<1>6. /\ killed' \in [Slot -> {0, 1}] /\ \A x \in Slot : killed[x] = 1 => killed'[x] = 1
      /\ state' \in [Slot -> {"UNUSED", "EMBRYO", "SLEEPING", "RUNNABLE", "ZOMBIE"}]
      /\ \A x \in Slot : \/ state'[x] = state[x] /\ (state[x] = "SLEEPING" => killed'[x] = killed[x])
                         \/ state[x] = "SLEEPING" /\ state'[x] = "RUNNABLE"
  BY <1>5 DEF IInv, TypeOK
<1>7. TypeOK'
  <2>1. pc' \in [Slot -> {"user", "fork", "wait", "kill", "sleep", "block", "return",
                          "exit", "exiting"} \cup InFork]
    BY <1>4 DEF IInv, TypeOK
  <2>2. ret' \in [Slot -> Nat \cup {-1}]
    BY <1>4 DEF IInv, TypeOK
  <2> QED BY <1>3, <1>6, <2>1, <2>2 DEF IInv, TypeOK
<1>8. PidsBelow' /\ UniquePids' /\ MemoryOwned'
  BY <1>3, <1>6 DEF IInv, PidsBelow, UniquePids, MemoryOwned, Alive
<1>9. SameForks
  BY <1>1, <1>3, <1>4, <1>6 DEF SameForks, Forking, Alive, InFork, IInv, TypeOK
<1>10. ForkOwns' /\ OneFork'
  BY <1>9, SameForksInv DEF IInv
<1>11. Parents'
  BY <1>3, <1>6 DEF IInv, Parents, Alive
<1>12. ForkReturn'
  BY <1>1, <1>3, <1>4, <1>6 DEF IInv, TypeOK, ForkReturn, Alive
<1>13. InitLives'
  BY <1>1, <1>3, <1>4, <1>6, Constants DEF IInv, TypeOK, InitLives, Trouble, Alive
<1>14. WaitJustified'
  BY <1>3, <1>6 DEF IInv, WaitJustified
<1> QED BY <1>7, <1>8, <1>10, <1>11, <1>12, <1>13, <1>14 DEF IInv

\* The clock wakes the processes that sleep on it, and nobody in wait.
LEMMA TickIInv ==
  ASSUME IInv, tick
  PROVE  IInv'
<1>1. \A x \in Slot : \/ state'[x] = state[x]
                      \/ state[x] = "SLEEPING" /\ state'[x] = "RUNNABLE"
  BY DEF tick, Woken
<1>2. UNCHANGED <<pid, parent, killed, chan, kstack, pgdir, nextpid, pc, np, ret, shpid, panicked>>
  BY DEF tick
<1>3. TypeOK'
  BY <1>2 DEF tick, Woken, IInv, TypeOK
<1>4. PidsBelow' /\ UniquePids' /\ MemoryOwned'
  BY <1>1, <1>2 DEF IInv, PidsBelow, UniquePids, MemoryOwned, Alive
<1>5. SameForks
  BY <1>1, <1>2 DEF SameForks, Forking, Alive, IInv, TypeOK
<1>6. ForkOwns' /\ OneFork'
  BY <1>5, SameForksInv DEF IInv
<1>7. Parents' /\ ForkReturn'
  BY <1>1, <1>2 DEF IInv, Parents, ForkReturn, Alive
<1>8. InitLives' /\ WaitJustified'
  BY <1>1, <1>2, Constants DEF IInv, InitLives, Trouble, WaitJustified, Alive
<1> QED BY <1>3, <1>4, <1>6, <1>7, <1>8 DEF IInv

\* Nothing changes.
LEMMA StutterIInv == IInv /\ UNCHANGED vars => IInv'
BY DEF IInv, vars, TypeOK, PidsBelow, UniquePids, MemoryOwned, ForkOwns, OneFork, Forking,
       Parents, ForkReturn, InitLives, Trouble, WaitJustified

-----------------------------------------------------------------------------
\* The inductive invariant holds in every reachable state of the process table.
THEOREM ProcIInv == Spec => []IInv
<1>1. IInv /\ [Next]_vars => IInv'
  <2> SUFFICES ASSUME IInv, [Next]_vars PROVE IInv'
    OBVIOUS
  <2>1. ASSUME NEW p \in Slot, syscall(p) \/ syscall_return(p) \/ timer(p) \/ fault(p) PROVE IInv'
    BY <2>1, SyscallIInv, ReturnIInv, TimerIInv, FaultIInv
  <2>2. ASSUME NEW p \in Slot, allocproc(p) \/ allocproc_kstack(p) \/ fork_copyuvm(p) \/ fork_run(p)
        PROVE  IInv'
    BY <2>2, AllocprocIInv, ForkStepIInv, ForkRunIInv
  <2>3. ASSUME NEW p \in Slot, exit(p) \/ exit_zombie(p) \/ wait(p) \/ kill(p) PROVE IInv'
    BY <2>3, ExitIInv, ExitZombieIInv, WaitIInv, KillIInv
  <2>4. ASSUME NEW p \in Slot, sys_sleep(p) \/ sleep(p) PROVE IInv'
    BY <2>4, SysSleepIInv, SleepIInv
  <2>5. CASE tick
    BY <2>5, TickIInv
  <2>6. CASE panic_loop \/ UNCHANGED vars
    BY <2>6, StutterIInv DEF panic_loop
  <2> QED BY <2>1, <2>2, <2>3, <2>4, <2>5, <2>6 DEF Next, Kernel
<1> QED BY <1>1, InitIInv, PTL DEF Spec

\* Process identities in a table of any size: unique pids, a live parent for
\* every process, one fork for every slot in the making, fork's result naming a
\* child that is still there, and a panic in exit only through init's trouble.
THEOREM ProcIdentities == Spec => []Inv
<1>1. ASSUME IInv PROVE ParentLives
  <2>1. ASSUME NEW q \in Slot \ {initproc}, state[q] = "EMBRYO"
        PROVE  Cardinality({p \in Slot : state[p] \in Alive /\ pc[p] \in InFork /\ np[p] = q}) = 1
    <3> DEFINE F == {p \in Slot : state[p] \in Alive /\ pc[p] \in InFork /\ np[p] = q}
    <3>1. PICK p \in Slot : Forking(p) /\ np[p] = q
      BY <1>1, <2>1 DEF IInv, OneFork
    <3>2. F = {p}
      BY <1>1, <3>1 DEF IInv, OneFork, Forking
    <3> QED BY <3>2, FS_Singleton
  <2>2. ASSUME NEW q \in Slot \ {initproc}, state[q] \in Alive \cup {"ZOMBIE"}
        PROVE  parent[q] # None /\ state[parent[q]] \in Alive
    BY <1>1, <2>2, Constants DEF IInv, Parents
  <2> QED BY <2>1, <2>2 DEF ParentLives
<1>2. ASSUME IInv PROVE ForkReturnsChild
  BY <1>2, Constants DEF IInv, TypeOK, ForkReturn, ForkReturnsChild, Runs, Alive
<1>3. ASSUME IInv PROVE PanicIsInits
  BY <1>3 DEF IInv, InitLives, Trouble, PanicIsInits
<1>4. IInv => Inv
  BY <1>1, <1>2, <1>3 DEF IInv, Inv
<1> QED BY <1>4, ProcIInv, PTL

\* Whatever may run or be reaped owns its stack and page directory and a free
\* slot owns nothing, whichever allocation of fork fails.
THEOREM ProcMemory == Spec => []MemoryOwned
<1>1. IInv => MemoryOwned
  BY DEF IInv
<1> QED BY <1>1, ProcIInv, PTL

\* Nobody sleeps in wait without a child, beside a zombie child, or killed:
\* exit and kill never lose the wakeup of a parent, nor of init when it adopts.
THEOREM ProcWait == Spec => []SleepInWaitIsJustified
<1>1. IInv => SleepInWaitIsJustified
  BY DEF IInv, WaitJustified, SleepInWaitIsJustified, Children, ZombieChildren
<1> QED BY <1>1, ProcIInv, PTL
=============================================================================
