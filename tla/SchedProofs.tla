----------------------------- MODULE SchedProofs -----------------------------
(***************************************************************************)
(* The safety properties of Sched for any CPUs and any size of ptable.      *)
(***************************************************************************)
EXTENDS Sched, TLAPS

\* Where a process holds ptable.lock, and where it holds lk.
InPtable == {"forkret", "sleep_release", "sleep_set", "sched", "resume", "sleep_return", "yield_return"}
InLk == {"test", "sleep", "sleep_release", "wakeup", "produced"}

HasPtable(c) == IF on[c] = Scheduler THEN spc[c] \in {"scan", "swtch"} ELSE pc[on[c]] \in InPtable
HasLk(c) == on[c] # Scheduler /\ pc[on[c]] \in InLk

\* Interrupts were on when p took its first lock, before it called sched().
Preemptible(p) == IF after[p] = "sleep_return" THEN 1 ELSE 0

\* CPU c owns the locks its control point says, and has done a pushcli for each.
LocksOf(c) ==
  /\ ptl = c <=> HasPtable(c)
  /\ lkl = c <=> HasLk(c)
  /\ cpu[c].ncli = (IF HasPtable(c) THEN 1 ELSE 0) + (IF HasLk(c) THEN 1 ELSE 0)
  /\ cpu[c].ncli > 0 => cpu[c].FL_IF = 0

\* What CPU c has, while it executes process p.
Executes(c, p) ==
  /\ spc[c] = "swtch" /\ curproc[c] = p
  /\ state[p] = "RUNNING" <=> pc[p] # "sched"
  /\ pc[p] \in Unlocked => cpu[c].FL_IF = 1
  /\ pc[p] \in {"yield", "iret"} => cpu[c].FL_IF = 0
  /\ pc[p] \in InLk \cup {"sleep_set"} => cpu[c].intena = 1
  /\ pc[p] \in {"sched", "sleep_return", "yield_return"} => cpu[c].intena = Preemptible(p)
  /\ pc[p] \in {"sleep_return", "yield_return"} => pc[p] = after[p]

CpuInv == \A c \in CPU : LocksOf(c) /\ \A p \in Proc : on[c] = p => Executes(c, p)

\* A process that no CPU executes has left through sched(), or is new.
OffCpu ==
  \A p \in Proc : (\A c \in CPU : on[c] # p) => pc[p] \in {"forkret", "resume"} /\ state[p] # "RUNNING"

Saved ==
  \A p \in Proc :
    /\ pc[p] = "resume" => intena[p] = Preemptible(p)
    /\ state[p] = "SLEEPING" => asleep[p] = 1

\* Between its test of the condition and SLEEPING, too, a process is seen by who
\* makes the condition true.
Drowsy == {"sleep", "sleep_release", "sleep_set"}
WakeInv ==
  cond = 1 /\ (\E p \in Proc : state[p] = "SLEEPING" \/ pc[p] \in Drowsy) => \E q \in Proc : pc[q] = "wakeup"

IInv == TypeOK /\ NoPanic /\ OneCpuPerStack /\ CpuInv /\ OffCpu /\ Saved /\ WakeInv

-----------------------------------------------------------------------------
(* What a step of one CPU leaves alone *)

LEMMA Names ==
  /\ Scheduler \notin Proc /\ NoProc \notin Proc /\ NoCpu \notin CPU
  /\ \A p \in Proc : p \in Nat /\ p >= 1
BY SchedAssumption DEF Proc

\* What CPU c owns while it executes p.
LEMMA Owned ==
  ASSUME IInv, NEW c \in CPU, NEW p \in Proc, on[c] = p
  PROVE  /\ ptl = c <=> pc[p] \in InPtable
         /\ lkl = c <=> pc[p] \in InLk
         /\ cpu[c].ncli = (IF pc[p] \in InPtable THEN 1 ELSE 0) + (IF pc[p] \in InLk THEN 1 ELSE 0)
         /\ cpu[c].ncli > 0 => cpu[c].FL_IF = 0
         /\ Executes(c, p)
         /\ cpu[c] \in CpuState
<1>1. p # Scheduler
  BY Names
<1>2. LocksOf(c) /\ Executes(c, p)
  BY DEF IInv, CpuInv
<1>3. QED BY <1>1, <1>2 DEF LocksOf, HasPtable, HasLk, IInv, TypeOK

LEMMA Types ==
  ASSUME IInv
  PROVE  /\ cpu \in [CPU -> CpuState] /\ pc \in [Proc -> PC] /\ after \in [Proc -> {"yield_return", "sleep_return"}]
         /\ state \in [Proc -> {"RUNNABLE", "RUNNING", "SLEEPING"}] /\ asleep \in [Proc -> {0, 1}]
BY DEF IInv, TypeOK

\* What CPU c leaves alone in a step of the process p that it executes.
OnlyOf(c, p) ==
  /\ UNCHANGED sched_vars
  /\ \A d \in CPU : d # c => cpu'[d] = cpu[d] /\ (ptl' = d <=> ptl = d) /\ (lkl' = d <=> lkl = d)
  /\ \A q \in Proc : q # p =>
       pc'[q] = pc[q] /\ after'[q] = after[q] /\ (state'[q] = "RUNNING" <=> state[q] = "RUNNING")

\* It is enough to look at c and p.
LEMMA ThreadStep ==
  ASSUME IInv, NEW c \in CPU, NEW p \in Proc, on[c] = p, OnlyOf(c, p), LocksOf(c)', Executes(c, p)'
  PROVE  OneCpuPerStack' /\ CpuInv' /\ OffCpu'
<1>1. OneCpuPerStack'
  BY DEF OnlyOf, sched_vars, IInv, OneCpuPerStack
<1>2. \A d \in CPU : d # c => on[d] # p
  BY Names DEF IInv, OneCpuPerStack
<1>3. on' = on /\ spc' = spc /\ curproc' = curproc
  BY DEF OnlyOf, sched_vars
<1>4. ASSUME NEW d \in CPU, d # c
      PROVE  LocksOf(d)' /\ \A q \in Proc : on'[d] = q => Executes(d, q)'
  <2>1. on[d] # Scheduler => on[d] \in Proc /\ pc'[on[d]] = pc[on[d]]
    BY <1>2, <1>4 DEF OnlyOf, IInv, TypeOK
  <2>2. LocksOf(d)
    BY DEF IInv, CpuInv
  <2>3. LocksOf(d)'
    BY <1>3, <1>4, <2>1, <2>2 DEF OnlyOf, LocksOf, HasPtable, HasLk
  <2>4. ASSUME NEW q \in Proc, on'[d] = q PROVE Executes(d, q)'
    <3>1. q # p /\ Executes(d, q)
      BY <1>2, <1>3, <1>4, <2>4, Zenon DEF IInv, CpuInv
    <3>2. QED BY <1>3, <1>4, <3>1 DEF OnlyOf, Executes, Preemptible
  <2>5. QED BY <2>3, <2>4
<1>5. CpuInv'
  BY <1>3, <1>4 DEF CpuInv
<1>6. OffCpu'
  BY <1>3 DEF IInv, OffCpu, OnlyOf
<1>7. QED BY <1>1, <1>5, <1>6

\* A step of the scheduler's loop leaves the processes as they are.
LEMMA SchedulerIInv ==
  ASSUME IInv, NEW c \in CPU, on[c] = Scheduler,
         UNCHANGED <<lkl, on, state, asleep, pc, after, back, intena, cond, panicked>>,
         cpu' \in [CPU -> CpuState], curproc' \in [CPU -> Proc \cup {NoProc}],
         spc' \in [CPU -> {"sti", "acquire", "scan", "swtch"}], next' \in [CPU -> 1..(NPROC + 1)],
         \A d \in CPU : d # c => cpu'[d] = cpu[d] /\ spc'[d] = spc[d] /\ curproc'[d] = curproc[d],
         ptl' = ptl \/ {ptl, ptl'} = {c, NoCpu}, LocksOf(c)'
  PROVE  IInv'
<1>1. OneCpuPerStack' /\ OffCpu' /\ Saved' /\ WakeInv'
  BY DEF IInv, OneCpuPerStack, OffCpu, Saved, WakeInv, Preemptible
<1>2. ASSUME NEW d \in CPU, d # c
      PROVE  LocksOf(d)' /\ \A q \in Proc : on'[d] = q => Executes(d, q)'
  <2>1. LocksOf(d) /\ \A q \in Proc : on[d] = q => Executes(d, q)
    BY DEF IInv, CpuInv
  <2>2. ptl' = d <=> ptl = d
    BY <1>2, Names
  <2>3. LocksOf(d)'
    BY <1>2, <2>1, <2>2 DEF LocksOf, HasPtable, HasLk
  <2>4. QED BY <1>2, <2>1, <2>3 DEF Executes, Preemptible
<1>3. \A q \in Proc : on'[c] # q
  BY Names
<1>4. CpuInv'
  BY <1>2, <1>3 DEF CpuInv
<1>5. ptl' \in CPU \cup {NoCpu}
  <2>1. ptl \in CPU \cup {NoCpu}
    BY DEF IInv, TypeOK
  <2>2. ptl' = ptl \/ ptl' \in {c, NoCpu}
    OBVIOUS
  <2>3. QED BY <2>1, <2>2
<1>6. TypeOK' /\ NoPanic'
  BY <1>5, Zenon DEF IInv, TypeOK, NoPanic
<1>7. QED BY <1>1, <1>4, <1>6 DEF IInv

LEMMA SchedulerTypes ==
  ASSUME IInv, NEW c \in CPU
  PROVE  /\ cpu \in [CPU -> CpuState] /\ cpu[c] \in CpuState /\ curproc \in [CPU -> Proc \cup {NoProc}]
         /\ on \in [CPU -> Proc \cup {Scheduler}] /\ spc \in [CPU -> {"sti", "acquire", "scan", "swtch"}]
         /\ next \in [CPU -> 1..(NPROC + 1)] /\ LocksOf(c)
BY DEF IInv, TypeOK, CpuInv

\* A step of p that takes or gives back locks and moves on, and leaves the process
\* table alone.
Free(l, c) == l = NoCpu \/ l = c
Plain(c, p) ==
  /\ UNCHANGED <<curproc, on, spc, next, state, asleep, after, intena, panicked>>
  /\ \E k \in CpuState : cpu' = [cpu EXCEPT ![c] = k]
  /\ \E s \in PC \ {"resume"} : pc' = [pc EXCEPT ![p] = s]
  /\ ptl' = ptl \/ (Free(ptl, c) /\ Free(ptl', c))
  /\ lkl' = lkl \/ (Free(lkl, c) /\ Free(lkl', c))
  /\ back' \in [Proc -> Unlocked] /\ cond' \in {0, 1}

LEMMA PlainIInv ==
  ASSUME IInv, NEW c \in CPU, NEW p \in Proc, on[c] = p, Plain(c, p),
         LocksOf(c)', Executes(c, p)', WakeInv'
  PROVE  IInv'
<1>1. \A d \in CPU : d # c => cpu'[d] = cpu[d]
  BY Types DEF Plain
<1>2. \A q \in Proc : q # p => pc'[q] = pc[q]
  BY Types DEF Plain
<1>3. cpu' \in [CPU -> CpuState] /\ pc' \in [Proc -> PC] /\ pc'[p] # "resume"
  BY Types DEF Plain
<1>4. OnlyOf(c, p)
  BY <1>1, <1>2, Names DEF Plain, Free, OnlyOf, sched_vars
<1>5. OneCpuPerStack' /\ CpuInv' /\ OffCpu'
  BY <1>4, ThreadStep
<1>6. TypeOK' /\ NoPanic'
  BY <1>3 DEF Plain, Free, IInv, TypeOK, NoPanic
<1>7. Saved'
  BY <1>2, <1>3 DEF Plain, IInv, Saved, Preemptible
<1>8. QED BY <1>5, <1>6, <1>7 DEF IInv

\* Who tests the condition is heard of, and nobody who has made it true gives up
\* on wakeup.
LEMMA PlainWoken ==
  ASSUME IInv, NEW c \in CPU, NEW p \in Proc, Plain(c, p), pc[p] # "wakeup",
         pc'[p] \in Drowsy => pc[p] \in Drowsy, cond' = cond
  PROVE  WakeInv'
<1>1. \A q \in Proc : q # p => pc'[q] = pc[q]
  BY Types DEF Plain
<1>2. \A q \in Proc : pc'[q] \in Drowsy => pc[q] \in Drowsy
  BY <1>1, Zenon
<1>3. \A q \in Proc : pc[q] = "wakeup" => pc'[q] = "wakeup"
  BY <1>1, Zenon
<1>4. state' = state
  BY DEF Plain
<1>5. QED BY <1>2, <1>3, <1>4, Zenon DEF IInv, WakeInv

-----------------------------------------------------------------------------
(* The actions of a process *)

LEMMA BackType == IInv => back \in [Proc -> Unlocked] /\ cond \in {0, 1}
BY DEF IInv, TypeOK

LEMMA ResumeIInv ==
  ASSUME IInv, NEW c \in CPU, NEW p \in Proc, resume(c, p)
  PROVE  IInv'
<1>1. /\ on[c] = p /\ pc[p] = "resume"
      /\ pc' = [pc EXCEPT ![p] = after[p]]
      /\ cpu' = [cpu EXCEPT ![c] = [cpu[c] EXCEPT !.intena = intena[p]]]
      /\ UNCHANGED <<ptl, lkl, curproc, on, spc, next, state, asleep, after, back, intena, cond, panicked>>
  BY DEF resume, At, Goto, locks, sched_vars
<1>2. /\ ptl = c /\ lkl # c /\ cpu[c].ncli = 1 /\ cpu[c].FL_IF = 0 /\ intena[p] = Preemptible(p)
      /\ cpu[c] \in CpuState /\ Executes(c, p) /\ p # Scheduler /\ NoCpu \notin CPU
  BY <1>1, Owned, Names DEF InPtable, InLk, IInv, Saved
<1>3. /\ pc'[p] = after[p] /\ after[p] \in {"yield_return", "sleep_return"} /\ intena[p] \in {0, 1}
      /\ cpu'[c] = [cpu[c] EXCEPT !.intena = intena[p]] /\ cpu'[c] \in CpuState /\ cpu'[c].intena = intena[p]
      /\ cpu'[c].ncli = cpu[c].ncli /\ cpu'[c].FL_IF = cpu[c].FL_IF
  BY <1>1, <1>2, Types DEF CpuState, Preemptible
<1>4. Plain(c, p)
  BY <1>1, <1>2, <1>3, BackType, Zenon DEF Plain, Free, PC, Unlocked
<1>5. LocksOf(c)'
  BY <1>1, <1>2, <1>3 DEF LocksOf, HasPtable, HasLk, InPtable, InLk, Unlocked
<1>6. Executes(c, p)'
  BY <1>1, <1>2, <1>3 DEF Executes, Preemptible, InLk, Unlocked
<1>7. WakeInv'
  BY <1>1, <1>3, <1>4, PlainWoken DEF Drowsy, Unlocked
<1>8. QED BY <1>1, <1>4, <1>5, <1>6, <1>7, PlainIInv

LEMMA TimerIInv ==
  ASSUME IInv, NEW c \in CPU, NEW p \in Proc, timer(c, p)
  PROVE  IInv'
<1>1. /\ on[c] = p /\ pc[p] \in Unlocked
      /\ pc' = [pc EXCEPT ![p] = "yield"]
      /\ cpu' = [cpu EXCEPT ![c] = [cpu[c] EXCEPT !.FL_IF = 0]]
      /\ back' = [back EXCEPT ![p] = pc[p]]
      /\ UNCHANGED <<ptl, lkl, curproc, on, spc, next, state, asleep, after, intena, cond, panicked>>
  BY DEF timer, At, Goto, locks, sched_vars
<1>2. /\ ptl # c /\ lkl # c /\ cpu[c].ncli = 0
      /\ cpu[c] \in CpuState /\ Executes(c, p) /\ p # Scheduler /\ NoCpu \notin CPU
  BY <1>1, Owned, Names DEF InPtable, InLk, Unlocked
<1>3. /\ pc'[p] = "yield" /\ cpu'[c] = [cpu[c] EXCEPT !.FL_IF = 0]
      /\ cpu'[c] \in CpuState /\ cpu'[c].FL_IF = 0 /\ cpu'[c].ncli = 0
  BY <1>1, <1>2, Types DEF CpuState
<1>4. Plain(c, p)
  BY <1>1, <1>2, <1>3, BackType, Zenon DEF Plain, Free, PC, Unlocked
<1>5. LocksOf(c)'
  BY <1>1, <1>2, <1>3 DEF LocksOf, HasPtable, HasLk, InPtable, InLk, Unlocked
<1>6. Executes(c, p)'
  BY <1>1, <1>2, <1>3 DEF Executes, Preemptible, InLk, Unlocked
<1>7. WakeInv'
  BY <1>1, <1>3, <1>4, PlainWoken DEF Drowsy, Unlocked
<1>8. QED BY <1>1, <1>4, <1>5, <1>6, <1>7, PlainIInv

LEMMA YieldReturnIInv ==
  ASSUME IInv, NEW c \in CPU, NEW p \in Proc, yield_return(c, p)
  PROVE  IInv'
<1>1. /\ on[c] = p /\ pc[p] = "yield_return"
      /\ pc' = [pc EXCEPT ![p] = "iret"]
      /\ ptl' = NoCpu
      /\ cpu' = [cpu EXCEPT ![c] = popcli(cpu[c])]
      /\ UNCHANGED <<lkl, curproc, on, spc, next, state, asleep, after, back, intena, cond, panicked>>
  BY DEF yield_return, At, Goto, locks, sched_vars, release_ptable
<1>2. /\ ptl = c /\ lkl # c /\ cpu[c].ncli = 1 /\ cpu[c].FL_IF = 0 /\ cpu[c].intena = 0
      /\ cpu[c] \in CpuState /\ Executes(c, p) /\ p # Scheduler /\ NoCpu \notin CPU
  BY <1>1, Owned, Names DEF InPtable, InLk, Executes, Preemptible
<1>3. /\ pc'[p] = "iret" /\ cpu'[c] = popcli(cpu[c]) /\ cpu'[c] \in CpuState /\ cpu'[c].ncli = 0 /\ cpu'[c].FL_IF = 0
  BY <1>1, <1>2, Types DEF CpuState, popcli
<1>4. Plain(c, p)
  BY <1>1, <1>2, <1>3, BackType, Zenon DEF Plain, Free, PC, Unlocked
<1>5. LocksOf(c)'
  BY <1>1, <1>2, <1>3 DEF LocksOf, HasPtable, HasLk, InPtable, InLk, Unlocked
<1>6. Executes(c, p)'
  BY <1>1, <1>2, <1>3 DEF Executes, Preemptible, InLk, Unlocked
<1>7. WakeInv'
  BY <1>1, <1>3, <1>4, PlainWoken DEF Drowsy, Unlocked
<1>8. QED BY <1>1, <1>4, <1>5, <1>6, <1>7, PlainIInv

LEMMA IretIInv ==
  ASSUME IInv, NEW c \in CPU, NEW p \in Proc, iret(c, p)
  PROVE  IInv'
<1>1. /\ on[c] = p /\ pc[p] \in {"iret", "trapret"}
      /\ pc' = [pc EXCEPT ![p] = back[p]]
      /\ cpu' = [cpu EXCEPT ![c] = [cpu[c] EXCEPT !.FL_IF = 1]]
      /\ UNCHANGED <<ptl, lkl, curproc, on, spc, next, state, asleep, after, back, intena, cond, panicked>>
  BY DEF iret, At, Goto, locks, sched_vars
<1>2. /\ ptl # c /\ lkl # c /\ cpu[c].ncli = 0
      /\ cpu[c] \in CpuState /\ Executes(c, p) /\ p # Scheduler /\ NoCpu \notin CPU
  BY <1>1, Owned, Names DEF InPtable, InLk
<1>3. /\ pc'[p] = back[p] /\ back[p] \in Unlocked /\ cpu'[c] = [cpu[c] EXCEPT !.FL_IF = 1]
      /\ cpu'[c] \in CpuState /\ cpu'[c].FL_IF = 1 /\ cpu'[c].ncli = 0
  BY <1>1, <1>2, Types, BackType DEF CpuState
<1>4. Plain(c, p)
  BY <1>1, <1>2, <1>3, BackType, Zenon DEF Plain, Free, PC, Unlocked
<1>5. LocksOf(c)'
  BY <1>1, <1>2, <1>3 DEF LocksOf, HasPtable, HasLk, InPtable, InLk, Unlocked
<1>6. Executes(c, p)'
  BY <1>1, <1>2, <1>3 DEF Executes, Preemptible, InLk, Unlocked
<1>7. WakeInv'
  BY <1>1, <1>3, <1>4, PlainWoken DEF Drowsy, Unlocked
<1>8. QED BY <1>1, <1>4, <1>5, <1>6, <1>7, PlainIInv

LEMMA ForkretIInv ==
  ASSUME IInv, NEW c \in CPU, NEW p \in Proc, forkret(c, p)
  PROVE  IInv'
<1>1. /\ on[c] = p /\ pc[p] = "forkret"
      /\ pc' = [pc EXCEPT ![p] = "trapret"]
      /\ ptl' = NoCpu
      /\ cpu' = [cpu EXCEPT ![c] = popcli(cpu[c])]
      /\ UNCHANGED <<lkl, curproc, on, spc, next, state, asleep, after, back, intena, cond, panicked>>
  BY DEF forkret, At, Goto, locks, sched_vars, release_ptable
<1>2. /\ ptl = c /\ lkl # c /\ cpu[c].ncli = 1
      /\ cpu[c] \in CpuState /\ Executes(c, p) /\ p # Scheduler /\ NoCpu \notin CPU
  BY <1>1, Owned, Names DEF InPtable, InLk
<1>3. /\ pc'[p] = "trapret" /\ cpu'[c] = popcli(cpu[c]) /\ cpu'[c] \in CpuState /\ cpu'[c].ncli = 0
  BY <1>1, <1>2, Types DEF CpuState, popcli
<1>4. Plain(c, p)
  BY <1>1, <1>2, <1>3, BackType, Zenon DEF Plain, Free, PC, Unlocked
<1>5. LocksOf(c)'
  BY <1>1, <1>2, <1>3 DEF LocksOf, HasPtable, HasLk, InPtable, InLk, Unlocked
<1>6. Executes(c, p)'
  BY <1>1, <1>2, <1>3 DEF Executes, Preemptible, InLk, Unlocked
<1>7. WakeInv'
  BY <1>1, <1>3, <1>4, PlainWoken DEF Drowsy, Unlocked
<1>8. QED BY <1>1, <1>4, <1>5, <1>6, <1>7, PlainIInv

LEMMA SyscallIInv ==
  ASSUME IInv, NEW c \in CPU, NEW p \in Proc, syscall(c, p)
  PROVE  IInv'
<1>1. /\ on[c] = p /\ pc[p] = "user"
      /\ \E s \in {"consume", "produce"} : pc' = [pc EXCEPT ![p] = s]
      /\ cpu' = cpu
      /\ UNCHANGED <<ptl, lkl, curproc, on, spc, next, state, asleep, after, back, intena, cond, panicked>>
  BY Zenon DEF syscall, At, Goto, locks, sched_vars
<1>2. /\ ptl # c /\ lkl # c /\ cpu[c].ncli = 0 /\ cpu[c].FL_IF = 1
      /\ cpu[c] \in CpuState /\ Executes(c, p) /\ p # Scheduler /\ NoCpu \notin CPU
  BY <1>1, Owned, Names DEF InPtable, InLk, Unlocked, Executes
<1>3. /\ pc'[p] \in {"consume", "produce"} /\ cpu' = [cpu EXCEPT ![c] = cpu[c]]
  BY <1>1, <1>2, Types DEF CpuState
<1>4. Plain(c, p)
  BY <1>1, <1>2, <1>3, BackType, Zenon DEF Plain, Free, PC, Unlocked
<1>5. LocksOf(c)'
  BY <1>1, <1>2, <1>3 DEF LocksOf, HasPtable, HasLk, InPtable, InLk, Unlocked
<1>6. Executes(c, p)'
  BY <1>1, <1>2, <1>3 DEF Executes, Preemptible, InLk, Unlocked
<1>7. WakeInv'
  BY <1>1, <1>3, <1>4, PlainWoken DEF Drowsy, Unlocked
<1>8. QED BY <1>1, <1>4, <1>5, <1>6, <1>7, PlainIInv

LEMMA AcquireLkIInv ==
  ASSUME IInv, NEW c \in CPU, NEW p \in Proc, acquire_lk(c, p)
  PROVE  IInv'
<1>1. /\ on[c] = p /\ pc[p] \in {"consume", "produce"}
      /\ \/ pc[p] = "consume" /\ pc' = [pc EXCEPT ![p] = "test"] /\ cond' = cond
         \/ pc[p] = "produce" /\ pc' = [pc EXCEPT ![p] = "wakeup"] /\ cond' = 1
      /\ lkl = NoCpu /\ lkl' = c
      /\ cpu' = [cpu EXCEPT ![c] = pushcli(cpu[c])]
      /\ UNCHANGED <<ptl, curproc, on, spc, next, state, asleep, after, back, intena, panicked>>
  BY DEF acquire_lk, At, Goto, locks, sched_vars
<1>2. /\ ptl # c /\ cpu[c].ncli = 0 /\ cpu[c].FL_IF = 1
      /\ cpu[c] \in CpuState /\ Executes(c, p) /\ p # Scheduler /\ NoCpu \notin CPU
  BY <1>1, Owned, Names DEF InPtable, InLk, Unlocked, Executes
<1>3. /\ (pc[p] = "consume" /\ pc'[p] = "test" /\ cond' = cond) \/ pc'[p] = "wakeup"
      /\ cpu'[c] = pushcli(cpu[c]) /\ cpu'[c] \in CpuState /\ cpu'[c].ncli = 1 /\ cpu'[c].FL_IF = 0 /\ cpu'[c].intena = 1
  BY <1>1, <1>2, Types DEF CpuState, pushcli
<1>4. Plain(c, p)
  BY <1>1, <1>2, <1>3, BackType, Zenon DEF Plain, Free, PC, Unlocked
<1>5. LocksOf(c)'
  BY <1>1, <1>2, <1>3 DEF LocksOf, HasPtable, HasLk, InPtable, InLk, Unlocked
<1>6. Executes(c, p)'
  BY <1>1, <1>2, <1>3 DEF Executes, Preemptible, InLk, Unlocked
<1>7. WakeInv'
  <2>1. CASE pc[p] = "consume" /\ pc'[p] = "test" /\ cond' = cond
    BY <1>4, <2>1, PlainWoken DEF Drowsy
  <2>2. CASE pc'[p] = "wakeup"
    BY <2>2 DEF WakeInv
  <2>3. QED BY <1>3, <2>1, <2>2
<1>8. QED BY <1>1, <1>4, <1>5, <1>6, <1>7, PlainIInv

LEMMA TestIInv ==
  ASSUME IInv, NEW c \in CPU, NEW p \in Proc, test(c, p)
  PROVE  IInv'
<1>1. /\ on[c] = p /\ pc[p] = "test"
      /\ \/ pc' = [pc EXCEPT ![p] = "sleep"] /\ cond = 0 /\ UNCHANGED <<lkl, cpu, cond>>
         \/ pc' = [pc EXCEPT ![p] = "user"] /\ cond' = 0 /\ lkl' = NoCpu /\ cpu' = [cpu EXCEPT ![c] = popcli(cpu[c])]
      /\ UNCHANGED <<ptl, curproc, on, spc, next, state, asleep, after, back, intena, panicked>>
  BY DEF test, At, Goto, locks, sched_vars
<1>2. /\ ptl # c /\ lkl = c /\ cpu[c].ncli = 1 /\ cpu[c].FL_IF = 0 /\ cpu[c].intena = 1
      /\ cpu[c] \in CpuState /\ Executes(c, p) /\ p # Scheduler /\ NoCpu \notin CPU
  BY <1>1, Owned, Names DEF InPtable, InLk, Executes
<1>3. /\ \/ pc'[p] = "sleep" /\ cpu'[c] = cpu[c] /\ cpu' = [cpu EXCEPT ![c] = cpu[c]] /\ lkl' = c
         \/ pc'[p] = "user" /\ cpu'[c] = popcli(cpu[c]) /\ cpu'[c].ncli = 0 /\ cpu'[c].FL_IF = 1 /\ lkl' = NoCpu
      /\ cpu'[c] \in CpuState /\ cond' = 0
  BY <1>1, <1>2, Types DEF CpuState, popcli
<1>4. Plain(c, p)
  BY <1>1, <1>2, <1>3, BackType DEF Plain, Free, PC, Unlocked
<1>5. LocksOf(c)'
  BY <1>1, <1>2, <1>3 DEF LocksOf, HasPtable, HasLk, InPtable, InLk, Unlocked
<1>6. Executes(c, p)'
  BY <1>1, <1>2, <1>3 DEF Executes, Preemptible, InLk, Unlocked
<1>7. WakeInv'
  BY <1>3 DEF WakeInv
<1>8. QED BY <1>1, <1>4, <1>5, <1>6, <1>7, PlainIInv

LEMMA SleepIInv ==
  ASSUME IInv, NEW c \in CPU, NEW p \in Proc, sleep(c, p)
  PROVE  IInv'
<1>1. /\ on[c] = p /\ pc[p] = "sleep"
      /\ pc' = [pc EXCEPT ![p] = "sleep_release"]
      /\ ptl = NoCpu /\ ptl' = c
      /\ cpu' = [cpu EXCEPT ![c] = pushcli(cpu[c])]
      /\ UNCHANGED <<lkl, curproc, on, spc, next, state, asleep, after, back, intena, cond, panicked>>
  BY DEF sleep, At, Goto, locks, sched_vars, acquire_ptable
<1>2. /\ lkl = c /\ cpu[c].ncli = 1 /\ cpu[c].FL_IF = 0 /\ cpu[c].intena = 1
      /\ cpu[c] \in CpuState /\ Executes(c, p) /\ p # Scheduler /\ NoCpu \notin CPU
  BY <1>1, Owned, Names DEF InPtable, InLk, Executes
<1>3. /\ pc'[p] = "sleep_release" /\ cpu'[c] = pushcli(cpu[c]) /\ cpu'[c] \in CpuState
      /\ cpu'[c].ncli = 2 /\ cpu'[c].FL_IF = 0 /\ cpu'[c].intena = 1
  BY <1>1, <1>2, Types DEF CpuState, pushcli
<1>4. Plain(c, p)
  BY <1>1, <1>2, <1>3, BackType, Zenon DEF Plain, Free, PC, Unlocked
<1>5. LocksOf(c)'
  BY <1>1, <1>2, <1>3 DEF LocksOf, HasPtable, HasLk, InPtable, InLk, Unlocked
<1>6. Executes(c, p)'
  BY <1>1, <1>2, <1>3 DEF Executes, Preemptible, InLk, Unlocked
<1>7. WakeInv'
  BY <1>1, <1>3, <1>4, PlainWoken DEF Drowsy, Unlocked
<1>8. QED BY <1>1, <1>4, <1>5, <1>6, <1>7, PlainIInv

LEMMA SleepReleaseIInv ==
  ASSUME IInv, NEW c \in CPU, NEW p \in Proc, sleep_release(c, p)
  PROVE  IInv'
<1>1. /\ on[c] = p /\ pc[p] = "sleep_release"
      /\ pc' = [pc EXCEPT ![p] = "sleep_set"]
      /\ lkl' = NoCpu
      /\ cpu' = [cpu EXCEPT ![c] = popcli(cpu[c])]
      /\ UNCHANGED <<ptl, curproc, on, spc, next, state, asleep, after, back, intena, cond, panicked>>
  BY DEF sleep_release, At, Goto, locks, sched_vars
<1>2. /\ ptl = c /\ lkl = c /\ cpu[c].ncli = 2 /\ cpu[c].FL_IF = 0 /\ cpu[c].intena = 1
      /\ cpu[c] \in CpuState /\ Executes(c, p) /\ p # Scheduler /\ NoCpu \notin CPU
  BY <1>1, Owned, Names DEF InPtable, InLk, Executes
<1>3. /\ pc'[p] = "sleep_set" /\ cpu'[c] = popcli(cpu[c]) /\ cpu'[c] \in CpuState
      /\ cpu'[c].ncli = 1 /\ cpu'[c].FL_IF = 0 /\ cpu'[c].intena = 1
  BY <1>1, <1>2, Types DEF CpuState, popcli
<1>4. Plain(c, p)
  BY <1>1, <1>2, <1>3, BackType, Zenon DEF Plain, Free, PC, Unlocked
<1>5. LocksOf(c)'
  BY <1>1, <1>2, <1>3 DEF LocksOf, HasPtable, HasLk, InPtable, InLk, Unlocked
<1>6. Executes(c, p)'
  BY <1>1, <1>2, <1>3 DEF Executes, Preemptible, InLk, Unlocked
<1>7. WakeInv'
  BY <1>1, <1>3, <1>4, PlainWoken DEF Drowsy, Unlocked
<1>8. QED BY <1>1, <1>4, <1>5, <1>6, <1>7, PlainIInv

LEMMA ProducedIInv ==
  ASSUME IInv, NEW c \in CPU, NEW p \in Proc, produced(c, p)
  PROVE  IInv'
<1>1. /\ on[c] = p /\ pc[p] = "produced"
      /\ pc' = [pc EXCEPT ![p] = "user"]
      /\ lkl' = NoCpu
      /\ cpu' = [cpu EXCEPT ![c] = popcli(cpu[c])]
      /\ UNCHANGED <<ptl, curproc, on, spc, next, state, asleep, after, back, intena, cond, panicked>>
  BY DEF produced, At, Goto, locks, sched_vars
<1>2. /\ ptl # c /\ lkl = c /\ cpu[c].ncli = 1 /\ cpu[c].FL_IF = 0 /\ cpu[c].intena = 1
      /\ cpu[c] \in CpuState /\ Executes(c, p) /\ p # Scheduler /\ NoCpu \notin CPU
  BY <1>1, Owned, Names DEF InPtable, InLk, Executes
<1>3. /\ pc'[p] = "user" /\ cpu'[c] = popcli(cpu[c]) /\ cpu'[c] \in CpuState /\ cpu'[c].ncli = 0 /\ cpu'[c].FL_IF = 1
  BY <1>1, <1>2, Types DEF CpuState, popcli
<1>4. Plain(c, p)
  BY <1>1, <1>2, <1>3, BackType, Zenon DEF Plain, Free, PC, Unlocked
<1>5. LocksOf(c)'
  BY <1>1, <1>2, <1>3 DEF LocksOf, HasPtable, HasLk, InPtable, InLk, Unlocked
<1>6. Executes(c, p)'
  BY <1>1, <1>2, <1>3 DEF Executes, Preemptible, InLk, Unlocked
<1>7. WakeInv'
  BY <1>1, <1>3, <1>4, PlainWoken DEF Drowsy, Unlocked
<1>8. QED BY <1>1, <1>4, <1>5, <1>6, <1>7, PlainIInv

\* The steps that change the state of p, or its channel.
LEMMA OtherIInv ==
  ASSUME IInv, NEW c \in CPU, NEW p \in Proc, on[c] = p, OnlyOf(c, p), LocksOf(c)', Executes(c, p)',
         NEW s \in PC \ {"resume"}, pc' = [pc EXCEPT ![p] = s], cpu' \in [CPU -> CpuState],
         ptl' \in CPU \cup {NoCpu}, UNCHANGED <<lkl, back, intena, cond, panicked>>,
         state' \in [Proc -> {"RUNNABLE", "RUNNING", "SLEEPING"}], asleep' \in [Proc -> {0, 1}],
         after' \in [Proc -> {"yield_return", "sleep_return"}],
         \A q \in Proc : state'[q] = "SLEEPING" => asleep'[q] = 1, WakeInv'
  PROVE  IInv'
<1>1. TypeOK' /\ NoPanic'
  BY Zenon DEF OnlyOf, sched_vars, IInv, TypeOK, NoPanic
<1>2. OneCpuPerStack' /\ CpuInv' /\ OffCpu'
  BY ThreadStep
<1>3. pc'[p] # "resume"
  BY Types
<1>4. Saved'
  BY <1>3 DEF OnlyOf, IInv, Saved, Preemptible
<1>5. QED BY <1>1, <1>2, <1>4 DEF IInv

LEMMA YieldIInv ==
  ASSUME IInv, NEW c \in CPU, NEW p \in Proc, yield(c, p)
  PROVE  IInv'
<1>1. /\ on[c] = p /\ pc[p] = "yield" /\ pc' = [pc EXCEPT ![p] = "sched"]
      /\ ptl = NoCpu /\ ptl' = c /\ cpu' = [cpu EXCEPT ![c] = pushcli(cpu[c])]
      /\ state' = [state EXCEPT ![p] = "RUNNABLE"] /\ after' = [after EXCEPT ![p] = "yield_return"]
      /\ UNCHANGED <<lkl, curproc, on, spc, next, asleep, back, intena, cond, panicked>>
  BY DEF yield, acquire_ptable, At, Goto, sched_vars
<1>2. /\ lkl # c /\ cpu[c].ncli = 0 /\ cpu[c].FL_IF = 0
      /\ cpu[c] \in CpuState /\ Executes(c, p) /\ p # Scheduler /\ NoCpu \notin CPU
  BY <1>1, Owned, Names DEF InPtable, InLk, Executes
<1>3. /\ pc'[p] = "sched" /\ after'[p] = "yield_return" /\ state'[p] = "RUNNABLE"
      /\ cpu'[c] = pushcli(cpu[c]) /\ cpu'[c].ncli = 1 /\ cpu'[c].FL_IF = 0 /\ cpu'[c].intena = 0
      /\ cpu' \in [CPU -> CpuState]
  BY <1>1, <1>2, Types DEF CpuState, pushcli
<1>4. LocksOf(c)'
  BY <1>1, <1>2, <1>3 DEF LocksOf, HasPtable, HasLk, InPtable, InLk
<1>5. Executes(c, p)'
  BY <1>1, <1>2, <1>3 DEF Executes, Preemptible, InLk, Unlocked
<1>6. \A q \in Proc : q # p => pc'[q] = pc[q] /\ after'[q] = after[q] /\ state'[q] = state[q]
  BY <1>1, Types
<1>7. OnlyOf(c, p)
  BY <1>1, <1>2, <1>6, Types DEF OnlyOf, sched_vars
<1>8. \A q \in Proc : state'[q] = "SLEEPING" => state[q] = "SLEEPING"
  BY <1>3, <1>6
<1>9. WakeInv'
  <2>1. \A q \in Proc : pc'[q] \in Drowsy => pc[q] \in Drowsy
    BY <1>3, <1>6 DEF Drowsy
  <2>2. \A q \in Proc : pc[q] = "wakeup" => pc'[q] = "wakeup"
    BY <1>1, <1>6
  <2>3. QED BY <1>1, <1>8, <2>1, <2>2, Zenon DEF IInv, WakeInv
<1>10. /\ state' \in [Proc -> {"RUNNABLE", "RUNNING", "SLEEPING"}] /\ asleep' \in [Proc -> {0, 1}]
       /\ after' \in [Proc -> {"yield_return", "sleep_return"}]
       /\ \A q \in Proc : state'[q] = "SLEEPING" => asleep'[q] = 1
  BY <1>1, <1>8, Types DEF IInv, Saved
<1>11. "sched" \in PC \ {"resume"}
  BY DEF PC
<1>12. QED BY <1>1, <1>3, <1>4, <1>5, <1>7, <1>9, <1>10, <1>11, OtherIInv, Zenon

LEMMA SleepSetIInv ==
  ASSUME IInv, NEW c \in CPU, NEW p \in Proc, sleep_set(c, p)
  PROVE  IInv'
<1>1. /\ on[c] = p /\ pc[p] = "sleep_set" /\ pc' = [pc EXCEPT ![p] = "sched"]
      /\ state' = [state EXCEPT ![p] = "SLEEPING"] /\ asleep' = [asleep EXCEPT ![p] = 1]
      /\ after' = [after EXCEPT ![p] = "sleep_return"]
      /\ UNCHANGED <<ptl, lkl, cpu, curproc, on, spc, next, back, intena, cond, panicked>>
  BY DEF sleep_set, At, Goto, locks, sched_vars
<1>2. /\ ptl = c /\ lkl # c /\ cpu[c].ncli = 1 /\ cpu[c].FL_IF = 0 /\ cpu[c].intena = 1
      /\ Executes(c, p) /\ p # Scheduler /\ cpu' \in [CPU -> CpuState]
  BY <1>1, Owned, Names, Types DEF InPtable, InLk, Executes
<1>3. /\ pc'[p] = "sched" /\ after'[p] = "sleep_return" /\ state'[p] = "SLEEPING" /\ asleep'[p] = 1
  BY <1>1, Types
<1>4. LocksOf(c)'
  BY <1>1, <1>2, <1>3 DEF LocksOf, HasPtable, HasLk, InPtable, InLk
<1>5. Executes(c, p)'
  BY <1>1, <1>2, <1>3 DEF Executes, Preemptible, InLk, Unlocked
<1>6. \A q \in Proc : q # p =>
        pc'[q] = pc[q] /\ after'[q] = after[q] /\ state'[q] = state[q] /\ asleep'[q] = asleep[q]
  BY <1>1, Types
<1>7. OnlyOf(c, p)
  BY <1>1, <1>6 DEF OnlyOf, sched_vars
<1>8. WakeInv'
  <2>1. \A q \in Proc : pc[q] = "wakeup" => pc'[q] = "wakeup"
    BY <1>1, <1>6
  <2>2. cond = 1 => \E q \in Proc : pc[q] = "wakeup"
    BY <1>1 DEF IInv, WakeInv, Drowsy
  <2>3. QED BY <1>1, <2>1, <2>2, Zenon DEF WakeInv
<1>9. /\ state' \in [Proc -> {"RUNNABLE", "RUNNING", "SLEEPING"}] /\ asleep' \in [Proc -> {0, 1}]
      /\ after' \in [Proc -> {"yield_return", "sleep_return"}]
  BY <1>1, Types
<1>10. \A q \in Proc : state'[q] = "SLEEPING" => asleep'[q] = 1
  BY <1>3, <1>6 DEF IInv, Saved
<1>11. "sched" \in PC \ {"resume"} /\ ptl' \in CPU \cup {NoCpu}
  BY <1>1, <1>2 DEF PC
<1>12. QED BY <1>1, <1>2, <1>4, <1>5, <1>7, <1>8, <1>9, <1>10, <1>11, OtherIInv, Zenon

LEMMA SleepReturnIInv ==
  ASSUME IInv, NEW c \in CPU, NEW p \in Proc, sleep_return(c, p)
  PROVE  IInv'
<1>1. /\ on[c] = p /\ pc[p] = "sleep_return" /\ pc' = [pc EXCEPT ![p] = "consume"]
      /\ ptl' = NoCpu /\ cpu' = [cpu EXCEPT ![c] = popcli(cpu[c])] /\ asleep' = [asleep EXCEPT ![p] = 0]
      /\ UNCHANGED <<lkl, curproc, on, spc, next, state, after, back, intena, cond, panicked>>
  BY DEF sleep_return, release_ptable, At, Goto, sched_vars
<1>2. /\ ptl = c /\ lkl # c /\ cpu[c].ncli = 1 /\ cpu[c].intena = 1 /\ state[p] = "RUNNING"
      /\ cpu[c] \in CpuState /\ Executes(c, p) /\ p # Scheduler /\ NoCpu \notin CPU
  BY <1>1, Owned, Names DEF InPtable, InLk, Executes, Preemptible
<1>3. /\ pc'[p] = "consume" /\ cpu'[c] = popcli(cpu[c]) /\ cpu'[c].ncli = 0 /\ cpu'[c].FL_IF = 1
      /\ cpu' \in [CPU -> CpuState]
  BY <1>1, <1>2, Types DEF CpuState, popcli
<1>4. LocksOf(c)'
  BY <1>1, <1>2, <1>3 DEF LocksOf, HasPtable, HasLk, InPtable, InLk
<1>5. Executes(c, p)'
  BY <1>1, <1>2, <1>3 DEF Executes, Preemptible, InLk, Unlocked
<1>6. \A q \in Proc : q # p => pc'[q] = pc[q] /\ asleep'[q] = asleep[q]
  BY <1>1, Types
<1>7. OnlyOf(c, p)
  BY <1>1, <1>2, <1>6, Types DEF OnlyOf, sched_vars
<1>8. WakeInv'
  <2>1. \A q \in Proc : pc'[q] \in Drowsy => pc[q] \in Drowsy
    BY <1>3, <1>6 DEF Drowsy
  <2>2. \A q \in Proc : pc[q] = "wakeup" => pc'[q] = "wakeup"
    BY <1>1, <1>6
  <2>3. QED BY <1>1, <2>1, <2>2, Zenon DEF IInv, WakeInv
<1>9. /\ state' \in [Proc -> {"RUNNABLE", "RUNNING", "SLEEPING"}] /\ asleep' \in [Proc -> {0, 1}]
      /\ after' \in [Proc -> {"yield_return", "sleep_return"}]
  BY <1>1, Types
<1>10. \A q \in Proc : state'[q] = "SLEEPING" => asleep'[q] = 1
  BY <1>1, <1>2, <1>6 DEF IInv, Saved
<1>11. "consume" \in PC \ {"resume"}
  BY DEF PC, Unlocked
<1>12. QED BY <1>1, <1>3, <1>4, <1>5, <1>7, <1>8, <1>9, <1>10, <1>11, OtherIInv, Zenon

\* After wakeup1 nobody sleeps, and who runs does so still.
LEMMA WokenAll ==
  ASSUME IInv, state' = Woken
  PROVE  /\ \A q \in Proc : state'[q] # "SLEEPING" /\ (state'[q] = "RUNNING" <=> state[q] = "RUNNING")
         /\ state' \in [Proc -> {"RUNNABLE", "RUNNING", "SLEEPING"}]
BY Types DEF IInv, Saved, Woken

\* Between the test and SLEEPING a process has ptable.lock or lk.
LEMMA DrowsyLocked ==
  ASSUME IInv, ptl = NoCpu, NEW q \in Proc, pc[q] \in Drowsy
  PROVE  pc[q] = "sleep" /\ \E d \in CPU : on[d] = q /\ lkl = d
<1>1. PICK d \in CPU : on[d] = q
  BY DEF IInv, OffCpu, Drowsy
<1>2. (ptl = d <=> pc[q] \in InPtable) /\ (lkl = d <=> pc[q] \in InLk)
  BY <1>1, Owned
<1>3. pc[q] = "sleep"
  BY <1>2, Names DEF Drowsy, InPtable
<1>4. QED BY <1>1, <1>2, <1>3 DEF InLk

LEMMA WakeupIInv ==
  ASSUME IInv, NEW c \in CPU, NEW p \in Proc, wakeup(c, p)
  PROVE  IInv'
<1>1. /\ on[c] = p /\ pc[p] = "wakeup" /\ pc' = [pc EXCEPT ![p] = "produced"]
      /\ ptl = NoCpu /\ state' = Woken
      /\ UNCHANGED <<ptl, lkl, cpu, curproc, on, spc, next, asleep, after, back, intena, cond, panicked>>
  BY DEF wakeup, At, Goto, locks, sched_vars
<1>2. /\ lkl = c /\ ptl # c /\ cpu[c].ncli = 1 /\ cpu[c].FL_IF = 0 /\ cpu[c].intena = 1
      /\ Executes(c, p) /\ p # Scheduler /\ cpu' \in [CPU -> CpuState]
  BY <1>1, Owned, Names, Types DEF InPtable, InLk, Executes
<1>3. /\ pc'[p] = "produced" /\ \A q \in Proc : q # p => pc'[q] = pc[q]
  BY <1>1, Types
<1>4. /\ \A q \in Proc : state'[q] # "SLEEPING" /\ (state'[q] = "RUNNING" <=> state[q] = "RUNNING")
      /\ state' \in [Proc -> {"RUNNABLE", "RUNNING", "SLEEPING"}]
  BY <1>1, WokenAll
<1>5. LocksOf(c)'
  BY <1>1, <1>2, <1>3 DEF LocksOf, HasPtable, HasLk, InPtable, InLk
<1>6. Executes(c, p)'
  BY <1>1, <1>2, <1>3, <1>4 DEF Executes, Preemptible, InLk, Unlocked
<1>7. OnlyOf(c, p)
  BY <1>1, <1>3, <1>4 DEF OnlyOf, sched_vars
<1>8. WakeInv'
  <2>1. ASSUME NEW q \in Proc, pc'[q] \in Drowsy PROVE FALSE
    <3>1. q # p /\ pc[q] \in Drowsy
      BY <1>3, <2>1 DEF Drowsy
    <3>2. PICK d \in CPU : on[d] = q /\ lkl = d
      BY <1>1, <3>1, DrowsyLocked, Zenon
    <3>3. QED BY <1>1, <1>2, <3>1, <3>2
  <2>2. QED BY <1>4, <2>1 DEF WakeInv
<1>9. /\ asleep' \in [Proc -> {0, 1}] /\ after' \in [Proc -> {"yield_return", "sleep_return"}]
      /\ "produced" \in PC \ {"resume"} /\ ptl' \in CPU \cup {NoCpu}
  BY <1>1, Types DEF PC
<1>10. QED BY <1>1, <1>2, <1>4, <1>5, <1>6, <1>7, <1>8, <1>9, OtherIInv, Zenon

-----------------------------------------------------------------------------
(* The device, the scheduler's loop and the switch of stacks *)

LEMMA DeviceIInv ==
  ASSUME IInv, NEW c \in CPU, device(c)
  PROVE  IInv'
<1>1. /\ ptl = NoCpu /\ lkl = NoCpu /\ state' = Woken /\ cond' = 1
      /\ UNCHANGED <<ptl, lkl, cpu, curproc, on, spc, next, asleep, pc, after, back, intena, panicked>>
  BY DEF device, locks, sched_vars
<1>2. /\ \A q \in Proc : state'[q] # "SLEEPING" /\ (state'[q] = "RUNNING" <=> state[q] = "RUNNING")
      /\ state' \in [Proc -> {"RUNNABLE", "RUNNING", "SLEEPING"}]
  BY <1>1, WokenAll
<1>3. TypeOK' /\ NoPanic'
  BY <1>1, <1>2, Zenon DEF IInv, TypeOK, NoPanic
<1>4. CpuInv'
  <2>1. ASSUME NEW d \in CPU PROVE LocksOf(d)'
    BY <1>1 DEF IInv, CpuInv, LocksOf, HasPtable, HasLk
  <2>2. ASSUME NEW d \in CPU, NEW p \in Proc, on'[d] = p PROVE Executes(d, p)'
    BY <1>1, <1>2, <2>2 DEF IInv, CpuInv, Executes, Preemptible
  <2>3. QED BY <2>1, <2>2 DEF CpuInv
<1>5. OneCpuPerStack' /\ OffCpu' /\ Saved'
  BY <1>1, <1>2 DEF IInv, OneCpuPerStack, OffCpu, Saved, Preemptible
<1>6. \A q \in Proc : pc[q] \notin Drowsy
  BY <1>1, DrowsyLocked, Names
<1>7. WakeInv'
  BY <1>1, <1>2, <1>6 DEF WakeInv
<1>8. QED BY <1>3, <1>4, <1>5, <1>7 DEF IInv

LEMMA SchedulerStiIInv ==
  ASSUME IInv, NEW c \in CPU, scheduler_sti(c)
  PROVE  IInv'
<1>1. /\ on[c] = Scheduler /\ spc[c] = "sti" /\ spc' = [spc EXCEPT ![c] = "acquire"]
      /\ cpu' = [cpu EXCEPT ![c] = [cpu[c] EXCEPT !.FL_IF = 1]]
      /\ UNCHANGED <<ptl, lkl, curproc, on, next, state, asleep, pc, after, back, intena, cond, panicked>>
  BY DEF scheduler_sti, InScheduler, locks, proc_vars
<1>2. /\ spc'[c] = "acquire" /\ cpu'[c].ncli = cpu[c].ncli /\ cpu' \in [CPU -> CpuState]
      /\ \A d \in CPU : d # c => cpu'[d] = cpu[d] /\ spc'[d] = spc[d]
  BY <1>1, SchedulerTypes DEF CpuState
<1>3. LocksOf(c)'
  BY <1>1, <1>2, SchedulerTypes DEF LocksOf, HasPtable, HasLk
<1>4. spc' \in [CPU -> {"sti", "acquire", "scan", "swtch"}]
  BY <1>1, SchedulerTypes
<1>5. QED BY <1>1, <1>2, <1>3, <1>4, SchedulerTypes, SchedulerIInv

LEMMA SchedulerAcquireIInv ==
  ASSUME IInv, NEW c \in CPU, scheduler_acquire(c)
  PROVE  IInv'
<1>1. /\ on[c] = Scheduler /\ spc[c] = "acquire" /\ spc' = [spc EXCEPT ![c] = "scan"]
      /\ ptl = NoCpu /\ ptl' = c /\ cpu' = [cpu EXCEPT ![c] = pushcli(cpu[c])]
      /\ next' = [next EXCEPT ![c] = 1]
      /\ UNCHANGED <<lkl, curproc, on, state, asleep, pc, after, back, intena, cond, panicked>>
  BY DEF scheduler_acquire, acquire_ptable, InScheduler, proc_vars
<1>2. /\ spc'[c] = "scan" /\ cpu'[c].ncli = cpu[c].ncli + 1 /\ cpu'[c].FL_IF = 0
      /\ cpu' \in [CPU -> CpuState]
      /\ \A d \in CPU : d # c => cpu'[d] = cpu[d] /\ spc'[d] = spc[d]
  BY <1>1, SchedulerTypes DEF CpuState, pushcli
<1>3. LocksOf(c)'
  BY <1>1, <1>2, SchedulerTypes DEF LocksOf, HasPtable, HasLk
<1>4. /\ spc' \in [CPU -> {"sti", "acquire", "scan", "swtch"}] /\ next' \in [CPU -> 1..(NPROC + 1)]
      /\ {ptl, ptl'} = {c, NoCpu}
  BY <1>1, SchedulerTypes, SchedAssumption
<1>5. QED BY <1>1, <1>2, <1>3, <1>4, SchedulerTypes, SchedulerIInv

LEMMA SchedulerReturnIInv ==
  ASSUME IInv, NEW c \in CPU, scheduler_return(c)
  PROVE  IInv'
<1>1. /\ on[c] = Scheduler /\ spc[c] = "swtch" /\ spc' = [spc EXCEPT ![c] = "scan"]
      /\ curproc' = [curproc EXCEPT ![c] = NoProc]
      /\ UNCHANGED <<ptl, lkl, cpu, on, next, state, asleep, pc, after, back, intena, cond, panicked>>
  BY DEF scheduler_return, InScheduler, locks, proc_vars
<1>2. /\ spc'[c] = "scan" /\ \A d \in CPU : d # c => curproc'[d] = curproc[d] /\ spc'[d] = spc[d]
      /\ spc' \in [CPU -> {"sti", "acquire", "scan", "swtch"}] /\ curproc' \in [CPU -> Proc \cup {NoProc}]
  BY <1>1, SchedulerTypes
<1>3. LocksOf(c)'
  BY <1>1, <1>2, SchedulerTypes DEF LocksOf, HasPtable, HasLk
<1>4. QED BY <1>1, <1>2, <1>3, SchedulerTypes, SchedulerIInv

LEMMA SchedulerReleaseIInv ==
  ASSUME IInv, NEW c \in CPU, scheduler_release(c)
  PROVE  IInv'
<1>1. /\ on[c] = Scheduler /\ spc[c] = "scan" /\ spc' = [spc EXCEPT ![c] = "sti"]
      /\ ptl' = NoCpu /\ cpu' = [cpu EXCEPT ![c] = popcli(cpu[c])]
      /\ UNCHANGED <<lkl, curproc, on, next, state, asleep, pc, after, back, intena, cond, panicked>>
  BY DEF scheduler_release, release_ptable, InScheduler, proc_vars
<1>2. ptl = c /\ lkl # c /\ cpu[c].ncli = 1 /\ cpu[c] \in CpuState
  BY <1>1, SchedulerTypes DEF LocksOf, HasPtable, HasLk
<1>3. /\ spc'[c] = "sti" /\ cpu'[c].ncli = 0 /\ cpu' \in [CPU -> CpuState]
      /\ \A d \in CPU : d # c => cpu'[d] = cpu[d] /\ spc'[d] = spc[d]
  BY <1>1, <1>2, SchedulerTypes DEF CpuState, popcli
<1>4. LocksOf(c)'
  BY <1>1, <1>2, <1>3, Names DEF LocksOf, HasPtable, HasLk
<1>5. spc' \in [CPU -> {"sti", "acquire", "scan", "swtch"}] /\ {ptl, ptl'} = {c, NoCpu}
  BY <1>1, <1>2, SchedulerTypes
<1>6. QED BY <1>1, <1>3, <1>4, <1>5, SchedulerTypes, SchedulerIInv

LEMMA SchedulerSwtchIInv ==
  ASSUME IInv, NEW c \in CPU, scheduler_swtch(c)
  PROVE  IInv'
<1>1. PICK p \in Proc :
           /\ state[p] = "RUNNABLE"
           /\ on' = [on EXCEPT ![c] = p] /\ curproc' = [curproc EXCEPT ![c] = p]
           /\ state' = [state EXCEPT ![p] = "RUNNING"] /\ next' = [next EXCEPT ![c] = p + 1]
  BY Zenon DEF scheduler_swtch, Ahead
<1>2. /\ on[c] = Scheduler /\ spc[c] = "scan" /\ spc' = [spc EXCEPT ![c] = "swtch"]
      /\ UNCHANGED <<ptl, lkl, cpu, asleep, pc, after, back, intena, cond, panicked>>
  BY DEF scheduler_swtch, InScheduler, locks
<1>3. /\ ptl = c /\ lkl # c /\ cpu[c].ncli = 1 /\ cpu[c].FL_IF = 0
  BY <1>1, <1>2 DEF IInv, CpuInv, LocksOf, HasPtable, HasLk
<1>4. /\ \A d \in CPU : on[d] # p
      /\ pc[p] \in {"forkret", "resume"}
  <2>1. ASSUME NEW d \in CPU, on[d] = p PROVE FALSE
    <3>1. pc[p] = "sched" /\ ptl = d
      BY <1>1, <2>1, Owned DEF Executes, InPtable
    <3>2. QED BY <1>1, <1>2, <1>3, <2>1, <3>1, Names
  <2>2. QED BY <1>1, <2>1 DEF IInv, OffCpu
<1>5. TypeOK' /\ NoPanic'
  <2>1. p + 1 \in 1..(NPROC + 1)
    BY <1>1, SchedAssumption DEF Proc
  <2>2. QED BY <1>1, <1>2, <2>1 DEF IInv, TypeOK, NoPanic
<1>6. OneCpuPerStack'
  BY <1>1, <1>2, <1>4 DEF IInv, OneCpuPerStack
<1>7. CpuInv'
  <2>1. LocksOf(c)' /\ \A q \in Proc : on'[c] = q => Executes(c, q)'
    <3>1. on'[c] = p /\ spc'[c] = "swtch" /\ curproc'[c] = p /\ state'[p] = "RUNNING" /\ p # Scheduler
      BY <1>1, <1>2, Names, Types, SchedulerTypes
    <3>2. LocksOf(c)'
      BY <1>1, <1>2, <1>3, <1>4, <3>1 DEF LocksOf, HasPtable, HasLk, InPtable, InLk
    <3>3. Executes(c, p)'
      BY <1>1, <1>2, <1>4, <3>1 DEF Executes, Unlocked, InLk
    <3>4. QED BY <3>1, <3>2, <3>3
  <2>2. ASSUME NEW d \in CPU, d # c
        PROVE  LocksOf(d)' /\ \A q \in Proc : on'[d] = q => Executes(d, q)'
    <3>1. on'[d] = on[d] /\ spc'[d] = spc[d] /\ curproc'[d] = curproc[d] /\ on[d] # p
      BY <1>1, <1>2, <1>4, <2>2, Types, SchedulerTypes
    <3>2. LocksOf(d)'
      BY <1>1, <1>2, <3>1, SchedulerTypes DEF LocksOf, HasPtable, HasLk
    <3>3. ASSUME NEW q \in Proc, on'[d] = q PROVE Executes(d, q)'
      <4>1. Executes(d, q) /\ state'[q] = state[q]
        BY <1>1, <1>2, <3>1, <3>3 DEF IInv, CpuInv, TypeOK
      <4>2. QED BY <1>1, <1>2, <3>1, <4>1 DEF Executes, Preemptible
    <3>4. QED BY <3>2, <3>3
  <2>3. QED BY <2>1, <2>2 DEF CpuInv
<1>8. OffCpu'
  <2>1. ASSUME NEW q \in Proc, \A d \in CPU : on'[d] # q
        PROVE  pc'[q] \in {"forkret", "resume"} /\ state'[q] # "RUNNING"
    <3>1. q # p /\ \A d \in CPU : on[d] # q
      BY <1>1, <1>2, <2>1, Names, Types, SchedulerTypes
    <3>2. QED BY <1>1, <1>2, <3>1 DEF IInv, OffCpu, TypeOK
  <2>2. QED BY <2>1 DEF OffCpu
<1>9. \A q \in Proc : state'[q] = "SLEEPING" => state[q] = "SLEEPING"
  BY <1>1, <1>2, Types, SchedulerTypes
<1>10. Saved' /\ WakeInv'
  BY <1>1, <1>2, <1>9 DEF IInv, Saved, Preemptible, WakeInv
<1>11. QED BY <1>5, <1>6, <1>7, <1>8, <1>10 DEF IInv

LEMMA SchedIInv ==
  ASSUME IInv, NEW c \in CPU, NEW p \in Proc, sched(c, p)
  PROVE  IInv'
<1>1. /\ on[c] = p /\ pc[p] = "sched" /\ pc' = [pc EXCEPT ![p] = "resume"]
      /\ on' = [on EXCEPT ![c] = Scheduler] /\ intena' = [intena EXCEPT ![p] = cpu[c].intena]
      /\ UNCHANGED <<ptl, lkl, cpu, curproc, spc, next, state, asleep, after, back, cond>>
  BY DEF sched, At, Goto, locks
<1>2. /\ ptl = c /\ lkl # c /\ cpu[c].ncli = 1 /\ cpu[c].FL_IF = 0 /\ Executes(c, p)
      /\ cpu[c] \in CpuState
  BY <1>1, Owned DEF InPtable, InLk
<1>3. spc[c] = "swtch" /\ state[p] # "RUNNING" /\ cpu[c].intena = Preemptible(p) /\ cpu[c].intena \in {0, 1}
  BY <1>1, <1>2 DEF Executes, CpuState
<1>4. panicked' = 0
  BY <1>2, <1>3 DEF sched, sched_panics
<1>5. TypeOK' /\ NoPanic'
  BY <1>1, <1>3, <1>4 DEF IInv, TypeOK, NoPanic, PC
<1>6. \A d \in CPU : d # c => on[d] # p /\ on'[d] = on[d]
  BY <1>1, Names, SchedulerTypes DEF IInv, OneCpuPerStack
<1>7. OneCpuPerStack'
  BY <1>1, <1>6 DEF IInv, OneCpuPerStack
<1>8. \A q \in Proc : q # p => pc'[q] = pc[q] /\ intena'[q] = intena[q]
  BY <1>1, Types, SchedulerTypes
<1>9. CpuInv'
  <2>1. on'[c] = Scheduler /\ \A q \in Proc : on'[c] # q
    BY <1>1, Names, Types, SchedulerTypes
  <2>2. LocksOf(c)'
    BY <1>1, <1>2, <1>3, <2>1 DEF LocksOf, HasPtable, HasLk
  <2>3. ASSUME NEW d \in CPU, d # c
        PROVE  LocksOf(d)' /\ \A q \in Proc : on'[d] = q => Executes(d, q)'
    <3>1. on[d] # Scheduler => on[d] \in Proc /\ pc'[on[d]] = pc[on[d]]
      BY <1>6, <1>8, <2>3, Types, SchedulerTypes
    <3>2. LocksOf(d)'
      BY <1>1, <1>6, <2>3, <3>1, SchedulerTypes DEF LocksOf, HasPtable, HasLk
    <3>3. ASSUME NEW q \in Proc, on'[d] = q PROVE Executes(d, q)'
      <4>1. Executes(d, q) /\ pc'[q] = pc[q]
        BY <1>6, <1>8, <2>3, <3>3, Zenon DEF IInv, CpuInv
      <4>2. QED BY <1>1, <4>1 DEF Executes, Preemptible
    <3>4. QED BY <3>2, <3>3
  <2>4. QED BY <2>1, <2>2, <2>3 DEF CpuInv
<1>10. OffCpu'
  <2>1. ASSUME NEW q \in Proc, \A d \in CPU : on'[d] # q
        PROVE  pc'[q] \in {"forkret", "resume"} /\ state'[q] # "RUNNING"
    <3>1. CASE q = p
      BY <1>1, <1>3, <3>1, Types, SchedulerTypes
    <3>2. CASE q # p
      BY <1>1, <1>6, <1>8, <2>1, <3>2 DEF IInv, OffCpu
    <3>3. QED BY <3>1, <3>2
  <2>2. QED BY <2>1 DEF OffCpu
<1>11. Saved'
  <2>1. intena'[p] = Preemptible(p)
    BY <1>1, <1>3 DEF IInv, TypeOK
  <2>2. QED BY <1>1, <1>8, <2>1 DEF IInv, Saved, Preemptible
<1>12. WakeInv'
  <2>1. \A q \in Proc : pc'[q] \in Drowsy => pc[q] \in Drowsy
    BY <1>1, <1>8 DEF IInv, TypeOK, Drowsy
  <2>2. \A q \in Proc : pc[q] = "wakeup" => pc'[q] = "wakeup"
    BY <1>1, <1>8
  <2>3. QED BY <1>1, <2>1, <2>2, Zenon DEF IInv, WakeInv
<1>13. QED BY <1>5, <1>7, <1>9, <1>10, <1>11, <1>12 DEF IInv

-----------------------------------------------------------------------------
(* The theorems *)

LEMMA InitIInv == Init => IInv
<1> SUFFICES ASSUME Init PROVE IInv
  OBVIOUS
<1>1. TypeOK
  BY SchedAssumption DEF Init, TypeOK, CpuState, PC, Unlocked
<1>2. \A c \in CPU : \A p \in Proc : on[c] # p /\ on[c] = Scheduler
  BY Names DEF Init
<1>3. CpuInv
  <2>1. ASSUME NEW c \in CPU PROVE LocksOf(c)
    BY SchedAssumption DEF Init, LocksOf, HasPtable, HasLk
  <2>2. QED BY <1>2, <2>1 DEF CpuInv
<1>4. NoPanic /\ OneCpuPerStack /\ OffCpu /\ Saved /\ WakeInv
  BY DEF Init, NoPanic, OneCpuPerStack, OffCpu, Saved, WakeInv
<1>5. QED BY <1>1, <1>3, <1>4 DEF IInv

LEMMA StepIInv ==
  ASSUME IInv, NEW c \in CPU, Step(c)
  PROVE  IInv'
<1>1. CASE scheduler_sti(c) \/ scheduler_acquire(c) \/ scheduler_swtch(c)
  BY <1>1, SchedulerStiIInv, SchedulerAcquireIInv, SchedulerSwtchIInv
<1>2. CASE scheduler_return(c) \/ scheduler_release(c)
  BY <1>2, SchedulerReturnIInv, SchedulerReleaseIInv
<1>3. ASSUME NEW p \in Proc,
             \/ sched(c, p) \/ resume(c, p) \/ forkret(c, p)
             \/ yield(c, p) \/ yield_return(c, p) \/ iret(c, p)
      PROVE  IInv'
  BY <1>3, SchedIInv, ResumeIInv, ForkretIInv, YieldIInv, YieldReturnIInv, IretIInv
<1>4. ASSUME NEW p \in Proc,
             \/ acquire_lk(c, p) \/ test(c, p)
             \/ sleep(c, p) \/ sleep_release(c, p) \/ sleep_set(c, p) \/ sleep_return(c, p)
             \/ wakeup(c, p) \/ produced(c, p)
      PROVE  IInv'
  BY <1>4, AcquireLkIInv, TestIInv, SleepIInv, SleepReleaseIInv, SleepSetIInv, SleepReturnIInv,
     WakeupIInv, ProducedIInv
<1>5. QED BY <1>1, <1>2, <1>3, <1>4 DEF Step

\* Every step of every CPU, of a device and of the timer keeps the invariant that
\* says which lock a control point holds, what the CPU's interrupt flag is there,
\* and where a process may be that no CPU executes.
THEOREM SchedInductive == Spec => []IInv
<1>1. ASSUME IInv, [Next]_vars PROVE IInv'
  <2>1. CASE UNCHANGED vars
    BY <1>1, <2>1 DEF vars, IInv, TypeOK, NoPanic, OneCpuPerStack, CpuInv, LocksOf, HasPtable, HasLk,
       Executes, Preemptible, OffCpu, Saved, WakeInv
  <2>2. ASSUME NEW c \in CPU, NEW p \in Proc, timer(c, p) \/ syscall(c, p) PROVE IInv'
    BY <1>1, <2>2, TimerIInv, SyscallIInv, Zenon
  <2>3. ASSUME NEW c \in CPU, device(c) PROVE IInv'
    BY <1>1, <2>3, DeviceIInv, Zenon
  <2>4. ASSUME NEW c \in CPU, Step(c) PROVE IInv'
    BY <1>1, <2>4, StepIInv, Zenon
  <2>5. QED BY <1>1, <2>1, <2>2, <2>3, <2>4 DEF Next
<1>2. QED BY <1>1, InitIInv, PTL DEF Spec

LEMMA IInvInv == IInv => Inv
<1> SUFFICES ASSUME IInv PROVE Inv
  OBVIOUS
<1>1. StatesAreTrue
  <2>1. ASSUME ptl = NoCpu, NEW p \in Proc, state[p] = "RUNNING"
        PROVE  \E c \in CPU : on[c] = p /\ curproc[c] = p
    <3>1. PICK c \in CPU : on[c] = p
      BY <2>1 DEF IInv, OffCpu
    <3>2. QED BY <3>1 DEF IInv, CpuInv, Executes
  <2>2. ASSUME ptl = NoCpu, NEW p \in Proc, NEW c \in CPU, on[c] = p
        PROVE  state[p] = "RUNNING"
    <3>1. pc[p] \notin InPtable /\ Executes(c, p)
      BY <2>2, Owned, Names
    <3>2. QED BY <3>1 DEF Executes, InPtable
  <2>3. QED BY <2>1, <2>2 DEF StatesAreTrue
<1>2. InterruptsFollowThread
  BY DEF IInv, CpuInv, Executes, InterruptsFollowThread
<1>3. QED BY <1>1, <1>2 DEF IInv, Inv

\* The process table is consistent at every step, for any number of CPUs and of
\* processes: no CPU is switched to the stack of a process another CPU has yet to
\* leave, states are true whenever ptable.lock is free, a kernel thread finds the
\* interrupt flag as it left it whatever CPU it comes back on, and none of the
\* checks of sched() fails.
THEOREM SchedInv == Spec => []Inv
BY SchedInductive, IInvInv, PTL

\* No wakeup is lost between the test of the condition and SLEEPING: sleep() holds
\* lk until it has ptable.lock, and wakeup() is called with lk held.
THEOREM SchedNoLostWakeup == Spec => []NoLostWakeup
<1>1. IInv => NoLostWakeup
  BY DEF IInv, WakeInv, NoLostWakeup
<1>2. QED BY <1>1, SchedInductive, PTL
=============================================================================
