-------------------------------- MODULE Sched --------------------------------
(***************************************************************************)
(* Scheduling and sleep/wakeup of xv6/proc.c on several CPUs: the per-CPU   *)
(* scheduler loop, sched() and swtch, yield() from the timer interrupt,     *)
(* forkret(), sleep() and wakeup().  ptable.lock is held across a context   *)
(* switch: it is taken on one stack and released on another.                *)
(*                                                                         *)
(* Processes wait for a condition in the pattern every caller of sleep()    *)
(* uses (acquire lk; while(!cond) sleep(chan, lk); ...; release lk), and    *)
(* other processes, or an interrupt handler, make it true and call wakeup() *)
(* holding lk.  An acquire is one step, taken when the lock is free: what   *)
(* happens inside it is the subject of SpinLock.                            *)
(***************************************************************************)
EXTENDS Cli

CONSTANTS CPU, NPROC, NoCpu, NoProc, Scheduler

ASSUME SchedAssumption ==
  NPROC \in Nat \ {0} /\ NoCpu \notin CPU /\ {NoProc, Scheduler} \cap (1..NPROC) = {}

Proc == 1..NPROC

VARIABLES
  ptl,       \* the CPU that owns ptable.lock
  lkl,       \* the CPU that owns the condition's lock lk
  cpu,       \* per-CPU interrupt state, see Cli
  curproc,   \* struct cpu.proc
  on,        \* whose kernel stack the CPU executes on
  spc, next, \* the scheduler's control point and its loop variable p
  state,     \* struct proc.state
  asleep,    \* struct proc.chan is the condition's channel
  pc,        \* control point of a process
  after,     \* where sched() returns to: in yield() or in sleep()
  back,      \* what the timer interrupt interrupted
  intena,    \* the local variable of sched()
  cond,      \* the condition processes wait for
  panicked

locks == <<ptl, lkl>>
sched_vars == <<curproc, on, spc, next>>
proc_vars == <<state, asleep, pc, after, back, intena>>
vars == <<ptl, lkl, cpu, curproc, on, spc, next, state, asleep, pc, after, back,
          intena, cond, panicked>>

\* Control points at which a process runs with no lock held.
Unlocked == {"user", "consume", "produce"}
PC == Unlocked \cup
      {"forkret", "test", "sleep", "sleep_release", "sleep_set", "sched", "resume",
       "sleep_return", "wakeup", "produced", "yield", "yield_return", "iret", "trapret"}

TypeOK ==
  /\ ptl \in CPU \cup {NoCpu} /\ lkl \in CPU \cup {NoCpu}
  /\ cpu \in [CPU -> CpuState]
  /\ curproc \in [CPU -> Proc \cup {NoProc}]
  /\ on \in [CPU -> Proc \cup {Scheduler}]
  /\ spc \in [CPU -> {"sti", "acquire", "scan", "swtch"}]
  /\ next \in [CPU -> 1..(NPROC + 1)]
  /\ state \in [Proc -> {"RUNNABLE", "RUNNING", "SLEEPING"}]
  /\ asleep \in [Proc -> {0, 1}]
  /\ pc \in [Proc -> PC]
  /\ after \in [Proc -> {"yield_return", "sleep_return"}]
  /\ back \in [Proc -> Unlocked]
  /\ intena \in [Proc -> {0, 1}]
  /\ cond \in {0, 1} /\ panicked \in {0, 1}

\* Every CPU enters scheduler(); the processes are RUNNABLE children of fork.
Init ==
  /\ ptl = NoCpu /\ lkl = NoCpu
  /\ cpu = [c \in CPU |-> [FL_IF |-> 0, ncli |-> 0, intena |-> 0]]
  /\ curproc = [c \in CPU |-> NoProc]
  /\ on = [c \in CPU |-> Scheduler]
  /\ spc = [c \in CPU |-> "sti"] /\ next = [c \in CPU |-> 1]
  /\ state = [p \in Proc |-> "RUNNABLE"]
  /\ asleep = [p \in Proc |-> 0]
  /\ pc = [p \in Proc |-> "forkret"]
  /\ after = [p \in Proc |-> "yield_return"]
  /\ back = [p \in Proc |-> "user"]
  /\ intena = [p \in Proc |-> 0]
  /\ cond = 0 /\ panicked = 0

\* CPU c executes process p, which stands at s.
At(c, p, s) == panicked = 0 /\ on[c] = p /\ pc[p] = s
InScheduler(c, s) == panicked = 0 /\ on[c] = Scheduler /\ spc[c] = s

Goto(p, s) == pc' = [pc EXCEPT ![p] = s]

acquire_ptable(c) ==
  ptl = NoCpu /\ ptl' = c /\ cpu' = [cpu EXCEPT ![c] = pushcli(@)]

release_ptable(c) ==
  ptl' = NoCpu /\ cpu' = [cpu EXCEPT ![c] = popcli(@)]

-----------------------------------------------------------------------------
(* scheduler() *)

scheduler_sti(c) ==
  /\ InScheduler(c, "sti")
  /\ cpu' = [cpu EXCEPT ![c].FL_IF = 1]
  /\ spc' = [spc EXCEPT ![c] = "acquire"]
  /\ UNCHANGED <<locks, curproc, on, next, proc_vars, cond, panicked>>

scheduler_acquire(c) ==
  /\ InScheduler(c, "acquire")
  /\ acquire_ptable(c)
  /\ spc' = [spc EXCEPT ![c] = "scan"]
  /\ next' = [next EXCEPT ![c] = 1]
  /\ UNCHANGED <<lkl, curproc, on, proc_vars, cond, panicked>>

\* Variant: the scan starts over after every switch.
Ahead_restarts(c) == {p \in Proc : state[p] = "RUNNABLE"}

\* The RUNNABLE processes the loop has still to come to.
Ahead(c) == {p \in Proc : p >= next[c] /\ state[p] = "RUNNABLE"}

\* The loop passes over processes that are not RUNNABLE and switches to the
\* first that is.
scheduler_swtch(c) ==
  /\ InScheduler(c, "scan")
  /\ \E p \in Ahead(c) :
       /\ \A q \in Ahead(c) : p <= q
       /\ curproc' = [curproc EXCEPT ![c] = p]
       /\ state' = [state EXCEPT ![p] = "RUNNING"]
       /\ on' = [on EXCEPT ![c] = p]
       /\ next' = [next EXCEPT ![c] = p + 1]
  /\ spc' = [spc EXCEPT ![c] = "swtch"]
  /\ UNCHANGED <<locks, cpu, asleep, pc, after, back, intena, cond, panicked>>

\* Back on the scheduler's stack.
scheduler_return(c) ==
  /\ InScheduler(c, "swtch")
  /\ curproc' = [curproc EXCEPT ![c] = NoProc]
  /\ spc' = [spc EXCEPT ![c] = "scan"]
  /\ UNCHANGED <<locks, cpu, on, next, proc_vars, cond, panicked>>

scheduler_release(c) ==
  /\ InScheduler(c, "scan")
  /\ Ahead(c) = {}
  /\ release_ptable(c)
  /\ spc' = [spc EXCEPT ![c] = "sti"]
  /\ UNCHANGED <<lkl, curproc, on, next, proc_vars, cond, panicked>>

-----------------------------------------------------------------------------
(* sched(), yield(), forkret() *)

\* The four checks of sched().
sched_panics(c, p) ==
  ptl # c \/ cpu[c].ncli # 1 \/ state[p] = "RUNNING" \/ cpu[c].FL_IF = 1

\* sched() up to the switch to the scheduler's stack.
sched(c, p) ==
  /\ At(c, p, "sched")
  /\ panicked' = IF sched_panics(c, p) THEN 1 ELSE 0
  /\ intena' = [intena EXCEPT ![p] = cpu[c].intena]
  /\ Goto(p, "resume")
  /\ on' = [on EXCEPT ![c] = Scheduler]
  /\ UNCHANGED <<locks, cpu, curproc, spc, next, state, asleep, after, back, cond>>

\* The end of sched(), possibly on another CPU.
resume(c, p) ==
  /\ At(c, p, "resume")
  /\ cpu' = [cpu EXCEPT ![c].intena = intena[p]]
  /\ Goto(p, after[p])
  /\ UNCHANGED <<locks, sched_vars, state, asleep, after, back, intena, cond, panicked>>

\* The timer interrupts whatever the process does with interrupts enabled.
timer(c, p) ==
  /\ panicked = 0 /\ on[c] = p
  /\ cpu[c].FL_IF = 1 /\ pc[p] \in Unlocked
  /\ cpu' = [cpu EXCEPT ![c].FL_IF = 0]
  /\ back' = [back EXCEPT ![p] = pc[p]]
  /\ Goto(p, "yield")
  /\ UNCHANGED <<locks, sched_vars, state, asleep, after, intena, cond, panicked>>

\* Variant: the state changes before ptable.lock is taken.
yield_unlocked(c, p) ==
  /\ At(c, p, "yield")
  /\ IF state[p] = "RUNNING"
       THEN state' = [state EXCEPT ![p] = "RUNNABLE"] /\ UNCHANGED <<ptl, cpu, pc, after>>
       ELSE /\ acquire_ptable(c) /\ after' = [after EXCEPT ![p] = "yield_return"]
            /\ Goto(p, "sched") /\ UNCHANGED state
  /\ UNCHANGED <<lkl, sched_vars, asleep, back, intena, cond, panicked>>

yield(c, p) ==
  /\ At(c, p, "yield")
  /\ acquire_ptable(c)
  /\ state' = [state EXCEPT ![p] = "RUNNABLE"]
  /\ after' = [after EXCEPT ![p] = "yield_return"]
  /\ Goto(p, "sched")
  /\ UNCHANGED <<lkl, sched_vars, asleep, back, intena, cond, panicked>>

yield_return(c, p) ==
  /\ At(c, p, "yield_return")
  /\ release_ptable(c)
  /\ Goto(p, "iret")
  /\ UNCHANGED <<lkl, sched_vars, state, asleep, after, back, intena, cond, panicked>>

\* The end of trap(), for the timer interrupt or for a new process.
iret(c, p) ==
  /\ At(c, p, "iret") \/ At(c, p, "trapret")
  /\ cpu' = [cpu EXCEPT ![c].FL_IF = 1]
  /\ Goto(p, back[p])
  /\ UNCHANGED <<locks, sched_vars, state, asleep, after, back, intena, cond, panicked>>

\* A fork child's first switch; it leaves the kernel by trapret, with the
\* FL_IF of its parent's user mode.
forkret(c, p) ==
  /\ At(c, p, "forkret")
  /\ release_ptable(c)
  /\ Goto(p, "trapret")
  /\ UNCHANGED <<lkl, sched_vars, state, asleep, after, back, intena, cond, panicked>>

-----------------------------------------------------------------------------
(* sleep() and wakeup(), in the pattern their callers use. *)

\* A system call that will consume the condition, or produce it.
syscall(c, p) ==
  /\ At(c, p, "user")
  /\ \E s \in {"consume", "produce"} : Goto(p, s)
  /\ UNCHANGED <<locks, cpu, sched_vars, state, asleep, after, back, intena, cond, panicked>>

\* acquire(lk): at the start of the caller, and again at the end of sleep().
acquire_lk(c, p) ==
  /\ panicked = 0 /\ on[c] = p /\ pc[p] \in {"consume", "produce"}
  /\ lkl = NoCpu /\ lkl' = c
  /\ cpu' = [cpu EXCEPT ![c] = pushcli(@)]
  /\ IF pc[p] = "consume" THEN Goto(p, "test") /\ UNCHANGED cond
                          ELSE Goto(p, "wakeup") /\ cond' = 1
  /\ UNCHANGED <<ptl, sched_vars, state, asleep, after, back, intena, panicked>>

\* while(!cond) sleep(chan, lk); cond = 0; release(lk).
test(c, p) ==
  /\ At(c, p, "test")
  /\ IF cond = 0
       THEN Goto(p, "sleep") /\ UNCHANGED <<lkl, cpu, cond>>
       ELSE /\ cond' = 0 /\ lkl' = NoCpu
            /\ cpu' = [cpu EXCEPT ![c] = popcli(@)]
            /\ Goto(p, "user")
  /\ UNCHANGED <<ptl, sched_vars, state, asleep, after, back, intena, panicked>>

\* Variant: lk is released before ptable.lock is acquired.
sleep_releases_first(c, p) ==
  /\ At(c, p, "sleep")
  /\ IF lkl = c
       THEN lkl' = NoCpu /\ cpu' = [cpu EXCEPT ![c] = popcli(@)] /\ UNCHANGED <<ptl, pc>>
       ELSE acquire_ptable(c) /\ Goto(p, "sleep_set") /\ UNCHANGED lkl
  /\ UNCHANGED <<sched_vars, state, asleep, after, back, intena, cond, panicked>>

sleep(c, p) ==
  /\ At(c, p, "sleep")
  /\ acquire_ptable(c)
  /\ Goto(p, "sleep_release")
  /\ UNCHANGED <<lkl, sched_vars, state, asleep, after, back, intena, cond, panicked>>

sleep_release(c, p) ==
  /\ At(c, p, "sleep_release")
  /\ lkl' = NoCpu
  /\ cpu' = [cpu EXCEPT ![c] = popcli(@)]
  /\ Goto(p, "sleep_set")
  /\ UNCHANGED <<ptl, sched_vars, state, asleep, after, back, intena, cond, panicked>>

sleep_set(c, p) ==
  /\ At(c, p, "sleep_set")
  /\ asleep' = [asleep EXCEPT ![p] = 1]
  /\ state' = [state EXCEPT ![p] = "SLEEPING"]
  /\ after' = [after EXCEPT ![p] = "sleep_return"]
  /\ Goto(p, "sched")
  /\ UNCHANGED <<locks, cpu, sched_vars, back, intena, cond, panicked>>

\* p->chan = 0, release(&ptable.lock); acquire(lk) follows.
sleep_return(c, p) ==
  /\ At(c, p, "sleep_return")
  /\ asleep' = [asleep EXCEPT ![p] = 0]
  /\ release_ptable(c)
  /\ Goto(p, "consume")
  /\ UNCHANGED <<lkl, sched_vars, state, after, back, intena, cond, panicked>>

\* wakeup1 on the condition's channel.
Woken ==
  [p \in Proc |-> IF state[p] = "SLEEPING" /\ asleep[p] = 1 THEN "RUNNABLE" ELSE state[p]]

\* wakeup(): one critical section of ptable.lock, which must be free.
wakeup(c, p) ==
  /\ At(c, p, "wakeup")
  /\ ptl = NoCpu
  /\ state' = Woken
  /\ Goto(p, "produced")
  /\ UNCHANGED <<locks, cpu, sched_vars, asleep, after, back, intena, cond, panicked>>

\* release(lk) after wakeup.
produced(c, p) ==
  /\ At(c, p, "produced")
  /\ lkl' = NoCpu
  /\ cpu' = [cpu EXCEPT ![c] = popcli(@)]
  /\ Goto(p, "user")
  /\ UNCHANGED <<ptl, sched_vars, state, asleep, after, back, intena, cond, panicked>>

\* A device interrupt whose handler makes the condition true: acquire(lk),
\* wakeup, release(lk), with interrupts off throughout.
device(c) ==
  /\ panicked = 0
  /\ cpu[c].FL_IF = 1
  /\ lkl = NoCpu /\ ptl = NoCpu
  /\ cond' = 1
  /\ state' = Woken
  /\ UNCHANGED <<locks, cpu, sched_vars, asleep, pc, after, back, intena, panicked>>

-----------------------------------------------------------------------------

\* What CPU c does next by itself, in the kernel.
Step(c) ==
  \/ scheduler_sti(c) \/ scheduler_acquire(c) \/ scheduler_swtch(c)
  \/ scheduler_return(c) \/ scheduler_release(c)
  \/ \E p \in Proc :
       \/ sched(c, p) \/ resume(c, p) \/ forkret(c, p)
       \/ yield(c, p) \/ yield_return(c, p) \/ iret(c, p)
       \/ acquire_lk(c, p) \/ test(c, p)
       \/ sleep(c, p) \/ sleep_release(c, p) \/ sleep_set(c, p) \/ sleep_return(c, p)
       \/ wakeup(c, p) \/ produced(c, p)

Next ==
  \E c \in CPU :
    \/ Step(c)
    \/ device(c)
    \/ \E p \in Proc : timer(c, p) \/ syscall(c, p)

\* A CPU in the kernel keeps executing.  An interrupt stays pending while
\* interrupts are off, so it is delivered if they are on again and again.
Fairness ==
  /\ \A c \in CPU : WF_vars(Step(c)) /\ \A p \in Proc : SF_vars(timer(c, p))
  /\ SF_vars(\E c \in CPU : device(c))

Spec == Init /\ [][Next]_vars
FairSpec == Spec /\ Fairness

-----------------------------------------------------------------------------
(* Properties *)

\* No two CPUs execute on the stack of one process: the scheduler never picks
\* a process whose previous CPU has not yet switched away from it.
OneCpuPerStack ==
  \A c, d \in CPU : c # d /\ on[c] = on[d] => on[c] = Scheduler

\* Whoever takes ptable.lock finds the table true: a process is RUNNING exactly
\* if some CPU is executing it and has it as its current process.
StatesAreTrue ==
  ptl = NoCpu => \A p \in Proc :
    state[p] = "RUNNING" <=> \E c \in CPU : on[c] = p /\ curproc[c] = p

\* sched() is only ever entered as it demands: with ptable.lock held, no other
\* lock, the state changed and interrupts off.
NoPanic == panicked = 0

\* intena belongs to the kernel thread: whatever CPU it comes back on, a thread
\* has interrupts enabled outside its critical sections exactly if it had
\* before, so a handler is not re-entered and a system call stays preemptible.
InterruptsFollowThread ==
  \A c \in CPU, p \in Proc : on[c] = p =>
    /\ pc[p] \in Unlocked => cpu[c].FL_IF = 1
    /\ pc[p] \in {"yield", "iret"} => cpu[c].FL_IF = 0

\* No wakeup is lost: if the condition holds and a process still sleeps on it,
\* somebody who made it true has yet to call wakeup.
NoLostWakeup ==
  cond = 1 /\ (\E p \in Proc : state[p] = "SLEEPING") => \E q \in Proc : pc[q] = "wakeup"

\* Round robin: a process that can run does.
RunnableRuns == \A p \in Proc : state[p] = "RUNNABLE" ~> state[p] = "RUNNING"

\* The process table is consistent at every step of every CPU: no CPU uses a
\* stack another is still on, states are true whenever ptable.lock is free, the
\* interrupt flag follows its thread, and sched's own checks hold.
Inv == TypeOK /\ NoPanic /\ StatesAreTrue /\ OneCpuPerStack /\ InterruptsFollowThread
=============================================================================
