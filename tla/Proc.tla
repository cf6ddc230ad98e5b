-------------------------------- MODULE Proc --------------------------------
(***************************************************************************)
(* The life of processes in xv6/proc.c: allocproc, fork, exit, wait and     *)
(* kill, with the checks of p->killed in trap() and the way init.c adopts   *)
(* orphans.  A critical section of ptable.lock is one action; everything    *)
(* fork and allocproc do to the new slot outside the lock is its own step.  *)
(*                                                                         *)
(* "RUNNABLE" stands for RUNNABLE and RUNNING: which CPU executes a process *)
(* is the subject of Sched.  The memory allocator may refuse any request.   *)
(***************************************************************************)
EXTENDS Integers, FiniteSets, FiniteSetsExt

CONSTANTS
  NPROC,    \* slots of ptable
  CALLS,    \* what programs other than init do
  MAXPID    \* bound: no process asks for a fork once nextpid has passed it

ASSUME ProcAssumption ==
  /\ NPROC \in Nat \ {0} /\ MAXPID \in Nat \ {0}
  /\ CALLS \subseteq {"fork", "wait", "kill", "sleep", "exit", "fault"}

Slot == 1..NPROC
None == 0            \* the null struct proc*
initproc == 1

VARIABLES
  state, pid, parent, killed, chan,   \* fields of struct proc
  kstack, pgdir,     \* 1: points to memory the slot owns; 0: null; 2: dangling
  nextpid,
  pc,                \* control point of the process in the slot
  np, ret,           \* fork's np; the value the system call returns
  shpid,             \* init.c's pid: the shell it waits for, 0 while it has none
  panicked

table == <<state, pid, parent, killed, chan, kstack, pgdir>>
vars == <<state, pid, parent, killed, chan, kstack, pgdir, nextpid, pc, np, ret,
          shpid, panicked>>

Ticks == NPROC + 1   \* the channel &ticks; a process sleeps in wait on itself
Alive == {"SLEEPING", "RUNNABLE"}
InFork == {"kalloc", "copyuvm", "run"}

TypeOK ==
  /\ state \in [Slot -> {"UNUSED", "EMBRYO", "SLEEPING", "RUNNABLE", "ZOMBIE"}]
  /\ pid \in [Slot -> Nat]
  /\ parent \in [Slot -> Slot \cup {None}]
  /\ killed \in [Slot -> {0, 1}]
  /\ chan \in [Slot -> 0..Ticks]
  /\ kstack \in [Slot -> {0, 1}]
  /\ pgdir \in [Slot -> {0, 1, 2}]
  /\ nextpid \in Nat \ {0}
  /\ pc \in [Slot -> {"user", "fork", "wait", "kill", "sleep", "block", "return",
                      "exit", "exiting"} \cup InFork]
  /\ np \in [Slot -> Slot \cup {None}]
  /\ ret \in [Slot -> Nat \cup {-1}]
  /\ shpid \in Nat
  /\ panicked \in {0, 1}

\* After userinit: init runs, everything else is zero.
Init ==
  /\ state = [p \in Slot |-> IF p = initproc THEN "RUNNABLE" ELSE "UNUSED"]
  /\ pid = [p \in Slot |-> IF p = initproc THEN 1 ELSE 0]
  /\ parent = [p \in Slot |-> None]
  /\ killed = [p \in Slot |-> 0]
  /\ chan = [p \in Slot |-> 0]
  /\ kstack = [p \in Slot |-> IF p = initproc THEN 1 ELSE 0]
  /\ pgdir = [p \in Slot |-> IF p = initproc THEN 1 ELSE 0]
  /\ nextpid = 2
  /\ pc = [p \in Slot |-> "user"]
  /\ np = [p \in Slot |-> None]
  /\ ret = [p \in Slot |-> 0]
  /\ shpid = 0
  /\ panicked = 0

\* A CPU executes process p at s.
Runs(p, s) == panicked = 0 /\ state[p] = "RUNNABLE" /\ pc[p] = s

Goto(p, s) == pc' = [pc EXCEPT ![p] = s]

Return(p, v) == Goto(p, "return") /\ ret' = [ret EXCEPT ![p] = v]

-----------------------------------------------------------------------------
(* trap() *)

\* The system calls a program may make next; init follows init.c.
Calls(p) ==
  IF p = initproc THEN IF shpid = 0 THEN {"fork"} ELSE {"wait"}
  ELSE CALLS \ IF nextpid <= MAXPID THEN {"fault"} ELSE {"fault", "fork"}

syscall(p) ==
  /\ Runs(p, "user")
  /\ IF killed[p] = 1 THEN Goto(p, "exit") ELSE \E s \in Calls(p) : Goto(p, s)
  /\ np' = [np EXCEPT ![p] = None] /\ ret' = [ret EXCEPT ![p] = 0]
  /\ UNCHANGED <<table, nextpid, shpid, panicked>>

\* The program of init: fork a shell, wait until it exits, again; exit if fork
\* fails.  At the bound init goes on waiting without a shell.
init_main ==
  IF shpid = 0 THEN shpid' = IF ret[initproc] < 0 THEN 0 ELSE ret[initproc]
  ELSE shpid' = IF ret[initproc] \in {-1, shpid} /\ nextpid <= MAXPID THEN 0 ELSE shpid

\* Back from syscall(): the second check of killed, then user code.
syscall_return(p) ==
  /\ Runs(p, "return")
  /\ Goto(p, IF killed[p] = 1 \/ (p = initproc /\ shpid = 0 /\ ret[p] < 0)
               THEN "exit" ELSE "user")
  /\ IF p = initproc THEN init_main ELSE UNCHANGED shpid
  /\ UNCHANGED <<table, nextpid, np, ret, panicked>>

\* A timer interrupt in user space ends a killed process.
timer(p) ==
  /\ Runs(p, "user") /\ killed[p] = 1
  /\ Goto(p, "exit")
  /\ UNCHANGED <<table, nextpid, np, ret, shpid, panicked>>

\* An exception in user space: the process kills itself.
fault(p) ==
  /\ Runs(p, "user") /\ p # initproc /\ "fault" \in CALLS
  /\ killed' = [killed EXCEPT ![p] = 1]
  /\ Goto(p, "exit")
  /\ UNCHANGED <<state, pid, parent, chan, kstack, pgdir, nextpid, np, ret, shpid, panicked>>

-----------------------------------------------------------------------------
(* fork() *)

\* allocproc up to release(&ptable.lock): the first UNUSED slot.
allocproc(p) ==
  /\ Runs(p, "fork")
  /\ LET free == {q \in Slot : state[q] = "UNUSED"} IN
       IF free = {}
         THEN Return(p, -1) /\ UNCHANGED <<state, pid, nextpid, np>>
         ELSE LET q == Min(free) IN
                /\ state' = [state EXCEPT ![q] = "EMBRYO"]
                /\ pid' = [pid EXCEPT ![q] = nextpid]
                /\ nextpid' = nextpid + 1
                /\ np' = [np EXCEPT ![p] = q]
                /\ Goto(p, "kalloc") /\ UNCHANGED ret
  /\ UNCHANGED <<parent, killed, chan, kstack, pgdir, shpid, panicked>>

\* The kernel stack; without one the slot is given back, its pid still set.
allocproc_kstack(p) ==
  /\ Runs(p, "kalloc")
  /\ \/ /\ kstack' = [kstack EXCEPT ![np[p]] = 1]
        /\ Goto(p, "copyuvm")
        /\ UNCHANGED <<state, ret>>
     \/ /\ kstack' = [kstack EXCEPT ![np[p]] = 0]
        /\ state' = [state EXCEPT ![np[p]] = "UNUSED"]
        /\ Return(p, -1)
  /\ UNCHANGED <<pid, parent, killed, chan, pgdir, nextpid, np, shpid, panicked>>

\* The address space, the parent and, before the child can run, its pid.
fork_copyuvm(p) ==
  /\ Runs(p, "copyuvm")
  /\ \/ /\ pgdir' = [pgdir EXCEPT ![np[p]] = 1]
        /\ parent' = [parent EXCEPT ![np[p]] = p]
        /\ ret' = [ret EXCEPT ![p] = pid[np[p]]]
        /\ Goto(p, "run")
        /\ UNCHANGED <<state, kstack>>
     \/ /\ pgdir' = [pgdir EXCEPT ![np[p]] = 0]
        /\ kstack' = [kstack EXCEPT ![np[p]] = 0]
        /\ state' = [state EXCEPT ![np[p]] = "UNUSED"]
        /\ Return(p, -1)
        /\ UNCHANGED parent
  /\ UNCHANGED <<pid, killed, chan, nextpid, np, shpid, panicked>>

\* The child becomes RUNNABLE and starts in user space, fork returning 0 there.
fork_run(p) ==
  /\ Runs(p, "run")
  /\ state' = [state EXCEPT ![np[p]] = "RUNNABLE"]
  /\ pc' = [pc EXCEPT ![p] = "return", ![np[p]] = "user"]
  /\ ret' = [ret EXCEPT ![np[p]] = 0]
  /\ np' = [np EXCEPT ![np[p]] = None]
  /\ UNCHANGED <<pid, parent, killed, chan, kstack, pgdir, nextpid, shpid, panicked>>

-----------------------------------------------------------------------------
(* exit(), wait(), kill(), and sleeping *)

\* Up to the lock: init must not exit; files and cwd are closed.
exit(p) ==
  /\ Runs(p, "exit")
  /\ panicked' = IF p = initproc THEN 1 ELSE 0
  /\ Goto(p, "exiting")
  /\ UNCHANGED <<table, nextpid, np, ret, shpid>>

\* wakeup1 on every channel in C.
Woken(C) == [q \in Slot |-> IF state[q] = "SLEEPING" /\ chan[q] \in C THEN "RUNNABLE" ELSE state[q]]

Children(p) == {q \in Slot : parent[q] = p}
ZombieChildren(p) == {q \in Children(p) : state[q] = "ZOMBIE"}

\* The control point of a thread that will not run again is forgotten.
Dead(p) ==
  /\ Goto(p, "user")
  /\ np' = [np EXCEPT ![p] = None] /\ ret' = [ret EXCEPT ![p] = 0]

\* Variant: the children are abandoned.
exit_zombie_abandons(p) ==
  /\ Runs(p, "exiting")
  /\ state' = [Woken({parent[p]}) EXCEPT ![p] = "ZOMBIE"]
  /\ Dead(p)
  /\ UNCHANGED <<pid, parent, killed, chan, kstack, pgdir, nextpid, shpid, panicked>>

\* The critical section of exit, which ends in sched().
exit_zombie(p) ==
  /\ Runs(p, "exiting")
  /\ state' = [Woken({parent[p]} \cup IF ZombieChildren(p) # {} THEN {initproc} ELSE {})
                 EXCEPT ![p] = "ZOMBIE"]
  /\ parent' = [q \in Slot |-> IF q \in Children(p) THEN initproc ELSE parent[q]]
  /\ Dead(p)
  /\ UNCHANGED <<pid, killed, chan, kstack, pgdir, nextpid, shpid, panicked>>

\* wait() frees the first zombie child and returns its pid.
Reap(p, q) ==
  /\ kstack' = [kstack EXCEPT ![q] = 0]
  /\ pgdir' = [pgdir EXCEPT ![q] = 2]
  /\ pid' = [pid EXCEPT ![q] = 0]
  /\ parent' = [parent EXCEPT ![q] = None]
  /\ killed' = [killed EXCEPT ![q] = 0]
  /\ state' = [state EXCEPT ![q] = "UNUSED"]
  /\ chan' = [chan EXCEPT ![p] = 0]
  /\ Return(p, pid[q])

\* One round of wait()'s loop; sleep() keeps ptable.lock until sched().
wait(p) ==
  /\ Runs(p, "wait")
  /\ IF ZombieChildren(p) # {}
       THEN Reap(p, Min(ZombieChildren(p)))
       ELSE /\ IF Children(p) = {} \/ killed[p] = 1
                 THEN /\ Return(p, -1) /\ chan' = [chan EXCEPT ![p] = 0]
                      /\ UNCHANGED state
                 ELSE /\ state' = [state EXCEPT ![p] = "SLEEPING"]
                      /\ chan' = [chan EXCEPT ![p] = p]
                      /\ UNCHANGED <<pc, ret>>
            /\ UNCHANGED <<pid, parent, killed, kstack, pgdir>>
  /\ UNCHANGED <<nextpid, np, shpid, panicked>>

\* Variant: the victim is left asleep.
kill_no_wakeup(p) ==
  /\ Runs(p, "kill")
  /\ \E k \in 0..(nextpid - 1) :
       LET match == {q \in Slot : pid[q] = k} IN
         IF match = {}
           THEN Return(p, -1) /\ UNCHANGED <<killed, state>>
           ELSE LET q == Min(match) IN
                  /\ killed' = [killed EXCEPT ![q] = 1]
                  /\ Return(p, 0) /\ UNCHANGED state
  /\ UNCHANGED <<pid, parent, chan, kstack, pgdir, nextpid, np, shpid, panicked>>

\* kill(k): the first slot with that pid, whatever its state.
kill(p) ==
  /\ Runs(p, "kill")
  /\ \E k \in 0..(nextpid - 1) :
       LET match == {q \in Slot : pid[q] = k} IN
         IF match = {}
           THEN Return(p, -1) /\ UNCHANGED <<killed, state>>
           ELSE LET q == Min(match) IN
                  /\ killed' = [killed EXCEPT ![q] = 1]
                  /\ state' = IF state[q] = "SLEEPING" THEN [state EXCEPT ![q] = "RUNNABLE"] ELSE state
                  /\ Return(p, 0)
  /\ UNCHANGED <<pid, parent, chan, kstack, pgdir, nextpid, np, shpid, panicked>>

\* sys_sleep's loop: time is up, or the process was killed, or it goes to sleep.
\* killed is read before ptable.lock is taken.
sys_sleep(p) ==
  /\ Runs(p, "sleep")
  /\ chan' = [chan EXCEPT ![p] = 0]
  /\ \/ Return(p, 0)
     \/ IF killed[p] = 1 THEN Return(p, -1) ELSE Goto(p, "block") /\ UNCHANGED ret
  /\ UNCHANGED <<state, pid, parent, killed, kstack, pgdir, nextpid, np, shpid, panicked>>

sleep(p) ==
  /\ Runs(p, "block")
  /\ state' = [state EXCEPT ![p] = "SLEEPING"]
  /\ chan' = [chan EXCEPT ![p] = Ticks]
  /\ Goto(p, "sleep")
  /\ UNCHANGED <<pid, parent, killed, kstack, pgdir, nextpid, np, ret, shpid, panicked>>

\* The clock interrupt: wakeup(&ticks).
tick ==
  /\ panicked = 0
  /\ state' = Woken({Ticks})
  /\ UNCHANGED <<pid, parent, killed, chan, kstack, pgdir, nextpid, pc, np, ret, shpid,
                 panicked>>

\* panic() never returns.
panic_loop == panicked = 1 /\ UNCHANGED vars

-----------------------------------------------------------------------------

\* What process p does next in the kernel.
Kernel(p) ==
  \/ syscall_return(p) \/ timer(p)
  \/ allocproc(p) \/ allocproc_kstack(p) \/ fork_copyuvm(p) \/ fork_run(p)
  \/ exit(p) \/ exit_zombie(p) \/ wait(p) \/ kill(p) \/ sys_sleep(p) \/ sleep(p)

Next ==
  \/ \E p \in Slot : Kernel(p) \/ syscall(p) \/ fault(p)
  \/ tick
  \/ panic_loop

\* Processes in the kernel, and init, keep running (Sched); the clock ticks.
Fairness ==
  /\ \A p \in Slot : WF_vars(Kernel(p))
  /\ WF_vars(syscall(initproc))
  /\ WF_vars(tick)

Spec == Init /\ [][Next]_vars
FairSpec == Spec /\ Fairness

-----------------------------------------------------------------------------
(* Properties *)

\* pids name processes: no two slots in use have the same one.
UniquePids ==
  \A p, q \in Slot : state[p] # "UNUSED" /\ state[q] # "UNUSED" /\ pid[p] = pid[q] => p = q

\* Every process but init has a parent that can still wait for it; a slot in
\* the making belongs to exactly the fork that makes it.
ParentLives ==
  \A q \in Slot \ {initproc} :
    /\ state[q] \in Alive \cup {"ZOMBIE"} => parent[q] # None /\ state[parent[q]] \in Alive
    /\ state[q] = "EMBRYO" =>
         Cardinality({p \in Slot : state[p] \in Alive /\ pc[p] \in InFork /\ np[p] = q}) = 1

\* A process asleep in wait() has a reason to be: it has a child, no child to
\* report, and has not been killed.
SleepInWaitIsJustified ==
  \A p \in Slot : state[p] = "SLEEPING" /\ chan[p] = p =>
    Children(p) # {} /\ ZombieChildren(p) = {} /\ killed[p] = 0

\* Kernel stack and page directory: whatever may run or be reaped owns both, a
\* free slot owns neither.
MemoryOwned ==
  \A p \in Slot :
    /\ state[p] \in Alive \cup {"ZOMBIE"} => kstack[p] = 1 /\ pgdir[p] = 1
    /\ state[p] = "UNUSED" => kstack[p] = 0 /\ pgdir[p] # 1

\* When fork() has returned to the parent its child still has that pid: it
\* cannot have been reaped, by anybody, in the meantime.
ForkReturnsChild ==
  \A p \in Slot : Runs(p, "return") /\ np[p] # None /\ ret[p] > 0 =>
    pid[np[p]] = ret[p] /\ parent[np[p]] = p

\* The kernel panics in exit() only because init was killed or could not fork.
PanicIsInits == panicked = 1 => killed[initproc] = 1 \/ (shpid = 0 /\ ret[initproc] = -1)

\* A killed process exits, wherever kill() found it.
KilledExits ==
  \A p \in Slot \ {initproc} :
    state[p] \in Alive /\ killed[p] = 1 ~> state[p] = "ZOMBIE" \/ panicked = 1

\* Process identities: pids are unique, every process has a live parent to
\* report to, what fork returns names a child that is still there, and only
\* init's own trouble makes the kernel panic.  Stacks and page directories are
\* where they belong, whatever fork failed at.
Inv == TypeOK /\ MemoryOwned /\ UniquePids /\ ParentLives /\ ForkReturnsChild /\ PanicIsInits
=============================================================================
