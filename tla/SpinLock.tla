------------------------------- MODULE SpinLock -------------------------------
(***************************************************************************)
(* Spin locks of xv6/spinlock.c on several CPUs, each of which can be       *)
(* interrupted.  A CPU executes two kinds of kernel context: the kernel     *)
(* thread it runs ("thread") and, on top of it, an interrupt handler        *)
(* ("irq").  Both acquire and release locks; the handler runs on the stack  *)
(* of the thread it interrupts, so the thread cannot move until it is done. *)
(*                                                                         *)
(* What callers promise, and xv6's kernel keeps: locks are taken in the     *)
(* order Rank, a context releases only what it holds, and an interrupt      *)
(* handler returns with no lock held.                                       *)
(***************************************************************************)
EXTENDS Cli, FiniteSets

CONSTANTS CPU,      \* the processors
          Lock,     \* the spin locks
          Rank,     \* the order in which callers nest them
          NoLock, NoCpu

ASSUME SpinLockAssumption ==
  /\ NoLock \notin Lock
  /\ NoCpu \notin CPU
  /\ Rank \in [Lock -> Nat]

Level == {"thread", "irq"}
Ctx == CPU \X Level

VARIABLES
  locked,    \* struct spinlock.locked
  lkcpu,     \* struct spinlock.cpu
  cpu,       \* per-CPU interrupt state, see Cli
  level,     \* which context of the CPU executes
  at,        \* where a context stands in acquire or release
  lk,        \* the lock passed to that call
  held,      \* the locks a context owns: from its xchg to its store of 0
  panicked   \* some CPU has called panic

lockvars == <<locked, lkcpu, held>>
vars == <<locked, lkcpu, cpu, level, at, lk, held, panicked>>

Control == {"run", "cli", "spin", "got", "rel"}

TypeOK ==
  /\ locked \in [Lock -> {0, 1}]
  /\ lkcpu \in [Lock -> CPU \cup {NoCpu}]
  /\ cpu \in [CPU -> CpuState]
  /\ level \in [CPU -> Level]
  /\ at \in [Ctx -> Control]
  /\ lk \in [Ctx -> Lock \cup {NoLock}]
  /\ held \in [Ctx -> SUBSET Lock]
  /\ panicked \in {0, 1}

\* initlock, and CPUs that have reached their scheduler loop.
Init ==
  /\ locked = [l \in Lock |-> 0]
  /\ lkcpu = [l \in Lock |-> NoCpu]
  /\ cpu = [c \in CPU |-> IdleCpu]
  /\ level = [c \in CPU |-> "thread"]
  /\ at = [x \in Ctx |-> "run"]
  /\ lk = [x \in Ctx |-> NoLock]
  /\ held = [x \in Ctx |-> {}]
  /\ panicked = 0

\* Context x is the one its CPU is executing, and stands at s.
Running(x, s) == panicked = 0 /\ level[x[1]] = x[2] /\ at[x] = s

Goto(x, s) == at' = [at EXCEPT ![x] = s]

-----------------------------------------------------------------------------
(* spinlock.c *)

\* Reads the lock's two words without owning it.
holding(c, l) == locked[l] = 1 /\ lkcpu[l] = c

\* acquire up to the spin loop: pushcli, then the recursion check.
acquire(x, l) ==
  /\ Running(x, "run")
  /\ \A h \in held[x] : Rank[h] < Rank[l]
  /\ cpu' = [cpu EXCEPT ![x[1]] = pushcli(@)]
  /\ panicked' = IF holding(x[1], l) THEN 1 ELSE 0
  /\ lk' = [lk EXCEPT ![x] = l]
  /\ Goto(x, "spin")
  /\ UNCHANGED <<lockvars, level>>

\* Variant: the word is tested by one instruction and set by a later one, so
\* the lock can be taken by somebody else between the two.
xchg_not_atomic(x) ==
  /\ Running(x, "spin")
  /\ \/ locked[lk[x]] = 0
     \/ \E y \in Ctx : lk[y] = lk[x] /\ at[y] = "got"
  /\ locked' = [locked EXCEPT ![lk[x]] = 1]
  /\ held' = [held EXCEPT ![x] = @ \cup {lk[x]}]
  /\ Goto(x, "got")
  /\ UNCHANGED <<lkcpu, cpu, level, lk, panicked>>

\* The xchg that finds the lock free; one that finds it taken changes nothing.
xchg(x) ==
  /\ Running(x, "spin")
  /\ locked[lk[x]] = 0
  /\ locked' = [locked EXCEPT ![lk[x]] = 1]
  /\ held' = [held EXCEPT ![x] = @ \cup {lk[x]}]
  /\ Goto(x, "got")
  /\ UNCHANGED <<lkcpu, cpu, level, lk, panicked>>

\* The store to lk->cpu that ends acquire.
acquire_record(x) ==
  /\ Running(x, "got")
  /\ lkcpu' = [lkcpu EXCEPT ![lk[x]] = x[1]]
  /\ lk' = [lk EXCEPT ![x] = NoLock]
  /\ Goto(x, "run")
  /\ UNCHANGED <<locked, cpu, level, held, panicked>>

\* release up to the first barrier: the ownership check, lk->cpu = 0.
release(x, l) ==
  /\ Running(x, "run")
  /\ l \in held[x]
  /\ panicked' = IF holding(x[1], l) THEN 0 ELSE 1
  /\ lkcpu' = [lkcpu EXCEPT ![l] = NoCpu]
  /\ lk' = [lk EXCEPT ![x] = l]
  /\ Goto(x, "rel")
  /\ UNCHANGED <<locked, held, cpu, level>>

\* The store of 0 to lk->locked, then popcli on the CPU's private state.
release_store(x) ==
  /\ Running(x, "rel")
  /\ locked' = [locked EXCEPT ![lk[x]] = 0]
  /\ held' = [held EXCEPT ![x] = @ \ {lk[x]}]
  /\ cpu' = [cpu EXCEPT ![x[1]] = popcli(@)]
  /\ panicked' = IF popcli_panics(cpu[x[1]]) THEN 1 ELSE 0
  /\ lk' = [lk EXCEPT ![x] = NoLock]
  /\ Goto(x, "run")
  /\ UNCHANGED <<lkcpu, level>>

\* A pushcli/popcli pair that takes no lock: myproc, holding, switchuvm.
myproc(x) ==
  /\ Running(x, "run")
  /\ cpu' = [cpu EXCEPT ![x[1]] = pushcli(@)]
  /\ Goto(x, "cli")
  /\ UNCHANGED <<lockvars, level, lk, panicked>>

myproc_return(x) ==
  /\ Running(x, "cli")
  /\ cpu' = [cpu EXCEPT ![x[1]] = popcli(@)]
  /\ panicked' = IF popcli_panics(cpu[x[1]]) THEN 1 ELSE 0
  /\ Goto(x, "run")
  /\ UNCHANGED <<lockvars, level, lk>>

-----------------------------------------------------------------------------
(* Interrupt entry and return (trap.c installs interrupt gates, which clear  *)
(* IF; iret restores the flag the interrupted context had, which was 1).     *)

interrupt(c) ==
  /\ panicked = 0
  /\ level[c] = "thread"
  /\ cpu[c].FL_IF = 1
  /\ level' = [level EXCEPT ![c] = "irq"]
  /\ cpu' = [cpu EXCEPT ![c].FL_IF = 0]
  /\ UNCHANGED <<lockvars, at, lk, panicked>>

iret(c) ==
  /\ Running(<<c, "irq">>, "run")
  /\ held[<<c, "irq">>] = {}
  /\ level' = [level EXCEPT ![c] = "thread"]
  /\ cpu' = [cpu EXCEPT ![c].FL_IF = 1]
  /\ UNCHANGED <<lockvars, at, lk, panicked>>

Next ==
  \/ \E x \in Ctx, l \in Lock : acquire(x, l) \/ release(x, l)
  \/ \E x \in Ctx : xchg(x) \/ acquire_record(x) \/ release_store(x)
  \/ \E x \in Ctx : myproc(x) \/ myproc_return(x)
  \/ \E c \in CPU : interrupt(c) \/ iret(c)

\* Kernel code between acquire and release is straight-line or a bounded loop,
\* so a context that keeps stepping cannot nest other calls forever and comes to
\* each release: strong fairness.  Nothing makes a particular xchg win: only weak
\* fairness there.
Fairness ==
  \A x \in Ctx :
    /\ WF_vars(xchg(x))
    /\ WF_vars(acquire_record(x))
    /\ \A l \in Lock : SF_vars(release(x, l))
    /\ WF_vars(release_store(x))
    /\ WF_vars(myproc_return(x))

Spec == Init /\ [][Next]_vars
FairSpec == Spec /\ Fairness

-----------------------------------------------------------------------------
(* Properties *)

\* Mutual exclusion: between the xchg that took it and the store that frees
\* it, a lock belongs to one context only.
MutualExclusion ==
  \A x, y \in Ctx : x # y => held[x] \cap held[y] = {}

\* A CPU that can be interrupted neither owns nor is taking a lock.  This is
\* what keeps a handler from spinning on a lock of the thread it interrupted
\* ("disable interrupts to avoid deadlock", acquire).
InterruptsOffInCriticalSection ==
  \A c \in CPU : cpu[c].FL_IF = 1 =>
    \A v \in Level : held[<<c, v>>] = {} /\ at[<<c, v>>] = "run"

\* holding(), although it reads both words of a lock another CPU may be
\* taking or freeing, is true exactly when a context of this CPU owns the
\* lock and is not in the middle of acquire or release.
HoldingIsExact ==
  \A c \in CPU, l \in Lock :
    holding(c, l) <=>
      \E v \in Level : /\ l \in held[<<c, v>>]
                       /\ ~(at[<<c, v>>] \in {"got", "rel"} /\ lk[<<c, v>>] = l)

\* None of the panics of acquire, release and popcli is reached by callers
\* that keep the lock order.
NoPanic == panicked = 0

\* Locks exclude, on processors that are interrupted: one owner for a lock, no
\* interrupt on a CPU that owns or takes one, an exact holding(), and none of
\* the panics of acquire, release and popcli.
Inv == TypeOK /\ NoPanic /\ MutualExclusion /\ InterruptsOffInCriticalSection /\ HoldingIsExact

\* pushcli and popcli are matched: outside every pushcli a kernel thread has
\* its interrupts back, and a handler never gets them.
InterruptsRestored ==
  \A c \in CPU : cpu[c].ncli = 0 => (cpu[c].FL_IF = 1 <=> level[c] = "thread")

\* A lock that is taken is eventually free again, unless its owner keeps losing
\* the race for a lock further up the order that keeps changing hands (xchg is
\* not fair).  So no CPU waits for a lock in a circle with other CPUs or with
\* the thread it interrupted.
EveryLockIsFreed ==
  \A l \in Lock :
    \/ locked[l] = 1 ~> locked[l] = 0
    \/ \E m \in Lock : Rank[m] > Rank[l] /\ []<>(locked[m] = 1) /\ []<>(locked[m] = 0)
=============================================================================
