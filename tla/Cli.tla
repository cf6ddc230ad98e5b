--------------------------------- MODULE Cli ---------------------------------
(***************************************************************************)
(* The interrupt-disable nesting of xv6/spinlock.c as functions on one      *)
(* CPU's private state: eflags.FL_IF, and the fields ncli and intena of        *)
(* struct cpu (xv6/proc.h).  Only the owning CPU touches them, so a call of *)
(* pushcli or popcli is one step of that CPU.                               *)
(***************************************************************************)
EXTENDS Integers

\* struct cpu (the part used here) together with the CPU's interrupt flag.
CpuState == [FL_IF : {0, 1}, ncli : Nat, intena : {0, 1}]

\* A CPU that runs with interrupts on and no pushcli outstanding.
IdleCpu == [FL_IF |-> 1, ncli |-> 0, intena |-> 0]

\* Variant: intena is overwritten at every nesting depth.
pushcli_always_saves(k) ==
  [FL_IF |-> 0, ncli |-> k.ncli + 1, intena |-> k.FL_IF]

pushcli(k) ==
  [FL_IF |-> 0,
   ncli |-> k.ncli + 1,
   intena |-> IF k.ncli = 0 THEN k.FL_IF ELSE k.intena]

\* Variant: every popcli re-enables interrupts.
popcli_ignores_depth(k) ==
  [FL_IF |-> IF k.intena = 1 THEN 1 ELSE k.FL_IF,
   ncli |-> k.ncli - 1,
   intena |-> k.intena]

popcli(k) ==
  [FL_IF |-> IF k.ncli = 1 /\ k.intena = 1 THEN 1 ELSE k.FL_IF,
   ncli |-> k.ncli - 1,
   intena |-> k.intena]

\* The two panics of popcli: "popcli - interruptible" and "popcli".
popcli_panics(k) == k.FL_IF = 1 \/ k.ncli < 1
=============================================================================
