----------------------------- MODULE MCProcessors -----------------------------
(***************************************************************************)
(* What processors share: spin locks between two of them (SpinLock), their  *)
(* start-up (Boot) and the clock chip (CmosTime).  The three have nothing   *)
(* in common; part says which one this behaviour is about, the other two    *)
(* stay in their initial state.                                             *)
(***************************************************************************)
EXTENDS SpinLock, Sequences

CONSTANTS c1, c2, lkCond, lkPtable,
          Apic, bsp, NCPU, LOWTOP, PHYSTOP, MAXALLOC, PASS

VARIABLES
  part,
  conf, p, ismp, cpus, started, pc, cur, code, free, use_lock, seen, next,
  kpgdir, ap, esp, pgdir, init, pages, boot_panicked,
  now, updating, quiet, bcd, rtc_pc, k, t1, t2, since, r

bootvars == <<conf, p, ismp, cpus, started, pc, cur, code, free, use_lock, seen, next,
              kpgdir, ap, esp, pgdir, init, pages, boot_panicked>>
rtcvars == <<now, updating, quiet, bcd, rtc_pc, k, t1, t2, since, r>>

\* Condition locks are taken before ptable.lock.
MCCPU == {c1, c2}
MCLock == {lkCond, lkPtable}
MCRank == [l \in MCLock |-> IF l = lkCond THEN 1 ELSE 2]

\* All processors, more of them than NCPU, the boot processor alone or second,
\* and a table with an entry that mpinit does not know.
Proc(a) == [type |-> "proc", apicid |-> a]
Entry(t) == [type |-> t]
Strange == <<Proc(1), Entry("unknown"), Proc(2)>>
MCTables ==
  { Strange,
    <<Proc(1), Proc(2), Entry("bus"), Proc(3)>>,
    <<Proc(2), Proc(1), Entry("ioapic"), Proc(3), Proc(4)>>,
    <<Proc(1)>> }

\* Two updates of the clock, one that changes every register.
MCFields == <<"second", "minute", "year">>
Date(s, m, y) == [second |-> s, minute |-> m, year |-> y]
MCTimes == <<Date(59, 59, 2019), Date(0, 0, 2020), Date(1, 0, 2020)>>

B == INSTANCE Boot WITH Tables <- MCTables, panicked <- boot_panicked
T == INSTANCE CmosTime WITH Fields <- MCFields, Times <- MCTimes, pc <- rtc_pc

MCInit ==
  /\ Init /\ B!Init /\ T!Init
  /\ part \in {"locks", "boot", "clock"}
  /\ part = "boot" \/ conf = Strange
  /\ part = "clock" \/ bcd

MCNext ==
  /\ UNCHANGED part
  /\ \/ part = "locks" /\ Next /\ UNCHANGED <<bootvars, rtcvars>>
     \/ part = "boot" /\ B!Next /\ UNCHANGED <<vars, rtcvars>>
     \/ part = "clock" /\ T!Next /\ UNCHANGED <<vars, bootvars>>

\* Processors run at some speed.
BootFairness ==
  /\ WF_bootvars(part = "boot" /\ B!BootNext)
  /\ \A a \in Apic : WF_bootvars(part = "boot" /\ B!ApNext(a))

MCSpec ==
  MCInit /\ [][MCNext]_<<part, vars, bootvars, rtcvars>> /\ Fairness /\ BootFairness

\* Every page of the boot allocator has one owner although nothing locks it,
\* every processor has a stack of its own, and memory above 4 MB is used only
\* once every processor maps it (startothers, kinit2).
StartUp == B!Inv

\* The handshake of startothers and mpmain brings every recorded processor to
\* its scheduler.
EveryProcessorStarts == B!EveryProcessorStarts

\* cmostime returns a date that the clock showed, never parts of two.
ReturnsOneDate == T!ReturnsOneDate
=============================================================================
