--------------------------------- MODULE Boot ---------------------------------
(***************************************************************************)
(* From power-on to the first process on every processor: main, mpenter and *)
(* mpmain of xv6/main.c, mpinit of mp.c, lapicstartap of lapic.c,           *)
(* entryother.S, kinit1 and kinit2 of kalloc.c.  The boot processor hands   *)
(* each other one a stack through the word at code-4, then frees the memory *)
(* above 4 MB and takes the allocator's lock into use, while the others     *)
(* already run their scheduler.  Pages are numbers, those up to LOWTOP are  *)
(* below 4 MB; the order of the free list is not kept.                      *)
(***************************************************************************)
EXTENDS Integers, Sequences, FiniteSets

CONSTANTS
  Apic,      \* local APIC ids of the processors
  bsp,       \* the one that boots
  Tables,    \* MP configuration tables: sequences of entries
  NCPU, LOWTOP, PHYSTOP,
  MAXALLOC   \* bound: pages of the first process

Low == 1..LOWTOP
NoPage == 0

VARIABLES
  conf, p, ismp,   \* the table and mpinit's place in it
  cpus,            \* apicid of cpus[0..ncpu-1]
  started,         \* struct cpu.started, by APIC id
  pc,              \* where the boot processor is in main
  cur,             \* startothers' c
  code,            \* the stack at code-4
  free, use_lock,  \* kmem
  seen,            \* kmem.freelist as read by an operation that has not stored it yet
  next,            \* freerange's p
  kpgdir,
  ap, esp, pgdir,  \* of each processor: where it is, its stack, the table it runs on
  init, pages,     \* the first process: its state, its memory
  panicked

mpvars == <<conf, p, ismp, cpus>>
kmemvars == <<free, use_lock, seen, next, kpgdir>>
apvars == <<ap, esp, pgdir, started>>
procvars == <<init, pages>>
vars == <<mpvars, pc, cur, code, kmemvars, apvars, procvars, panicked>>

TypeOK ==
  /\ p \in Nat /\ ismp \in {0, 1} /\ cur \in Nat
  /\ cpus \in Seq(Apic) /\ started \in [Apic -> {0, 1}]
  /\ code \in Low \cup {NoPage} /\ kpgdir \in Low \cup {NoPage}
  /\ free \in SUBSET (1..PHYSTOP) /\ seen \in SUBSET (1..PHYSTOP)
  /\ pages \in SUBSET (1..PHYSTOP) /\ use_lock \in {0, 1} /\ next \in Nat
  /\ ap \in [Apic -> {"off", "boot", "init", "entryother", "mpenter", "mpmain", "up"}]
  /\ esp \in [Apic -> Low \cup {NoPage}]
  /\ pgdir \in [Apic -> {"none", "entry", "kernel"}]
  /\ init \in {"none", "runnable", "running", "kalloc"}
  /\ panicked \in {0, 1}

\* entry.S has put the boot processor on entrypgdir, on a stack of the kernel.
Init ==
  /\ conf \in Tables /\ p = 1 /\ ismp = 1 /\ cpus = <<>>
  /\ started = [a \in Apic |-> 0]
  /\ pc = "kinit1" /\ cur = 1 /\ code = NoPage
  /\ free = {} /\ use_lock = 0 /\ seen = {} /\ next = 1 /\ kpgdir = NoPage
  /\ ap = [a \in Apic |-> IF a = bsp THEN "boot" ELSE "off"]
  /\ esp = [a \in Apic |-> NoPage]
  /\ pgdir = [a \in Apic |-> IF a = bsp THEN "entry" ELSE "none"]
  /\ init = "none" /\ pages = {} /\ panicked = 0

Boots(s) == panicked = 0 /\ pc = s

-----------------------------------------------------------------------------
(* main, on the boot processor *)

\* The pages that entrypgdir maps; nobody else runs.
kinit1 ==
  /\ Boots("kinit1")
  /\ free' = Low
  /\ pc' = "kvmalloc"
  /\ UNCHANGED <<mpvars, cur, code, use_lock, seen, next, kpgdir, apvars, procvars, panicked>>

kvmalloc ==
  /\ Boots("kvmalloc")
  /\ \E r \in free : free' = free \ {r} /\ kpgdir' = r
  /\ pgdir' = [pgdir EXCEPT ![bsp] = "kernel"]
  /\ pc' = "mpinit"
  /\ UNCHANGED <<mpvars, cur, code, use_lock, seen, next, ap, esp, started, procvars, panicked>>

\* One turn of mpinit's loop.  The break of the default case leaves the switch,
\* not the loop.
mpinit ==
  /\ Boots("mpinit") /\ p <= Len(conf)
  /\ p' = IF conf[p].type = "unknown" THEN p ELSE p + 1
  /\ ismp' = IF conf[p].type = "unknown" THEN 0 ELSE ismp
  /\ cpus' = IF conf[p].type = "proc" /\ Len(cpus) < NCPU THEN Append(cpus, conf[p].apicid) ELSE cpus
  /\ UNCHANGED <<conf, pc, cur, code, kmemvars, apvars, procvars, panicked>>

mpinit_end ==
  /\ Boots("mpinit") /\ p > Len(conf)
  /\ panicked' = 1 - ismp
  /\ pc' = "startothers"
  /\ UNCHANGED <<mpvars, cur, code, kmemvars, apvars, procvars>>

startothers ==
  /\ Boots("startothers") /\ cur <= Len(cpus)
  /\ IF cpus[cur] = bsp
       THEN cur' = cur + 1 /\ UNCHANGED <<code, free, pc>>
       ELSE /\ \E r \in free : free' = free \ {r} /\ code' = r
            /\ pc' = "INIT" /\ UNCHANGED cur
  /\ UNCHANGED <<mpvars, use_lock, seen, next, kpgdir, apvars, procvars, panicked>>

\* lapicstartap: an INIT, then STARTUP twice.  A processor accepts a STARTUP
\* only when an INIT has halted it.
lapicstartap ==
  /\ panicked = 0 /\ pc \in {"INIT", "STARTUP1", "STARTUP2"}
  /\ ap' = [ap EXCEPT ![cpus[cur]] =
              IF pc = "INIT" THEN "init" ELSE IF @ = "init" THEN "entryother" ELSE @]
  /\ pc' = CASE pc = "INIT" -> "STARTUP1" [] pc = "STARTUP1" -> "STARTUP2" [] OTHER -> "wait"
  /\ UNCHANGED <<mpvars, cur, code, kmemvars, esp, pgdir, started, procvars, panicked>>

\* Variant: startothers does not wait for the processor.
IsUp_assumed(a) == TRUE

\* The exit of the loop on c->started.
IsUp(a) == started[a] = 1

startothers_wait ==
  /\ Boots("wait") /\ IsUp(cpus[cur])
  /\ cur' = cur + 1
  /\ pc' = "startothers"
  /\ UNCHANGED <<mpvars, code, kmemvars, apvars, procvars, panicked>>

startothers_end ==
  /\ Boots("startothers") /\ cur > Len(cpus)
  /\ next' = LOWTOP + 1
  /\ pc' = "kinit2"
  /\ UNCHANGED <<mpvars, cur, code, free, use_lock, seen, kpgdir, apvars, procvars, panicked>>

\* kfree without the lock reads the list and stores it in two steps.
kinit2 ==
  /\ Boots("kinit2") /\ next <= PHYSTOP
  /\ seen' = free
  /\ pc' = "kfree"
  /\ UNCHANGED <<mpvars, cur, code, free, use_lock, next, kpgdir, apvars, procvars, panicked>>

kfree ==
  /\ Boots("kfree")
  /\ free' = seen \cup {next}
  /\ next' = next + 1
  /\ pc' = "kinit2"
  /\ UNCHANGED <<mpvars, cur, code, use_lock, seen, kpgdir, apvars, procvars, panicked>>

kinit2_end ==
  /\ Boots("kinit2") /\ next > PHYSTOP
  /\ use_lock' = 1
  /\ pc' = "userinit"
  /\ UNCHANGED <<mpvars, cur, code, free, seen, next, kpgdir, apvars, procvars, panicked>>

userinit ==
  /\ Boots("userinit")
  /\ \E r \in free : free' = free \ {r} /\ pages' = {r}
  /\ init' = "runnable"
  /\ ap' = [ap EXCEPT ![bsp] = "mpmain"]
  /\ pc' = "scheduler"
  /\ UNCHANGED <<mpvars, cur, code, use_lock, seen, next, kpgdir, esp, pgdir, started, panicked>>

-----------------------------------------------------------------------------
(* The other processors *)

Runs(a, s) == panicked = 0 /\ ap[a] = s

entryother(a) ==
  /\ Runs(a, "entryother")
  /\ pgdir' = [pgdir EXCEPT ![a] = "entry"]
  /\ esp' = [esp EXCEPT ![a] = code]
  /\ ap' = [ap EXCEPT ![a] = "mpenter"]
  /\ UNCHANGED <<mpvars, pc, cur, code, kmemvars, started, procvars, panicked>>

mpenter(a) ==
  /\ Runs(a, "mpenter")
  /\ pgdir' = [pgdir EXCEPT ![a] = "kernel"]
  /\ ap' = [ap EXCEPT ![a] = "mpmain"]
  /\ UNCHANGED <<mpvars, pc, cur, code, kmemvars, esp, started, procvars, panicked>>

\* Variant: a processor enters its scheduler without telling startothers.
TellStarted_not(a) == started

TellStarted(a) == [started EXCEPT ![a] = 1]

\* mycpu panics on an id that mpinit did not record.
mpmain(a) ==
  /\ Runs(a, "mpmain")
  /\ panicked' = IF \E i \in DOMAIN cpus : cpus[i] = a THEN 0 ELSE 1
  /\ started' = TellStarted(a)
  /\ ap' = [ap EXCEPT ![a] = "up"]
  /\ UNCHANGED <<mpvars, pc, cur, code, kmemvars, esp, pgdir, procvars>>

-----------------------------------------------------------------------------
(* The first process, on whichever processor finds it runnable, takes pages. *)

scheduler(a) ==
  /\ Runs(a, "up") /\ init = "runnable"
  /\ init' = "running"
  /\ UNCHANGED <<mpvars, pc, cur, code, kmemvars, apvars, pages, panicked>>

yield ==
  /\ panicked = 0 /\ init = "running"
  /\ init' = "runnable"
  /\ UNCHANGED <<mpvars, pc, cur, code, kmemvars, apvars, pages, panicked>>

\* kalloc with the lock waits for another holder of it, without does not.
kalloc ==
  /\ panicked = 0 /\ init = "running" /\ Cardinality(pages) < MAXALLOC
  /\ use_lock = 1 => pc # "kfree"
  /\ seen' = free
  /\ init' = "kalloc"
  /\ UNCHANGED <<mpvars, pc, cur, code, free, use_lock, next, kpgdir, apvars, pages, panicked>>

kalloc_take ==
  /\ panicked = 0 /\ init = "kalloc"
  /\ \/ \E r \in seen : free' = seen \ {r} /\ pages' = pages \cup {r}
     \/ seen = {} /\ UNCHANGED <<free, pages>>
  /\ init' = "running"
  /\ UNCHANGED <<mpvars, pc, cur, code, use_lock, seen, next, kpgdir, apvars, panicked>>

BootNext ==
  \/ kinit1 \/ kvmalloc \/ mpinit \/ mpinit_end
  \/ startothers \/ lapicstartap \/ startothers_wait \/ startothers_end
  \/ kinit2 \/ kfree \/ kinit2_end \/ userinit

ApNext(a) == entryother(a) \/ mpenter(a) \/ mpmain(a)

Next ==
  \/ BootNext
  \/ \E a \in Apic : ApNext(a) \/ scheduler(a)
  \/ yield \/ kalloc \/ kalloc_take

Spec == Init /\ [][Next]_vars

-----------------------------------------------------------------------------
(* Properties *)

Stacks == {esp[a] : a \in Apic} \ {NoPage}

\* code-4 holds a stack that its processor has not loaded yet.
Offered == IF pc \in {"INIT", "STARTUP1", "STARTUP2", "wait"} /\ code \notin Stacks THEN {code} ELSE {}

\* Although nothing locks the free list until the end of kinit2, every page
\* given to the allocator is on the list or has one owner, and none is lost.
PagesOwnedOnce ==
  LET kernel == {kpgdir} \ {NoPage}
      given == IF pc = "kinit1" THEN {} ELSE IF next <= LOWTOP THEN Low ELSE 1..(next - 1)
  IN
    /\ free \cup kernel \cup Stacks \cup Offered \cup pages = given
    /\ free \cap (kernel \cup Stacks \cup Offered \cup pages) = {}
    /\ kpgdir \notin Stacks \cup Offered \cup pages
    /\ pages \cap (Stacks \cup Offered) = {}

\* Every other processor that has left entryother.S runs on a stack of its own:
\* startothers does not write the next stack to code-4 before the previous one
\* has been loaded.
OneStackEach ==
  \A a \in Apic \ {bsp} :
    ap[a] \in {"mpenter", "mpmain", "up"} =>
      esp[a] # NoPage /\ \A b \in Apic \ {a} : esp[a] # esp[b]

\* "kinit2() with the rest of the physical pages after installing a full page
\* table that maps them on all cores" (kalloc.c): as soon as a page above 4 MB
\* can be allocated, no processor runs on entrypgdir, nor is any about to.
HighPagesAreMapped ==
  (free \cup pages) \subseteq Low \/
    \A a \in Apic : ap[a] \notin {"init", "entryother", "mpenter"} /\ pgdir[a] # "entry"

\* No processor is started whose id mpinit did not record, so that mycpu finds
\* its struct cpu.
NoPanic == panicked = 0

\* The invariants of start-up together.
Inv == TypeOK /\ PagesOwnedOnce /\ OneStackEach /\ HighPagesAreMapped /\ NoPanic

\* With a table of known entries, every processor recorded in it, up to NCPU,
\* comes to its scheduler: the handshake over started does not block.
EveryProcessorStarts ==
  (\A i \in DOMAIN conf : conf[i].type # "unknown")
    ~> pc = "scheduler" /\ \A i \in DOMAIN cpus : ap[cpus[i]] = "up"
=============================================================================
