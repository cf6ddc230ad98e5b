--------------------------------- MODULE Vm ---------------------------------
(***************************************************************************)
(* Physical pages and address spaces: kalloc and kfree (xv6/kalloc.c), the  *)
(* page tables of xv6/vm.c, and the calls that build and tear them down:    *)
(* fork, growproc and wait (xv6/proc.c) and exec (xv6/exec.c).  Loops that  *)
(* allocate take one step per page, so that processes run out of memory in  *)
(* the middle of them.  Sizes are in units of half a page, so that they     *)
(* need not be aligned.  Contents and permissions of pages are left out.     *)
(***************************************************************************)
EXTENDS Integers, FiniteSets, FiniteSetsExt

CONSTANTS
  NPROC,
  NFRAMES,      \* physical pages
  NPAGES,       \* user pages of an address space
  NPTENTRIES,   \* user pages that one page table maps
  REGROW        \* bound: whether a process that has shrunk to size 0 grows again

ASSUME VmAssumption == {NPROC, NFRAMES, NPAGES, NPTENTRIES} \subseteq Nat \ {0} /\ REGROW \in BOOLEAN

VARIABLES
  free,     \* kmem.freelist
  proc,     \* ptable.proc
  panicked

vars == <<free, proc, panicked>>

Proc == 1..NPROC
Frame == 1..NFRAMES
Page == 0..(NPAGES - 1)
PDX(v) == v \div NPTENTRIES
Table == {PDX(v) : v \in Page}
PGSIZE == 2
KERNBASE == NPAGES * PGSIZE

PGROUNDUP(sz) == ((sz + PGSIZE - 1) \div PGSIZE) * PGSIZE

\* A page directory: its own page, the page table of the kernel, those of the
\* user pages, and the user pages; 0 is "not present".
NoSpace == [dir |-> 0, ktab |-> 0, tab |-> [t \in Table |-> 0], pte |-> [v \in Page |-> 0]]

Space ==
  [dir : 0..NFRAMES, ktab : 0..NFRAMES, tab : [Table -> 0..NFRAMES], pte : [Page -> 0..NFRAMES]]

Unused == [pc |-> "unused", kstack |-> 0, pgdir |-> NoSpace, sz |-> 0,
           work |-> NoSpace, wsz |-> 0, newsz |-> 0, a |-> 0, child |-> 0, emptied |-> FALSE]

TypeOK ==
  /\ free \subseteq Frame
  /\ \A p \in Proc :
       /\ proc[p].pc \in {"unused", "embryo", "user", "fork", "copy", "grow", "exec", "segment", "stack", "args", "zombie"}
       /\ proc[p].kstack \in 0..NFRAMES
       /\ proc[p].pgdir \in Space /\ proc[p].work \in Space
       /\ {proc[p].sz, proc[p].wsz, proc[p].newsz} \subseteq 0..KERNBASE
       /\ proc[p].a \in 0..NPAGES /\ proc[p].child \in 0..NPROC /\ proc[p].emptied \in BOOLEAN
  /\ panicked \in {0, 1}

At(p, s) == panicked = 0 /\ proc[p].pc = s

-----------------------------------------------------------------------------
(* The operations of vm.c *)

\* The pages that a page directory owns.
Frames(A) ==
  ({A.dir, A.ktab} \cup {A.tab[t] : t \in Table} \cup {A.pte[v] : v \in Page}) \ {0}

\* What freevm gives back.
Freed(A) == Frames(A)

kalloc == Min(free)

\* setupkvm takes the directory and the kernel's page table.
CanSetup == Cardinality(free) >= 2
setupkvm == [NoSpace EXCEPT !.dir = kalloc, !.ktab = Min(free \ {kalloc})]

\* kalloc and mappages for one page: with a page table, if there is none yet.
NeedsTable(A, v) == A.tab[PDX(v)] = 0
CanMap(A, v) == Cardinality(free) >= (IF NeedsTable(A, v) THEN 2 ELSE 1)
Mapped(A, v) ==
  [A EXCEPT !.pte[v] = kalloc,
            !.tab[PDX(v)] = IF NeedsTable(A, v) THEN Min(free \ {kalloc}) ELSE @]

\* Variant: the page is not given back when there is no page table for it.
Unmappable_leaks == IF free = {} THEN free ELSE free \ {kalloc}

\* The free list after an attempt to map a page that failed.
Unmappable == free

\* Variant: the page that holds the new end goes too.
Above_rounds_down(oldsz, newsz) ==
  {v \in Page : v * PGSIZE + PGSIZE > newsz /\ v * PGSIZE < oldsz}

\* The pages that deallocuvm takes away.
Above(oldsz, newsz) == {v \in Page : v * PGSIZE >= PGROUNDUP(newsz) /\ v * PGSIZE < oldsz}

deallocuvm(A, oldsz, newsz) ==
  [A EXCEPT !.pte = [v \in Page |-> IF v \in Above(oldsz, newsz) THEN 0 ELSE @[v]]]

-----------------------------------------------------------------------------
(* userinit has made the first process, with one page. *)

Init ==
  /\ proc = [p \in Proc |-> IF p = 1
       THEN [Unused EXCEPT !.pc = "user", !.kstack = 1, !.sz = PGSIZE,
               !.pgdir = [NoSpace EXCEPT !.dir = 2, !.ktab = 3, !.tab[0] = 4, !.pte[0] = 5]]
       ELSE Unused]
  /\ free = Frame \ 1..5
  /\ panicked = 0

Back(p) == [proc EXCEPT ![p] = [@ EXCEPT !.pc = "user", !.work = NoSpace, !.wsz = 0, !.newsz = 0, !.a = 0, !.child = 0]]

-----------------------------------------------------------------------------
(* fork *)

\* allocproc: a slot and its kernel stack.
fork(p, q) ==
  /\ At(p, "user") /\ proc[q].pc = "unused" /\ free # {}
  /\ proc' = [proc EXCEPT ![p].pc = "fork", ![p].child = q, ![q].pc = "embryo", ![q].kstack = kalloc]
  /\ free' = free \ {kalloc}
  /\ UNCHANGED panicked

\* copyuvm frees what it has, fork the stack.
ForkFailed(p, q) ==
  /\ free' = Unmappable \cup Freed(proc[q].pgdir) \cup {proc[q].kstack}
  /\ proc' = [Back(p) EXCEPT ![q] = Unused]

copyuvm(p) ==
  LET q == proc[p].child IN
    /\ At(p, "fork")
    /\ IF CanSetup
         THEN /\ proc' = [proc EXCEPT ![p].pc = "copy", ![p].a = 0, ![q].pgdir = setupkvm]
              /\ free' = free \ Frames(setupkvm)
         ELSE ForkFailed(p, q)
    /\ UNCHANGED panicked

\* One page is copied, or the child is complete.
copyuvm_page(p) ==
  LET P == proc[p]
      q == P.child
      A == Mapped(proc[q].pgdir, P.a) IN
    /\ At(p, "copy")
    /\ panicked' = IF P.a * PGSIZE < P.sz /\ P.pgdir.pte[P.a] = 0 THEN 1 ELSE 0
    /\ IF P.a * PGSIZE >= P.sz
         THEN /\ proc' = [Back(p) EXCEPT ![q].pc = "user", ![q].sz = P.sz]
              /\ UNCHANGED free
       ELSE IF panicked' = 1 THEN UNCHANGED <<free, proc>>
       ELSE IF CanMap(proc[q].pgdir, P.a)
         THEN /\ proc' = [proc EXCEPT ![p].a = @ + 1, ![q].pgdir = A]
              /\ free' = free \ Frames(A)
       ELSE ForkFailed(p, q)

-----------------------------------------------------------------------------
(* growproc and the loop of allocuvm *)

grow(p, n) ==
  /\ At(p, "user")
  /\ proc[p].sz + n < KERNBASE
  /\ proc[p].emptied => REGROW
  /\ proc' = [proc EXCEPT ![p].pc = "grow", ![p].newsz = proc[p].sz + n,
                ![p].a = PGROUNDUP(proc[p].sz) \div PGSIZE]
  /\ UNCHANGED <<free, panicked>>

\* deallocuvm.  Its result 0 is taken for a failure: sz stays, without the
\* pages, and switchuvm is not called, so that the process may fault at once or
\* go on with what the TLB holds; emptied says that this has happened (for the
\* properties).  A size below 0 wraps and leaves everything as it is.
shrink(p, n) ==
  LET P == proc[p]
      newsz == P.sz - n IN
    /\ At(p, "user")
    /\ newsz >= 0
    /\ free' = free \cup ({P.pgdir.pte[v] : v \in Above(P.sz, newsz)} \ {0})
    /\ proc' = [proc EXCEPT ![p].pgdir = deallocuvm(@, P.sz, newsz),
                  ![p].sz = IF newsz = 0 THEN @ ELSE newsz, ![p].emptied = @ \/ newsz = 0]
    /\ UNCHANGED panicked

\* One page of allocuvm: for growproc in the process's own space, ...
grow_page(p) ==
  LET P == proc[p] IN
    /\ At(p, "grow")
    /\ panicked' = IF P.a * PGSIZE < P.newsz /\ P.pgdir.pte[P.a] # 0 THEN 1 ELSE 0
    /\ IF P.a * PGSIZE >= P.newsz
         THEN proc' = [Back(p) EXCEPT ![p].sz = P.newsz] /\ UNCHANGED free
       ELSE IF CanMap(P.pgdir, P.a)
         THEN /\ proc' = [proc EXCEPT ![p].a = @ + 1, ![p].pgdir = Mapped(@, P.a)]
              /\ free' = free \ Frames(Mapped(P.pgdir, P.a))
       ELSE /\ free' = Unmappable \cup ({P.pgdir.pte[v] : v \in Above(P.newsz, P.sz)} \ {0})
            /\ proc' = [Back(p) EXCEPT ![p].pgdir = deallocuvm(@, P.newsz, P.sz)]

\* ... for exec in the one it builds; "next" is what follows the loop.
exec_page(p, loop, next) ==
  LET P == proc[p] IN
    /\ At(p, loop)
    /\ panicked' = IF P.a * PGSIZE < P.newsz /\ P.work.pte[P.a] # 0 THEN 1 ELSE 0
    /\ IF P.a * PGSIZE >= P.newsz
         THEN proc' = [proc EXCEPT ![p].pc = next, ![p].wsz = P.newsz] /\ UNCHANGED free
       ELSE IF CanMap(P.work, P.a)
         THEN /\ proc' = [proc EXCEPT ![p].a = @ + 1, ![p].work = Mapped(@, P.a)]
              /\ free' = free \ Frames(Mapped(P.work, P.a))
       ELSE /\ free' = Unmappable \cup Freed(P.work)
            /\ proc' = Back(p)

-----------------------------------------------------------------------------
(* exec *)

exec(p) ==
  /\ At(p, "user") /\ CanSetup
  /\ proc' = [proc EXCEPT ![p].pc = "exec", ![p].work = setupkvm]
  /\ free' = free \ Frames(setupkvm)
  /\ UNCHANGED panicked

\* A segment that ends at newsz; allocuvm never makes the space smaller.
exec_segment(p, newsz) ==
  LET P == proc[p] IN
    /\ At(p, "exec")
    /\ newsz < KERNBASE
    /\ proc' = [proc EXCEPT ![p].pc = "segment", ![p].newsz = Max({newsz, P.wsz}),
                  ![p].a = PGROUNDUP(P.wsz) \div PGSIZE]
    /\ UNCHANGED <<free, panicked>>

exec_segment_page(p) == exec_page(p, "segment", "exec")

\* All segments are loaded: two pages for the guard and the stack.
exec_stack(p) ==
  LET P == proc[p]
      sz == PGROUNDUP(P.wsz) IN
    /\ At(p, "exec")
    /\ sz + 2 * PGSIZE < KERNBASE
    /\ proc' = [proc EXCEPT ![p].pc = "stack", ![p].wsz = sz, ![p].newsz = sz + 2 * PGSIZE,
                  ![p].a = sz \div PGSIZE]
    /\ UNCHANGED <<free, panicked>>

exec_stack_page(p) == exec_page(p, "stack", "args")

\* The arguments are on the stack, and the commit: the new space, then freevm.
exec_commit(p) ==
  LET P == proc[p] IN
    /\ At(p, "args")
    /\ free' = free \cup Freed(P.pgdir)
    /\ proc' = [Back(p) EXCEPT ![p].pgdir = P.work, ![p].sz = P.wsz, ![p].emptied = FALSE]
    /\ UNCHANGED panicked

\* An unreadable segment, one that does not fit, or arguments that do not.
exec_bad(p) ==
  /\ \E s \in {"exec", "args"} : At(p, s)
  /\ free' = free \cup Freed(proc[p].work)
  /\ proc' = Back(p)
  /\ UNCHANGED panicked

-----------------------------------------------------------------------------
(* exit and wait *)

exit(p) ==
  /\ At(p, "user") /\ p # 1
  /\ proc' = [proc EXCEPT ![p].pc = "zombie"]
  /\ UNCHANGED <<free, panicked>>

wait(p, q) ==
  /\ At(p, "user") /\ proc[q].pc = "zombie"
  /\ free' = free \cup {proc[q].kstack} \cup Freed(proc[q].pgdir)
  /\ proc' = [proc EXCEPT ![q] = Unused]
  /\ UNCHANGED panicked

\* panic() does not return.
panic_loop == panicked = 1 /\ UNCHANGED vars

Next ==
  \/ panic_loop
  \/ \E p \in Proc :
      \/ \E q \in Proc : fork(p, q) \/ wait(p, q)
      \/ copyuvm(p) \/ copyuvm_page(p)
      \/ \E n \in 1..KERNBASE : grow(p, n) \/ shrink(p, n) \/ exec_segment(p, n)
      \/ grow_page(p) \/ exec(p) \/ exec_segment_page(p) \/ exec_stack(p) \/ exec_stack_page(p)
      \/ exec_commit(p) \/ exec_bad(p) \/ exit(p)

Spec == Init /\ [][Next]_vars

-----------------------------------------------------------------------------
(* Properties *)

\* The places of a page directory that hold a page.
Places(A) ==
  Cardinality({x \in {"dir", "ktab"} : A[x] # 0})
    + Cardinality({t \in Table : A.tab[t] # 0}) + Cardinality({v \in Page : A.pte[v] # 0})

\* No page is lost and none is used twice, whichever allocation fails: each is
\* on the free list or in a place of a process, and pages and places are as many.
FramesOwnedOnce ==
  /\ Frame \subseteq free \cup UNION {Frames(proc[p].pgdir) \cup Frames(proc[p].work) \cup {proc[p].kstack} : p \in Proc}
  /\ NFRAMES = Cardinality(free) + MapThenSumSet(LAMBDA p : Places(proc[p].pgdir) + Places(proc[p].work)
                                       + (IF proc[p].kstack = 0 THEN 0 ELSE 1), Proc)

\* In user mode a process has the pages below sz and no others, which is what
\* copyuvm and mappages panic about later; after an sbrk that took back all of
\* its memory, it still has none beyond sz.
SizeIsMapped ==
  \A p \in Proc : proc[p].pc \in {"user", "zombie"} =>
    \A v \in Page :
      IF proc[p].emptied THEN proc[p].pgdir.pte[v] # 0 => v * PGSIZE < proc[p].sz
                         ELSE proc[p].pgdir.pte[v] # 0 <=> v * PGSIZE < proc[p].sz

\* Memory stays where it is under a process: as long as it keeps its size and
\* its directory, it keeps its pages, whatever fork, exec or the growing of
\* growproc fail at.  The one call that reports failure and takes pages is the
\* sbrk that shrinks a process to size 0, and it takes all of them.
FailureLeavesMemory ==
  [][\A p \in Proc : proc'[p].sz = proc[p].sz /\ proc'[p].pgdir.dir = proc[p].pgdir.dir =>
       \/ \A v \in Page : v * PGSIZE < proc[p].sz => proc'[p].pgdir.pte[v] = proc[p].pgdir.pte[v]
       \/ proc[p].pc = "user" /\ proc'[p].emptied /\ \A v \in Page : proc'[p].pgdir.pte[v] = 0]_vars

\* "remap" never happens, and "copyuvm: page not present" only in the fork of a
\* process that goes on after it has shrunk to size 0.
PanicsWhenEmptied == panicked = 1 => \E p \in Proc : proc[p].pc = "copy" /\ proc[p].emptied

\* Memory is accounted for at every step: every frame is free or owned once,
\* a process has the pages of its size, and vm.c's panics are not reached, but
\* for a process that has shrunk to size 0.
Inv == TypeOK /\ PanicsWhenEmptied /\ SizeIsMapped /\ FramesOwnedOnce
=============================================================================
