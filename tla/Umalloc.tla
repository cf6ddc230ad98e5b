------------------------------- MODULE Umalloc -------------------------------
(***************************************************************************)
(* The user-level allocator of xv6/umalloc.c: a circular list of free       *)
(* blocks in address order, from which malloc takes the first that is large *)
(* enough and into which free puts a block back, joined with its            *)
(* neighbours.  Addresses and sizes are in headers; address 0 is base.      *)
(* Others may move the break too, so the heap has gaps.  A header that has  *)
(* become part of a block is set to 0; the code leaves it and never looks.  *)
(***************************************************************************)
EXTENDS Integers, FiniteSets, FiniteSetsExt, Functions

CONSTANTS
  MAXHEAP,     \* the break cannot go beyond this
  NALLOC,      \* least number of headers morecore asks for
  Requests     \* numbers of headers asked of malloc: 1 for no bytes, else 2 or more

Addr == 0..MAXHEAP
base == 0

VARIABLES
  ptr, size,     \* the header at an address
  freep,         \* -1 is the null pointer
  brk,           \* the next address that sbrk returns
  blocks,        \* blocks handed out: addresses of their headers
  heap,          \* addresses that morecore has got from sbrk
  want           \* the request malloc is working on, 0 for none

vars == <<ptr, size, freep, brk, blocks, heap, want>>

TypeOK ==
  /\ ptr \in [Addr -> Addr] /\ size \in [Addr -> 0..MAXHEAP]
  /\ freep \in Addr \cup {-1} /\ brk \in 1..(MAXHEAP + 1)
  /\ blocks \subseteq Addr \ {base} /\ heap \subseteq Addr \ {base}
  /\ want \in Requests \cup {0}

Init ==
  /\ ptr = [a \in Addr |-> 0] /\ size = [a \in Addr |-> 0]
  /\ freep = -1 /\ brk = 1 /\ blocks = {} /\ heap = {} /\ want = 0

\* The nodes met from freep on, once round at least: two free blocks do not
\* touch, so that every other header is a node at most.
Turn == 0..(MAXHEAP \div 2 + 2)
Walk[k \in Turn] == IF k = 0 THEN freep ELSE ptr[Walk[k - 1]]

-----------------------------------------------------------------------------
(* free *)

\* The node after which a block at bp belongs, as free's loop finds it.
After(bp, p) ==
  \/ bp > p /\ bp < ptr[p]
  \/ p >= ptr[p] /\ (bp > p \/ bp < ptr[p])

Found(bp) == {k \in Turn : After(bp, Walk[k])}

\* Variant: a block is never joined with the one before it.
JoinsLower_never(p, bp) == FALSE

JoinsLower(p, bp) == p + size[p] = bp

\* The size of a block of n headers and of the next one, if they touch.
Joined(bp, n, next) == IF bp + n = next THEN n + size[next] ELSE n

\* free of the n headers at bp, which a next block that touches them joins.
Release(bp, n) ==
  LET p == Walk[Min(Found(bp))]
      next == ptr[p]
      gone == (IF bp + n = next THEN {next} ELSE {}) \cup (IF JoinsLower(p, bp) THEN {bp} ELSE {})
      link == IF bp + n = next THEN ptr[next] ELSE next
      n2 == Joined(bp, n, next) IN
    /\ size' = [a \in Addr |-> IF a \in gone THEN 0
                 ELSE IF a = bp THEN n2
                 ELSE IF a = p /\ JoinsLower(p, bp) THEN size[p] + n2 ELSE size[a]]
    /\ ptr' = [a \in Addr |-> IF a \in gone THEN 0
                 ELSE IF a = bp \/ (a = p /\ JoinsLower(p, bp)) THEN link
                 ELSE IF a = p THEN bp ELSE ptr[a]]
    /\ freep' = p

free(bp) ==
  /\ want = 0
  /\ Found(bp) # {}
  /\ Release(bp, size[bp])
  /\ blocks' = blocks \ {bp}
  /\ UNCHANGED <<brk, heap, want>>

-----------------------------------------------------------------------------
(* malloc *)

\* The first call makes the list of base alone.
malloc(n) ==
  /\ want = 0
  /\ want' = n
  /\ IF freep = -1
       THEN /\ freep' = base
            /\ ptr' = [ptr EXCEPT ![base] = base] /\ size' = [size EXCEPT ![base] = 0]
       ELSE UNCHANGED <<freep, ptr, size>>
  /\ UNCHANGED <<brk, blocks, heap>>

\* The turns of the loop, before it is back at freep, that find enough.
Turns == {k \in Turn \ {0} : size[Walk[k]] >= want /\ \A j \in 1..(k - 1) : Walk[j] # freep}

Remainder(p) == size[p] - want

\* The block is unlinked, or its tail is handed out.
malloc_found ==
  LET k == Min(Turns)
      p == Walk[k]
      prevp == Walk[k - 1]
      tail == p + (size[p] - want) IN
    /\ want # 0 /\ Turns # {}
    /\ IF size[p] = want
         THEN ptr' = [ptr EXCEPT ![prevp] = ptr[p], ![p] = 0] /\ UNCHANGED size
         ELSE size' = [size EXCEPT ![p] = Remainder(p), ![tail] = want] /\ UNCHANGED ptr
    /\ blocks' = blocks \cup {tail}
    /\ freep' = prevp
    /\ want' = 0
    /\ UNCHANGED <<brk, heap>>

\* sbrk returns memory.
Granted(nu) == brk + nu <= MAXHEAP + 1

\* morecore: sbrk, and the new memory is freed; or there is no more.
morecore ==
  LET nu == Max({want, NALLOC}) IN
    /\ want # 0 /\ Turns = {}
    /\ IF Granted(nu)
         THEN /\ Found(brk) # {}
              /\ Release(brk, nu)
              /\ brk' = brk + nu
              /\ heap' = heap \cup brk..(brk + nu - 1)
              /\ UNCHANGED want
         ELSE want' = 0 /\ UNCHANGED <<ptr, size, freep, brk, heap>>
    /\ UNCHANGED blocks

\* The program moves the break itself.
sbrk ==
  /\ want = 0 /\ brk <= MAXHEAP
  /\ brk' = brk + 1
  /\ UNCHANGED <<ptr, size, freep, blocks, heap, want>>

Next ==
  \/ \E n \in Requests : malloc(n)
  \/ malloc_found \/ morecore \/ sbrk
  \/ \E bp \in blocks : free(bp)

Spec == Init /\ [][Next]_vars

-----------------------------------------------------------------------------
(* Properties *)

FreeNodes == IF freep = -1 THEN {} ELSE Range(Walk)
Extent(a) == a..(a + size[a] - 1)

\* Every header of the heap is in one block, handed out or free: no two
\* blocks overlap and no memory is lost.
HeapIsPartitioned ==
  LET free_nodes == FreeNodes
      all == blocks \cup (free_nodes \ {base})
  IN
    /\ blocks \cap free_nodes = {}
    /\ UNION {Extent(a) : a \in all} = heap
    /\ \A a, b \in all : a # b => Extent(a) \cap Extent(b) = {}

\* The list is in address order with one turn back, which is what free's
\* search relies on to end, and goes through base.
SortedCircle ==
  LET nodes == FreeNodes
      above(p) == {q \in nodes : q > p}
  IN
    freep # -1 =>
      /\ base \in nodes
      /\ \A p \in nodes : ptr[p] = IF above(p) # {} THEN Min(above(p)) ELSE base

\* Neighbouring free blocks are always joined: freeing everything gives back
\* blocks as large as they came from sbrk.
Coalesced == LET nodes == FreeNodes \ {base} IN \A p, q \in nodes : p + size[p] # q

\* A search of the free list ends: there is a place for every block and
\* for new memory, and walking the list comes back to freep.
SearchEnds ==
  /\ \A bp \in blocks : Found(bp) # {}
  /\ want # 0 => Found(brk) # {} /\ \E k \in Turn \ {0} : Walk[k] = freep

\* The allocator is sound: blocks handed out by malloc never overlap and none is
\* lost, the free list is a sorted circle on which free's and malloc's searches
\* end, and free leaves no two neighbours apart.
Inv == TypeOK /\ HeapIsPartitioned /\ SortedCircle /\ Coalesced /\ SearchEnds
=============================================================================
