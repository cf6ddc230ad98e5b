-------------------------------- MODULE Clock --------------------------------
(***************************************************************************)
(* w11/clock-example.c: the CLOCK eviction algorithm as a ring buffer with  *)
(* a hand, over pages that are in clear text (PTE_P) while they are in the  *)
(* ring and encrypted (PTE_E) while they are not.  One iteration of         *)
(* clk_insert's loop is one action.                                         *)
(***************************************************************************)
EXTENDS Integers, Sequences, FiniteSets, FiniteSetsExt, SequencesExt

CONSTANTS Page, CLOCKSIZE, NoPage

Index == 0..(CLOCKSIZE - 1)

VARIABLES
  clk_queue,     \* the page in each slot, NoPage for vpn == -1
  clk_hand,
  present, accessed, encrypted,   \* PTE_P, PTE_A, PTE_E of each page
  allocated,     \* pages the process owns
  fault          \* the page clk_insert is putting in

ptes == <<present, accessed, encrypted>>
vars == <<clk_queue, clk_hand, present, accessed, encrypted, allocated, fault>>

TypeOK ==
  /\ clk_queue \in [Index -> Page \cup {NoPage}]
  /\ clk_hand \in -1..(CLOCKSIZE - 1)
  /\ present \in [Page -> {0, 1}] /\ accessed \in [Page -> {0, 1}]
  /\ encrypted \in [Page -> {0, 1}]
  /\ allocated \subseteq Page
  /\ fault \in Page \cup {NoPage}

\* main(): every page encrypted, clk_clear().
Init ==
  /\ clk_queue = [k \in Index |-> NoPage]
  /\ clk_hand = -1
  /\ present = [p \in Page |-> 0] /\ accessed = [p \in Page |-> 0]
  /\ encrypted = [p \in Page |-> 1]
  /\ allocated = Page
  /\ fault = NoPage

-----------------------------------------------------------------------------

\* do_ref_page of a present page: the hardware sets the reference bit.
do_ref_page(p) ==
  /\ fault = NoPage /\ p \in allocated
  /\ present[p] = 1
  /\ accessed' = [accessed EXCEPT ![p] = 1]
  /\ UNCHANGED <<clk_queue, clk_hand, present, encrypted, allocated, fault>>

\* do_ref_page of any other page: a page fault.
page_fault(p) ==
  /\ fault = NoPage /\ p \in allocated
  /\ present[p] = 0
  /\ fault' = p
  /\ UNCHANGED <<clk_queue, clk_hand, ptes, allocated>>

hand == (clk_hand + 1) % CLOCKSIZE
slot == clk_queue[hand]

\* clk_insert: the page under the hand gets a second chance.
clk_insert_pass ==
  /\ fault # NoPage
  /\ slot # NoPage /\ accessed[slot] = 1
  /\ clk_hand' = hand
  /\ accessed' = [accessed EXCEPT ![slot] = 0]
  /\ UNCHANGED <<clk_queue, present, encrypted, allocated, fault>>

\* Variant: the evicted page is left in clear text.
mencrypt_nothing(q, bits) == bits

\* mencrypt(q) and mdecrypt(p) on the PTE_P bits.
mencrypt(q, bits) == IF q = NoPage THEN bits ELSE [bits EXCEPT ![q] = 0]
mdecrypt(p, bits) == [bits EXCEPT ![p] = 1]

\* clk_insert finds an empty slot or evicts, decrypts the new page, and the
\* hardware sets its reference bit.
clk_insert ==
  /\ fault # NoPage
  /\ slot \notin {p \in Page : accessed[p] = 1}
  /\ clk_hand' = hand
  /\ clk_queue' = [clk_queue EXCEPT ![hand] = fault]
  /\ present' = mdecrypt(fault, mencrypt(slot, present))
  /\ encrypted' = [p \in Page |->
       IF p = fault THEN 0 ELSE IF p = slot THEN 1 ELSE encrypted[p]]
  /\ accessed' = [accessed EXCEPT ![fault] = 1]
  /\ fault' = NoPage
  /\ UNCHANGED allocated

\* Variant: the queue is closed up over the whole ring.
Shifted_all(m) == (0..(CLOCKSIZE - 1)) \ {clk_hand}

\* The slots from m up to, not including, the hand.
Shifted(m) == {k \in Index : (k - m) % CLOCKSIZE < (clk_hand - m) % CLOCKSIZE}

HandBack == IF clk_hand = 0 THEN CLOCKSIZE - 1 ELSE clk_hand - 1

\* clk_remove: close up the queue and step the hand back.  With clk_hand == -1
\* the search finds nothing: all slots are empty, and a match at index -1
\* would not count.
clk_remove(p) ==
  LET match == {k \in Index : clk_queue[k] = p} IN
    IF match = {} THEN UNCHANGED <<clk_queue, clk_hand>>
    ELSE LET m == Min(match) IN
      /\ clk_queue' = [k \in Index |->
           IF k = clk_hand THEN NoPage
           ELSE IF k \in Shifted(m) THEN clk_queue[(k + 1) % CLOCKSIZE]
           ELSE clk_queue[k]]
      /\ clk_hand' = HandBack

\* do_remove_page at page deallocation; the PTE is not touched.
do_remove_page(p) ==
  /\ fault = NoPage /\ p \in allocated
  /\ clk_remove(p)
  /\ allocated' = allocated \ {p}
  /\ UNCHANGED <<ptes, fault>>

\* A page allocated anew starts encrypted and with a fresh PTE.
allocate(p) ==
  /\ fault = NoPage /\ p \notin allocated
  /\ present' = [present EXCEPT ![p] = 0]
  /\ encrypted' = [encrypted EXCEPT ![p] = 1]
  /\ accessed' = [accessed EXCEPT ![p] = 0]
  /\ allocated' = allocated \cup {p}
  /\ UNCHANGED <<clk_queue, clk_hand, fault>>

Loop == clk_insert_pass \/ clk_insert

Next ==
  \/ Loop
  \/ \E p \in Page : do_ref_page(p) \/ page_fault(p) \/ do_remove_page(p) \/ allocate(p)

Spec == Init /\ [][Next]_vars

-----------------------------------------------------------------------------
(* Properties *)

\* The ring from the slot after the hand round to the hand, without the empty
\* slots: oldest page first.
RingOrder ==
  SelectSeq([k \in 1..CLOCKSIZE |-> clk_queue[(clk_hand + k) % CLOCKSIZE]],
            LAMBDA p : p # NoPage)

\* The ring with its hand, shifted on removal, is the second-chance FIFO: the
\* page evicted is the oldest one not referenced since it last came up, and a
\* removal leaves the order of the others alone.
Policy == INSTANCE SecondChance WITH
  Capacity <- CLOCKSIZE, queue <- RingOrder, new <- fault,
  ref <- {p \in Range(RingOrder) : accessed[p] = 1}
IsSecondChance == Policy!Spec

\* A page of the process is in clear text exactly while it is in the ring, once.
PresentIsQueued ==
  \A p \in allocated :
    /\ present[p] = 1 - encrypted[p]
    /\ Cardinality({k \in Index : clk_queue[k] = p}) = present[p]

\* Pages and ring agree between any two steps of an insertion or a removal.
Inv == TypeOK /\ PresentIsQueued
=============================================================================
