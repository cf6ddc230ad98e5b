---------------------------- MODULE SecondChance ----------------------------
(***************************************************************************)
(* The CLOCK policy as w11/README.md defines it: a FIFO queue in which a    *)
(* page that was referenced gets a second chance before it is evicted.      *)
(***************************************************************************)
EXTENDS Integers, Sequences, SequencesExt

CONSTANTS Page, NoPage, Capacity

VARIABLES
  queue,    \* oldest page first
  ref,      \* the queued pages that were referenced recently
  new       \* the page being brought in

vars == <<queue, ref, new>>

Init == queue = << >> /\ ref = {} /\ new = NoPage

Touch(p) ==
  /\ new = NoPage /\ p \in Range(queue)
  /\ ref' = ref \cup {p}
  /\ UNCHANGED <<queue, new>>

Fault(p) ==
  /\ new = NoPage /\ p \notin Range(queue)
  /\ new' = p
  /\ UNCHANGED <<queue, ref>>

\* The oldest page was referenced: it goes to the end, its bit cleared.
Pass ==
  /\ new # NoPage /\ Len(queue) = Capacity /\ Head(queue) \in ref
  /\ queue' = Append(Tail(queue), Head(queue))
  /\ ref' = ref \ {Head(queue)}
  /\ UNCHANGED new

\* There is room, or the oldest page was not referenced and is evicted.
Enter ==
  /\ new # NoPage
  /\ \/ Len(queue) < Capacity /\ queue' = Append(queue, new)
     \/ /\ Len(queue) = Capacity /\ Head(queue) \notin ref
        /\ queue' = Append(Tail(queue), new)
  /\ ref' = ref \cup {new}
  /\ new' = NoPage

Drop(p) ==
  /\ new = NoPage
  /\ queue' = SelectSeq(queue, LAMBDA q : q # p)
  /\ ref' = ref \ {p}
  /\ UNCHANGED new

Next == Pass \/ Enter \/ \E p \in Page : Touch(p) \/ Fault(p) \/ Drop(p)

Spec == Init /\ [][Next]_vars
=============================================================================
