------------------------------ MODULE LineInput ------------------------------
(***************************************************************************)
(* What the console promises of its input.  A line is edited until a       *)
(* newline, an end-of-file mark or a full buffer commits it.  What is      *)
(* committed is read in order, once.  A read stops at a newline, and an    *)
(* end-of-file mark is a read of its own, without bytes.                   *)
(***************************************************************************)
EXTENDS Naturals, Sequences

CONSTANTS Process, Char, NEWLINE, EOF, Capacity

VARIABLES
  edit,     \* the line being typed
  ready,    \* what is committed and not read
  had       \* bytes that the read a process is in has got so far

vars == <<edit, ready, had>>

Init == edit = <<>> /\ ready = <<>> /\ had = [p \in Process |-> 0]

Commits(c, line) == c \in {NEWLINE, EOF} \/ Len(ready) + Len(line) = Capacity

Type(c) ==
  /\ Len(ready) + Len(edit) < Capacity
  /\ LET line == Append(edit, c) IN
       /\ edit' = IF Commits(c, line) THEN <<>> ELSE line
       /\ ready' = IF Commits(c, line) THEN ready \o line ELSE ready
  /\ UNCHANGED had

Erase == edit # <<>> /\ edit' = SubSeq(edit, 1, Len(edit) - 1) /\ UNCHANGED <<ready, had>>

Kill == edit' = <<>> /\ UNCHANGED <<ready, had>>

\* The bytes i are text, a newline may only be the last, and then the read
\* returns.
Read(p, k) ==
  /\ \A i \in 1..k : ready[i] # EOF /\ (ready[i] = NEWLINE => i = k)
  /\ ready' = SubSeq(ready, k + 1, Len(ready))
  /\ had' \in {[had EXCEPT ![p] = 0]} \cup
       IF ready[k] = NEWLINE THEN {} ELSE {[had EXCEPT ![p] = @ + k]}
  /\ UNCHANGED edit

ReadEof(p) ==
  /\ ready # <<>> /\ Head(ready) = EOF /\ had[p] = 0
  /\ ready' = Tail(ready)
  /\ UNCHANGED <<edit, had>>

\* A read returns what it has: the next is an end-of-file mark, or it is killed.
Return(p) == had' = [had EXCEPT ![p] = 0] /\ UNCHANGED <<edit, ready>>

Next ==
  \/ \E c \in Char : Type(c)
  \/ Erase \/ Kill
  \/ \E p \in Process : ReadEof(p) \/ Return(p) \/ \E k \in 1..Len(ready) : Read(p, k)

Spec == Init /\ [][Next]_vars
=============================================================================
