------------------------------ MODULE ByteQueue ------------------------------
(***************************************************************************)
(* What a pipe promises: bytes come out once, in the order they went in, at *)
(* most Capacity of them are under way, and a reader is told of the end of  *)
(* the data only when no writer is left and every byte has been delivered.  *)
(***************************************************************************)
EXTENDS Integers, Sequences

CONSTANTS Reader, Byte, Capacity

VARIABLES
  queue,     \* bytes written and not yet read
  got,       \* what the last read of each reader returned
  writers    \* 1 while the write end is open

vars == <<queue, got, writers>>

Init ==
  /\ queue = << >>
  /\ got = [r \in Reader |-> << >>]
  /\ writers = 1

Write ==
  /\ writers = 1
  /\ \E k \in 0..(Capacity - Len(queue)) :
       \E s \in [1..k -> Byte] : queue' = queue \o s
  /\ UNCHANGED <<got, writers>>

Read(r) ==
  /\ \E k \in 1..Len(queue) :
       /\ got' = [got EXCEPT ![r] = SubSeq(queue, 1, k)]
       /\ queue' = SubSeq(queue, k + 1, Len(queue))
  /\ UNCHANGED writers

EndOfFile(r) ==
  /\ writers = 0 /\ queue = << >>
  /\ got' = [got EXCEPT ![r] = << >>]
  /\ UNCHANGED <<queue, writers>>

CloseWriteEnd ==
  /\ writers = 1 /\ writers' = 0
  /\ UNCHANGED <<queue, got>>

Next == Write \/ CloseWriteEnd \/ \E r \in Reader : Read(r) \/ EndOfFile(r)

Spec == Init /\ [][Next]_vars
=============================================================================
