------------------------------ MODULE MCStreams ------------------------------
(* The two streams of bytes that processes sleep on: pipes and the console.  *)
(* One of the two is used in a behaviour, the other stays as it was          *)
(* initially.                                                                *)
EXTENDS Pipe, ConsoleLines

VARIABLE stream   \* the one in use

console == <<buf, r, w, e, cpc, n, target, ckilled>>

ASSUME ConsoleAssumption == C!Sizes /\ WRAP % INPUT_BUF = 0

MCInit == Init /\ C!Init /\ stream \in {"pipe", "console"}
MCNext ==
  \/ stream = "pipe" /\ Next /\ UNCHANGED <<stream, console>>
  \/ stream = "console" /\ C!Next /\ UNCHANGED <<stream, vars>>
MCSpec == MCInit /\ [][MCNext]_<<vars, console, stream>> /\ Fairness /\ C!Fairness

\* The ring of the console is a line editor (consoleintr, consoleread).
IsLineInput == C!IsLineInput

\* A committed line reaches a process that waits for it (consoleread).
ReaderGetsLine == C!ReaderGetsLine
=============================================================================
