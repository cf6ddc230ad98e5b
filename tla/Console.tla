------------------------------- MODULE Console -------------------------------
(***************************************************************************)
(* The console's input in xv6/console.c: consoleintr edits lines in a ring  *)
(* buffer, and consoleread takes them out in processes that sleep when      *)
(* there is none.  The three indices are unsigned and wrap around; WRAP     *)
(* stands for 2^32, and like 2^32 it is a multiple of INPUT_BUF.  What a    *)
(* process does with cons.lock held is one action, except before sleep,     *)
(* where kill, which does not take cons.lock, comes in between.  The device *)
(* inode, which consoleread unlocks and locks again, is left out.           *)
(***************************************************************************)
EXTENDS Integers, Sequences

CONSTANTS
  Process,
  Key,                      \* what the keyboard or the serial line sends
  NUL, CR, NEWLINE, EOF,    \* keys that have a meaning
  INPUT_BUF, WRAP,
  MAXREAD                   \* most bytes a process asks for

VARIABLES
  buf, r, w, e,    \* struct input
  pc,              \* of a process in consoleread
  n, target,       \* bytes it still wants, and wanted
  killed

input == <<buf, r, w, e>>
vars == <<buf, r, w, e, pc, n, target, killed>>

\* What console.c has: the indices tell a full ring from an empty one, and a
\* newline is neither of the keys that are not stored.
Sizes ==
  /\ {INPUT_BUF, WRAP, MAXREAD} \subseteq Nat \ {0} /\ WRAP > INPUT_BUF
  /\ {NUL, CR, NEWLINE, EOF} \subseteq Key /\ NEWLINE \notin {NUL, CR}

Char == Key \ {NUL, CR}

TypeOK ==
  /\ buf \in [0..(INPUT_BUF - 1) -> Char]
  /\ {r, w, e} \subseteq 0..(WRAP - 1)
  /\ pc \in [Process -> {"user", "reading", "sleep", "asleep"}]
  /\ n \in [Process -> 0..MAXREAD] /\ target \in [Process -> 0..MAXREAD]
  /\ killed \in [Process -> {0, 1}]

Init ==
  /\ buf = [i \in 0..(INPUT_BUF - 1) |-> NEWLINE]
  /\ r = 0 /\ w = 0 /\ e = 0
  /\ pc = [p \in Process |-> "user"]
  /\ n = [p \in Process |-> 0] /\ target = [p \in Process |-> 0]
  /\ killed = [p \in Process |-> 0]

Plus(i, k) == (i + k) % WRAP
Minus(i, j) == (i - j) % WRAP
At(i) == buf[i % INPUT_BUF]

\* Somebody has cons.lock: a process between its test of killed and sleep.
Locked == \E p \in Process : pc[p] = "sleep"

-----------------------------------------------------------------------------
(* consoleintr *)

Woken == [p \in Process |-> IF pc[p] = "asleep" THEN "reading" ELSE pc[p]]

\* Variant: a full buffer waits for the newline.
Commits_line_only(c) == c \in {NEWLINE, EOF}

Commits(c) == c \in {NEWLINE, EOF} \/ Plus(e, 1) = Plus(r, INPUT_BUF)

HasRoom == Minus(e, r) < INPUT_BUF

Cooked(key) == IF key = CR THEN NEWLINE ELSE key

\* Variant: the readers are not woken.
WokenBy_none(c) == pc

\* wakeup(&input.r)
WokenBy(c) == IF Commits(c) THEN Woken ELSE pc

\* A character goes into the line.
consoleintr(key) ==
  LET c == Cooked(key) IN
    /\ ~Locked
    /\ key # NUL /\ HasRoom
    /\ buf' = [buf EXCEPT ![e % INPUT_BUF] = c]
    /\ e' = Plus(e, 1)
    /\ w' = IF Commits(c) THEN Plus(e, 1) ELSE w
    /\ pc' = WokenBy(c)
    /\ UNCHANGED <<r, n, target, killed>>

\* Variant: backspace may take back what is committed.
backspace_any ==
  /\ ~Locked
  /\ e # r
  /\ e' = Minus(e, 1)
  /\ UNCHANGED <<buf, r, w, pc, n, target, killed>>

backspace ==
  /\ ~Locked
  /\ e # w
  /\ e' = Minus(e, 1)
  /\ UNCHANGED <<buf, r, w, pc, n, target, killed>>

\* Control-U: back to w, or to a newline.
kill_line ==
  /\ ~Locked
  /\ \E k \in 0..Minus(e, w) :
       /\ \A j \in 1..k : At(Minus(e, j)) # NEWLINE
       /\ k = Minus(e, w) \/ At(Minus(e, k + 1)) = NEWLINE
       /\ e' = Minus(e, k)
  /\ UNCHANGED <<buf, r, w, pc, n, target, killed>>

-----------------------------------------------------------------------------
(* consoleread *)

Return(p) ==
  /\ pc' = [pc EXCEPT ![p] = "user"]
  /\ n' = [n EXCEPT ![p] = 0]
  /\ target' = [target EXCEPT ![p] = 0]

call(p) ==
  /\ pc[p] = "user" /\ killed[p] = 0
  /\ \E k \in 1..MAXREAD : n' = [n EXCEPT ![p] = k] /\ target' = [target EXCEPT ![p] = k]
  /\ pc' = [pc EXCEPT ![p] = "reading"]
  /\ UNCHANGED <<input, killed>>

\* The bytes the loop takes from what is committed: up to a newline, an
\* end-of-file mark or the count.
Ends(p, k) == k = n[p] \/ At(Plus(r, k - 1)) \in {NEWLINE, EOF}
Taken(p) ==
  CHOOSE k \in 1..Minus(w, r) :
    /\ \A j \in 1..(k - 1) : ~Ends(p, j)
    /\ k = Minus(w, r) \/ Ends(p, k)

\* The mark is left for the next call if there are bytes before it.
KeepsMark(p, k) == n[p] - (k - 1) < target[p]

consoleread(p) ==
  LET k == Taken(p) IN
    /\ pc[p] = "reading" /\ ~Locked
    /\ r # w
    /\ r' = Plus(r, IF At(Plus(r, k - 1)) = EOF /\ KeepsMark(p, k) THEN k - 1 ELSE k)
    /\ IF Ends(p, k)
         THEN Return(p)
         ELSE n' = [n EXCEPT ![p] = @ - k] /\ UNCHANGED <<pc, target>>
    /\ UNCHANGED <<buf, w, e, killed>>

\* Nothing is committed: killed is tested, ...
consoleread_wait(p) ==
  /\ pc[p] = "reading" /\ ~Locked
  /\ r = w
  /\ IF killed[p] = 1 THEN Return(p)
                      ELSE pc' = [pc EXCEPT ![p] = "sleep"] /\ UNCHANGED <<n, target>>
  /\ UNCHANGED <<input, killed>>

\* ... and the process sleeps, giving up the lock.
sleep(p) ==
  /\ pc[p] = "sleep"
  /\ pc' = [pc EXCEPT ![p] = "asleep"]
  /\ UNCHANGED <<input, n, target, killed>>

kill(p) ==
  /\ killed[p] = 0
  /\ killed' = [killed EXCEPT ![p] = 1]
  /\ pc' = [pc EXCEPT ![p] = IF @ = "asleep" THEN "reading" ELSE @]
  /\ UNCHANGED <<input, n, target>>

Next ==
  \/ \E key \in Key : consoleintr(key)
  \/ backspace \/ kill_line
  \/ \E p \in Process : call(p) \/ consoleread(p) \/ consoleread_wait(p) \/ sleep(p) \/ kill(p)

Spec == Init /\ [][Next]_vars

\* A process that can run gets to.
Fairness ==
  \A p \in Process : WF_vars(consoleread(p)) /\ WF_vars(consoleread_wait(p)) /\ WF_vars(sleep(p))

-----------------------------------------------------------------------------
(* Properties *)

Slice(from, to) == [i \in 1..Minus(to, from) |-> At(Plus(from, i - 1))]

Lines == INSTANCE LineInput WITH
  edit <- Slice(w, e), ready <- Slice(r, w), had <- [p \in Process |-> target[p] - n[p]],
  Capacity <- INPUT_BUF

\* The ring with its three wrapping indices is a line editor: what is typed
\* is read once, in order, and never after it was erased; a read ends with a
\* line, and an end-of-file mark is the whole of one read, also when it comes
\* after a part of a read (consoleread puts it back).
IsLineInput == Lines!Spec

\* A reader sleeps only while nothing is committed, and a full buffer is
\* committed: typing cannot fill the buffer and leave every reader asleep.
NoLostLine ==
  /\ \A p \in Process : pc[p] = "asleep" => r = w
  /\ ~HasRoom => r # w

\* The indices of the ring stay in order and within its size, and no reader
\* sleeps beside a committed line.
Inv == TypeOK /\ NoLostLine /\ Minus(w, r) + Minus(e, w) = Minus(e, r) /\ Minus(e, r) <= INPUT_BUF

\* What is committed reaches a process that waits for it.
ReaderGetsLine ==
  \A p \in Process : pc[p] # "user" /\ r # w ~> pc[p] = "user" \/ r = w
=============================================================================
