----------------------------- MODULE ConsoleLines -----------------------------
(* Console under names that leave those it shares with other modules to them:  *)
(* its processes, their control points and the flag that kill sets.            *)

CONSTANTS CProcess, Key, NUL, CR, NEWLINE, EOF, INPUT_BUF, WRAP, MAXREAD

VARIABLES buf, r, w, e, cpc, n, target, ckilled

C == INSTANCE Console WITH Process <- CProcess, pc <- cpc, killed <- ckilled

\* The ring of the console stays in order and nobody sleeps beside a committed
\* line (consoleintr against consoleread).
NoLostLine == C!Inv

=============================================================================
