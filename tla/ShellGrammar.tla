---------------------------- MODULE ShellGrammar -----------------------------
(***************************************************************************)
(* The grammar that the parser of xv6/sh.c stands for, stated on whole      *)
(* sequences of tokens; Line(s) is the set of trees it gives s:             *)
(*                                                                         *)
(*   line  ::= job | job ; line          job    ::= pipe | job &            *)
(*   pipe  ::= simple | simple '|' pipe                                     *)
(*   simple ::= ( line ) redirection*  |  words and redirections, mixed     *)
(***************************************************************************)
EXTENDS ShellSyntax

Before(s, i) == SubSeq(s, 1, i - 1)
After(s, i) == SubSeq(s, i + 1, Len(s))
At(s, tok) == {i \in DOMAIN s : s[i] = tok}

Redirect(cmd, s) ==
  FoldLeft(LAMBDA c, i : redircmd(c, s[i + 1], IF s[i] = "<" THEN 0 ELSE 1), cmd,
           SelectSeq([i \in DOMAIN s |-> i], LAMBDA i : s[i] \in Redirs))

\* Words and redirections: every arrow has a word after it, and the other
\* words are the arguments.
SimpleWords(s) ==
  LET arrows == {i \in DOMAIN s : s[i] \in Redirs}
      args == SelectSeq([i \in DOMAIN s |-> i], LAMBDA i : {i, i - 1} \cap arrows = {})
  IN IF /\ \A i \in DOMAIN s \ arrows : IsWord(s[i])
        /\ \A i \in arrows : i + 1 \in DOMAIN s \ arrows
        /\ Len(args) < MAXARGS
     THEN {Redirect([execcmd EXCEPT !.argv = [k \in DOMAIN args |-> s[args[k]]]], s)}
     ELSE {}

RECURSIVE Line(_), Job(_), Pipeline(_)

Simple(s) ==
  SimpleWords(s) \cup
  UNION {IF s[1] = "(" /\ \E c \in SimpleWords(After(s, i)) : Argc(c) = 0
         THEN {Redirect(c, After(s, i)) : c \in Line(SubSeq(s, 2, i - 1))}
         ELSE {} : i \in At(s, ")")}

Pipeline(s) ==
  Simple(s) \cup
  UNION {{pipecmd(l, r) : l \in Simple(Before(s, i)), r \in Pipeline(After(s, i))} : i \in At(s, "|")}

Job(s) ==
  Pipeline(s) \cup
  (IF s # <<>> /\ Last(s) = "&" THEN {backcmd(c) : c \in Job(Front(s))} ELSE {})

Line(s) ==
  Job(s) \cup
  UNION {{listcmd(l, r) : l \in Job(Before(s, i)), r \in Line(After(s, i))} : i \in At(s, ";")}
=============================================================================
