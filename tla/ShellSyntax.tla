----------------------------- MODULE ShellSyntax -----------------------------
(***************************************************************************)
(* The commands of xv6/sh.c and its recursive-descent parser.  A line is    *)
(* the sequence of its tokens, as gettoken cuts them: symbols, and words,   *)
(* which are any other string.  parsing that ends in panic gives Panic.     *)
(***************************************************************************)
EXTENDS Integers, Sequences, SequencesExt

CONSTANT MAXARGS

ASSUME ShellSyntaxAssumption == MAXARGS \in Nat \ {0}

Redirs == {"<", ">", ">>"}
symbols == Redirs \cup {"|", "&", ";", "(", ")"}
IsWord(tok) == tok \notin symbols

execcmd == [type |-> "EXEC", argv |-> <<>>]
redircmd(cmd, file, fd) == [type |-> "REDIR", cmd |-> cmd, file |-> file, fd |-> fd]
pipecmd(l, r) == [type |-> "PIPE", left |-> l, right |-> r]
listcmd(l, r) == [type |-> "LIST", left |-> l, right |-> r]
backcmd(cmd) == [type |-> "BACK", cmd |-> cmd]

Parsed(cmd, s) == [ok |-> TRUE, cmd |-> cmd, rest |-> s]
Panic == [ok |-> FALSE, cmd |-> execcmd, rest |-> <<>>]

Then(r, F(_, _)) == IF r.ok THEN F(r.cmd, r.rest) ELSE r

peek(s, toks) == s # <<>> /\ Head(s) \in toks

RECURSIVE parseline(_), parsepipe(_), parseredirs(_, _), ParseArgs(_, _), Back(_, _), AddArg(_, _), Argc(_)

parseredirs(cmd, s) ==
  IF ~peek(s, Redirs) THEN Parsed(cmd, s)
  ELSE IF Len(s) < 2 \/ ~IsWord(s[2]) THEN Panic
  ELSE parseredirs(redircmd(cmd, s[2], IF s[1] = "<" THEN 0 ELSE 1), SubSeq(s, 3, Len(s)))

\* ret points to the redirections, cmd to the execcmd inside them.
AddArg(ret, w) ==
  IF ret.type = "EXEC" THEN [ret EXCEPT !.argv = Append(@, w)]
  ELSE [ret EXCEPT !.cmd = AddArg(@, w)]

Argc(ret) == IF ret.type = "EXEC" THEN Len(ret.argv) ELSE Argc(ret.cmd)

TooMany(ret) == Argc(ret) >= MAXARGS

ParseArgs(ret, s) ==
  IF s = <<>> \/ peek(s, {"|", ")", "&", ";"}) THEN Parsed(ret, s)
  ELSE IF ~IsWord(Head(s)) \/ TooMany(AddArg(ret, Head(s))) THEN Panic
  ELSE Then(parseredirs(AddArg(ret, Head(s)), Tail(s)), ParseArgs)

parseblock(s) ==
  Then(parseline(Tail(s)),
       LAMBDA cmd, r : IF peek(r, {")"}) THEN parseredirs(cmd, Tail(r)) ELSE Panic)

parseexec(s) ==
  IF peek(s, {"("}) THEN parseblock(s)
  ELSE Then(parseredirs(execcmd, s), ParseArgs)

parsepipe(s) ==
  Then(parseexec(s),
       LAMBDA cmd, r :
         IF peek(r, {"|"})
         THEN Then(parsepipe(Tail(r)), LAMBDA right, q : Parsed(pipecmd(cmd, right), q))
         ELSE Parsed(cmd, r))

Back(cmd, s) == IF peek(s, {"&"}) THEN Back(backcmd(cmd), Tail(s)) ELSE Parsed(cmd, s)

parseline(s) ==
  Then(Then(parsepipe(s), Back),
       LAMBDA cmd, r :
         IF peek(r, {";"})
         THEN Then(parseline(Tail(r)), LAMBDA right, q : Parsed(listcmd(cmd, right), q))
         ELSE Parsed(cmd, r))

\* Variant: what is left of the line is dropped.
Leftovers_none(s) == FALSE

Leftovers(s) == s # <<>>

parsecmd(s) == Then(parseline(s), LAMBDA cmd, r : IF Leftovers(r) THEN Panic ELSE Parsed(cmd, r))
=============================================================================
