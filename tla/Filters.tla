------------------------------- MODULE Filters -------------------------------
(***************************************************************************)
(* The user programs that read a stream in pieces: cat, wc and grep of      *)
(* xv6/cat.c, wc.c and grep.c.  read() returns what there is, so that words *)
(* and lines are cut anywhere (a pipe returns what has been written so      *)
(* far).  Text is a sequence of one-character strings; one turn of the loop *)
(* round read() is one action.                                              *)
(***************************************************************************)
EXTENDS Integers, Sequences, FiniteSets, FiniteSetsExt, SequencesExt

CONSTANTS
  Text,        \* what is in the file
  Pattern,     \* first arguments of grep
  BUFSIZE      \* sizeof(buf)

NL == "\n"
Space == {" ", NL}

VARIABLES
  prog, re, file,   \* the program, its pattern and its input
  pos,              \* bytes read
  out,              \* what cat or grep wrote
  l, w, c, inword,  \* of wc
  left,             \* the m bytes at the start of grep's buf
  dropped           \* where a read of grep without a newline ended (for the properties)

vars == <<prog, re, file, pos, out, l, w, c, inword, left, dropped>>

Start(program, pattern, input) ==
  /\ prog = program /\ re = pattern /\ file = input
  /\ pos = 0 /\ out = <<>> /\ left = <<>> /\ dropped = {}
  /\ l = 0 /\ w = 0 /\ c = 0 /\ inword = 0

Init ==
  \E t \in Text :
    \/ \E g \in {"cat", "wc"} : Start(g, <<>>, t)
    \/ \E q \in Pattern : Start("grep", q, t)

\* read(): k bytes from pos.
Piece(k) == SubSeq(file, pos + 1, pos + k)
Rest == Len(file) - pos

-----------------------------------------------------------------------------
(* cat and wc *)

cat(k) ==
  /\ prog = "cat" /\ k <= BUFSIZE
  /\ out' = out \o Piece(k)
  /\ pos' = pos + k
  /\ UNCHANGED <<prog, re, file, l, w, c, inword, left, dropped>>

\* inword before the i-th byte of a piece.
InWord(s, i) == IF i = 1 THEN inword = 1 ELSE s[i - 1] \notin Space

wc(k) ==
  LET s == Piece(k) IN
    /\ prog = "wc" /\ k <= BUFSIZE
    /\ c' = c + k
    /\ l' = l + Cardinality({i \in 1..k : s[i] = NL})
    /\ w' = w + Cardinality({i \in 1..k : s[i] \notin Space /\ ~InWord(s, i)})
    /\ inword' = IF s[k] \in Space THEN 0 ELSE 1
    /\ pos' = pos + k
    /\ UNCHANGED <<prog, re, file, out, left, dropped>>

-----------------------------------------------------------------------------
(* grep *)

RECURSIVE matchhere(_, _), matchstar(_, _, _)

\* ch*p at the beginning of t.
matchstar(ch, p, t) ==
  \/ matchhere(p, t)
  \/ t # <<>> /\ (t[1] = ch \/ ch = ".") /\ matchstar(ch, p, Tail(t))

matchhere(p, t) ==
  CASE p = <<>> -> TRUE
    [] Len(p) > 1 /\ p[2] = "*" -> matchstar(p[1], Tail(Tail(p)), t)
    [] p = <<"$">> -> t = <<>>
    [] OTHER -> t # <<>> /\ (p[1] = "." \/ p[1] = t[1]) /\ matchhere(Tail(p), Tail(t))

match(p, t) ==
  IF p # <<>> /\ p[1] = "^"
    THEN matchhere(Tail(p), t)
    ELSE \E i \in 0..Len(t) : matchhere(p, SubSeq(t, i + 1, Len(t)))

\* The lines of s that end with a newline, which stays, and what follows them.
Ends(s) == {i \in DOMAIN s : s[i] = NL}
LineEnd(s) == Max(Ends(s) \cup {0})
LinesOf(s) ==
  LET start(i) == Max({j \in Ends(s) : j < i} \cup {0}) + 1 IN
    [k \in 1..Cardinality(Ends(s)) |->
       LET i == SetToSortSeq(Ends(s), <)[k] IN SubSeq(s, start(i), i)]
Matching(p, s) == FlattenSeq(SelectSeq(LinesOf(s), LAMBDA line : match(p, Front(line))))

\* Variant: what follows the last newline is not moved to the start of buf.
Kept_none(s) == <<>>

\* memmove(buf, p, m); a buffer without a newline is dropped.
Kept(s) == IF Ends(s) = {} THEN <<>> ELSE SubSeq(s, LineEnd(s) + 1, Len(s))

grep(k) ==
  LET s == left \o Piece(k) IN
    /\ prog = "grep" /\ k <= BUFSIZE - Len(left) - 1
    /\ out' = out \o Matching(re, s)
    /\ left' = Kept(s)
    /\ dropped' = IF Ends(s) = {} THEN dropped \cup {pos + k} ELSE dropped
    /\ pos' = pos + k
    /\ UNCHANGED <<prog, re, file, l, w, c, inword>>

Next == \E k \in 1..Rest : cat(k) \/ wc(k) \/ grep(k)

Spec == Init /\ [][Next]_vars

-----------------------------------------------------------------------------
(* Properties *)

\* What a pattern means: an anchor, and items that each take a part of the text.
Item(p, i) == [ch |-> p[i], star |-> i < Len(p) /\ p[i + 1] = "*"]
Starts(p) ==   \* where the items of p begin: a star belongs to what is before it
  {i \in DOMAIN p :
     LET run == {j \in 1..(i - 1) : \A h \in (j + 1)..i : p[h] = "*"} IN
       p[i] # "*" \/ Cardinality(run) % 2 = 0}
Takes(item, s) ==
  /\ item.star \/ Len(s) = 1
  /\ \A i \in DOMAIN s : item.ch \in {".", s[i]}
Denotes(p, t) ==
  LET anchored == p # <<>> /\ p[1] = "^"
      body == IF anchored THEN Tail(p) ELSE p
      to_end == body # <<>> /\ Last(body) = "$" /\ Len(body) \in Starts(body)
      core == IF to_end THEN Front(body) ELSE body
      items == SetToSortSeq(Starts(core), <)
      n == Len(items)
  IN
    \E cut \in [0..n -> 0..Len(t)] :
      /\ anchored => cut[0] = 0
      /\ to_end => cut[n] = Len(t)
      /\ \A i \in 1..n : cut[i - 1] <= cut[i] /\ Takes(Item(core, items[i]), SubSeq(t, cut[i - 1] + 1, cut[i]))

\* However the input is cut into pieces, what has been read so far has been
\* copied by cat, and counted by wc as lines, words (runs without a space) and
\* bytes.
CopiedAndCounted ==
  LET read == SubSeq(file, 1, pos) IN
    /\ prog = "cat" => out = read
    /\ prog = "wc" =>
         /\ c = pos /\ l = Cardinality(Ends(read))
         /\ w = Cardinality({i \in DOMAIN read : read[i] \notin Space /\ (i = 1 \/ read[i - 1] \in Space)})

\* What grep sees of a line, the part of read from i to j: all of it, unless a
\* read ended in the line without having brought a newline (grep.c:29); then
\* what follows the last such read.
Seen(read, i, j) == SubSeq(read, Max({e \in dropped : i <= e /\ e < j} \cup {i - 1}) + 1, j)

\* Of what it sees of each line it has read, grep writes what its pattern
\* denotes, once and in order, wherever the reads cut the lines: matchhere and
\* matchstar decide whether there is a way to cut the text into what the items
\* of the pattern take, and what follows the last newline of a read waits in buf
\* for the next one.  A line is seen whole when every read brings a newline, as
\* the reads of a file do whose lines fit the buffer; a line that takes a read
\* of its own without a newline loses its beginning.
Matches ==
  LET read == SubSeq(file, 1, pos)
      seen == [k \in DOMAIN LinesOf(read) |->
                 LET j == SetToSortSeq(Ends(read), <)[k] IN Seen(read, j - Len(LinesOf(read)[k]) + 1, j)]
  IN
    prog = "grep" => out = FlattenSeq(SelectSeq(seen, LAMBDA line : Denotes(re, Front(line))))

\* cat, wc and grep are right about whatever part of their input they have
\* read; grep, about what it sees of it.
Inv == CopiedAndCounted /\ Matches
=============================================================================
