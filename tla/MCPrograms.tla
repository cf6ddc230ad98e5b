------------------------------ MODULE MCPrograms ------------------------------
(***************************************************************************)
(* User programs: the shell with the processes it starts (Shell), the       *)
(* filters it starts (Filters), the allocator of their library (Umalloc)    *)
(* and the page replacement example (Clock).  part says which one a         *)
(* behaviour is about; the others stay as they start.                       *)
(***************************************************************************)
EXTENDS Shell

CONSTANTS MAXHEAP, NALLOC, Requests, BUFSIZE, Page, CLOCKSIZE, NoPage

ASSUME ProgramsAssumption ==
  /\ MAXHEAP \in Nat /\ NALLOC \in Nat \ {0} /\ Requests \subseteq Nat \ {0}
  /\ BUFSIZE \in Nat /\ BUFSIZE > 1
  /\ CLOCKSIZE \in Nat \ {0} /\ NoPage \notin Page

VARIABLES
  part,
  ptr, size, freep, brk, blocks, heap, want,
  filter, re, file, pos, out, l, w, c, inword, left, dropped,
  clk_queue, clk_hand, present, accessed, encrypted, allocated, fault

heapvars == <<ptr, size, freep, brk, blocks, heap, want>>
filtervars == <<filter, re, file, pos, out, l, w, c, inword, left, dropped>>
clockvars == <<clk_queue, clk_hand, present, accessed, encrypted, allocated, fault>>

\* Lines to run: pipes, lists, redirections, and what goes wrong.
AnyLines == {
  <<"yes", "|", "echo">>,
  <<"(", "echo", ";", "cat", ")", "|", "wc", ">", "f">>,
  <<"cat", "<", "f", "|", "wc", "&", ";", "echo">>,
  <<"yes", "|", "cat", "<", "f", "|", "wc">>,
  <<"echo", "|", "cat", "|", "wc">>,
  <<"echo", ">", "f", ">", "g">>,
  <<"none", "|", "wc">>,
  <<"echo", "(">>,
  <<"cd", "f">>}

\* All short texts, and pairs of lines that take two reads, one line being cut.
Strings(S, n) == UNION {[1..k -> S] : k \in 0..n}
MCText ==
  Strings({"a", "b", " ", "\n"}, 3) \cup [1..4 -> {"a", "b", "\n"}]
    \cup {s \in [1..5 -> {"a", "b", "\n"}] :
            s[5] = "\n" /\ Cardinality({i \in 1..5 : s[i] = "\n"}) = 2}

\* All patterns of up to three characters, and some longer ones.
MCPattern ==
  Strings({"a", ".", "*", "^", "$"}, 3) \cup
    {<<"^", "a", "*", "$">>, <<"a", "*", ".", "b">>, <<".", "*", "a", "b">>, <<"^", "a", "*", "b">>}

H == INSTANCE Umalloc
F == INSTANCE Filters WITH Text <- MCText, Pattern <- MCPattern, prog <- filter
K == INSTANCE Clock

MCInit ==
  /\ Init /\ H!Init /\ K!Init
  /\ part \in {"shell", "heap", "filter", "clock"}
  /\ IF part = "filter" THEN F!Init ELSE F!Start("cat", <<>>, <<>>)

MCNext ==
  /\ UNCHANGED part
  /\ \/ part = "shell" /\ Next /\ UNCHANGED <<heapvars, filtervars, clockvars>>
     \/ part = "heap" /\ H!Next /\ UNCHANGED <<vars, filtervars, clockvars>>
     \/ part = "filter" /\ F!Next /\ UNCHANGED <<vars, heapvars, clockvars>>
     \/ part = "clock" /\ K!Next /\ UNCHANGED <<vars, heapvars, filtervars>>

MCSpec == MCInit /\ [][MCNext]_<<part, vars, heapvars, filtervars, clockvars>> /\ Fairness

\* malloc and free keep the heap divided into blocks in use and a sorted,
\* joined circle of free ones, and the search for a block ends.
HeapInv == part = "heap" => H!Inv

\* However their input was cut into reads, cat has copied and wc has counted what
\* was read, and grep has matched what it sees of each line: a read that brings
\* no newline is dropped (grep.c:29).
FiltersInv == part = "filter" => F!Inv

\* A page is in clear text exactly while it is in the ring (clk_insert,
\* clk_remove).
RingInv == part = "clock" => K!Inv

\* The ring with its hand is the second-chance queue (clk_insert, clk_remove).
IsSecondChance == K!IsSecondChance
=============================================================================
