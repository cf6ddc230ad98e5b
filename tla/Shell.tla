-------------------------------- MODULE Shell --------------------------------
(***************************************************************************)
(* xv6/sh.c and xv6/init.c at work: what runcmd does with a parsed line, in *)
(* system calls.  A process of these programs has a script, the calls it    *)
(* still makes, and an action is the call at its head.  The calls are       *)
(* those of Proc and Pipe, each in one step; of a pipe only the two ends    *)
(* matter: which processes still hold them.                                 *)
(*                                                                         *)
(* The programs a line names are words.  One in Readers ends when its       *)
(* standard input does, one in Endless when nobody can read its standard    *)
(* output, any other of Programs by itself.                                 *)
(***************************************************************************)
EXTENDS ShellGrammar, FiniteSets, FiniteSetsExt

CONSTANTS
  Lines,       \* bound: what is entered
  MAXLINES,    \* bound on the lines entered
  Tokens,      \* that may be typed
  MAXTOK,      \* bound on what is typed beside Lines
  NPROC, NOFILE,
  Programs, Readers, Endless

ASSUME ShellAssumption ==
  /\ NPROC \in Nat \ {0} /\ NOFILE \in Nat /\ NOFILE > 3 /\ {MAXLINES, MAXTOK} \subseteq Nat
  /\ Readers \cup Endless \subseteq Programs /\ "sh" \notin Programs

Process == 0..(NPROC - 1)
initproc == 0
Fd == 0..(NOFILE - 1)

\* What a descriptor refers to: the console, a file, or an end of a pipe.
Nothing == <<"nothing", 0>>
Console == <<"console", 0>>
FileNamed(w) == <<w, 0>>
ReadEnd(i) == <<"read end", i>>
WriteEnd(i) == <<"write end", i>>

VARIABLES
  state,     \* "unused", "running" or "zombie"
  parent, ofile,
  script,    \* the calls to come; none in a program
  prog,      \* the program running, "" in sh and init
  p,         \* the two descriptors of runcmd's pipe
  pid,       \* of the shell init waits for
  job,       \* the line a process works on, with its number (for the properties)
  failed,    \* what a fork that failed was to start, with the line's number (for the properties)
  buf,       \* the line the shell is reading
  lines,     \* read so far
  panicked   \* the kernel's: init exited

vars == <<state, parent, ofile, script, prog, p, pid, job, failed, buf, lines, panicked>>

Call(name) == [call |-> name]
CloseFd(d) == [call |-> "close", fd |-> d]
DupFd(d) == [call |-> "dup", fd |-> d]
Fork(child) == [call |-> "fork", child |-> child]
Run(cmd) == [call |-> "runcmd", cmd |-> cmd]
Exec(w) == [call |-> "exec", file |-> w]
Exit == <<Call("exit")>>

\* Variant: the left side keeps its copy of the end it does not use.
LeftSide_keeps(cmd) == <<CloseFd("1"), DupFd("p1"), CloseFd("p1"), Run(cmd)>>

LeftSide(cmd) == <<CloseFd("1"), DupFd("p1"), CloseFd("p0"), CloseFd("p1"), Run(cmd)>>
RightSide(cmd) == <<CloseFd("0"), DupFd("p0"), CloseFd("p0"), CloseFd("p1"), Run(cmd)>>

\* Variant: the shell waits before it lets go of the pipe.
Piped_waits(cmd) ==
  <<Call("pipe"), Fork(LeftSide(cmd.left)), Fork(RightSide(cmd.right)),
    Call("wait"), Call("wait"), CloseFd("p0"), CloseFd("p1")>> \o Exit

\* Variant: one wait for two children.
Piped_once(cmd) ==
  <<Call("pipe"), Fork(LeftSide(cmd.left)), Fork(RightSide(cmd.right)),
    CloseFd("p0"), CloseFd("p1"), Call("wait")>> \o Exit

Piped(cmd) ==
  <<Call("pipe"), Fork(LeftSide(cmd.left)), Fork(RightSide(cmd.right)),
    CloseFd("p0"), CloseFd("p1"), Call("wait"), Call("wait")>> \o Exit

Listed(cmd) == <<Fork(<<Run(cmd.left)>>), Call("wait"), Run(cmd.right)>>

runcmd(cmd) ==
  CASE cmd.type = "EXEC"  -> IF cmd.argv = <<>> THEN Exit ELSE <<Exec(cmd.argv[1])>> \o Exit
    [] cmd.type = "REDIR" -> <<CloseFd(IF cmd.fd = 0 THEN "0" ELSE "1"),
                               [call |-> "open", file |-> cmd.file], Run(cmd.cmd)>>
    [] cmd.type = "LIST"  -> Listed(cmd)
    [] cmd.type = "PIPE"  -> Piped(cmd)
    [] cmd.type = "BACK"  -> <<Fork(<<Run(cmd.cmd)>>)>> \o Exit

RunLine(line) == LET r == parsecmd(line) IN IF r.ok THEN <<Run(r.cmd)>> ELSE Exit

\* main of sh, from where it reads a line, and main of init.
Prompt == <<Call("getcmd")>>
InitLoop == <<Fork(<<Exec("sh")>> \o Exit), Call("wait for sh")>>

Words == UNION {{l[i] : i \in DOMAIN l} : l \in Lines}

TypeOK ==
  /\ state \in [Process -> {"unused", "running", "zombie"}]
  /\ parent \in [Process -> Process]
  /\ \A q \in Process, d \in Fd :
       ofile[q][d] \in {Nothing, Console} \cup {FileNamed(w) : w \in Words} \cup ({"read end", "write end"} \X Process)
  /\ prog \in [Process -> Programs \cup {""}]
  /\ \A q \in Process : (state[q] = "running") = (script[q] # <<>> \/ prog[q] # "")
  /\ \A q \in Process : (script[q] # <<>>) => prog[q] = ""
  /\ p \in [Process -> Fd \X Fd] /\ pid \in Process
  /\ buf \in Seq(Tokens \cup Words) /\ lines \in 0..MAXLINES /\ panicked \in {0, 1}

Init ==
  /\ state = [q \in Process |-> IF q = initproc THEN "running" ELSE "unused"]
  /\ parent = [q \in Process |-> initproc]
  /\ ofile = [q \in Process |-> [d \in Fd |-> IF q = initproc /\ d < 3 THEN Console ELSE Nothing]]
  /\ script = [q \in Process |-> IF q = initproc THEN InitLoop ELSE <<>>]
  /\ prog = [q \in Process |-> ""]
  /\ p = [q \in Process |-> <<0, 0>>] /\ pid = initproc
  /\ job = [q \in Process |-> <<0, <<>>>>]
  /\ failed = {} /\ buf = <<>> /\ lines = 0 /\ panicked = 0

Calls(q, name) == panicked = 0 /\ script[q] # <<>> /\ Head(script[q]).call = name
Continue(q, s) == script' = [script EXCEPT ![q] = s]
Return(q) == Continue(q, Tail(script[q]))
Open(q) == {d \in Fd : ofile[q][d] # Nothing}
Closed(q) == Fd \ Open(q)
Put(q, d, o) == ofile' = [ofile EXCEPT ![q][d] = o]
Children(q) == {c \in Process : state[c] # "unused" /\ parent[c] = q /\ c # q}
Zombies(q) == {c \in Children(q) : state[c] = "zombie"}

Desc(q, d) ==
  CASE d = "0" -> 0 [] d = "1" -> 1 [] d = "p0" -> p[q][1] [] d = "p1" -> p[q][2]

(***************************************************************************)
(* Descriptors.  A call that finds no descriptor, or no file, fails.        *)
(***************************************************************************)
close(q) ==
  /\ Calls(q, "close")
  /\ Put(q, Desc(q, Head(script[q]).fd), Nothing) /\ Return(q)
  /\ UNCHANGED <<state, parent, prog, p, pid, job, failed, buf, lines, panicked>>

dup(q) ==
  /\ Calls(q, "dup")
  /\ IF Closed(q) = {} THEN UNCHANGED ofile
     ELSE Put(q, Min(Closed(q)), ofile[q][Desc(q, Head(script[q]).fd)])
  /\ Return(q)
  /\ UNCHANGED <<state, parent, prog, p, pid, job, failed, buf, lines, panicked>>

\* open, of a redirection: found says whether the file is there or was made.
open(q, found) ==
  /\ Calls(q, "open")
  /\ IF found /\ Closed(q) # {}
     THEN Put(q, Min(Closed(q)), FileNamed(Head(script[q]).file)) /\ Return(q)
     ELSE Continue(q, Exit) /\ UNCHANGED ofile
  /\ UNCHANGED <<state, parent, prog, p, pid, job, failed, buf, lines, panicked>>

\* main of sh: descriptors 0, 1 and 2 are opened, then one more is closed.
open_console(q) ==
  /\ Calls(q, "open console")
  /\ IF Closed(q) = {} \/ Min(Closed(q)) >= 3 THEN Return(q) /\ UNCHANGED ofile
     ELSE Put(q, Min(Closed(q)), Console) /\ UNCHANGED script
  /\ UNCHANGED <<state, parent, prog, p, pid, job, failed, buf, lines, panicked>>

PipesUsed == {i \in Process : \E q \in Process, d \in Fd : ofile[q][d] \in {ReadEnd(i), WriteEnd(i)}}

\* pipe: room says whether the file table and memory have room.
pipe(q, room) ==
  LET i == Min(Process \ PipesUsed)
      r == Min(Closed(q))
      w == Min(Closed(q) \ {r})
  IN /\ Calls(q, "pipe")
     /\ IF room /\ Cardinality(Closed(q)) >= 2
        THEN /\ ofile' = [ofile EXCEPT ![q][r] = ReadEnd(i), ![q][w] = WriteEnd(i)]
             /\ p' = [p EXCEPT ![q] = <<r, w>>]
             /\ Return(q)
        ELSE Continue(q, Exit) /\ UNCHANGED <<ofile, p>>
     /\ UNCHANGED <<state, parent, prog, pid, job, failed, buf, lines, panicked>>

(***************************************************************************)
(* Processes.                                                               *)
(***************************************************************************)
Unused == {c \in Process : state[c] = "unused"}

\* fork1, and the fork of init: without a process or memory (room) for the child,
\* both give up and exit.
fork(q, room) ==
  LET c == Min(Unused)
      child == Head(script[q]).child
  IN /\ Calls(q, "fork")
     /\ IF ~room \/ Unused = {}
        THEN /\ failed' = failed \cup {<<job[q][1], Last(child)>>}
             /\ Continue(q, Exit) /\ UNCHANGED <<state, parent, ofile, p, pid, job>>
        ELSE /\ state' = [state EXCEPT ![c] = "running"]
             /\ parent' = [parent EXCEPT ![c] = q]
             /\ ofile' = [ofile EXCEPT ![c] = ofile[q]]
             /\ p' = [p EXCEPT ![c] = p[q]]
             /\ job' = [job EXCEPT ![c] = job[q]]
             /\ script' = [script EXCEPT ![q] = Tail(@), ![c] = child]
             /\ pid' = IF q = initproc THEN c ELSE pid
             /\ UNCHANGED failed
     /\ UNCHANGED <<prog, buf, lines, panicked>>

Started(q, file) == Continue(q, <<>>) /\ prog' = [prog EXCEPT ![q] = file]

exec(q) ==
  LET file == Head(script[q]).file
  IN /\ Calls(q, "exec")
     /\ IF file = "sh" THEN Continue(q, <<Call("open console")>> \o Prompt) /\ UNCHANGED prog
        ELSE IF file \in Programs THEN Started(q, file)
        ELSE Return(q) /\ UNCHANGED prog
     /\ UNCHANGED <<state, parent, ofile, p, pid, job, failed, buf, lines, panicked>>

\* The kernel's exit, whole: files closed, children given to init.
Leave(q) ==
  /\ IF q = initproc THEN panicked' = 1 /\ UNCHANGED <<state, parent, ofile, script, prog>>
     ELSE /\ state' = [state EXCEPT ![q] = "zombie"]
          /\ parent' = [c \in Process |-> IF parent[c] = q THEN initproc ELSE parent[c]]
          /\ ofile' = [ofile EXCEPT ![q] = [d \in Fd |-> Nothing]]
          /\ script' = [script EXCEPT ![q] = <<>>]
          /\ prog' = [prog EXCEPT ![q] = ""]
          /\ UNCHANGED panicked
  /\ UNCHANGED <<p, pid, job, failed, buf, lines>>

exit(q) == Calls(q, "exit") /\ Leave(q)

\* The kernel's wait returns: the zombie found, or nothing to wait for.
Reap(q) ==
  /\ Zombies(q) # {} \/ Children(q) = {}
  /\ state' = [c \in Process |-> IF Zombies(q) # {} /\ c = Min(Zombies(q)) THEN "unused" ELSE state[c]]

wait(q) ==
  /\ Calls(q, "wait") /\ Reap(q) /\ Return(q)
  /\ UNCHANGED <<parent, ofile, prog, p, pid, job, failed, buf, lines, panicked>>

IsShell(c) == c = pid

\* init: until the child waited for is the shell, or there is none.
wait_sh(q) ==
  /\ Calls(q, "wait for sh") /\ Reap(q)
  /\ IF Zombies(q) = {} \/ IsShell(Min(Zombies(q))) THEN Continue(q, InitLoop) ELSE UNCHANGED script
  /\ UNCHANGED <<parent, ofile, prog, p, pid, job, failed, buf, lines, panicked>>

run(q) ==
  /\ Calls(q, "runcmd") /\ Continue(q, runcmd(Head(script[q]).cmd))
  /\ UNCHANGED <<state, parent, ofile, prog, p, pid, job, failed, buf, lines, panicked>>

(***************************************************************************)
(* The user types a line, enters it, or types an end of file.  cd is run by *)
(* the shell itself.                                                        *)
(***************************************************************************)
Reads(q) == Calls(q, "getcmd") /\ lines < MAXLINES

gets(q, tok) ==
  /\ Reads(q) /\ buf' = Append(buf, tok)
  /\ (tok \in Tokens /\ Len(buf) < MAXTOK) \/ \E line \in Lines : IsPrefix(buf', line)
  /\ UNCHANGED <<state, parent, ofile, script, prog, p, pid, job, failed, lines, panicked>>

getcmd(q) ==
  /\ Reads(q) /\ buf \in Lines /\ buf' = <<>> /\ lines' = lines + 1
  /\ IF Len(buf) > 1 /\ buf[1] = "cd" THEN UNCHANGED <<script, job>>
     ELSE /\ Continue(q, <<Fork(RunLine(buf)), Call("wait")>> \o Prompt)
          /\ job' = [job EXCEPT ![q] = <<lines', buf>>]
  /\ UNCHANGED <<state, parent, ofile, prog, p, pid, failed, panicked>>

getcmd_eof(q) ==
  /\ Reads(q) /\ buf = <<>> /\ lines' = lines + 1
  /\ Continue(q, Exit)
  /\ UNCHANGED <<state, parent, ofile, prog, p, pid, job, failed, buf, panicked>>

(***************************************************************************)
(* A program ends.                                                          *)
(***************************************************************************)
Held(o) == \E q \in Process, d \in Fd : ofile[q][d] = o
\* The end of a pipe's input; that of a file always comes, that of the console is
\* assumed to be typed.
InputEnds(q) == ofile[q][0][1] = "read end" => ~Held(WriteEnd(ofile[q][0][2]))
OutputBroken(q) == ofile[q][1][1] = "write end" => ~Held(ReadEnd(ofile[q][1][2]))

Finish(q) ==
  /\ panicked = 0 /\ prog[q] # ""
  /\ prog[q] \in Readers => InputEnds(q)
  /\ prog[q] \in Endless => OutputBroken(q)
  /\ Leave(q)

Step(q) ==
  \/ close(q) \/ dup(q) \/ open_console(q) \/ exec(q) \/ exit(q)
  \/ wait(q) \/ wait_sh(q) \/ run(q) \/ Finish(q)
  \/ \E b \in BOOLEAN : fork(q, b) \/ open(q, b) \/ pipe(q, b)

Type(q) == getcmd(q) \/ getcmd_eof(q) \/ \E tok \in Tokens \cup Words : gets(q, tok)

Next == \E q \in Process : Step(q) \/ Type(q)

Spec == Init /\ [][Next]_vars

\* Every process gets to run; nobody has to type.
Fairness == \A q \in Process : WF_vars(Step(q))

(***************************************************************************)
(* What a command means: for each word that is run, where its input comes   *)
(* from and its output goes ("pipe" for a pipe of the command itself).      *)
(***************************************************************************)
RECURSIVE Wiring(_, _, _)
Wiring(cmd, in, out) ==
  CASE cmd.type = "EXEC"  -> {<<w, in, out>> : w \in {cmd.argv[i] : i \in DOMAIN cmd.argv \cap {1}}}
    [] cmd.type = "REDIR" -> IF cmd.fd = 0 THEN Wiring(cmd.cmd, cmd.file, out)
                             ELSE Wiring(cmd.cmd, in, cmd.file)
    [] cmd.type = "PIPE"  -> Wiring(cmd.left, in, "write end") \cup Wiring(cmd.right, "read end", out)
    [] cmd.type = "LIST"  -> Wiring(cmd.left, in, out) \cup Wiring(cmd.right, in, out)
    [] cmd.type = "BACK"  -> Wiring(cmd.cmd, in, out)

\* Pairs of words of which the first writes what the second reads.
RECURSIVE Joined(_)
Joined(cmd) ==
  CASE cmd.type = "EXEC" -> {}
    [] cmd.type = "PIPE" ->
         {<<w[1], r[1]>> : w \in {x \in Wiring(cmd.left, "in", "out") : x[3] = "out"},
                           r \in {x \in Wiring(cmd.right, "in", "out") : x[2] = "in"}}
           \cup Joined(cmd.left) \cup Joined(cmd.right)
    [] cmd.type = "LIST" -> Joined(cmd.left) \cup Joined(cmd.right)
    [] OTHER -> Joined(cmd.cmd)

\* Words that the shell waits for.
RECURSIVE Foreground(_)
Foreground(cmd) ==
  CASE cmd.type = "EXEC" -> {cmd.argv[i] : i \in DOMAIN cmd.argv \cap {1}}
    [] cmd.type = "BACK" -> {}
    [] cmd.type = "REDIR" -> Foreground(cmd.cmd)
    [] OTHER -> Foreground(cmd.left) \cup Foreground(cmd.right)

\* The pipes of a command.
RECURSIVE Pipes(_)
Pipes(cmd) ==
  CASE cmd.type = "EXEC" -> {}
    [] cmd.type \in {"BACK", "REDIR"} -> Pipes(cmd.cmd)
    [] OTHER -> Pipes(cmd.left) \cup Pipes(cmd.right) \cup (IF cmd.type = "PIPE" THEN {cmd} ELSE {})

Tree(q) == parsecmd(job[q][2]).cmd
AtPrompt(q) == script[q] = Prompt

(***************************************************************************)
(* Of whatever is in buf, parsecmd accepts exactly the lines of the grammar *)
(* and builds the one tree the grammar gives them: no line is ambiguous,    *)
(* nothing typed is dropped, and arguments and redirections keep the order  *)
(* in which they were typed although parseexec collects them through two    *)
(* pointers.                                                                *)
(***************************************************************************)
ParsesTheGrammar == LET r == parsecmd(buf) IN Line(buf) = IF r.ok THEN {r.cmd} ELSE {}

(***************************************************************************)
(* Every program starts and stays with the descriptors its place in the     *)
(* line gives it, and with no others: a pipe that a process of the shell    *)
(* forgot to close would be a fourth.  Two programs of a line share a pipe  *)
(* exactly when the line says that one feeds the other.                     *)
(***************************************************************************)
WiredAsTyped ==
  LET running == {q \in Process : prog[q] # ""} IN
  /\ \A q \in running :
       /\ Open(q) = {0, 1, 2} /\ ofile[q][2] = Console
       /\ <<prog[q], ofile[q][0][1], ofile[q][1][1]>> \in Wiring(Tree(q), "console", "console")
  /\ \A q, r \in running :
       job[q] = job[r] =>
         ((\E i \in Process : ofile[q][1] = WriteEnd(i) /\ ofile[r][0] = ReadEnd(i))
            <=> <<prog[q], prog[r]>> \in Joined(Tree(q)))

\* The process that runs the pipe of which r is the left side could not fork the
\* right one and exited without a wait (sh.c:111, 187).
LeftAlone(r) ==
  \E cmd \in Pipes(Tree(r)) : <<job[r][1], Run(cmd.right)>> \in failed /\ prog[r] \in Foreground(cmd.left)

(***************************************************************************)
(* When the shell asks for the next line, no program of an earlier line     *)
(* that was not put in the background is still running, but for the left    *)
(* side of a pipe whose right side could not be forked, and the shell has   *)
(* no child left that a later wait could take for another.                  *)
(***************************************************************************)
PromptAfterForeground ==
  \A q \in Process : AtPrompt(q) =>
    /\ Children(q) = {}
    /\ \A r \in Process : prog[r] # "" /\ prog[r] \in Foreground(Tree(r)) => LeftAlone(r)

(***************************************************************************)
(* Unless init fails to fork a shell and exits, which panics, there is      *)
(* always a prompt again: readers see the end of their input and writers    *)
(* that nobody reads, because every other copy of the ends of a pipe has    *)
(* been closed; and after an end of file, or a fork of the shell that       *)
(* fails, there is a new shell.  Whoever types at the console is assumed    *)
(* to end what a program reads there.                                       *)
(***************************************************************************)
PromptReturns == []<>(panicked = 1 \/ \E q \in Process : AtPrompt(q))
=============================================================================
