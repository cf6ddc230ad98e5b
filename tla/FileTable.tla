------------------------------ MODULE FileTable ------------------------------
(***************************************************************************)
(* The open files of xv6/file.c and the descriptors of xv6/sysfile.c:       *)
(* filealloc, filedup, fileclose, argfd and fdalloc, and sys_open, sys_dup, *)
(* sys_close, sys_pipe, fork and exit where they use them.  A section of    *)
(* ftable.lock is one action.  What a file refers to, an inode or an end of *)
(* a pipe, is an object with a count of the references taken to it.         *)
(***************************************************************************)
EXTENDS Integers, Sequences, FiniteSets, FiniteSetsExt

CONSTANTS
  Process,
  initproc,       \* the process that runs first
  NFILE, NOFILE,
  MAXHELD         \* bound on references to one object

File == 1..NFILE
Fd == 0..(NOFILE - 1)
Obj == {"inode", "read end", "write end"}
NoObj == "none"
NoFile == 0

VARIABLES
  ref, obj,     \* struct file: its count, and its type and pointer (none is FD_NONE)
  ofile,        \* of a process
  pc,
  new,          \* files allocated and not yet in a descriptor
  todo,         \* files to be closed, in order
  ff,           \* fileclose's copy of the object to be let go
  child, fd,    \* of a fork
  held,         \* references to an object
  panicked

vars == <<ref, obj, ofile, pc, new, todo, ff, child, fd, held, panicked>>

TypeOK ==
  /\ ref \in [File -> 0..(NOFILE * Cardinality(Process) + 2)]
  /\ obj \in [File -> Obj \cup {NoObj}]
  /\ ofile \in [Process -> [Fd -> File \cup {NoFile}]]
  /\ pc \in [Process -> {"unused", "embryo", "user", "open", "unopen", "pipe", "close", "fork", "exit"}]
  /\ \A p \in Process : new[p] \in Seq(File) /\ todo[p] \in Seq(File)
  /\ ff \in [Process -> Obj \cup {NoObj}]
  /\ child \in [Process -> Process] /\ fd \in [Process -> 0..NOFILE]
  /\ held \in [Obj -> 0..(MAXHELD + Cardinality(Process))]
  /\ panicked \in {0, 1}

Init ==
  /\ ref = [f \in File |-> 0] /\ obj = [f \in File |-> NoObj]
  /\ ofile = [p \in Process |-> [d \in Fd |-> NoFile]]
  /\ pc = [p \in Process |-> IF p = initproc THEN "user" ELSE "unused"]
  /\ new = [p \in Process |-> <<>>] /\ todo = [p \in Process |-> <<>>]
  /\ ff = [p \in Process |-> NoObj]
  /\ child = [p \in Process |-> p] /\ fd = [p \in Process |-> 0]
  /\ held = [o \in Obj |-> 0]
  /\ panicked = 0

At(p, s) == panicked = 0 /\ pc[p] = s
Goto(p, s) == pc' = [pc EXCEPT ![p] = s]

\* The file that filealloc finds, and the descriptor that fdalloc does.
FreeFiles == {f \in File : ref[f] = 0}
FreeFds(p) == {d \in Fd : ofile[p][d] = NoFile}

argfd(p, d) == ofile[p][d] # NoFile

filedup(f) ==
  /\ ref' = [ref EXCEPT ![f] = @ + 1]
  /\ panicked' = IF ref[f] < 1 THEN 1 ELSE 0

-----------------------------------------------------------------------------
(* fileclose, of the first file in todo *)

\* Variant: the type stays when the file is free.
TypeWhenFree_kept(f) == obj[f]

TypeWhenFree(f) == NoObj

\* The count goes down; the last one copies the file and frees it.
fileclose(p) ==
  LET f == Head(todo[p]) IN
    /\ panicked = 0 /\ ff[p] = NoObj /\ todo[p] # <<>>
    /\ panicked' = IF ref[f] < 1 THEN 1 ELSE 0
    /\ ref' = [ref EXCEPT ![f] = @ - 1]
    /\ obj' = [obj EXCEPT ![f] = IF ref[f] = 1 THEN TypeWhenFree(f) ELSE @]
    /\ ff' = [ff EXCEPT ![p] = IF ref[f] = 1 THEN obj[f] ELSE NoObj]
    /\ todo' = [todo EXCEPT ![p] = Tail(@)]
    /\ UNCHANGED <<ofile, pc, new, child, fd, held>>

\* pipeclose or iput, with the lock released.
fileclose_object(p) ==
  /\ panicked = 0 /\ ff[p] # NoObj
  /\ held' = [held EXCEPT ![ff[p]] = @ - 1]
  /\ ff' = [ff EXCEPT ![p] = NoObj]
  /\ UNCHANGED <<ref, obj, ofile, pc, new, todo, child, fd, panicked>>

\* All closed: the call returns, an open that failed puts its inode, and an
\* exit ends (the slot is free when the parent has waited).
closed(p) ==
  /\ panicked = 0 /\ todo[p] = <<>> /\ ff[p] = NoObj
  /\ \/ /\ pc[p] = "close" /\ Goto(p, "user") /\ UNCHANGED held
     \/ /\ pc[p] = "unopen" /\ Goto(p, "user")
        /\ held' = [held EXCEPT !["inode"] = @ - 1]
     \/ /\ pc[p] = "exit" /\ Goto(p, "unused") /\ UNCHANGED held
  /\ UNCHANGED <<ref, obj, ofile, new, todo, ff, child, fd, panicked>>

-----------------------------------------------------------------------------
(* sys_open: namei has a reference to the inode. *)

\* filealloc, or the inode is put.
open(p) ==
  /\ At(p, "user") /\ held["inode"] < MAXHELD
  /\ IF FreeFiles # {}
       THEN LET f == Min(FreeFiles) IN
              /\ ref' = [ref EXCEPT ![f] = 1]
              /\ new' = [new EXCEPT ![p] = <<f>>]
              /\ held' = [held EXCEPT !["inode"] = @ + 1]
              /\ Goto(p, "open")
       ELSE UNCHANGED <<ref, new, held, pc>>
  /\ UNCHANGED <<obj, ofile, todo, ff, child, fd, panicked>>

\* fdalloc and the fields of the file, or fileclose(f) and then iput(ip).
open_fd(p) ==
  LET f == new[p][1] IN
    /\ At(p, "open")
    /\ new' = [new EXCEPT ![p] = <<>>]
    /\ IF FreeFds(p) # {}
         THEN /\ ofile' = [ofile EXCEPT ![p][Min(FreeFds(p))] = f]
              /\ obj' = [obj EXCEPT ![f] = "inode"]
              /\ Goto(p, "user") /\ UNCHANGED todo
         ELSE /\ todo' = [todo EXCEPT ![p] = new[p]]
              /\ Goto(p, "unopen") /\ UNCHANGED <<ofile, obj>>
    /\ UNCHANGED <<ref, ff, child, fd, held, panicked>>

-----------------------------------------------------------------------------
(* sys_pipe and pipealloc *)

\* The first filealloc.
pipe(p) ==
  /\ At(p, "user") /\ held["read end"] < MAXHELD /\ FreeFiles # {}
  /\ LET f == Min(FreeFiles) IN
       /\ ref' = [ref EXCEPT ![f] = 1]
       /\ new' = [new EXCEPT ![p] = <<f>>]
  /\ Goto(p, "pipe")
  /\ UNCHANGED <<obj, ofile, todo, ff, child, fd, held, panicked>>

\* pipealloc's "bad": what has been allocated is closed.
pipe_bad(p, files) ==
  /\ todo' = [todo EXCEPT ![p] = files]
  /\ new' = [new EXCEPT ![p] = <<>>]
  /\ Goto(p, "close")
  /\ UNCHANGED <<obj, held>>

\* The second filealloc, kalloc (which may fail), and the two ends.
pipealloc(p) ==
  LET f0 == new[p][1]
      f1 == Min(FreeFiles)
  IN
    /\ At(p, "pipe") /\ Len(new[p]) = 1
    /\ \/ /\ FreeFiles = {}
          /\ pipe_bad(p, <<f0>>) /\ UNCHANGED ref
       \/ /\ FreeFiles # {} /\ ref' = [ref EXCEPT ![f1] = 1]
          /\ \/ pipe_bad(p, <<f0, f1>>)
             \/ /\ new' = [new EXCEPT ![p] = <<f0, f1>>]
                /\ obj' = [obj EXCEPT ![f0] = "read end", ![f1] = "write end"]
                /\ held' = [held EXCEPT !["read end"] = @ + 1, !["write end"] = @ + 1]
                /\ UNCHANGED <<todo, pc>>
    /\ UNCHANGED <<ofile, ff, child, fd, panicked>>

\* Both descriptors, or neither (one found for one end only is taken back) and
\* both files are closed.
pipe_fds(p) ==
  LET free == FreeFds(p) IN
    /\ At(p, "pipe") /\ Len(new[p]) = 2
    /\ new' = [new EXCEPT ![p] = <<>>]
    /\ IF Cardinality(free) >= 2
         THEN /\ ofile' = [ofile EXCEPT ![p][Min(free)] = new[p][1], ![p][Min(free \ {Min(free)})] = new[p][2]]
              /\ Goto(p, "user") /\ UNCHANGED todo
         ELSE /\ todo' = [todo EXCEPT ![p] = new[p]]
              /\ Goto(p, "close") /\ UNCHANGED ofile
    /\ UNCHANGED <<ref, obj, ff, child, fd, held, panicked>>

-----------------------------------------------------------------------------
(* sys_dup, sys_close, fork and exit *)

dup(p, d) ==
  /\ At(p, "user") /\ argfd(p, d) /\ FreeFds(p) # {}
  /\ ofile' = [ofile EXCEPT ![p][Min(FreeFds(p))] = ofile[p][d]]
  /\ filedup(ofile[p][d])
  /\ UNCHANGED <<obj, pc, new, todo, ff, child, fd, held>>

close(p, d) ==
  /\ At(p, "user") /\ argfd(p, d)
  /\ ofile' = [ofile EXCEPT ![p][d] = NoFile]
  /\ todo' = [todo EXCEPT ![p] = <<ofile[p][d]>>]
  /\ Goto(p, "close")
  /\ UNCHANGED <<ref, obj, new, ff, child, fd, held, panicked>>

fork(p, q) ==
  /\ At(p, "user") /\ pc[q] = "unused"
  /\ pc' = [pc EXCEPT ![p] = "fork", ![q] = "embryo"]
  /\ child' = [child EXCEPT ![p] = q]
  /\ fd' = [fd EXCEPT ![p] = 0]
  /\ UNCHANGED <<ref, obj, ofile, new, todo, ff, held, panicked>>

\* One round of fork's loop over the descriptors.
fork_dup(p) ==
  LET f == ofile[p][fd[p]] IN
    /\ At(p, "fork") /\ fd[p] < NOFILE
    /\ fd' = [fd EXCEPT ![p] = @ + 1]
    /\ IF f = NoFile
         THEN UNCHANGED <<ofile, ref, panicked>>
         ELSE ofile' = [ofile EXCEPT ![child[p]][fd[p]] = f] /\ filedup(f)
    /\ UNCHANGED <<obj, pc, new, todo, ff, child, held>>

fork_run(p) ==
  /\ At(p, "fork") /\ fd[p] = NOFILE
  /\ pc' = [pc EXCEPT ![p] = "user", ![child[p]] = "user"]
  /\ child' = [child EXCEPT ![p] = p] /\ fd' = [fd EXCEPT ![p] = 0]
  /\ UNCHANGED <<ref, obj, ofile, new, todo, ff, held, panicked>>

\* exit closes the descriptors in order and clears them.
exit(p) ==
  /\ At(p, "user") /\ p # initproc
  /\ todo' = [todo EXCEPT ![p] = SelectSeq([i \in 1..NOFILE |-> ofile[p][i - 1]], LAMBDA f : f # NoFile)]
  /\ ofile' = [ofile EXCEPT ![p] = [d \in Fd |-> NoFile]]
  /\ Goto(p, "exit")
  /\ UNCHANGED <<ref, obj, new, ff, child, fd, held, panicked>>

Next ==
  \E p \in Process :
    \/ fileclose(p) \/ fileclose_object(p) \/ closed(p)
    \/ open(p) \/ open_fd(p) \/ pipe(p) \/ pipealloc(p) \/ pipe_fds(p)
    \/ \E d \in Fd : dup(p, d) \/ close(p, d)
    \/ \E q \in Process : fork(p, q)
    \/ fork_dup(p) \/ fork_run(p) \/ exit(p)

Spec == Init /\ [][Next]_vars

-----------------------------------------------------------------------------
(* Properties *)

Count(f, s) == Cardinality({i \in DOMAIN s : s[i] = f})

\* A file's count is the number of descriptors, and of calls under way, that
\* will close it, in all processes together.
RefsExact ==
  \A f \in File :
    ref[f] = MapThenSumSet(LAMBDA p : Count(f, ofile[p]) + Count(f, new[p]) + Count(f, todo[p]), Process)

\* Every reference to an inode or to an end of a pipe belongs to one open file
\* or to a close or open under way: fileclose lets go of it once, after it has
\* given the file back, and no failure of sys_open or sys_pipe loses it.
ObjectsReleasedOnce ==
  \A o \in Obj :
    held[o] = Cardinality({f \in File : ref[f] > 0 /\ obj[f] = o})
              + Cardinality({p \in Process : ff[p] = o})
              + (IF o = "inode" THEN Cardinality({p \in Process : pc[p] \in {"open", "unopen"}}) ELSE 0)

\* A descriptor a process can use refers to a file that is open and has a type:
\* the panics of fileread, filewrite and filedup are out of reach.  A process
\* that does not run has none, which fork relies on.
DescriptorsUsable ==
  \A p \in Process, d \in Fd :
    /\ pc[p] \in {"user", "close", "unopen", "fork"} /\ ofile[p][d] # NoFile =>
         ref[ofile[p][d]] > 0 /\ obj[ofile[p][d]] # NoObj
    /\ pc[p] \in {"unused", "exit"} => ofile[p][d] = NoFile

\* "filedup" and "fileclose" never happen.
NoPanic == panicked = 0

\* The counts of sys_open, sys_pipe, sys_dup, sys_close, fork and exit agree
\* with the descriptors there are, however the calls interleave and fail, and
\* every descriptor of a process can be used, and what it refers to is let go
\* once.
Inv == TypeOK /\ NoPanic /\ RefsExact /\ ObjectsReleasedOnce /\ DescriptorsUsable
=============================================================================
