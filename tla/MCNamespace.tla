----------------------------- MODULE MCNamespace -----------------------------
(***************************************************************************)
(* Two instances of Namespace on the same state; part says which of them a  *)
(* behaviour is about.  "wide" has the calls of the configuration, "deep"   *)
(* one inode more and the calls that make, leave and remove directories: a  *)
(* directory can then be made in one that has been removed already.         *)
(***************************************************************************)
EXTENDS Namespace, TLC

CONSTANTS a, b, Parts

VARIABLE part

Symmetry == Permutations(Process)

Call(call, path) == [call |-> call, path |-> path, new |-> <<>>]
Link(old, new) == [call |-> "link", path |-> old, new |-> new]

\* Files and directories made and removed one level down and two.
TreeCalls ==
  {Call("mkdir", <<"/", a>>), Call("create", <<"/", a, b>>),
   Call("open", <<a, b>>), Call("unlink", <<a>>), Call("unlink", <<"/", a, b>>), Call("unlink", <<"..">>)}

\* Links to a file, in the directory of one process.
LinkCalls ==
  {Call("create", <<a>>), Call("unlink", <<a>>), Call("unlink", <<b>>),
   Link(<<a>>, <<b>>), Link(<<b>>, <<"/", a>>), Link(<<a>>, <<"/">>)}

\* Directories that are somebody's current one.
ChdirCalls ==
  {Call("mkdir", <<"/", a>>), Call("mkdir", <<b>>), Call("chdir", <<a>>), Call("chdir", <<"..">>),
   Call("unlink", <<"/", a>>), Call("unlink", <<"/", a, b>>)}

\* The last one waits for ever, for a lock of its own.
WideCalls == TreeCalls \cup LinkCalls \cup ChdirCalls \cup {Link(<<a>>, <<".">>)}
DeepCalls == ChdirCalls \cup {Call("chdir", <<b>>), Call("mknod", <<"/", b>>)}

Deep == INSTANCE Namespace WITH NINODES <- NINODES + 1, Calls <- DeepCalls

MCInit ==
  /\ part \in Parts
  /\ IF part = "wide" THEN Init ELSE Deep!Init

MCNext ==
  /\ UNCHANGED part
  /\ \/ part = "wide" /\ Next
     \/ part = "deep" /\ Deep!Next

MCSpec == MCInit /\ [][MCNext]_<<part, vars>>

\* Names and inodes agree while calls overlap: a name leads to an inode in use,
\* references are counted, and ilock panics only at the ".." of a directory that
\* has no name any more (namex, create, sys_link, sys_unlink, sys_chdir).
NamesLeadToInodes == IF part = "wide" THEN Inv ELSE Deep!Inv

\* The directories are a tree (create, sys_link, sys_unlink).
DirectoriesAreATree == IF part = "wide" THEN DirectoryTree ELSE Deep!DirectoryTree
=============================================================================
