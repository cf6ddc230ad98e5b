------------------------------ MODULE MCTables ------------------------------
(***************************************************************************)
(* What the kernel has a fixed number of and must account for: page frames  *)
(* (Vm), inodes in memory (ICache) and open files (FileTable).  table says  *)
(* which one is at work in a behaviour; the other two stay as they were     *)
(* initially.                                                               *)
(***************************************************************************)
EXTENDS Vm, TLC

CONSTANTS
  IProcess, NINODES, NINODE, NoEntry, NoProc, MAXLINK,
  FProcess, initproc, NFILE, NOFILE, MAXHELD

ASSUME TablesAssumption ==
  /\ NINODES \in Nat /\ NINODE \in Nat /\ MAXLINK \in Nat
  /\ NoEntry \notin 1..NINODE /\ NoProc \notin IProcess
  /\ {NFILE, NOFILE, MAXHELD} \subseteq Nat \ {0} /\ initproc \in FProcess

VARIABLES
  table,
  type, nlink, links, inum, iref, valid, itype, inlink, lock, ipc, ip, ipanicked,
  fref, obj, ofile, fpc, new, todo, ff, child, fd, held, fpanicked

icachevars == <<type, nlink, links, inum, iref, valid, itype, inlink, lock, ipc, ip, ipanicked>>
ftablevars == <<fref, obj, ofile, fpc, new, todo, ff, child, fd, held, fpanicked>>

I == INSTANCE ICache WITH Process <- IProcess, ref <- iref, pc <- ipc, panicked <- ipanicked
F == INSTANCE FileTable WITH Process <- FProcess, ref <- fref, pc <- fpc, panicked <- fpanicked

MCInit == Init /\ I!Init /\ F!Init /\ table \in {"frames", "icache", "ftable"}

MCNext ==
  /\ UNCHANGED table
  /\ \/ table = "frames" /\ Next /\ UNCHANGED <<icachevars, ftablevars>>
     \/ table = "icache" /\ I!Next /\ UNCHANGED <<vars, ftablevars>>
     \/ table = "ftable" /\ F!Next /\ UNCHANGED <<vars, icachevars>>

MCSpec == MCInit /\ [][MCNext]_<<table, vars, icachevars, ftablevars>>

Symmetry == Permutations(IProcess)

\* One counted entry for an inode, written through whenever it is unlocked, with
\* an exact link count (iget, iput, iupdate).
InodesCounted == table = "icache" => I!Inv

\* An inode is freed only when nothing names it and nobody else has it (iput).
FreedWhenUnused == I!FreedWhenUnused

\* The counts of the file table agree with the descriptors that processes have,
\* every descriptor can be used, and what an open file refers to is let go
\* exactly once (fileclose, sys_pipe, fork).
FilesCounted == table = "ftable" => F!Inv
=============================================================================
