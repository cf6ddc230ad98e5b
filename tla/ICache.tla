------------------------------- MODULE ICache -------------------------------
(***************************************************************************)
(* The inode cache of xv6/fs.c: iget, ialloc, ilock, iunlock and iput, and  *)
(* the link counts that sys_link, sys_unlink and create (xv6/sysfile.c)     *)
(* keep in inodes.  Which directory holds an entry does not matter here:    *)
(* links counts the entries of an inode.  Sections of icache.lock are one   *)
(* action, and so is what a process does between locking and unlocking an   *)
(* inode; iput is taken apart, because others get in between its parts.     *)
(***************************************************************************)
EXTENDS Integers, FiniteSets, FiniteSetsExt

CONSTANTS
  Process,
  NINODES,    \* inodes on disk, 1..NINODES
  NINODE,     \* entries of icache
  NoEntry, NoProc,
  MAXLINK     \* bound on links to one inode

Inum == 1..NINODES
Entry == 1..NINODE

VARIABLES
  type, nlink,               \* struct dinode; type 0 is a free inode
  links,                     \* directory entries that name the inode
  inum, ref, valid, itype, inlink,   \* struct inode: the cache entry
  lock,                      \* holder of the entry's sleep lock
  pc, ip,                    \* a process and the entry it has a reference to
  panicked

disk == <<type, nlink>>
cache == <<inum, ref, valid, itype, inlink>>
vars == <<type, nlink, links, inum, ref, valid, itype, inlink, lock, pc, ip, panicked>>

NoInodes == 2   \* panicked: "iget: no inodes", "ialloc: no inodes"

PC == {"out", "new", "open", "link", "iput", "free", "unlock", "drop"}

TypeOK ==
  /\ type \in [Inum -> {0, 1}] /\ nlink \in [Inum -> 0..(MAXLINK + 1)]
  /\ links \in [Inum -> 0..(MAXLINK + 1)]
  /\ inum \in [Entry -> 0..NINODES] /\ ref \in [Entry -> 0..Cardinality(Process)]
  /\ valid \in [Entry -> {0, 1}] /\ itype \in [Entry -> {0, 1}]
  /\ inlink \in [Entry -> 0..(MAXLINK + 1)]
  /\ lock \in [Entry -> Process \cup {NoProc}]
  /\ pc \in [Process -> PC] /\ ip \in [Process -> Entry \cup {NoEntry}]
  /\ panicked \in {0, 1, NoInodes}

\* A file system whose first inode is in use, and an empty cache.
Init ==
  /\ type = [i \in Inum |-> IF i = 1 THEN 1 ELSE 0]
  /\ nlink = [i \in Inum |-> IF i = 1 THEN 1 ELSE 0]
  /\ links = nlink
  /\ inum = [e \in Entry |-> 0] /\ ref = [e \in Entry |-> 0]
  /\ valid = [e \in Entry |-> 0] /\ itype = [e \in Entry |-> 0]
  /\ inlink = [e \in Entry |-> 0]
  /\ lock = [e \in Entry |-> NoProc]
  /\ pc = [p \in Process |-> "out"] /\ ip = [p \in Process |-> NoEntry]
  /\ panicked = 0

At(p, s) == panicked = 0 /\ pc[p] = s
Goto(p, s) == pc' = [pc EXCEPT ![p] = s]

-----------------------------------------------------------------------------
(* iget and ialloc *)

\* Variant: the search stops at the first free entry.
Matches_first_free(i) ==
  {e \in Entry : ref[e] > 0 /\ inum[e] = i /\ \A f \in 1..(e - 1) : ref[f] > 0}

Matches(i) == {e \in Entry : ref[e] > 0 /\ inum[e] = i}

\* iget(i): the entry of i, or the first free one.
iget(p, i) ==
  LET free == {e \in Entry : ref[e] = 0} IN
    IF Matches(i) # {}
      THEN LET e == Min(Matches(i)) IN
             /\ ref' = [ref EXCEPT ![e] = @ + 1]
             /\ ip' = [ip EXCEPT ![p] = e]
             /\ UNCHANGED <<inum, valid, panicked>>
    ELSE IF free # {}
      THEN LET e == Min(free) IN
             /\ inum' = [inum EXCEPT ![e] = i]
             /\ ref' = [ref EXCEPT ![e] = 1]
             /\ valid' = [valid EXCEPT ![e] = 0]
             /\ ip' = [ip EXCEPT ![p] = e]
             /\ UNCHANGED panicked
    ELSE panicked' = NoInodes /\ UNCHANGED <<inum, ref, valid, ip>>

\* namei: a directory entry names inode i, and its directory is locked.
namei(p, i) ==
  /\ At(p, "out")
  /\ links[i] > 0
  /\ iget(p, i)
  /\ Goto(p, "open")
  /\ UNCHANGED <<disk, links, itype, inlink, lock>>

\* ialloc: the first free inode on disk, zeroed and given a type.
ialloc(p) ==
  LET free == {i \in Inum : type[i] = 0} IN
    /\ At(p, "out")
    /\ IF free # {}
       THEN /\ type' = [type EXCEPT ![Min(free)] = 1]
            /\ nlink' = [nlink EXCEPT ![Min(free)] = 0]
            /\ iget(p, Min(free))
            /\ Goto(p, "new")
       ELSE panicked' = NoInodes /\ UNCHANGED <<disk, inum, ref, valid, pc, ip>>
    /\ UNCHANGED <<links, itype, inlink, lock>>

-----------------------------------------------------------------------------
(* Between ilock and iunlock.  The entry's lock is free, and ilock reads the   *)
(* inode if it is not valid.                                                  *)

Nlink(e) == IF valid[e] = 1 THEN inlink[e] ELSE nlink[inum[e]]

\* ilock, then nlink becomes n with iupdate, then iunlock.  ilock panics on a
\* free inode ("ilock: no type"), sys_unlink on one without links.
ilock(p, e, n) ==
  /\ lock[e] = NoProc
  /\ valid' = [valid EXCEPT ![e] = 1]
  /\ itype' = [itype EXCEPT ![e] = IF valid[e] = 1 THEN @ ELSE type[inum[e]]]
  /\ inlink' = [inlink EXCEPT ![e] = n]
  /\ nlink' = [nlink EXCEPT ![inum[e]] = n]
  /\ panicked' = IF n < 0 \/ (valid[e] = 0 /\ type[inum[e]] = 0) THEN 1 ELSE 0

\* A read, write or stat of an open file.
use(p) ==
  /\ At(p, "open")
  /\ ilock(p, ip[p], Nlink(ip[p]))
  /\ UNCHANGED <<type, links, inum, ref, lock, pc, ip>>

\* create: nlink = 1, and the entry in the directory.
create(p) ==
  /\ At(p, "new")
  /\ ilock(p, ip[p], 1)
  /\ links' = [links EXCEPT ![inum[ip[p]]] = 1]
  /\ Goto(p, "open")
  /\ UNCHANGED <<type, inum, ref, lock, ip>>

\* sys_link: the count goes up, ...
link(p) ==
  /\ At(p, "open")
  /\ Nlink(ip[p]) <= MAXLINK /\ links[inum[ip[p]]] < MAXLINK
  /\ ilock(p, ip[p], Nlink(ip[p]) + 1)
  /\ Goto(p, "link")
  /\ UNCHANGED <<type, links, inum, ref, lock, ip>>

\* ... then the entry is made, ...
link_done(p) ==
  /\ At(p, "link")
  /\ links' = [links EXCEPT ![inum[ip[p]]] = @ + 1]
  /\ Goto(p, "iput")
  /\ UNCHANGED <<disk, cache, lock, ip, panicked>>

\* ... or cannot be made, and the count goes down again.
link_bad(p) ==
  /\ At(p, "link")
  /\ ilock(p, ip[p], Nlink(ip[p]) - 1)
  /\ Goto(p, "iput")
  /\ UNCHANGED <<type, links, inum, ref, lock, ip>>

\* sys_unlink, with the directory locked: the entry goes, then the count.
unlink(p) ==
  /\ At(p, "open")
  /\ links[inum[ip[p]]] > 0
  /\ links' = [links EXCEPT ![inum[ip[p]]] = @ - 1]
  /\ ilock(p, ip[p], Nlink(ip[p]) - 1)
  /\ Goto(p, "iput")
  /\ UNCHANGED <<type, inum, ref, lock, ip>>

\* The file is closed.
close(p) ==
  /\ At(p, "open")
  /\ Goto(p, "iput")
  /\ UNCHANGED <<disk, links, cache, lock, ip, panicked>>

-----------------------------------------------------------------------------
(* iput *)

\* Variant: the references are not counted.
LastReference_any(e) == TRUE

LastReference(e) == ref[e] = 1

\* acquiresleep and the two tests.
iput(p) ==
  /\ At(p, "iput")
  /\ lock[ip[p]] = NoProc
  /\ lock' = [lock EXCEPT ![ip[p]] = p]
  /\ Goto(p, IF valid[ip[p]] = 1 /\ inlink[ip[p]] = 0 /\ LastReference(ip[p])
               THEN "free" ELSE "unlock")
  /\ UNCHANGED <<disk, links, cache, ip, panicked>>

\* itrunc, type = 0, iupdate: the inode can be allocated again at once.
iput_free(p) ==
  /\ At(p, "free")
  /\ itype' = [itype EXCEPT ![ip[p]] = 0]
  /\ type' = [type EXCEPT ![inum[ip[p]]] = 0]
  /\ nlink' = [nlink EXCEPT ![inum[ip[p]]] = inlink[ip[p]]]
  /\ Goto(p, "unlock")
  /\ UNCHANGED <<links, inum, ref, valid, inlink, lock, ip, panicked>>

\* valid = 0 if it was freed; releasesleep.
iput_unlock(p) ==
  /\ At(p, "unlock")
  /\ valid' = [valid EXCEPT ![ip[p]] = IF itype[ip[p]] = 0 THEN 0 ELSE @]
  /\ lock' = [lock EXCEPT ![ip[p]] = NoProc]
  /\ Goto(p, "drop")
  /\ UNCHANGED <<disk, links, inum, ref, itype, inlink, ip, panicked>>

\* The reference, under icache.lock.
iput_drop(p) ==
  /\ At(p, "drop")
  /\ ref' = [ref EXCEPT ![ip[p]] = @ - 1]
  /\ ip' = [ip EXCEPT ![p] = NoEntry]
  /\ Goto(p, "out")
  /\ UNCHANGED <<disk, links, inum, valid, itype, inlink, lock, panicked>>

\* panic() does not return.
panic_loop == panicked # 0 /\ UNCHANGED vars

Next ==
  \/ \E p \in Process :
       \/ ialloc(p) \/ \E i \in Inum : namei(p, i)
       \/ use(p) \/ create(p) \/ link(p) \/ link_done(p) \/ link_bad(p) \/ unlink(p) \/ close(p)
       \/ iput(p) \/ iput_free(p) \/ iput_unlock(p) \/ iput_drop(p)
  \/ panic_loop

Spec == Init /\ [][Next]_vars

-----------------------------------------------------------------------------
(* Properties *)

\* All processes that use an inode use one entry, and its count is theirs.
OneEntryPerInode ==
  /\ \A e, f \in Entry : ref[e] > 0 /\ ref[f] > 0 /\ inum[e] = inum[f] => e = f
  /\ \A e \in Entry : ref[e] = Cardinality({p \in Process : ip[p] = e})

\* The cache is write-through: a valid entry in use agrees with the disk
\* whenever its lock is free.
WriteThrough ==
  \A e \in Entry : ref[e] > 0 /\ valid[e] = 1 /\ lock[e] = NoProc =>
    itype[e] = type[inum[e]] /\ inlink[e] = nlink[inum[e]]

\* Link counts are exact: the entries, plus the links being made.
LinkCount ==
  \A i \in Inum : type[i] = 1 =>
    nlink[i] = links[i] + Cardinality({p \in Process : pc[p] = "link" /\ inum[ip[p]] = i})

\* An inode is freed only when nothing names it and nobody else has it: no
\* file disappears under an open descriptor, and no name is left dangling.
FreedWhenUnused ==
  [][\A i \in Inum : type[i] = 1 /\ type'[i] = 0 =>
       links[i] = 0 /\ \E p \in Process : {q \in Process : ip[q] # NoEntry /\ inum[ip[q]] = i} = {p}]_vars

\* ilock never finds a free inode and sys_unlink never one without links; iget
\* and ialloc panic only when every entry of the cache, or every inode of the
\* disk, is taken.
PanicsOutOfInodes ==
  /\ panicked # 1
  /\ panicked = NoInodes => (\A e \in Entry : ref[e] > 0) \/ (\A i \in Inum : type[i] # 0)

\* The inode cache is consistent: one counted entry for an inode, written through
\* whenever it is unlocked, with an exact link count, and iget, ialloc, ilock and
\* sys_unlink panic for want of an inode only.
Inv == TypeOK /\ PanicsOutOfInodes /\ LinkCount /\ OneEntryPerInode /\ WriteThrough
=============================================================================
