------------------------------ MODULE Namespace ------------------------------
(***************************************************************************)
(* Directories and the calls that change them: namex, dirlookup and dirlink *)
(* (xv6/fs.c), sys_link, sys_unlink, create, sys_open, sys_mkdir, sys_mknod *)
(* and sys_chdir (xv6/sysfile.c).  A step of a process goes from the lock   *)
(* of an inode to the next point where it may have to wait for one, so that *)
(* every lock held while waiting for another is in the model.  iput waits   *)
(* for its inode's lock too; its inside is the subject of ICache.           *)
(***************************************************************************)
EXTENDS Integers, FiniteSets, FiniteSetsExt, Sequences

CONSTANTS
  Process,
  NINODES,    \* inodes 1..NINODES; 1 is the root
  Name,       \* names of files
  Calls,      \* what processes may call: records with call, path and new
  NoProc

Dot == "."
DotDot == ".."
Slash == "/"
Inum == 1..NINODES
ROOTINO == 1

ASSUME NamespaceAssumption ==
  /\ NINODES \in Nat \ {0} /\ NoProc \notin Process
  /\ {Dot, DotDot, Slash} \cap Name = {}

VARIABLES
  type, nlink,   \* of an inode: "free", "dir", "file" or "dev"; its count
  dents,         \* a directory's entries, 0 for none
  ref,           \* references to the inode in memory
  lock,          \* holder of its sleep lock
  cwd,           \* current directory of a process
  st,            \* the call a process is in
  panicked

vars == <<type, nlink, dents, ref, lock, cwd, st, panicked>>
inodes == <<type, nlink, dents>>

Element == Name \cup {Dot, DotDot}
NoDents == [x \in Element |-> 0]

PC == {"idle", "namex", "step", "failed", "got", "drop", "chdir_put", "exists_put", "exists",
       "create_put", "unlink_ip", "unlink_busy", "unlink_put", "linked", "link_exists",
       "link_put", "link_bad", "open"}

\* Between calls: no inode in hand.
Idle == [pc |-> "idle", call |-> "none", path |-> <<>>, new |-> <<>>, cur |-> 0, ip |-> 0, nxt |-> 0]

TypeOK ==
  /\ type \in [Inum -> {"free", "dir", "file", "dev"}]
  /\ nlink \in [Inum -> 0..(NINODES * Cardinality(Name) + Cardinality(Process))]
  /\ dents \in [Inum -> [Element -> 0..NINODES]]
  /\ ref \in [Inum -> 0..(4 * Cardinality(Process))]
  /\ lock \in [Inum -> Process \cup {NoProc}]
  /\ cwd \in [Process -> Inum]
  /\ \A p \in Process : st[p].pc \in PC /\ st[p].cur \in 0..NINODES /\ st[p].ip \in 0..NINODES
  /\ panicked \in {0, 1}

\* An empty file system; every process in the root directory.
Init ==
  /\ type = [i \in Inum |-> IF i = ROOTINO THEN "dir" ELSE "free"]
  /\ nlink = [i \in Inum |-> IF i = ROOTINO THEN 1 ELSE 0]
  /\ dents = [i \in Inum |-> IF i = ROOTINO
                THEN [NoDents EXCEPT ![Dot] = ROOTINO, ![DotDot] = ROOTINO] ELSE NoDents]
  /\ ref = [i \in Inum |-> IF i = ROOTINO THEN Cardinality(Process) ELSE 0]
  /\ lock = [i \in Inum |-> NoProc]
  /\ cwd = [p \in Process |-> ROOTINO]
  /\ st = [p \in Process |-> Idle]
  /\ panicked = 0

At(p, s) == panicked = 0 /\ st[p].pc = s
Free(i) == lock[i] = NoProc
Panic == panicked' = 1 /\ UNCHANGED <<type, nlink, dents, ref, lock, cwd, st>>

\* The inode is locked; a free one panics ("ilock: no type"), and so does one
\* that fails the assertion ok.
ilock_assert(i, ok, locked) ==
  /\ Free(i)
  /\ IF type[i] # "free" /\ ok THEN locked /\ UNCHANGED panicked ELSE Panic

ilock(i, locked) == ilock_assert(i, TRUE, locked)

\* Variant: the links are not looked at.
Dying_named(i) == ref[i] = 1

Dying(i) == nlink[i] = 0 /\ ref[i] = 1

\* iput: the last reference to an inode without links frees it.
iput(i) ==
  /\ Free(i)
  /\ ref' = [ref EXCEPT ![i] = @ - 1]
  /\ type' = [type EXCEPT ![i] = IF Dying(i) THEN "free" ELSE @]
  /\ dents' = [dents EXCEPT ![i] = IF Dying(i) THEN NoDents ELSE @]

-----------------------------------------------------------------------------
(* namex *)

\* nameiparent stops one level early; link's second path is one of those.
Parent(s) == s.call \in {"create", "mkdir", "mknod", "unlink", "link2"}

Start(p, path) == IF Head(path) = Slash THEN ROOTINO ELSE cwd[p]
Elements(path) == IF Head(path) = Slash THEN Tail(path) ELSE path

\* The reference taken by iget or idup, and what is left of the path.
Begin(p, s, path) ==
  LET cur == Start(p, path)
      rest == Elements(path) IN
      /\ ref' = [ref EXCEPT ![cur] = @ + 1]
      /\ st' = [st EXCEPT ![p] = [s EXCEPT !.cur = cur, !.path = rest,
                  !.pc = IF rest # <<>> THEN "namex" ELSE IF Parent(s) THEN "failed" ELSE "got"]]

syscall(p) ==
  /\ At(p, "idle")
  /\ \E c \in Calls :
       Begin(p, [Idle EXCEPT !.call = c.call, !.new = c.new], c.path)
  /\ UNCHANGED <<inodes, lock, cwd, panicked>>

Found(s) == dents[s.cur][Head(s.path)]

\* One turn of namex's loop, up to iunlock: the inode found gets a reference.
namex(p) ==
  LET s == st[p] IN
    LET pc == IF type[s.cur] # "dir" THEN "failed"
              ELSE IF Parent(s) /\ Len(s.path) = 1 THEN "got"
              ELSE IF Found(s) = 0 THEN "failed" ELSE "step" IN
      /\ At(p, "namex")
      /\ ilock(s.cur,
           /\ st' = [st EXCEPT ![p].pc = pc, ![p].nxt = IF pc = "step" THEN Found(s) ELSE 0]
           /\ ref' = IF pc = "step" THEN [ref EXCEPT ![Found(s)] = @ + 1] ELSE ref
           /\ UNCHANGED <<inodes, lock, cwd>>)

\* The iput of the directory just searched.
namex_put(p) ==
  LET s == st[p] IN
    /\ At(p, "step")
    /\ iput(s.cur)
    /\ st' = [st EXCEPT ![p] = [s EXCEPT !.cur = s.nxt, !.nxt = 0, !.path = Tail(@),
                !.pc = IF Len(s.path) = 1 THEN "got" ELSE "namex"]]
    /\ UNCHANGED <<nlink, lock, cwd, panicked>>

\* namex returns 0, after the iput of where it got to.
namex_failed(p) ==
  LET s == st[p] IN
    /\ At(p, "failed")
    /\ iput(s.cur)
    /\ st' = [st EXCEPT ![p] = IF s.call = "link2" THEN [s EXCEPT !.pc = "link_bad", !.cur = 0] ELSE Idle]
    /\ UNCHANGED <<nlink, lock, cwd, panicked>>

\* The last iput of a call.
drop(p) ==
  /\ At(p, "drop")
  /\ iput(st[p].cur)
  /\ st' = [st EXCEPT ![p] = Idle]
  /\ UNCHANGED <<nlink, lock, cwd, panicked>>

Got(p, call) == At(p, "got") /\ st[p].call = call

-----------------------------------------------------------------------------
(* sys_chdir, sys_open without O_CREATE, and close *)

chdir(p) ==
  LET s == st[p] IN
    /\ Got(p, "chdir")
    /\ ilock(s.cur,
         /\ st' = [st EXCEPT ![p].pc = IF type[s.cur] = "dir" THEN "chdir_put" ELSE "drop"]
         /\ UNCHANGED <<inodes, ref, lock, cwd>>)

chdir_put(p) ==
  /\ At(p, "chdir_put")
  /\ iput(cwd[p])
  /\ cwd' = [cwd EXCEPT ![p] = st[p].cur]
  /\ st' = [st EXCEPT ![p] = Idle]
  /\ UNCHANGED <<nlink, lock, panicked>>

\* The file is opened, or the call gives up: a directory to be written, or no
\* descriptor left.
open(p) ==
  /\ Got(p, "open")
  /\ \E pc \in {"open", "drop"} :
       ilock(st[p].cur,
         /\ st' = [st EXCEPT ![p].pc = pc]
         /\ UNCHANGED <<inodes, ref, lock, cwd>>)

close(p) ==
  /\ At(p, "open")
  /\ st' = [st EXCEPT ![p].pc = "drop"]
  /\ UNCHANGED <<inodes, ref, lock, cwd, panicked>>

-----------------------------------------------------------------------------
(* create, for sys_open with O_CREATE, sys_mkdir and sys_mknod *)

Type(call) == CASE call = "mkdir" -> "dir" [] call = "mknod" -> "dev" [] OTHER -> "file"

FreeInodes == {i \in Inum : type[i] = "free"}

NlinkOfParent(call) == IF call = "mkdir" THEN 1 ELSE 0

\* dp is locked; the name is there already, or the inode is made and entered,
\* and stays locked.  The disk has an inode left (ialloc panics otherwise).
create(p) ==
  LET s == st[p]
      dp == s.cur
      old == Found(s)
      new == Min(FreeInodes) IN
    /\ At(p, "got") /\ s.call \in {"create", "mkdir", "mknod"}
    /\ old # 0 \/ FreeInodes # {}
    /\ ilock(dp,
         IF old # 0
           THEN /\ ref' = [ref EXCEPT ![old] = @ + 1]
                /\ st' = [st EXCEPT ![p].pc = "exists_put", ![p].ip = old]
                /\ UNCHANGED <<inodes, lock, cwd>>
           ELSE /\ type' = [type EXCEPT ![new] = Type(s.call)]
                /\ nlink' = [nlink EXCEPT ![new] = 1, ![dp] = @ + NlinkOfParent(s.call)]
                /\ dents' = [dents EXCEPT ![dp][Head(s.path)] = new,
                     ![new] = IF s.call = "mkdir"
                                THEN [NoDents EXCEPT ![Dot] = new, ![DotDot] = dp] ELSE NoDents]
                /\ ref' = [ref EXCEPT ![new] = @ + 1]
                /\ lock' = [lock EXCEPT ![new] = p]
                /\ st' = [st EXCEPT ![p].pc = "create_put", ![p].ip = new]
                /\ UNCHANGED cwd)

\* iput(dp) with the new inode locked, and the rest of the call.
create_put(p) ==
  LET s == st[p] IN
    /\ At(p, "create_put")
    /\ iput(s.cur)
    /\ lock' = [lock EXCEPT ![s.ip] = NoProc]
    /\ \E pc \in (IF s.call = "create" THEN {"open", "drop"} ELSE {"drop"}) :
         st' = [st EXCEPT ![p] = [s EXCEPT !.pc = pc, !.cur = s.ip, !.ip = 0]]
    /\ UNCHANGED <<nlink, cwd, panicked>>

exists_put(p) ==
  LET s == st[p] IN
    /\ At(p, "exists_put")
    /\ iput(s.cur)
    /\ st' = [st EXCEPT ![p] = [s EXCEPT !.pc = "exists", !.cur = s.ip, !.ip = 0]]
    /\ UNCHANGED <<nlink, lock, cwd, panicked>>

exists(p) ==
  LET s == st[p]
      ok == s.call = "create" /\ type[s.cur] = "file" IN
    /\ At(p, "exists")
    /\ \E pc \in (IF ok THEN {"open", "drop"} ELSE {"drop"}) :
         ilock(s.cur,
           /\ st' = [st EXCEPT ![p].pc = pc]
           /\ UNCHANGED <<inodes, ref, lock, cwd>>)

-----------------------------------------------------------------------------
(* sys_unlink *)

isdirempty(i) == \A x \in Name : dents[i][x] = 0

\* dp is locked and stays locked if the name is there.
unlink(p) ==
  LET s == st[p] IN
    /\ Got(p, "unlink")
    /\ ilock(s.cur,
         IF Head(s.path) \in {Dot, DotDot} \/ Found(s) = 0
           THEN st' = [st EXCEPT ![p].pc = "drop"] /\ UNCHANGED <<ref, lock>>
           ELSE /\ ref' = [ref EXCEPT ![Found(s)] = @ + 1]
                /\ lock' = [lock EXCEPT ![s.cur] = p]
                /\ st' = [st EXCEPT ![p].pc = "unlink_ip", ![p].ip = Found(s)])
    /\ UNCHANGED <<inodes, cwd>>

\* ip is locked as well, and has a link: the entry goes, and dp is unlocked.
unlink_ip(p) ==
  LET s == st[p] IN
    /\ At(p, "unlink_ip")
    /\ ilock_assert(s.ip, nlink[s.ip] >= 1,
         IF type[s.ip] = "dir" /\ ~isdirempty(s.ip)
           THEN st' = [st EXCEPT ![p].pc = "unlink_busy"] /\ UNCHANGED <<inodes, ref, lock, cwd>>
           ELSE /\ dents' = [dents EXCEPT ![s.cur][Head(s.path)] = 0]
                /\ nlink' = [nlink EXCEPT ![s.cur] = IF type[s.ip] = "dir" THEN @ - 1 ELSE @]
                /\ lock' = [lock EXCEPT ![s.cur] = NoProc, ![s.ip] = p]
                /\ st' = [st EXCEPT ![p].pc = "unlink_put"]
                /\ UNCHANGED <<type, ref, cwd>>)

\* iput(dp) with ip locked; then ip loses the link.
unlink_put(p) ==
  LET s == st[p] IN
    /\ At(p, "unlink_put")
    /\ iput(s.cur)
    /\ nlink' = [nlink EXCEPT ![s.ip] = @ - 1]
    /\ lock' = [lock EXCEPT ![s.ip] = NoProc]
    /\ st' = [st EXCEPT ![p] = [s EXCEPT !.pc = "drop", !.cur = s.ip, !.ip = 0]]
    /\ UNCHANGED <<cwd, panicked>>

\* The directory is not empty: iput(ip), and then dp is unlocked.
unlink_busy(p) ==
  LET s == st[p] IN
    /\ At(p, "unlink_busy")
    /\ iput(s.ip)
    /\ lock' = [lock EXCEPT ![s.cur] = NoProc]
    /\ st' = [st EXCEPT ![p].pc = "drop", ![p].ip = 0]
    /\ UNCHANGED <<nlink, cwd, panicked>>

-----------------------------------------------------------------------------
(* sys_link *)

\* Variant: a directory may be linked.
link_directories(p) ==
  /\ Got(p, "link")
  /\ ilock(st[p].cur,
       /\ nlink' = [nlink EXCEPT ![st[p].cur] = @ + 1]
       /\ st' = [st EXCEPT ![p].pc = "linked"]
       /\ UNCHANGED <<type, dents, ref, lock, cwd>>)

link(p) ==
  LET s == st[p] IN
    /\ Got(p, "link")
    /\ ilock(s.cur,
         /\ nlink' = [nlink EXCEPT ![s.cur] = IF type[s.cur] = "dir" THEN @ ELSE @ + 1]
         /\ st' = [st EXCEPT ![p].pc = IF type[s.cur] = "dir" THEN "drop" ELSE "linked"]
         /\ UNCHANGED <<type, dents, ref, lock, cwd>>)

\* nameiparent(new) begins.
link_new(p) ==
  LET s == st[p] IN
    /\ At(p, "linked")
    /\ Begin(p, [s EXCEPT !.call = "link2", !.ip = s.cur, !.new = <<>>], s.new)
    /\ UNCHANGED <<inodes, lock, cwd, panicked>>

\* dp is locked for dirlink, and stays locked if the name is there.
link_dirlink(p) ==
  LET s == st[p] IN
    /\ Got(p, "link2")
    /\ ilock(s.cur,
         IF Found(s) # 0
           THEN /\ ref' = [ref EXCEPT ![Found(s)] = @ + 1]
                /\ lock' = [lock EXCEPT ![s.cur] = p]
                /\ st' = [st EXCEPT ![p].pc = "link_exists", ![p].nxt = Found(s)]
                /\ UNCHANGED <<inodes, cwd>>
           ELSE /\ dents' = [dents EXCEPT ![s.cur][Head(s.path)] = s.ip]
                /\ st' = [st EXCEPT ![p].pc = "link_put"]
                /\ UNCHANGED <<type, nlink, ref, lock, cwd>>)

\* dirlink's iput of the inode found, with dp locked.
link_exists(p) ==
  LET s == st[p] IN
    /\ At(p, "link_exists")
    /\ iput(s.nxt)
    /\ lock' = [lock EXCEPT ![s.cur] = NoProc]
    /\ st' = [st EXCEPT ![p].pc = "failed", ![p].nxt = 0]
    /\ UNCHANGED <<nlink, cwd, panicked>>

link_put(p) ==
  LET s == st[p] IN
    /\ At(p, "link_put")
    /\ iput(s.cur)
    /\ st' = [st EXCEPT ![p] = [s EXCEPT !.pc = "drop", !.cur = s.ip, !.ip = 0]]
    /\ UNCHANGED <<nlink, lock, cwd, panicked>>

link_bad(p) ==
  LET s == st[p] IN
    /\ At(p, "link_bad")
    /\ ilock(s.ip,
         /\ nlink' = [nlink EXCEPT ![s.ip] = @ - 1]
         /\ st' = [st EXCEPT ![p] = [s EXCEPT !.pc = "drop", !.cur = s.ip, !.ip = 0]]
         /\ UNCHANGED <<type, dents, ref, lock, cwd>>)

Next ==
  \E p \in Process :
    \/ syscall(p) \/ namex(p) \/ namex_put(p) \/ namex_failed(p) \/ drop(p)
    \/ chdir(p) \/ chdir_put(p) \/ open(p) \/ close(p)
    \/ create(p) \/ create_put(p) \/ exists_put(p) \/ exists(p)
    \/ unlink(p) \/ unlink_ip(p) \/ unlink_put(p) \/ unlink_busy(p)
    \/ link(p) \/ link_new(p) \/ link_dirlink(p) \/ link_exists(p) \/ link_put(p) \/ link_bad(p)

Spec == Init /\ [][Next]_vars

-----------------------------------------------------------------------------
(* Properties *)

\* The directory entries that name inode i, "." and ".." apart.
Entries(i) == {<<d, x>> \in Inum \X Name : dents[d][x] = i}

\* An entry never outlives its inode, and no inode has more names than nlink
\* says: sys_link counts before it enters, sys_unlink enters before it counts.
NoDanglingName ==
  \A i \in Inum : Entries(i) # {} =>
    type[i] # "free" /\ nlink[i] >= Cardinality(Entries(i))

\* A directory has one name at most, and its ".." is the directory of that
\* name: the directories are a tree, whatever calls overlap.
DirectoryTree ==
  \A i \in Inum \ {ROOTINO} : type[i] = "dir" =>
    /\ Cardinality(Entries(i)) <= 1
    /\ \A e \in Entries(i) : dents[i][DotDot] = e[1]

\* References are counted: one for each current directory and each inode in
\* the hands of a call.
RefsCounted ==
  \A i \in Inum :
    ref[i] = Cardinality({p \in Process : cwd[p] = i})
             + Cardinality({<<p, f>> \in Process \X {"cur", "ip", "nxt"} : st[p][f] = i})

\* ilock's panic, the only one reached while the disk has inodes, takes a
\* directory that has no name any more, that somebody is still in, and whose
\* parent has been removed and freed after it: its ".." is looked up.  Its link
\* count need not be 0, since directories can still be made in it.
PanicsAtRemovedParent ==
  panicked = 1 =>
    \E d \in Inum \ {ROOTINO} :
      type[d] = "dir" /\ Entries(d) = {} /\ type[dents[d][DotDot]] = "free"

\* Names and inodes agree while calls overlap: a name always leads to an inode
\* in use whose link count covers it, references are counted, and only the ".."
\* of a directory without a name can lead to a free inode.
Inv == TypeOK /\ NoDanglingName /\ RefsCounted /\ PanicsAtRemovedParent

\* The inode whose lock a process needs next, 0 for none.
Wants(p) ==
  LET s == st[p] IN
    CASE s.pc \in {"idle", "open", "linked"} -> 0
      [] s.pc = "chdir_put" -> cwd[p]
      [] s.pc \in {"unlink_ip", "unlink_busy", "link_bad"} -> s.ip
      [] s.pc = "link_exists" -> s.nxt
      [] OTHER -> s.cur

\* Nobody waits for a lock in a circle: what linkunlink of usertests.c is there
\* for, "another concurrent link/unlink/create test, to look for deadlocks".
NoDeadlock ==
  ~ \E S \in SUBSET Process \ {{}} :
      \A p \in S : Wants(p) # 0 /\ lock[Wants(p)] \in S
=============================================================================
