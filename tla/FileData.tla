------------------------------ MODULE FileData ------------------------------
(***************************************************************************)
(* The contents of files: balloc, bfree, bmap, itrunc, readi and writei     *)
(* (xv6/fs.c) under fileread and filewrite (xv6/file.c).  Processes write   *)
(* through open files they may share, chunk by chunk and block by block,    *)
(* while others allocate and free blocks.  Every byte written to inode i    *)
(* is i, and a block that balloc hands out is zeroed, so that a byte tells  *)
(* which file it came from.                                                 *)
(***************************************************************************)
EXTENDS Integers, FiniteSets, FiniteSetsExt

CONSTANTS
  Process,
  NINODES,
  NFILE,              \* open files
  NBLOCKS,            \* data blocks, enough for all files at their largest
  BSIZE, NDIRECT, NINDIRECT,
  MAXOPBLOCKS,        \* log blocks a call may use
  Counts,             \* byte counts of reads and writes
  NoProc

ASSUME FileDataAssumption ==
  /\ {NINODES, NFILE, NBLOCKS, BSIZE, NDIRECT, NINDIRECT} \subseteq Nat \ {0}
  /\ Counts \subseteq Nat \ {0}
  /\ MAXOPBLOCKS \in Nat /\ MAXOPBLOCKS >= 6
  /\ NBLOCKS >= NINODES * (NDIRECT + 1 + NINDIRECT)
  /\ NoProc \notin Process

Inum == 1..NINODES
File == 1..NFILE
Block == 1..NBLOCKS
MAXFILE == NDIRECT + NINDIRECT
Bn == 0..(MAXFILE - 1)
Bytes == 0..(MAXFILE * BSIZE)

VARIABLES
  free,                \* blocks free in the bitmap
  data,                \* data[b]: the bytes of block b
  addrs, indirect,     \* block of a block number, and the indirect block; 0 for none
  size, linked,        \* of an inode; whether a directory names it
  fip, off,            \* struct file: its inode, 0 if not open, and its offset
  lock,                \* holder of the inode's lock
  pc, f, ip,           \* a process, the open file it uses and its inode
  left, n,             \* bytes left of its write, and of its chunk
  pos,                 \* writei's offset
  logged,              \* blocks its transaction has written
  panicked

disk == <<free, data, addrs, indirect, size, linked>>
vars == <<free, data, addrs, indirect, size, linked, fip, off, lock, pc, f, ip, left, n, pos, logged, panicked>>

TypeOK ==
  /\ free \subseteq Block /\ data \in [Block -> [0..(BSIZE - 1) -> 0..NINODES]]
  /\ addrs \in [Inum -> [Bn -> 0..NBLOCKS]] /\ indirect \in [Inum -> 0..NBLOCKS]
  /\ size \in [Inum -> Bytes] /\ linked \in [Inum -> BOOLEAN]
  /\ fip \in [File -> 0..NINODES] /\ off \in [File -> Bytes]
  /\ lock \in [Inum -> Process \cup {NoProc}]
  /\ pc \in [Process -> {"user", "chunk", "block", "done", "trunc"}]
  /\ f \in [Process -> 0..NFILE] /\ ip \in [Process -> 0..NINODES]
  /\ left \in [Process -> 0..Max(Counts)] /\ n \in [Process -> 0..Max(Counts)] /\ pos \in [Process -> Bytes]
  /\ \A p \in Process : IsFiniteSet(logged[p])
  /\ panicked \in {0, 1}

Zeroes == [i \in 0..(BSIZE - 1) |-> 0]

Init ==
  /\ free = Block /\ data = [b \in Block |-> Zeroes]
  /\ addrs = [i \in Inum |-> [bn \in Bn |-> 0]] /\ indirect = [i \in Inum |-> 0]
  /\ size = [i \in Inum |-> 0] /\ linked = [i \in Inum |-> TRUE]
  /\ fip = [g \in File |-> 0] /\ off = [g \in File |-> 0]
  /\ lock = [i \in Inum |-> NoProc]
  /\ pc = [p \in Process |-> "user"] /\ f = [p \in Process |-> 0] /\ ip = [p \in Process |-> 0]
  /\ left = [p \in Process |-> 0] /\ n = [p \in Process |-> 0] /\ pos = [p \in Process |-> 0]
  /\ logged = [p \in Process |-> {}]
  /\ panicked = 0

At(p, s) == panicked = 0 /\ pc[p] = s
Goto(p, s) == pc' = [pc EXCEPT ![p] = s]

-----------------------------------------------------------------------------
(* sys_open, sys_unlink, fileread *)

open(p, g, i) ==
  /\ At(p, "user") /\ fip[g] = 0 /\ linked[i]
  /\ fip' = [fip EXCEPT ![g] = i] /\ off' = [off EXCEPT ![g] = 0]
  /\ UNCHANGED <<disk, lock, pc, f, ip, left, n, pos, logged, panicked>>

\* An open file loses its name.
unlink(p, i) ==
  /\ At(p, "user") /\ linked[i] /\ lock[i] = NoProc /\ \E g \in File : fip[g] = i
  /\ linked' = [linked EXCEPT ![i] = FALSE]
  /\ UNCHANGED <<free, data, addrs, indirect, size, fip, off, lock, pc, f, ip, left, n, pos, logged, panicked>>

\* readi of up to k bytes.  bmap would allocate a block that is not there, and
\* log_write panics, because fileread begins no transaction.
fileread(p, g, k) ==
  LET i == fip[g]
      end == Min({off[g] + k, size[i]}) IN
    /\ At(p, "user") /\ i # 0 /\ lock[i] = NoProc
    /\ off[g] <= size[i]
    /\ panicked' = IF \E x \in off[g]..(end - 1) : addrs[i][x \div BSIZE] = 0 THEN 1 ELSE 0
    /\ off' = [off EXCEPT ![g] = end]
    /\ UNCHANGED <<disk, fip, lock, pc, f, ip, left, n, pos, logged>>

-----------------------------------------------------------------------------
(* filewrite and writei *)

filewrite(p, g, k) ==
  /\ At(p, "user") /\ fip[g] # 0
  /\ f' = [f EXCEPT ![p] = g] /\ ip' = [ip EXCEPT ![p] = fip[g]] /\ left' = [left EXCEPT ![p] = k]
  /\ Goto(p, "chunk")
  /\ UNCHANGED <<disk, fip, off, lock, n, pos, logged, panicked>>

\* Variant: no slop for a write that is not aligned.
MaxChunk_aligned == ((MAXOPBLOCKS - 1 - 1) \div 2) * BSIZE

\* What filewrite calls max.
MaxChunk == ((MAXOPBLOCKS - 1 - 1 - 2) \div 2) * BSIZE

\* begin_op, ilock and writei's tests; or the write is over.
chunk(p) ==
  LET i == ip[p]
      n1 == Min({left[p], MaxChunk})
      start == off[f[p]] IN
    /\ At(p, "chunk")
    /\ \/ /\ left[p] > 0 /\ lock[i] = NoProc
          /\ start <= size[i] /\ start + n1 <= MAXFILE * BSIZE
          /\ lock' = [lock EXCEPT ![i] = p]
          /\ n' = [n EXCEPT ![p] = n1] /\ pos' = [pos EXCEPT ![p] = start]
          /\ Goto(p, "block")
          /\ UNCHANGED <<f, ip, left>>
       \/ /\ left[p] > 0 => lock[i] = NoProc /\ start + n1 > MAXFILE * BSIZE
          /\ Goto(p, "user")
          /\ f' = [f EXCEPT ![p] = 0] /\ ip' = [ip EXCEPT ![p] = 0] /\ left' = [left EXCEPT ![p] = 0]
          /\ UNCHANGED <<lock, n, pos>>
    /\ UNCHANGED <<disk, fip, off, logged, panicked>>

\* Variant: a block is handed out without being marked.
Marked_not(new) == free

\* The bitmap after balloc has marked the blocks.
Marked(new) == free \ new

Direct(bn) == bn < NDIRECT

\* What is left of the block.
Room(p) == BSIZE - (pos[p] % BSIZE)

Grown(i, end) == Max({size[i], end})

\* One turn of writei's loop: bmap, which may allocate the block and the
\* indirect block, and the bytes; after the last, the size.
writei(p) ==
  LET i == ip[p]
      bn == pos[p] \div BSIZE
      m == Min({n[p], Room(p)})
      \* balloc of the indirect block comes first
      ind == IF Direct(bn) \/ indirect[i] # 0 THEN indirect[i] ELSE Min(free)
      rest == free \ {ind}
      b == IF addrs[i][bn] # 0 THEN addrs[i][bn] ELSE Min(rest)
      new == {ind, b} \cap free
      end == pos[p] + m
      last == n[p] = m IN
    /\ At(p, "block")
    /\ free' = Marked(new)
    /\ indirect' = [indirect EXCEPT ![i] = ind]
    /\ addrs' = [addrs EXCEPT ![i][bn] = b]
    /\ data' = [c \in Block |->
         IF c = b THEN [x \in 0..(BSIZE - 1) |->
                          IF pos[p] % BSIZE <= x /\ x < (pos[p] % BSIZE) + m THEN i
                          ELSE IF b \in new THEN 0 ELSE data[b][x]]
         ELSE IF c \in new THEN Zeroes ELSE data[c]]
    /\ logged' = [logged EXCEPT ![p] = @ \cup {<<"data", b>>}
         \cup (IF new # {} THEN {<<"bitmap", 0>>} \cup {<<"data", c>> : c \in new} ELSE {})
         \cup (IF ~Direct(bn) /\ b \in new THEN {<<"data", ind>>} ELSE {})
         \cup (IF last /\ end > size[i] THEN {<<"inode", i>>} ELSE {})]
    /\ n' = [n EXCEPT ![p] = @ - m] /\ pos' = [pos EXCEPT ![p] = end]
    /\ Goto(p, IF last THEN "done" ELSE "block")
    /\ size' = IF last THEN [size EXCEPT ![i] = Grown(i, end)] ELSE size
    /\ UNCHANGED <<linked, fip, off, lock, f, ip, left, panicked>>

Advanced(p) == pos[p]

\* off, iunlock and end_op: the next chunk.
chunk_done(p) ==
  /\ At(p, "done")
  /\ off' = [off EXCEPT ![f[p]] = Advanced(p)]
  /\ left' = [left EXCEPT ![p] = @ - (pos[p] - off[f[p]])]
  /\ lock' = [lock EXCEPT ![ip[p]] = NoProc]
  /\ logged' = [logged EXCEPT ![p] = {}] /\ pos' = [pos EXCEPT ![p] = 0]
  /\ Goto(p, "chunk")
  /\ UNCHANGED <<disk, fip, f, ip, n, panicked>>

-----------------------------------------------------------------------------
(* fileclose, iput and itrunc *)

\* The last close of an unlinked file goes on to itrunc.
close(p, g) ==
  LET i == fip[g] IN
    /\ At(p, "user") /\ i # 0 /\ \A q \in Process : f[q] # g
    /\ lock[i] = NoProc
    /\ fip' = [fip EXCEPT ![g] = 0] /\ off' = [off EXCEPT ![g] = 0]
    /\ IF linked[i] \/ \E h \in File \ {g} : fip[h] = i
         THEN UNCHANGED <<lock, ip, pc>>
         ELSE /\ lock' = [lock EXCEPT ![i] = p] /\ ip' = [ip EXCEPT ![p] = i]
              /\ Goto(p, "trunc")
    /\ UNCHANGED <<disk, f, left, n, pos, logged, panicked>>

Mapped(i) == {bn \in Bn : addrs[i][bn] # 0}

HasIndirect(i) == indirect[i] # 0

\* One bfree of itrunc, in its order, or its end: size 0, and iput releases
\* the inode, which is allocated again under a new name.
itrunc(p) ==
  LET i == ip[p]
      bn == Min(Mapped(i)) IN
    /\ At(p, "trunc")
    /\ IF Mapped(i) # {}
         THEN /\ panicked' = IF addrs[i][bn] \in free THEN 1 ELSE 0
              /\ free' = free \cup {addrs[i][bn]}
              /\ addrs' = [addrs EXCEPT ![i][bn] = 0]
              /\ UNCHANGED <<indirect, size, linked, lock, ip, pc>>
       ELSE IF HasIndirect(i)
         THEN /\ panicked' = IF indirect[i] \in free THEN 1 ELSE 0
              /\ free' = free \cup {indirect[i]}
              /\ indirect' = [indirect EXCEPT ![i] = 0]
              /\ UNCHANGED <<addrs, size, linked, lock, ip, pc>>
       ELSE /\ size' = [size EXCEPT ![i] = 0]
            /\ linked' = [linked EXCEPT ![i] = TRUE]
            /\ indirect' = [indirect EXCEPT ![i] = 0]
            /\ lock' = [lock EXCEPT ![i] = NoProc] /\ ip' = [ip EXCEPT ![p] = 0]
            /\ Goto(p, "user")
            /\ UNCHANGED <<free, addrs, panicked>>
    /\ UNCHANGED <<data, fip, off, f, left, n, pos, logged>>

Next ==
  \E p \in Process :
    \/ \E i \in Inum : unlink(p, i) \/ \E g \in File : open(p, g, i)
    \/ \E g \in File : close(p, g) \/ \E k \in Counts : fileread(p, g, k) \/ filewrite(p, g, k)
    \/ chunk(p) \/ writei(p) \/ chunk_done(p) \/ itrunc(p)

Spec == Init /\ [][Next]_vars

-----------------------------------------------------------------------------
(* Properties *)

\* The blocks of inode i, its indirect block among them, with their places.
Places(i) == {<<i, bn>> : bn \in Mapped(i)} \cup (IF indirect[i] # 0 THEN {<<i, MAXFILE>>} ELSE {})
BlockAt(x) == IF x[2] = MAXFILE THEN indirect[x[1]] ELSE addrs[x[1]][x[2]]

\* The bitmap is exact: a block is free, or in one place of one inode.  No
\* block is shared by two files and none is lost, whatever is being written
\* and truncated at once.
BlocksOwnedOnce ==
  \A b \in Block :
    Cardinality({x \in UNION {Places(i) : i \in Inum} : BlockAt(x) = b}) = (IF b \in free THEN 0 ELSE 1)

\* A file holds the bytes written to it, and nothing else: no zeroes of a
\* hole, no bytes of a file that had the block before or has it now.
HoldsItsBytes ==
  \A i \in Inum : lock[i] = NoProc =>
    \A x \in 0..(size[i] - 1) : addrs[i][x \div BSIZE] # 0 /\ data[addrs[i][x \div BSIZE]][x % BSIZE] = i

\* The blocks of an inode nobody has locked are those below its size; writei
\* may therefore save the addresses only when the size grows.
MappedBelowSize ==
  \A i \in Inum : lock[i] = NoProc => Mapped(i) = {bn \in Bn : bn * BSIZE < size[i]}

\* A chunk's transaction leaves two of the blocks that begin_op reserves for it
\* unused, which is what keeps log_write from its panic (OpBlocks in Log): its
\* data blocks, one more if it is not aligned, with the indirect block, the
\* inode's and the bitmap's.  The disk has one bitmap block (FSSIZE < BPB).
ChunkFitsLog == \A p \in Process : Cardinality(logged[p]) <= MAXOPBLOCKS - 2

\* "freeing free block" never happens, and a read never allocates.
NoPanic == panicked = 0

\* The disk's blocks are accounted for at every step: each is free or in one
\* place of one inode, an unlocked inode has the blocks of its size, a chunk
\* leaves room in its reservation in the log, and fs.c's panics are not reached.
\* Every file holds its own bytes.
Inv == TypeOK /\ HoldsItsBytes /\ NoPanic /\ BlocksOwnedOnce /\ MappedBelowSize /\ ChunkFitsLog
=============================================================================
