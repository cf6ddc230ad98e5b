----------------------------- MODULE MCFileData -----------------------------
(***************************************************************************)
(* Two instances of FileData on the same state; part says which of them a   *)
(* behaviour is about.  "small" has several files of few bytes, which take  *)
(* each other's blocks.  "large" has one file with blocks of two bytes,     *)
(* written at odd offsets by processes that may share the offset, in chunks *)
(* of several blocks: what file.c counts the blocks of a transaction for.   *)
(***************************************************************************)
EXTENDS FileData, TLC

VARIABLE part

Large ==
  INSTANCE FileData WITH NINODES <- 1, NBLOCKS <- 5, BSIZE <- 2, NDIRECT <- 1, NINDIRECT <- 3,
    MAXOPBLOCKS <- 8, Counts <- {1, 7}

MCInit ==
  /\ part \in {"small", "large"}
  /\ IF part = "small" THEN Init ELSE Large!Init

MCNext ==
  /\ UNCHANGED part
  /\ \/ part = "small" /\ Next
     \/ part = "large" /\ Large!Next

MCSpec == MCInit /\ [][MCNext]_<<part, vars>>

Symmetry == Permutations(Process)

\* Blocks and bytes are accounted for (balloc, bmap, writei, itrunc), and a chunk
\* of filewrite leaves two of the blocks that begin_op reserves unused, also when
\* it begins and ends in the middle of a block.
BlocksAccounted == IF part = "small" THEN Inv ELSE Large!Inv
=============================================================================
