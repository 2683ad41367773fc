----------------------------- MODULE MCExt2Read -----------------------------
(* Sectors of two bytes, two to a block, one direct block and two numbers   *)
(* in an indirect block.                                                    *)
EXTENDS Ext2Read, TLC

\* fLong: all kinds of blocks, neighbours and not, a hole and an odd end.
\* fHole: a hole at the end.  fCut: the last block is outside the partition.
\* fHuge: one block too many.  fBad, fLost: indirect blocks outside the
\* partition.  fNone: an empty file.  fTwice: one block twice in succession.
fLong == [dir |-> (0 :> 4), ind |-> 2, dbl |-> 3, size |-> 23]
fHole == [dir |-> (0 :> 9), ind |-> 10, dbl |-> 0, size |-> 11]
fCut  == [dir |-> (0 :> 11), ind |-> 14, dbl |-> 0, size |-> 12]
fHuge == [dir |-> (0 :> 4), ind |-> 2, dbl |-> 3, size |-> 32]

fBad  == [dir |-> (0 :> 4), ind |-> 17, dbl |-> 6, size |-> 24]
fLost == [dir |-> (0 :> 9), ind |-> 2, dbl |-> 18, size |-> 24]

fNone == [dir |-> (0 :> 0), ind |-> 0, dbl |-> 0, size |-> 0]
fTwice == [dir |-> (0 :> 5), ind |-> 2, dbl |-> 0, size |-> 8]

MCFiles == {fLong, fHole, fCut, fHuge, fBad, fLost, fNone, fTwice}

MCTable == [b \in 0 .. 15 |->
    CASE b = 2  -> (0 :> 5) @@ (1 :> 7)
      [] b = 3  -> (0 :> 12) @@ (1 :> 13)
      [] b = 6  -> (0 :> 16) @@ (1 :> 4)
      [] b = 10 -> (0 :> 8) @@ (1 :> 0)
      [] b = 12 -> (0 :> 8) @@ (1 :> 0)
      [] b = 13 -> (0 :> 15) @@ (1 :> 6)
      [] b = 14 -> (0 :> 15) @@ (1 :> 16)
      [] OTHER  -> (0 :> 1) @@ (1 :> 1)]

\* Whole files, beginnings, and small reads at any place.
Starts == [file: MCFiles, pos: {0}, len: {1, 6, 32}]
Inner == {r \in [file: MCFiles, pos: {1, 3, 5, 11, 18}, len: {2, 5, 8}] :
             r.pos + r.len <= r.file.size}
MCRequests == Starts \union Inner
=============================================================================
