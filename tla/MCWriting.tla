------------------------------ MODULE MCWriting -------------------------------
(***************************************************************************)
(* Three calls of write_collection over two collections of two levels.     *)
(*   "one"   : the collection X, the finest level in one part of two row   *)
(*             groups;                                                     *)
(*   "split" : X again, under a part budget that cuts that level in two;   *)
(*   "other" : another collection, Y, with the same cells but one.         *)
(* Parts and row groups are what module Chunking makes of the shards.      *)
(***************************************************************************)
EXTENDS WriteProtocol, Chunking

Row(cell, bytes) == [cell |-> cell, bytes |-> bytes]

ShardsX == <<<<Row(0, 2), Row(1, 2), Row(2, 1)>>, <<Row(0, 2)>>>>
ShardsY == <<<<Row(0, 3), Row(2, 3)>>, <<Row(0, 1)>>>>

MCCollection == [one |-> "X", split |-> "X", other |-> "Y"]
MCShards     == [one |-> ShardsX, split |-> ShardsX, other |-> ShardsY]
MCPartBytes  == [one |-> 9, split |-> 4, other |-> 9]
MCGroupBytes == [one |-> 3, split |-> 9, other |-> 4]

MCCells == 0 .. 2
MCNumLevels == [c \in DOMAIN MCCollection |-> Len(MCShards[c])]
MCParts(c, l) == PlanParts(MCShards[c][l + 1], MCPartBytes[c])
MCNumParts == [c \in DOMAIN MCCollection |-> [l \in 0 .. MCNumLevels[c] - 1 |-> Len(MCParts(c, l))]]

MCRowGroups(c, p) == RowGroups(MCParts(c, p[1])[p[2] + 1], MCGroupBytes[c])
MCGroups ==
    [c \in DOMAIN MCCollection |-> [p \in PartIds(c) |->
        [g \in 0 .. Len(MCRowGroups(c, p)) - 1 |->
            {MCRowGroups(c, p)[g + 1][r].cell : r \in DOMAIN MCRowGroups(c, p)[g + 1]}]]]

\* The rows' bytes, and a footer that grows with the row groups.
MCPartSize ==
    [c \in DOMAIN MCCollection |-> [p \in PartIds(c) |->
        TotalBytes(BlobSizes(MCParts(c, p[1])[p[2] + 1])) + Len(MCRowGroups(c, p))]]

MCCatalogKeys ==
    [c \in DOMAIN MCCollection |->
        {<<l, MCShards[c][l + 1][r].cell>> : <<l, r>> \in
            {<<k, i>> \in (0 .. MCNumLevels[c] - 1) \X (1 .. 3) : i \in DOMAIN MCShards[c][k + 1]}}]

WriterSymmetry == Permutations(Writers)
=============================================================================
