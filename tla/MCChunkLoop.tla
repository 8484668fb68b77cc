----------------------------- MODULE MCChunkLoop ------------------------------
(***************************************************************************)
(* The chunking loop over every list of at most five rows of 0 to 3 bytes  *)
(* and every budget from -1 to 6, and what the writer does with its runs.  *)
(***************************************************************************)
EXTENDS ChunkPlan

MCInputs == BoundedSeq(0 .. 3, 5)
MCBudgets == -1 .. 6
=============================================================================
