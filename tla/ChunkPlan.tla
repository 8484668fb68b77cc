------------------------------ MODULE ChunkPlan -------------------------------
(***************************************************************************)
(* The chunking loop against the operators the write protocol is checked   *)
(* with: that PlanByteChunks is what the loop returns, and what the writer *)
(* makes of runs, of one level's rows and of each part's.                  *)
(***************************************************************************)
EXTENDS ChunkLoop, Chunking

\* One level's shard whose rows have these sizes; the i-th row is cell i.
Shard == [i \in DOMAIN sizes |-> [cell |-> i, bytes |-> sizes[i]]]

Parts(maxPartBytes) == PlanParts(Shard, maxPartBytes)

\* The operator the write protocol is instantiated with computes what the loop returns.
LoopIsPlan == returned => chunks = PlanByteChunks(sizes, budget)

\* Cut a level into parts by one budget and each part into row groups by another: every
\* cell's locator (writer._locate) names a part and a row group that hold that very cell,
\* and no cell of the level is without one (writer.write_collection, the loop over parts).
LocatorsFindTheirCell ==
    returned => \A rowGroupBytes \in Budgets :
        \A i \in DOMAIN Shard :
            \E n \in DOMAIN Parts(budget) :
                LET part    == Parts(budget)[n]
                    located == Locate(part, n - 1, rowGroupBytes)
                    groups  == RowGroups(part, rowGroupBytes)
                IN  /\ i \in DOMAIN located
                    /\ located[i][1] = n - 1
                    /\ located[i][3] = sizes[i]
                    /\ located[i][2] + 1 \in DOMAIN groups
                    /\ \E r \in DOMAIN groups[located[i][2] + 1] :
                           groups[located[i][2] + 1][r].cell = i
=============================================================================
