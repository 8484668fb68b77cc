------------------------------- MODULE Chunking -------------------------------
(***************************************************************************)
(* How maille cuts a level's rows into parts, and a part into row groups.  *)
(*                                                                         *)
(* A shard is the sequence of one level's rows in Morton order; a row is   *)
(* [cell, bytes], its cell and the geometry bytes it carries.  A run       *)
(* <<start, count>> is a slice of consecutive rows, start counted from 0   *)
(* as in the code.                                                         *)
(***************************************************************************)
EXTENDS Integers, Sequences, SequencesExt

\* frames.blob_sizes: the bytes of positions and indices of every row.
BlobSizes(shard) == [row \in DOMAIN shard |-> shard[row].bytes]

TotalBytes(sizes) == FoldLeft(LAMBDA total, size : total + size, 0, sizes)

-----------------------------------------------------------------------------
(* frames.plan_byte_chunks: one pass over the rows.  A run is closed in    *)
(* front of the row that would take it past the budget, provided the run   *)
(* already carries a byte; the last run is closed after the loop.          *)

Closes(running, size, budget) == running # 0 /\ running + size > budget

ScanRow(acc, size, budget) ==
    IF Closes(acc.running, size, budget)
    THEN [row |-> acc.row + 1, start |-> acc.row, running |-> size,
          chunks |-> Append(acc.chunks, <<acc.start, acc.row - acc.start>>)]
    ELSE [row |-> acc.row + 1, start |-> acc.start, running |-> acc.running + size,
          chunks |-> acc.chunks]

PlanByteChunks(sizes, budget) ==
    LET scan == FoldLeft(LAMBDA acc, size : ScanRow(acc, size, budget),
                         [row |-> 0, start |-> 0, running |-> 0, chunks |-> <<>>],
                         sizes)
    IN  Append(scan.chunks, <<scan.start, Len(sizes) - scan.start>>)

Slice(rows, run) == SubSeq(rows, run[1] + 1, run[1] + run[2])

-----------------------------------------------------------------------------
\* writer._plan_parts: a level that is empty or fits is one part.
PlanParts(shard, maxPartBytes) ==
    LET sizes == BlobSizes(shard)
        runs  == PlanByteChunks(sizes, maxPartBytes)
    IN  IF shard = <<>> \/ TotalBytes(sizes) <= maxPartBytes
        THEN <<shard>>
        ELSE [i \in DOMAIN runs |-> Slice(shard, runs[i])]

\* frames.table_to_chunked_parquet: the row groups one part is written as.
RowGroups(part, rowGroupBytes) ==
    LET runs == PlanByteChunks(BlobSizes(part), rowGroupBytes)
    IN  [i \in DOMAIN runs |-> Slice(part, runs[i])]

\* A faulty Locate: row groups counted from 1.
LocateFromOne(part, number, rowGroupBytes) ==
    LET runs  == PlanByteChunks(BlobSizes(part), rowGroupBytes)
        group(row) == CHOOSE g \in DOMAIN runs :
                          row \in runs[g][1] + 1 .. runs[g][1] + runs[g][2]
    IN  [cell \in {part[row].cell : row \in DOMAIN part} |->
            LET row == CHOOSE i \in DOMAIN part : part[i].cell = cell
            IN  <<number, group(row), part[row].bytes>>]

\* writer._locate: where each cell of a written part was put, part and row group from 0.
Locate(part, number, rowGroupBytes) ==
    LET runs  == PlanByteChunks(BlobSizes(part), rowGroupBytes)
        group(row) == CHOOSE g \in DOMAIN runs :
                          row \in runs[g][1] + 1 .. runs[g][1] + runs[g][2]
    IN  [cell \in {part[row].cell : row \in DOMAIN part} |->
            LET row == CHOOSE i \in DOMAIN part :
                           /\ part[i].cell = cell
                           /\ \A j \in DOMAIN part : part[j].cell = cell => j <= i
            IN  <<number, group(row) - 1, part[row].bytes>>]
=============================================================================
