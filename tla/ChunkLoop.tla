------------------------------ MODULE ChunkLoop -------------------------------
(***************************************************************************)
(* frames.plan_byte_chunks as the loop it is: rows are numbered from 0,    *)
(* a run <<start, count>> holds the rows start .. start + count - 1.       *)
(*                                                                         *)
(* The writer uses it at two scales, a level into parts and a part into    *)
(* row groups, so what a run may hold is what a fetch costs, and a row in  *)
(* no run is a cell that was never written.                                *)
(***************************************************************************)
EXTENDS Integers, Sequences

CONSTANTS Inputs,   \* the lists of blob sizes the loop may be given
          Budgets   \* the budgets it may be given; nothing bounds them from below

ASSUME InputsAssumption == Inputs \subseteq Seq(Nat)
ASSUME BudgetsAssumption == Budgets \subseteq Int

VARIABLES sizes, budget,   \* the two arguments
          row,             \* rows already passed over
          start, running,  \* where the open run starts, and the bytes it carries
          chunks,          \* the runs closed so far
          offset,          \* history: offset[i] is the bytes of rows 0 .. i - 1
          returned

vars == <<sizes, budget, row, start, running, chunks, offset, returned>>

Size(i) == sizes[i + 1]

Init ==
    /\ sizes \in Inputs
    /\ budget \in Budgets
    /\ row = 0
    /\ start = 0
    /\ running = 0
    /\ chunks = <<>>
    /\ offset = [i \in {0} |-> 0]
    /\ returned = FALSE

\* `if not sizes: return [(0, 0)]` -- an empty shard is still one run.
ReturnEmpty ==
    /\ ~returned
    /\ Len(sizes) = 0
    /\ chunks' = <<<<0, 0>>>>
    /\ returned' = TRUE
    /\ UNCHANGED <<sizes, budget, row, start, running, offset>>

\* Faulty tests: one that looks at the run without the row, one off by a byte, and one that
\* does not ask whether the run carries anything.
NoRoomLate == running # 0 /\ running > budget
NoRoomTight == running # 0 /\ running + Size(row) >= budget
NoRoomEmpty == running + Size(row) > budget

\* The test in the loop: an open run carrying bytes, and a row it has no room for.
NoRoom == running # 0 /\ running + Size(row) > budget

Pass ==
    /\ row' = row + 1
    /\ offset' = [i \in 0 .. row + 1 |-> IF i <= row THEN offset[i] ELSE offset[row] + Size(row)]
    /\ UNCHANGED <<sizes, budget, returned>>

\* The row joins the open run.
Extend ==
    /\ row < Len(sizes)
    /\ ~NoRoom
    /\ running' = running + Size(row)
    /\ UNCHANGED <<start, chunks>>
    /\ Pass

\* Faulty cuts: a length the wrong way round, and a run that starts after the row.
CutBackwards ==
    /\ row < Len(sizes)
    /\ NoRoom
    /\ chunks' = Append(chunks, <<start, start - row>>)
    /\ start' = row
    /\ running' = Size(row)
    /\ Pass

CutSkippingRow ==
    /\ row < Len(sizes)
    /\ NoRoom
    /\ chunks' = Append(chunks, <<start, row - start>>)
    /\ start' = row + 1
    /\ running' = Size(row)
    /\ Pass

\* The run is closed in front of the row, which opens the next one.
Cut ==
    /\ row < Len(sizes)
    /\ NoRoom
    /\ chunks' = Append(chunks, <<start, row - start>>)
    /\ start' = row
    /\ running' = Size(row)
    /\ Pass

\* After the loop the open run is closed, whatever it holds.
Finish ==
    /\ ~returned
    /\ row = Len(sizes)
    /\ Len(sizes) # 0
    /\ chunks' = Append(chunks, <<start, Len(sizes) - start>>)
    /\ returned' = TRUE
    /\ UNCHANGED <<sizes, budget, row, start, running, offset>>

Next == ReturnEmpty \/ Extend \/ Cut \/ Finish

Spec == Init /\ [][Next]_vars

-----------------------------------------------------------------------------
Run == Nat \X Nat

\* Every variable of the loop has its type; the history covers the rows passed over.
TypeOK ==
    /\ sizes \in Seq(Nat)
    /\ budget \in Int
    /\ row \in 0 .. Len(sizes)
    /\ start \in 0 .. row
    /\ running \in Nat
    /\ chunks \in Seq(Run)
    /\ offset \in [0 .. row -> Nat]
    /\ returned \in BOOLEAN

EndOf(run) == run[1] + run[2]
Bytes(run) == offset[EndOf(run)] - offset[run[1]]

\* The runs start at row 0, follow one another without a gap or an overlap, none is empty
\* (but the one of an empty shard), and when the loop returns the last one ends at the
\* last row: every row is in exactly one run, so every cell of a level is written, and written once (frames.plan_byte_chunks, and
\* writer._locate, which enumerates the runs to say where each cell went).
RunsPartitionRows ==
    /\ \A i \in 1 .. Len(chunks) :
          /\ chunks[i][1] = IF i = 1 THEN 0 ELSE EndOf(chunks[i - 1])
          /\ chunks[i][2] = 0 => Len(sizes) = 0
    /\ returned => Len(chunks) > 0 /\ EndOf(chunks[Len(chunks)]) = Len(sizes)

\* A run over budget has only one row that carries any bytes: "a single row larger than
\* the budget still goes in a run of its own rather than being split".  Rows of no bytes may
\* share its run, because the test asks whether the open run carries a byte, not a row.
OverBudgetIsOneRow ==
    \A i \in 1 .. Len(chunks) :
        Bytes(chunks[i]) > budget =>
            \A j, k \in chunks[i][1] .. EndOf(chunks[i]) - 1 :
                Size(j) > 0 /\ Size(k) > 0 => j = k

\* No run is closed early: with the first row of the run after it, it would not fit.  A cut
\* too many is a fetch too many for every reader of the part, and a longer footer.
NoNeedlessCut ==
    \A i \in 1 .. Len(chunks) - 1 :
        LET next == EndOf(chunks[i])
        IN  Bytes(chunks[i]) > 0 /\ Bytes(chunks[i]) + Size(next) > budget
=============================================================================
