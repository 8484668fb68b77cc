------------------------------ MODULE Verify_proofs -----------------------------
(***************************************************************************)
(* Of a collection that is written: what the rows, the offsets and the     *)
(* locators are made of, and that what is written reads back (Build); how  *)
(* far decimation moves a vertex, that the verifier accepts what is        *)
(* written, and that it rejects what was tampered with (Verify).           *)
(***************************************************************************)
EXTENDS Build_proofs

-----------------------------------------------------------------------------
(* What lists are cut into: parts, and row groups (frames.plan_byte_chunks). *)

Loop == INSTANCE ChunkLoop_proofs WITH
    Inputs <- {}, Budgets <- {}, sizes <- <<>>, budget <- 0, row <- 0, start <- 0, running <- 0,
    chunks <- <<>>, offset <- <<>>, returned <- FALSE

\* Every place of a list of sizes is in a run of its plan, and no run goes past the last.
LEMMA RunsHold ==
    ASSUME NEW list \in Seq(Nat), NEW b \in Int, NEW runs, runs = Chunks!PlanByteChunks(list, b)
    PROVE  /\ runs \in Seq(Nat \X Nat) /\ runs # <<>>
           /\ \A j \in 1 .. Len(list) :
                 \E g \in DOMAIN runs : j \in runs[g][1] + 1 .. runs[g][1] + runs[g][2]
           /\ \A g \in DOMAIN runs : runs[g][1] + runs[g][2] <= Len(list)
<1>1. runs = Loop!PlanByteChunks(list, b)
  BY Zenon DEF Chunks!PlanByteChunks, Loop!PlanByteChunks, Chunks!ScanRow, Loop!ScanRow, Chunks!Closes, Loop!Closes,
         Chunks!FoldLeft, Loop!FoldLeft, Chunks!MapThenFoldSet, Loop!MapThenFoldSet, Chunks!Max, Loop!Max
<1> QED
  BY <1>1, Loop!RunsHoldPlaces, Zenon DEF Loop!Run

\* What a list is cut into: sequences of its members, which hold all of them.
Divides(pieces, list, R) ==
    /\ Len(pieces) \in Nat \ {0} /\ DOMAIN pieces = 1 .. Len(pieces)
    /\ \A g \in DOMAIN pieces : pieces[g] \in Seq(R)
    /\ \A j \in DOMAIN list : \E g \in DOMAIN pieces : \E i \in DOMAIN pieces[g] : pieces[g][i] = list[j]

\* Rows carry bytes.
Weighted(R) == \A x \in R : x.bytes \in Nat

\* The sizes that a plan is made of.
LEMMA SizesListed ==
    ASSUME NEW R, Weighted(R), NEW rows \in Seq(R)
    PROVE  Chunks!BlobSizes(rows) \in Seq(Nat) /\ Len(Chunks!BlobSizes(rows)) = Len(rows)
<1>1. PICK n \in Nat : Len(rows) = n /\ DOMAIN rows = 1 .. n /\ \A i \in 1 .. n : rows[i] \in R
  OBVIOUS
<1>2. \A i \in 1 .. n : rows[i].bytes \in Nat
  BY <1>1 DEF Weighted
<1>3. Chunks!BlobSizes(rows) = [i \in 1 .. n |-> rows[i].bytes]
  BY <1>1 DEF Chunks!BlobSizes
<1>4. Chunks!BlobSizes(rows) \in [1 .. n -> Nat]
  BY <1>2, <1>3
<1> QED
  BY <1>1, <1>4

\* The slices of a plan.
LEMMA SlicesDivide ==
    ASSUME NEW R, Weighted(R), NEW rows \in Seq(R), NEW b \in Int,
           NEW runs, runs = Chunks!PlanByteChunks(Chunks!BlobSizes(rows), b)
    PROVE  /\ Divides([g \in DOMAIN runs |-> Chunks!Slice(rows, runs[g])], rows, R)
           /\ DOMAIN runs = 1 .. Len(runs) /\ Len(runs) \in Nat
           /\ \A j \in DOMAIN rows : \A g \in DOMAIN runs :
                 j \in runs[g][1] + 1 .. runs[g][1] + runs[g][2] =>
                    \E i \in DOMAIN Chunks!Slice(rows, runs[g]) : Chunks!Slice(rows, runs[g])[i] = rows[j]
           /\ \A j \in DOMAIN rows :
                 \E g \in DOMAIN runs : j \in runs[g][1] + 1 .. runs[g][1] + runs[g][2]
<1> DEFINE slice(g) == Chunks!Slice(rows, runs[g])
           pieces == [g \in DOMAIN runs |-> slice(g)]
<1>1. Chunks!BlobSizes(rows) \in Seq(Nat) /\ Len(Chunks!BlobSizes(rows)) = Len(rows)
  BY SizesListed
<1>2. Len(rows) \in Nat /\ DOMAIN rows = 1 .. Len(rows)
  OBVIOUS
<1>3. /\ runs \in Seq(Nat \X Nat) /\ runs # <<>>
      /\ \A j \in DOMAIN rows :
            \E g \in DOMAIN runs : j \in runs[g][1] + 1 .. runs[g][1] + runs[g][2]
      /\ \A g \in DOMAIN runs : runs[g][1] + runs[g][2] <= Len(rows)
  BY <1>1, <1>2, RunsHold
<1>4. Len(runs) \in Nat \ {0} /\ DOMAIN runs = 1 .. Len(runs)
  BY <1>3
<1>5. ASSUME NEW g \in DOMAIN runs
      PROVE  /\ slice(g) \in Seq(R) /\ DOMAIN slice(g) = 1 .. runs[g][2]
             /\ \A i \in 1 .. runs[g][2] : slice(g)[i] = rows[runs[g][1] + i]
             /\ runs[g][1] \in Nat /\ runs[g][2] \in Nat
  <2>1. runs[g][1] \in Nat /\ runs[g][2] \in Nat /\ runs[g][1] + runs[g][2] <= Len(rows)
    BY <1>3
  <2>2. slice(g) = SubSeq(rows, runs[g][1] + 1, runs[g][1] + runs[g][2])
    BY DEF Chunks!Slice
  <2> HIDE DEF slice
  <2> DEFINE from == runs[g][1]
             count == runs[g][2]
  <2>3. /\ from \in Nat /\ count \in Nat /\ from + count <= Len(rows)
        /\ slice(g) = SubSeq(rows, from + 1, from + count)
    BY <2>1, <2>2
  <2> HIDE DEF from, count
  <2>4. slice(g) \in Seq(R) /\ Len(slice(g)) = count /\ DOMAIN slice(g) = 1 .. count
    BY <1>2, <2>3
  <2>5. \A i \in 1 .. count : slice(g)[i] = rows[from + i]
    BY <1>2, <2>3
  <2> QED BY <2>1, <2>3, <2>4, <2>5 DEF from, count
<1> HIDE DEF slice
<1>6. ASSUME NEW j \in DOMAIN rows, NEW g \in DOMAIN runs, j \in runs[g][1] + 1 .. runs[g][1] + runs[g][2]
      PROVE  \E i \in DOMAIN slice(g) : slice(g)[i] = rows[j]
  <2> DEFINE i == j - runs[g][1]
  <2>1. i \in 1 .. runs[g][2] /\ runs[g][1] + i = j
    BY <1>2, <1>5, <1>6
  <2> HIDE DEF i
  <2> QED BY <1>5, <2>1
<1>7. DOMAIN pieces = DOMAIN runs /\ Len(pieces) = Len(runs) /\ \A g \in DOMAIN runs : pieces[g] = slice(g)
  BY <1>4
<1> HIDE DEF pieces
<1>8. Divides(pieces, rows, R)
  <2>1. Len(pieces) \in Nat \ {0} /\ DOMAIN pieces = 1 .. Len(pieces)
    BY <1>4, <1>7
  <2>2. \A g \in DOMAIN pieces : pieces[g] \in Seq(R)
    BY <1>5, <1>7
  <2>3. \A j \in DOMAIN rows : \E g \in DOMAIN pieces : \E i \in DOMAIN pieces[g] : pieces[g][i] = rows[j]
    BY <1>3, <1>6, <1>7
  <2> QED BY <2>1, <2>2, <2>3 DEF Divides
<1> QED
  BY <1>3, <1>4, <1>6, <1>8 DEF pieces, slice

\* writer._plan_parts and the row groups of a part.
LEMMA PartsDivide ==
    ASSUME NEW R, Weighted(R), NEW shard \in Seq(R), NEW b \in Int
    PROVE  Divides(Chunks!PlanParts(shard, b), shard, R)
<1> DEFINE parts == Chunks!PlanParts(shard, b)
           runs == Chunks!PlanByteChunks(Chunks!BlobSizes(shard), b)
<1>1. CASE parts = <<shard>>
  <2>1. Len(parts) = 1 /\ DOMAIN parts = {1} /\ parts[1] = shard /\ 1 .. 1 = {1}
    BY <1>1
  <2> HIDE DEF parts
  <2> QED BY <2>1 DEF Divides, parts
<1>2. CASE parts = [g \in DOMAIN runs |-> Chunks!Slice(shard, runs[g])]
  <2> HIDE DEF parts, runs
  <2>1. Divides([g \in DOMAIN runs |-> Chunks!Slice(shard, runs[g])], shard, R)
    BY SlicesDivide DEF runs
  <2> QED BY <1>2, <2>1 DEF parts
<1> QED
  BY <1>1, <1>2 DEF Chunks!PlanParts

\* Row groups divide a part.
LEMMA GroupsDivide ==
    ASSUME NEW R, Weighted(R), NEW part \in Seq(R), NEW b \in Int
    PROVE  Divides(Chunks!RowGroups(part, b), part, R)
<1> DEFINE runs == Chunks!PlanByteChunks(Chunks!BlobSizes(part), b)
<1>1. Chunks!RowGroups(part, b) = [g \in DOMAIN runs |-> Chunks!Slice(part, runs[g])]
  BY DEF Chunks!RowGroups
<1> HIDE DEF runs
<1>2. Divides([g \in DOMAIN runs |-> Chunks!Slice(part, runs[g])], part, R)
  BY SlicesDivide DEF runs
<1> QED BY <1>1, <1>2

\* A locator's row group, which holds a row of the cell; several rows of one cell would be no harm.
LEMMA LocatorFinds ==
    ASSUME NEW R, Weighted(R), NEW part \in Seq(R), NEW number, NEW b \in Int, NEW cell,
           \E i \in DOMAIN part : part[i].cell = cell
    PROVE  LET where == Chunks!Locate(part, number, b)[cell]
           IN  /\ where[1] = number
               /\ where[2] \in Nat /\ where[2] + 1 \in DOMAIN Chunks!RowGroups(part, b)
               /\ \E r \in DOMAIN Chunks!RowGroups(part, b)[where[2] + 1] :
                     Chunks!RowGroups(part, b)[where[2] + 1][r].cell = cell
<1> DEFINE runs == Chunks!PlanByteChunks(Chunks!BlobSizes(part), b)
           group(r) == CHOOSE g \in DOMAIN runs : r \in runs[g][1] + 1 .. runs[g][1] + runs[g][2]
           seat(c) == CHOOSE i \in DOMAIN part : /\ part[i].cell = c
                                                  /\ \A k \in DOMAIN part : part[k].cell = c => k <= i
           all == {i \in DOMAIN part : part[i].cell = cell}
           j == seat(cell)
           where == Chunks!Locate(part, number, b)[cell]
<1>1. j \in DOMAIN part /\ part[j].cell = cell
  <2>1. Len(part) \in Nat /\ DOMAIN part = 1 .. Len(part)
    OBVIOUS
  <2>2. all \in SUBSET Int /\ IsFiniteSet(all) /\ all # {}
    <3>1. all \in SUBSET DOMAIN part
      OBVIOUS
    <3>2. all # {}
      OBVIOUS
    <3> HIDE DEF all
    <3> QED BY <2>1, <3>1, <3>2, PlacesFinite
  <2>3. Max(all) \in all /\ \A y \in all : y <= Max(all)
    <3> HIDE DEF all
    <3> QED BY <2>2, MaxMember
  <2> QED BY <2>3
<1>2. Chunks!Locate(part, number, b) = [c \in {part[i].cell : i \in DOMAIN part} |->
                                           <<number, group(seat(c)) - 1, part[seat(c)].bytes>>]
  BY DEF Chunks!Locate
<1>3. Chunks!RowGroups(part, b) = [g \in DOMAIN runs |-> Chunks!Slice(part, runs[g])]
  BY DEF Chunks!RowGroups
<1>0. runs = Chunks!PlanByteChunks(Chunks!BlobSizes(part), b)
  OBVIOUS
<1> HIDE DEF runs
<1>4. /\ Divides([g \in DOMAIN runs |-> Chunks!Slice(part, runs[g])], part, R)
      /\ DOMAIN runs = 1 .. Len(runs) /\ Len(runs) \in Nat
      /\ \A k \in DOMAIN part : \A g \in DOMAIN runs :
            k \in runs[g][1] + 1 .. runs[g][1] + runs[g][2] =>
               \E i \in DOMAIN Chunks!Slice(part, runs[g]) : Chunks!Slice(part, runs[g])[i] = part[k]
      /\ \A k \in DOMAIN part :
            \E g \in DOMAIN runs : k \in runs[g][1] + 1 .. runs[g][1] + runs[g][2]
  BY <1>0, SlicesDivide
<1>5. /\ group(j) \in DOMAIN runs
      /\ j \in runs[group(j)][1] + 1 .. runs[group(j)][1] + runs[group(j)][2]
  BY <1>1, <1>4
<1> HIDE DEF group, seat
<1>6. where = <<number, group(j) - 1, part[j].bytes>>
  BY <1>1, <1>2
<1> HIDE DEF j
<1>7. PICK r \in DOMAIN Chunks!Slice(part, runs[group(j)]) : Chunks!Slice(part, runs[group(j)])[r] = part[j]
  BY <1>1, <1>4, <1>5
<1>8. where[1] = number /\ where[2] \in Nat /\ where[2] + 1 = group(j)
  BY <1>4, <1>5, <1>6
<1> HIDE DEF where
<1> QED
  BY <1>1, <1>3, <1>5, <1>7, <1>8 DEF where

-----------------------------------------------------------------------------
(* What is on the shelves until the writer takes it. *)

\* The rows that the cells of a level are to have.
RowsAt(level) == {Row(level, key[2]) : key \in {k \in CellKeys : k[1] = level}}

\* A catalogued cell is one that holds a piece, and has its row.
OnItsShelf(key) ==
    /\ key \in CellKeys /\ "locator" \in DOMAIN cellRows[key]
    /\ \E r \in DOMAIN shards[key[1]] : shards[key[1]][r].cell = key[2]

Shelves ==
    /\ DOMAIN shards = Levels
    /\ \A level \in Levels : shards[level] \in Seq(RowsAt(level))
    /\ \A key \in DOMAIN cellRows : OnItsShelf(key)

\* The cells that hold something of an object.
HomesOf(id) == {<<key[1], key[2]>> : key \in {k \in DOMAIN perLevel : k[3] = id}}

Catalogued ==
    /\ DOMAIN cellRows = CellKeys /\ DOMAIN objectRows = Ids
    /\ \A id \in Ids : objectRows[id].cells = HomesOf(id)

Shelved ==
    /\ phase \in {"cut", "levels"} => DOMAIN cellRows = {}
    /\ phase \in {"assemble", "built", "written"} => Shelves
    /\ phase \in {"built", "written"} => Catalogued
    /\ phase = "written" /\ fault = "none" => collection = Written

\* The cell of a task.
LEMMA CellOfTask ==
    ASSUME Covered, NEW key \in CellKeys
    PROVE  /\ key[1] \in Levels /\ key = <<key[1], key[2]>> /\ phase # "cut"
           /\ \E task : /\ IsTask(task) /\ KeyOf(task) \in DOMAIN perLevel
                        /\ key[1] = task.level /\ key[2] = MortonEncode(task.triple)
<1>1. PICK k \in DOMAIN perLevel : key = <<k[1], k[2]>>
  BY DEF CellKeys
<1>2. PICK task : IsTask(task) /\ k = KeyOf(task)
  BY <1>1 DEF Covered
<1>3. phase # "cut"
  BY <1>1 DEF Covered
<1>4. task.level \in Levels
  BY <1>2, <1>3, TaskTyped
<1>5. k[1] = task.level /\ k[2] = MortonEncode(task.triple)
  BY <1>2 DEF KeyOf
<1> QED
  BY <1>1, <1>2, <1>3, <1>4, <1>5

\* What the rows are made of does not change after the levels.
LEMMA RowsStay ==
    ASSUME UNCHANGED <<input, perLevel>>
    PROVE  /\ Levels' = Levels /\ Ids' = Ids /\ CellKeys' = CellKeys
           /\ \A level : RowsAt(level)' = RowsAt(level)
           /\ \A id : HomesOf(id)' = HomesOf(id)
<1>1. Levels' = Levels /\ Ids' = Ids /\ CellKeys' = CellKeys
  BY DEF Levels, Ids, CellKeys
<1>2. \A level, cell : IdsIn(level, cell)' = IdsIn(level, cell)
  BY <1>1 DEF IdsIn
<1>3. \A level, cell : PiecesIn(level, cell)' = PiecesIn(level, cell)
  BY <1>2 DEF PiecesIn
<1>4. \A level, cell : Row(level, cell)' = Row(level, cell)
  BY <1>1, <1>2, <1>3, ZenonT(60) DEF Row
<1>5. \A level : RowsAt(level)' = RowsAt(level)
  BY <1>1, <1>4 DEF RowsAt
<1>6. \A id : HomesOf(id)' = HomesOf(id)
  BY DEF HomesOf
<1> QED
  BY <1>1, <1>5, <1>6

\* What is on the shelves stays there.
LEMMA ShelvesStay ==
    ASSUME Shelves, UNCHANGED <<input, perLevel, shards, cellRows>>
    PROVE  Shelves'
<1>1. Levels' = Levels /\ CellKeys' = CellKeys /\ \A level : RowsAt(level)' = RowsAt(level)
  BY RowsStay
<1>2. \A key : OnItsShelf(key)' = OnItsShelf(key)
  BY <1>1 DEF OnItsShelf
<1> QED
  BY <1>1, <1>2 DEF Shelves

\* Assembling a cell puts its row on its shelf, and its homes in the catalog.
LEMMA AssembledShelves ==
    ASSUME Covered, Shelves, NEW key \in CellKeys, AssembleCell(key[1], key[2])
    PROVE  Shelves'
<1> DEFINE row == Row(key[1], key[2])
           entry == CellRow(key[1], key[2])
           rows == shards[key[1]]
<1>1. /\ shards' = [shards EXCEPT ![key[1]] = Append(@, row)]
      /\ cellRows' = Put(cellRows, <<key[1], key[2]>>, entry)
      /\ UNCHANGED <<input, perLevel>>
  BY DEF AssembleCell
<1>2. Levels' = Levels /\ CellKeys' = CellKeys /\ \A level : RowsAt(level)' = RowsAt(level)
  BY <1>1, RowsStay
<1>3. key[1] \in Levels /\ key = <<key[1], key[2]>>
  BY CellOfTask
<1>4. row \in RowsAt(key[1]) /\ row.cell = key[2] /\ "locator" \in DOMAIN entry
  <2>1. row \in RowsAt(key[1])
    BY DEF RowsAt
  <2>2. row.cell = key[2]
    BY DEF Row
  <2>3. "locator" \in DOMAIN entry
    BY DEF CellRow
  <2> QED BY <2>1, <2>2, <2>3
<1>5. rows \in Seq(RowsAt(key[1]))
  BY <1>3 DEF Shelves
<1> HIDE DEF row, entry
<1>6. /\ Append(rows, row) \in Seq(RowsAt(key[1]))
      /\ \A r \in DOMAIN rows : r \in DOMAIN Append(rows, row) /\ Append(rows, row)[r] = rows[r]
      /\ \E r \in DOMAIN Append(rows, row) : Append(rows, row)[r] = row
  <2> HIDE DEF rows
  <2>1. PICK S : S = RowsAt(key[1])
    OBVIOUS
  <2>2. rows \in Seq(S) /\ row \in S /\ Len(rows) \in Nat
    BY <1>4, <1>5, <2>1
  <2>3. Append(rows, row) \in Seq(S) /\ DOMAIN Append(rows, row) = 1 .. Len(rows) + 1 /\ DOMAIN rows = 1 .. Len(rows)
    BY <2>2
  <2>4. Append(rows, row)[Len(rows) + 1] = row /\ \A r \in 1 .. Len(rows) : Append(rows, row)[r] = rows[r]
    BY <2>2
  <2>5. Len(rows) + 1 \in 1 .. Len(rows) + 1 /\ \A r \in 1 .. Len(rows) : r \in 1 .. Len(rows) + 1
    BY <2>2
  <2> QED BY <2>1, <2>3, <2>4, <2>5
<1>7. /\ DOMAIN shards' = Levels /\ shards'[key[1]] = Append(rows, row)
      /\ \A level \in Levels : level # key[1] => shards'[level] = shards[level]
  <2>1. DOMAIN shards = Levels
    BY DEF Shelves
  <2> QED BY <1>1, <1>3, <2>1
<1> HIDE DEF rows
<1>8. ASSUME NEW level \in Levels PROVE shards'[level] \in Seq(RowsAt(level))
  BY <1>6, <1>7, <1>8 DEF Shelves
<1>9. /\ DOMAIN cellRows' = DOMAIN cellRows \cup {key} /\ cellRows'[key] = entry
      /\ \A k \in DOMAIN cellRows : k # key => cellRows'[k] = cellRows[k]
  BY <1>1, <1>3 DEF Put
<1>10. ASSUME NEW k \in DOMAIN cellRows' PROVE OnItsShelf(k)'
  <2>1. CASE k = key
    <3>1. \E r \in DOMAIN shards'[key[1]] : shards'[key[1]][r].cell = key[2]
      BY <1>4, <1>6, <1>7
    <3> QED BY <1>2, <1>4, <1>9, <2>1, <3>1 DEF OnItsShelf
  <2>2. CASE k # key
    <3>1. k \in DOMAIN cellRows /\ OnItsShelf(k) /\ cellRows'[k] = cellRows[k]
      BY <1>9, <2>2 DEF Shelves
    <3>2. k[1] \in Levels
      BY <3>1, CellOfTask DEF OnItsShelf
    <3>3. PICK r \in DOMAIN shards[k[1]] : shards[k[1]][r].cell = k[2]
      BY <3>1 DEF OnItsShelf
    <3>4. r \in DOMAIN shards'[k[1]] /\ shards'[k[1]][r] = shards[k[1]][r]
      <4>1. CASE k[1] = key[1]
        BY <1>6, <1>7, <3>3, <4>1 DEF rows
      <4>2. CASE k[1] # key[1]
        BY <1>7, <3>2, <3>3, <4>2
      <4> QED BY <4>1, <4>2
    <3> QED BY <1>2, <3>1, <3>3, <3>4 DEF OnItsShelf
  <2> QED BY <2>1, <2>2
<1> QED
  BY <1>2, <1>7, <1>8, <1>10 DEF Shelves

\* The files of a level's parts.
FilesOf(level) == [p \in DOMAIN PartsOf(level) |-> PartFile(PartsOf(level)[p])]

\* What is under the prefix, of files, the two catalogs and the levels.
Shelf(levels, count, files, cells, objects) ==
    [levels |-> count,
     files |-> [level \in levels |->
                   [p \in DOMAIN files[level] |->
                       [size |-> files[level][p].size, rowGroups |-> Len(files[level][p].groups)]]],
     parts |-> [key \in UNION {{<<level, p - 1>> : p \in DOMAIN files[level]} : level \in levels} |->
                   files[key[1]][key[2] + 1]],
     cells |-> cells,
     objects |-> objects]

Files == [level \in Levels |-> [p \in DOMAIN PartsOf(level) |-> PartFile(PartsOf(level)[p])]]

LocatedRows == [key \in DOMAIN cellRows |-> [cellRows[key] EXCEPT !.locator = Located(key[1], key[2])]]

\* What the writer leaves is made of the shelves and the catalogs alone.
LEMMA WrittenIsShelf == Written = Shelf(Levels, input.levels, Files, LocatedRows, objectRows)
BY DEF Written, Shelf, Files, LocatedRows

\* What the writer is to write stays what it is.
LEMMA WrittenStays ==
    ASSUME UNCHANGED <<input, shards, cellRows, objectRows>>
    PROVE  Written' = Written
<1>1. Levels' = Levels
  BY DEF Levels
<1>2. \A level : PartsOf(level)' = PartsOf(level)
  BY Zenon DEF PartsOf
<1>3. \A level, cell : Located(level, cell)' = Located(level, cell)
  BY <1>2, Zenon DEF Located
<1>4. Files' = Files
  BY <1>1, <1>2 DEF Files, PartFile
<1>5. LocatedRows' = LocatedRows
  BY <1>3 DEF LocatedRows
<1>6. Written' = Shelf(Levels, input.levels, Files, LocatedRows, objectRows)'
  BY DEF Written, Shelf, Files, LocatedRows
<1>7. Shelf(Levels, input.levels, Files, LocatedRows, objectRows)'
        = Shelf(Levels, input.levels, Files, LocatedRows, objectRows)
  BY <1>1, <1>4, <1>5 DEF Shelf
<1> QED
  BY <1>6, <1>7, WrittenIsShelf

\* What the catalogs say stays said.
LEMMA CataloguedStays ==
    ASSUME Catalogued, UNCHANGED <<input, perLevel, cellRows, objectRows>>
    PROVE  Catalogued'
<1>1. Ids' = Ids /\ CellKeys' = CellKeys /\ \A id : HomesOf(id)' = HomesOf(id)
  BY RowsStay
<1> QED
  BY <1>1 DEF Catalogued

\* The object catalog is made of the pieces that are there.
LEMMA FinishedShelves ==
    ASSUME FinishCatalogs, Shelves
    PROVE  Shelves' /\ Catalogued'
<1>1. /\ UNCHANGED <<input, perLevel, shards, cellRows>> /\ DOMAIN cellRows = CellKeys
      /\ objectRows' = [id \in Ids |-> ObjectRow(id)]
  BY DEF FinishCatalogs
<1>2. \A id : ObjectRow(id).cells = HomesOf(id)
  BY DEF ObjectRow, HomesOf
<1>3. Ids' = Ids /\ CellKeys' = CellKeys /\ \A id : HomesOf(id)' = HomesOf(id)
  BY <1>1, RowsStay
<1>4. Catalogued'
  BY <1>1, <1>2, <1>3 DEF Catalogued
<1> QED
  BY <1>1, <1>4, ShelvesStay

\* A fault is not none.
LEMMA TamperingIsAFault ==
    ASSUME Tampering
    PROVE  /\ fault' # "none"
           /\ UNCHANGED <<input, phase, perLevel, shards, cellRows, objectRows>>
<1>1. fault' # "none"
  <2>1. CASE \E key \in Cells : TamperCell(key)
    BY <2>1 DEF TamperCell, Tamper
  <2>2. CASE LoseLevel
    BY <2>2 DEF LoseLevel, Tamper
  <2>3. CASE \E id \in DOMAIN collection.objects : TamperObject(id)
    BY <2>3 DEF TamperObject, Tamper
  <2>4. CASE \E key \in DOMAIN collection.parts : TamperPart(key)
    BY <2>4 DEF TamperPart, Tamper
  <2>5. CASE \E key \in DOMAIN collection.parts : \E g \in DOMAIN collection.parts[key].groups :
                \E r \in DOMAIN collection.parts[key].groups[g] : TamperRow(key, g, r)
    <3>1. PICK key \in DOMAIN collection.parts : \E g \in DOMAIN collection.parts[key].groups :
                \E r \in DOMAIN collection.parts[key].groups[g] : TamperRow(key, g, r)
      BY <2>5
    <3>2. PICK g \in DOMAIN collection.parts[key].groups :
                \E r \in DOMAIN collection.parts[key].groups[g] : TamperRow(key, g, r)
      BY <3>1
    <3>3. PICK r \in DOMAIN collection.parts[key].groups[g] : TamperRow(key, g, r)
      BY <3>2, Zenon
    <3>4. fault' \in {"index", "offset", "stranger", "drift"}
      BY <3>3, ZenonT(60) DEF TamperRow, Tamper
    <3> QED BY <3>4
  <2> QED BY <2>1, <2>2, <2>3, <2>4, <2>5 DEF Tampering, TamperAny
<1> QED
  BY <1>1 DEF Tampering

\* Every step of a build and of its verification keeps to that.
LEMMA ShelvedStep ==
    BuildInv /\ SeamsInv /\ Shelved /\ [VerifyNext]_verifyVars => Shelved'
<1> SUFFICES ASSUME BuildInv, SeamsInv, Shelved, [VerifyNext]_verifyVars
             PROVE  Shelved'
  OBVIOUS
<1>0. Covered /\ Answers
  BY DEF BuildInv, SeamsInv
<1>1. ASSUME phase \in {"cut", "levels"}, phase' \in {"cut", "levels"}, UNCHANGED cellRows
      PROVE  Shelved'
  BY <1>1 DEF Shelved
<1>2. ASSUME phase' = phase, UNCHANGED <<input, perLevel, shards, cellRows, objectRows>>,
             fault' # "none" \/ UNCHANGED <<collection, fault>>
      PROVE  Shelved'
  <2>1. phase \in {"assemble", "built", "written"} => Shelves'
    BY <1>2, ShelvesStay DEF Shelved
  <2>2. phase \in {"built", "written"} => Catalogued'
    BY <1>2, CataloguedStays DEF Shelved
  <2>3. phase = "written" /\ fault' = "none" => collection' = Written'
    BY <1>2, WrittenStays DEF Shelved
  <2> QED BY <1>2, <2>1, <2>2, <2>3 DEF Shelved
<1>3. CASE Cut
  BY <1>1, <1>3 DEF Cut
<1>4. ASSUME NEW task \in todo, KeepFragment(task) \/ Coarsen(task) \/ PlacePiece(task) PROVE Shelved'
  <2>1. phase = "levels"
    BY <1>0, <1>4 DEF KeepFragment, Coarsen, PlacePiece, Answers
  <2>2. phase' = phase /\ UNCHANGED cellRows
    BY <1>4 DEF KeepFragment, Coarsen, PlacePiece, buildVars
  <2> QED BY <1>1, <2>1, <2>2
<1>5. ASSUME UNCHANGED buildVars, UNCHANGED fault PROVE Shelved'
  BY <1>2, <1>5 DEF buildVars
<1>6. CASE EndLevels
  <2>1. /\ phase = "levels" /\ phase' = "assemble" /\ shards' = [level \in Levels |-> <<>>]
        /\ UNCHANGED <<input, perLevel, cellRows>>
    BY <1>6 DEF EndLevels
  <2>2. Levels' = Levels /\ DOMAIN cellRows' = {}
    BY <2>1, RowsStay DEF Shelved
  <2>3. \A S : <<>> \in Seq(S)
    OBVIOUS
  <2>4. Shelves'
    BY <2>1, <2>2, <2>3 DEF Shelves
  <2> QED BY <2>1, <2>4 DEF Shelved
<1>7. ASSUME NEW key \in CellKeys, AssembleCell(key[1], key[2]) PROVE Shelved'
  <2>1. phase = "assemble" /\ phase' = "assemble"
    BY <1>7 DEF AssembleCell
  <2>2. Shelves'
    BY <1>0, <1>7, <2>1, AssembledShelves DEF Shelved
  <2> QED BY <2>1, <2>2 DEF Shelved
<1>8. ASSUME NEW key \in CellKeys, RefuseCell(key[1], key[2]) PROVE Shelved'
  BY <1>8 DEF RefuseCell, Shelved
<1>9. CASE FinishCatalogs
  <2>1. phase = "assemble" /\ phase' = "built"
    BY <1>9 DEF FinishCatalogs
  <2>2. Shelves' /\ Catalogued'
    BY <1>9, <2>1, FinishedShelves DEF Shelved
  <2> QED BY <2>1, <2>2 DEF Shelved
<1>10. CASE Write
  <2>1. /\ phase = "built" /\ phase' = "written" /\ collection' = Written
        /\ UNCHANGED <<input, perLevel, shards, cellRows, objectRows>>
    BY <1>10 DEF Write
  <2>2. Shelves' /\ Catalogued' /\ collection' = Written'
    BY <2>1, ShelvesStay, CataloguedStays, WrittenStays DEF Shelved
  <2> QED BY <2>1, <2>2 DEF Shelved
<1>11. CASE Tampering
  BY <1>2, <1>11, TamperingIsAFault
<1>12. CASE (\E tier \in DOMAIN Tiers : Verification(tier)) \/ UNCHANGED verifyVars
  <2>1. UNCHANGED buildVars /\ UNCHANGED fault
    BY <1>12 DEF Verification, verifyVars
  <2> QED BY <1>5, <2>1
<1>13. ASSUME BuildStep, UNCHANGED fault PROVE Shelved'
  BY <1>3, <1>4, <1>5, <1>6, <1>7, <1>8, <1>9, <1>10, <1>13 DEF BuildStep
<1> QED
  BY <1>11, <1>12, <1>13 DEF VerifyNext

\* So it holds of every build.
LEMMA ShelvedHolds == VerifySpec => [](BuildInv /\ SeamsInv /\ Shelved)
<1>1. VerifyInit => Shelved
  BY DEF VerifyInit, BuildInit, Shelved, Nothing
<1>2. BuildInv /\ SeamsInv /\ Shelved /\ [VerifyNext]_verifyVars => Shelved'
  BY ShelvedStep
<1> QED BY <1>1, <1>2, SeamsHold, PTL DEF VerifySpec

-----------------------------------------------------------------------------
(* A cell read through its locator (reader.py). *)

\* The rows of a level carry bytes, and each is the row of its cell.
LEMMA RowsTyped ==
    ASSUME Covered, NEW level
    PROVE  /\ Weighted(RowsAt(level))
           /\ \A x \in RowsAt(level) : x = Row(level, x.cell)
<1> SUFFICES ASSUME NEW x \in RowsAt(level)
             PROVE  x.bytes \in Nat /\ x = Row(level, x.cell)
  BY DEF Weighted
<1>1. PICK key \in CellKeys : x = Row(level, key[2])
  BY DEF RowsAt
<1> DEFINE mesh == Concatenated(PiecesIn(level, key[2]))
<1>2. Len(mesh.points) \in Nat /\ Len(mesh.faces) \in Nat
  BY PiecesInTyped, ConcatenatedIsMesh DEF IsMesh
<1>3. x.bytes = 6 * Len(mesh.points) + 12 * Len(mesh.faces) /\ x.cell = key[2]
  BY <1>1 DEF Row
<1> HIDE DEF mesh
<1>4. x.bytes \in Nat
  <2>1. \A a, b \in Nat : 6 * a + 12 * b \in Nat
    OBVIOUS
  <2> QED BY <1>2, <1>3, <2>1
<1>5. x = Row(level, x.cell)
  <2>1. PICK c : c = key[2]
    OBVIOUS
  <2>2. x = Row(level, c) /\ x.cell = c
    BY <1>1, <1>3, <2>1
  <2> QED BY <2>2
<1> QED
  BY <1>4, <1>5

\* What is under the prefix after the write.
LEMMA UnderThePrefix ==
    ASSUME Shelved, phase = "written", fault = "none"
    PROVE  /\ Shelves /\ Catalogued /\ collection.levels = input.levels /\ collection.objects = objectRows
           /\ collection.cells = LocatedRows /\ Cells = CellKeys
           /\ collection.files = [level \in Levels |->
                 [p \in DOMAIN Files[level] |->
                     [size |-> Files[level][p].size, rowGroups |-> Len(Files[level][p].groups)]]]
           /\ collection.parts =
                 [key \in UNION {{<<level, p - 1>> : p \in DOMAIN Files[level]} : level \in Levels} |->
                     Files[key[1]][key[2] + 1]]
<1>1. collection = Shelf(Levels, input.levels, Files, LocatedRows, objectRows) /\ Shelves /\ Catalogued
  BY WrittenIsShelf DEF Shelved
<1>2. DOMAIN LocatedRows = CellKeys
  BY <1>1 DEF LocatedRows, Catalogued
<1> QED
  BY <1>1, <1>2 DEF Shelf, Cells

\* A part of a level that was planned is a file there, which opens.
LEMMA PartsOpen ==
    ASSUME Shelved, phase = "written", fault = "none", NEW level \in Levels,
           NEW n \in Nat, DOMAIN PartsOf(level) = 1 .. n, NEW p \in 1 .. n
    PROVE  /\ <<level, p - 1>> \in DOMAIN collection.parts
           /\ collection.parts[<<level, p - 1>>] = PartFile(PartsOf(level)[p])
           /\ Opens(level, p - 1) /\ Len(collection.files[level]) = n /\ p - 1 \in PartsNamed(level)
           /\ collection.files[level][p].rowGroups = Len(PartFile(PartsOf(level)[p]).groups)
<1>1. Files[level] = [q \in 1 .. n |-> PartFile(PartsOf(level)[q])]
  BY DEF Files
<1>2. /\ collection.files[level] = [q \in 1 .. n |->
            [size |-> Files[level][q].size, rowGroups |-> Len(Files[level][q].groups)]]
      /\ Files[level][p] = PartFile(PartsOf(level)[p])
  BY <1>1, UnderThePrefix
<1>3. /\ Len(collection.files[level]) = n /\ collection.files[level][p].size = Files[level][p].size
      /\ collection.files[level][p].rowGroups = Len(PartFile(PartsOf(level)[p]).groups)
  BY <1>2
<1> DEFINE keys(l) == {<<l, q - 1>> : q \in DOMAIN Files[l]}
           seat == <<level, p - 1>>
<1>4. seat \in UNION {keys(l) : l \in Levels}
  <2>1. seat \in keys(level)
    BY <1>1
  <2> HIDE DEF keys, seat
  <2> QED BY <2>1
<1>5. collection.parts = [key \in UNION {keys(l) : l \in Levels} |-> Files[key[1]][key[2] + 1]]
  BY UnderThePrefix
<1>6. seat \in DOMAIN collection.parts /\ collection.parts[seat] = Files[seat[1]][seat[2] + 1]
  <2> HIDE DEF keys, seat
  <2> QED BY <1>4, <1>5
<1>7. seat[1] = level /\ seat[2] + 1 = p /\ p - 1 + 1 = p /\ p - 1 \in 0 .. n - 1
  OBVIOUS
<1> HIDE DEF keys
<1> QED
  BY <1>2, <1>3, <1>6, <1>7 DEF Opens, PartsNamed

\* What decoding makes of a row.
DecodedRow(row, key) ==
    [points |-> [v \in DOMAIN row.positions |-> Decoded(row.positions[v], key[2], key[1])],
     faces |-> row.indices, ids |-> row.ids,
     vertexOffsets |-> row.vertexOffsets, indexOffsets |-> row.indexOffsets]

\* The part and the row group that a locator names are there.
InRange(key) ==
    LET locator == collection.cells[key].locator
    IN  /\ locator.part \in PartsNamed(key[1])
        /\ locator.rowGroup < collection.files[key[1]][locator.part + 1].rowGroups

\* A cell's locator leads to its row and to no other.
LEMMA RowIsRead ==
    ASSUME Covered, Shelved, phase = "written", fault = "none", NEW key \in CellKeys
    PROVE  /\ Readable(key) /\ ~Unlocated(key) /\ InRange(key)
           /\ ReadCell(key) = DecodedRow(Row(key[1], key[2]), key)
<1> DEFINE level == key[1]
           cell == key[2]
           R == RowsAt(level)
           parts == PartsOf(level)
           part == CHOOSE p \in DOMAIN parts : \E row \in DOMAIN parts[p] : parts[p][row].cell = cell
           where == Chunks!Locate(parts[part], part - 1, RowGroupBytes)[cell]
           groups == Chunks!RowGroups(parts[part], RowGroupBytes)
<1>1. level \in Levels /\ Shelves /\ Catalogued
  BY CellOfTask, UnderThePrefix
<1>2. Weighted(R) /\ \A x \in R : x = Row(level, x.cell)
  BY RowsTyped
<1>3. shards[level] \in Seq(R) /\ OnItsShelf(key) /\ MaxPartBytes \in Int /\ RowGroupBytes \in Int
  BY <1>1, BuildAssumption DEF Shelves, Catalogued
<1>4. PICK r \in DOMAIN shards[level] : shards[level][r].cell = cell
  BY <1>3 DEF OnItsShelf
<1>5. Divides(parts, shards[level], R)
  <2> HIDE DEF R, level
  <2> QED BY <1>2, <1>3, PartsDivide DEF PartsOf
<1>6. PICK n \in Nat : DOMAIN parts = 1 .. n
  BY <1>5 DEF Divides
<1>7. part \in 1 .. n /\ parts[part] \in Seq(R) /\ \E i \in DOMAIN parts[part] : parts[part][i].cell = cell
  <2>1. \E p \in DOMAIN parts : \E row \in DOMAIN parts[p] : parts[p][row].cell = cell
    BY <1>4, <1>5 DEF Divides
  <2> HIDE DEF parts
  <2>2. part \in DOMAIN parts /\ \E row \in DOMAIN parts[part] : parts[part][row].cell = cell
    BY <2>1
  <2> QED BY <1>5, <1>6, <2>2 DEF Divides
<1>8. Located(level, cell) = [part |-> where[1], rowGroup |-> where[2], blobBytes |-> where[3]]
  BY DEF Located
<1> HIDE DEF part, parts, R
<1>9. /\ where[1] = part - 1 /\ where[2] \in Nat /\ where[2] + 1 \in DOMAIN groups
      /\ \E i \in DOMAIN groups[where[2] + 1] : groups[where[2] + 1][i].cell = cell
  <2> DEFINE chosen == parts[part]
             number == part - 1
  <2>1. chosen \in Seq(R) /\ \E i \in DOMAIN chosen : chosen[i].cell = cell
    BY <1>7
  <2> HIDE DEF chosen, number, cell
  <2>2. LET w == Chunks!Locate(chosen, number, RowGroupBytes)[cell]
        IN  /\ w[1] = number
            /\ w[2] \in Nat /\ w[2] + 1 \in DOMAIN Chunks!RowGroups(chosen, RowGroupBytes)
            /\ \E i \in DOMAIN Chunks!RowGroups(chosen, RowGroupBytes)[w[2] + 1] :
                  Chunks!RowGroups(chosen, RowGroupBytes)[w[2] + 1][i].cell = cell
    BY <1>2, <1>3, <2>1, LocatorFinds, SMTT(60)
  <2> QED BY <2>2 DEF chosen, number
<1>10. Divides(groups, parts[part], R)
  BY <1>2, <1>3, <1>7, GroupsDivide
<1> HIDE DEF where
<1> DEFINE table == groups[where[2] + 1]
<1>11. table \in Seq(R) /\ \E i \in DOMAIN table : table[i].cell = cell
  BY <1>9, <1>10 DEF Divides
<1>12. collection.cells[key].locator = Located(level, cell)
  BY <1>1, <1>3, UnderThePrefix DEF LocatedRows, OnItsShelf, Catalogued
<1>13. /\ collection.cells[key].locator.part = part - 1 /\ collection.cells[key].locator.rowGroup = where[2]
  BY <1>8, <1>9, <1>12
<1>14. ~Unlocated(key)
  BY <1>7, <1>9, <1>13 DEF Unlocated, Null
<1>15. Opens(level, part - 1) /\ collection.parts[<<level, part - 1>>].groups = groups
  <2> HIDE DEF groups, level
  <2>1. /\ collection.parts[<<level, part - 1>>] = PartFile(parts[part]) /\ Opens(level, part - 1)
    BY <1>1, <1>6, <1>7, PartsOpen DEF parts
  <2>2. PartFile(parts[part]).groups = groups
    BY DEF PartFile, groups
  <2> QED BY <2>1, <2>2
<1>21. InRange(key)
  <2> HIDE DEF groups, level
  <2>1. /\ part - 1 \in PartsNamed(level)
        /\ collection.files[level][part].rowGroups = Len(PartFile(parts[part]).groups)
    BY <1>1, <1>6, <1>7, PartsOpen, ZenonT(40) DEF parts
  <2>2. PartFile(parts[part]).groups = groups
    BY DEF PartFile, groups
  <2>3. where[2] < Len(groups)
    BY <1>9, <1>10 DEF Divides
  <2>4. part - 1 + 1 = part
    BY <1>7
  <2> QED BY <1>13, <2>1, <2>2, <2>3, <2>4 DEF InRange, level
<1> HIDE DEF groups
<1>16. TableFor(key) = table
  BY <1>9, <1>13, <1>14, <1>15 DEF TableFor
<1> DEFINE found == {i \in DOMAIN table : table[i].cell = cell}
<1>17. Min(found) \in DOMAIN table /\ table[Min(found)].cell = cell
  <2> HIDE DEF table
  <2>1. Len(table) \in Nat /\ DOMAIN table = 1 .. Len(table)
    BY <1>11
  <2>2. found # {} /\ found \in SUBSET DOMAIN table
    BY <1>11
  <2> HIDE DEF found
  <2>3. found \in SUBSET Int /\ IsFiniteSet(found)
    BY <2>1, <2>2, PlacesFinite
  <2>4. Min(found) \in found
    BY <2>2, <2>3, MinMember
  <2> QED BY <2>4 DEF found
<1>18. table[Min(found)] = Row(level, cell)
  <2> HIDE DEF table, found
  <2>1. table[Min(found)] \in R
    BY <1>11, <1>17
  <2> QED BY <1>2, <1>17, <2>1
<1>19. Readable(key)
  BY <1>16, <1>17 DEF Readable
<1>20. ReadCell(key) = DecodedRow(table[Min(found)], key)
  BY <1>16 DEF ReadCell, DecodedRow
<1> HIDE DEF table, found
<1> QED
  BY <1>14, <1>18, <1>19, <1>20, <1>21

-----------------------------------------------------------------------------
(* Where the pieces of a cell are in its row. *)

\* A fold of additions is a running total.
LEMMA FoldIsTotal ==
    ASSUME NEW m \in Nat, NEW list, DOMAIN list = 1 .. m, \A k \in 1 .. m : list[k] \in Nat,
           NEW total \in [0 .. m -> Nat], total[0] = 0, \A k \in 1 .. m : total[k] = total[k - 1] + list[k]
    PROVE  FoldLeft(LAMBDA s, n : s + n, 0, list) = total[m]
<1> DEFINE step == [p \in Nat \X (1 .. m) |-> p[1] + list[p[2]]]
           Folded(g) == g = [T \in SUBSET DOMAIN list |->
                                IF T = {} THEN 0 ELSE g[T \ {Max(T)}] + list[Max(T)]]
           fold == CHOOSE g : Folded(g)
<1>1. PICK h \in [SUBSET (1 .. m) -> Nat] : LeftFolds(h, m, 0, step)
  <2>1. step \in Steps(Nat, 1 .. m)
    BY DEF Steps
  <2> HIDE DEF step
  <2> QED BY <2>1, LeftFoldExists
<1>2. ASSUME NEW T \in SUBSET (1 .. m), T # {}
      PROVE  h[T] = h[T \ {Max(T)}] + list[Max(T)]
  <2>1. Max(T) \in 1 .. m /\ h[T \ {Max(T)}] \in Nat
    BY <1>1, <1>2, LargestPosition
  <2> QED BY <1>1, <1>2, <2>1 DEF LeftFolds, Folds, LeftPick
<1>3. Folded(h)
  <2>1. h[{}] = 0
    BY <1>1 DEF LeftFolds, Folds
  <2> QED BY <1>1, <1>2, <2>1
<1>4. Folded(fold)
  <2> HIDE DEF Folded
  <2> QED BY <1>3
<1>5. ASSUME NEW k \in 1 .. m PROVE fold[1 .. k] = fold[1 .. (k - 1)] + list[k]
  <2>0. k \in Nat \ {0}
    OBVIOUS
  <2>1. Max(1 .. k) = k /\ (1 .. k) \ {k} = 1 .. (k - 1)
    BY <2>0, LargestOfPrefix
  <2>2. 1 .. k \in SUBSET (1 .. m) /\ k \in 1 .. k
    OBVIOUS
  <2>3. \A T \in SUBSET DOMAIN list : fold[T] = IF T = {} THEN 0 ELSE fold[T \ {Max(T)}] + list[Max(T)]
    <3> HIDE DEF fold
    <3> QED BY <1>4
  <2>4. fold[1 .. k] = fold[(1 .. k) \ {Max(1 .. k)}] + list[Max(1 .. k)]
    <3> HIDE DEF fold, Folded
    <3> QED BY <2>2, <2>3
  <2> QED BY <2>1, <2>4
<1>6. fold[1 .. 0] = 0
  <2> HIDE DEF fold
  <2> QED BY <1>4
<1>7. FoldLeft(LAMBDA s, n : s + n, 0, list) = fold[1 .. m]
  BY DEF FoldLeft, MapThenFoldSet, fold
<1> HIDE DEF fold
<1> DEFINE P == {k \in Nat : k <= m => fold[1 .. k] = total[k]}
<1>8. 0 \in P
  BY <1>6
<1>9. ASSUME NEW k \in Nat, k \in P PROVE k + 1 \in P
  <2> SUFFICES ASSUME k + 1 <= m PROVE fold[1 .. (k + 1)] = total[k + 1]
    OBVIOUS
  <2>1. k + 1 \in 1 .. m /\ (k + 1) - 1 = k /\ fold[1 .. k] = total[k]
    BY <1>9
  <2> QED BY <1>5, <2>1
<1>10. Nat \subseteq P
  <2> HIDE DEF P
  <2> QED BY <1>8, <1>9, NatSetInduction
<1>11. fold[1 .. m] = total[m]
  BY <1>10
<1> QED
  BY <1>7, <1>11, Zenon

\* Some numbers and their running totals.
Totals(total, lengths, n) ==
    /\ total \in [0 .. n -> Nat] /\ total[0] = 0
    /\ \A k \in 1 .. n : lengths[k] \in Nat /\ total[k] = total[k - 1] + lengths[k]

\* Where each of some runs starts, what is before it ends.
LEMMA StartsAreTotals ==
    ASSUME NEW n \in Nat, NEW lengths, lengths \in [1 .. n -> Nat], NEW total, Totals(total, lengths, n)
    PROVE  /\ DOMAIN Starts(lengths) = 1 .. n /\ Len(Starts(lengths)) = n
           /\ \A i \in 1 .. n : Starts(lengths)[i] = total[i - 1]
<1> DEFINE at(i) == FoldLeft(LAMBDA s, k : s + k, 0, SubSeq(lengths, 1, i - 1))
<1>1. Starts(lengths) = [i \in DOMAIN lengths |-> at(i)]
  BY DEF Starts
<1> HIDE DEF at
<1>2. /\ DOMAIN Starts(lengths) = 1 .. n /\ Len(Starts(lengths)) = n
      /\ \A i \in 1 .. n : Starts(lengths)[i] = at(i)
  BY <1>1
<1>3. ASSUME NEW i \in 1 .. n PROVE Starts(lengths)[i] = total[i - 1]
  <2> DEFINE m == i - 1
             list == SubSeq(lengths, 1, i - 1)
             part == [k \in 0 .. m |-> total[k]]
  <2>1. m \in Nat /\ m <= n /\ lengths \in Seq(Nat) /\ Len(lengths) = n
    OBVIOUS
  <2>2. list = SubSeq(lengths, 1, m)
    OBVIOUS
  <2> HIDE DEF m, list
  <2>3. Len(list) = m /\ DOMAIN list = 1 .. m /\ \A k \in 1 .. m : list[k] = lengths[k]
    BY <2>1, <2>2
  <2>4. /\ part \in [0 .. m -> Nat] /\ part[0] = 0 /\ \A k \in 0 .. m : part[k] = total[k]
    <3>1. \A k \in 0 .. m : total[k] \in Nat
      BY <2>1 DEF Totals
    <3> QED BY <2>1, <3>1 DEF Totals
  <2> HIDE DEF part
  <2>5. \A k \in 1 .. m : list[k] \in Nat /\ part[k] = part[k - 1] + list[k]
    <3> SUFFICES ASSUME NEW k \in 1 .. m PROVE list[k] \in Nat /\ part[k] = part[k - 1] + list[k]
      OBVIOUS
    <3>1. k \in 1 .. n /\ k \in 0 .. m /\ k - 1 \in 0 .. m
      BY <2>1
    <3>2. lengths[k] \in Nat /\ total[k] = total[k - 1] + lengths[k]
      BY <3>1 DEF Totals
    <3> QED BY <2>3, <2>4, <3>1, <3>2
  <2>6. FoldLeft(LAMBDA s, k : s + k, 0, list) = part[m]
    BY <2>1, <2>3, <2>4, <2>5, FoldIsTotal
  <2>7. part[m] = total[i - 1]
    BY <2>1, <2>4 DEF m
  <2>8. at(i) = part[m]
    BY <2>6, Zenon DEF list, at
  <2> QED BY <1>2, <2>7, <2>8
<1> QED
  BY <1>2, <1>3

\* Totals ascend.
LEMMA TotalsAscend ==
    ASSUME NEW n \in Nat, NEW lengths, NEW total, Totals(total, lengths, n), NEW k \in 0 .. n
    PROVE  total[k] <= total[n]
<1> DEFINE P == {j \in Nat : k + j <= n => total[k] <= total[k + j]}
<1>1. 0 \in P
  BY DEF Totals
<1>2. ASSUME NEW j \in Nat, j \in P PROVE j + 1 \in P
  <2> SUFFICES ASSUME k + (j + 1) <= n PROVE total[k] <= total[k + (j + 1)]
    OBVIOUS
  <2>1. total[k] <= total[k + j] /\ k + (j + 1) \in 1 .. n /\ (k + (j + 1)) - 1 = k + j
    BY <1>2
  <2>2. total[k + (j + 1)] = total[k + j] + lengths[k + (j + 1)] /\ lengths[k + (j + 1)] \in Nat
    BY <2>1 DEF Totals
  <2>3. total[k] \in Nat /\ total[k + j] \in Nat
    BY <2>1 DEF Totals
  <2> QED BY <2>1, <2>2, <2>3
<1>3. Nat \subseteq P
  <2> HIDE DEF P
  <2> QED BY <1>1, <1>2, NatSetInduction
<1>4. n - k \in Nat /\ k + (n - k) = n
  OBVIOUS
<1> QED
  BY <1>3, <1>4

\* What a mesh that is stacked on another has of each.
Has(both, mesh, piece) ==
    /\ DOMAIN both.points = 1 .. Len(mesh.points) + Len(piece.points)
    /\ Len(both.points) = Len(mesh.points) + Len(piece.points)
    /\ Len(both.faces) = Len(mesh.faces) + Len(piece.faces)
    /\ DOMAIN both.faces = 1 .. Len(mesh.faces) + Len(piece.faces)
    /\ \A v \in DOMAIN mesh.points : both.points[v] = mesh.points[v]
    /\ \A v \in DOMAIN piece.points : both.points[Len(mesh.points) + v] = piece.points[v]
    /\ \A f \in DOMAIN mesh.faces : both.faces[f] = mesh.faces[f]
    /\ \A f \in DOMAIN piece.faces : \A a \in Axes :
          both.faces[Len(mesh.faces) + f][a] = piece.faces[f][a] + Len(mesh.points)
    /\ \A f \in DOMAIN both.faces :
          \/ f \in DOMAIN mesh.faces
          \/ f - Len(mesh.faces) \in DOMAIN piece.faces /\ f = Len(mesh.faces) + (f - Len(mesh.faces))

\* Faces counted from further on.
LEMMA MovedFaces ==
    ASSUME NEW faces \in Seq(Face), NEW n \in Nat, NEW moved,
           moved = [f \in DOMAIN faces |-> [a \in Axes |-> faces[f][a] + n]]
    PROVE  /\ moved \in Seq(Face) /\ Len(moved) = Len(faces) /\ DOMAIN moved = 1 .. Len(faces)
           /\ \A f \in 1 .. Len(faces) : \A a \in Axes : moved[f][a] = faces[f][a] + n
<1>1. DOMAIN faces = 1 .. Len(faces) /\ Len(faces) \in Nat
  OBVIOUS
<1>2. ASSUME NEW f \in 1 .. Len(faces)
      PROVE  moved[f] \in Face /\ \A a \in Axes : moved[f][a] = faces[f][a] + n
  <2>1. moved[f] = [a \in Axes |-> faces[f][a] + n]
    BY <1>1
  <2>2. \A a \in Axes : faces[f][a] \in Nat \ {0}
    BY <1>1, FaceCorners
  <2>3. \A a \in Axes : faces[f][a] + n \in Nat \ {0}
    BY <2>2
  <2> QED BY <2>1, <2>3 DEF Face
<1>3. DOMAIN moved = 1 .. Len(faces)
  BY <1>1
<1>4. moved \in [1 .. Len(faces) -> Face]
  <2>1. moved = [f \in 1 .. Len(faces) |-> moved[f]]
    BY <1>1, <1>3
  <2> QED BY <1>2, <2>1
<1> DEFINE m == Len(faces)
<1>5. m \in Nat /\ moved \in [1 .. m -> Face]
  BY <1>1, <1>4
<1> HIDE DEF m
<1>6. moved \in Seq(Face) /\ Len(moved) = m
  BY <1>5
<1> QED
  BY <1>2, <1>3, <1>6 DEF m

\* A mesh stacked on another has both, the second behind the first.
LEMMA StackedHas ==
    ASSUME NEW mesh, IsMesh(mesh), NEW piece, IsMesh(piece)
    PROVE  Has(Stacked(mesh, piece), mesh, piece)
<1> DEFINE both == Stacked(mesh, piece)
           n == Len(mesh.points)
           moved == [f \in DOMAIN piece.faces |-> [a \in Axes |-> piece.faces[f][a] + n]]
<1>1. /\ mesh.points \in Seq(Point) /\ mesh.faces \in Seq(Face)
      /\ piece.points \in Seq(Point) /\ piece.faces \in Seq(Face) /\ n \in Nat
      /\ DOMAIN piece.faces = 1 .. Len(piece.faces)
  BY DEF IsMesh
<1>2. both.points = mesh.points \o piece.points /\ both.faces = mesh.faces \o moved
  BY DEF Stacked, Renamed
<1>3. /\ moved \in Seq(Face) /\ Len(moved) = Len(piece.faces) /\ DOMAIN moved = 1 .. Len(piece.faces)
      /\ \A f \in 1 .. Len(piece.faces) : \A a \in Axes : moved[f][a] = piece.faces[f][a] + n
  BY <1>1, MovedFaces
<1> HIDE DEF both, moved
<1>4. Follow(both.points, mesh.points, piece.points)
  BY <1>1, <1>2, ConcatFollows
<1>5. Follow(both.faces, mesh.faces, moved)
  BY <1>1, <1>2, <1>3, ConcatFollows
<1>6. /\ DOMAIN both.points = 1 .. Len(mesh.points) + Len(piece.points)
      /\ Len(both.points) = Len(mesh.points) + Len(piece.points)
      /\ \A v \in DOMAIN mesh.points : both.points[v] = mesh.points[v]
      /\ \A v \in DOMAIN piece.points : both.points[Len(mesh.points) + v] = piece.points[v]
  BY <1>4 DEF Follow
<1>7. /\ Len(both.faces) = Len(mesh.faces) + Len(piece.faces)
      /\ DOMAIN both.faces = 1 .. Len(mesh.faces) + Len(piece.faces)
      /\ \A f \in DOMAIN mesh.faces : both.faces[f] = mesh.faces[f]
  BY <1>3, <1>5 DEF Follow
<1>8. \A f \in DOMAIN piece.faces : \A a \in Axes :
         both.faces[Len(mesh.faces) + f][a] = piece.faces[f][a] + n
  <2>1. \A f \in DOMAIN piece.faces : both.faces[Len(mesh.faces) + f] = moved[f]
    BY <1>1, <1>3, <1>5 DEF Follow
  <2> QED BY <1>1, <1>3, <2>1
<1>9. \A f \in DOMAIN both.faces :
         \/ f \in DOMAIN mesh.faces
         \/ f - Len(mesh.faces) \in DOMAIN piece.faces /\ f = Len(mesh.faces) + (f - Len(mesh.faces))
  BY <1>1, <1>3, <1>5 DEF Follow
<1> HIDE DEF n
<1>10. Has(both, mesh, piece)
  BY <1>6, <1>7, <1>8, <1>9, Zenon DEF Has, n
<1> QED
  BY <1>10 DEF both

\* Where the first j of some pieces are in a mesh: the points and faces of each behind those of
\* the ones before it.
Spans(mesh, pieces, at, fa, j) ==
    /\ Len(mesh.points) = at[j] /\ Len(mesh.faces) = fa[j]
    /\ \A k \in 1 .. j : \A v \in DOMAIN pieces[k].points :
          at[k - 1] + v \in DOMAIN mesh.points /\ mesh.points[at[k - 1] + v] = pieces[k].points[v]
    /\ \A k \in 1 .. j : \A f \in DOMAIN pieces[k].faces :
          /\ fa[k - 1] + f \in DOMAIN mesh.faces
          /\ \A a \in Axes : mesh.faces[fa[k - 1] + f][a] = pieces[k].faces[f][a] + at[k - 1]
    /\ \A g \in DOMAIN mesh.faces : \E k \in 1 .. j : \E f \in DOMAIN pieces[k].faces : g = fa[k - 1] + f

\* One more piece behind the others.
LEMMA SpansOneMore ==
    ASSUME NEW mesh, IsMesh(mesh), NEW pieces, NEW j \in Nat, IsMesh(pieces[j + 1]),
           NEW at, NEW fa, Spans(mesh, pieces, at, fa, j), NEW both, both = Stacked(mesh, pieces[j + 1]),
           at[j + 1] = Len(both.points), fa[j + 1] = Len(both.faces)
    PROVE  Spans(both, pieces, at, fa, j + 1)
<1> DEFINE piece == pieces[j + 1]
           n == Len(mesh.points)
           m == Len(mesh.faces)
<1>1. Has(both, mesh, piece)
  BY StackedHas
<1>2. /\ n \in Nat /\ m \in Nat /\ DOMAIN mesh.points = 1 .. n /\ DOMAIN mesh.faces = 1 .. m
      /\ Len(piece.points) \in Nat /\ DOMAIN piece.points = 1 .. Len(piece.points)
      /\ Len(piece.faces) \in Nat /\ DOMAIN piece.faces = 1 .. Len(piece.faces)
      /\ at[j] = n /\ fa[j] = m
  BY DEF IsMesh, Spans
<1> HIDE DEF piece, n, m
<1>3. /\ DOMAIN both.points = 1 .. n + Len(piece.points) /\ DOMAIN both.faces = 1 .. m + Len(piece.faces)
      /\ \A v \in 1 .. n : both.points[v] = mesh.points[v]
      /\ \A v \in DOMAIN piece.points : both.points[n + v] = piece.points[v]
      /\ \A f \in 1 .. m : both.faces[f] = mesh.faces[f]
      /\ \A f \in DOMAIN piece.faces : \A a \in Axes : both.faces[m + f][a] = piece.faces[f][a] + n
      /\ \A f \in DOMAIN both.faces :
            \/ f \in 1 .. m
            \/ f - m \in DOMAIN piece.faces /\ f = m + (f - m)
  <2>1. DOMAIN both.points = 1 .. n + Len(piece.points) /\ DOMAIN both.faces = 1 .. m + Len(piece.faces)
    BY <1>1 DEF Has, n, m
  <2>2. /\ \A v \in 1 .. n : both.points[v] = mesh.points[v]
        /\ \A v \in DOMAIN piece.points : both.points[n + v] = piece.points[v]
    BY <1>1, <1>2 DEF Has, n
  <2>3. \A f \in 1 .. m : both.faces[f] = mesh.faces[f]
    BY <1>1, <1>2 DEF Has
  <2>4. \A f \in DOMAIN piece.faces : \A a \in Axes : both.faces[m + f][a] = piece.faces[f][a] + n
    BY <1>1, Zenon DEF Has, n, m
  <2>5. \A f \in DOMAIN both.faces : f \in DOMAIN mesh.faces \/ f - m \in DOMAIN piece.faces
    BY <1>1 DEF Has, m
  <2>6. \A f \in DOMAIN both.faces : f = m + (f - m)
    BY <1>2, <2>1
  <2> QED BY <1>2, <2>1, <2>2, <2>3, <2>4, <2>5, <2>6
<1>4. (j + 1) - 1 = j /\ \A k \in 1 .. j + 1 : k \in 1 .. j \/ k = j + 1
  OBVIOUS
<1>5. ASSUME NEW k \in 1 .. j + 1, NEW v \in DOMAIN pieces[k].points
      PROVE  at[k - 1] + v \in DOMAIN both.points /\ both.points[at[k - 1] + v] = pieces[k].points[v]
  <2>1. CASE k \in 1 .. j
    <3> DEFINE w == at[k - 1] + v
    <3>1. w \in DOMAIN mesh.points /\ mesh.points[w] = pieces[k].points[v]
      BY <2>1 DEF Spans
    <3> HIDE DEF w
    <3>2. w \in 1 .. n /\ w \in 1 .. n + Len(piece.points)
      BY <1>2, <3>1
    <3> QED BY <1>3, <3>1, <3>2 DEF w
  <2>2. CASE k = j + 1
    <3>1. at[k - 1] = n /\ pieces[k] = piece /\ v \in DOMAIN piece.points
      BY <1>2, <1>4, <2>2 DEF piece
    <3>2. n + v \in 1 .. n + Len(piece.points)
      BY <1>2, <3>1
    <3> QED BY <1>3, <3>1, <3>2
  <2> QED BY <1>4, <2>1, <2>2
<1>6. ASSUME NEW k \in 1 .. j + 1, NEW f \in DOMAIN pieces[k].faces
      PROVE  /\ fa[k - 1] + f \in DOMAIN both.faces
             /\ \A a \in Axes : both.faces[fa[k - 1] + f][a] = pieces[k].faces[f][a] + at[k - 1]
  <2>1. CASE k \in 1 .. j
    <3> DEFINE g == fa[k - 1] + f
    <3>1. /\ g \in DOMAIN mesh.faces
          /\ \A a \in Axes : mesh.faces[g][a] = pieces[k].faces[f][a] + at[k - 1]
      BY <2>1 DEF Spans
    <3> HIDE DEF g
    <3>2. g \in 1 .. m /\ g \in 1 .. m + Len(piece.faces)
      BY <1>2, <3>1
    <3> QED BY <1>3, <3>1, <3>2 DEF g
  <2>2. CASE k = j + 1
    <3>1. fa[k - 1] = m /\ at[k - 1] = n /\ pieces[k] = piece /\ f \in DOMAIN piece.faces
      BY <1>2, <1>4, <2>2 DEF piece
    <3>2. m + f \in 1 .. m + Len(piece.faces)
      BY <1>2, <3>1
    <3> QED BY <1>3, <3>1, <3>2
  <2> QED BY <1>4, <2>1, <2>2
<1>7. ASSUME NEW g \in DOMAIN both.faces
      PROVE  \E k \in 1 .. j + 1 : \E f \in DOMAIN pieces[k].faces : g = fa[k - 1] + f
  <2>1. CASE g \in 1 .. m
    <3>1. PICK k \in 1 .. j : \E f \in DOMAIN pieces[k].faces : g = fa[k - 1] + f
      BY <1>2, <2>1 DEF Spans
    <3>2. k \in 1 .. j + 1
      OBVIOUS
    <3> QED BY <3>1, <3>2
  <2>2. CASE g - m \in DOMAIN piece.faces /\ g = m + (g - m)
    <3>1. j + 1 \in 1 .. j + 1 /\ fa[(j + 1) - 1] = m
      BY <1>2, <1>4
    <3> QED BY <2>2, <3>1 DEF piece
  <2> QED BY <1>3, <2>1, <2>2
<1>8. Len(both.points) = at[j + 1] /\ Len(both.faces) = fa[j + 1]
  OBVIOUS
<1> QED
  BY <1>5, <1>6, <1>7, <1>8, Zenon DEF Spans

\* What there is to count of some pieces.
PointCounts(pieces) == [i \in 1 .. Len(pieces) |-> Len(pieces[i].points)]
FaceCounts(pieces) == [i \in 1 .. Len(pieces) |-> Len(pieces[i].faces)]

\* Pieces one behind the other.
LEMMA PiecesAreSpans ==
    ASSUME NEW pieces, ArePieces(pieces)
    PROVE  \E at, fa : /\ Totals(at, PointCounts(pieces), Len(pieces))
                       /\ Totals(fa, FaceCounts(pieces), Len(pieces))
                       /\ Spans(Concatenated(pieces), pieces, at, fa, Len(pieces))
<1> DEFINE n == Len(pieces)
<1>1. PICK meshes : Joins(meshes, pieces)
  BY JoinsExist
<1>2. /\ n \in Nat /\ DOMAIN pieces = 1 .. n /\ \A k \in 1 .. n : IsMesh(pieces[k])
      /\ meshes[0] = NoMesh /\ Concatenated(pieces) = meshes[n]
      /\ \A k \in 1 .. n : meshes[k] = Stacked(meshes[k - 1], pieces[k])
      /\ \A k \in 0 .. n : IsMesh(meshes[k])
  BY <1>1 DEF Joins, ArePieces, Meshes
<1> HIDE DEF n
<1> DEFINE at == [k \in 0 .. n |-> Len(meshes[k].points)]
           fa == [k \in 0 .. n |-> Len(meshes[k].faces)]
<1>3. \A k \in 0 .. n : Len(meshes[k].points) \in Nat /\ Len(meshes[k].faces) \in Nat
  BY <1>2 DEF IsMesh
<1>4. /\ at \in [0 .. n -> Nat] /\ fa \in [0 .. n -> Nat]
      /\ \A k \in 0 .. n : at[k] = Len(meshes[k].points) /\ fa[k] = Len(meshes[k].faces)
  BY <1>3
<1>5. at[0] = 0 /\ fa[0] = 0
  <2>1. meshes[0].points = <<>> /\ meshes[0].faces = <<>> /\ 0 \in 0 .. n
    BY <1>2 DEF NoMesh
  <2> HIDE DEF at, fa
  <2> QED BY <1>4, <2>1
<1> HIDE DEF at, fa
<1>6. ASSUME NEW k \in 1 .. n
      PROVE  /\ Len(pieces[k].points) \in Nat /\ at[k] = at[k - 1] + Len(pieces[k].points)
             /\ Len(pieces[k].faces) \in Nat /\ fa[k] = fa[k - 1] + Len(pieces[k].faces)
  <2>1. k - 1 \in 0 .. n /\ k \in 0 .. n
    BY <1>2
  <2>2. IsMesh(meshes[k - 1]) /\ IsMesh(pieces[k]) /\ meshes[k] = Stacked(meshes[k - 1], pieces[k])
    BY <1>2, <2>1
  <2>3. Has(meshes[k], meshes[k - 1], pieces[k])
    BY <2>2, StackedHas
  <2>4. Len(pieces[k].points) \in Nat /\ Len(pieces[k].faces) \in Nat
    BY <2>2 DEF IsMesh
  <2> QED BY <1>4, <2>1, <2>3, <2>4 DEF Has
<1>7. Totals(at, PointCounts(pieces), n) /\ Totals(fa, FaceCounts(pieces), n)
  BY <1>4, <1>5, <1>6 DEF Totals, PointCounts, FaceCounts, n
<1> DEFINE P == {k \in Nat : k <= n => Spans(meshes[k], pieces, at, fa, k)}
<1>8. 0 \in P
  <2>1. /\ meshes[0].points = <<>> /\ meshes[0].faces = <<>> /\ Len(<<>>) = 0 /\ DOMAIN <<>> = {}
        /\ 1 .. 0 = {}
    BY <1>2 DEF NoMesh
  <2>2. Spans(meshes[0], pieces, at, fa, 0)
    BY <1>5, <2>1 DEF Spans
  <2> QED BY <2>2
<1>9. ASSUME NEW k \in Nat, k \in P PROVE k + 1 \in P
  <2> SUFFICES ASSUME k + 1 <= n PROVE Spans(meshes[k + 1], pieces, at, fa, k + 1)
    OBVIOUS
  <2>1. k + 1 \in 1 .. n /\ (k + 1) - 1 = k /\ k \in 0 .. n /\ k + 1 \in 0 .. n
    BY <1>2
  <2>2. Spans(meshes[k], pieces, at, fa, k)
    BY <1>9, <2>1
  <2>3. meshes[k + 1] = Stacked(meshes[k], pieces[k + 1]) /\ IsMesh(meshes[k]) /\ IsMesh(pieces[k + 1])
    BY <1>2, <2>1
  <2>4. at[k + 1] = Len(meshes[k + 1].points) /\ fa[k + 1] = Len(meshes[k + 1].faces)
    BY <1>4, <2>1
  <2> HIDE DEF P
  <2> QED BY <2>2, <2>3, <2>4, SpansOneMore
<1>10. Nat \subseteq P
  <2> HIDE DEF P
  <2> QED BY <1>8, <1>9, NatSetInduction
<1>11. Spans(meshes[n], pieces, at, fa, n)
  BY <1>2, <1>10
<1> QED
  BY <1>2, <1>7, <1>11 DEF n

-----------------------------------------------------------------------------
(* What is sliced out of a row (reader.DecodedCell.object_mesh). *)

\* A stretch `some` of a list, the i-th of the n runs of these lengths, k items of T.
IsTheRun(T, list, n, lengths, total, i, some, k) ==
    /\ list \in Seq(T) /\ n \in Nat /\ Totals(total, lengths, n) /\ Len(list) = total[n]
    /\ i \in 1 .. n /\ some = Slice(list, total[i - 1], total[i]) /\ k = lengths[i]

\* The stretch of a list between two of its totals is what one of its runs is.
LEMMA SliceOfTotals ==
    ASSUME NEW T, NEW list, NEW n, NEW lengths, NEW total, NEW i, NEW some, NEW k,
           IsTheRun(T, list, n, lengths, total, i, some, k)
    PROVE  some \in Seq(T) /\ DOMAIN some = 1 .. k /\ \A v \in 1 .. k : some[v] = list[total[i - 1] + v]
<1>0. /\ list \in Seq(T) /\ n \in Nat /\ Totals(total, lengths, n) /\ Len(list) = total[n]
      /\ i \in 1 .. n /\ some = Slice(list, total[i - 1], total[i]) /\ k = lengths[i]
  BY DEF IsTheRun
<1> DEFINE from == total[i - 1]
           to == total[i]
           all == Len(list)
<1>1. i \in 0 .. n /\ i - 1 \in 0 .. n
  BY <1>0
<1>2. from \in Nat /\ to \in Nat /\ k \in Nat /\ to = from + k /\ all \in Nat
  BY <1>0, <1>1 DEF Totals
<1>3. to <= all
  BY <1>0, <1>1, TotalsAscend
<1>4. some = SubSeq(list, from + 1, Min({to, all}))
  BY <1>0 DEF Slice
<1> HIDE DEF from, to, all
<1>5. Min({to, all}) = to
  <2> DEFINE S == {to, all}
  <2>1. S \in SUBSET Int /\ to \in S /\ S # {}
    BY <1>2
  <2>2. \A y \in S : to <= y
    BY <1>2, <1>3
  <2>3. IsFiniteSet(S)
    <3>1. IsFiniteSet({to})
      BY FS_Singleton
    <3>2. S = {to} \cup {all}
      OBVIOUS
    <3> HIDE DEF S
    <3> QED BY <3>1, <3>2, FS_AddElement
  <2> HIDE DEF S
  <2>4. Min(S) \in S /\ \A y \in S : Min(S) <= y
    BY <2>1, <2>3, MinMember
  <2>5. Min(S) \in Int /\ Min(S) <= to /\ to <= Min(S)
    BY <2>1, <2>2, <2>4
  <2>6. Min(S) = to
    BY <1>2, <2>5
  <2> QED BY <2>6 DEF S
<1> DEFINE first == from + 1
<1>6. first \in Nat /\ first >= 1 /\ to <= all /\ all = Len(list) /\ to \in Nat
  BY <1>2, <1>3 DEF all
<1>7. some = SubSeq(list, first, to)
  BY <1>4, <1>5
<1> HIDE DEF first
<1>8. /\ some \in Seq(T) /\ DOMAIN some = 1 .. to - first + 1
      /\ \A v \in 1 .. to - first + 1 : some[v] = list[first + v - 1]
  BY <1>0, <1>6, <1>7
<1>9. to - first + 1 = k /\ \A v \in 1 .. k : first + v - 1 = from + v
  BY <1>2 DEF first
<1>10. DOMAIN some = 1 .. k /\ \A v \in 1 .. k : some[v] = list[from + v]
  BY <1>8, <1>9
<1> QED
  BY <1>8, <1>10 DEF from

\* Where a run ends, by where the next one starts.
LEMMA StopOfTotals ==
    ASSUME NEW n \in Nat, NEW lengths, lengths \in [1 .. n -> Nat], NEW total, Totals(total, lengths, n),
           NEW i \in 1 .. n, NEW offsets, offsets = Starts(lengths), NEW all, all = total[n]
    PROVE  offsets[i] = total[i - 1] /\ StopOf(offsets, i, all) = total[i]
<1>1. /\ DOMAIN offsets = 1 .. n /\ Len(offsets) = n
      /\ \A j \in 1 .. n : offsets[j] = total[j - 1]
  BY StartsAreTotals
<1>2. CASE i = n
  BY <1>1, <1>2 DEF StopOf
<1>3. CASE i # n
  <2>1. i + 1 \in 1 .. n /\ (i + 1) - 1 = i
    BY <1>3
  <2> QED BY <1>1, <1>3, <2>1 DEF StopOf
<1> QED
  BY <1>2, <1>3

\* Three indices a face.
LEMMA ThriceTotals ==
    ASSUME NEW n \in Nat, NEW lengths, NEW total, Totals(total, lengths, n),
           NEW tripled, DOMAIN tripled = 1 .. n, \A k \in 1 .. n : tripled[k] = 3 * lengths[k]
    PROVE  \E thrice : /\ Totals(thrice, tripled, n)
                       /\ \A k \in 0 .. n : thrice[k] = 3 * total[k] /\ thrice[k] \div 3 = total[k]
<1>1. /\ \A k \in 0 .. n : total[k] \in Nat
      /\ \A k \in 1 .. n : lengths[k] \in Nat /\ total[k] = total[k - 1] + lengths[k]
      /\ total[0] = 0
  BY DEF Totals
<1>2. \A x \in Nat : 3 * x \in Nat /\ (3 * x) \div 3 = x
  OBVIOUS
<1> DEFINE thrice == [k \in 0 .. n |-> 3 * total[k]]
<1>3. thrice \in [0 .. n -> Nat]
  BY <1>1, <1>2
<1>4. \A k \in 0 .. n : thrice[k] = 3 * total[k]
  OBVIOUS
<1>5. \A k \in 1 .. n : tripled[k] \in Nat /\ tripled[k] = 3 * lengths[k]
  BY <1>1, <1>2
<1> HIDE DEF thrice
<1>6. thrice[0] = 0
  BY <1>1, <1>4
<1>7. ASSUME NEW k \in 1 .. n PROVE tripled[k] \in Nat /\ thrice[k] = thrice[k - 1] + tripled[k]
  <2>1. k \in 0 .. n /\ k - 1 \in 0 .. n
    OBVIOUS
  <2>2. /\ thrice[k] = 3 * total[k] /\ thrice[k - 1] = 3 * total[k - 1] /\ tripled[k] = 3 * lengths[k]
        /\ tripled[k] \in Nat
    BY <1>4, <1>5, <2>1
  <2>3. total[k - 1] \in Nat /\ lengths[k] \in Nat /\ total[k] = total[k - 1] + lengths[k]
    BY <1>1, <2>1
  <2>4. \A x, y \in Nat : 3 * (x + y) = 3 * x + 3 * y
    OBVIOUS
  <2> QED BY <2>2, <2>3, <2>4
<1>8. Totals(thrice, tripled, n)
  BY <1>3, <1>6, <1>7 DEF Totals
<1>9. \A k \in 0 .. n : thrice[k] \div 3 = total[k]
  BY <1>1, <1>2, <1>4
<1> QED
  BY <1>4, <1>5, <1>8, <1>9

\* What a row of some pieces is decoded to.
DecodesTo(decoded, pieces, level, cell) ==
    LET mesh == Concatenated(pieces)
    IN  /\ decoded.points = [v \in DOMAIN mesh.points |-> Shown(mesh.points[v], level, cell)]
        /\ decoded.faces = mesh.faces
        /\ decoded.vertexOffsets = Starts(PointCounts(pieces))
        /\ decoded.indexOffsets = Starts([i \in 1 .. Len(pieces) |-> 3 * Len(pieces[i].faces)])

\* What is sliced out of a row of pieces is the piece, with its corners counted from its own points.
LEMMA PieceIsSliced ==
    ASSUME NEW pieces, ArePieces(pieces), NEW level, NEW cell,
           NEW decoded, DecodesTo(decoded, pieces, level, cell), NEW i \in 1 .. Len(pieces)
    PROVE  ObjectSlice(decoded, i) = ShownIn(pieces[i], level, cell)
<1> DEFINE mesh == Concatenated(pieces)
           n == Len(pieces)
           piece == pieces[i]
           pointCounts == PointCounts(pieces)
           faceCounts == FaceCounts(pieces)
           tripled == [k \in 1 .. n |-> 3 * faceCounts[k]]
<1>0. /\ decoded.points = [v \in DOMAIN mesh.points |-> Shown(mesh.points[v], level, cell)]
      /\ decoded.faces = mesh.faces
      /\ decoded.vertexOffsets = Starts(PointCounts(pieces))
      /\ decoded.indexOffsets = Starts([k \in 1 .. Len(pieces) |-> 3 * Len(pieces[k].faces)])
  BY DEF DecodesTo
<1>1. PICK at, fa : /\ Totals(at, pointCounts, n) /\ Totals(fa, faceCounts, n)
                    /\ Spans(mesh, pieces, at, fa, n)
  BY PiecesAreSpans
<1>2. /\ n \in Nat /\ DOMAIN pieces = 1 .. n /\ \A k \in 1 .. n : IsMesh(pieces[k])
      /\ IsMesh(mesh)
  BY ConcatenatedIsMesh DEF ArePieces
<1>3. /\ pointCounts \in [1 .. n -> Nat]
      /\ pointCounts[i] = Len(piece.points) /\ faceCounts[i] = Len(piece.faces)
  BY <1>2 DEF PointCounts, FaceCounts, IsMesh
<1>4. /\ piece.points \in Seq(Point) /\ piece.faces \in Seq(Face)
      /\ DOMAIN piece.points = 1 .. Len(piece.points) /\ DOMAIN piece.faces = 1 .. Len(piece.faces)
      /\ Len(piece.points) \in Nat /\ Len(piece.faces) \in Nat
  BY <1>2 DEF IsMesh
<1>5. /\ mesh.points \in Seq(Point) /\ mesh.faces \in Seq(Face)
      /\ DOMAIN mesh.points = 1 .. Len(mesh.points) /\ DOMAIN mesh.faces = 1 .. Len(mesh.faces)
      /\ Len(mesh.points) = at[n] /\ Len(mesh.faces) = fa[n] /\ Len(mesh.points) \in Nat
  BY <1>1, <1>2 DEF IsMesh, Spans
<1>6. decoded.indexOffsets = Starts(tripled)
  <2>1. tripled = [k \in 1 .. Len(pieces) |-> 3 * Len(pieces[k].faces)]
    BY DEF FaceCounts
  <2> HIDE DEF tripled
  <2> QED BY <1>0, <2>1
<1>7. i \in 1 .. n /\ i \in 0 .. n /\ i - 1 \in 0 .. n /\ n \in 0 .. n
  BY <1>2
<1>8. /\ DOMAIN tripled = 1 .. n /\ \A k \in 1 .. n : tripled[k] = 3 * faceCounts[k]
      /\ tripled = [k \in DOMAIN tripled |-> tripled[k]]
      /\ decoded.vertexOffsets = Starts(pointCounts)
  BY <1>0
<1> HIDE DEF mesh, n, piece, pointCounts, faceCounts, tripled
<1>9. PICK thrice : /\ Totals(thrice, tripled, n)
                    /\ \A k \in 0 .. n : thrice[k] = 3 * fa[k] /\ thrice[k] \div 3 = fa[k]
  BY <1>1, <1>2, <1>8, ThriceTotals
<1>99. tripled \in [1 .. n -> Nat]
  <2>1. \A k \in 1 .. n : tripled[k] \in Nat
    BY <1>9 DEF Totals
  <2> QED BY <1>8, <2>1
<1> DEFINE list == decoded.points
           offsets == decoded.vertexOffsets
           indices == decoded.indexOffsets
           triangles == decoded.faces
<1>10. /\ list \in Seq({Shown(mesh.points[v], level, cell) : v \in DOMAIN mesh.points})
       /\ Len(list) = at[n] /\ list = [v \in 1 .. Len(mesh.points) |-> Shown(mesh.points[v], level, cell)]
  <2> DEFINE m == Len(mesh.points)
             S == {Shown(mesh.points[v], level, cell) : v \in DOMAIN mesh.points}
  <2>1. list \in [1 .. m -> S] /\ m \in Nat
    BY <1>0, <1>5
  <2>2. list = [v \in 1 .. Len(mesh.points) |-> Shown(mesh.points[v], level, cell)]
    BY <1>0, <1>5
  <2> HIDE DEF list, m, S
  <2>3. list \in Seq(S) /\ Len(list) = m
    BY <2>1
  <2> QED BY <1>5, <2>2, <2>3 DEF S, m
<1>11. /\ triangles = mesh.faces /\ offsets = Starts(pointCounts) /\ indices = Starts(tripled)
       /\ 3 * Len(triangles) = thrice[n]
  BY <1>0, <1>5, <1>6, <1>7, <1>8, <1>9
<1>12. ObjectSlice(decoded, i) =
          LET from == offsets[i]
              faces == Slice(triangles, indices[i] \div 3, StopOf(indices, i, 3 * Len(triangles)) \div 3)
          IN  [points |-> Slice(list, from, StopOf(offsets, i, Len(list))),
               faces |-> [f \in DOMAIN faces |-> [a \in Axes |-> faces[f][a] - from]]]
  BY DEF ObjectSlice, Renamed
<1> HIDE DEF list, offsets, indices, triangles
<1>13. offsets[i] = at[i - 1] /\ StopOf(offsets, i, Len(list)) = at[i]
  <2> DEFINE all == Len(list)
  <2>1. /\ n \in Nat /\ pointCounts \in [1 .. n -> Nat] /\ Totals(at, pointCounts, n) /\ i \in 1 .. n
        /\ offsets = Starts(pointCounts) /\ all = at[n]
    BY <1>1, <1>2, <1>3, <1>7, <1>10, <1>11
  <2> HIDE DEF all
  <2>2. offsets[i] = at[i - 1] /\ StopOf(offsets, i, all) = at[i]
    BY <2>1, StopOfTotals
  <2> QED BY <2>2 DEF all
<1>14. indices[i] \div 3 = fa[i - 1] /\ StopOf(indices, i, 3 * Len(triangles)) \div 3 = fa[i]
  <2> DEFINE all == 3 * Len(triangles)
  <2>1. all = thrice[n]
    BY <1>11
  <2> HIDE DEF all
  <2>2. indices[i] = thrice[i - 1] /\ StopOf(indices, i, all) = thrice[i]
    <3>1. /\ n \in Nat /\ tripled \in [1 .. n -> Nat] /\ Totals(thrice, tripled, n) /\ i \in 1 .. n
          /\ indices = Starts(tripled)
      BY <1>2, <1>7, <1>9, <1>99, <1>11
    <3> QED BY <2>1, <3>1, StopOfTotals
  <2> QED BY <1>7, <1>9, <2>2 DEF all
<1> DEFINE points == Slice(list, at[i - 1], at[i])
           faces == Slice(triangles, fa[i - 1], fa[i])
<1>15. ObjectSlice(decoded, i) =
          [points |-> points, faces |-> [f \in DOMAIN faces |-> [a \in Axes |-> faces[f][a] - at[i - 1]]]]
  BY <1>12, <1>13, <1>14
<1>16. points = Slice(list, at[i - 1], at[i]) /\ faces = Slice(triangles, fa[i - 1], fa[i])
  OBVIOUS
<1> HIDE DEF points, faces
<1>18. /\ points = [v \in DOMAIN points |-> points[v]]
       /\ DOMAIN points = 1 .. Len(piece.points)
       /\ \A v \in 1 .. Len(piece.points) : points[v] = list[at[i - 1] + v]
  <2> DEFINE S == {Shown(mesh.points[v], level, cell) : v \in DOMAIN mesh.points}
             k == Len(piece.points)
  <2>1. list \in Seq(S) /\ k = pointCounts[i]
    BY <1>3, <1>10
  <2> HIDE DEF S, k
  <2>2. points \in Seq(S) /\ DOMAIN points = 1 .. k /\ \A v \in 1 .. k : points[v] = list[at[i - 1] + v]
    <3>1. IsTheRun(S, list, n, pointCounts, at, i, points, k)
      BY <1>1, <1>2, <1>7, <1>10, <1>16, <2>1 DEF IsTheRun
    <3> QED BY <3>1, SliceOfTotals
  <2> QED BY <2>2 DEF k
<1>19. /\ DOMAIN faces = 1 .. Len(piece.faces)
       /\ \A f \in 1 .. Len(piece.faces) : faces[f] = mesh.faces[fa[i - 1] + f]
  <2> DEFINE k == Len(piece.faces)
  <2>1. triangles \in Seq(Face) /\ Len(triangles) = fa[n] /\ k = faceCounts[i]
    BY <1>3, <1>5, <1>11
  <2> HIDE DEF k
  <2>2. DOMAIN faces = 1 .. k /\ \A f \in 1 .. k : faces[f] = triangles[fa[i - 1] + f]
    <3>1. IsTheRun(Face, triangles, n, faceCounts, fa, i, faces, k)
      BY <1>1, <1>2, <1>7, <1>16, <2>1 DEF IsTheRun
    <3> QED BY <3>1, SliceOfTotals
  <2> QED BY <1>11, <2>2 DEF k
<1>20. points = [v \in DOMAIN piece.points |-> Shown(piece.points[v], level, cell)]
  <2>1. ASSUME NEW v \in DOMAIN piece.points PROVE points[v] = Shown(piece.points[v], level, cell)
    <3> DEFINE w == at[i - 1] + v
    <3>1. w \in DOMAIN mesh.points /\ mesh.points[w] = piece.points[v]
      BY <1>1, <1>7 DEF Spans, piece
    <3>2. points[v] = list[w]
      BY <1>4, <1>18
    <3> HIDE DEF w
    <3>3. list[w] = Shown(mesh.points[w], level, cell)
      BY <1>5, <1>10, <3>1
    <3> QED BY <3>1, <3>2, <3>3
  <2> QED BY <1>4, <1>18, <2>1
<1>21. [f \in DOMAIN faces |-> [a \in Axes |-> faces[f][a] - at[i - 1]]] = piece.faces
  <2>0. at[i - 1] \in Nat
    BY <1>1, <1>7 DEF Totals
  <2>1. ASSUME NEW f \in DOMAIN piece.faces
        PROVE  [a \in Axes |-> faces[f][a] - at[i - 1]] = piece.faces[f]
    <3>1. \A a \in Axes : mesh.faces[fa[i - 1] + f][a] = piece.faces[f][a] + at[i - 1]
      BY <1>1, <1>7 DEF Spans, piece
    <3>2. \A a \in Axes : piece.faces[f][a] \in Nat
      BY <1>4, FaceCorners
    <3>3. piece.faces[f] = [a \in Axes |-> piece.faces[f][a]]
      <4> DEFINE face == piece.faces[f]
      <4>1. face \in Face
        BY <1>4
      <4> HIDE DEF face
      <4>2. face = [a \in Axes |-> face[a]]
        BY <4>1 DEF Face
      <4> QED BY <4>2 DEF face
    <3>4. faces[f] = mesh.faces[fa[i - 1] + f]
      BY <1>4, <1>19
    <3>5. \A x, y \in Nat : (x + y) - y = x
      OBVIOUS
    <3>6. \A a \in Axes : faces[f][a] - at[i - 1] = piece.faces[f][a]
      BY <2>0, <3>1, <3>2, <3>4, <3>5
    <3> QED BY <3>3, <3>6
  <2>2. piece.faces = [f \in DOMAIN piece.faces |-> piece.faces[f]]
    <3> DEFINE s == piece.faces
    <3>1. s \in Seq(Face)
      BY <1>4
    <3> HIDE DEF s
    <3>2. s = [f \in DOMAIN s |-> s[f]]
      BY <3>1
    <3> QED BY <3>2 DEF s
  <2> QED BY <1>4, <1>19, <2>1, <2>2
<1> QED
  BY <1>15, <1>20, <1>21 DEF ShownIn, piece

-----------------------------------------------------------------------------
(* What a weld leaves of a surface. *)

\* A list under a mask that keeps all of it.
LEMMA MaskedWhole ==
    ASSUME NEW T, NEW list \in Seq(T), NEW kept, kept = DOMAIN list
    PROVE  Masked(list, kept) = list
<1> DEFINE n == Len(list)
           some == Masked(list, kept)
<1>1. n \in Nat /\ DOMAIN list = 1 .. n /\ kept = 1 .. n
  OBVIOUS
<1>2. kept \in SUBSET DOMAIN list
  OBVIOUS
<1>3. some \in Seq(T) /\ Picked(some, list, kept) /\ DOMAIN some = 1 .. Len(some) /\ Len(some) = Cardinality(kept)
  BY <1>1, <1>2, MaskedPicks, MaskedTyped
<1> HIDE DEF n, some
<1>4. Cardinality(kept) = n
  BY <1>1, FS_Interval
<1>5. ASSUME NEW v \in 1 .. n PROVE Rank(kept, v) = v
  <2>1. {m \in kept : m <= v} = 1 .. v /\ v \in Nat
    BY <1>1
  <2>2. Cardinality(1 .. v) = v
    <3>1. 1 \in Int /\ v \in Int /\ ~(1 > v) /\ v - 1 + 1 = v
      BY <2>1
    <3> QED BY <3>1, FS_Interval
  <2> QED BY <2>1, <2>2 DEF Rank
<1>6. \A v \in 1 .. n : some[v] = list[v]
  BY <1>1, <1>3, <1>5 DEF Picked
<1>7. DOMAIN some = 1 .. n
  BY <1>3, <1>4
<1>8. some = [v \in 1 .. n |-> some[v]] /\ list = [v \in 1 .. n |-> list[v]]
  BY <1>1, <1>3, <1>7
<1>9. some = list
  BY <1>6, <1>8
<1> QED
  BY <1>9 DEF some

\* Faces by the places of their corners: leaving out vertices moves none.
LEMMA CompactedPlaces ==
    ASSUME NEW points \in Seq(Point), NEW faces \in Seq(Face), NEW kept \in SUBSET DOMAIN points,
           Used(faces) \subseteq kept, NEW mesh, mesh = Compacted(points, faces, kept)
    PROVE  /\ DOMAIN mesh.faces = DOMAIN faces
           /\ \A f \in DOMAIN faces : \A a \in Axes : mesh.points[mesh.faces[f][a]] = points[faces[f][a]]
<1>1. /\ mesh.points = Masked(points, kept)
      /\ mesh.faces = [f \in DOMAIN faces |-> [a \in Axes |-> Rank(kept, faces[f][a])]]
  BY DEF Compacted, Renamed
<1>2. Len(points) \in Nat /\ DOMAIN points = 1 .. Len(points)
  OBVIOUS
<1>3. \A v \in kept : mesh.points[Rank(kept, v)] = points[v]
  <2>1. Picked(Masked(points, kept), points, kept)
    BY <1>2, MaskedPicks
  <2>2. Picked(mesh.points, points, kept)
    BY <1>1, <2>1
  <2> QED BY <2>2 DEF Picked
<1>4. ASSUME NEW f \in DOMAIN faces, NEW a \in Axes PROVE mesh.points[mesh.faces[f][a]] = points[faces[f][a]]
  <2>1. mesh.faces[f][a] = Rank(kept, faces[f][a])
    BY <1>1
  <2>2. faces[f][a] \in kept
    BY FaceCorners
  <2> QED BY <1>3, <2>1, <2>2
<1>5. DOMAIN mesh.faces = DOMAIN faces
  BY <1>1
<1> QED
  BY <1>4, <1>5

\* Where the first vertex at a place is says which place it is.
LEMMA FirstsAgree ==
    ASSUME NEW points \in Seq(Point), NEW v \in DOMAIN points, NEW w \in DOMAIN points
    PROVE  FirstAt(points)[v] = FirstAt(points)[w] <=> points[v] = points[w]
<1>1. /\ points[FirstAt(points)[v]] = points[v]
      /\ points[FirstAt(points)[w]] = points[w]
  BY FirstIsThere
<1>2. ASSUME points[v] = points[w] PROVE FirstAt(points)[v] = FirstAt(points)[w]
  <2>1. {u \in DOMAIN points : points[u] = points[v]} = {u \in DOMAIN points : points[u] = points[w]}
    BY <1>2
  <2> QED BY <2>1 DEF FirstAt
<1> QED
  BY <1>1, <1>2

\* Fusing loses the faces with two corners at one place, and no other.
LEMMA FusedPlaces ==
    ASSUME NEW mesh, IsMesh(mesh), NEW fused, fused = Fused(mesh)
    PROVE  /\ \A g \in DOMAIN fused.faces : \E f \in DOMAIN mesh.faces :
                 Placed(fused, g) = Placed(mesh, f) /\ Proper(Placed(mesh, f))
           /\ \A f \in DOMAIN mesh.faces : Proper(Placed(mesh, f)) =>
                 \E g \in DOMAIN fused.faces : Placed(fused, g) = Placed(mesh, f)
<1> DEFINE points == mesh.points
           first == FirstAt(points)
           kept == {first[v] : v \in DOMAIN points}
           named == RenamedBy(mesh.faces, first)
           faces == ProperFaces(named)
           proper == {f \in DOMAIN named : Proper(named[f])}
<1>1. points \in Seq(Point) /\ mesh.faces \in Seq(Face) /\ Used(mesh.faces) \subseteq DOMAIN points
      /\ DOMAIN points \subseteq Nat \ {0}
  BY DEF IsMesh
<1>2. \A v \in DOMAIN points : first[v] \in DOMAIN points /\ points[first[v]] = points[v]
  BY <1>1, FirstIsThere
<1>3. DOMAIN first = DOMAIN points
  BY DEF FirstAt
<1>4. fused = Compacted(points, faces, kept)
  BY DEF Fused, FirstAt, RenamedBy
<1>5. \A v, w \in DOMAIN points : first[v] = first[w] <=> points[v] = points[w]
  BY <1>1, FirstsAgree
<1> HIDE DEF first
<1>6. /\ named \in Seq(Face) /\ DOMAIN named = DOMAIN mesh.faces
      /\ \A f \in DOMAIN mesh.faces : \A a \in Axes : named[f][a] = first[mesh.faces[f][a]]
      /\ Used(named) = {first[v] : v \in Used(mesh.faces)}
  <2>1. \A v \in Used(mesh.faces) : first[v] \in Nat \ {0}
    BY <1>1, <1>2
  <2> HIDE DEF named, points
  <2> QED BY <1>1, <1>3, <2>1, RenamedTyped DEF named
<1>7. \A f \in DOMAIN mesh.faces : \A a \in Axes : mesh.faces[f][a] \in DOMAIN points
  BY MeshCorners
<1>8. /\ faces = Masked(named, proper) /\ proper \in SUBSET DOMAIN named
      /\ \A f \in proper : Proper(named[f])
      /\ \A f \in DOMAIN named : Proper(named[f]) => f \in proper
  BY DEF ProperFaces
<1> HIDE DEF points
<1>9. ASSUME NEW f \in DOMAIN mesh.faces PROVE Proper(named[f]) <=> Proper(Placed(mesh, f))
  <2>1. /\ Placed(mesh, f)[1] = points[mesh.faces[f][1]] /\ Placed(mesh, f)[2] = points[mesh.faces[f][2]]
        /\ Placed(mesh, f)[3] = points[mesh.faces[f][3]]
    BY DEF Placed, Axes, points
  <2>2. 1 \in Axes /\ 2 \in Axes /\ 3 \in Axes
    BY DEF Axes
  <2> QED BY <1>5, <1>6, <1>7, <2>1, <2>2 DEF Proper
<1> HIDE DEF named
<1>10. faces \in Seq(Face) /\ Used(faces) \subseteq Used(named)
  BY <1>6, ProperFacesTyped
<1>11. /\ \A g \in DOMAIN faces : \E f \in proper : faces[g] = named[f]
       /\ \A f \in proper : \E g \in DOMAIN faces : faces[g] = named[f]
  <2>1. Len(named) \in Nat /\ DOMAIN named = 1 .. Len(named)
    BY <1>6
  <2>2. Picked(faces, named, proper)
    <3> HIDE DEF proper, faces
    <3> QED BY <1>8, <2>1, MaskedPicks
  <2> HIDE DEF proper, faces
  <2> QED BY <2>2 DEF Picked
<1> HIDE DEF faces, proper
<1>12. kept \in SUBSET DOMAIN points /\ Used(faces) \subseteq kept
  BY <1>1, <1>2, <1>6, <1>10
<1> HIDE DEF kept
<1>13. /\ DOMAIN fused.faces = DOMAIN faces
       /\ \A g \in DOMAIN faces : \A a \in Axes : fused.points[fused.faces[g][a]] = points[faces[g][a]]
  BY <1>1, <1>4, <1>10, <1>12, CompactedPlaces
<1>14. ASSUME NEW g \in DOMAIN faces, NEW f \in DOMAIN mesh.faces, faces[g] = named[f]
       PROVE  Placed(fused, g) = Placed(mesh, f)
  <2>1. \A a \in Axes : fused.points[fused.faces[g][a]] = points[mesh.faces[f][a]]
    BY <1>2, <1>6, <1>7, <1>13, <1>14
  <2> QED BY <2>1 DEF Placed, points
<1>15. ASSUME NEW g \in DOMAIN fused.faces
       PROVE  \E f \in DOMAIN mesh.faces : Placed(fused, g) = Placed(mesh, f) /\ Proper(Placed(mesh, f))
  <2>1. PICK f \in proper : faces[g] = named[f]
    BY <1>11, <1>13
  <2>2. f \in DOMAIN mesh.faces /\ Proper(named[f])
    BY <1>6, <1>8
  <2> QED BY <1>9, <1>13, <1>14, <2>1, <2>2
<1>16. ASSUME NEW f \in DOMAIN mesh.faces, Proper(Placed(mesh, f))
       PROVE  \E g \in DOMAIN fused.faces : Placed(fused, g) = Placed(mesh, f)
  <2>0. Proper(named[f])
    BY <1>9, <1>16
  <2>1. f \in proper
    BY <1>6, <2>0 DEF proper
  <2>2. PICK g \in DOMAIN faces : faces[g] = named[f]
    BY <1>11, <2>1
  <2> QED BY <1>13, <1>14, <2>2
<1> QED
  BY <1>15, <1>16

\* Stacked pieces have the surfaces of the pieces.
LEMMA ConcatenatedPlaces ==
    ASSUME NEW pieces, ArePieces(pieces), NEW mesh, mesh = Concatenated(pieces)
    PROVE  /\ \A g \in DOMAIN mesh.faces : \E k \in DOMAIN pieces : \E f \in DOMAIN pieces[k].faces :
                 Placed(mesh, g) = Placed(pieces[k], f)
           /\ \A k \in DOMAIN pieces : \A f \in DOMAIN pieces[k].faces : \E g \in DOMAIN mesh.faces :
                 Placed(mesh, g) = Placed(pieces[k], f)
<1> DEFINE n == Len(pieces)
<1>1. PICK at, fa : Totals(at, PointCounts(pieces), n) /\ Spans(mesh, pieces, at, fa, n)
  BY PiecesAreSpans
<1>2. n \in Nat /\ DOMAIN pieces = 1 .. n /\ \A k \in 1 .. n : IsMesh(pieces[k])
  BY DEF ArePieces
<1> HIDE DEF n
<1>3. ASSUME NEW k \in 1 .. n, NEW f \in DOMAIN pieces[k].faces
      PROVE  /\ fa[k - 1] + f \in DOMAIN mesh.faces
             /\ Placed(mesh, fa[k - 1] + f) = Placed(pieces[k], f)
  <2> DEFINE g == fa[k - 1] + f
  <2>1. /\ g \in DOMAIN mesh.faces
        /\ \A a \in Axes : mesh.faces[g][a] = pieces[k].faces[f][a] + at[k - 1]
    BY <1>1 DEF Spans
  <2> HIDE DEF g
  <2>2. ASSUME NEW a \in Axes PROVE mesh.points[mesh.faces[g][a]] = pieces[k].points[pieces[k].faces[f][a]]
    <3> DEFINE v == pieces[k].faces[f][a]
               w == at[k - 1] + v
               u == v + at[k - 1]
    <3>1. v \in DOMAIN pieces[k].points /\ v \in Nat
      BY <1>2, MeshCorners
    <3>5. at[k - 1] \in Nat
      <4>1. k - 1 \in 0 .. n
        BY <1>2
      <4> QED BY <1>1, <4>1 DEF Totals
    <3>2. mesh.points[w] = pieces[k].points[v]
      <4> HIDE DEF v
      <4> QED BY <1>1, <3>1 DEF Spans
    <3>3. mesh.faces[g][a] = u
      BY <2>1
    <3>4. u = w
      <4> HIDE DEF v
      <4> QED BY <3>1, <3>5
    <3> HIDE DEF u, w
    <3> QED BY <3>2, <3>3, <3>4
  <2>3. Placed(mesh, g) = Placed(pieces[k], f)
    BY <2>2 DEF Placed
  <2> QED BY <2>1, <2>3 DEF g
<1>4. ASSUME NEW g \in DOMAIN mesh.faces
      PROVE  \E k \in 1 .. n : \E f \in DOMAIN pieces[k].faces : Placed(mesh, g) = Placed(pieces[k], f)
  <2>1. PICK k \in 1 .. n : \E f \in DOMAIN pieces[k].faces : g = fa[k - 1] + f
    BY <1>1 DEF Spans
  <2>2. PICK f \in DOMAIN pieces[k].faces : g = fa[k - 1] + f
    BY <2>1
  <2> QED BY <1>3, <2>2
<1>5. ASSUME NEW k \in DOMAIN pieces, NEW f \in DOMAIN pieces[k].faces
      PROVE  \E g \in DOMAIN mesh.faces : Placed(mesh, g) = Placed(pieces[k], f)
  BY <1>2, <1>3
<1>6. ASSUME NEW g \in DOMAIN mesh.faces
      PROVE  \E k \in DOMAIN pieces : \E f \in DOMAIN pieces[k].faces : Placed(mesh, g) = Placed(pieces[k], f)
  BY <1>2, <1>4
<1> QED
  BY <1>5, <1>6

-----------------------------------------------------------------------------
(* Every piece in its row. *)

\* A row decodes to its pieces.
LEMMA RowDecodes ==
    ASSUME Covered, NEW level, NEW cell, NEW row, row = Row(level, cell),
           NEW decoded, decoded = DecodedRow(row, <<level, cell>>)
    PROVE  /\ DecodesTo(decoded, PiecesIn(level, cell), level, cell)
           /\ decoded.ids = IdsIn(level, cell)
<1> DEFINE pieces == PiecesIn(level, cell)
           ids == IdsIn(level, cell)
           mesh == Concatenated(pieces)
<1>1. ArePieces(pieces) /\ DOMAIN pieces = DOMAIN ids
  BY PiecesInTyped DEF PiecesIn
<1>2. DOMAIN ids = 1 .. Len(pieces)
  BY <1>1 DEF ArePieces
<1>3. /\ row.positions = [v \in DOMAIN mesh.points |-> Quantized(mesh.points[v], cell, level)]
      /\ row.indices = mesh.faces /\ row.ids = ids
      /\ row.vertexOffsets = Starts([i \in DOMAIN ids |-> Len(pieces[i].points)])
      /\ row.indexOffsets = Starts([i \in DOMAIN ids |-> 3 * Len(pieces[i].faces)])
  BY DEF Row
<1>4. /\ decoded.points = [v \in DOMAIN row.positions |-> Decoded(row.positions[v], cell, level)]
      /\ decoded.faces = row.indices /\ decoded.ids = row.ids
      /\ decoded.vertexOffsets = row.vertexOffsets /\ decoded.indexOffsets = row.indexOffsets
  BY DEF DecodedRow
<1> HIDE DEF pieces, ids, mesh
<1>5. decoded.points = [v \in DOMAIN mesh.points |-> Shown(mesh.points[v], level, cell)]
  BY <1>3, <1>4, ZenonT(60) DEF Shown
<1>6. /\ decoded.vertexOffsets = Starts(PointCounts(pieces))
      /\ decoded.indexOffsets = Starts([i \in 1 .. Len(pieces) |-> 3 * Len(pieces[i].faces)])
  BY <1>2, <1>3, <1>4 DEF PointCounts
<1>7. decoded.faces = mesh.faces /\ decoded.ids = ids
  BY <1>3, <1>4
<1> QED
  BY <1>5, <1>6, <1>7 DEF DecodesTo, mesh, pieces, ids

\* Every piece of the build is in the row of its cell, and what is sliced out there is the piece.
IsRead(key) ==
    LET cell == <<key[1], key[2]>>
    IN  /\ cell \in Cells /\ Readable(cell)
        /\ \E i \in DOMAIN ReadCell(cell).ids : ReadCell(cell).ids[i] = key[3]
        /\ \A i \in DOMAIN ReadCell(cell).ids :
              ReadCell(cell).ids[i] = key[3] =>
                 ObjectSlice(ReadCell(cell), i) = ShownIn(perLevel[key], key[1], key[2])

\* It is so of every piece.
LEMMA PiecesAreRead ==
    ASSUME Covered, Shelved, phase = "written", fault = "none", NEW key \in DOMAIN perLevel
    PROVE  IsRead(key)
<1>1. PICK task : IsTask(task) /\ key = KeyOf(task)
  BY DEF Covered
<1>2. key = <<key[1], key[2], key[3]>> /\ key[3] \in Ids
  <2>1. task.id \in Ids
    BY <1>1, TaskTyped
  <2> QED BY <1>1, <2>1 DEF KeyOf
<1> DEFINE level == key[1]
           code == key[2]
           id == key[3]
           cell == <<level, code>>
           S == {i \in Ids : <<level, code, i>> \in DOMAIN perLevel}
           ids == IdsIn(level, code)
           pieces == PiecesIn(level, code)
           decoded == ReadCell(cell)
<1>3. cell \in CellKeys /\ cell[1] = level /\ cell[2] = code
  BY DEF CellKeys
<1>4. Readable(cell) /\ decoded = DecodedRow(Row(level, code), <<level, code>>) /\ Cells = CellKeys
  BY <1>3, RowIsRead, UnderThePrefix
<1>5. DecodesTo(decoded, pieces, level, code) /\ decoded.ids = ids
  BY <1>4, RowDecodes
<1>6. Lists(ids, S)
  <2>1. IsFiniteSet(Ids) /\ Ids \subseteq Nat
    BY BuildAssumption DEF Covered, Ids
  <2>2. S \subseteq Ids
    OBVIOUS
  <2>3. ids = InOrder(S)
    BY DEF IdsIn
  <2> HIDE DEF S, ids
  <2>4. S \in SUBSET Int
    BY <2>1, <2>2
  <2>5. IsFiniteSet(S)
    BY <2>1, <2>2, FS_Subset
  <2> QED BY <2>3, <2>4, <2>5, InOrderLists
<1>7. id \in S
  BY <1>2
<1>8. pieces = [i \in DOMAIN ids |-> perLevel[<<level, code, ids[i]>>]] /\ ArePieces(pieces)
  BY PiecesInTyped DEF PiecesIn
<1>9. key = <<level, code, id>>
  BY <1>2
<1> HIDE DEF S, ids, pieces, decoded, cell, id
<1>10. \E i \in DOMAIN ids : ids[i] = id
  BY <1>6, <1>7 DEF Lists
<1>11. ASSUME NEW i \in DOMAIN ids, ids[i] = id
       PROVE  ObjectSlice(decoded, i) = ShownIn(perLevel[key], level, code)
  <2>1. pieces[i] = perLevel[key] /\ DOMAIN pieces = DOMAIN ids /\ DOMAIN pieces = 1 .. Len(pieces)
    BY <1>8, <1>9, <1>11 DEF ArePieces
  <2>2. i \in 1 .. Len(pieces)
    BY <2>1
  <2> QED BY <1>5, <1>8, <2>1, <2>2, PieceIsSliced
<1>12. /\ \E i \in DOMAIN decoded.ids : decoded.ids[i] = id
       /\ \A i \in DOMAIN decoded.ids :
             decoded.ids[i] = id => ObjectSlice(decoded, i) = ShownIn(perLevel[key], level, code)
  BY <1>5, <1>10, <1>11
<1> QED
  BY <1>3, <1>4, <1>12 DEF IsRead, cell, decoded, id

\* No two cells have one code.
LEMMA CodesDiffer ==
    ASSUME NEW s \in Coded, NEW t \in Coded, MortonEncode(s) = MortonEncode(t)
    PROVE  s = t
<1>1. MortonDecode(MortonEncode(s)) = s /\ MortonDecode(MortonEncode(t)) = t
  BY CodedTyped, MortonRoundTrip
<1> QED
  BY <1>1

\* The codes of some cells, which are finitely many.
LEMMA CodesFinite ==
    ASSUME NEW S \in SUBSET Coded, NEW C, C = {MortonEncode(t) : t \in S}
    PROVE  C \in SUBSET Int /\ IsFiniteSet(C)
<1> DEFINE V == {Visit(t) : t \in S}
           at(x) == CHOOSE t \in S : Visit(t) = x
           f == [x \in V |-> MortonEncode(at(x))]
<1>1. IsFiniteSet(V)
  BY VisitsFinite
<1>2. \A t \in Coded : MortonEncode(t) \in Nat
  BY CodedTyped, EncodeIsCode
<1>3. C \in SUBSET Int
  BY <1>2
<1>4. ASSUME NEW t \in S PROVE Visit(t) \in V /\ at(Visit(t)) = t
  <2>1. at(Visit(t)) \in S /\ Visit(at(Visit(t))) = Visit(t)
    OBVIOUS
  <2> HIDE DEF at
  <2> QED BY <2>1, VisitsDiffer
<1>5. \A x \in V : \E t \in S : x = Visit(t)
  OBVIOUS
<1> HIDE DEF V, at
<1>6. \A x \in V : at(x) \in S
  BY <1>4, <1>5
<1>7. f \in [V -> C] /\ \A c \in C : \E x \in V : f[x] = c
  BY <1>4, <1>6
<1>8. f \in Surjection(V, C)
  <2> HIDE DEF f
  <2> QED BY <1>7 DEF Surjection
<1> QED
  BY <1>1, <1>3, <1>8, FS_Surjection

FinestKey(id, t) == <<0, MortonEncode(t), id>>

\* The finest pieces of an object are its fragments.
LEMMA FinestIsCut ==
    ASSUME Covered, Settled, phase = "written", NEW id \in Ids, NEW t \in DOMAIN fragments[id]
    PROVE  /\ FinestKey(id, t) \in DOMAIN perLevel
           /\ ShownIn(perLevel[FinestKey(id, t)], 0, MortonEncode(t)) = Fine(id, t)
<1> DEFINE task == Task(id, 0, t)
<1>1. 0 \in Levels /\ Fragments(fragments[id])
  BY BuildAssumption DEF Covered, Levels
<1>2. IsTask(task) /\ KeyOf(task) \in DOMAIN perLevel
  BY <1>1 DEF Covered, IsTask
<1>3. task.triple = t /\ task.level = 0 /\ task.id = id
  BY <1>1, FinestPiece DEF Task
<1> HIDE DEF task
<1>4. KeyOf(task) = FinestKey(id, t)
  BY <1>3 DEF KeyOf, FinestKey
<1>5. Settles(task, perLevel[KeyOf(task)])
  BY <1>2 DEF Settled
<1>6. /\ perLevel[KeyOf(task)].points = fragments[id][t].points
      /\ perLevel[KeyOf(task)].faces = fragments[id][t].faces
  BY <1>3, <1>5 DEF Settles
<1> QED
  BY <1>2, <1>4, <1>6 DEF ShownIn, Fine

\* The finest pieces are of nothing else.
LEMMA FinestAreCut ==
    ASSUME Covered, phase = "written", NEW key \in DOMAIN perLevel, key[1] = 0
    PROVE  \E t \in DOMAIN fragments[key[3]] : key = FinestKey(key[3], t)
<1>1. PICK task : IsTask(task) /\ key = KeyOf(task)
  BY DEF Covered
<1>2. PICK id \in Ids, level \in Levels : \E t \in DOMAIN fragments[id] : task = Task(id, level, t)
  BY <1>1 DEF IsTask
<1>3. PICK t \in DOMAIN fragments[id] : task = Task(id, level, t)
  BY <1>2
<1>4. key = <<task.level, MortonEncode(task.triple), task.id>> /\ task.level = level /\ task.id = id
  BY <1>1, <1>3 DEF KeyOf, Task
<1>5. level = 0 /\ key[3] = id
  BY <1>4
<1>6. Fragments(fragments[id])
  BY DEF Covered
<1>7. task.triple = t
  BY <1>3, <1>5, <1>6, FinestPiece
<1> QED
  BY <1>4, <1>5, <1>7 DEF FinestKey

-----------------------------------------------------------------------------
(* An object at the finest level (Collection.object_mesh). *)

\* A finest cell shows a mesh of what was cut for it.
LEMMA FineIsMesh ==
    ASSUME Covered, phase # "cut", NEW id \in Ids, NEW t \in DOMAIN fragments[id]
    PROVE  IsMesh(Fine(id, t)) /\ Fine(id, t).faces # <<>>
<1> DEFINE cut == fragments[id][t]
           code == MortonEncode(t)
           mesh == Fine(id, t)
<1>1. Shaped(cut) /\ t \in Coded
  BY DEF Covered, Fragments
<1>2. IsMesh(cut) /\ cut.faces # <<>>
  <2>1. ASSUME cut.faces = <<>> PROVE DOMAIN cut.faces = {}
    BY <2>1
  <2> QED BY <1>1, <2>1 DEF Shaped
<1>3. MortonDecode(code) = t /\ t \in Triples
  BY <1>1, CodedTyped, MortonRoundTrip
<1>4. mesh.points = [v \in DOMAIN cut.points |-> Shown(cut.points[v], 0, code)] /\ mesh.faces = cut.faces
  BY DEF Fine, ShownIn
<1> HIDE DEF cut, code, mesh
<1>5. cut.points \in Seq(Point) /\ cut.faces \in Seq(Face) /\ Used(cut.faces) \subseteq DOMAIN cut.points
  BY <1>2 DEF IsMesh
<1>6. ASSUME NEW p \in Point PROVE Shown(p, 0, code) \in Point
  <2> DEFINE q == Quantized(p, code, 0)
  <2>1. q \in [Axes -> 0 .. QuantMax]
    BY <1>3, QuantizedTyped
  <2>2. ASSUME NEW a \in Axes PROVE DecodedAt(q[a], Origin(code, 0)[a], Step(0)[a]) \in Int
    <3> DEFINE n == q[a]
               from == Origin(code, 0)[a]
               step == Step(0)[a]
    <3>1. n \in Int
      BY <2>1, LatticeAssumption
    <3>2. step \in Int /\ Extent(0)[a] \in Int
      BY StepTyped
    <3>3. from \in Int
      <4>1. from = t[a] * Extent(0)[a] /\ t[a] \in Int
        BY <1>3 DEF Origin, Triples
      <4> DEFINE e == Extent(0)[a]
                 c == t[a]
      <4>2. e \in Int /\ c \in Int /\ from = c * e
        BY <3>2, <4>1
      <4> HIDE DEF e, c, from
      <4> QED BY <4>2
    <3> HIDE DEF n, from, step
    <3>4. from + n * step \in Int
      BY <3>1, <3>2, <3>3
    <3> QED BY <3>4 DEF DecodedAt, n, from, step
  <2>3. Shown(p, 0, code) = [a \in Axes |-> DecodedAt(q[a], Origin(code, 0)[a], Step(0)[a])]
    BY DEF Shown, Decoded
  <2> HIDE DEF q
  <2> QED BY <2>2, <2>3 DEF Point
<1>7. mesh.points \in Seq(Point) /\ DOMAIN mesh.points = DOMAIN cut.points
  <2> DEFINE n == Len(cut.points)
  <2>1. n \in Nat /\ DOMAIN cut.points = 1 .. n /\ \A v \in 1 .. n : cut.points[v] \in Point
    BY <1>5
  <2> HIDE DEF n
  <2>2. \A v \in 1 .. n : Shown(cut.points[v], 0, code) \in Point
    BY <1>6, <2>1
  <2>3. mesh.points \in [1 .. n -> Point]
    BY <1>4, <2>1, <2>2
  <2> QED BY <2>1, <2>3
<1>8. IsMesh(mesh) /\ mesh.faces # <<>>
  BY <1>2, <1>4, <1>5, <1>7 DEF IsMesh
<1> QED
  BY <1>8 DEF mesh

\* The codes of the cells in which an object was cut.
CodesOf(id) == {MortonEncode(t) : t \in DOMAIN fragments[id]}

\* The cells that the catalog names for an object at the finest level are those it was cut in.
LEMMA CellsAreTheCuts ==
    ASSUME Covered, Settled, Shelved, phase = "written", fault = "none", NEW id \in Ids
    PROVE  /\ \A cell \in collection.objects[id].cells \cap Cells : cell[1] = 0 =>
                 \E t \in DOMAIN fragments[id] : cell = <<0, MortonEncode(t)>>
           /\ \A t \in DOMAIN fragments[id] :
                 <<0, MortonEncode(t)>> \in collection.objects[id].cells \cap Cells
           /\ CellsForObject(id, 0) = InOrder(CodesOf(id))
<1> DEFINE named == collection.objects[id].cells \cap Cells
<1>1. collection.objects[id].cells = HomesOf(id) /\ Cells = CellKeys
  BY UnderThePrefix DEF Catalogued
<1>2. ASSUME NEW cell \in named, cell[1] = 0
      PROVE  \E t \in DOMAIN fragments[id] : cell = <<0, MortonEncode(t)>>
  <2>1. PICK key \in {k \in DOMAIN perLevel : k[3] = id} : cell = <<key[1], key[2]>>
    BY <1>1 DEF HomesOf
  <2>2. key \in DOMAIN perLevel /\ key[3] = id /\ key[1] = 0
    BY <1>2, <2>1
  <2>3. PICK t \in DOMAIN fragments[id] : key = FinestKey(id, t)
    BY <2>2, FinestAreCut
  <2> QED BY <2>1, <2>3 DEF FinestKey
<1>3. ASSUME NEW t \in DOMAIN fragments[id]
      PROVE  <<0, MortonEncode(t)>> \in named
  <2> DEFINE key == FinestKey(id, t)
  <2>1. key \in DOMAIN perLevel
    BY FinestIsCut
  <2>2. <<key[1], key[2]>> = <<0, MortonEncode(t)>> /\ key[3] = id
    BY DEF FinestKey
  <2> HIDE DEF key
  <2> QED BY <1>1, <2>1, <2>2 DEF HomesOf, CellKeys
<1>4. CellsForObject(id, 0) = InOrder(CodesOf(id))
  <2> DEFINE C == {cell[2] : cell \in {k \in named : k[1] = 0}}
  <2>1. CellsForObject(id, 0) = InOrder(C)
    BY DEF CellsForObject
  <2>2. ASSUME NEW c \in C PROVE c \in CodesOf(id)
    <3>1. PICK cell \in named : cell[1] = 0 /\ c = cell[2]
      OBVIOUS
    <3>2. PICK t \in DOMAIN fragments[id] : cell = <<0, MortonEncode(t)>>
      BY <1>2, <3>1
    <3> QED BY <3>1, <3>2 DEF CodesOf
  <2>3. ASSUME NEW c \in CodesOf(id) PROVE c \in C
    <3>1. PICK t \in DOMAIN fragments[id] : c = MortonEncode(t)
      BY DEF CodesOf
    <3> DEFINE cell == <<0, MortonEncode(t)>>
    <3>2. cell \in named /\ cell[1] = 0 /\ cell[2] = c
      BY <1>3, <3>1
    <3> HIDE DEF cell, named
    <3> QED BY <3>2
  <2> HIDE DEF C
  <2>4. C = CodesOf(id)
    BY <2>2, <2>3
  <2> QED BY <2>1, <2>4
<1> QED
  BY <1>2, <1>3, <1>4

\* What is read of an object at the finest level, cell by cell.
ReadPiece(id, code) ==
    LET decoded == ReadCell(<<0, code>>)
    IN  ObjectSlice(decoded, CHOOSE i \in DOMAIN decoded.ids : decoded.ids[i] = id)

\* What is read in a cell of an object is what was cut for it.
LEMMA CutIsRead ==
    ASSUME Covered, Settled, Shelved, phase = "written", fault = "none", NEW id \in Ids,
           NEW t \in DOMAIN fragments[id]
    PROVE  /\ Readable(<<0, MortonEncode(t)>>)
           /\ \E i \in DOMAIN ReadCell(<<0, MortonEncode(t)>>).ids : ReadCell(<<0, MortonEncode(t)>>).ids[i] = id
           /\ ReadPiece(id, MortonEncode(t)) = Fine(id, t)
<1> DEFINE key == FinestKey(id, t)
           code == MortonEncode(t)
           decoded == ReadCell(<<0, code>>)
           i == CHOOSE i \in DOMAIN decoded.ids : decoded.ids[i] = id
<1>1. key \in DOMAIN perLevel /\ ShownIn(perLevel[key], 0, code) = Fine(id, t)
  BY FinestIsCut
<1>2. key[1] = 0 /\ key[2] = code /\ key[3] = id
  BY DEF FinestKey
<1> HIDE DEF key
<1>3. IsRead(key)
  BY <1>1, PiecesAreRead
<1>4. /\ Readable(<<0, code>>)
      /\ \E j \in DOMAIN decoded.ids : decoded.ids[j] = id
      /\ \A j \in DOMAIN decoded.ids :
            decoded.ids[j] = id => ObjectSlice(decoded, j) = ShownIn(perLevel[key], 0, code)
  BY <1>2, <1>3 DEF IsRead
<1>5. i \in DOMAIN decoded.ids /\ decoded.ids[i] = id
  BY <1>4
<1>6. ReadPiece(id, code) = ObjectSlice(decoded, i)
  BY DEF ReadPiece
<1> HIDE DEF decoded, i
<1>7. ReadPiece(id, code) = Fine(id, t)
  BY <1>1, <1>4, <1>5, <1>6
<1> QED
  BY <1>4, <1>7 DEF decoded

\* The pieces that are read of an object are what was cut of it.
AreTheCuts(pieces, id) ==
    /\ ArePieces(pieces) /\ Len(pieces) = Cardinality(CodesOf(id)) /\ Len(pieces) # 0
    /\ \A c \in DOMAIN pieces : \E t \in DOMAIN fragments[id] : pieces[c] = Fine(id, t)
    /\ \A t \in DOMAIN fragments[id] : \E c \in DOMAIN pieces : pieces[c] = Fine(id, t)

\* It is so of every object that was cut.
LEMMA ReadPiecesAreTheCuts ==
    ASSUME Covered, Settled, Shelved, phase = "written", fault = "none", NEW id \in Ids,
           DOMAIN fragments[id] # {}
    PROVE  AreTheCuts(PiecesRead(id, 0), id)
<1> DEFINE C == CodesOf(id)
           cells == CellsForObject(id, 0)
           pieces == [c \in DOMAIN cells |-> ReadPiece(id, cells[c])]
           kept == {c \in DOMAIN pieces : pieces[c].faces # <<>>}
<1>1. PiecesRead(id, 0) = Masked(pieces, kept)
  BY DEF PiecesRead, ReadPiece
<1>2. Fragments(fragments[id])
  BY DEF Covered
<1>3. C \in SUBSET Int /\ IsFiniteSet(C)
  <2>1. DOMAIN fragments[id] \in SUBSET Coded
    BY <1>2 DEF Fragments
  <2> QED BY <2>1, CodesFinite DEF CodesOf
<1>4. /\ \A c \in C : \E t \in DOMAIN fragments[id] : c = MortonEncode(t)
      /\ \A t \in DOMAIN fragments[id] : MortonEncode(t) \in C
      /\ C # {}
  BY DEF CodesOf
<1>5. cells = InOrder(C)
  BY CellsAreTheCuts
<1> HIDE DEF C, cells
<1>6. Lists(cells, C)
  BY <1>3, <1>5, InOrderLists
<1>7. /\ Len(cells) \in Nat /\ DOMAIN cells = 1 .. Len(cells) /\ Len(cells) = Cardinality(C) /\ Len(cells) # 0
      /\ \A c \in DOMAIN cells : cells[c] \in C
      /\ \A x \in C : \E c \in DOMAIN cells : cells[c] = x
  <2>1. Cardinality(C) # 0
    BY <1>3, <1>4, FS_EmptySet
  <2> QED BY <1>6, <2>1 DEF Lists
<1>8. \A t \in DOMAIN fragments[id] : ReadPiece(id, MortonEncode(t)) = Fine(id, t)
  BY CutIsRead
<1>9. \A t \in DOMAIN fragments[id] : IsMesh(Fine(id, t)) /\ Fine(id, t).faces # <<>>
  BY FineIsMesh
<1> DEFINE n == Len(cells)
<1>10. DOMAIN pieces = 1 .. n /\ \A c \in 1 .. n : pieces[c] = ReadPiece(id, cells[c])
  BY <1>7
<1>11. pieces \in Seq({ReadPiece(id, cells[c]) : c \in 1 .. n}) /\ Len(pieces) = n
  <2> DEFINE S == {ReadPiece(id, cells[c]) : c \in 1 .. n}
  <2>1. pieces \in [1 .. n -> S] /\ n \in Nat
    BY <1>7
  <2> HIDE DEF pieces, n, S
  <2>2. pieces \in Seq(S) /\ Len(pieces) = n
    BY <2>1
  <2> QED BY <2>2 DEF S
<1> HIDE DEF pieces
<1>12. ASSUME NEW c \in DOMAIN pieces PROVE \E t \in DOMAIN fragments[id] : pieces[c] = Fine(id, t)
  <2>1. c \in DOMAIN cells /\ pieces[c] = ReadPiece(id, cells[c])
    BY <1>7, <1>10
  <2>2. PICK t \in DOMAIN fragments[id] : cells[c] = MortonEncode(t)
    BY <1>4, <1>7, <2>1
  <2> QED BY <1>8, <2>1, <2>2
<1>13. ASSUME NEW t \in DOMAIN fragments[id] PROVE \E c \in DOMAIN pieces : pieces[c] = Fine(id, t)
  <2>1. PICK c \in DOMAIN cells : cells[c] = MortonEncode(t)
    BY <1>4, <1>7
  <2>2. c \in DOMAIN pieces /\ pieces[c] = ReadPiece(id, cells[c])
    BY <1>7, <1>10, <2>1
  <2> QED BY <1>8, <2>1, <2>2
<1>14. ArePieces(pieces) /\ \A c \in DOMAIN pieces : pieces[c].faces # <<>>
  BY <1>7, <1>9, <1>10, <1>11, <1>12 DEF ArePieces
<1>15. kept = DOMAIN pieces
  BY <1>14
<1>16. Masked(pieces, kept) = pieces
  <2> DEFINE S == {ReadPiece(id, cells[c]) : c \in 1 .. n}
  <2>1. pieces \in Seq(S)
    BY <1>11
  <2> HIDE DEF S, kept
  <2> QED BY <1>15, <2>1, MaskedWhole
<1>17. AreTheCuts(pieces, id)
  BY <1>7, <1>11, <1>12, <1>13, <1>14 DEF AreTheCuts, C
<1> QED
  BY <1>1, <1>16, <1>17

\* Some cells are finitely many, and as many as their codes as far as being one goes.
LEMMA OneCodeOneCell ==
    ASSUME NEW S \in SUBSET Coded, NEW C, C = {MortonEncode(t) : t \in S}
    PROVE  Cardinality(S) = 1 <=> Cardinality(C) = 1
<1> DEFINE V == {Visit(t) : t \in S}
           at(x) == CHOOSE t \in S : Visit(t) = x
           f == [x \in V |-> at(x)]
<1>1. IsFiniteSet(V)
  BY VisitsFinite
<1>2. IsFiniteSet(C)
  BY CodesFinite
<1>3. ASSUME NEW t \in S PROVE Visit(t) \in V /\ at(Visit(t)) = t
  <2>1. at(Visit(t)) \in S /\ Visit(at(Visit(t))) = Visit(t)
    OBVIOUS
  <2> HIDE DEF at
  <2> QED BY <2>1, VisitsDiffer
<1>4. \A x \in V : \E t \in S : x = Visit(t)
  OBVIOUS
<1> HIDE DEF V, at
<1>5. f \in [V -> S] /\ \A t \in S : \E x \in V : f[x] = t
  BY <1>3, <1>4
<1>6. f \in Surjection(V, S)
  <2> HIDE DEF f
  <2> QED BY <1>5 DEF Surjection
<1>7. IsFiniteSet(S)
  BY <1>1, <1>6, FS_Surjection
<1>8. ASSUME NEW s, S = {s} PROVE \E c : C = {c}
  <2>1. C = {MortonEncode(s)}
    BY <1>8
  <2> QED BY <2>1
<1>9. ASSUME NEW c, C = {c} PROVE \E s : S = {s}
  <2>1. \A t \in S : MortonEncode(t) = c
    BY <1>9
  <2>2. S # {}
    BY <1>9
  <2>3. PICK s \in S : TRUE
    BY <2>2
  <2>4. \A t \in S : t = s
    BY <2>1, CodesDiffer
  <2>5. S = {s}
    BY <2>4
  <2> QED BY <2>5
<1>10. Cardinality(S) = 1 <=> \E s : S = {s}
  BY <1>7, FS_Singleton
<1>11. Cardinality(C) = 1 <=> \E c : C = {c}
  BY <1>2, FS_Singleton
<1> QED
  BY <1>8, <1>9, <1>10, <1>11

\* The surface of what is read of an object: all that was cut where it is one piece, and what a
\* weld leaves of it where it is more.
LEMMA SurfaceReadsBack ==
    ASSUME NEW id, NEW pieces, AreTheCuts(pieces, id)
    PROVE  /\ Len(pieces) = 1 => Surface(Weld(pieces)) = ShownCut(id)
           /\ Len(pieces) # 1 => Surface(Weld(pieces)) = {places \in ShownCut(id) : Proper(places)}
<1>1. /\ ArePieces(pieces)
      /\ \A c \in DOMAIN pieces : \E t \in DOMAIN fragments[id] : pieces[c] = Fine(id, t)
      /\ \A t \in DOMAIN fragments[id] : \E c \in DOMAIN pieces : pieces[c] = Fine(id, t)
  BY DEF AreTheCuts
<1>2. ASSUME NEW c \in DOMAIN pieces, NEW f \in DOMAIN pieces[c].faces
      PROVE  Placed(pieces[c], f) \in ShownCut(id)
  <2>1. PICK t \in DOMAIN fragments[id] : pieces[c] = Fine(id, t)
    BY <1>1
  <2>2. Placed(pieces[c], f) \in Surface(pieces[c])
    BY DEF Surface
  <2> QED BY <2>1, <2>2 DEF ShownCut
<1>3. ASSUME NEW places \in ShownCut(id)
      PROVE  \E c \in DOMAIN pieces : \E f \in DOMAIN pieces[c].faces : places = Placed(pieces[c], f)
  <2>1. PICK t \in DOMAIN fragments[id] : places \in Surface(Fine(id, t))
    BY DEF ShownCut
  <2>2. PICK c \in DOMAIN pieces : pieces[c] = Fine(id, t)
    BY <1>1
  <2>3. places \in Surface(pieces[c])
    BY <2>1, <2>2
  <2> QED BY <2>3 DEF Surface
<1>4. ASSUME Len(pieces) = 1 PROVE Surface(Weld(pieces)) = ShownCut(id)
  <2>1. DOMAIN pieces = {1} /\ Weld(pieces) = pieces[1]
    <3>1. DOMAIN pieces = 1 .. 1
      BY <1>1, <1>4 DEF ArePieces
    <3> QED BY <1>4, <3>1 DEF Weld
  <2>2. \A places \in Surface(pieces[1]) : places \in ShownCut(id)
    BY <1>2, <2>1 DEF Surface
  <2>3. \A places \in ShownCut(id) : places \in Surface(pieces[1])
    BY <1>3, <2>1 DEF Surface
  <2> QED BY <2>1, <2>2, <2>3
<1>5. ASSUME Len(pieces) # 1 PROVE Surface(Weld(pieces)) = {places \in ShownCut(id) : Proper(places)}
  <2> DEFINE mesh == Concatenated(pieces)
             fused == Fused(mesh)
             left == {places \in ShownCut(id) : Proper(places)}
  <2>1. Weld(pieces) = fused
    BY <1>5 DEF Weld
  <2>2. IsMesh(mesh)
    BY <1>1, ConcatenatedIsMesh
  <2>3. /\ \A g \in DOMAIN mesh.faces : \E k \in DOMAIN pieces : \E f \in DOMAIN pieces[k].faces :
              Placed(mesh, g) = Placed(pieces[k], f)
        /\ \A k \in DOMAIN pieces : \A f \in DOMAIN pieces[k].faces : \E g \in DOMAIN mesh.faces :
              Placed(mesh, g) = Placed(pieces[k], f)
    BY <1>1, ConcatenatedPlaces
  <2> HIDE DEF mesh
  <2>4. /\ \A g \in DOMAIN fused.faces : \E f \in DOMAIN mesh.faces :
              Placed(fused, g) = Placed(mesh, f) /\ Proper(Placed(mesh, f))
        /\ \A f \in DOMAIN mesh.faces : Proper(Placed(mesh, f)) =>
              \E g \in DOMAIN fused.faces : Placed(fused, g) = Placed(mesh, f)
    BY <2>2, FusedPlaces
  <2> HIDE DEF fused
  <2>5. ASSUME NEW places \in Surface(fused) PROVE places \in left
    <3>1. PICK g \in DOMAIN fused.faces : places = Placed(fused, g)
      BY DEF Surface
    <3>2. PICK f \in DOMAIN mesh.faces : Placed(fused, g) = Placed(mesh, f) /\ Proper(Placed(mesh, f))
      BY <2>4
    <3>3. PICK k \in DOMAIN pieces : \E h \in DOMAIN pieces[k].faces : Placed(mesh, f) = Placed(pieces[k], h)
      BY <2>3
    <3>4. places \in ShownCut(id)
      BY <1>2, <3>1, <3>2, <3>3
    <3>5. Proper(places)
      BY <3>1, <3>2
    <3> QED BY <3>4, <3>5
  <2>6. ASSUME NEW places \in left PROVE places \in Surface(fused)
    <3>1. places \in ShownCut(id) /\ Proper(places)
      OBVIOUS
    <3>2. PICK k \in DOMAIN pieces : \E h \in DOMAIN pieces[k].faces : places = Placed(pieces[k], h)
      BY <1>3, <3>1
    <3>3. PICK f \in DOMAIN mesh.faces : Placed(mesh, f) = places
      BY <2>3, <3>2
    <3>4. Proper(Placed(mesh, f))
      BY <3>1, <3>3
    <3>5. PICK g \in DOMAIN fused.faces : Placed(fused, g) = Placed(mesh, f)
      BY <2>4, <3>4
    <3> QED BY <3>3, <3>5 DEF Surface
  <2> HIDE DEF left
  <2>7. Surface(fused) = left
    BY <2>5, <2>6
  <2> QED BY <2>1, <2>7 DEF left
<1> QED
  BY <1>4, <1>5

\* An object that was cut reads back.
LEMMA ObjectReadsBack ==
    ASSUME Covered, Settled, Shelved, phase = "written", fault = "none", NEW id \in Ids,
           DOMAIN fragments[id] # {}
    PROVE  /\ ObjectReturns(id, 0)
           /\ Surface(ObjectMesh(id, 0)) = FineSurface(id)
<1> DEFINE pieces == PiecesRead(id, 0)
           named == collection.objects[id].cells \cap Cells
<1>1. AreTheCuts(pieces, id)
  BY ReadPiecesAreTheCuts
<1>2. ObjectMesh(id, 0) = Weld(pieces)
  BY DEF ObjectMesh
<1>3. ASSUME NEW key \in named, key[1] = 0
      PROVE  Readable(key) /\ \E i \in DOMAIN ReadCell(key).ids : ReadCell(key).ids[i] = id
  <2>1. PICK t \in DOMAIN fragments[id] : key = <<0, MortonEncode(t)>>
    BY <1>3, CellsAreTheCuts
  <2> QED BY <2>1, CutIsRead
<1> HIDE DEF pieces
<1>4. pieces # <<>> /\ Fits(Concatenated(pieces))
  <2>1. ArePieces(pieces) /\ Len(pieces) # 0
    BY <1>1 DEF AreTheCuts
  <2>2. pieces # <<>>
    BY <2>1
  <2>3. IsMesh(Concatenated(pieces))
    BY <2>1, ConcatenatedIsMesh
  <2> QED BY <2>2, <2>3 DEF Fits, IsMesh
<1>5. ObjectReturns(id, 0)
  BY <1>3, <1>4 DEF ObjectReturns, pieces
<1>6. Cardinality(DOMAIN fragments[id]) = 1 <=> Len(pieces) = 1
  <2>1. DOMAIN fragments[id] \in SUBSET Coded
    BY DEF Covered, Fragments
  <2>2. Len(pieces) = Cardinality(CodesOf(id))
    BY <1>1 DEF AreTheCuts
  <2> QED BY <2>1, <2>2, OneCodeOneCell DEF CodesOf
<1> QED
  BY <1>1, <1>2, <1>5, <1>6, SurfaceReadsBack DEF FineSurface

\* For every collection, lattice and budget: what is written is what was cut.  The finest mesh of
\* an object, read back through the catalogs, the locators, the offsets and the weld, has the
\* faces of its fragments, each corner where its cell's lattice has it.
THEOREM WhatIsWrittenReadsBack == VerifySpec => []ReadsBack
<1>1. Covered /\ Settled /\ Shelved => ReadsBack
  BY ObjectReadsBack DEF ReadsBack
<1>2. BuildInv /\ SeamsInv /\ Shelved => Covered /\ Settled /\ Shelved
  BY DEF BuildInv, SeamsInv
<1> QED
  BY <1>1, <1>2, ShelvedHolds, PTL

\* At every level, not the finest alone: each piece of the build is in the row of its cell, that
\* row is the one its locator leads to, and what the offsets slice out of it is the piece, each
\* point where the cell's lattice has it.
EveryPieceIsRead == phase = "written" /\ fault = "none" => \A key \in DOMAIN perLevel : IsRead(key)

\* For every build: it is so of every piece, once the collection is written.
THEOREM EveryPieceReadsBack == VerifySpec => []EveryPieceIsRead
<1>1. BuildInv /\ SeamsInv /\ Shelved => EveryPieceIsRead
  BY PiecesAreRead DEF EveryPieceIsRead, BuildInv
<1> QED
  BY <1>1, ShelvedHolds, PTL

-----------------------------------------------------------------------------
(* How far a piece is from what it was made of, and what the builder keeps of that. *)

\* A distance is the largest of the three differences.
LEMMA DistanceTyped ==
    ASSUME NEW p \in Point, NEW q \in Point
    PROVE  /\ Distance(p, q) \in Nat
           /\ \A a \in Axes : Abs(p[a] - q[a]) <= Distance(p, q)
           /\ \A d \in Int : (\A a \in Axes : Abs(p[a] - q[a]) <= d) => Distance(p, q) <= d
           /\ Distance(p, q) = Distance(q, p)
<1> DEFINE S == {Abs(p[a] - q[a]) : a \in Axes}
<1>1. \A a \in Axes : p[a] \in Int /\ q[a] \in Int
  BY DEF Point
<1>2. \A a \in Axes : Abs(p[a] - q[a]) \in Nat /\ Abs(p[a] - q[a]) = Abs(q[a] - p[a])
  BY <1>1 DEF Abs
<1>3. S = {Abs(p[1] - q[1])} \cup {Abs(p[2] - q[2])} \cup {Abs(p[3] - q[3])}
  BY DEF Axes
<1>4. IsFiniteSet(S)
  <2>1. \A x, y, z : IsFiniteSet({x} \cup {y} \cup {z})
    <3> TAKE x, y, z
    <3>1. IsFiniteSet({x})
      BY FS_Singleton
    <3>2. IsFiniteSet({x} \cup {y})
      BY <3>1, FS_AddElement
    <3> QED BY <3>2, FS_AddElement
  <2> HIDE DEF S
  <2>2. PICK x, y, z : S = {x} \cup {y} \cup {z}
    BY <1>3, Zenon
  <2> QED BY <2>1, <2>2, Zenon
<1>5. S \in SUBSET Int /\ S # {} /\ S \subseteq Nat
  BY <1>2 DEF Axes
<1>6. Distance(p, q) = Max(S) /\ Distance(p, q) = Distance(q, p)
  <2>1. S = {Abs(q[a] - p[a]) : a \in Axes}
    BY <1>2
  <2> QED BY <2>1 DEF Distance
<1>7. \A y \in S : \E a \in Axes : y = Abs(p[a] - q[a])
  OBVIOUS
<1>8. \A a \in Axes : Abs(p[a] - q[a]) \in S
  OBVIOUS
<1> HIDE DEF S
<1>9. Max(S) \in S /\ \A y \in S : y <= Max(S)
  BY <1>4, <1>5, MaxMember
<1> QED
  BY <1>5, <1>6, <1>7, <1>8, <1>9

\* No way round is shorter.
LEMMA DistancesAdd ==
    ASSUME NEW p \in Point, NEW q \in Point, NEW r \in Point
    PROVE  Distance(p, r) <= Distance(p, q) + Distance(q, r)
<1> DEFINE m == Distance(p, q)
           n == Distance(q, r)
<1>1. m \in Nat /\ n \in Nat /\ \A a \in Axes : Abs(p[a] - q[a]) <= m /\ Abs(q[a] - r[a]) <= n
  BY DistanceTyped
<1>2. \A a \in Axes : p[a] \in Int /\ q[a] \in Int /\ r[a] \in Int
  BY DEF Point
<1> HIDE DEF m, n
<1>3. ASSUME NEW a \in Axes PROVE Abs(p[a] - r[a]) <= m + n
  BY <1>1, <1>2 DEF Abs
<1>4. m + n \in Int
  BY <1>1
<1>5. Distance(p, r) <= m + n
  BY <1>3, <1>4, DistanceTyped
<1> QED
  BY <1>5 DEF m, n

\* Every point of the one is within the error of one of the other.
Near(points, origins, error) ==
    \A u \in DOMAIN points : \E v \in DOMAIN origins : Distance(points[u], origins[v]) <= error

LEMMA NearItself ==
    ASSUME NEW points \in Seq(Point), NEW error \in Nat
    PROVE  Near(points, points, error)
<1> SUFFICES ASSUME NEW u \in DOMAIN points PROVE Distance(points[u], points[u]) <= error
  BY DEF Near
<1>1. points[u] \in Point
  OBVIOUS
<1>2. \A a \in Axes : Abs(points[u][a] - points[u][a]) <= 0
  BY <1>1 DEF Point, Abs
<1>3. Distance(points[u], points[u]) \in Nat /\ Distance(points[u], points[u]) <= 0
  BY <1>1, <1>2, DistanceTyped
<1> QED
  BY <1>3

LEMMA NearEnough ==
    ASSUME NEW points \in Seq(Point), NEW origins \in Seq(Point), NEW error \in Nat, NEW more \in Nat, error <= more,
           Near(points, origins, error)
    PROVE  Near(points, origins, more)
<1> SUFFICES ASSUME NEW u \in DOMAIN points
             PROVE  \E v \in DOMAIN origins : Distance(points[u], origins[v]) <= more
  BY DEF Near
<1>1. PICK v \in DOMAIN origins : Distance(points[u], origins[v]) <= error
  BY DEF Near
<1>2. Distance(points[u], origins[v]) \in Nat
  <2>1. points[u] \in Point /\ origins[v] \in Point
    OBVIOUS
  <2> QED BY <2>1, DistanceTyped
<1> QED
  BY <1>1, <1>2

\* What a function makes of finitely many things is finite; the largest of it bounds it.
LEMMA ImageFinite ==
    ASSUME NEW S, IsFiniteSet(S), NEW f, NEW T, T = {f[x] : x \in S}
    PROVE  IsFiniteSet(T)
<1> DEFINE g == [x \in S |-> f[x]]
<1>1. g \in [S -> T] /\ \A y \in T : \E x \in S : g[x] = y
  OBVIOUS
<1>2. g \in Surjection(S, T)
  <2> HIDE DEF g
  <2> QED BY <1>1 DEF Surjection
<1> QED
  BY <1>2, FS_Surjection

LEMMA MaxOver ==
    ASSUME NEW S, IsFiniteSet(S), S # {}, NEW f, \A x \in S : f[x] \in Nat, NEW T, T = {f[x] : x \in S}
    PROVE  Max(T) \in Nat /\ \A x \in S : f[x] <= Max(T)
<1>1. IsFiniteSet(T)
  BY ImageFinite
<1>2. T \in SUBSET Int /\ T # {} /\ T \subseteq Nat
  OBVIOUS
<1>3. Max(T) \in T /\ \A y \in T : y <= Max(T)
  BY <1>1, <1>2, MaxMember
<1> QED
  BY <1>2, <1>3

LEMMA MinOver ==
    ASSUME NEW S, IsFiniteSet(S), S # {}, NEW f, \A x \in S : f[x] \in Nat, NEW T, T = {f[x] : x \in S}
    PROVE  Min(T) \in Nat
<1>1. IsFiniteSet(T)
  BY ImageFinite
<1>2. T \in SUBSET Int /\ T # {} /\ T \subseteq Nat
  OBVIOUS
<1>3. Min(T) \in T
  BY <1>1, <1>2, MinMember
<1> QED
  BY <1>2, <1>3

\* Something that has faces has points.
LEMMA FacesHavePoints ==
    ASSUME NEW points, NEW faces \in Seq(Face), faces # <<>>, Used(faces) \subseteq DOMAIN points
    PROVE  DOMAIN points # {}
<1>1. 1 \in DOMAIN faces /\ 1 \in Axes
  BY DEF Axes
<1>2. faces[1][1] \in Used(faces)
  BY <1>1, FaceCorners
<1> QED
  BY <1>2

\* The error of a collapse bounds how far what it returns is from what it was given.
LEMMA ReturnedNear ==
    ASSUME Collapsible, call.faces # <<>>, NEW at \in [DOMAIN call.points -> Point],
           NEW up, Forest(up, Roots(up)), DOMAIN up = DOMAIN call.points, Finish(up, at)
    PROVE  result'.error \in Nat /\ Near(result'.points, call.points, result'.error)
<1> DEFINE roots == Roots(up)
           live == LiveFaces(roots)
           mesh == Compacted(at, live, Used(live))
           D == DOMAIN call.points
           error == Max({Distance(at[roots[v]], call.points[v]) : v \in D})
<1>1. result'.points = mesh.points /\ result'.error = error
  BY DEF Finish, Returned
<1>2. /\ call.points \in Seq(Point) /\ call.faces \in Seq(Face) /\ Len(call.points) \in Nat
      /\ D = 1 .. Len(call.points) /\ Used(call.faces) \subseteq D
  BY CallTyped DEF Collapsible
<1>3. live = ProperFaces(RenamedBy(call.faces, roots))
  BY DEF LiveFaces, RenamedBy
<1>4. roots \in [D -> D]
  BY DEF Forest
<1>5. /\ live \in Seq(Face) /\ Used(live) \in SUBSET DOMAIN at
      /\ \A w \in Used(live) : \E v \in D : w = roots[v]
  <2> DEFINE named == RenamedBy(call.faces, roots)
  <2> HIDE DEF live, roots
  <2>1. Used(call.faces) \subseteq DOMAIN roots /\ \A v \in Used(call.faces) : roots[v] \in Nat \ {0}
    BY <1>2, <1>4
  <2>2. named \in Seq(Face)
    BY <1>2, <2>1, RenamedTyped
  <2>3. \A u \in Used(named) : \E v \in Used(call.faces) : u = roots[v]
    BY <1>2, <2>1, RenamedUses
  <2> HIDE DEF named
  <2>4. ProperFaces(named) \in Seq(Face) /\ Used(ProperFaces(named)) \subseteq Used(named)
    BY <2>2, ProperFacesTyped
  <2>5. live = ProperFaces(named)
    BY <1>3 DEF named
  <2> QED BY <1>2, <1>4, <2>3, <2>4, <2>5
<1>6. at \in Seq(Point)
  BY <1>2
<1> HIDE DEF live
<1>7. \A u \in DOMAIN mesh.points : \E w \in Used(live) : mesh.points[u] = at[w]
  BY <1>5, <1>6, CompactedIsMesh
<1> HIDE DEF mesh, roots
<1> DEFINE f == [v \in D |-> Distance(at[roots[v]], call.points[v])]
<1>8. \A v \in D : f[v] \in Nat
  <2> SUFFICES ASSUME NEW v \in D PROVE Distance(at[roots[v]], call.points[v]) \in Nat
    OBVIOUS
  <2>1. at[roots[v]] \in Point /\ call.points[v] \in Point
    BY <1>2, <1>4
  <2> QED BY <2>1, DistanceTyped
<1>9. error = Max({f[v] : v \in D})
  <2>1. {f[v] : v \in D} = {Distance(at[roots[v]], call.points[v]) : v \in D}
    OBVIOUS
  <2> HIDE DEF f
  <2> QED BY <2>1
<1>10. IsFiniteSet(D) /\ D # {}
  <2>1. IsFiniteSet(1 .. Len(call.points))
    BY <1>2, FS_Interval
  <2>2. D # {}
    BY <1>2, FacesHavePoints
  <2> QED BY <1>2, <2>1, <2>2
<1>11. error \in Nat /\ \A v \in D : f[v] <= error
  <2> HIDE DEF f, error, D
  <2> QED BY <1>8, <1>9, <1>10, MaxOver
<1>12. \A v \in D : Distance(at[roots[v]], call.points[v]) <= error
  <2> HIDE DEF error
  <2> QED BY <1>11
<1> HIDE DEF error, f, D
<1>13. \A u \in DOMAIN mesh.points : \E v \in D : Distance(mesh.points[u], call.points[v]) <= error
  BY <1>5, <1>7, <1>12
<1>14. \A u \in DOMAIN result'.points : \E v \in DOMAIN call.points :
          Distance(result'.points[u], call.points[v]) <= result'.error
  BY <1>1, <1>13 DEF D
<1> QED
  BY <1>1, <1>11, <1>14 DEF Near

\* A collapse under way has faces, and one that is over knows how far it went.
Measured ==
    /\ stage # "idle" => call.faces # <<>>
    /\ stage = "collapsed" => result.error \in Nat /\ Near(result.points, call.points, result.error)

\* Its turns, its beginning and its end keep to that.
LEMMA MeasuredOn ==
    ASSUME Inv, Collapsible, Measured, DecimateStep
    PROVE  Measured'
<1>0. /\ Inv' /\ Collapsible' /\ Forest(parent, Roots(parent)) /\ DOMAIN parent = DOMAIN call.points
  BY DecimateSteps DEF Inv, Sized
<1>1. ASSUME NEW c \in Calls, IsCall(c), Begin(c)
      PROVE  Measured'
  <2>1. call' = c /\ stage' = "collapsing" /\ Len(c.faces) > c.target
    BY <1>1 DEF Begin
  <2>2. c.target \in Nat /\ c.faces \in Seq(Face)
    BY DEF Calls
  <2>3. c.faces # <<>>
    <3>1. ASSUME c.faces = <<>> PROVE Len(c.faces) = 0
      BY <3>1
    <3> QED BY <2>1, <2>2, <3>1
  <2> QED BY <2>1, <2>3 DEF Measured
<1>2. ASSUME NEW edge \in waiting, Skip(edge)
      PROVE  Measured'
  BY <1>2 DEF Skip, Measured
<1>3. ASSUME NEW edge \in waiting, Collapse(edge)
      PROVE  Measured'
  <2>1. /\ ~Blocked(RootA(edge), RootB(edge)) /\ call' = call /\ stage = "collapsing"
        /\ place' = Moved(RootA(edge), RootB(edge), Kept(edge))
    BY <1>3 DEF Collapse, RootA, RootB, Kept
  <2>2. (stage' = stage /\ stage = "collapsing") \/ Finish(Linked(edge), place')
    BY <1>3 DEF Collapse, RootA, RootB, Kept, Dropped, Linked, Hung
  <2>3. DOMAIN Linked(edge) = DOMAIN call.points /\ Forest(Linked(edge), Roots(Linked(edge)))
    BY <2>1, LinkedIsForest
  <2>4. place' \in [DOMAIN call.points -> Point]
    BY <1>0, <2>1 DEF Collapsible
  <2>5. call.faces # <<>>
    BY <2>1 DEF Measured
  <2>6. stage' = "collapsed" =>
           result'.error \in Nat /\ Near(result'.points, call.points, result'.error)
    BY <2>2, <2>3, <2>4, <2>5, ReturnedNear
  <2>7. Near(result'.points, call.points, result'.error) => Near(result.points, call.points, result.error)'
    BY <2>1 DEF Near
  <2> QED BY <2>1, <2>5, <2>6, <2>7 DEF Measured
<1>4. ASSUME RunOut
      PROVE  Measured'
  <2>1. Finish(parent, place) /\ UNCHANGED <<call, place>> /\ call.faces # <<>>
    BY <1>4 DEF RunOut, Measured
  <2>2. place \in [DOMAIN call.points -> Point]
    BY DEF Collapsible
  <2>3. result'.error \in Nat /\ Near(result'.points, call.points, result'.error)
    BY <1>0, <2>1, <2>2, ReturnedNear
  <2>4. Near(result.points, call.points, result.error)'
    BY <2>1, <2>3 DEF Near
  <2> QED BY <2>1, <2>3, <2>4 DEF Measured
<1>5. ASSUME Leave \/ UNCHANGED decimateVars
      PROVE  Measured'
  <2>1. UNCHANGED <<call, result>> /\ (stage' = "idle" \/ stage' = stage)
    BY <1>5 DEF Leave, decimateVars
  <2>2. Near(result.points, call.points, result.error) => Near(result.points, call.points, result.error)'
    BY <2>1 DEF Near
  <2> QED BY <2>1, <2>2 DEF Measured
<1> QED
  BY <1>1, <1>2, <1>3, <1>4, <1>5 DEF DecimateStep, DecimateTurn

\* measure_deviation of two lists of points, neither of them empty.
LEMMA DeviationTyped ==
    ASSUME NEW before \in Seq(Point), NEW after \in Seq(Point), DOMAIN before # {}, DOMAIN after # {}
    PROVE  MeasureDeviation(before, after) \in Nat
<1> DEFINE P == Positions(before)
           Q == Positions(after)
           nearest == [p \in P |-> Min({Distance(p, q) : q \in Q})]
<1>1. P \subseteq Point /\ P # {} /\ Q \subseteq Point /\ Q # {}
  BY DEF Positions
<1>2. IsFiniteSet(P) /\ IsFiniteSet(Q)
  <2>1. IsFiniteSet(DOMAIN before)
    <3>1. DOMAIN before = 1 .. Len(before) /\ Len(before) \in Int
      OBVIOUS
    <3> QED BY <3>1, FS_Interval
  <2>2. IsFiniteSet(DOMAIN after)
    <3>1. DOMAIN after = 1 .. Len(after) /\ Len(after) \in Int
      OBVIOUS
    <3> QED BY <3>1, FS_Interval
  <2>3. P = {before[v] : v \in DOMAIN before} /\ Q = {after[v] : v \in DOMAIN after}
    BY DEF Positions
  <2> HIDE DEF P, Q
  <2> QED BY <2>1, <2>2, <2>3, ImageFinite
<1> HIDE DEF P, Q
<1>3. ASSUME NEW p \in P PROVE nearest[p] \in Nat
  <2> DEFINE f == [q \in Q |-> Distance(p, q)]
             T == {Distance(p, q) : q \in Q}
  <2>1. \A q \in Q : f[q] \in Nat
    BY <1>1, DistanceTyped
  <2>2. T = {f[q] : q \in Q}
    OBVIOUS
  <2>3. nearest[p] = Min(T)
    OBVIOUS
  <2> HIDE DEF f, T, nearest
  <2> QED BY <1>1, <1>2, <2>1, <2>2, <2>3, MinOver
<1>4. MeasureDeviation(before, after) = Max({nearest[p] : p \in P})
  <2>1. {nearest[p] : p \in P} = {Min({Distance(p, q) : q \in Q}) : p \in P}
    OBVIOUS
  <2> HIDE DEF nearest
  <2> QED BY <2>1 DEF MeasureDeviation, P, Q
<1> HIDE DEF nearest
<1> QED
  BY <1>1, <1>2, <1>3, <1>4, MaxOver

\* What the simplifier answers says how far it went; a greedy one went no further.
Deviates ==
    asking = "answered" =>
       /\ answer.error \in Nat
       /\ request.backend.name = "GREEDY" => Near(answer.points, request.points, answer.error)

LEMMA TurnDeviates ==
    ASSUME Collapsible, Answering, Answers, Measured, Deviates, SimplifyTurn
    PROVE  Deviates'
<1>1. ASSUME asking' # "answered" PROVE Deviates'
  BY <1>1 DEF Deviates
<1>2. ASSUME asking # "no", NEW mesh, NEW error \in Nat, NEW relaxed, Answer(mesh, error, relaxed),
             request.backend.name = "GREEDY" => Near(mesh.points, request.points, error)
      PROVE  Deviates'
  <2>1. UNCHANGED request /\ answer'.points = mesh.points /\ answer'.error = error
    BY <1>2 DEF Answer
  <2>2. Near(mesh.points, request.points, error) => Near(answer.points, request.points, answer.error)'
    BY <2>1 DEF Near
  <2> QED BY <1>2, <2>1, <2>2 DEF Deviates
<1>3. CASE TryGreedy
  BY <1>1, <1>3 DEF TryGreedy, Greedy
<1>4. ASSUME NEW outcome \in LibraryOutcomes([points |-> request.points, faces |-> request.faces]),
             TryLibrary(outcome)
      PROVE  Deviates'
  <2>1. asking = "attempt" /\ request.backend.name = "QUADRIC"
    BY <1>4 DEF TryLibrary, Trying
  <2> DEFINE error == MeasureDeviation(request.points, outcome.points)
             relaxed == attempt # request.target
             mesh == [points |-> request.points, faces |-> request.faces]
  <2>2. CASE asking' # "answered"
    BY <1>1, <2>2
  <2>3. CASE asking' = "answered"
    <3>1. outcome.faces # <<>> /\ Answer(outcome, error, relaxed)
      BY <1>4, <2>3 DEF TryLibrary, Relax, Greedy, Vanished
    <3>2. IsMesh(request) /\ request.faces # <<>>
      BY <2>1 DEF Answering, Asked
    <3>3. IsMesh(outcome)
      <4>1. IsMesh(mesh)
        BY <3>2 DEF IsMesh
      <4> HIDE DEF mesh
      <4>2. outcome \in LibraryOutcomes(mesh)
        BY DEF mesh
      <4> QED BY <4>1, <4>2, OutcomesAreMeshes
    <3>4. DOMAIN request.points # {} /\ DOMAIN outcome.points # {}
      BY <3>1, <3>2, <3>3, FacesHavePoints DEF IsMesh
    <3>5. error \in Nat
      BY <3>2, <3>3, <3>4, DeviationTyped DEF IsMesh
    <3> HIDE DEF error, relaxed
    <3> QED BY <1>2, <2>1, <3>1, <3>5
  <2> QED BY <2>2, <2>3
<1>5. ASSUME DecimateTurn, UNCHANGED <<request, attempt, asking, answer>>
      PROVE  Deviates'
  <2>1. Near(answer.points, request.points, answer.error) => Near(answer.points, request.points, answer.error)'
    BY <1>5 DEF Near
  <2> QED BY <1>5, <2>1 DEF Deviates
<1>6. CASE TakeCollapse
  <2>1. asking = "collapse" /\ stage = "collapsed"
    BY <1>6 DEF TakeCollapse, Leave
  <2>2. result.error \in Nat /\ Near(result.points, request.points, result.error)
    BY <2>1 DEF Answers, Measured
  <2>3. asking' # "answered" \/ Answer(result, result.error, attempt # request.target)
    BY <1>6 DEF TakeCollapse, Relax
  <2> QED BY <1>1, <1>2, <2>1, <2>2, <2>3
<1>7. CASE KeepWhole
  <2>1. asking = "attempt" /\ Answer(request, 0, TRUE)
    BY <1>7 DEF KeepWhole
  <2>2. request.points \in Seq(Point)
    BY <2>1 DEF Answering, Asked, IsMesh
  <2>3. Near(request.points, request.points, 0)
    BY <2>2, NearItself
  <2> QED BY <1>2, <2>1, <2>3
<1> QED
  BY <1>3, <1>4, <1>5, <1>6, <1>7 DEF SimplifyTurn

\* The cell of a task.
CellAt(task) == <<task.level, MortonEncode(task.triple)>>

\* The displacement of a cell bounds how far each of its pieces is from what it was made of.
Displaced ==
    phase # "cut" =>
       \A task : IsTask(task) =>
          /\ CellAt(task) \in DOMAIN displacement /\ displacement[CellAt(task)] \in Nat
          /\ input.backend.name = "GREEDY" /\ KeyOf(task) \in DOMAIN perLevel =>
                Near(perLevel[KeyOf(task)].points, Piece(task).points, displacement[CellAt(task)])

LEMMA MaxOfTwo ==
    ASSUME NEW m \in Nat, NEW n \in Nat
    PROVE  Max({m, n}) \in Nat /\ Max({m, n}) \in {m, n} /\ m <= Max({m, n}) /\ n <= Max({m, n})
<1> DEFINE S == {m, n}
<1>1. IsFiniteSet(S)
  <2>1. IsFiniteSet({m})
    BY FS_Singleton
  <2>2. IsFiniteSet({m} \cup {n})
    BY <2>1, FS_AddElement
  <2>3. S = {m} \cup {n}
    OBVIOUS
  <2> QED BY <2>2, <2>3
<1>2. S \in SUBSET Int /\ S # {} /\ m \in S /\ n \in S /\ S \subseteq Nat
  OBVIOUS
<1> HIDE DEF S
<1>3. Max(S) \in S /\ \A y \in S : y <= Max(S)
  BY <1>1, <1>2, MaxMember
<1> QED
  BY <1>2, <1>3 DEF S

LEMMA NearStays ==
    ASSUME UNCHANGED <<input, fragments>>, NEW key, NEW mesh, perLevel'[key] = mesh,
           NEW cell, NEW d, displacement'[cell] = d, NEW task, Near(mesh.points, Piece(task).points, d)
    PROVE  Near(perLevel[key].points, Piece(task).points, displacement[cell])'
<1>1. Piece(task)' = Piece(task)
  BY FragmentsStay
<1> QED
  BY <1>1 DEF Near

\* While no piece is added.
LEMMA DisplacedStays ==
    ASSUME Displaced, UNCHANGED <<input, fragments, perLevel, displacement>>, phase = "cut" => phase' = "cut"
    PROVE  Displaced'
<1> SUFFICES ASSUME phase' # "cut", NEW task, IsTask(task)'
             PROVE  /\ CellAt(task) \in DOMAIN displacement' /\ displacement'[CellAt(task)] \in Nat
                    /\ input'.backend.name = "GREEDY" /\ KeyOf(task) \in DOMAIN perLevel' =>
                         Near(perLevel[KeyOf(task)].points, Piece(task).points, displacement[CellAt(task)])'
  BY DEF Displaced, CellAt, KeyOf
<1>1. IsTask(task) /\ phase # "cut"
  BY FragmentsStay
<1>2. CellAt(task) \in DOMAIN displacement /\ displacement[CellAt(task)] \in Nat
  BY <1>1 DEF Displaced
<1>3. ASSUME input.backend.name = "GREEDY", KeyOf(task) \in DOMAIN perLevel
      PROVE  Near(perLevel[KeyOf(task)].points, Piece(task).points, displacement[CellAt(task)])'
  <2> DEFINE key == KeyOf(task)
             cell == CellAt(task)
             mesh == perLevel[key]
             d == displacement[cell]
  <2>1. Near(mesh.points, Piece(task).points, d) /\ perLevel'[key] = mesh /\ displacement'[cell] = d
    BY <1>1, <1>3 DEF Displaced
  <2>2. KeyOf(task)' = key /\ CellAt(task)' = cell
    BY DEF KeyOf, CellAt
  <2> HIDE DEF key, cell, mesh, d
  <2>3. Near(perLevel[key].points, Piece(task).points, displacement[cell])'
    BY <2>1, NearStays
  <2> QED BY <2>2, <2>3 DEF key, cell
<1> QED
  BY <1>2, <1>3

\* A displacement is only ever raised, to that of a piece that is added.
Raised(task, error) ==
    /\ DOMAIN displacement' = DOMAIN displacement
    /\ \A cell \in DOMAIN displacement :
          IF cell = CellAt(task) /\ error # 0 THEN displacement'[cell] = Max({displacement[cell], error})
          ELSE displacement'[cell] = displacement[cell]

LEMMA HoldDisplaces ==
    ASSUME Covered, Displaced, NEW task \in todo, NEW mesh, IsMesh(mesh), NEW error \in Nat,
           input.backend.name = "GREEDY" => Near(mesh.points, Piece(task).points, error),
           Hold(task, mesh), Raised(task, error), UNCHANGED <<input, phase, fragments>>
    PROVE  Displaced'
<1> DEFINE piece == [points |-> mesh.points, faces |-> mesh.faces]
           key == KeyOf(task)
<1>1. phase # "cut" /\ IsTask(task) /\ key \notin DOMAIN perLevel /\ perLevel' = Put(perLevel, key, piece)
  BY DEF Covered, Hold
<1>2. /\ DOMAIN perLevel' = DOMAIN perLevel \cup {key} /\ perLevel'[key] = piece
      /\ \A k \in DOMAIN perLevel : perLevel'[k] = perLevel[k]
  <2> HIDE DEF piece, key
  <2> QED BY <1>1 DEF Put
<1>3. ASSUME NEW t, IsTask(t)
      PROVE  /\ CellAt(t) \in DOMAIN displacement /\ displacement[CellAt(t)] \in Nat
             /\ CellAt(t) \in DOMAIN displacement' /\ displacement'[CellAt(t)] \in Nat
             /\ displacement[CellAt(t)] <= displacement'[CellAt(t)]
             /\ CellAt(t) = CellAt(task) => error <= displacement'[CellAt(t)]
  <2> DEFINE cell == CellAt(t)
             d == displacement[cell]
  <2>1. cell \in DOMAIN displacement /\ d \in Nat
    BY <1>1, <1>3 DEF Displaced
  <2>2. IF cell = CellAt(task) /\ error # 0 THEN displacement'[cell] = Max({d, error}) ELSE displacement'[cell] = d
    BY <2>1 DEF Raised
  <2>3. Max({d, error}) \in Nat /\ d <= Max({d, error}) /\ error <= Max({d, error})
    BY <2>1, MaxOfTwo
  <2>4. DOMAIN displacement' = DOMAIN displacement
    BY DEF Raised
  <2>5. error = 0 => error <= d
    BY <2>1
  <2> HIDE DEF cell, d
  <2> QED BY <2>1, <2>2, <2>3, <2>4, <2>5 DEF cell, d
<1> HIDE DEF key
<1> SUFFICES ASSUME NEW t, IsTask(t)'
             PROVE  /\ CellAt(t) \in DOMAIN displacement' /\ displacement'[CellAt(t)] \in Nat
                    /\ input'.backend.name = "GREEDY" /\ KeyOf(t) \in DOMAIN perLevel' =>
                         Near(perLevel[KeyOf(t)].points, Piece(t).points, displacement[CellAt(t)])'
  BY <1>1 DEF Displaced, CellAt, KeyOf
<1>4. IsTask(t)
  BY FragmentsStay
<1>5. ASSUME input.backend.name = "GREEDY", KeyOf(t) \in DOMAIN perLevel'
      PROVE  Near(perLevel[KeyOf(t)].points, Piece(t).points, displacement[CellAt(t)])'
  <2> DEFINE k == KeyOf(t)
             cell == CellAt(t)
             d == displacement'[cell]
             m == perLevel'[k]
  <2>1. KeyOf(t)' = k /\ CellAt(t)' = cell
    BY DEF KeyOf, CellAt
  <2>2. PICK n : n = d
    OBVIOUS
  <2>3. PICK w : w = m
    OBVIOUS
  <2>4. Whole(Piece(t)) /\ n \in Nat
    BY <1>1, <1>3, <1>4, <2>2, TasksHavePieces
  <2>5. Near(w.points, Piece(t).points, n)
    <3>1. CASE k = key
      <4>1. t = task /\ w = piece
        BY <1>1, <1>2, <1>4, <2>3, <3>1, KeysDiffer DEF key
      <4>2. Near(piece.points, Piece(t).points, error) /\ error <= n /\ piece.points \in Seq(Point)
        BY <1>3, <1>4, <1>5, <2>2, <4>1 DEF IsMesh
      <4> HIDE DEF piece
      <4> QED BY <2>4, <4>1, <4>2, NearEnough DEF Whole, IsMesh
    <3>2. CASE k \in DOMAIN perLevel
      <4> DEFINE old == displacement[cell]
      <4>1. w = perLevel[k] /\ Whole(w)
        BY <1>2, <2>3, <3>2 DEF Covered
      <4>2. Near(w.points, Piece(t).points, old) /\ old \in Nat /\ old <= n
        BY <1>1, <1>3, <1>4, <1>5, <2>2, <3>2, <4>1 DEF Displaced
      <4> HIDE DEF old
      <4> QED BY <2>4, <4>1, <4>2, NearEnough DEF Whole, IsMesh
    <3> QED BY <1>2, <1>5, <3>1, <3>2
  <2> HIDE DEF k, cell
  <2>6. Near(perLevel[k].points, Piece(t).points, displacement[cell])'
    BY <2>2, <2>3, <2>5, NearStays
  <2> QED BY <2>1, <2>6 DEF k, cell
<1> QED
  BY <1>3, <1>4, <1>5

\* A cut displaces nothing.
LEMMA CutDisplaces ==
    ASSUME Covered, Cut
    PROVE  Displaced'
<1>1. /\ phase' = "levels" /\ DOMAIN perLevel' = {}
      /\ displacement' = [cell \in {<<task.level, MortonEncode(task.triple)>> : task \in todo'} |-> 0]
  BY DEF Cut, Covered
<1>2. ASSUME NEW task, IsTask(task)' PROVE task \in todo'
  <2>1. Covered'
    BY CutCovers
  <2>2. PICK id \in Ids', level \in Levels' : \E t \in DOMAIN fragments'[id] : task = Task(id, level, t)
    BY <1>2 DEF IsTask, Task
  <2>3. PICK t \in DOMAIN fragments'[id] : task = Task(id, level, t)
    BY <2>2
  <2>4. Task(id, level, t) \in todo' \/ KeyOf(Task(id, level, t)) \in DOMAIN perLevel'
    BY <1>1, <2>1, <2>2, <2>3 DEF Covered, Task, KeyOf
  <2> QED BY <1>1, <2>3, <2>4
<1>3. ASSUME NEW task, IsTask(task)'
      PROVE  CellAt(task) \in DOMAIN displacement' /\ displacement'[CellAt(task)] \in Nat
  BY <1>1, <1>2, <1>3 DEF CellAt
<1> QED
  BY <1>1, <1>3 DEF Displaced, CellAt, KeyOf

DriftInv == Measured /\ Deviates /\ Displaced

\* Every step of a build keeps the displacements.
LEMMA DriftStep ==
    BuildInv /\ SeamsInv /\ DriftInv /\ [VerifyNext]_verifyVars => DriftInv'
<1> SUFFICES ASSUME BuildInv, SeamsInv, DriftInv, [VerifyNext]_verifyVars
             PROVE  DriftInv'
  OBVIOUS
<1>0. /\ Inv /\ Collapsible /\ Answering /\ Covered /\ Answers
      /\ Measured /\ Deviates /\ Displaced
  BY DEF BuildInv, SeamsInv, DriftInv
<1>1. ASSUME UNCHANGED decimateVars PROVE Measured'
  BY <1>0, <1>1, MeasuredOn DEF DecimateStep
<1>2. ASSUME asking' # "answered" PROVE Deviates'
  BY <1>2 DEF Deviates
<1>3. ASSUME UNCHANGED <<request, asking, answer>> PROVE Deviates'
  <2>1. Near(answer.points, request.points, answer.error) => Near(answer.points, request.points, answer.error)'
    BY <1>3 DEF Near
  <2> QED BY <1>0, <1>3, <2>1 DEF Deviates
<1>4. CASE Cut
  <2>1. UNCHANGED decimateVars /\ UNCHANGED <<request, asking, answer>>
    BY <1>4 DEF Cut, simplifyVars
  <2> QED BY <1>0, <1>1, <1>3, <1>4, <2>1, CutDisplaces DEF DriftInv
<1>5. ASSUME NEW task \in todo, KeepFragment(task)
      PROVE  DriftInv'
  <2>1. /\ phase = "levels" /\ Hold(task, Piece(task)) /\ UNCHANGED displacement
        /\ UNCHANGED decimateVars /\ UNCHANGED <<request, asking, answer>>
        /\ UNCHANGED <<input, phase, fragments>>
    BY <1>5 DEF KeepFragment, simplifyVars
  <2>2. IsMesh(Piece(task))
    BY <1>0, <2>1, TasksHavePieces DEF Covered, Whole
  <2>3. Near(Piece(task).points, Piece(task).points, 0)
    BY <2>2, NearItself DEF IsMesh
  <2>4. Raised(task, 0)
    BY <2>1 DEF Raised
  <2>5. Displaced'
    BY <1>0, <2>1, <2>2, <2>3, <2>4, HoldDisplaces
  <2> QED BY <1>1, <1>3, <2>1, <2>5 DEF DriftInv
<1>6. ASSUME NEW task \in todo, Coarsen(task)
      PROVE  DriftInv'
  <2>1. asking' = "attempt" /\ UNCHANGED decimateVars
    BY <1>6 DEF Coarsen, SimplifyToTarget
  <2>2. UNCHANGED <<input, fragments, perLevel, displacement, phase>>
    BY <1>6 DEF Coarsen, buildVars
  <2>3. Displaced'
    BY <1>0, <2>2, DisplacedStays
  <2> QED BY <1>1, <1>2, <2>1, <2>3 DEF DriftInv
<1>7. ASSUME NEW task \in todo, PlacePiece(task)
      PROVE  DriftInv'
  <2>1. /\ asking = "answered" /\ Due(task) /\ asking' = "no" /\ Hold(task, answer)
        /\ UNCHANGED decimateVars /\ UNCHANGED <<input, phase, fragments>>
        /\ displacement' = [displacement EXCEPT ![<<task.level, MortonEncode(task.triple)>>] = WorstError(task)]
    BY <1>7 DEF PlacePiece
  <2>2. PICK other \in todo : AsksFor(other)
    BY <1>0, <2>1 DEF Answers
  <2>3. phase = "levels" /\ AsksFor(task)
    <3>1. phase = "levels"
      BY <1>0, <2>1 DEF Answers
    <3>2. Due(other)
      BY <2>2 DEF AsksFor
    <3>3. other = task
      BY <1>0, <2>1, <3>1, <3>2, DueIsOne
    <3> QED BY <2>2, <3>1, <3>3
  <2>4. IsTask(task) /\ answer.error \in Nat /\ IsMesh(answer)
    BY <1>0, <2>1 DEF Covered, Deviates, Answering
  <2>5. input.backend.name = "GREEDY" => Near(answer.points, Piece(task).points, answer.error)
    BY <1>0, <2>1, <2>3 DEF Deviates, AsksFor
  <2>6. Raised(task, answer.error)
    <3> DEFINE cell == CellAt(task)
               d == displacement[cell]
               e == answer.error
    <3>1. cell \in DOMAIN displacement /\ d \in Nat /\ e \in Nat
      BY <1>0, <2>3, <2>4 DEF Displaced
    <3>2. displacement' = [displacement EXCEPT ![cell] = Max({d, e})]
      BY <2>1 DEF CellAt, WorstError
    <3>3. e = 0 => Max({d, e}) = d
      <4>1. Max({d, e}) \in {d, e} /\ d <= Max({d, e})
        BY <3>1, MaxOfTwo
      <4> QED BY <3>1, <4>1
    <3> HIDE DEF cell, d, e
    <3>4. /\ DOMAIN displacement' = DOMAIN displacement
          /\ \A c \in DOMAIN displacement :
                displacement'[c] = IF c = cell THEN Max({d, e}) ELSE displacement[c]
      BY <3>2
    <3>5. \A c \in DOMAIN displacement :
             IF c = cell /\ e # 0 THEN displacement'[c] = Max({displacement[c], e})
             ELSE displacement'[c] = displacement[c]
      <4>1. d = displacement[cell]
        BY DEF d
      <4> QED BY <3>3, <3>4, <4>1
    <3> QED BY <3>4, <3>5 DEF Raised, cell, e
  <2>7. Displaced'
    <3> HIDE DEF Raised
    <3> QED BY <1>0, <2>1, <2>4, <2>5, <2>6, HoldDisplaces
  <2> QED BY <1>1, <1>2, <2>1, <2>7 DEF DriftInv
<1>8. ASSUME SimplifyTurn, UNCHANGED buildVars
      PROVE  DriftInv'
  <2>1. DecimateStep
    BY <1>0, <1>8, SimplifyTurnTyped
  <2>2. Measured'
    BY <1>0, <2>1, MeasuredOn
  <2>3. Deviates'
    BY <1>0, <1>8, TurnDeviates
  <2>4. UNCHANGED <<input, fragments, perLevel, displacement, phase>>
    BY <1>8 DEF buildVars
  <2>5. Displaced'
    BY <1>0, <2>4, DisplacedStays
  <2> QED BY <2>2, <2>3, <2>5 DEF DriftInv
<1>9. ASSUME UNCHANGED simplifyVars, UNCHANGED <<input, fragments, perLevel, displacement>>,
             phase = "cut" => phase' = "cut"
      PROVE  DriftInv'
  <2>1. UNCHANGED decimateVars /\ UNCHANGED <<request, asking, answer>>
    BY <1>9 DEF simplifyVars
  <2> QED BY <1>0, <1>1, <1>3, <1>9, <2>1, DisplacedStays DEF DriftInv
<1>10. CASE EndLevels \/ FinishCatalogs \/ Write
  BY <1>9, <1>10 DEF EndLevels, FinishCatalogs, Write
<1>11. ASSUME NEW key \in CellKeys, AssembleCell(key[1], key[2]) \/ RefuseCell(key[1], key[2])
       PROVE  DriftInv'
  BY <1>9, <1>11 DEF AssembleCell, RefuseCell
<1>12. CASE Tampering \/ (\E tier \in DOMAIN Tiers : Verification(tier)) \/ UNCHANGED verifyVars
  <2>1. UNCHANGED simplifyVars /\ UNCHANGED <<input, fragments, perLevel, displacement, phase>>
    BY <1>12 DEF Tampering, Verification, verifyVars, buildVars
  <2> QED BY <1>9, <2>1
<1> QED
  BY <1>4, <1>5, <1>6, <1>7, <1>8, <1>10, <1>11, <1>12 DEF VerifyNext, BuildStep

LEMMA DriftHolds == VerifySpec => [](BuildInv /\ SeamsInv /\ Shelved /\ DriftInv)
<1>1. VerifyInit => DriftInv
  BY DEF VerifyInit, BuildInit, SimplifyInit, DecimateInit, DriftInv, Measured, Deviates, Displaced
<1>2. BuildInv /\ SeamsInv /\ DriftInv /\ [VerifyNext]_verifyVars => DriftInv'
  BY DriftStep
<1> QED BY <1>1, <1>2, ShelvedHolds, PTL DEF VerifySpec

-----------------------------------------------------------------------------
(* What the rows of the cell catalog say. *)

\* A step's longest side.
LEMMA QuantumTyped ==
    ASSUME NEW level \in Nat
    PROVE  Quantum(level) \in Nat \ {0} /\ \A a \in Axes : Step(level)[a] <= Quantum(level)
<1> DEFINE f == [a \in Axes |-> Step(level)[a]]
           T == {Step(level)[a] : a \in Axes}
<1>1. \A a \in Axes : f[a] \in Nat \ {0} /\ f[a] = Step(level)[a]
  BY StepTyped
<1>2. IsFiniteSet(Axes) /\ Axes # {} /\ 1 \in Axes
  <2>1. \A m, n \in Int : IsFiniteSet(m .. n)
    BY FS_Interval
  <2>2. PICK m \in Int, n \in Int : m = 1 /\ n = 3
    OBVIOUS
  <2>3. IsFiniteSet(m .. n)
    BY <2>1
  <2>4. Axes = m .. n
    BY <2>2 DEF Axes
  <2>5. IsFiniteSet(Axes)
    BY <2>3, <2>4, Zenon
  <2> QED BY <2>5 DEF Axes
<1>3. T = {f[a] : a \in Axes} /\ Quantum(level) = Max(T)
  BY DEF Quantum
<1> HIDE DEF f, T
<1>4. Max(T) \in Nat /\ \A a \in Axes : f[a] <= Max(T)
  BY <1>1, <1>2, <1>3, MaxOver
<1> QED
  BY <1>1, <1>2, <1>3, <1>4

Columns == {"vertexCount", "indexCount", "low", "high", "lodError", "objectCount", "childMask", "locator"}

\* A row of the catalog counts what is in its cell, and its error is no less than the cell's own.
Tally(key) ==
    /\ DOMAIN cellRows[key] = Columns
    /\ cellRows[key].vertexCount = Len(Concatenated(PiecesIn(key[1], key[2])).points)
    /\ cellRows[key].indexCount = 3 * Len(Concatenated(PiecesIn(key[1], key[2])).faces)
    /\ cellRows[key].objectCount = Len(PiecesIn(key[1], key[2]))
    /\ cellRows[key].childMask = ChildMask(key[1], key[2])
    /\ cellRows[key].lodError \in Nat
    /\ Quantum(key[1]) + displacement[key] <= cellRows[key].lodError

\* Nor than those of the cells below it, which have their rows already.
Dominates(key) ==
    \A child \in ChildrenOf(key[1], key[2]) :
       child \in DOMAIN cellRows /\ cellRows[child].lodError <= cellRows[key].lodError

FacesOf(rows, level) ==
    MapThenSumSet(LAMBDA key : rows[key].indexCount \div 3, {key \in DOMAIN rows : key[1] = level})

InvertedIn(rows, n) == {level \in 1 .. n - 1 : FacesOf(rows, level) > FacesOf(rows, level - 1)}

Tallied ==
    /\ phase \in {"assemble", "built", "written"} => \A key \in DOMAIN cellRows : Tally(key) /\ Dominates(key)
    /\ phase \in {"built", "written"} =>
          /\ \A id \in Ids : objectRows[id].ordinal = Rank(Ids, id) - 1
          /\ warned.inverted = InvertedIn(cellRows, input.levels)

\* While the pieces stay.
LEMMA TallyStays ==
    ASSUME UNCHANGED <<input, perLevel, displacement>>
    PROVE  /\ \A level, cell : /\ PiecesIn(level, cell)' = PiecesIn(level, cell)
                               /\ ChildMask(level, cell)' = ChildMask(level, cell)
                               /\ ChildrenOf(level, cell)' = ChildrenOf(level, cell)
           /\ \A key : cellRows'[key] = cellRows[key] /\ Tally(key) => Tally(key)'
<1>1. Ids' = Ids /\ CellKeys' = CellKeys
  BY RowsStay
<1>2. \A level, cell : IdsIn(level, cell)' = IdsIn(level, cell)
  BY <1>1 DEF IdsIn
<1>3. \A level, cell : PiecesIn(level, cell)' = PiecesIn(level, cell)
  BY <1>2 DEF PiecesIn
<1>4. \A level, cell : ChildMask(level, cell)' = ChildMask(level, cell)
  BY <1>1 DEF ChildMask
<1>5. \A level, cell : ChildrenOf(level, cell)' = ChildrenOf(level, cell)
  BY <1>1 DEF ChildrenOf
<1>6. \A key : cellRows'[key] = cellRows[key] /\ Tally(key) => Tally(key)'
  BY <1>3, <1>4 DEF Tally
<1> QED
  BY <1>3, <1>4, <1>5, <1>6

\* The error of a row.
LEMMA LodErrorTyped ==
    ASSUME Covered, Displaced, NEW key \in CellKeys,
           \A child \in ChildrenOf(key[1], key[2]) : cellRows[child].lodError \in Nat
    PROVE  /\ LodError(key[1], key[2]) \in Nat
           /\ Quantum(key[1]) + displacement[key] <= LodError(key[1], key[2])
           /\ \A child \in ChildrenOf(key[1], key[2]) : cellRows[child].lodError <= LodError(key[1], key[2])
<1> DEFINE level == key[1]
           cell == key[2]
           own == Quantum(level) + displacement[<<level, cell>>]
           below == ChildrenOf(level, cell)
           errors == {cellRows[child].lodError : child \in below}
<1>1. key = <<level, cell>> /\ level \in Nat
  BY CellOfTask, CellKeyTyped
<1>2. displacement[key] \in Nat
  <2>1. PICK task : IsTask(task) /\ level = task.level /\ cell = MortonEncode(task.triple) /\ phase # "cut"
    BY CellOfTask
  <2>2. CellAt(task) = key
    BY <1>1, <2>1 DEF CellAt
  <2> QED BY <2>1, <2>2 DEF Displaced
<1>3. own \in Nat
  <2>1. Quantum(level) \in Nat
    BY <1>1, QuantumTyped
  <2> QED BY <1>1, <1>2, <2>1
<1>4. IsFiniteSet(below)
  <2> DEFINE T == {ChildKey(level, cell, octant) : octant \in Octants}
             f == [octant \in Octants |-> ChildKey(level, cell, octant)]
  <2>1. IsFiniteSet(Octants)
    <3>1. \A m, n \in Int : IsFiniteSet(m .. n)
      BY FS_Interval
    <3>2. PICK m \in Int, n \in Int : m = 0 /\ n = 7
      OBVIOUS
    <3>3. IsFiniteSet(m .. n)
      BY <3>1
    <3>4. Octants = m .. n
      BY <3>2 DEF Octants
    <3> QED BY <3>3, <3>4, Zenon
  <2>2. T = {f[octant] : octant \in Octants}
    OBVIOUS
  <2>3. below \subseteq T
    BY DEF ChildrenOf
  <2> HIDE DEF T, f, below
  <2>4. IsFiniteSet(T)
    BY <2>1, <2>2, ImageFinite
  <2> QED BY <2>3, <2>4, FS_Subset
<1>5. IsFiniteSet(errors)
  <2> DEFINE f == [child \in below |-> cellRows[child].lodError]
  <2>1. errors = {f[child] : child \in below}
    OBVIOUS
  <2> HIDE DEF errors, f, below
  <2> QED BY <1>4, <2>1, ImageFinite
<1>6. \A child \in below : cellRows[child].lodError \in errors
  OBVIOUS
<1>7. errors \subseteq Nat
  OBVIOUS
<1>8. LodError(level, cell) = Max({own} \cup errors)
  BY DEF LodError
<1> HIDE DEF errors, own, below
<1>9. IsFiniteSet({own} \cup errors)
  <2>1. IsFiniteSet(errors \cup {own})
    BY <1>5, FS_AddElement
  <2>2. errors \cup {own} = {own} \cup errors
    OBVIOUS
  <2> QED BY <2>1, <2>2
<1> DEFINE all == {own} \cup errors
<1>10. all \in SUBSET Int /\ all # {} /\ own \in all /\ all \subseteq Nat /\ errors \subseteq all
  BY <1>3, <1>7
<1> HIDE DEF all
<1>11. Max(all) \in all /\ \A y \in all : y <= Max(all)
  <2>1. IsFiniteSet(all)
    BY <1>9 DEF all
  <2> QED BY <1>10, <2>1, MaxMember
<1>12. LodError(level, cell) = Max(all)
  BY <1>8 DEF all
<1>13. LodError(level, cell) \in Nat /\ own <= LodError(level, cell)
  BY <1>10, <1>11, <1>12
<1>14. \A child \in below : cellRows[child].lodError <= LodError(level, cell)
  BY <1>6, <1>10, <1>11, <1>12
<1>15. own = Quantum(level) + displacement[key]
  BY <1>1 DEF own
<1> QED
  BY <1>13, <1>14, <1>15 DEF below

\* A cell is assembled after those below it.
LEMMA AssembledTallies ==
    ASSUME Covered, Displaced, NEW key \in CellKeys, AssembleCell(key[1], key[2]),
           \A k \in DOMAIN cellRows : Tally(k) /\ Dominates(k)
    PROVE  \A k \in DOMAIN cellRows' : Tally(k)' /\ Dominates(k)'
<1> DEFINE entry == CellRow(key[1], key[2])
           mesh == Concatenated(PiecesIn(key[1], key[2]))
<1>1. /\ NextCell(key[1], key[2]) /\ UNCHANGED <<input, perLevel, displacement>>
      /\ cellRows' = Put(cellRows, <<key[1], key[2]>>, entry)
  BY DEF AssembleCell
<1>2. key = <<key[1], key[2]>> /\ key[1] \in Nat
  BY CellOfTask, CellKeyTyped
<1>3. /\ DOMAIN entry = Columns
      /\ entry.vertexCount = Len(mesh.points) /\ entry.indexCount = 3 * Len(mesh.faces)
      /\ entry.objectCount = Len(PiecesIn(key[1], key[2])) /\ entry.childMask = ChildMask(key[1], key[2])
      /\ entry.lodError = LodError(key[1], key[2])
  BY DEF CellRow, Columns
<1> HIDE DEF entry
<1>4. /\ DOMAIN cellRows' = DOMAIN cellRows \cup {key} /\ cellRows'[key] = entry
      /\ \A k \in DOMAIN cellRows : k # key => cellRows'[k] = cellRows[k]
  BY <1>1, <1>2 DEF Put
<1>5. key \notin DOMAIN cellRows
  BY <1>1, <1>2 DEF NextCell
<1>6. ASSUME NEW child \in ChildrenOf(key[1], key[2]) PROVE child \in DOMAIN cellRows
  <2>1. PICK octant : child = ChildKey(key[1], key[2], octant) /\ child \in CellKeys
    BY <1>6 DEF ChildrenOf
  <2>2. child[1] = key[1] - 1
    BY <2>1 DEF ChildKey
  <2>3. child \in DOMAIN cellRows \/ key[1] < child[1] \/ key[1] = child[1]
    BY <1>1, <2>1 DEF NextCell
  <2> QED BY <1>2, <2>2, <2>3
<1>7. \A child \in ChildrenOf(key[1], key[2]) : cellRows[child].lodError \in Nat
  BY <1>6 DEF Tally
<1>8. /\ entry.lodError \in Nat /\ Quantum(key[1]) + displacement[key] <= entry.lodError
      /\ \A child \in ChildrenOf(key[1], key[2]) : cellRows[child].lodError <= entry.lodError
  BY <1>3, <1>7, LodErrorTyped
<1>9. \A level, cell : /\ PiecesIn(level, cell)' = PiecesIn(level, cell)
                       /\ ChildMask(level, cell)' = ChildMask(level, cell)
                       /\ ChildrenOf(level, cell)' = ChildrenOf(level, cell)
  BY <1>1, TallyStays
<1>10. ASSUME NEW k \in DOMAIN cellRows' PROVE Tally(k)'
  <2>1. CASE k = key
    <3>1. Tally(key)'
      BY <1>1, <1>3, <1>4, <1>8, <1>9 DEF Tally
    <3> QED BY <2>1, <3>1
  <2>2. CASE k # key
    <3>1. k \in DOMAIN cellRows /\ cellRows'[k] = cellRows[k]
      BY <1>4, <2>2
    <3> QED BY <1>1, <3>1, TallyStays
  <2> QED BY <2>1, <2>2
<1>11. ASSUME NEW k \in DOMAIN cellRows', NEW child \in ChildrenOf(k[1], k[2])
       PROVE  child \in DOMAIN cellRows' /\ cellRows'[child].lodError <= cellRows'[k].lodError
  <2>1. CASE k = key
    <3>1. child \in DOMAIN cellRows /\ child # key
      BY <1>5, <1>6, <1>11, <2>1
    <3> QED BY <1>4, <1>8, <1>11, <2>1, <3>1
  <2>2. CASE k # key
    <3>1. k \in DOMAIN cellRows
      BY <1>4, <2>2
    <3>2. child \in DOMAIN cellRows /\ cellRows[child].lodError <= cellRows[k].lodError
      BY <1>11, <3>1 DEF Dominates
    <3>3. child # key
      BY <1>5, <3>2
    <3> QED BY <1>4, <2>2, <3>1, <3>2, <3>3
  <2> QED BY <2>1, <2>2
<1>12. \A k \in DOMAIN cellRows' : Dominates(k)'
  BY <1>9, <1>11 DEF Dominates
<1> QED
  BY <1>10, <1>12

LEMMA TalliedStep ==
    BuildInv /\ SeamsInv /\ Shelved /\ DriftInv /\ Tallied /\ [VerifyNext]_verifyVars => Tallied'
<1> SUFFICES ASSUME BuildInv, SeamsInv, Shelved, DriftInv, Tallied, [VerifyNext]_verifyVars
             PROVE  Tallied'
  OBVIOUS
<1>0. Covered /\ Answers /\ Displaced
  BY DEF BuildInv, SeamsInv, DriftInv
<1>1. ASSUME phase' \in {"cut", "levels", "failed"} PROVE Tallied'
  BY <1>1 DEF Tallied
<1>2. ASSUME UNCHANGED <<input, perLevel, displacement, cellRows>>, phase \in {"assemble", "built", "written"}
      PROVE  \A key \in DOMAIN cellRows' : Tally(key)' /\ Dominates(key)'
  <2>1. \A key \in DOMAIN cellRows : Tally(key) /\ Dominates(key)
    BY <1>2 DEF Tallied
  <2>2. \A key \in DOMAIN cellRows : Tally(key)'
    BY <1>2, <2>1, TallyStays
  <2>3. \A level, cell : ChildrenOf(level, cell)' = ChildrenOf(level, cell)
    BY <1>2, TallyStays
  <2>4. \A key \in DOMAIN cellRows : Dominates(key)'
    BY <1>2, <2>1, <2>3 DEF Dominates
  <2> QED BY <1>2, <2>2, <2>4
<1>3. ASSUME UNCHANGED <<input, perLevel, displacement, cellRows, objectRows, warned>>,
             phase' = phase \/ (phase = "built" /\ phase' = "written")
      PROVE  Tallied'
  <2>1. phase' \in {"assemble", "built", "written"} => \A key \in DOMAIN cellRows' : Tally(key)' /\ Dominates(key)'
    BY <1>2, <1>3
  <2>2. Ids' = Ids
    BY <1>3, RowsStay
  <2>3. InvertedIn(cellRows, input.levels)' = InvertedIn(cellRows, input.levels)
    BY <1>3
  <2> QED BY <1>3, <2>1, <2>2, <2>3 DEF Tallied
<1>4. CASE Cut
  BY <1>1, <1>4 DEF Cut
<1>5. ASSUME NEW task \in todo, KeepFragment(task) \/ Coarsen(task) \/ PlacePiece(task) PROVE Tallied'
  <2>1. phase = "levels" /\ phase' = phase
    BY <1>0, <1>5 DEF KeepFragment, Coarsen, PlacePiece, Answers, buildVars
  <2> QED BY <1>1, <2>1
<1>6. ASSUME UNCHANGED buildVars PROVE Tallied'
  BY <1>3, <1>6 DEF buildVars
<1>7. CASE EndLevels
  <2>1. phase = "levels" /\ phase' = "assemble" /\ UNCHANGED cellRows
    BY <1>7 DEF EndLevels
  <2>2. DOMAIN cellRows' = {}
    BY <2>1 DEF Shelved
  <2> QED BY <2>1, <2>2 DEF Tallied
<1>8. ASSUME NEW key \in CellKeys, AssembleCell(key[1], key[2]) PROVE Tallied'
  <2>1. phase = "assemble" /\ phase' = "assemble"
    BY <1>8 DEF AssembleCell
  <2>2. \A k \in DOMAIN cellRows' : Tally(k)' /\ Dominates(k)'
    BY <1>0, <1>8, <2>1, AssembledTallies DEF Tallied
  <2> QED BY <2>1, <2>2 DEF Tallied
<1>9. ASSUME NEW key \in CellKeys, RefuseCell(key[1], key[2]) PROVE Tallied'
  BY <1>1, <1>9 DEF RefuseCell
<1>10. CASE FinishCatalogs
  <2>1. /\ phase = "assemble" /\ phase' = "built" /\ UNCHANGED <<input, perLevel, displacement, cellRows>>
        /\ warned'.inverted = Inverted /\ objectRows' = [id \in Ids |-> ObjectRow(id)]
    BY <1>10 DEF FinishCatalogs
  <2>2. Ids' = Ids
    BY <2>1, RowsStay
  <2>3. \A id \in Ids : objectRows'[id].ordinal = Rank(Ids, id) - 1
    BY <2>1 DEF ObjectRow
  <2>4. \A level : FacesAt(level) = FacesOf(cellRows, level)
    BY DEF FacesAt, FacesOf
  <2>5. Inverted = InvertedIn(cellRows, input.levels)
    BY <2>4 DEF Inverted, InvertedIn, CoarserLevels
  <2>6. InvertedIn(cellRows, input.levels)' = InvertedIn(cellRows, input.levels)
    BY <2>1
  <2> QED BY <1>2, <2>1, <2>2, <2>3, <2>5, <2>6 DEF Tallied
<1>11. CASE Write
  BY <1>3, <1>11 DEF Write
<1>12. CASE Tampering
  BY <1>3, <1>12 DEF Tampering
<1>13. CASE (\E tier \in DOMAIN Tiers : Verification(tier)) \/ UNCHANGED verifyVars
  BY <1>6, <1>13 DEF Verification, verifyVars
<1> QED
  BY <1>4, <1>5, <1>6, <1>7, <1>8, <1>9, <1>10, <1>11, <1>12, <1>13 DEF VerifyNext, BuildStep

\* What holds of every build and of what is written of it.
WrittenInv == BuildInv /\ SeamsInv /\ Shelved /\ DriftInv /\ Tallied

LEMMA WrittenInvHolds == VerifySpec => []WrittenInv
<1>1. VerifyInit => Tallied
  BY DEF VerifyInit, BuildInit, Tallied
<1>2. BuildInv /\ SeamsInv /\ Shelved /\ DriftInv /\ Tallied /\ [VerifyNext]_verifyVars => Tallied'
  BY TalliedStep
<1> QED BY <1>1, <1>2, DriftHolds, PTL DEF VerifySpec, WrittenInv

-----------------------------------------------------------------------------
(* What the verifier finds of a collection nothing has happened to. *)

Fresh == WrittenInv /\ phase = "written" /\ fault = "none"

LEMMA FreshHas ==
    ASSUME Fresh
    PROVE  /\ Covered /\ Seating /\ Settled /\ Shelved /\ Displaced /\ Tallied
           /\ phase = "written" /\ fault = "none" /\ phase # "cut" /\ todo = {}
           /\ input \in Inputs /\ input.levels \in Nat \ {0} /\ IsFiniteSet(Ids) /\ Ids \subseteq Nat
           /\ Levels = 0 .. input.levels - 1
           /\ Cells = CellKeys /\ DOMAIN cellRows = CellKeys /\ DOMAIN objectRows = Ids
           /\ collection.objects = objectRows /\ collection.levels = input.levels
           /\ \A id \in Ids : objectRows[id].cells = HomesOf(id)
           /\ \A key \in CellKeys : key[1] \in Levels /\ key[1] \in Nat
<1>1. /\ Covered /\ Seating /\ Settled /\ Shelved /\ Displaced /\ Tallied
      /\ phase = "written" /\ fault = "none" /\ phase # "cut"
  BY DEF Fresh, WrittenInv, BuildInv, SeamsInv, DriftInv
<1>2. todo = {} /\ input \in Inputs
  BY <1>1 DEF Covered
<1>3. input.levels \in Nat \ {0} /\ IsFiniteSet(Ids) /\ Ids \subseteq Nat
  BY <1>2, BuildAssumption DEF Ids
<1>4. /\ Catalogued /\ Cells = CellKeys /\ collection.objects = objectRows /\ collection.levels = input.levels
  BY <1>1, UnderThePrefix
<1>5. /\ DOMAIN cellRows = CellKeys /\ DOMAIN objectRows = Ids
      /\ \A id \in Ids : objectRows[id].cells = HomesOf(id)
  BY <1>4 DEF Catalogued
<1>6. \A key \in CellKeys : key[1] \in Levels /\ key[1] \in Nat
  BY <1>1, CellOfTask, CellKeyTyped
<1> QED
  BY <1>1, <1>2, <1>3, <1>4, <1>5, <1>6 DEF Levels

\* A row of the catalog as it is written.
LEMMA WrittenRow ==
    ASSUME Fresh, NEW key \in CellKeys
    PROVE  /\ collection.cells[key].vertexCount = Len(Concatenated(PiecesIn(key[1], key[2])).points)
           /\ collection.cells[key].indexCount = 3 * Len(Concatenated(PiecesIn(key[1], key[2])).faces)
           /\ collection.cells[key].objectCount = Len(PiecesIn(key[1], key[2]))
           /\ collection.cells[key].childMask = ChildMask(key[1], key[2])
           /\ collection.cells[key].lodError \in Nat
           /\ Quantum(key[1]) + displacement[key] <= collection.cells[key].lodError
           /\ \A child \in ChildrenOf(key[1], key[2]) :
                 collection.cells[child].lodError <= collection.cells[key].lodError
<1>1. ASSUME NEW k \in CellKeys
      PROVE  /\ Tally(k) /\ Dominates(k)
             /\ collection.cells[k] = [cellRows[k] EXCEPT !.locator = Located(k[1], k[2])]
  <2>1. collection.cells = LocatedRows /\ DOMAIN cellRows = CellKeys
    BY FreshHas, UnderThePrefix
  <2>2. Tally(k) /\ Dominates(k)
    BY <1>1, <2>1, FreshHas DEF Tallied
  <2> QED BY <2>1, <2>2 DEF LocatedRows
<1>2. ASSUME NEW k \in CellKeys
      PROVE  /\ collection.cells[k].vertexCount = cellRows[k].vertexCount
             /\ collection.cells[k].indexCount = cellRows[k].indexCount
             /\ collection.cells[k].objectCount = cellRows[k].objectCount
             /\ collection.cells[k].childMask = cellRows[k].childMask
             /\ collection.cells[k].lodError = cellRows[k].lodError
  <2> DEFINE row == cellRows[k]
             where == Located(k[1], k[2])
  <2>1. DOMAIN row = Columns /\ collection.cells[k] = [row EXCEPT !.locator = where]
    BY <1>1 DEF Tally
  <2> HIDE DEF row, where
  <2>2. /\ collection.cells[k].vertexCount = row.vertexCount /\ collection.cells[k].indexCount = row.indexCount
        /\ collection.cells[k].objectCount = row.objectCount /\ collection.cells[k].childMask = row.childMask
        /\ collection.cells[k].lodError = row.lodError
    BY <2>1 DEF Columns
  <2> QED BY <2>2 DEF row
<1>3. \A child \in ChildrenOf(key[1], key[2]) :
         child \in CellKeys /\ cellRows[child].lodError <= cellRows[key].lodError
  BY <1>1, FreshHas DEF Dominates
<1> QED
  BY <1>1, <1>2, <1>3 DEF Tally

LEMMA FilesAreThere ==
    ASSUME Fresh
    PROVE  FilesExist /\ RecordedLengthsAreRight
<1>1. ASSUME NEW level \in ManifestLevels, NEW part \in PartsNamed(level)
      PROVE  <<level, part>> \in DOMAIN collection.parts /\ Opens(level, part)
  <2>1. level \in Levels
    BY FreshHas DEF ManifestLevels
  <2> DEFINE R == RowsAt(level)
             parts == PartsOf(level)
             n == Len(parts)
  <2>2. shards[level] \in Seq(R) /\ Weighted(R) /\ MaxPartBytes \in Int
    BY <2>1, FreshHas, UnderThePrefix, RowsTyped, BuildAssumption DEF Shelves
  <2>3. Divides(parts, shards[level], R)
    <3> HIDE DEF R
    <3> QED BY <2>2, PartsDivide DEF PartsOf
  <2>4. n \in Nat \ {0} /\ DOMAIN parts = 1 .. n
    BY <2>3 DEF Divides
  <2>5. ASSUME NEW p \in 1 .. n
        PROVE  /\ <<level, p - 1>> \in DOMAIN collection.parts /\ Opens(level, p - 1)
               /\ Len(collection.files[level]) = n
    <3>1. PICK m \in Nat : m = n
      BY <2>4
    <3>2. DOMAIN PartsOf(level) = 1 .. m /\ p \in 1 .. m
      BY <2>4, <3>1
    <3>3. /\ <<level, p - 1>> \in DOMAIN collection.parts /\ Opens(level, p - 1)
          /\ Len(collection.files[level]) = m
      BY <2>1, <3>2, FreshHas, PartsOpen
    <3> QED BY <3>1, <3>3
  <2> HIDE DEF n, parts
  <2>6. Len(collection.files[level]) = n
    <3>1. 1 \in 1 .. n
      BY <2>4
    <3> QED BY <2>5, <3>1
  <2> HIDE DEF R
  <2>7. PICK p \in 1 .. n : p - 1 = part
    <3>1. part \in 0 .. n - 1
      BY <2>6 DEF PartsNamed
    <3>2. PICK p : p = part + 1
      OBVIOUS
    <3>3. p \in 1 .. n /\ p - 1 = part
      BY <2>4, <3>1, <3>2
    <3> QED BY <3>3
  <2> QED BY <2>5, <2>7
<1> QED
  BY <1>1 DEF FilesExist, RecordedLengthsAreRight

\* A level holds something of whatever was cut.
LEMMA LevelsHold ==
    ASSUME Fresh, ~NothingCut
    PROVE  LevelsAreContiguous
<1>1. PICK id \in Ids : \E t \in DOMAIN fragments[id] : TRUE
  BY DEF NothingCut
<1>2. PICK t \in DOMAIN fragments[id] : TRUE
  BY <1>1
<1>3. ASSUME NEW level \in Levels PROVE \E key \in CellKeys : key[1] = level
  <2> DEFINE key == KeyOf(Task(id, level, t))
  <2>1. key \in DOMAIN perLevel
    BY <1>2, FreshHas DEF Covered
  <2>2. key[1] = level
    BY DEF KeyOf, Task
  <2> HIDE DEF key
  <2>3. <<key[1], key[2]>> \in CellKeys
    BY <2>1 DEF CellKeys
  <2> QED BY <2>2, <2>3
<1> QED
  BY <1>3, FreshHas DEF LevelsAreContiguous, ManifestLevels

LEMMA ClaimsAreChildren ==
    ASSUME Fresh, NEW key \in CellKeys
    PROVE  /\ Claims(key) = ChildrenOf(key[1], key[2]) /\ Claims(key) \subseteq Cells
           /\ key[1] = 0 => collection.cells[key].childMask = {}
<1>1. collection.cells[key].childMask = ChildMask(key[1], key[2])
  BY WrittenRow
<1>2. CASE key[1] = 0
  BY <1>1, <1>2 DEF Claims, ChildrenOf, ChildMask
<1>3. CASE key[1] # 0
  <2>1. Claims(key) = {ChildKey(key[1], key[2], octant) :
                          octant \in {o \in Octants : ChildKey(key[1], key[2], o) \in CellKeys}}
    BY <1>1, <1>3 DEF Claims, Claimed, ChildMask
  <2>2. ChildrenOf(key[1], key[2]) = {ChildKey(key[1], key[2], octant) : octant \in Octants} \cap CellKeys
    BY <1>3 DEF ChildrenOf
  <2>3. Claims(key) = ChildrenOf(key[1], key[2])
    BY <2>1, <2>2
  <2> QED BY <1>3, <2>2, <2>3, FreshHas
<1> QED
  BY <1>2, <1>3

LEMMA MasksHold ==
    ASSUME Fresh
    PROVE  ChildMasksNameWhatExists /\ ParentsDominate
<1>1. ASSUME NEW key \in Cells
      PROVE  IF key[1] = 0 THEN collection.cells[key].childMask = {}
             ELSE Claims(key) = {ChildKey(key[1], key[2], octant) : octant \in Octants} \cap Cells
  <2>1. key \in CellKeys /\ Cells = CellKeys
    BY FreshHas
  <2>2. /\ Claims(key) = ChildrenOf(key[1], key[2])
        /\ key[1] = 0 => collection.cells[key].childMask = {}
    BY <2>1, ClaimsAreChildren
  <2> QED BY <2>1, <2>2 DEF ChildrenOf
<1>2. ASSUME NEW key \in Cells, NEW child \in Claims(key) \cap Cells
      PROVE  collection.cells[child].lodError <= collection.cells[key].lodError
  <2>1. key \in CellKeys
    BY FreshHas
  <2>2. child \in ChildrenOf(key[1], key[2])
    BY <2>1, ClaimsAreChildren
  <2> QED BY <2>1, <2>2, WrittenRow
<1> QED
  BY <1>1, <1>2 DEF ChildMasksNameWhatExists, ParentsDominate

LEMMA OrdinalsHold ==
    ASSUME Fresh
    PROVE  OrdinalsAreDense /\ ObjectsNameCellsThatExist
<1>1. /\ IsFiniteSet(Ids) /\ Ids \in SUBSET Int /\ DOMAIN collection.objects = Ids /\ Cells = CellKeys
      /\ \A id \in Ids : collection.objects[id].ordinal = Rank(Ids, id) - 1
      /\ \A id \in Ids : collection.objects[id].cells = HomesOf(id)
  <2>1. \A id \in Ids : objectRows[id].ordinal = Rank(Ids, id) - 1
    BY FreshHas DEF Tallied
  <2> QED BY <2>1, FreshHas
<1> DEFINE c == Cardinality(Ids)
<1>2. /\ c \in Nat /\ \A n \in Ids : Rank(Ids, n) \in 1 .. c
      /\ \A i \in 1 .. c : \E n \in Ids : Rank(Ids, n) = i
  BY <1>1, RanksAreBijective
<1> HIDE DEF c
<1>3. {collection.objects[id].ordinal : id \in DOMAIN collection.objects} = 0 .. c - 1
  <2>1. ASSUME NEW id \in Ids PROVE collection.objects[id].ordinal \in 0 .. c - 1
    BY <1>1, <1>2
  <2>2. ASSUME NEW i \in 0 .. c - 1 PROVE \E id \in Ids : collection.objects[id].ordinal = i
    <3>1. i + 1 \in 1 .. c
      BY <1>2
    <3>2. PICK id \in Ids : Rank(Ids, id) = i + 1
      BY <1>2, <3>1
    <3> QED BY <1>1, <1>2, <3>2
  <2> QED BY <1>1, <2>1, <2>2
<1>4. \A id \in Ids : HomesOf(id) \subseteq CellKeys
  BY DEF HomesOf, CellKeys
<1> QED
  BY <1>1, <1>3, <1>4 DEF OrdinalsAreDense, ObjectsNameCellsThatExist, c

LEMMA LocatorsHold ==
    ASSUME Fresh
    PROVE  EveryCellIsLocated /\ LocatorsAreInRange
<1>1. ASSUME NEW key \in Cells PROVE ~Unlocated(key) /\ InRange(key)
  BY FreshHas, RowIsRead
<1> QED
  BY <1>1 DEF EveryCellIsLocated, LocatorsAreInRange, InRange

LEMMA StructureStands ==
    ASSUME Fresh
    PROVE  Failed(Structure) \subseteq IF NothingCut THEN {"levels"} ELSE {}
<1>1. /\ FilesExist /\ RecordedLengthsAreRight /\ ChildMasksNameWhatExists /\ ParentsDominate
      /\ EveryCellIsLocated /\ LocatorsAreInRange /\ OrdinalsAreDense /\ ObjectsNameCellsThatExist
      /\ ~NothingCut => LevelsAreContiguous
  BY FilesAreThere, MasksHold, LocatorsHold, OrdinalsHold, LevelsHold
<1>2. /\ DOMAIN Structure = {"files", "lengths", "levels", "masks", "errors", "located", "locators",
                             "ordinals", "objects"}
      /\ Structure.files = FilesExist /\ Structure.lengths = RecordedLengthsAreRight
      /\ Structure.masks = ChildMasksNameWhatExists /\ Structure.errors = ParentsDominate
      /\ Structure.located = EveryCellIsLocated /\ Structure.locators = LocatorsAreInRange
      /\ Structure.ordinals = OrdinalsAreDense /\ Structure.objects = ObjectsNameCellsThatExist
      /\ Structure.levels = LevelsAreContiguous
  BY DEF Structure
<1> QED
  BY <1>1, <1>2 DEF Failed

-----------------------------------------------------------------------------
(* What the verifier finds in the rows. *)

\* Where the runs start is in order, from zero, and within what there is.
LEMMA StartsAscend ==
    ASSUME NEW n \in Nat, NEW lengths, lengths \in [1 .. n -> Nat], NEW total, Totals(total, lengths, n),
           NEW offsets, offsets = Starts(lengths), NEW limit, limit = total[n]
    PROVE  Ascends(offsets, limit, n)
<1>1. DOMAIN offsets = 1 .. n /\ Len(offsets) = n /\ \A i \in 1 .. n : offsets[i] = total[i - 1]
  BY StartsAreTotals
<1>2. \A k \in 0 .. n : total[k] \in Nat /\ total[k] <= limit
  BY TotalsAscend DEF Totals
<1>3. ASSUME NEW i \in 2 .. n PROVE offsets[i - 1] <= offsets[i]
  <2>1. PICK j : j = i - 1
    OBVIOUS
  <2>2. j \in 1 .. n /\ i \in 1 .. n /\ j - 1 \in 0 .. n /\ j \in 0 .. n
    BY <2>1
  <2>3. lengths[j] \in Nat /\ total[j] = total[j - 1] + lengths[j]
    BY <2>2 DEF Totals
  <2>4. offsets[j] = total[j - 1] /\ offsets[i] = total[j]
    BY <1>1, <2>1, <2>2
  <2>5. total[j - 1] \in Nat
    BY <1>2, <2>2
  <2> QED BY <2>1, <2>3, <2>4, <2>5
<1>4. offsets # <<>> => offsets[1] = 0 /\ offsets[Len(offsets)] <= limit
  <2> SUFFICES ASSUME offsets # <<>> PROVE offsets[1] = 0 /\ offsets[n] <= limit
    BY <1>1
  <2>1. n # 0
    <3>1. ASSUME n = 0 PROVE FALSE
      <4>1. offsets = [i \in 1 .. n |-> offsets[i]]
        <5>1. offsets = [i \in DOMAIN lengths |-> Starts(lengths)[i]]
          BY DEF Starts
        <5> QED BY <1>1, <5>1
      <4> QED BY <3>1, <4>1
    <3> QED BY <3>1
  <2>2. 1 \in 1 .. n /\ n \in 1 .. n /\ n - 1 \in 0 .. n /\ 1 - 1 = 0
    BY <2>1
  <2>3. offsets[1] = total[0]
    BY <1>1, <2>2
  <2>4. offsets[n] = total[n - 1]
    BY <1>1, <2>2
  <2> QED BY <1>2, <2>2, <2>3, <2>4 DEF Totals
<1> QED
  BY <1>1, <1>3, <1>4 DEF Ascends

\* What the checks of a row ask.
RowStands(decoded, level, cell, mesh) ==
    /\ Len(decoded.points) = Len(mesh.points) /\ Len(decoded.faces) = Len(mesh.faces)
    /\ Used(decoded.faces) \subseteq DOMAIN decoded.points
    /\ Ascends(decoded.vertexOffsets, Len(decoded.points), Len(decoded.ids))
    /\ Ascends(decoded.indexOffsets, 3 * Len(decoded.faces), Len(decoded.ids))
    /\ \A p \in Positions(decoded.points) : \A a \in Axes :
          p[a] - Origin(cell, level)[a] \in -Quantum(level) .. Extent(level)[a] + Quantum(level)

\* A lattice stays in its box.
LEMMA ShownInBox ==
    ASSUME NEW p \in Point, NEW level \in Nat, NEW cell, MortonDecode(cell) \in Triples, NEW a \in Axes
    PROVE  /\ Shown(p, level, cell) \in Point
           /\ Shown(p, level, cell)[a] - Origin(cell, level)[a] \in 0 .. Extent(level)[a]
<1> DEFINE q == Quantized(p, cell, level)
<1>1. q \in [Axes -> 0 .. QuantMax]
  BY QuantizedTyped
<1>2. ASSUME NEW b \in Axes
      PROVE  /\ Shown(p, level, cell)[b] = Origin(cell, level)[b] + q[b] * Step(level)[b]
             /\ Origin(cell, level)[b] \in Int /\ q[b] * Step(level)[b] \in 0 .. Extent(level)[b]
  <2>1. Shown(p, level, cell)[b] = Origin(cell, level)[b] + q[b] * Step(level)[b]
    BY DEF Shown, Decoded, DecodedAt
  <2>2. /\ QuantMax \in Nat /\ Step(level)[b] \in Nat \ {0} /\ Extent(level)[b] \in Nat
        /\ Extent(level)[b] = QuantMax * Step(level)[b]
    BY StepTyped, LatticeAssumption
  <2>3. Origin(cell, level)[b] \in Int
    <3>1. MortonDecode(cell)[b] \in Nat
      BY DEF Triples
    <3>2. Origin(cell, level)[b] = MortonDecode(cell)[b] * Extent(level)[b]
      BY DEF Origin
    <3> QED BY <2>2, <3>1, <3>2
  <2> DEFINE m == q[b]
             d == Step(level)[b]
  <2>4. m \in 0 .. QuantMax /\ d \in Nat
    BY <1>1, <2>2
  <2> HIDE DEF m, d, q
  <2>5. 0 * d <= m * d /\ m * d <= QuantMax * d /\ m * d \in Int
    BY <2>2, <2>4, TimesMonotone
  <2>6. m * d \in 0 .. QuantMax * d
    BY <2>2, <2>4, <2>5
  <2> QED BY <2>1, <2>2, <2>3, <2>6 DEF m, d
<1> HIDE DEF q
<1>3. \A b \in Axes : Shown(p, level, cell)[b] \in Int
  <2> TAKE b \in Axes
  <2>1. /\ Shown(p, level, cell)[b] = Origin(cell, level)[b] + q[b] * Step(level)[b]
        /\ Origin(cell, level)[b] \in Int /\ q[b] * Step(level)[b] \in Int
    BY <1>2
  <2> QED BY <2>1
<1>4. Shown(p, level, cell) \in Point
  <2>1. Shown(p, level, cell) = [b \in Axes |-> Shown(p, level, cell)[b]]
    BY DEF Shown, Decoded
  <2> QED BY <1>3, <2>1 DEF Point
<1> QED
  BY <1>2, <1>4

LEMMA RowsStand ==
    ASSUME NEW level \in Nat, NEW cell, MortonDecode(cell) \in Triples, NEW pieces, ArePieces(pieces),
           NEW decoded, DecodesTo(decoded, pieces, level, cell), Len(decoded.ids) = Len(pieces)
    PROVE  RowStands(decoded, level, cell, Concatenated(pieces))
<1> DEFINE mesh == Concatenated(pieces)
           n == Len(pieces)
           corners == [i \in 1 .. n |-> 3 * Len(pieces[i].faces)]
<1>1. IsMesh(mesh)
  BY ConcatenatedIsMesh
<1>2. /\ decoded.points = [v \in DOMAIN mesh.points |-> Shown(mesh.points[v], level, cell)]
      /\ decoded.faces = mesh.faces
      /\ decoded.vertexOffsets = Starts(PointCounts(pieces)) /\ decoded.indexOffsets = Starts(corners)
  BY DEF DecodesTo
<1> HIDE DEF mesh
<1>3. mesh.points \in Seq(Point) /\ mesh.faces \in Seq(Face) /\ Used(mesh.faces) \subseteq DOMAIN mesh.points
  BY <1>1 DEF IsMesh
<1>4. DOMAIN decoded.points = DOMAIN mesh.points /\ Len(decoded.points) = Len(mesh.points)
  <2>1. Len(mesh.points) \in Nat /\ DOMAIN mesh.points = 1 .. Len(mesh.points)
    BY <1>3
  <2>2. DOMAIN decoded.points = 1 .. Len(mesh.points)
    BY <1>2, <2>1
  <2>3. decoded.points = [v \in 1 .. Len(mesh.points) |-> decoded.points[v]]
    BY <1>2, <2>2
  <2> QED BY <2>1, <2>2, <2>3
<1>5. PICK at, fa : /\ Totals(at, PointCounts(pieces), n) /\ Totals(fa, FaceCounts(pieces), n)
                    /\ Spans(mesh, pieces, at, fa, n)
  BY PiecesAreSpans DEF mesh
<1>6. Len(mesh.points) = at[n] /\ Len(mesh.faces) = fa[n]
  BY <1>5 DEF Spans
<1>7. n \in Nat /\ PointCounts(pieces) \in [1 .. n -> Nat] /\ FaceCounts(pieces) \in [1 .. n -> Nat]
  <2>1. \A i \in 1 .. n : Len(pieces[i].points) \in Nat /\ Len(pieces[i].faces) \in Nat
    BY DEF ArePieces, IsMesh
  <2> QED BY <2>1 DEF ArePieces, PointCounts, FaceCounts
<1> HIDE DEF n, corners
<1>8. Ascends(decoded.vertexOffsets, Len(decoded.points), n)
  <2> DEFINE lengths == PointCounts(pieces)
  <2>1. lengths \in [1 .. n -> Nat] /\ Totals(at, lengths, n)
    BY <1>5, <1>7
  <2> HIDE DEF lengths
  <2>2. decoded.vertexOffsets = Starts(lengths) /\ Len(decoded.points) = at[n]
    BY <1>2, <1>4, <1>6 DEF lengths
  <2> QED BY <1>7, <2>1, <2>2, StartsAscend
<1>9. Ascends(decoded.indexOffsets, 3 * Len(decoded.faces), n)
  <2> DEFINE lengths == FaceCounts(pieces)
  <2>1. DOMAIN corners = 1 .. n /\ \A k \in 1 .. n : corners[k] = 3 * lengths[k]
    BY DEF corners, n, FaceCounts
  <2>2. Totals(fa, lengths, n)
    BY <1>5
  <2>3. corners \in [1 .. n -> Nat]
    <3>1. \A k \in 1 .. n : lengths[k] \in Nat
      BY <1>7
    <3>2. \A k \in 1 .. n : corners[k] \in Nat
      BY <2>1, <3>1
    <3>3. corners = [k \in 1 .. n |-> corners[k]]
      BY DEF corners
    <3> HIDE DEF lengths
    <3> QED BY <3>2, <3>3
  <2> HIDE DEF lengths
  <2>4. PICK thrice : /\ Totals(thrice, corners, n)
                      /\ \A k \in 0 .. n : thrice[k] = 3 * fa[k] /\ thrice[k] \div 3 = fa[k]
    <3>1. PICK m, u, w, x : m = n /\ u = lengths /\ w = corners /\ x = fa
      OBVIOUS
    <3>2. m \in Nat
      BY <1>7, <3>1
    <3>3. Totals(x, u, m) /\ DOMAIN w = 1 .. m /\ \A k \in 1 .. m : w[k] = 3 * u[k]
      BY <2>1, <2>2, <3>1
    <3>4. \E thrice : /\ Totals(thrice, w, m)
                      /\ \A k \in 0 .. m : thrice[k] = 3 * x[k] /\ thrice[k] \div 3 = x[k]
      BY <3>2, <3>3, ThriceTotals
    <3> QED BY <3>1, <3>4
  <2>5. 3 * Len(decoded.faces) = thrice[n]
    <3>1. n \in 0 .. n
      BY <1>7
    <3> QED BY <1>2, <1>6, <2>4, <3>1
  <2>6. decoded.indexOffsets = Starts(corners)
    BY <1>2
  <2>7. PICK limit : limit = 3 * Len(decoded.faces)
    OBVIOUS
  <2>8. Ascends(decoded.indexOffsets, limit, n)
    BY <1>7, <2>3, <2>4, <2>5, <2>6, <2>7, StartsAscend
  <2> QED BY <2>7, <2>8
<1>10. ASSUME NEW p \in Positions(decoded.points), NEW a \in Axes
       PROVE  p[a] - Origin(cell, level)[a] \in -Quantum(level) .. Extent(level)[a] + Quantum(level)
  <2>1. PICK v \in DOMAIN mesh.points : p = Shown(mesh.points[v], level, cell)
    BY <1>2 DEF Positions
  <2>2. mesh.points[v] \in Point
    BY <1>3
  <2>3. p[a] - Origin(cell, level)[a] \in 0 .. Extent(level)[a]
    BY <2>1, <2>2, ShownInBox
  <2>4. Quantum(level) \in Nat /\ Extent(level)[a] \in Nat
    BY QuantumTyped, StepTyped
  <2> QED BY <2>3, <2>4
<1>11. Len(decoded.ids) = n
  BY DEF n
<1>12. Used(decoded.faces) \subseteq DOMAIN decoded.points /\ Len(decoded.faces) = Len(mesh.faces)
  BY <1>2, <1>3, <1>4
<1> QED
  BY <1>4, <1>8, <1>9, <1>10, <1>11, <1>12 DEF RowStands, mesh

\* The objects in a cell.
Residents(level, cell) == {id \in Ids : <<level, cell, id>> \in DOMAIN perLevel}

\* A cell that was written is read as it was put together.
LEMMA CellIsRead ==
    ASSUME Fresh, NEW key \in CellKeys
    PROVE  /\ Readable(key) /\ DecodesTo(ReadCell(key), PiecesIn(key[1], key[2]), key[1], key[2])
           /\ ReadCell(key).ids = IdsIn(key[1], key[2])
           /\ ArePieces(PiecesIn(key[1], key[2])) /\ Len(PiecesIn(key[1], key[2])) = Len(IdsIn(key[1], key[2]))
           /\ Lists(IdsIn(key[1], key[2]), Residents(key[1], key[2]))
           /\ Residents(key[1], key[2]) \in SUBSET Int /\ IsFiniteSet(Residents(key[1], key[2]))
           /\ key[1] \in Nat /\ MortonDecode(key[2]) \in Triples /\ key = <<key[1], key[2]>>
           /\ RowStands(ReadCell(key), key[1], key[2], Concatenated(PiecesIn(key[1], key[2])))
<1> DEFINE level == key[1]
           code == key[2]
           S == Residents(level, code)
           ids == IdsIn(level, code)
           pieces == PiecesIn(level, code)
           decoded == ReadCell(key)
<1>1. Covered /\ Shelved /\ phase = "written" /\ fault = "none"
  BY FreshHas
<1>2. level \in Nat /\ MortonDecode(code) \in Triples /\ key = <<level, code>>
  BY <1>1, CellKeyTyped, CellOfTask
<1>3. Readable(key) /\ decoded = DecodedRow(Row(level, code), <<level, code>>)
  BY <1>1, <1>2, RowIsRead
<1>4. DecodesTo(decoded, pieces, level, code) /\ decoded.ids = ids
  BY <1>1, <1>3, RowDecodes
<1>5. S \in SUBSET Int /\ IsFiniteSet(S)
  <2>1. IsFiniteSet(Ids) /\ Ids \subseteq Nat
    BY FreshHas
  <2>2. S \subseteq Ids
    BY DEF Residents
  <2> HIDE DEF S
  <2>3. S \in SUBSET Int
    BY <2>1, <2>2
  <2>4. IsFiniteSet(S)
    BY <2>1, <2>2, FS_Subset
  <2> QED BY <2>3, <2>4
<1>6. Lists(ids, S)
  <2>1. ids = InOrder(S)
    BY DEF IdsIn, Residents
  <2> HIDE DEF S, ids
  <2> QED BY <1>5, <2>1, InOrderLists
<1>7. ArePieces(pieces) /\ Len(pieces) = Len(ids)
  <2>1. ArePieces(pieces) /\ DOMAIN pieces = DOMAIN ids
    BY <1>1, PiecesInTyped DEF PiecesIn
  <2>2. Len(pieces) \in Nat /\ Len(ids) \in Nat /\ 1 .. Len(pieces) = 1 .. Len(ids)
    BY <1>6, <2>1 DEF ArePieces, Lists
  <2> HIDE DEF pieces, ids
  <2> QED BY <2>1, <2>2
<1> HIDE DEF ids, pieces, decoded, S, level, code
<1>8. RowStands(decoded, level, code, Concatenated(pieces))
  <2>1. Len(decoded.ids) = Len(pieces)
    BY <1>4, <1>7
  <2> QED BY <1>2, <1>4, <1>7, <2>1, RowsStand
<1> QED
  BY <1>2, <1>3, <1>4, <1>5, <1>6, <1>7, <1>8 DEF ids, pieces, decoded, S, level, code

\* What stands further along a list in order is no smaller.
LEMMA ListsAscend ==
    ASSUME NEW S \in SUBSET Int, IsFiniteSet(S), NEW list, Lists(list, S), NEW i \in 2 .. Len(list)
    PROVE  list[i - 1] <= list[i]
<1>1. PICK j : j = i - 1
  OBVIOUS
<1>2. Len(list) \in Nat /\ DOMAIN list = 1 .. Len(list)
  BY DEF Lists
<1>3. i \in DOMAIN list /\ j \in DOMAIN list /\ j < i /\ i \in Int /\ j \in Int
  BY <1>1, <1>2
<1>4. PICK m, n : m = list[j] /\ n = list[i]
  OBVIOUS
<1>5. m \in S /\ n \in S /\ Rank(S, m) = j /\ Rank(S, n) = i /\ m \in Int /\ n \in Int
  BY <1>3, <1>4 DEF Lists
<1>6. ASSUME n < m PROVE FALSE
  <2> DEFINE A == {k \in S : k <= n}
             B == {k \in S : k <= m}
  <2>1. B \in SUBSET S /\ A \in SUBSET B
    <3>1. ASSUME NEW k \in S, k <= n PROVE k <= m
      <4>1. k \in Int
        OBVIOUS
      <4> QED BY <1>5, <1>6, <3>1, <4>1
    <3>2. \A k \in A : k \in S /\ k <= n
      OBVIOUS
    <3>3. \A k \in A : k \in B
      BY <3>1, <3>2
    <3> QED BY <3>3
  <2>2. Rank(S, n) = Cardinality(A) /\ Rank(S, m) = Cardinality(B)
    BY DEF Rank
  <2> HIDE DEF A, B
  <2>3. IsFiniteSet(B)
    BY <2>1, FS_Subset
  <2>4. Cardinality(A) <= Cardinality(B)
    BY <2>1, <2>3, FS_Subset
  <2> QED BY <1>3, <1>5, <2>2, <2>4
<1> QED
  BY <1>1, <1>4, <1>5, <1>6

LEMMA BlobsStand ==
    ASSUME Fresh
    PROVE  Failed(Blobs) = {}
<1>0. Cells = CellKeys /\ DOMAIN collection.objects = Ids /\ \A id \in Ids : collection.objects[id].cells = HomesOf(id)
  BY FreshHas
<1>1. ASSUME NEW key \in CellKeys
      PROVE  /\ Readable(key)
             /\ Len(ReadCell(key).points) = collection.cells[key].vertexCount
             /\ 3 * Len(ReadCell(key).faces) = collection.cells[key].indexCount
  <2>1. /\ collection.cells[key].vertexCount = Len(Concatenated(PiecesIn(key[1], key[2])).points)
        /\ collection.cells[key].indexCount = 3 * Len(Concatenated(PiecesIn(key[1], key[2])).faces)
    BY WrittenRow
  <2>2. Readable(key) /\ RowStands(ReadCell(key), key[1], key[2], Concatenated(PiecesIn(key[1], key[2])))
    BY CellIsRead
  <2> QED BY <2>1, <2>2 DEF RowStands
<1>2. CountsAgree
  BY <1>0, <1>1 DEF CountsAgree
<1>3. \A key \in ReadableCells :
         RowStands(ReadCell(key), key[1], key[2], Concatenated(PiecesIn(key[1], key[2])))
  BY <1>0, CellIsRead DEF ReadableCells
<1>4. IndicesStayInside
  BY <1>3 DEF IndicesStayInside, RowStands
<1>5. OffsetsAscend
  BY <1>3 DEF OffsetsAscend, RowStands
<1>6. VerticesLieInTheirBox
  BY <1>3 DEF VerticesLieInTheirBox, RowStands
<1>7. ASSUME NEW key \in CellKeys
      PROVE  LET ids == ReadCell(key).ids
             IN  /\ Len(ids) = collection.cells[key].objectCount
                 /\ \A i \in 2 .. Len(ids) : ids[i - 1] <= ids[i]
                 /\ \A i \in DOMAIN ids :
                       ids[i] \in DOMAIN collection.objects /\ key \in collection.objects[ids[i]].cells
  <2> DEFINE ids == ReadCell(key).ids
             S == Residents(key[1], key[2])
  <2>1. /\ Lists(ids, S) /\ S \in SUBSET Int /\ IsFiniteSet(S) /\ key = <<key[1], key[2]>>
        /\ Len(ids) = Len(PiecesIn(key[1], key[2]))
    BY CellIsRead
  <2>2. Len(ids) = collection.cells[key].objectCount
    BY <2>1, WrittenRow
  <2>3. ASSUME NEW i \in DOMAIN ids
        PROVE  ids[i] \in DOMAIN collection.objects /\ key \in collection.objects[ids[i]].cells
    <3>1. PICK id : id = ids[i]
      OBVIOUS
    <3>2. id \in S
      BY <2>1, <3>1 DEF Lists
    <3>3. PICK k \in DOMAIN perLevel : k = <<key[1], key[2], id>> /\ id \in Ids
      BY <3>2 DEF Residents
    <3>4. <<k[1], k[2]>> = key /\ k[3] = id
      BY <2>1, <3>3
    <3>5. key \in HomesOf(id)
      BY <3>4 DEF HomesOf
    <3> QED BY <1>0, <3>1, <3>3, <3>5
  <2> HIDE DEF ids, S
  <2>4. \A i \in 2 .. Len(ids) : ids[i - 1] <= ids[i]
    BY <2>1, ListsAscend
  <2> QED BY <2>2, <2>3, <2>4 DEF ids
<1>8. CatalogsAgree
  BY <1>0, <1>7 DEF CatalogsAgree, ReadableCells
<1>9. /\ DOMAIN Blobs = {"counts", "indices", "offsets", "boxes", "identity"}
      /\ Blobs.counts = CountsAgree /\ Blobs.indices = IndicesStayInside /\ Blobs.offsets = OffsetsAscend
      /\ Blobs.boxes = VerticesLieInTheirBox /\ Blobs.identity = CatalogsAgree
  BY DEF Blobs
<1> QED
  BY <1>2, <1>4, <1>5, <1>6, <1>8, <1>9 DEF Failed

-----------------------------------------------------------------------------
(* What the verifier finds in the geometry. *)

\* A point in the box of a cell is shown within half a step of itself.
LEMMA ShownIsNear ==
    ASSUME NEW p \in Point, NEW triple \in Coded, NEW level \in Nat, InBox(p, triple, level), NEW a \in Axes
    PROVE  2 * Abs(p[a] - Shown(p, level, MortonEncode(triple))[a]) <= Step(level)[a]
<1> DEFINE code == MortonEncode(triple)
           step == Step(level)[a]
           from == triple[a] * Extent(level)[a]
<1>1. MortonDecode(code) = triple /\ triple[a] \in Nat
  BY CodedTyped, MortonRoundTrip
<1>2. p[a] \in Int /\ step \in Nat \ {0} /\ Extent(level)[a] = QuantMax * step /\ Extent(level)[a] \in Nat
  BY StepTyped DEF Point
<1>3. Shown(p, level, code)[a] = DecodedAt(QuantizedAt(p[a], from, step), from, step)
  BY <1>1 DEF Shown, Decoded, Quantized, Origin
<1>4. from \in Int /\ from <= p[a] /\ p[a] <= from + QuantMax * step
  <2> DEFINE wide == Extent(level)[a]
             m == triple[a]
  <2>1. m * wide <= p[a] /\ p[a] <= (m + 1) * wide
    BY DEF InBox
  <2>2. m \in Nat /\ wide \in Nat /\ wide = QuantMax * step
    BY <1>1, <1>2
  <2> HIDE DEF m, wide
  <2>3. (m + 1) * wide = m * wide + wide /\ m * wide \in Int
    BY <2>2
  <2> QED BY <2>1, <2>2, <2>3 DEF m, wide
<1> HIDE DEF from, step
<1>5. 2 * Abs(p[a] - DecodedAt(QuantizedAt(p[a], from, step), from, step)) <= step
  BY <1>2, <1>4, DecodedIsNear
<1> QED
  BY <1>3, <1>5 DEF step

\* A mesh is one as a cell shows it.
LEMMA ShownIsMesh ==
    ASSUME NEW mesh, IsMesh(mesh), NEW level \in Nat, NEW cell, MortonDecode(cell) \in Triples
    PROVE  IsMesh(ShownIn(mesh, level, cell)) /\ ShownIn(mesh, level, cell).faces = mesh.faces
<1> DEFINE shown == ShownIn(mesh, level, cell)
           n == Len(mesh.points)
<1>1. /\ mesh.points \in Seq(Point) /\ mesh.faces \in Seq(Face) /\ Used(mesh.faces) \subseteq DOMAIN mesh.points
  BY DEF IsMesh
<1>2. n \in Nat /\ DOMAIN mesh.points = 1 .. n /\ \A v \in 1 .. n : mesh.points[v] \in Point
  BY <1>1
<1>3. shown.points = [v \in DOMAIN mesh.points |-> Shown(mesh.points[v], level, cell)] /\ shown.faces = mesh.faces
  BY DEF ShownIn
<1> HIDE DEF n, shown
<1>4. \A v \in 1 .. n : Shown(mesh.points[v], level, cell) \in Point
  <2>1. 1 \in Axes
    BY DEF Axes
  <2>2. ASSUME NEW v \in 1 .. n PROVE Shown(mesh.points[v], level, cell) \in Point
    BY <1>2, <2>1, ShownInBox
  <2> QED BY <2>2
<1>5. shown.points \in [1 .. n -> Point]
  BY <1>2, <1>3, <1>4
<1>6. shown.points \in Seq(Point) /\ DOMAIN shown.points = DOMAIN mesh.points
  BY <1>2, <1>5
<1>7. IsMesh(shown) /\ shown.faces = mesh.faces
  BY <1>1, <1>3, <1>6 DEF IsMesh
<1> QED
  BY <1>7 DEF shown

\* What is read of an object at a level, cell by cell.
PieceAt(id, level, code) ==
    LET decoded == ReadCell(<<level, code>>)
    IN  ObjectSlice(decoded, CHOOSE i \in DOMAIN decoded.ids : decoded.ids[i] = id)

\* It is the piece that the build has there.
LEMMA PieceIsRead ==
    ASSUME Fresh, NEW key \in DOMAIN perLevel
    PROVE  PieceAt(key[3], key[1], key[2]) = ShownIn(perLevel[key], key[1], key[2])
<1> DEFINE decoded == ReadCell(<<key[1], key[2]>>)
           i == CHOOSE i \in DOMAIN decoded.ids : decoded.ids[i] = key[3]
<1>1. IsRead(key)
  BY FreshHas, PiecesAreRead
<1>2. /\ \E j \in DOMAIN decoded.ids : decoded.ids[j] = key[3]
      /\ \A j \in DOMAIN decoded.ids :
            decoded.ids[j] = key[3] => ObjectSlice(decoded, j) = ShownIn(perLevel[key], key[1], key[2])
  BY <1>1 DEF IsRead
<1>3. i \in DOMAIN decoded.ids /\ decoded.ids[i] = key[3]
  BY <1>2
<1>4. PieceAt(key[3], key[1], key[2]) = ObjectSlice(decoded, i)
  BY DEF PieceAt
<1> HIDE DEF decoded, i
<1> QED
  BY <1>2, <1>3, <1>4

\* The codes of the cells in which an object is at a level.
CodesAt(id, level) == {MortonEncode(CoarseOf(t, level)) : t \in DOMAIN fragments[id]}

\* The cells that the catalog names for an object at a level.
LEMMA CellsAtALevel ==
    ASSUME Fresh, NEW id \in Ids, NEW level \in Levels
    PROVE  /\ \A cell \in collection.objects[id].cells \cap Cells : cell[1] = level =>
                 cell[2] \in CodesAt(id, level) /\ cell = <<cell[1], cell[2]>>
           /\ \A code \in CodesAt(id, level) :
                 /\ <<level, code, id>> \in DOMAIN perLevel
                 /\ <<level, code>> \in collection.objects[id].cells \cap Cells
           /\ CellsForObject(id, level) = InOrder(CodesAt(id, level))
           /\ CodesAt(id, level) \in SUBSET Int /\ IsFiniteSet(CodesAt(id, level))
<1> DEFINE named == collection.objects[id].cells \cap Cells
<1>1. /\ Covered /\ phase # "cut" /\ todo = {} /\ Cells = CellKeys /\ collection.objects[id].cells = HomesOf(id)
      /\ Fragments(fragments[id])
  BY FreshHas DEF Covered
<1>2. ASSUME NEW cell \in named, cell[1] = level
      PROVE  cell[2] \in CodesAt(id, level) /\ cell = <<cell[1], cell[2]>>
  <2>1. PICK key \in DOMAIN perLevel : key[3] = id /\ cell = <<key[1], key[2]>>
    BY <1>1 DEF HomesOf
  <2>2. PICK task : IsTask(task) /\ key = KeyOf(task)
    BY <1>1 DEF Covered
  <2>3. PICK i \in Ids, l \in Levels : \E t \in DOMAIN fragments[i] : task = Task(i, l, t)
    BY <2>2 DEF IsTask
  <2>4. PICK t \in DOMAIN fragments[i] : task = Task(i, l, t)
    BY <2>3
  <2>5. key = <<l, MortonEncode(CoarseOf(t, l)), i>>
    BY <2>2, <2>4 DEF KeyOf, Task
  <2>6. i = id /\ l = level
    BY <1>2, <2>1, <2>5
  <2> QED BY <2>1, <2>5, <2>6 DEF CodesAt
<1>3. ASSUME NEW code \in CodesAt(id, level)
      PROVE  <<level, code, id>> \in DOMAIN perLevel /\ <<level, code>> \in named
  <2>1. PICK t \in DOMAIN fragments[id] : code = MortonEncode(CoarseOf(t, level))
    BY DEF CodesAt
  <2> DEFINE key == KeyOf(Task(id, level, t))
  <2>2. key \in DOMAIN perLevel
    BY <1>1 DEF Covered
  <2>3. key = <<level, code, id>>
    BY <2>1 DEF KeyOf, Task
  <2> HIDE DEF key
  <2>4. key[3] = id /\ <<key[1], key[2]>> = <<level, code>>
    BY <2>3
  <2> QED BY <1>1, <2>2, <2>3, <2>4 DEF HomesOf, CellKeys
<1>4. CellsForObject(id, level) = InOrder(CodesAt(id, level))
  <2> DEFINE C == {cell[2] : cell \in {k \in named : k[1] = level}}
  <2>1. CellsForObject(id, level) = InOrder(C)
    BY DEF CellsForObject
  <2>2. ASSUME NEW c \in C PROVE c \in CodesAt(id, level)
    <3>1. PICK cell \in named : cell[1] = level /\ c = cell[2]
      OBVIOUS
    <3> QED BY <1>2, <3>1
  <2>3. ASSUME NEW c \in CodesAt(id, level) PROVE c \in C
    <3> DEFINE cell == <<level, c>>
    <3>1. cell \in named /\ cell[1] = level /\ cell[2] = c
      BY <1>3
    <3> HIDE DEF cell, named
    <3> QED BY <3>1
  <2> HIDE DEF C
  <2>4. C = CodesAt(id, level)
    BY <2>2, <2>3
  <2> QED BY <2>1, <2>4
<1>5. CodesAt(id, level) \in SUBSET Int /\ IsFiniteSet(CodesAt(id, level))
  <2> DEFINE S == {CoarseOf(t, level) : t \in DOMAIN fragments[id]}
  <2>1. ASSUME NEW t \in DOMAIN fragments[id] PROVE CoarseOf(t, level) \in Coded
    <3> DEFINE task == Task(id, level, t)
    <3>1. IsTask(task)
      BY DEF IsTask
    <3>2. task.triple = CoarseOf(t, level)
      BY DEF Task
    <3> HIDE DEF task
    <3> QED BY <1>1, <3>1, <3>2, TaskTyped
  <2>2. S \in SUBSET Coded
    BY <2>1
  <2>3. CodesAt(id, level) = {MortonEncode(c) : c \in S}
    <3> HIDE DEF S
    <3>1. \A c \in CodesAt(id, level) : \E s \in S : c = MortonEncode(s)
      BY DEF CodesAt, S
    <3>2. \A s \in S : MortonEncode(s) \in CodesAt(id, level)
      BY DEF CodesAt, S
    <3> QED BY <3>1, <3>2
  <2> HIDE DEF S
  <2> QED BY <2>2, <2>3, CodesFinite
<1> QED
  BY <1>2, <1>3, <1>4, <1>5

\* What is read of an object at a level are its pieces there, as their cells show them.
ArePiecesAt(pieces, id, level) ==
    /\ ArePieces(pieces) /\ Len(pieces) # 0
    /\ \A c \in DOMAIN pieces : \E code \in CodesAt(id, level) :
          pieces[c] = ShownIn(perLevel[<<level, code, id>>], level, code)

LEMMA PiecesReadAt ==
    ASSUME Fresh, NEW id \in Ids, NEW level \in Levels, DOMAIN fragments[id] # {}
    PROVE  ArePiecesAt(PiecesRead(id, level), id, level)
<1> DEFINE C == CodesAt(id, level)
           cells == CellsForObject(id, level)
           pieces == [c \in DOMAIN cells |-> PieceAt(id, level, cells[c])]
           kept == {c \in DOMAIN pieces : pieces[c].faces # <<>>}
           mesh(code) == ShownIn(perLevel[<<level, code, id>>], level, code)
<1>1. PiecesRead(id, level) = Masked(pieces, kept)
  BY DEF PiecesRead, PieceAt
<1>2. C \in SUBSET Int /\ IsFiniteSet(C) /\ cells = InOrder(C)
  BY CellsAtALevel
<1>3. C # {}
  BY DEF CodesAt
<1>4. ASSUME NEW code \in C
      PROVE  PieceAt(id, level, code) = mesh(code) /\ IsMesh(mesh(code)) /\ mesh(code).faces # <<>>
  <2> DEFINE key == <<level, code, id>>
  <2>1. key \in DOMAIN perLevel /\ key[1] = level /\ key[2] = code /\ key[3] = id
    BY CellsAtALevel
  <2>2. PieceAt(id, level, code) = mesh(code)
    BY <2>1, PieceIsRead
  <2>3. Whole(perLevel[key])
    BY <2>1, FreshHas DEF Covered
  <2>4. level \in Nat /\ MortonDecode(code) \in Triples
    <3> DEFINE cell == <<level, code>>
    <3>1. cell \in CellKeys /\ cell[1] = level /\ cell[2] = code
      <4>1. <<key[1], key[2]>> = cell
        BY <2>1
      <4> QED BY <2>1, <4>1 DEF CellKeys
    <3> HIDE DEF cell
    <3> QED BY <3>1, CellIsRead
  <2> HIDE DEF key
  <2>5. IsMesh(perLevel[key]) /\ perLevel[key].faces # <<>>
    BY <2>3 DEF Whole
  <2>6. IsMesh(ShownIn(perLevel[key], level, code)) /\ ShownIn(perLevel[key], level, code).faces = perLevel[key].faces
    BY <2>4, <2>5, ShownIsMesh
  <2> QED BY <2>2, <2>5, <2>6 DEF key
<1> HIDE DEF C, cells, mesh
<1>5. Lists(cells, C)
  BY <1>2, InOrderLists
<1>6. /\ Len(cells) \in Nat /\ DOMAIN cells = 1 .. Len(cells) /\ Len(cells) # 0
      /\ \A c \in DOMAIN cells : cells[c] \in C
  <2>1. Cardinality(C) # 0
    BY <1>2, <1>3, FS_EmptySet
  <2> QED BY <1>5, <2>1 DEF Lists
<1> DEFINE n == Len(cells)
<1>7. DOMAIN pieces = 1 .. n /\ \A c \in 1 .. n : pieces[c] = PieceAt(id, level, cells[c])
  BY <1>6
<1>8. pieces \in Seq({PieceAt(id, level, cells[c]) : c \in 1 .. n}) /\ Len(pieces) = n
  <2> DEFINE S == {PieceAt(id, level, cells[c]) : c \in 1 .. n}
  <2>1. pieces \in [1 .. n -> S] /\ n \in Nat
    BY <1>6
  <2> HIDE DEF pieces, n, S
  <2>2. pieces \in Seq(S) /\ Len(pieces) = n
    BY <2>1
  <2> QED BY <2>2 DEF S
<1> HIDE DEF pieces
<1>9. ASSUME NEW c \in DOMAIN pieces
      PROVE  \E code \in C : pieces[c] = mesh(code) /\ IsMesh(pieces[c]) /\ pieces[c].faces # <<>>
  BY <1>4, <1>6, <1>7
<1>10. kept = DOMAIN pieces
  BY <1>9
<1>11. Masked(pieces, kept) = pieces
  <2> DEFINE S == {PieceAt(id, level, cells[c]) : c \in 1 .. n}
  <2>1. pieces \in Seq(S)
    BY <1>8
  <2> HIDE DEF S, kept
  <2> QED BY <1>10, <2>1, MaskedWhole
<1>12. ArePieces(pieces)
  BY <1>6, <1>7, <1>8, <1>9 DEF ArePieces
<1>13. ArePiecesAt(pieces, id, level)
  BY <1>6, <1>8, <1>9, <1>12 DEF ArePiecesAt, C, mesh
<1> QED
  BY <1>1, <1>11, <1>13

\* An object that is in no cell cannot be read.
LEMMA WhatReturnsWasCut ==
    ASSUME Fresh, NEW id \in Ids, NEW level \in Levels, ObjectReturns(id, level)
    PROVE  DOMAIN fragments[id] # {}
<1> SUFFICES ASSUME DOMAIN fragments[id] = {} PROVE FALSE
  OBVIOUS
<1> DEFINE cells == CellsForObject(id, level)
           pieces == [c \in DOMAIN cells |-> PieceAt(id, level, cells[c])]
           kept == {c \in DOMAIN pieces : pieces[c].faces # <<>>}
<1>1. PiecesRead(id, level) = Masked(pieces, kept) /\ PiecesRead(id, level) # <<>>
  BY DEF PiecesRead, PieceAt, ObjectReturns
<1>2. CodesAt(id, level) = {}
  BY DEF CodesAt
<1>3. {} \in SUBSET Int /\ IsFiniteSet({}) /\ Cardinality({}) = 0
  BY FS_EmptySet
<1>4. DOMAIN InOrder({}) = {}
  <2>1. Lists(InOrder({}), {})
    BY <1>3, InOrderLists
  <2> QED BY <1>3, <2>1 DEF Lists
<1>5. DOMAIN cells = {}
  BY <1>2, <1>4, CellsAtALevel
<1> HIDE DEF cells
<1>6. kept = {}
  BY <1>5
<1> HIDE DEF kept, pieces
<1>7. Masked(pieces, kept) = [i \in {} |-> pieces[InOrder({})[i]]]
  BY <1>4, <1>6 DEF Masked
<1>8. [i \in {} |-> pieces[InOrder({})[i]]] = <<>>
  OBVIOUS
<1> QED
  BY <1>1, <1>7, <1>8

\* Of a collection as it was written, the distance to a surface can be measured.
LEMMA NothingRaises ==
    ASSUME Fresh
    PROVE  ~MeasureRaises
<1> SUFFICES ASSUME NEW pair \in Compared PROVE Fits(ObjectMesh(pair[1], 0))
  BY DEF MeasureRaises
<1> DEFINE id == pair[1]
           pieces == PiecesRead(id, 0)
<1>1. id \in Ids /\ ObjectReturns(id, 0) /\ 0 \in Levels
  BY FreshHas DEF Compared
<1>2. DOMAIN fragments[id] # {}
  BY <1>1, WhatReturnsWasCut
<1>3. ArePieces(pieces) /\ Len(pieces) # 0
  BY <1>1, <1>2, PiecesReadAt DEF ArePiecesAt
<1> HIDE DEF pieces
<1>4. IsMesh(Weld(pieces))
  BY <1>3, WeldedIsMesh
<1> QED
  BY <1>4 DEF ObjectMesh, Fits, IsMesh, pieces

\* A point of the cut is in the box of any cell above its own.
LEMMA CutIsInBox ==
    ASSUME Covered, Seating, phase # "cut", NEW id \in Ids, NEW t \in DOMAIN fragments[id],
           NEW w \in DOMAIN fragments[id][t].points, NEW level \in Nat
    PROVE  /\ fragments[id][t].points[w] \in Point /\ t \in Coded
           /\ InBox(fragments[id][t].points[w], CoarseOf(t, level), level)
<1>1. t \in Coded
  BY DEF Covered, Fragments
<1>2. fragments[id][t].points[w] \in Point /\ InCell(fragments[id][t].points[w], t)
  BY DEF Seating, SeatedIn, Seated
<1> QED
  BY <1>1, <1>2, BoxAbove

\* So is every vertex of a piece of a greedy build.
LEMMA PieceIsInBox ==
    ASSUME Covered, Seating, Settled, phase # "cut", input.backend.name = "GREEDY",
           NEW task, IsTask(task), KeyOf(task) \in DOMAIN perLevel, NEW v \in DOMAIN perLevel[KeyOf(task)].points
    PROVE  /\ perLevel[KeyOf(task)].points[v] \in Point
           /\ InBox(perLevel[KeyOf(task)].points[v], task.triple, task.level)
<1> DEFINE q == perLevel[KeyOf(task)].points[v]
<1>1. task.id \in Ids /\ task.level \in Nat /\ task.triple \in Coded
  BY TaskTyped
<1>2. q \in Point
  BY DEF Covered, Whole, IsMesh
<1>3. CutPoint(task.id, Group(task), q) \/ Inside(q, task.triple, task.level)
  BY DEF Settled, Settles
<1> HIDE DEF q
<1>4. ASSUME CutPoint(task.id, Group(task), q) PROVE InBox(q, task.triple, task.level)
  <2>1. PICK t \in Group(task) : \E w \in DOMAIN fragments[task.id][t].points : q = fragments[task.id][t].points[w]
    BY <1>4 DEF CutPoint
  <2>2. PICK w \in DOMAIN fragments[task.id][t].points : q = fragments[task.id][t].points[w]
    BY <2>1
  <2>3. t \in DOMAIN fragments[task.id] /\ CoarseOf(t, task.level) = task.triple
    BY DEF Group
  <2> QED BY <1>1, <2>2, <2>3, CutIsInBox
<1>5. ASSUME Inside(q, task.triple, task.level) PROVE InBox(q, task.triple, task.level)
  <2> SUFFICES ASSUME NEW a \in Axes
               PROVE  /\ task.triple[a] * Extent(task.level)[a] <= q[a]
                      /\ q[a] <= (task.triple[a] + 1) * Extent(task.level)[a]
    BY DEF InBox
  <2> DEFINE m == task.triple[a]
             wide == Extent(task.level)[a]
  <2>1. q[a] \in Int /\ m \in Nat /\ wide \in Nat
    BY <1>1, <1>2, StepTyped, CodedTyped DEF Point
  <2>2. m * wide < q[a] /\ q[a] < (m + 1) * wide
    BY <1>5 DEF Inside
  <2> HIDE DEF m, wide
  <2>3. m * wide \in Int /\ (m + 1) * wide \in Int
    BY <2>1
  <2>4. m * wide <= q[a] /\ q[a] <= (m + 1) * wide
    BY <2>1, <2>2, <2>3
  <2> QED BY <2>4 DEF m, wide
<1> QED
  BY <1>2, <1>3, <1>4, <1>5 DEF q

\* A vertex that a coarse cell shows is within the cell's lod_error of one that the finest level shows.
LEMMA CoarseIsNear ==
    ASSUME Fresh, input.backend.name = "GREEDY", NEW id \in Ids, NEW level \in Levels,
           NEW code \in CodesAt(id, level), NEW v \in DOMAIN perLevel[<<level, code, id>>].points
    PROVE  \E t \in DOMAIN fragments[id] : \E w \in DOMAIN fragments[id][t].points :
              Distance(Shown(perLevel[<<level, code, id>>].points[v], level, code),
                       Shown(fragments[id][t].points[w], 0, MortonEncode(t)))
                 <= collection.cells[<<level, code>>].lodError
<1> DEFINE key == <<level, code, id>>
           cell == <<level, code>>
           q == perLevel[key].points[v]
           error == collection.cells[cell].lodError
<1>1. PICK s \in DOMAIN fragments[id] : code = MortonEncode(CoarseOf(s, level))
  BY DEF CodesAt
<1>2. PICK task : task = Task(id, level, s)
  OBVIOUS
<1>3. task.id = id /\ task.level = level /\ code = MortonEncode(task.triple) /\ KeyOf(task) = key /\ CellAt(task) = cell
  BY <1>1, <1>2 DEF Task, KeyOf, CellAt
<1>4. IsTask(task)
  BY <1>2 DEF IsTask
<1>5. Covered /\ Seating /\ Settled /\ Displaced /\ phase # "cut" /\ key \in DOMAIN perLevel
  BY FreshHas, CellsAtALevel
<1>6. task.triple \in Coded /\ level \in Nat /\ Group(task) # {} /\ Fragments(fragments[task.id])
  BY <1>3, <1>4, <1>5, TaskTyped
<1>7. q \in Point /\ InBox(q, task.triple, level)
  BY <1>3, <1>4, <1>5, PieceIsInBox
<1>8. displacement[cell] \in Nat /\ Near(perLevel[key].points, Piece(task).points, displacement[cell])
  BY <1>3, <1>4, <1>5 DEF Displaced
<1>9. PICK u \in DOMAIN Piece(task).points : Distance(q, Piece(task).points[u]) <= displacement[cell]
  BY <1>8 DEF Near
<1>10. PICK t \in Group(task) :
          \E w \in DOMAIN fragments[id][t].points : Piece(task).points[u] = fragments[id][t].points[w]
  BY <1>3, <1>6, PiecePoints DEF CutPoint
<1>11. PICK w \in DOMAIN fragments[id][t].points : Piece(task).points[u] = fragments[id][t].points[w]
  BY <1>10
<1> DEFINE o == fragments[id][t].points[w]
<1>12. t \in DOMAIN fragments[id]
  BY <1>3 DEF Group
<1>13. o \in Point /\ t \in Coded /\ InBox(o, t, 0)
  <2>1. Task(id, 0, t).triple = t
    BY <1>3, <1>6, <1>12, FinestPiece
  <2>2. CoarseOf(t, 0) = t
    BY <2>1 DEF Task
  <2> QED BY <1>5, <1>12, <2>2, CutIsInBox
<1>14. cell \in CellKeys /\ cell[1] = level /\ cell[2] = code
  <2>1. <<key[1], key[2]>> = cell
    OBVIOUS
  <2> HIDE DEF key
  <2> QED BY <1>5, <2>1 DEF CellKeys, cell
<1>15. error \in Nat /\ Quantum(level) + displacement[cell] <= error
  BY <1>14, WrittenRow
<1> HIDE DEF key, cell, error, q, o
<1> DEFINE shownQ == Shown(q, level, code)
           shownO == Shown(o, 0, MortonEncode(t))
<1>16. shownQ \in Point /\ shownO \in Point
  <2>1. 1 \in Axes
    BY DEF Axes
  <2>2. MortonDecode(code) \in Triples /\ MortonDecode(MortonEncode(t)) \in Triples
    BY <1>3, <1>6, <1>13, CodedTyped, MortonRoundTrip
  <2> QED BY <1>6, <1>7, <1>13, <2>1, <2>2, ShownInBox
<1>17. ASSUME NEW a \in Axes PROVE Abs(shownQ[a] - shownO[a]) <= error
  <2>1. 2 * Abs(q[a] - shownQ[a]) <= Step(level)[a]
    BY <1>3, <1>6, <1>7, ShownIsNear
  <2>2. 2 * Abs(o[a] - shownO[a]) <= Step(0)[a]
    BY <1>13, ShownIsNear
  <2>3. Step(0)[a] <= Step(level)[a] /\ Step(0)[a] \in Nat /\ Step(level)[a] \in Nat
    <3>1. Step(level)[a] = 2 ^ (level - 0) * Step(0)[a]
      BY <1>6, StepsOfSteps
    <3>2. PICK m \in Nat \ {0} : m = 2 ^ (level - 0)
      BY <1>6, Powers
    <3>3. PICK d \in Nat : d = Step(0)[a]
      BY StepTyped
    <3>4. d <= m * d /\ m * d \in Nat
      <4>1. 1 * d <= m * d
        BY <3>2, <3>3, TimesMonotone
      <4> QED BY <3>2, <3>3, <4>1
    <3> QED BY <3>1, <3>2, <3>3, <3>4
  <2>4. Step(level)[a] <= Quantum(level) /\ Quantum(level) \in Nat
    BY <1>6, QuantumTyped
  <2>5. Abs(q[a] - o[a]) <= displacement[cell]
    <3>1. Distance(q, o) \in Nat /\ Abs(q[a] - o[a]) <= Distance(q, o)
      BY <1>7, <1>13, DistanceTyped
    <3>2. Distance(q, o) <= displacement[cell]
      BY <1>9, <1>11 DEF o
    <3>3. q[a] \in Int /\ o[a] \in Int
      BY <1>7, <1>13 DEF Point
    <3> QED BY <1>8, <3>1, <3>2, <3>3 DEF Abs
  <2>6. q[a] \in Int /\ o[a] \in Int /\ shownQ[a] \in Int /\ shownO[a] \in Int
    BY <1>7, <1>13, <1>16 DEF Point
  <2> HIDE DEF shownQ, shownO
  <2> QED BY <1>8, <1>15, <2>1, <2>2, <2>3, <2>4, <2>5, <2>6 DEF Abs
<1>18. Distance(shownQ, shownO) <= error
  <2> HIDE DEF shownQ, shownO
  <2> QED BY <1>15, <1>16, <1>17, DistanceTyped
<1> QED
  BY <1>12, <1>18 DEF q, o, key, cell, error

\* No cell that an object has at a level has more than the object's budget there.
LEMMA BudgetCovers ==
    ASSUME Fresh, NEW id \in Ids, NEW level \in Levels, NEW code \in CodesAt(id, level)
    PROVE  /\ collection.cells[<<level, code>>].lodError \in Nat /\ Budget(id, level) \in Nat
           /\ collection.cells[<<level, code>>].lodError <= Budget(id, level)
<1> DEFINE C == CodesAt(id, level)
           named == collection.objects[id].cells \cap Cells
           f == [c \in C |-> collection.cells[<<level, c>>].lodError]
           S == {collection.cells[key].lodError : key \in {k \in named : k[1] = level}}
           T == {f[c] : c \in C}
<1>1. IsFiniteSet(C) /\ C # {}
  BY CellsAtALevel
<1>2. ASSUME NEW c \in C PROVE f[c] = collection.cells[<<level, c>>].lodError /\ f[c] \in Nat
  <2> DEFINE cell == <<level, c>>
  <2>1. cell \in CellKeys /\ <<cell[1], cell[2]>> = cell
    <3>1. cell \in named /\ Cells = CellKeys
      BY CellsAtALevel, FreshHas
    <3> QED BY <3>1
  <2> HIDE DEF cell
  <2>2. collection.cells[cell].lodError \in Nat
    BY <2>1, WrittenRow
  <2> QED BY <2>2 DEF cell
<1>3. ASSUME NEW x \in S PROVE x \in T
  <2>1. PICK key \in named : key[1] = level /\ x = collection.cells[key].lodError
    OBVIOUS
  <2>2. key[2] \in C /\ key = <<level, key[2]>>
    BY <2>1, CellsAtALevel
  <2> DEFINE c == key[2]
  <2>3. c \in C /\ x = collection.cells[<<level, c>>].lodError
    BY <2>1, <2>2
  <2> HIDE DEF c, C
  <2>4. f[c] = x
    BY <2>3
  <2> QED BY <2>3, <2>4
<1>4. ASSUME NEW x \in T PROVE x \in S
  <2>1. PICK c \in C : x = f[c]
    OBVIOUS
  <2>2. <<level, c>> \in named /\ x = collection.cells[<<level, c>>].lodError
    BY <2>1, CellsAtALevel
  <2> QED BY <2>2
<1> HIDE DEF S
<1>5. S = T
  <2> HIDE DEF T
  <2> QED BY <1>3, <1>4
<1> HIDE DEF f, C
<1>6. Max(T) \in Nat /\ \A c \in C : f[c] <= Max(T)
  BY <1>1, <1>2, MaxOver
<1>7. Budget(id, level) = Max(S)
  BY DEF Budget, S
<1>8. code \in C
  BY DEF C
<1> HIDE DEF T
<1> QED
  BY <1>2, <1>5, <1>6, <1>7, <1>8

\* The vertices of an object at a level that are beyond its lod_error of every corner of its finest
\* faces.  A corner is on the surface: all the others are as near to it as they should be.
BeyondCorners(pair) ==
    LET base == ObjectMesh(pair[1], 0)
    IN  Unmatched(Positions(ObjectMesh(pair[1], pair[2]).points), {base.points[v] : v \in Used(base.faces)},
                  Budget(pair[1], pair[2]))

\* A vertex of the object is a corner of none of the faces that are left of it: its last face was
\* flat when the boundary was snapped, or fell together on the lattice.
Bare(id) ==
    \E t \in DOMAIN fragments[id] : \E p \in Positions(Fine(id, t).points) :
       \A places \in FineSurface(id) : p \notin {places[a] : a \in Axes}

CornersOf(mesh) == {mesh.points[v] : v \in Used(mesh.faces)}

\* Where every vertex has a face, each of a coarser level is near a corner of the finest surface.
LEMMA NearCorners ==
    ASSUME Fresh, input.backend.name = "GREEDY", NEW pair \in Compared, ~Bare(pair[1])
    PROVE  BeyondCorners(pair) = {}
<1>1. PICK id, level : id = pair[1] /\ level = pair[2]
  OBVIOUS
<1>2. id \in Ids /\ level \in Levels /\ 0 \in Levels /\ ObjectReturns(id, level)
  <2>1. /\ pair[1] \in DOMAIN collection.objects /\ pair[2] \in 1 .. collection.levels - 1
        /\ ObjectReturns(pair[1], pair[2])
    BY DEF Compared
  <2>2. /\ DOMAIN collection.objects = Ids /\ collection.levels = input.levels
        /\ Levels = 0 .. input.levels - 1 /\ input.levels \in Nat \ {0}
    BY FreshHas
  <2>3. pair[2] \in Levels /\ 0 \in Levels
    BY <2>1, <2>2
  <2> QED BY <1>1, <2>1, <2>2, <2>3
<1>3. DOMAIN fragments[id] # {}
  BY <1>2, WhatReturnsWasCut
<1> DEFINE base == ObjectMesh(id, 0)
           mesh == ObjectMesh(id, level)
           pieces == PiecesRead(id, level)
<1>4. Surface(base) = FineSurface(id)
  BY <1>2, <1>3, FreshHas, ObjectReadsBack
<1>5. ArePiecesAt(pieces, id, level) /\ mesh = Weld(pieces)
  BY <1>2, <1>3, PiecesReadAt DEF ObjectMesh
<1> HIDE DEF base, mesh, pieces
<1>6. IsMesh(mesh) /\ PointsFrom(mesh.points, pieces)
  BY <1>5, WeldedIsMesh, WeldedPoints DEF ArePiecesAt
<1>7. ASSUME NEW p \in Positions(mesh.points)
      PROVE  \E q \in CornersOf(base) : ~(Distance(p, q) > Budget(id, level))
  <2>1. p \in Point /\ \E c \in DOMAIN pieces : \E v \in DOMAIN pieces[c].points : p = pieces[c].points[v]
    <3>1. PICK u \in DOMAIN mesh.points : p = mesh.points[u]
      BY DEF Positions
    <3> QED BY <1>6, <3>1 DEF PointsFrom, IsMesh
  <2>2. PICK c \in DOMAIN pieces : \E v \in DOMAIN pieces[c].points : p = pieces[c].points[v]
    BY <2>1
  <2>3. PICK v \in DOMAIN pieces[c].points : p = pieces[c].points[v]
    BY <2>2
  <2>4. PICK code \in CodesAt(id, level) : pieces[c] = ShownIn(perLevel[<<level, code, id>>], level, code)
    BY <1>5 DEF ArePiecesAt
  <2>5. v \in DOMAIN perLevel[<<level, code, id>>].points /\ p = Shown(perLevel[<<level, code, id>>].points[v], level, code)
    BY <2>3, <2>4 DEF ShownIn
  <2>6. PICK t \in DOMAIN fragments[id] : \E w \in DOMAIN fragments[id][t].points :
           Distance(p, Shown(fragments[id][t].points[w], 0, MortonEncode(t)))
              <= collection.cells[<<level, code>>].lodError
    BY <1>2, <2>5, CoarseIsNear
  <2>7. PICK w \in DOMAIN fragments[id][t].points :
           Distance(p, Shown(fragments[id][t].points[w], 0, MortonEncode(t)))
              <= collection.cells[<<level, code>>].lodError
    BY <2>6
  <2> DEFINE q == Shown(fragments[id][t].points[w], 0, MortonEncode(t))
             error == collection.cells[<<level, code>>].lodError
  <2>8. q \in Positions(Fine(id, t).points)
    <3>1. w \in DOMAIN Fine(id, t).points /\ Fine(id, t).points[w] = q
      BY DEF Fine, ShownIn
    <3> HIDE DEF q
    <3> QED BY <3>1 DEF Positions
  <2>9. q \in Point
    <3>1. IsMesh(Fine(id, t))
      BY <1>2, FreshHas, FineIsMesh
    <3> HIDE DEF q
    <3> QED BY <2>8, <3>1 DEF Positions, IsMesh
  <2>10. error \in Nat /\ Budget(id, level) \in Nat /\ error <= Budget(id, level)
    BY <1>2, BudgetCovers
  <2>11. Distance(p, q) <= error
    BY <2>7
  <2> HIDE DEF q, error
  <2>12. Distance(p, q) \in Nat
    BY <2>1, <2>9, DistanceTyped
  <2>13. ~(Distance(p, q) > Budget(id, level))
    BY <2>10, <2>11, <2>12
  <2>14. PICK places \in FineSurface(id) : q \in {places[a] : a \in Axes}
    BY <1>1, <2>8 DEF Bare
  <2>15. PICK f \in DOMAIN base.faces : places = Placed(base, f)
    BY <1>4, <2>14 DEF Surface
  <2>16. PICK a \in Axes : q = places[a]
    BY <2>14
  <2>17. q = base.points[base.faces[f][a]] /\ base.faces[f][a] \in Used(base.faces)
    BY <2>15, <2>16 DEF Placed, Used, Corners
  <2>18. q \in CornersOf(base)
    BY <2>17 DEF CornersOf
  <2> QED BY <2>13, <2>18
<1>8. Unmatched(Positions(mesh.points), CornersOf(base), Budget(id, level)) = {}
  BY <1>7 DEF Unmatched
<1> QED
  BY <1>1, <1>8 DEF BeyondCorners, CornersOf, mesh, base

\* The sum of three times the terms.
LEMMA SumThrice ==
    ASSUME NEW S, IsFiniteSet(S), NEW f \in [S -> Int], NEW g \in [S -> Int], \A x \in S : f[x] = 3 * g[x]
    PROVE  SumOf(g, S) \in Int /\ SumOf(f, S) = 3 * SumOf(g, S)
<1>1. PICK h \in [SUBSET S -> Int] : SumsUp(h, f, S) /\ SumOf(f, S) = h[S]
  BY SumEquation
<1>2. PICK k \in [SUBSET S -> Int] : SumsUp(k, g, S) /\ SumOf(g, S) = k[S]
  BY SumEquation
<1> DEFINE P == {T \in SUBSET S : h[T] = 3 * k[T]}
<1>3. ASSUME NEW T \in SUBSET S, \A x \in T : T \ {x} \in P PROVE T \in P
  <2>1. CASE T = {}
    BY <1>1, <1>2, <2>1 DEF SumsUp
  <2>2. CASE T # {}
    <3>1. Some(T) \in T
      BY <2>2 DEF Some
    <3>2. h[T] = f[Some(T)] + h[T \ {Some(T)}] /\ k[T] = g[Some(T)] + k[T \ {Some(T)}]
      BY <1>1, <1>2, <2>2 DEF SumsUp
    <3>3. h[T \ {Some(T)}] = 3 * k[T \ {Some(T)}] /\ f[Some(T)] = 3 * g[Some(T)]
      BY <1>3, <3>1
    <3>4. T \ {Some(T)} \in SUBSET S /\ g[Some(T)] \in Int
      BY <3>1
    <3> QED BY <1>2, <3>2, <3>3, <3>4
  <2> QED BY <2>1, <2>2
<1>4. S \in P
  <2> HIDE DEF P
  <2> QED BY <1>3, FiniteSetInduction
<1> QED
  BY <1>1, <1>2, <1>4

\* The two sums of a level, as the folds define them.
ListedUp(h, K) ==
    h = [T \in SUBSET K |-> IF T = {} THEN 0 ELSE collection.cells[Some(T)].indexCount + h[T \ {Some(T)}]]

CountedUp(h, K) ==
    h = [T \in SUBSET K |-> IF T = {} THEN 0 ELSE cellRows[Some(T)].indexCount \div 3 + h[T \ {Some(T)}]]

KeysAt(level) == {key \in Cells : key[1] = level}

LEMMA FacesListedSum ==
    ASSUME NEW level, NEW f \in [KeysAt(level) -> Int],
           \A key \in KeysAt(level) : f[key] = collection.cells[key].indexCount
    PROVE  FacesListed(level) = SumOf(f, KeysAt(level)) \div 3
<1> DEFINE K == KeysAt(level)
<1>1. FacesListed(level) = ((CHOOSE h : ListedUp(h, K))[K]) \div 3
  BY DEF FacesListed, KeysAt, MapThenSumSet, MapThenFoldSet, ListedUp, Some
<1>2. SumOf(f, K) = (CHOOSE h : SumsUp(h, f, K))[K]
  BY DEF SumOf, MapThenSumSet, MapThenFoldSet, SumsUp, Some
<1>3. \A T \in SUBSET K : T # {} => f[Some(T)] = collection.cells[Some(T)].indexCount
  BY DEF Some
<1> HIDE DEF K
<1>4. ASSUME NEW h PROVE ListedUp(h, K) <=> SumsUp(h, f, K)
  <2>1. [T \in SUBSET K |-> IF T = {} THEN 0 ELSE collection.cells[Some(T)].indexCount + h[T \ {Some(T)}]]
          = [T \in SUBSET K |-> IF T = {} THEN 0 ELSE f[Some(T)] + h[T \ {Some(T)}]]
    BY <1>3
  <2> QED BY <2>1 DEF SumsUp, ListedUp
<1>5. (CHOOSE h : ListedUp(h, K)) = (CHOOSE h : SumsUp(h, f, K))
  BY <1>4
<1> QED
  BY <1>1, <1>2, <1>5 DEF K

LEMMA FacesOfSum ==
    ASSUME NEW level, Cells = DOMAIN cellRows, NEW f \in [KeysAt(level) -> Int],
           \A key \in KeysAt(level) : f[key] = cellRows[key].indexCount \div 3
    PROVE  FacesOf(cellRows, level) = SumOf(f, KeysAt(level))
<1> DEFINE K == KeysAt(level)
<1>1. FacesOf(cellRows, level) = (CHOOSE h : CountedUp(h, K))[K]
  BY DEF FacesOf, KeysAt, MapThenSumSet, MapThenFoldSet, CountedUp, Some
<1>2. SumOf(f, K) = (CHOOSE h : SumsUp(h, f, K))[K]
  BY DEF SumOf, MapThenSumSet, MapThenFoldSet, SumsUp, Some
<1>3. \A T \in SUBSET K : T # {} => f[Some(T)] = cellRows[Some(T)].indexCount \div 3
  BY DEF Some
<1> HIDE DEF K
<1>4. ASSUME NEW h PROVE CountedUp(h, K) <=> SumsUp(h, f, K)
  <2>1. [T \in SUBSET K |-> IF T = {} THEN 0 ELSE cellRows[Some(T)].indexCount \div 3 + h[T \ {Some(T)}]]
          = [T \in SUBSET K |-> IF T = {} THEN 0 ELSE f[Some(T)] + h[T \ {Some(T)}]]
    BY <1>3
  <2> QED BY <2>1 DEF SumsUp, CountedUp
<1>5. (CHOOSE h : CountedUp(h, K)) = (CHOOSE h : SumsUp(h, f, K))
  BY <1>4
<1> QED
  BY <1>1, <1>2, <1>5 DEF K

\* What the verifier counts at a level is what the builder counted.
LEMMA FacesCounted ==
    ASSUME Fresh, NEW level \in Levels
    PROVE  FacesListed(level) = FacesOf(cellRows, level) /\ FacesListed(level) \in Int
<1> DEFINE K == KeysAt(level)
           count(key) == Len(Concatenated(PiecesIn(key[1], key[2])).faces)
           f == [key \in K |-> 3 * count(key)]
           g == [key \in K |-> count(key)]
<1>1. Cells = CellKeys /\ DOMAIN cellRows = CellKeys /\ Tallied /\ phase = "written"
  BY FreshHas
<1>2. ASSUME NEW key \in K
      PROVE  /\ key \in CellKeys /\ key[1] = level /\ key = <<key[1], key[2]>> /\ count(key) \in Nat
             /\ collection.cells[key].indexCount = 3 * count(key)
             /\ cellRows[key].indexCount \div 3 = count(key)
  <2>1. key \in CellKeys /\ key[1] = level
    BY <1>1 DEF KeysAt
  <2>2. ArePieces(PiecesIn(key[1], key[2])) /\ key = <<key[1], key[2]>>
    BY <2>1, CellIsRead
  <2>3. count(key) \in Nat
    <3>1. IsMesh(Concatenated(PiecesIn(key[1], key[2])))
      BY <2>2, ConcatenatedIsMesh
    <3> QED BY <3>1 DEF IsMesh
  <2>4. collection.cells[key].indexCount = 3 * count(key)
    BY <2>1, WrittenRow
  <2>5. cellRows[key].indexCount = 3 * count(key)
    BY <1>1, <2>1 DEF Tallied, Tally
  <2> HIDE DEF count
  <2>6. cellRows[key].indexCount \div 3 = count(key)
    BY <2>3, <2>5
  <2> QED BY <2>1, <2>2, <2>3, <2>4, <2>6
<1> HIDE DEF count
<1>3. f \in [K -> Int] /\ g \in [K -> Int] /\ \A key \in K : f[key] = 3 * g[key] /\ g[key] = count(key)
  BY <1>2
<1>4. IsFiniteSet(K)
  <2> DEFINE codes(id) == CodesAt(id, level)
             C == UNION {codes(id) : id \in Ids}
             at == [c \in C |-> <<level, c>>]
             T == {at[c] : c \in C}
  <2>1. IsFiniteSet(C)
    <3> DEFINE each == [id \in Ids |-> codes(id)]
               F == {each[id] : id \in Ids}
    <3>1. \A id \in Ids : IsFiniteSet(codes(id))
      BY CellsAtALevel
    <3>2. IsFiniteSet(Ids)
      BY FreshHas
    <3>3. C = UNION F
      OBVIOUS
    <3>4. \A S \in F : IsFiniteSet(S)
      BY <3>1
    <3> HIDE DEF each
    <3>5. IsFiniteSet(F)
      BY <3>2, ImageFinite
    <3> HIDE DEF F, C
    <3> QED BY <3>3, <3>4, <3>5, FS_UNION
  <2>2. ASSUME NEW key \in K PROVE key \in T
    <3>1. key \in CellKeys /\ key = <<level, key[2]>>
      BY <1>2
    <3>2. PICK k \in DOMAIN perLevel : key = <<k[1], k[2]>>
      BY <3>1 DEF CellKeys
    <3>3. PICK task : IsTask(task) /\ k = KeyOf(task)
      BY FreshHas DEF Covered
    <3>4. PICK id \in Ids, l \in Levels : \E t \in DOMAIN fragments[id] : task = Task(id, l, t)
      BY <3>3 DEF IsTask
    <3>5. PICK t \in DOMAIN fragments[id] : task = Task(id, l, t)
      BY <3>4
    <3>6. l = level /\ key[2] = MortonEncode(CoarseOf(t, level))
      <4>1. k = <<l, MortonEncode(CoarseOf(t, l)), id>>
        BY <3>3, <3>5 DEF KeyOf, Task
      <4> QED BY <1>2, <3>2, <4>1
    <3>7. key[2] \in C
      BY <3>6 DEF CodesAt
    <3> HIDE DEF C
    <3> QED BY <3>1, <3>7
  <2> HIDE DEF C, at
  <2>3. IsFiniteSet(T)
    BY <2>1, ImageFinite
  <2>4. K \subseteq T
    BY <2>2
  <2> HIDE DEF T, K
  <2> QED BY <2>3, <2>4, FS_Subset
<1>5. FacesListed(level) = SumOf(f, K) \div 3
  <2>1. \A key \in K : f[key] = collection.cells[key].indexCount
    BY <1>2
  <2> HIDE DEF f, g
  <2> QED BY <1>3, <2>1, FacesListedSum
<1>6. FacesOf(cellRows, level) = SumOf(g, K)
  <2>1. \A key \in K : g[key] = cellRows[key].indexCount \div 3
    BY <1>2, <1>3
  <2> HIDE DEF f, g
  <2> QED BY <1>1, <1>3, <2>1, FacesOfSum
<1> HIDE DEF f, g, K
<1>7. SumOf(g, K) \in Int /\ SumOf(f, K) = 3 * SumOf(g, K)
  BY <1>3, <1>4, SumThrice
<1>8. PICK m \in Int : m = SumOf(g, K)
  BY <1>7
<1> QED
  BY <1>5, <1>6, <1>7, <1>8

\* A level that is no smaller than the next finer one is one that the builder warned of.
LEMMA SmallerIsWarned ==
    ASSUME Fresh, ~CoarseLevelsAreSmaller
    PROVE  warned.inverted # {}
<1>1. /\ collection.levels = input.levels /\ input.levels \in Nat \ {0} /\ Levels = 0 .. input.levels - 1
      /\ warned.inverted = InvertedIn(cellRows, input.levels)
  BY FreshHas DEF Tallied
<1>2. PICK level \in 1 .. input.levels - 1 : ~(FacesListed(level) <= FacesListed(level - 1))
  BY <1>1 DEF CoarseLevelsAreSmaller
<1>3. level \in Levels /\ level - 1 \in Levels
  BY <1>1
<1>4. PICK below : below = level - 1
  OBVIOUS
<1>5. /\ FacesListed(level) = FacesOf(cellRows, level) /\ FacesListed(level) \in Int
      /\ FacesListed(below) = FacesOf(cellRows, below) /\ FacesListed(below) \in Int
  BY <1>3, <1>4, FacesCounted
<1>6. FacesOf(cellRows, level) > FacesOf(cellRows, level - 1)
  BY <1>2, <1>4, <1>5
<1> QED
  BY <1>1, <1>6 DEF InvertedIn

\* What a verifier may find of a collection as it was written.
Excused(failures) ==
    /\ failures \subseteq {"smaller", "appeared", "vanished", "bound"} \cup (IF NothingCut THEN {"levels"} ELSE {})
    /\ "smaller" \in failures => warned.inverted # {}

\* It finds nothing else, at any of the tiers.
LEMMA FailuresAreExcused ==
    ASSUME Fresh, NEW tier \in DOMAIN Tiers
    PROVE  Excused(Failures(tier))
<1> DEFINE levels == IF NothingCut THEN {"levels"} ELSE {}
           structure == Failed(Structure)
           blobs == Failed(Blobs)
           geometry == Failed(Geometry)
<1>1. structure \subseteq levels
  BY StructureStands
<1>2. blobs = {}
  BY BlobsStand
<1>3. geometry \subseteq {"smaller", "appeared", "vanished", "bound"}
  BY DEF Failed, Geometry
<1>4. "smaller" \in geometry => warned.inverted # {}
  <2>1. "smaller" \in geometry => ~CoarseLevelsAreSmaller
    BY DEF Failed, Geometry
  <2> QED BY <2>1, SmallerIsWarned
<1>5. ~MeasureRaises
  BY NothingRaises
<1> HIDE DEF structure, blobs, geometry
<1>6. \A name \in Failures(tier) : name \in structure \/ name \in blobs \/ name \in geometry
  <2> DEFINE some == IF tier > 1 THEN Failed(Blobs) ELSE {}
             more == IF tier > 2 THEN (IF MeasureRaises THEN {"raised"} ELSE Failed(Geometry)) ELSE {}
  <2>1. Failures(tier) = structure \cup some \cup more
    BY DEF Failures, structure
  <2>2. some \subseteq blobs /\ more \subseteq geometry
    BY <1>5 DEF blobs, geometry
  <2> HIDE DEF some, more
  <2> QED BY <2>1, <2>2
<1>7. "smaller" \notin levels
  OBVIOUS
<1> QED
  BY <1>1, <1>2, <1>3, <1>4, <1>6, <1>7 DEF Excused

\* A report is about a collection that was written, and excused while nothing has gone wrong.
Judged ==
    Verified => phase = "written" /\ (fault = "none" => Excused(report.failures))

LEMMA JudgedStep ==
    WrittenInv /\ Judged /\ [VerifyNext]_verifyVars => Judged'
<1> SUFFICES ASSUME WrittenInv, Judged, [VerifyNext]_verifyVars, report' # NoReport
             PROVE  phase' = "written" /\ (fault' = "none" => Excused(report.failures)')
  BY DEF Judged, Verified
<1>1. ASSUME UNCHANGED buildVars, report' # NoReport, fault' = "none" => fault = "none",
             phase = "written", fault = "none" => Excused(report'.failures)
      PROVE  phase' = "written" /\ (fault' = "none" => Excused(report.failures)')
  <2>1. UNCHANGED <<input, phase, fragments, warned>>
    BY <1>1 DEF buildVars
  <2>2. NothingCut' = NothingCut
    BY <2>1 DEF Ids, NothingCut
  <2>3. Excused(report.failures)' <=> Excused(report'.failures)
    BY <2>1, <2>2 DEF Excused
  <2> QED BY <1>1, <2>1, <2>3
<1>2. CASE \E tier \in DOMAIN Tiers : Verification(tier)
  <2>1. PICK tier \in DOMAIN Tiers : Verification(tier)
    BY <1>2
  <2>2. /\ phase = "written" /\ UNCHANGED <<buildVars, fault>> /\ report'.failures = Failures(tier)
    BY <2>1 DEF Verification
  <2>3. fault = "none" => Excused(report'.failures)
    BY <2>2, FailuresAreExcused DEF Fresh
  <2> QED BY <1>1, <2>2, <2>3
<1>3. CASE Tampering
  BY <1>3 DEF Tampering
<1>4. CASE UNCHANGED verifyVars
  <2>1. UNCHANGED <<buildVars, fault, report>>
    BY <1>4 DEF verifyVars
  <2>2. phase = "written" /\ (fault = "none" => Excused(report'.failures))
    BY <2>1 DEF Judged, Verified
  <2> QED BY <1>1, <2>1, <2>2
<1>5. ASSUME BuildStep, UNCHANGED <<fault, report>>
      PROVE  phase' = "written" /\ (fault' = "none" => Excused(report.failures)')
  <2>1. phase = "written" /\ (fault = "none" => Excused(report'.failures))
    BY <1>5 DEF Judged, Verified
  <2>2. Covered /\ Answers
    BY DEF WrittenInv, BuildInv, SeamsInv
  <2>3. todo = {}
    BY <2>1, <2>2 DEF Covered
  <2>4. UNCHANGED buildVars
    BY <1>5, <2>1, <2>2, <2>3
       DEF BuildStep, Cut, EndLevels, AssembleCell, RefuseCell, FinishCatalogs, Write
  <2> QED BY <1>1, <1>5, <2>1, <2>4
<1> QED
  BY <1>2, <1>3, <1>4, <1>5 DEF VerifyNext

\* For every build: it is so of what is written, whether or not the vertices have faces.
THEOREM LodErrorReachesTheCut == VerifySpec => []CoarseVerticesAreNear
<1>1. ASSUME Fresh, input.backend.name = "GREEDY", NEW key \in DOMAIN perLevel,
             NEW v \in DOMAIN perLevel[key].points
      PROVE  \E t \in DOMAIN fragments[key[3]] : \E p \in Positions(Fine(key[3], t).points) :
                Distance(Shown(perLevel[key].points[v], key[1], key[2]), p)
                   <= collection.cells[<<key[1], key[2]>>].lodError
  <2>1. PICK task : IsTask(task) /\ key = KeyOf(task)
    BY <1>1, FreshHas DEF Covered
  <2>2. PICK id \in Ids, level \in Levels : \E t \in DOMAIN fragments[id] : task = Task(id, level, t)
    BY <2>1 DEF IsTask
  <2>3. PICK s \in DOMAIN fragments[id] : task = Task(id, level, s)
    BY <2>2
  <2>4. PICK code \in CodesAt(id, level) : code = MortonEncode(CoarseOf(s, level))
    BY DEF CodesAt
  <2>5. key = <<level, code, id>> /\ key[1] = level /\ key[2] = code /\ key[3] = id
    BY <2>1, <2>3, <2>4 DEF KeyOf, Task
  <2>6. v \in DOMAIN perLevel[<<level, code, id>>].points
    BY <1>1, <2>5
  <2>7. PICK t \in DOMAIN fragments[id] : \E w \in DOMAIN fragments[id][t].points :
           Distance(Shown(perLevel[<<level, code, id>>].points[v], level, code),
                    Shown(fragments[id][t].points[w], 0, MortonEncode(t)))
              <= collection.cells[<<level, code>>].lodError
    BY <1>1, <2>6, CoarseIsNear
  <2>8. PICK w \in DOMAIN fragments[id][t].points :
           Distance(Shown(perLevel[<<level, code, id>>].points[v], level, code),
                    Shown(fragments[id][t].points[w], 0, MortonEncode(t)))
              <= collection.cells[<<level, code>>].lodError
    BY <2>7
  <2> DEFINE p == Shown(fragments[id][t].points[w], 0, MortonEncode(t))
  <2>9. p \in Positions(Fine(id, t).points)
    <3>1. w \in DOMAIN Fine(id, t).points /\ Fine(id, t).points[w] = p
      BY DEF Fine, ShownIn
    <3> HIDE DEF p
    <3> QED BY <3>1 DEF Positions
  <2>10. Distance(Shown(perLevel[key].points[v], key[1], key[2]), p) <= collection.cells[<<key[1], key[2]>>].lodError
    BY <2>5, <2>8
  <2> HIDE DEF p
  <2> QED BY <2>5, <2>9, <2>10
<1>2. WrittenInv => CoarseVerticesAreNear
  BY <1>1 DEF Fresh, CoarseVerticesAreNear
<1> QED
  BY <1>2, WrittenInvHolds, PTL

\* Corner by corner: of a greedy collapse, no vertex of an object at a coarser level is further than
\* the object's lod_error there from every corner of its finest surface, unless the object has a
\* vertex without a face.  Of an object without such a vertex, what the verifier reports of the
\* distance is overstated.
OnlyTheBareAreBeyond ==
    phase = "written" /\ fault = "none" /\ input.backend.name = "GREEDY" =>
        \A pair \in Compared : BeyondCorners(pair) # {} => Bare(pair[1])

\* For every build: read back through the rows and welded, each level is near the finest one.
THEOREM LodErrorReachesTheSurface == VerifySpec => []OnlyTheBareAreBeyond
<1>1. WrittenInv => OnlyTheBareAreBeyond
  BY NearCorners DEF Fresh, OnlyTheBareAreBeyond
<1> QED
  BY <1>1, WrittenInvHolds, PTL

\* For every collection, lattice and budget: what the builder makes and the writer writes, the
\* verifier accepts at each of its tiers, but for what the builder itself cannot promise.
THEOREM WhatIsWrittenIsAccepted == VerifySpec => []VerifierAccepts
<1>1. VerifyInit => Judged
  BY DEF VerifyInit, Judged, Verified
<1>2. WrittenInv /\ Judged /\ [VerifyNext]_verifyVars => Judged'
  BY JudgedStep
<1>3. Judged => VerifierAccepts
  BY DEF Judged, VerifierAccepts, Excused
<1> QED
  BY <1>1, <1>2, <1>3, WrittenInvHolds, PTL DEF VerifySpec

-----------------------------------------------------------------------------
(* What the verifier measures is never less than a distance (_point_to_faces). *)

LEMMA PairFinite ==
    ASSUME NEW x, NEW y
    PROVE  IsFiniteSet({x, y})
<1>1. IsFiniteSet({x})
  BY FS_Singleton
<1>2. IsFiniteSet({x} \cup {y})
  BY <1>1, FS_AddElement
<1>3. {x} \cup {y} = {x, y}
  OBVIOUS
<1> QED
  BY <1>2, <1>3

LEMMA ClippedBetween ==
    ASSUME NEW n \in Int, NEW top \in Nat
    PROVE  /\ ClippedTo(n, top) \in 0 .. top
           /\ n \in 0 .. top => ClippedTo(n, top) = n
<1> DEFINE low == Max({n, 0})
           both == {low, top}
<1>1. low \in {n, 0} /\ n <= low /\ 0 <= low
  <2>1. {n, 0} \in SUBSET Int /\ {n, 0} # {}
    OBVIOUS
  <2>2. IsFiniteSet({n, 0})
    BY PairFinite
  <2> QED BY <2>1, <2>2, MaxMember
<1> HIDE DEF low
<1>2. Min(both) \in both /\ Min(both) <= low /\ Min(both) <= top
  <2>1. both \in SUBSET Int /\ both # {}
    BY <1>1
  <2>3. IsFiniteSet(both)
    BY PairFinite
  <2>2. low \in both /\ top \in both
    OBVIOUS
  <2> HIDE DEF both
  <2> QED BY <2>1, <2>2, <2>3, MinMember
<1>3. ClippedTo(n, top) = Min(both)
  BY DEF ClippedTo, low, both
<1> QED
  BY <1>1, <1>2, <1>3

\* The scalar product is a whole number.
LEMMA DotTyped ==
    ASSUME NEW from \in Point, NEW p \in Point, NEW q \in Point
    PROVE  Dot(from, p, q) \in Int
<1>1. ASSUME NEW a \in Axes PROVE (p[a] - from[a]) * (q[a] - from[a]) \in Int
  BY DEF Point
<1>2. 1 \in Axes /\ 2 \in Axes /\ 3 \in Axes
  BY DEF Axes
<1>3. \A i, j, k \in Int : i + j + k \in Int
  OBVIOUS
<1> QED
  BY <1>1, <1>2, <1>3 DEF Dot

\* The weights are not negative, and not all of them are zero.
LEMMA WeightsTyped ==
    ASSUME NEW at \in [Axes -> Point], NEW p \in Point
    PROVE  /\ Weights(at, p)[1] \in Nat /\ Weights(at, p)[2] \in Nat /\ Weights(at, p)[3] \in Nat
           /\ Weights(at, p)[1] + Weights(at, p)[2] + Weights(at, p)[3] > 0
<1> DEFINE d00 == Dot(at[1], at[2], at[2])
           d01 == Dot(at[1], at[2], at[3])
           d11 == Dot(at[1], at[3], at[3])
           d20 == Dot(at[1], p, at[2])
           d21 == Dot(at[1], p, at[3])
           gram == d00 * d11 - d01 * d01
           d == Max({gram, 1})
           forV == d11 * d20 - d01 * d21
           forW == d00 * d21 - d01 * d20
           v == ClippedTo(forV, d)
           w == ClippedTo(forW, d)
           u == ClippedTo(d - v - w, d)
<1>1. Weights(at, p) = <<u, v, w>>
  BY DEF Weights
<1>2. d00 \in Int /\ d01 \in Int /\ d11 \in Int /\ d20 \in Int /\ d21 \in Int
  <2>1. at[1] \in Point /\ at[2] \in Point /\ at[3] \in Point
    BY DEF Axes
  <2> QED BY <2>1, DotTyped
<1> HIDE DEF d00, d01, d11, d20, d21
<1>3. gram \in Int /\ forV \in Int /\ forW \in Int
  BY <1>2
<1> HIDE DEF gram, forV, forW
<1>4. d \in Nat /\ 1 <= d
  <2>1. {gram, 1} \in SUBSET Int /\ {gram, 1} # {}
    BY <1>3
  <2>2. IsFiniteSet({gram, 1})
    BY PairFinite
  <2>3. d \in Int /\ 1 <= d
    BY <2>1, <2>2, MaxMember
  <2> QED BY <2>3
<1> HIDE DEF d
<1>5. v \in 0 .. d /\ w \in 0 .. d
  BY <1>3, <1>4, ClippedBetween
<1> HIDE DEF v, w
<1>6. u \in 0 .. d /\ (d - v - w \in 0 .. d => u = d - v - w)
  <2>1. d - v - w \in Int
    BY <1>4, <1>5
  <2> QED BY <1>4, <2>1, ClippedBetween
<1> HIDE DEF u
<1>7. u \in Nat /\ v \in Nat /\ w \in Nat /\ u + v + w > 0
  BY <1>4, <1>5, <1>6
<1> QED
  BY <1>1, <1>7

\* Whole numbers that are all beyond the limit have a weighted mean that is.
LEMMA MeanBeyond ==
    ASSUME NEW u \in Nat, NEW v \in Nat, NEW w \in Nat, u + v + w > 0, NEW limit \in Nat,
           NEW x \in Int, NEW y \in Int, NEW z \in Int, limit < x, limit < y, limit < z
    PROVE  u * x + v * y + w * z > limit * (u + v + w)
<1> DEFINE more == limit + 1
           total == u + v + w
<1>1. more * u <= x * u /\ more * v <= y * v /\ more * w <= z * w
  <2>1. more \in Int /\ more <= x /\ more <= y /\ more <= z
    OBVIOUS
  <2> HIDE DEF more
  <2> QED BY <2>1, TimesMonotone
<1>2. more * u + more * v + more * w = limit * total + total
  OBVIOUS
<1>3. more * u \in Int /\ more * v \in Int /\ more * w \in Int /\ limit * total \in Int /\ total \in Nat /\ total > 0
  OBVIOUS
<1>4. u * x \in Int /\ v * y \in Int /\ w * z \in Int /\ u * x = x * u /\ v * y = y * v /\ w * z = z * w
  OBVIOUS
<1> DEFINE ux == u * x
           vy == v * y
           wz == w * z
           mu == more * u
           mv == more * v
           mw == more * w
           lt == limit * total
<1>5. ux \in Int /\ vy \in Int /\ wz \in Int /\ mu <= ux /\ mv <= vy /\ mw <= wz
  BY <1>1, <1>4
<1>6. mu \in Int /\ mv \in Int /\ mw \in Int /\ lt \in Int /\ mu + mv + mw = lt + total /\ total \in Nat /\ total > 0
  BY <1>2, <1>3
<1>7. ux + vy + wz > lt
  <2> HIDE DEF ux, vy, wz, mu, mv, mw, lt, total
  <2> QED BY <1>5, <1>6
<1> QED
  BY <1>7

\* The measure errs on one side only, for any triangle, be it flat, and any limit: a point that is
\* accepted as near to a face is in the box around that face, or no further out of it than the
\* limit.  (Of clipped weights that are left as they are, TLC finds points that are anywhere.)
THEOREM NearIsAround ==
    ASSUME NEW mesh, IsMesh(mesh), NEW f \in DOMAIN mesh.faces, NEW p \in Point, NEW limit \in Nat,
           IsNear(Placed(mesh, f), p, limit)
    PROVE  f \in Around(mesh, p, limit)
<1> DEFINE at == Placed(mesh, f)
           W == Weights(at, p)
<1>1. at \in [Axes -> Point]
  <2>1. mesh.points \in Seq(Point) /\ mesh.faces \in Seq(Face) /\ Used(mesh.faces) \subseteq DOMAIN mesh.points
    BY DEF IsMesh
  <2>2. \A a \in Axes : mesh.faces[f][a] \in DOMAIN mesh.points
    BY <2>1 DEF Used, Corners
  <2>3. \A v \in DOMAIN mesh.points : mesh.points[v] \in Point
    BY <2>1
  <2> QED BY <2>2, <2>3 DEF Placed
<1>2. W[1] \in Nat /\ W[2] \in Nat /\ W[3] \in Nat /\ W[1] + W[2] + W[3] > 0
  BY <1>1, WeightsTyped
<1>3. ASSUME NEW a \in Axes
      PROVE  Abs(W[1] * (at[1][a] - p[a]) + W[2] * (at[2][a] - p[a]) + W[3] * (at[3][a] - p[a]))
                <= limit * (W[1] + W[2] + W[3])
  BY DEF IsNear
<1> HIDE DEF at, W
<1>4. ASSUME NEW a \in Axes
      PROVE  p[a] \in Min({at[c][a] : c \in Axes}) - limit .. Max({at[c][a] : c \in Axes}) + limit
  <2> DEFINE along == {at[c][a] : c \in Axes}
             x == at[1][a] - p[a]
             y == at[2][a] - p[a]
             z == at[3][a] - p[a]
             sum == W[1] * x + W[2] * y + W[3] * z
             most == limit * (W[1] + W[2] + W[3])
  <2>1. /\ p[a] \in Int /\ at[1][a] \in Int /\ at[2][a] \in Int /\ at[3][a] \in Int
        /\ along = {at[1][a], at[2][a], at[3][a]}
    BY <1>1 DEF Point, Axes
  <2>2. Max(along) \in Int /\ Min(along) \in Int /\ \A n \in along : n <= Max(along) /\ Min(along) <= n
    <3>1. IsFiniteSet(along)
      <4>1. IsFiniteSet({at[1][a], at[2][a]} \cup {at[3][a]})
        BY PairFinite, FS_AddElement
      <4> QED BY <2>1, <4>1
    <3>2. along \in SUBSET Int /\ along # {}
      BY <2>1
    <3> HIDE DEF along
    <3> QED BY <3>1, <3>2, MaxMember, MinMember
  <2>3. x \in Int /\ y \in Int /\ z \in Int
    BY <2>1
  <2>4. Abs(sum) <= most
    BY <1>3
  <2>5. sum \in Int /\ most \in Int
    BY <1>2, <2>3
  <2>6. ~(limit < x /\ limit < y /\ limit < z)
    <3> SUFFICES ASSUME limit < x, limit < y, limit < z PROVE FALSE
      OBVIOUS
    <3>1. sum > most
      <4> HIDE DEF x, y, z
      <4> QED BY <1>2, <2>3, MeanBeyond
    <3> HIDE DEF sum, most
    <3> QED BY <2>4, <2>5, <3>1 DEF Abs
  <2>7. ~(limit < -x /\ limit < -y /\ limit < -z)
    <3> SUFFICES ASSUME limit < -x, limit < -y, limit < -z PROVE FALSE
      OBVIOUS
    <3>1. W[1] * (-x) + W[2] * (-y) + W[3] * (-z) > most
      <4>1. -x \in Int /\ -y \in Int /\ -z \in Int
        BY <2>3
      <4> HIDE DEF x, y, z
      <4> QED BY <1>2, <4>1, MeanBeyond
    <3>2. W[1] * (-x) + W[2] * (-y) + W[3] * (-z) = -sum
      <4> HIDE DEF x, y, z
      <4>1. \A i \in Nat, j \in Int : i * (-j) = -(i * j) /\ i * j \in Int
        OBVIOUS
      <4>2. W[1] * (-x) = -(W[1] * x) /\ W[2] * (-y) = -(W[2] * y) /\ W[3] * (-z) = -(W[3] * z)
        BY <1>2, <2>3, <4>1
      <4>3. W[1] * x \in Int /\ W[2] * y \in Int /\ W[3] * z \in Int
        BY <1>2, <2>3, <4>1
      <4>4. \A i, j, k \in Int : (-i) + (-j) + (-k) = -(i + j + k)
        OBVIOUS
      <4> QED BY <4>2, <4>3, <4>4
    <3> HIDE DEF sum, most, x, y, z
    <3> QED BY <2>4, <2>5, <3>1, <3>2 DEF Abs
  <2>8. at[1][a] \in along /\ at[2][a] \in along /\ at[3][a] \in along
    BY <2>1
  <2>9. Min(along) - limit <= p[a] /\ p[a] <= Max(along) + limit
    <3> HIDE DEF along
    <3>1. x <= limit \/ y <= limit \/ z <= limit
      BY <2>3, <2>6
    <3>2. -x <= limit \/ -y <= limit \/ -z <= limit
      BY <2>3, <2>7
    <3> QED BY <2>1, <2>2, <2>8, <3>1, <3>2
  <2> QED BY <2>1, <2>2, <2>9
<1> QED
  BY <1>4 DEF Around, at

-----------------------------------------------------------------------------
(* Every row is in one place. *)

\* The members of a list are of different cells.
Distinct(list) == \A i, j \in DOMAIN list : list[i].cell = list[j].cell => i = j

\* The pieces hold members of the list, and a cell is in one of them, once.
Scattered(pieces, list) ==
    /\ \A g \in DOMAIN pieces : \A i \in DOMAIN pieces[g] : \E j \in DOMAIN list : pieces[g][i] = list[j]
    /\ \A g, h \in DOMAIN pieces : \A i \in DOMAIN pieces[g] : \A k \in DOMAIN pieces[h] :
          pieces[g][i].cell = pieces[h][k].cell => g = h /\ i = k

\* No place is in two runs of a plan.
LEMMA RunsAreApart ==
    ASSUME NEW list \in Seq(Nat), NEW b \in Int, NEW runs, runs = Chunks!PlanByteChunks(list, b),
           NEW g \in DOMAIN runs, NEW h \in DOMAIN runs, NEW j \in Int,
           j \in runs[g][1] + 1 .. runs[g][1] + runs[g][2], j \in runs[h][1] + 1 .. runs[h][1] + runs[h][2]
    PROVE  g = h
<1>1. runs = Loop!PlanByteChunks(list, b)
  BY Zenon DEF Chunks!PlanByteChunks, Loop!PlanByteChunks, Chunks!ScanRow, Loop!ScanRow, Chunks!Closes, Loop!Closes,
         Chunks!FoldLeft, Loop!FoldLeft, Chunks!MapThenFoldSet, Loop!MapThenFoldSet, Chunks!Max, Loop!Max
<1> QED
  BY <1>1, Loop!RunsShareNoPlace, Zenon

\* The slices of a plan of rows that are all of different cells.
LEMMA SlicesScatter ==
    ASSUME NEW R, Weighted(R), NEW rows \in Seq(R), NEW b \in Int, Distinct(rows),
           NEW runs, runs = Chunks!PlanByteChunks(Chunks!BlobSizes(rows), b)
    PROVE  Scattered([g \in DOMAIN runs |-> Chunks!Slice(rows, runs[g])], rows)
<1> DEFINE slice(g) == Chunks!Slice(rows, runs[g])
           sizes == Chunks!BlobSizes(rows)
<1>1. sizes \in Seq(Nat) /\ Len(sizes) = Len(rows)
  BY SizesListed
<1>2. Len(rows) \in Nat /\ DOMAIN rows = 1 .. Len(rows)
  OBVIOUS
<1> HIDE DEF sizes
<1>3. runs = Chunks!PlanByteChunks(sizes, b)
  BY DEF sizes
<1>4. /\ runs \in Seq(Nat \X Nat)
      /\ \A g \in DOMAIN runs : runs[g][1] + runs[g][2] <= Len(rows)
  BY <1>1, <1>3, RunsHold
<1>5. ASSUME NEW g \in DOMAIN runs
      PROVE  /\ DOMAIN slice(g) = 1 .. runs[g][2] /\ runs[g][1] \in Nat /\ runs[g][2] \in Nat
             /\ \A i \in 1 .. runs[g][2] : slice(g)[i] = rows[runs[g][1] + i] /\ runs[g][1] + i \in DOMAIN rows
  <2>1. runs[g][1] \in Nat /\ runs[g][2] \in Nat /\ runs[g][1] + runs[g][2] <= Len(rows)
    BY <1>4
  <2>2. slice(g) = SubSeq(rows, runs[g][1] + 1, runs[g][1] + runs[g][2])
    BY DEF Chunks!Slice
  <2> HIDE DEF slice
  <2> DEFINE from == runs[g][1]
             count == runs[g][2]
  <2>3. /\ from \in Nat /\ count \in Nat /\ from + count <= Len(rows)
        /\ slice(g) = SubSeq(rows, from + 1, from + count)
    BY <2>1, <2>2
  <2> HIDE DEF from, count
  <2>4. DOMAIN slice(g) = 1 .. count
    BY <1>2, <2>3
  <2>5. \A i \in 1 .. count : slice(g)[i] = rows[from + i] /\ from + i \in DOMAIN rows
    BY <1>2, <2>3
  <2> QED BY <2>1, <2>3, <2>4, <2>5 DEF from, count
<1> SUFFICES ASSUME NEW g \in DOMAIN runs, NEW h \in DOMAIN runs,
                    NEW i \in DOMAIN slice(g), NEW k \in DOMAIN slice(h), slice(g)[i].cell = slice(h)[k].cell
             PROVE  g = h /\ i = k
  <2>1. ASSUME NEW g \in DOMAIN runs, NEW i \in DOMAIN slice(g)
        PROVE  \E j \in DOMAIN rows : slice(g)[i] = rows[j]
    <3> HIDE DEF slice
    <3> QED BY <1>5, SMTT(30)
  <2> QED BY <2>1 DEF Scattered
<1> HIDE DEF slice
<1> DEFINE j == runs[g][1] + i
<1>6. i \in 1 .. runs[g][2] /\ k \in 1 .. runs[h][2] /\ rows[j].cell = rows[runs[h][1] + k].cell
  BY <1>5
<1>7. j \in DOMAIN rows /\ runs[h][1] + k \in DOMAIN rows
  BY <1>5, <1>6
<1>8. j = runs[h][1] + k /\ j \in Int
  BY <1>2, <1>6, <1>7 DEF Distinct
<1>9. /\ runs[g][1] \in Nat /\ runs[g][2] \in Nat /\ runs[h][1] \in Nat /\ runs[h][2] \in Nat
      /\ i \in Int /\ k \in Int
  BY <1>5, <1>6
<1>10. j \in runs[g][1] + 1 .. runs[g][1] + runs[g][2]
  BY <1>6, <1>9
<1>11. j \in runs[h][1] + 1 .. runs[h][1] + runs[h][2]
  BY <1>6, <1>8, <1>9
<1>12. g = h
  <2> HIDE DEF j
  <2> QED BY <1>1, <1>3, <1>8, <1>10, <1>11, RunsAreApart
<1> QED
  BY <1>8, <1>9, <1>12

\* The parts of a level.
LEMMA PartsScatter ==
    ASSUME NEW R, Weighted(R), NEW shard \in Seq(R), NEW b \in Int, Distinct(shard)
    PROVE  Scattered(Chunks!PlanParts(shard, b), shard)
<1> DEFINE parts == Chunks!PlanParts(shard, b)
           runs == Chunks!PlanByteChunks(Chunks!BlobSizes(shard), b)
<1>1. CASE parts = <<shard>>
  <2>1. DOMAIN parts = {1} /\ parts[1] = shard
    BY <1>1
  <2> HIDE DEF parts
  <2> QED BY <2>1 DEF Scattered, Distinct, parts
<1>2. CASE parts = [g \in DOMAIN runs |-> Chunks!Slice(shard, runs[g])]
  <2> HIDE DEF parts, runs
  <2>1. Scattered([g \in DOMAIN runs |-> Chunks!Slice(shard, runs[g])], shard)
    BY SlicesScatter DEF runs
  <2> QED BY <1>2, <2>1 DEF parts
<1> QED
  BY <1>1, <1>2 DEF Chunks!PlanParts

\* The row groups of a part.
LEMMA GroupsScatter ==
    ASSUME NEW R, Weighted(R), NEW part \in Seq(R), NEW b \in Int, Distinct(part)
    PROVE  Scattered(Chunks!RowGroups(part, b), part)
<1> DEFINE runs == Chunks!PlanByteChunks(Chunks!BlobSizes(part), b)
<1>1. Chunks!RowGroups(part, b) = [g \in DOMAIN runs |-> Chunks!Slice(part, runs[g])]
  BY DEF Chunks!RowGroups
<1> HIDE DEF runs
<1>2. Scattered([g \in DOMAIN runs |-> Chunks!Slice(part, runs[g])], part)
  BY SlicesScatter DEF runs
<1> QED BY <1>1, <1>2

\* What is scattered over pieces is distinct in each.
LEMMA PieceIsDistinct ==
    ASSUME NEW pieces, NEW list, Scattered(pieces, list), NEW p \in DOMAIN pieces
    PROVE  Distinct(pieces[p])
BY DEF Scattered, Distinct

\* The rows on the shelves are of cells that are catalogued, and no two are of one.
RowsFiled ==
    \A level \in DOMAIN shards :
       /\ Distinct(shards[level])
       /\ \A r \in DOMAIN shards[level] : <<level, shards[level][r].cell>> \in DOMAIN cellRows

\* What an object's row in the catalog has.
ObjectColumns == {"ordinal", "low", "high", "vertexCount", "indexCount", "cells"}

\* What is on the shelves, and what the object catalog's rows have.
Filed ==
    /\ phase \in {"assemble", "built", "written"} => RowsFiled
    /\ phase \in {"built", "written"} => \A id \in Ids : DOMAIN objectRows[id] = ObjectColumns

\* A row is filed once, as its cell is next only while it has none.
LEMMA AssembledIsFiled ==
    ASSUME Covered, Shelves, RowsFiled, NEW key \in CellKeys, AssembleCell(key[1], key[2])
    PROVE  RowsFiled'
<1> DEFINE row == Row(key[1], key[2])
           entry == CellRow(key[1], key[2])
           rows == shards[key[1]]
<1>1. /\ shards' = [shards EXCEPT ![key[1]] = Append(@, row)]
      /\ cellRows' = Put(cellRows, <<key[1], key[2]>>, entry)
      /\ <<key[1], key[2]>> \notin DOMAIN cellRows
  BY DEF AssembleCell, NextCell
<1>2. key[1] \in Levels /\ key[1] \in DOMAIN shards
  BY CellOfTask DEF Shelves
<1>3. row.cell = key[2]
  BY DEF Row
<1>4. rows \in Seq(RowsAt(key[1])) /\ row \in RowsAt(key[1])
  BY <1>2 DEF Shelves, RowsAt
<1> HIDE DEF row, entry
<1>5. /\ Len(rows) \in Nat /\ DOMAIN rows = 1 .. Len(rows)
      /\ DOMAIN Append(rows, row) = 1 .. Len(rows) + 1 /\ Append(rows, row)[Len(rows) + 1] = row
      /\ \A r \in 1 .. Len(rows) : Append(rows, row)[r] = rows[r]
  <2> HIDE DEF rows
  <2>1. PICK S : S = RowsAt(key[1])
    OBVIOUS
  <2>2. rows \in Seq(S) /\ row \in S /\ Len(rows) \in Nat
    BY <1>4, <2>1
  <2> QED BY <2>2
<1>6. /\ DOMAIN shards' = DOMAIN shards /\ shards'[key[1]] = Append(rows, row)
      /\ \A level \in DOMAIN shards : level # key[1] => shards'[level] = shards[level]
  BY <1>1, <1>2
<1>7. /\ \A k \in DOMAIN cellRows : k \in DOMAIN cellRows'
      /\ <<key[1], key[2]>> \in DOMAIN cellRows'
  BY <1>1 DEF Put
<1>8. ASSUME NEW level \in DOMAIN shards, level # key[1]
      PROVE  /\ Distinct(shards'[level])
             /\ \A r \in DOMAIN shards'[level] : <<level, shards'[level][r].cell>> \in DOMAIN cellRows'
  BY <1>6, <1>7, <1>8 DEF RowsFiled
<1>9. /\ Distinct(rows)
      /\ \A r \in DOMAIN rows : <<key[1], rows[r].cell>> \in DOMAIN cellRows
  BY <1>2 DEF RowsFiled
<1>10. \A r \in DOMAIN rows : rows[r].cell # key[2]
  BY <1>1, <1>9
<1> DEFINE more == Append(rows, row)
<1>11. \A r \in DOMAIN more : (r \in DOMAIN rows /\ more[r] = rows[r]) \/ (r = Len(rows) + 1 /\ more[r] = row)
  BY <1>5
<1> HIDE DEF rows
<1>12. shards'[key[1]] = more
  BY <1>6 DEF rows
<1> HIDE DEF more
<1>13. Distinct(more)
  BY <1>3, <1>9, <1>10, <1>11 DEF Distinct
<1>14. \A r \in DOMAIN more : <<key[1], more[r].cell>> \in DOMAIN cellRows'
  BY <1>3, <1>7, <1>9, <1>11
<1>15. ASSUME NEW level \in DOMAIN shards'
       PROVE  /\ Distinct(shards'[level])
              /\ \A r \in DOMAIN shards'[level] : <<level, shards'[level][r].cell>> \in DOMAIN cellRows'
  <2>1. CASE level = key[1]
    BY <1>12, <1>13, <1>14, <2>1
  <2>2. CASE level # key[1]
    BY <1>6, <1>8, <2>2
  <2> QED BY <2>1, <2>2
<1>16. RowsFiled' <=> \A level \in DOMAIN shards' :
          /\ Distinct(shards'[level])
          /\ \A r \in DOMAIN shards'[level] : <<level, shards'[level][r].cell>> \in DOMAIN cellRows'
  BY DEF RowsFiled, Distinct
<1> QED
  BY <1>15, <1>16

\* And the shelves are not touched again.
LEMMA FiledStep ==
    BuildInv /\ Shelved /\ Filed /\ [VerifyNext]_verifyVars => Filed'
<1> SUFFICES ASSUME BuildInv, Shelved, Filed, [VerifyNext]_verifyVars PROVE Filed'
  OBVIOUS
<1>0. Covered
  BY DEF BuildInv
<1>1. ASSUME phase' = phase \/ phase' = "failed" \/ (phase = "built" /\ phase' = "written"),
             UNCHANGED <<input, shards, cellRows, objectRows>>
      PROVE  Filed'
  <2>1. RowsFiled => RowsFiled'
    BY <1>1 DEF RowsFiled, Distinct
  <2>2. Ids' = Ids
    BY <1>1 DEF Ids
  <2> QED BY <1>1, <2>1, <2>2 DEF Filed
<1>2. CASE Cut
  BY <1>2 DEF Cut, Filed
<1>3. ASSUME NEW task \in todo, KeepFragment(task) \/ Coarsen(task) \/ PlacePiece(task) PROVE Filed'
  <2>1. phase' = phase /\ UNCHANGED <<input, shards, cellRows, objectRows>>
    BY <1>3 DEF KeepFragment, Coarsen, PlacePiece, buildVars
  <2> QED BY <1>1, <2>1
<1>4. ASSUME UNCHANGED buildVars PROVE Filed'
  BY <1>1, <1>4 DEF buildVars
<1>5. CASE EndLevels
  <2>1. shards' = [level \in Levels |-> <<>>]
    BY <1>5 DEF EndLevels
  <2>2. DOMAIN shards' = Levels /\ \A level \in Levels : shards'[level] = <<>>
    BY <2>1
  <2>3. \A level \in DOMAIN shards' : DOMAIN shards'[level] = {}
    BY <2>2
  <2>4. phase' = "assemble"
    BY <1>5 DEF EndLevels
  <2> QED BY <2>3, <2>4 DEF Filed, RowsFiled, Distinct
<1>6. ASSUME NEW key \in CellKeys, AssembleCell(key[1], key[2]) PROVE Filed'
  <2>1. phase = "assemble"
    BY <1>6 DEF AssembleCell
  <2>2. Shelves /\ RowsFiled
    BY <2>1 DEF Shelved, Filed
  <2>3. phase' = "assemble"
    BY <1>6, <2>1 DEF AssembleCell
  <2> QED BY <1>0, <1>6, <2>2, <2>3, AssembledIsFiled DEF Filed
<1>7. ASSUME NEW key \in CellKeys, RefuseCell(key[1], key[2]) PROVE Filed'
  BY <1>7 DEF RefuseCell, Filed
<1>8. CASE FinishCatalogs
  <2>1. phase = "assemble" /\ phase' = "built" /\ UNCHANGED <<input, shards, cellRows>>
        /\ objectRows' = [id \in Ids |-> ObjectRow(id)]
    BY <1>8 DEF FinishCatalogs
  <2>2. RowsFiled => RowsFiled'
    BY <2>1 DEF RowsFiled, Distinct
  <2>3. Ids' = Ids
    BY <2>1 DEF Ids
  <2>4. \A id \in Ids : DOMAIN ObjectRow(id) = ObjectColumns
    BY DEF ObjectRow, ObjectColumns
  <2> QED BY <2>1, <2>2, <2>3, <2>4 DEF Filed
<1>9. CASE Write
  BY <1>1, <1>9 DEF Write
<1>10. CASE Tampering
  BY <1>1, <1>10 DEF Tampering
<1>11. CASE (\E tier \in DOMAIN Tiers : Verification(tier)) \/ UNCHANGED verifyVars
  BY <1>4, <1>11 DEF Verification, verifyVars
<1> QED
  BY <1>2, <1>3, <1>4, <1>5, <1>6, <1>7, <1>8, <1>9, <1>10, <1>11 DEF VerifyNext, BuildStep

LEMMA FiledHolds == VerifySpec => [](WrittenInv /\ Filed)
<1>1. VerifyInit => Filed
  BY DEF VerifyInit, BuildInit, Filed
<1>2. WrittenInv /\ Filed /\ [VerifyNext]_verifyVars => Filed'
  BY FiledStep DEF WrittenInv
<1> QED BY <1>1, <1>2, WrittenInvHolds, PTL DEF VerifySpec

\* The row group that a locator names.
LEMMA LocatorNames ==
    ASSUME NEW R, Weighted(R), NEW part \in Seq(R), NEW number, NEW b \in Int, NEW cell,
           \E i \in DOMAIN part : part[i].cell = cell,
           NEW where, where = Chunks!Locate(part, number, b)[cell],
           NEW groups, groups = Chunks!RowGroups(part, b)
    PROVE  /\ where[1] = number /\ where[2] \in Nat /\ where[2] + 1 \in DOMAIN groups
           /\ \E r \in DOMAIN groups[where[2] + 1] : groups[where[2] + 1][r].cell = cell
BY LocatorFinds, SMTT(60)

\* A place under the prefix that has a row.
HasRow(seat, g, r) ==
    /\ seat \in DOMAIN collection.parts /\ g \in DOMAIN collection.parts[seat].groups
    /\ r \in DOMAIN collection.parts[seat].groups[g]

\* It is the row of the cell, which is located there, and the table has no other of it.
Seats(seat, g, r, cell) ==
    /\ seat = <<seat[1], seat[2]>> /\ <<seat[1], cell>> \in CellKeys
    /\ collection.parts[seat].groups[g][r] = Row(seat[1], cell)
    /\ collection.cells[<<seat[1], cell>>].locator.part = seat[2]
    /\ collection.cells[<<seat[1], cell>>].locator.rowGroup \in Nat
    /\ collection.cells[<<seat[1], cell>>].locator.rowGroup + 1 = g
    /\ \A s \in DOMAIN collection.parts[seat].groups[g] :
          collection.parts[seat].groups[g][s].cell = cell => s = r
    /\ r \in Nat

\* A row that is under the prefix is its cell's, and the cell's locator leads to it and to no
\* other.
LEMMA RowIsSeated ==
    ASSUME Fresh, Filed, NEW seat, NEW g, NEW r, HasRow(seat, g, r),
           NEW cell, cell = collection.parts[seat].groups[g][r].cell
    PROVE  Seats(seat, g, r, cell)
<1>0. /\ seat \in DOMAIN collection.parts /\ g \in DOMAIN collection.parts[seat].groups
      /\ r \in DOMAIN collection.parts[seat].groups[g]
  BY DEF HasRow
<1> DEFINE keys(l) == {<<l, q - 1>> : q \in DOMAIN Files[l]}
<1>1. collection.parts = [k \in UNION {keys(l) : l \in Levels} |-> Files[k[1]][k[2] + 1]]
  BY FreshHas, UnderThePrefix
<1>2. PICK level \in Levels : seat \in keys(level)
  <2> HIDE DEF keys
  <2> QED BY <1>0, <1>1
<1>3. PICK p \in DOMAIN Files[level] : seat = <<level, p - 1>>
  BY <1>2
<1> DEFINE parts == PartsOf(level)
           R == RowsAt(level)
           part == parts[p]
           groups == Chunks!RowGroups(part, RowGroupBytes)
<1>4. shards[level] \in Seq(R) /\ Weighted(R) /\ MaxPartBytes \in Int /\ RowGroupBytes \in Int
  BY FreshHas, UnderThePrefix, RowsTyped, BuildAssumption DEF Shelves
<1>5. Distinct(shards[level])
  BY FreshHas, UnderThePrefix DEF Filed, RowsFiled, Shelves
<1>6. Divides(parts, shards[level], R) /\ Scattered(parts, shards[level])
  <2> HIDE DEF R
  <2> QED BY <1>4, <1>5, PartsDivide, PartsScatter DEF PartsOf
<1>7. Files[level] = [q \in DOMAIN parts |-> PartFile(parts[q])]
  BY DEF Files
<1>8. p \in DOMAIN parts /\ p \in Int /\ part \in Seq(R) /\ Distinct(part)
  <2>1. p \in DOMAIN parts
    BY <1>3, <1>7
  <2> HIDE DEF parts, R
  <2> QED BY <1>6, <2>1, PieceIsDistinct DEF Divides
<1>9. Divides(groups, part, R) /\ Scattered(groups, part)
  <2> HIDE DEF R, part
  <2> QED BY <1>4, <1>8, GroupsDivide, GroupsScatter
<1>10. seat[1] = level /\ seat[2] = p - 1 /\ seat[2] + 1 = p
  BY <1>3, <1>8
<1>11. collection.parts[seat].groups = groups
  <2>1. collection.parts[seat] = Files[seat[1]][seat[2] + 1]
    <3> HIDE DEF keys
    <3> QED BY <1>1, <1>2
  <2>2. collection.parts[seat] = PartFile(part)
    BY <1>7, <1>8, <1>10, <2>1
  <2> HIDE DEF part
  <2> QED BY <2>2 DEF PartFile
<1> HIDE DEF groups, part, keys
<1>12. g \in DOMAIN groups /\ r \in DOMAIN groups[g] /\ groups[g][r].cell = cell
  BY <1>0, <1>11
<1>13. groups[g][r] \in R
  <2> HIDE DEF R
  <2> QED BY <1>9, <1>12 DEF Divides
<1>14. groups[g][r] = Row(level, cell) /\ <<level, cell>> \in CellKeys
  <2>1. groups[g][r] = Row(level, cell)
    <3> HIDE DEF R
    <3>1. \A x \in RowsAt(level) : x = Row(level, x.cell)
      BY FreshHas, RowsTyped
    <3> QED BY <1>12, <1>13, <3>1 DEF R
  <2>2. PICK key \in CellKeys : key[1] = level /\ groups[g][r] = Row(level, key[2])
    BY <1>13 DEF RowsAt
  <2>3. key[2] = cell
    BY <1>12, <2>2 DEF Row
  <2>4. key = <<key[1], key[2]>>
    BY FreshHas, CellOfTask
  <2> QED BY <2>1, <2>2, <2>3, <2>4
<1>15. PICK i \in DOMAIN part : part[i].cell = cell
  BY <1>9, <1>12 DEF Scattered
<1> DEFINE chosen == CHOOSE q \in DOMAIN parts : \E row \in DOMAIN parts[q] : parts[q][row].cell = cell
           where == Chunks!Locate(part, p - 1, RowGroupBytes)[cell]
<1>16. chosen = p
  <2> HIDE DEF parts
  <2>1. \E q \in DOMAIN parts : \E row \in DOMAIN parts[q] : parts[q][row].cell = cell
    BY <1>8, <1>15 DEF part
  <2>2. chosen \in DOMAIN parts /\ \E row \in DOMAIN parts[chosen] : parts[chosen][row].cell = cell
    BY <2>1
  <2> HIDE DEF chosen
  <2> QED BY <1>6, <1>8, <1>15, <2>2 DEF Scattered, part
<1>17. Located(level, cell) = [part |-> where[1], rowGroup |-> where[2], blobBytes |-> where[3]]
  BY <1>16 DEF Located, part
<1> HIDE DEF chosen, parts
<1>18. /\ where[1] = p - 1 /\ where[2] \in Nat /\ where[2] + 1 \in DOMAIN groups
       /\ \E s \in DOMAIN groups[where[2] + 1] : groups[where[2] + 1][s].cell = cell
  <2> DEFINE number == p - 1
  <2> HIDE DEF number, R
  <2>0. /\ Weighted(R) /\ part \in Seq(R) /\ RowGroupBytes \in Int
        /\ \E k \in DOMAIN part : part[k].cell = cell
    BY <1>4, <1>8, <1>15
  <2>1. /\ where = Chunks!Locate(part, number, RowGroupBytes)[cell]
        /\ groups = Chunks!RowGroups(part, RowGroupBytes)
    BY DEF number, groups
  <2> HIDE DEF where
  <2>2. /\ where[1] = number /\ where[2] \in Nat /\ where[2] + 1 \in DOMAIN groups
        /\ \E s \in DOMAIN groups[where[2] + 1] : groups[where[2] + 1][s].cell = cell
    BY ONLY <2>0, <2>1, LocatorNames, SMTT(60)
  <2> QED BY <2>2 DEF number
<1> HIDE DEF where
<1>19. where[2] + 1 = g
  BY <1>9, <1>12, <1>18 DEF Scattered
<1>20. collection.cells[<<level, cell>>].locator = Located(level, cell)
  <2>1. <<level, cell>> \in DOMAIN cellRows /\ "locator" \in DOMAIN cellRows[<<level, cell>>]
    BY <1>14, FreshHas, UnderThePrefix DEF Shelves, OnItsShelf
  <2> QED BY <2>1, FreshHas, UnderThePrefix DEF LocatedRows
<1>21. \A s \in DOMAIN groups[g] : groups[g][s].cell = cell => s = r
  BY <1>9, <1>12 DEF Scattered
<1>24. r \in Nat
  <2>1. groups[g] \in Seq(R)
    BY <1>9, <1>12 DEF Divides
  <2> QED BY <1>12, <2>1
<1>22. PICK locator : locator = collection.cells[<<level, cell>>].locator
  OBVIOUS
<1>23. locator.part = seat[2] /\ locator.rowGroup \in Nat /\ locator.rowGroup + 1 = g
  BY <1>10, <1>17, <1>18, <1>19, <1>20, <1>22
<1> HIDE DEF R
<1> QED
  <2>1. /\ seat = <<seat[1], seat[2]>> /\ <<seat[1], cell>> \in CellKeys
        /\ collection.parts[seat].groups[g][r] = Row(seat[1], cell)
    BY <1>3, <1>10, <1>11, <1>14
  <2>2. collection.cells[<<seat[1], cell>>].locator = locator
    BY <1>10, <1>22
  <2>3. \A s \in DOMAIN collection.parts[seat].groups[g] :
           collection.parts[seat].groups[g][s].cell = cell => s = r
    BY <1>11, <1>21
  <2> QED BY <1>23, <1>24, <2>1, <2>2, <2>3 DEF Seats

-----------------------------------------------------------------------------
(* What a fault leaves for the verifier to find. *)

StructureFails ==
    \/ ~FilesExist \/ ~RecordedLengthsAreRight \/ ~LevelsAreContiguous \/ ~ChildMasksNameWhatExists
    \/ ~ParentsDominate \/ ~EveryCellIsLocated \/ ~LocatorsAreInRange \/ ~OrdinalsAreDense
    \/ ~ObjectsNameCellsThatExist

BlobsFail == ~CountsAgree \/ ~IndicesStayInside \/ ~OffsetsAscend \/ ~CatalogsAgree

\* Something that the checks of a tier, or of those before it, do not accept.
Seen(tier) == StructureFails \/ (tier > 1 /\ BlobsFail) \/ (tier > 2 /\ ~NoneVanished)

\* A tier asks for all that those before it ask for.
LEMMA SeenIsReported ==
    ASSUME NEW least \in 1 .. 3, Seen(least), NEW tier \in 1 .. 3, least <= tier
    PROVE  Failures(tier) # {}
<1>1. CASE StructureFails
  <2>1. /\ DOMAIN Structure = {"files", "lengths", "levels", "masks", "errors", "located", "locators",
                               "ordinals", "objects"}
        /\ Structure.files = FilesExist /\ Structure.lengths = RecordedLengthsAreRight
        /\ Structure.masks = ChildMasksNameWhatExists /\ Structure.errors = ParentsDominate
        /\ Structure.located = EveryCellIsLocated /\ Structure.locators = LocatorsAreInRange
        /\ Structure.ordinals = OrdinalsAreDense /\ Structure.objects = ObjectsNameCellsThatExist
        /\ Structure.levels = LevelsAreContiguous
    BY DEF Structure
  <2>2. \E name \in DOMAIN Structure : ~Structure[name]
    BY <1>1, <2>1 DEF StructureFails
  <2>3. Failed(Structure) # {}
    BY <2>2 DEF Failed
  <2> QED BY <2>3 DEF Failures
<1>2. CASE tier > 1 /\ BlobsFail
  <2>1. /\ DOMAIN Blobs = {"counts", "indices", "offsets", "boxes", "identity"}
        /\ Blobs.counts = CountsAgree /\ Blobs.indices = IndicesStayInside
        /\ Blobs.offsets = OffsetsAscend /\ Blobs.identity = CatalogsAgree
    BY DEF Blobs
  <2>2. \E name \in DOMAIN Blobs : ~Blobs[name]
    BY <1>2, <2>1 DEF BlobsFail
  <2>3. Failed(Blobs) # {}
    BY <2>2 DEF Failed
  <2> QED BY <1>2, <2>3 DEF Failures
<1>3. CASE tier > 2 /\ ~NoneVanished
  <2>1. "vanished" \in DOMAIN Geometry /\ Geometry.vanished = NoneVanished
    BY DEF Geometry
  <2>2. Failed(Geometry) # {}
    BY <1>3, <2>1 DEF Failed
  <2> QED BY <1>3, <2>2 DEF Failures
<1> QED
  BY <1>1, <1>2, <1>3 DEF Seen

\* Which is asked of the collection and of nothing else.
LEMMA SeenStays ==
    ASSUME UNCHANGED collection, NEW tier
    PROVE  Seen(tier)' <=> Seen(tier)
<1>1. StructureFails' <=> StructureFails
  BY DEF StructureFails, FilesExist, RecordedLengthsAreRight, LevelsAreContiguous, ChildMasksNameWhatExists,
         ParentsDominate, EveryCellIsLocated, LocatorsAreInRange, OrdinalsAreDense,
         ObjectsNameCellsThatExist, ManifestLevels, PartsNamed, Opens, Cells, Unlocated, Claims, Claimed
<1>2. ASSUME NEW key
      PROVE /\ TableFor(key)' = TableFor(key) /\ (Readable(key)' <=> Readable(key))
            /\ ReadCell(key)' = ReadCell(key) /\ Claims(key)' = Claims(key) /\ Cells' = Cells
  <2>1. LevelRows(key[1])' = LevelRows(key[1])
    BY DEF LevelRows, PartsNamed
  <2>2. TableFor(key)' = TableFor(key)
    BY <2>1 DEF TableFor, Unlocated, Opens, PartsNamed
  <2> QED BY <2>2 DEF Readable, ReadCell, Claims, Claimed, Cells
<1>3. ReadableCells' = ReadableCells
  BY <1>2 DEF ReadableCells
<1>4. BlobsFail' <=> BlobsFail
  BY <1>2, <1>3 DEF BlobsFail, CountsAgree, IndicesStayInside, OffsetsAscend, CatalogsAgree
<1>5. NoneVanished' <=> NoneVanished
  <2>1. Comparable' = Comparable
    BY <1>2, <1>3 DEF Comparable
  <2>2. ASSUME NEW key PROVE OnCoarse(key)' = OnCoarse(key) /\ OnFine(key)' = OnFine(key)
    BY <1>2 DEF OnCoarse, OnFine
  <2> QED BY <2>1, <2>2 DEF NoneVanished
<1> QED
  BY <1>1, <1>4, <1>5 DEF Seen

-----------------------------------------------------------------------------
(* What is left of a collection of which one thing is another. *)

Names == {"levels", "files", "parts", "cells", "objects"}

LocatorNamed == {"part", "rowGroup", "blobBytes"}

\* What a collection consists of.
LEMMA CollectionIs ==
    ASSUME Fresh
    PROVE  /\ DOMAIN collection = Names
           /\ \A key \in Cells : DOMAIN collection.cells[key] = Columns
           /\ \A key \in Cells : DOMAIN collection.cells[key].locator = LocatorNamed
<1>1. DOMAIN collection = Names
  <2>1. collection = Written
    BY FreshHas DEF Shelved
  <2> QED BY <2>1, WrittenIsShelf DEF Shelf, Names
<1>2. ASSUME NEW key \in Cells
      PROVE  DOMAIN collection.cells[key] = Columns /\ DOMAIN collection.cells[key].locator = LocatorNamed
  <2> DEFINE row == cellRows[key]
             where == Located(key[1], key[2])
  <2>1. key \in CellKeys /\ collection.cells = LocatedRows /\ DOMAIN cellRows = CellKeys
    BY FreshHas, UnderThePrefix
  <2>2. DOMAIN row = Columns /\ collection.cells[key] = [row EXCEPT !.locator = where]
    BY <2>1, FreshHas DEF Tallied, Tally, LocatedRows
  <2>3. DOMAIN where = LocatorNamed
    BY DEF Located, LocatorNamed
  <2> HIDE DEF row, where
  <2> QED BY <2>2, <2>3 DEF Columns
<1> QED
  BY <1>1, <1>2

\* A row of the cell catalog is another, and nothing else.
CellBecomes(key, row) ==
    /\ collection'.levels = collection.levels /\ collection'.files = collection.files
    /\ collection'.parts = collection.parts /\ collection'.objects = collection.objects
    /\ collection'.cells = [k \in Cells |-> IF k = key THEN row ELSE collection.cells[k]]

LEMMA MaskBecomes ==
    ASSUME Fresh, NEW key \in Cells, NEW octant,
           Tamper("mask", [collection EXCEPT !.cells[key].childMask = Toggled(@, octant)])
    PROVE  CellBecomes(key, [collection.cells[key] EXCEPT !.childMask = Toggled(@, octant)])
BY CollectionIs DEF Tamper, CellBecomes, Names, Cells

LEMMA LocatorBecomes ==
    ASSUME Fresh, NEW key \in Cells, NEW kind, NEW locator,
           Tamper(kind, [collection EXCEPT !.cells[key].locator = locator])
    PROVE  CellBecomes(key, [collection.cells[key] EXCEPT !.locator = locator])
BY CollectionIs DEF Tamper, CellBecomes, Names, Cells

-----------------------------------------------------------------------------
(* A row of the cell catalog is wrong, or lost. *)

\* The octants of a coarse cell have cells of their own.
LEMMA OctantsApart ==
    ASSUME Fresh, NEW key \in CellKeys, key[1] > 0, NEW o \in Octants, NEW p \in Octants,
           ChildKey(key[1], key[2], o) = ChildKey(key[1], key[2], p)
    PROVE  o = p
<1>1. PICK task : IsTask(task) /\ key[1] = task.level /\ key[2] = MortonEncode(task.triple)
  BY FreshHas, CellOfTask
<1>2. PICK id \in Ids, level \in Levels : \E t \in DOMAIN fragments[id] : task = Task(id, level, t)
  BY <1>1 DEF IsTask
<1>3. PICK t \in DOMAIN fragments[id] : task = Task(id, level, t)
  BY <1>2
<1>4. t \in Coded /\ level \in Nat /\ level > 0 /\ key[1] = level
      /\ key[2] = MortonEncode(CoarseOf(t, level))
  <2>1. t \in Coded
    BY FreshHas DEF Covered, Fragments
  <2> QED BY <1>1, <1>2, <1>3, <2>1, FreshHas DEF Task
<1> DEFINE triple == CoarseOf(t, level)
<1>5. triple \in Coded /\ triple \in Triples /\ MortonDecode(key[2]) = triple
  <2>1. triple \in Coded
    BY <1>4, CoarseIsCoded
  <2> HIDE DEF triple
  <2>2. triple \in Triples /\ Encodable(triple)
    BY <2>1 DEF Coded
  <2>3. key[2] = MortonEncode(triple)
    BY <1>4 DEF triple
  <2> QED BY <2>1, <2>2, <2>3, MortonRoundTrip
<1>6. ASSUME NEW a \in Axes PROVE triple[a] \in Nat /\ 2 * triple[a] + 1 <= 2 ^ MortonBits - 1
  <2>1. t[a] \in Nat /\ t[a] <= 2 ^ MortonBits - 1
    BY <1>4, CodedTyped
  <2>2. PICK l \in Nat : level = l + 1
    <3>1. level - 1 \in Nat /\ level = (level - 1) + 1
      BY <1>4
    <3> QED BY <3>1
  <2>3. PICK m \in Nat \ {0} : 2 ^ level = 2 * m
    BY <2>2, Powers
  <2>4. PICK h \in Nat : 2 ^ MortonBits = 2 * h
    <3>1. PICK k \in Nat : MortonBits = k + 1
      <4>1. MortonBits - 1 \in Nat /\ MortonBits = (MortonBits - 1) + 1
        BY LatticeAssumption
      <4> QED BY <4>1
    <3>2. 2 ^ k \in Nat /\ 2 ^ MortonBits = 2 * 2 ^ k
      BY <3>1, Powers
    <3> QED BY <3>2
  <2> DEFINE n == t[a]
             q == n \div (2 * m)
  <2>5. q \in Nat /\ (2 * m) * q <= n
    <3>1. 2 * m \in Nat \ {0} /\ n \in Int /\ n >= 0
      BY <2>1
    <3> HIDE DEF n
    <3>2. q \in Int /\ n = (2 * m) * q + (n % (2 * m)) /\ 0 <= n % (2 * m) /\ n % (2 * m) < 2 * m /\ n % (2 * m) \in Int
      BY <3>1, Division
    <3> HIDE DEF q
    <3>3. q >= 0
      <4>1. SUFFICES ASSUME q <= -1 PROVE FALSE
        BY <3>2
      <4>2. (2 * m) * q <= -(2 * m)
        BY <3>1, <3>2, <4>1
      <4> QED BY <3>1, <3>2, <4>2
    <3> QED BY <3>1, <3>2, <3>3
  <2>6. triple[a] = q
    BY <2>3 DEF CoarseOf
  <2> HIDE DEF q, n
  <2>7. (2 * m) * q >= 2 * q
    BY <2>5
  <2>8. 2 * q <= 2 * h - 1
    BY <2>1, <2>4, <2>5, <2>7 DEF n
  <2>9. 2 * q + 1 <= 2 * h - 1
    BY <2>4, <2>5, <2>8
  <2> QED BY <2>4, <2>5, <2>6, <2>9
<1> HIDE DEF triple
<1>7. ASSUME NEW octant \in Octants
      PROVE  ChildKey(key[1], key[2], octant)[2] = 8 * MortonEncode(triple) + octant
  <2>1. Encodable(Child(triple, octant))
    <3> SUFFICES ASSUME NEW a \in Axes PROVE Child(triple, octant)[a] \in 0 .. 2 ^ MortonBits - 1
      BY DEF Encodable
    <3>1. a - 1 = 0 \/ a - 1 = 1 \/ a - 1 = 2
      BY DEF Axes
    <3>2. Bit(octant, a - 1) \in 0 .. 1
      BY <3>1, OctantBits
    <3>3. Child(triple, octant)[a] = 2 * triple[a] + Bit(octant, a - 1)
      BY DEF Child
    <3>4. 2 ^ MortonBits \in Nat
      BY LatticeAssumption, Powers
    <3> QED BY <1>6, <3>2, <3>3, <3>4
  <2>2. MortonEncode(Child(triple, octant)) = 8 * MortonEncode(triple) + octant
    BY <1>5, <2>1, ChildCodesExtendTheirParents
  <2> QED BY <1>5, <2>2 DEF ChildKey
<1>8. MortonEncode(triple) \in Nat
  BY <1>5, EncodeIsCode
<1> QED
  BY <1>7, <1>8 DEF Octants

\* A mask names a child too many or one too few.
LEMMA MaskIsSeen ==
    ASSUME Fresh, NEW key \in Cells, NEW octant \in Octants,
           Tamper("mask", [collection EXCEPT !.cells[key].childMask = Toggled(@, octant)])
    PROVE  StructureFails'
<1> DEFINE mask == collection.cells[key].childMask
<1>1. key \in CellKeys /\ Cells = CellKeys /\ key[1] \in Nat
  BY FreshHas
<1>2. Cells' = Cells /\ collection'.cells[key].childMask = Toggled(mask, octant)
  <2>1. CellBecomes(key, [collection.cells[key] EXCEPT !.childMask = Toggled(@, octant)])
    BY MaskBecomes
  <2>2. DOMAIN collection.cells[key] = Columns /\ "childMask" \in Columns
    BY CollectionIs DEF Columns
  <2> QED BY <2>1, <2>2 DEF CellBecomes, Cells
<1>3. mask = ChildMask(key[1], key[2])
  BY <1>1, WrittenRow
<1> HIDE DEF mask
<1>4. CASE key[1] = 0
  <2>1. mask = {}
    BY <1>3, <1>4 DEF ChildMask
  <2>2. collection'.cells[key].childMask # {}
    BY <1>2, <2>1 DEF Toggled
  <2>3. ~ChildMasksNameWhatExists'
    BY <1>2, <1>4, <2>2 DEF ChildMasksNameWhatExists
  <2> QED BY <2>3 DEF StructureFails
<1>5. CASE key[1] # 0
  <2> DEFINE child(o) == ChildKey(key[1], key[2], o)
             there == {child(o) : o \in Octants} \cap Cells
  <2>1. mask = {o \in Octants : child(o) \in Cells}
    BY <1>1, <1>3, <1>5 DEF ChildMask
  <2>2. Claims(key)' = {child(o) : o \in collection'.cells[key].childMask}
    BY <1>5 DEF Claims, Claimed
  <2>3. \A o, p \in Octants : child(o) = child(p) => o = p
    BY <1>1, <1>5, OctantsApart
  <2> HIDE DEF child
  <2>4. Claims(key)' # there
    <3>1. CASE octant \in mask
      <4>1. child(octant) \in there
        BY <2>1, <3>1
      <4>2. child(octant) \notin Claims(key)'
        <5>1. collection'.cells[key].childMask = mask \ {octant}
          BY <1>2, <3>1 DEF Toggled
        <5> QED BY <2>1, <2>2, <2>3, <5>1
      <4> QED BY <4>1, <4>2
    <3>2. CASE octant \notin mask
      <4>1. child(octant) \notin there
        BY <2>1, <3>2
      <4>2. child(octant) \in Claims(key)'
        BY <1>2, <2>2, <3>2 DEF Toggled
      <4> QED BY <4>1, <4>2
    <3> QED BY <3>1, <3>2
  <2>5. ~ChildMasksNameWhatExists'
    <3>1. there = {ChildKey(key[1], key[2], o) : o \in Octants} \cap Cells'
      BY <1>2 DEF child
    <3> QED BY <1>2, <1>5, <2>4, <3>1 DEF ChildMasksNameWhatExists
  <2> QED BY <2>5 DEF StructureFails
<1> QED
  BY <1>4, <1>5

\* A cell has an object, which names it.
LEMMA CellIsNamed ==
    ASSUME Fresh, NEW key \in Cells
    PROVE  \E id \in DOMAIN collection.objects : key \in collection.objects[id].cells
<1>1. PICK k \in DOMAIN perLevel : key = <<k[1], k[2]>>
  BY FreshHas DEF CellKeys
<1>2. k[3] \in Ids
  <2>1. PICK task : IsTask(task) /\ k = KeyOf(task)
    BY FreshHas DEF Covered
  <2> QED BY <2>1 DEF IsTask, Task, KeyOf
<1>3. key \in HomesOf(k[3])
  BY <1>1 DEF HomesOf
<1> QED
  BY <1>2, <1>3, FreshHas

LEMMA LostCellIsSeen ==
    ASSUME Fresh, NEW key \in Cells,
           Tamper("cell", [collection EXCEPT !.cells = Restrict(@, Cells \ {key})])
    PROVE  StructureFails'
<1>1. collection'.objects = collection.objects /\ Cells' = Cells \ {key}
  BY CollectionIs DEF Tamper, Names, Cells, Restrict
<1>2. ~ObjectsNameCellsThatExist'
  BY <1>1, CellIsNamed DEF ObjectsNameCellsThatExist
<1> QED
  BY <1>2 DEF StructureFails

LEMMA NoLocatorIsSeen ==
    ASSUME Fresh, NEW key \in Cells,
           Tamper("locator", [collection EXCEPT !.cells[key].locator = NoLocator])
    PROVE  StructureFails'
<1>1. CellBecomes(key, [collection.cells[key] EXCEPT !.locator = NoLocator])
  BY LocatorBecomes
<1>2. DOMAIN collection.cells[key] = Columns /\ "locator" \in Columns
  BY CollectionIs DEF Columns
<1>3. key \in Cells' /\ collection'.cells[key].locator = NoLocator
  BY <1>1, <1>2 DEF CellBecomes, Cells
<1>4. Unlocated(key)'
  BY <1>3 DEF Unlocated, NoLocator
<1>5. ~EveryCellIsLocated'
  BY <1>3, <1>4 DEF EveryCellIsLocated
<1> QED
  BY <1>5 DEF StructureFails

\* The coarser cell above it does not reach as far.
LEMMA ErrorIsSeen ==
    ASSUME Fresh, NEW key \in Cells, NEW above \in {k \in Cells : key \in Claims(k)},
           Tamper("error", [collection EXCEPT !.cells[key].lodError = collection.cells[above].lodError + 1])
    PROVE  StructureFails'
<1> DEFINE error == collection.cells[above].lodError + 1
<1>1. above \in CellKeys /\ collection.cells[above].lodError \in Nat
  BY FreshHas, WrittenRow
<1>2. above # key
  <2>1. key[1] = above[1] - 1 /\ above[1] \in Nat
    <3>1. above[1] # 0 /\ \E octant : key = ChildKey(above[1], above[2], octant)
      BY DEF Claims, Claimed
    <3> QED BY <1>1, <3>1, FreshHas DEF ChildKey
  <2> QED BY <2>1
<1> HIDE DEF error
<1>3. CellBecomes(key, [collection.cells[key] EXCEPT !.lodError = error])
  BY CollectionIs DEF Tamper, CellBecomes, Names, Cells, error
<1>4. DOMAIN collection.cells[key] = Columns /\ "lodError" \in Columns
  BY CollectionIs DEF Columns
<1>5. /\ Cells' = Cells /\ collection'.cells[key].lodError = error
      /\ collection'.cells[above] = collection.cells[above]
  BY <1>2, <1>3, <1>4 DEF CellBecomes, Cells
<1>6. key \in Claims(above)'
  BY <1>5 DEF Claims, Claimed
<1>7. ~(collection'.cells[key].lodError <= collection'.cells[above].lodError)
  BY <1>1, <1>5 DEF error
<1>8. ~ParentsDominate'
  BY <1>5, <1>6, <1>7 DEF ParentsDominate
<1> QED
  BY <1>8 DEF StructureFails

SeatOf(key) == <<key[1], collection.cells[key].locator.part>>
GroupOf(key) == collection.cells[key].locator.rowGroup + 1

\* Where a cell's row is.
LEMMA CellIsSeated ==
    ASSUME Fresh, Filed, NEW key \in Cells
    PROVE  /\ key = <<key[1], key[2]>> /\ ~Unlocated(key) /\ Opens(key[1], collection.cells[key].locator.part)
           /\ collection.cells[key].locator.rowGroup \in Nat
           /\ SeatOf(key) \in DOMAIN collection.parts
           /\ GroupOf(key) \in DOMAIN collection.parts[SeatOf(key)].groups
           /\ TableFor(key) = collection.parts[SeatOf(key)].groups[GroupOf(key)]
           /\ \E r \in DOMAIN TableFor(key) :
                 /\ TableFor(key)[r] = Row(key[1], key[2]) /\ r \in Nat
                 /\ \A s \in DOMAIN TableFor(key) : TableFor(key)[s].cell = key[2] <=> s = r
<1>1. key \in CellKeys /\ key = <<key[1], key[2]>>
  BY FreshHas, CellOfTask
<1>2. Readable(key) /\ ~Unlocated(key)
  BY <1>1, FreshHas, RowIsRead
<1>3. PICK r \in DOMAIN TableFor(key) : TableFor(key)[r].cell = key[2]
  BY <1>2 DEF Readable
<1>4. /\ Opens(key[1], collection.cells[key].locator.part)
      /\ GroupOf(key) \in DOMAIN collection.parts[SeatOf(key)].groups
      /\ TableFor(key) = collection.parts[SeatOf(key)].groups[GroupOf(key)]
  <2> DEFINE found == /\ Opens(key[1], collection.cells[key].locator.part)
                      /\ GroupOf(key) \in DOMAIN collection.parts[SeatOf(key)].groups
  <2>1. TableFor(key) = IF found THEN collection.parts[SeatOf(key)].groups[GroupOf(key)] ELSE <<>>
    BY <1>2 DEF TableFor, SeatOf, GroupOf
  <2> HIDE DEF found
  <2>2. DOMAIN <<>> = {}
    OBVIOUS
  <2>3. found
    BY <1>3, <2>1, <2>2
  <2> QED BY <2>1, <2>3 DEF found
<1>5. SeatOf(key) \in DOMAIN collection.parts
  BY <1>4 DEF Opens, SeatOf
<1> DEFINE seat == SeatOf(key)
           g == GroupOf(key)
<1>6. seat[1] = key[1] /\ seat \in DOMAIN collection.parts /\ g \in DOMAIN collection.parts[seat].groups
      /\ r \in DOMAIN collection.parts[seat].groups[g] /\ key[2] = collection.parts[seat].groups[g][r].cell
  BY <1>3, <1>4, <1>5 DEF SeatOf
<1> HIDE DEF seat, g
<1>7. /\ collection.parts[seat].groups[g][r] = Row(seat[1], key[2]) /\ r \in Nat
      /\ collection.cells[<<seat[1], key[2]>>].locator.rowGroup \in Nat
      /\ \A s \in DOMAIN collection.parts[seat].groups[g] :
            collection.parts[seat].groups[g][s].cell = key[2] => s = r
  <2>1. HasRow(seat, g, r)
    BY <1>6 DEF HasRow
  <2>2. PICK cell : cell = key[2] /\ cell = collection.parts[seat].groups[g][r].cell
    BY <1>6
  <2>3. Seats(seat, g, r, cell)
    BY <2>1, <2>2, RowIsSeated
  <2> QED BY <2>2, <2>3 DEF Seats
<1>8. TableFor(key) = collection.parts[seat].groups[g]
  BY <1>4 DEF seat, g
<1> QED
  BY <1>1, <1>2, <1>3, <1>4, <1>5, <1>6, <1>7, <1>8

\* A locator that leads elsewhere does not lead to the row of the cell.
LEMMA WrongPlaceIsSeen ==
    ASSUME Fresh, Filed, NEW key \in Cells, NEW part, NEW rowGroup \in Nat, part # Null,
           part # collection.cells[key].locator.part \/ rowGroup # collection.cells[key].locator.rowGroup,
           NEW locator, locator.part = part, locator.rowGroup = rowGroup,
           CellBecomes(key, [collection.cells[key] EXCEPT !.locator = locator])
    PROVE  BlobsFail'
<1>1. key = <<key[1], key[2]>> /\ collection.cells[key].locator.rowGroup \in Nat
  BY CellIsSeated
<1>2. DOMAIN collection.cells[key] = Columns /\ "locator" \in Columns
  BY CollectionIs DEF Columns
<1>3. /\ Cells' = Cells /\ collection'.cells[key].locator = locator
      /\ collection'.parts = collection.parts /\ collection'.files = collection.files
  BY <1>2 DEF CellBecomes, Cells
<1>4. ~Unlocated(key)'
  BY <1>3 DEF Unlocated, Null
<1>5. SUFFICES ASSUME Readable(key)' PROVE FALSE
  BY <1>3 DEF BlobsFail, CountsAgree
<1> DEFINE seat == <<key[1], part>>
           g == rowGroup + 1
<1>6. PICK r : r \in DOMAIN TableFor(key)' /\ TableFor(key)'[r].cell = key[2]
  BY <1>5 DEF Readable
<1>7. /\ Opens(key[1], part)' /\ g \in DOMAIN collection.parts[seat].groups
      /\ TableFor(key)' = collection.parts[seat].groups[g]
  BY <1>3, <1>4, <1>6 DEF TableFor
<1>8. seat \in DOMAIN collection.parts
  BY <1>3, <1>7 DEF Opens
<1>9. seat[1] = key[1] /\ seat[2] = part
  OBVIOUS
<1>10. g \in Int /\ g - 1 = rowGroup
  OBVIOUS
<1> HIDE DEF seat, g
<1>11. r \in DOMAIN collection.parts[seat].groups[g] /\ key[2] = collection.parts[seat].groups[g][r].cell
  BY <1>6, <1>7
<1>12. /\ collection.cells[<<seat[1], key[2]>>].locator.part = seat[2]
       /\ collection.cells[<<seat[1], key[2]>>].locator.rowGroup + 1 = g
  <2>1. HasRow(seat, g, r)
    BY <1>7, <1>8, <1>11 DEF HasRow
  <2>2. PICK cell : cell = key[2] /\ cell = collection.parts[seat].groups[g][r].cell
    BY <1>11
  <2>3. Seats(seat, g, r, cell)
    BY <2>1, <2>2, RowIsSeated
  <2> QED BY <2>2, <2>3 DEF Seats
<1>13. collection.cells[key].locator.part = part /\ collection.cells[key].locator.rowGroup = rowGroup
  BY <1>1, <1>9, <1>10, <1>12
<1> QED
  BY <1>13

LEMMA SwappedPlaceIsSeen ==
    ASSUME Fresh, Filed, NEW key \in Cells, NEW other \in Cells,
           LET locator == collection.cells[other].locator
               own     == collection.cells[key].locator
           IN  <<locator.part, locator.rowGroup>> # <<own.part, own.rowGroup>>,
           Tamper("place", [collection EXCEPT !.cells[key].locator = collection.cells[other].locator])
    PROVE  BlobsFail'
<1>1. PICK locator : locator = collection.cells[other].locator
  OBVIOUS
<1>2. CellBecomes(key, [collection.cells[key] EXCEPT !.locator = locator])
  BY <1>1, LocatorBecomes
<1>3. PICK part, rowGroup : part = locator.part /\ rowGroup = locator.rowGroup
  OBVIOUS
<1>4. /\ part # Null /\ rowGroup \in Nat
      /\ part # collection.cells[key].locator.part \/ rowGroup # collection.cells[key].locator.rowGroup
  BY <1>1, <1>3, CellIsSeated DEF Unlocated
<1> QED
  BY <1>2, <1>3, <1>4, WrongPlaceIsSeen

LEMMA NextPlaceIsSeen ==
    ASSUME Fresh, Filed, NEW key \in Cells,
           Tamper("place", [collection EXCEPT !.cells[key].locator.rowGroup = @ + 1])
    PROVE  BlobsFail'
<1> DEFINE own == collection.cells[key].locator
           locator == [own EXCEPT !.rowGroup = own.rowGroup + 1]
<1>1. CellBecomes(key, [collection.cells[key] EXCEPT !.locator = locator])
  BY CollectionIs DEF Tamper, CellBecomes, Names, Cells
<1>2. own.rowGroup \in Nat /\ own.part # Null /\ DOMAIN own = LocatorNamed
  BY CellIsSeated, CollectionIs DEF Unlocated
<1>3. locator.part = own.part /\ locator.rowGroup = own.rowGroup + 1
  BY <1>2 DEF LocatorNamed
<1>4. PICK rowGroup \in Nat : rowGroup = own.rowGroup + 1
  BY <1>2
<1>5. rowGroup # own.rowGroup
  BY <1>2, <1>4
<1>6. PICK part : part = own.part
  OBVIOUS
<1> HIDE DEF locator
<1>7. /\ part # Null /\ locator.part = part /\ locator.rowGroup = rowGroup
      /\ part # collection.cells[key].locator.part \/ rowGroup # collection.cells[key].locator.rowGroup
  BY <1>2, <1>3, <1>4, <1>5, <1>6
<1> HIDE DEF own
<1> QED
  BY <1>1, <1>7, WrongPlaceIsSeen

\* A cell is read from the files and the parts, through its own locator.
LEMMA ReadingStays ==
    ASSUME NEW key, collection'.files = collection.files, collection'.parts = collection.parts,
           collection'.cells[key].locator = collection.cells[key].locator
    PROVE  TableFor(key)' = TableFor(key) /\ (Readable(key)' <=> Readable(key)) /\ ReadCell(key)' = ReadCell(key)
<1>1. LevelRows(key[1])' = LevelRows(key[1])
  BY DEF LevelRows, PartsNamed
<1>2. TableFor(key)' = TableFor(key)
  BY <1>1 DEF TableFor, Unlocated, Opens, PartsNamed
<1> QED
  BY <1>2 DEF Readable, ReadCell

LEMMA CountIsSeen ==
    ASSUME Fresh, NEW key \in Cells,
           Tamper("count", [collection EXCEPT !.cells[key].vertexCount = @ + 1])
    PROVE  BlobsFail'
<1> DEFINE count == collection.cells[key].vertexCount
<1>1. count \in Nat /\ Len(ReadCell(key).points) = count
  <2>1. key \in CellKeys
    BY FreshHas
  <2>2. ArePieces(PiecesIn(key[1], key[2])) /\ Len(ReadCell(key).points) = Len(Concatenated(PiecesIn(key[1], key[2])).points)
    BY <2>1, CellIsRead DEF RowStands
  <2>3. PICK pieces : pieces = PiecesIn(key[1], key[2])
    OBVIOUS
  <2>4. IsMesh(Concatenated(pieces))
    BY <2>2, <2>3, ConcatenatedIsMesh
  <2>5. Len(Concatenated(pieces).points) \in Nat
    BY <2>4 DEF IsMesh
  <2> QED BY <2>1, <2>2, <2>3, <2>5, WrittenRow
<1>2. CellBecomes(key, [collection.cells[key] EXCEPT !.vertexCount = @ + 1])
  BY CollectionIs DEF Tamper, CellBecomes, Names, Cells
<1>3. DOMAIN collection.cells[key] = Columns /\ "locator" \in Columns /\ "vertexCount" \in Columns
  BY CollectionIs DEF Columns
<1>4. /\ Cells' = Cells /\ collection'.cells[key].locator = collection.cells[key].locator
      /\ collection'.cells[key].vertexCount = count + 1
      /\ collection'.parts = collection.parts /\ collection'.files = collection.files
  BY <1>2, <1>3 DEF CellBecomes, Cells
<1>5. ReadCell(key)' = ReadCell(key)
  BY <1>4, ReadingStays
<1> HIDE DEF count
<1>6. ~(Len(ReadCell(key)'.points) = collection'.cells[key].vertexCount)
  BY <1>1, <1>4, <1>5
<1>7. ~CountsAgree'
  BY <1>4, <1>6 DEF CountsAgree
<1> QED
  BY <1>7 DEF BlobsFail

-----------------------------------------------------------------------------
(* A level is lost, a row of the object catalog is wrong, or a part.  *)

LEMMA LostLevelIsSeen ==
    ASSUME Fresh, LoseLevel
    PROVE  StructureFails'
<1>1. collection.levels \in Nat \ {0}
  BY FreshHas
<1> DEFINE kept == {key \in Cells : key[1] < collection.levels - 1}
<1>2. collection'.levels = collection.levels /\ Cells' = kept
  BY CollectionIs DEF LoseLevel, Tamper, Names, Cells, Restrict
<1>3. PICK coarsest : coarsest = collection.levels - 1
  OBVIOUS
<1>4. coarsest \in ManifestLevels'
  BY <1>1, <1>2, <1>3 DEF ManifestLevels
<1>5. ASSUME NEW key \in Cells' PROVE key[1] # coarsest
  <2>1. key[1] \in Nat
    BY <1>2, FreshHas
  <2> QED BY <1>1, <1>2, <1>3, <2>1
<1>6. ~LevelsAreContiguous'
  BY <1>4, <1>5 DEF LevelsAreContiguous
<1> QED
  BY <1>6 DEF StructureFails

\* Two objects have one ordinal, or the last is not below their number.
LEMMA OrdinalIsSeen ==
    ASSUME Fresh, Filed, NEW id \in DOMAIN collection.objects,
           Tamper("ordinal", [collection EXCEPT !.objects[id].ordinal = @ + 1])
    PROVE  StructureFails'
<1>1. /\ IsFiniteSet(Ids) /\ Ids \in SUBSET Int /\ DOMAIN collection.objects = Ids
      /\ DOMAIN collection.objects[id] = ObjectColumns
  BY FreshHas DEF Filed
<1>2. \A n \in Ids : collection.objects[n].ordinal = Rank(Ids, n) - 1
  BY FreshHas DEF Tallied
<1>3. /\ Cardinality(Ids) \in Nat /\ \A n \in Ids : Rank(Ids, n) \in 1 .. Cardinality(Ids)
      /\ \A m, n \in Ids : Rank(Ids, m) = Rank(Ids, n) => m = n
  BY <1>1, RanksAreBijective
<1>4. /\ DOMAIN collection'.objects = Ids /\ collection'.objects[id].ordinal = collection.objects[id].ordinal + 1
      /\ \A n \in Ids : n # id => collection'.objects[n] = collection.objects[n]
  BY <1>1, CollectionIs DEF Tamper, Names, ObjectColumns
<1>5. PICK old : old = Rank(Ids, id) - 1
  OBVIOUS
<1>6. old \in 0 .. Cardinality(Ids) - 1
  BY <1>1, <1>3, <1>5
<1>7. ASSUME NEW n \in Ids PROVE collection'.objects[n].ordinal # old
  <2>1. CASE n = id
    BY <1>1, <1>2, <1>3, <1>4, <1>5, <2>1
  <2>2. CASE n # id
    BY <1>1, <1>2, <1>3, <1>4, <1>5, <2>2
  <2> QED BY <2>1, <2>2
<1>8. {collection'.objects[n].ordinal : n \in Ids} # 0 .. Cardinality(Ids) - 1
  BY <1>6, <1>7
<1>9. ~OrdinalsAreDense'
  BY <1>4, <1>8 DEF OrdinalsAreDense
<1> QED
  BY <1>9 DEF StructureFails

\* A cell holds an object that does not name it.
LEMMA UnnamedCellIsSeen ==
    ASSUME Fresh, Filed, NEW id \in DOMAIN collection.objects, NEW key \in collection.objects[id].cells,
           Tamper("object", [collection EXCEPT !.objects[id].cells = @ \ {key}])
    PROVE  BlobsFail'
<1>1. id \in Ids /\ DOMAIN collection.objects = Ids /\ DOMAIN collection.objects[id] = ObjectColumns
      /\ key \in HomesOf(id)
  BY FreshHas DEF Filed
<1>2. PICK k \in DOMAIN perLevel : k[3] = id /\ key = <<k[1], k[2]>>
  BY <1>1 DEF HomesOf
<1>3. key \in Cells /\ key[1] = k[1] /\ key[2] = k[2]
  BY <1>2, FreshHas DEF CellKeys
<1>4. Readable(key) /\ \E i \in DOMAIN ReadCell(key).ids : ReadCell(key).ids[i] = id
  BY <1>2, FreshHas, PiecesAreRead DEF IsRead
<1>5. /\ collection'.files = collection.files /\ collection'.parts = collection.parts
      /\ collection'.cells = collection.cells /\ collection'.objects[id].cells = collection.objects[id].cells \ {key}
  BY <1>1, CollectionIs DEF Tamper, Names, ObjectColumns
<1>6. Readable(key)' /\ ReadCell(key)' = ReadCell(key) /\ Cells' = Cells
  BY <1>4, <1>5, ReadingStays DEF Cells
<1>7. key \in ReadableCells'
  BY <1>3, <1>6 DEF ReadableCells
<1>8. PICK i \in DOMAIN ReadCell(key)'.ids : ReadCell(key)'.ids[i] = id
  BY <1>4, <1>6
<1>9. ~(key \in collection'.objects[ReadCell(key)'.ids[i]].cells)
  BY <1>5, <1>8
<1>10. ~CatalogsAgree'
  BY <1>7, <1>9 DEF CatalogsAgree
<1> QED
  BY <1>10 DEF BlobsFail

\* The bytes of some rows are a number.
LEMMA TotalIsNumber ==
    ASSUME NEW list \in Seq(Nat)
    PROVE  Chunks!TotalBytes(list) \in Nat
<1>1. PICK m \in Nat : m = Len(list)
  OBVIOUS
<1>2. DOMAIN list = 1 .. m /\ \A k \in 1 .. m : list[k] \in Nat
  BY <1>1
<1> DEFINE step == [p \in Nat \X (1 .. m) |-> p[1] + list[p[2]]]
<1>3. PICK h \in [SUBSET (1 .. m) -> Nat] : LeftFolds(h, m, 0, step)
  <2>1. step \in Steps(Nat, 1 .. m)
    BY <1>2 DEF Steps
  <2> HIDE DEF step
  <2> QED BY <2>1, LeftFoldExists
<1>31. ASSUME NEW T \in SUBSET (1 .. m), T # {}
       PROVE  h[T] = h[T \ {Max(T)}] + list[Max(T)]
  <2>1. Max(T) \in 1 .. m /\ h[T \ {Max(T)}] \in Nat
    BY <1>3, <1>31, LargestPosition
  <2> QED BY <1>3, <1>31, <2>1 DEF LeftFolds, Folds, LeftPick
<1>32. h[{}] = 0
  BY <1>3 DEF LeftFolds, Folds
<1> HIDE DEF step
<1>4. ASSUME NEW k \in 1 .. m PROVE h[1 .. k] = h[1 .. (k - 1)] + list[k]
  <2>0. k \in Nat \ {0}
    OBVIOUS
  <2>1. Max(1 .. k) = k /\ (1 .. k) \ {k} = 1 .. (k - 1)
    BY <2>0, LargestOfPrefix
  <2>2. PICK T \in SUBSET (1 .. m) : T = 1 .. k
    OBVIOUS
  <2>3. T # {}
    BY <2>0, <2>2
  <2>4. h[T] = h[T \ {Max(T)}] + list[Max(T)]
    BY <1>31, <2>3
  <2> QED BY <2>1, <2>2, <2>4
<1> DEFINE total == [k \in 0 .. m |-> h[1 .. k]]
<1>5. total \in [0 .. m -> Nat] /\ total[0] = 0 /\ \A k \in 1 .. m : total[k] = total[k - 1] + list[k]
  <2>1. \A k \in 0 .. m : 1 .. k \in SUBSET (1 .. m)
    OBVIOUS
  <2>2. h[1 .. 0] = 0
    <3>1. 1 .. 0 = {}
      OBVIOUS
    <3> QED BY <1>32, <3>1
  <2>3. total \in [0 .. m -> Nat]
    BY <2>1
  <2> QED BY <1>4, <2>2, <2>3
<1> HIDE DEF total
<1>6. FoldLeft(LAMBDA s, n : s + n, 0, list) = total[m]
  BY <1>2, <1>5, FoldIsTotal
<1>7. Chunks!TotalBytes(list) = FoldLeft(LAMBDA s, n : s + n, 0, list)
  BY Zenon DEF Chunks!TotalBytes, Chunks!FoldLeft, FoldLeft, Chunks!MapThenFoldSet, MapThenFoldSet, Chunks!Max, Max
<1>8. total[m] \in Nat
  BY <1>5
<1> QED
  BY <1>6, <1>7, <1>8, Zenon

\* A part is one that the manifest names, as long as it says.
LEMMA SeatIsNamed ==
    ASSUME Fresh, NEW seat \in DOMAIN collection.parts
    PROVE  /\ seat = <<seat[1], seat[2]>> /\ seat[1] \in ManifestLevels /\ seat[2] \in PartsNamed(seat[1])
           /\ seat[1] \in DOMAIN collection.files /\ seat[2] + 1 \in DOMAIN collection.files[seat[1]]
           /\ DOMAIN collection.files[seat[1]][seat[2] + 1] = {"size", "rowGroups"}
           /\ Opens(seat[1], seat[2]) /\ collection.parts[seat].size \in Nat
           /\ DOMAIN collection.parts[seat] = {"groups", "size"}
<1> DEFINE keys(l) == {<<l, q - 1>> : q \in DOMAIN Files[l]}
<1>1. collection.parts = [k \in UNION {keys(l) : l \in Levels} |-> Files[k[1]][k[2] + 1]]
  BY FreshHas, UnderThePrefix
<1>2. PICK level \in Levels : seat \in keys(level)
  <2> HIDE DEF keys
  <2> QED BY <1>1
<1>3. PICK p \in DOMAIN Files[level] : seat = <<level, p - 1>>
  BY <1>2
<1> DEFINE parts == PartsOf(level)
           R == RowsAt(level)
<1>4. shards[level] \in Seq(R) /\ Weighted(R) /\ MaxPartBytes \in Int /\ RowGroupBytes \in Int
  BY FreshHas, UnderThePrefix, RowsTyped, BuildAssumption DEF Shelves
<1>5. Divides(parts, shards[level], R)
  <2> HIDE DEF R
  <2> QED BY <1>4, PartsDivide DEF PartsOf
<1>6. Files[level] = [q \in DOMAIN parts |-> PartFile(parts[q])]
  BY DEF Files
<1> HIDE DEF R, parts
<1>7. p \in DOMAIN parts /\ parts[p] \in Seq(R)
  BY <1>3, <1>5, <1>6 DEF Divides
<1>8. PICK n \in Nat : n = Len(parts) /\ DOMAIN parts = 1 .. n
  BY <1>5 DEF Divides
<1>9. p \in Int /\ seat[1] = level /\ seat[2] = p - 1 /\ seat[2] + 1 = p
  BY <1>3, <1>7, <1>8
<1>10. /\ collection.parts[seat] = PartFile(parts[p])
       /\ Opens(level, p - 1) /\ p - 1 \in PartsNamed(level)
  BY <1>3, <1>7, <1>8, FreshHas, PartsOpen DEF parts
<1>11. collection.files = [l \in Levels |->
          [q \in DOMAIN Files[l] |-> [size |-> Files[l][q].size, rowGroups |-> Len(Files[l][q].groups)]]]
  BY FreshHas, UnderThePrefix
<1>12. /\ DOMAIN collection.files = Levels /\ p \in DOMAIN collection.files[level]
       /\ DOMAIN collection.files[level][p] = {"size", "rowGroups"}
  BY <1>3, <1>11
<1>13. collection.parts[seat].size = Chunks!TotalBytes(Chunks!BlobSizes(parts[p]))
       /\ DOMAIN collection.parts[seat] = {"groups", "size"}
  BY <1>10 DEF PartFile
<1>14. Chunks!BlobSizes(parts[p]) \in Seq(Nat)
  BY <1>4, <1>7, SizesListed
<1>15. Chunks!TotalBytes(Chunks!BlobSizes(parts[p])) \in Nat
  BY <1>14, TotalIsNumber
<1>16. level \in ManifestLevels
  BY FreshHas DEF ManifestLevels
<1> QED
  BY <1>3, <1>9, <1>10, <1>12, <1>13, <1>15, <1>16

LEMMA LostPartIsSeen ==
    ASSUME Fresh, NEW seat \in DOMAIN collection.parts,
           Tamper("part", [collection EXCEPT !.parts = Restrict(@, DOMAIN @ \ {seat})])
    PROVE  StructureFails'
<1>1. /\ collection'.files = collection.files /\ collection'.levels = collection.levels
      /\ seat \notin DOMAIN collection'.parts
  BY CollectionIs DEF Tamper, Names, Restrict
<1>2. seat = <<seat[1], seat[2]>> /\ seat[1] \in ManifestLevels' /\ seat[2] \in PartsNamed(seat[1])'
  BY <1>1, SeatIsNamed DEF ManifestLevels, PartsNamed
<1>3. ~FilesExist'
  BY <1>1, <1>2 DEF FilesExist
<1> QED
  BY <1>3 DEF StructureFails

LEMMA LengthIsSeen ==
    ASSUME Fresh, NEW seat \in DOMAIN collection.parts,
           Tamper("length", [collection EXCEPT !.files[seat[1]][seat[2] + 1].size = @ + 1])
    PROVE  StructureFails'
<1> DEFINE level == seat[1]
           files == collection.files[level]
           p == seat[2] + 1
           size == collection.parts[seat].size
           longer == [files EXCEPT ![p] = [files[p] EXCEPT !.size = files[p].size + 1]]
<1>1. /\ seat = <<level, seat[2]>> /\ level \in ManifestLevels /\ seat[2] \in PartsNamed(level)
      /\ level \in DOMAIN collection.files /\ p \in DOMAIN files
      /\ DOMAIN files[p] = {"size", "rowGroups"} /\ files[p].size = size /\ size \in Nat
  BY SeatIsNamed DEF Opens
<1>2. /\ collection'.parts = collection.parts /\ collection'.levels = collection.levels
      /\ collection'.files = [collection.files EXCEPT ![level] = longer]
  BY CollectionIs DEF Tamper, Names
<1> HIDE DEF p
<1>3. collection'.files[level] = longer
  BY <1>1, <1>2
<1>4. collection'.files[level][p].size = size + 1
  BY <1>1, <1>3
<1>5. collection'.files[level][p].size # collection'.parts[seat].size
  BY <1>1, <1>2, <1>4
<1>6. Len(collection'.files[level]) = Len(files)
  BY <1>1, <1>3
<1>7. ~Opens(level, seat[2])'
  BY <1>1, <1>5 DEF Opens, p
<1>8. level \in ManifestLevels' /\ seat[2] \in PartsNamed(level)'
  BY <1>1, <1>2, <1>6 DEF ManifestLevels, PartsNamed
<1>9. ~RecordedLengthsAreRight'
  BY <1>7, <1>8 DEF RecordedLengthsAreRight
<1> QED
  BY <1>9 DEF StructureFails

-----------------------------------------------------------------------------
(* A geometry row is wrong. *)

\* The row of a place under the prefix is another, of the same cell.
RowBecomes(kind, seat, g, r, other) ==
    /\ seat \in DOMAIN collection.parts /\ g \in DOMAIN collection.parts[seat].groups
    /\ r \in DOMAIN collection.parts[seat].groups[g]
    /\ other.cell = collection.parts[seat].groups[g][r].cell
    /\ Tamper(kind, [collection EXCEPT !.parts[seat].groups[g][r] = other])

\* The cell whose row it is.
CellOfRow(seat, g, r) == <<seat[1], collection.parts[seat].groups[g][r].cell>>

\* Every row is read as before, and that one as what it is now.
LEMMA RowIsReplaced ==
    ASSUME Fresh, Filed, NEW kind, NEW seat, NEW g, NEW r, NEW other, RowBecomes(kind, seat, g, r, other)
    PROVE  /\ collection'.cells = collection.cells /\ collection'.objects = collection.objects
           /\ CellOfRow(seat, g, r) \in Cells /\ Cells' = Cells
           /\ collection.parts[seat].groups[g][r] = Row(CellOfRow(seat, g, r)[1], CellOfRow(seat, g, r)[2])
           /\ \A key \in Cells :
                 /\ Readable(key) /\ Readable(key)'
                 /\ ReadCell(key) = DecodedRow(Row(key[1], key[2]), key)
                 /\ IF key = CellOfRow(seat, g, r) THEN ReadCell(key)' = DecodedRow(other, key)
                    ELSE ReadCell(key)' = ReadCell(key)
<1> DEFINE P == collection.parts
           groups == P[seat].groups
           new == [groups EXCEPT ![g] = [groups[g] EXCEPT ![r] = other]]
           part == [P[seat] EXCEPT !.groups = new]
           cell == groups[g][r].cell
<1>0. /\ seat \in DOMAIN P /\ g \in DOMAIN groups /\ r \in DOMAIN groups[g] /\ other.cell = cell
      /\ collection' = [collection EXCEPT !.parts[seat].groups[g][r] = other]
  BY DEF RowBecomes, Tamper
<1>1. /\ collection'.parts = [P EXCEPT ![seat] = part]
      /\ collection'.cells = collection.cells /\ collection'.objects = collection.objects
      /\ collection'.files = collection.files
  BY <1>0, CollectionIs DEF Names
<1>2. /\ seat = <<seat[1], seat[2]>> /\ DOMAIN P[seat] = {"groups", "size"}
  BY <1>0, SeatIsNamed
<1>3. /\ <<seat[1], cell>> \in CellKeys /\ groups[g][r] = Row(seat[1], cell)
      /\ collection.cells[<<seat[1], cell>>].locator.part = seat[2]
      /\ collection.cells[<<seat[1], cell>>].locator.rowGroup + 1 = g
  <2>1. HasRow(seat, g, r)
    BY <1>0 DEF HasRow
  <2>2. PICK home : home = cell /\ home = collection.parts[seat].groups[g][r].cell
    OBVIOUS
  <2>3. Seats(seat, g, r, home)
    BY <2>1, <2>2, RowIsSeated
  <2> QED BY <2>2, <2>3 DEF Seats
<1>4. Cells' = Cells /\ Cells = CellKeys
  BY <1>1, FreshHas DEF Cells
<1> DEFINE key0 == <<seat[1], cell>>
<1>5. key0 = CellOfRow(seat, g, r) /\ key0[1] = seat[1] /\ key0[2] = cell
  BY DEF CellOfRow
<1>6. key0 \in Cells /\ SeatOf(key0) = seat /\ GroupOf(key0) = g
  BY <1>2, <1>3, <1>4 DEF SeatOf, GroupOf
<1> HIDE DEF new, part
<1>7. /\ DOMAIN new = DOMAIN groups /\ \A h \in DOMAIN groups : h # g => new[h] = groups[h]
      /\ DOMAIN new[g] = DOMAIN groups[g] /\ new[g][r] = other
      /\ \A s \in DOMAIN groups[g] : s # r => new[g][s] = groups[g][s]
  <2> HIDE DEF groups
  <2>1. DOMAIN new = DOMAIN groups /\ new[g] = [groups[g] EXCEPT ![r] = other]
        /\ \A h \in DOMAIN groups : h # g => new[h] = groups[h]
    BY <1>0 DEF new
  <2> QED BY <1>0, <2>1
<1>8. part.groups = new /\ part.size = P[seat].size
  BY <1>2 DEF part
<1> HIDE DEF key0, cell
<1>9. ASSUME NEW key \in Cells
      PROVE  /\ Readable(key) /\ Readable(key)'
             /\ ReadCell(key) = DecodedRow(Row(key[1], key[2]), key)
             /\ IF key = key0 THEN ReadCell(key)' = DecodedRow(other, key)
                ELSE ReadCell(key)' = ReadCell(key)
  <2> DEFINE home == SeatOf(key)
             h == GroupOf(key)
             table == P[home].groups[h]
             changed == collection'.parts[home].groups[h]
  <2>1. /\ key = <<key[1], key[2]>> /\ ~Unlocated(key) /\ Opens(key[1], collection.cells[key].locator.part)
        /\ home \in DOMAIN P /\ h \in DOMAIN P[home].groups /\ TableFor(key) = table
    BY CellIsSeated
  <2>2. PICK i \in DOMAIN table : /\ table[i] = Row(key[1], key[2]) /\ i \in Nat
                                  /\ \A s \in DOMAIN table : table[s].cell = key[2] <=> s = i
    BY <2>1, CellIsSeated
  <2>3. Readable(key) /\ ReadCell(key) = DecodedRow(Row(key[1], key[2]), key)
    BY <1>4, FreshHas, RowIsRead
  <2>4. ~Unlocated(key)'
    BY <1>1, <2>1 DEF Unlocated
  <2>5. /\ DOMAIN collection'.parts = DOMAIN P
        /\ home # seat => collection'.parts[home] = P[home]
        /\ home = seat => collection'.parts[home] = part
    BY <1>0, <1>1, <2>1
  <2>6. collection'.parts[home].size = P[home].size
    BY <1>8, <2>5
  <2>7. Opens(key[1], collection.cells[key].locator.part)'
    BY <1>1, <2>1, <2>5, <2>6 DEF Opens, PartsNamed, SeatOf
  <2>8. /\ h \in DOMAIN collection'.parts[home].groups /\ DOMAIN changed = DOMAIN table
        /\ \A s \in DOMAIN table :
              changed[s] = IF home = seat /\ h = g /\ s = r THEN other ELSE table[s]
    <3>1. CASE home # seat
      BY <2>1, <2>5, <3>1
    <3>2. CASE home = seat /\ h # g
      BY <1>7, <1>8, <2>1, <2>5, <3>2
    <3>3. CASE home = seat /\ h = g
      <4>1. table = groups[g] /\ changed = new[g] /\ h \in DOMAIN collection'.parts[home].groups
        BY <1>7, <1>8, <2>1, <2>5, <3>3
      <4> HIDE DEF table, changed, groups
      <4> QED BY <1>7, <3>3, <4>1
    <3> QED BY <3>1, <3>2, <3>3
  <2>9. TableFor(key)' = changed
    <3>1. collection'.cells[key].locator = collection.cells[key].locator
      BY <1>1
    <3> QED BY <2>4, <2>7, <2>8, <3>1 DEF TableFor, SeatOf, GroupOf
  <2>10. home = seat /\ h = g => table = groups[g]
    OBVIOUS
  <2> HIDE DEF home, h, table, changed, groups
  <2>11. \A s \in DOMAIN changed : changed[s].cell = table[s].cell
    BY <1>0, <2>8, <2>10 DEF cell
  <2>12. {s \in DOMAIN changed : changed[s].cell = key[2]} = {i}
    BY <2>2, <2>8, <2>11
  <2>13. Min({i}) = i
    BY <2>2 DEF Min
  <2>14. Readable(key)'
    BY <2>2, <2>9, <2>12 DEF Readable
  <2>15. ReadCell(key)' = DecodedRow(changed[i], key)
    BY <2>9, <2>12, <2>13 DEF ReadCell, DecodedRow
  <2>16. CASE key = key0
    <3>1. home = seat /\ h = g /\ key[2] = cell
      BY <1>5, <1>6, <2>16 DEF home, h
    <3>2. i = r
      BY <1>0, <2>2, <2>10, <3>1 DEF cell
    <3>3. changed[i] = other
      BY <2>2, <2>8, <3>1, <3>2
    <3> QED BY <2>3, <2>14, <2>15, <2>16, <3>3
  <2>17. CASE key # key0
    <3>1. ~(home = seat /\ h = g /\ i = r)
      <4> SUFFICES ASSUME home = seat, h = g, i = r PROVE FALSE
        OBVIOUS
      <4>1. key[2] = cell
        BY <2>2, <2>10 DEF cell
      <4>2. key[1] = seat[1]
        BY DEF home, SeatOf
      <4> QED BY <2>1, <2>17, <4>1, <4>2 DEF key0
    <3>2. changed[i] = table[i]
      BY <2>2, <2>8, <3>1
    <3> QED BY <2>2, <2>3, <2>14, <2>15, <2>17, <3>2
  <2> QED BY <2>16, <2>17
<1> HIDE DEF groups
<1> QED
  BY <1>1, <1>3, <1>4, <1>5, <1>6, <1>9 DEF groups, cell

\* What a row of a part has.
RowColumns == {"level", "cell", "positions", "indices", "ids", "ordinals", "vertexOffsets", "indexOffsets", "bytes"}

\* What a row has.
LEMMA RowHas ==
    ASSUME Fresh, NEW key \in Cells, NEW row, row = Row(key[1], key[2])
    PROVE  /\ DOMAIN row = RowColumns /\ row.level = key[1] /\ row.cell = key[2]
           /\ Len(row.positions) \in Nat /\ DOMAIN row.positions = 1 .. Len(row.positions)
           /\ row.indices \in Seq(Face) /\ Len(row.indices) \in Nat
           /\ DOMAIN row.ids = 1 .. Len(row.ids) /\ Len(row.ids) \in Nat \ {0}
           /\ DOMAIN row.indexOffsets = DOMAIN row.ids
<1> DEFINE pieces == PiecesIn(key[1], key[2])
           mesh == Concatenated(pieces)
<1>1. key \in CellKeys
  BY FreshHas
<1>2. /\ ArePieces(pieces) /\ DecodesTo(ReadCell(key), pieces, key[1], key[2])
      /\ Lists(IdsIn(key[1], key[2]), Residents(key[1], key[2])) /\ Len(pieces) = Len(IdsIn(key[1], key[2]))
  BY <1>1, CellIsRead
<1>3. ReadCell(key) = DecodedRow(row, key)
  BY <1>1, FreshHas, RowIsRead
<1>4. IsMesh(mesh)
  <2> HIDE DEF pieces
  <2> QED BY <1>2, ConcatenatedIsMesh
<1>5. /\ DOMAIN row = RowColumns /\ row.level = key[1] /\ row.cell = key[2]
      /\ row.ids = IdsIn(key[1], key[2]) /\ row.indices = mesh.faces /\ DOMAIN row.positions = DOMAIN mesh.points
      /\ row.positions = [v \in DOMAIN mesh.points |-> Quantized(mesh.points[v], key[2], key[1])]
  BY DEF Row, RowColumns
<1>6. row.indexOffsets = Starts([i \in 1 .. Len(pieces) |-> 3 * Len(pieces[i].faces)])
  BY <1>2, <1>3 DEF DecodesTo, DecodedRow
<1> HIDE DEF mesh
<1>7. mesh.points \in Seq(Point) /\ mesh.faces \in Seq(Face)
  BY <1>4 DEF IsMesh
<1>8. PICK n \in Nat : n = Len(mesh.points) /\ DOMAIN mesh.points = 1 .. n
  BY <1>7
<1>9. Len(row.positions) = n /\ DOMAIN row.positions = 1 .. n
  BY <1>5, <1>8
<1>10. DOMAIN row.ids = 1 .. Len(row.ids) /\ Len(row.ids) \in Nat /\ Len(row.ids) = Len(pieces)
  BY <1>2, <1>5 DEF Lists
<1>11. DOMAIN row.ids # {}
  <2>1. PICK k \in DOMAIN perLevel : key = <<k[1], k[2]>>
    BY <1>1 DEF CellKeys
  <2>2. \E i \in DOMAIN ReadCell(key).ids : ReadCell(key).ids[i] = k[3]
    BY <2>1, FreshHas, PiecesAreRead DEF IsRead
  <2> QED BY <1>3, <2>2 DEF DecodedRow
<1>12. DOMAIN row.indexOffsets = 1 .. Len(pieces)
  BY <1>6 DEF Starts
<1>13. row.indices \in Seq(Face) /\ Len(row.indices) \in Nat
  BY <1>5, <1>7
<1> QED
  BY <1>5, <1>9, <1>10, <1>11, <1>12, <1>13

\* What the row of a cell is now, as it is read.
ReadsAs(key, other) == key \in ReadableCells' /\ ReadCell(key)' = DecodedRow(other, key)

LEMMA OtherRowIsRead ==
    ASSUME Fresh, Filed, NEW kind, NEW seat, NEW g, NEW r, NEW other, RowBecomes(kind, seat, g, r, other),
           NEW key, key = CellOfRow(seat, g, r)
    PROVE  ReadsAs(key, other)
<1>1. key \in Cells /\ Cells' = Cells
  BY RowIsReplaced
<1>2. \A k \in Cells : Readable(k)' /\ (k = key => ReadCell(k)' = DecodedRow(other, k))
  BY RowIsReplaced
<1>3. Readable(key)' /\ ReadCell(key)' = DecodedRow(other, key)
  BY <1>1, <1>2
<1> QED
  BY <1>1, <1>3 DEF ReadsAs, ReadableCells

LEMMA IndexIsSeen ==
    ASSUME Fresh, NEW key \in Cells, NEW row, row = Row(key[1], key[2]), NEW f \in DOMAIN row.indices,
           ReadsAs(key, [row EXCEPT !.indices[f][3] = Len(row.positions) + 1])
    PROVE  BlobsFail'
<1>1. /\ DOMAIN row = RowColumns /\ row.indices \in Seq(Face)
      /\ Len(row.positions) \in Nat /\ DOMAIN row.positions = 1 .. Len(row.positions)
  BY RowHas
<1> DEFINE n == Len(row.positions)
           face == [row.indices[f] EXCEPT ![3] = n + 1]
           faces == [row.indices EXCEPT ![f] = face]
           other == [row EXCEPT !.indices[f][3] = n + 1]
<1>2. ReadCell(key)'.faces = other.indices /\ DOMAIN ReadCell(key)'.points = DOMAIN other.positions
  BY DEF ReadsAs, DecodedRow
<1>3. other.indices = faces /\ other.positions = row.positions
  BY <1>1 DEF RowColumns
<1> HIDE DEF n, other
<1>4. DOMAIN faces = DOMAIN row.indices /\ faces[f] = face
  BY <1>1
<1>5. face[3] = n + 1 /\ 3 \in Axes
  <2>1. row.indices[f] \in Face
    BY <1>1
  <2> QED BY <2>1 DEF Face, Axes
<1> HIDE DEF face, faces
<1>6. n + 1 \in Used(faces)
  BY <1>4, <1>5 DEF Used, Corners
<1>7. n + 1 \notin 1 .. n
  BY <1>1 DEF n
<1>8. ~(Used(ReadCell(key)'.faces) \subseteq DOMAIN ReadCell(key)'.points)
  BY <1>1, <1>2, <1>3, <1>6, <1>7 DEF n
<1>9. ~IndicesStayInside'
  BY <1>8 DEF IndicesStayInside, ReadsAs
<1> QED
  BY <1>9 DEF BlobsFail

LEMMA FirstOffsetIsSeen ==
    ASSUME Fresh, NEW key \in Cells, NEW row, row = Row(key[1], key[2]),
           ReadsAs(key, [row EXCEPT !.indexOffsets[1] = 3])
    PROVE  BlobsFail'
<1> DEFINE other == [row EXCEPT !.indexOffsets[1] = 3]
<1>1. DOMAIN row = RowColumns /\ 1 \in DOMAIN row.indexOffsets
  BY RowHas
<1>2. other.indexOffsets[1] = 3 /\ 1 \in DOMAIN other.indexOffsets
  BY <1>1 DEF RowColumns
<1> HIDE DEF other
<1>3. ReadCell(key)'.indexOffsets = other.indexOffsets
  BY DEF ReadsAs, DecodedRow, other
<1>4. other.indexOffsets # <<>>
  BY <1>2
<1>5. ~OffsetsAscend'
  BY <1>2, <1>3, <1>4 DEF OffsetsAscend, ReadsAs, Ascends
<1> QED
  BY <1>5 DEF BlobsFail

LEMMA LastOffsetIsSeen ==
    ASSUME Fresh, NEW key \in Cells, NEW row, row = Row(key[1], key[2]),
           ReadsAs(key, [row EXCEPT !.indexOffsets[Len(row.ids)] = 3 * Len(row.indices) + 3])
    PROVE  BlobsFail'
<1> DEFINE n == Len(row.ids)
           m == 3 * Len(row.indices)
           other == [row EXCEPT !.indexOffsets[n] = m + 3]
<1>1. DOMAIN row = RowColumns /\ n \in DOMAIN row.indexOffsets /\ m \in Nat
  BY RowHas
<1>2. /\ other.indexOffsets[n] = m + 3 /\ n \in DOMAIN other.indexOffsets
      /\ other.ids = row.ids /\ other.indices = row.indices
  <2> HIDE DEF n, m
  <2> QED BY <1>1 DEF RowColumns
<1>3. /\ ReadCell(key)'.indexOffsets = other.indexOffsets
      /\ Len(ReadCell(key)'.ids) = Len(other.ids) /\ 3 * Len(ReadCell(key)'.faces) = 3 * Len(other.indices)
  BY DEF ReadsAs, DecodedRow
<1> HIDE DEF other
<1>4. other.indexOffsets # <<>>
  BY <1>2
<1> DEFINE offsets == other.indexOffsets
<1>5. ~Ascends(offsets, m, n)
  <2> SUFFICES ASSUME Ascends(offsets, m, n) PROVE FALSE
    OBVIOUS
  <2>1. Len(offsets) = n /\ offsets[Len(offsets)] <= m
    BY <1>4 DEF Ascends
  <2> QED BY <1>1, <1>2, <2>1
<1>6. ~Ascends(ReadCell(key)'.indexOffsets, 3 * Len(ReadCell(key)'.faces), Len(ReadCell(key)'.ids))
  BY <1>2, <1>3, <1>5
<1> HIDE DEF offsets
<1>7. ~OffsetsAscend'
  BY <1>6 DEF OffsetsAscend, ReadsAs, Ascends
<1> QED
  BY <1>7 DEF BlobsFail

LEMMA StrangerIsSeen ==
    ASSUME Fresh, NEW key \in Cells, NEW row, row = Row(key[1], key[2]), NEW id \in Strangers(key),
           collection'.objects = collection.objects,
           ReadsAs(key, [row EXCEPT !.ids[1] = id])
    PROVE  BlobsFail'
<1> DEFINE other == [row EXCEPT !.ids[1] = id]
<1>1. DOMAIN row = RowColumns /\ 1 \in DOMAIN row.ids
  BY RowHas
<1>2. other.ids[1] = id /\ 1 \in DOMAIN other.ids
  BY <1>1 DEF RowColumns
<1> HIDE DEF other
<1>3. ReadCell(key)'.ids = other.ids
  BY DEF ReadsAs, DecodedRow, other
<1>4. ~(id \in DOMAIN collection'.objects /\ key \in collection'.objects[id].cells)
  BY DEF Strangers
<1>5. ~CatalogsAgree'
  BY <1>2, <1>3, <1>4 DEF CatalogsAgree, ReadsAs
<1> QED
  BY <1>5 DEF BlobsFail

\* What is read are points.
LEMMA PointsAreRead ==
    ASSUME Fresh, NEW key \in Cells
    PROVE  /\ \A w \in DOMAIN ReadCell(key).points : ReadCell(key).points[w] \in Point
           /\ key[1] \in Nat /\ MortonDecode(key[2]) \in Triples
<1> DEFINE pieces == PiecesIn(key[1], key[2])
           mesh == Concatenated(pieces)
<1>1. /\ ArePieces(pieces) /\ DecodesTo(ReadCell(key), pieces, key[1], key[2])
      /\ key[1] \in Nat /\ MortonDecode(key[2]) \in Triples
  BY FreshHas, CellIsRead
<1>2. ReadCell(key).points = [v \in DOMAIN mesh.points |-> Shown(mesh.points[v], key[1], key[2])]
  BY <1>1 DEF DecodesTo
<1>3. mesh.points \in Seq(Point)
  <2>1. IsMesh(mesh)
    <3> HIDE DEF pieces
    <3> QED BY <1>1, ConcatenatedIsMesh
  <2> QED BY <2>1 DEF IsMesh
<1> HIDE DEF mesh
<1>4. ASSUME NEW w \in DOMAIN mesh.points PROVE Shown(mesh.points[w], key[1], key[2]) \in Point
  <2>1. 1 \in Axes /\ mesh.points[w] \in Point
    BY <1>3 DEF Axes
  <2> QED BY <1>1, <2>1, ShownInBox
<1> QED
  BY <1>1, <1>2, <1>4

\* A coordinate that has moved further than twice the tolerance is not within it.
LEMMA MovedAway ==
    ASSUME NEW x \in Int, NEW y \in Int, NEW q \in Int, NEW slack \in Int,
           Abs(x - q) <= slack, 2 * slack < Abs(y - x)
    PROVE  slack < Abs(y - q)
BY DEF Abs

LEMMA DriftIsSeen ==
    ASSUME Fresh, Filed, NEW seat, NEW g, NEW r, NEW key \in Cells, key = CellOfRow(seat, g, r),
           NEW row, row = Row(key[1], key[2]), NEW v \in DOMAIN row.positions, NEW a \in Axes, row.level > 0,
           row.positions[v][a] \in {0, QuantMax},
           4 * Quantum(row.level) < (QuantMax \div 2) * Step(row.level)[a],
           OnlyMatch(<<row.level, row.cell>>, v),
           RowBecomes("drift", seat, g, r, [row EXCEPT !.positions[v][a] = QuantMax \div 2])
    PROVE  ~NoneVanished'
<1> DEFINE half == QuantMax \div 2
           level == key[1]
           slack == 2 * Quantum(level)
           step == Step(level)[a]
           points == ReadCell(key).points
           other == [row EXCEPT !.positions[v][a] = half]
           moved == [w \in DOMAIN other.positions |-> Decoded(other.positions[w], key[2], level)]
<1>1. /\ DOMAIN row = RowColumns /\ row.level = level /\ row.cell = key[2] /\ key = <<key[1], key[2]>>
  BY RowHas, CellIsSeated
<1>2. level \in Nat /\ level > 0 /\ MortonDecode(key[2]) \in Triples /\ Quantum(level) \in Nat /\ slack \in Nat
  <2>1. level \in Nat /\ level > 0 /\ MortonDecode(key[2]) \in Triples
    BY <1>1, PointsAreRead
  <2> QED BY <2>1, QuantumTyped
<1>3. step \in Nat \ {0} /\ half \in Nat /\ QuantMax \in Nat /\ half <= QuantMax - half
  <2>1. step \in Nat \ {0} /\ QuantMax \in Nat
    BY <1>2, StepTyped, LatticeAssumption
  <2>2. QuantMax = 2 * half + (QuantMax % 2) /\ half \in Int /\ QuantMax % 2 \in Int /\ 0 <= QuantMax % 2 /\ QuantMax % 2 < 2
    BY <2>1, Division
  <2> QED BY <2>1, <2>2
<1>4. /\ \A k \in Cells :
            /\ Readable(k)' /\ ReadCell(k) = DecodedRow(Row(k[1], k[2]), k)
            /\ IF k = key THEN ReadCell(k)' = DecodedRow(other, k) ELSE ReadCell(k)' = ReadCell(k)
      /\ Cells' = Cells /\ collection'.cells = collection.cells
  BY RowIsReplaced
<1>5. ReadCell(key)'.points = moved
  BY <1>4 DEF DecodedRow
<1>6. points = [w \in DOMAIN row.positions |-> Decoded(row.positions[w], key[2], level)]
  BY <1>4 DEF DecodedRow
<1>7. PICK q \in OnFine(key) : {w \in DOMAIN points : Distance(points[w], q) <= slack} = {v}
  BY <1>1 DEF OnlyMatch
<1>8. PICK child \in Claims(key) \cap Cells : q \in OnFaces(ReadCell(child).points, level)
  BY DEF OnFine
<1>9. q \in Point
  <2>1. \E w \in DOMAIN ReadCell(child).points : q = ReadCell(child).points[w]
    BY <1>8 DEF OnFaces, OnPlanes
  <2> QED BY <2>1, PointsAreRead
<1>10. child # key
  <2>1. child[1] = level - 1
    BY <1>2 DEF Claims, Claimed, ChildKey
  <2> QED BY <1>2, <2>1
<1>11. Claims(key)' = Claims(key)
  BY <1>4 DEF Claims, Claimed
<1>12. key \in Comparable'
  <2>1. ReadableCells' = Cells
    BY <1>4 DEF ReadableCells
  <2>2. {key} \cup (Claims(key) \cap Cells) \subseteq Cells /\ Claims(key) \cap Cells # {}
    OBVIOUS
  <2>3. /\ Claims(key)' \cap Cells' # {} /\ {key} \cup (Claims(key)' \cap Cells') \subseteq ReadableCells'
        /\ key \in Cells'
    BY <1>4, <1>11, <2>1, <2>2
  <2> QED BY <1>2, <2>3 DEF Comparable
<1>13. q \in OnFine(key)'
  <2>1. ReadCell(child)' = ReadCell(child)
    BY <1>4, <1>10
  <2>2. q \in OnFaces(ReadCell(child)'.points, level) /\ child \in Claims(key)' \cap Cells'
    BY <1>4, <1>8, <1>11, <2>1
  <2> QED BY <2>2 DEF OnFine
<1> HIDE DEF points
<1>14. /\ DOMAIN other.positions = DOMAIN row.positions
       /\ \A w \in DOMAIN row.positions : w # v => other.positions[w] = row.positions[w]
       /\ other.positions[v] = [row.positions[v] EXCEPT ![a] = half]
  <2>1. other.positions = [row.positions EXCEPT ![v] = [row.positions[v] EXCEPT ![a] = half]]
    BY <1>1 DEF RowColumns
  <2> HIDE DEF other
  <2> QED BY <2>1
<1> HIDE DEF other
<1>15. DOMAIN moved = DOMAIN points /\ v \in DOMAIN points /\ \A w \in DOMAIN points : w # v => moved[w] = points[w]
  BY <1>6, <1>14
<1>16. \A w \in DOMAIN points : points[w] \in Point
  BY PointsAreRead DEF points
<1> DEFINE origin == Origin(key[2], level)
<1>17. origin \in Point
  <2>1. ASSUME NEW b \in Axes PROVE MortonDecode(key[2])[b] * Extent(level)[b] \in Int
    <3>1. Extent(level)[b] \in Nat
      BY <1>2, StepTyped
    <3>2. MortonDecode(key[2])[b] \in Nat
      BY <1>2 DEF Triples
    <3> QED BY <3>1, <3>2
  <2> QED BY <2>1 DEF Origin, Point
<1> DEFINE old == row.positions[v]
<1>18. /\ points[v] = [b \in Axes |-> origin[b] + old[b] * Step(level)[b]]
       /\ moved[v] = [b \in Axes |-> origin[b] + other.positions[v][b] * Step(level)[b]]
  BY <1>6, <1>14 DEF Decoded, DecodedAt
<1>19. DOMAIN old = Axes
  BY DEF Row, Quantized
<1> HIDE DEF old, moved, origin
<1>20. /\ \A b \in Axes : b # a => moved[v][b] = points[v][b]
       /\ moved[v][a] = origin[a] + half * step /\ points[v][a] = origin[a] + old[a] * step
       /\ DOMAIN moved[v] = Axes
  BY <1>14, <1>18, <1>19 DEF old
<1>21. half * step \in Int /\ (QuantMax - half) * step \in Int /\ half * step <= (QuantMax - half) * step
       /\ QuantMax * step \in Int /\ QuantMax * step - half * step = (QuantMax - half) * step
       /\ 2 * slack < half * step
  <2>1. 2 * slack < half * step
    BY <1>1, <1>2
  <2>2. PICK d \in Nat : QuantMax - half = half + d
    <3>1. (QuantMax - half) - half \in Nat /\ QuantMax - half = half + ((QuantMax - half) - half)
      BY <1>3
    <3> QED BY <3>1
  <2> HIDE DEF half, step, slack
  <2>3. (half + d) * step = half * step + d * step /\ d * step \in Nat /\ half * step \in Nat
    BY <1>3
  <2>4. QuantMax = (half + d) + half
    BY <1>3, <2>2
  <2>5. QuantMax * step = (half + d) * step + half * step
    BY <1>3, <2>4
  <2> QED BY <2>1, <2>2, <2>3, <2>5
<1> HIDE DEF half, step, slack
<1>22. moved[v][a] \in Int /\ points[v][a] \in Int /\ origin[a] \in Int /\ 2 * slack < Abs(moved[v][a] - points[v][a])
  <2>1. origin[a] \in Int /\ old[a] \in {0, QuantMax}
    BY <1>17 DEF Point, old
  <2>2. CASE old[a] = 0
    <3>1. points[v][a] = origin[a] /\ 0 * step = 0
      BY <1>3, <1>20, <2>1, <2>2
    <3> QED BY <1>2, <1>20, <1>21, <2>1, <3>1 DEF Abs
  <2>3. CASE old[a] = QuantMax
    <3>1. points[v][a] = origin[a] + QuantMax * step
      BY <1>20, <2>3
    <3>2. PICK x, y : x = half * step /\ y = QuantMax * step
      OBVIOUS
    <3>3. x \in Int /\ y \in Int /\ x <= y - x /\ 2 * slack < x
          /\ points[v][a] = origin[a] + y /\ moved[v][a] = origin[a] + x
      BY <1>20, <1>21, <3>1, <3>2
    <3> QED BY <1>2, <2>1, <3>3 DEF Abs
  <2> QED BY <2>1, <2>2, <2>3
<1>23. moved[v] \in Point
  <2>1. \A b \in Axes : moved[v][b] \in Int
    BY <1>15, <1>16, <1>20, <1>22 DEF Point
  <2>2. moved[v] = [b \in Axes |-> moved[v][b]]
    BY <1>18
  <2> QED BY <2>1, <2>2 DEF Point
<1>24. ASSUME NEW w \in DOMAIN moved PROVE Distance(q, moved[w]) > slack
  <2>1. CASE w # v
    <3>1. moved[w] = points[w] /\ points[w] \in Point /\ ~(Distance(points[w], q) <= slack)
      BY <1>7, <1>15, <1>16, <2>1
    <3>2. Distance(points[w], q) \in Nat /\ Distance(points[w], q) = Distance(q, points[w])
      BY <1>9, <3>1, DistanceTyped
    <3> QED BY <1>2, <3>1, <3>2
  <2>2. CASE w = v
    <3>1. Distance(points[v], q) <= slack /\ points[v] \in Point
      BY <1>7, <1>15, <1>16
    <3>2. Distance(points[v], q) \in Nat /\ Abs(points[v][a] - q[a]) <= Distance(points[v], q)
      BY <1>9, <3>1, DistanceTyped
    <3>3. q[a] \in Int
      BY <1>9 DEF Point
    <3>4. Abs(points[v][a] - q[a]) <= slack
      BY <1>2, <1>22, <3>1, <3>2, <3>3 DEF Abs
    <3>5. slack < Abs(moved[v][a] - q[a])
      BY <1>2, <1>22, <3>3, <3>4, MovedAway
    <3>6. /\ Distance(moved[v], q) \in Nat /\ Abs(moved[v][a] - q[a]) <= Distance(moved[v], q)
          /\ Distance(moved[v], q) = Distance(q, moved[v])
      BY <1>9, <1>23, DistanceTyped
    <3> QED BY <1>2, <1>22, <2>2, <3>3, <3>5, <3>6 DEF Abs
  <2> QED BY <2>1, <2>2
<1>25. \A p \in OnFaces(moved, level) : Distance(q, p) > slack
  BY <1>24 DEF OnFaces, OnPlanes
<1>26. OnCoarse(key)' = OnFaces(moved, level)
  BY <1>5 DEF OnCoarse
<1>27. q \in Unmatched(OnFine(key)', OnCoarse(key)', slack)
  BY <1>13, <1>25, <1>26 DEF Unmatched
<1> QED
  BY <1>12, <1>27 DEF NoneVanished, slack

-----------------------------------------------------------------------------
(* Every fault is found. *)

\* What is wrong after a fault of some kind is something that its tier asks for.
Marks(kind) == fault' = kind /\ \E least \in 1 .. 3 : TierOf[kind] = least /\ Seen(least)'

LEMMA StructureMarks ==
    ASSUME NEW kind \in {"mask", "cell", "level", "locator", "ordinal", "error", "part", "length"},
           fault' = kind, StructureFails'
    PROVE  Marks(kind)
<1>1. TierOf[kind] = 1
  BY DEF TierOf
<1>2. Seen(1)'
  BY DEF Seen
<1> QED
  BY <1>1, <1>2 DEF Marks

LEMMA BlobsMark ==
    ASSUME NEW kind \in {"place", "object", "count", "index", "offset", "stranger"},
           fault' = kind, BlobsFail'
    PROVE  Marks(kind)
<1>1. TierOf[kind] = 2
  BY DEF TierOf
<1>2. Seen(2)'
  BY DEF Seen
<1> QED
  BY <1>1, <1>2 DEF Marks

LEMMA CellFaultMarks ==
    ASSUME Fresh, Filed, NEW key \in Cells, TamperCell(key)
    PROVE  \E kind \in DOMAIN TierOf : Marks(kind)
<1> DEFINE Goal == \E kind \in DOMAIN TierOf : Marks(kind)
<1>0. DOMAIN TierOf = {"mask", "cell", "level", "locator", "ordinal", "error", "part", "length", "place",
                       "object", "count", "index", "offset", "stranger", "drift"}
  BY DEF TierOf
<1>1. \A kind, other : Tamper(kind, other) => fault' = kind
  BY DEF Tamper
<1>2. ASSUME NEW octant \in Octants,
             Tamper("mask", [collection EXCEPT !.cells[key].childMask = Toggled(@, octant)])
      PROVE  Goal
  <2>1. fault' = "mask" /\ StructureFails'
    BY <1>1, <1>2, MaskIsSeen
  <2> QED BY <1>0, <2>1, StructureMarks
<1>3. ASSUME Tamper("cell", [collection EXCEPT !.cells = Restrict(@, Cells \ {key})]) PROVE Goal
  <2>1. fault' = "cell" /\ StructureFails'
    BY <1>1, <1>3, LostCellIsSeen
  <2> QED BY <1>0, <2>1, StructureMarks
<1>4. ASSUME Tamper("locator", [collection EXCEPT !.cells[key].locator = NoLocator]) PROVE Goal
  <2>1. fault' = "locator" /\ StructureFails'
    BY <1>1, <1>4, NoLocatorIsSeen
  <2> QED BY <1>0, <2>1, StructureMarks
<1>5. ASSUME NEW other \in Cells,
             LET locator == collection.cells[other].locator
                 own     == collection.cells[key].locator
             IN  <<locator.part, locator.rowGroup>> # <<own.part, own.rowGroup>>,
             Tamper("place", [collection EXCEPT !.cells[key].locator = collection.cells[other].locator])
      PROVE  Goal
  <2>1. fault' = "place" /\ BlobsFail'
    BY <1>1, <1>5, SwappedPlaceIsSeen
  <2> QED BY <1>0, <2>1, BlobsMark
<1>6. ASSUME Tamper("place", [collection EXCEPT !.cells[key].locator.rowGroup = @ + 1]) PROVE Goal
  <2>1. fault' = "place" /\ BlobsFail'
    BY <1>1, <1>6, NextPlaceIsSeen
  <2> QED BY <1>0, <2>1, BlobsMark
<1>7. ASSUME NEW above \in {k \in Cells : key \in Claims(k)},
             Tamper("error", [collection EXCEPT !.cells[key].lodError = collection.cells[above].lodError + 1])
      PROVE  Goal
  <2>1. fault' = "error" /\ StructureFails'
    BY <1>1, <1>7, ErrorIsSeen
  <2> QED BY <1>0, <2>1, StructureMarks
<1>8. ASSUME Tamper("count", [collection EXCEPT !.cells[key].vertexCount = @ + 1]) PROVE Goal
  <2>1. fault' = "count" /\ BlobsFail'
    BY <1>1, <1>8, CountIsSeen
  <2> QED BY <1>0, <2>1, BlobsMark
<1> HIDE DEF Goal
<1>9. Goal
  BY <1>2, <1>3, <1>4, <1>5, <1>6, <1>7, <1>8 DEF TamperCell
<1> QED
  BY <1>9 DEF Goal

LEMMA ObjectFaultMarks ==
    ASSUME Fresh, Filed, NEW id \in DOMAIN collection.objects, TamperObject(id)
    PROVE  \E kind \in DOMAIN TierOf : Marks(kind)
<1>0. "ordinal" \in DOMAIN TierOf /\ "object" \in DOMAIN TierOf
  BY DEF TierOf
<1>1. \A kind, other : Tamper(kind, other) => fault' = kind
  BY DEF Tamper
<1>2. CASE Tamper("ordinal", [collection EXCEPT !.objects[id].ordinal = @ + 1])
  <2>1. fault' = "ordinal" /\ StructureFails'
    BY <1>1, <1>2, OrdinalIsSeen
  <2> QED BY <1>0, <2>1, StructureMarks
<1>3. ASSUME NEW key \in collection.objects[id].cells,
             Tamper("object", [collection EXCEPT !.objects[id].cells = @ \ {key}])
      PROVE  \E kind \in DOMAIN TierOf : Marks(kind)
  <2>1. fault' = "object" /\ BlobsFail'
    BY <1>1, <1>3, UnnamedCellIsSeen
  <2> QED BY <1>0, <2>1, BlobsMark
<1> QED
  BY <1>2, <1>3 DEF TamperObject

LEMMA PartFaultMarks ==
    ASSUME Fresh, NEW seat \in DOMAIN collection.parts, TamperPart(seat)
    PROVE  \E kind \in DOMAIN TierOf : Marks(kind)
<1>0. "part" \in DOMAIN TierOf /\ "length" \in DOMAIN TierOf
  BY DEF TierOf
<1>1. \A kind, other : Tamper(kind, other) => fault' = kind
  BY DEF Tamper
<1>2. CASE Tamper("part", [collection EXCEPT !.parts = Restrict(@, DOMAIN @ \ {seat})])
  <2>1. fault' = "part" /\ StructureFails'
    BY <1>1, <1>2, LostPartIsSeen
  <2> QED BY <1>0, <2>1, StructureMarks
<1>3. CASE Tamper("length", [collection EXCEPT !.files[seat[1]][seat[2] + 1].size = @ + 1])
  <2>1. fault' = "length" /\ StructureFails'
    BY <1>1, <1>3, LengthIsSeen
  <2> QED BY <1>0, <2>1, StructureMarks
<1> QED
  BY <1>2, <1>3 DEF TamperPart

\* A wrong row, of the ways a row goes wrong.
RowKinds(kind, row, other, key) ==
    \/ kind = "index" /\ \E f \in DOMAIN row.indices : other = [row EXCEPT !.indices[f][3] = Len(row.positions) + 1]
    \/ kind = "offset" /\ other = [row EXCEPT !.indexOffsets[1] = 3]
    \/ kind = "offset" /\ other = [row EXCEPT !.indexOffsets[Len(row.ids)] = 3 * Len(row.indices) + 3]
    \/ kind = "stranger" /\ \E id \in Strangers(key) : other = [row EXCEPT !.ids[1] = id]
    \/ /\ kind = "drift"
       /\ \E v \in DOMAIN row.positions : \E a \in Axes :
             /\ row.level > 0
             /\ row.positions[v][a] \in {0, QuantMax}
             /\ 4 * Quantum(row.level) < (QuantMax \div 2) * Step(row.level)[a]
             /\ OnlyMatch(<<row.level, row.cell>>, v)
             /\ other = [row EXCEPT !.positions[v][a] = QuantMax \div 2]

LEMMA RowFaultIsOne ==
    ASSUME NEW seat, NEW g, NEW r, TamperRow(seat, g, r), NEW row, row = collection.parts[seat].groups[g][r]
    PROVE  \E kind, other : /\ RowKinds(kind, row, other, <<row.level, row.cell>>)
                            /\ Tamper(kind, [collection EXCEPT !.parts[seat].groups[g][r] = other])
BY ZenonT(60) DEF TamperRow, RowKinds

LEMMA RowFaultMarks ==
    ASSUME Fresh, Filed, NEW seat \in DOMAIN collection.parts, NEW g \in DOMAIN collection.parts[seat].groups,
           NEW r \in DOMAIN collection.parts[seat].groups[g], TamperRow(seat, g, r)
    PROVE  \E kind \in DOMAIN TierOf : Marks(kind)
<1>0. {"index", "offset", "stranger", "drift"} \subseteq DOMAIN TierOf /\ TierOf["drift"] = 3
  BY DEF TierOf
<1>1. PICK row : row = collection.parts[seat].groups[g][r]
  OBVIOUS
<1>2. PICK key : key = CellOfRow(seat, g, r)
  OBVIOUS
<1>3. /\ <<seat[1], row.cell>> \in CellKeys /\ row = Row(seat[1], row.cell)
  <2>1. HasRow(seat, g, r)
    BY DEF HasRow
  <2>2. PICK cell : cell = row.cell /\ cell = collection.parts[seat].groups[g][r].cell
    BY <1>1
  <2>3. Seats(seat, g, r, cell)
    BY <2>1, <2>2, RowIsSeated
  <2> QED BY <1>1, <2>2, <2>3 DEF Seats
<1>4. key \in Cells /\ key[1] = seat[1] /\ key[2] = row.cell /\ row = Row(key[1], key[2])
  BY <1>1, <1>2, <1>3, FreshHas DEF CellOfRow
<1>5. DOMAIN row = RowColumns /\ row.level = key[1] /\ row.cell = key[2] /\ <<row.level, row.cell>> = key
  BY <1>1, <1>2, <1>4, RowHas DEF CellOfRow
<1>6. PICK kind, other : /\ RowKinds(kind, row, other, <<row.level, row.cell>>)
                         /\ Tamper(kind, [collection EXCEPT !.parts[seat].groups[g][r] = other])
  BY <1>1, RowFaultIsOne
<1>7. other.cell = row.cell
  BY <1>5, <1>6 DEF RowKinds, RowColumns
<1>8. RowBecomes(kind, seat, g, r, other) /\ fault' = kind
  BY <1>1, <1>6, <1>7 DEF RowBecomes, Tamper
<1>9. ReadsAs(key, other) /\ collection'.objects = collection.objects
  BY <1>2, <1>8, OtherRowIsRead, RowIsReplaced
<1>10. CASE kind = "index" /\ \E f \in DOMAIN row.indices :
                other = [row EXCEPT !.indices[f][3] = Len(row.positions) + 1]
  <2>1. BlobsFail'
    BY <1>4, <1>9, <1>10, IndexIsSeen
  <2> QED BY <1>0, <1>8, <1>10, <2>1, BlobsMark
<1>11. CASE kind = "offset" /\ other = [row EXCEPT !.indexOffsets[1] = 3]
  <2>1. BlobsFail'
    BY <1>4, <1>9, <1>11, FirstOffsetIsSeen
  <2> QED BY <1>0, <1>8, <1>11, <2>1, BlobsMark
<1>12. CASE kind = "offset" /\ other = [row EXCEPT !.indexOffsets[Len(row.ids)] = 3 * Len(row.indices) + 3]
  <2>1. BlobsFail'
    BY <1>4, <1>9, <1>12, LastOffsetIsSeen
  <2> QED BY <1>0, <1>8, <1>12, <2>1, BlobsMark
<1>13. CASE kind = "stranger" /\ \E id \in Strangers(key) : other = [row EXCEPT !.ids[1] = id]
  <2>1. BlobsFail'
    BY <1>4, <1>9, <1>13, StrangerIsSeen
  <2> QED BY <1>0, <1>8, <1>13, <2>1, BlobsMark
<1>14. ASSUME kind = "drift", NEW v \in DOMAIN row.positions, NEW a \in Axes, row.level > 0,
              row.positions[v][a] \in {0, QuantMax},
              4 * Quantum(row.level) < (QuantMax \div 2) * Step(row.level)[a],
              OnlyMatch(<<row.level, row.cell>>, v),
              other = [row EXCEPT !.positions[v][a] = QuantMax \div 2]
       PROVE  \E k \in DOMAIN TierOf : Marks(k)
  <2>1. RowBecomes("drift", seat, g, r, [row EXCEPT !.positions[v][a] = QuantMax \div 2])
    BY <1>8, <1>14
  <2>2. ~NoneVanished'
    BY <1>2, <1>4, <1>14, <2>1, DriftIsSeen
  <2>3. Seen(3)'
    BY <2>2 DEF Seen
  <2>4. fault' = "drift"
    BY <1>8, <1>14
  <2> QED BY <1>0, <2>3, <2>4 DEF Marks
<1> QED
  <2>1. RowKinds(kind, row, other, key)
    BY <1>5, <1>6
  <2> QED BY <1>10, <1>11, <1>12, <1>13, <1>14, <2>1 DEF RowKinds

LEMMA TamperingMarks ==
    ASSUME Fresh, Filed, Tampering
    PROVE  \E kind \in DOMAIN TierOf : Marks(kind)
<1> DEFINE Goal == \E kind \in DOMAIN TierOf : Marks(kind)
<1>1. CASE \E key \in Cells : TamperCell(key)
  BY <1>1, CellFaultMarks
<1>2. CASE LoseLevel
  <2>1. StructureFails' /\ fault' = "level"
    BY <1>2, LostLevelIsSeen DEF LoseLevel, Tamper
  <2>2. "level" \in DOMAIN TierOf
    BY DEF TierOf
  <2> QED BY <2>1, <2>2, StructureMarks
<1>3. CASE \E id \in DOMAIN collection.objects : TamperObject(id)
  BY <1>3, ObjectFaultMarks
<1>4. CASE \E key \in DOMAIN collection.parts : TamperPart(key)
  BY <1>4, PartFaultMarks
<1>5. ASSUME NEW key \in DOMAIN collection.parts, NEW g \in DOMAIN collection.parts[key].groups,
             NEW r \in DOMAIN collection.parts[key].groups[g], TamperRow(key, g, r)
      PROVE  Goal
  BY <1>5, RowFaultMarks
<1> HIDE DEF Goal
<1>6. TamperAny
  BY DEF Tampering
<1>7. Goal
  BY <1>1, <1>2, <1>3, <1>4, <1>5, <1>6 DEF TamperAny, Goal
<1> QED
  BY <1>7 DEF Goal

\* What is wrong stays for the verifier to see, from the tier on that is to see it.
Marred ==
    fault # "none" =>
        phase = "written" /\ fault \in DOMAIN TierOf /\ \E least \in 1 .. 3 : TierOf[fault] = least /\ Seen(least)

\* And a report is of a collection that was written.
Reported ==
    Verified =>
        /\ phase = "written" /\ report.tier \in 1 .. 3
        /\ fault # "none" => report.tier < TierOf[fault] \/ report.failures # {}

\* The steps after the write: none of them changes a collection that was tampered with, and a
\* report is made of it as it is.
LEMMA ReportedStep ==
    WrittenInv /\ Filed /\ Marred /\ Reported /\ [VerifyNext]_verifyVars => Marred' /\ Reported'
<1> SUFFICES ASSUME WrittenInv, Filed, Marred, Reported, [VerifyNext]_verifyVars
             PROVE  Marred' /\ Reported'
  OBVIOUS
<1>1. ASSUME UNCHANGED <<phase, collection, fault>> PROVE Marred'
  <2>1. \A least : Seen(least)' <=> Seen(least)
    BY <1>1, SeenStays
  <2> QED BY <1>1, <2>1 DEF Marred
<1>2. ASSUME UNCHANGED <<phase, fault, report>> PROVE Reported'
  BY <1>2 DEF Reported, Verified
<1>3. CASE \E tier \in DOMAIN Tiers : Verification(tier)
  <2>1. PICK tier \in DOMAIN Tiers : Verification(tier)
    BY <1>3
  <2>2. /\ phase = "written" /\ UNCHANGED <<phase, collection, fault>>
        /\ report'.tier = tier /\ report'.failures = Failures(tier)
    BY <2>1 DEF Verification, buildVars
  <2>3. tier \in 1 .. 3
    BY DEF Tiers
  <2>4. ASSUME fault # "none", ~(tier < TierOf[fault]) PROVE Failures(tier) # {}
    <3>1. PICK least \in 1 .. 3 : TierOf[fault] = least /\ Seen(least)
      BY <2>4 DEF Marred
    <3>2. least <= tier
      BY <2>3, <2>4, <3>1
    <3> QED BY <2>3, <3>1, <3>2, SeenIsReported
  <2> QED BY <1>1, <2>2, <2>3, <2>4 DEF Reported
<1>4. CASE Tampering
  <2>1. /\ phase = "written" /\ phase' = phase /\ fault = "none" /\ ~Verified'
    BY <1>4 DEF Tampering, Verified
  <2>2. \E kind \in DOMAIN TierOf : Marks(kind)
    BY <1>4, <2>1, TamperingMarks DEF Fresh
  <2>3. PICK kind \in DOMAIN TierOf : fault' = kind /\ \E least \in 1 .. 3 : TierOf[kind] = least /\ Seen(least)'
    BY <2>2 DEF Marks
  <2>4. TierOf' = TierOf
    BY DEF TierOf
  <2>5. Marred'
    BY <2>1, <2>3, <2>4 DEF Marred
  <2> QED BY <2>1, <2>5 DEF Reported
<1>5. CASE UNCHANGED verifyVars
  BY <1>1, <1>2, <1>5 DEF verifyVars, buildVars
<1>6. CASE BuildStep /\ UNCHANGED <<fault, report>>
  <2>1. CASE phase = "written"
    <3>1. Covered /\ Answers
      BY DEF WrittenInv, BuildInv, SeamsInv
    <3>2. todo = {}
      BY <2>1, <3>1 DEF Covered
    <3>3. UNCHANGED buildVars
      BY <1>6, <2>1, <3>1, <3>2
         DEF BuildStep, Cut, EndLevels, AssembleCell, RefuseCell, FinishCatalogs, Write
    <3> QED BY <1>1, <1>2, <1>6, <3>3 DEF buildVars
  <2>2. CASE phase # "written"
    <3>1. fault' = "none" /\ ~Verified'
      BY <1>6, <2>2 DEF Marred, Reported, Verified
    <3> QED BY <3>1 DEF Marred, Reported
  <2> QED BY <2>1, <2>2
<1> QED
  BY <1>3, <1>4, <1>5, <1>6 DEF VerifyNext

\* For every collection, lattice and budget: whatever goes wrong with what was written, in any of
\* the ways Tampering lists, the tier that is to find it, and each one above, reports a failure.
THEOREM WhatIsWrongIsFound == VerifySpec => []VerifierRejects
<1>1. VerifyInit => Marred /\ Reported
  BY DEF VerifyInit, Marred, Reported, Verified
<1>2. WrittenInv /\ Filed /\ Marred /\ Reported /\ [VerifyNext]_verifyVars => Marred' /\ Reported'
  BY ReportedStep
<1>3. Reported => VerifierRejects
  BY DEF Reported, VerifierRejects
<1> QED
  BY <1>1, <1>2, <1>3, FiledHolds, PTL DEF VerifySpec
=============================================================================
