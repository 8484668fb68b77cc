--------------------------- MODULE ChunkLoop_proofs ---------------------------
(***************************************************************************)
(* Proofs about frames.plan_byte_chunks, for every list of sizes and every *)
(* budget, negative ones included.                                         *)
(***************************************************************************)
EXTENDS ChunkPlan, CommonLemmas

USE DEF Size

LEMMA InitTyped == Init => TypeOK
<1> SUFFICES ASSUME Init PROVE TypeOK
  OBVIOUS
<1>1. sizes \in Seq(Nat) /\ budget \in Int /\ Len(sizes) \in Nat
  BY InputsAssumption, BudgetsAssumption DEF Init
<1>2. offset \in [0 .. row -> Nat]
  BY DEF Init
<1>3. /\ row = 0 /\ start = 0 /\ running = 0 /\ returned = FALSE
      /\ chunks \in Seq(Run)
  BY DEF Init, Run
<1>4. returned \in BOOLEAN
  BY <1>3
<1>5. row \in 0 .. Len(sizes) /\ start \in 0 .. row /\ running \in Nat
  BY <1>1, <1>3
<1> QED
  BY <1>1, <1>2, <1>3, <1>4, <1>5 DEF TypeOK

LEMMA StepTyped == TypeOK /\ [Next]_vars => TypeOK'
<1> SUFFICES ASSUME TypeOK, [Next]_vars PROVE TypeOK'
  OBVIOUS
<1> USE DEF TypeOK, Run
<1>1. CASE ReturnEmpty
  BY <1>1 DEF ReturnEmpty
<1>2. ASSUME row < Len(sizes), Pass
      PROVE  /\ sizes[row + 1] \in Nat
             /\ row' \in 0 .. Len(sizes)
             /\ offset' \in [0 .. row' -> Nat]
  BY <1>2 DEF Pass
<1>3. CASE Extend
  BY <1>2, <1>3, SMTT(30) DEF Extend, Pass
<1>4. CASE Cut
  <2>1. <<start, row - start>> \in Nat \X Nat
    OBVIOUS
  <2> QED
    BY <1>2, <1>4, <2>1, SMTT(30) DEF Cut, Pass
<1>5. CASE Finish
  <2>1. <<start, Len(sizes) - start>> \in Nat \X Nat
    OBVIOUS
  <2> QED
    BY <1>5, <2>1 DEF Finish
<1>6. CASE UNCHANGED vars
  BY <1>6 DEF vars
<1> QED
  BY <1>1, <1>3, <1>4, <1>5, <1>6 DEF Next

\* The counters of the loop never leave the rows there are, and the open run never starts
\* after the row being looked at (frames.plan_byte_chunks).
THEOREM LoopTyped == Spec => []TypeOK
  BY InitTyped, StepTyped, PTL DEF Spec

-----------------------------------------------------------------------------
\* Runs that follow one another from row 0, none of them empty.
Chained(runs) ==
    \A i \in 1 .. Len(runs) :
        /\ runs[i][1] = IF i = 1 THEN 0 ELSE EndOf(runs[i - 1])
        /\ runs[i][2] # 0

EndOfAll(runs) == IF Len(runs) = 0 THEN 0 ELSE EndOf(runs[Len(runs)])

\* Closing the open run in front of row n.
LEMMA CloseRun ==
    ASSUME NEW runs \in Seq(Run), Chained(runs), EndOfAll(runs) \in Nat,
           NEW n \in Nat, n > EndOfAll(runs),
           NEW after, after = Append(runs, <<EndOfAll(runs), n - EndOfAll(runs)>>)
    PROVE  /\ Chained(after)
           /\ Len(after) # 0
           /\ EndOfAll(after) = n
           /\ EndOf(after[Len(after)]) = n
<1> DEFINE last == <<EndOfAll(runs), n - EndOfAll(runs)>>
<1>1. /\ Len(runs) \in Nat
      /\ Len(after) = Len(runs) + 1
      /\ after[Len(runs) + 1] = last
      /\ \A i \in 1 .. Len(runs) : after[i] = runs[i]
  <2>1. last \in Run
    BY DEF Run
  <2> HIDE DEF last
  <2> QED
    BY <2>1 DEF last
<1>2. last[1] = EndOfAll(runs) /\ last[2] # 0 /\ EndOf(last) = n
  BY DEF EndOf
<1> HIDE DEF last
<1>3. ASSUME NEW i \in 1 .. Len(after)
      PROVE  /\ after[i][1] = IF i = 1 THEN 0 ELSE EndOf(after[i - 1])
             /\ after[i][2] # 0
  <2>1. CASE i \in 1 .. Len(runs)
    <3>1. i # 1 => i - 1 \in 1 .. Len(runs)
      BY <1>1, <2>1
    <3> QED
      BY <1>1, <2>1, <3>1 DEF Chained
  <2>2. CASE i = Len(runs) + 1
    <3>1. i # 1 => i - 1 \in 1 .. Len(runs) /\ i - 1 = Len(runs) /\ Len(runs) # 0
      BY <1>1, <2>2
    <3>2. i = 1 => Len(runs) = 0
      BY <1>1, <2>2
    <3> QED
      BY <1>1, <1>2, <2>2, <3>1, <3>2 DEF EndOfAll
  <2> QED
    BY <1>1, <2>1, <2>2
<1>4. Chained(after)
  BY <1>3 DEF Chained
<1>5. Len(after) # 0 /\ after[Len(after)] = last
  BY <1>1
<1> QED
  BY <1>2, <1>4, <1>5 DEF EndOfAll

\* The open run starts where the closed ones end, and in front of the row whenever a row has
\* been passed over.
Contiguous ==
    /\ Chained(chunks) \/ (returned /\ Len(sizes) = 0 /\ chunks = <<<<0, 0>>>>)
    /\ ~returned => start = EndOfAll(chunks)
    /\ IF row = 0 THEN running = 0 ELSE start < row
    /\ returned => Len(chunks) > 0 /\ EndOf(chunks[Len(chunks)]) = Len(sizes) /\ row = Len(sizes)

LEMMA InitContiguous == Init => Contiguous
  BY DEF Init, Contiguous, Chained, EndOfAll

LEMMA StepContiguous == TypeOK /\ Contiguous /\ [Next]_vars => Contiguous'
<1> SUFFICES ASSUME TypeOK, Contiguous, [Next]_vars PROVE Contiguous'
  OBVIOUS
<1>t. /\ row \in Nat /\ start \in Nat /\ running \in Nat /\ Len(sizes) \in Nat
      /\ row <= Len(sizes) /\ start <= row /\ chunks \in Seq(Run) /\ returned \in BOOLEAN
  BY DEF TypeOK
<1>r. row < Len(sizes) => ~returned
  BY <1>t DEF Contiguous
<1>1. CASE ReturnEmpty
  <2>1. chunks' = <<<<0, 0>>>> /\ Len(sizes') = 0 /\ returned' = TRUE /\ row' = row /\ running' = running
        /\ row = 0 /\ running = 0
    BY <1>1, <1>t DEF ReturnEmpty, Contiguous
  <2>2. Len(chunks') = 1 /\ EndOf(chunks'[1]) = 0
    BY <2>1 DEF EndOf
  <2> QED
    BY <2>1, <2>2 DEF Contiguous
<1>2. CASE Extend
  BY <1>2, <1>t, <1>r DEF Extend, Pass, Contiguous
<1>3. CASE Cut
  <2>1. row > start /\ ~returned /\ start = EndOfAll(chunks) /\ Chained(chunks)
    BY <1>3, <1>t, <1>r DEF Cut, NoRoom, Contiguous
  <2>2. chunks' = Append(chunks, <<start, row - start>>) /\ start' = row /\ row' = row + 1
        /\ returned' = returned /\ sizes' = sizes
    BY <1>3 DEF Cut, Pass
  <2>3. chunks' = Append(chunks, <<EndOfAll(chunks), row - EndOfAll(chunks)>>) /\ row > EndOfAll(chunks)
        /\ EndOfAll(chunks) \in Nat
    BY <1>t, <2>1, <2>2
  <2>4. Chained(chunks') /\ EndOfAll(chunks') = row
    BY <1>t, <2>1, <2>3, CloseRun
  <2>5. row' # 0 /\ start' < row'
    BY <1>t, <2>2
  <2>6. Chained(chunks)' /\ start' = EndOfAll(chunks)' /\ ~returned'
    BY <2>1, <2>2, <2>4 DEF Chained, EndOfAll
  <2> QED
    BY <2>5, <2>6 DEF Contiguous
<1>4. CASE Finish
  <2>1. Len(sizes) > start /\ ~returned /\ start = EndOfAll(chunks) /\ Chained(chunks)
    BY <1>4, <1>t DEF Finish, Contiguous
  <2>2. chunks' = Append(chunks, <<start, Len(sizes) - start>>) /\ returned' /\ sizes' = sizes
        /\ row' = row /\ row = Len(sizes) /\ start' = start /\ running' = running
    BY <1>4 DEF Finish
  <2>3. chunks' = Append(chunks, <<EndOfAll(chunks), Len(sizes) - EndOfAll(chunks)>>)
        /\ Len(sizes) > EndOfAll(chunks) /\ EndOfAll(chunks) \in Nat
    BY <1>t, <2>1, <2>2
  <2>4. Chained(chunks') /\ Len(chunks') # 0 /\ EndOf(chunks'[Len(chunks')]) = Len(sizes)
    <3>1. PICK n \in Nat : n = Len(sizes)
      BY <1>t
    <3>2. chunks' = Append(chunks, <<EndOfAll(chunks), n - EndOfAll(chunks)>>) /\ n > EndOfAll(chunks)
      BY <2>3, <3>1
    <3>3. Chained(chunks') /\ Len(chunks') # 0 /\ EndOf(chunks'[Len(chunks')]) = n
      BY <1>t, <2>1, <2>3, <3>2, CloseRun
    <3> QED
      BY <3>1, <3>3
  <2>5. Len(chunks') \in Nat
    BY <1>t, <2>2
  <2>6. Chained(chunks)' /\ Len(chunks') > 0 /\ EndOf(chunks'[Len(chunks')]) = Len(sizes')
    BY <2>2, <2>4, <2>5 DEF Chained
  <2>7. IF row' = 0 THEN running' = 0 ELSE start' < row'
    BY <2>2 DEF Contiguous
  <2> QED
    BY <2>2, <2>6, <2>7 DEF Contiguous
<1>5. CASE UNCHANGED vars
  BY <1>5 DEF vars, Contiguous, Chained, EndOfAll
<1> QED
  BY <1>1, <1>2, <1>3, <1>4, <1>5 DEF Next

\* Every row is in exactly one run, whatever the sizes and the budget (frames.plan_byte_chunks,
\* on which the writer's parts, their row groups and the locators of cells all rest).
THEOREM RowsArePartitioned == Spec => []RunsPartitionRows
<1>1. Contiguous => RunsPartitionRows
  BY DEF Contiguous, Chained, RunsPartitionRows
<1> QED
  BY <1>1, InitTyped, StepTyped, InitContiguous, StepContiguous, PTL DEF Spec

-----------------------------------------------------------------------------
(* What the runs weigh.  The history offset says it of any run; the loop   *)
(* itself only keeps the bytes of the open one.                            *)

OneHeavyRow(from, to) ==
    \A j, k \in from .. to - 1 : Size(j) > 0 /\ Size(k) > 0 => j = k

OpenRun ==
    /\ running = offset[row] - offset[start]
    /\ running = 0 => \A j \in start .. row - 1 : Size(j) = 0
    /\ running > budget => OneHeavyRow(start, row)

\* A closed run that is over budget has one heavy row.
Settled(run) ==
    /\ EndOf(run) <= row
    /\ Bytes(run) > budget => OneHeavyRow(run[1], EndOf(run))

\* A run closed in front of a row it has no room for.
Full(run) ==
    /\ EndOf(run) < row
    /\ Bytes(run) > 0
    /\ Bytes(run) + Size(EndOf(run)) > budget

Weighed ==
    /\ OpenRun
    /\ \A i \in 1 .. Len(chunks) :
          /\ Settled(chunks[i])
          /\ ~returned \/ i < Len(chunks) => Full(chunks[i])

LEMMA InitWeighed == Init => Weighed
<1> SUFFICES ASSUME Init PROVE Weighed
  OBVIOUS
<1>1. row = 0 /\ start = 0 /\ running = 0 /\ offset[0] = 0 /\ Len(chunks) = 0
  BY DEF Init
<1>2. \A j : j \notin start .. row - 1
  BY <1>1
<1> QED
  BY <1>1, <1>2 DEF Weighed, OpenRun, OneHeavyRow

\* Passing over a row says nothing new of the runs in front of it.
LEMMA PassKeeps ==
    ASSUME TypeOK, Pass, row < Len(sizes), NEW run \in Run
    PROVE  /\ Settled(run) => Settled(run)'
           /\ Full(run) => Full(run)'
           /\ EndOf(run) <= row => Bytes(run)' = Bytes(run)
<1>t. row \in Nat /\ run[1] \in Nat /\ EndOf(run) \in Nat /\ run[1] <= EndOf(run)
  BY DEF TypeOK, Run, EndOf
<1>1. ASSUME EndOf(run) <= row PROVE Bytes(run)' = Bytes(run)
  <2>1. /\ offset' = [i \in 0 .. row + 1 |-> IF i <= row THEN offset[i] ELSE offset[row] + Size(row)]
    BY DEF Pass
  <2>2. \A i \in 0 .. row : offset'[i] = offset[i]
    BY <1>t, <2>1
  <2>3. EndOf(run) \in 0 .. row /\ run[1] \in 0 .. row
    BY <1>t, <1>1
  <2> QED
    BY <2>2, <2>3 DEF Bytes, EndOf
<1>2. sizes' = sizes /\ budget' = budget /\ row' = row + 1
  BY DEF Pass
<1>3. (EndOf(run) <= row => EndOf(run)' <= row') /\ (EndOf(run) < row => EndOf(run)' < row')
  BY <1>t, <1>2 DEF EndOf
<1>4. EndOf(run) < row => EndOf(run) <= row
  BY <1>t
<1> QED
  BY <1>1, <1>2, <1>3, <1>4 DEF Settled, Full, OneHeavyRow, EndOf

LEMMA CloseKeeps ==
    ASSUME NEW runs \in Seq(Run), NEW last \in Run, NEW after, after = Append(runs, last)
    PROVE  /\ Len(runs) \in Nat
           /\ Len(after) = Len(runs) + 1
           /\ after[Len(after)] = last
           /\ \A i \in 1 .. Len(after) :
                 \/ i \in 1 .. Len(runs) /\ after[i] = runs[i]
                 \/ i = Len(after) /\ after[i] = last
  OBVIOUS

LEMMA StepWeighed == TypeOK /\ Contiguous /\ Weighed /\ [Next]_vars => Weighed'
<1> SUFFICES ASSUME TypeOK, Contiguous, Weighed, [Next]_vars PROVE Weighed'
  OBVIOUS
<1>t. /\ row \in Nat /\ start \in Nat /\ running \in Nat /\ budget \in Int /\ Len(sizes) \in Nat
      /\ row <= Len(sizes) /\ start <= row /\ chunks \in Seq(Run) /\ Len(chunks) \in Nat
      /\ \A i \in 1 .. Len(chunks) : chunks[i] \in Run
  BY DEF TypeOK
<1>o. \A i \in 0 .. row : offset[i] \in Nat
  BY DEF TypeOK
<1>r. row < Len(sizes) => ~returned /\ Size(row) \in Nat
  BY <1>t DEF Contiguous, TypeOK
<1>1. CASE ReturnEmpty
  <2>1. chunks' = <<<<0, 0>>>> /\ row' = row /\ start' = start /\ running' = running /\ offset' = offset
        /\ sizes' = sizes /\ budget' = budget /\ returned' = TRUE /\ row = 0 /\ start = 0
    BY <1>1, <1>t DEF ReturnEmpty
  <2>2. OpenRun'
    BY <2>1 DEF Weighed, OpenRun, OneHeavyRow
  <2>3. Settled(<<0, 0>>)'
    BY <2>1, <1>t DEF Settled, OneHeavyRow, EndOf
  <2>4. Len(chunks') = 1 /\ chunks'[1] = <<0, 0>>
    BY <2>1
  <2> QED
    BY <2>1, <2>2, <2>3, <2>4 DEF Weighed
<1>p. ASSUME Pass, row < Len(sizes)
      PROVE  /\ sizes' = sizes /\ budget' = budget /\ row' = row + 1 /\ ~returned /\ ~returned'
             /\ offset'[row'] = offset[row] + Size(row)
             /\ \A i \in 0 .. row : offset'[i] = offset[i]
  <2>1. /\ sizes' = sizes /\ budget' = budget /\ row' = row + 1 /\ ~returned /\ ~returned'
        /\ offset' = [i \in 0 .. row + 1 |-> IF i <= row THEN offset[i] ELSE offset[row] + Size(row)]
    BY <1>p, <1>r DEF Pass
  <2>2. offset'[row'] = offset[row] + Size(row) /\ \A i \in 0 .. row : offset'[i] = offset[i]
    BY <1>t, <2>1
  <2> QED
    BY <2>1, <2>2
<1>q. ASSUME Pass, row < Len(sizes)
      PROVE  \A run \in Run : /\ Settled(run) => Settled(run)'
                              /\ Full(run) => Full(run)'
                              /\ EndOf(run) <= row => Bytes(run)' = Bytes(run)
  BY <1>q, PassKeeps
<1>2. CASE Extend
  <2>1. row < Len(sizes) /\ Pass /\ ~NoRoom /\ running' = running + Size(row)
        /\ start' = start /\ chunks' = chunks
    BY <1>2 DEF Extend
  <2>2. \A i \in 1 .. Len(chunks) : Settled(chunks[i]) /\ Full(chunks[i]) /\ chunks[i] \in Run
    BY <1>t, <1>r, <2>1 DEF Weighed
  <2>3. \A i \in 1 .. Len(chunks') : Settled(chunks[i])' /\ Full(chunks[i])'
    <3> SUFFICES ASSUME NEW i \in 1 .. Len(chunks') PROVE Settled(chunks[i])' /\ Full(chunks[i])'
      OBVIOUS
    <3>1. PICK run \in Run : run = chunks[i] /\ Settled(run) /\ Full(run)
      BY <2>1, <2>2
    <3>2. Settled(run)' /\ Full(run)' /\ run = chunks'[i]
      BY <1>q, <2>1, <3>1
    <3> QED
      BY <3>2 DEF Settled, Full, Bytes, EndOf, OneHeavyRow
  <2>4. running' = offset'[row'] - offset'[start']
    <3>1. offset'[start'] = offset[start] /\ offset'[row'] = offset[row] + Size(row)
          /\ offset[start] \in Nat /\ offset[row] \in Nat
      BY <1>p, <1>t, <1>o, <2>1
    <3> QED
      BY <1>t, <1>r, <2>1, <3>1 DEF Weighed, OpenRun
  <2>5. \A j \in start' .. row' - 1 : j \in start .. row - 1 \/ j = row
    BY <1>p, <1>t, <2>1
  <2>6. \A j \in start .. row - 1 : Size(j) \in Nat
    BY <1>t DEF TypeOK
  <2>7. running' = 0 => \A j \in start' .. row' - 1 : Size(j)' = 0
    <3>1. running' = 0 => running = 0 /\ Size(row) = 0
      BY <1>t, <1>r, <2>1
    <3> QED
      BY <1>p, <2>1, <2>5, <3>1 DEF Weighed, OpenRun
  <2>8. running' > budget' => OneHeavyRow(start, row)'
    <3>1. running' > budget' => running = 0
      BY <1>t, <1>r, <1>p, <2>1 DEF NoRoom
    <3>2. running = 0 => \A j \in start .. row - 1 : ~(Size(j) > 0)
      BY <2>6 DEF Weighed, OpenRun
    <3> QED
      BY <1>p, <2>1, <2>5, <3>1, <3>2 DEF OneHeavyRow
  <2> QED
    BY <2>3, <2>4, <2>7, <2>8 DEF Weighed, OpenRun
<1>3. CASE Cut
  <2>1. PICK last \in Run : last = <<start, row - start>>
    <3>1. <<start, row - start>> \in Run
      BY <1>t DEF Run
    <3> QED
      BY <3>1
  <2>2. row < Len(sizes) /\ Pass /\ NoRoom /\ running' = Size(row)
        /\ start' = row /\ chunks' = Append(chunks, last)
    BY <1>3, <2>1 DEF Cut
  <2>3. last[1] = start /\ EndOf(last) = row /\ Bytes(last) = running
    BY <1>t, <2>1 DEF EndOf, Bytes, Weighed, OpenRun
  <2>4. Settled(last)'
    <3>1. Settled(last)
      BY <1>t, <2>3 DEF Settled, Weighed, OpenRun
    <3> QED
      BY <1>q, <2>2, <3>1
  <2>5. Full(last)'
    <3>1. Bytes(last)' = running /\ EndOf(last)' = row
      BY <1>p, <1>q, <1>t, <2>2, <2>3 DEF EndOf
    <3>2. row < row' /\ running > 0 /\ running + Size(row) > budget
      BY <1>p, <1>t, <2>2 DEF NoRoom
    <3> QED
      BY <1>p, <2>2, <3>1, <3>2 DEF Full
  <2>6. \A i \in 1 .. Len(chunks') :
           \/ i \in 1 .. Len(chunks) /\ chunks'[i] = chunks[i]
           \/ chunks'[i] = last
    BY <1>t, <2>2, CloseKeeps
  <2>7. ASSUME NEW i \in 1 .. Len(chunks') PROVE Settled(chunks[i])' /\ Full(chunks[i])'
    <3>1. CASE chunks'[i] = last
      BY <2>4, <2>5, <3>1 DEF Settled, Full, Bytes, EndOf, OneHeavyRow
    <3>2. CASE i \in 1 .. Len(chunks) /\ chunks'[i] = chunks[i]
      <4>1. PICK run \in Run : run = chunks[i] /\ Settled(run) /\ Full(run)
        BY <1>t, <1>r, <2>2, <3>2 DEF Weighed
      <4>2. Settled(run)' /\ Full(run)' /\ run = chunks'[i]
        BY <1>q, <2>2, <3>2, <4>1
      <4> QED
        BY <4>2 DEF Settled, Full, Bytes, EndOf, OneHeavyRow
    <3> QED
      BY <2>6, <3>1, <3>2
  <2>8. OpenRun'
    <3>1. offset'[row'] = offset[row] + Size(row) /\ offset'[start'] = offset[row] /\ offset[row] \in Nat
      BY <1>p, <1>t, <1>o, <2>2
    <3>2. running' = offset'[row'] - offset'[start']
      BY <1>r, <2>2, <3>1
    <3>3. \A j \in start' .. row' - 1 : j = row
      BY <1>p, <1>t, <2>2
    <3>4. running' = 0 => \A j \in start' .. row' - 1 : Size(j)' = 0
      BY <1>p, <2>2, <3>3
    <3> QED
      BY <3>2, <3>3, <3>4 DEF OpenRun, OneHeavyRow
  <2> QED
    BY <2>7, <2>8 DEF Weighed
<1>4. CASE Finish
  <2>1. PICK last \in Run : last = <<start, row - start>>
    <3>1. <<start, row - start>> \in Run
      BY <1>t DEF Run
    <3> QED
      BY <3>1
  <2>2. chunks' = Append(chunks, last) /\ returned' /\ ~returned /\ row = Len(sizes)
        /\ UNCHANGED <<sizes, budget, row, start, running, offset>>
    BY <1>4, <2>1 DEF Finish
  <2>3. last[1] = start /\ EndOf(last) = row /\ Bytes(last) = running
    BY <1>t, <2>1 DEF EndOf, Bytes, Weighed, OpenRun
  <2>4. Settled(last)
    BY <1>t, <2>3 DEF Settled, Weighed, OpenRun
  <2>5. Len(chunks') = Len(chunks) + 1 /\ \A i \in 1 .. Len(chunks') :
           \/ i \in 1 .. Len(chunks) /\ chunks'[i] = chunks[i]
           \/ i = Len(chunks') /\ chunks'[i] = last
    BY <1>t, <2>2, CloseKeeps
  <2>6. ASSUME NEW i \in 1 .. Len(chunks')
        PROVE  Settled(chunks[i])' /\ (i < Len(chunks') => Full(chunks[i])')
    <3>1. CASE i = Len(chunks') /\ chunks'[i] = last
      BY <1>t, <2>2, <2>4, <2>5, <3>1 DEF Settled, Bytes, EndOf, OneHeavyRow
    <3>2. CASE i \in 1 .. Len(chunks) /\ chunks'[i] = chunks[i]
      BY <2>2, <3>2 DEF Weighed, Settled, Full, Bytes, EndOf, OneHeavyRow
    <3> QED
      BY <2>5, <3>1, <3>2
  <2>7. OpenRun'
    BY <2>2 DEF Weighed, OpenRun, OneHeavyRow
  <2> QED
    BY <2>2, <2>6, <2>7 DEF Weighed
<1>5. CASE UNCHANGED vars
  BY <1>5 DEF vars, Weighed, OpenRun, Settled, Full, Bytes, EndOf, OneHeavyRow
<1> QED
  BY <1>1, <1>2, <1>3, <1>4, <1>5 DEF Next

LEMMA RunsWeighed == Spec => [](TypeOK /\ Contiguous /\ Weighed)
  BY InitTyped, StepTyped, InitContiguous, StepContiguous, InitWeighed, StepWeighed, PTL DEF Spec

\* "A single row larger than the budget still goes in a run of its own": what a run over
\* budget carries besides is rows of no bytes (frames.plan_byte_chunks).
THEOREM OverBudgetRunsHoldOneHeavyRow == Spec => []OverBudgetIsOneRow
<1>1. Weighed => OverBudgetIsOneRow
  BY DEF Weighed, Settled, OneHeavyRow, OverBudgetIsOneRow
<1> QED
  BY <1>1, RunsWeighed, PTL

\* The greedy cut never closes a run that had room for the row after it, so nobody pays for
\* a part or a row group that need not be (frames.plan_byte_chunks).
THEOREM CutsAreNeeded == Spec => []NoNeedlessCut
<1>1. TypeOK /\ Weighed => NoNeedlessCut
  BY DEF TypeOK, Weighed, Full, NoNeedlessCut
<1> QED
  BY <1>1, RunsWeighed, PTL
-----------------------------------------------------------------------------
(* The operator: what PlanByteChunks has scanned after each row.           *)

Scans == {acc \in [row : Nat, start : Nat, running : Nat, chunks : Seq(Run)] : acc.start <= acc.row}

FirstScan == [row |-> 0, start |-> 0, running |-> 0, chunks |-> <<>>]

\* scan[k] is what the fold has after k rows.
IsScan(scan, list, b) ==
    /\ scan \in [0 .. Len(list) -> Scans]
    /\ scan[0] = FirstScan
    /\ \A k \in 1 .. Len(list) : scan[k] = ScanRow(scan[k - 1], list[k], b)
    /\ PlanByteChunks(list, b) =
          Append(scan[Len(list)].chunks, <<scan[Len(list)].start, Len(list) - scan[Len(list)].start>>)

LEMMA FirstTyped == FirstScan \in Scans
  BY DEF FirstScan, Scans

LEMMA ScanRowTyped ==
    ASSUME NEW acc \in Scans, NEW size \in Nat, NEW b \in Int
    PROVE  ScanRow(acc, size, b) \in Scans
<1>1. CASE Closes(acc.running, size, b)
  <2>1. <<acc.start, acc.row - acc.start>> \in Run
    BY DEF Scans, Run
  <2>2. Append(acc.chunks, <<acc.start, acc.row - acc.start>>) \in Seq(Run)
    BY <2>1 DEF Scans
  <2>3. ScanRow(acc, size, b) = [row |-> acc.row + 1, start |-> acc.row, running |-> size,
                                 chunks |-> Append(acc.chunks, <<acc.start, acc.row - acc.start>>)]
    BY <1>1 DEF ScanRow
  <2> QED BY <2>2, <2>3 DEF Scans
<1>2. CASE ~Closes(acc.running, size, b)
  <2>1. ScanRow(acc, size, b) = [row |-> acc.row + 1, start |-> acc.start,
                                 running |-> acc.running + size, chunks |-> acc.chunks]
    BY <1>2 DEF ScanRow, Scans
  <2> QED BY <2>1 DEF Scans
<1> QED BY <1>1, <1>2

LEMMA ScanStep ==
    ASSUME NEW list \in Seq(Nat), NEW b, NEW scan, IsScan(scan, list, b),
           NEW m \in Nat, m + 1 <= Len(list)
    PROVE  /\ scan[m] \in Scans
           /\ list[m + 1] \in Nat
           /\ scan[m + 1] = ScanRow(scan[m], list[m + 1], b)
<1>1. Len(list) \in Nat /\ list \in [1 .. Len(list) -> Nat]
  OBVIOUS
<1>2. m + 1 \in 1 .. Len(list) /\ (m + 1) - 1 = m /\ m \in 0 .. Len(list)
  BY <1>1
<1>3. scan \in [0 .. Len(list) -> Scans] /\ \A k \in 1 .. Len(list) : scan[k] = ScanRow(scan[k - 1], list[k], b)
  BY DEF IsScan
<1>4. scan[m] \in Scans /\ list[m + 1] \in Nat
  BY <1>1, <1>2, <1>3
<1>5. scan[m + 1] = ScanRow(scan[(m + 1) - 1], list[m + 1], b)
  BY <1>2, <1>3
<1> QED
  BY <1>2, <1>4, <1>5

LEMMA ScanExists ==
    ASSUME NEW list \in Seq(Nat), NEW b \in Int
    PROVE  \E scan : IsScan(scan, list, b)
<1> DEFINE n == Len(list)
           step == [p \in Scans \X (1 .. n) |-> ScanRow(p[1], list[p[2]], b)]
           Folded(g) == g = [T \in SUBSET DOMAIN list |->
                                IF T = {} THEN FirstScan ELSE ScanRow(g[T \ {Max(T)}], list[Max(T)], b)]
           fold == CHOOSE g : Folded(g)
<1>1. n \in Nat /\ DOMAIN list = 1 .. n
  OBVIOUS
<1>2. PICK h \in [SUBSET (1 .. n) -> Scans] : LeftFolds(h, n, FirstScan, step)
  <2>2. step \in Steps(Scans, 1 .. n)
    <3>1. \A p \in Scans \X (1 .. n) : ScanRow(p[1], list[p[2]], b) \in Scans
      BY <1>1, ScanRowTyped
    <3> QED BY <3>1 DEF Steps
  <2> HIDE DEF step, n
  <2> QED BY <1>1, <2>2, FirstTyped, LeftFoldExists
<1>3. ASSUME NEW T \in SUBSET (1 .. n), T # {}
      PROVE  h[T] = ScanRow(h[T \ {Max(T)}], list[Max(T)], b)
  <2>1. Max(T) \in 1 .. n /\ h[T \ {Max(T)}] \in Scans
    BY <1>1, <1>3, LargestPosition
  <2> QED BY <1>2, <1>3, <2>1 DEF LeftFolds, Folds, LeftPick
<1>4. Folded(h)
  <2>1. h[{}] = FirstScan
    BY <1>2 DEF LeftFolds, Folds
  <2> QED BY <1>1, <1>3, <2>1
<1>5. Folded(fold)
  <2> HIDE DEF Folded
  <2> QED BY <1>4
<1>6. ASSUME NEW k \in 1 .. n PROVE fold[1 .. k] = ScanRow(fold[1 .. (k - 1)], list[k], b)
  <2>1. Max(1 .. k) = k /\ (1 .. k) \ {k} = 1 .. (k - 1)
    BY LargestOfPrefix
  <2>2. 1 .. k \in SUBSET (1 .. n) /\ k \in 1 .. k
    BY <1>1
  <2> HIDE DEF fold
  <2> QED BY <1>1, <1>5, <2>1, <2>2
<1>7. fold[1 .. 0] = FirstScan
  <2> HIDE DEF fold
  <2> QED BY <1>1, <1>5
<1> HIDE DEF fold
<1>8. ASSUME NEW k \in 0 .. n PROVE fold[1 .. k] \in Scans
  <2> DEFINE P == {m \in Nat : m <= n => fold[1 .. m] \in Scans}
  <2>1. 0 \in P
    BY <1>7, FirstTyped
  <2>2. ASSUME NEW m \in Nat, m \in P PROVE m + 1 \in P
    <3> SUFFICES ASSUME m + 1 <= n PROVE fold[1 .. (m + 1)] \in Scans
      OBVIOUS
    <3>1. m + 1 \in 1 .. n /\ (m + 1) - 1 = m /\ list[m + 1] \in Nat
      BY <1>1
    <3>2. fold[1 .. m] \in Scans
      BY <1>1, <2>2, <3>1
    <3>3. fold[1 .. (m + 1)] = ScanRow(fold[1 .. m], list[m + 1], b)
      BY <1>6, <3>1
    <3> QED BY <3>1, <3>2, <3>3, ScanRowTyped
  <2>3. Nat \subseteq P
    <3> HIDE DEF P
    <3> QED BY <2>1, <2>2, NatSetInduction
  <2> QED BY <1>1, <2>3
<1> DEFINE scan == [k \in 0 .. n |-> fold[1 .. k]]
<1>9. PlanByteChunks(list, b) = Append(scan[n].chunks, <<scan[n].start, n - scan[n].start>>)
  <2>1. FoldLeft(LAMBDA acc, size : ScanRow(acc, size, b),
                 [row |-> 0, start |-> 0, running |-> 0, chunks |-> <<>>], list) = fold[DOMAIN list]
    BY DEF FoldLeft, MapThenFoldSet, FirstScan, fold
  <2>2. fold[DOMAIN list] = scan[n]
    BY <1>1
  <2> HIDE DEF scan
  <2> QED BY <2>1, <2>2 DEF PlanByteChunks
<1>10. /\ scan \in [0 .. n -> Scans] /\ scan[0] = FirstScan
       /\ \A k \in 1 .. n : scan[k] = ScanRow(scan[k - 1], list[k], b)
  BY <1>1, <1>6, <1>7, <1>8
<1> HIDE DEF scan
<1> QED
  BY <1>9, <1>10 DEF IsScan

LEMMA AppendedRun ==
    ASSUME NEW runs \in Seq(Run), NEW last \in Run
    PROVE  Append(runs, last) \in Seq(Run) /\ Len(Append(runs, last)) = Len(runs) + 1
  OBVIOUS

\* What has been scanned is runs without gaps up to the open one, as in the loop.
ScanContiguous(acc, k) ==
    /\ acc.row = k
    /\ Chained(acc.chunks)
    /\ acc.start = EndOfAll(acc.chunks)
    /\ IF acc.row = 0 THEN acc.running = 0 ELSE acc.start < acc.row

LEMMA ScanIsContiguous ==
    ASSUME NEW list \in Seq(Nat), NEW b \in Int, NEW scan, IsScan(scan, list, b),
           NEW k \in 0 .. Len(list)
    PROVE  ScanContiguous(scan[k], k)
<1> DEFINE P == {m \in Nat : m <= Len(list) => ScanContiguous(scan[m], m)}
<1>1. 0 \in P
  BY DEF IsScan, FirstScan, ScanContiguous, Chained, EndOfAll
<1>2. ASSUME NEW m \in Nat, m \in P PROVE m + 1 \in P
  <2> SUFFICES ASSUME m + 1 <= Len(list) PROVE ScanContiguous(scan[m + 1], m + 1)
    OBVIOUS
  <2> DEFINE acc == scan[m]
             size == list[m + 1]
  <2>1. /\ acc \in Scans /\ size \in Nat /\ ScanContiguous(acc, m)
        /\ scan[m + 1] = ScanRow(acc, size, b)
    <3>1. m <= Len(list)
      OBVIOUS
    <3> QED BY <1>2, <3>1, ScanStep
  <2> HIDE DEF acc, size
  <2>2. CASE Closes(acc.running, size, b)
    <3>1. scan[m + 1] = [row |-> acc.row + 1, start |-> acc.row, running |-> size,
                         chunks |-> Append(acc.chunks, <<acc.start, acc.row - acc.start>>)]
      BY <2>1, <2>2 DEF ScanRow
    <3>2. m # 0 /\ acc.start < acc.row /\ acc.row = m
      BY <2>1, <2>2 DEF ScanContiguous, Closes
    <3>3. PICK after : after = Append(acc.chunks, <<acc.start, acc.row - acc.start>>)
      OBVIOUS
    <3>4. /\ acc.chunks \in Seq(Run) /\ Chained(acc.chunks) /\ acc.start = EndOfAll(acc.chunks)
          /\ acc.start \in Nat /\ acc.row \in Nat
      BY <2>1 DEF ScanContiguous, Scans
    <3>5. Chained(after) /\ EndOfAll(after) = m
      <4>1. /\ acc.chunks \in Seq(Run) /\ Chained(acc.chunks)
            /\ EndOfAll(acc.chunks) \in Nat /\ m > EndOfAll(acc.chunks)
            /\ after = Append(acc.chunks, <<EndOfAll(acc.chunks), m - EndOfAll(acc.chunks)>>)
        BY <3>2, <3>3, <3>4
      <4> QED BY <4>1, CloseRun, Zenon
    <3> QED BY <2>1, <3>1, <3>2, <3>3, <3>5 DEF ScanContiguous
  <2>3. CASE ~Closes(acc.running, size, b)
    <3>1. scan[m + 1] = [row |-> acc.row + 1, start |-> acc.start,
                         running |-> acc.running + size, chunks |-> acc.chunks]
      BY <2>1, <2>3 DEF ScanRow, Scans
    <3>2. acc.start <= acc.row /\ acc.row = m /\ acc.row \in Nat /\ acc.start \in Nat
      BY <2>1 DEF Scans, ScanContiguous
    <3> QED BY <2>1, <3>1, <3>2 DEF ScanContiguous
  <2> QED BY <2>2, <2>3
<1>3. Nat \subseteq P
  <2> HIDE DEF P
  <2> QED BY <1>1, <1>2, NatSetInduction
<1> QED
  BY <1>3

\* The runs PlanByteChunks cuts a list of rows into: one after the other to the last row.
LEMMA PlanIsChained ==
    ASSUME NEW list \in Seq(Nat), NEW b \in Int
    PROVE  /\ PlanByteChunks(list, b) \in Seq(Run)
           /\ Len(list) = 0 => PlanByteChunks(list, b) = <<<<0, 0>>>>
           /\ Len(list) # 0 => /\ Chained(PlanByteChunks(list, b))
                               /\ EndOfAll(PlanByteChunks(list, b)) = Len(list)
<1> DEFINE n == Len(list)
<1>1. PICK scan : IsScan(scan, list, b)
  BY ScanExists
<1> DEFINE acc == scan[n]
<1>2. /\ n \in Nat /\ acc \in Scans /\ ScanContiguous(acc, n)
      /\ PlanByteChunks(list, b) = Append(acc.chunks, <<acc.start, n - acc.start>>)
      /\ n = 0 => acc = FirstScan
  <2>1. n \in Nat /\ n \in 0 .. n
    OBVIOUS
  <2>2. ScanContiguous(acc, n)
    BY <1>1, <2>1, ScanIsContiguous
  <2> QED BY <1>1, <2>1, <2>2 DEF IsScan
<1> HIDE DEF acc, n
<1>3. <<acc.start, n - acc.start>> \in Run /\ acc.chunks \in Seq(Run)
  BY <1>2 DEF Scans, ScanContiguous, Run
<1>4. PlanByteChunks(list, b) \in Seq(Run)
  BY <1>2, <1>3, AppendedRun
<1>5. n = 0 => PlanByteChunks(list, b) = <<<<0, 0>>>>
  <2> SUFFICES ASSUME n = 0 PROVE Append(acc.chunks, <<acc.start, n - acc.start>>) = <<<<0, 0>>>>
    BY <1>2
  <2>1. acc.chunks = <<>> /\ acc.start = 0
    BY <1>2 DEF FirstScan
  <2> QED BY <2>1
<1>6. n # 0 => Chained(PlanByteChunks(list, b)) /\ EndOfAll(PlanByteChunks(list, b)) = n
  <2> SUFFICES ASSUME n # 0
               PROVE  Chained(PlanByteChunks(list, b)) /\ EndOfAll(PlanByteChunks(list, b)) = n
    OBVIOUS
  <2>1. EndOfAll(acc.chunks) = acc.start /\ acc.start \in Nat /\ n > acc.start /\ Chained(acc.chunks)
    BY <1>2 DEF ScanContiguous, Scans
  <2>2. PICK after : after = Append(acc.chunks, <<acc.start, n - acc.start>>)
    OBVIOUS
  <2>3. Chained(after) /\ EndOfAll(after) = n
    BY <1>2, <1>3, <2>1, <2>2, CloseRun
  <2> QED BY <1>2, <2>2, <2>3
<1> QED
  BY <1>4, <1>5, <1>6 DEF n

-----------------------------------------------------------------------------
\* The loop has scanned what the fold has.
Follows ==
    \A scan : IsScan(scan, sizes, budget) =>
        IF returned THEN chunks = PlanByteChunks(sizes, budget)
        ELSE scan[row] = [row |-> row, start |-> start, running |-> running, chunks |-> chunks]

LEMMA InitFollows == Init => Follows
  BY DEF Init, Follows, IsScan, FirstScan

LEMMA StepFollows == TypeOK /\ Contiguous /\ Follows /\ [Next]_vars => Follows'
<1> SUFFICES ASSUME TypeOK, Contiguous, Follows, [Next]_vars,
                    NEW scan, IsScan(scan, sizes, budget), UNCHANGED <<sizes, budget>>
             PROVE  IF returned' THEN chunks' = PlanByteChunks(sizes, budget)
                    ELSE scan[row'] = [row |-> row', start |-> start', running |-> running',
                                       chunks |-> chunks']
  BY DEF Next, vars, ReturnEmpty, Extend, Cut, Finish, Pass, Follows
<1> DEFINE now == [row |-> row, start |-> start, running |-> running, chunks |-> chunks]
<1>t. /\ row \in 0 .. Len(sizes) /\ Len(sizes) \in Nat /\ returned \in BOOLEAN
      /\ row < Len(sizes) => ~returned
  BY DEF TypeOK, Contiguous
<1>1. ~returned => scan[row] = now
  BY DEF Follows
<1>2. ASSUME row < Len(sizes)
      PROVE  scan[row + 1] = ScanRow(now, Size(row), budget) /\ (Closes(running, Size(row), budget) <=> NoRoom)
  <2>1. row + 1 \in 1 .. Len(sizes) /\ (row + 1) - 1 = row
    BY <1>2, <1>t
  <2> QED BY <1>1, <1>2, <1>t, <2>1 DEF IsScan, Closes, NoRoom
<1>3. CASE ReturnEmpty
  <2>1. PlanByteChunks(sizes, budget) = <<<<0, 0>>>>
    BY <1>3, PlanIsChained DEF ReturnEmpty, TypeOK
  <2> QED BY <1>3, <2>1 DEF ReturnEmpty
<1>4. CASE Extend
  <2>1. row < Len(sizes) /\ ~NoRoom /\ ~returned'
    BY <1>4, <1>t DEF Extend, Pass
  <2>2. ScanRow(now, Size(row), budget) = [row |-> row + 1, start |-> start,
                                           running |-> running + Size(row), chunks |-> chunks]
    BY <1>2, <2>1 DEF ScanRow
  <2> QED BY <1>2, <1>4, <2>1, <2>2 DEF Extend, Pass
<1>5. CASE Cut
  <2>1. row < Len(sizes) /\ NoRoom /\ ~returned'
    BY <1>5, <1>t DEF Cut, Pass
  <2>2. ScanRow(now, Size(row), budget) = [row |-> row + 1, start |-> row, running |-> Size(row),
                                           chunks |-> Append(chunks, <<start, row - start>>)]
    BY <1>2, <2>1 DEF ScanRow
  <2> QED BY <1>2, <1>5, <2>1, <2>2 DEF Cut, Pass
<1>6. CASE Finish
  <2>1. scan[Len(sizes)] = now
    BY <1>1, <1>6 DEF Finish
  <2> QED BY <1>6, <2>1 DEF Finish, IsScan
<1>7. CASE UNCHANGED vars
  BY <1>1, <1>7 DEF vars, Follows
<1> QED
  BY <1>3, <1>4, <1>5, <1>6, <1>7 DEF Next

\* The operator that stands for the chunking in the models of the writer is the loop, whatever
\* it is given (frames.plan_byte_chunks).
THEOREM LoopComputesThePlan == Spec => []LoopIsPlan
<1>1. TypeOK /\ Follows => LoopIsPlan
  BY ScanExists DEF TypeOK, Follows, LoopIsPlan
<1> QED
  BY <1>1, InitTyped, StepTyped, InitContiguous, StepContiguous, InitFollows, StepFollows, PTL DEF Spec

-----------------------------------------------------------------------------
(* What the writer makes of the runs.                                      *)

\* Every row in front of the end of the last run is in a run.
LEMMA RowHasRun ==
    ASSUME NEW runs \in Seq(Run), Chained(runs), NEW r \in Nat \ {0}, r <= EndOfAll(runs)
    PROVE  \E g \in DOMAIN runs : runs[g][1] < r /\ r <= EndOf(runs[g])
<1> DEFINE Held(n) == \E g \in 1 .. n : runs[g][1] < r /\ r <= EndOf(runs[g])
           P == {n \in Nat : n \in 1 .. Len(runs) /\ r <= EndOf(runs[n]) => Held(n)}
<1>1. 0 \in P
  OBVIOUS
<1>2. ASSUME NEW n \in Nat, n \in P PROVE n + 1 \in P
  <2> SUFFICES ASSUME n + 1 \in 1 .. Len(runs), r <= EndOf(runs[n + 1]) PROVE Held(n + 1)
    OBVIOUS
  <2>1. CASE runs[n + 1][1] < r
    BY <2>1
  <2>2. CASE ~(runs[n + 1][1] < r)
    <3>1. runs[n + 1][1] \in Nat
      BY DEF Run
    <3>2. n # 0 /\ runs[n + 1][1] = EndOf(runs[n])
      BY <2>2, <3>1 DEF Chained
    <3>3. n \in 1 .. Len(runs)
      BY <3>2
    <3>4. Held(n)
      BY <1>2, <2>2, <3>1, <3>2, <3>3
    <3> QED BY <3>4
  <2> QED BY <2>1, <2>2
<1>3. Nat \subseteq P
  <2> HIDE DEF P
  <2> QED BY <1>1, <1>2, NatSetInduction
<1>4. Len(runs) \in 1 .. Len(runs) /\ r <= EndOf(runs[Len(runs)])
  BY DEF EndOfAll
<1> QED
  BY <1>3, <1>4

\* No run ends behind the last one.
LEMMA RunsEndInOrder ==
    ASSUME NEW runs \in Seq(Run), Chained(runs), NEW g \in DOMAIN runs
    PROVE  EndOf(runs[g]) <= EndOfAll(runs)
<1> DEFINE P == {n \in Nat : n \in g .. Len(runs) => EndOf(runs[g]) <= EndOf(runs[n])}
<1>0. g \in Nat \ {0} /\ g <= Len(runs) /\ EndOf(runs[g]) \in Nat
  BY DEF Run, EndOf
<1>1. 0 \in P
  BY <1>0
<1>2. ASSUME NEW n \in Nat, n \in P PROVE n + 1 \in P
  <2> SUFFICES ASSUME n + 1 \in g .. Len(runs) PROVE EndOf(runs[g]) <= EndOf(runs[n + 1])
    OBVIOUS
  <2>1. CASE n + 1 = g
    BY <1>0, <2>1
  <2>2. CASE n + 1 # g
    <3>1. n \in g .. Len(runs) /\ n + 1 \in 1 .. Len(runs) /\ n + 1 # 1
      BY <1>0, <2>2
    <3>2. runs[n + 1][1] = EndOf(runs[n])
      BY <3>1 DEF Chained
    <3>3. runs[n + 1][1] \in Nat /\ runs[n + 1][2] \in Nat
      <4>1. runs[n + 1] \in Run
        BY <3>1
      <4> QED BY <4>1 DEF Run
    <3> QED BY <1>0, <1>2, <3>1, <3>2, <3>3 DEF EndOf
  <2> QED BY <2>1, <2>2
<1>3. Nat \subseteq P
  <2> HIDE DEF P
  <2> QED BY <1>1, <1>2, NatSetInduction
<1> QED
  BY <1>0, <1>3 DEF EndOfAll

\* A run ends before the next begins, and before all that come after it.
LEMMA RunsBeginInOrder ==
    ASSUME NEW runs \in Seq(Run), Chained(runs), NEW g \in DOMAIN runs, NEW h \in DOMAIN runs, g < h
    PROVE  EndOf(runs[g]) <= runs[h][1]
<1> DEFINE P == {n \in Nat : n \in g + 1 .. Len(runs) => EndOf(runs[g]) <= runs[n][1]}
<1>0. g \in Nat \ {0} /\ g <= Len(runs) /\ EndOf(runs[g]) \in Nat
  BY DEF Run, EndOf
<1>1. 0 \in P
  BY <1>0
<1>2. ASSUME NEW n \in Nat, n \in P PROVE n + 1 \in P
  <2> SUFFICES ASSUME n + 1 \in g + 1 .. Len(runs) PROVE EndOf(runs[g]) <= runs[n + 1][1]
    OBVIOUS
  <2>1. n \in g .. Len(runs) /\ n + 1 \in 1 .. Len(runs) /\ n + 1 # 1 /\ n \in 1 .. Len(runs)
    BY <1>0
  <2>2. runs[n + 1][1] = EndOf(runs[n])
    BY <2>1 DEF Chained
  <2>3. runs[n][1] \in Nat /\ runs[n][2] \in Nat
    <3>1. runs[n] \in Run
      BY <2>1
    <3> QED BY <3>1 DEF Run
  <2>4. CASE n = g
    BY <1>0, <2>2, <2>4
  <2>5. CASE n # g
    BY <1>0, <1>2, <2>1, <2>2, <2>3, <2>5 DEF EndOf
  <2> QED BY <2>4, <2>5
<1>3. Nat \subseteq P
  <2> HIDE DEF P
  <2> QED BY <1>1, <1>2, NatSetInduction
<1> QED
  BY <1>0, <1>3

Rows == [cell : Nat, bytes : Nat]

LEMMA SizesOfRows ==
    ASSUME NEW rows \in Seq(Rows)
    PROVE  BlobSizes(rows) \in Seq(Nat) /\ Len(BlobSizes(rows)) = Len(rows)
<1>1. PICK n \in Nat : Len(rows) = n /\ DOMAIN rows = 1 .. n /\ \A i \in 1 .. n : rows[i] \in Rows
  OBVIOUS
<1>2. \A i \in 1 .. n : rows[i].bytes \in Nat
  BY <1>1 DEF Rows
<1>3. BlobSizes(rows) = [i \in 1 .. n |-> rows[i].bytes]
  BY <1>1 DEF BlobSizes
<1>4. BlobSizes(rows) \in [1 .. n -> Nat]
  BY <1>2, <1>3
<1> QED
  BY <1>1, <1>4

\* The runs of a list of sizes hold each place in it, and no others.
LEMMA RunsHoldPlaces ==
    ASSUME NEW list \in Seq(Nat), NEW b \in Int, NEW runs, runs = PlanByteChunks(list, b)
    PROVE  /\ runs \in Seq(Run) /\ runs # <<>>
           /\ \A j \in 1 .. Len(list) :
                 \E g \in DOMAIN runs : j \in runs[g][1] + 1 .. runs[g][1] + runs[g][2]
           /\ \A g \in DOMAIN runs : runs[g][1] + runs[g][2] <= Len(list)
<1>1. CASE Len(list) = 0
  <2>1. runs = <<<<0, 0>>>> /\ runs \in Seq(Run)
    BY <1>1, PlanIsChained
  <2>2. DOMAIN runs = {1} /\ runs[1][1] = 0 /\ runs[1][2] = 0
    BY <2>1
  <2>3. runs # <<>>
    BY <2>1
  <2> QED BY <1>1, <2>1, <2>2, <2>3
<1>2. CASE Len(list) # 0
  <2>1. runs \in Seq(Run) /\ Chained(runs) /\ EndOfAll(runs) = Len(list) /\ Len(list) \in Nat
    BY <1>2, PlanIsChained
  <2>2. ASSUME NEW j \in 1 .. Len(list)
        PROVE  \E g \in DOMAIN runs : j \in runs[g][1] + 1 .. runs[g][1] + runs[g][2]
    <3>1. j \in Nat \ {0} /\ j <= EndOfAll(runs)
      BY <2>1
    <3>2. PICK g \in DOMAIN runs : runs[g][1] < j /\ j <= EndOf(runs[g])
      BY <2>1, <3>1, RowHasRun
    <3>3. runs[g][1] \in Nat /\ runs[g][2] \in Nat
      BY <2>1 DEF Run
    <3> QED BY <3>2, <3>3 DEF EndOf
  <2>3. \A g \in DOMAIN runs : EndOf(runs[g]) <= Len(list)
    BY <2>1, RunsEndInOrder
  <2>4. runs # <<>>
    <3>1. Len(list) \in 1 .. Len(list)
      BY <1>2, <2>1
    <3> QED BY <2>2, <3>1
  <2> QED BY <2>1, <2>2, <2>3, <2>4 DEF EndOf
<1> QED
  BY <1>1, <1>2

\* No place is in two of them.
LEMMA RunsShareNoPlace ==
    ASSUME NEW list \in Seq(Nat), NEW b \in Int, NEW runs, runs = PlanByteChunks(list, b),
           NEW g \in DOMAIN runs, NEW h \in DOMAIN runs, NEW j \in Int,
           j \in runs[g][1] + 1 .. runs[g][1] + runs[g][2], j \in runs[h][1] + 1 .. runs[h][1] + runs[h][2]
    PROVE  g = h
<1>1. CASE Len(list) = 0
  <2>1. runs = <<<<0, 0>>>>
    BY <1>1, PlanIsChained
  <2> QED BY <2>1
<1>2. CASE Len(list) # 0
  <2>1. runs \in Seq(Run) /\ Chained(runs)
    BY <1>2, PlanIsChained
  <2>2. runs[g] \in Run /\ runs[h] \in Run /\ g \in Int /\ h \in Int
    BY <2>1
  <2>3. ASSUME g < h PROVE FALSE
    BY <2>1, <2>2, <2>3, RunsBeginInOrder, SMTT(30) DEF EndOf, Run
  <2>4. ASSUME h < g PROVE FALSE
    BY <2>1, <2>2, <2>4, RunsBeginInOrder DEF EndOf, Run
  <2> QED BY <2>2, <2>3, <2>4
<1> QED
  BY <1>1, <1>2

\* The runs of a list of rows hold each row, and no more than the rows.
LEMMA PlanHoldsRows ==
    ASSUME NEW rows \in Seq(Rows), NEW b \in Int, NEW j \in DOMAIN rows,
           NEW runs, runs = PlanByteChunks(BlobSizes(rows), b)
    PROVE  /\ runs \in Seq(Run)
           /\ \E g \in DOMAIN runs : j \in runs[g][1] + 1 .. runs[g][1] + runs[g][2]
           /\ \A g \in DOMAIN runs : runs[g][1] + runs[g][2] <= Len(rows)
<1>1. BlobSizes(rows) \in Seq(Nat) /\ Len(BlobSizes(rows)) = Len(rows) /\ j \in 1 .. Len(rows)
  BY SizesOfRows
<1> QED
  BY <1>1, RunsHoldPlaces

\* A run's slice holds its rows.
LEMMA SliceHolds ==
    ASSUME NEW rows \in Seq(Rows), NEW run \in Run, run[1] + run[2] <= Len(rows),
           NEW j \in run[1] + 1 .. run[1] + run[2]
    PROVE  /\ Slice(rows, run) \in Seq(Rows)
           /\ DOMAIN Slice(rows, run) = 1 .. run[2]
           /\ \A i \in 1 .. run[2] : Slice(rows, run)[i] = rows[run[1] + i]
           /\ j - run[1] \in 1 .. run[2]
           /\ Slice(rows, run)[j - run[1]] = rows[j]
<1>1. run[1] \in Nat /\ run[2] \in Nat /\ Len(rows) \in Nat
  BY DEF Run
<1>2. Slice(rows, run) = SubSeq(rows, run[1] + 1, run[1] + run[2])
  BY DEF Slice
<1>3. Slice(rows, run) \in Seq(Rows) /\ Len(Slice(rows, run)) = run[2]
  BY <1>1, <1>2
<1>4. ASSUME NEW i \in 1 .. run[2] PROVE Slice(rows, run)[i] = rows[run[1] + i]
  BY <1>1, <1>2
<1> QED
  BY <1>1, <1>3, <1>4

\* What a locator is for: the part's number, and the row group that holds the row.
Finds(part, number, b, cell, bytes) ==
    LET located == Locate(part, number, b)
        groups  == RowGroups(part, b)
    IN  /\ cell \in DOMAIN located
        /\ located[cell][1] = number
        /\ located[cell][3] = bytes
        /\ located[cell][2] + 1 \in DOMAIN groups
        /\ \E r \in DOMAIN groups[located[cell][2] + 1] :
               groups[located[cell][2] + 1][r].cell = cell

\* A part that holds every cell once: each of its rows is found.
LEMMA LocateFinds ==
    ASSUME NEW part \in Seq(Rows), \A i, j \in DOMAIN part : part[i].cell = part[j].cell => i = j,
           NEW j \in DOMAIN part, NEW number, NEW b \in Int
    PROVE  Finds(part, number, b, part[j].cell, part[j].bytes)
<1> DEFINE runs == PlanByteChunks(BlobSizes(part), b)
           cell == part[j].cell
           group(row_) == CHOOSE g \in DOMAIN runs : row_ \in runs[g][1] + 1 .. runs[g][1] + runs[g][2]
           row_of(c) == CHOOSE i \in DOMAIN part : /\ part[i].cell = c
                                                  /\ \A k \in DOMAIN part : part[k].cell = c => k <= i
<1>1. /\ runs \in Seq(Run)
      /\ \E g \in DOMAIN runs : j \in runs[g][1] + 1 .. runs[g][1] + runs[g][2]
      /\ \A g \in DOMAIN runs : runs[g][1] + runs[g][2] <= Len(part)
  <2> HIDE DEF runs
  <2> QED BY PlanHoldsRows DEF runs
<1>2. row_of(cell) = j
  <2>1. \A k \in DOMAIN part : part[k].cell = cell => k = j
    OBVIOUS
  <2>2. j \in Nat /\ j <= j
    OBVIOUS
  <2> QED BY <2>1, <2>2
<1>3. Locate(part, number, b) = [c \in {part[i].cell : i \in DOMAIN part} |->
                                    <<number, group(row_of(c)) - 1, part[row_of(c)].bytes>>]
  BY DEF Locate
<1> HIDE DEF runs
<1>4. /\ group(j) \in DOMAIN runs
      /\ j \in runs[group(j)][1] + 1 .. runs[group(j)][1] + runs[group(j)][2]
  BY <1>1
<1> HIDE DEF group, row_of
<1>5. cell \in DOMAIN Locate(part, number, b) /\
      Locate(part, number, b)[cell] = <<number, group(j) - 1, part[j].bytes>>
  BY <1>2, <1>3
<1>6. (group(j) - 1) + 1 = group(j)
  BY <1>1, <1>4
<1>7. DOMAIN RowGroups(part, b) = DOMAIN runs /\ RowGroups(part, b)[group(j)] = Slice(part, runs[group(j)])
  BY <1>4 DEF RowGroups, runs
<1>8. \E r \in DOMAIN Slice(part, runs[group(j)]) : Slice(part, runs[group(j)])[r].cell = cell
  <2>1. runs[group(j)] \in Run /\ runs[group(j)][1] + runs[group(j)][2] <= Len(part)
    BY <1>1, <1>4
  <2>2. /\ DOMAIN Slice(part, runs[group(j)]) = 1 .. runs[group(j)][2]
        /\ j - runs[group(j)][1] \in 1 .. runs[group(j)][2]
        /\ Slice(part, runs[group(j)])[j - runs[group(j)][1]] = part[j]
    BY <1>4, <2>1, SliceHolds
  <2> QED BY <2>2
<1> QED
  BY <1>4, <1>5, <1>6, <1>7, <1>8 DEF Finds

\* A level's rows, cell i the i-th.
LEMMA ShardTyped ==
    ASSUME TypeOK
    PROVE  /\ Shard \in Seq(Rows) /\ Len(Shard) = Len(sizes)
           /\ \A i \in DOMAIN Shard : Shard[i].cell = i /\ Shard[i].bytes = sizes[i]
<1>1. PICK n \in Nat : Len(sizes) = n /\ DOMAIN sizes = 1 .. n /\ \A i \in 1 .. n : sizes[i] \in Nat
  BY DEF TypeOK
<1>2. Shard = [i \in 1 .. n |-> [cell |-> i, bytes |-> sizes[i]]]
  BY <1>1 DEF Shard
<1>3. \A i \in 1 .. n : [cell |-> i, bytes |-> sizes[i]] \in Rows
  BY <1>1 DEF Rows
<1>4. Shard \in [1 .. n -> Rows]
  BY <1>2, <1>3
<1> QED
  BY <1>1, <1>2, <1>4

\* Whatever the budgets, each cell of a level is in a part, in the row group its locator
\* points at (writer._plan_parts, writer._locate, frames.table_to_chunked_parquet).
THEOREM LocatorsPointAtCells == Spec => []LocatorsFindTheirCell
<1>1. TypeOK => LocatorsFindTheirCell
  <2> SUFFICES ASSUME TypeOK, NEW b \in Budgets, NEW i \in DOMAIN Shard
               PROVE  \E n \in DOMAIN Parts(budget) : Finds(Parts(budget)[n], n - 1, b, i, sizes[i])
    BY DEF LocatorsFindTheirCell, Finds
  <2>1. /\ Shard \in Seq(Rows) /\ budget \in Int /\ b \in Int
        /\ \A k \in DOMAIN Shard : Shard[k].cell = k /\ Shard[k].bytes = sizes[k]
    BY ShardTyped, BudgetsAssumption DEF TypeOK
  <2> DEFINE runs == PlanByteChunks(BlobSizes(Shard), budget)
  <2>2. CASE Parts(budget) = <<Shard>>
    <3>1. 1 \in DOMAIN Parts(budget) /\ Parts(budget)[1] = Shard
      BY <2>2
    <3>2. \A k, m \in DOMAIN Shard : Shard[k].cell = Shard[m].cell => k = m
      BY <2>1
    <3>3. ASSUME NEW number PROVE Finds(Shard, number, b, Shard[i].cell, Shard[i].bytes)
      BY <2>1, <3>2, LocateFinds
    <3> QED BY <2>1, <3>1, <3>3
  <2>3. CASE Parts(budget) = [n \in DOMAIN runs |-> Slice(Shard, runs[n])]
    <3>1. /\ runs \in Seq(Run)
          /\ \E g \in DOMAIN runs : i \in runs[g][1] + 1 .. runs[g][1] + runs[g][2]
          /\ \A g \in DOMAIN runs : runs[g][1] + runs[g][2] <= Len(Shard)
      <4> HIDE DEF runs
      <4> QED BY <2>1, PlanHoldsRows DEF runs
    <3> HIDE DEF runs
    <3>2. PICK n \in DOMAIN runs : i \in runs[n][1] + 1 .. runs[n][1] + runs[n][2]
      BY <3>1
    <3>3. runs[n] \in Run /\ runs[n][1] \in Nat /\ runs[n][2] \in Nat /\ runs[n][1] + runs[n][2] <= Len(Shard)
      BY <3>1 DEF Run
    <3> DEFINE part == Slice(Shard, runs[n])
               j == i - runs[n][1]
    <3>4. /\ part \in Seq(Rows) /\ DOMAIN part = 1 .. runs[n][2]
          /\ \A k \in 1 .. runs[n][2] : part[k] = Shard[runs[n][1] + k]
          /\ j \in 1 .. runs[n][2] /\ part[j] = Shard[i]
      BY <2>1, <3>2, <3>3, SliceHolds
    <3> HIDE DEF part, j
    <3>5. \A k, m \in DOMAIN part : part[k].cell = part[m].cell => k = m
      <4>1. ASSUME NEW k \in DOMAIN part PROVE part[k].cell = runs[n][1] + k
        <5>1. runs[n][1] + k \in DOMAIN Shard
          BY <2>1, <3>3, <3>4
        <5> QED BY <2>1, <3>4, <5>1
      <4> QED BY <3>3, <3>4, <4>1
    <3>6. Finds(part, n - 1, b, part[j].cell, part[j].bytes)
      BY <2>1, <3>4, <3>5, LocateFinds
    <3>7. n \in DOMAIN Parts(budget) /\ Parts(budget)[n] = part
      BY <2>3, <3>2 DEF part
    <3> QED BY <2>1, <3>4, <3>6, <3>7
  <2> QED
    BY <2>2, <2>3 DEF Parts, PlanParts
<1> QED
  BY <1>1, LoopTyped, PTL
=============================================================================
