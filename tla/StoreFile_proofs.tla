--------------------------- MODULE StoreFile_proofs ---------------------------
(***************************************************************************)
(* Theorems about StoreFile, for any objects, tail window and calls.       *)
(***************************************************************************)
EXTENDS StoreFile, SequenceTheorems, WellFoundedInduction, TLAPS

(***************************************************************************)
(* Slices.                                                                 *)
(***************************************************************************)

\* The bytes of a part of an object, and their number.
LEMMA SubSeqOfObject ==
    ASSUME NEW o \in Seq(Nat), NEW a \in Nat, NEW n \in Nat, a + n <= Len(o)
    PROVE  /\ SubSeq(o, a + 1, a + n) \in Seq(Nat)
           /\ Len(SubSeq(o, a + 1, a + n)) = n
           /\ \A i \in 1 .. n : SubSeq(o, a + 1, a + n)[i] = o[a + i]
<1>1. Len(o) \in Nat
  BY LenProperties
<1>2. ASSUME NEW i \in a + 1 .. a + n
      PROVE  o[i] \in Nat
  BY <1>1, ElementOfSeq
<1>3. /\ SubSeq(o, a + 1, a + n) \in Seq(Nat)
      /\ Len(SubSeq(o, a + 1, a + n)) = IF a + 1 <= a + n THEN (a + n) - (a + 1) + 1 ELSE 0
      /\ \A i \in 1 .. (a + n) - (a + 1) + 1 : SubSeq(o, a + 1, a + n)[i] = o[(a + 1) + i - 1]
  BY <1>2, SubSeqProperties
<1>4. ASSUME NEW i \in 1 .. n
      PROVE  (a + 1) + i - 1 = a + i
  OBVIOUS
<1>5. (a + n) - (a + 1) + 1 = n /\ (IF a + 1 <= a + n THEN n ELSE 0) = n
  OBVIOUS
<1>6. QED BY <1>3, <1>4, <1>5

\* A slice inside a payload has what lies there (payload[offset : offset + length]).
LEMMA SliceInside ==
    ASSUME NEW o \in Seq(Nat), NEW a \in Nat, NEW n \in Nat, a + n <= Len(o)
    PROVE  Slice(o, a, n) = SubSeq(o, a + 1, a + n)
<1>1. Len(o) \in Nat
  BY LenProperties
<1>2. (IF a + n < Len(o) THEN a + n ELSE Len(o)) = a + n
  BY <1>1
<1>3. QED BY <1>2 DEF Slice

\* The bytes of an object from start on, `length` of them.
Part(o, start, length) == SubSeq(o, start + 1, start + length)

\* A slice of a window of an object is a window of the object.
LEMMA SliceOfWindow ==
    ASSUME NEW o \in Seq(Nat), NEW a \in Nat, NEW n \in Nat, a + n <= Len(o),
           NEW b \in Nat, NEW m \in Nat, b + m <= n
    PROVE  Slice(Part(o, a, n), b, m) = Part(o, a + b, m)
<1> DEFINE w == Part(o, a, n)
<1>1. w \in Seq(Nat) /\ Len(w) = n /\ \A i \in 1 .. n : w[i] = o[a + i]
  BY SubSeqOfObject DEF Part
<1> HIDE DEF w
<1>2. Slice(w, b, m) = SubSeq(w, b + 1, b + m)
  BY <1>1, SliceInside
<1>3. /\ SubSeq(w, b + 1, b + m) \in Seq(Nat)
      /\ Len(SubSeq(w, b + 1, b + m)) = m
      /\ \A i \in 1 .. m : SubSeq(w, b + 1, b + m)[i] = w[b + i]
  BY <1>1, SubSeqOfObject
<1>4. PICK c \in Nat : c = a + b /\ c + m <= Len(o)
  BY LenProperties
<1>5. /\ Part(o, c, m) \in Seq(Nat)
      /\ Len(Part(o, c, m)) = m
      /\ \A i \in 1 .. m : Part(o, c, m)[i] = o[c + i]
  BY <1>4, SubSeqOfObject DEF Part
<1>6. ASSUME NEW i \in 1 .. m
      PROVE  SubSeq(w, b + 1, b + m)[i] = Part(o, c, m)[i]
  <2>1. b + i \in 1 .. n /\ a + (b + i) = c + i
    BY <1>4
  <2>2. w[b + i] = o[a + (b + i)]
    BY <1>1, <2>1
  <2>3. QED BY <1>3, <1>5, <2>1, <2>2
<1>7. SubSeq(w, b + 1, b + m) = Part(o, c, m)
  BY <1>3, <1>5, <1>6, SeqEqual
<1>8. QED BY <1>2, <1>4, <1>7 DEF w

\* A set of natural numbers that has a member has a smallest one.
LEMMA HasSmallest ==
    ASSUME NEW S \in SUBSET Nat, S # {}
    PROVE  \E k \in S : \A j \in S : k <= j
<1> DEFINE Less == {pair \in Nat \X Nat : pair[1] < pair[2]}
<1>1. IsWellFoundedOn(Less, Nat)
  BY NatLessThanWellFounded DEF OpToRel
<1>2. ASSUME NEW j \in Nat, NEW k \in Nat, ~(<<j, k>> \in Less)
      PROVE  k <= j
  BY <1>2
<1> HIDE DEF Less
<1>3. \E k \in S : \A j \in S : ~(<<j, k>> \in Less)
  BY <1>1, WFMin
<1>4. QED BY <1>2, <1>3

(***************************************************************************)
(* Types, and that what is kept is what the object has.                    *)
(***************************************************************************)

\* Bytes of the object in the store.
Bytes(start, length) == Part(object, start, length)

\* The tail and the windows are parts of the object, where they say they are.
Faithful ==
    /\ tail # None => tail = Bytes(TailStart, Size - TailStart)
    /\ \A k \in DOMAIN primed :
          /\ primed[k].start + Len(primed[k].bytes) <= Size
          /\ primed[k].bytes = Bytes(primed[k].start, Len(primed[k].bytes))

Safe == TypeOK /\ Faithful

\* Sizes and places are numbers.
LEMMA Numbers ==
    ASSUME TypeOK
    PROVE  /\ object \in Seq(Nat) /\ Size \in Nat
           /\ position \in Nat /\ position <= Size
           /\ TailStart \in Nat /\ TailStart <= Size
<1>1. object \in Seq(Nat)
  BY StoreFileAssumption DEF TypeOK
<1>2. Size \in Nat
  BY <1>1, LenProperties DEF Size
<1>3. QED BY <1>1, <1>2, StoreFileAssumption DEF TypeOK, TailStart

\* A window of the object is fetched as it is (get_range_bytes).
LEMMA FetchedIsBytes ==
    ASSUME TypeOK, NEW start \in Nat, NEW length \in Nat, start + length <= Size
    PROVE  /\ Fetched(start, length) = Bytes(start, length)
           /\ Bytes(start, length) \in Seq(Nat)
           /\ Len(Bytes(start, length)) = length
<1>1. object \in Seq(Nat) /\ start + length <= Len(object)
  BY Numbers DEF Size
<1>2. QED BY <1>1, SliceInside, SubSeqOfObject DEF Fetched, Bytes, Part

\* A part of a window of the object is a window of the object, wherever the window begins.
LEMMA SliceOfBytes ==
    ASSUME TypeOK,
           NEW base \in Nat, NEW n \in Nat, base + n <= Size,
           NEW start \in Nat, NEW length \in Nat, base <= start, start + length <= base + n
    PROVE  Slice(Bytes(base, n), start - base, length) = Bytes(start, length)
<1>1. object \in Seq(Nat) /\ base + n <= Len(object)
  BY Numbers DEF Size
<1>2. PICK offset \in Nat : offset = start - base
  OBVIOUS
<1>3. offset + length <= n /\ base + offset = start
  BY <1>2
<1>4. Slice(Part(object, base, n), offset, length) = Part(object, base + offset, length)
  BY <1>1, <1>3, SliceOfWindow
<1>5. QED BY <1>2, <1>3, <1>4 DEF Bytes

\* What a read is for lies inside the object (the arithmetic of read).
LEMMA CountFits ==
    ASSUME TypeOK, NEW size \in Int
    PROVE  Count(size) \in Nat /\ position + Count(size) <= Size
BY Numbers DEF Count

\* A window that covers the request serves the object's bytes (_served).
LEMMA ServedIsBytes ==
    ASSUME Safe, NEW start \in Nat, NEW length \in Nat, Covering(start, length) # {}
    PROVE  Served(start, length) = Bytes(start, length)
<1> DEFINE Windowed == Covering(start, length)
<1>1. primed \in Seq(Window) /\ DOMAIN primed = 1 .. Len(primed) /\ Len(primed) \in Nat
  BY LenProperties DEF Safe, TypeOK
<1>2. Windowed \in SUBSET Nat /\ Windowed # {}
  BY <1>1 DEF Covering
<1>3. \E k \in Windowed : \A j \in Windowed : k <= j
  <2> HIDE DEF Windowed
  <2>1. QED BY <1>2, HasSmallest
<1>4. PICK k \in Covering(start, length) :
         k = CHOOSE n \in Covering(start, length) : \A j \in Covering(start, length) : n <= j
  BY <1>3
<1>5. Served(start, length) = Slice(primed[k].bytes, start - primed[k].start, length)
  BY <1>4 DEF Served
<1>6. k \in DOMAIN primed /\ primed[k] \in Window
  BY <1>1, <1>4, ElementOfSeq DEF Covering
<1>7. PICK base \in Nat, n \in Nat :
         /\ base = primed[k].start /\ n = Len(primed[k].bytes)
         /\ base + n <= Size
         /\ primed[k].bytes = Bytes(base, n)
         /\ base <= start /\ start + length <= base + n
  <2>1. primed[k].start \in Nat /\ Len(primed[k].bytes) \in Nat
    BY <1>6, LenProperties DEF Window
  <2>2. QED BY <1>4, <1>6, <2>1 DEF Safe, Faithful, Covering
<1>8. Slice(Bytes(base, n), start - base, length) = Bytes(start, length)
  BY <1>7, SliceOfBytes DEF Safe
<1>9. QED BY <1>5, <1>7, <1>8

(***************************************************************************)
(* Invariance, one action at a time.                                       *)
(***************************************************************************)

\* The file has its type and keeps parts of the object from the start.
LEMMA Starts == Init => Safe
<1> SUFFICES ASSUME Init PROVE Safe
  OBVIOUS
<1>1. object \in Seq(Nat)
  BY StoreFileAssumption DEF Init
<1>2. Len(object) \in Nat
  BY <1>1, LenProperties
<1>3. << >> \in Seq(Nat) /\ << >> \in Seq(Window) /\ DOMAIN << >> = {}
  BY EmptySeq, LenProperties
<1>4. TypeOK
  <2>1. position \in 0 .. Size
    BY <1>2 DEF Init, Size
  <2>2. result \in Seq(Nat) \cup {Error} /\ primed \in Seq(Window)
    BY <1>3 DEF Init
  <2>3. QED BY <2>1, <2>2 DEF Init, TypeOK
<1>5. Faithful
  BY <1>3 DEF Init, Faithful
<1>6. QED BY <1>4, <1>5 DEF Safe

\* A seek is clamped to the object (seek).
LEMMA SeekIsSafe ==
    ASSUME Safe, SeekAny
    PROVE  Safe' /\ position' \in 0 .. Size
<1>1. PICK base \in {0, position, Size}, offset \in Places : Seek(base, offset)
  BY DEF SeekAny
<1>2. base \in Int /\ offset \in Int /\ Size \in Nat
  BY Numbers, StoreFileAssumption DEF Safe
<1>3. position' \in 0 .. Size
  BY <1>1, <1>2 DEF Seek
<1>4. TypeOK'
  BY <1>1, <1>3 DEF Safe, TypeOK, Seek, Size
<1>5. Faithful'
  BY <1>1 DEF Safe, Faithful, Seek, Size, TailStart, Bytes
<1>6. QED BY <1>3, <1>4, <1>5 DEF Safe

\* The tail as it is fetched (tail_window).
LEMMA TailIsBytes ==
    ASSUME TypeOK
    PROVE  /\ Fetched(TailStart, Size - TailStart) = Bytes(TailStart, Size - TailStart)
           /\ Fetched(TailStart, Size - TailStart) \in Seq(Nat)
<1>1. PICK n \in Nat : n = Size - TailStart
  BY Numbers
<1>2. TailStart \in Nat /\ TailStart + n <= Size
  BY <1>1, Numbers
<1>3. Fetched(TailStart, n) = Bytes(TailStart, n) /\ Bytes(TailStart, n) \in Seq(Nat)
  BY <1>2, FetchedIsBytes
<1>4. QED BY <1>1, <1>3

\* A read that does not fail returns the bytes that lie at the position, moves on by as many,
\* and keeps at most another part of the object (read and _window).
Answered(size) ==
    /\ result' = Bytes(position, Count(size))
    /\ position' = position + Count(size)
    /\ asked' \in {"nothing", "tail", "range"}
    /\ \/ tail' = tail
       \/ tail' = Fetched(TailStart, Size - TailStart)
    /\ UNCHANGED <<object, closed, primed>>

LEMMA ReadsAnswer ==
    ASSUME Safe, NEW size \in Int,
           ReadNothing(size) \/ ReadPrimed(size) \/ ReadTail(size) \/ ReadStore(size)
    PROVE  Answered(size) /\ ~closed
<1>1. TypeOK /\ Faithful
  BY DEF Safe
<1>2. PICK count \in Nat : count = Count(size) /\ position + count <= Size
  BY <1>1, CountFits
<1>3. position \in Nat /\ Size \in Nat /\ TailStart \in Nat
  BY <1>1, Numbers
<1>4. CASE ReadNothing(size)
  <2>1. Fetched(position, 0) = Bytes(position, 0) /\ Len(Bytes(position, 0)) = 0
        /\ Bytes(position, 0) \in Seq(Nat)
    BY <1>1, <1>2, <1>3, FetchedIsBytes
  <2>2. Bytes(position, 0) = << >>
    BY <2>1, EmptySeq
  <2>3. QED BY <1>3, <1>4, <2>2 DEF ReadNothing, Deliver, Answered
<1>5. CASE ReadPrimed(size)
  <2>1. Covering(position, count) # {}
    BY <1>2, <1>5 DEF ReadPrimed
  <2>2. Served(position, count) = Bytes(position, count)
    BY <1>3, <2>1, ServedIsBytes
  <2>3. QED BY <1>2, <1>5, <2>2 DEF ReadPrimed, Deliver, Answered
<1>6. CASE ReadTail(size)
  <2>1. tail' = Bytes(TailStart, Size - TailStart)
    BY <1>1, <1>6, TailIsBytes DEF ReadTail, Faithful
  <2>2. PICK n \in Nat : n = Size - TailStart
    BY <1>1, Numbers
  <2>3. TailStart + n <= Size /\ TailStart <= position /\ position + count <= TailStart + n
    BY <1>2, <1>3, <1>6, <2>2 DEF ReadTail
  <2>4. Slice(Bytes(TailStart, n), position - TailStart, count) = Bytes(position, count)
    BY <1>1, <1>3, <2>3, SliceOfBytes
  <2>5. result' = Bytes(position, count) /\ position' = position + count
    BY <1>2, <1>6, <2>1, <2>2, <2>4 DEF ReadTail, Deliver
  <2>6. QED BY <1>2, <1>6, <2>5 DEF ReadTail, Answered
<1>7. CASE ReadStore(size)
  <2>1. Fetched(position, count) = Bytes(position, count)
    BY <1>1, <1>2, <1>3, FetchedIsBytes
  <2>2. QED BY <1>2, <1>7, <2>1 DEF ReadStore, Deliver, Answered
<1>8. ~closed
  BY DEF ReadNothing, ReadPrimed, ReadTail, ReadStore
<1>9. QED BY <1>4, <1>5, <1>6, <1>7, <1>8

LEMMA AnsweredIsSafe ==
    ASSUME Safe, NEW size \in Int, Answered(size)
    PROVE  Safe'
<1>1. TypeOK /\ Faithful
  BY DEF Safe
<1>2. PICK count \in Nat : count = Count(size) /\ position + count <= Size
  BY <1>1, CountFits
<1>3. position + count \in 0 .. Size /\ Bytes(position, count) \in Seq(Nat)
  BY <1>1, <1>2, Numbers, FetchedIsBytes
<1>4. tail' \in Seq(Nat) \cup {None}
  BY <1>1, TailIsBytes DEF Answered, TypeOK
<1>5. tail' # None => tail' = Bytes(TailStart, Size - TailStart)
  BY <1>1, TailIsBytes DEF Answered, Faithful
<1>6. TypeOK'
  BY <1>1, <1>2, <1>3, <1>4 DEF TypeOK, Answered, Size
<1>7. Faithful'
  BY <1>1, <1>5 DEF Faithful, Answered, Size, TailStart, Bytes
<1>8. QED BY <1>6, <1>7 DEF Safe

\* A read that fails leaves the file as it was.
LEMMA FailureIsSafe ==
    ASSUME Safe, NEW size \in Int, ReadFails(size)
    PROVE  Safe'
<1>1. TypeOK'
  BY DEF Safe, TypeOK, ReadFails, Size
<1>2. Faithful'
  BY DEF Safe, Faithful, ReadFails, Size, TailStart, Bytes
<1>3. QED BY <1>1, <1>2 DEF Safe

\* A window that is primed is put before the others, which stay where they are (prime).
LEMMA PrimeIsSafe ==
    ASSUME Safe, NEW w \in Windows, Prime(w[1], w[2])
    PROVE  Safe'
<1>1. TypeOK /\ Faithful
  BY DEF Safe
<1>2. PICK start \in Nat, length \in Nat : start = w[1] /\ length = w[2] /\ start + length <= Size
  BY <1>1, Numbers DEF Windows
<1>3. PICK payload \in Seq(Nat) : payload = Fetched(start, length) /\ payload = Bytes(start, length)
                                  /\ Len(payload) = length
  BY <1>1, <1>2, FetchedIsBytes
<1> DEFINE window == [start |-> start, bytes |-> payload]
<1>4. window \in Window
  BY DEF Window
<1>5. primed' = <<window>> \o primed
  BY <1>2, <1>3 DEF Prime
<1>6. /\ primed' \in Seq(Window)
      /\ DOMAIN primed' = 1 .. Len(primed) + 1
      /\ primed'[1] = window
      /\ \A k \in DOMAIN primed' : k # 1 => (k - 1 \in DOMAIN primed /\ primed'[k] = primed[k - 1])
  <2>1. primed \in Seq(Window) /\ <<window>> \in Seq(Window) /\ Len(<<window>>) = 1
        /\ <<window>>[1] = window
    BY <1>1, <1>4 DEF TypeOK
  <2> HIDE DEF window
  <2>2. QED BY <1>5, <2>1, ConcatProperties, LenProperties
<1>7. TypeOK'
  BY <1>1, <1>6 DEF TypeOK, Prime, Size
<1>8. UNCHANGED <<object, tail>>
  BY DEF Prime
<1>9. ASSUME NEW k \in DOMAIN primed'
      PROVE  /\ primed'[k].start + Len(primed'[k].bytes) <= Size
             /\ primed'[k].bytes = Bytes(primed'[k].start, Len(primed'[k].bytes))
  <2>1. CASE k = 1
    BY <1>2, <1>3, <1>6, <2>1
  <2>2. CASE k # 1
    BY <1>1, <1>6, <2>2 DEF Faithful
  <2>3. QED BY <2>1, <2>2
<1>10. Faithful'
  BY <1>1, <1>8, <1>9 DEF Faithful, Size, TailStart, Bytes
<1>11. QED BY <1>7, <1>10 DEF Safe

\* A tail that is primed is the object's (prime_tail).
LEMMA PrimeTailIsSafe ==
    ASSUME Safe, PrimeTail
    PROVE  Safe'
<1>1. TypeOK /\ Faithful
  BY DEF Safe
<1>2. tail' = Bytes(TailStart, Size - TailStart) /\ tail' \in Seq(Nat)
  BY <1>1, TailIsBytes DEF PrimeTail
<1>3. TypeOK'
  BY <1>1, <1>2 DEF TypeOK, PrimeTail, Size
<1>4. Faithful'
  BY <1>1, <1>2 DEF Faithful, PrimeTail, Size, TailStart, Bytes
<1>5. QED BY <1>3, <1>4 DEF Safe

LEMMA CloseIsSafe ==
    ASSUME Safe, Close
    PROVE  Safe'
<1>1. TypeOK'
  BY DEF Safe, TypeOK, Close, Size
<1>2. Faithful'
  BY DEF Safe, Faithful, Close, Size, TailStart, Bytes
<1>3. QED BY <1>1, <1>2 DEF Safe

LEMMA StutterIsSafe ==
    ASSUME Safe, UNCHANGED vars
    PROVE  Safe'
<1>1. TypeOK'
  BY DEF Safe, TypeOK, vars, Size
<1>2. Faithful'
  BY DEF Safe, Faithful, vars, Size, TailStart, Bytes
<1>3. QED BY <1>1, <1>2 DEF Safe

\* Every read is one of two: it is answered, or it fails.
LEMMA ReadCases ==
    ASSUME Safe, NEW size \in Counts, Read(size)
    PROVE  size \in Int /\ ((Answered(size) /\ ~closed) \/ ReadFails(size))
BY ReadsAnswer, StoreFileAssumption DEF Read

\* A step keeps the types, and what is kept remains parts of the object.
LEMMA Steps == Safe /\ [Next]_vars => Safe'
<1> SUFFICES ASSUME Safe, [Next]_vars PROVE Safe'
  OBVIOUS
<1>1. CASE SeekAny
  BY <1>1, SeekIsSafe
<1>2. ASSUME NEW size \in Counts, Read(size)
      PROVE  Safe'
  BY <1>2, ReadCases, AnsweredIsSafe, FailureIsSafe
<1>3. ASSUME NEW w \in Windows, Prime(w[1], w[2])
      PROVE  Safe'
  BY <1>3, PrimeIsSafe
<1>4. CASE PrimeTail
  BY <1>4, PrimeTailIsSafe
<1>5. CASE Close
  BY <1>5, CloseIsSafe
<1>6. CASE UNCHANGED vars
  BY <1>6, StutterIsSafe
<1>7. QED BY <1>1, <1>2, <1>3, <1>4, <1>5, <1>6 DEF Next

\* The state of a StoreFile always has its type and what it has cached is always part of the
\* object, where it says it is: no read can be served from the wrong bytes.
THEOREM CacheIsFaithful == Spec => []Safe
BY Starts, Steps, PTL DEF Spec

\* The position never leaves the object and every variable keeps its type, whatever is sought,
\* read and primed.
THEOREM StoreFileTyped == Spec => []TypeOK
<1>1. Safe => TypeOK
  BY DEF Safe
<1>2. QED BY <1>1, CacheIsFaithful, PTL

(***************************************************************************)
(* The refinement.                                                         *)
(***************************************************************************)

\* A step of StoreFile is a step of a file or leaves the file alone.
LEMMA StepsOfAFile == Safe /\ [Next]_vars => [File!Next]_(File!vars)
<1> SUFFICES ASSUME Safe, [Next]_vars PROVE [File!Next]_(File!vars)
  OBVIOUS
<1>0. TypeOK
  BY DEF Safe
<1>1. CASE SeekAny
  <2>1. position' \in 0 .. Len(object) /\ UNCHANGED <<object, closed, result>>
    BY <1>1, SeekIsSafe DEF SeekAny, Seek, Size
  <2>2. QED BY <2>1 DEF File!Next, File!Seek
<1>2. ASSUME NEW size \in Counts, Read(size)
      PROVE  [File!Next]_(File!vars)
  <2>1. CASE Answered(size) /\ ~closed
    <3>1. PICK n \in Nat : n = Count(size) /\ position + n <= Size
      BY <1>0, <1>2, CountFits, ReadCases
    <3>2. n \in 0 .. Len(object) - position
      BY <1>0, <3>1, Numbers DEF Size
    <3>3. result' = SubSeq(object, position + 1, position + n) /\ position' = position + n
      BY <2>1, <3>1 DEF Answered, Bytes, Part
    <3>4. QED BY <2>1, <3>2, <3>3 DEF Answered, File!Next, File!Read
  <2>2. CASE ReadFails(size)
    BY <2>2 DEF ReadFails, File!Next, File!Fail
  <2>3. QED BY <1>2, <2>1, <2>2, ReadCases
<1>3. ASSUME NEW w \in Windows, Prime(w[1], w[2])
      PROVE  [File!Next]_(File!vars)
  BY <1>3 DEF Prime, File!vars
<1>4. CASE PrimeTail
  BY <1>4 DEF PrimeTail, File!vars
<1>5. CASE Close
  BY <1>5 DEF Close, File!Next, File!Close
<1>6. CASE UNCHANGED vars
  BY <1>6 DEF vars, File!vars
<1>7. QED BY <1>1, <1>2, <1>3, <1>4, <1>5, <1>6 DEF Next

\* A StoreFile is a file, for any object, tail window, order of prefetches and sizes of reads:
\* whichever window serves a read, the bytes are the object's at the position.
THEOREM StoreFileIsAFile == Spec => IsAFile
<1>1. Init => File!Init
  BY DEF Init, File!Init
<1>2. QED BY <1>1, StepsOfAFile, CacheIsFaithful, PTL DEF Spec, IsAFile, File!Spec

(***************************************************************************)
(* What is at hand.                                                        *)
(***************************************************************************)

\* A read inside a window that `holds` accepts asks nothing of the store: the prefetch that
\* aread_cells skips on that answer is never one that the parse then needs.
THEOREM HeldIsAlwaysLocal == Spec => HeldIsLocal
<1> DEFINE Skipped(w) == /\ Holds(w[1], w[2])
                         /\ w[1] <= position /\ position < position' /\ position' <= w[1] + w[2]
<1>1. ASSUME Safe, [Next]_vars, NEW w \in Windows, Skipped(w)
      PROVE  asked' = "nothing"
  <2>0. TypeOK /\ position \in Nat /\ Size \in Nat /\ w[1] \in Nat /\ w[2] \in Nat
    BY <1>1, Numbers DEF Safe, Windows
  <2>1. CASE SeekAny
    BY <2>1 DEF SeekAny, Seek
  <2>2. ASSUME NEW size \in Counts, Read(size)
        PROVE  asked' = "nothing"
    <3>1. CASE ReadNothing(size)
      BY <3>1 DEF ReadNothing
    <3>2. CASE ReadPrimed(size)
      BY <3>2 DEF ReadPrimed
    <3>3. ASSUME ReadTail(size) \/ ReadStore(size), tail = None \/ position < TailStart
          PROVE  FALSE
      <4>1. PICK n \in Nat : n = Count(size)
        BY <2>0, CountFits, StoreFileAssumption
      <4>2. Covering(position, n) = {} /\ position' = position + n
        BY <3>3, <4>1 DEF ReadTail, ReadStore, Deliver
      <4>3. TailStart \in Nat
        BY <2>0, Numbers
      <4>4. ~(tail # None /\ w[1] >= TailStart)
        BY <1>1, <2>0, <3>3, <4>3
      <4>5. PICK k \in DOMAIN primed : /\ primed[k].start <= w[1]
                                       /\ w[1] + w[2] <= primed[k].start + Len(primed[k].bytes)
        BY <1>1, <4>4 DEF Holds, Covering
      <4>6. primed[k].start \in Nat /\ Len(primed[k].bytes) \in Nat
        <5>1. primed \in Seq(Window) /\ DOMAIN primed = 1 .. Len(primed) /\ Len(primed) \in Nat
          BY <2>0, LenProperties DEF TypeOK
        <5>2. primed[k] \in Window
          BY <5>1, ElementOfSeq
        <5>3. QED BY <5>2, LenProperties DEF Window
      <4>7. k \in Covering(position, n)
        BY <1>1, <2>0, <4>1, <4>2, <4>5, <4>6 DEF Covering
      <4>8. QED BY <4>2, <4>7
    <3>4. CASE ReadTail(size)
      BY <3>3, <3>4 DEF ReadTail
    <3>5. CASE ReadStore(size)
      BY <3>3, <3>5 DEF ReadStore
    <3>6. CASE ReadFails(size)
      BY <1>1, <2>0, <3>6 DEF ReadFails
    <3>7. QED BY <2>2, <3>1, <3>2, <3>4, <3>5, <3>6 DEF Read
  <2>3. ASSUME NEW v \in Windows, Prime(v[1], v[2])
        PROVE  asked' = "nothing"
    BY <2>3 DEF Prime
  <2>4. CASE PrimeTail
    BY <2>4 DEF PrimeTail
  <2>5. CASE Close
    BY <2>5 DEF Close
  <2>6. CASE UNCHANGED vars
    BY <1>1, <2>0, <2>6 DEF vars
  <2>7. QED BY <1>1, <2>1, <2>2, <2>3, <2>4, <2>5, <2>6 DEF Next
<1>2. Safe /\ [Next]_vars
      => [\A w \in Windows :
             /\ Holds(w[1], w[2])
             /\ w[1] <= position /\ position < position' /\ position' <= w[1] + w[2]
             => asked' = "nothing"]_vars
  BY <1>1
<1>3. QED BY <1>2, CacheIsFaithful, PTL DEF Spec, HeldIsLocal

\* Nothing that is at hand is lost: neither another prefetch nor a read elsewhere takes away a
\* window that an earlier prefetch of the same batch relied on.
THEOREM NothingIsForgotten == Spec => NothingForgotten
<1>1. ASSUME Safe, [Next]_vars
      PROVE  /\ object' = object
             /\ tail # None => tail' # None
             /\ \/ primed' = primed
                \/ \E w \in Windows : Prime(w[1], w[2])
  <2>1. CASE SeekAny
    BY <2>1 DEF SeekAny, Seek
  <2>2. ASSUME NEW size \in Counts, Read(size)
        PROVE  /\ object' = object /\ primed' = primed
               /\ tail # None => tail' # None
    BY <2>2 DEF Read, ReadNothing, ReadPrimed, ReadTail, ReadStore, ReadFails
  <2>3. ASSUME NEW w \in Windows, Prime(w[1], w[2])
        PROVE  object' = object /\ tail' = tail
    BY <2>3 DEF Prime
  <2>4. CASE PrimeTail
    BY <1>1, <2>4, TailIsBytes, StoreFileAssumption DEF PrimeTail, Safe
  <2>5. CASE Close
    BY <2>5 DEF Close
  <2>6. CASE UNCHANGED vars
    BY <2>6 DEF vars
  <2>7. QED BY <1>1, <2>1, <2>2, <2>3, <2>4, <2>5, <2>6 DEF Next
<1>2. ASSUME Safe, NEW v \in Windows, Prime(v[1], v[2]), NEW k \in DOMAIN primed
      PROVE  k + 1 \in DOMAIN primed' /\ primed'[k + 1] = primed[k]
  <2>1. PICK start \in Nat, length \in Nat : start = v[1] /\ length = v[2] /\ start + length <= Size
    BY <1>2, Numbers DEF Windows, Safe
  <2>2. Fetched(start, length) \in Seq(Nat)
    BY <1>2, <2>1, FetchedIsBytes DEF Safe
  <2>3. PICK window \in Window : window = [start |-> start, bytes |-> Fetched(start, length)]
    BY <2>2 DEF Window
  <2>4. primed' = <<window>> \o primed
    BY <1>2, <2>1, <2>3 DEF Prime
  <2>5. primed \in Seq(Window) /\ <<window>> \in Seq(Window) /\ Len(<<window>>) = 1
    BY <1>2 DEF Safe, TypeOK
  <2>6. QED BY <1>2, <2>4, <2>5, ConcatProperties, LenProperties
<1>3. ASSUME Safe, [Next]_vars, NEW w \in Windows, Holds(w[1], w[2])
      PROVE  Holds(w[1], w[2])'
  <2>1. TailStart' = TailStart
    BY <1>1, <1>3 DEF TailStart, Size
  <2>2. CASE tail # None /\ w[1] >= TailStart
    BY <1>1, <1>3, <2>1, <2>2 DEF Holds
  <2>3. ASSUME NEW k \in Covering(w[1], w[2])
        PROVE  Covering(w[1], w[2])' # {}
    <3>1. CASE primed' = primed
      BY <2>3, <3>1 DEF Covering
    <3>2. ASSUME NEW v \in Windows, Prime(v[1], v[2])
          PROVE  k + 1 \in Covering(w[1], w[2])'
      BY <1>2, <1>3, <2>3, <3>2 DEF Covering
    <3>3. QED BY <1>1, <1>3, <3>1, <3>2
  <2>4. QED BY <1>3, <2>2, <2>3 DEF Holds
<1>4. Safe /\ [Next]_vars
      => [\A w \in Windows : Holds(w[1], w[2]) => Holds(w[1], w[2])']_vars
  BY <1>3
<1>5. QED BY <1>4, CacheIsFaithful, PTL DEF Spec, NothingForgotten
===============================================================================
