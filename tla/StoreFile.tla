------------------------------- MODULE StoreFile ------------------------------
(***************************************************************************)
(* stores/file.py: a seekable file over an object in a store, which keeps  *)
(* the tail of the object and the windows it was primed with.  A call is a *)
(* step: the file is used by one thread.                                   *)
(***************************************************************************)
EXTENDS Integers, Sequences

CONSTANTS
    Objects,      \* what the store may hold: sequences of bytes
    TailBytes,    \* how much of the end is fetched for a footer
    Places,       \* the offsets a caller may seek by
    Counts,       \* the sizes a caller may read
    MaxPrimed,    \* a bound on the windows primed
    Error, None

ASSUME StoreFileAssumption ==
    /\ TailBytes \in Nat
    /\ Places \subseteq Int
    /\ Counts \subseteq Int
    /\ MaxPrimed \in Nat
    /\ Objects \subseteq Seq(Nat)
    /\ None \notin Seq(Nat)

VARIABLES
    object,     \* what lies at the file's path; its length is the file's size
    position, closed,
    result,     \* what the last read returned
    tail,       \* _tail
    primed,     \* _primed, newest first
    asked       \* history: what the last step asked of the store

vars == <<object, position, closed, result, tail, primed, asked>>

Size == Len(object)

Init ==
    /\ object \in Objects
    /\ position = 0
    /\ closed = FALSE
    /\ result = << >>
    /\ tail = None
    /\ primed = << >>
    /\ asked = "nothing"

\* payload[offset : offset + length].
Slice(payload, offset, length) ==
    SubSeq(payload, offset + 1, IF offset + length < Len(payload) THEN offset + length ELSE Len(payload))

\* get_range_bytes.
Fetched(start, length) == Slice(object, start, length)

TailStart == IF Size > TailBytes THEN Size - TailBytes ELSE 0

-----------------------------------------------------------------------------
\* A faulty seek that trusts its caller.
SeekAnywhere(base, offset) ==
    /\ position' = base + offset
    /\ asked' = "nothing"
    /\ UNCHANGED <<object, closed, result, tail, primed>>

Seek(base, offset) ==
    /\ position' = IF base + offset < 0 THEN 0 ELSE IF base + offset > Size THEN Size ELSE base + offset
    /\ asked' = "nothing"
    /\ UNCHANGED <<object, closed, result, tail, primed>>

\* SEEK_SET, SEEK_CUR, SEEK_END.
SeekAny == \E base \in {0, position, Size}, offset \in Places : Seek(base, offset)

\* How many bytes a read is for: all that remain, if it does not say or says more.
Count(size) == IF size < 0 \/ size > Size - position THEN Size - position ELSE size

\* A faulty test that accepts a window which begins where it should and ends early.
CoveringStart(start, length) ==
    {k \in DOMAIN primed : primed[k].start <= start /\ start < primed[k].start + Len(primed[k].bytes)}

\* The primed windows that have all of start .. start + length - 1.
Covering(start, length) ==
    {k \in DOMAIN primed : /\ primed[k].start <= start
                           /\ start + length <= primed[k].start + Len(primed[k].bytes)}

\* _served, when a window covers the request: the newest does.
Served(start, length) ==
    LET k == CHOOSE k \in Covering(start, length) : \A j \in Covering(start, length) : k <= j
    IN  Slice(primed[k].bytes, start - primed[k].start, length)

Deliver(payload, count) ==
    /\ result' = payload
    /\ position' = position + count

\* There is nothing left, or nothing was asked for.
ReadNothing(size) ==
    /\ ~closed
    /\ Count(size) = 0
    /\ Deliver(<< >>, 0)
    /\ asked' = "nothing"
    /\ UNCHANGED <<object, closed, tail, primed>>

ReadPrimed(size) ==
    /\ ~closed
    /\ Count(size) > 0
    /\ Covering(position, Count(size)) # {}
    /\ Deliver(Served(position, Count(size)), Count(size))
    /\ asked' = "nothing"
    /\ UNCHANGED <<object, closed, tail, primed>>

\* The first read into the tail fetches all of it.
ReadTail(size) ==
    /\ ~closed
    /\ Count(size) > 0
    /\ Covering(position, Count(size)) = {}
    /\ position >= TailStart
    /\ tail' = IF tail = None THEN Fetched(TailStart, Size - TailStart) ELSE tail
    /\ asked' = IF tail = None THEN "tail" ELSE "nothing"
    /\ Deliver(Slice(tail', position - TailStart, Count(size)), Count(size))
    /\ UNCHANGED <<object, closed, primed>>

ReadStore(size) ==
    /\ ~closed
    /\ Count(size) > 0
    /\ Covering(position, Count(size)) = {}
    /\ position < TailStart
    /\ Deliver(Fetched(position, Count(size)), Count(size))
    /\ asked' = "range"
    /\ UNCHANGED <<object, closed, tail, primed>>

\* A faulty answer, which takes a tail that has not been fetched for held.
HoldsTail(start, length) == start >= TailStart \/ Covering(start, length) # {}

\* holds: whether a window is at hand, and a prefetch of it would be waste.
Holds(start, length) == (tail # None /\ start >= TailStart) \/ Covering(start, length) # {}

\* The store raises, or the file is closed.
ReadFails(size) ==
    /\ closed \/ (Count(size) > 0 /\ ~Holds(position, Count(size)))
    /\ result' = Error
    /\ asked' = IF closed THEN "nothing" ELSE "range"
    /\ UNCHANGED <<object, position, closed, tail, primed>>

Read(size) ==
    \/ ReadNothing(size) \/ ReadPrimed(size) \/ ReadTail(size) \/ ReadStore(size) \/ ReadFails(size)

-----------------------------------------------------------------------------
(* What aread_cells has fetched for the file.                              *)

\* A window that somebody fetched: overlapping calls may both have asked for it.
Prime(start, length) ==
    /\ Len(primed) < MaxPrimed
    /\ primed' = <<[start |-> start, bytes |-> Fetched(start, length)]>> \o primed
    /\ asked' = "nothing"
    /\ UNCHANGED <<object, position, closed, result, tail>>

PrimeTail ==
    /\ tail' = Fetched(TailStart, Size - TailStart)
    /\ asked' = "nothing"
    /\ UNCHANGED <<object, position, closed, result, primed>>

Close ==
    /\ closed' = TRUE
    /\ asked' = "nothing"
    /\ UNCHANGED <<object, position, result, tail, primed>>

\* The windows of an object that have a byte.
Windows == {w \in (0 .. Size) \X (1 .. Size) : w[1] + w[2] <= Size}

Next ==
    \/ SeekAny
    \/ \E size \in Counts : Read(size)
    \/ \E w \in Windows : Prime(w[1], w[2])
    \/ PrimeTail
    \/ Close

Spec == Init /\ [][Next]_vars

-----------------------------------------------------------------------------
Window == [start : Nat, bytes : Seq(Nat)]

\* Every variable has its type, and the file is at a place in its object.
TypeOK ==
    /\ object \in Objects
    /\ position \in 0 .. Size
    /\ closed \in BOOLEAN
    /\ result \in Seq(Nat) \cup {Error}
    /\ tail \in Seq(Nat) \cup {None}
    /\ primed \in Seq(Window)
    /\ asked \in {"nothing", "tail", "range"}

File == INSTANCE RandomAccess

\* It is a file: whatever was primed, in whatever order, and whichever of its windows a read is
\* served from, the bytes are those of the object at the position, the position moves on by as
\* many, and what cannot be had is an error (read, _window and _served).
IsAFile == File!Spec

\* What `holds` says is at hand is: a read of it, or of any part of it, does not go to the
\* store.  aread_cells skips a prefetch on that answer, and the parse that follows is on the
\* event loop's own thread (holds, against _window).
HeldIsLocal ==
    [][\A w \in Windows :
          /\ Holds(w[1], w[2])
          /\ w[1] <= position /\ position < position' /\ position' <= w[1] + w[2]
          => asked' = "nothing"]_vars

\* What is at hand stays at hand: another prefetch, or a read elsewhere, never takes away what
\* an earlier one has fetched (prime, prime_tail and _window).
NothingForgotten == [][\A w \in Windows : Holds(w[1], w[2]) => Holds(w[1], w[2])']_vars
===============================================================================
