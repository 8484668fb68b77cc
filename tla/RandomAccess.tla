----------------------------- MODULE RandomAccess -----------------------------
(***************************************************************************)
(* What a reader of a file is promised: an object of fixed bytes, a place  *)
(* in it, and reads that return the bytes from there on.  A read may fail. *)
(***************************************************************************)
EXTENDS Integers, Sequences

CONSTANTS Objects,   \* what a store may hold: sequences of bytes
          Error      \* what a read that fails returns

VARIABLES object, position, closed,
          result     \* what the last read returned

vars == <<object, position, closed, result>>

Init ==
    /\ object \in Objects
    /\ position = 0
    /\ closed = FALSE
    /\ result = << >>

\* A seek ends somewhere in the object.
Seek ==
    /\ position' \in 0 .. Len(object)
    /\ UNCHANGED <<object, closed, result>>

\* A read moves on by the bytes it returns, which are those that lie there.
Read ==
    /\ ~closed
    /\ \E n \in 0 .. Len(object) - position :
          /\ result' = SubSeq(object, position + 1, position + n)
          /\ position' = position + n
    /\ UNCHANGED <<object, closed>>

Fail ==
    /\ result' = Error
    /\ UNCHANGED <<object, position, closed>>

Close ==
    /\ closed' = TRUE
    /\ UNCHANGED <<object, position, result>>

Next == Seek \/ Read \/ Fail \/ Close

Spec == Init /\ [][Next]_vars
===============================================================================
