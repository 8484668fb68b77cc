----------------------------- MODULE Publication ------------------------------
(***************************************************************************)
(* What a prefix promises the readers of one collection: it is nothing     *)
(* until, at one instant, it is the whole collection, and from then on it  *)
(* stays so.  Whoever opened it can read any cell of it, at any time, and  *)
(* never fails.                                                            *)
(***************************************************************************)
CONSTANTS Readers, Collections,
          Keys(_),   \* the cells of a collection
          Nothing

VARIABLES published,   \* the collection that is there, or Nothing
          view,        \* the collection each reader has open, or Nothing
          answer       \* the last cell each reader was given

vars == <<published, view, answer>>

Init ==
    /\ published = Nothing
    /\ view = [r \in Readers |-> Nothing]
    /\ answer = [r \in Readers |-> Nothing]

Publish(c) ==
    /\ published = Nothing
    /\ published' = c
    /\ UNCHANGED <<view, answer>>

\* Opening what is not there is refused, and leaves the reader with nothing open.
Open(r) ==
    /\ view' = [view EXCEPT ![r] = published]
    /\ answer' = [answer EXCEPT ![r] = Nothing]
    /\ UNCHANGED published

Read(r, key) ==
    /\ view[r] # Nothing
    /\ key \in Keys(view[r])
    /\ answer' = [answer EXCEPT ![r] = <<view[r], key>>]
    /\ UNCHANGED <<published, view>>

Next ==
    \/ \E c \in Collections : Publish(c)
    \/ \E r \in Readers : Open(r) \/ \E c \in Collections : \E key \in Keys(c) : Read(r, key)

Spec == Init /\ [][Next]_vars
=============================================================================
