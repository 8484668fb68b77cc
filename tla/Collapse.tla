------------------------------- MODULE Collapse -------------------------------
(***************************************************************************)
(* What an edge collapse may do to a mesh: make one vertex stand for two   *)
(* groups of vertices, and move it.  A pinned vertex is never given up for *)
(* another and never moved.                                                *)
(***************************************************************************)
EXTENDS Integers, Sequences

VARIABLES pinned,    \* the vertices that may not move
          original,  \* where the vertices were
          standsFor, \* standsFor[v]: the vertex that v has become
          place      \* where the vertices are

vars == <<pinned, original, standsFor, place>>

Fresh == standsFor = [v \in DOMAIN original |-> v] /\ place = original

Init == pinned \subseteq DOMAIN original /\ Fresh

\* Another mesh.
Begin ==
    /\ pinned' \subseteq DOMAIN original'
    /\ standsFor' = [v \in DOMAIN original' |-> v]
    /\ place' = original'

\* `dropped` is given up for `kept`.
Merge(kept, dropped) ==
    /\ standsFor[kept] = kept
    /\ standsFor[dropped] = dropped
    /\ kept # dropped
    /\ dropped \notin pinned
    /\ standsFor' = [v \in DOMAIN original |->
                        IF standsFor[v] = dropped THEN kept ELSE standsFor[v]]
    /\ \A v \in DOMAIN original \ {kept} : place'[v] = place[v]
    /\ kept \in pinned => place'[kept] = place[kept]
    /\ UNCHANGED <<pinned, original>>

Next == Begin \/ \E kept, dropped \in DOMAIN original : Merge(kept, dropped)

Spec == Init /\ [][Next]_vars

-----------------------------------------------------------------------------
\* A pinned vertex stands for itself, where it was.
PinnedHeld == \A v \in pinned : standsFor[v] = v /\ place[v] = original[v]
=============================================================================
