--------------------------------- MODULE Cut ----------------------------------
(***************************************************************************)
(* What a plan over the octree is: a cut through it.  It starts as the     *)
(* coarsest cells the query wants, and is only ever changed by replacing a *)
(* cell that is not good enough by all of its children the query wants, of *)
(* which there is at least one.                                            *)
(*                                                                         *)
(* A cell is keyed <<level, cell>>, level 0 the finest, and the cells at   *)
(* level L - 1 inside cell m of level L have the codes 8 * m .. 8 * m + 7. *)
(***************************************************************************)
EXTENDS Integers

CONSTANTS Top,       \* the coarsest level
          Catalog,   \* the cells of the collection
          Mask       \* Mask[key]: the octants of a cell its child_mask says hold geometry

\* What the levels, the codes and the masks of a catalog are.
IsOctree ==
    /\ Top \in Nat
    /\ Catalog \subseteq (0 .. Top) \X Nat
    /\ Mask \in [Catalog -> SUBSET (0 .. 7)]

Level(key) == key[1]

\* Where an octant of a cell is (CellEntry.children, octree.morton_encode_one).
Octant(key, octant) == <<key[1] - 1, 8 * key[2] + octant>>

\* CellEntry.children, and the catalog rows among them.
Children(key) ==
    IF Level(key) = 0 THEN {} ELSE {Octant(key, octant) : octant \in Mask[key]} \cap Catalog

Roots == {key \in Catalog : Level(key) = Top}

VARIABLES plan,      \* the cells of the cut
          wanted,    \* the cells the query keeps
          good       \* the cells it finds good enough

vars == <<plan, wanted, good>>

Init ==
    /\ wanted \in SUBSET Catalog
    /\ good \in SUBSET Catalog
    /\ plan = Roots \cap wanted

Refine(key) ==
    /\ key \in plan
    /\ key \notin good
    /\ Children(key) \cap wanted # {}
    /\ plan' = (plan \ {key}) \cup (Children(key) \cap wanted)
    /\ UNCHANGED <<wanted, good>>

Next == \E key \in Catalog : Refine(key)

Spec == Init /\ [][Next]_vars

-----------------------------------------------------------------------------
\* The ways down from a coarsest cell, one cell a level, to a cell of level `bottom`.
WaysDownTo(bottom) ==
    {way \in [bottom .. Top -> Catalog] :
        /\ Level(way[Top]) = Top
        /\ \A l \in bottom .. Top - 1 : way[l] \in Children(way[l + 1])}

WaysDown == UNION {WaysDownTo(bottom) : bottom \in 0 .. Top}

Wanted(way) == \A l \in DOMAIN way : way[l] \in wanted

\* It cannot be followed any further down.
Ends(way) == \A l \in DOMAIN way : l - 1 \notin DOMAIN way => Children(way[l]) \cap wanted = {}

TypeOK == plan \subseteq wanted /\ wanted \subseteq Catalog /\ good \subseteq Catalog

\* No hole and no overlap: every way down through wanted cells, followed to its end, meets
\* the cut in exactly one cell.
Covers ==
    \A way \in WaysDown : Wanted(way) /\ Ends(way) =>
        \E l \in DOMAIN way : /\ way[l] \in plan
                              /\ \A k \in DOMAIN way : way[k] \in plan => k = l

\* No detail nobody asked for: what is above a cell of the cut was not good enough.
OnlyNeededDetail ==
    \A key \in plan : Level(key) = Top \/ \E parent \in wanted \ good : key \in Children(parent)
=============================================================================
