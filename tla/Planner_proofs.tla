---------------------------- MODULE Planner_proofs ----------------------------
(***************************************************************************)
(* Proofs about planner.plan_cells, for every catalog and every query,     *)
(* and about the cut it refines.                                           *)
(***************************************************************************)
EXTENDS Visibility, CommonLemmas

-----------------------------------------------------------------------------
(* A cut of the octree covers, however it is refined: Cut, whose plan is    *)
(* here what a descent has chosen and what still waits.                     *)

\* A cell is inside one cell of the level above.
LEMMA OneParent ==
    ASSUME Octree!IsOctree, NEW a \in Catalog, NEW b \in Catalog, NEW c \in Octree!Children(a),
           c \in Octree!Children(b)
    PROVE  a = b
<1> USE DEF Octree!IsOctree
<1>1. PICK i \in Mask[a] : c = Octree!Octant(a, i)
  BY DEF Octree!Children
<1>2. PICK j \in Mask[b] : c = Octree!Octant(b, j)
  BY DEF Octree!Children
<1>3. i \in 0 .. 7 /\ j \in 0 .. 7
  OBVIOUS
<1>4. PICK al \in 0 .. Top, am \in Nat : a = <<al, am>>
  OBVIOUS
<1>5. PICK bl \in 0 .. Top, bm \in Nat : b = <<bl, bm>>
  OBVIOUS
<1>6. <<al - 1, 8 * am + i>> = <<bl - 1, 8 * bm + j>>
  BY <1>1, <1>2, <1>4, <1>5 DEF Octree!Octant
<1>7. al - 1 = bl - 1 /\ 8 * am + i = 8 * bm + j
  BY <1>6
<1>8. al = bl /\ am = bm
  BY <1>3, <1>7
<1> QED
  BY <1>4, <1>5, <1>8

\* The children of a cell are cells of the catalog, and none is a coarsest cell.
LEMMA ChildrenAreFiner ==
    ASSUME Octree!IsOctree, NEW key \in Catalog, NEW c \in Octree!Children(key)
    PROVE  c \in Catalog /\ Octree!Level(c) # Top
<1> USE DEF Octree!IsOctree
<1>1. PICK i \in Mask[key] : c = Octree!Octant(key, i) /\ c \in Catalog
  BY DEF Octree!Children
<1>2. PICK kl \in 0 .. Top, km \in Nat : key = <<kl, km>>
  OBVIOUS
<1>3. Octree!Level(c) = kl - 1
  BY <1>1, <1>2 DEF Octree!Octant, Octree!Level
<1> QED
  BY <1>1, <1>2, <1>3

LEMMA CutTyped == Octree!Spec => []Octree!TypeOK
<1>1. Octree!Init => Octree!TypeOK
  BY DEF Octree!Init, Octree!TypeOK, Octree!Roots
<1>2. Octree!TypeOK /\ [Octree!Next]_(Octree!vars) => Octree!TypeOK'
  BY DEF Octree!TypeOK, Octree!Next, Octree!Refine, Octree!vars
<1> QED
  BY <1>1, <1>2, PTL DEF Octree!Spec

LEMMA RefineCovers ==
    ASSUME Octree!IsOctree, Octree!TypeOK, Octree!Covers, NEW key \in Catalog, Octree!Refine(key)
    PROVE  Octree!Covers'
<1> USE DEF Octree!TypeOK, Octree!IsOctree
<1> SUFFICES ASSUME NEW way \in Octree!WaysDown, Octree!Wanted(way), Octree!Ends(way)
             PROVE  \E l \in DOMAIN way : /\ way[l] \in (selected \cup queue)'
                                          /\ \A k \in DOMAIN way : way[k] \in (selected \cup queue)' => k = l
  BY DEF Octree!Covers, Octree!Refine, Octree!Wanted, Octree!Ends
<1>1. PICK l \in DOMAIN way : /\ way[l] \in selected \cup queue
                              /\ \A k \in DOMAIN way : way[k] \in selected \cup queue => k = l
  BY DEF Octree!Covers
<1>2. PICK bottom \in 0 .. Top :
          /\ way \in [bottom .. Top -> Catalog]
          /\ Octree!Level(way[Top]) = Top
          /\ \A k \in bottom .. Top - 1 : way[k] \in Octree!Children(way[k + 1])
  BY DEF Octree!WaysDown, Octree!WaysDownTo
<1>3. ASSUME NEW k \in DOMAIN way, way[k] \in Octree!Children(key)
      PROVE  k + 1 \in DOMAIN way /\ way[k + 1] = key
  <2>1. k # Top
    BY <1>2, <1>3, ChildrenAreFiner
  <2>2. k \in bottom .. Top - 1 /\ k + 1 \in DOMAIN way
    BY <1>2, <2>1
  <2> QED
    BY <1>2, <1>3, <2>2, OneParent
<1>4. (selected \cup queue)' = ((selected \cup queue) \ {key}) \cup (Octree!Children(key) \cap query.wanted)
  BY DEF Octree!Refine
<1>5. CASE way[l] # key
  <2>1. \A k \in DOMAIN way : way[k] # key
    BY <1>1, <1>5 DEF Octree!Refine
  <2>2. \A k \in DOMAIN way : way[k] \notin Octree!Children(key)
    BY <1>3, <2>1
  <2> QED
    BY <1>1, <1>4, <1>5, <2>2
<1>6. CASE way[l] = key
  <2>1. l - 1 \in DOMAIN way
    BY <1>6 DEF Octree!Ends, Octree!Refine
  <2>2. way[l - 1] \in Octree!Children(key) /\ way[l - 1] \in query.wanted
    BY <1>2, <1>6, <2>1 DEF Octree!Wanted
  <2>3. ASSUME NEW k \in DOMAIN way, way[k] \in (selected \cup queue)'
        PROVE  k = l - 1
    <3>1. way[k] \in Octree!Children(key)
      BY <1>1, <1>4, <1>6, <2>3
    <3>2. k + 1 = l
      BY <1>1, <1>3, <3>1 DEF Octree!Refine
    <3> QED
      BY <1>2, <3>2
  <2> QED
    BY <1>4, <2>1, <2>2, <2>3
<1> QED
  BY <1>5, <1>6

\* However a cut is refined, it covers: no hole in the surface, and no cell drawn over
\* another (planner.plan_cells, which refines a cut).
THEOREM CutCovers ==
    ASSUME Octree!IsOctree
    PROVE  Octree!Spec => []Octree!Covers
<1> USE DEF Octree!IsOctree
<1>1. Octree!Init => Octree!Covers
  <2> SUFFICES ASSUME Octree!Init, NEW way \in Octree!WaysDown, Octree!Wanted(way)
               PROVE  \E l \in DOMAIN way : /\ way[l] \in selected \cup queue
                                            /\ \A k \in DOMAIN way : way[k] \in selected \cup queue => k = l
    BY DEF Octree!Covers
  <2>1. PICK bottom \in 0 .. Top :
            /\ way \in [bottom .. Top -> Catalog]
            /\ Octree!Level(way[Top]) = Top
            /\ \A k \in bottom .. Top - 1 : way[k] \in Octree!Children(way[k + 1])
    BY DEF Octree!WaysDown, Octree!WaysDownTo
  <2>2. Top \in DOMAIN way /\ way[Top] \in selected \cup queue
    BY <2>1 DEF Octree!Init, Octree!Roots, Octree!Wanted
  <2>3. ASSUME NEW k \in DOMAIN way, way[k] \in selected \cup queue
        PROVE  k = Top
    <3>1. Octree!Level(way[k]) = Top
      BY <2>3 DEF Octree!Init, Octree!Roots
    <3>2. SUFFICES ASSUME k \in bottom .. Top - 1 PROVE FALSE
      BY <2>1
    <3>3. way[k + 1] \in Catalog /\ way[k] \in Octree!Children(way[k + 1])
      BY <2>1, <3>2
    <3> QED
      BY <3>1, <3>3, ChildrenAreFiner
  <2> QED
    BY <2>2, <2>3
<1>2. Octree!TypeOK /\ Octree!Covers /\ [Octree!Next]_(Octree!vars) => Octree!Covers'
  <2> SUFFICES ASSUME Octree!TypeOK, Octree!Covers, [Octree!Next]_(Octree!vars)
               PROVE  Octree!Covers'
    OBVIOUS
  <2>1. ASSUME NEW key \in Catalog, Octree!Refine(key)
        PROVE  Octree!Covers'
    BY <2>1, RefineCovers
  <2>2. CASE UNCHANGED Octree!vars
    BY <2>2 DEF Octree!vars, Octree!Covers, Octree!Wanted, Octree!Ends
  <2> QED
    BY <2>1, <2>2 DEF Octree!Next
<1> QED
  BY <1>1, <1>2, CutTyped, PTL DEF Octree!Spec

\* A cut holds no detail nobody asked for (planner.plan_cells, good_enough).
THEOREM CutHoldsOnlyNeededDetail == Octree!Spec => []Octree!OnlyNeededDetail
<1>1. Octree!Init => Octree!OnlyNeededDetail
  BY DEF Octree!Init, Octree!OnlyNeededDetail, Octree!Roots
<1>2. Octree!TypeOK /\ Octree!OnlyNeededDetail /\ [Octree!Next]_(Octree!vars) => Octree!OnlyNeededDetail'
  BY DEF Octree!TypeOK, Octree!OnlyNeededDetail, Octree!Next, Octree!Refine, Octree!vars
<1> QED
  BY <1>1, <1>2, CutTyped, PTL DEF Octree!Spec

-----------------------------------------------------------------------------
(* What the descent keeps. *)

LEMMA QueryTyped ==
    ASSUME query \in Queries
    PROVE  /\ query.wanted \subseteq Catalog
           /\ query.fits \subseteq Catalog
           /\ query.minLevel \in Int
           /\ query.maxCells \in (Nat \ {0}) \cup {NoLimit}
  BY QueriesAssumption

LEMMA LevelTyped ==
    ASSUME NEW key \in Catalog
    PROVE  Level(key) \in 0 .. Top
  BY CatalogAssumption DEF Level

LEMMA ChildLevel ==
    ASSUME NEW key \in Catalog, NEW c \in Children(key)
    PROVE  /\ c \in Catalog
           /\ c \in query.wanted
           /\ Level(c) = Level(key) - 1
<1>1. PICK i \in Mask[key] : c = Octree!Octant(key, i) /\ c \in Catalog
  BY DEF Children, Octree!Children
<1> QED
  BY <1>1 DEF Children, Octree!Octant, Level

LEMMA RootLevel ==
    ASSUME NEW key \in Octree!Roots
    PROVE  key \in Catalog /\ Level(key) = Top
  BY DEF Octree!Roots, Octree!Level, Level

\* The invariant the others rest on.  That a descent never meets again what it has settled
\* is a consequence of its order: the queue and the selection stay disjoint because nothing
\* is settled finer than what waits.
Ordered == TypeOK /\ BreadthFirst

LEMMA InitOrdered == Init => Ordered
<1> SUFFICES ASSUME Init PROVE Ordered
  OBVIOUS
<1>1. TypeOK
  BY DEF Init, TypeOK
<1>2. BreadthFirst
  BY RootLevel, CatalogAssumption DEF Init, BreadthFirst
<1> QED
  BY <1>1, <1>2 DEF Ordered

LEMMA SelectOrdered ==
    ASSUME Ordered, NEW key \in Catalog, Popped(key), Select(key),
           refused' \subseteq Nat \ {0}
    PROVE  Ordered'
<1> USE DEF Ordered
<1>1. TypeOK'
  BY DEF TypeOK, Popped, Select
<1>2. BreadthFirst'
  BY QueryTyped, LevelTyped DEF TypeOK, BreadthFirst, Popped, Select, Before
<1> QED
  BY <1>1, <1>2

LEMMA DescendOrdered ==
    ASSUME Ordered, NEW key \in Catalog, Descend(key)
    PROVE  Ordered'
<1> USE DEF Ordered
<1>1. \A other \in queue : Level(other) <= Level(key) /\ Level(other) >= Level(key) - 1
  BY QueryTyped, LevelTyped DEF TypeOK, BreadthFirst, Descend, Popped, Before
<1>2. \A s \in selected : Level(s) >= Level(key)
  BY DEF BreadthFirst, Descend, Popped
<1>3. \A c \in Children(key) : c \in Catalog /\ c \in query.wanted /\ Level(c) = Level(key) - 1
  BY ChildLevel
<1>4. Level(key) \in 0 .. Top
  BY LevelTyped
<1>5. \A c \in Children(key) : c \notin selected
  BY <1>2, <1>3, <1>4
<1>6. TypeOK'
  BY <1>3, <1>5 DEF TypeOK, Descend
<1>7. \A a, b \in queue' : Level(a) - Level(b) <= 1
  BY <1>1, <1>3, <1>4, QueryTyped, LevelTyped, CatalogAssumption DEF TypeOK, Descend
<1>8. \A s \in selected', a \in queue' : Level(s) >= Level(a)
  BY <1>2, <1>3, <1>4, QueryTyped, LevelTyped, CatalogAssumption DEF TypeOK, BreadthFirst, Descend
<1> QED
  BY <1>6, <1>7, <1>8 DEF BreadthFirst

LEMMA ChildrenCount ==
    ASSUME NEW key \in Catalog, Children(key) # {}
    PROVE  IsFiniteSet(Children(key)) /\ Cardinality(Children(key)) \in Nat \ {0}
<1>1. IsFiniteSet(Children(key))
  BY ChildLevel, FS_Subset, CatalogAssumption
<1> QED
  BY <1>1, FS_CardinalityType, FS_EmptySet

LEMMA StepOrdered == Ordered /\ [Next]_vars => Ordered'
<1> SUFFICES ASSUME Ordered, [Next]_vars PROVE Ordered'
  OBVIOUS
<1>1. ASSUME NEW key \in Catalog, SelectGood(key) PROVE Ordered'
  BY <1>1, SelectOrdered DEF SelectGood, Ordered, TypeOK
<1>2. ASSUME NEW key \in Catalog, SelectFinest(key) PROVE Ordered'
  BY <1>2, SelectOrdered DEF SelectFinest, Ordered, TypeOK
<1>3. ASSUME NEW key \in Catalog, SelectCoarse(key) PROVE Ordered'
  <2>1. refused' \subseteq Nat \ {0}
    BY <1>3, ChildrenCount DEF SelectCoarse, Ordered, TypeOK
  <2> QED
    BY <1>3, <2>1, SelectOrdered DEF SelectCoarse
<1>4. ASSUME NEW key \in Catalog, Descend(key) PROVE Ordered'
  BY <1>4, DescendOrdered
<1>5. CASE Return
  BY <1>5 DEF Return, Ordered, TypeOK, BreadthFirst
<1>6. CASE UNCHANGED vars
  BY <1>6 DEF vars, Ordered, TypeOK, BreadthFirst
<1> QED
  BY <1>1, <1>2, <1>3, <1>4, <1>5, <1>6 DEF Next, Turn

\* A cell is never both drawn and waiting, and nothing the query does not want is either
\* (planner.plan_cells), whatever the octree and the query.
THEOREM PlannerTyped == Spec => []TypeOK
<1>1. Spec => []Ordered
  BY InitOrdered, StepOrdered, PTL DEF Spec
<1> QED
  BY <1>1, PTL DEF Ordered

\* The descent settles the octree breadth first, so that a budget which runs out runs out
\* everywhere at about the same level (planner.plan_cells, the heap keyed by -level).
THEOREM DescendsBreadthFirst == Spec => [](TypeOK /\ BreadthFirst)
<1>1. Spec => []Ordered
  BY InitOrdered, StepOrdered, PTL DEF Spec
<1> QED
  BY <1>1, PTL DEF Ordered

-----------------------------------------------------------------------------
LEMMA InitIsACut == Init => Octree!Init
  BY QueryTyped DEF Init, Octree!Init

LEMMA SelectIsAStutter ==
    ASSUME NEW key, Popped(key), Select(key)
    PROVE  UNCHANGED Octree!vars
  BY DEF Popped, Select, Octree!vars

LEMMA StepIsACut == Ordered /\ [Next]_vars => [Octree!Next]_(Octree!vars)
<1> SUFFICES ASSUME Ordered, [Next]_vars PROVE [Octree!Next]_(Octree!vars)
  OBVIOUS
<1>1. ASSUME NEW key \in Catalog, SelectGood(key) \/ SelectFinest(key) \/ SelectCoarse(key)
      PROVE  UNCHANGED Octree!vars
  BY <1>1, SelectIsAStutter DEF SelectGood, SelectFinest, SelectCoarse
<1>2. ASSUME NEW key \in Catalog, Descend(key)
      PROVE  Octree!Refine(key)
  <2>1. key \in queue /\ key \notin selected
    BY <1>2 DEF Descend, Popped, Ordered, TypeOK
  <2>2. (selected \cup queue)' = ((selected \cup queue) \ {key}) \cup Children(key)
    BY <1>2, <2>1 DEF Descend
  <2>3. Children(key) # {} /\ ~GoodEnough(key) /\ query' = query
    BY <1>2 DEF Descend
  <2> QED
    BY <2>1, <2>2, <2>3 DEF Octree!Refine, Children, GoodEnough, Level
<1>3. CASE Return
  BY <1>3 DEF Return, Octree!vars
<1>4. CASE UNCHANGED vars
  BY <1>4 DEF vars, Octree!vars
<1> QED
  BY <1>1, <1>2, <1>3, <1>4 DEF Next, Turn, Octree!Next

\* Whatever branch the loop takes, the plan it is building is a cut being refined: every
\* turn is a step of Cut or leaves the cut as it is (planner.plan_cells).
THEOREM PlannerRefinesCut == Spec => IsACut
<1>1. Spec => []Ordered
  BY InitOrdered, StepOrdered, PTL DEF Spec
<1> QED
  BY <1>1, InitIsACut, StepIsACut, PTL DEF Spec, IsACut, Octree!Spec
-----------------------------------------------------------------------------
\* However the budget cuts the descent short, and whatever the query keeps, no region is left
\* out and none is drawn twice (planner.plan_cells, "degrading detail is the right failure").
THEOREM PlannerCovers == Spec => []Covers
<1>1. Octree!IsOctree
  BY CatalogAssumption DEF Octree!IsOctree
<1> QED
  BY <1>1, PlannerRefinesCut, CutCovers, PTL DEF IsACut, Covers

\* The same, for detail: a cell is in a plan only because its parent was looked at and was
\* not good enough (planner.plan_cells).
THEOREM PlannerHoldsOnlyNeededDetail == Spec => []OnlyNeededDetail
  BY PlannerRefinesCut, CutHoldsOnlyNeededDetail, PTL DEF IsACut, OnlyNeededDetail

-----------------------------------------------------------------------------
(* The budget.  Removing the popped cell and adding children that are not  *)
(* there yet are sums of cardinalities.                                    *)

LEMMA FiniteParts ==
    ASSUME TypeOK
    PROVE  /\ IsFiniteSet(queue) /\ Cardinality(queue) \in Nat
           /\ IsFiniteSet(selected) /\ Cardinality(selected) \in Nat
           /\ IsFiniteSet(Octree!Roots \cap query.wanted)
           /\ Cardinality(Octree!Roots \cap query.wanted) \in Nat
<1>1. query.wanted \subseteq Catalog
  BY QueryTyped DEF TypeOK
<1>2. /\ queue \subseteq Catalog
      /\ selected \subseteq Catalog
      /\ Octree!Roots \cap query.wanted \subseteq Catalog
  BY <1>1 DEF TypeOK
<1>3. IsFiniteSet(queue) /\ IsFiniteSet(selected) /\ IsFiniteSet(Octree!Roots \cap query.wanted)
  BY <1>2, FS_Subset, CatalogAssumption
<1> QED
  BY <1>3, FS_CardinalityType

\* Settling a cell leaves the size of the plan as it is.
LEMMA SelectCount ==
    ASSUME TypeOK, NEW key, Popped(key), Select(key)
    PROVE  Planned' = Planned
<1>1. key \in queue /\ key \notin selected
  BY DEF Popped, TypeOK
<1>2. Cardinality(queue \ {key}) = Cardinality(queue) - 1
  BY <1>1, FiniteParts, FS_RemoveElement
<1>3. Cardinality(selected \cup {key}) = Cardinality(selected) + 1
  BY <1>1, FiniteParts, FS_AddElement
<1> QED
  BY <1>2, <1>3, FiniteParts DEF Select, Planned

\* No cell waits together with one of its children.
NoChildWaits == \A a, c \in queue : c \notin Children(a)

Counted == Ordered /\ NoChildWaits

LEMMA InitCounted == Init => Counted
<1> SUFFICES ASSUME Init PROVE NoChildWaits
  BY InitOrdered DEF Counted
<1> SUFFICES ASSUME NEW a \in queue, NEW c \in queue, c \in Children(a) PROVE FALSE
  BY DEF NoChildWaits
<1>1. Level(a) = Top /\ Level(c) = Top /\ a \in Catalog
  BY RootLevel DEF Init
<1> QED
  BY <1>1, ChildLevel, CatalogAssumption

LEMMA StepCounted == Counted /\ [Next]_vars => Counted'
<1> SUFFICES ASSUME Counted, [Next]_vars PROVE NoChildWaits'
  BY StepOrdered DEF Counted
<1> USE DEF Counted
<1>1. ASSUME NEW key \in Catalog, Descend(key) PROVE NoChildWaits'
  <2> SUFFICES ASSUME NEW a \in queue', NEW c \in queue', c \in Children(a)' PROVE FALSE
    BY DEF NoChildWaits
  <2>1. query' = query /\ queue' = (queue \ {key}) \cup Children(key)
    BY <1>1 DEF Descend
  <2>2. c \in Children(a) /\ a \in Catalog
    BY <2>1, ChildLevel, QueryTyped DEF Children, Ordered, TypeOK
  <2>3. CASE a \in queue /\ a # key
    <3>1. c \in Children(key)
      BY <2>1, <2>2, <2>3 DEF NoChildWaits
    <3> QED
      BY <2>2, <2>3, <3>1, OneParent, CatalogAssumption DEF Octree!IsOctree, Children
  <2>4. CASE a \in Children(key)
    <3>1. Level(c) = Level(key) - 2 /\ Level(key) \in 0 .. Top
      BY <2>2, <2>4, ChildLevel, LevelTyped
    <3>2. c \in queue
      BY <2>1, <3>1, ChildLevel
    <3>3. key \in queue
      BY <1>1 DEF Descend, Popped
    <3> QED
      BY <3>1, <3>2, <3>3 DEF Ordered, BreadthFirst
  <2> QED
    BY <2>1, <2>3, <2>4
<1>2. ASSUME NEW key \in Catalog, Select(key) PROVE NoChildWaits'
  BY <1>2 DEF Select, NoChildWaits, Children
<1>3. CASE Return
  BY <1>3 DEF Return, NoChildWaits, Children
<1>4. CASE UNCHANGED vars
  BY <1>4 DEF vars, NoChildWaits, Children
<1> QED
  BY <1>1, <1>2, <1>3, <1>4 DEF Next, Turn, SelectGood, SelectFinest, SelectCoarse

\* Refining a cell adds its wanted children to the plan, less itself.
LEMMA DescendCount ==
    ASSUME Counted, NEW key \in Catalog, Descend(key)
    PROVE  /\ Planned' = Planned - 1 + Cardinality(Children(key))
           /\ Cardinality(queue \ {key}) = Cardinality(queue) - 1
<1> USE DEF Counted, Ordered
<1>1. key \in queue
  BY DEF Descend, Popped
<1>2. Cardinality(queue \ {key}) = Cardinality(queue) - 1 /\ IsFiniteSet(queue \ {key})
  BY <1>1, FiniteParts, FS_RemoveElement
<1>3. IsFiniteSet(Children(key)) /\ Cardinality(Children(key)) \in Nat
  BY ChildrenCount DEF Descend
<1>4. (queue \ {key}) \cap Children(key) = {}
  BY <1>1 DEF NoChildWaits
<1>5. Cardinality((queue \ {key}) \cup Children(key))
        = Cardinality(queue \ {key}) + Cardinality(Children(key))
  <2>1. Cardinality((queue \ {key}) \cup Children(key))
          = Cardinality(queue \ {key}) + Cardinality(Children(key))
              - Cardinality((queue \ {key}) \cap Children(key))
    BY <1>2, <1>3, FS_Union
  <2>2. Cardinality((queue \ {key}) \cap Children(key)) = 0
    BY <1>4, FS_EmptySet
  <2>3. Cardinality(queue \ {key}) \in Nat
    BY <1>2, FS_CardinalityType
  <2> QED
    BY <1>3, <2>1, <2>2, <2>3
<1>6. selected' = selected /\ queue' = (queue \ {key}) \cup Children(key)
  BY DEF Descend
<1> QED
  BY <1>2, <1>3, <1>5, <1>6, FiniteParts DEF Planned

LEMMA SelectionCounts ==
    ASSUME TypeOK, NEW key \in Catalog, SelectGood(key) \/ SelectFinest(key) \/ SelectCoarse(key)
    PROVE  /\ Planned' = Planned
           /\ query' = query
           /\ queue' \subseteq queue
  BY SelectCount DEF SelectGood, SelectFinest, SelectCoarse, Select

LEMMA StepBudget == Counted /\ BudgetRespected /\ [Next]_vars => BudgetRespected'
<1> SUFFICES ASSUME Counted, BudgetRespected, [Next]_vars PROVE BudgetRespected'
  OBVIOUS
<1> USE DEF Counted, Ordered
<1>1. ASSUME NEW key \in Catalog, SelectGood(key) \/ SelectFinest(key) \/ SelectCoarse(key)
      PROVE  BudgetRespected'
  BY <1>1, SelectionCounts DEF BudgetRespected, Octree!Roots, Octree!Level
<1>2. ASSUME NEW key \in Catalog, Descend(key)
      PROVE  BudgetRespected'
  <2>1. query' = query
    BY <1>2 DEF Descend
  <2> SUFFICES ASSUME query.maxCells # NoLimit PROVE Planned' <= query.maxCells
    BY <2>1 DEF BudgetRespected
  <2>2. Cardinality(selected) + Cardinality(queue \ {key}) + Cardinality(Children(key)) <= query.maxCells
    <3>1. query.maxCells \in Nat
      BY QueryTyped DEF TypeOK
    <3>2. Cardinality(Children(key)) \in Nat
      BY <1>2, ChildrenCount DEF Descend
    <3> QED
      BY <1>2, <3>1, <3>2, DescendCount, FiniteParts DEF Descend, Overruns
  <2>3. Planned' = Planned - 1 + Cardinality(Children(key))
        /\ Cardinality(queue \ {key}) = Cardinality(queue) - 1
    BY <1>2, DescendCount
  <2>4. Cardinality(Children(key)) \in Nat /\ query.maxCells \in Nat
    BY <1>2, ChildrenCount, QueryTyped DEF Descend, TypeOK
  <2> HIDE DEF Counted, Ordered
  <2>5. Cardinality(selected) \in Nat /\ Cardinality(queue) \in Nat
    BY FiniteParts DEF Counted, Ordered
  <2>6. Planned = Cardinality(selected) + Cardinality(queue)
    BY DEF Planned
  <2> QED
    BY <2>2, <2>3, <2>4, <2>5, <2>6
<1>3. CASE Return
  BY <1>3 DEF Return, BudgetRespected, Planned, Octree!Roots, Octree!Level
<1>4. CASE UNCHANGED vars
  BY <1>4 DEF vars, BudgetRespected, Planned, Octree!Roots, Octree!Level
<1> QED
  BY <1>1, <1>2, <1>3, <1>4 DEF Next, Turn

\* max_cells is a descent budget: the plan, finished or not, is never larger than it, unless
\* the coarsest level alone is (planner.plan_cells, its docstring's "descent budget").
THEOREM PlannerRespectsBudget == Spec => []BudgetRespected
<1>1. Init => BudgetRespected
  <2> SUFFICES ASSUME Init PROVE Planned = Cardinality(Octree!Roots \cap query.wanted)
    BY InitOrdered, FiniteParts DEF BudgetRespected, Ordered
  <2> QED
    BY InitOrdered, FiniteParts, FS_EmptySet DEF Init, Planned, Ordered
<1> QED
  BY <1>1, InitCounted, StepCounted, StepBudget, PTL DEF Spec

-----------------------------------------------------------------------------
\* What was refused once would be refused still: the plan has not become smaller since.
Spent ==
    \A n \in refused : query.maxCells # NoLimit /\ Planned - 1 + n > query.maxCells

LEMMA StepSpent == Counted /\ Spent /\ [Next]_vars => Spent'
<1> SUFFICES ASSUME Counted, Spent, [Next]_vars PROVE Spent'
  OBVIOUS
<1> USE DEF Counted, Ordered
<1>t. Planned \in Nat /\ refused \subseteq Nat \ {0} /\ query.maxCells \in (Nat \ {0}) \cup {NoLimit}
  BY FiniteParts, QueryTyped DEF Planned, TypeOK
<1>1. ASSUME NEW key \in Catalog, SelectGood(key) \/ SelectFinest(key)
      PROVE  Spent'
  BY <1>1, SelectionCounts DEF Spent, SelectGood, SelectFinest
<1>2. ASSUME NEW key \in Catalog, SelectCoarse(key)
      PROVE  Spent'
  <2>1. Cardinality(queue \ {key}) = Cardinality(queue) - 1
    BY <1>2, FiniteParts, FS_RemoveElement DEF SelectCoarse, Popped
  <2>2. Planned - 1 + Cardinality(Children(key)) > query.maxCells /\ query.maxCells # NoLimit
    BY <1>2, <2>1, FiniteParts, ChildrenCount DEF SelectCoarse, Overruns, Planned
  <2> QED
    BY <1>2, <2>2, SelectionCounts DEF Spent, SelectCoarse
<1>3. ASSUME NEW key \in Catalog, Descend(key)
      PROVE  Spent'
  <2>1. Planned' >= Planned /\ Planned' \in Nat
    <3>1. Planned' = Planned - 1 + Cardinality(Children(key))
      BY <1>3, DescendCount
    <3>2. Cardinality(Children(key)) \in Nat \ {0}
      BY <1>3, ChildrenCount DEF Descend
    <3> QED
      BY <1>t, <3>1, <3>2
  <2> QED
    BY <1>3, <1>t, <2>1 DEF Spent, Descend
<1>4. CASE Return
  BY <1>4 DEF Return, Spent, Planned
<1>5. CASE UNCHANGED vars
  BY <1>5 DEF vars, Spent, Planned
<1> QED
  BY <1>1, <1>2, <1>3, <1>4, <1>5 DEF Next, Turn

LEMMA StepOvertakesNothing ==
    Counted /\ Spent /\ [Next]_vars =>
        [\A n \in refused : Cardinality(queue' \ queue) < n]_vars
<1> SUFFICES ASSUME Counted, Spent, [Next]_vars, NEW n \in refused
             PROVE  Cardinality(queue' \ queue) < n
  OBVIOUS
<1> USE DEF Counted, Ordered
<1>t. Planned \in Nat /\ n \in Nat \ {0} /\ query.maxCells \in Nat /\ query.maxCells # NoLimit
  BY FiniteParts, QueryTyped DEF Planned, TypeOK, Spent
<1>1. CASE queue' \subseteq queue
  <2>1. queue' \ queue = {}
    BY <1>1
  <2> QED
    BY <1>t, <2>1, FS_EmptySet
<1>2. ASSUME NEW key \in Catalog, Descend(key)
      PROVE  Cardinality(queue' \ queue) < n
  <2>1. IsFiniteSet(Children(key)) /\ Cardinality(Children(key)) \in Nat
    BY <1>2, ChildrenCount DEF Descend
  <2>2. queue' \ queue \subseteq Children(key)
    BY <1>2 DEF Descend
  <2>3. Cardinality(queue' \ queue) <= Cardinality(Children(key)) /\ Cardinality(queue' \ queue) \in Nat
    BY <2>1, <2>2, FS_Subset, FS_CardinalityType
  <2>4. Planned - 1 + Cardinality(Children(key)) <= query.maxCells
    BY <1>2, <1>t, <2>1, DescendCount, FiniteParts DEF Descend, Overruns, Planned
  <2> QED
    BY <1>t, <2>1, <2>3, <2>4 DEF Spent
<1> QED
  BY <1>1, <1>2, SelectionCounts DEF Next, Turn, Return, vars

\* The budget is handed out in the order of the descent and never taken back: a cell kept
\* coarse for it is not overtaken by a later one that costs as much (planner.plan_cells,
\* which counts the selected, the waiting and the children).
THEOREM PlannerNeverOvertakes == Spec => NoOvertaking
<1>1. Init => Spent
  BY DEF Init, Spent
<1> QED
  BY <1>1, InitCounted, StepCounted, StepSpent, StepOvertakesNothing, PTL DEF Spec, NoOvertaking

-----------------------------------------------------------------------------
(* The frustum and the box.                                                *)

LEMMA DotIsSum ==
    ASSUME NEW u \in [Axes -> Int], NEW v \in [Axes -> Int]
    PROVE  Dot(u, v) = SumOf([a \in Axes |-> u[a] * v[a]], Axes)
<1> DEFINE f == [a \in Axes |-> u[a] * v[a]]
           Sums(g) == g = [T \in SUBSET Axes |->
                             IF T = {} THEN 0
                             ELSE u[Some(T)] * v[Some(T)] + g[T \ {Some(T)}]]
<1>1. Dot(u, v) = (CHOOSE g : Sums(g))[Axes]
  BY DEF Dot, MapThenSumSet, MapThenFoldSet, Some
<1>2. SumOf(f, Axes) = (CHOOSE g : SumsUp(g, f, Axes))[Axes]
  BY DEF SumOf, MapThenSumSet, MapThenFoldSet, SumsUp, Some
<1>3. \A T \in SUBSET Axes : T # {} => f[Some(T)] = u[Some(T)] * v[Some(T)]
  BY DEF Some
<1>4. ASSUME NEW g PROVE Sums(g) <=> SumsUp(g, f, Axes)
  <2>1. [T \in SUBSET Axes |-> IF T = {} THEN 0 ELSE u[Some(T)] * v[Some(T)] + g[T \ {Some(T)}]]
          = [T \in SUBSET Axes |-> IF T = {} THEN 0 ELSE f[Some(T)] + g[T \ {Some(T)}]]
    BY <1>3
  <2> QED BY <2>1 DEF SumsUp
<1>5. (CHOOSE g : Sums(g)) = (CHOOSE g : SumsUp(g, f, Axes))
  <2> HIDE DEF Sums
  <2> QED BY <1>4
<1> QED
  BY <1>1, <1>2, <1>5

\* No point of a box is further along a normal than the corner the test looks at.
LEMMA FurthestIsFurthest ==
    ASSUME NEW bounds \in Box, NEW plane \in Plane, NEW point \in [Axes -> Int],
           \A a \in Axes : bounds.low[a] <= point[a] /\ point[a] <= bounds.high[a]
    PROVE  Dot(plane.normal, point) \in Int
           /\ Dot(plane.normal, Furthest(bounds, plane.normal)) \in Int
           /\ Dot(plane.normal, point) <= Dot(plane.normal, Furthest(bounds, plane.normal))
<1> DEFINE normal == plane.normal
           corner == Furthest(bounds, normal)
           f == [a \in Axes |-> normal[a] * point[a]]
           g == [a \in Axes |-> normal[a] * corner[a]]
<1>1. normal \in [Axes -> Int] /\ bounds.low \in [Axes -> Int] /\ bounds.high \in [Axes -> Int]
  BY DEF Plane, Box
<1>2. corner \in [Axes -> Int]
  BY <1>1 DEF Furthest
<1>3. ASSUME NEW a \in Axes PROVE normal[a] * point[a] <= normal[a] * corner[a]
  <2>1. normal[a] \in Int /\ point[a] \in Int /\ bounds.low[a] \in Int /\ bounds.high[a] \in Int
    BY <1>1
  <2>2. CASE normal[a] >= 0
    <3>1. corner[a] = bounds.high[a] /\ point[a] <= corner[a]
      BY <2>2 DEF Furthest
    <3> QED BY <2>1, <2>2, <3>1
  <2>3. CASE ~(normal[a] >= 0)
    <3>1. corner[a] = bounds.low[a] /\ corner[a] <= point[a]
      BY <2>3 DEF Furthest
    <3> QED BY <2>1, <2>3, <3>1
  <2> QED BY <2>2, <2>3
<1> HIDE DEF corner, normal
<1>4. f \in [Axes -> Int] /\ g \in [Axes -> Int] /\ \A a \in Axes : f[a] <= g[a]
  BY <1>1, <1>2, <1>3
<1>5. Dot(normal, point) = SumOf(f, Axes) /\ Dot(normal, corner) = SumOf(g, Axes)
  BY <1>1, <1>2, DotIsSum
<1>6. SumOf(f, Axes) \in Int /\ SumOf(g, Axes) \in Int /\ SumOf(f, Axes) <= SumOf(g, Axes)
  <2> HIDE DEF f, g
  <2> QED BY <1>4, ViewAssumption, SumTyped, SumMonotone
<1> QED
  BY <1>5, <1>6 DEF corner, normal

\* What is above a cell of which a point can be seen passes the box and the frustum.
LEMMA AboveTheVisible ==
    ASSUME NEW key \in Catalog, Visible(key), view.box \in Box,
           \A plane \in view.planes : plane \in Plane,
           NEW above \in Catalog,
           \A a \in Axes : /\ Bounds[above].low[a] <= Bounds[key].low[a]
                          /\ Bounds[key].high[a] <= Bounds[above].high[a]
    PROVE  Overlaps(Bounds[above], view.box) /\ InsideFrustum(Bounds[above], view.planes)
<1>1. PICK point \in [Axes -> Space] :
        /\ \A a \in Axes : /\ Bounds[key].low[a] <= point[a] /\ point[a] <= Bounds[key].high[a]
                           /\ view.box.low[a] <= point[a] /\ point[a] <= view.box.high[a]
        /\ \A plane \in view.planes : Inside(plane, point)
  BY DEF Visible
<1>2. point \in [Axes -> Int]
  BY ViewAssumption
<1>3. /\ Bounds[above] \in Box /\ Bounds[key] \in Box
  BY ViewAssumption
<1>4. \A a \in Axes : /\ Bounds[above].low[a] \in Int /\ Bounds[above].high[a] \in Int
                     /\ Bounds[key].low[a] \in Int /\ Bounds[key].high[a] \in Int
                     /\ view.box.low[a] \in Int /\ view.box.high[a] \in Int
                     /\ point[a] \in Int
  BY <1>2, <1>3 DEF Box
<1>5. \A a \in Axes : Bounds[above].low[a] <= point[a] /\ point[a] <= Bounds[above].high[a]
  BY <1>1, <1>4
<1>6. Overlaps(Bounds[above], view.box)
  BY <1>1, <1>4, <1>5 DEF Overlaps
<1>7. ASSUME NEW plane \in view.planes
      PROVE  Inside(plane, Furthest(Bounds[above], plane.normal))
  <2>1. plane \in Plane /\ plane.offset \in Int /\ Inside(plane, point)
    BY <1>1 DEF Plane
  <2>2. /\ Dot(plane.normal, point) \in Int
        /\ Dot(plane.normal, Furthest(Bounds[above], plane.normal)) \in Int
        /\ Dot(plane.normal, point) <= Dot(plane.normal, Furthest(Bounds[above], plane.normal))
    BY <1>2, <1>3, <1>5, <2>1, FurthestIsFurthest
  <2> QED BY <2>1, <2>2 DEF Inside
<1> QED
  BY <1>6, <1>7 DEF InsideFrustum

-----------------------------------------------------------------------------
(* The cells above a cell.                                                 *)

\* The cell n levels above.
Above(key, n) == <<key[1] + n, key[2] \div 2 ^ (3 * n)>>

LEMMA AboveTwice ==
    ASSUME NEW key \in Nat \X Nat, NEW n \in Nat
    PROVE  /\ Above(key, 0) = key
           /\ Above(key, n) \in Nat \X Nat
           /\ Above(key, n + 1) = <<Above(key, n)[1] + 1, Above(key, n)[2] \div 8>>
<1>1. 2 ^ 0 = 1
  OBVIOUS
<1>2. 2 ^ (3 * n) \in Nat \ {0} /\ 2 ^ (3 * n + 1) = 2 * 2 ^ (3 * n)
  BY PowerOfTwo
<1>3. 2 ^ ((3 * n + 1) + 1) = 2 * 2 ^ (3 * n + 1) /\ 2 ^ (((3 * n + 1) + 1) + 1) = 2 * 2 ^ ((3 * n + 1) + 1)
  BY PowerOfTwo
<1>4. 3 * (n + 1) = ((3 * n + 1) + 1) + 1
  OBVIOUS
<1>5. 2 ^ (3 * (n + 1)) = 2 ^ (3 * n) * 8
  BY <1>2, <1>3, <1>4
<1>6. (key[2] \div 2 ^ (3 * n)) \div 8 = key[2] \div (2 ^ (3 * n) * 8)
  BY <1>2, DivideTwice
<1>7. key[2] \div 2 ^ (3 * n) \in Nat /\ key[1] + n \in Nat
  BY <1>2
<1>8. key[2] \div 2 ^ (3 * 0) = key[2]
  BY <1>1
<1> QED
  BY <1>5, <1>6, <1>7, <1>8 DEF Above

LEMMA ParentIsAbove ==
    ASSUME NEW parent \in Catalog, NEW key \in Octree!Children(parent)
    PROVE  key \in Catalog /\ parent = <<key[1] + 1, key[2] \div 8>>
<1>1. parent = <<parent[1], parent[2]>> /\ parent[1] \in Nat /\ parent[2] \in Nat
  BY CatalogAssumption
<1>2. PICK i \in Mask[parent] : key = Octree!Octant(parent, i) /\ key \in Catalog
  BY DEF Octree!Children
<1>3. i \in 0 .. 7
  BY CatalogAssumption
<1>4. key[1] = parent[1] - 1 /\ key[2] = 8 * parent[2] + i
  BY <1>2 DEF Octree!Octant
<1>5. (8 * parent[2] + i) \div 8 = parent[2]
  BY <1>1, <1>3
<1> QED
  BY <1>1, <1>2, <1>4, <1>5

\* In a rooted catalog there is a way down to each cell, through the cells above it; where
\* bounds are nested, all of them hold the cell's.
LEMMA WayDown ==
    ASSUME Rooted, NEW key \in Catalog,
           NEW way, way = [l \in key[1] .. Top |-> Above(key, l - key[1])]
    PROVE  /\ way \in Octree!WaysDown
           /\ DOMAIN way = key[1] .. Top
           /\ way[key[1]] = key
           /\ Nested => \A l \in key[1] .. Top : \A a \in Axes :
                            /\ Bounds[way[l]].low[a] <= Bounds[key].low[a]
                            /\ Bounds[key].high[a] <= Bounds[way[l]].high[a]
<1> DEFINE up(n) == Above(key, n)
           Holds(cell) == \A a \in Axes : /\ Bounds[cell].low[a] <= Bounds[key].low[a]
                                         /\ Bounds[key].high[a] <= Bounds[cell].high[a]
           P == {n \in Nat : key[1] + n <= Top => up(n) \in Catalog /\ (Nested => Holds(up(n)))}
<1>1. key \in Nat \X Nat /\ key[1] \in 0 .. Top /\ Top \in Nat
  BY CatalogAssumption
<1>2. ASSUME NEW n \in Nat, key[1] + n < Top, up(n) \in Catalog
      PROVE  up(n + 1) \in Catalog /\ up(n) \in Octree!Children(up(n + 1))
  <2>1. up(n)[1] = key[1] + n
    BY DEF Above
  <2>2. PICK parent \in Catalog : up(n) \in Octree!Children(parent)
    BY <1>2, <2>1 DEF Rooted
  <2>3. parent = <<up(n)[1] + 1, up(n)[2] \div 8>>
    <3> HIDE DEF up
    <3> QED BY <2>2, ParentIsAbove
  <2>4. up(n + 1) = <<up(n)[1] + 1, up(n)[2] \div 8>>
    BY <1>1, AboveTwice
  <2> QED BY <2>2, <2>3, <2>4
<1>3. 0 \in P
  <2>1. \A a \in Axes : Bounds[key].low[a] \in Int /\ Bounds[key].high[a] \in Int
    BY ViewAssumption DEF Box
  <2>2. up(0) = key
    BY <1>1, AboveTwice
  <2> QED BY <2>1, <2>2
<1>4. ASSUME NEW n \in Nat, n \in P PROVE n + 1 \in P
  <2> SUFFICES ASSUME key[1] + (n + 1) <= Top
               PROVE  up(n + 1) \in Catalog /\ (Nested => Holds(up(n + 1)))
    OBVIOUS
  <2>1. key[1] + n < Top /\ up(n) \in Catalog /\ (Nested => Holds(up(n)))
    BY <1>1, <1>4
  <2>2. up(n + 1) \in Catalog /\ up(n) \in Octree!Children(up(n + 1))
    BY <1>2, <2>1
  <2>3. \A a \in Axes : /\ Bounds[up(n + 1)].low[a] \in Int /\ Bounds[up(n + 1)].high[a] \in Int
                       /\ Bounds[up(n)].low[a] \in Int /\ Bounds[up(n)].high[a] \in Int
                       /\ Bounds[key].low[a] \in Int /\ Bounds[key].high[a] \in Int
    BY <2>1, <2>2, ViewAssumption DEF Box
  <2>4. ASSUME Nested PROVE Holds(up(n + 1))
    <3>1. \A a \in Axes : /\ Bounds[up(n + 1)].low[a] <= Bounds[up(n)].low[a]
                         /\ Bounds[up(n)].high[a] <= Bounds[up(n + 1)].high[a]
      BY <2>2, <2>4 DEF Nested
    <3> HIDE DEF up
    <3> QED BY <2>1, <2>3, <2>4, <3>1
  <2> QED BY <2>2, <2>4
<1>5. Nat \subseteq P
  <2> HIDE DEF P
  <2> QED BY <1>3, <1>4, NatSetInduction
<1>6. ASSUME NEW l \in key[1] .. Top
      PROVE  /\ l - key[1] \in Nat /\ way[l] = up(l - key[1]) /\ way[l] \in Catalog
             /\ Nested => Holds(way[l])
  <2>1. l - key[1] \in Nat /\ key[1] + (l - key[1]) <= Top
    BY <1>1
  <2> QED BY <1>5, <2>1
<1>7. way \in [key[1] .. Top -> Catalog]
  BY <1>6
<1>8. ASSUME NEW l \in key[1] .. Top - 1 PROVE way[l] \in Octree!Children(way[l + 1])
  <2>1. /\ l \in key[1] .. Top /\ l + 1 \in key[1] .. Top
        /\ (l + 1) - key[1] = (l - key[1]) + 1 /\ key[1] + (l - key[1]) < Top
    BY <1>1
  <2>2. way[l] = up(l - key[1]) /\ way[l + 1] = up((l - key[1]) + 1) /\ l - key[1] \in Nat
        /\ up(l - key[1]) \in Catalog
    BY <1>6, <2>1
  <2> QED BY <1>2, <2>1, <2>2
<1>9. way[Top][1] = Top /\ way[key[1]] = key
  <2>1. Top \in key[1] .. Top /\ key[1] \in key[1] .. Top /\ key[1] + (Top - key[1]) = Top
        /\ key[1] - key[1] = 0
    BY <1>1
  <2>2. way[Top] = Above(key, Top - key[1]) /\ way[key[1]] = Above(key, 0)
    BY <2>1
  <2> QED BY <1>1, <2>1, <2>2, AboveTwice DEF Above
<1>10. way \in Octree!WaysDownTo(key[1])
  BY <1>7, <1>8, <1>9 DEF Octree!WaysDownTo, Octree!Level
<1> QED
  BY <1>1, <1>6, <1>7, <1>9, <1>10 DEF Octree!WaysDown

\* What a call looks at does not change, and a plan that is returned waits for nothing.
Viewing ==
    /\ query.wanted = {key \in Catalog : Wanted(key, view)}
    /\ view.box \in Box /\ \A plane \in view.planes : plane \in Plane
    /\ returned => queue = {}

LEMMA InitViewing == ViewedInit => Viewing
  BY ViewAssumption DEF ViewedInit, Init, Viewing

LEMMA StepViewing == Viewing /\ [ViewedNext]_viewedVars => Viewing'
<1> SUFFICES ASSUME Viewing, [ViewedNext]_viewedVars PROVE Viewing'
  OBVIOUS
<1>1. UNCHANGED view
  BY DEF ViewedNext, viewedVars
<1>2. UNCHANGED query
  BY DEF ViewedNext, viewedVars, vars, Next, Turn, SelectGood, SelectFinest, SelectCoarse, Descend,
         Select, Return
<1>3. returned' => queue' = {}
  BY DEF Viewing, ViewedNext, viewedVars, vars, Next, Turn, SelectGood, SelectFinest, SelectCoarse,
         Descend, Select, Return, Popped
<1>4. query.wanted = {key \in Catalog : Wanted(key, view)} =>
        query'.wanted = {key \in Catalog : Wanted(key, view')}
  BY <1>1, <1>2
<1>5. query'.wanted = {key \in Catalog : Wanted(key, view')}
  BY <1>4 DEF Viewing
<1>6. {key \in Catalog : Wanted(key, view')} = {key \in Catalog : Wanted(key, view)'}
  OBVIOUS
<1> QED
  BY <1>1, <1>3, <1>5, <1>6 DEF Viewing

\* What can be seen is drawn, at its own level or a coarser.
LEMMA VisibleIsDrawn ==
    ASSUME Rooted, Nested, Viewing, Covers, returned,
           NEW key \in Finest, Visible(key), Asked(key)
    PROVE  \E drawn \in selected : AtOrAbove(drawn, key)
<1> DEFINE way == [l \in key[1] .. Top |-> Above(key, l - key[1])]
<1>1. key \in Catalog /\ Octree!Children(key) = {} /\ key[1] \in 0 .. Top /\ Top \in Nat
  BY CatalogAssumption DEF Finest
<1>2. /\ way \in Octree!WaysDown /\ DOMAIN way = key[1] .. Top /\ way[key[1]] = key
      /\ \A l \in key[1] .. Top : \A a \in Axes :
            /\ Bounds[way[l]].low[a] <= Bounds[key].low[a]
            /\ Bounds[key].high[a] <= Bounds[way[l]].high[a]
  <2> HIDE DEF way
  <2> QED BY <1>1, WayDown DEF way
<1>3. ASSUME NEW l \in DOMAIN way PROVE way[l] \in Catalog /\ AtOrAbove(way[l], key)
  <2>1. way[l] \in Catalog
    BY <1>2 DEF Octree!WaysDown, Octree!WaysDownTo
  <2>2. way[l] = Above(key, l - key[1]) /\ l \in key[1] .. Top
    OBVIOUS
  <2>3. /\ way[l][1] = key[1] + (l - key[1])
        /\ way[l][2] = key[2] \div 2 ^ (3 * (l - key[1]))
        /\ key[1] + (l - key[1]) = l /\ l >= key[1]
    BY <1>1, <2>2 DEF Above
  <2> QED BY <2>1, <2>3 DEF AtOrAbove
<1> HIDE DEF way
<1>4. Octree!Wanted(way)
  <2> SUFFICES ASSUME NEW l \in DOMAIN way PROVE Wanted(way[l], view)
    BY <1>3 DEF Octree!Wanted, Viewing
  <2>1. way[l] \in Catalog /\ AtOrAbove(way[l], key)
    BY <1>3
  <2>2. way[l] \in view.allowed
    BY <2>1 DEF Asked
  <2>3. Overlaps(Bounds[way[l]], view.box) /\ InsideFrustum(Bounds[way[l]], view.planes)
    BY <1>1, <1>2, <2>1, AboveTheVisible DEF Viewing
  <2> QED BY <2>2, <2>3 DEF Wanted
<1>5. Octree!Ends(way)
  <2> SUFFICES ASSUME NEW l \in DOMAIN way, l - 1 \notin DOMAIN way PROVE Octree!Children(way[l]) = {}
    BY DEF Octree!Ends
  <2>1. l = key[1]
    BY <1>1, <1>2
  <2> QED BY <1>1, <1>2, <2>1
<1>6. \E l \in DOMAIN way : way[l] \in selected \cup queue
  BY <1>2, <1>4, <1>5 DEF Covers, Octree!Covers
<1> QED
  BY <1>3, <1>6 DEF Viewing

\* The frustum test is conservative ("never cull one that is") wherever the catalog is what
\* the test supposes it to be: a cell's bounds hold what is below it, so that a coarse cell is
\* not culled in front of a fine one that can be seen (planner._inside_frustum, plan_cells).
\* A collection whose decimated cells have shrunk need not be so.
THEOREM NestedBoundsAreNeverCulled ==
    ASSUME Rooted, Nested
    PROVE  ViewedSpec => []NeverCullsTheVisible
<1>1. ViewedSpec => Spec
  <2>1. ViewedInit => Init
    BY DEF ViewedInit
  <2>2. [ViewedNext]_viewedVars => [Next]_vars
    BY DEF ViewedNext, viewedVars
  <2> QED BY <2>1, <2>2, PTL DEF ViewedSpec, Spec
<1>2. ViewedSpec => []Viewing
  BY InitViewing, StepViewing, PTL DEF ViewedSpec
<1>3. Viewing /\ Covers => NeverCullsTheVisible
  BY VisibleIsDrawn DEF NeverCullsTheVisible
<1> QED
  BY <1>1, <1>2, <1>3, PlannerCovers, PTL
=============================================================================
