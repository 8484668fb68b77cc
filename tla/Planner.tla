------------------------------- MODULE Planner --------------------------------
(***************************************************************************)
(* planner.plan_cells: a descent of the octree over the cell catalog.  One *)
(* turn of its loop is a step; each branch of the loop body is an action.  *)
(*                                                                         *)
(* A query is what its arguments come to over this catalog: the cells the  *)
(* box, the frustum and the objects keep, the cells whose error fits the   *)
(* budget from where the camera is, the finest level it may go to, and     *)
(* max_cells.                                                              *)
(***************************************************************************)
EXTENDS Integers, FiniteSets

CONSTANTS Top, Catalog, Mask,
          Queries,   \* the arguments of plan_cells
          NoLimit    \* max_cells is None

ASSUME CatalogAssumption ==
    /\ Top \in Nat
    /\ Catalog \subseteq (0 .. Top) \X Nat
    /\ IsFiniteSet(Catalog)
    /\ Mask \in [Catalog -> SUBSET (0 .. 7)]

ASSUME QueriesAssumption ==
    /\ Queries \subseteq [wanted : SUBSET Catalog, fits : SUBSET Catalog,
                          minLevel : Int, maxCells : (Nat \ {0}) \cup {NoLimit}]
    /\ NoLimit \notin Nat

VARIABLES query,
          queue,      \* the heap: the cells still to be looked at
          selected,   \* the cells chosen
          returned,
          refused     \* history: how many children were refused for the budget, each time

vars == <<query, queue, selected, returned, refused>>

Octree == INSTANCE Cut WITH
    plan <- selected \cup queue,
    wanted <- query.wanted,
    good <- {key \in Catalog : key[1] <= query.minLevel \/ key \in query.fits}

Level(key) == key[1]

\* A faulty test that forgets min_level.
GoodEnoughByError(key) == key \in query.fits

\* good_enough(entry).
GoodEnough(key) == Level(key) <= query.minLevel \/ key \in query.fits

\* The catalog rows of a cell's children that are wanted.
Children(key) == Octree!Children(key) \cap query.wanted

Init ==
    /\ query \in Queries
    /\ queue = Octree!Roots \cap query.wanted
    /\ selected = {}
    /\ returned = FALSE
    /\ refused = {}

\* A faulty order: the finest level first.
BeforeFinest(a, b) == Level(a) < Level(b) \/ (Level(a) = Level(b) /\ a[2] <= b[2])

\* The heap's order: the coarsest level first, Morton order within a level.
Before(a, b) == Level(a) > Level(b) \/ (Level(a) = Level(b) /\ a[2] <= b[2])

Popped(key) ==
    /\ key \in queue
    /\ \A other \in queue : Before(key, other)

\* A faulty selection, of a cell that stays in the queue.
SelectWithoutPop(key) ==
    /\ selected' = selected \cup {key}
    /\ UNCHANGED <<query, queue, returned>>

Select(key) ==
    /\ queue' = queue \ {key}
    /\ selected' = selected \cup {key}
    /\ UNCHANGED <<query, returned>>

SelectGood(key) ==
    /\ Popped(key)
    /\ GoodEnough(key)
    /\ Select(key)
    /\ UNCHANGED refused

\* A faulty test for the end of the descent: only level 0 has nothing below it.
SelectLevelZero(key) ==
    /\ Popped(key)
    /\ ~GoodEnough(key)
    /\ Level(key) = 0
    /\ Select(key)
    /\ UNCHANGED refused

\* Nothing finer is wanted here.
SelectFinest(key) ==
    /\ Popped(key)
    /\ ~GoodEnough(key)
    /\ Children(key) = {}
    /\ Select(key)
    /\ UNCHANGED refused

\* A faulty budget that forgets the cells still waiting.
OverrunsSelected(key) ==
    /\ query.maxCells # NoLimit
    /\ Cardinality(selected) + Cardinality(Children(key)) > query.maxCells

\* A faulty budget that forgets the cells chosen already.
OverrunsWaiting(key) ==
    /\ query.maxCells # NoLimit
    /\ Cardinality(queue \ {key}) + Cardinality(Children(key)) > query.maxCells

\* len(selected) + len(queue) + len(children) > max_cells, the cell itself being popped.
Overruns(key) ==
    /\ query.maxCells # NoLimit
    /\ Cardinality(selected) + Cardinality(queue \ {key}) + Cardinality(Children(key)) > query.maxCells

\* A faulty answer to the budget: the cell is dropped.
DropCoarse(key) ==
    /\ Popped(key)
    /\ ~GoodEnough(key)
    /\ Children(key) # {}
    /\ Overruns(key)
    /\ queue' = queue \ {key}
    /\ UNCHANGED <<query, selected, returned>>
    /\ refused' = refused \cup {Cardinality(Children(key))}

\* Descending would overrun the budget: the coarse cell is kept whole.
SelectCoarse(key) ==
    /\ Popped(key)
    /\ ~GoodEnough(key)
    /\ Children(key) # {}
    /\ Overruns(key)
    /\ Select(key)
    /\ refused' = refused \cup {Cardinality(Children(key))}

\* A faulty descent, into a cell that is drawn as well.
DescendAndSelect(key) ==
    /\ Popped(key)
    /\ ~GoodEnough(key)
    /\ Children(key) # {}
    /\ ~Overruns(key)
    /\ queue' = (queue \ {key}) \cup Children(key)
    /\ selected' = selected \cup {key}
    /\ UNCHANGED <<query, returned, refused>>

Descend(key) ==
    /\ Popped(key)
    /\ ~GoodEnough(key)
    /\ Children(key) # {}
    /\ ~Overruns(key)
    /\ queue' = (queue \ {key}) \cup Children(key)
    /\ UNCHANGED <<query, selected, returned, refused>>

\* The loop ends, and the selection is returned in the heap's own order.
Return ==
    /\ ~returned
    /\ queue = {}
    /\ returned' = TRUE
    /\ UNCHANGED <<query, queue, selected, refused>>

Turn(key) == SelectGood(key) \/ SelectFinest(key) \/ SelectCoarse(key) \/ Descend(key)

Next == (\E key \in Catalog : Turn(key)) \/ Return

Spec == Init /\ [][Next]_vars

\* A call that is running keeps running.
FairSpec == Spec /\ WF_vars(Next)

-----------------------------------------------------------------------------
\* Every variable has its type, and the plan is made of cells the query wants.
TypeOK ==
    /\ query \in Queries
    /\ queue \subseteq query.wanted
    /\ selected \subseteq query.wanted
    /\ queue \cap selected = {}
    /\ returned \in BOOLEAN
    /\ refused \subseteq Nat \ {0}

Planned == Cardinality(selected) + Cardinality(queue)

\* max_cells bounds the plan at every moment, down to the number of coarsest cells: "once
\* selecting a cell's children would take the plan past it, the coarse cell is kept whole"
\* (plan_cells, the test in front of the push).
BudgetRespected ==
    query.maxCells # NoLimit =>
        \/ Planned <= query.maxCells
        \/ Planned <= Cardinality(Octree!Roots \cap query.wanted)

\* "The descent is breadth-first from the coarsest level down": what waits is of two
\* neighbouring levels, and nothing has been settled finer than something that waits, so a
\* budget that runs out leaves no corner refined while another is not (the heap's key).
BreadthFirst ==
    /\ \A a, b \in queue : Level(a) - Level(b) <= 1
    /\ \A key \in selected, a \in queue : Level(key) >= Level(a)

\* Through every turn of the loop: no hole and no overlap, whatever max_cells cuts short and
\* whatever the query wants -- "dropping the cell would punch a hole in the surface".
Covers == Octree!Covers

\* Nothing finer than was asked for: the parent of a planned cell was not good enough
\* (plan_cells tests good_enough before it looks at the children).
OnlyNeededDetail == Octree!OnlyNeededDetail

\* The descent changes the plan only by refining a cell that is not good enough into all of
\* its wanted children.
IsACut == Octree!Spec

\* The budget is not handed out unfairly: once a cell was kept coarse for it, no later cell
\* with as many children is refined (plan_cells counts what is selected and what waits).
NoOvertaking == [][\A n \in refused : Cardinality(queue' \ queue) < n]_vars

\* The call returns, on every catalog and every query.
Terminates == <>returned
=============================================================================
