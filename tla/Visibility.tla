------------------------------ MODULE Visibility ------------------------------
(***************************************************************************)
(* plan_cells with the arguments that make its query: the wanted cells of  *)
(* Planner are those that hold one of the objects asked for and whose      *)
(* bounds, as the catalog records them, meet a box and a frustum.  A       *)
(* cell's bounds are those of its own vertices (build_collection), and a   *)
(* coarse cell's vertices are decimated ones.                              *)
(***************************************************************************)
EXTENDS Planner, FiniteSetsExt

CONSTANTS Axes,
          Bounds,    \* Bounds[key]: a cell's bbox_min and bbox_max
          Calls,     \* calls of plan_cells: a view, and what its budgets come to
          Space      \* the coordinates there are

Box   == [low : [Axes -> Int], high : [Axes -> Int]]
Plane == [normal : [Axes -> Int], offset : Int]

ASSUME ViewAssumption ==
    /\ IsFiniteSet(Axes)
    /\ Space \subseteq Int
    /\ Bounds \in [Catalog -> Box]
    /\ \A call \in Calls : call.view.box \in Box /\ \A plane \in call.view.planes : plane \in Plane

VARIABLES view       \* the box, the planes, and the cells the objects asked for are in
viewedVars == <<vars, view>>

\* _overlaps: touching counts.
Overlaps(bounds, box) ==
    \A a \in Axes : bounds.high[a] >= box.low[a] /\ bounds.low[a] <= box.high[a]

Dot(u, v) == MapThenSumSet(LAMBDA a : u[a] * v[a], Axes)

Inside(plane, point) == Dot(plane.normal, point) + plane.offset >= 0

\* The wrong corner.
Nearest(bounds, normal) ==
    [a \in Axes |-> IF normal[a] >= 0 THEN bounds.low[a] ELSE bounds.high[a]]

\* The corner of a box furthest along a normal.
Furthest(bounds, normal) ==
    [a \in Axes |-> IF normal[a] >= 0 THEN bounds.high[a] ELSE bounds.low[a]]

\* _inside_frustum.
InsideFrustum(bounds, planes) ==
    \A plane \in planes : Inside(plane, Furthest(bounds, plane.normal))

\* wanted(entry).
Wanted(key, v) ==
    key \in v.allowed /\ Overlaps(Bounds[key], v.box) /\ InsideFrustum(Bounds[key], v.planes)

ViewedInit ==
    /\ \E call \in Calls :
          /\ view = call.view
          /\ query = [wanted |-> {key \in Catalog : Wanted(key, call.view)}, fits |-> call.fits,
                      minLevel |-> call.minLevel, maxCells |-> call.maxCells]
    /\ Init

ViewedNext == Next /\ UNCHANGED view

\* A call that is running keeps running.
ViewedSpec == ViewedInit /\ [][ViewedNext]_viewedVars /\ WF_viewedVars(ViewedNext)

-----------------------------------------------------------------------------
\* Some point of the cell is in the box and inside every plane.
Visible(key) ==
    \E point \in [Axes -> Space] :
        /\ \A a \in Axes : /\ Bounds[key].low[a] <= point[a] /\ point[a] <= Bounds[key].high[a]
                           /\ view.box.low[a] <= point[a] /\ point[a] <= view.box.high[a]
        /\ \A plane \in view.planes : Inside(plane, point)

Finest == {key \in Catalog : Octree!Children(key) = {}}

AtOrAbove(coarse, key) ==
    coarse[1] >= key[1] /\ coarse[2] = key[2] \div 2 ^ (3 * (coarse[1] - key[1]))

\* An object is in the coarse cells above each of its cells, too.
Asked(key) == \A coarse \in Catalog : AtOrAbove(coarse, key) => coarse \in view.allowed

\* The cell above each cell but the coarsest is in the catalog, and its mask names the cell.
Rooted == \A key \in Catalog : key[1] < Top => \E parent \in Catalog : key \in Octree!Children(parent)

\* A cell's bounds are within those of the cell above it.
Nested ==
    \A parent \in Catalog : \A key \in Octree!Children(parent) : \A a \in Axes :
        Bounds[parent].low[a] <= Bounds[key].low[a] /\ Bounds[key].high[a] <= Bounds[parent].high[a]

\* The frustum test is "conservative: it may keep a cell that is not visible, never cull one
\* that is" (test_a_frustum_culls_what_is_behind_it; _inside_frustum says the same): what can
\* be seen of the finest geometry there is of the objects asked for, is in the plan, at its
\* own level or a coarser.
NeverCullsTheVisible ==
    returned => \A key \in Finest :
                    Visible(key) /\ Asked(key) => \E drawn \in selected : AtOrAbove(drawn, key)
=============================================================================
