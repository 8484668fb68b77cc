------------------------------- MODULE Simplify -------------------------------
(***************************************************************************)
(* How a piece is made coarser: the backends (simplifiers/greedy.py,       *)
(* simplifiers/quadric.py) and the loop that relaxes a target until        *)
(* something of the surface survives it (simplifiers/registry.py).         *)
(***************************************************************************)
EXTENDS Decimate

VARIABLES request,   \* the arguments of simplify_to_target
          attempt,   \* the target it tries
          asking,    \* "no", "attempt", "collapse" while the greedy collapse runs, "answered"
          answer     \* what it returned, and whether the target was relaxed

simplifyVars == <<decimateVars, request, attempt, asking, answer>>

\* A backend: its name, and the settings of its greedy collapse.
Backends == [name : {"GREEDY", "QUADRIC"}, interval : Nat \ {0}, placement : Placements]

NoRequest == [points |-> <<>>, faces |-> <<>>, fixed |-> {}, target |-> 0,
              backend |-> [name |-> "GREEDY", interval |-> 1, placement |-> "midpoint"]]

NoAnswer == [points |-> <<>>, faces |-> <<>>, error |-> 0, relaxed |-> FALSE]

SimplifyInit ==
    /\ DecimateInit
    /\ request = NoRequest
    /\ attempt = 0
    /\ asking = "no"
    /\ answer = NoAnswer

-----------------------------------------------------------------------------
(* simplifiers/measure.py. *)

Positions(points) == {points[v] : v \in DOMAIN points}

\* measure_deviation: how far a point of the one may be from the nearest of the other.
MeasureDeviation(before, after) ==
    Max({Min({Distance(p, q) : q \in Positions(after)}) : p \in Positions(before)})

\* boundary_held and pinned_held.
Held(points, vertices, kept) == \A v \in vertices : points[v] \in Positions(kept)

BoundaryHeld(points, faces, kept) == Held(points, BorderVertices(faces), kept)
PinnedHeldBy(points, kept, fixed) == Held(points, fixed, kept)

-----------------------------------------------------------------------------
(* fast_simplification.simplify, as the code uses it: it may return less of the mesh, the same, *)
(* or nothing, and it may not hold what preserve_border asks it to hold, since the code does    *)
(* not rely on it.  Less is one edge less, of the shortest; the vertex that is left of it may   *)
(* be put outside the surface, where the quadric of a bulge is least.                           *)

NoMesh == [points |-> <<>>, faces |-> <<>>]

\* The mesh once an edge's ends are one vertex.
WithoutEdge(mesh, edge, point) ==
    LET faces == ProperFaces(Renamed(mesh.faces, LAMBDA v : IF v = edge[2] THEN edge[1] ELSE v))
    IN  Compacted([mesh.points EXCEPT ![edge[1]] = point], faces, Used(faces))

ShortestEdges(mesh) ==
    LET squared(e) == SquaredLength(mesh.points[e[1]], mesh.points[e[2]])
    IN  {e \in Edges(mesh.faces) : \A other \in Edges(mesh.faces) : squared(e) <= squared(other)}

\* As far beyond p as half of the way from q to it.
Beyond(p, q) == [a \in Axes |-> p[a] + (p[a] - q[a]) \div 2]

LibraryOutcomes(mesh) ==
    {NoMesh, Compacted(mesh.points, mesh.faces, Used(mesh.faces))}
        \cup UNION {LET p == mesh.points[e[1]]
                        q == mesh.points[e[2]]
                    IN  {WithoutEdge(mesh, e, point) : point \in {p, q, Midpoint(p, q), Beyond(p, q)}} :
                     e \in ShortestEdges(mesh)}

-----------------------------------------------------------------------------
(* simplifiers/registry.py, simplify_to_target. *)

SimplifyToTarget(r) ==
    /\ asking = "no"
    /\ request' = r
    /\ attempt' = Max({1, r.target})
    /\ asking' = "attempt"
    /\ answer' = NoAnswer
    /\ UNCHANGED decimateVars

Trying == asking = "attempt" /\ attempt < Len(request.faces)

Answer(mesh, error, relaxed) ==
    /\ asking' = "answered"
    /\ answer' = [points |-> mesh.points, faces |-> mesh.faces, error |-> error, relaxed |-> relaxed]
    /\ UNCHANGED <<request, attempt>>

\* Nothing of the surface survived.
Vanished(faces) == faces = <<>>

\* A faulty retry, with the same target.
RelaxNot == asking' = "attempt" /\ UNCHANGED <<request, attempt, answer>>

\* The target is doubled for the next attempt.
Relax == attempt' = 2 * attempt /\ asking' = "attempt" /\ UNCHANGED <<request, answer>>

\* GreedyEdgeCollapse.simplify, and its call of decimate_fixed.
Greedy(settings) ==
    /\ Begin([points |-> request.points, faces |-> request.faces, fixed |-> request.fixed,
              target |-> attempt, interval |-> settings.interval, placement |-> settings.placement])
    /\ asking' = "collapse"
    /\ UNCHANGED <<request, attempt, answer>>

TryGreedy ==
    /\ Trying
    /\ request.backend.name = "GREEDY"
    /\ Greedy(request.backend)

\* A faulty return, that takes whatever the collapse has left.
TakeCollapseAsItIs ==
    /\ asking = "collapse"
    /\ Leave
    /\ Answer(result, result.error, attempt # request.target)

TakeCollapse ==
    /\ asking = "collapse"
    /\ Leave
    /\ \/ Vanished(result.faces) /\ Relax
       \/ ~Vanished(result.faces) /\ Answer(result, result.error, attempt # request.target)

\* QuadricSimplifier.simplify: what must not have moved has not.
Trusted(outcome) ==
    /\ BoundaryHeld(request.points, request.faces, outcome.points)
    /\ PinnedHeldBy(request.points, outcome.points, request.fixed)

TryLibrary(outcome) ==
    /\ Trying
    /\ request.backend.name = "QUADRIC"
    /\ \/ /\ Vanished(outcome.faces)
          /\ Relax
          /\ UNCHANGED decimateVars
       \/ /\ ~Vanished(outcome.faces)
          /\ Trusted(outcome)
          /\ Answer(outcome, MeasureDeviation(request.points, outcome.points), attempt # request.target)
          /\ UNCHANGED decimateVars
       \/ /\ ~Vanished(outcome.faces)
          /\ ~Trusted(outcome)
          /\ Greedy([interval |-> 1, placement |-> "midpoint"])

\* No target below the whole surface leaves anything of it.
KeepWhole ==
    /\ asking = "attempt"
    /\ attempt >= Len(request.faces)
    /\ Answer(request, 0, TRUE)
    /\ UNCHANGED decimateVars

SimplifyTurn ==
    \/ TryGreedy
    \/ \E outcome \in LibraryOutcomes([points |-> request.points, faces |-> request.faces]) :
          TryLibrary(outcome)
    \/ (DecimateTurn /\ UNCHANGED <<request, attempt, asking, answer>>)
    \/ TakeCollapse
    \/ KeepWhole
=============================================================================
