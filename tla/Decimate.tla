------------------------------- MODULE Decimate -------------------------------
(***************************************************************************)
(* geometry.decimate_fixed: the collapse of a mesh's edges, shortest       *)
(* first, until few enough faces are left.  One turn of its loop is a step.*)
(*                                                                         *)
(* The vertices that have become one are kept as a forest (`parent`), in   *)
(* which whoever looks for a root shortens the path it went.               *)
(***************************************************************************)
EXTENDS Mesh

VARIABLES call,      \* the arguments
          parent,
          place,     \* where the vertices are
          waiting,   \* the edges the loop has not come to
          since,     \* collapses_since_check
          stage,     \* "idle", "collapsing", or "collapsed" when the loop is over
          result     \* what was returned: a mesh, and its error

decimateVars == <<call, parent, place, waiting, since, stage, result>>

Placements == {"midpoint", "onto_fixed"}

\* The arguments decimate_fixed is called with.
Calls == [points : Seq(Point), faces : Seq(Face), fixed : SUBSET Nat, target : Nat,
          interval : Nat \ {0}, placement : Placements]

IsCall(c) ==
    /\ c \in Calls
    /\ c.fixed \subseteq DOMAIN c.points
    /\ Used(c.faces) \subseteq DOMAIN c.points

NoCall == [points |-> <<>>, faces |-> <<>>, fixed |-> {}, target |-> 0,
           interval |-> 1, placement |-> "midpoint"]

NoResult == [points |-> <<>>, faces |-> <<>>, error |-> 0]

-----------------------------------------------------------------------------
\* _find for every vertex: the root of its tree.
Roots(up) ==
    LET root[v \in DOMAIN up] == IF up[v] = v THEN v ELSE root[up[v]]
    IN  root

\* The vertices a _find passes.
Path(up, v) ==
    LET path[w \in DOMAIN up] == IF up[w] = w THEN {w} ELSE {w} \cup path[up[w]]
    IN  path[v]

\* What _find leaves behind: every vertex it passed hangs from its root.
Compressed(up, found) ==
    LET roots  == Roots(up)
        passed == UNION {Path(up, v) : v \in found}
    IN  [v \in DOMAIN up |-> IF v \in passed THEN roots[v] ELSE up[v]]

\* The faces that are left when vertices stand for their roots.
LiveFaces(roots) == ProperFaces(Renamed(call.faces, LAMBDA v : roots[v]))

Length(edge) == SquaredLength(call.points[edge[1]], call.points[edge[2]])

\* The loop comes to the edges in the order of their first lengths, ties in any order.
Shortest(edge) ==
    /\ edge \in waiting
    /\ \A other \in waiting : Length(edge) <= Length(other)

Returned(c, kept, faces, error) ==
    LET mesh == Compacted(kept, faces, Used(faces))
    IN  [points |-> mesh.points, faces |-> mesh.faces, error |-> error]

-----------------------------------------------------------------------------
DecimateInit ==
    /\ call = NoCall
    /\ parent = <<>>
    /\ place = <<>>
    /\ waiting = {}
    /\ since = 0
    /\ stage = "idle"
    /\ result = NoResult

\* Called, and few enough faces already.
ReturnUnchanged(c) ==
    /\ stage = "idle"
    /\ Len(c.faces) <= c.target
    /\ call' = c
    /\ parent' = [v \in DOMAIN c.points |-> v]
    /\ place' = c.points
    /\ stage' = "collapsed"
    /\ result' = [points |-> c.points, faces |-> c.faces, error |-> 0]
    /\ UNCHANGED <<waiting, since>>

Begin(c) ==
    /\ stage = "idle"
    /\ Len(c.faces) > c.target
    /\ call' = c
    /\ parent' = [v \in DOMAIN c.points |-> v]
    /\ place' = c.points
    /\ waiting' = Edges(c.faces)
    /\ since' = 0
    /\ stage' = "collapsing"
    /\ result' = NoResult

\* One vertex already, or neither may give way.
Blocked(ra, rb) == ra = rb \/ (ra \in call.fixed /\ rb \in call.fixed)

Skip(edge) ==
    /\ stage = "collapsing"
    /\ Shortest(edge)
    /\ Blocked(Roots(parent)[edge[1]], Roots(parent)[edge[2]])
    /\ parent' = Compressed(parent, {edge[1], edge[2]})
    /\ waiting' = waiting \ {edge}
    /\ UNCHANGED <<call, place, since, stage, result>>

\* A faulty choice: the lower root stays, pinned or not.
FirstStays(ra, rb) == TRUE

\* Which of two roots the other hangs from: the pinned one, or the lower end's.
Stays(ra, rb) == ra \in call.fixed \/ rb \notin call.fixed

\* A faulty placement, halfway to a pinned vertex too.
HalfwayAlways(ra, rb, kept) ==
    IF call.placement = "midpoint"
    THEN [place EXCEPT ![kept] = Midpoint(place[ra], place[rb])]
    ELSE place

\* Where the vertices are once two roots are one.
Moved(ra, rb, kept) ==
    IF call.placement = "midpoint" /\ ra \notin call.fixed /\ rb \notin call.fixed
    THEN [place EXCEPT ![kept] = Midpoint(place[ra], place[rb])]
    ELSE place

\* The loop ends: the faces that are left, and how far any vertex has moved.
Finish(up, at) ==
    LET roots == Roots(up)
    IN  /\ parent' = [v \in DOMAIN up |-> roots[v]]
        /\ stage' = "collapsed"
        /\ result' = Returned(call, at, LiveFaces(roots),
                              Max({Distance(at[roots[v]], call.points[v]) : v \in DOMAIN up}))

\* One collapse, and every so many of them a count of what is left.
Collapse(edge) ==
    LET ra      == Roots(parent)[edge[1]]
        rb      == Roots(parent)[edge[2]]
        kept    == IF Stays(ra, rb) THEN ra ELSE rb
        dropped == IF Stays(ra, rb) THEN rb ELSE ra
        up      == [Compressed(parent, {edge[1], edge[2]}) EXCEPT ![dropped] = kept]
    IN  /\ stage = "collapsing"
        /\ Shortest(edge)
        /\ ~Blocked(ra, rb)
        /\ place' = Moved(ra, rb, kept)
        /\ \/ /\ since + 1 < call.interval
              /\ since' = since + 1
              /\ waiting' = waiting \ {edge}
              /\ parent' = up
              /\ UNCHANGED <<stage, result>>
           \/ /\ since + 1 >= call.interval
              /\ Len(LiveFaces(Roots(up))) > call.target
              /\ since' = 0
              /\ waiting' = waiting \ {edge}
              /\ parent' = [v \in DOMAIN up |-> Roots(up)[v]]
              /\ UNCHANGED <<stage, result>>
           \/ /\ since + 1 >= call.interval
              /\ Len(LiveFaces(Roots(up))) <= call.target
              /\ since' = 0
              /\ waiting' = {}
              /\ Finish(up, place')
        /\ UNCHANGED call

\* No edge is left.
RunOut ==
    /\ stage = "collapsing"
    /\ waiting = {}
    /\ Finish(parent, place)
    /\ UNCHANGED <<call, place, waiting, since>>

\* The caller takes the result.
Leave == stage = "collapsed" /\ stage' = "idle" /\ UNCHANGED <<call, parent, place, waiting, since, result>>

DecimateTurn == (\E edge \in waiting : Skip(edge) \/ Collapse(edge)) \/ RunOut

DecimateNext == (\E c \in Calls : IsCall(c) /\ (ReturnUnchanged(c) \/ Begin(c))) \/ DecimateTurn \/ Leave

DecimateSpec == DecimateInit /\ [][DecimateNext]_decimateVars

-----------------------------------------------------------------------------
\* What the vertices have become, whatever paths have been shortened.
Abstract == INSTANCE Collapse WITH
    pinned <- call.fixed,
    original <- call.points,
    standsFor <- Roots(parent)

\* Every turn of the loop merges two vertices that may be merged, or changes nothing: the
\* collapse is a collapse, whatever paths _find has shortened.
ImplementsCollapse == Abstract!Spec

\* A fixed vertex has never been given up for another and never moved, however the collapses
\* chain: nothing that became one with it carries it away ("every on-plane vertex held fixed
\* -- never moved, never collapsed away", geometry.py).
PinnedHeld == Abstract!PinnedHeld
=============================================================================
