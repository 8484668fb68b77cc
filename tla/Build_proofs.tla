------------------------------ MODULE Build_proofs -----------------------------
(***************************************************************************)
(* Of a build: decimation collapses edges and holds the pinned vertices    *)
(* (Decimate); snapping keeps a vertex in its cell and makes it            *)
(* representable, and a cell's code names the cell and its children        *)
(* (Lattice); what is cut, welded and simplified is a mesh that keeps a    *)
(* face (Mesh, Simplify); and so every level has something of whatever the *)
(* finest has, and the rows keep to their lattices (Build, Verify).  Then, *)
(* where a greedy collapse may put a vertex, and that the levels therefore *)
(* agree along the seams between cells.                                    *)
(***************************************************************************)
EXTENDS Verify, CommonLemmas

-----------------------------------------------------------------------------
\* What Roots computes by following parents: f is the root of every tree.
Follows(up, f) == f = [v \in DOMAIN up |-> IF up[v] = v THEN v ELSE f[up[v]]]

\* Every set that is closed under parents holds the root of each of its vertices.  This is what
\* makes up a forest: there is no way past a root, and none that goes round.
Grounded(up, f) ==
    \A C \in SUBSET DOMAIN up : (\A w \in C : up[w] \in C) => \A v \in C : f[v] \in C

Forest(up, f) ==
    /\ up \in [DOMAIN up -> DOMAIN up]
    /\ f \in [DOMAIN up -> DOMAIN up]
    /\ Follows(up, f)
    /\ \A v \in DOMAIN up : up[f[v]] = f[v]
    /\ Grounded(up, f)

\* Two functions that follow the parents of a forest are one.
LEMMA FollowersAgree ==
    ASSUME NEW up, NEW f, NEW g, Forest(up, f), Follows(up, g)
    PROVE  g = f
<1>1. ASSUME NEW i \in DOMAIN up PROVE g[i] = f[i]
  <2> DEFINE C == {v \in DOMAIN up : g[v] = g[i]}
  <2>1. \A w \in C : up[w] \in C
    <3>1. TAKE w \in C
    <3>2. CASE up[w] = w
      BY <3>1, <3>2
    <3>3. CASE up[w] # w
      <4>1. g[w] = g[up[w]]
        BY <3>1, <3>3 DEF Follows
      <4>2. up[w] \in DOMAIN up
        BY <3>1 DEF Forest
      <4> QED BY <3>1, <4>1, <4>2
    <3> QED BY <3>2, <3>3
  <2>2. f[i] \in C
    BY <2>1 DEF Forest, Grounded
  <2>3. g[f[i]] = f[i]
    BY <2>2 DEF Forest, Follows
  <2> QED BY <2>2, <2>3
<1> QED BY <1>1 DEF Forest, Follows

\* Roots computes the roots.
LEMMA RootsOfForest ==
    ASSUME NEW up, NEW f, Forest(up, f)
    PROVE  Roots(up) = f
<1>1. Follows(up, Roots(up))
  <2>1. Roots(up) = CHOOSE g : g = [v \in DOMAIN up |-> IF up[v] = v THEN v ELSE g[up[v]]]
    BY DEF Roots
  <2>2. \E g : g = [v \in DOMAIN up |-> IF up[v] = v THEN v ELSE g[up[v]]]
    BY DEF Forest, Follows
  <2> QED BY <2>1, <2>2 DEF Follows
<1> QED BY <1>1, FollowersAgree

\* A root stands for itself.
LEMMA RootsAreRoots ==
    ASSUME NEW up, NEW f, Forest(up, f), NEW v \in DOMAIN up
    PROVE  f[v] \in DOMAIN up /\ f[f[v]] = f[v] /\ up[f[v]] = f[v]
BY DEF Forest, Follows

\* A fresh forest: every vertex a root.
LEMMA FreshForest ==
    ASSUME NEW D
    PROVE  Forest([v \in D |-> v], [v \in D |-> v])
BY DEF Forest, Follows, Grounded

\* One root hung from another, and what the roots are then.
Hung(up, kept, dropped) == [up EXCEPT ![dropped] = kept]
Merged(f, kept, dropped) == [v \in DOMAIN f |-> IF f[v] = dropped THEN kept ELSE f[v]]

\* Hanging one root from another joins their trees and leaves the others alone.
LEMMA LinkedForest ==
    ASSUME NEW up, NEW f, Forest(up, f),
           NEW kept \in DOMAIN up, NEW dropped \in DOMAIN up,
           f[kept] = kept, f[dropped] = dropped, kept # dropped
    PROVE  Forest(Hung(up, kept, dropped), Merged(f, kept, dropped))
<1> DEFINE linked == [up EXCEPT ![dropped] = kept]
           g      == [v \in DOMAIN up |-> IF f[v] = dropped THEN kept ELSE f[v]]
<1>1. /\ linked \in [DOMAIN linked -> DOMAIN linked]
      /\ DOMAIN linked = DOMAIN up
      /\ g \in [DOMAIN linked -> DOMAIN linked]
  BY DEF Forest
<1>2. up[kept] = kept /\ up[dropped] = dropped
  BY DEF Forest
<1>3. ASSUME NEW v \in DOMAIN up
      PROVE  g[v] = IF linked[v] = v THEN v ELSE g[linked[v]]
  <2>1. CASE v = dropped
    BY <2>1, <1>2
  <2>2. CASE v # dropped /\ up[v] = v
    <3>1. f[v] = v
      BY <2>2 DEF Forest, Follows
    <3> QED BY <2>2, <3>1
  <2>3. CASE v # dropped /\ up[v] # v
    <3>1. f[v] = f[up[v]] /\ up[v] \in DOMAIN up
      BY <2>3 DEF Forest, Follows
    <3> QED BY <2>3, <3>1
  <2> QED BY <2>1, <2>2, <2>3
<1>4. Follows(linked, g)
  BY <1>1, <1>3 DEF Follows
<1>5. \A v \in DOMAIN linked : linked[g[v]] = g[v]
  BY <1>1, <1>2 DEF Forest
<1>6. Grounded(linked, g)
  <2> SUFFICES ASSUME NEW C \in SUBSET DOMAIN up, \A w \in C : linked[w] \in C, NEW v \in C
               PROVE  g[v] \in C
    BY <1>1 DEF Grounded
  <2>1. \A w \in C : up[w] \in C
    BY <1>2
  <2>2. f[v] \in C
    BY <2>1 DEF Forest, Grounded
  <2>3. dropped \in C => kept \in C
    OBVIOUS
  <2> QED BY <2>2, <2>3
<1>7. Hung(up, kept, dropped) = linked /\ Merged(f, kept, dropped) = g
  BY DEF Forest, Hung, Merged
<1> QED BY <1>1, <1>4, <1>5, <1>6, <1>7 DEF Forest

\* Hanging any vertices from their roots changes no root.
LEMMA CompressedForest ==
    ASSUME NEW up, NEW f, Forest(up, f), NEW P
    PROVE  Forest([v \in DOMAIN up |-> IF v \in P THEN f[v] ELSE up[v]], f)
<1> DEFINE short == [v \in DOMAIN up |-> IF v \in P THEN f[v] ELSE up[v]]
<1>1. /\ short \in [DOMAIN short -> DOMAIN short]
      /\ DOMAIN short = DOMAIN up
      /\ f \in [DOMAIN short -> DOMAIN short]
  BY DEF Forest
<1>2. \A v \in DOMAIN up : f[f[v]] = f[v] /\ up[f[v]] = f[v] /\ f[v] \in DOMAIN up
  BY RootsAreRoots
<1>3. ASSUME NEW v \in DOMAIN up
      PROVE  f[v] = IF short[v] = v THEN v ELSE f[short[v]]
  <2>1. f[v] = IF up[v] = v THEN v ELSE f[up[v]]
    BY DEF Forest, Follows
  <2> QED BY <1>2, <2>1
<1>4. Follows(short, f)
  BY <1>1, <1>3 DEF Follows
<1>5. \A v \in DOMAIN short : short[f[v]] = f[v]
  BY <1>1, <1>2
<1>6. Grounded(short, f)
  <2> SUFFICES ASSUME NEW C \in SUBSET DOMAIN up, \A w \in C : short[w] \in C, NEW v \in C
               PROVE  f[v] \in C
    BY <1>1 DEF Grounded
  <2> DEFINE E == {w \in C : f[w] = f[v]}
  <2>1. CASE \E w \in E : w \in P
    BY <2>1
  <2>2. CASE \A w \in E : w \notin P
    <3>1. \A w \in E : up[w] \in E
      <4>1. TAKE w \in E
      <4>2. up[w] \in C
        BY <2>2, <4>1
      <4>3. f[up[w]] = f[w]
        BY <4>1 DEF Forest, Follows
      <4> QED BY <4>1, <4>2, <4>3
    <3>2. E \in SUBSET DOMAIN up /\ v \in E
      OBVIOUS
    <3> HIDE DEF E
    <3>3. f[v] \in E
      BY <3>1, <3>2 DEF Forest, Grounded
    <3> QED BY <3>3 DEF E
  <2> QED BY <2>1, <2>2
<1> QED BY <1>1, <1>4, <1>5, <1>6 DEF Forest

-----------------------------------------------------------------------------
\* The arrays are as long as the mesh, and the edges are between its vertices.
Sized ==
    /\ call.fixed \subseteq DOMAIN call.points
    /\ DOMAIN parent = DOMAIN call.points
    /\ DOMAIN place = DOMAIN call.points
    /\ waiting \subseteq (DOMAIN call.points) \X (DOMAIN call.points)
    /\ stage # "collapsing" => waiting = {}

Inv == Sized /\ Forest(parent, Roots(parent)) /\ PinnedHeld

\* The ends of an edge are vertices.
LEMMA EdgesAreOfVertices ==
    ASSUME NEW c, IsCall(c)
    PROVE  Edges(c.faces) \subseteq (DOMAIN c.points) \X (DOMAIN c.points)
<1> SUFFICES ASSUME NEW f \in DOMAIN c.faces, NEW edge \in Sides(c.faces[f])
             PROVE  edge \in (DOMAIN c.points) \X (DOMAIN c.points)
  BY DEF Edges
<1>1. \A a \in Axes : c.faces[f][a] \in DOMAIN c.points
  BY DEF IsCall, Used, Corners
<1>2. 1 \in Axes /\ 2 \in Axes /\ 3 \in Axes
  BY DEF Axes
<1> QED BY <1>1, <1>2 DEF Sides, Side

\* What the variables are after a call has started.
LEMMA FreshCall ==
    ASSUME NEW c, IsCall(c), call' = c, parent' = [v \in DOMAIN c.points |-> v],
           place' = c.points
    PROVE  /\ Roots(parent') = [v \in DOMAIN c.points |-> v]
           /\ Forest(parent', Roots(parent'))
           /\ DOMAIN parent' = DOMAIN c.points
           /\ PinnedHeld'
<1>1. Forest(parent', [v \in DOMAIN c.points |-> v])
  BY FreshForest
<1>2. Roots(parent') = [v \in DOMAIN c.points |-> v]
  BY <1>1, RootsOfForest
<1>3. PinnedHeld'
  BY <1>2 DEF PinnedHeld, Abstract!PinnedHeld, IsCall
<1> QED BY <1>1, <1>2, <1>3

\* Looking for roots changes none.
LEMMA LookingChangesNoRoot ==
    ASSUME NEW up, Forest(up, Roots(up)), NEW found
    PROVE  /\ Forest(Compressed(up, found), Roots(up))
           /\ Roots(Compressed(up, found)) = Roots(up)
           /\ DOMAIN Compressed(up, found) = DOMAIN up
<1> DEFINE P == UNION {Path(up, v) : v \in found}
<1>1. Compressed(up, found) = [v \in DOMAIN up |-> IF v \in P THEN Roots(up)[v] ELSE up[v]]
  BY DEF Compressed
<1> HIDE DEF P
<1>2. Forest(Compressed(up, found), Roots(up))
  BY <1>1, CompressedForest
<1> QED BY <1>1, <1>2, RootsOfForest

\* Nor does looking for all of them.
LEMMA FlatteningChangesNoRoot ==
    ASSUME NEW up, Forest(up, Roots(up))
    PROVE  /\ Forest([v \in DOMAIN up |-> Roots(up)[v]], Roots(up))
           /\ Roots([v \in DOMAIN up |-> Roots(up)[v]]) = Roots(up)
<1> DEFINE flat == [v \in DOMAIN up |-> Roots(up)[v]]
<1>1. flat = [v \in DOMAIN up |-> IF v \in DOMAIN up THEN Roots(up)[v] ELSE up[v]]
  OBVIOUS
<1>2. Forest(flat, Roots(up))
  BY <1>1, CompressedForest
<1> QED BY <1>2, RootsOfForest

-----------------------------------------------------------------------------
\* The roots of the two ends of an edge, and which of them stays.
RootA(edge) == Roots(parent)[edge[1]]
RootB(edge) == Roots(parent)[edge[2]]
Kept(edge) == IF Stays(RootA(edge), RootB(edge)) THEN RootA(edge) ELSE RootB(edge)
Dropped(edge) == IF Stays(RootA(edge), RootB(edge)) THEN RootB(edge) ELSE RootA(edge)
Linked(edge) == Hung(Compressed(parent, {edge[1], edge[2]}), Kept(edge), Dropped(edge))
Joined(edge) == Merged(Roots(parent), Kept(edge), Dropped(edge))

\* The forest in which the two trees are one.
LEMMA LinkedIsForest ==
    ASSUME Inv, NEW edge \in waiting, ~Blocked(RootA(edge), RootB(edge))
    PROVE  /\ Kept(edge) \in DOMAIN call.points /\ Roots(parent)[Kept(edge)] = Kept(edge)
           /\ Dropped(edge) \in DOMAIN call.points /\ Roots(parent)[Dropped(edge)] = Dropped(edge)
           /\ Kept(edge) # Dropped(edge)
           /\ Dropped(edge) \notin call.fixed
           /\ DOMAIN Linked(edge) = DOMAIN call.points
           /\ Forest(Linked(edge), Joined(edge))
           /\ Roots(Linked(edge)) = Joined(edge)
<1>1. Forest(parent, Roots(parent)) /\ DOMAIN parent = DOMAIN call.points
  BY DEF Inv, Sized
<1>2. edge[1] \in DOMAIN parent /\ edge[2] \in DOMAIN parent
  BY <1>1 DEF Inv, Sized
<1>3. \A v \in DOMAIN parent : Roots(parent)[v] \in DOMAIN parent
                               /\ Roots(parent)[Roots(parent)[v]] = Roots(parent)[v]
  BY <1>1, RootsAreRoots
<1>4. /\ Kept(edge) \in DOMAIN parent /\ Roots(parent)[Kept(edge)] = Kept(edge)
      /\ Dropped(edge) \in DOMAIN parent /\ Roots(parent)[Dropped(edge)] = Dropped(edge)
  BY <1>2, <1>3 DEF Kept, Dropped, RootA, RootB
<1>5. Kept(edge) # Dropped(edge) /\ Dropped(edge) \notin call.fixed
  BY DEF Kept, Dropped, Blocked, Stays
<1> DEFINE short == Compressed(parent, {edge[1], edge[2]})
<1>6. Forest(short, Roots(parent)) /\ DOMAIN short = DOMAIN parent
  BY <1>1, LookingChangesNoRoot
<1> HIDE DEF short
<1>7. Forest(Hung(short, Kept(edge), Dropped(edge)), Merged(Roots(parent), Kept(edge), Dropped(edge)))
  BY <1>4, <1>5, <1>6, LinkedForest
<1>8. Linked(edge) = Hung(short, Kept(edge), Dropped(edge))
  BY DEF Linked, short
<1>9. Forest(Linked(edge), Joined(edge))
  BY <1>7, <1>8 DEF Joined
<1>10. DOMAIN Linked(edge) = DOMAIN call.points
  BY <1>1, <1>6, <1>8 DEF Hung
<1> QED BY <1>1, <1>4, <1>5, <1>9, <1>10, RootsOfForest

\* A collapse merges two groups, and leaves the arrays as long as they were.
LEMMA CollapseMerges ==
    ASSUME Inv, NEW edge \in waiting, Collapse(edge)
    PROVE  /\ Abstract!Merge(Kept(edge), Dropped(edge))
           /\ Forest(parent', Roots(parent'))
           /\ DOMAIN parent' = DOMAIN call.points
           /\ DOMAIN place' = DOMAIN call.points
           /\ waiting' \subseteq waiting
           /\ stage' # "collapsing" => waiting' = {}
<1>1. /\ ~Blocked(RootA(edge), RootB(edge))
      /\ place' = Moved(RootA(edge), RootB(edge), Kept(edge))
      /\ UNCHANGED call
      /\ stage = "collapsing"
  BY SMTT(60) DEF Collapse, RootA, RootB, Kept
<1>2. \/ parent' = Linked(edge) /\ waiting' = waiting \ {edge} /\ stage' = stage
      \/ parent' = [v \in DOMAIN Linked(edge) |-> Roots(Linked(edge))[v]]
         /\ waiting' = waiting \ {edge} /\ stage' = stage
      \/ parent' = [v \in DOMAIN Linked(edge) |-> Roots(Linked(edge))[v]]
         /\ waiting' = {}
  BY DEF Collapse, Finish, RootA, RootB, Kept, Dropped, Linked, Hung
<1>3. /\ Kept(edge) \in DOMAIN call.points /\ Roots(parent)[Kept(edge)] = Kept(edge)
      /\ Dropped(edge) \in DOMAIN call.points /\ Roots(parent)[Dropped(edge)] = Dropped(edge)
      /\ Kept(edge) # Dropped(edge)
      /\ Dropped(edge) \notin call.fixed
      /\ DOMAIN Linked(edge) = DOMAIN call.points
      /\ Forest(Linked(edge), Joined(edge))
      /\ Roots(Linked(edge)) = Joined(edge)
  BY <1>1, LinkedIsForest
<1>4. /\ Forest(parent', Joined(edge))
      /\ DOMAIN parent' = DOMAIN call.points
  <2> DEFINE up == Linked(edge)
  <2> HIDE DEF up
  <2>1. Forest(up, Roots(up))
    BY <1>3 DEF up
  <2>2. Forest([v \in DOMAIN up |-> Roots(up)[v]], Roots(up))
    BY <2>1, FlatteningChangesNoRoot
  <2> QED BY <1>2, <1>3, <2>2 DEF up
<1>5. Roots(parent') = Joined(edge)
  BY <1>4, RootsOfForest
<1>6. /\ \A v \in DOMAIN call.points \ {Kept(edge)} : place'[v] = place[v]
      /\ Kept(edge) \in call.fixed => place'[Kept(edge)] = place[Kept(edge)]
      /\ DOMAIN place' = DOMAIN call.points
  <2>1. DOMAIN place = DOMAIN call.points
    BY DEF Inv, Sized
  <2>2. \/ place' = place
        \/ /\ Kept(edge) \notin call.fixed
           /\ \E p : place' = [place EXCEPT ![Kept(edge)] = p]
    BY <1>1 DEF Moved, Kept
  <2> QED BY <2>1, <2>2
<1>7. DOMAIN Roots(parent) = DOMAIN call.points
  BY DEF Inv, Sized, Forest
<1>8. Abstract!Merge(Kept(edge), Dropped(edge))
  BY <1>1, <1>3, <1>5, <1>6, <1>7 DEF Abstract!Merge, Joined, Merged
<1> QED BY <1>1, <1>2, <1>4, <1>5, <1>6, <1>8

\* A merge holds what is pinned.
LEMMA MergeHolds ==
    ASSUME Inv, NEW kept, NEW dropped, Abstract!Merge(kept, dropped), kept \in DOMAIN call.points
    PROVE  PinnedHeld'
<1> SUFFICES ASSUME NEW v \in call.fixed
             PROVE  Roots(parent')[v] = v /\ place'[v] = call.points[v]
  BY DEF PinnedHeld, Abstract!PinnedHeld, Abstract!Merge
<1>1. v \in DOMAIN call.points /\ Roots(parent)[v] = v /\ place[v] = call.points[v]
  BY DEF Inv, Sized, PinnedHeld, Abstract!PinnedHeld
<1> QED BY <1>1 DEF Abstract!Merge

-----------------------------------------------------------------------------
\* The invariant at the start.
LEMMA InvInit == DecimateInit => Inv
<1> SUFFICES ASSUME DecimateInit PROVE Inv
  OBVIOUS
<1>1. DOMAIN <<>> = {}
  OBVIOUS
<1>2. parent = [v \in {} |-> v]
  BY <1>1 DEF DecimateInit
<1>3. Forest(parent, [v \in {} |-> v])
  BY <1>2, FreshForest
<1>4. Roots(parent) = [v \in {} |-> v]
  BY <1>3, RootsOfForest
<1>5. Sized /\ PinnedHeld
  BY <1>1 DEF DecimateInit, Sized, NoCall, PinnedHeld, Abstract!PinnedHeld
<1> QED BY <1>3, <1>4, <1>5 DEF Inv

\* What each step does to the roots and the places, and that it keeps the invariant.
LEMMA StepRefines ==
    Inv /\ [DecimateNext]_decimateVars => Inv' /\ [Abstract!Next]_(Abstract!vars)
<1> SUFFICES ASSUME Inv, [DecimateNext]_decimateVars
             PROVE  Inv' /\ [Abstract!Next]_(Abstract!vars)
  OBVIOUS
<1>1. Forest(parent, Roots(parent)) /\ DOMAIN parent = DOMAIN call.points
  BY DEF Inv, Sized
<1>2. ASSUME NEW c, IsCall(c), ReturnUnchanged(c) \/ Begin(c)
      PROVE  Inv' /\ Abstract!Next
  <2>1. call' = c /\ parent' = [v \in DOMAIN c.points |-> v] /\ place' = c.points
    BY <1>2 DEF ReturnUnchanged, Begin
  <2>2. /\ Roots(parent') = [v \in DOMAIN c.points |-> v]
        /\ Forest(parent', Roots(parent'))
        /\ DOMAIN parent' = DOMAIN c.points
        /\ PinnedHeld'
    BY <1>2, <2>1, FreshCall
  <2>3. waiting' = {} \/ (waiting' = Edges(c.faces) /\ stage' = "collapsing")
    BY <1>2 DEF ReturnUnchanged, Begin, Inv, Sized
  <2>4. c.fixed \subseteq DOMAIN c.points
    BY <1>2 DEF IsCall
  <2>5. Inv'
    BY <1>2, <2>1, <2>2, <2>3, <2>4, EdgesAreOfVertices DEF Inv, Sized
  <2>6. Abstract!Begin
    BY <2>1, <2>2, <2>4 DEF Abstract!Begin
  <2> QED BY <2>5, <2>6 DEF Abstract!Next
<1>3. ASSUME NEW edge \in waiting, Skip(edge)
      PROVE  Inv' /\ UNCHANGED Abstract!vars
  <2>1. /\ Forest(parent', Roots(parent))
        /\ Roots(parent') = Roots(parent)
        /\ DOMAIN parent' = DOMAIN parent
    BY <1>1, <1>3, LookingChangesNoRoot DEF Skip
  <2>2. UNCHANGED <<call, place, stage>> /\ waiting' \subseteq waiting /\ stage = "collapsing"
    BY <1>3 DEF Skip
  <2>3. Inv'
    BY <2>1, <2>2 DEF Inv, Sized, PinnedHeld, Abstract!PinnedHeld
  <2> QED BY <2>1, <2>2, <2>3 DEF Abstract!vars
<1>4. ASSUME NEW edge \in waiting, Collapse(edge)
      PROVE  Inv' /\ Abstract!Next
  <2>1. /\ Abstract!Merge(Kept(edge), Dropped(edge))
        /\ Forest(parent', Roots(parent'))
        /\ DOMAIN parent' = DOMAIN call.points
        /\ DOMAIN place' = DOMAIN call.points
        /\ waiting' \subseteq waiting
        /\ stage' # "collapsing" => waiting' = {}
    BY <1>4, CollapseMerges
  <2>2. Kept(edge) \in DOMAIN call.points /\ Dropped(edge) \in DOMAIN call.points
    <3>1. ~Blocked(RootA(edge), RootB(edge))
      BY <1>4 DEF Collapse, RootA, RootB
    <3> QED BY <3>1, LinkedIsForest
  <2>3. PinnedHeld'
    BY <2>1, <2>2, MergeHolds
  <2>4. call' = call
    BY <1>4 DEF Collapse
  <2>5. Inv'
    BY <2>1, <2>3, <2>4 DEF Inv, Sized
  <2> QED BY <2>1, <2>2, <2>5 DEF Abstract!Next
<1>5. ASSUME RunOut
      PROVE  Inv' /\ UNCHANGED Abstract!vars
  <2>1. /\ parent' = [v \in DOMAIN parent |-> Roots(parent)[v]]
        /\ UNCHANGED <<call, place, waiting>>
        /\ waiting = {}
    BY <1>5 DEF RunOut, Finish
  <2>2. /\ Forest(parent', Roots(parent))
        /\ Roots(parent') = Roots(parent)
        /\ DOMAIN parent' = DOMAIN parent
    BY <1>1, <2>1, FlatteningChangesNoRoot
  <2>3. Inv'
    BY <2>1, <2>2 DEF Inv, Sized, PinnedHeld, Abstract!PinnedHeld
  <2> QED BY <2>1, <2>2, <2>3 DEF Abstract!vars
<1>6. ASSUME Leave \/ UNCHANGED decimateVars
      PROVE  Inv' /\ UNCHANGED Abstract!vars
  <2>1. /\ UNCHANGED <<call, parent, place, waiting>>
        /\ stage' = stage \/ (stage = "collapsed" /\ stage' = "idle")
    BY <1>6 DEF Leave, decimateVars
  <2>2. UNCHANGED Roots(parent)
    BY <2>1
  <2>3. Inv'
    BY <2>1, <2>2 DEF Inv, Sized, PinnedHeld, Abstract!PinnedHeld
  <2> QED BY <2>1, <2>2, <2>3 DEF Abstract!vars
<1> QED BY <1>2, <1>3, <1>4, <1>5, <1>6 DEF DecimateNext, DecimateTurn

\* Whatever mesh, whatever target, whatever order of ties: no collapse gives up or moves a
\* pinned vertex (decimate_fixed).
THEOREM PinnedAreHeld == DecimateSpec => []PinnedHeld
<1>1. DecimateInit => Inv
  BY InvInit
<1>2. Inv /\ [DecimateNext]_decimateVars => Inv'
  BY StepRefines
<1>3. Inv => PinnedHeld
  BY DEF Inv
<1> QED BY <1>1, <1>2, <1>3, PTL DEF DecimateSpec

\* At first nothing has become another.
LEMMA DecimateStarts == DecimateInit => Abstract!Init
<1> SUFFICES ASSUME DecimateInit PROVE Abstract!Init
  OBVIOUS
<1>1. Inv /\ call = NoCall /\ parent = <<>> /\ place = <<>>
  BY InvInit DEF DecimateInit
<1>2. DOMAIN <<>> = {} /\ parent = [v \in {} |-> v]
  BY <1>1
<1>3. Roots(parent) = [v \in {} |-> v]
  BY <1>2, FreshForest, RootsOfForest
<1> QED BY <1>1, <1>2, <1>3 DEF Abstract!Init, Abstract!Fresh, NoCall

\* The union-find with its shortened paths implements the merging of groups of vertices, one
\* at a time, of which each is never split again (decimate_fixed implements Collapse).
THEOREM DecimateRefinesCollapse == DecimateSpec => ImplementsCollapse
<1>1. DecimateInit => Inv
  BY InvInit
<1>2. DecimateInit => Abstract!Init
  BY DecimateStarts
<1>3. Inv /\ [DecimateNext]_decimateVars => Inv' /\ [Abstract!Next]_(Abstract!vars)
  BY StepRefines
<1> QED BY <1>1, <1>2, <1>3, PTL DEF DecimateSpec, ImplementsCollapse, Abstract!Spec

-----------------------------------------------------------------------------
\* What the whole quotient and the remainder are.
LEMMA Division ==
    ASSUME NEW n \in Int, NEW d \in Nat \ {0}
    PROVE  /\ n \div d \in Int /\ n % d \in Int
           /\ n = d * (n \div d) + (n % d)
           /\ 0 <= (n % d) /\ (n % d) < d
OBVIOUS

\* Two multiples are at least one step apart.
LEMMA MultiplesApart ==
    ASSUME NEW i \in Int, NEW j \in Int, NEW d \in Nat \ {0}, i < j
    PROVE  i * d + d <= j * d
<1>1. PICK k \in Nat : j = i + 1 + k
  <2>1. j - i - 1 \in Nat /\ j = i + 1 + (j - i - 1)
    OBVIOUS
  <2> QED BY <2>1
<1>2. j * d = i * d + d + k * d
  BY <1>1
<1>3. k * d >= 0
  OBVIOUS
<1> QED BY <1>2, <1>3

\* Nearest is a multiple, at most half a step away, and none is nearer.
LEMMA NearestIsNearest ==
    ASSUME NEW x \in Int, NEW d \in Nat \ {0}
    PROVE  /\ Rint(x, d) \in Int
           /\ Nearest(x, d) \in Int
           /\ 2 * Nearest(x, d) <= 2 * x + d
           /\ 2 * x <= 2 * Nearest(x, d) + d
           /\ OffPlane(x, d) \in Nat
           /\ \A k \in Int : OffPlane(x, d) <= Abs(x - k * d)
<1> DEFINE q == x \div d
           r == x % d
<1>1. q \in Int /\ r \in Int /\ x = d * q + r /\ 0 <= r /\ r < d
  BY Division
<1>2. Rint(x, d) = IF 2 * r < d \/ (2 * r = d /\ q % 2 = 0) THEN q ELSE q + 1
  BY DEF Rint
<1> HIDE DEF q, r
<1>3. \/ Nearest(x, d) = q * d /\ 2 * r <= d /\ Rint(x, d) = q
      \/ Nearest(x, d) = q * d + d /\ 2 * r >= d /\ Rint(x, d) = q + 1
  <2>1. (q + 1) * d = q * d + d
    BY <1>1
  <2> QED BY <1>1, <1>2, <2>1 DEF Nearest
<1>4. q * d \in Int /\ d * q = q * d
  BY <1>1
<1>5. PICK m \in Int : m = q * d
  BY <1>4
<1>6. ASSUME NEW k \in Int PROVE OffPlane(x, d) <= Abs(x - k * d)
  <2>1. PICK n \in Int : n = k * d
    OBVIOUS
  <2>2. n <= m \/ m + d <= n
    <3>1. CASE k <= q
      <4>1. k = q \/ k * d + d <= q * d
        BY <1>1, <3>1, MultiplesApart
      <4> QED BY <4>1, <2>1, <1>5
    <3>2. CASE q < k
      BY <1>1, <3>2, <2>1, <1>5, MultiplesApart
    <3> QED BY <3>1, <3>2, <1>1
  <2> QED BY <1>1, <1>3, <1>4, <1>5, <2>1, <2>2 DEF OffPlane, Abs
<1> QED BY <1>1, <1>3, <1>4, <1>5, <1>6 DEF OffPlane, Abs

\* A multiple no further than half a step from a place between two neighbouring multiples is
\* one of the two.
LEMMA NearestOfCell ==
    ASSUME NEW x \in Int, NEW d \in Nat \ {0}, NEW k \in Int, k * d <= x, x <= k * d + d
    PROVE  Nearest(x, d) = k * d \/ Nearest(x, d) = k * d + d
<1>1. /\ Rint(x, d) \in Int /\ Nearest(x, d) \in Int
      /\ 2 * Nearest(x, d) <= 2 * x + d
      /\ 2 * x <= 2 * Nearest(x, d) + d
      /\ OffPlane(x, d) <= Abs(x - k * d)
      /\ OffPlane(x, d) <= Abs(x - (k + 1) * d)
  <2>1. \A j \in Int : OffPlane(x, d) <= Abs(x - j * d)
    BY NearestIsNearest
  <2>2. OffPlane(x, d) <= Abs(x - (k + 1) * d)
    <3>1. k + 1 \in Int
      OBVIOUS
    <3> QED BY <2>1, <3>1
  <2> QED BY <2>1, <2>2, NearestIsNearest
<1>2. k * d \in Int /\ (k + 1) * d = k * d + d
  OBVIOUS
<1>3. Nearest(x, d) = Rint(x, d) * d
  BY DEF Nearest
<1>4. CASE Rint(x, d) < k
  <2>1. CASE Rint(x, d) + 1 < k
    <3>1. Rint(x, d) * d + d <= (k - 1) * d /\ (k - 1) * d + d <= k * d
      BY <1>1, <2>1, MultiplesApart
    <3> QED BY <1>1, <1>2, <1>3, <3>1
  <2>2. CASE Rint(x, d) + 1 = k
    <3>1. k * d = Rint(x, d) * d + d
      BY <1>1, <2>2
    <3> QED BY <1>1, <1>2, <1>3, <3>1 DEF OffPlane, Abs
  <2> QED BY <1>1, <1>4, <2>1, <2>2
<1>5. CASE Rint(x, d) > k + 1
  <2>1. (k + 1) * d + d <= Rint(x, d) * d
    BY <1>1, <1>5, MultiplesApart
  <2> QED BY <1>1, <1>2, <1>3, <2>1 DEF OffPlane, Abs
<1>6. CASE Rint(x, d) = k
  BY <1>3, <1>6
<1>7. CASE Rint(x, d) = k + 1
  BY <1>2, <1>3, <1>7
<1> QED BY <1>1, <1>4, <1>5, <1>6, <1>7

\* Nothing is snapped across the plane it is near: a coordinate between two neighbouring cell
\* faces stays between them, because whatever is not pinned is more than a whole step from
\* both, and a snap moves it by half a step at most (snap_boundary: "that width is
\* load-bearing").
THEOREM SnapStaysInTheCell ==
    ASSUME NEW x \in Int, NEW size \in Nat \ {0}, NEW step \in Nat \ {0}, NEW k \in Int,
           k * size <= x, x <= (k + 1) * size
    PROVE  k * size <= SnapCoordinate(x, size, step) /\ SnapCoordinate(x, size, step) <= (k + 1) * size
<1>1. PICK low \in Int : low = k * size
  OBVIOUS
<1>2. (k + 1) * size = low + size
  BY <1>1
<1>3. CASE NearPlane(x, size, step)
  <2>1. SnapCoordinate(x, size, step) = Nearest(x, size)
    BY <1>3 DEF SnapCoordinate
  <2>2. Nearest(x, size) = k * size \/ Nearest(x, size) = k * size + size
    BY <1>1, <1>2, NearestOfCell
  <2> QED BY <1>1, <1>2, <2>1, <2>2
<1>4. CASE ~NearPlane(x, size, step)
  <2>1. SnapCoordinate(x, size, step) = Nearest(x, step)
    BY <1>4 DEF SnapCoordinate
  <2>2. OffPlane(x, size) \in Nat /\ OffPlane(x, size) > step
    <3>1. OffPlane(x, size) \in Nat
      BY NearestIsNearest
    <3> QED BY <1>4, <3>1 DEF NearPlane
  <2>3. /\ OffPlane(x, size) <= Abs(x - k * size)
        /\ OffPlane(x, size) <= Abs(x - (k + 1) * size)
    <3>1. \A j \in Int : OffPlane(x, size) <= Abs(x - j * size)
      BY NearestIsNearest
    <3>2. k + 1 \in Int
      OBVIOUS
    <3> QED BY <3>1, <3>2
  <2>4. x - low > step /\ low + size - x > step
    BY <1>1, <1>2, <2>2, <2>3 DEF Abs
  <2>5. /\ Nearest(x, step) \in Int
        /\ 2 * Nearest(x, step) <= 2 * x + step
        /\ 2 * x <= 2 * Nearest(x, step) + step
    BY NearestIsNearest
  <2> QED BY <1>1, <1>2, <2>1, <2>4, <2>5
<1> QED BY <1>3, <1>4

\* A multiple of d is its own nearest multiple.
LEMMA NearestOfMultiple ==
    ASSUME NEW m \in Int, NEW d \in Nat \ {0}
    PROVE  Rint(m * d, d) = m
<1>1. PICK x \in Int : x = m * d
  OBVIOUS
<1>2. /\ Rint(x, d) \in Int /\ Nearest(x, d) \in Int
      /\ OffPlane(x, d) \in Nat /\ OffPlane(x, d) <= Abs(x - m * d)
  <2>1. \A j \in Int : OffPlane(x, d) <= Abs(x - j * d)
    BY NearestIsNearest
  <2> QED BY <2>1, NearestIsNearest
<1>3. Rint(x, d) * d = x
  <2>1. Abs(x - m * d) = 0
    BY <1>1 DEF Abs
  <2> QED BY <1>2, <2>1 DEF OffPlane, Nearest, Abs
<1>4. ~(Rint(x, d) < m) /\ ~(m < Rint(x, d))
  <2>1. Rint(x, d) < m => Rint(x, d) * d + d <= m * d
    BY <1>2, MultiplesApart
  <2>2. m < Rint(x, d) => m * d + d <= Rint(x, d) * d
    BY <1>2, MultiplesApart
  <2> QED BY <1>1, <1>3, <2>1, <2>2
<1> QED BY <1>1, <1>2, <1>4

\* A coordinate that a level can name survives the round trip, bit for bit.
LEMMA RoundTrip ==
    ASSUME NEW q \in 0 .. QuantMax, NEW origin \in Int, NEW step \in Nat \ {0}
    PROVE  DecodedAt(QuantizedAt(origin + q * step, origin, step), origin, step) = origin + q * step
<1>1. QuantMax \in Nat /\ q \in Int /\ q * step \in Int
  BY LatticeAssumption
<1>2. origin + q * step - origin = q * step
  BY <1>1
<1>3. Rint(origin + q * step - origin, step) = q
  BY <1>1, <1>2, NearestOfMultiple
<1> QED BY <1>1, <1>3 DEF DecodedAt, QuantizedAt, Clipped

\* What makes two levels agree along a seam: a coordinate on the coarsest lattice, which
\* `ratio` steps of a level make up a step of, is decoded as itself by every cell of that
\* level it lies in, though 65535 is odd and the lattices of two cells start at different
\* places (snap_boundary).
THEOREM SnappedIsRepresentable ==
    ASSUME NEW m \in Int, NEW i \in Int, NEW ratio \in Nat \ {0}, NEW step \in Nat \ {0},
           i * (QuantMax * step) <= m * (ratio * step),
           m * (ratio * step) <= (i + 1) * (QuantMax * step)
    PROVE  LET origin == i * (QuantMax * step)
               x      == m * (ratio * step)
           IN  DecodedAt(QuantizedAt(x, origin, step), origin, step) = x
<1> DEFINE origin == i * (QuantMax * step)
           x      == m * (ratio * step)
           q      == m * ratio - i * QuantMax
<1>1. QuantMax \in Nat
  BY LatticeAssumption
<1>2. PICK a \in Int : a = m * ratio
  OBVIOUS
<1>3. PICK b \in Int : b = i * QuantMax
  BY <1>1
<1>4. x = a * step /\ origin = b * step
  <2>1. m * (ratio * step) = (m * ratio) * step
    OBVIOUS
  <2>2. i * (QuantMax * step) = (i * QuantMax) * step
    BY <1>1
  <2> QED BY <1>2, <1>3, <2>1, <2>2
<1>5. (i + 1) * (QuantMax * step) = (b + QuantMax) * step
  <2>1. (i + 1) * (QuantMax * step) = ((i + 1) * QuantMax) * step
    BY <1>1
  <2>2. (i + 1) * QuantMax = b + QuantMax
    BY <1>1, <1>3
  <2> QED BY <2>1, <2>2
<1>6. b <= a /\ a <= b + QuantMax
  <2>1. ~(a < b)
    <3>1. a < b => a * step + step <= b * step
      BY MultiplesApart
    <3>2. PICK u \in Int, w \in Int : u = a * step /\ w = b * step
      OBVIOUS
    <3> QED BY <1>4, <3>1, <3>2
  <2>2. ~(b + QuantMax < a)
    <3>1. b + QuantMax < a => (b + QuantMax) * step + step <= a * step
      BY <1>1, MultiplesApart
    <3>2. PICK u \in Int, w \in Int : u = a * step /\ w = (b + QuantMax) * step
      BY <1>1
    <3> QED BY <1>4, <1>5, <3>1, <3>2
  <2> QED BY <1>1, <2>1, <2>2
<1>7. a - b \in 0 .. QuantMax
  BY <1>1, <1>6
<1>8. x = origin + (a - b) * step /\ origin \in Int
  <2>1. (a - b) * step = a * step - b * step
    OBVIOUS
  <2> QED BY <1>4, <2>1
<1> HIDE DEF origin, x
<1>9. DecodedAt(QuantizedAt(x, origin, step), origin, step) = x
  BY <1>7, <1>8, RoundTrip
<1> QED BY <1>9 DEF origin, x

-----------------------------------------------------------------------------
(* Codes. *)

\* What the k lowest bits of a number are worth, and what their interleaved places are worth.
BitValues(n) == [b \in Nat |-> Bit(n, b) * 2 ^ b]
BitPlaces(n) == [b \in Nat |-> Bit(n, b) * 2 ^ (3 * b)]

ValueOf(k, n) == SumOf(BitValues(n), 0 .. k - 1)
SpreadOf(k, n) == SumOf(BitPlaces(n), 0 .. k - 1)

\* The code of the k lowest bits of three numbers, and its lowest digit.
CodeOf(k, x, y, z) == SpreadOf(k, x) + 2 * SpreadOf(k, y) + 4 * SpreadOf(k, z)
Digit(x, y, z) == (x % 2) + 2 * (y % 2) + 4 * (z % 2)

\* The powers that codes are made of.
LEMMA Powers ==
    ASSUME NEW b \in Nat
    PROVE  /\ 2 ^ 0 = 1 /\ 2 ^ 1 = 2 /\ 2 ^ 2 = 4 /\ 2 ^ 3 = 8
           /\ 2 ^ b \in Nat \ {0} /\ 2 ^ (b + 1) = 2 * 2 ^ b /\ 2 ^ (b + 3) = 8 * 2 ^ b
           /\ 2 ^ (3 * b) \in Nat \ {0} /\ 2 ^ (3 * (b + 1)) = 8 * 2 ^ (3 * b)
<1>1. \A n \in Nat : 2 ^ n \in Nat \ {0} /\ 2 ^ (n + 1) = 2 * 2 ^ n
  BY PowerOfTwo
<1>2. \A n \in Nat : 2 ^ (n + 3) = 8 * 2 ^ n
  <2> TAKE n \in Nat
  <2>1. n + 1 \in Nat /\ n + 2 \in Nat /\ (n + 1) + 1 = n + 2 /\ (n + 2) + 1 = n + 3
    OBVIOUS
  <2>2. /\ 2 ^ n \in Nat /\ 2 ^ (n + 1) = 2 * 2 ^ n
        /\ 2 ^ ((n + 1) + 1) = 2 * 2 ^ (n + 1) /\ 2 ^ ((n + 2) + 1) = 2 * 2 ^ (n + 2)
    BY <1>1, <2>1
  <2> QED BY <2>1, <2>2
<1>3. 2 ^ 0 = 1 /\ 2 ^ (0 + 1) = 2 * 2 ^ 0 /\ 2 ^ (1 + 1) = 2 * 2 ^ 1 /\ 2 ^ (0 + 3) = 8 * 2 ^ 0
  <2>1. 0 \in Nat /\ 1 \in Nat
    OBVIOUS
  <2> QED BY <1>1, <1>2, <2>1, PowerOfNone
<1>4. 2 ^ 1 = 2 /\ 2 ^ 2 = 4 /\ 2 ^ 3 = 8
  BY <1>3
<1>5. 3 * b \in Nat /\ 3 * (b + 1) = 3 * b + 3
  OBVIOUS
<1>6. 2 ^ (3 * b + 3) = 8 * 2 ^ (3 * b) /\ 2 ^ (3 * b) \in Nat \ {0}
  BY <1>1, <1>2, <1>5
<1> QED
  BY <1>1, <1>2, <1>3, <1>4, <1>5, <1>6

\* The bits of a half are the other bits.
LEMMA BitOfHalf ==
    ASSUME NEW n \in Nat, NEW b \in Nat
    PROVE  /\ Bit(n, b) \in 0 .. 1 /\ Bit(n, 0) = n % 2
           /\ n \div 2 \in Nat /\ Bit(n, b + 1) = Bit(n \div 2, b)
<1>1. 2 ^ 0 = 1 /\ 2 ^ b \in Nat \ {0} /\ 2 ^ (b + 1) = 2 * 2 ^ b
  BY Powers
<1>2. (n \div 2) \div 2 ^ b = n \div (2 * 2 ^ b)
  BY <1>1, DivideTwice
<1>3. n \div 1 = n /\ n \div 2 ^ b \in Nat /\ n \div 2 \in Nat
  BY <1>1
<1> QED
  BY <1>1, <1>2, <1>3 DEF Bit

\* The bits and their places are numbers.
LEMMA TermsTyped ==
    ASSUME NEW n \in Nat
    PROVE  BitValues(n) \in [Nat -> Int] /\ BitPlaces(n) \in [Nat -> Int]
<1>1. \A b \in Nat : Bit(n, b) \in Int /\ 2 ^ b \in Int /\ 2 ^ (3 * b) \in Int
  BY BitOfHalf, Powers
<1> QED
  BY <1>1 DEF BitValues, BitPlaces

\* The lowest bit, and those of the half.
LEMMA ValueByHalves ==
    ASSUME NEW n \in Nat, NEW k \in Nat
    PROVE  ValueOf(k + 1, n) = (n % 2) + 2 * ValueOf(k, n \div 2)
<1>1. BitValues(n) \in [Nat -> Int] /\ BitValues(n \div 2) \in [Nat -> Int]
  BY TermsTyped, BitOfHalf
<1>2. ASSUME NEW b \in Nat PROVE BitValues(n)[b + 1] = 2 * BitValues(n \div 2)[b]
  <2>1. /\ Bit(n, b + 1) = Bit(n \div 2, b) /\ 2 ^ (b + 1) = 2 * 2 ^ b
        /\ Bit(n \div 2, b) \in Int /\ 2 ^ b \in Int
    <3>1. Bit(n, b + 1) = Bit(n \div 2, b) /\ n \div 2 \in Nat
      BY BitOfHalf
    <3>2. Bit(n \div 2, b) \in 0 .. 1
      BY <3>1, BitOfHalf
    <3>3. 2 ^ b \in Nat /\ 2 ^ (b + 1) = 2 * 2 ^ b
      BY Powers
    <3> QED BY <3>1, <3>2, <3>3
  <2>2. \A p, q \in Int : p * (2 * q) = 2 * (p * q)
    OBVIOUS
  <2> QED BY <2>1, <2>2 DEF BitValues
<1>3. SumOf(BitValues(n), 0 .. k) = BitValues(n)[0] + 2 * SumOf(BitValues(n \div 2), 0 .. k - 1)
  <2>1. Shifts(BitValues(n), BitValues(n \div 2), 2) /\ 2 \in Int
    BY <1>2 DEF Shifts
  <2> QED BY <1>1, <2>1, SumShift
<1>4. BitValues(n)[0] = n % 2
  BY BitOfHalf, Powers, SMTT(30) DEF BitValues
<1>5. (k + 1) - 1 = k
  OBVIOUS
<1> QED
  BY <1>3, <1>4, <1>5 DEF ValueOf

\* And so its interleaved bits.
LEMMA SpreadByHalves ==
    ASSUME NEW n \in Nat, NEW k \in Nat
    PROVE  SpreadOf(k + 1, n) = (n % 2) + 8 * SpreadOf(k, n \div 2)
<1>1. BitPlaces(n) \in [Nat -> Int] /\ BitPlaces(n \div 2) \in [Nat -> Int]
  BY TermsTyped, BitOfHalf
<1>2. ASSUME NEW b \in Nat PROVE BitPlaces(n)[b + 1] = 8 * BitPlaces(n \div 2)[b]
  <2>1. /\ Bit(n, b + 1) = Bit(n \div 2, b) /\ 2 ^ (3 * (b + 1)) = 8 * 2 ^ (3 * b)
        /\ Bit(n \div 2, b) \in Int /\ 2 ^ (3 * b) \in Int
    <3>1. Bit(n, b + 1) = Bit(n \div 2, b) /\ n \div 2 \in Nat
      BY BitOfHalf
    <3>2. Bit(n \div 2, b) \in 0 .. 1
      BY <3>1, BitOfHalf
    <3>3. 2 ^ (3 * b) \in Nat /\ 2 ^ (3 * (b + 1)) = 8 * 2 ^ (3 * b)
      BY Powers
    <3> QED BY <3>1, <3>2, <3>3
  <2>2. \A p, q \in Int : p * (8 * q) = 8 * (p * q)
    OBVIOUS
  <2> QED BY <2>1, <2>2 DEF BitPlaces
<1>3. SumOf(BitPlaces(n), 0 .. k) = BitPlaces(n)[0] + 8 * SumOf(BitPlaces(n \div 2), 0 .. k - 1)
  <2>1. Shifts(BitPlaces(n), BitPlaces(n \div 2), 8) /\ 8 \in Int
    BY <1>2 DEF Shifts
  <2> QED BY <1>1, <2>1, SumShift
<1>4. BitPlaces(n)[0] = n % 2
  <2>1. 3 * 0 = 0
    OBVIOUS
  <2> QED BY <2>1, BitOfHalf, Powers, SMTT(30) DEF BitPlaces
<1>5. (k + 1) - 1 = k
  OBVIOUS
<1> QED
  BY <1>3, <1>4, <1>5 DEF SpreadOf

\* A number of at most k bits is what its k lowest bits are worth.
LEMMA ValueIsNumber ==
    ASSUME NEW k \in Nat, NEW n \in 0 .. 2 ^ k - 1
    PROVE  ValueOf(k, n) = n
<1> DEFINE P == {j \in Nat : \A m \in 0 .. 2 ^ j - 1 : ValueOf(j, m) = m}
<1>1. 0 \in P
  <2>1. 2 ^ 0 - 1 = 0 /\ 0 .. 0 - 1 = {}
    BY PowerOfNone
  <2> QED BY <2>1, SumOfNone DEF ValueOf
<1>2. ASSUME NEW j \in Nat, j \in P PROVE j + 1 \in P
  <2> SUFFICES ASSUME NEW m \in 0 .. 2 ^ (j + 1) - 1 PROVE ValueOf(j + 1, m) = m
    OBVIOUS
  <2>1. 2 ^ j \in Nat /\ 2 ^ (j + 1) = 2 * 2 ^ j
    BY Powers
  <2>2. m \in Nat /\ m \div 2 \in 0 .. 2 ^ j - 1 /\ m = (m % 2) + 2 * (m \div 2)
    BY <2>1
  <2>3. ValueOf(j, m \div 2) = m \div 2
    BY <1>2, <2>2
  <2>4. ValueOf(j + 1, m) = (m % 2) + 2 * ValueOf(j, m \div 2)
    BY <2>2, ValueByHalves
  <2> QED BY <2>2, <2>3, <2>4
<1>3. k \in P
  <2> HIDE DEF P
  <2> QED BY <1>1, <1>2, NatSetInduction
<1> QED
  BY <1>3

\* A code is a digit of one bit each, and eight times the code of the halves.
LEMMA CodeByHalves ==
    ASSUME NEW x \in Nat, NEW y \in Nat, NEW z \in Nat, NEW k \in Nat
    PROVE  /\ CodeOf(k, x, y, z) \in Nat
           /\ CodeOf(k + 1, x, y, z) = Digit(x, y, z) + 8 * CodeOf(k, x \div 2, y \div 2, z \div 2)
<1>1. ASSUME NEW n \in Nat PROVE SpreadOf(k, n) \in Nat /\ SpreadOf(k + 1, n) = (n % 2) + 8 * SpreadOf(k, n \div 2)
  <2> DEFINE P == {j \in Nat : \A m \in Nat : SpreadOf(j, m) \in Nat}
  <2>1. 0 \in P
    <3>1. 0 .. 0 - 1 = {}
      OBVIOUS
    <3> QED BY <3>1, SumOfNone DEF SpreadOf
  <2>2. ASSUME NEW j \in Nat, j \in P PROVE j + 1 \in P
    <3> SUFFICES ASSUME NEW m \in Nat PROVE SpreadOf(j + 1, m) \in Nat
      OBVIOUS
    <3>1. m \div 2 \in Nat /\ m % 2 \in Nat
      OBVIOUS
    <3>2. SpreadOf(j, m \div 2) \in Nat
      BY <2>2, <3>1
    <3> QED BY <3>1, <3>2, SpreadByHalves
  <2>3. k \in P
    <3> HIDE DEF P
    <3> QED BY <2>1, <2>2, NatSetInduction
  <2> QED BY <2>3, SpreadByHalves
<1>2. x \div 2 \in Nat /\ y \div 2 \in Nat /\ z \div 2 \in Nat /\ x % 2 \in Nat /\ y % 2 \in Nat /\ z % 2 \in Nat
  OBVIOUS
<1>3. /\ SpreadOf(k, x \div 2) \in Nat /\ SpreadOf(k, y \div 2) \in Nat /\ SpreadOf(k, z \div 2) \in Nat
      /\ SpreadOf(k, x) \in Nat /\ SpreadOf(k, y) \in Nat /\ SpreadOf(k, z) \in Nat
  BY <1>1, <1>2
<1>4. /\ SpreadOf(k + 1, x) = (x % 2) + 8 * SpreadOf(k, x \div 2)
      /\ SpreadOf(k + 1, y) = (y % 2) + 8 * SpreadOf(k, y \div 2)
      /\ SpreadOf(k + 1, z) = (z % 2) + 8 * SpreadOf(k, z \div 2)
  BY <1>1
<1> QED
  BY <1>2, <1>3, <1>4 DEF CodeOf, Digit

\* The lowest digit of a code, bit by bit, and what is left without it.
Begins(code, p, q, r, rest) ==
    /\ code \in Nat /\ code % 2 = p % 2 /\ (code \div 2) % 2 = q % 2
    /\ (code \div 4) % 2 = r % 2 /\ code \div 8 = rest
    /\ rest \in Nat /\ code = Digit(p, q, r) + 8 * rest

\* A code ends with the digit of the lowest bits.
LEMMA LowestDigit ==
    ASSUME NEW p \in Nat, NEW q \in Nat, NEW r \in Nat, NEW j \in Nat
    PROVE  Begins(CodeOf(j + 1, p, q, r), p, q, r, CodeOf(j, p \div 2, q \div 2, r \div 2))
<1> DEFINE half == CodeOf(j, p \div 2, q \div 2, r \div 2)
           code == CodeOf(j + 1, p, q, r)
           d == p % 2
           e == q % 2
           f == r % 2
<1>1. half \in Nat
  <2>1. p \div 2 \in Nat /\ q \div 2 \in Nat /\ r \div 2 \in Nat
    OBVIOUS
  <2> QED BY <2>1, CodeByHalves
<1>2. code = Digit(p, q, r) + 8 * half
  BY CodeByHalves, ZenonT(60)
<1>3. d \in 0 .. 1 /\ e \in 0 .. 1 /\ f \in 0 .. 1
  OBVIOUS
<1>4. code = d + 2 * e + 4 * f + 8 * half
  BY <1>2 DEF Digit
<1> HIDE DEF d, e, f, half, code
<1>5. /\ code \in Nat /\ code % 2 = d /\ (code \div 2) % 2 = e
      /\ (code \div 4) % 2 = f /\ code \div 8 = half
  BY <1>1, <1>3, <1>4
<1> QED
  BY <1>1, <1>2, <1>5 DEF d, e, f, half, code, Begins

\* Every third bit of a code is one of the numbers' own.
Interleaves(k, x, y, z, b) ==
    /\ Bit(CodeOf(k, x, y, z), 3 * b) = Bit(x, b)
    /\ Bit(CodeOf(k, x, y, z), 3 * b + 1) = Bit(y, b)
    /\ Bit(CodeOf(k, x, y, z), 3 * b + 2) = Bit(z, b)

\* Those are the lowest bits of the three numbers.
LEMMA LowestBits ==
    ASSUME NEW p \in Nat, NEW q \in Nat, NEW r \in Nat, NEW j \in Nat
    PROVE  Interleaves(j + 1, p, q, r, 0)
<1> DEFINE code == CodeOf(j + 1, p, q, r)
<1>1. /\ code \in Nat /\ code % 2 = p % 2 /\ (code \div 2) % 2 = q % 2
      /\ (code \div 4) % 2 = r % 2
  <2>1. Begins(code, p, q, r, CodeOf(j, p \div 2, q \div 2, r \div 2))
    BY LowestDigit
  <2> HIDE DEF code
  <2> QED BY <2>1 DEF Begins
<1>2. 0 \in Nat /\ 3 * 0 = 0 /\ 3 * 0 + 1 = 1 /\ 3 * 0 + 2 = 2
  OBVIOUS
<1>3. 2 ^ 0 = 1 /\ 2 ^ 1 = 2 /\ 2 ^ 2 = 4
  BY <1>2, Powers
<1> HIDE DEF code
<1>4. code \div 1 = code
  BY <1>1
<1>5. Bit(code, 0) = p % 2 /\ Bit(code, 1) = q % 2 /\ Bit(code, 2) = r % 2
  BY <1>1, <1>3, <1>4 DEF Bit
<1>6. Bit(p, 0) = p % 2 /\ Bit(q, 0) = q % 2 /\ Bit(r, 0) = r % 2
  BY <1>2, BitOfHalf
<1> QED
  BY <1>2, <1>5, <1>6 DEF code, Interleaves

\* The bits of a code are those of its halves.
LEMMA HigherBits ==
    ASSUME NEW p \in Nat, NEW q \in Nat, NEW r \in Nat, NEW j \in Nat, NEW l \in Nat,
           Interleaves(j, p \div 2, q \div 2, r \div 2, l)
    PROVE  Interleaves(j + 1, p, q, r, l + 1)
<1> DEFINE half == CodeOf(j, p \div 2, q \div 2, r \div 2)
           code == CodeOf(j + 1, p, q, r)
<1>1. code \in Nat /\ code \div 8 = half
  <2>1. Begins(code, p, q, r, half)
    BY LowestDigit
  <2> HIDE DEF code, half
  <2> QED BY <2>1 DEF Begins
<1>2. /\ Bit(half, 3 * l) = Bit(p \div 2, l)
      /\ Bit(half, 3 * l + 1) = Bit(q \div 2, l)
      /\ Bit(half, 3 * l + 2) = Bit(r \div 2, l)
  BY DEF Interleaves
<1> HIDE DEF half, code
<1>3. ASSUME NEW i \in Nat PROVE Bit(code, i + 3) = Bit(half, i)
  <2>1. 2 ^ i \in Nat \ {0} /\ 2 ^ (i + 3) = 8 * 2 ^ i /\ 8 \in Nat \ {0}
    BY Powers
  <2>2. (code \div 8) \div 2 ^ i = code \div (8 * 2 ^ i)
    BY <1>1, <2>1, DivideTwice
  <2> QED BY <1>1, <2>1, <2>2 DEF Bit
<1>4. /\ 3 * (l + 1) = 3 * l + 3 /\ 3 * (l + 1) + 1 = (3 * l + 1) + 3
      /\ 3 * (l + 1) + 2 = (3 * l + 2) + 3
      /\ 3 * l \in Nat /\ 3 * l + 1 \in Nat /\ 3 * l + 2 \in Nat
  OBVIOUS
<1>5. /\ Bit(code, 3 * l + 3) = Bit(half, 3 * l)
      /\ Bit(code, (3 * l + 1) + 3) = Bit(half, 3 * l + 1)
      /\ Bit(code, (3 * l + 2) + 3) = Bit(half, 3 * l + 2)
  BY <1>3, <1>4
<1>6. /\ Bit(p, l + 1) = Bit(p \div 2, l) /\ Bit(q, l + 1) = Bit(q \div 2, l)
      /\ Bit(r, l + 1) = Bit(r \div 2, l)
  BY BitOfHalf
<1> QED
  BY <1>2, <1>4, <1>5, <1>6 DEF code, Interleaves

\* Every bit of a code is the one that it should be.
LEMMA BitsOfCode ==
    ASSUME NEW k \in Nat, NEW x \in Nat, NEW y \in Nat, NEW z \in Nat, NEW b \in 0 .. k - 1
    PROVE  Interleaves(k, x, y, z, b)
<1> DEFINE P == {j \in Nat : \A p, q, r \in Nat : \A c \in 0 .. j - 1 : Interleaves(j, p, q, r, c)}
<1>1. 0 \in P
  OBVIOUS
<1>2. ASSUME NEW j \in Nat, j \in P PROVE j + 1 \in P
  <2>1. ASSUME NEW p \in Nat, NEW q \in Nat, NEW r \in Nat, NEW c \in 0 .. j
        PROVE  Interleaves(j + 1, p, q, r, c)
    <3>1. CASE c = 0
      BY <3>1, LowestBits
    <3>2. CASE c # 0
      <4> DEFINE l == c - 1
      <4>1. l \in 0 .. j - 1 /\ l \in Nat /\ c = l + 1
        BY <3>2
      <4>2. p \div 2 \in Nat /\ q \div 2 \in Nat /\ r \div 2 \in Nat
        OBVIOUS
      <4> HIDE DEF l
      <4>3. Interleaves(j, p \div 2, q \div 2, r \div 2, l)
        BY <1>2, <4>1, <4>2
      <4> QED BY <4>1, <4>3, HigherBits
    <3> QED BY <3>1, <3>2
  <2>2. (j + 1) - 1 = j /\ j + 1 \in Nat
    OBVIOUS
  <2> QED BY <2>1, <2>2
<1>3. k \in P
  <2> HIDE DEF P
  <2> QED BY <1>1, <1>2, NatSetInduction
<1> QED
  BY <1>3

-----------------------------------------------------------------------------
\* The sums of the source, over MORTON_BITS bits.
LEMMA SpreadIsSum ==
    ASSUME NEW n
    PROVE  Spread(n) = SpreadOf(MortonBits, n)
<1> DEFINE Sums(g) == g = [T \in SUBSET Bits |->
                             IF T = {} THEN 0
                             ELSE Bit(n, Some(T)) * 2 ^ (3 * Some(T)) + g[T \ {Some(T)}]]
<1>1. Spread(n) = (CHOOSE g : Sums(g))[Bits]
  BY DEF Spread, MapThenSumSet, MapThenFoldSet, Some
<1>2. SumOf(BitPlaces(n), Bits) = (CHOOSE g : SumsUp(g, BitPlaces(n), Bits))[Bits]
  BY DEF SumOf, MapThenSumSet, MapThenFoldSet, SumsUp, Some
<1>3. \A T \in SUBSET Bits : T # {} => BitPlaces(n)[Some(T)] = Bit(n, Some(T)) * 2 ^ (3 * Some(T))
  <2> TAKE T \in SUBSET Bits
  <2> HAVE T # {}
  <2>1. Some(T) \in T
    BY DEF Some
  <2>2. Bits \subseteq Nat
    BY LatticeAssumption DEF Bits
  <2>3. Some(T) \in Nat
    BY <2>1, <2>2
  <2> QED BY <2>3 DEF BitPlaces
<1>4. ASSUME NEW g PROVE Sums(g) <=> SumsUp(g, BitPlaces(n), Bits)
  <2>1. [T \in SUBSET Bits |-> IF T = {} THEN 0
                               ELSE Bit(n, Some(T)) * 2 ^ (3 * Some(T)) + g[T \ {Some(T)}]]
          = [T \in SUBSET Bits |-> IF T = {} THEN 0 ELSE BitPlaces(n)[Some(T)] + g[T \ {Some(T)}]]
    BY <1>3
  <2> QED BY <2>1 DEF SumsUp
<1>5. (CHOOSE g : Sums(g)) = (CHOOSE g : SumsUp(g, BitPlaces(n), Bits))
  <2> HIDE DEF Sums
  <2> QED BY <1>4
<1> QED
  BY <1>1, <1>2, <1>5 DEF SpreadOf, Bits

\* One coordinate of morton_decode, where the bits of the code are those of a number.
LEMMA DecodedIsSum ==
    ASSUME NEW code, NEW n, NEW a \in Axes,
           \A b \in Bits : Bit(code, 3 * b + a - 1) = Bit(n, b)
    PROVE  MortonDecode(code)[a] = ValueOf(MortonBits, n)
<1> DEFINE Sums(g) == g = [T \in SUBSET Bits |->
                             IF T = {} THEN 0
                             ELSE Bit(code, 3 * Some(T) + a - 1) * 2 ^ Some(T) + g[T \ {Some(T)}]]
<1>1. MortonDecode(code)[a] = (CHOOSE g : Sums(g))[Bits]
  BY DEF MortonDecode, MapThenSumSet, MapThenFoldSet, Some
<1>2. SumOf(BitValues(n), Bits) = (CHOOSE g : SumsUp(g, BitValues(n), Bits))[Bits]
  BY DEF SumOf, MapThenSumSet, MapThenFoldSet, SumsUp, Some
<1>3. \A T \in SUBSET Bits : T # {} =>
          BitValues(n)[Some(T)] = Bit(code, 3 * Some(T) + a - 1) * 2 ^ Some(T)
  <2> TAKE T \in SUBSET Bits
  <2> HAVE T # {}
  <2>1. Some(T) \in Bits
    BY DEF Some
  <2>2. Some(T) \in Nat
    BY <2>1 DEF Bits
  <2> QED BY <2>1, <2>2 DEF BitValues
<1>4. ASSUME NEW g PROVE Sums(g) <=> SumsUp(g, BitValues(n), Bits)
  <2>1. [T \in SUBSET Bits |-> IF T = {} THEN 0
                               ELSE Bit(code, 3 * Some(T) + a - 1) * 2 ^ Some(T) + g[T \ {Some(T)}]]
          = [T \in SUBSET Bits |-> IF T = {} THEN 0 ELSE BitValues(n)[Some(T)] + g[T \ {Some(T)}]]
    BY <1>3
  <2> QED BY <2>1 DEF SumsUp
<1>5. (CHOOSE g : Sums(g)) = (CHOOSE g : SumsUp(g, BitValues(n), Bits))
  <2> HIDE DEF Sums
  <2> QED BY <1>4
<1> QED
  BY <1>1, <1>2, <1>5 DEF ValueOf, Bits

\* Where a cell may be.
Triples == [Axes -> Nat]

\* The code of the source is that of MORTON_BITS bits.
LEMMA EncodeIsCode ==
    ASSUME NEW triple \in Triples
    PROVE  /\ MortonEncode(triple) = CodeOf(MortonBits, triple[1], triple[2], triple[3])
           /\ MortonEncode(triple) \in Nat
<1>1. MortonEncode(triple) = CodeOf(MortonBits, triple[1], triple[2], triple[3])
  BY SpreadIsSum DEF MortonEncode, CodeOf
<1>2. triple[1] \in Nat /\ triple[2] \in Nat /\ triple[3] \in Nat /\ MortonBits \in Nat
  BY LatticeAssumption DEF Triples, Axes
<1>3. CodeOf(MortonBits, triple[1], triple[2], triple[3]) \in Nat
  BY <1>2, CodeByHalves, Zenon
<1> QED
  BY <1>1, <1>3

\* morton_decode undoes morton_encode, for every triple that it does not refuse
\* (test_morton_round_trips_over_asymmetric_triples tries four).
THEOREM MortonRoundTrip ==
    ASSUME NEW triple \in Triples, Encodable(triple)
    PROVE  MortonDecode(MortonEncode(triple)) = triple
<1> DEFINE code == MortonEncode(triple)
<1>1. ASSUME NEW a \in Axes PROVE MortonDecode(code)[a] = triple[a]
  <2>1. ASSUME NEW b \in Bits PROVE Bit(code, 3 * b + a - 1) = Bit(triple[a], b)
    <3>1. b \in 0 .. MortonBits - 1 /\ b \in Nat /\ MortonBits \in Nat
      BY LatticeAssumption DEF Bits
    <3>2. triple[1] \in Nat /\ triple[2] \in Nat /\ triple[3] \in Nat
      BY DEF Triples, Axes
    <3>3. /\ Bit(code, 3 * b) = Bit(triple[1], b)
          /\ Bit(code, 3 * b + 1) = Bit(triple[2], b)
          /\ Bit(code, 3 * b + 2) = Bit(triple[3], b)
      <4>1. Interleaves(MortonBits, triple[1], triple[2], triple[3], b)
        BY <3>1, <3>2, BitsOfCode
      <4>2. code = CodeOf(MortonBits, triple[1], triple[2], triple[3])
        BY EncodeIsCode
      <4> HIDE DEF code
      <4> QED BY <4>1, <4>2 DEF Interleaves
    <3>4. 3 * b + 1 - 1 = 3 * b /\ 3 * b + 2 - 1 = 3 * b + 1 /\ 3 * b + 3 - 1 = 3 * b + 2
      BY <3>1
    <3>5. a = 1 \/ a = 2 \/ a = 3
      BY DEF Axes
    <3> QED BY <3>3, <3>4, <3>5
  <2>2. MortonDecode(code)[a] = ValueOf(MortonBits, triple[a])
    <3> HIDE DEF code
    <3> QED BY <2>1, DecodedIsSum
  <2>3. triple[a] \in 0 .. 2 ^ MortonBits - 1 /\ MortonBits \in Nat
    BY LatticeAssumption DEF Encodable
  <2> QED BY <2>2, <2>3, ValueIsNumber
<1>2. MortonDecode(code) = [a \in Axes |-> MortonDecode(code)[a]]
  BY DEF MortonDecode
<1>3. triple = [a \in Axes |-> triple[a]]
  BY DEF Triples
<1> HIDE DEF code
<1>4. MortonDecode(code) = triple
  BY <1>1, <1>2, <1>3
<1> QED
  BY <1>4 DEF code

\* The bit above a number is clear.
LEMMA NoBitAbove ==
    ASSUME NEW k \in Nat, NEW n \in 0 .. 2 ^ k - 1
    PROVE  SpreadOf(k + 1, n) = SpreadOf(k, n)
<1>1. 2 ^ k \in Nat \ {0} /\ n \in Nat
  BY Powers
<1>2. n \div 2 ^ k = 0
  BY <1>1
<1>3. Bit(n, k) = 0
  BY <1>2 DEF Bit
<1>4. 2 ^ (3 * k) \in Nat
  BY Powers
<1>5. BitPlaces(n)[k] = 0
  BY <1>3, <1>4 DEF BitPlaces
<1>6. BitPlaces(n) \in [Nat -> Int] /\ (k + 1) - 1 = k
  BY <1>1, TermsTyped
<1>7. SumOf(BitPlaces(n), 0 .. k) = 0 + SumOf(BitPlaces(n), 0 .. k - 1) /\ SumOf(BitPlaces(n), 0 .. k - 1) \in Int
  BY <1>5, <1>6, SumOfPrefix
<1> QED
  BY <1>6, <1>7 DEF SpreadOf

\* The bits of an octant.
LEMMA OctantBits ==
    ASSUME NEW octant \in Octants
    PROVE  /\ Bit(octant, 0) \in 0 .. 1 /\ Bit(octant, 1) \in 0 .. 1 /\ Bit(octant, 2) \in 0 .. 1
           /\ octant = Bit(octant, 0) + 2 * Bit(octant, 1) + 4 * Bit(octant, 2)
<1>1. 0 \in Nat /\ 2 ^ 0 = 1 /\ 2 ^ 1 = 2 /\ 2 ^ 2 = 4
  <2>1. 0 \in Nat
    OBVIOUS
  <2> QED BY <2>1, Powers
<1>2. /\ Bit(octant, 0) = (octant \div 1) % 2 /\ Bit(octant, 1) = (octant \div 2) % 2
      /\ Bit(octant, 2) = (octant \div 4) % 2
  BY <1>1 DEF Bit
<1>3. octant \in 0 .. 7
  BY DEF Octants
<1>4. \A m \in 0 .. 7 : /\ m % 2 \in 0 .. 1 /\ (m \div 2) % 2 \in 0 .. 1 /\ (m \div 4) % 2 \in 0 .. 1
                         /\ m \div 1 = m /\ m = (m % 2) + 2 * ((m \div 2) % 2) + 4 * ((m \div 4) % 2)
  OBVIOUS
<1>5. /\ octant % 2 \in 0 .. 1 /\ (octant \div 2) % 2 \in 0 .. 1 /\ (octant \div 4) % 2 \in 0 .. 1
      /\ octant \div 1 = octant
      /\ octant = (octant % 2) + 2 * ((octant \div 2) % 2) + 4 * ((octant \div 4) % 2)
  BY <1>3, <1>4
<1> QED
  BY <1>2, <1>5

\* The code of a cell's child is the cell's with the octant behind it, which is how a reader
\* finds the children that a mask names (CellEntry.children) without decoding anything.
THEOREM ChildCodesExtendTheirParents ==
    ASSUME NEW triple \in Triples, NEW octant \in Octants, Encodable(Child(triple, octant))
    PROVE  MortonEncode(Child(triple, octant)) = 8 * MortonEncode(triple) + octant
<1> DEFINE n == MortonBits - 1
<1>1. n \in Nat /\ MortonBits = n + 1 /\ 2 ^ n \in Nat /\ 2 ^ MortonBits = 2 * 2 ^ n
  <2>1. n \in Nat /\ MortonBits = n + 1
    BY LatticeAssumption
  <2> HIDE DEF n
  <2> QED BY <2>1, Powers
<1> HIDE DEF n
<1>2. ASSUME NEW a \in Axes
      PROVE  /\ Child(triple, octant)[a] = 2 * triple[a] + Bit(octant, a - 1)
             /\ Bit(octant, a - 1) \in 0 .. 1
             /\ triple[a] \in Nat
             /\ triple[a] \in 0 .. 2 ^ n - 1
  <2>1. Child(triple, octant)[a] = 2 * triple[a] + Bit(octant, a - 1) /\ triple[a] \in Nat
    BY DEF Child, Triples
  <2>2. a - 1 = 0 \/ a - 1 = 1 \/ a - 1 = 2
    BY DEF Axes
  <2>3. Bit(octant, a - 1) \in 0 .. 1
    BY <2>2, OctantBits
  <2>4. Child(triple, octant)[a] \in 0 .. 2 ^ MortonBits - 1
    BY DEF Encodable
  <2> QED BY <1>1, <2>1, <2>3, <2>4
<1>3. Child(triple, octant) \in Triples
  <2>1. \A a \in Axes : Child(triple, octant)[a] \in Nat
    BY <1>2
  <2> QED BY <2>1 DEF Child, Triples
<1> DEFINE x == triple[1]
           y == triple[2]
           z == triple[3]
           u == Child(triple, octant)[1]
           v == Child(triple, octant)[2]
           w == Child(triple, octant)[3]
<1>4. /\ MortonEncode(Child(triple, octant)) = CodeOf(n + 1, u, v, w)
      /\ MortonEncode(triple) = CodeOf(n + 1, x, y, z)
  BY <1>1, <1>3, EncodeIsCode
<1>5. /\ u = 2 * x + Bit(octant, 0) /\ v = 2 * y + Bit(octant, 1) /\ w = 2 * z + Bit(octant, 2)
      /\ x \in 0 .. 2 ^ n - 1 /\ y \in 0 .. 2 ^ n - 1 /\ z \in 0 .. 2 ^ n - 1
      /\ x \in Nat /\ y \in Nat /\ z \in Nat
  <2>1. 1 \in Axes /\ 2 \in Axes /\ 3 \in Axes /\ 1 - 1 = 0 /\ 2 - 1 = 1 /\ 3 - 1 = 2
    BY DEF Axes
  <2> QED BY <1>2, <2>1
<1> HIDE DEF x, y, z, u, v, w
<1>6. /\ u \in Nat /\ u \div 2 = x /\ u % 2 = Bit(octant, 0)
      /\ v \in Nat /\ v \div 2 = y /\ v % 2 = Bit(octant, 1)
      /\ w \in Nat /\ w \div 2 = z /\ w % 2 = Bit(octant, 2)
  <2>1. \A m \in Nat : \A i \in 0 .. 1 :
           2 * m + i \in Nat /\ (2 * m + i) \div 2 = m /\ (2 * m + i) % 2 = i
    OBVIOUS
  <2>2. Bit(octant, 0) \in 0 .. 1 /\ Bit(octant, 1) \in 0 .. 1 /\ Bit(octant, 2) \in 0 .. 1
    BY OctantBits
  <2> QED BY <1>5, <2>1, <2>2
<1>7. CodeOf(n + 1, u, v, w) = Digit(u, v, w) + 8 * CodeOf(n, u \div 2, v \div 2, w \div 2)
  <2>1. Begins(CodeOf(n + 1, u, v, w), u, v, w, CodeOf(n, u \div 2, v \div 2, w \div 2))
    BY <1>1, <1>6, LowestDigit
  <2> QED BY <2>1 DEF Begins
<1>8. Digit(u, v, w) = octant
  BY <1>6, OctantBits DEF Digit
<1>9. CodeOf(n + 1, x, y, z) = CodeOf(n, x, y, z) /\ CodeOf(n, x, y, z) \in Nat
  <2>1. /\ SpreadOf(n + 1, x) = SpreadOf(n, x) /\ SpreadOf(n + 1, y) = SpreadOf(n, y)
        /\ SpreadOf(n + 1, z) = SpreadOf(n, z)
    BY <1>1, <1>5, NoBitAbove
  <2>2. CodeOf(n, x, y, z) \in Nat
    BY <1>1, <1>5, CodeByHalves, Zenon
  <2> QED BY <2>1, <2>2 DEF CodeOf
<1>10. octant \in Int
  BY DEF Octants
<1>11. CodeOf(n + 1, u, v, w) = octant + 8 * CodeOf(n, x, y, z)
  BY <1>6, <1>7, <1>8
<1> QED
  BY <1>4, <1>9, <1>10, <1>11

-----------------------------------------------------------------------------
(* Lists and masks (numpy boolean masks, np.unique). *)

(* Meshes.                                                                 *)

\* A list holds each member of a set of numbers where it stands among them.
Lists(list, S) ==
    /\ list \in Seq(S)
    /\ Len(list) = Cardinality(S) /\ Len(list) \in Nat /\ DOMAIN list = 1 .. Len(list)
    /\ \A i \in DOMAIN list : list[i] \in S /\ Rank(S, list[i]) = i
    /\ \A n \in S : Rank(S, n) \in DOMAIN list /\ list[Rank(S, n)] = n

\* Ranks differ, and none is left out.
LEMMA RanksAreBijective ==
    ASSUME NEW S \in SUBSET Int, IsFiniteSet(S)
    PROVE  /\ Cardinality(S) \in Nat
           /\ \A n \in S : Rank(S, n) \in 1 .. Cardinality(S)
           /\ \A m, n \in S : Rank(S, m) = Rank(S, n) => m = n
           /\ \A i \in 1 .. Cardinality(S) : \E n \in S : Rank(S, n) = i
<1> DEFINE Below(n) == {m \in S : m <= n}
           rank == [n \in S |-> Rank(S, n)]
<1>1. Cardinality(S) \in Nat
  BY FS_CardinalityType
<1>2. ASSUME NEW n \in S
      PROVE  /\ IsFiniteSet(Below(n)) /\ Cardinality(Below(n)) \in Nat
             /\ Rank(S, n) = Cardinality(Below(n)) /\ Rank(S, n) \in 1 .. Cardinality(S)
  <2>1. Below(n) \in SUBSET S /\ n \in Below(n)
    OBVIOUS
  <2>2. IsFiniteSet(Below(n)) /\ Cardinality(Below(n)) <= Cardinality(S)
    BY <2>1, FS_Subset
  <2>3. Cardinality(Below(n)) \in Nat /\ Cardinality(Below(n)) # 0
    BY <2>1, <2>2, FS_CardinalityType, FS_EmptySet
  <2>4. Rank(S, n) = Cardinality(Below(n))
    BY DEF Rank
  <2> QED BY <1>1, <2>2, <2>3, <2>4
<1>3. ASSUME NEW m \in S, NEW n \in S, m < n PROVE Rank(S, m) # Rank(S, n)
  <2>1. Below(m) \in SUBSET Below(n) /\ n \in Below(n) /\ n \notin Below(m)
    <3>1. m \in Int /\ n \in Int /\ \A k \in S : k \in Int
      OBVIOUS
    <3>2. \A k \in Below(m) : k \in S /\ k <= n
      BY <1>3, <3>1
    <3>3. n \in Below(n) /\ n \notin Below(m)
      BY <1>3, <3>1
    <3> QED BY <3>2, <3>3
  <2>2. Cardinality(Below(n)) = Cardinality(Below(m)) => Below(n) = Below(m)
    BY <1>2, <2>1, FS_Subset
  <2> QED BY <1>2, <2>1, <2>2
<1>4. ASSUME NEW m \in S, NEW n \in S, Rank(S, m) = Rank(S, n) PROVE m = n
  <2>1. m < n \/ n < m \/ m = n
    OBVIOUS
  <2> QED BY <1>3, <1>4, <2>1
<1>5. rank \in Injection(S, 1 .. Cardinality(S))
  BY <1>2, <1>4 DEF Injection, IsInjective
<1>6. rank \in Surjection(S, 1 .. Cardinality(S))
  <2>1. IsFiniteSet(1 .. Cardinality(S)) /\ Cardinality(1 .. Cardinality(S)) = Cardinality(S)
    BY <1>1, FS_Interval
  <2> HIDE DEF rank
  <2> QED BY <1>5, <2>1, FS_Injection
<1>7. ASSUME NEW i \in 1 .. Cardinality(S) PROVE \E n \in S : Rank(S, n) = i
  BY <1>6 DEF Surjection
<1> QED
  BY <1>1, <1>2, <1>4, <1>7

\* InOrder is such a list.
LEMMA InOrderLists ==
    ASSUME NEW S \in SUBSET Int, IsFiniteSet(S)
    PROVE  Lists(InOrder(S), S)
<1> DEFINE list == InOrder(S)
<1>1. /\ Cardinality(S) \in Nat
      /\ \A n \in S : Rank(S, n) \in 1 .. Cardinality(S)
      /\ \A m, n \in S : Rank(S, m) = Rank(S, n) => m = n
      /\ \A i \in 1 .. Cardinality(S) : \E n \in S : Rank(S, n) = i
  BY RanksAreBijective
<1>2. ASSUME NEW i \in 1 .. Cardinality(S) PROVE list[i] \in S /\ Rank(S, list[i]) = i
  <2>1. list[i] = CHOOSE n \in S : Rank(S, n) = i
    BY DEF InOrder
  <2> QED BY <1>1, <2>1
<1>3. list \in [1 .. Cardinality(S) -> S]
  BY <1>2 DEF InOrder
<1>4. list \in Seq(S) /\ Len(list) = Cardinality(S) /\ DOMAIN list = 1 .. Len(list)
  <2> HIDE DEF list
  <2> QED BY <1>1, <1>3
<1>5. ASSUME NEW n \in S PROVE Rank(S, n) \in DOMAIN list /\ list[Rank(S, n)] = n
  <2>1. Rank(S, n) \in 1 .. Cardinality(S)
    BY <1>1
  <2>2. list[Rank(S, n)] \in S /\ Rank(S, list[Rank(S, n)]) = Rank(S, n)
    BY <1>2, <2>1
  <2> HIDE DEF list
  <2> QED BY <1>1, <1>4, <2>1, <2>2
<1> HIDE DEF list
<1> QED
  BY <1>1, <1>2, <1>4, <1>5 DEF Lists, list

\* Some of a sequence's members, each where its place stands among theirs.
Picked(some, list, kept) ==
    /\ some \in Seq({list[v] : v \in kept})
    /\ Len(some) = Cardinality(kept) /\ Len(some) \in Nat /\ DOMAIN some = 1 .. Len(some)
    /\ \A v \in kept : Rank(kept, v) \in DOMAIN some /\ some[Rank(kept, v)] = list[v]
    /\ \A i \in DOMAIN some : \E v \in kept : Rank(kept, v) = i /\ some[i] = list[v]

\* The places of a sequence that a mask keeps.
LEMMA PlacesFinite ==
    ASSUME NEW list, NEW n \in Nat, DOMAIN list = 1 .. n, NEW kept \in SUBSET DOMAIN list
    PROVE  IsFiniteSet(kept) /\ kept \in SUBSET Int
<1>1. IsFiniteSet(1 .. n)
  BY FS_Interval
<1> QED BY <1>1, FS_Subset

\* A mask picks what it keeps, in order.
LEMMA MaskedPicks ==
    ASSUME NEW list, NEW n \in Nat, DOMAIN list = 1 .. n, NEW kept \in SUBSET DOMAIN list
    PROVE  Picked(Masked(list, kept), list, kept)
<1> DEFINE some == Masked(list, kept)
           order == InOrder(kept)
           Members == {list[v] : v \in kept}
<1>1. Lists(order, kept)
  BY PlacesFinite, InOrderLists
<1>2. some = [i \in DOMAIN order |-> list[order[i]]]
  BY DEF Masked
<1> HIDE DEF some, order
<1>3. /\ Len(order) = Cardinality(kept) /\ Len(order) \in Nat /\ DOMAIN order = 1 .. Len(order)
      /\ \A i \in DOMAIN order : order[i] \in kept /\ Rank(kept, order[i]) = i
      /\ \A v \in kept : Rank(kept, v) \in DOMAIN order /\ order[Rank(kept, v)] = v
  BY <1>1 DEF Lists
<1>4. some \in [1 .. Len(order) -> Members]
  BY <1>2, <1>3
<1>5. some \in Seq(Members) /\ Len(some) = Len(order) /\ DOMAIN some = DOMAIN order
  <2> HIDE DEF Members
  <2> QED BY <1>3, <1>4
<1>6. \A v \in kept : Rank(kept, v) \in DOMAIN some /\ some[Rank(kept, v)] = list[v]
  BY <1>2, <1>3, <1>5
<1>7. \A i \in DOMAIN some : \E v \in kept : Rank(kept, v) = i /\ some[i] = list[v]
  BY <1>2, <1>3, <1>5
<1> QED
  BY <1>3, <1>5, <1>6, <1>7 DEF Picked, some

\* What a masked sequence is.
LEMMA MaskedTyped ==
    ASSUME NEW T, NEW list \in Seq(T), NEW kept \in SUBSET DOMAIN list
    PROVE  /\ Masked(list, kept) \in Seq(T)
           /\ DOMAIN Masked(list, kept) = 1 .. Len(Masked(list, kept))
           /\ Len(Masked(list, kept)) = Cardinality(kept)
           /\ kept # {} => Masked(list, kept) # <<>>
           /\ \A i \in DOMAIN Masked(list, kept) : \E v \in kept : Masked(list, kept)[i] = list[v]
<1> DEFINE some == Masked(list, kept)
<1>1. Len(list) \in Nat /\ DOMAIN list = 1 .. Len(list) /\ \A v \in DOMAIN list : list[v] \in T
  OBVIOUS
<1>2. Picked(some, list, kept)
  BY <1>1, MaskedPicks
<1> HIDE DEF some
<1>3. /\ some \in Seq({list[v] : v \in kept}) /\ Len(some) = Cardinality(kept) /\ Len(some) \in Nat
      /\ DOMAIN some = 1 .. Len(some)
      /\ \A i \in DOMAIN some : \E v \in kept : some[i] = list[v]
      /\ \A v \in kept : Rank(kept, v) \in DOMAIN some
  BY <1>2 DEF Picked
<1>4. some \in [1 .. Len(some) -> T]
  BY <1>1, <1>3
<1>5. some \in Seq(T)
  BY <1>3, <1>4
<1>6. kept # {} => some # <<>>
  BY <1>3
<1> QED
  BY <1>3, <1>5, <1>6 DEF some

-----------------------------------------------------------------------------
(* Faces and meshes. *)

\* Faces under other names, given by a function.
RenamedBy(faces, name) == Renamed(faces, LAMBDA v : name[v])

\* The corners of a face are used.
LEMMA FaceCorners ==
    ASSUME NEW faces \in Seq(Face), NEW f \in DOMAIN faces, NEW a \in Axes
    PROVE  /\ faces[f][a] \in Nat \ {0} /\ faces[f][a] \in Used(faces)
           /\ faces[f] \in Face /\ faces[f] = [b \in Axes |-> faces[f][b]]
<1>1. faces[f] \in Face
  OBVIOUS
<1>2. faces[f][a] \in Corners(faces[f])
  BY DEF Corners
<1> QED
  BY <1>1, <1>2 DEF Face, Used

\* What is used is the corner of a face.
LEMMA UsedTyped ==
    ASSUME NEW faces \in Seq(Face), NEW v \in Used(faces)
    PROVE  v \in Nat \ {0} /\ \E f \in DOMAIN faces : \E a \in Axes : v = faces[f][a]
<1>1. PICK f \in DOMAIN faces : v \in Corners(faces[f])
  BY DEF Used
<1>2. PICK a \in Axes : v = faces[f][a]
  BY <1>1 DEF Corners
<1> QED
  BY <1>2, FaceCorners

\* Faces under other names are faces, and use those names.
LEMMA RenamedTyped ==
    ASSUME NEW faces \in Seq(Face), NEW name, Used(faces) \subseteq DOMAIN name,
           \A v \in Used(faces) : name[v] \in Nat \ {0}
    PROVE  /\ RenamedBy(faces, name) \in Seq(Face)
           /\ Len(RenamedBy(faces, name)) = Len(faces)
           /\ DOMAIN RenamedBy(faces, name) = DOMAIN faces
           /\ \A f \in DOMAIN faces : \A a \in Axes : RenamedBy(faces, name)[f][a] = name[faces[f][a]]
           /\ Used(RenamedBy(faces, name)) = {name[v] : v \in Used(faces)}
<1> DEFINE new == RenamedBy(faces, name)
<1>1. new = [f \in DOMAIN faces |-> [a \in Axes |-> name[faces[f][a]]]]
  BY DEF RenamedBy, Renamed
<1> HIDE DEF new
<1>2. ASSUME NEW f \in DOMAIN faces PROVE new[f] \in Face
  <2>1. \A a \in Axes : name[faces[f][a]] \in Nat \ {0}
    BY FaceCorners
  <2> QED BY <1>1, <2>1 DEF Face
<1>3. Len(faces) \in Nat /\ DOMAIN faces = 1 .. Len(faces)
  OBVIOUS
<1>4. new \in [1 .. Len(faces) -> Face]
  BY <1>1, <1>2, <1>3
<1>5. new \in Seq(Face) /\ Len(new) = Len(faces) /\ DOMAIN new = DOMAIN faces
  BY <1>1, <1>3, <1>4
<1>6. \A f \in DOMAIN faces : \A a \in Axes : new[f][a] = name[faces[f][a]]
  BY <1>1
<1>7. Used(new) = {name[v] : v \in Used(faces)}
  <2>1. ASSUME NEW u \in Used(new) PROVE \E v \in Used(faces) : u = name[v]
    <3>1. PICK f \in DOMAIN faces, a \in Axes : u = new[f][a]
      BY <1>5, UsedTyped
    <3> QED BY <1>6, <3>1, FaceCorners
  <2>2. ASSUME NEW v \in Used(faces) PROVE name[v] \in Used(new)
    <3>1. PICK f \in DOMAIN faces, a \in Axes : v = faces[f][a]
      BY UsedTyped
    <3>2. new[f][a] \in Used(new)
      BY <1>5, FaceCorners
    <3> QED BY <1>6, <3>1, <3>2
  <2> QED BY <2>1, <2>2
<1> QED
  BY <1>5, <1>6, <1>7 DEF new

\* Some of the faces.
LEMMA MaskedFaces ==
    ASSUME NEW faces \in Seq(Face), NEW kept \in SUBSET DOMAIN faces
    PROVE  /\ Masked(faces, kept) \in Seq(Face)
           /\ kept # {} => Masked(faces, kept) # <<>>
           /\ Used(Masked(faces, kept)) \subseteq UNION {Corners(faces[f]) : f \in kept}
           /\ Used(Masked(faces, kept)) \subseteq Used(faces)
           /\ \A g \in DOMAIN Masked(faces, kept) : \E f \in kept : Masked(faces, kept)[g] = faces[f]
<1> DEFINE some == Masked(faces, kept)
<1>1. /\ some \in Seq(Face) /\ (kept # {} => some # <<>>)
      /\ \A g \in DOMAIN some : \E f \in kept : some[g] = faces[f]
  BY MaskedTyped
<1> HIDE DEF some
<1>2. Used(some) \subseteq UNION {Corners(faces[f]) : f \in kept}
  BY <1>1 DEF Used
<1>3. Used(some) \subseteq Used(faces)
  BY <1>2 DEF Used
<1> QED
  BY <1>1, <1>2, <1>3 DEF some

\* Some of the faces again; one with three corners stays.
LEMMA ProperFacesTyped ==
    ASSUME NEW faces \in Seq(Face)
    PROVE  /\ ProperFaces(faces) \in Seq(Face)
           /\ Used(ProperFaces(faces)) \subseteq Used(faces)
           /\ (\E f \in DOMAIN faces : Proper(faces[f])) => ProperFaces(faces) # <<>>
<1> DEFINE kept == {f \in DOMAIN faces : Proper(faces[f])}
<1>1. ProperFaces(faces) = Masked(faces, kept) /\ kept \in SUBSET DOMAIN faces
  BY DEF ProperFaces
<1>2. (\E f \in DOMAIN faces : Proper(faces[f])) => kept # {}
  OBVIOUS
<1> HIDE DEF kept
<1> QED
  BY <1>1, <1>2, MaskedFaces

\* A mesh and nothing that it does not need.
LEMMA CompactedIsMesh ==
    ASSUME NEW points \in Seq(Point), NEW faces \in Seq(Face), NEW kept \in SUBSET DOMAIN points,
           Used(faces) \subseteq kept
    PROVE  /\ IsMesh(Compacted(points, faces, kept))
           /\ Len(Compacted(points, faces, kept).faces) = Len(faces)
           /\ faces # <<>> => Compacted(points, faces, kept).faces # <<>>
           /\ \A i \in DOMAIN Compacted(points, faces, kept).points :
                 \E v \in kept : Compacted(points, faces, kept).points[i] = points[v]
<1> DEFINE mesh == Compacted(points, faces, kept)
           name == [v \in kept |-> Rank(kept, v)]
<1>1. mesh.points = Masked(points, kept) /\ mesh.faces = Renamed(faces, LAMBDA v : Rank(kept, v))
  BY DEF Compacted
<1>2. Renamed(faces, LAMBDA v : Rank(kept, v)) = RenamedBy(faces, name)
  <2>1. \A f \in DOMAIN faces : \A a \in Axes : faces[f][a] \in kept
    BY FaceCorners
  <2> QED BY <2>1 DEF Renamed, RenamedBy
<1> HIDE DEF mesh
<1>3. Len(points) \in Nat /\ DOMAIN points = 1 .. Len(points)
  OBVIOUS
<1>4. /\ Masked(points, kept) \in Seq(Point)
      /\ DOMAIN Masked(points, kept) = 1 .. Len(Masked(points, kept))
      /\ \A i \in DOMAIN Masked(points, kept) : \E v \in kept : Masked(points, kept)[i] = points[v]
  BY MaskedTyped
<1>5. \A v \in kept : Rank(kept, v) \in DOMAIN Masked(points, kept)
  BY <1>3, MaskedPicks DEF Picked
<1>6. /\ Used(faces) \subseteq DOMAIN name
      /\ \A v \in Used(faces) : name[v] \in Nat \ {0} /\ name[v] \in DOMAIN Masked(points, kept)
  BY <1>4, <1>5
<1> HIDE DEF name
<1>7. /\ mesh.faces \in Seq(Face) /\ Len(mesh.faces) = Len(faces)
      /\ Used(mesh.faces) = {name[v] : v \in Used(faces)}
  <2>1. /\ RenamedBy(faces, name) \in Seq(Face)
        /\ Len(RenamedBy(faces, name)) = Len(faces)
        /\ Used(RenamedBy(faces, name)) = {name[v] : v \in Used(faces)}
    BY <1>6, RenamedTyped
  <2>2. mesh.faces = RenamedBy(faces, name)
    BY <1>1, <1>2
  <2> QED BY <2>1, <2>2
<1>8. faces # <<>> => mesh.faces # <<>>
  BY <1>7
<1>9. IsMesh(mesh)
  BY <1>1, <1>4, <1>6, <1>7 DEF IsMesh
<1> QED
  BY <1>1, <1>4, <1>7, <1>8, <1>9 DEF mesh

\* The meshes.
Meshes == {mesh \in [points : Seq(Point), faces : Seq(Face)] : IsMesh(mesh)}

\* A mesh with a face whose corners are in three places.
Shaped(mesh) == IsMesh(mesh) /\ \E f \in DOMAIN mesh.faces : Proper(Placed(mesh, f))

\* Nothing at all is a mesh.
LEMMA NoMeshIsMesh == NoMesh \in Meshes
<1>1. <<>> \in Seq(Point) /\ <<>> \in Seq(Face) /\ DOMAIN <<>> = {}
  OBVIOUS
<1> QED
  BY <1>1 DEF NoMesh, Meshes, IsMesh, Used

\* The corners of a face are vertices, and are somewhere.
LEMMA MeshCorners ==
    ASSUME NEW mesh, IsMesh(mesh), NEW f \in DOMAIN mesh.faces, NEW a \in Axes
    PROVE  /\ mesh.faces[f][a] \in DOMAIN mesh.points
           /\ mesh.faces[f][a] \in Nat \ {0}
           /\ mesh.points[mesh.faces[f][a]] \in Point
<1>1. mesh.faces \in Seq(Face) /\ mesh.points \in Seq(Point)
  BY DEF IsMesh
<1>2. mesh.faces[f][a] \in Nat \ {0} /\ mesh.faces[f][a] \in Used(mesh.faces)
  BY <1>1, FaceCorners
<1> QED
  BY <1>1, <1>2 DEF IsMesh

\* One sequence behind the other.
Follow(both, s, t) ==
    /\ Len(s) \in Nat /\ Len(t) \in Nat /\ DOMAIN s = 1 .. Len(s) /\ DOMAIN t = 1 .. Len(t)
    /\ DOMAIN both = 1 .. Len(s) + Len(t) /\ Len(both) = Len(s) + Len(t)
    /\ \A i \in DOMAIN s : both[i] = s[i]
    /\ \A i \in DOMAIN t : Len(s) + i \in DOMAIN both /\ both[Len(s) + i] = t[i]
    /\ \A i \in DOMAIN both : i \in DOMAIN s \/ (i - Len(s) \in DOMAIN t /\ i = Len(s) + (i - Len(s)))

\* Concatenation is that.
LEMMA ConcatFollows ==
    ASSUME NEW T, NEW s \in Seq(T), NEW t \in Seq(T)
    PROVE  s \o t \in Seq(T) /\ Follow(s \o t, s, t)
<1>1. Len(s) \in Nat /\ Len(t) \in Nat /\ DOMAIN s = 1 .. Len(s) /\ DOMAIN t = 1 .. Len(t)
  OBVIOUS
<1>2. s \o t \in Seq(T) /\ Len(s \o t) = Len(s) + Len(t)
  OBVIOUS
<1>3. DOMAIN (s \o t) = 1 .. Len(s) + Len(t)
  BY <1>1, <1>2
<1>4. \A i \in DOMAIN s : (s \o t)[i] = s[i]
  BY <1>1
<1>5. \A i \in DOMAIN t : Len(s) + i \in DOMAIN (s \o t) /\ (s \o t)[Len(s) + i] = t[i]
  BY <1>1, <1>3
<1>6. \A i \in DOMAIN (s \o t) : i \in DOMAIN s \/ (i - Len(s) \in DOMAIN t /\ i = Len(s) + (i - Len(s)))
  BY <1>1, <1>3
<1> QED
  BY <1>1, <1>2, <1>3, <1>4, <1>5, <1>6 DEF Follow

\* Two meshes as one: a mesh, in which the faces of the second are where they were.
LEMMA StackedIsMesh ==
    ASSUME NEW mesh, IsMesh(mesh), NEW piece, IsMesh(piece)
    PROVE  /\ Stacked(mesh, piece) \in Meshes
           /\ Shaped(piece) => Shaped(Stacked(mesh, piece))
<1> DEFINE both == Stacked(mesh, piece)
           n == Len(mesh.points)
           m == Len(mesh.faces)
           name == [v \in DOMAIN piece.points |-> v + n]
           moved == RenamedBy(piece.faces, name)
<1>1. /\ mesh.points \in Seq(Point) /\ mesh.faces \in Seq(Face) /\ n \in Nat /\ DOMAIN mesh.points = 1 .. n
      /\ piece.points \in Seq(Point) /\ piece.faces \in Seq(Face) /\ m \in Nat
      /\ DOMAIN piece.points = 1 .. Len(piece.points) /\ Len(piece.points) \in Nat
      /\ DOMAIN piece.faces = 1 .. Len(piece.faces) /\ Len(piece.faces) \in Nat
      /\ DOMAIN mesh.faces = 1 .. m
  BY DEF IsMesh
<1>2. both.points = mesh.points \o piece.points /\ both.faces = mesh.faces \o moved
      /\ both = [points |-> mesh.points \o piece.points, faces |-> mesh.faces \o moved]
  <2>1. Renamed(piece.faces, LAMBDA v : v + Len(mesh.points)) = moved
    BY MeshCorners DEF Renamed, RenamedBy
  <2>2. both = [points |-> mesh.points \o piece.points, faces |-> mesh.faces \o moved]
    BY <2>1 DEF Stacked
  <2> HIDE DEF both, moved
  <2> QED BY <2>2
<1> HIDE DEF both
<1>3. /\ Used(piece.faces) \subseteq DOMAIN name
      /\ \A v \in Used(piece.faces) : name[v] \in Nat \ {0} /\ name[v] \in 1 .. n + Len(piece.points)
      /\ \A v \in DOMAIN piece.points : name[v] = v + n
  <2>1. \A v \in DOMAIN piece.points : name[v] = v + n
    OBVIOUS
  <2>2. Used(piece.faces) \subseteq DOMAIN piece.points /\ DOMAIN name = DOMAIN piece.points
    BY DEF IsMesh
  <2> HIDE DEF name, n
  <2>3. \A v \in DOMAIN piece.points : v + n \in Nat \ {0} /\ v + n \in 1 .. n + Len(piece.points)
    BY <1>1
  <2> QED BY <2>1, <2>2, <2>3
<1> HIDE DEF n, m, name
<1>4. /\ moved \in Seq(Face) /\ Len(moved) = Len(piece.faces) /\ DOMAIN moved = DOMAIN piece.faces
      /\ \A f \in DOMAIN piece.faces : \A a \in Axes : moved[f][a] = name[piece.faces[f][a]]
      /\ Used(moved) = {name[v] : v \in Used(piece.faces)}
  BY <1>1, <1>3, RenamedTyped
<1> HIDE DEF moved
<1>5. /\ both.points \in Seq(Point) /\ DOMAIN both.points = 1 .. n + Len(piece.points)
      /\ \A v \in DOMAIN piece.points : both.points[n + v] = piece.points[v]
  <2>1. both.points \in Seq(Point) /\ Follow(both.points, mesh.points, piece.points)
    BY <1>1, <1>2, ConcatFollows
  <2> QED BY <2>1 DEF Follow, n
<1>6. /\ both.faces \in Seq(Face) /\ DOMAIN both.faces = 1 .. m + Len(piece.faces)
      /\ \A f \in DOMAIN piece.faces : both.faces[m + f] = moved[f]
      /\ \A f \in DOMAIN both.faces : f \in DOMAIN mesh.faces \/ f - m \in DOMAIN piece.faces
      /\ \A f \in DOMAIN mesh.faces : both.faces[f] = mesh.faces[f]
  <2>1. both.faces \in Seq(Face) /\ Follow(both.faces, mesh.faces, moved)
    BY <1>1, <1>2, <1>4, ConcatFollows
  <2> QED BY <1>4, <2>1 DEF Follow, m
<1>7. Used(both.faces) \subseteq 1 .. n + Len(piece.points)
  <2> SUFFICES ASSUME NEW u \in Used(both.faces) PROVE u \in 1 .. n + Len(piece.points)
    OBVIOUS
  <2>1. PICK f \in DOMAIN both.faces, a \in Axes : u = both.faces[f][a]
    BY <1>6, UsedTyped
  <2>2. CASE f \in DOMAIN mesh.faces
    <3>1. mesh.faces[f][a] \in 1 .. n
      BY <1>1, <2>2, MeshCorners
    <3>2. u = mesh.faces[f][a]
      BY <1>6, <2>1, <2>2
    <3> QED BY <1>1, <3>1, <3>2
  <2>3. CASE f - m \in DOMAIN piece.faces
    <3>1. u = moved[f - m][a]
      <4>1. f = m + (f - m)
        BY <1>1, <1>6
      <4> QED BY <1>6, <2>1, <2>3, <4>1
    <3>2. u \in Used(moved)
      BY <1>4, <2>3, <3>1, FaceCorners
    <3> QED BY <1>3, <1>4, <3>2
  <2> QED BY <1>6, <2>1, <2>2, <2>3
<1>8. IsMesh(both)
  BY <1>5, <1>6, <1>7 DEF IsMesh
<1>9. both \in Meshes
  BY <1>2, <1>5, <1>6, <1>8 DEF Meshes
<1>10. ASSUME Shaped(piece) PROVE Shaped(both)
  <2>1. PICK f \in DOMAIN piece.faces : Proper(Placed(piece, f))
    BY <1>10 DEF Shaped
  <2>2. m + f \in DOMAIN both.faces /\ both.faces[m + f] = moved[f]
    BY <1>1, <1>6
  <2>3. ASSUME NEW a \in Axes PROVE both.points[both.faces[m + f][a]] = piece.points[piece.faces[f][a]]
    <3>1. piece.faces[f][a] \in DOMAIN piece.points
      BY MeshCorners
    <3>2. both.faces[m + f][a] = name[piece.faces[f][a]]
      BY <1>4, <2>2
    <3>3. name[piece.faces[f][a]] = piece.faces[f][a] + n /\ piece.faces[f][a] \in Nat /\ n \in Nat
      BY <1>1, <1>3, <3>1
    <3>4. both.points[n + piece.faces[f][a]] = piece.points[piece.faces[f][a]]
      BY <1>5, <3>1
    <3> QED BY <3>2, <3>3, <3>4
  <2>4. Placed(both, m + f) = Placed(piece, f)
    BY <2>3 DEF Placed
  <2> QED BY <1>8, <2>1, <2>2, <2>4 DEF Shaped
<1> QED
  BY <1>9, <1>10 DEF both

-----------------------------------------------------------------------------
(* Welding (geometry.concatenate_and_weld). *)

\* The meshes that come about when pieces are joined one by one.
Joins(meshes, pieces) ==
    /\ Len(pieces) \in Nat
    /\ meshes \in [0 .. Len(pieces) -> Meshes] /\ meshes[0] = NoMesh
    /\ \A k \in 1 .. Len(pieces) : meshes[k] = Stacked(meshes[k - 1], pieces[k])
    /\ Concatenated(pieces) = meshes[Len(pieces)]

\* A sequence of meshes.
ArePieces(pieces) ==
    /\ Len(pieces) \in Nat /\ DOMAIN pieces = 1 .. Len(pieces)
    /\ \A i \in DOMAIN pieces : IsMesh(pieces[i])

\* There are such meshes, one for each number of pieces.
LEMMA JoinsExist ==
    ASSUME NEW pieces, ArePieces(pieces)
    PROVE  \E meshes : Joins(meshes, pieces)
<1> DEFINE n == Len(pieces)
           step == [p \in Meshes \X (1 .. n) |-> Stacked(p[1], pieces[p[2]])]
           Folded(g) == g = [T \in SUBSET DOMAIN pieces |->
                                IF T = {} THEN NoMesh ELSE Stacked(g[T \ {Max(T)}], pieces[Max(T)])]
           fold == CHOOSE g : Folded(g)
<1>1. n \in Nat /\ DOMAIN pieces = 1 .. n
  BY DEF ArePieces
<1>0. ASSUME NEW mesh \in Meshes, NEW k \in 1 .. n PROVE Stacked(mesh, pieces[k]) \in Meshes
  <2>1. IsMesh(mesh) /\ IsMesh(pieces[k])
    BY <1>1 DEF ArePieces, Meshes
  <2> QED BY <2>1, StackedIsMesh
<1>2. PICK h \in [SUBSET (1 .. n) -> Meshes] : LeftFolds(h, n, NoMesh, step)
  <2>2. step \in Steps(Meshes, 1 .. n)
    <3>1. \A p \in Meshes \X (1 .. n) : Stacked(p[1], pieces[p[2]]) \in Meshes
      BY <1>0
    <3> QED BY <3>1 DEF Steps
  <2> HIDE DEF step, n
  <2> QED BY <1>1, <2>2, NoMeshIsMesh, LeftFoldExists
<1>3. ASSUME NEW T \in SUBSET (1 .. n), T # {}
      PROVE  h[T] = Stacked(h[T \ {Max(T)}], pieces[Max(T)])
  <2>1. Max(T) \in 1 .. n /\ h[T \ {Max(T)}] \in Meshes
    BY <1>1, <1>3, LargestPosition
  <2> QED BY <1>2, <1>3, <2>1 DEF LeftFolds, Folds, LeftPick
<1>4. Folded(h)
  <2>1. h[{}] = NoMesh
    BY <1>2 DEF LeftFolds, Folds
  <2> QED BY <1>1, <1>3, <2>1
<1>5. Folded(fold)
  <2> HIDE DEF Folded
  <2> QED BY <1>4
<1>6. ASSUME NEW k \in 1 .. n PROVE fold[1 .. k] = Stacked(fold[1 .. (k - 1)], pieces[k])
  <2>1. Max(1 .. k) = k /\ (1 .. k) \ {k} = 1 .. (k - 1)
    BY LargestOfPrefix
  <2>2. 1 .. k \in SUBSET (1 .. n) /\ k \in 1 .. k
    BY <1>1
  <2> HIDE DEF fold
  <2> QED BY <1>1, <1>5, <2>1, <2>2
<1>7. fold[1 .. 0] = NoMesh
  <2> HIDE DEF fold
  <2> QED BY <1>1, <1>5
<1> HIDE DEF fold
<1>8. ASSUME NEW k \in 0 .. n PROVE fold[1 .. k] \in Meshes
  <2> DEFINE P == {m \in Nat : m <= n => fold[1 .. m] \in Meshes}
  <2>1. 0 \in P
    BY <1>7, NoMeshIsMesh
  <2>2. ASSUME NEW m \in Nat, m \in P PROVE m + 1 \in P
    <3> SUFFICES ASSUME m + 1 <= n PROVE fold[1 .. (m + 1)] \in Meshes
      OBVIOUS
    <3>1. m + 1 \in 1 .. n /\ (m + 1) - 1 = m
      BY <1>1
    <3>2. fold[1 .. m] \in Meshes
      BY <1>1, <2>2, <3>1
    <3>3. fold[1 .. (m + 1)] = Stacked(fold[1 .. m], pieces[m + 1])
      BY <1>6, <3>1
    <3> QED BY <1>0, <3>1, <3>2, <3>3
  <2>3. Nat \subseteq P
    <3> HIDE DEF P
    <3> QED BY <2>1, <2>2, NatSetInduction
  <2> QED BY <1>1, <2>3
<1> DEFINE meshes == [k \in 0 .. n |-> fold[1 .. k]]
<1>9. Concatenated(pieces) = meshes[n]
  <2>1. FoldLeft(Stacked, NoMesh, pieces) = fold[DOMAIN pieces]
    BY DEF FoldLeft, MapThenFoldSet, fold
  <2>2. fold[DOMAIN pieces] = meshes[n]
    BY <1>1
  <2> HIDE DEF meshes
  <2> QED BY <2>1, <2>2 DEF Concatenated
<1>10. /\ meshes \in [0 .. n -> Meshes] /\ meshes[0] = NoMesh
       /\ \A k \in 1 .. n : meshes[k] = Stacked(meshes[k - 1], pieces[k])
  BY <1>1, <1>6, <1>7, <1>8
<1> HIDE DEF meshes
<1> QED
  BY <1>1, <1>9, <1>10 DEF Joins

\* Meshes joined are a mesh, which has a face if they have.
LEMMA ConcatenatedIsMesh ==
    ASSUME NEW pieces, ArePieces(pieces)
    PROVE  /\ Concatenated(pieces) \in Meshes /\ IsMesh(Concatenated(pieces))
           /\ Len(pieces) # 0 /\ (\A i \in DOMAIN pieces : Shaped(pieces[i])) => Shaped(Concatenated(pieces))
<1>1. PICK meshes : Joins(meshes, pieces)
  BY JoinsExist
<1> DEFINE n == Len(pieces)
<1>2. n \in Nat /\ meshes[n] \in Meshes /\ Concatenated(pieces) = meshes[n]
  BY <1>1 DEF Joins
<1>3. IsMesh(Concatenated(pieces))
  BY <1>2 DEF Meshes
<1>4. ASSUME n # 0, \A i \in DOMAIN pieces : Shaped(pieces[i]) PROVE Shaped(Concatenated(pieces))
  <2>1. n \in 1 .. n /\ n - 1 \in 0 .. n /\ n \in DOMAIN pieces
    BY <1>2, <1>4 DEF ArePieces
  <2>2. meshes[n] = Stacked(meshes[n - 1], pieces[n]) /\ meshes[n - 1] \in Meshes
    BY <1>1, <2>1 DEF Joins
  <2>3. IsMesh(meshes[n - 1]) /\ Shaped(pieces[n]) /\ IsMesh(pieces[n])
    BY <1>4, <2>1, <2>2 DEF Meshes, Shaped
  <2> QED BY <1>2, <2>2, <2>3, StackedIsMesh
<1> QED
  BY <1>2, <1>3, <1>4

\* The first vertex at the place of each.
FirstAt(points) == [v \in DOMAIN points |-> Min({w \in DOMAIN points : points[w] = points[v]})]

\* It is at that place.
LEMMA FirstIsThere ==
    ASSUME NEW points \in Seq(Point), NEW v \in DOMAIN points
    PROVE  FirstAt(points)[v] \in DOMAIN points /\ points[FirstAt(points)[v]] = points[v]
<1> DEFINE S == {w \in DOMAIN points : points[w] = points[v]}
<1>1. Len(points) \in Nat /\ DOMAIN points = 1 .. Len(points)
  OBVIOUS
<1>2. IsFiniteSet(S) /\ S \in SUBSET Int
  BY <1>1, PlacesFinite
<1>3. v \in S
  OBVIOUS
<1>4. FirstAt(points)[v] = Min(S)
  BY DEF FirstAt
<1>5. Min(S) \in S
  <2> HIDE DEF S
  <2> QED BY <1>2, <1>3, MinMember
<1> QED
  BY <1>4, <1>5

\* Vertices become one without the faces in three places being lost.
LEMMA FusedIsMesh ==
    ASSUME NEW mesh, IsMesh(mesh)
    PROVE  /\ IsMesh(Fused(mesh))
           /\ Shaped(mesh) => Fused(mesh).faces # <<>>
<1> DEFINE first == FirstAt(mesh.points)
           kept == {first[v] : v \in DOMAIN mesh.points}
           named == RenamedBy(mesh.faces, first)
           faces == ProperFaces(named)
<1>1. mesh.points \in Seq(Point) /\ mesh.faces \in Seq(Face) /\ Used(mesh.faces) \subseteq DOMAIN mesh.points
      /\ DOMAIN mesh.points \subseteq Nat \ {0}
  BY DEF IsMesh
<1>2. \A v \in DOMAIN mesh.points : first[v] \in DOMAIN mesh.points /\ mesh.points[first[v]] = mesh.points[v]
  BY <1>1, FirstIsThere
<1>3. DOMAIN first = DOMAIN mesh.points
  BY DEF FirstAt
<1>4. Fused(mesh) = Compacted(mesh.points, faces, kept)
  BY DEF Fused, FirstAt, RenamedBy
<1> HIDE DEF first
<1>5. /\ named \in Seq(Face) /\ DOMAIN named = DOMAIN mesh.faces
      /\ \A f \in DOMAIN mesh.faces : \A a \in Axes : named[f][a] = first[mesh.faces[f][a]]
      /\ Used(named) = {first[v] : v \in Used(mesh.faces)}
  <2>1. \A v \in Used(mesh.faces) : first[v] \in Nat \ {0}
    BY <1>1, <1>2
  <2> HIDE DEF named
  <2> QED BY <1>1, <1>3, <2>1, RenamedTyped DEF named
<1> HIDE DEF named
<1>6. /\ faces \in Seq(Face) /\ Used(faces) \subseteq Used(named)
      /\ (\E f \in DOMAIN named : Proper(named[f])) => faces # <<>>
  BY <1>5, ProperFacesTyped
<1> HIDE DEF faces
<1>7. kept \in SUBSET DOMAIN mesh.points /\ Used(faces) \subseteq kept
  BY <1>1, <1>2, <1>5, <1>6
<1> HIDE DEF kept
<1>8. /\ IsMesh(Compacted(mesh.points, faces, kept))
      /\ faces # <<>> => Compacted(mesh.points, faces, kept).faces # <<>>
  BY <1>1, <1>6, <1>7, CompactedIsMesh
<1>9. ASSUME Shaped(mesh) PROVE \E f \in DOMAIN named : Proper(named[f])
  <2>1. PICK f \in DOMAIN mesh.faces : Proper(Placed(mesh, f))
    BY <1>9 DEF Shaped
  <2>2. ASSUME NEW a \in Axes PROVE Placed(mesh, f)[a] = mesh.points[named[f][a]]
    <3>1. mesh.faces[f][a] \in DOMAIN mesh.points
      BY MeshCorners
    <3> QED BY <1>2, <1>5, <3>1 DEF Placed
  <2>3. 1 \in Axes /\ 2 \in Axes /\ 3 \in Axes
    BY DEF Axes
  <2>4. Proper(named[f])
    BY <2>1, <2>2, <2>3 DEF Proper
  <2> QED BY <1>5, <2>4
<1> QED
  BY <1>4, <1>6, <1>8, <1>9

\* Welding pieces that have a face leaves a mesh that has one.
LEMMA WeldedIsMesh ==
    ASSUME NEW pieces, ArePieces(pieces), Len(pieces) # 0
    PROVE  /\ IsMesh(Weld(pieces))
           /\ (\A i \in DOMAIN pieces : Shaped(pieces[i])) => Weld(pieces).faces # <<>>
<1>1. CASE Len(pieces) = 1
  <2>1. Weld(pieces) = pieces[1] /\ 1 \in DOMAIN pieces
    BY <1>1 DEF Weld, ArePieces
  <2>2. IsMesh(pieces[1])
    BY <2>1 DEF ArePieces
  <2>3. Shaped(pieces[1]) => pieces[1].faces # <<>>
    <3>1. ASSUME pieces[1].faces = <<>> PROVE DOMAIN pieces[1].faces = {}
      BY <3>1
    <3> QED BY <3>1 DEF Shaped
  <2> QED BY <2>1, <2>2, <2>3
<1>2. CASE Len(pieces) # 1
  <2>1. Weld(pieces) = Fused(Concatenated(pieces))
    BY <1>2 DEF Weld
  <2>2. /\ IsMesh(Concatenated(pieces))
        /\ (\A i \in DOMAIN pieces : Shaped(pieces[i])) => Shaped(Concatenated(pieces))
    BY ConcatenatedIsMesh
  <2> QED BY <2>1, <2>2, FusedIsMesh
<1> QED
  BY <1>1, <1>2

-----------------------------------------------------------------------------
(* Cutting (geometry.clip_to_cells and snap_boundary). *)

\* The extents and steps of a level, in units.
LEMMA StepTyped ==
    ASSUME NEW level \in Nat, NEW a \in Axes
    PROVE  /\ Extent(level)[a] \in Nat \ {0} /\ Step(level)[a] \in Nat \ {0}
           /\ Extent(level)[a] = QuantMax * Step(level)[a]
           /\ CellSize[a] \in Nat \ {0}
<1> DEFINE size == CellSize[a]
           k == size \div QuantMax
           p == 2 ^ level
<1>1. QuantMax \in Nat \ {0} /\ size \in Nat \ {0} /\ size % QuantMax = 0
  <2>1. QuantMax \in Nat /\ QuantMax % 2 = 1 /\ size \in Nat \ {0} /\ size % QuantMax = 0
    BY LatticeAssumption
  <2> HIDE DEF size
  <2> QED BY <2>1
<1>2. p \in Nat \ {0}
  BY Powers
<1>3. Extent(level)[a] = size * p /\ Step(level)[a] = (size * p) \div QuantMax
  BY DEF Extent, Step
<1> HIDE DEF p, size
<1>4. k \in Nat /\ size = QuantMax * k
  BY <1>1, Division
<1>5. k # 0
  BY <1>1, <1>4
<1> HIDE DEF k
<1>6. size * p = QuantMax * (k * p) /\ k * p \in Nat \ {0}
  <2>1. k * p \in Nat \ {0}
    BY <1>2, <1>4, <1>5
  <2>2. (QuantMax * k) * p = QuantMax * (k * p)
    BY <1>1, <1>2, <1>4
  <2> QED BY <1>4, <2>1, <2>2
<1>7. (QuantMax * (k * p)) \div QuantMax = k * p
  <2>1. \A q \in Nat \ {0} : \A m \in Nat : (q * m) \div q = m
    OBVIOUS
  <2> QED BY <1>1, <1>6, <2>1
<1>8. QuantMax * (k * p) \in Nat \ {0}
  BY <1>1, <1>6
<1> QED
  BY <1>1, <1>3, <1>6, <1>7, <1>8 DEF size

\* A snapped vertex is somewhere.
LEMMA SnapTyped ==
    ASSUME NEW p \in Point, NEW level \in Nat
    PROVE  SnapPoint(p, Step(level)) \in Point
<1>1. ASSUME NEW a \in Axes PROVE SnapCoordinate(p[a], CellSize[a], Step(level)[a]) \in Int
  <2>1. p[a] \in Int /\ CellSize[a] \in Nat \ {0} /\ Step(level)[a] \in Nat \ {0}
    BY StepTyped DEF Point
  <2>2. Nearest(p[a], CellSize[a]) \in Int /\ Nearest(p[a], Step(level)[a]) \in Int
    BY <2>1, NearestIsNearest
  <2> QED BY <2>2 DEF SnapCoordinate
<1> QED
  BY <1>1 DEF SnapPoint, Point

\* A face with two corners at one place has no area.
LEMMA SolidIsProper ==
    ASSUME NEW points \in Seq(Point), NEW face \in Face, Corners(face) \subseteq DOMAIN points,
           ~Flat(points, face)
    PROVE  Proper([a \in Axes |-> points[face[a]]])
<1> DEFINE p == points[face[1]]
           q == points[face[2]]
           r == points[face[3]]
<1>1. p \in Point /\ q \in Point /\ r \in Point
  <2>1. face[1] \in Corners(face) /\ face[2] \in Corners(face) /\ face[3] \in Corners(face)
    BY DEF Corners, Axes
  <2> QED BY <2>1
<1> DEFINE u == [a \in Axes |-> q[a] - p[a]]
           v == [a \in Axes |-> r[a] - p[a]]
<1>2. ~(u[2] * v[3] = u[3] * v[2] /\ u[3] * v[1] = u[1] * v[3] /\ u[1] * v[2] = u[2] * v[1])
  BY DEF Flat
<1>3. \A a \in Axes : /\ p[a] \in Int /\ q[a] \in Int /\ r[a] \in Int
                      /\ u[a] = q[a] - p[a] /\ v[a] = r[a] - p[a] /\ u[a] \in Int /\ v[a] \in Int
  BY <1>1, SMTT(60) DEF Point
<1>4. 1 \in Axes /\ 2 \in Axes /\ 3 \in Axes
  BY DEF Axes
<1> HIDE DEF u, v
<1>5. ASSUME p = q PROVE FALSE
  <2>1. \A a \in Axes : u[a] = 0 /\ v[a] \in Int
    BY <1>3, <1>5
  <2>2. \A n \in Int : 0 * n = 0
    OBVIOUS
  <2>3. \A a, b \in Axes : u[a] * v[b] = 0
    BY <2>1, <2>2
  <2> QED BY <1>2, <1>4, <2>3
<1>6. ASSUME p = r PROVE FALSE
  <2>1. \A a \in Axes : v[a] = 0 /\ u[a] \in Int
    BY <1>3, <1>6
  <2>2. \A n \in Int : n * 0 = 0
    OBVIOUS
  <2>3. \A a, b \in Axes : u[a] * v[b] = 0
    BY <2>1, <2>2
  <2> QED BY <1>2, <1>4, <2>3
<1>7. ASSUME q = r PROVE FALSE
  <2>1. \A a \in Axes : u[a] = v[a] /\ u[a] \in Int
    BY <1>3, <1>7
  <2>2. \A n, m \in Int : n * m = m * n
    OBVIOUS
  <2>3. \A a, b \in Axes : u[a] * v[b] = u[b] * v[a]
    BY <2>1, <2>2
  <2> QED BY <1>2, <1>4, <2>3
<1>8. [a \in Axes |-> points[face[a]]][1] = p /\ [a \in Axes |-> points[face[a]]][2] = q
      /\ [a \in Axes |-> points[face[a]]][3] = r
  BY <1>4
<1> HIDE DEF p, q, r
<1> QED
  BY <1>5, <1>6, <1>7, <1>8 DEF Proper

\* The cells that have a code.
Coded == {triple \in Triples : Encodable(triple)}

\* A triple from three sets of numbers.
LEMMA TupleIsTriple ==
    ASSUME NEW A \in SUBSET Nat, NEW B \in SUBSET Nat, NEW C \in SUBSET Nat, NEW t \in A \X B \X C
    PROVE  t \in Triples /\ t[1] \in A /\ t[2] \in B /\ t[3] \in C
<1>1. PICK x \in A, y \in B, z \in C : t = <<x, y, z>>
  <2>1. t[1] \in A /\ t[2] \in B /\ t[3] \in C /\ t = <<t[1], t[2], t[3]>>
    OBVIOUS
  <2> QED BY <2>1
<1>2. x \in Nat /\ y \in Nat /\ z \in Nat
  OBVIOUS
<1>3. <<x, y, z>> \in Seq(Nat) /\ Len(<<x, y, z>>) = 3
  BY <1>2
<1>4. <<x, y, z>> \in [1 .. 3 -> Nat]
  BY <1>3
<1>5. t[1] = x /\ t[2] = y /\ t[3] = z
  BY <1>1
<1> QED
  BY <1>1, <1>4, <1>5 DEF Triples, Axes

\* What of a mesh is in a cell is a mesh.
LEMMA ClipIsMesh ==
    ASSUME NEW mesh, IsMesh(mesh), NEW triple
    PROVE  IsMesh(Clip(mesh, triple))
<1> DEFINE inside == {f \in DOMAIN mesh.faces : \A v \in Corners(mesh.faces[f]) : InCell(mesh.points[v], triple)}
           faces == Masked(mesh.faces, inside)
<1>1. mesh.points \in Seq(Point) /\ mesh.faces \in Seq(Face) /\ Used(mesh.faces) \subseteq DOMAIN mesh.points
  BY DEF IsMesh
<1>2. Clip(mesh, triple) = Compacted(mesh.points, faces, Used(faces))
  BY DEF Clip
<1>3. inside \in SUBSET DOMAIN mesh.faces
  OBVIOUS
<1> HIDE DEF inside
<1>4. faces \in Seq(Face) /\ Used(faces) \subseteq Used(mesh.faces)
  BY <1>1, <1>3, MaskedFaces
<1> HIDE DEF faces
<1>5. Used(faces) \in SUBSET DOMAIN mesh.points
  BY <1>1, <1>4
<1> QED
  BY <1>1, <1>2, <1>4, <1>5, CompactedIsMesh

\* What is left of a fragment has faces with three corners in three places.
LEMMA SnappedIsMesh ==
    ASSUME NEW fragment, IsMesh(fragment), NEW levels \in Nat \ {0}
    PROVE  /\ IsMesh(Snapped(fragment, levels))
           /\ Snapped(fragment, levels).faces # <<>> => Shaped(Snapped(fragment, levels))
<1> DEFINE points == [v \in DOMAIN fragment.points |-> SnapPoint(fragment.points[v], Step(levels - 1))]
           solid == {f \in DOMAIN fragment.faces :
                        Proper(fragment.faces[f]) /\ ~Flat(points, fragment.faces[f])}
           faces == Masked(fragment.faces, solid)
           mesh == Snapped(fragment, levels)
<1>1. /\ fragment.points \in Seq(Point) /\ fragment.faces \in Seq(Face)
      /\ Used(fragment.faces) \subseteq DOMAIN fragment.points /\ levels - 1 \in Nat
      /\ Len(fragment.points) \in Nat /\ DOMAIN fragment.points = 1 .. Len(fragment.points)
  BY DEF IsMesh
<1>2. mesh = [points |-> points, faces |-> faces]
  BY DEF Snapped
<1>3. points \in Seq(Point) /\ DOMAIN points = DOMAIN fragment.points
  <2>1. \A v \in DOMAIN fragment.points : SnapPoint(fragment.points[v], Step(levels - 1)) \in Point
    BY <1>1, SnapTyped
  <2>2. points \in [1 .. Len(fragment.points) -> Point]
    BY <1>1, <2>1
  <2> HIDE DEF points
  <2> QED BY <1>1, <2>2
<1> HIDE DEF points, mesh
<1>4. solid \in SUBSET DOMAIN fragment.faces /\ \A f \in solid : ~Flat(points, fragment.faces[f])
  OBVIOUS
<1> HIDE DEF solid
<1>5. /\ faces \in Seq(Face) /\ Used(faces) \subseteq Used(fragment.faces)
      /\ \A g \in DOMAIN faces : \E f \in solid : faces[g] = fragment.faces[f]
  BY <1>1, <1>4, MaskedFaces
<1> HIDE DEF faces
<1>6. IsMesh(mesh)
  BY <1>1, <1>2, <1>3, <1>5 DEF IsMesh
<1>7. ASSUME faces # <<>> PROVE Shaped(mesh)
  <2>1. 1 \in DOMAIN faces
    BY <1>5, <1>7
  <2>2. faces[1] \in Face /\ ~Flat(points, faces[1])
    BY <1>4, <1>5, <2>1
  <2>3. Corners(faces[1]) \subseteq DOMAIN points
    BY <1>1, <1>3, <1>5, <2>1 DEF Used
  <2>4. Proper([a \in Axes |-> points[faces[1][a]]])
    BY <1>3, <2>2, <2>3, SolidIsProper
  <2>5. Placed(mesh, 1) = [a \in Axes |-> points[faces[1][a]]]
    BY <1>2 DEF Placed
  <2> QED BY <1>2, <1>6, <2>1, <2>4, <2>5 DEF Shaped
<1> QED
  BY <1>2, <1>6, <1>7 DEF mesh

\* The corners of an object.
LEMMA CornersTyped ==
    ASSUME NEW mesh, IsObject(mesh), NEW a \in Axes
    PROVE  /\ Lowest(mesh.points)[a] \in 0 .. CellSize[a] * 2 ^ MortonBits
           /\ Highest(mesh.points)[a] \in 0 .. CellSize[a] * 2 ^ MortonBits
<1> DEFINE S == {mesh.points[v][a] : v \in DOMAIN mesh.points}
           N == CellSize[a] * 2 ^ MortonBits
           n == Len(mesh.points)
           at == [v \in 1 .. n |-> mesh.points[v][a]]
<1>1. mesh.points \in Seq(Point) /\ mesh.points # <<>> /\ n \in Nat /\ DOMAIN mesh.points = 1 .. n
  BY DEF IsObject, IsMesh
<1>2. N \in Nat
  <2>1. MortonBits \in Nat /\ CellSize[a] \in Nat
    BY LatticeAssumption
  <2>2. 2 ^ MortonBits \in Nat
    BY <2>1, Powers
  <2> QED BY <2>1, <2>2
<1>3. \A v \in DOMAIN mesh.points : mesh.points[v][a] \in 0 .. N
  BY DEF IsObject
<1> HIDE DEF N
<1>4. S # {} /\ S \in SUBSET Int /\ S \in SUBSET (0 .. N)
  <2>1. 1 \in DOMAIN mesh.points
    BY <1>1
  <2>2. mesh.points[1][a] \in S
    BY <2>1
  <2>3. \A x \in S : \E v \in DOMAIN mesh.points : x = mesh.points[v][a]
    OBVIOUS
  <2> HIDE DEF S
  <2>4. \A x \in S : x \in 0 .. N
    BY <1>3, <2>3
  <2>5. \A x \in S : x \in Int
    BY <1>2, <2>4
  <2> QED BY <2>2, <2>4, <2>5
<1>5. IsFiniteSet(S)
  <2>1. IsFiniteSet(0 .. N)
    BY <1>2, FS_Interval
  <2> HIDE DEF S
  <2> QED BY <1>4, <2>1, FS_Subset
<1>6. Lowest(mesh.points)[a] = Min(S) /\ Highest(mesh.points)[a] = Max(S)
  BY DEF Lowest, Highest
<1> HIDE DEF S
<1>7. Min(S) \in S /\ Max(S) \in S
  BY <1>4, <1>5, MinMember, MaxMember
<1> QED
  BY <1>4, <1>6, <1>7 DEF N

\* The cells of an object have codes.
LEMMA CellsAreCoded ==
    ASSUME NEW mesh, IsObject(mesh)
    PROVE  CellsOf(mesh.points) \subseteq Coded
<1> DEFINE from(a) == Lowest(mesh.points)[a] \div CellSize[a]
           to(a)   == (Highest(mesh.points)[a] - 1) \div CellSize[a]
<1>1. ASSUME NEW a \in Axes PROVE from(a) .. to(a) \subseteq 0 .. 2 ^ MortonBits - 1
  <2> DEFINE d == CellSize[a]
             p == 2 ^ MortonBits
             low == Lowest(mesh.points)[a]
             high == Highest(mesh.points)[a]
  <2>1. d \in Nat \ {0} /\ p \in Nat \ {0}
    BY LatticeAssumption, Powers
  <2>2. low \in 0 .. d * p /\ high \in 0 .. d * p
    BY CornersTyped
  <2> HIDE DEF d, p, low, high
  <2>3. d * p \in Nat /\ low \in Nat /\ high \in Int /\ high <= d * p
    BY <2>1, <2>2
  <2>4. low \div d \in Nat
    <3>1. \A n \in Nat : \A m \in Nat \ {0} : n \div m \in Nat
      OBVIOUS
    <3> QED BY <2>1, <2>3, <3>1
  <2>5. (high - 1) \div d \in Int /\ (high - 1) \div d <= p - 1
    <3> DEFINE q == (high - 1) \div d
               r == (high - 1) % d
    <3>1. q \in Int /\ r \in Int /\ high - 1 = d * q + r /\ 0 <= r
      BY <2>1, <2>3, Division
    <3> HIDE DEF q, r
    <3>2. ASSUME q >= p PROVE FALSE
      <4>1. PICK k \in Nat : q = p + k
        <5>1. q - p \in Nat /\ q = p + (q - p)
          BY <2>1, <3>1, <3>2
        <5> QED BY <5>1
      <4>2. d * q = d * p + d * k /\ d * k \in Nat
        BY <2>1, <4>1
      <4>3. high - 1 >= d * p
        BY <2>3, <3>1, <4>2
      <4> QED BY <2>3, <4>3
    <3>3. q <= p - 1
      BY <2>1, <3>1, <3>2
    <3> QED BY <3>1, <3>3 DEF q
  <2>6. from(a) = low \div d /\ to(a) = (high - 1) \div d
    BY DEF low, high, d
  <2> HIDE DEF from, to
  <2>7. from(a) .. to(a) \subseteq 0 .. p - 1
    BY <2>1, <2>4, <2>5, <2>6
  <2> QED BY <2>7 DEF p
<1>2. CellsOf(mesh.points) = (from(1) .. to(1)) \X (from(2) .. to(2)) \X (from(3) .. to(3))
  BY DEF CellsOf
<1> HIDE DEF from, to
<1> SUFFICES ASSUME NEW t \in CellsOf(mesh.points) PROVE t \in Coded
  OBVIOUS
<1>3. 1 \in Axes /\ 2 \in Axes /\ 3 \in Axes /\ \A a \in Axes : a = 1 \/ a = 2 \/ a = 3
  BY DEF Axes
<1>4. 2 ^ MortonBits \in Nat \ {0}
  BY LatticeAssumption, Powers
<1>5. from(1) .. to(1) \in SUBSET Nat /\ from(2) .. to(2) \in SUBSET Nat /\ from(3) .. to(3) \in SUBSET Nat
  BY <1>1, <1>3, <1>4
<1>6. t \in Triples /\ t[1] \in from(1) .. to(1) /\ t[2] \in from(2) .. to(2) /\ t[3] \in from(3) .. to(3)
  BY <1>2, <1>5, TupleIsTriple
<1>7. Encodable(t)
  BY <1>1, <1>3, <1>6 DEF Encodable
<1> QED
  BY <1>6, <1>7 DEF Coded

\* Two digits of a number in base d.
LEMMA TwoDigits ==
    ASSUME NEW d \in Nat \ {0}, NEW q \in Nat, NEW a \in 0 .. q - 1, NEW b \in 0 .. d - 1
    PROVE  /\ a * d + b \in 0 .. q * d - 1
           /\ \A c \in 0 .. q - 1 : \A e \in 0 .. d - 1 : a * d + b = c * d + e => a = c /\ b = e
<1>1. a \in Int /\ q \in Int /\ a < q /\ a * d \in Nat /\ q * d \in Nat /\ b \in Int /\ 0 <= b /\ b < d
  OBVIOUS
<1>2. a * d + d <= q * d
  BY <1>1, MultiplesApart
<1>3. a * d + b \in 0 .. q * d - 1
  <2>1. \A m, n \in Nat : m + d <= n => m + b \in 0 .. n - 1
    BY <1>1
  <2> QED BY <1>1, <1>2, <2>1
<1>4. ASSUME NEW c \in 0 .. q - 1, NEW e \in 0 .. d - 1, a * d + b = c * d + e
      PROVE  a = c /\ b = e
  <2>1. c \in Int /\ c * d \in Nat /\ e \in Int /\ 0 <= e /\ e < d
    OBVIOUS
  <2>2. a < c => a * d + d <= c * d
    BY <1>1, <2>1, MultiplesApart
  <2>3. c < a => c * d + d <= a * d
    BY <1>1, <2>1, MultiplesApart
  <2>4. \A m, n \in Nat : m + b = n + e => ~(m + d <= n) /\ ~(n + d <= m)
    BY <1>1, <2>1
  <2>5. a = c
    BY <1>1, <1>4, <2>1, <2>2, <2>3, <2>4
  <2> QED BY <1>1, <1>4, <2>1, <2>5
<1> QED
  BY <1>3, <1>4

\* Such a number, and a digit.
TwoDigit(a, b, d) == a * d + b
Below(a, q) == a \in 0 .. q - 1

\* Such numbers differ in a digit.
LEMMA DigitsDiffer ==
    ASSUME NEW d \in Nat \ {0}, NEW q \in Nat, NEW a, Below(a, q), NEW b, Below(b, d),
           NEW c, Below(c, q), NEW e, Below(e, d), TwoDigit(a, b, d) = TwoDigit(c, e, d)
    PROVE  a = c /\ b = e
<1>1. a * d + b = c * d + e
  BY DEF TwoDigit
<1> QED
  BY <1>1, TwoDigits DEF Below

\* A cell that has a code.
LEMMA CodedTyped ==
    ASSUME NEW triple \in Coded
    PROVE  /\ triple \in Triples /\ Encodable(triple) /\ 2 ^ MortonBits \in Nat \ {0}
           /\ \A a \in Axes : triple[a] \in 0 .. 2 ^ MortonBits - 1 /\ triple[a] \in Nat
           /\ triple = [a \in Axes |-> triple[a]]
<1>1. 2 ^ MortonBits \in Nat \ {0}
  BY LatticeAssumption, Powers
<1> QED
  BY <1>1 DEF Coded, Encodable, Triples

\* Where a cell is visited says which it is.
LEMMA VisitsDiffer ==
    ASSUME NEW s \in Coded
    PROVE  /\ Visit(s) \in 0 .. (2 ^ MortonBits * 2 ^ MortonBits) * 2 ^ MortonBits - 1
           /\ \A t \in Coded : Visit(s) = Visit(t) => s = t
<1> DEFINE p == 2 ^ MortonBits
           high(t) == t[1] * p + t[2]
<1>1. 1 \in Axes /\ 2 \in Axes /\ 3 \in Axes /\ \A a \in Axes : a = 1 \/ a = 2 \/ a = 3
  BY DEF Axes
<1>2. p \in Nat \ {0} /\ p * p \in Nat
  BY LatticeAssumption, Powers
<1>3. \A t \in Coded : t[1] \in 0 .. p - 1 /\ t[2] \in 0 .. p - 1 /\ t[3] \in 0 .. p - 1
  BY <1>1, CodedTyped
<1>4. \A t : Visit(t) = high(t) * p + t[3]
  BY DEF Visit
<1>5. \A t : high(t) = t[1] * p + t[2]
  OBVIOUS
<1> HIDE DEF p, high
<1>6. \A t \in Coded : high(t) \in 0 .. p * p - 1
  BY <1>2, <1>3, <1>5, TwoDigits
<1>7. ASSUME NEW t \in Coded, Visit(s) = Visit(t)
      PROVE  s = t
  <2>1. high(s) = high(t) /\ s[3] = t[3]
    <3>1. TwoDigit(high(s), s[3], p) = TwoDigit(high(t), t[3], p)
      BY <1>4, <1>7 DEF TwoDigit
    <3>2. Below(high(s), p * p) /\ Below(high(t), p * p) /\ Below(s[3], p) /\ Below(t[3], p)
      BY <1>3, <1>6 DEF Below
    <3> QED BY <1>2, <3>1, <3>2, DigitsDiffer
  <2>2. s[1] = t[1] /\ s[2] = t[2]
    <3>1. TwoDigit(s[1], s[2], p) = TwoDigit(t[1], t[2], p)
      BY <1>5, <2>1 DEF TwoDigit
    <3>2. Below(s[1], p) /\ Below(t[1], p) /\ Below(s[2], p) /\ Below(t[2], p)
      BY <1>3 DEF Below
    <3> QED BY <1>2, <3>1, <3>2, DigitsDiffer
  <2>4. \A a \in Axes : s[a] = t[a]
    BY <1>1, <2>1, <2>2
  <2> QED BY <2>4, CodedTyped
<1>8. Visit(s) \in 0 .. (p * p) * p - 1
  BY <1>2, <1>3, <1>4, <1>6, TwoDigits
<1> QED
  BY <1>7, <1>8 DEF p

\* The places in that order of a set of cells.
LEMMA VisitsFinite ==
    ASSUME NEW S \in SUBSET Coded
    PROVE  /\ {Visit(t) : t \in S} \in SUBSET Int /\ IsFiniteSet({Visit(t) : t \in S})
           /\ S # {} => {Visit(t) : t \in S} # {}
<1> DEFINE V == {Visit(t) : t \in S}
           N == (2 ^ MortonBits * 2 ^ MortonBits) * 2 ^ MortonBits - 1
<1>1. N \in Int
  BY LatticeAssumption, Powers
<1>2. \A t \in Coded : Visit(t) \in 0 .. N
  BY VisitsDiffer
<1> HIDE DEF N
<1>3. V \in SUBSET (0 .. N) /\ V \in SUBSET Int
  <2>1. \A x \in V : \E t \in S : x = Visit(t)
    OBVIOUS
  <2> HIDE DEF V
  <2>2. \A x \in V : x \in 0 .. N
    BY <1>2, <2>1
  <2>3. \A x \in V : x \in Int
    BY <1>1, <2>2
  <2> QED BY <2>2, <2>3
<1>4. IsFiniteSet(0 .. N)
  BY <1>1, FS_Interval
<1>5. S # {} => V # {}
  OBVIOUS
<1> HIDE DEF V
<1>6. IsFiniteSet(V)
  BY <1>3, <1>4, FS_Subset
<1> QED
  BY <1>3, <1>5, <1>6 DEF V

\* The cell above a cell has a code.
LEMMA CoarseIsCoded ==
    ASSUME NEW triple \in Coded, NEW level \in Nat
    PROVE  CoarseOf(triple, level) \in Coded
<1>1. 2 ^ level \in Nat \ {0} /\ 2 ^ MortonBits \in Nat \ {0}
  BY LatticeAssumption, Powers
<1>2. \A n \in Nat : \A d \in Nat \ {0} : n \div d \in Nat /\ n \div d <= n
  <2> SUFFICES ASSUME NEW n \in Nat, NEW d \in Nat \ {0} PROVE n \div d \in Nat /\ n \div d <= n
    OBVIOUS
  <2>1. n \div d \in Nat /\ n % d \in Nat /\ n = d * (n \div d) + (n % d)
    BY Division
  <2>2. PICK k \in Nat : d = k + 1
    <3>1. d - 1 \in Nat /\ d = (d - 1) + 1
      OBVIOUS
    <3> QED BY <3>1
  <2>3. d * (n \div d) = k * (n \div d) + (n \div d) /\ k * (n \div d) \in Nat
    BY <2>1, <2>2
  <2> QED BY <2>1, <2>3
<1>3. \A a \in Axes : triple[a] \in Nat /\ triple[a] \in 0 .. 2 ^ MortonBits - 1
  BY CodedTyped
<1>4. ASSUME NEW a \in Axes
      PROVE  /\ triple[a] \div 2 ^ level \in Nat
             /\ triple[a] \div 2 ^ level \in 0 .. 2 ^ MortonBits - 1
  <2>1. triple[a] \in Nat /\ triple[a] <= 2 ^ MortonBits - 1
    BY <1>1, <1>3
  <2>2. triple[a] \div 2 ^ level \in Nat /\ triple[a] \div 2 ^ level <= triple[a]
    BY <1>1, <1>2, <2>1
  <2> QED BY <1>1, <2>1, <2>2
<1> QED
  BY <1>4 DEF Coded, Triples, Encodable, CoarseOf

\* The cuts of an object: meshes with a face in cells that have a code.
Fragments(cuts) == DOMAIN cuts \subseteq Coded /\ \A t \in DOMAIN cuts : Shaped(cuts[t])

\* Every object is cut into such.
LEMMA FragmentsTyped ==
    ASSUME NEW mesh, IsObject(mesh), NEW levels \in Nat \ {0}
    PROVE  Fragments(FragmentsOf(mesh, levels))
<1> DEFINE cut(t) == Snapped(Clip(mesh, t), levels)
<1>1. CellsOf(mesh.points) \subseteq Coded
  BY CellsAreCoded
<1>2. /\ DOMAIN FragmentsOf(mesh, levels) \subseteq CellsOf(mesh.points)
      /\ \A t \in DOMAIN FragmentsOf(mesh, levels) :
            FragmentsOf(mesh, levels)[t] = cut(t) /\ cut(t).faces # <<>>
  BY DEF FragmentsOf
<1>3. ASSUME NEW t PROVE cut(t).faces # <<>> => Shaped(cut(t))
  <2>1. IsMesh(Clip(mesh, t))
    BY ClipIsMesh DEF IsObject
  <2> QED BY <2>1, SnappedIsMesh
<1> HIDE DEF cut
<1> QED
  BY <1>1, <1>2, <1>3 DEF Fragments

\* The pieces of a group, welded, are a mesh with a face.
LEMMA PieceIsMesh ==
    ASSUME NEW task, Fragments(fragments[task.id]), Group(task) # {}
    PROVE  IsMesh(Piece(task)) /\ Piece(task).faces # <<>>
<1> DEFINE V == {Visit(t) : t \in Group(task)}
           visits == InOrder(V)
           of(i) == CHOOSE t \in Group(task) : Visit(t) = visits[i]
           pieces == [i \in DOMAIN visits |-> fragments[task.id][of(i)]]
<1>1. Group(task) \in SUBSET Coded /\ \A t \in Group(task) : Shaped(fragments[task.id][t])
  BY DEF Group, Fragments
<1>2. V \in SUBSET Int /\ IsFiniteSet(V) /\ V # {}
  BY <1>1, VisitsFinite
<1>3. Piece(task) = Weld(pieces)
  BY DEF Piece
<1>4. \A x \in V : \E t \in Group(task) : Visit(t) = x
  OBVIOUS
<1> HIDE DEF V
<1>5. Lists(visits, V)
  BY <1>2, InOrderLists
<1>6. /\ Len(visits) \in Nat /\ DOMAIN visits = 1 .. Len(visits) /\ Len(visits) # 0
      /\ \A i \in DOMAIN visits : visits[i] \in V
  <2>1. Cardinality(V) # 0
    BY <1>2, FS_EmptySet
  <2> QED BY <1>5, <2>1 DEF Lists
<1> HIDE DEF visits
<1>7. \A i \in DOMAIN visits : of(i) \in Group(task)
  BY <1>4, <1>6
<1> HIDE DEF of
<1>8. /\ DOMAIN pieces = DOMAIN visits /\ Len(pieces) = Len(visits)
      /\ \A i \in DOMAIN visits : pieces[i] = fragments[task.id][of(i)]
  BY <1>6
<1> HIDE DEF pieces
<1>9. \A i \in DOMAIN pieces : Shaped(pieces[i])
  BY <1>1, <1>7, <1>8
<1>10. ArePieces(pieces) /\ Len(pieces) # 0
  BY <1>6, <1>8, <1>9 DEF ArePieces, Shaped
<1> QED
  BY <1>3, <1>9, <1>10, WeldedIsMesh

-----------------------------------------------------------------------------
(* What collapses and simplifiers return. *)

\* Where the simplifiers put a vertex.
LEMMA BetweenTyped ==
    ASSUME NEW p \in Point, NEW q \in Point
    PROVE  Midpoint(p, q) \in Point /\ Beyond(p, q) \in Point
<1>1. \A m, n \in Int : (m + n) \div 2 \in Int /\ m + (m - n) \div 2 \in Int
  OBVIOUS
<1>2. \A a \in Axes : p[a] \in Int /\ q[a] \in Int
  BY DEF Point
<1> QED
  BY <1>1, <1>2 DEF Midpoint, Beyond, Point

\* What renamed faces use.
LEMMA RenamedUses ==
    ASSUME NEW faces \in Seq(Face), NEW name, Used(faces) \subseteq DOMAIN name,
           \A v \in Used(faces) : name[v] \in Nat \ {0}
    PROVE  \A u \in Used(RenamedBy(faces, name)) : \E v \in Used(faces) : u = name[v]
<1>1. Used(RenamedBy(faces, name)) = {name[v] : v \in Used(faces)}
  BY RenamedTyped
<1> QED
  BY <1>1

\* A mesh renamed into itself, without the faces that fell together, at other points.
LEMMA RenamedIsMesh ==
    ASSUME NEW n \in Nat, NEW points \in [1 .. n -> Point], NEW faces \in Seq(Face),
           NEW name, DOMAIN name = 1 .. n, \A v \in 1 .. n : name[v] \in 1 .. n, Used(faces) \subseteq 1 .. n
    PROVE  LET live == ProperFaces(RenamedBy(faces, name))
           IN  IsMesh(Compacted(points, live, Used(live)))
<1> DEFINE named == RenamedBy(faces, name)
           live == ProperFaces(named)
<1>1. points \in Seq(Point) /\ DOMAIN points = 1 .. n
  OBVIOUS
<1>2. \A v \in Used(faces) : name[v] \in 1 .. n
  OBVIOUS
<1>3. named \in Seq(Face) /\ \A u \in Used(named) : \E v \in Used(faces) : u = name[v]
  <2>1. \A v \in Used(faces) : name[v] \in Nat \ {0}
    BY <1>2
  <2>2. Used(faces) \subseteq DOMAIN name
    OBVIOUS
  <2>3. RenamedBy(faces, name) \in Seq(Face)
    BY <2>1, <2>2, RenamedTyped
  <2>4. \A u \in Used(RenamedBy(faces, name)) : \E v \in Used(faces) : u = name[v]
    BY <2>1, <2>2, RenamedUses
  <2> QED BY <2>3, <2>4
<1> HIDE DEF named
<1>4. live \in Seq(Face) /\ Used(live) \subseteq Used(named)
  BY <1>3, ProperFacesTyped
<1> HIDE DEF live
<1>5. Used(live) \in SUBSET DOMAIN points
  BY <1>1, <1>2, <1>3, <1>4
<1>6. IsMesh(Compacted(points, live, Used(live)))
  BY <1>1, <1>4, <1>5, CompactedIsMesh
<1> QED
  BY <1>6 DEF live, named

\* What a call says.
LEMMA CallTyped ==
    ASSUME NEW c, IsCall(c)
    PROVE  /\ c.points \in Seq(Point) /\ c.faces \in Seq(Face) /\ Len(c.points) \in Nat
           /\ DOMAIN c.points = 1 .. Len(c.points) /\ Used(c.faces) \subseteq DOMAIN c.points
           /\ c.points \in [1 .. Len(c.points) -> Point]
<1>1. c.points \in Seq(Point) /\ c.faces \in Seq(Face) /\ Used(c.faces) \subseteq DOMAIN c.points
  BY DEF IsCall, Calls
<1> QED
  BY <1>1

\* What decimate_fixed returns of faces that know their vertices.
LEMMA ReturnedIsMesh ==
    ASSUME NEW c, IsCall(c), NEW at \in [DOMAIN c.points -> Point],
           NEW roots \in [DOMAIN c.points -> DOMAIN c.points], NEW error
    PROVE  IsMesh(Returned(c, at, ProperFaces(RenamedBy(c.faces, roots)), error))
<1> DEFINE live == ProperFaces(RenamedBy(c.faces, roots))
           mesh == Compacted(at, live, Used(live))
<1>1. /\ c.faces \in Seq(Face) /\ Len(c.points) \in Nat
      /\ DOMAIN c.points = 1 .. Len(c.points) /\ Used(c.faces) \subseteq DOMAIN c.points
  BY CallTyped
<1>2. IsMesh(mesh)
  BY <1>1, RenamedIsMesh
<1>3. Returned(c, at, live, error) = [points |-> mesh.points, faces |-> mesh.faces, error |-> error]
  BY DEF Returned
<1> HIDE DEF mesh, live
<1>4. IsMesh(Returned(c, at, live, error))
  BY <1>2, <1>3 DEF IsMesh
<1> QED
  BY <1>4 DEF live

-----------------------------------------------------------------------------
\* The arguments are a call, its vertices are somewhere, and what is returned is a mesh.
Collapsible == IsCall(call) /\ place \in [DOMAIN call.points -> Point] /\ IsMesh(result)

\* Nothing is a mesh.
LEMMA EmptyIsMesh ==
    ASSUME NEW mesh, mesh.points = <<>>, mesh.faces = <<>>
    PROVE  IsMesh(mesh)
<1>1. NoMesh \in Meshes
  BY NoMeshIsMesh
<1> QED
  BY <1>1 DEF Meshes, IsMesh, NoMesh

\* At first there is no call.
LEMMA CollapsibleInit == DecimateInit => Collapsible
<1> SUFFICES ASSUME DecimateInit PROVE Collapsible
  OBVIOUS
<1>1. call = NoCall /\ place = <<>> /\ result = NoResult
  BY DEF DecimateInit
<1>2. IsMesh(NoResult) /\ IsMesh(NoCall)
  BY EmptyIsMesh DEF NoResult, NoCall
<1>3. NoCall \in Calls
  BY <1>2 DEF IsMesh, NoCall, Calls, Placements
<1>4. IsCall(NoCall)
  BY <1>2, <1>3 DEF IsMesh, NoCall, IsCall
<1>5. <<>> \in [DOMAIN NoCall.points -> Point]
  BY DEF NoCall
<1> QED
  BY <1>1, <1>2, <1>4, <1>5 DEF Collapsible

\* The loop ends with a mesh.
LEMMA FinishedIsMesh ==
    ASSUME Collapsible, NEW up, Forest(up, Roots(up)), DOMAIN up = DOMAIN call.points,
           NEW at \in [DOMAIN call.points -> Point], Finish(up, at)
    PROVE  IsMesh(result')
<1>1. PICK error : result' = Returned(call, at, LiveFaces(Roots(up)), error)
  BY DEF Finish
<1>2. LiveFaces(Roots(up)) = ProperFaces(RenamedBy(call.faces, Roots(up)))
  BY DEF LiveFaces, RenamedBy
<1>3. Roots(up) \in [DOMAIN call.points -> DOMAIN call.points]
  BY DEF Forest
<1>4. IsCall(call)
  BY DEF Collapsible
<1> QED
  BY <1>1, <1>2, <1>3, <1>4, ReturnedIsMesh

\* A collapse puts a vertex somewhere.
LEMMA MovedTyped ==
    ASSUME Collapsible, NEW ra \in DOMAIN call.points, NEW rb \in DOMAIN call.points, NEW kept
    PROVE  Moved(ra, rb, kept) \in [DOMAIN call.points -> Point]
<1>1. place[ra] \in Point /\ place[rb] \in Point
  BY DEF Collapsible
<1>2. Midpoint(place[ra], place[rb]) \in Point
  BY <1>1, BetweenTyped
<1> QED
  BY <1>2 DEF Moved, Collapsible

\* And no turn of the loop changes that.
LEMMA CollapsibleStep ==
    Inv /\ Collapsible /\ [DecimateNext]_decimateVars => Collapsible'
<1> SUFFICES ASSUME Inv, Collapsible, [DecimateNext]_decimateVars
             PROVE  Collapsible'
  OBVIOUS
<1>0. Forest(parent, Roots(parent)) /\ DOMAIN parent = DOMAIN call.points
  BY DEF Inv, Sized
<1>1. ASSUME NEW c \in Calls, IsCall(c), ReturnUnchanged(c) \/ Begin(c)
      PROVE  Collapsible'
  <2>1. call' = c /\ place' = c.points
    BY <1>1 DEF ReturnUnchanged, Begin
  <2>2. result' = NoResult \/ result' = [points |-> c.points, faces |-> c.faces, error |-> 0]
    BY <1>1 DEF ReturnUnchanged, Begin
  <2>3. IsMesh([points |-> c.points, faces |-> c.faces, error |-> 0]) /\ c.points \in [DOMAIN c.points -> Point]
    BY <1>1, CallTyped DEF IsMesh
  <2>4. IsMesh(NoResult)
    BY EmptyIsMesh DEF NoResult
  <2>5. IsMesh(result')
    BY <2>2, <2>3, <2>4
  <2> QED BY <1>1, <2>1, <2>3, <2>5 DEF Collapsible
<1>2. ASSUME NEW edge \in waiting, Skip(edge)
      PROVE  Collapsible'
  BY <1>2 DEF Skip, Collapsible
<1>3. ASSUME NEW edge \in waiting, Collapse(edge)
      PROVE  Collapsible'
  <2>1. /\ ~Blocked(RootA(edge), RootB(edge)) /\ call' = call
        /\ place' = Moved(RootA(edge), RootB(edge), Kept(edge))
    BY <1>3 DEF Collapse, RootA, RootB, Kept
  <2>2. result' = result \/ Finish(Linked(edge), place')
    BY <1>3 DEF Collapse, RootA, RootB, Kept, Dropped, Linked, Hung
  <2>3. DOMAIN Linked(edge) = DOMAIN call.points /\ Forest(Linked(edge), Roots(Linked(edge)))
    BY <2>1, LinkedIsForest
  <2>4. RootA(edge) \in DOMAIN call.points /\ RootB(edge) \in DOMAIN call.points
    <3>1. edge[1] \in DOMAIN parent /\ edge[2] \in DOMAIN parent
      BY <1>0 DEF Inv, Sized
    <3> QED BY <1>0, <3>1, RootsAreRoots DEF RootA, RootB
  <2>5. place' \in [DOMAIN call.points -> Point]
    BY <2>1, <2>4, MovedTyped
  <2>6. IsMesh(result')
    <3>1. CASE result' = result
      BY <3>1 DEF Collapsible
    <3>2. CASE Finish(Linked(edge), place')
      BY <2>3, <2>5, <3>2, FinishedIsMesh
    <3> QED BY <2>2, <3>1, <3>2
  <2> QED BY <2>1, <2>5, <2>6 DEF Collapsible
<1>4. ASSUME RunOut
      PROVE  Collapsible'
  <2>1. Finish(parent, place) /\ UNCHANGED <<call, place>>
    BY <1>4 DEF RunOut
  <2>2. IsMesh(result')
    BY <1>0, <2>1, FinishedIsMesh DEF Collapsible
  <2> QED BY <2>1, <2>2 DEF Collapsible
<1>5. ASSUME Leave \/ UNCHANGED decimateVars
      PROVE  Collapsible'
  BY <1>5 DEF Leave, decimateVars, Collapsible
<1> QED
  BY <1>1, <1>2, <1>3, <1>4, <1>5 DEF DecimateNext, DecimateTurn

\* The ends of an edge of a mesh.
LEMMA MeshEdges ==
    ASSUME NEW mesh, IsMesh(mesh), NEW edge \in Edges(mesh.faces)
    PROVE  edge[1] \in DOMAIN mesh.points /\ edge[2] \in DOMAIN mesh.points
<1>1. PICK f \in DOMAIN mesh.faces : edge \in Sides(mesh.faces[f])
  BY DEF Edges
<1>2. \A a \in Axes : mesh.faces[f][a] \in DOMAIN mesh.points
  BY <1>1, MeshCorners
<1>3. 1 \in Axes /\ 2 \in Axes /\ 3 \in Axes
  BY DEF Axes
<1> QED
  BY <1>1, <1>2, <1>3 DEF Sides, Side

\* A mesh that has lost an edge.
LEMMA WithoutEdgeIsMesh ==
    ASSUME NEW mesh, IsMesh(mesh), NEW edge \in Edges(mesh.faces), NEW point \in Point
    PROVE  IsMesh(WithoutEdge(mesh, edge, point))
<1> DEFINE n == Len(mesh.points)
           points == [mesh.points EXCEPT ![edge[1]] = point]
           name == [v \in 1 .. n |-> IF v = edge[2] THEN edge[1] ELSE v]
           live == ProperFaces(RenamedBy(mesh.faces, name))
<1>1. /\ mesh.points \in Seq(Point) /\ mesh.faces \in Seq(Face) /\ n \in Nat /\ DOMAIN mesh.points = 1 .. n
      /\ Used(mesh.faces) \subseteq 1 .. n
  BY DEF IsMesh
<1>2. edge[1] \in 1 .. n /\ edge[2] \in 1 .. n
  BY <1>1, MeshEdges
<1>3. points \in [1 .. n -> Point]
  <2>1. mesh.points \in [1 .. n -> Point]
    BY <1>1
  <2> HIDE DEF n
  <2> QED BY <2>1
<1>4. DOMAIN name = 1 .. n /\ \A v \in 1 .. n : name[v] \in 1 .. n
  BY <1>2
<1>5. RenamedBy(mesh.faces, name) = Renamed(mesh.faces, LAMBDA v : IF v = edge[2] THEN edge[1] ELSE v)
  <2>1. ASSUME NEW f \in DOMAIN mesh.faces, NEW a \in Axes
        PROVE  name[mesh.faces[f][a]] = IF mesh.faces[f][a] = edge[2] THEN edge[1] ELSE mesh.faces[f][a]
    BY <1>1, FaceCorners
  <2> HIDE DEF name
  <2> QED BY <2>1 DEF Renamed, RenamedBy
<1>6. WithoutEdge(mesh, edge, point) = Compacted(points, live, Used(live))
  BY <1>5 DEF WithoutEdge
<1> HIDE DEF n, points, name
<1>7. IsMesh(Compacted(points, live, Used(live)))
  BY <1>1, <1>3, <1>4, RenamedIsMesh
<1> QED
  BY <1>6, <1>7

\* Whatever the library makes of a mesh is one.
LEMMA OutcomesAreMeshes ==
    ASSUME NEW mesh, IsMesh(mesh), NEW outcome \in LibraryOutcomes(mesh)
    PROVE  IsMesh(outcome)
<1>1. CASE outcome = NoMesh
  BY <1>1, EmptyIsMesh DEF NoMesh
<1>2. CASE outcome = Compacted(mesh.points, mesh.faces, Used(mesh.faces))
  BY <1>2, CompactedIsMesh DEF IsMesh
<1>3. ASSUME NEW edge \in ShortestEdges(mesh),
             NEW point \in {mesh.points[edge[1]], mesh.points[edge[2]],
                            Midpoint(mesh.points[edge[1]], mesh.points[edge[2]]),
                            Beyond(mesh.points[edge[1]], mesh.points[edge[2]])},
             outcome = WithoutEdge(mesh, edge, point)
      PROVE  IsMesh(outcome)
  <2>1. edge \in Edges(mesh.faces)
    BY DEF ShortestEdges
  <2>2. mesh.points[edge[1]] \in Point /\ mesh.points[edge[2]] \in Point
    BY <2>1, MeshEdges DEF IsMesh
  <2>3. point \in Point
    BY <2>2, BetweenTyped
  <2> QED BY <1>3, <2>1, <2>3, WithoutEdgeIsMesh
<1> QED
  BY <1>1, <1>2, <1>3 DEF LibraryOutcomes

-----------------------------------------------------------------------------
\* What is asked for can be done, and what is answered is a mesh with a face.
Asked ==
    /\ IsMesh(request) /\ request.faces # <<>>
    /\ request.fixed \subseteq DOMAIN request.points
    /\ request.backend \in Backends
    /\ attempt \in Nat

Answering ==
    /\ asking \in {"no", "attempt", "collapse", "answered"}
    /\ asking # "no" => Asked
    /\ asking = "answered" => IsMesh(answer) /\ answer.faces # <<>>

\* What a build does to the collapse.
DecimateStep == (\E c \in Calls : IsCall(c) /\ Begin(c)) \/ DecimateTurn \/ Leave \/ UNCHANGED decimateVars

\* A greedy simplifier calls decimate_fixed.
LEMMA GreedyBegins ==
    ASSUME Asked, NEW settings, settings.interval \in Nat \ {0}, settings.placement \in Placements,
           Greedy(settings)
    PROVE  DecimateStep /\ asking' = "collapse" /\ UNCHANGED <<request, attempt, answer>>
<1> DEFINE c == [points |-> request.points, faces |-> request.faces, fixed |-> request.fixed,
                 target |-> attempt, interval |-> settings.interval, placement |-> settings.placement]
<1>1. Begin(c) /\ asking' = "collapse" /\ UNCHANGED <<request, attempt, answer>>
  BY DEF Greedy
<1>2. /\ request.points \in Seq(Point) /\ request.faces \in Seq(Face)
      /\ request.fixed \subseteq DOMAIN request.points
      /\ Used(request.faces) \subseteq DOMAIN request.points /\ attempt \in Nat
  BY DEF Asked, IsMesh
<1>3. request.fixed \in SUBSET Nat
  BY <1>2
<1>4. IsCall(c)
  BY <1>2, <1>3 DEF IsCall, Calls
<1>5. c \in Calls
  BY <1>4 DEF IsCall
<1> HIDE DEF c
<1> QED
  BY <1>1, <1>4, <1>5 DEF DecimateStep

\* An answer with a face.
LEMMA AnsweredTyped ==
    ASSUME Asked, NEW mesh, IsMesh(mesh), mesh.faces # <<>>, NEW error, NEW relaxed,
           Answer(mesh, error, relaxed)
    PROVE  Answering'
<1>1. /\ asking' = "answered" /\ UNCHANGED <<request, attempt>>
      /\ answer' = [points |-> mesh.points, faces |-> mesh.faces, error |-> error, relaxed |-> relaxed]
  BY DEF Answer
<1>2. IsMesh(answer') /\ answer'.faces # <<>>
  BY <1>1 DEF IsMesh
<1> QED
  BY <1>1, <1>2 DEF Answering, Asked

\* Another attempt at the same.
LEMMA RelaxedTyped ==
    ASSUME Asked, Relax
    PROVE  Answering'
<1>1. asking' = "attempt" /\ attempt' \in Nat /\ UNCHANGED <<request, answer>>
  BY DEF Relax, Asked
<1> QED
  BY <1>1 DEF Answering, Asked

\* The simplifier keeps to that, whichever of its outcomes the library returns.
LEMMA SimplifyTurnTyped ==
    ASSUME Collapsible, Answering, SimplifyTurn
    PROVE  Answering' /\ DecimateStep
<1>1. ASSUME TryGreedy
      PROVE  Answering' /\ DecimateStep
  <2>1. Asked /\ Greedy(request.backend)
    BY <1>1 DEF TryGreedy, Trying, Answering
  <2>2. request.backend.interval \in Nat \ {0} /\ request.backend.placement \in Placements
    BY <2>1 DEF Asked, Backends
  <2>3. DecimateStep /\ asking' = "collapse" /\ UNCHANGED <<request, attempt, answer>>
    BY <2>1, <2>2, GreedyBegins
  <2> QED BY <2>1, <2>3 DEF Answering, Asked
<1>2. ASSUME NEW outcome \in LibraryOutcomes([points |-> request.points, faces |-> request.faces]),
             TryLibrary(outcome)
      PROVE  Answering' /\ DecimateStep
  <2>1. Asked
    BY <1>2 DEF TryLibrary, Trying, Answering
  <2>2. IsMesh([points |-> request.points, faces |-> request.faces])
    BY <2>1 DEF Asked, IsMesh
  <2>3. IsMesh(outcome)
    BY <2>2, OutcomesAreMeshes
  <2>4. CASE Relax /\ UNCHANGED decimateVars
    BY <2>1, <2>4, RelaxedTyped DEF DecimateStep
  <2>5. ASSUME NEW error, NEW relaxed, ~Vanished(outcome.faces),
               Answer(outcome, error, relaxed), UNCHANGED decimateVars
        PROVE  Answering' /\ DecimateStep
    BY <2>1, <2>3, <2>5, AnsweredTyped DEF Vanished, DecimateStep
  <2>6. CASE Greedy([interval |-> 1, placement |-> "midpoint"])
    <3> DEFINE settings == [interval |-> 1, placement |-> "midpoint"]
    <3>1. settings.interval \in Nat \ {0} /\ settings.placement \in Placements
      BY DEF Placements
    <3> HIDE DEF settings
    <3>2. DecimateStep /\ asking' = "collapse" /\ UNCHANGED <<request, attempt, answer>>
      BY <2>1, <2>6, <3>1, GreedyBegins DEF settings
    <3> QED BY <2>1, <3>2 DEF Answering, Asked
  <2> QED BY <1>2, <2>4, <2>5, <2>6 DEF TryLibrary
<1>3. ASSUME DecimateTurn, UNCHANGED <<request, attempt, asking, answer>>
      PROVE  Answering' /\ DecimateStep
  BY <1>3 DEF Answering, Asked, DecimateStep
<1>4. ASSUME TakeCollapse
      PROVE  Answering' /\ DecimateStep
  <2>1. Asked /\ Leave /\ IsMesh(result)
    BY <1>4 DEF TakeCollapse, Answering, Collapsible
  <2>2. Relax \/ (~Vanished(result.faces) /\ Answer(result, result.error, attempt # request.target))
    BY <1>4 DEF TakeCollapse
  <2>3. Answering'
    BY <2>1, <2>2, RelaxedTyped, AnsweredTyped DEF Vanished
  <2> QED BY <2>1, <2>3 DEF DecimateStep
<1>5. ASSUME KeepWhole
      PROVE  Answering' /\ DecimateStep
  <2>1. Asked /\ Answer(request, 0, TRUE) /\ UNCHANGED decimateVars
    BY <1>5 DEF KeepWhole, Answering
  <2>2. Answering'
    BY <2>1, AnsweredTyped DEF Asked
  <2> QED BY <2>1, <2>2 DEF DecimateStep
<1> QED
  BY <1>1, <1>2, <1>3, <1>4, <1>5 DEF SimplifyTurn

-----------------------------------------------------------------------------
\* What is aimed at.
LEMMA TargetsTyped ==
    ASSUME input \in Inputs, NEW faces \in Seq(Face), NEW level \in Levels
    PROVE  TargetFaces(faces, level) \in Nat
<1>1. FloorFaces \in Nat /\ input.ratio ^ level \in Nat \ {0}
  BY BuildAssumption DEF Levels
<1>2. WantedFaces(faces, level) \in Nat
  <2> DEFINE d == input.ratio ^ level
  <2> HIDE DEF d
  <2>1. \A n \in Nat : \A m \in Nat \ {0} : n \div m \in Nat
    OBVIOUS
  <2>2. Len(faces) \in Nat /\ d \in Nat \ {0}
    BY <1>1 DEF d
  <2>3. Rint(Len(faces), d) \in Nat
    BY <2>1, <2>2 DEF Rint
  <2> QED BY <2>3 DEF WantedFaces, d
<1> DEFINE S == {FloorFaces, WantedFaces(faces, level)}
<1>3. S \in SUBSET Nat /\ S \in SUBSET Int /\ S # {}
  BY <1>1, <1>2
<1>4. IsFiniteSet(S)
  <2>1. IsFiniteSet({FloorFaces})
    BY FS_Singleton
  <2>2. S = {FloorFaces} \cup {WantedFaces(faces, level)}
    OBVIOUS
  <2> QED BY <2>1, <2>2, FS_AddElement
<1> HIDE DEF S
<1>5. Max(S) \in S
  BY <1>3, <1>4, MaxMember
<1> QED
  BY <1>3, <1>5 DEF TargetFaces, S

\* At least one face is aimed at.
LEMMA FirstAttempt ==
    ASSUME NEW target \in Nat
    PROVE  Max({1, target}) \in Nat
<1>1. IsFiniteSet({1, target})
  <2>1. IsFiniteSet({1}) /\ {1, target} = {1} \cup {target}
    BY FS_Singleton
  <2> QED BY <2>1, FS_AddElement
<1>2. {1, target} \in SUBSET Int /\ {1, target} # {} /\ {1, target} \subseteq Nat
  OBVIOUS
<1>3. Max({1, target}) \in {1, target}
  BY <1>1, <1>2, MaxMember
<1> QED
  BY <1>2, <1>3

-----------------------------------------------------------------------------
(* The pieces of every level. *)

Phases == {"cut", "levels", "assemble", "built", "written", "failed"}

\* A piece of an object that a level is to have.
Task(id, level, t) == [level |-> level, id |-> id, triple |-> CoarseOf(t, level)]

\* One of those that the objects as they are cut make.
IsTask(task) == \E id \in Ids, level \in Levels : \E t \in DOMAIN fragments[id] : task = Task(id, level, t)

\* A mesh that has a face.
Whole(mesh) == IsMesh(mesh) /\ mesh.faces # <<>>

\* The objects are cut, every piece of a level is to be made or is there, once, and is a mesh.
Covered ==
    /\ input \in Inputs /\ phase \in Phases
    /\ phase = "cut" => todo = {} /\ DOMAIN perLevel = {}
    /\ phase # "cut" => \A id \in Ids : Fragments(fragments[id])
    /\ \A task \in todo : IsTask(task) /\ KeyOf(task) \notin DOMAIN perLevel
    /\ \A key \in DOMAIN perLevel : Whole(perLevel[key]) /\ \E task : IsTask(task) /\ key = KeyOf(task)
    /\ phase # "cut" =>
          \A id \in Ids, level \in Levels : \A t \in DOMAIN fragments[id] :
             Task(id, level, t) \in todo \/ KeyOf(Task(id, level, t)) \in DOMAIN perLevel
    /\ phase \in {"assemble", "built", "written"} => todo = {}

\* What a task says.
LEMMA TaskTyped ==
    ASSUME Covered, phase # "cut", NEW task, IsTask(task)
    PROVE  /\ task.id \in Ids /\ task.level \in Levels /\ task.level \in Nat /\ task.triple \in Coded
           /\ Group(task) # {} /\ Fragments(fragments[task.id])
           /\ task = [level |-> task.level, id |-> task.id, triple |-> task.triple]
<1>1. PICK id \in Ids, level \in Levels : \E t \in DOMAIN fragments[id] : task = Task(id, level, t)
  BY DEF IsTask
<1>2. PICK t \in DOMAIN fragments[id] : task = Task(id, level, t)
  BY <1>1
<1>3. task = [level |-> level, id |-> id, triple |-> CoarseOf(t, level)]
  BY <1>2 DEF Task
<1>4. task.level = level /\ task.id = id /\ task.triple = CoarseOf(t, level)
  BY <1>3
<1>5. Fragments(fragments[id])
  BY DEF Covered
<1>6. t \in Coded
  BY <1>5 DEF Fragments
<1>7. level \in Nat
  BY BuildAssumption DEF Covered, Levels
<1>8. t \in Group(task)
  BY <1>4 DEF Group
<1> QED
  BY <1>3, <1>4, <1>5, <1>6, <1>7, <1>8, CoarseIsCoded

\* No two tasks have one key.
LEMMA KeysDiffer ==
    ASSUME Covered, phase # "cut", NEW task, IsTask(task), NEW other, IsTask(other), KeyOf(task) = KeyOf(other)
    PROVE  task = other
<1>1. task.level = other.level /\ MortonEncode(task.triple) = MortonEncode(other.triple) /\ task.id = other.id
  BY DEF KeyOf
<1>2. /\ task.triple \in Coded /\ task = [level |-> task.level, id |-> task.id, triple |-> task.triple]
      /\ other.triple \in Coded /\ other = [level |-> other.level, id |-> other.id, triple |-> other.triple]
  BY TaskTyped
<1>3. /\ MortonDecode(MortonEncode(task.triple)) = task.triple
      /\ MortonDecode(MortonEncode(other.triple)) = other.triple
  BY <1>2, CodedTyped, MortonRoundTrip
<1> QED
  BY <1>1, <1>2, <1>3

\* The pieces of an object of the finest levels, each a mesh with a face.
LEMMA TasksHavePieces ==
    ASSUME Covered, phase # "cut", NEW task, IsTask(task)
    PROVE  Whole(Piece(task))
BY TaskTyped, PieceIsMesh DEF Whole

\* Cutting makes all of the tasks.
LEMMA CutCovers ==
    ASSUME Covered, Cut
    PROVE  Covered'
<1>1. /\ phase = "cut" /\ phase' = "levels" /\ UNCHANGED <<input, perLevel>> /\ DOMAIN perLevel = {}
      /\ fragments' = [id \in Ids |-> FragmentsOf(input.objects[id], input.levels)]
      /\ todo' = UNION {{[level |-> level, id |-> id, triple |-> CoarseOf(t, level)] :
                            t \in DOMAIN fragments'[id]} : id \in Ids, level \in Levels}
  BY DEF Cut, Covered
<1>2. Ids' = Ids /\ Levels' = Levels
  BY <1>1 DEF Ids, Levels
<1>3. ASSUME NEW id \in Ids PROVE Fragments(fragments'[id])
  <2>1. IsObject(input.objects[id]) /\ input.levels \in Nat \ {0}
    BY BuildAssumption DEF Covered, Ids
  <2> QED BY <1>1, <2>1, FragmentsTyped
<1>4. ASSUME NEW task \in todo' PROVE IsTask(task)'
  <2>1. PICK id \in Ids, level \in Levels :
           task \in {[level |-> level, id |-> id, triple |-> CoarseOf(t, level)] : t \in DOMAIN fragments'[id]}
    BY <1>1
  <2> QED BY <1>2, <2>1 DEF IsTask, Task
<1>5. ASSUME NEW id \in Ids, NEW level \in Levels, NEW t \in DOMAIN fragments'[id]
      PROVE  Task(id, level, t) \in todo'
  <2> DEFINE tasks(i, l) == {[level |-> l, id |-> i, triple |-> CoarseOf(u, l)] : u \in DOMAIN fragments'[i]}
  <2>1. Task(id, level, t) \in tasks(id, level)
    BY DEF Task
  <2>2. todo' = UNION {tasks(i, l) : i \in Ids, l \in Levels}
    BY <1>1
  <2> HIDE DEF tasks
  <2> QED BY <2>1, <2>2
<1>6. (\A id \in Ids : Fragments(fragments[id]))'
  BY <1>2, <1>3 DEF Fragments
<1> QED
  BY <1>1, <1>2, <1>4, <1>5, <1>6 DEF Covered, Phases

\* A piece that is made takes its task away.
LEMMA HoldCovers ==
    ASSUME Covered, NEW task \in todo, NEW mesh, Whole(mesh), Hold(task, mesh),
           UNCHANGED <<input, phase, fragments>>
    PROVE  Covered'
<1> DEFINE piece == [points |-> mesh.points, faces |-> mesh.faces]
           key == KeyOf(task)
<1>1. phase # "cut" /\ IsTask(task) /\ key \notin DOMAIN perLevel
  BY DEF Covered
<1>2. todo' = todo \ {task} /\ perLevel' = Put(perLevel, key, piece)
  BY DEF Hold
<1>3. /\ DOMAIN perLevel' = DOMAIN perLevel \cup {key} /\ perLevel'[key] = piece
      /\ \A k \in DOMAIN perLevel : perLevel'[k] = perLevel[k]
  <2> HIDE DEF piece, key
  <2> QED BY <1>1, <1>2 DEF Put
<1>4. Whole(piece)
  BY DEF Whole, IsMesh
<1>5. \A t : IsTask(t)' = IsTask(t)
  BY DEF IsTask, Ids, Levels
<1>6. ASSUME NEW t \in todo' PROVE IsTask(t) /\ KeyOf(t) \notin DOMAIN perLevel'
  <2>1. t \in todo /\ t # task /\ IsTask(t) /\ KeyOf(t) \notin DOMAIN perLevel
    BY <1>2 DEF Covered
  <2>2. KeyOf(t) # key
    BY <1>1, <2>1, KeysDiffer
  <2> QED BY <1>3, <2>1, <2>2
<1>7. ASSUME NEW k \in DOMAIN perLevel'
      PROVE  Whole(perLevel'[k]) /\ \E t : IsTask(t) /\ k = KeyOf(t)
  <2>1. CASE k = key
    BY <1>1, <1>3, <1>4, <2>1
  <2>2. CASE k \in DOMAIN perLevel
    BY <1>3, <2>2 DEF Covered
  <2> HIDE DEF key
  <2> QED BY <1>3, <2>1, <2>2
<1>8. ASSUME NEW id \in Ids, NEW level \in Levels, NEW t \in DOMAIN fragments[id]
      PROVE  Task(id, level, t) \in todo' \/ KeyOf(Task(id, level, t)) \in DOMAIN perLevel'
  <2>1. Task(id, level, t) \in todo \/ KeyOf(Task(id, level, t)) \in DOMAIN perLevel
    BY <1>1 DEF Covered
  <2> QED BY <1>2, <1>3, <2>1
<1>9. Ids' = Ids /\ Levels' = Levels
  BY DEF Ids, Levels
<1>10. phase \in {"assemble", "built", "written"} => FALSE
  BY DEF Covered
<1> HIDE DEF key, piece
<1> QED
  BY <1>1, <1>5, <1>6, <1>7, <1>8, <1>9, <1>10 DEF Covered, Whole, KeyOf

\* Nothing else adds or takes a piece.
LEMMA FrameCovers ==
    ASSUME Covered, UNCHANGED <<input, fragments, todo, perLevel>>,
           \/ phase' = phase
           \/ /\ phase # "cut" /\ phase' \in {"assemble", "built", "written", "failed"}
              /\ phase' = "failed" \/ todo = {}
    PROVE  Covered'
<1>1. Ids' = Ids /\ Levels' = Levels /\ \A t : IsTask(t)' = IsTask(t)
  BY DEF Ids, Levels, IsTask
<1>2. phase' \in Phases /\ (phase' = "cut" <=> phase = "cut")
      /\ (phase' \in {"assemble", "built", "written"} => todo' = {})
  BY DEF Covered, Phases
<1> QED
  BY <1>1, <1>2 DEF Covered

-----------------------------------------------------------------------------
(* The rows. *)

\* A sequence of something.
Listed(list) == \E S : list \in Seq(S)

\* A list with one more.
LEMMA AppendListed ==
    ASSUME NEW list, Listed(list), NEW x
    PROVE  /\ Listed(Append(list, x))
           /\ \A r \in DOMAIN Append(list, x) :
                 (r \in DOMAIN list /\ Append(list, x)[r] = list[r]) \/ Append(list, x)[r] = x
<1>1. PICK S : list \in Seq(S)
  BY DEF Listed
<1> DEFINE T == S \cup {x}
<1>2. list \in Seq(T) /\ x \in T
  <2>1. Len(list) \in Nat /\ list \in [1 .. Len(list) -> S]
    BY <1>1
  <2>2. list \in [1 .. Len(list) -> T]
    BY <2>1
  <2> HIDE DEF T
  <2>3. list \in Seq(T)
    BY <2>1, <2>2
  <2> QED BY <2>3 DEF T
<1> HIDE DEF T
<1>3. Append(list, x) \in Seq(T)
  BY <1>2
<1>4. \A r \in DOMAIN Append(list, x) :
         (r \in DOMAIN list /\ Append(list, x)[r] = list[r]) \/ Append(list, x)[r] = x
  BY <1>2
<1> QED
  BY <1>3, <1>4 DEF Listed

\* A position as it is kept: on the lattice of its cell.
LEMMA QuantizedTyped ==
    ASSUME NEW p \in Point, NEW level \in Nat, NEW cell, MortonDecode(cell) \in Triples
    PROVE  Quantized(p, cell, level) \in [Axes -> 0 .. QuantMax]
<1>1. ASSUME NEW a \in Axes
      PROVE  QuantizedAt(p[a], Origin(cell, level)[a], Step(level)[a]) \in 0 .. QuantMax
  <2> DEFINE x == p[a]
             origin == Origin(cell, level)[a]
             step == Step(level)[a]
  <2>1. x \in Int /\ step \in Nat \ {0} /\ Extent(level)[a] \in Nat /\ QuantMax \in Nat
    BY StepTyped, LatticeAssumption DEF Point
  <2>2. MortonDecode(cell)[a] \in Nat
    BY DEF Triples
  <2>3. origin \in Int
    <3>1. origin = MortonDecode(cell)[a] * Extent(level)[a]
      BY DEF Origin
    <3> HIDE DEF origin
    <3> QED BY <2>1, <2>2, <3>1
  <2> HIDE DEF x, origin, step
  <2>4. x - origin \in Int
    BY <2>1, <2>3
  <2>5. Rint(x - origin, step) \in Int
    BY <2>1, <2>4, NearestIsNearest
  <2>6. Clipped(Rint(x - origin, step)) \in 0 .. QuantMax
    BY <2>1, <2>5 DEF Clipped
  <2> QED BY <2>6 DEF QuantizedAt, x, origin, step
<1> QED
  BY <1>1 DEF Quantized

\* The key of a cell.
LEMMA CellKeyTyped ==
    ASSUME Covered, NEW cellKey \in CellKeys
    PROVE  cellKey[1] \in Nat /\ MortonDecode(cellKey[2]) \in Triples
<1>1. PICK key \in DOMAIN perLevel : cellKey = <<key[1], key[2]>>
  BY DEF CellKeys
<1>2. PICK task : IsTask(task) /\ key = KeyOf(task)
  BY <1>1 DEF Covered
<1>3. phase # "cut"
  BY <1>1 DEF Covered
<1>4. task.level \in Nat /\ task.triple \in Coded
  BY <1>2, <1>3, TaskTyped
<1>5. MortonDecode(MortonEncode(task.triple)) = task.triple /\ task.triple \in Triples
  BY <1>4, CodedTyped, MortonRoundTrip
<1>6. cellKey[1] = task.level /\ cellKey[2] = MortonEncode(task.triple)
  BY <1>1, <1>2 DEF KeyOf
<1> QED
  BY <1>4, <1>5, <1>6

\* The pieces of a cell are meshes.
LEMMA PiecesInTyped ==
    ASSUME Covered, NEW level, NEW cell
    PROVE  ArePieces(PiecesIn(level, cell))
<1> DEFINE S == {id \in Ids : <<level, cell, id>> \in DOMAIN perLevel}
           ids == IdsIn(level, cell)
           pieces == PiecesIn(level, cell)
<1>1. IsFiniteSet(Ids) /\ Ids \subseteq Nat
  BY BuildAssumption DEF Covered, Ids
<1>2. S \in SUBSET Int /\ IsFiniteSet(S)
  <2>1. S \subseteq Ids
    OBVIOUS
  <2> HIDE DEF S
  <2>2. S \subseteq Int
    BY <1>1, <2>1
  <2> QED BY <1>1, <2>1, <2>2, FS_Subset
<1>3. ids = InOrder(S)
  BY DEF IdsIn
<1>4. Lists(ids, S)
  BY <1>2, <1>3, InOrderLists
<1>5. Len(ids) \in Nat /\ DOMAIN ids = 1 .. Len(ids) /\ \A i \in DOMAIN ids : ids[i] \in S
  BY <1>4 DEF Lists
<1>6. pieces = [i \in DOMAIN ids |-> perLevel[<<level, cell, ids[i]>>]]
  BY DEF PiecesIn
<1>7. \A i \in DOMAIN ids : <<level, cell, ids[i]>> \in DOMAIN perLevel
  BY <1>5
<1>8. \A i \in DOMAIN ids : IsMesh(perLevel[<<level, cell, ids[i]>>])
  BY <1>7 DEF Covered, Whole
<1> HIDE DEF pieces, ids, S
<1>9. DOMAIN pieces = 1 .. Len(ids) /\ Len(pieces) = Len(ids) /\ \A i \in DOMAIN pieces : IsMesh(pieces[i])
  BY <1>5, <1>6, <1>8
<1>10. ArePieces(pieces)
  BY <1>5, <1>9 DEF ArePieces
<1> QED
  BY <1>10 DEF pieces

\* The positions of a row are steps of its lattice.
OnLattice(row) == \A v \in DOMAIN row.positions : row.positions[v] \in [Axes -> 0 .. QuantMax]

\* A row of a cell that is there keeps to the lattice.
LEMMA RowOnLattice ==
    ASSUME Covered, NEW key \in CellKeys
    PROVE  OnLattice(Row(key[1], key[2]))
<1> DEFINE mesh == Concatenated(PiecesIn(key[1], key[2]))
           row == Row(key[1], key[2])
<1>1. mesh.points \in Seq(Point)
  BY PiecesInTyped, ConcatenatedIsMesh DEF IsMesh
<1>2. row.positions = [v \in DOMAIN mesh.points |-> Quantized(mesh.points[v], key[2], key[1])]
  BY DEF Row
<1>3. key[1] \in Nat /\ MortonDecode(key[2]) \in Triples
  BY CellKeyTyped
<1> HIDE DEF mesh, row
<1>4. \A v \in DOMAIN mesh.points : mesh.points[v] \in Point
  BY <1>1
<1>5. \A v \in DOMAIN mesh.points : Quantized(mesh.points[v], key[2], key[1]) \in [Axes -> 0 .. QuantMax]
  BY <1>3, <1>4, QuantizedTyped
<1>6. OnLattice(row)
  BY <1>2, <1>5 DEF OnLattice
<1> QED
  BY <1>6 DEF row

\* The rows of a level are a list of such.
RowsFit ==
    \A level \in DOMAIN shards :
       /\ Listed(shards[level])
       /\ \A r \in DOMAIN shards[level] : OnLattice(shards[level][r])

\* A cell adds one.
LEMMA AssembledFits ==
    ASSUME Covered, RowsFit, NEW key \in CellKeys, AssembleCell(key[1], key[2])
    PROVE  RowsFit'
<1> DEFINE row == Row(key[1], key[2])
<1>1. shards' = [shards EXCEPT ![key[1]] = Append(@, row)]
  BY DEF AssembleCell
<1>2. OnLattice(row)
  BY RowOnLattice
<1> HIDE DEF row
<1>3. ASSUME NEW level \in DOMAIN shards'
      PROVE  /\ Listed(shards'[level])
             /\ \A r \in DOMAIN shards'[level] : OnLattice(shards'[level][r])
  <2>1. level \in DOMAIN shards
    BY <1>1
  <2>2. Listed(shards[level]) /\ \A r \in DOMAIN shards[level] : OnLattice(shards[level][r])
    BY <2>1 DEF RowsFit
  <2>3. shards'[level] = shards[level] \/ shards'[level] = Append(shards[level], row)
    BY <1>1, <2>1
  <2> DEFINE rows == shards[level]
             more == Append(rows, row)
  <2>4. /\ Listed(more)
        /\ \A r \in DOMAIN more : (r \in DOMAIN rows /\ more[r] = rows[r]) \/ more[r] = row
    BY <2>2, AppendListed
  <2> HIDE DEF more
  <2>5. \A r \in DOMAIN more : OnLattice(more[r])
    BY <1>2, <2>2, <2>4
  <2> QED BY <2>2, <2>3, <2>4, <2>5 DEF more
<1> QED
  BY <1>3 DEF RowsFit, OnLattice, Listed

\* At first there are none.
LEMMA StartedFits ==
    ASSUME EndLevels
    PROVE  RowsFit'
<1>1. shards' = [level \in Levels |-> <<>>]
  BY DEF EndLevels
<1>2. <<>> \in Seq({}) /\ DOMAIN <<>> = {}
  OBVIOUS
<1>3. Listed(<<>>)
  BY <1>2 DEF Listed
<1> QED
  BY <1>1, <1>2, <1>3 DEF RowsFit, Listed

-----------------------------------------------------------------------------
(* The build. *)

\* The collapse is one, the simplifier answers with a mesh, and the pieces and rows are all there.
BuildInv == Inv /\ Collapsible /\ Answering /\ Covered /\ RowsFit

\* A build starts there.
LEMMA BuildInvInit == BuildInit => BuildInv
<1> SUFFICES ASSUME BuildInit PROVE BuildInv
  OBVIOUS
<1>1. Inv /\ Collapsible
  BY InvInit, CollapsibleInit DEF BuildInit, SimplifyInit
<1>2. Answering
  BY DEF BuildInit, SimplifyInit, Answering
<1>3. DOMAIN Nothing = {}
  BY DEF Nothing
<1>4. Covered
  BY <1>3 DEF BuildInit, Covered, Phases
<1>5. RowsFit
  BY <1>3 DEF BuildInit, RowsFit
<1> QED BY <1>1, <1>2, <1>4, <1>5 DEF BuildInv

\* What is not the builder's own is left alone by the simplifier, and the other way round.
LEMMA DecimateSteps ==
    ASSUME Inv, Collapsible, DecimateStep
    PROVE  Inv' /\ Collapsible' /\ [Abstract!Next]_(Abstract!vars)
<1>1. [DecimateNext]_decimateVars
  BY DEF DecimateStep, DecimateNext
<1> QED
  BY <1>1, StepRefines, CollapsibleStep

\* The simplifier is left alone.
LEMMA SimplifierRests ==
    ASSUME Inv, Collapsible, Answering, UNCHANGED simplifyVars
    PROVE  Inv' /\ Collapsible' /\ Answering' /\ [Abstract!Next]_(Abstract!vars)
<1>1. UNCHANGED decimateVars /\ UNCHANGED <<request, attempt, asking, answer>>
  BY DEF simplifyVars
<1>2. DecimateStep
  BY <1>1 DEF DecimateStep
<1>3. Answering'
  BY <1>1 DEF Answering, Asked
<1> QED
  BY <1>2, <1>3, DecimateSteps

\* What is asked of the simplifier is a piece of the object, with its vertices on the planes.
LEMMA CoarsenAsks ==
    ASSUME Covered, Answering, NEW task \in todo, Coarsen(task)
    PROVE  Answering' /\ UNCHANGED decimateVars
<1> DEFINE piece == Piece(task)
           fixed == OnPlanes(piece.points, Extent(task.level), Exactly)
           target == TargetFaces(piece.faces, task.level)
           r == [points |-> piece.points, faces |-> piece.faces, fixed |-> fixed,
                 target |-> target, backend |-> input.backend]
<1>1. phase = "levels" /\ SimplifyToTarget(r)
  BY DEF Coarsen
<1>2. IsTask(task) /\ input \in Inputs
  BY DEF Covered
<1>3. Whole(piece) /\ task.level \in Levels
  BY <1>1, <1>2, TaskTyped, TasksHavePieces
<1>4. fixed \subseteq DOMAIN piece.points
  BY DEF OnPlanes
<1>5. target \in Nat
  <2>1. piece.faces \in Seq(Face)
    BY <1>3 DEF Whole, IsMesh
  <2> QED BY <1>2, <1>3, <2>1, TargetsTyped
<1>6. input.backend \in Backends
  BY <1>2, BuildAssumption
<1> HIDE DEF fixed, target, piece
<1>7. r.points = piece.points /\ r.faces = piece.faces /\ r.fixed = fixed /\ r.target = target /\ r.backend = input.backend
  OBVIOUS
<1> HIDE DEF r
<1>8. request' = r /\ attempt' = Max({1, r.target}) /\ asking' = "attempt" /\ UNCHANGED decimateVars
  BY <1>1 DEF SimplifyToTarget
<1>9. attempt' \in Nat
  BY <1>5, <1>7, <1>8, FirstAttempt
<1>10. IsMesh(r)
  BY <1>3, <1>7 DEF Whole, IsMesh
<1>11. Asked'
  BY <1>3, <1>4, <1>6, <1>7, <1>8, <1>9, <1>10 DEF Asked, Whole
<1> QED
  BY <1>8, <1>11 DEF Answering

\* Every step of a build, of its simplifier and of what follows keeps the invariant, and is a turn of a
\* collapse or leaves the collapse alone.
LEMMA VerifyStep ==
    BuildInv /\ [VerifyNext]_verifyVars => BuildInv' /\ [Abstract!Next]_(Abstract!vars)
<1> SUFFICES ASSUME BuildInv, [VerifyNext]_verifyVars
             PROVE  BuildInv' /\ [Abstract!Next]_(Abstract!vars)
  OBVIOUS
<1>0. Inv /\ Collapsible /\ Answering /\ Covered /\ RowsFit
  BY DEF BuildInv
<1>1. ASSUME Cut
      PROVE  BuildInv' /\ [Abstract!Next]_(Abstract!vars)
  <2>1. UNCHANGED simplifyVars /\ UNCHANGED shards
    BY <1>1 DEF Cut
  <2>2. Covered'
    BY <1>0, <1>1, CutCovers
  <2>3. RowsFit'
    BY <1>0, <2>1 DEF RowsFit
  <2> QED BY <1>0, <2>1, <2>2, <2>3, SimplifierRests DEF BuildInv
<1>2. ASSUME NEW task \in todo, KeepFragment(task)
      PROVE  BuildInv' /\ [Abstract!Next]_(Abstract!vars)
  <2>1. /\ UNCHANGED simplifyVars /\ UNCHANGED shards /\ phase = "levels"
        /\ Hold(task, Piece(task)) /\ UNCHANGED <<input, phase, fragments>>
    BY <1>2 DEF KeepFragment
  <2>2. Whole(Piece(task))
    BY <1>0, <2>1, TasksHavePieces DEF Covered
  <2>3. Covered'
    BY <1>0, <2>1, <2>2, HoldCovers
  <2>4. RowsFit'
    BY <1>0, <2>1 DEF RowsFit
  <2> QED BY <1>0, <2>1, <2>3, <2>4, SimplifierRests DEF BuildInv
<1>3. ASSUME NEW task \in todo, Coarsen(task)
      PROVE  BuildInv' /\ [Abstract!Next]_(Abstract!vars)
  <2>1. Answering' /\ UNCHANGED decimateVars
    BY <1>0, <1>3, CoarsenAsks
  <2>2. UNCHANGED <<input, fragments, todo, perLevel, phase, shards>>
    BY <1>3 DEF Coarsen, buildVars
  <2>3. Covered'
    BY <1>0, <2>2, FrameCovers
  <2>4. RowsFit'
    BY <1>0, <2>2 DEF RowsFit
  <2>5. DecimateStep
    BY <2>1 DEF DecimateStep
  <2> QED BY <1>0, <2>1, <2>3, <2>4, <2>5, DecimateSteps DEF BuildInv
<1>4. ASSUME NEW task \in todo, PlacePiece(task)
      PROVE  BuildInv' /\ [Abstract!Next]_(Abstract!vars)
  <2>1. /\ asking = "answered" /\ asking' = "no" /\ UNCHANGED decimateVars /\ UNCHANGED shards
        /\ Hold(task, answer) /\ UNCHANGED <<input, phase, fragments>>
    BY <1>4 DEF PlacePiece
  <2>2. Whole(answer)
    BY <1>0, <2>1 DEF Answering, Whole
  <2>3. Covered'
    BY <1>0, <2>1, <2>2, HoldCovers
  <2>4. RowsFit'
    BY <1>0, <2>1 DEF RowsFit
  <2>5. Answering' /\ DecimateStep
    BY <2>1 DEF Answering, DecimateStep
  <2> QED BY <1>0, <2>3, <2>4, <2>5, DecimateSteps DEF BuildInv
<1>5. ASSUME SimplifyTurn, UNCHANGED buildVars
      PROVE  BuildInv' /\ [Abstract!Next]_(Abstract!vars)
  <2>1. Answering' /\ DecimateStep
    BY <1>0, <1>5, SimplifyTurnTyped
  <2>2. UNCHANGED <<input, fragments, todo, perLevel, phase, shards>>
    BY <1>5 DEF buildVars
  <2>3. Covered'
    BY <1>0, <2>2, FrameCovers
  <2>4. RowsFit'
    BY <1>0, <2>2 DEF RowsFit
  <2> QED BY <1>0, <2>1, <2>3, <2>4, DecimateSteps DEF BuildInv
<1>6. ASSUME UNCHANGED simplifyVars, UNCHANGED <<input, fragments, todo, perLevel>>, RowsFit',
             \/ phase' = phase
             \/ /\ phase # "cut" /\ phase' \in {"assemble", "built", "written", "failed"}
                /\ phase' = "failed" \/ todo = {}
      PROVE  BuildInv' /\ [Abstract!Next]_(Abstract!vars)
  BY <1>0, <1>6, FrameCovers, SimplifierRests DEF BuildInv
<1>7. ASSUME UNCHANGED shards PROVE RowsFit'
  BY <1>0, <1>7 DEF RowsFit
<1>8. ASSUME EndLevels
      PROVE  BuildInv' /\ [Abstract!Next]_(Abstract!vars)
  <2>1. /\ UNCHANGED simplifyVars /\ UNCHANGED <<input, fragments, todo, perLevel>>
        /\ phase = "levels" /\ phase' = "assemble" /\ todo = {}
    BY <1>8 DEF EndLevels
  <2> QED BY <1>6, <1>8, <2>1, StartedFits
<1>9. ASSUME NEW key \in CellKeys, AssembleCell(key[1], key[2])
      PROVE  BuildInv' /\ [Abstract!Next]_(Abstract!vars)
  <2>1. UNCHANGED simplifyVars /\ UNCHANGED <<input, fragments, todo, perLevel>> /\ phase' = phase
    BY <1>9 DEF AssembleCell
  <2> QED BY <1>0, <1>6, <1>9, <2>1, AssembledFits
<1>10. ASSUME NEW key \in CellKeys, RefuseCell(key[1], key[2])
      PROVE  BuildInv' /\ [Abstract!Next]_(Abstract!vars)
  <2>1. /\ UNCHANGED simplifyVars /\ UNCHANGED <<input, fragments, todo, perLevel>>
        /\ phase = "assemble" /\ phase' = "failed" /\ UNCHANGED shards
    BY <1>10 DEF RefuseCell
  <2> QED BY <1>6, <1>7, <2>1
<1>11. ASSUME FinishCatalogs \/ Write
      PROVE  BuildInv' /\ [Abstract!Next]_(Abstract!vars)
  <2>1. /\ UNCHANGED simplifyVars /\ UNCHANGED <<input, fragments, todo, perLevel>>
        /\ phase \in {"assemble", "built"} /\ phase' \in {"built", "written"} /\ UNCHANGED shards
    BY <1>11 DEF FinishCatalogs, Write
  <2>2. todo = {}
    BY <1>0, <2>1 DEF Covered
  <2> QED BY <1>6, <1>7, <2>1, <2>2
<1>12. ASSUME Tampering \/ (\E tier \in DOMAIN Tiers : Verification(tier)) \/ UNCHANGED verifyVars
      PROVE  BuildInv' /\ [Abstract!Next]_(Abstract!vars)
  <2>1. /\ UNCHANGED simplifyVars /\ UNCHANGED <<input, fragments, todo, perLevel>>
        /\ phase' = phase /\ UNCHANGED shards
    BY <1>12 DEF Tampering, Verification, verifyVars, buildVars
  <2> QED BY <1>6, <1>7, <2>1
<1> QED
  BY <1>1, <1>2, <1>3, <1>4, <1>5, <1>8, <1>9, <1>10, <1>11, <1>12 DEF VerifyNext, BuildStep

\* The invariant of a build.
LEMMA BuildInvHolds == VerifySpec => []BuildInv
<1>1. VerifyInit => BuildInv
  BY BuildInvInit DEF VerifyInit
<1>2. BuildInv /\ [VerifyNext]_verifyVars => BuildInv'
  BY VerifyStep
<1> QED BY <1>1, <1>2, PTL DEF VerifySpec

\* Whatever is built, however it is simplified: no piece is made twice, every piece is a mesh,
\* and what the rows keep is on the lattice of their cells (build.build_collection).
THEOREM BuildTyped == VerifySpec => []TypeOK
<1>1. BuildInv => TypeOK
  <2> SUFFICES ASSUME BuildInv PROVE TypeOK
    OBVIOUS
  <2>1. Answering /\ Covered /\ RowsFit
    BY DEF BuildInv
  <2>2. \A key \in DOMAIN perLevel : Used(perLevel[key].faces) \subseteq DOMAIN perLevel[key].points
    BY <2>1 DEF Covered, Whole, IsMesh
  <2>3. \A level \in DOMAIN shards : \A r \in DOMAIN shards[level] :
           \A v \in DOMAIN shards[level][r].positions :
              shards[level][r].positions[v] \in [Axes -> 0 .. QuantMax]
    BY <2>1 DEF RowsFit, OnLattice
  <2> QED BY <2>1, <2>2, <2>3 DEF TypeOK, Answering, Covered, Phases
<1> QED BY <1>1, BuildInvHolds, PTL

\* Whatever the objects, the levels, the targets and what the backend makes of them: a cell of
\* every level has something of each object that a cell of the finest level below it has
\* (simplify_to_target, build.build_collection).
THEOREM NothingEverVanishes == VerifySpec => []NothingVanishes
<1>1. BuildInv => NothingVanishes
  <2> SUFFICES ASSUME BuildInv PROVE NothingVanishes
    OBVIOUS
  <2>1. Covered
    BY DEF BuildInv
  <2>2. \A key \in DOMAIN perLevel : perLevel[key].faces # <<>>
    BY <2>1 DEF Covered, Whole
  <2>3. ASSUME phase \in {"built", "written"}, NEW id \in Ids, NEW triple \in DOMAIN fragments[id], NEW level \in Levels
        PROVE  <<level, MortonEncode(CoarseOf(triple, level)), id>> \in DOMAIN perLevel
    <3>1. Task(id, level, triple) \in todo \/ KeyOf(Task(id, level, triple)) \in DOMAIN perLevel
      BY <2>1, <2>3 DEF Covered
    <3>2. todo = {}
      BY <2>1, <2>3 DEF Covered
    <3> QED BY <3>1, <3>2 DEF KeyOf, Task
  <2> QED BY <2>2, <2>3 DEF NothingVanishes
<1> QED BY <1>1, BuildInvHolds, PTL

\* In a build as in a single call: no collapse of any piece gives up or moves a pinned vertex
\* (decimate_fixed as simplifiers/greedy.py and simplifiers/quadric.py call it).
THEOREM BuildHoldsThePinned == VerifySpec => []PinnedHeld
<1>1. BuildInv => PinnedHeld
  BY DEF BuildInv, Inv
<1> QED BY <1>1, BuildInvHolds, PTL

\* A build, its collapses one after another, implements the merging of groups of vertices.
THEOREM BuildRefinesCollapse == VerifySpec => ImplementsCollapse
<1>1. VerifyInit => Abstract!Init
  BY DecimateStarts DEF VerifyInit, BuildInit, SimplifyInit
<1>2. BuildInv /\ [VerifyNext]_verifyVars => [Abstract!Next]_(Abstract!vars)
  BY VerifyStep
<1> QED BY <1>1, <1>2, BuildInvHolds, PTL DEF VerifySpec, ImplementsCollapse, Abstract!Spec

-----------------------------------------------------------------------------
(* Where a greedy collapse puts vertices. *)

\* Along every axis no lower and no higher than vertices that may move.
Amid(points, fixed, p) ==
    \A a \in Axes : \E v, w \in DOMAIN points \ fixed : points[v][a] <= p[a] /\ p[a] <= points[w][a]

\* A pinned vertex, or a place amid the others.
Reached(points, fixed, p) == (\E v \in fixed : p = points[v]) \/ Amid(points, fixed, p)

\* A vertex is amid those of its kind.
LEMMA PlacesAreReached ==
    ASSUME NEW points \in Seq(Point), NEW fixed, NEW v \in DOMAIN points
    PROVE  /\ v \notin fixed => Amid(points, fixed, points[v])
           /\ Reached(points, fixed, points[v])
<1>1. ASSUME v \notin fixed PROVE Amid(points, fixed, points[v])
  <2>1. v \in DOMAIN points \ fixed
    BY <1>1
  <2>2. \A a \in Axes : points[v][a] \in Int
    BY DEF Point
  <2> QED BY <2>1, <2>2 DEF Amid
<1> QED
  BY <1>1 DEF Reached

\* So is what is halfway between two of them.
LEMMA HalfwayIsAmid ==
    ASSUME NEW points \in Seq(Point), NEW fixed, NEW p \in Point, NEW q \in Point,
           Amid(points, fixed, p), Amid(points, fixed, q)
    PROVE  Amid(points, fixed, Midpoint(p, q))
<1> SUFFICES ASSUME NEW a \in Axes
             PROVE  \E v, w \in DOMAIN points \ fixed :
                       points[v][a] <= Midpoint(p, q)[a] /\ Midpoint(p, q)[a] <= points[w][a]
  BY DEF Amid
<1>1. PICK v \in DOMAIN points \ fixed, w \in DOMAIN points \ fixed :
         points[v][a] <= p[a] /\ p[a] <= points[w][a]
  BY DEF Amid
<1>2. PICK s \in DOMAIN points \ fixed, t \in DOMAIN points \ fixed :
         points[s][a] <= q[a] /\ q[a] <= points[t][a]
  BY DEF Amid
<1> DEFINE low(i, j) == IF points[i][a] <= points[j][a] THEN i ELSE j
<1>3. /\ points[v][a] \in Int /\ points[w][a] \in Int /\ points[s][a] \in Int /\ points[t][a] \in Int
      /\ p[a] \in Int /\ q[a] \in Int /\ Midpoint(p, q)[a] = (p[a] + q[a]) \div 2
  BY DEF Point, Midpoint
<1>4. ASSUME NEW m \in Int, NEW n \in Int, NEW c \in Int, NEW d \in Int, c <= m, c <= n, m <= d, n <= d
      PROVE  c <= (m + n) \div 2 /\ (m + n) \div 2 <= d
  BY <1>4
<1>5. CASE points[v][a] <= points[s][a] /\ points[w][a] <= points[t][a]
  BY <1>1, <1>2, <1>3, <1>4, <1>5, SMTT(60)
<1>6. CASE points[v][a] <= points[s][a] /\ ~(points[w][a] <= points[t][a])
  BY <1>1, <1>2, <1>3, <1>4, <1>6, SMTT(60)
<1>7. CASE ~(points[v][a] <= points[s][a]) /\ points[w][a] <= points[t][a]
  BY <1>1, <1>2, <1>3, <1>4, <1>7, SMTT(60)
<1>8. CASE ~(points[v][a] <= points[s][a]) /\ ~(points[w][a] <= points[t][a])
  BY <1>1, <1>2, <1>3, <1>4, <1>8, SMTT(60)
<1> QED
  BY <1>5, <1>6, <1>7, <1>8

\* No vertex goes beyond the others, and of those that are left none is anywhere else.
Wanders ==
    /\ \A v \in DOMAIN call.points \ call.fixed : Amid(call.points, call.fixed, place[v])
    /\ stage = "collapsed" =>
          \A u \in DOMAIN result.points : Reached(call.points, call.fixed, result.points[u])

\* The places of all vertices, those of the pinned ones included.
LEMMA PlacesReached ==
    ASSUME Inv, Wanders, NEW v \in DOMAIN call.points
    PROVE  Reached(call.points, call.fixed, place[v])
<1>1. v \in call.fixed => place[v] = call.points[v]
  BY DEF Inv, PinnedHeld, Abstract!PinnedHeld
<1> QED
  BY <1>1 DEF Wanders, Reached

\* What a collapse returns is where its vertices were.
LEMMA ReturnedReached ==
    ASSUME Collapsible, NEW at \in [DOMAIN call.points -> Point],
           \A v \in DOMAIN call.points : Reached(call.points, call.fixed, at[v]),
           NEW up, Forest(up, Roots(up)), DOMAIN up = DOMAIN call.points, Finish(up, at)
    PROVE  \A u \in DOMAIN result'.points : Reached(call.points, call.fixed, result'.points[u])
<1> DEFINE live == LiveFaces(Roots(up))
           mesh == Compacted(at, live, Used(live))
<1>1. result'.points = mesh.points
  BY DEF Finish, Returned
<1>2. /\ call.points \in Seq(Point) /\ call.faces \in Seq(Face) /\ Len(call.points) \in Nat
      /\ DOMAIN call.points = 1 .. Len(call.points) /\ Used(call.faces) \subseteq DOMAIN call.points
  BY CallTyped DEF Collapsible
<1>3. live = ProperFaces(RenamedBy(call.faces, Roots(up)))
  BY DEF LiveFaces, RenamedBy
<1>4. Roots(up) \in [DOMAIN call.points -> DOMAIN call.points]
  BY DEF Forest
<1>5. live \in Seq(Face) /\ Used(live) \in SUBSET DOMAIN at
  <2> DEFINE name == Roots(up)
             named == RenamedBy(call.faces, name)
  <2>1. DOMAIN name = DOMAIN call.points /\ \A v \in DOMAIN name : name[v] \in DOMAIN call.points
    BY <1>4
  <2> HIDE DEF live, name
  <2>2. Used(call.faces) \subseteq DOMAIN name /\ \A v \in Used(call.faces) : name[v] \in Nat \ {0}
    BY <1>2, <2>1
  <2>3. named \in Seq(Face)
    BY <1>2, <2>2, RenamedTyped
  <2>4. \A u \in Used(named) : \E v \in Used(call.faces) : u = name[v]
    BY <1>2, <2>2, RenamedUses
  <2> HIDE DEF named
  <2>5. ProperFaces(named) \in Seq(Face) /\ Used(ProperFaces(named)) \subseteq Used(named)
    BY <2>3, ProperFacesTyped
  <2>6. live = ProperFaces(named)
    BY <1>3 DEF named, name
  <2> QED BY <1>2, <2>1, <2>4, <2>5, <2>6
<1>6. at \in Seq(Point)
  BY <1>2
<1> HIDE DEF live
<1>7. \A u \in DOMAIN mesh.points : \E v \in Used(live) : mesh.points[u] = at[v]
  BY <1>5, <1>6, CompactedIsMesh
<1> HIDE DEF mesh
<1> QED
  BY <1>1, <1>5, <1>7

\* A turn of a collapse, its beginning and its end keep to that.
LEMMA WandersOn ==
    ASSUME Inv, Collapsible, Wanders, DecimateStep
    PROVE  Wanders'
<1>0. /\ Inv' /\ Collapsible' /\ Forest(parent, Roots(parent)) /\ DOMAIN parent = DOMAIN call.points
      /\ call.points \in Seq(Point)
  BY DecimateSteps, CallTyped DEF Inv, Sized, Collapsible
<1>1. ASSUME NEW c \in Calls, IsCall(c), Begin(c)
      PROVE  Wanders'
  <2>1. call' = c /\ place' = c.points /\ stage' = "collapsing"
    BY <1>1 DEF Begin
  <2>2. c.points \in Seq(Point)
    BY <1>1, CallTyped
  <2> QED BY <2>1, <2>2, PlacesAreReached DEF Wanders
<1>2. ASSUME NEW edge \in waiting, Skip(edge)
      PROVE  Wanders'
  BY <1>2 DEF Skip, Wanders
<1>3. ASSUME NEW edge \in waiting, Collapse(edge)
      PROVE  Wanders'
  <2>1. /\ ~Blocked(RootA(edge), RootB(edge)) /\ call' = call
        /\ place' = Moved(RootA(edge), RootB(edge), Kept(edge))
    BY <1>3 DEF Collapse, RootA, RootB, Kept
  <2>2. (stage' = stage /\ stage = "collapsing") \/ Finish(Linked(edge), place')
    BY <1>3 DEF Collapse, RootA, RootB, Kept, Dropped, Linked, Hung
  <2>3. DOMAIN Linked(edge) = DOMAIN call.points /\ Forest(Linked(edge), Roots(Linked(edge)))
    BY <2>1, LinkedIsForest
  <2>4. RootA(edge) \in DOMAIN call.points /\ RootB(edge) \in DOMAIN call.points
    <3>1. edge[1] \in DOMAIN parent /\ edge[2] \in DOMAIN parent
      BY <1>0 DEF Inv, Sized
    <3> QED BY <1>0, <3>1, RootsAreRoots DEF RootA, RootB
  <2>5. place \in [DOMAIN call.points -> Point] /\ place' \in [DOMAIN call.points -> Point]
    BY <1>0, <2>1 DEF Collapsible
  <2>6. \A v \in DOMAIN call.points \ call.fixed : Amid(call.points, call.fixed, place'[v])
    <3>1. CASE place' = place
      BY <3>1 DEF Wanders
    <3>2. CASE place' # place
      <4> DEFINE p == place[RootA(edge)]
                 q == place[RootB(edge)]
      <4>1. /\ RootA(edge) \notin call.fixed /\ RootB(edge) \notin call.fixed
            /\ place' = [place EXCEPT ![Kept(edge)] = Midpoint(p, q)]
        BY <2>1, <3>2 DEF Moved
      <4>2. p \in Point /\ q \in Point /\ Amid(call.points, call.fixed, p) /\ Amid(call.points, call.fixed, q)
        BY <2>4, <2>5, <4>1 DEF Wanders
      <4> HIDE DEF p, q
      <4>3. Amid(call.points, call.fixed, Midpoint(p, q))
        BY <1>0, <4>2, HalfwayIsAmid
      <4>4. \A v \in DOMAIN place : place'[v] = place[v] \/ place'[v] = Midpoint(p, q)
        BY <4>1
      <4> QED BY <2>5, <4>3, <4>4 DEF Wanders
    <3> QED BY <3>1, <3>2
  <2>7. \A v \in DOMAIN call.points : Reached(call.points, call.fixed, place'[v])
    <3>1. PinnedHeld'
      BY <1>0 DEF Inv
    <3>2. \A v \in call.fixed : place'[v] = call.points[v]
      BY <2>1, <3>1 DEF PinnedHeld, Abstract!PinnedHeld
    <3> QED BY <2>6, <3>2 DEF Reached
  <2>8. stage' = "collapsed" => \A u \in DOMAIN result'.points : Reached(call.points, call.fixed, result'.points[u])
    BY <2>2, <2>3, <2>5, <2>7, ReturnedReached
  <2> QED BY <2>1, <2>6, <2>8 DEF Wanders
<1>4. ASSUME RunOut
      PROVE  Wanders'
  <2>1. Finish(parent, place) /\ UNCHANGED <<call, place>>
    BY <1>4 DEF RunOut
  <2>2. \A v \in DOMAIN call.points : Reached(call.points, call.fixed, place[v])
    BY PlacesReached
  <2>3. place \in [DOMAIN call.points -> Point]
    BY DEF Collapsible
  <2>4. \A u \in DOMAIN result'.points : Reached(call.points, call.fixed, result'.points[u])
    BY <1>0, <2>1, <2>2, <2>3, ReturnedReached
  <2> QED BY <2>1, <2>4 DEF Wanders
<1>5. ASSUME Leave \/ UNCHANGED decimateVars
      PROVE  Wanders'
  BY <1>5 DEF Leave, decimateVars, Wanders
<1> QED
  BY <1>1, <1>2, <1>3, <1>4, <1>5 DEF DecimateStep, DecimateTurn

-----------------------------------------------------------------------------
(* Whose the points of a weld are. *)

\* Points of one sequence that are points of the others.
PointsFrom(points, pieces) ==
    \A v \in DOMAIN points : \E i \in DOMAIN pieces : \E w \in DOMAIN pieces[i].points : points[v] = pieces[i].points[w]

\* The points of two meshes as one.
LEMMA StackedPoints ==
    ASSUME NEW mesh, IsMesh(mesh), NEW piece, IsMesh(piece), NEW v \in DOMAIN Stacked(mesh, piece).points
    PROVE  \/ \E w \in DOMAIN mesh.points : Stacked(mesh, piece).points[v] = mesh.points[w]
           \/ \E w \in DOMAIN piece.points : Stacked(mesh, piece).points[v] = piece.points[w]
<1> DEFINE both == mesh.points \o piece.points
<1>1. Stacked(mesh, piece).points = both
  BY DEF Stacked
<1>2. mesh.points \in Seq(Point) /\ piece.points \in Seq(Point)
  BY DEF IsMesh
<1>3. Follow(both, mesh.points, piece.points)
  BY <1>2, ConcatFollows
<1> HIDE DEF both
<1>4. v \in DOMAIN mesh.points \/ (v - Len(mesh.points) \in DOMAIN piece.points
                                   /\ v = Len(mesh.points) + (v - Len(mesh.points)))
  BY <1>1, <1>3 DEF Follow
<1>5. /\ \A i \in DOMAIN mesh.points : both[i] = mesh.points[i]
      /\ \A i \in DOMAIN piece.points : both[Len(mesh.points) + i] = piece.points[i]
  BY <1>3 DEF Follow
<1>6. CASE v \in DOMAIN mesh.points
  BY <1>1, <1>5, <1>6
<1>7. CASE ~(v \in DOMAIN mesh.points)
  <2> DEFINE w == v - Len(mesh.points)
  <2>1. w \in DOMAIN piece.points /\ v = Len(mesh.points) + w
    BY <1>4, <1>7
  <2> HIDE DEF w
  <2>2. both[v] = piece.points[w]
    BY <1>5, <2>1
  <2> QED BY <1>1, <2>1, <2>2
<1> QED
  BY <1>6, <1>7

\* Those of any number of them.
LEMMA ConcatenatedPoints ==
    ASSUME NEW pieces, ArePieces(pieces)
    PROVE  PointsFrom(Concatenated(pieces).points, pieces)
<1>1. PICK meshes : Joins(meshes, pieces)
  BY JoinsExist
<1> DEFINE n == Len(pieces)
           P == {k \in Nat : k <= n => PointsFrom(meshes[k].points, pieces)}
<1>2. n \in Nat /\ DOMAIN pieces = 1 .. n /\ \A i \in DOMAIN pieces : IsMesh(pieces[i])
  BY DEF ArePieces
<1>3. /\ \A k \in 0 .. n : meshes[k] \in Meshes
      /\ \A k \in 1 .. n : meshes[k] = Stacked(meshes[k - 1], pieces[k])
      /\ Concatenated(pieces) = meshes[n]
  BY <1>1 DEF Joins
<1>4. meshes[0] = NoMesh
  BY <1>1 DEF Joins
<1>5. 0 \in P
  <2>1. DOMAIN NoMesh.points = {}
    BY DEF NoMesh
  <2> QED BY <1>4, <2>1 DEF PointsFrom
<1>6. ASSUME NEW k \in Nat, k \in P PROVE k + 1 \in P
  <2> SUFFICES ASSUME k + 1 <= n PROVE PointsFrom(meshes[k + 1].points, pieces)
    OBVIOUS
  <2> DEFINE mesh == meshes[k]
             piece == pieces[k + 1]
  <2>1. k \in 0 .. n /\ k + 1 \in 1 .. n /\ (k + 1) - 1 = k /\ k <= n
    BY <1>2
  <2>2. IsMesh(mesh) /\ IsMesh(piece) /\ meshes[k + 1] = Stacked(mesh, piece) /\ PointsFrom(mesh.points, pieces)
    BY <1>2, <1>3, <1>6, <2>1 DEF Meshes
  <2>3. k + 1 \in DOMAIN pieces
    BY <1>2, <2>1
  <2> SUFFICES ASSUME NEW v \in DOMAIN meshes[k + 1].points
               PROVE  \E i \in DOMAIN pieces : \E w \in DOMAIN pieces[i].points :
                         meshes[k + 1].points[v] = pieces[i].points[w]
    BY DEF PointsFrom
  <2>4. \/ \E w \in DOMAIN mesh.points : meshes[k + 1].points[v] = mesh.points[w]
        \/ \E w \in DOMAIN piece.points : meshes[k + 1].points[v] = piece.points[w]
    BY <2>2, StackedPoints
  <2> QED BY <2>2, <2>3, <2>4 DEF PointsFrom
<1>7. n \in P
  <2> HIDE DEF P
  <2> QED BY <1>2, <1>5, <1>6, NatSetInduction
<1> QED
  BY <1>2, <1>3, <1>7

\* A weld has no points of its own.
LEMMA WeldedPoints ==
    ASSUME NEW pieces, ArePieces(pieces), Len(pieces) # 0
    PROVE  PointsFrom(Weld(pieces).points, pieces)
<1>1. CASE Len(pieces) = 1
  BY <1>1 DEF Weld, ArePieces, PointsFrom
<1>2. CASE Len(pieces) # 1
  <2> DEFINE mesh == Concatenated(pieces)
             first == FirstAt(mesh.points)
             kept == {first[v] : v \in DOMAIN mesh.points}
             named == RenamedBy(mesh.faces, first)
             faces == ProperFaces(named)
  <2>1. Weld(pieces) = Fused(mesh) /\ IsMesh(mesh) /\ PointsFrom(mesh.points, pieces)
    BY <1>2, ConcatenatedIsMesh, ConcatenatedPoints DEF Weld
  <2> HIDE DEF mesh
  <2>2. /\ mesh.points \in Seq(Point) /\ mesh.faces \in Seq(Face) /\ Used(mesh.faces) \subseteq DOMAIN mesh.points
        /\ DOMAIN mesh.points \subseteq Nat \ {0}
    BY <2>1 DEF IsMesh
  <2>3. \A v \in DOMAIN mesh.points : first[v] \in DOMAIN mesh.points
    BY <2>2, FirstIsThere
  <2>4. DOMAIN first = DOMAIN mesh.points
    BY DEF FirstAt
  <2>5. Fused(mesh) = Compacted(mesh.points, faces, kept)
    BY DEF Fused, FirstAt, RenamedBy
  <2> HIDE DEF first
  <2>6. Used(mesh.faces) \subseteq DOMAIN first /\ \A v \in Used(mesh.faces) : first[v] \in Nat \ {0}
    BY <2>2, <2>3, <2>4
  <2>7. named \in Seq(Face) /\ \A u \in Used(named) : \E v \in Used(mesh.faces) : u = first[v]
    <3>1. named \in Seq(Face)
      BY <2>2, <2>6, RenamedTyped
    <3>2. \A u \in Used(RenamedBy(mesh.faces, first)) : \E v \in Used(mesh.faces) : u = first[v]
      BY <2>2, <2>6, RenamedUses
    <3> QED BY <3>1, <3>2
  <2> HIDE DEF named
  <2>8. faces \in Seq(Face) /\ Used(faces) \subseteq Used(named)
    BY <2>7, ProperFacesTyped
  <2> HIDE DEF faces
  <2>9. kept \in SUBSET DOMAIN mesh.points /\ Used(faces) \subseteq kept
    BY <2>2, <2>3, <2>7, <2>8
  <2> HIDE DEF kept
  <2>10. \A i \in DOMAIN Fused(mesh).points : \E v \in kept : Fused(mesh).points[i] = mesh.points[v]
    BY <2>2, <2>5, <2>8, <2>9, CompactedIsMesh
  <2> QED BY <2>1, <2>9, <2>10 DEF PointsFrom
<1> QED
  BY <1>1, <1>2

\* The fragments that a piece is welded of.
FragmentsIn(pieces, task) ==
    /\ ArePieces(pieces) /\ Len(pieces) = Cardinality({Visit(t) : t \in Group(task)}) /\ Len(pieces) # 0
    /\ Piece(task) = Weld(pieces)
    /\ \A i \in DOMAIN pieces : \E t \in Group(task) : pieces[i] = fragments[task.id][t]

\* There are such fragments.
LEMMA PieceOfFragments ==
    ASSUME NEW task, Fragments(fragments[task.id]), Group(task) # {}
    PROVE  \E pieces : FragmentsIn(pieces, task)
<1> DEFINE V == {Visit(t) : t \in Group(task)}
           visits == InOrder(V)
           of(i) == CHOOSE t \in Group(task) : Visit(t) = visits[i]
           pieces == [i \in DOMAIN visits |-> fragments[task.id][of(i)]]
<1>1. Group(task) \in SUBSET Coded /\ \A t \in Group(task) : IsMesh(fragments[task.id][t])
  BY DEF Group, Fragments, Shaped
<1>2. V \in SUBSET Int /\ IsFiniteSet(V) /\ V # {}
  BY <1>1, VisitsFinite
<1>3. Piece(task) = Weld(pieces)
  BY DEF Piece
<1>4. \A x \in V : \E t \in Group(task) : Visit(t) = x
  OBVIOUS
<1> HIDE DEF V
<1>5. Lists(visits, V)
  BY <1>2, InOrderLists
<1>6. /\ Len(visits) \in Nat /\ DOMAIN visits = 1 .. Len(visits) /\ Len(visits) # 0 /\ Len(visits) = Cardinality(V)
      /\ \A i \in DOMAIN visits : visits[i] \in V
  <2>1. Cardinality(V) # 0
    BY <1>2, FS_EmptySet
  <2> QED BY <1>5, <2>1 DEF Lists
<1> HIDE DEF visits
<1>7. \A i \in DOMAIN visits : of(i) \in Group(task)
  BY <1>4, <1>6
<1> HIDE DEF of
<1>8. /\ DOMAIN pieces = DOMAIN visits /\ Len(pieces) = Len(visits)
      /\ \A i \in DOMAIN visits : pieces[i] = fragments[task.id][of(i)]
  BY <1>6
<1> HIDE DEF pieces
<1>9. ArePieces(pieces) /\ Len(pieces) # 0
  BY <1>1, <1>6, <1>7, <1>8 DEF ArePieces
<1>10. \A i \in DOMAIN pieces : \E t \in Group(task) : pieces[i] = fragments[task.id][t]
  BY <1>7, <1>8
<1>11. Len(pieces) = Cardinality({Visit(t) : t \in Group(task)})
  BY <1>6, <1>8 DEF V
<1>12. Piece(task) = Weld(pieces)
  BY <1>3
<1> QED
  BY <1>9, <1>10, <1>11, <1>12 DEF FragmentsIn

\* A point of the surface as it was cut, in one of some cells.
CutPoint(id, cells, p) == \E t \in cells : \E v \in DOMAIN fragments[id][t].points : p = fragments[id][t].points[v]

\* A piece before it is simplified has no points of its own.
LEMMA PiecePoints ==
    ASSUME NEW task, Fragments(fragments[task.id]), Group(task) # {}, NEW v \in DOMAIN Piece(task).points
    PROVE  CutPoint(task.id, Group(task), Piece(task).points[v])
<1>1. PICK pieces : FragmentsIn(pieces, task)
  BY PieceOfFragments
<1>2. PointsFrom(Piece(task).points, pieces)
  BY <1>1, WeldedPoints DEF FragmentsIn
<1> QED
  BY <1>1, <1>2 DEF PointsFrom, FragmentsIn, CutPoint

\* A cell of the finest level is above itself only, and its piece is the fragment.
LEMMA FinestPiece ==
    ASSUME NEW id, Fragments(fragments[id]), NEW t \in DOMAIN fragments[id]
    PROVE  /\ Task(id, 0, t).triple = t /\ Group(Task(id, 0, t)) = {t}
           /\ Piece(Task(id, 0, t)) = fragments[id][t]
<1> DEFINE task == Task(id, 0, t)
<1>1. ASSUME NEW s \in Coded PROVE CoarseOf(s, 0) = s
  <2>1. 2 ^ 0 = 1 /\ \A a \in Axes : s[a] \in Nat /\ s = [b \in Axes |-> s[b]]
    BY Powers, CodedTyped, PowerOfNone
  <2>2. \A a \in Axes : s[a] \div 2 ^ 0 = s[a]
    BY <2>1
  <2>3. s = [a \in Axes |-> s[a]]
    BY CodedTyped
  <2> QED BY <2>2, <2>3 DEF CoarseOf
<1>2. DOMAIN fragments[id] \subseteq Coded
  BY DEF Fragments
<1>3. task.id = id /\ task.level = 0 /\ task.triple = t
  BY <1>1, <1>2 DEF Task
<1>4. Group(task) = {t}
  BY <1>1, <1>2, <1>3 DEF Group
<1> HIDE DEF task
<1>5. PICK pieces : FragmentsIn(pieces, task)
  BY <1>3, <1>4, PieceOfFragments
<1>6. {Visit(s) : s \in Group(task)} = {Visit(t)}
  BY <1>4
<1>7. Len(pieces) = 1
  BY <1>5, <1>6, FS_Singleton DEF FragmentsIn
<1>8. 1 \in DOMAIN pieces /\ Piece(task) = pieces[1]
  <2>1. ArePieces(pieces) /\ Piece(task) = Weld(pieces)
    BY <1>5 DEF FragmentsIn
  <2>2. DOMAIN pieces = 1 .. 1
    BY <1>7, <2>1 DEF ArePieces
  <2>3. Weld(pieces) = pieces[1]
    BY <1>7 DEF Weld
  <2> QED BY <2>1, <2>2, <2>3
<1>9. pieces[1] = fragments[id][t]
  BY <1>3, <1>4, <1>5, <1>8 DEF FragmentsIn
<1> QED
  BY <1>3, <1>4, <1>8, <1>9 DEF task

-----------------------------------------------------------------------------
(* Where the points of the cut are. *)

Multiple(x, d) == \E m \in Int : x = m * d

OnAPlane(p) == \E a \in Axes : Multiple(p[a], CellSize[a])

\* In its cell and, if it is on a plane of the finest level, on a lattice that all levels share.
Seated(p, triple, levels) ==
    /\ InCell(p, triple)
    /\ OnAPlane(p) =>
          \A a \in Axes : Multiple(p[a], CellSize[a]) \/ Multiple(p[a], Step(levels - 1)[a])

\* Snapping puts a point there.
LEMMA SnapSeats ==
    ASSUME NEW p \in Point, NEW triple \in Triples, NEW levels \in Nat \ {0}, InCell(p, triple)
    PROVE  Seated(SnapPoint(p, Step(levels - 1)), triple, levels)
<1> DEFINE step == Step(levels - 1)
<1>1. levels - 1 \in Nat
  OBVIOUS
<1>2. ASSUME NEW a \in Axes
      PROVE  /\ p[a] \in Int /\ CellSize[a] \in Nat \ {0} /\ step[a] \in Nat \ {0} /\ triple[a] \in Int
             /\ triple[a] * CellSize[a] <= p[a] /\ p[a] <= (triple[a] + 1) * CellSize[a]
             /\ triple[a] * CellSize[a] \in Int /\ (triple[a] + 1) * CellSize[a] \in Int
  <2>1. p[a] \in Int /\ CellSize[a] \in Nat \ {0} /\ step[a] \in Nat \ {0} /\ triple[a] \in Int
    BY <1>1, StepTyped DEF Point, Triples
  <2>2. triple[a] * CellSize[a] \in Int /\ (triple[a] + 1) * CellSize[a] \in Int
    BY <2>1
  <2>3. p[a] \in triple[a] * CellSize[a] .. (triple[a] + 1) * CellSize[a]
    BY DEF InCell
  <2> QED BY <2>1, <2>2, <2>3
<1> HIDE DEF step
<1>3. CASE OnBoundary(p, step)
  <2> DEFINE q == SnapPoint(p, step)
  <2>1. ASSUME NEW a \in Axes
        PROVE  /\ q[a] = SnapCoordinate(p[a], CellSize[a], step[a])
               /\ q[a] \in triple[a] * CellSize[a] .. (triple[a] + 1) * CellSize[a]
               /\ Multiple(q[a], CellSize[a]) \/ Multiple(q[a], step[a])
    <3>1. q[a] = SnapCoordinate(p[a], CellSize[a], step[a])
      BY <1>3 DEF SnapPoint
    <3>2. triple[a] * CellSize[a] <= q[a] /\ q[a] <= (triple[a] + 1) * CellSize[a]
      BY <1>2, <3>1, SnapStaysInTheCell
    <3>3. Rint(p[a], CellSize[a]) \in Int /\ Rint(p[a], step[a]) \in Int
      BY <1>2, NearestIsNearest
    <3>4. q[a] = Rint(p[a], CellSize[a]) * CellSize[a] \/ q[a] = Rint(p[a], step[a]) * step[a]
      BY <3>1 DEF SnapCoordinate, Nearest
    <3>5. q[a] \in Int
      BY <1>2, <3>3, <3>4
    <3> HIDE DEF q
    <3>6. Multiple(q[a], CellSize[a]) \/ Multiple(q[a], step[a])
      BY <3>3, <3>4 DEF Multiple
    <3>7. q[a] \in triple[a] * CellSize[a] .. (triple[a] + 1) * CellSize[a]
      BY <1>2, <3>2, <3>5
    <3> QED BY <3>1, <3>6, <3>7
  <2> HIDE DEF q
  <2>2. InCell(q, triple)
    BY <2>1 DEF InCell
  <2>3. Seated(q, triple, levels)
    BY <2>1, <2>2 DEF Seated, step
  <2> QED BY <2>3 DEF q, step
<1>4. CASE ~OnBoundary(p, step)
  <2>1. SnapPoint(p, step) = p
    BY <1>4 DEF SnapPoint
  <2>2. ASSUME NEW a \in Axes, Multiple(p[a], CellSize[a]) PROVE FALSE
    <3>1. PICK m \in Int : p[a] = m * CellSize[a]
      BY <2>2 DEF Multiple
    <3>2. OffPlane(p[a], CellSize[a]) <= Abs(p[a] - m * CellSize[a]) /\ OffPlane(p[a], CellSize[a]) \in Nat
      BY <1>2, NearestIsNearest
    <3>3. Abs(p[a] - m * CellSize[a]) = 0
      <4>1. p[a] - m * CellSize[a] = 0
        BY <1>2, <3>1
      <4> QED BY <4>1 DEF Abs
    <3>4. ~(OffPlane(p[a], CellSize[a]) <= step[a])
      BY <1>4 DEF OnBoundary, NearPlane
    <3> QED BY <1>2, <3>2, <3>3, <3>4
  <2>3. ~OnAPlane(p)
    BY <2>2 DEF OnAPlane
  <2> QED BY <2>1, <2>3 DEF Seated, step
<1> QED
  BY <1>3, <1>4

\* What is clipped to a cell lies in it.
LEMMA ClipPoints ==
    ASSUME NEW mesh, IsMesh(mesh), NEW triple, NEW v \in DOMAIN Clip(mesh, triple).points
    PROVE  InCell(Clip(mesh, triple).points[v], triple)
<1> DEFINE inside == {f \in DOMAIN mesh.faces : \A u \in Corners(mesh.faces[f]) : InCell(mesh.points[u], triple)}
           faces == Masked(mesh.faces, inside)
<1>1. mesh.points \in Seq(Point) /\ mesh.faces \in Seq(Face) /\ Used(mesh.faces) \subseteq DOMAIN mesh.points
  BY DEF IsMesh
<1>2. Clip(mesh, triple) = Compacted(mesh.points, faces, Used(faces))
  BY DEF Clip
<1>3. inside \in SUBSET DOMAIN mesh.faces /\ \A f \in inside : \A u \in Corners(mesh.faces[f]) : InCell(mesh.points[u], triple)
  OBVIOUS
<1> HIDE DEF inside
<1>4. /\ faces \in Seq(Face) /\ Used(faces) \subseteq Used(mesh.faces)
      /\ Used(faces) \subseteq UNION {Corners(mesh.faces[f]) : f \in inside}
  BY <1>1, <1>3, MaskedFaces
<1> HIDE DEF faces
<1>5. Used(faces) \in SUBSET DOMAIN mesh.points
  BY <1>1, <1>4
<1>6. PICK u \in Used(faces) : Clip(mesh, triple).points[v] = mesh.points[u]
  BY <1>1, <1>2, <1>4, <1>5, CompactedIsMesh
<1>7. PICK f \in inside : u \in Corners(mesh.faces[f])
  BY <1>4
<1> QED
  BY <1>3, <1>6, <1>7

\* All points of the fragments of a mesh.
SeatedIn(cuts, levels) ==
    \A t \in DOMAIN cuts : \A v \in DOMAIN cuts[t].points :
       cuts[t].points[v] \in Point /\ Seated(cuts[t].points[v], t, levels)

LEMMA FragmentsSeated ==
    ASSUME NEW mesh, IsObject(mesh), NEW levels \in Nat \ {0}
    PROVE  SeatedIn(FragmentsOf(mesh, levels), levels)
<1> DEFINE cut(t) == Snapped(Clip(mesh, t), levels)
<1>1. CellsOf(mesh.points) \subseteq Coded
  BY CellsAreCoded
<1>2. /\ DOMAIN FragmentsOf(mesh, levels) \subseteq CellsOf(mesh.points)
      /\ \A t \in DOMAIN FragmentsOf(mesh, levels) : FragmentsOf(mesh, levels)[t] = cut(t)
  BY DEF FragmentsOf
<1>3. ASSUME NEW t \in Coded, NEW v \in DOMAIN cut(t).points
      PROVE  cut(t).points[v] \in Point /\ Seated(cut(t).points[v], t, levels)
  <2> DEFINE fragment == Clip(mesh, t)
  <2>1. IsMesh(fragment) /\ \A u \in DOMAIN fragment.points : InCell(fragment.points[u], t)
    BY ClipIsMesh, ClipPoints DEF IsObject
  <2> HIDE DEF fragment
  <2>2. v \in DOMAIN fragment.points /\ cut(t).points[v] = SnapPoint(fragment.points[v], Step(levels - 1))
    BY <1>3 DEF Snapped, fragment
  <2>3. fragment.points[v] \in Point /\ t \in Triples /\ InCell(fragment.points[v], t) /\ levels - 1 \in Nat
    BY <2>1, <2>2 DEF IsMesh, Coded
  <2>4. Seated(SnapPoint(fragment.points[v], Step(levels - 1)), t, levels)
    BY <2>3, SnapSeats
  <2>5. SnapPoint(fragment.points[v], Step(levels - 1)) \in Point
    BY <2>3, SnapTyped
  <2> QED BY <2>2, <2>4, <2>5
<1> HIDE DEF cut
<1> QED
  BY <1>1, <1>2, <1>3 DEF SeatedIn

-----------------------------------------------------------------------------
(* The boxes of the coarser cells. *)

\* Of products.
LEMMA TimesMonotone ==
    ASSUME NEW i \in Int, NEW j \in Int, NEW d \in Nat, i <= j
    PROVE  i * d <= j * d /\ i * d \in Int /\ j * d \in Int
<1>1. i * d \in Int /\ j * d \in Int
  OBVIOUS
<1>2. CASE i = j
  BY <1>1, <1>2
<1>3. CASE i < j /\ d # 0
  <2>1. i * d + d <= j * d
    BY <1>3, MultiplesApart
  <2> QED BY <1>1, <2>1
<1>4. CASE d = 0
  <2>1. i * 0 = 0 /\ j * 0 = 0
    OBVIOUS
  <2> QED BY <1>4, <2>1
<1> QED
  BY <1>2, <1>3, <1>4

\* Along one axis, a cell is within the cell above it.
LEMMA WithinTheCellAbove ==
    ASSUME NEW x \in Int, NEW c \in Nat, NEW size \in Nat \ {0}, NEW power \in Nat \ {0},
           c * size <= x, x <= (c + 1) * size
    PROVE  (c \div power) * (size * power) <= x /\ x <= (c \div power + 1) * (size * power)
<1> DEFINE q == c \div power
<1>1. q \in Int /\ c = power * q + (c % power) /\ 0 <= c % power /\ c % power < power /\ c % power \in Int
  BY Division
<1> HIDE DEF q
<1>2. PICK m \in Int : m = q * power
  BY <1>1
<1>3. power * q = q * power /\ (q + 1) * power = q * power + power
  BY <1>1
<1>4. m <= c /\ c + 1 <= m + power
  BY <1>1, <1>2, <1>3
<1>5. m * size <= c * size /\ (c + 1) * size <= (m + power) * size
  BY <1>4, TimesMonotone
<1>6. m * size = q * (size * power)
  <2>1. (q * power) * size = q * (power * size) /\ power * size = size * power
    BY <1>1
  <2> QED BY <1>2, <2>1
<1>7. (m + power) * size = (q + 1) * (size * power)
  <2>1. ((q + 1) * power) * size = (q + 1) * (power * size) /\ power * size = size * power
    BY <1>1
  <2> QED BY <1>2, <1>3, <2>1
<1>8. /\ m * size \in Int /\ c * size \in Int /\ (c + 1) * size \in Int /\ (m + power) * size \in Int
  BY <1>2
<1>9. m * size <= x /\ x <= (m + power) * size
  BY <1>5, <1>8
<1> QED
  BY <1>6, <1>7, <1>9 DEF q

\* The box of a cell of a level, with its faces and without.
InBox(p, triple, level) ==
    \A a \in Axes : triple[a] * Extent(level)[a] <= p[a] /\ p[a] <= (triple[a] + 1) * Extent(level)[a]

Inside(p, triple, level) ==
    \A a \in Axes : triple[a] * Extent(level)[a] < p[a] /\ p[a] < (triple[a] + 1) * Extent(level)[a]

LEMMA BoxAbove ==
    ASSUME NEW p \in Point, NEW t \in Coded, NEW level \in Nat, InCell(p, t)
    PROVE  InBox(p, CoarseOf(t, level), level)
<1> SUFFICES ASSUME NEW a \in Axes
             PROVE  /\ CoarseOf(t, level)[a] * Extent(level)[a] <= p[a]
                    /\ p[a] <= (CoarseOf(t, level)[a] + 1) * Extent(level)[a]
  BY DEF InBox
<1>1. p[a] \in Int /\ t[a] \in Nat /\ CellSize[a] \in Nat \ {0} /\ 2 ^ level \in Nat \ {0}
  BY CodedTyped, StepTyped, Powers DEF Point
<1>2. t[a] * CellSize[a] \in Int /\ (t[a] + 1) * CellSize[a] \in Int
  BY <1>1
<1>3. t[a] * CellSize[a] <= p[a] /\ p[a] <= (t[a] + 1) * CellSize[a]
  BY <1>1, <1>2 DEF InCell
<1>4. CoarseOf(t, level)[a] = t[a] \div 2 ^ level /\ Extent(level)[a] = CellSize[a] * 2 ^ level
  BY DEF CoarseOf, Extent
<1> QED
  BY <1>1, <1>3, <1>4, WithinTheCellAbove

\* A point of a plane is not inside a box.
LEMMA PlanesAreOutside ==
    ASSUME NEW x \in Int, NEW d \in Nat \ {0}, NEW i \in Int, NEW m \in Int, x = m * d
    PROVE  ~(i * d < x /\ x < (i + 1) * d)
<1>1. i * d \in Int /\ m * d \in Int /\ (i + 1) * d \in Int
  OBVIOUS
<1>2. CASE m <= i
  <2>1. m * d <= i * d
    BY <1>2, TimesMonotone
  <2> QED BY <1>1, <2>1
<1>3. CASE i + 1 <= m
  <2>1. (i + 1) * d <= m * d
    BY <1>3, TimesMonotone
  <2> QED BY <1>1, <2>1
<1> QED
  BY <1>2, <1>3

\* Off the faces of a box means inside of it.
LEMMA OffThePlanes ==
    ASSUME NEW x \in Int, NEW d \in Nat \ {0}, NEW i \in Int, i * d <= x, x <= (i + 1) * d, ~(OffPlane(x, d) < 1)
    PROVE  i * d < x /\ x < (i + 1) * d
<1>1. /\ OffPlane(x, d) \in Nat /\ OffPlane(x, d) <= Abs(x - i * d)
      /\ OffPlane(x, d) <= Abs(x - (i + 1) * d)
  <2>1. OffPlane(x, d) \in Nat /\ \A k \in Int : OffPlane(x, d) <= Abs(x - k * d)
    BY NearestIsNearest
  <2>2. i + 1 \in Int
    OBVIOUS
  <2> QED BY <2>1, <2>2
<1>2. i * d \in Int /\ (i + 1) * d \in Int
  OBVIOUS
<1>3. Abs(0) = 0
  BY DEF Abs
<1>4. x # i * d /\ x # (i + 1) * d
  <2>1. x = i * d => x - i * d = 0
    BY <1>2
  <2>2. x = (i + 1) * d => x - (i + 1) * d = 0
    BY <1>2
  <2> QED BY <1>1, <1>3, <2>1, <2>2
<1> QED
  BY <1>2, <1>4

-----------------------------------------------------------------------------
(* The lattices of two levels. *)

LEMMA PowersAdd ==
    ASSUME NEW i \in Nat, NEW j \in Nat
    PROVE  2 ^ (i + j) = 2 ^ i * 2 ^ j
<1> DEFINE P == {k \in Nat : 2 ^ (i + k) = 2 ^ i * 2 ^ k}
<1>1. 0 \in P
  BY Powers
<1>2. ASSUME NEW k \in Nat, k \in P PROVE k + 1 \in P
  <2>1. 2 ^ (i + (k + 1)) = 2 * 2 ^ (i + k)
    <3>1. i + (k + 1) = (i + k) + 1 /\ i + k \in Nat
      OBVIOUS
    <3> QED BY <3>1, Powers
  <2>2. 2 ^ (k + 1) = 2 * 2 ^ k /\ 2 ^ k \in Nat /\ 2 ^ i \in Nat
    BY Powers
  <2>3. 2 ^ (i + k) = 2 ^ i * 2 ^ k
    BY <1>2
  <2>4. 2 * (2 ^ i * 2 ^ k) = 2 ^ i * (2 * 2 ^ k)
    BY <2>2
  <2> QED BY <2>1, <2>2, <2>3, <2>4
<1>3. j \in P
  <2> HIDE DEF P
  <2> QED BY <1>1, <1>2, NatSetInduction
<1> QED
  BY <1>3

\* The step of a level is a whole number of steps of any finer one.
LEMMA StepsOfSteps ==
    ASSUME NEW level \in Nat, NEW last \in Nat, level <= last, NEW a \in Axes
    PROVE  Step(last)[a] = 2 ^ (last - level) * Step(level)[a]
<1> DEFINE s == Step(level)[a]
           t == Step(last)[a]
           r == 2 ^ (last - level)
           q == QuantMax
<1>1. last - level \in Nat /\ level + (last - level) = last
  OBVIOUS
<1>2. 2 ^ last = 2 ^ level * r /\ r \in Nat /\ 2 ^ level \in Nat
  BY <1>1, PowersAdd, Powers
<1>3. /\ Extent(level)[a] = q * s /\ Extent(last)[a] = q * t /\ s \in Nat \ {0} /\ t \in Nat \ {0}
      /\ CellSize[a] \in Nat
  BY StepTyped
<1>4. Extent(level)[a] = CellSize[a] * 2 ^ level /\ Extent(last)[a] = CellSize[a] * 2 ^ last
  BY DEF Extent
<1>5. q \in Nat \ {0}
  <2>1. q \in Nat /\ q % 2 = 1
    BY LatticeAssumption
  <2> QED BY <2>1
<1>6. \A b, c, d \in Nat : b * (c * d) = (b * c) * d /\ b * c = c * b
  OBVIOUS
<1> HIDE DEF s, t, r, q
<1>7. q * t = q * (r * s)
  <2>1. q * t = (CellSize[a] * 2 ^ level) * r
    BY <1>2, <1>3, <1>4, <1>6
  <2>2. q * t = (q * s) * r
    BY <1>3, <1>4, <2>1
  <2> QED BY <1>2, <1>3, <1>5, <1>6, <2>2
<1>8. PICK k \in Nat : k = r * s
  BY <1>2, <1>3
<1>9. t = k
  <2>1. t * q = k * q
    BY <1>3, <1>5, <1>6, <1>7, <1>8
  <2>2. t < k => t * q + q <= k * q
    BY <1>3, <1>5, <1>8, MultiplesApart
  <2>3. k < t => k * q + q <= t * q
    BY <1>3, <1>5, <1>8, MultiplesApart
  <2>4. PICK u \in Nat : u = t * q /\ u = k * q
    BY <1>3, <1>5, <2>1
  <2> QED BY <1>3, <1>5, <1>8, <2>2, <2>3, <2>4
<1> QED
  BY <1>8, <1>9 DEF s, t, r

\* Of a coordinate in a cell, the place on its lattice that is decoded is no farther than half a step.
LEMMA DecodedIsNear ==
    ASSUME NEW x \in Int, NEW origin \in Int, NEW step \in Nat \ {0},
           origin <= x, x <= origin + QuantMax * step
    PROVE  /\ DecodedAt(QuantizedAt(x, origin, step), origin, step) \in Int
           /\ 2 * Abs(x - DecodedAt(QuantizedAt(x, origin, step), origin, step)) <= step
<1> DEFINE y == x - origin
           q == Rint(y, step)
<1>1. QuantMax \in Nat
  BY LatticeAssumption
<1>2. y \in Int /\ 0 <= y /\ y <= QuantMax * step /\ QuantMax * step \in Int
  BY <1>1
<1>3. /\ q \in Int /\ q * step \in Int
      /\ 2 * (q * step) <= 2 * y + step /\ 2 * y <= 2 * (q * step) + step
  <2>1. /\ q \in Int /\ 2 * Nearest(y, step) <= 2 * y + step /\ 2 * y <= 2 * Nearest(y, step) + step
    BY <1>2, NearestIsNearest
  <2> QED BY <2>1 DEF Nearest
<1> HIDE DEF q
<1>4. ~(q < 0)
  <2>1. q < 0 => q * step + step <= 0 * step
    BY <1>3, MultiplesApart
  <2>2. 0 * step = 0
    OBVIOUS
  <2> QED BY <1>2, <1>3, <2>1, <2>2
<1>5. ~(q > QuantMax)
  <2>1. QuantMax < q => QuantMax * step + step <= q * step
    BY <1>1, <1>3, MultiplesApart
  <2> QED BY <1>1, <1>2, <1>3, <2>1
<1>6. QuantizedAt(x, origin, step) = q
  BY <1>4, <1>5 DEF QuantizedAt, Clipped, q
<1>7. DecodedAt(QuantizedAt(x, origin, step), origin, step) = origin + q * step
  BY <1>6 DEF DecodedAt
<1>8. PICK p \in Int : p = q * step
  BY <1>3
<1> QED
  BY <1>2, <1>3, <1>7, <1>8 DEF Abs, y

\* What two levels make of one coordinate: the same, or half a step of the coarser one where it
\* is on a plane in the middle of a coarser cell.
SameOrHalf(near, far, x, a, level) ==
    \/ Abs(near - far) = 0
    \/ OffLattice(x, a, level) /\ 2 * Abs(near - far) <= Step(level)[a]

\* A coordinate as a cell at i along this axis shows it.
ShownAt(x, i, level, a) ==
    DecodedAt(QuantizedAt(x, i * Extent(level)[a], Step(level)[a]), i * Extent(level)[a], Step(level)[a])

\* On a multiple of a level's step, a cell of it shows what it was given.
LEMMA ShownExactly ==
    ASSUME NEW x \in Int, NEW i \in Int, NEW level \in Nat, NEW a \in Axes, NEW ratio \in Nat \ {0},
           Multiple(x, ratio * Step(level)[a]),
           i * Extent(level)[a] <= x, x <= (i + 1) * Extent(level)[a]
    PROVE  ShownAt(x, i, level, a) = x
<1> DEFINE step == Step(level)[a]
<1>1. step \in Nat \ {0} /\ Extent(level)[a] = QuantMax * step
  BY StepTyped
<1>2. PICK m \in Int : x = m * (ratio * step)
  BY DEF Multiple
<1>3. i * (QuantMax * step) <= m * (ratio * step) /\ m * (ratio * step) <= (i + 1) * (QuantMax * step)
  BY <1>1, <1>2
<1> HIDE DEF step
<1>4. DecodedAt(QuantizedAt(m * (ratio * step), i * (QuantMax * step), step), i * (QuantMax * step), step)
         = m * (ratio * step)
  BY <1>1, <1>3, SnappedIsRepresentable
<1> QED
  BY <1>1, <1>2, <1>4 DEF ShownAt, step

\* The finest level and a coarser one, along one axis.
LEMMA AxesAgree ==
    ASSUME NEW x \in Int, NEW c \in Nat, NEW a \in Axes, NEW level \in Nat, NEW last \in Nat, level <= last,
           c * CellSize[a] <= x, x <= (c + 1) * CellSize[a],
           Multiple(x, CellSize[a]) \/ Multiple(x, Step(last)[a])
    PROVE  SameOrHalf(ShownAt(x, c \div 2 ^ level, level, a), ShownAt(x, c, 0, a), x, a, level)
<1> DEFINE i == c \div 2 ^ level
           size == CellSize[a]
           step == Step(level)[a]
           wide == Extent(level)[a]
<1>1. /\ size \in Nat \ {0} /\ step \in Nat \ {0} /\ wide \in Nat \ {0} /\ wide = QuantMax * step
      /\ Step(0)[a] \in Nat \ {0} /\ Extent(0)[a] = QuantMax * Step(0)[a]
  BY StepTyped
<1>2. wide = size * 2 ^ level /\ 2 ^ level \in Nat \ {0} /\ Extent(0)[a] = size
  <2>1. size * 2 ^ 0 = size
    BY <1>1, Powers
  <2> QED BY <2>1, Powers DEF Extent
<1>3. QuantMax \in Nat \ {0}
  <2>1. QuantMax \in Nat /\ QuantMax % 2 = 1
    BY LatticeAssumption
  <2> QED BY <2>1
<1> HIDE DEF size, step, wide
<1>4. i \in Int /\ i * wide <= x /\ x <= (i + 1) * wide
  <2>1. c * size <= x /\ x <= (c + 1) * size
    BY DEF size
  <2>2. i \in Int
    BY <1>2, Division
  <2>3. i * (size * 2 ^ level) <= x /\ x <= (i + 1) * (size * 2 ^ level)
    BY <1>1, <1>2, <2>1, WithinTheCellAbove
  <2> QED BY <1>2, <2>2, <2>3
<1> HIDE DEF i
<1>5. /\ c \in Int /\ c * Extent(0)[a] <= x /\ x <= (c + 1) * Extent(0)[a]
  BY <1>2 DEF size
<1>6. CASE Multiple(x, Step(last)[a])
  <2>1. /\ Step(last)[a] = 2 ^ (last - level) * step /\ 2 ^ (last - level) \in Nat \ {0}
        /\ Step(last)[a] = 2 ^ (last - 0) * Step(0)[a] /\ 2 ^ (last - 0) \in Nat \ {0}
    <3>1. last - level \in Nat /\ last - 0 \in Nat /\ 0 <= last /\ 0 \in Nat
      OBVIOUS
    <3> QED BY <3>1, StepsOfSteps, Powers DEF step
  <2>2. ShownAt(x, i, level, a) = x
    BY <1>4, <1>6, <2>1, ShownExactly DEF step, wide
  <2>3. ShownAt(x, c, 0, a) = x
    BY <1>5, <1>6, <2>1, ShownExactly
  <2>4. Abs(x - x) = 0
    BY DEF Abs
  <2> QED BY <2>2, <2>3, <2>4 DEF SameOrHalf, i
<1>7. CASE Multiple(x, size)
  <2>1. ShownAt(x, c, 0, a) = x
    <3>1. Multiple(x, QuantMax * Step(0)[a])
      BY <1>1, <1>2, <1>7
    <3> QED BY <1>3, <1>5, <3>1, ShownExactly
  <2>2. CASE x % wide = 0
    <3>1. Multiple(x, QuantMax * step)
      <4>1. x = wide * (x \div wide) + (x % wide) /\ x \div wide \in Int
        BY <1>1, Division
      <4>2. wide * (x \div wide) = (x \div wide) * wide /\ wide * (x \div wide) \in Int
        BY <1>1, <4>1
      <4>3. x = (x \div wide) * wide
        BY <2>2, <4>1, <4>2
      <4> QED BY <1>1, <4>1, <4>3 DEF Multiple
    <3>2. ShownAt(x, i, level, a) = x
      BY <1>3, <1>4, <3>1, ShownExactly DEF step, wide
    <3>3. Abs(x - x) = 0
      BY DEF Abs
    <3> QED BY <2>1, <3>2, <3>3 DEF SameOrHalf, i
  <2>3. CASE x % wide # 0
    <3>1. x % size = 0
      <4>1. PICK m \in Int : x = m * size
        BY <1>7 DEF Multiple
      <4>2. x = size * (x \div size) + (x % size) /\ x \div size \in Int /\ 0 <= x % size /\ x % size < size
            /\ x % size \in Int
        BY <1>1, Division
      <4> DEFINE k == x \div size
                 r == x % size
      <4>3. size * k = k * size /\ k * size \in Int /\ (k + 1) * size = k * size + size /\ m * size \in Int
        BY <1>1, <4>2
      <4> HIDE DEF k, r
      <4>4. k \in Int /\ r \in Int /\ x = k * size + r /\ 0 <= r /\ r < size
        BY <4>2, <4>3 DEF k, r
      <4>5. m < k => m * size + size <= k * size
        BY <1>1, <4>4, MultiplesApart
      <4>6. k < m => k * size + size <= m * size
        BY <1>1, <4>4, MultiplesApart
      <4>7. m = k
        BY <1>1, <4>1, <4>3, <4>4, <4>5, <4>6
      <4>8. r = 0
        BY <4>1, <4>3, <4>4, <4>7
      <4> QED BY <4>8 DEF r
    <3>2. OffLattice(x, a, level)
      BY <2>3, <3>1 DEF OffLattice, size, wide
    <3>3. ShownAt(x, i, level, a) \in Int /\ 2 * Abs(x - ShownAt(x, i, level, a)) <= step
      <4>1. i * wide \in Int /\ (i + 1) * wide = i * wide + wide
        BY <1>1, <1>4
      <4>2. i * wide <= x /\ x <= i * wide + QuantMax * step
        BY <1>1, <1>4, <4>1
      <4> QED BY <1>1, <4>1, <4>2, DecodedIsNear DEF ShownAt, step, wide
    <3>4. Abs(ShownAt(x, i, level, a) - x) = Abs(x - ShownAt(x, i, level, a))
      BY <3>3 DEF Abs
    <3> QED BY <2>1, <3>2, <3>3, <3>4 DEF SameOrHalf, step, i
  <2> QED BY <2>2, <2>3
<1> QED
  BY <1>6, <1>7 DEF size

-----------------------------------------------------------------------------
(* What the pieces are. *)

\* In order, the loops come to one piece at a time.
LEMMA DueIsOne ==
    ASSUME Covered, phase # "cut", NEW task, Due(task), NEW other, Due(other)
    PROVE  task = other
<1>1. task \in todo /\ other \in todo /\ IsTask(task) /\ IsTask(other)
  BY DEF Due, Covered
<1>2. /\ task.id \in Ids /\ task.level \in Nat /\ Group(task) # {} /\ Fragments(fragments[task.id])
      /\ task = [level |-> task.level, id |-> task.id, triple |-> task.triple]
      /\ other.id \in Ids /\ other.level \in Nat /\ Group(other) # {} /\ Fragments(fragments[other.id])
      /\ other = [level |-> other.level, id |-> other.id, triple |-> other.triple]
  BY <1>1, TaskTyped
<1>3. Ids \subseteq Nat
  BY BuildAssumption DEF Covered, Ids
<1>4. ASSUME NEW t, Group(t) # {}, Fragments(fragments[t.id])
      PROVE  FirstOf(t) \in Int /\ \E s \in Group(t) : FirstOf(t) = Visit(s)
  <2> DEFINE V == {Visit(s) : s \in Group(t)}
  <2>1. Group(t) \in SUBSET Coded
    BY <1>4 DEF Group, Fragments
  <2>2. V \in SUBSET Int /\ IsFiniteSet(V) /\ V # {}
    BY <1>4, <2>1, VisitsFinite
  <2>3. \A v \in V : \E s \in Group(t) : v = Visit(s)
    OBVIOUS
  <2>4. FirstOf(t) = Min(V)
    BY DEF FirstOf
  <2> HIDE DEF V
  <2>5. Min(V) \in V
    BY <2>2, MinMember
  <2> QED BY <2>2, <2>3, <2>4, <2>5
<1>5. task.level = other.level /\ task.id = other.id /\ FirstOf(task) = FirstOf(other)
  <2>1. /\ \/ task.level < other.level
           \/ task.level = other.level /\ task.id < other.id
           \/ task.level = other.level /\ task.id = other.id /\ FirstOf(task) <= FirstOf(other)
        /\ \/ other.level < task.level
           \/ other.level = task.level /\ other.id < task.id
           \/ other.level = task.level /\ other.id = task.id /\ FirstOf(other) <= FirstOf(task)
    BY <1>1 DEF Due
  <2>2. task.id \in Nat /\ other.id \in Nat /\ FirstOf(task) \in Int /\ FirstOf(other) \in Int
    BY <1>2, <1>3, <1>4
  <2> QED BY <1>2, <2>1, <2>2
<1>6. PICK s \in Group(task), t \in Group(other) : FirstOf(task) = Visit(s) /\ FirstOf(other) = Visit(t)
  BY <1>2, <1>4
<1>7. s \in Coded /\ t \in Coded /\ CoarseOf(s, task.level) = task.triple /\ CoarseOf(t, other.level) = other.triple
  BY <1>2 DEF Group, Fragments
<1>8. s = t
  BY <1>5, <1>6, <1>7, VisitsDiffer
<1> QED
  BY <1>2, <1>5, <1>7, <1>8

\* The points of the fragments are where they were put.
Seating == phase # "cut" => \A id \in Ids : SeatedIn(fragments[id], input.levels)

\* A piece of a greedy build has vertices of the cut, and vertices inside its cell; the finest
\* ones are the fragments.
Settles(task, mesh) ==
    /\ input.backend.name = "GREEDY" =>
          \A v \in DOMAIN mesh.points :
             \/ CutPoint(task.id, Group(task), mesh.points[v])
             \/ Inside(mesh.points[v], task.triple, task.level)
    /\ task.level = 0 =>
          /\ mesh.points = fragments[task.id][task.triple].points
          /\ mesh.faces = fragments[task.id][task.triple].faces

Settled ==
    phase # "cut" =>
       \A task : IsTask(task) /\ KeyOf(task) \in DOMAIN perLevel => Settles(task, perLevel[KeyOf(task)])

\* The simplifier works for the piece that is due.
AsksFor(task) ==
    /\ Due(task) /\ task.level > 0
    /\ request.points = Piece(task).points
    /\ request.fixed = OnPlanes(Piece(task).points, Extent(task.level), Exactly)
    /\ request.backend = input.backend

Answers ==
    /\ asking # "no" => phase = "levels" /\ \E task \in todo : AsksFor(task)
    /\ asking = "collapse" => call.points = request.points /\ call.fixed = request.fixed
    /\ asking = "answered" /\ request.backend.name = "GREEDY" =>
          \A u \in DOMAIN answer.points : Reached(request.points, request.fixed, answer.points[u])

SeamsInv == Wanders /\ Answers /\ Seating /\ Settled

\* What may not move is of the cut, and what may is inside.
LEMMA ReachedSettles ==
    ASSUME Covered, Seating, phase # "cut", NEW task, IsTask(task), task.level > 0, NEW mesh,
           \A u \in DOMAIN mesh.points :
              Reached(Piece(task).points, OnPlanes(Piece(task).points, Extent(task.level), Exactly), mesh.points[u]),
           \A u \in DOMAIN mesh.points : mesh.points[u] \in Point
    PROVE  Settles(task, mesh)
<1> DEFINE points == Piece(task).points
           extent == Extent(task.level)
           fixed == OnPlanes(points, extent, Exactly)
<1>1. /\ task.id \in Ids /\ task.level \in Nat /\ task.triple \in Coded /\ Group(task) # {}
      /\ Fragments(fragments[task.id]) /\ SeatedIn(fragments[task.id], input.levels)
  BY TaskTyped DEF Seating
<1>2. \A v \in DOMAIN points : CutPoint(task.id, Group(task), points[v])
  BY <1>1, PiecePoints
<1>3. ASSUME NEW p, CutPoint(task.id, Group(task), p)
      PROVE  p \in Point /\ InBox(p, task.triple, task.level)
  <2>1. PICK t \in Group(task) : \E v \in DOMAIN fragments[task.id][t].points : p = fragments[task.id][t].points[v]
    BY <1>3 DEF CutPoint
  <2>2. t \in DOMAIN fragments[task.id] /\ t \in Coded /\ CoarseOf(t, task.level) = task.triple
    BY <1>1 DEF Group, Fragments
  <2>3. p \in Point /\ InCell(p, t)
    BY <1>1, <2>1, <2>2 DEF SeatedIn, Seated
  <2> QED BY <1>1, <2>2, <2>3, BoxAbove
<1>4. ASSUME NEW v \in DOMAIN points \ fixed
      PROVE  Inside(points[v], task.triple, task.level)
  <2>1. points[v] \in Point /\ InBox(points[v], task.triple, task.level)
    BY <1>2, <1>3
  <2>2. \A a \in Axes : ~(OffPlane(points[v][a], extent[a]) < 1)
    BY <1>4 DEF OnPlanes, Exactly
  <2> SUFFICES ASSUME NEW a \in Axes
               PROVE  /\ task.triple[a] * extent[a] < points[v][a]
                      /\ points[v][a] < (task.triple[a] + 1) * extent[a]
    BY DEF Inside
  <2>3. points[v][a] \in Int /\ task.triple[a] \in Int /\ extent[a] \in Nat \ {0}
    BY <1>1, <2>1, CodedTyped, StepTyped DEF Point
  <2>4. task.triple[a] * extent[a] <= points[v][a] /\ points[v][a] <= (task.triple[a] + 1) * extent[a]
    BY <2>1 DEF InBox
  <2> HIDE DEF points, extent
  <2> QED BY <2>2, <2>3, <2>4, OffThePlanes
<1>5. ASSUME NEW p \in Point, Amid(points, fixed, p)
      PROVE  Inside(p, task.triple, task.level)
  <2> SUFFICES ASSUME NEW a \in Axes
               PROVE  task.triple[a] * extent[a] < p[a] /\ p[a] < (task.triple[a] + 1) * extent[a]
    BY DEF Inside
  <2>1. PICK v, w \in DOMAIN points \ fixed : points[v][a] <= p[a] /\ p[a] <= points[w][a]
    BY <1>5 DEF Amid
  <2>2. task.triple[a] * extent[a] < points[v][a] /\ points[w][a] < (task.triple[a] + 1) * extent[a]
    BY <1>4, <2>1 DEF Inside
  <2>3. points[v][a] \in Int /\ points[w][a] \in Int
    BY <1>2, <1>3, <2>1 DEF Point
  <2>4. p[a] \in Int /\ task.triple[a] \in Int /\ extent[a] \in Nat
    BY <1>1, CodedTyped, StepTyped DEF Point
  <2>5. task.triple[a] * extent[a] \in Int /\ (task.triple[a] + 1) * extent[a] \in Int
    BY <2>4
  <2> HIDE DEF points, extent
  <2> QED BY <2>1, <2>2, <2>3, <2>4, <2>5
<1>6. ASSUME NEW u \in DOMAIN mesh.points
      PROVE  \/ CutPoint(task.id, Group(task), mesh.points[u])
             \/ Inside(mesh.points[u], task.triple, task.level)
  <2>1. fixed \subseteq DOMAIN points
    BY DEF OnPlanes
  <2>2. Reached(points, fixed, mesh.points[u]) /\ mesh.points[u] \in Point
    OBVIOUS
  <2> HIDE DEF points, fixed
  <2> QED BY <1>2, <1>5, <2>1, <2>2 DEF Reached
<1> QED
  BY <1>6 DEF Settles

\* The finest piece is the fragment.
LEMMA FinestSettles ==
    ASSUME Covered, phase # "cut", NEW task, IsTask(task), task.level = 0
    PROVE  Settles(task, Piece(task)) /\ Piece(task) = fragments[task.id][task.triple]
<1>1. PICK id \in Ids, level \in Levels : \E t \in DOMAIN fragments[id] : task = Task(id, level, t)
  BY DEF IsTask
<1>2. PICK t \in DOMAIN fragments[id] : task = Task(id, level, t)
  BY <1>1
<1>3. task.level = level /\ task.id = id /\ Fragments(fragments[id])
  BY <1>2 DEF Task, Covered
<1>4. task = Task(id, 0, t)
  BY <1>2, <1>3
<1>5. task.triple = t /\ Group(task) = {t} /\ Piece(task) = fragments[id][t]
  BY <1>3, <1>4, FinestPiece
<1>6. \A v \in DOMAIN Piece(task).points : CutPoint(task.id, Group(task), Piece(task).points[v])
  BY <1>3, <1>5 DEF CutPoint
<1> QED
  BY <1>3, <1>5, <1>6 DEF Settles

-----------------------------------------------------------------------------
(* Every step of a build keeps to that. *)

\* What depends on the fragments only.
LEMMA FragmentsStay ==
    ASSUME UNCHANGED <<input, fragments>>
    PROVE  /\ \A task : IsTask(task)' = IsTask(task)
           /\ \A task : Group(task)' = Group(task) /\ Piece(task)' = Piece(task)
           /\ Ids' = Ids /\ Levels' = Levels
           /\ \A levels : \A id : SeatedIn(fragments[id], levels)' = SeatedIn(fragments[id], levels)
<1>1. Ids' = Ids /\ Levels' = Levels
  BY DEF Ids, Levels
<1>2. \A task : IsTask(task)' = IsTask(task)
  BY <1>1 DEF IsTask
<1>3. \A task : Group(task)' = Group(task)
  BY DEF Group
<1>4. \A task : Piece(task)' = Piece(task)
  <2>1. fragments' = fragments
    OBVIOUS
  <2> QED BY <2>1 DEF Piece, Group
<1>5. \A levels : \A id : SeatedIn(fragments[id], levels)' = SeatedIn(fragments[id], levels)
  OBVIOUS
<1> QED
  BY <1>1, <1>2, <1>3, <1>4, <1>5

LEMMA SettlesStays ==
    ASSUME UNCHANGED <<input, fragments>>, NEW key, NEW mesh, perLevel'[key] = mesh,
           NEW task, Settles(task, mesh)
    PROVE  Settles(task, perLevel[key])'
<1>1. input' = input /\ fragments' = fragments
  OBVIOUS
<1> QED
  BY <1>1 DEF Settles, CutPoint, Group

LEMMA AsksStays ==
    ASSUME UNCHANGED <<input, fragments, todo, request>>, NEW task, AsksFor(task)
    PROVE  AsksFor(task)'
<1>1. Piece(task)' = Piece(task) /\ \A t : FirstOf(t)' = FirstOf(t)
  <2>1. fragments' = fragments
    OBVIOUS
  <2> QED BY <2>1, FragmentsStay DEF FirstOf, Group
<1>2. Due(task)' = Due(task)
  BY <1>1 DEF Due
<1> QED
  BY <1>1, <1>2 DEF AsksFor

\* While no piece is added.
LEMMA SettledStays ==
    ASSUME Seating, Settled, UNCHANGED <<input, fragments, perLevel>>, phase = "cut" => phase' = "cut"
    PROVE  Seating' /\ Settled'
<1>1. Seating'
  BY FragmentsStay DEF Seating
<1>2. ASSUME phase' # "cut", NEW task, IsTask(task)', KeyOf(task) \in DOMAIN perLevel'
      PROVE  Settles(task, perLevel[KeyOf(task)])'
  <2>1. IsTask(task) /\ KeyOf(task) \in DOMAIN perLevel /\ phase # "cut"
    BY <1>2, FragmentsStay
  <2> DEFINE key == KeyOf(task)
             mesh == perLevel[key]
  <2>2. Settles(task, mesh) /\ perLevel'[key] = mesh
    BY <2>1 DEF Settled
  <2>3. KeyOf(task)' = key
    BY DEF KeyOf
  <2> HIDE DEF mesh, key
  <2>4. Settles(task, perLevel[key])'
    BY <2>2, SettlesStays
  <2> QED BY <2>3, <2>4 DEF key
<1> QED
  BY <1>1, <1>2 DEF Settled

\* A piece is added.
LEMMA HoldSettles ==
    ASSUME Covered, Seating, Settled, NEW task \in todo, NEW mesh, Settles(task, mesh), Hold(task, mesh),
           UNCHANGED <<input, phase, fragments>>
    PROVE  Seating' /\ Settled'
<1> DEFINE piece == [points |-> mesh.points, faces |-> mesh.faces]
           key == KeyOf(task)
<1>1. phase # "cut" /\ IsTask(task) /\ key \notin DOMAIN perLevel /\ perLevel' = Put(perLevel, key, piece)
  BY DEF Covered, Hold
<1>2. /\ DOMAIN perLevel' = DOMAIN perLevel \cup {key} /\ perLevel'[key] = piece
      /\ \A k \in DOMAIN perLevel : perLevel'[k] = perLevel[k]
  <2> HIDE DEF piece, key
  <2> QED BY <1>1 DEF Put
<1>3. Settles(task, piece)
  BY DEF Settles
<1>4. Seating'
  BY FragmentsStay DEF Seating
<1>5. ASSUME NEW t, IsTask(t)', KeyOf(t) \in DOMAIN perLevel'
      PROVE  Settles(t, perLevel[KeyOf(t)])'
  <2> DEFINE k == KeyOf(t)
  <2>1. IsTask(t) /\ k \in DOMAIN perLevel' /\ KeyOf(t)' = k
    BY <1>5, FragmentsStay DEF KeyOf
  <2>2. CASE k = key
    <3>1. t = task
      BY <1>1, <2>1, <2>2, KeysDiffer
    <3>2. Settles(t, piece) /\ perLevel'[k] = piece
      BY <1>2, <1>3, <2>2, <3>1
    <3> HIDE DEF k, piece
    <3>3. Settles(t, perLevel[k])'
      BY <3>2, SettlesStays
    <3> QED BY <3>3 DEF k
  <2>3. CASE k \in DOMAIN perLevel
    <3> DEFINE m == perLevel[k]
    <3>1. Settles(t, m) /\ perLevel'[k] = m
      BY <1>1, <1>2, <2>1, <2>3 DEF Settled
    <3> HIDE DEF k, m
    <3>2. Settles(t, perLevel[k])'
      BY <3>1, SettlesStays
    <3> QED BY <3>2 DEF k
  <2> HIDE DEF key, k
  <2> QED BY <1>2, <2>1, <2>2, <2>3
<1> HIDE DEF piece, key
<1> QED
  BY <1>4, <1>5 DEF Settled

\* A turn of the simplifier.
LEMMA TurnAnswers ==
    ASSUME Inv, Collapsible, Answering, Wanders, Answers, SimplifyTurn, UNCHANGED buildVars
    PROVE  Answers'
<1>0. /\ UNCHANGED <<input, fragments, todo, phase>>
      /\ \A task : UNCHANGED request /\ AsksFor(task) => AsksFor(task)'
  BY AsksStays DEF buildVars
<1>1. ASSUME asking # "no", UNCHANGED request
      PROVE  phase' = "levels" /\ \E task \in todo' : AsksFor(task)'
  BY <1>0, <1>1 DEF Answers
<1>2. ASSUME asking = "attempt", NEW settings, Greedy(settings)
      PROVE  Answers'
  <2>1. /\ asking' = "collapse" /\ UNCHANGED <<request, answer>>
        /\ call'.points = request.points /\ call'.fixed = request.fixed
    BY <1>2 DEF Greedy, Begin
  <2> QED BY <1>1, <1>2, <2>1 DEF Answers
<1>3. ASSUME asking # "no", Relax
      PROVE  Answers'
  <2>1. asking' = "attempt" /\ UNCHANGED request
    BY <1>3 DEF Relax
  <2> QED BY <1>1, <1>3, <2>1 DEF Answers
<1>4. ASSUME asking # "no", NEW mesh, NEW error, NEW relaxed, Answer(mesh, error, relaxed),
             request.backend.name = "GREEDY" =>
                \A u \in DOMAIN mesh.points : Reached(request.points, request.fixed, mesh.points[u])
      PROVE  Answers'
  <2>1. asking' = "answered" /\ UNCHANGED request /\ answer'.points = mesh.points
    BY <1>4 DEF Answer
  <2> QED BY <1>1, <1>4, <2>1 DEF Answers
<1>5. CASE TryGreedy
  BY <1>2, <1>5 DEF TryGreedy, Trying
<1>6. ASSUME NEW outcome \in LibraryOutcomes([points |-> request.points, faces |-> request.faces]),
             TryLibrary(outcome)
      PROVE  Answers'
  <2>1. asking = "attempt" /\ request.backend.name = "QUADRIC"
    BY <1>6 DEF TryLibrary, Trying
  <2> DEFINE error == MeasureDeviation(request.points, outcome.points)
             relaxed == attempt # request.target
             settings == [interval |-> 1, placement |-> "midpoint"]
  <2>2. Relax \/ Answer(outcome, error, relaxed) \/ Greedy(settings)
    BY <1>6 DEF TryLibrary
  <2> HIDE DEF error, relaxed, settings
  <2> QED BY <1>2, <1>3, <1>4, <2>1, <2>2
<1>7. ASSUME DecimateTurn, UNCHANGED <<request, attempt, asking, answer>>
      PROVE  Answers'
  <2>1. UNCHANGED call
    BY <1>7 DEF DecimateTurn, Skip, Collapse, RunOut
  <2> QED BY <1>1, <1>7, <2>1 DEF Answers
<1>8. CASE TakeCollapse
  <2>1. asking = "collapse" /\ stage = "collapsed"
    BY <1>8 DEF TakeCollapse, Leave
  <2>2. \A u \in DOMAIN result.points : Reached(request.points, request.fixed, result.points[u])
    BY <2>1 DEF Answers, Wanders
  <2>3. Relax \/ Answer(result, result.error, attempt # request.target)
    BY <1>8 DEF TakeCollapse
  <2> QED BY <1>3, <1>4, <2>1, <2>2, <2>3
<1>9. CASE KeepWhole
  <2>1. asking = "attempt" /\ Answer(request, 0, TRUE)
    BY <1>9 DEF KeepWhole
  <2>2. request.points \in Seq(Point)
    BY <2>1 DEF Answering, Asked, IsMesh
  <2>3. \A u \in DOMAIN request.points : Reached(request.points, request.fixed, request.points[u])
    BY <2>2, PlacesAreReached
  <2> QED BY <1>4, <2>1, <2>3
<1> QED
  BY <1>5, <1>6, <1>7, <1>8, <1>9 DEF SimplifyTurn

\* What the build does with a cut.
LEMMA CutSettles ==
    ASSUME Covered, Cut
    PROVE  Seating' /\ Settled'
<1>1. /\ DOMAIN perLevel = {} /\ UNCHANGED <<input, perLevel>>
      /\ fragments' = [id \in Ids |-> FragmentsOf(input.objects[id], input.levels)]
  BY DEF Cut, Covered
<1>2. ASSUME NEW id \in Ids PROVE SeatedIn(fragments'[id], input.levels)
  <2>1. IsObject(input.objects[id]) /\ input.levels \in Nat \ {0}
    BY BuildAssumption DEF Covered, Ids
  <2> QED BY <1>1, <2>1, FragmentsSeated
<1>3. Ids' = Ids
  BY <1>1 DEF Ids
<1>4. Seating'
  BY <1>1, <1>2, <1>3 DEF Seating, SeatedIn
<1>5. Settled'
  BY <1>1 DEF Settled
<1> QED
  BY <1>4, <1>5

LEMMA SeamsStep ==
    BuildInv /\ SeamsInv /\ [VerifyNext]_verifyVars => SeamsInv'
<1> SUFFICES ASSUME BuildInv, SeamsInv, [VerifyNext]_verifyVars
             PROVE  SeamsInv'
  OBVIOUS
<1>0. /\ Inv /\ Collapsible /\ Answering /\ Covered
      /\ Wanders /\ Answers /\ Seating /\ Settled
  BY DEF BuildInv, SeamsInv
<1>1. ASSUME UNCHANGED decimateVars PROVE Wanders'
  BY <1>0, <1>1, WandersOn DEF DecimateStep
<1>2. ASSUME asking = "no", asking' = "no" PROVE Answers'
  BY <1>2 DEF Answers
<1>3. CASE Cut
  <2>1. phase = "cut" /\ UNCHANGED simplifyVars
    BY <1>3 DEF Cut
  <2>2. asking = "no" /\ asking' = "no" /\ UNCHANGED decimateVars
    BY <1>0, <2>1 DEF Answers, simplifyVars
  <2> QED BY <1>0, <1>1, <1>2, <1>3, <2>2, CutSettles DEF SeamsInv
<1>4. ASSUME NEW task \in todo, KeepFragment(task)
      PROVE  SeamsInv'
  <2>1. /\ phase = "levels" /\ Due(task) /\ task.level = 0 /\ Hold(task, Piece(task))
        /\ UNCHANGED simplifyVars /\ UNCHANGED <<input, phase, fragments>>
    BY <1>4 DEF KeepFragment
  <2>2. asking = "no" /\ asking' = "no" /\ UNCHANGED decimateVars
    <3>1. ASSUME asking # "no" PROVE FALSE
      <4>1. PICK other \in todo : AsksFor(other)
        BY <1>0, <3>1 DEF Answers
      <4>2. Due(other) /\ other.level > 0
        BY <4>1 DEF AsksFor
      <4>3. other = task
        BY <1>0, <2>1, <4>2, DueIsOne
      <4> QED BY <2>1, <4>2, <4>3
    <3> QED BY <2>1, <3>1 DEF simplifyVars
  <2>3. Settles(task, Piece(task))
    BY <1>0, <2>1, FinestSettles DEF Covered
  <2>4. Seating' /\ Settled'
    BY <1>0, <2>1, <2>3, HoldSettles
  <2> QED BY <1>1, <1>2, <2>2, <2>4 DEF SeamsInv
<1>5. ASSUME NEW task \in todo, Coarsen(task)
      PROVE  SeamsInv'
  <2> DEFINE fixed == OnPlanes(Piece(task).points, Extent(task.level), Exactly)
             r == [points |-> Piece(task).points, faces |-> Piece(task).faces, fixed |-> fixed,
                   target |-> TargetFaces(Piece(task).faces, task.level), backend |-> input.backend]
  <2>1. /\ phase = "levels" /\ Due(task) /\ task.level > 0 /\ SimplifyToTarget(r)
        /\ UNCHANGED buildVars
    BY <1>5 DEF Coarsen
  <2>2. r.points = Piece(task).points /\ r.fixed = fixed /\ r.backend = input.backend
    OBVIOUS
  <2> HIDE DEF r
  <2>3. request' = r /\ asking' = "attempt" /\ UNCHANGED decimateVars
    BY <2>1 DEF SimplifyToTarget
  <2>4. UNCHANGED <<input, fragments, todo, phase, perLevel>>
    BY <2>1 DEF buildVars
  <2>5. AsksFor(task)'
    <3>1. Piece(task)' = Piece(task) /\ \A t : FirstOf(t)' = FirstOf(t)
      <4>1. fragments' = fragments
        BY <2>4
      <4> QED BY <2>4, <4>1, FragmentsStay DEF FirstOf, Group
    <3>2. Due(task)'
      BY <2>1, <2>4, <3>1 DEF Due
    <3> QED BY <2>1, <2>2, <2>3, <2>4, <3>1, <3>2 DEF AsksFor
  <2>6. Answers'
    BY <2>1, <2>3, <2>4, <2>5 DEF Answers
  <2>7. Seating' /\ Settled'
    BY <1>0, <2>4, SettledStays
  <2> QED BY <1>1, <2>3, <2>6, <2>7 DEF SeamsInv
<1>6. ASSUME NEW task \in todo, PlacePiece(task)
      PROVE  SeamsInv'
  <2>1. /\ asking = "answered" /\ Due(task) /\ asking' = "no" /\ Hold(task, answer)
        /\ UNCHANGED decimateVars /\ UNCHANGED <<input, phase, fragments>>
    BY <1>6 DEF PlacePiece
  <2>2. PICK other \in todo : AsksFor(other)
    BY <1>0, <2>1 DEF Answers
  <2>3. phase = "levels" /\ AsksFor(task)
    <3>1. phase = "levels"
      BY <1>0, <2>1 DEF Answers
    <3>2. Due(other)
      BY <2>2 DEF AsksFor
    <3>3. other = task
      BY <1>0, <2>1, <3>1, <3>2, DueIsOne
    <3> QED BY <2>2, <3>1, <3>3
  <2>4. IsTask(task) /\ task.level > 0
    BY <1>0, <2>3 DEF Covered, AsksFor
  <2>5. Settles(task, answer)
    <3>1. CASE input.backend.name = "GREEDY"
      <4>1. /\ request.points = Piece(task).points /\ request.backend = input.backend
            /\ request.fixed = OnPlanes(Piece(task).points, Extent(task.level), Exactly)
        BY <2>3 DEF AsksFor
      <4>2. \A u \in DOMAIN answer.points : Reached(request.points, request.fixed, answer.points[u])
        BY <1>0, <2>1, <3>1, <4>1 DEF Answers
      <4>3. \A u \in DOMAIN answer.points : answer.points[u] \in Point
        BY <1>0, <2>1 DEF Answering, IsMesh
      <4> QED BY <1>0, <2>3, <2>4, <4>1, <4>2, <4>3, ReachedSettles
    <3>2. CASE input.backend.name # "GREEDY"
      BY <2>4, <3>2 DEF Settles
    <3> QED BY <3>1, <3>2
  <2>6. Seating' /\ Settled'
    BY <1>0, <2>1, <2>5, HoldSettles
  <2>7. Answers'
    BY <2>1 DEF Answers
  <2> QED BY <1>1, <2>1, <2>6, <2>7 DEF SeamsInv
<1>7. ASSUME SimplifyTurn, UNCHANGED buildVars
      PROVE  SeamsInv'
  <2>1. DecimateStep
    BY <1>0, <1>7, SimplifyTurnTyped
  <2>2. UNCHANGED <<input, fragments, phase, perLevel>>
    BY <1>7 DEF buildVars
  <2>3. Answers'
    BY <1>0, <1>7, TurnAnswers
  <2> QED BY <1>0, <2>1, <2>2, <2>3, WandersOn, SettledStays DEF SeamsInv
<1>8. ASSUME UNCHANGED simplifyVars, UNCHANGED <<input, fragments, todo, perLevel>>,
             \/ phase' = phase
             \/ phase = "levels" /\ todo = {} /\ phase' # "cut"
             \/ phase \in {"assemble", "built"} /\ phase' # "cut"
      PROVE  SeamsInv'
  <2>1. UNCHANGED decimateVars /\ UNCHANGED <<request, asking, answer, call>>
    BY <1>8 DEF simplifyVars, decimateVars
  <2>2. Seating' /\ Settled'
    <3>1. phase = "cut" => phase' = "cut"
      BY <1>8
    <3> QED BY <1>0, <1>8, <3>1, SettledStays
  <2>3. Answers'
    <3>1. CASE asking = "no"
      BY <1>2, <2>1, <3>1
    <3>2. CASE asking # "no"
      <4>1. PICK task \in todo : AsksFor(task)
        BY <1>0, <3>2 DEF Answers
      <4>2. phase = "levels" /\ phase' = phase
        BY <1>0, <1>8, <3>2, <4>1 DEF Answers
      <4>3. AsksFor(task)' /\ task \in todo'
        BY <1>8, <2>1, <4>1, AsksStays
      <4> QED BY <1>0, <2>1, <4>2, <4>3 DEF Answers
    <3> QED BY <3>1, <3>2
  <2> QED BY <1>1, <2>1, <2>2, <2>3 DEF SeamsInv
<1>9. CASE EndLevels
  <2>1. /\ UNCHANGED simplifyVars /\ UNCHANGED <<input, fragments, todo, perLevel>>
        /\ phase = "levels" /\ todo = {} /\ phase' = "assemble"
    BY <1>9 DEF EndLevels
  <2> QED BY <1>8, <2>1
<1>10. ASSUME NEW key \in CellKeys, AssembleCell(key[1], key[2]) \/ RefuseCell(key[1], key[2])
       PROVE  SeamsInv'
  <2>1. /\ UNCHANGED simplifyVars /\ UNCHANGED <<input, fragments, todo, perLevel>>
        /\ phase = "assemble" /\ phase' \in {"assemble", "failed"}
    BY <1>10 DEF AssembleCell, RefuseCell
  <2> QED BY <1>8, <2>1
<1>11. CASE FinishCatalogs \/ Write
  <2>1. /\ UNCHANGED simplifyVars /\ UNCHANGED <<input, fragments, todo, perLevel>>
        /\ phase \in {"assemble", "built"} /\ phase' \in {"built", "written"}
    BY <1>11 DEF FinishCatalogs, Write
  <2> QED BY <1>8, <2>1
<1>12. CASE Tampering \/ (\E tier \in DOMAIN Tiers : Verification(tier)) \/ UNCHANGED verifyVars
  <2>1. UNCHANGED simplifyVars /\ UNCHANGED <<input, fragments, todo, perLevel>> /\ phase' = phase
    BY <1>12 DEF Tampering, Verification, verifyVars, buildVars
  <2> QED BY <1>8, <2>1
<1> QED
  BY <1>3, <1>4, <1>5, <1>6, <1>7, <1>9, <1>10, <1>11, <1>12 DEF VerifyNext, BuildStep

LEMMA SeamsHold == VerifySpec => [](BuildInv /\ SeamsInv)
<1>1. VerifyInit => BuildInv /\ SeamsInv
  <2> SUFFICES ASSUME VerifyInit PROVE BuildInv /\ SeamsInv
    OBVIOUS
  <2>1. BuildInit
    BY DEF VerifyInit
  <2>2. BuildInv
    BY <2>1, BuildInvInit
  <2>3. asking = "no" /\ phase = "cut" /\ call = NoCall /\ stage = "idle"
    BY <2>1 DEF BuildInit, SimplifyInit, DecimateInit
  <2>4. Wanders
    BY <2>3 DEF Wanders, NoCall
  <2>5. Answers /\ Seating /\ Settled
    BY <2>3 DEF Answers, Seating, Settled
  <2> QED BY <2>2, <2>4, <2>5 DEF SeamsInv
<1>2. BuildInv /\ SeamsInv /\ [VerifyNext]_verifyVars => (BuildInv /\ SeamsInv)'
  BY VerifyStep, SeamsStep
<1> QED BY <1>1, <1>2, PTL DEF VerifySpec

\* A vertex of the cut that is on a plane of the finest level, in a cell of any level above its
\* own: where that level shows it and where the finest one does.
LEMMA CutIsShown ==
    ASSUME Covered, Seating, phase # "cut", NEW task, IsTask(task), NEW t \in Group(task),
           NEW v \in DOMAIN fragments[task.id][t].points, OnAPlane(fragments[task.id][t].points[v]),
           NEW a \in Axes
    PROVE  LET p == fragments[task.id][t].points[v]
           IN  SameOrHalf(Shown(p, task.level, MortonEncode(task.triple))[a],
                          Shown(p, 0, MortonEncode(t))[a], p[a], a, task.level)
<1> DEFINE p == fragments[task.id][t].points[v]
           level == task.level
           last == input.levels - 1
<1>1. /\ task.id \in Ids /\ level \in Levels /\ level \in Nat /\ task.triple \in Coded
      /\ Fragments(fragments[task.id]) /\ SeatedIn(fragments[task.id], input.levels)
  BY TaskTyped DEF Seating
<1>2. last \in Nat /\ level <= last
  BY <1>1, BuildAssumption DEF Covered, Levels
<1>3. t \in DOMAIN fragments[task.id] /\ t \in Coded /\ task.triple = CoarseOf(t, level)
  BY <1>1 DEF Group, Fragments
<1>4. p \in Point /\ Seated(p, t, input.levels)
  BY <1>1, <1>3 DEF SeatedIn
<1>5. t[a] \in Nat /\ p[a] \in Int /\ CellSize[a] \in Nat \ {0} /\ task.triple[a] = t[a] \div 2 ^ level
  BY <1>3, <1>4, CodedTyped, StepTyped DEF CoarseOf, Point
<1>6. t[a] * CellSize[a] <= p[a] /\ p[a] <= (t[a] + 1) * CellSize[a]
  <2>1. t[a] * CellSize[a] \in Int /\ (t[a] + 1) * CellSize[a] \in Int
    BY <1>5
  <2> QED BY <1>4, <1>5, <2>1 DEF Seated, InCell
<1>7. Multiple(p[a], CellSize[a]) \/ Multiple(p[a], Step(last)[a])
  BY <1>4 DEF Seated
<1>8. MortonDecode(MortonEncode(t)) = t /\ MortonDecode(MortonEncode(task.triple)) = task.triple
  BY <1>1, <1>3, MortonRoundTrip DEF Coded
<1> HIDE DEF p, level, last
<1>9. SameOrHalf(ShownAt(p[a], t[a] \div 2 ^ level, level, a), ShownAt(p[a], t[a], 0, a), p[a], a, level)
  BY <1>1, <1>2, <1>5, <1>6, <1>7, AxesAgree
<1>10. /\ Shown(p, level, MortonEncode(task.triple))[a] = ShownAt(p[a], task.triple[a], level, a)
       /\ Shown(p, 0, MortonEncode(t))[a] = ShownAt(p[a], t[a], 0, a)
  BY <1>8 DEF Shown, Decoded, Quantized, Origin, ShownAt
<1>11. SameOrHalf(Shown(p, level, MortonEncode(task.triple))[a], Shown(p, 0, MortonEncode(t))[a], p[a], a, level)
  BY <1>5, <1>9, <1>10
<1> QED
  BY <1>11 DEF p, level

\* One vertex of a piece, on a face of the piece's cell.
LEMMA OneSeamAgrees ==
    ASSUME BuildInv, SeamsInv, input.backend.name = "GREEDY", phase = "built",
           NEW key \in DOMAIN perLevel, NEW v \in OnPlanes(perLevel[key].points, Extent(key[1]), Exactly)
    PROVE  LET p == perLevel[key].points[v]
           IN  \E fine \in FinestKeys(key[3]) :
                  /\ p \in Positions(perLevel[fine].points)
                  /\ \A a \in Axes :
                        LET gap == Abs(Shown(p, key[1], key[2])[a] - Shown(p, 0, fine[2])[a])
                        IN  gap = 0 \/ (OffLattice(p[a], a, key[1]) /\ 2 * gap <= Step(key[1])[a])
<1> DEFINE p == perLevel[key].points[v]
<1>0. Covered /\ Seating /\ Settled
  BY DEF BuildInv, SeamsInv
<1>1. PICK task : IsTask(task) /\ key = KeyOf(task)
  BY <1>0 DEF Covered
<1>2. key[1] = task.level /\ key[2] = MortonEncode(task.triple) /\ key[3] = task.id
  BY <1>1 DEF KeyOf
<1>3. /\ task.id \in Ids /\ task.level \in Nat /\ task.triple \in Coded /\ Fragments(fragments[task.id])
      /\ SeatedIn(fragments[task.id], input.levels)
  BY <1>0, <1>1, TaskTyped DEF Seating
<1>4. v \in DOMAIN perLevel[key].points /\ p \in Point
  <2>1. v \in DOMAIN perLevel[key].points
    BY DEF OnPlanes
  <2> QED BY <1>0, <2>1 DEF Covered, Whole, IsMesh
<1>5. Settles(task, perLevel[key])
  BY <1>0, <1>1 DEF Settled
<1>6. PICK b \in Axes : OffPlane(p[b], Extent(task.level)[b]) < 1
  BY <1>2 DEF OnPlanes, Exactly
<1>7. PICK m \in Int : p[b] = m * Extent(task.level)[b]
  <2> DEFINE wide == Extent(task.level)[b]
  <2>1. p[b] \in Int /\ wide \in Nat \ {0}
    BY <1>3, <1>4, StepTyped DEF Point
  <2> HIDE DEF wide, p
  <2>2. OffPlane(p[b], wide) \in Nat /\ Rint(p[b], wide) \in Int /\ Nearest(p[b], wide) \in Int
    BY <2>1, NearestIsNearest
  <2>3. OffPlane(p[b], wide) = 0
    BY <1>6, <2>2 DEF wide
  <2>4. p[b] = Nearest(p[b], wide)
    BY <2>1, <2>2, <2>3 DEF OffPlane, Abs
  <2>5. p[b] = Rint(p[b], wide) * wide
    BY <2>4 DEF Nearest
  <2> QED BY <2>2, <2>5 DEF wide
<1> HIDE DEF p
<1>8. ~Inside(p, task.triple, task.level)
  <2>1. /\ p[b] \in Int /\ Extent(task.level)[b] \in Nat \ {0} /\ task.triple[b] \in Int
    BY <1>3, <1>4, StepTyped, CodedTyped DEF Point
  <2>2. ~(task.triple[b] * Extent(task.level)[b] < p[b] /\ p[b] < (task.triple[b] + 1) * Extent(task.level)[b])
    BY <1>7, <2>1, PlanesAreOutside
  <2> QED BY <2>2 DEF Inside
<1>9. CutPoint(task.id, Group(task), p)
  BY <1>4, <1>5, <1>8 DEF Settles, p
<1>10. PICK t \in Group(task) : \E w \in DOMAIN fragments[task.id][t].points : p = fragments[task.id][t].points[w]
  BY <1>9 DEF CutPoint
<1>11. PICK w \in DOMAIN fragments[task.id][t].points : p = fragments[task.id][t].points[w]
  BY <1>10
<1>12. OnAPlane(p)
  <2>1. Extent(task.level)[b] = CellSize[b] * 2 ^ task.level /\ CellSize[b] \in Nat /\ 2 ^ task.level \in Nat
    BY <1>3, StepTyped, Powers DEF Extent
  <2>2. p[b] = (m * 2 ^ task.level) * CellSize[b] /\ m * 2 ^ task.level \in Int
    BY <1>7, <2>1
  <2> QED BY <2>2 DEF OnAPlane, Multiple
<1> DEFINE finest == Task(task.id, 0, t)
           fine == KeyOf(finest)
<1>13. t \in DOMAIN fragments[task.id] /\ t \in Coded
  BY <1>3 DEF Group, Fragments
<1>14. /\ 0 \in Levels /\ finest.triple = t /\ finest.id = task.id /\ finest.level = 0 /\ IsTask(finest)
       /\ fine \in DOMAIN perLevel
  <2>1. 0 \in Levels
    BY <1>0, BuildAssumption DEF Covered, Levels
  <2>2. finest.triple = t
    BY <1>3, <1>13, FinestPiece
  <2>3. IsTask(finest)
    BY <1>3, <1>13, <2>1 DEF IsTask
  <2>4. fine \in DOMAIN perLevel
    BY <1>0, <1>3, <1>13, <2>1 DEF Covered
  <2> QED BY <2>1, <2>2, <2>3, <2>4 DEF Task
<1>15. fine[1] = 0 /\ fine[2] = MortonEncode(t) /\ fine[3] = task.id
  BY <1>14 DEF KeyOf
<1>16. perLevel[fine].points = fragments[task.id][t].points
  <2>1. Settles(finest, perLevel[fine])
    BY <1>0, <1>14 DEF Settled
  <2> QED BY <1>14, <2>1 DEF Settles
<1> HIDE DEF fine, finest
<1>17. fine \in FinestKeys(key[3]) /\ p \in Positions(perLevel[fine].points)
  BY <1>2, <1>11, <1>14, <1>15, <1>16 DEF FinestKeys, Positions
<1>18. ASSUME NEW a \in Axes
       PROVE  SameOrHalf(Shown(p, key[1], key[2])[a], Shown(p, 0, fine[2])[a], p[a], a, key[1])
  BY <1>0, <1>1, <1>2, <1>11, <1>12, <1>15, CutIsShown
<1> QED
  BY <1>17, <1>18 DEF SameOrHalf, p

\* boundary: LOCKED, of a greedy build: whatever its cells, lattices, levels and targets, a vertex
\* that a coarse piece has on a face of its cell is one of the finest level's, and both levels
\* decode it to the same place, up to half a step where it is off the coarser lattice.
THEOREM GreedySeamsAgree == VerifySpec => [](input.backend.name = "GREEDY" => SeamsAgree)
<1>1. BuildInv /\ SeamsInv => (input.backend.name = "GREEDY" => SeamsAgree)
  BY OneSeamAgrees DEF SeamsAgree
<1> QED BY <1>1, SeamsHold, PTL

\* Whatever the backend makes of the pieces: a vertex of the cut on a plane of the finest level,
\* held in a cell of some level, is shown there where the finest level shows it.
CutsAreShownAlike ==
    phase # "cut" =>
       \A task : IsTask(task) =>
          \A t \in Group(task) : \A v \in DOMAIN fragments[task.id][t].points : \A a \in Axes :
             LET p == fragments[task.id][t].points[v]
             IN  OnAPlane(p) =>
                    SameOrHalf(Shown(p, task.level, MortonEncode(task.triple))[a],
                               Shown(p, 0, MortonEncode(t))[a], p[a], a, task.level)

\* Snapping to the coarsest lattice serves all levels at once (geometry.snap_boundary): what it
\* puts on a plane, every level's lattice shows at one place, or half a step away where the plane
\* is in the middle of a coarser cell, before any backend is asked.
THEOREM SnappingServesAllLevels == VerifySpec => []CutsAreShownAlike
<1>1. BuildInv /\ SeamsInv => CutsAreShownAlike
  <2> SUFFICES ASSUME BuildInv, SeamsInv, phase # "cut", NEW task, IsTask(task), NEW t \in Group(task),
                      NEW v \in DOMAIN fragments[task.id][t].points, NEW a \in Axes,
                      OnAPlane(fragments[task.id][t].points[v])
               PROVE  LET p == fragments[task.id][t].points[v]
                      IN  SameOrHalf(Shown(p, task.level, MortonEncode(task.triple))[a],
                                     Shown(p, 0, MortonEncode(t))[a], p[a], a, task.level)
    BY DEF CutsAreShownAlike
  <2>1. Covered /\ Seating
    BY DEF BuildInv, SeamsInv
  <2> QED BY <2>1, CutIsShown
<1> QED BY <1>1, SeamsHold, PTL
=============================================================================
