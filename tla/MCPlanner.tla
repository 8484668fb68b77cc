------------------------------ MODULE MCPlanner -------------------------------
(***************************************************************************)
(* An octree of three levels and eight cells, in two axes: two coarsest    *)
(* cells, one with two children that have one or two cells below them, one *)
(* whose only child has nothing below it.                                  *)
(*                                                                         *)
(* MCFilterCalls ask for every set of cells and every set of good ones,    *)
(* with the budgets around which the plan changes; MCViewCalls for boxes   *)
(* and frustums.  MCNestedBounds holds every cell in the bounds of the one *)
(* above it.  In MCDecimatedBounds the decimated surface of a cell in the  *)
(* middle has pulled back from both ends of x, as that of a smooth surface *)
(* does.                                                                   *)
(***************************************************************************)
EXTENDS Visibility

MCTop == 2

MCMask ==
    [key \in {<<2, 0>>, <<2, 1>>, <<1, 0>>, <<1, 1>>, <<1, 8>>, <<0, 0>>, <<0, 1>>, <<0, 9>>} |->
        CASE key = <<2, 0>> -> {0, 1}
          [] key = <<2, 1>> -> {0}
          [] key = <<1, 0>> -> {0, 1}
          [] key = <<1, 1>> -> {1}
          [] OTHER -> {}]

MCCatalog == DOMAIN MCMask

MCFits == SUBSET {key \in MCCatalog : key[1] > 0}

MCQueries == [wanted : SUBSET MCCatalog, fits : MCFits,
              minLevel : {0, 1}, maxCells : {1, 3, 4, NoLimit}]

MCAxes == {"x", "y"}
MCSpace == 0 .. 10

XY(a, b) == [x |-> a, y |-> b]
Bound(x1, x2, y1, y2) == [low |-> XY(x1, y1), high |-> XY(x2, y2)]

MCNestedBounds ==
    [key \in MCCatalog |->
        CASE key = <<0, 0>> -> Bound(0, 2, 0, 2)
          [] key = <<0, 1>> -> Bound(2, 4, 1, 3)
          [] key = <<0, 9>> -> Bound(6, 8, 2, 4)
          [] key = <<1, 0>> -> Bound(0, 4, 0, 3)
          [] key = <<1, 1>> -> Bound(6, 8, 2, 4)
          [] key = <<1, 8>> -> Bound(8, 10, 0, 1)
          [] key = <<2, 0>> -> Bound(0, 8, 0, 4)
          [] key = <<2, 1>> -> Bound(8, 10, 0, 1)]

MCDecimatedBounds == [MCNestedBounds EXCEPT ![<<1, 0>>] = Bound(1, 3, 0, 3)]

\* Half-planes through the cells, straight and slanted.
Planes == {[normal |-> XY(1, 0), offset |-> -4], [normal |-> XY(-1, 0), offset |-> 0],
           [normal |-> XY(1, -1), offset |-> -2], [normal |-> XY(-1, 1), offset |-> 0]}

Frustums == {{}} \cup {{p, q} : p \in Planes, q \in Planes}

Boxes == {Bound(x[1], x[2], y[1], y[2]) : x \in {<<0, 10>>, <<3, 3>>, <<4, 8>>},
                                          y \in {<<0, 4>>, <<3, 4>>}}

Everything == Bound(0, 10, 0, 4)

MCFilterCalls ==
    [view : [box : {Everything}, planes : {{}}, allowed : SUBSET MCCatalog],
     fits : MCFits, minLevel : {0, 1}, maxCells : {1, 3, 4, NoLimit}]

MCViewCalls ==
    [view : [box : Boxes, planes : Frustums, allowed : {MCCatalog, MCCatalog \ {<<0, 1>>}}],
     fits : {{}, {<<1, 0>>}}, minLevel : {0}, maxCells : {3, NoLimit}]

MCCalls == MCFilterCalls \cup MCViewCalls

\* No box and no objects, only a frustum.
MCFrustumCalls ==
    [view : [box : {Everything}, planes : Frustums, allowed : {MCCatalog}],
     fits : {{}}, minLevel : {0}, maxCells : {NoLimit}]
=============================================================================
