-------------------------------- MODULE MCBuild --------------------------------
(***************************************************************************)
(* Small collections: cells of 30 units a side, divided into 15 steps of   *)
(* two, or four at level 1 and eight at level 2.                           *)
(***************************************************************************)
EXTENDS Verify

MCCellSize == <<30, 30, 30>>

\* A strip of six triangles that touches the plane x = 0 at one corner, the shortest edge next to it.
Strip ==
    [points |-> <<<<0, 10, 10>>, <<10, 14, 10>>, <<10, 12, 14>>, <<18, 6, 12>>,
                  <<19, 19, 12>>, <<25, 9, 20>>, <<25, 20, 22>>, <<22, 14, 25>>>>,
     faces |-> <<<<1, 2, 3>>, <<2, 3, 4>>, <<3, 4, 5>>, <<4, 5, 6>>, <<5, 6, 7>>, <<6, 7, 8>>>>]

\* As few faces as the floor.
Tetrahedron ==
    [points |-> <<<<6, 6, 6>>, <<13, 6, 7>>, <<7, 14, 6>>, <<8, 8, 12>>>>,
     faces |-> <<<<1, 3, 2>>, <<1, 2, 4>>, <<2, 3, 4>>, <<3, 1, 4>>>>]

\* A sheet over the planes x = 30, of level 0, and x = 60, of level 1, one of its vertices on
\* the level-0 plane y = 30 too.
Sheet ==
    [points |-> <<<<20, 10, 10>>, <<30, 7, 9>>, <<30, 15, 13>>, <<22, 20, 15>>, <<40, 9, 10>>,
                  <<41, 18, 14>>, <<60, 30, 11>>, <<60, 19, 13>>, <<70, 14, 12>>>>,
     faces |-> <<<<1, 2, 3>>, <<1, 3, 4>>, <<2, 5, 3>>, <<5, 6, 3>>, <<5, 7, 6>>, <<7, 8, 6>>, <<7, 9, 8>>>>]

\* A closed surface tangent to the plane x = 60 of level 1.
Octahedron ==
    [points |-> <<<<60, 14, 14>>, <<80, 15, 15>>, <<70, 6, 14>>, <<71, 24, 15>>, <<70, 15, 7>>, <<72, 14, 26>>>>,
     faces |-> <<<<1, 5, 3>>, <<1, 4, 5>>, <<1, 6, 4>>, <<1, 3, 6>>, <<2, 3, 5>>, <<2, 5, 4>>, <<2, 4, 6>>, <<2, 6, 3>>>>]

\* A closed surface of long edges in a single cell: a collapse takes a vertex a long way.
Ball ==
    [points |-> <<<<3, 15, 15>>, <<27, 15, 15>>, <<15, 3, 15>>, <<15, 27, 15>>, <<15, 15, 3>>, <<15, 15, 27>>>>,
     faces |-> Octahedron.faces]

\* Five faces on one short edge: its collapse leaves nothing.
Book ==
    [points |-> <<<<10, 10, 10>>, <<12, 10, 10>>, <<10, 20, 10>>, <<10, 10, 21>>, <<11, 18, 18>>,
                  <<12, 6, 17>>, <<12, 19, 6>>>>,
     faces |-> <<<<1, 2, 3>>, <<1, 2, 4>>, <<1, 2, 5>>, <<1, 2, 6>>, <<1, 2, 7>>>>]

\* A spine in the plane x = 60 of level 1, pinned there and free at level 2, where it takes all of
\* the six faces with it.
Spine ==
    [points |-> <<<<42, 16, 22>>, <<41, 13, 21>>, <<43, 20, 20>>, <<40, 10, 20>>, <<44, 19, 21>>,
                  <<78, 16, 22>>, <<60, 16, 16>>, <<60, 16, 30>>>>,
     faces |-> [f \in 1 .. 6 |-> <<7, 8, f>>]]

\* Closed, with its shortest edge across the way to the plane x = 0.
Spike ==
    [points |-> <<<<5, 6, 6>>, <<21, 6, 6>>, <<20, 25, 6>>, <<19, 6, 25>>, <<22, 25, 25>>>>,
     faces |-> <<<<1, 2, 3>>, <<1, 3, 4>>, <<1, 4, 2>>, <<5, 3, 2>>, <<5, 4, 3>>, <<5, 2, 4>>>>]

\* Twenty faces with every corner in one of the planes x = 0 and y = 0.
Curtain ==
    [points |-> [v \in 1 .. 22 |->
                    LET across == 8 + 4 * ((7 * v) % 5)
                        along  == 8 + 4 * ((v * v + v \div 3) % 5)
                    IN  IF v % 2 = 0 THEN <<0, across, along>> ELSE <<across, 0, along>>],
     faces |-> [f \in 1 .. 20 |-> <<f, f + 1, f + 2>>]]

\* In a level-0 plane: no cell has it.
Flake == [points |-> <<<<30, 6, 6>>, <<30, 14, 6>>, <<30, 6, 14>>>>, faces |-> <<<<1, 2, 3>>>>]

\* In two cells, with a face whose shortest edge the lattice has no room for.
Splinter ==
    [points |-> <<<<20, 8, 10>>, <<20, 9, 10>>, <<30, 8, 10>>, <<30, 16, 14>>, <<40, 9, 10>>>>,
     faces |-> <<<<1, 3, 4>>, <<1, 4, 2>>, <<3, 5, 4>>>>]

\* The same in two cells, but the far end of the face that is lost has no other.
Barb ==
    [points |-> <<<<20, 8, 10>>, <<20, 9, 10>>, <<30, 8, 10>>, <<30, 16, 14>>, <<40, 9, 10>>, <<12, 20, 20>>>>,
     faces |-> <<<<1, 3, 4>>, <<1, 6, 2>>, <<3, 5, 4>>>>]

\* One thin open triangle, in a cell of which level 1 shows every fourth unit: its first corner is
\* shown outside of it.
Sliver == [points |-> <<<<10, 10, 10>>, <<26, 10, 10>>, <<26, 12, 10>>>>, faces |-> <<<<1, 2, 3>>>>]

Greedy1 == [name |-> "GREEDY", interval |-> 1, placement |-> "midpoint"]
Greedy2 == [name |-> "GREEDY", interval |-> 2, placement |-> "onto_fixed"]
Quadric == [name |-> "QUADRIC", interval |-> 1, placement |-> "midpoint"]

MCInputs ==
    {[objects |-> (7 :> Strip) @@ (3 :> Tetrahedron), levels |-> 2, backend |-> Greedy1, ratio |-> 4],
     [objects |-> (7 :> Strip) @@ (9 :> Sheet), levels |-> 2, backend |-> Greedy2, ratio |-> 4],
     [objects |-> (2 :> Sheet), levels |-> 3, backend |-> Greedy1, ratio |-> 2],
     [objects |-> (1 :> Ball) @@ (2 :> Tetrahedron), levels |-> 2, backend |-> Greedy1, ratio |-> 2],
     [objects |-> 1 :> Sliver, levels |-> 2, backend |-> Greedy1, ratio |-> 2],
     [objects |-> (2 :> Octahedron) @@ (3 :> Flake), levels |-> 2, backend |-> Quadric, ratio |-> 2],
     [objects |-> (4 :> Sheet) @@ (5 :> Tetrahedron), levels |-> 2, backend |-> Quadric, ratio |-> 4],
     [objects |-> (1 :> Book) @@ (2 :> Octahedron), levels |-> 2, backend |-> Greedy1, ratio |-> 4],
     [objects |-> 1 :> Spine, levels |-> 3, backend |-> Greedy1, ratio |-> 4],
     [objects |-> (1 :> Splinter) @@ (2 :> Tetrahedron), levels |-> 2, backend |-> Greedy1, ratio |-> 2],
     [objects |-> (1 :> Barb) @@ (2 :> Flake), levels |-> 2, backend |-> Greedy1, ratio |-> 2],
     [objects |-> 1 :> Flake, levels |-> 2, backend |-> Greedy1, ratio |-> 2],
     [objects |-> 1 :> Spike, levels |-> 2, backend |-> Quadric, ratio |-> 2],
     [objects |-> 1 :> Curtain, levels |-> 2, backend |-> Greedy1, ratio |-> 4],
     [objects |-> 1 :> Curtain, levels |-> 2, backend |-> Quadric, ratio |-> 4]}
=============================================================================
