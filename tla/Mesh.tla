--------------------------------- MODULE Mesh ---------------------------------
(***************************************************************************)
(* Triangle meshes over whole coordinates.  A mesh is the sequence of its  *)
(* points, <<x, y, z>>, and the sequence of its faces, each the three      *)
(* places of its corners in the points, counted from 1.                    *)
(***************************************************************************)
EXTENDS Integers, Sequences, FiniteSets, FiniteSetsExt

Axes == 1 .. 3

Point == [Axes -> Int]

Face == [Axes -> Nat \ {0}]

Abs(n) == IF n < 0 THEN -n ELSE n

\* How far two points are apart, along the axis on which it is most.
Distance(p, q) == Max({Abs(p[a] - q[a]) : a \in Axes})

SquaredLength(p, q) ==
    (p[1] - q[1]) * (p[1] - q[1]) + (p[2] - q[2]) * (p[2] - q[2]) + (p[3] - q[3]) * (p[3] - q[3])

\* 0.5 * (p + q), rounded down to the unit of the coordinates.
Midpoint(p, q) == [a \in Axes |-> (p[a] + q[a]) \div 2]

Corners(face) == {face[a] : a \in Axes}

\* The three corners are different.
Proper(face) == face[1] # face[2] /\ face[2] # face[3] /\ face[1] # face[3]

\* An edge, its lower end first (np.sort along the axis).
Side(a, b) == IF a < b THEN <<a, b>> ELSE <<b, a>>

Sides(face) == {Side(face[1], face[2]), Side(face[2], face[3]), Side(face[3], face[1])}

\* np.unique of the edges.
Edges(faces) == UNION {Sides(faces[f]) : f \in DOMAIN faces}

Used(faces) == UNION {Corners(faces[f]) : f \in DOMAIN faces}

IsMesh(mesh) ==
    /\ mesh.points \in Seq(Point)
    /\ mesh.faces \in Seq(Face)
    /\ Used(mesh.faces) \subseteq DOMAIN mesh.points

\* border_vertices: the ends of the edges with one triangle.
BorderVertices(faces) ==
    UNION {{edge[1], edge[2]} : edge \in
              {e \in Edges(faces) : Cardinality({f \in DOMAIN faces : e \in Sides(faces[f])}) = 1}}

\* Where n stands among the members of a set of numbers, and the member that stands there.
Rank(S, n) == Cardinality({m \in S : m <= n})
InOrder(S) == [i \in 1 .. Cardinality(S) |-> CHOOSE n \in S : Rank(S, n) = i]

\* A sequence under a mask: what it has at some of its places, in their order.
Masked(list, kept) == LET order == InOrder(kept) IN [i \in DOMAIN order |-> list[order[i]]]

Renamed(faces, name(_)) == [f \in DOMAIN faces |-> [a \in Axes |-> name(faces[f][a])]]

\* The points in `kept`, and faces that know them by their new places (np.unique and remap).
Compacted(points, faces, kept) ==
    [points |-> Masked(points, kept), faces |-> Renamed(faces, LAMBDA v : Rank(kept, v))]

ProperFaces(faces) == Masked(faces, {f \in DOMAIN faces : Proper(faces[f])})

\* The positions of a face's corners.
Placed(mesh, f) == [a \in Axes |-> mesh.points[mesh.faces[f][a]]]

\* np.cross of two sides of a face is zero.
Flat(points, face) ==
    LET u == [a \in Axes |-> points[face[2]][a] - points[face[1]][a]]
        v == [a \in Axes |-> points[face[3]][a] - points[face[1]][a]]
    IN  /\ u[2] * v[3] = u[3] * v[2]
        /\ u[3] * v[1] = u[1] * v[3]
        /\ u[1] * v[2] = u[2] * v[1]
=============================================================================
