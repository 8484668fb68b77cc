-------------------------------- MODULE Lattice --------------------------------
(***************************************************************************)
(* The octree's codes and boxes (octree.py), and the lattices on which     *)
(* each level keeps positions (codecs/blobs.py, geometry.snap_boundary).   *)
(*                                                                         *)
(* A level divides each side of its cells into QuantMax steps.  QuantMax   *)
(* is odd, so a cell face in the middle of a coarser cell is not on that   *)
(* cell's lattice.  Coordinates are in a unit of which every step is a     *)
(* multiple.                                                               *)
(***************************************************************************)
EXTENDS Mesh

CONSTANTS MortonBits,  \* MORTON_BITS
          QuantMax,    \* QUANT_MAX
          CellSize     \* the sides of a cell of level 0

ASSUME LatticeAssumption ==
    /\ MortonBits \in Nat \ {0}
    /\ QuantMax \in Nat /\ QuantMax % 2 = 1
    /\ CellSize \in [Axes -> Nat \ {0}]
    /\ \A a \in Axes : CellSize[a] % QuantMax = 0

-----------------------------------------------------------------------------
Bits == 0 .. MortonBits - 1

Bit(n, b) == (n \div 2 ^ b) % 2

\* _spread_bits.
Spread(n) == MapThenSumSet(LAMBDA b : Bit(n, b) * 2 ^ (3 * b), Bits)

\* morton_encode raises for anything else.
Encodable(triple) == \A a \in Axes : triple[a] \in 0 .. 2 ^ MortonBits - 1

MortonEncode(triple) == Spread(triple[1]) + 2 * Spread(triple[2]) + 4 * Spread(triple[3])

MortonDecode(code) == [a \in Axes |-> MapThenSumSet(LAMBDA b : Bit(code, 3 * b + a - 1) * 2 ^ b, Bits)]

Octants == 0 .. 7

\* Where the child in an octant of a cell is.
Child(triple, octant) == [a \in Axes |-> 2 * triple[a] + Bit(octant, a - 1)]

Extent(level) == [a \in Axes |-> CellSize[a] * 2 ^ level]

Step(level) == [a \in Axes |-> Extent(level)[a] \div QuantMax]

\* The longest side of a step, in which errors and tolerances are measured.
Quantum(level) == Max({Step(level)[a] : a \in Axes})

Origin(cell, level) == [a \in Axes |-> MortonDecode(cell)[a] * Extent(level)[a]]

-----------------------------------------------------------------------------
\* np.rint(n / d): the nearest whole number, the even one of two.
Rint(n, d) ==
    LET q == n \div d
        r == n % d
    IN  IF 2 * r < d \/ (2 * r = d /\ q % 2 = 0) THEN q ELSE q + 1

\* The multiple of d nearest to x.
Nearest(x, d) == Rint(x, d) * d

OffPlane(x, d) == Abs(x - Nearest(x, d))

\* A coordinate counts as on a cell face up to a whole step of the coarsest level away.
NearPlane(x, size, step) == OffPlane(x, size) <= step

\* A coordinate of a vertex on the boundary: on its plane, or on the coarsest lattice.
SnapCoordinate(x, size, step) == IF NearPlane(x, size, step) THEN Nearest(x, size) ELSE Nearest(x, step)

OnBoundary(p, step) == \E a \in Axes : NearPlane(p[a], CellSize[a], step[a])

\* A faulty snap that leaves the other two coordinates alone.
PinOnly(p, step) ==
    IF OnBoundary(p, step)
    THEN [a \in Axes |-> IF NearPlane(p[a], CellSize[a], step[a]) THEN Nearest(p[a], CellSize[a]) ELSE p[a]]
    ELSE p

\* snap_boundary of one vertex, for the coarsest level's step.
SnapPoint(p, step) ==
    IF OnBoundary(p, step) THEN [a \in Axes |-> SnapCoordinate(p[a], CellSize[a], step[a])] ELSE p

\* on_planes: the places of the points within `slack` of a face of cells of this extent.
OnPlanes(points, extent, slack) ==
    {v \in DOMAIN points : \E a \in Axes : OffPlane(points[v][a], extent[a]) < slack[a]}

\* Exactly on it: the tolerance is far below a unit.
Exactly == [a \in Axes |-> 1]

-----------------------------------------------------------------------------
\* encode_positions refuses a point more than half a step outside its cell.
Stray(p, cell, level) ==
    \E a \in Axes :
        LET x == p[a] - Origin(cell, level)[a]
        IN  2 * x < -Step(level)[a] \/ 2 * (x - Extent(level)[a]) > Step(level)[a]

Clipped(n) == IF n < 0 THEN 0 ELSE IF n > QuantMax THEN QuantMax ELSE n

\* encode_positions and decode_positions of one coordinate of a cell.
QuantizedAt(x, origin, step) == Clipped(Rint(x - origin, step))
DecodedAt(q, origin, step) == origin + q * step

Quantized(p, cell, level) == [a \in Axes |-> QuantizedAt(p[a], Origin(cell, level)[a], Step(level)[a])]
Decoded(q, cell, level) == [a \in Axes |-> DecodedAt(q[a], Origin(cell, level)[a], Step(level)[a])]
=============================================================================
