--------------------------------- MODULE Verify --------------------------------
(***************************************************************************)
(* verify.verify over a written collection: what it asks of the manifest   *)
(* and the catalogs (structure), of every row (blobs), and of one level    *)
(* against another (geometry), with what it reads through (reader.py).     *)
(*                                                                         *)
(* Between the write and the verification one thing may have gone wrong    *)
(* with the collection: Tamper is the storage's, or another writer's.      *)
(***************************************************************************)
EXTENDS Build

CONSTANT CandidateFaces    \* _CANDIDATE_FACES

ASSUME VerifyAssumption == CandidateFaces \in Nat \ {0}

VARIABLES fault,   \* what has gone wrong, "none" if nothing
          report   \* the tier that was asked for, and the names of the checks that failed

verifyVars == <<simplifyVars, buildVars, fault, report>>

Tiers == <<"structure", "blobs", "geometry">>

NoReport == [tier |-> 0, failures |-> {}]

-----------------------------------------------------------------------------
(* reader.py: a cell is read through its locator. *)

Cells == DOMAIN collection.cells

PartsNamed(level) == 0 .. Len(collection.files[level]) - 1

\* A part opens if it is there and ends where the manifest says.
Opens(level, part) ==
    /\ part \in PartsNamed(level)
    /\ <<level, part>> \in DOMAIN collection.parts
    /\ collection.parts[<<level, part>>].size = collection.files[level][part + 1].size

Unlocated(key) ==
    LET locator == collection.cells[key].locator
    IN  locator.part = Null \/ locator.rowGroup = Null

\* Collection.geometry: every row of a level, which fails without all of its parts.
LevelRows(level) ==
    IF \A part \in PartsNamed(level) : <<level, part>> \in DOMAIN collection.parts
    THEN FlattenSeq([p \in 1 .. Len(collection.files[level]) |->
                        FlattenSeq(collection.parts[<<level, p - 1>>].groups)])
    ELSE <<>>

\* Collection._table_for: the rows read for a cell, none where that raises.
TableFor(key) ==
    LET locator == collection.cells[key].locator
        groups  == collection.parts[<<key[1], locator.part>>].groups
    IN  IF Unlocated(key) THEN LevelRows(key[1])
        ELSE IF Opens(key[1], locator.part) /\ locator.rowGroup + 1 \in DOMAIN groups
             THEN groups[locator.rowGroup + 1]
             ELSE <<>>

\* Collection._decode finds the cell's row in the table.
Readable(key) == \E r \in DOMAIN TableFor(key) : TableFor(key)[r].cell = key[2]

\* Collection.read_cell, of a cell that can be read.
ReadCell(key) ==
    LET table == TableFor(key)
        row   == table[Min({r \in DOMAIN table : table[r].cell = key[2]})]
    IN  [points |-> [v \in DOMAIN row.positions |-> Decoded(row.positions[v], key[2], key[1])],
         faces |-> row.indices, ids |-> row.ids,
         vertexOffsets |-> row.vertexOffsets, indexOffsets |-> row.indexOffsets]

\* A faulty end, for which every object is the last.
StopAtTheEnd(offsets, i, total) == total

\* Where the i-th of some runs ends.
StopOf(offsets, i, total) == IF i = Len(offsets) THEN total ELSE offsets[i + 1]

\* s[from:to], which ends with s.
Slice(s, from, to) == SubSeq(s, from + 1, Min({to, Len(s)}))

\* DecodedCell.object_mesh: the i-th object's faces, counted from its own vertices.
ObjectSlice(decoded, i) ==
    LET from == decoded.vertexOffsets[i]
        to   == StopOf(decoded.vertexOffsets, i, Len(decoded.points))
        first == decoded.indexOffsets[i] \div 3
        last == StopOf(decoded.indexOffsets, i, 3 * Len(decoded.faces)) \div 3
    IN  [points |-> Slice(decoded.points, from, to),
         faces |-> Renamed(Slice(decoded.faces, first, last), LAMBDA v : v - from)]

\* Collection.cells_for_object, in the order of the cells.
CellsForObject(id, level) ==
    InOrder({key[2] : key \in {k \in collection.objects[id].cells \cap Cells : k[1] = level}})

\* Collection.object_mesh, before the weld: the pieces of an object at a level.
PiecesRead(id, level) ==
    LET cells  == CellsForObject(id, level)
        pieces == [c \in DOMAIN cells |->
                      LET decoded == ReadCell(<<level, cells[c]>>)
                      IN  ObjectSlice(decoded, CHOOSE i \in DOMAIN decoded.ids : decoded.ids[i] = id)]
    IN  Masked(pieces, {c \in DOMAIN pieces : pieces[c].faces # <<>>})

ObjectMesh(id, level) == Weld(PiecesRead(id, level))

Fits(mesh) == Used(mesh.faces) \subseteq DOMAIN mesh.points

\* It raises without a piece, without a cell's row, without the object in it, and where the
\* weld looks past its vertices; a single piece is not looked into.
ObjectReturns(id, level) ==
    /\ \A key \in collection.objects[id].cells \cap Cells :
          key[1] = level => Readable(key) /\ \E i \in DOMAIN ReadCell(key).ids : ReadCell(key).ids[i] = id
    /\ PiecesRead(id, level) # <<>>
    /\ Len(PiecesRead(id, level)) = 1 \/ Fits(Concatenated(PiecesRead(id, level)))

\* CellEntry.children: the cells that a mask names.
Claimed(key) == {ChildKey(key[1], key[2], octant) : octant \in collection.cells[key].childMask}

Claims(key) == IF key[1] = 0 THEN {} ELSE Claimed(key)

-----------------------------------------------------------------------------
(* structure *)

ManifestLevels == 0 .. collection.levels - 1

FilesExist ==
    \A level \in ManifestLevels : \A part \in PartsNamed(level) :
       <<level, part>> \in DOMAIN collection.parts

RecordedLengthsAreRight == \A level \in ManifestLevels : \A part \in PartsNamed(level) : Opens(level, part)

LevelsAreContiguous == \A level \in ManifestLevels : \E key \in Cells : key[1] = level

\* A faulty check that compares a mask only with itself: nothing it names is missing.
ChildMasksNameNoMore ==
    \A key \in Cells : Claims(key) \subseteq Cells

\* The children that exist are worked out from the octree, not from the mask.
ChildMasksNameWhatExists ==
    \A key \in Cells :
       IF key[1] = 0 THEN collection.cells[key].childMask = {}
       ELSE Claims(key) = {ChildKey(key[1], key[2], octant) : octant \in Octants} \cap Cells

ParentsDominate ==
    \A key \in Cells : \A child \in Claims(key) \cap Cells :
       collection.cells[child].lodError <= collection.cells[key].lodError

EveryCellIsLocated == \A key \in Cells : ~Unlocated(key)

LocatorsAreInRange ==
    \A key \in {k \in Cells : ~Unlocated(k)} :
       LET locator == collection.cells[key].locator
       IN  /\ locator.part \in PartsNamed(key[1])
           /\ locator.rowGroup < collection.files[key[1]][locator.part + 1].rowGroups

OrdinalsAreDense ==
    LET objects == collection.objects
    IN  {objects[id].ordinal : id \in DOMAIN objects} = 0 .. Cardinality(DOMAIN objects) - 1

ObjectsNameCellsThatExist == \A id \in DOMAIN collection.objects : collection.objects[id].cells \subseteq Cells

-----------------------------------------------------------------------------
(* blobs: every row that can be read *)

CountsAgree ==
    \A key \in Cells :
       /\ Readable(key)
       /\ Len(ReadCell(key).points) = collection.cells[key].vertexCount
       /\ 3 * Len(ReadCell(key).faces) = collection.cells[key].indexCount

ReadableCells == {key \in Cells : Readable(key)}

IndicesStayInside ==
    \A key \in ReadableCells : Used(ReadCell(key).faces) \subseteq DOMAIN ReadCell(key).points

Ascends(offsets, limit, count) ==
    /\ Len(offsets) = count
    /\ \A i \in 2 .. Len(offsets) : offsets[i - 1] <= offsets[i]
    /\ offsets # <<>> => offsets[1] = 0 /\ offsets[Len(offsets)] <= limit

\* _offset_problems.
OffsetsAscend ==
    \A key \in ReadableCells :
       LET decoded == ReadCell(key)
       IN  /\ Ascends(decoded.vertexOffsets, Len(decoded.points), Len(decoded.ids))
           /\ Ascends(decoded.indexOffsets, 3 * Len(decoded.faces), Len(decoded.ids))

\* _box_problems.
VerticesLieInTheirBox ==
    \A key \in ReadableCells : \A p \in Positions(ReadCell(key).points) : \A a \in Axes :
       p[a] - Origin(key[2], key[1])[a] \in -Quantum(key[1]) .. Extent(key[1])[a] + Quantum(key[1])

\* _identity_problems: whoever a cell holds names the cell.
CatalogsAgree ==
    \A key \in ReadableCells :
       LET ids == ReadCell(key).ids
       IN  /\ Len(ids) = collection.cells[key].objectCount
           /\ \A i \in 2 .. Len(ids) : ids[i - 1] <= ids[i]
           /\ \A i \in DOMAIN ids :
                 ids[i] \in DOMAIN collection.objects /\ key \in collection.objects[ids[i]].cells

-----------------------------------------------------------------------------
(* geometry: one level against another *)

FacesListed(level) ==
    MapThenSumSet(LAMBDA key : collection.cells[key].indexCount, {key \in Cells : key[1] = level}) \div 3

CoarseLevelsAreSmaller ==
    \A level \in 1 .. collection.levels - 1 : FacesListed(level) <= FacesListed(level - 1)

Unmatched(query, reference, tolerance) ==
    {p \in query : \A q \in reference : Distance(p, q) > tolerance}

\* The coarser cells that can be compared with all of those below them.
Comparable ==
    {key \in Cells : /\ key[1] > 0
                     /\ Claims(key) \cap Cells # {}
                     /\ {key} \cup (Claims(key) \cap Cells) \subseteq ReadableCells}

\* The positions within a step of the faces of a cell of this level.
OnFaces(points, level) == {points[v] : v \in OnPlanes(points, Extent(level), Step(level))}

OnCoarse(key) == OnFaces(ReadCell(key).points, key[1])
OnFine(key) == UNION {OnFaces(ReadCell(child).points, key[1]) : child \in Claims(key) \cap Cells}

\* _boundary_vertices_survive_decimation, each way.
NoneAppeared == \A key \in Comparable : Unmatched(OnCoarse(key), OnFine(key), 2 * Quantum(key[1])) = {}

NoneVanished == \A key \in Comparable : Unmatched(OnFine(key), OnCoarse(key), 2 * Quantum(key[1])) = {}

\* The sum of the corners of a face: three times its centroid.
CornerSum(at) == [a \in Axes |-> at[1][a] + at[2][a] + at[3][a]]

\* The faces a point is measured against: those with the nearest centroids.
Candidates(mesh, p) ==
    LET thrice == [a \in Axes |-> 3 * p[a]]
        far    == [f \in DOMAIN mesh.faces |-> SquaredLength(thrice, CornerSum(Placed(mesh, f)))]
        Before(f, own) == {g \in DOMAIN mesh.faces : far[g] < own \/ (g < f /\ far[g] = own)}
    IN  {f \in DOMAIN mesh.faces : Cardinality(Before(f, far[f])) < CandidateFaces}

\* A faulty clip: what is measured to is the plane of a face.
Unclipped(n, top) == n

\* np.clip from zero.
ClippedTo(n, top) == Min({Max({n, 0}), top})

\* The scalar product of two points as they are seen from a third.
Dot(from, p, q) ==
    (p[1] - from[1]) * (q[1] - from[1]) + (p[2] - from[2]) * (q[2] - from[2]) + (p[3] - from[3]) * (q[3] - from[3])

\* The barycentric coordinates of a point in a triangle, times their common denominator, each
\* clipped on its own.  With a triangle that is flat v and w are zero, whatever they are divided by.
Weights(at, p) ==
    LET d00 == Dot(at[1], at[2], at[2])
        d01 == Dot(at[1], at[2], at[3])
        d11 == Dot(at[1], at[3], at[3])
        d20 == Dot(at[1], p, at[2])
        d21 == Dot(at[1], p, at[3])
        denominator == Max({d00 * d11 - d01 * d01, 1})
        v == ClippedTo(d11 * d20 - d01 * d21, denominator)
        w == ClippedTo(d00 * d21 - d01 * d20, denominator)
    IN  <<ClippedTo(denominator - v - w, denominator), v, w>>

\* _point_to_faces, for one of the faces: the point of the triangle that has these weights, over
\* their total, is no further than the limit.
IsNear(at, p, limit) ==
    LET weights == Weights(at, p)
        total   == weights[1] + weights[2] + weights[3]
    IN  \A a \in Axes :
           Abs(weights[1] * (at[1][a] - p[a]) + weights[2] * (at[2][a] - p[a]) + weights[3] * (at[3][a] - p[a]))
              <= limit * total

\* The objects and levels whose surfaces are compared.
Compared ==
    {pair \in (DOMAIN collection.objects) \X (1 .. collection.levels - 1) :
        ObjectReturns(pair[1], 0) /\ ObjectReturns(pair[1], pair[2])}

\* The largest lod_error of the cells an object has at a level.
Budget(id, level) ==
    Max({collection.cells[key].lodError :
            key \in {k \in collection.objects[id].cells \cap Cells : k[1] = level}})

\* Their finest surface, with the points that are measured to it and the bound.  Without a finest
\* face there is no distance.
Measurements ==
    {m \in {[base |-> ObjectMesh(pair[1], 0),
             points |-> Positions(ObjectMesh(pair[1], pair[2]).points),
             limit |-> Budget(pair[1], pair[2])] : pair \in Compared} : m.base.faces # <<>>}

\* _lod_error_is_a_real_bound.
LodErrorIsABound ==
    \A m \in Measurements : \A p \in m.points : \E f \in DOMAIN m.base.faces :
       IsNear(Placed(m.base, f), p, m.limit) /\ f \in Candidates(m.base, p)

\* The distance to a finest face that looks past its vertices raises.
MeasureRaises == \E pair \in Compared : ~Fits(ObjectMesh(pair[1], 0))

-----------------------------------------------------------------------------
Structure ==
    [files |-> FilesExist, lengths |-> RecordedLengthsAreRight, levels |-> LevelsAreContiguous,
     masks |-> ChildMasksNameWhatExists, errors |-> ParentsDominate, located |-> EveryCellIsLocated,
     locators |-> LocatorsAreInRange, ordinals |-> OrdinalsAreDense, objects |-> ObjectsNameCellsThatExist]

Blobs ==
    [counts |-> CountsAgree, indices |-> IndicesStayInside, offsets |-> OffsetsAscend,
     boxes |-> VerticesLieInTheirBox, identity |-> CatalogsAgree]

Geometry ==
    [smaller |-> CoarseLevelsAreSmaller, appeared |-> NoneAppeared, vanished |-> NoneVanished,
     bound |-> LodErrorIsABound]

Failed(checks) == {name \in DOMAIN checks : ~checks[name]}

\* verify, at a tier: the checks of the tier and of those before it.
Failures(tier) ==
    Failed(Structure)
        \cup (IF tier > 1 THEN Failed(Blobs) ELSE {})
        \cup (IF tier > 2 THEN (IF MeasureRaises THEN {"raised"} ELSE Failed(Geometry)) ELSE {})

Verification(tier) ==
    /\ phase = "written"
    /\ report = NoReport
    /\ report' = [tier |-> tier, failures |-> Failures(tier)]
    /\ UNCHANGED <<simplifyVars, buildVars, fault>>

-----------------------------------------------------------------------------
(* What may have gone wrong, and the tier that is to find it. *)

TierOf ==
    [mask |-> 1, cell |-> 1, level |-> 1, locator |-> 1, ordinal |-> 1, error |-> 1, part |-> 1,
     length |-> 1, place |-> 2, object |-> 2, count |-> 2, index |-> 2, offset |-> 2, stranger |-> 2,
     drift |-> 3]

\* The collection is another from here on.
Tamper(kind, other) == fault' = kind /\ collection' = other

Toggled(S, x) == IF x \in S THEN S \ {x} ELSE S \cup {x}

\* A row of the cell catalog is wrong, or lost.
TamperCell(key) ==
    \/ \E octant \in Octants :
          Tamper("mask", [collection EXCEPT !.cells[key].childMask = Toggled(@, octant)])
    \/ Tamper("cell", [collection EXCEPT !.cells = Restrict(@, Cells \ {key})])
    \/ Tamper("locator", [collection EXCEPT !.cells[key].locator = NoLocator])
    \/ \E other \in Cells :
          /\ other[1] = key[1]
          /\ LET locator == collection.cells[other].locator
                 own     == collection.cells[key].locator
             IN  <<locator.part, locator.rowGroup>> # <<own.part, own.rowGroup>>
          /\ Tamper("place", [collection EXCEPT !.cells[key].locator = collection.cells[other].locator])
    \/ Tamper("place", [collection EXCEPT !.cells[key].locator.rowGroup = @ + 1])
    \/ \E above \in {k \in Cells : key \in Claims(k)} :
          Tamper("error", [collection EXCEPT !.cells[key].lodError = collection.cells[above].lodError + 1])
    \/ Tamper("count", [collection EXCEPT !.cells[key].vertexCount = @ + 1])

\* The coarsest level is lost, with what names it.
LoseLevel ==
    LET kept == {key \in Cells : key[1] < collection.levels - 1}
    IN  Tamper("level", [collection EXCEPT !.cells = Restrict(@, kept),
                            !.objects = [id \in DOMAIN collection.objects |->
                                [collection.objects[id] EXCEPT !.cells = @ \cap kept]]])

\* A row of the object catalog is wrong.
TamperObject(id) ==
    \/ Tamper("ordinal", [collection EXCEPT !.objects[id].ordinal = @ + 1])
    \/ \E key \in collection.objects[id].cells :
          Tamper("object", [collection EXCEPT !.objects[id].cells = @ \ {key}])

\* A part is gone, or not as long as the manifest says.
TamperPart(key) ==
    \/ Tamper("part", [collection EXCEPT !.parts = Restrict(@, DOMAIN @ \ {key})])
    \/ Tamper("length", [collection EXCEPT !.files[key[1]][key[2] + 1].size = @ + 1])

\* A vertex of a coarse cell that some vertex below it has as its only match.
OnlyMatch(key, v) ==
    \E q \in OnFine(key) :
       {w \in DOMAIN ReadCell(key).points : Distance(ReadCell(key).points[w], q) <= 2 * Quantum(key[1])} = {v}

\* No object, or one that does not name the cell.
Strangers(key) ==
    {id \in {0} \cup DOMAIN collection.objects :
        id \in DOMAIN collection.objects => key \notin collection.objects[id].cells}

\* A geometry row is wrong.  A vertex drifts from the boundary by half a cell, where that is beyond
\* what the check allows on both sides.
TamperRow(key, g, r) ==
    LET row == collection.parts[key].groups[g][r]
        Changed(kind, other) == Tamper(kind, [collection EXCEPT !.parts[key].groups[g][r] = other])
    IN  \/ \E f \in DOMAIN row.indices :
              Changed("index", [row EXCEPT !.indices[f][3] = Len(row.positions) + 1])
        \/ Changed("offset", [row EXCEPT !.indexOffsets[1] = 3])
        \/ Changed("offset", [row EXCEPT !.indexOffsets[Len(row.ids)] = 3 * Len(row.indices) + 3])
        \/ \E id \in Strangers(<<row.level, row.cell>>) : Changed("stranger", [row EXCEPT !.ids[1] = id])
        \/ \E v \in DOMAIN row.positions : \E a \in Axes :
              /\ row.level > 0
              /\ row.positions[v][a] \in {0, QuantMax}
              /\ 4 * Quantum(row.level) < (QuantMax \div 2) * Step(row.level)[a]
              /\ OnlyMatch(<<row.level, row.cell>>, v)
              /\ Changed("drift", [row EXCEPT !.positions[v][a] = QuantMax \div 2])

TamperAny ==
    \/ \E key \in Cells : TamperCell(key)
    \/ LoseLevel
    \/ \E id \in DOMAIN collection.objects : TamperObject(id)
    \/ \E key \in DOMAIN collection.parts : TamperPart(key)
    \/ \E key \in DOMAIN collection.parts : \E g \in DOMAIN collection.parts[key].groups :
          \E r \in DOMAIN collection.parts[key].groups[g] : TamperRow(key, g, r)

Tampering ==
    /\ phase = "written"
    /\ fault = "none"
    /\ report = NoReport
    /\ TamperAny
    /\ UNCHANGED <<simplifyVars, input, phase, fragments, todo, perLevel, displacement, floored,
                   shards, cellRows, objectRows, warned, report>>

VerifyInit == BuildInit /\ fault = "none" /\ report = NoReport

\* A build that has failed, or a collection that has been looked at.
Ended == phase = "failed" \/ report # NoReport

VerifyNext ==
    \/ (BuildStep /\ UNCHANGED <<fault, report>>)
    \/ Tampering
    \/ \E tier \in DOMAIN Tiers : Verification(tier)
    \/ (Ended /\ UNCHANGED verifyVars)

\* Weak fairness of the steps that are the program's own, and not a fault.  One of them is
\* enabled until the end (or TLC would report the deadlock), so ENABLED is written out.
Fairness == []<>Ended \/ []<><<fault' = fault>>_verifyVars

VerifySpec == VerifyInit /\ [][VerifyNext]_verifyVars /\ Fairness

-----------------------------------------------------------------------------
(* What the whole of it promises. *)

Verified == report # NoReport

\* A surface, by the places of its faces.
Surface(mesh) == {Placed(mesh, f) : f \in DOMAIN mesh.faces}

\* A mesh as a cell of a level shows it: its points where the cell's lattice has them.
ShownIn(mesh, level, cell) ==
    [points |-> [v \in DOMAIN mesh.points |-> Shown(mesh.points[v], level, cell)], faces |-> mesh.faces]

\* A fragment as the finest level shows it, and all of an object.
Fine(id, t) == ShownIn(fragments[id][t], 0, MortonEncode(t))
ShownCut(id) == UNION {Surface(Fine(id, t)) : t \in DOMAIN fragments[id]}

\* What a weld leaves of it: not the faces with two corners at one place of the lattice.  A single
\* piece is not welded.
FineSurface(id) ==
    IF Cardinality(DOMAIN fragments[id]) = 1 THEN ShownCut(id)
    ELSE {places \in ShownCut(id) : Proper(places)}

\* What is written is what was cut: the finest mesh of an object, read back through the
\* catalogs, the locators, the offsets and the weld, has the faces of its fragments, each corner
\* where its cell's lattice has it.
ReadsBack ==
    phase = "written" /\ fault = "none" =>
        \A id \in {i \in Ids : DOMAIN fragments[i] # {}} :
           ObjectReturns(id, 0) /\ Surface(ObjectMesh(id, 0)) = FineSurface(id)

\* No cell holds anything.
NothingCut == \A id \in Ids : DOMAIN fragments[id] = {}

\* lod_error reaches the cut: of a greedy collapse, a vertex that a cell of any level shows is
\* within the cell's lod_error of one that the finest level shows of the same object.
CoarseVerticesAreNear ==
    phase = "written" /\ fault = "none" /\ input.backend.name = "GREEDY" =>
       \A key \in DOMAIN perLevel : \A v \in DOMAIN perLevel[key].points :
          \E t \in DOMAIN fragments[key[3]] : \E p \in Positions(Fine(key[3], t).points) :
             Distance(Shown(perLevel[key].points[v], key[1], key[2]), p)
                <= collection.cells[<<key[1], key[2]>>].lodError

\* What the builder makes and the writer writes, the verifier accepts: all of its structure and
\* its blobs.  What it may find is what the builder warned of, a pinned vertex that vanished with
\* its faces, the levels of a collection of which nothing was cut, and a distance to the finest
\* faces above lod_error, since the clipped coordinates overstate it: what lod_error does promise of
\* the vertices is CoarseVerticesAreNear.
VerifierAccepts ==
    Verified /\ fault = "none" =>
        /\ report.failures \subseteq {"smaller", "appeared", "vanished", "bound"}
                                         \cup (IF NothingCut THEN {"levels"} ELSE {})
        /\ "smaller" \in report.failures => warned.inverted # {}

\* The faces of a mesh that a point could be near: it is in the box around the face, or out of it by
\* no more than the limit.
Around(mesh, p, limit) ==
    {f \in DOMAIN mesh.faces : \A a \in Axes :
        LET along == {Placed(mesh, f)[c][a] : c \in Axes}
        IN  p[a] \in Min(along) - limit .. Max(along) + limit}

\* The check of lod_error errs on one side only: "overstating a distance can only fail a collection
\* loudly rather than pass a bad one quietly" (_point_to_faces).  Damaged or not, what it passes has
\* no vertex that is further than lod_error from the box around every finest face of its object.
NothingFarPasses ==
    Verified /\ report.tier = 3 /\ report.failures \cap {"bound", "raised"} = {} =>
        \A m \in Measurements : \A p \in m.points : Around(m.base, p, m.limit) # {}

\* Whatever has gone wrong with a collection, the tier that is to find it does not accept it.
VerifierRejects ==
    Verified /\ fault # "none" => report.tier < TierOf[fault] \/ report.failures # {}

\* Every build ends, in a collection that has been looked at or in an error: the targets are
\* relaxed until something survives or nothing is left to try.
Terminates == <>Ended
=============================================================================
