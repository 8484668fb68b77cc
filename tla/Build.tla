--------------------------------- MODULE Build ---------------------------------
(***************************************************************************)
(* build.build_collection: objects are cut at the level-0 planes, welded   *)
(* and made coarser piece by piece for every level, and assembled cell by  *)
(* cell into geometry rows and the two catalogs.  writer.write_collection  *)
(* then adds the parts, the row groups and the locators (here in one step; *)
(* WriteProtocol has its puts).                                            *)
(*                                                                         *)
(* Slicing is trimesh's.  The inputs here have no face that crosses a      *)
(* level-0 plane or lies in one, so a face is kept by the cells it is in.  *)
(***************************************************************************)
EXTENDS Simplify, Lattice, SequencesExt

CONSTANTS Inputs,        \* the calls: objects by id, levels, backend, 1 / ratio
          FloorFaces,    \* Decimation.floor_faces
          MaxPartBytes,
          RowGroupBytes

\* A mesh of an object: something, in cells that have a code (morton_encode raises for others).
IsObject(mesh) ==
    /\ IsMesh(mesh)
    /\ mesh.points # <<>>
    /\ \A v \in DOMAIN mesh.points : \A a \in Axes : mesh.points[v][a] \in 0 .. CellSize[a] * 2 ^ MortonBits

ASSUME BuildAssumption ==
    /\ FloorFaces \in Nat /\ MaxPartBytes \in Int /\ RowGroupBytes \in Int
    /\ \A i \in Inputs :
          /\ IsFiniteSet(DOMAIN i.objects) /\ DOMAIN i.objects \subseteq Nat
          /\ \A id \in DOMAIN i.objects : IsObject(i.objects[id])
          /\ i.levels \in Nat \ {0}
          /\ i.backend \in Backends
          /\ \A level \in 0 .. i.levels - 1 : i.ratio ^ level \in Nat \ {0}

VARIABLES input,         \* the call
          phase,         \* "cut", "levels", "assemble", "built", "written" or "failed"
          fragments,     \* fragments_by_object
          todo,          \* the pieces that no level holds yet
          perLevel,      \* per_level: the piece of an object in a cell of a level
          displacement,  \* by cell
          floored,       \* at_the_floor, by level
          shards,        \* by level, the rows of its geometry
          cellRows,      \* the cell catalog
          objectRows,    \* the object catalog
          warned,        \* the levels and the cause the warnings name
          collection     \* what is under the prefix once it is written

buildVars == <<input, phase, fragments, todo, perLevel, displacement, floored,
               shards, cellRows, objectRows, warned, collection>>

Chunks == INSTANCE Chunking

Levels == 0 .. input.levels - 1

Ids == DOMAIN input.objects

Nothing == [x \in {} |-> x]

NoWarning == [inverted |-> {}, missed |-> {}, cause |-> "none"]

-----------------------------------------------------------------------------
(* geometry.clip_to_cells, snap_boundary and drop_degenerate. *)

Lowest(points) == [a \in Axes |-> Min({points[v][a] : v \in DOMAIN points})]
Highest(points) == [a \in Axes |-> Max({points[v][a] : v \in DOMAIN points})]

\* The cells between the corners of a mesh; the upper plane does not count.
CellsOf(points) ==
    LET from(a) == Lowest(points)[a] \div CellSize[a]
        to(a)   == (Highest(points)[a] - 1) \div CellSize[a]
    IN  (from(1) .. to(1)) \X (from(2) .. to(2)) \X (from(3) .. to(3))

InCell(p, triple) ==
    \A a \in Axes : p[a] \in triple[a] * CellSize[a] .. (triple[a] + 1) * CellSize[a]

Clip(mesh, triple) ==
    LET inside == {f \in DOMAIN mesh.faces : \A v \in Corners(mesh.faces[f]) : InCell(mesh.points[v], triple)}
        faces  == Masked(mesh.faces, inside)
    IN  Compacted(mesh.points, faces, Used(faces))

\* A fragment with its boundary snapped, and without the faces that fell together.
Snapped(fragment, levels) ==
    LET points == [v \in DOMAIN fragment.points |-> SnapPoint(fragment.points[v], Step(levels - 1))]
        solid  == {f \in DOMAIN fragment.faces :
                      Proper(fragment.faces[f]) /\ ~Flat(points, fragment.faces[f])}
    IN  [points |-> points, faces |-> Masked(fragment.faces, solid)]

FragmentsOf(mesh, levels) ==
    LET fragment == [triple \in CellsOf(mesh.points) |-> Snapped(Clip(mesh, triple), levels)]
    IN  [triple \in {t \in DOMAIN fragment : fragment[t].faces # <<>>} |-> fragment[triple]]

-----------------------------------------------------------------------------
(* geometry.concatenate_and_weld. *)

\* np.vstack of the points, and the faces by their places among all of them.
Stacked(mesh, piece) ==
    [points |-> mesh.points \o piece.points,
     faces |-> mesh.faces \o Renamed(piece.faces, LAMBDA v : v + Len(mesh.points))]

Concatenated(pieces) == FoldLeft(Stacked, NoMesh, pieces)

\* Vertices at one position become the first of them.
Fused(mesh) ==
    LET first == [v \in DOMAIN mesh.points |->
                     Min({w \in DOMAIN mesh.points : mesh.points[w] = mesh.points[v]})]
        kept  == {first[v] : v \in DOMAIN mesh.points}
    IN  Compacted(mesh.points, ProperFaces(Renamed(mesh.faces, LAMBDA v : first[v])), kept)

Weld(pieces) == IF Len(pieces) = 1 THEN pieces[1] ELSE Fused(Concatenated(pieces))

-----------------------------------------------------------------------------
(* The pieces: an object in a cell of a level. *)

CoarseOf(triple, level) == [a \in Axes |-> triple[a] \div 2 ^ level]

\* The fragments are visited in the order of their cells, x first.
Visit(triple) == (triple[1] * 2 ^ MortonBits + triple[2]) * 2 ^ MortonBits + triple[3]

Group(task) == {t \in DOMAIN fragments[task.id] : CoarseOf(t, task.level) = task.triple}

FirstOf(task) == Min({Visit(t) : t \in Group(task)})

\* The order of the loops: by level, by id, by the first fragment of the group.
Due(task) ==
    /\ task \in todo
    /\ \A other \in todo :
          \/ task.level < other.level
          \/ task.level = other.level /\ task.id < other.id
          \/ task.level = other.level /\ task.id = other.id /\ FirstOf(task) <= FirstOf(other)

Piece(task) ==
    LET visits == InOrder({Visit(t) : t \in Group(task)})
    IN  Weld([i \in DOMAIN visits |->
                 fragments[task.id][CHOOSE t \in Group(task) : Visit(t) = visits[i]]])

KeyOf(task) == <<task.level, MortonEncode(task.triple), task.id>>

WantedFaces(faces, level) == Rint(Len(faces), input.ratio ^ level)

\* Decimation.target_faces.
TargetFaces(faces, level) == Max({FloorFaces, WantedFaces(faces, level)})

AtFloor(faces, level) ==
    WantedFaces(faces, level) <= FloorFaces \/ Len(faces) <= TargetFaces(faces, level)

-----------------------------------------------------------------------------
(* build.build_collection, up to the pieces of every level. *)

BuildInit ==
    /\ SimplifyInit
    /\ input \in Inputs
    /\ phase = "cut"
    /\ fragments = Nothing
    /\ todo = {}
    /\ perLevel = Nothing
    /\ displacement = Nothing
    /\ floored = Nothing
    /\ shards = Nothing
    /\ cellRows = Nothing
    /\ objectRows = Nothing
    /\ warned = NoWarning
    /\ collection = Nothing

Cut ==
    /\ phase = "cut"
    /\ phase' = "levels"
    /\ fragments' = [id \in Ids |-> FragmentsOf(input.objects[id], input.levels)]
    /\ todo' = UNION {{[level |-> level, id |-> id, triple |-> CoarseOf(t, level)] :
                          t \in DOMAIN fragments'[id]} : id \in Ids, level \in Levels}
    /\ displacement' = [cell \in {<<task.level, MortonEncode(task.triple)>> : task \in todo'} |-> 0]
    /\ floored' = [level \in Levels |-> 0]
    /\ UNCHANGED <<simplifyVars, input, perLevel, shards, cellRows, objectRows, warned, collection>>

\* map[key] = value.
Put(map, key, value) == [k \in DOMAIN map \cup {key} |-> IF k = key THEN value ELSE map[k]]

\* A faulty step that leaves the piece to be made again.
HoldOnly(task, mesh) ==
    /\ perLevel' = Put(perLevel, KeyOf(task), [points |-> mesh.points, faces |-> mesh.faces])
    /\ UNCHANGED todo

Hold(task, mesh) ==
    /\ perLevel' = Put(perLevel, KeyOf(task), [points |-> mesh.points, faces |-> mesh.faces])
    /\ todo' = todo \ {task}

\* Level 0 holds the fragments as they were cut.
KeepFragment(task) ==
    /\ phase = "levels"
    /\ Due(task)
    /\ task.level = 0
    /\ Hold(task, Piece(task))
    /\ UNCHANGED <<simplifyVars, input, phase, fragments, displacement, floored, shards,
                   cellRows, objectRows, warned, collection>>

\* A coarser level: only the vertices on this level's own faces are pinned.
Coarsen(task) ==
    /\ phase = "levels"
    /\ Due(task)
    /\ task.level > 0
    /\ LET piece == Piece(task)
       IN  SimplifyToTarget([points |-> piece.points, faces |-> piece.faces,
                             fixed |-> OnPlanes(piece.points, Extent(task.level), Exactly),
                             target |-> TargetFaces(piece.faces, task.level),
                             backend |-> input.backend])
    /\ UNCHANGED buildVars

\* A faulty account of a cell's displacement, that of the last of its pieces.
LatestError(task) == answer.error

\* The largest displacement of the pieces of a cell, this one among them.
WorstError(task) == Max({displacement[<<task.level, MortonEncode(task.triple)>>], answer.error})

PlacePiece(task) ==
    /\ asking = "answered"
    /\ Due(task)
    /\ asking' = "no"
    /\ Hold(task, answer)
    /\ displacement' = [displacement EXCEPT ![<<task.level, MortonEncode(task.triple)>>] =
                           WorstError(task)]
    /\ floored' = IF AtFloor(request.faces, task.level) \/ answer.relaxed
                  THEN [floored EXCEPT ![task.level] = @ + 1]
                  ELSE floored
    /\ UNCHANGED <<decimateVars, request, attempt, answer, input, phase, fragments, shards,
                   cellRows, objectRows, warned, collection>>

\* Every level has its pieces.
EndLevels ==
    /\ phase = "levels"
    /\ todo = {}
    /\ phase' = "assemble"
    /\ shards' = [level \in Levels |-> <<>>]
    /\ UNCHANGED <<simplifyVars, input, fragments, todo, perLevel, displacement, floored,
                   cellRows, objectRows, warned, collection>>

-----------------------------------------------------------------------------
(* The rows: the cells of each level in the order of their codes. *)

CellKeys == {<<key[1], key[2]>> : key \in DOMAIN perLevel}

NextCell(level, cell) ==
    /\ <<level, cell>> \in CellKeys \ DOMAIN cellRows
    /\ \A other \in CellKeys \ DOMAIN cellRows :
          level < other[1] \/ (level = other[1] /\ cell <= other[2])

ChildKey(level, cell, octant) == <<level - 1, MortonEncode(Child(MortonDecode(cell), octant))>>

\* _children_of.
ChildrenOf(level, cell) ==
    IF level = 0 THEN {} ELSE {ChildKey(level, cell, octant) : octant \in Octants} \cap CellKeys

\* A faulty mask, of the octants with x and y the other way round.
ChildMaskTurned(level, cell) ==
    IF level = 0 THEN {}
    ELSE {2 * Bit(octant, 0) + Bit(octant, 1) + 4 * Bit(octant, 2) :
             octant \in {o \in Octants : ChildKey(level, cell, o) \in CellKeys}}

\* _child_mask, as the octants whose bits are set.
ChildMask(level, cell) ==
    IF level = 0 THEN {} ELSE {octant \in Octants : ChildKey(level, cell, octant) \in CellKeys}

\* A cell's own error, or the largest of those below it.
LodError(level, cell) ==
    Max({Quantum(level) + displacement[<<level, cell>>]}
            \cup {cellRows[child].lodError : child \in ChildrenOf(level, cell)})

\* Where each of some consecutive runs starts.
Starts(lengths) == [i \in DOMAIN lengths |-> FoldLeft(LAMBDA s, n : s + n, 0, SubSeq(lengths, 1, i - 1))]

IdsIn(level, cell) == InOrder({id \in Ids : <<level, cell, id>> \in DOMAIN perLevel})

PiecesIn(level, cell) ==
    [i \in DOMAIN IdsIn(level, cell) |-> perLevel[<<level, cell, IdsIn(level, cell)[i]>>]]

\* A geometry row; a vertex is six bytes and an index four.
Row(level, cell) ==
    LET ids    == IdsIn(level, cell)
        pieces == PiecesIn(level, cell)
        mesh   == Concatenated(pieces)
    IN  [level |-> level, cell |-> cell,
         positions |-> [v \in DOMAIN mesh.points |-> Quantized(mesh.points[v], cell, level)],
         indices |-> mesh.faces,
         ids |-> ids,
         ordinals |-> [i \in DOMAIN ids |-> Rank(Ids, ids[i]) - 1],
         vertexOffsets |-> Starts([i \in DOMAIN ids |-> Len(pieces[i].points)]),
         indexOffsets |-> Starts([i \in DOMAIN ids |-> 3 * Len(pieces[i].faces)]),
         bytes |-> 6 * Len(mesh.points) + 12 * Len(mesh.faces)]

\* A null column of the catalog.
Null == -1

NoLocator == [part |-> Null, rowGroup |-> Null, blobBytes |-> Null]

\* A row of the cell catalog; its bounds are those of the vertices before they are quantized.
CellRow(level, cell) ==
    LET mesh == Concatenated(PiecesIn(level, cell))
    IN  [vertexCount |-> Len(mesh.points),
         indexCount |-> 3 * Len(mesh.faces),
         low |-> Lowest(mesh.points), high |-> Highest(mesh.points),
         lodError |-> LodError(level, cell),
         objectCount |-> Len(PiecesIn(level, cell)),
         childMask |-> ChildMask(level, cell),
         locator |-> NoLocator]

StraysIn(level, cell) ==
    LET points == Concatenated(PiecesIn(level, cell)).points
    IN  \E v \in DOMAIN points : Stray(points[v], cell, level)

AssembleCell(level, cell) ==
    /\ phase = "assemble"
    /\ NextCell(level, cell)
    /\ ~StraysIn(level, cell)
    /\ shards' = [shards EXCEPT ![level] = Append(@, Row(level, cell))]
    /\ cellRows' = Put(cellRows, <<level, cell>>, CellRow(level, cell))
    /\ UNCHANGED <<simplifyVars, input, phase, fragments, todo, perLevel, displacement, floored,
                   objectRows, warned, collection>>

\* encode_positions raises a PartitioningError.
RefuseCell(level, cell) ==
    /\ phase = "assemble"
    /\ NextCell(level, cell)
    /\ StraysIn(level, cell)
    /\ phase' = "failed"
    /\ UNCHANGED <<simplifyVars, input, fragments, todo, perLevel, displacement, floored, shards,
                   cellRows, objectRows, warned, collection>>

\* The finest pieces of an object, by which the object catalog describes it.
FinestKeys(id) == {key \in DOMAIN perLevel : key[1] = 0 /\ key[3] = id}

\* A row of the object catalog; an object nobody holds is at the origin.
ObjectRow(id) ==
    LET finest == {perLevel[key] : key \in FinestKeys(id)}
        points == UNION {Positions(piece.points) : piece \in finest}
    IN  [ordinal |-> Rank(Ids, id) - 1,
         low |-> [a \in Axes |-> IF points = {} THEN 0 ELSE Min({p[a] : p \in points})],
         high |-> [a \in Axes |-> IF points = {} THEN 0 ELSE Max({p[a] : p \in points})],
         vertexCount |-> MapThenSumSet(LAMBDA key : Len(perLevel[key].points), FinestKeys(id)),
         indexCount |-> MapThenSumSet(LAMBDA key : 3 * Len(perLevel[key].faces), FinestKeys(id)),
         cells |-> {<<key[1], key[2]>> : key \in {k \in DOMAIN perLevel : k[3] = id}}]

FacesAt(level) ==
    MapThenSumSet(LAMBDA key : cellRows[key].indexCount \div 3, {key \in DOMAIN cellRows : key[1] = level})

CoarserLevels == 1 .. input.levels - 1

Inverted == {level \in CoarserLevels : FacesAt(level) > FacesAt(level - 1)}

\* More than twice the ratio of the level below is left.
Missed == {level \in CoarserLevels : FacesAt(level) * input.ratio > 2 * FacesAt(level - 1)}

\* _warn_if_decimation_missed: which of the two causes the numbers support.
Cause ==
    IF Missed = {} THEN "none"
    ELSE IF \E level \in Missed : floored[level] > 0 THEN "floor"
    ELSE IF input.backend.name = "GREEDY" THEN "pinned"
    ELSE "topology"

FinishCatalogs ==
    /\ phase = "assemble"
    /\ DOMAIN cellRows = CellKeys
    /\ phase' = "built"
    /\ warned' = [inverted |-> Inverted, missed |-> Missed, cause |-> Cause]
    /\ objectRows' = [id \in Ids |-> ObjectRow(id)]
    /\ UNCHANGED <<simplifyVars, input, fragments, todo, perLevel, displacement, floored, shards,
                   cellRows, collection>>

-----------------------------------------------------------------------------
(* writer.write_collection: the parts of every level, and the catalog with their locators. *)

PartsOf(level) == Chunks!PlanParts(shards[level], MaxPartBytes)

Located(level, cell) ==
    LET parts == PartsOf(level)
        part  == CHOOSE p \in DOMAIN parts : \E row \in DOMAIN parts[p] : parts[p][row].cell = cell
        where == Chunks!Locate(parts[part], part - 1, RowGroupBytes)[cell]
    IN  [part |-> where[1], rowGroup |-> where[2], blobBytes |-> where[3]]

\* A part as a file: its row groups, and how long it is.
PartFile(part) ==
    [groups |-> Chunks!RowGroups(part, RowGroupBytes),
     size |-> Chunks!TotalBytes(Chunks!BlobSizes(part))]

\* What is then under the prefix: the manifest's levels and files, the parts, the catalogs.
Written ==
    LET files == [level \in Levels |-> [p \in DOMAIN PartsOf(level) |-> PartFile(PartsOf(level)[p])]]
    IN  [levels |-> input.levels,
         files |-> [level \in Levels |->
                       [p \in DOMAIN files[level] |->
                           [size |-> files[level][p].size, rowGroups |-> Len(files[level][p].groups)]]],
         parts |-> [key \in UNION {{<<level, p - 1>> : p \in DOMAIN files[level]} : level \in Levels} |->
                       files[key[1]][key[2] + 1]],
         cells |-> [key \in DOMAIN cellRows |->
                       [cellRows[key] EXCEPT !.locator = Located(key[1], key[2])]],
         objects |-> objectRows]

Write ==
    /\ phase = "built"
    /\ phase' = "written"
    /\ collection' = Written
    /\ UNCHANGED <<simplifyVars, input, fragments, todo, perLevel, displacement, floored, shards,
                   cellRows, objectRows, warned>>

BuildStep ==
    \/ Cut
    \/ \E task \in todo : KeepFragment(task) \/ Coarsen(task) \/ PlacePiece(task)
    \/ (SimplifyTurn /\ UNCHANGED buildVars)
    \/ EndLevels
    \/ \E key \in CellKeys : AssembleCell(key[1], key[2]) \/ RefuseCell(key[1], key[2])
    \/ FinishCatalogs
    \/ Write

-----------------------------------------------------------------------------
(* What is promised of a collection. *)

\* The pieces are meshes, wanted at most once each, and the rows keep to their lattices.
TypeOK ==
    /\ phase \in {"cut", "levels", "assemble", "built", "written", "failed"}
    /\ asking \in {"no", "attempt", "collapse", "answered"}
    /\ \A task \in todo : KeyOf(task) \notin DOMAIN perLevel
    /\ \A key \in DOMAIN perLevel : Used(perLevel[key].faces) \subseteq DOMAIN perLevel[key].points
    /\ \A level \in DOMAIN shards : \A r \in DOMAIN shards[level] :
          \A v \in DOMAIN shards[level][r].positions :
             shards[level][r].positions[v] \in [Axes -> 0 .. QuantMax]

\* A level is a standalone representation of the whole collection: whatever of an object a cell
\* of the finest level holds, the cell above it holds something of at every level, however
\* small the target and whatever the backend makes of it ("an object missing from level 2 is
\* not a coarser object, it is an object that disappears", simplifiers/registry.py).
NothingVanishes ==
    /\ \A key \in DOMAIN perLevel : perLevel[key].faces # <<>>
    /\ phase \in {"built", "written"} =>
          \A id \in Ids : \A triple \in DOMAIN fragments[id] : \A level \in Levels :
             <<level, MortonEncode(CoarseOf(triple, level)), id>> \in DOMAIN perLevel

\* Where a point of a level is decoded.
Shown(p, level, cell) == Decoded(Quantized(p, cell, level), cell, level)

\* A coordinate on a finer level's plane in the middle of a coarser cell, which is half a step
\* of the coarser lattice off it (the residual case of geometry.py).
OffLattice(x, axis, level) == x % CellSize[axis] = 0 /\ x % Extent(level)[axis] # 0

\* boundary: LOCKED.  A vertex that a coarse piece has on a face of its own cell is one of the
\* finest level's, and both decode it to the same place, up to half a step along an axis on
\* which it lies on a plane that is no face of the coarser cell.
SeamsAgree ==
    phase = "built" =>
        \A key \in DOMAIN perLevel : \A v \in OnPlanes(perLevel[key].points, Extent(key[1]), Exactly) :
           LET p == perLevel[key].points[v]
           IN  \E fine \in FinestKeys(key[3]) :
                  /\ p \in Positions(perLevel[fine].points)
                  /\ \A a \in Axes :
                        LET gap == Abs(Shown(p, key[1], key[2])[a] - Shown(p, 0, fine[2])[a])
                        IN  gap = 0 \/ (OffLattice(p[a], a, key[1]) /\ 2 * gap <= Step(key[1])[a])

\* decimate_fixed returns every fixed vertex that the surface has, at its place: "every
\* on-plane vertex held fixed -- never moved, never collapsed away" (geometry.py).
PinnedSurvive ==
    stage = "collapsed" =>
        \A v \in call.fixed \cap Used(call.faces) : call.points[v] \in Positions(result.points)
=============================================================================
