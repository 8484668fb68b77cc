# A verification project for maille

maille writes meshes as an octree of cells, in a prefix of Parquet files in an object store,
and reads them back one cell at a time. This directory models the parts of it whose
correctness is a matter of order, of failure and of bookkeeping: how meshes are cut, made coarser and
assembled, how a collection is written and published, how it is read and verified, how a view is
planned. TLC checks the models on small
instances; TLAPS proves the theorems below for every value of the constants.

## The system

| Part | State it keeps | Operations | Interacts with |
|---|---|---|---|
| Chunking (`frames.py`, `writer._plan_parts`) | none, one loop | `plan_byte_chunks`: rows to runs under a byte budget, used to cut a level into parts and a part into row groups | the writer |
| Writer (`writer.py`) | what it has put so far: file entries, locators | `write_collection`, put by put; `awrite_collection`, the same in a thread | a store |
| Stores (`stores/`) | bytes at paths | `put`, `get`, `get_range`, `list` | everything below |
| Manifest (`manifest.py`) | a value | parse, name the parts of a level | writer, reader |
| Reader (`reader.Collection`) | the manifest; cell and object catalogs, read at first use; open parts | `read_cell(s)`, `release`, `plan`; `aread_cells` | a store, the planner |
| StoreFile (`stores/file.py`) | position, tail window, primed ranges | `seek`, `read`, `prime` | the reader, pyarrow |
| Planner (`planner.py`) | a heap and a selection, for one call | `plan_cells` | the reader's catalog |
| Octree (`octree.py`) | none | Morton codes | builder, reader |
| Builder (`build.py`) | fragments, the pieces of every level, displacements, rows and catalogs under construction | `build_collection` | geometry, simplifiers, codecs |
| Geometry (`geometry.py`) | a union-find and moving vertices, for one call of `decimate_fixed` | clipping, snapping, welding, `decimate_fixed` | builder, simplifiers |
| Simplifiers (`simplifiers/`) | the target they try | `simplify_to_target`, over a greedy and a library backend that falls back on the greedy one | builder, geometry |
| Codecs (`codecs/`) | none | quantization to a cell's lattice, packing | builder, reader |
| Mesh sources (`sources.py`) | none | adapters | builder |
| Verify (`verify.py`) | findings | structure, blob and geometry checks | reader |

What is hard about it: a store has no transaction, so a collection exists when its manifest
does, and everything rests on the order of the puts; a write can stop between any two of them,
be retried with other arguments, or overlap with the retry of itself (a cancelled
`awrite_collection` leaves its thread running); `DirectoryStore` truncates a file before it
writes it; a reader keeps footers and catalogs across all this. The catalog points into bytes by
part and row group, numbers that two plans at different scales produce. The planner replaces
cells by their children under a budget and must never leave a hole. The builder promises that cells of
different levels meet without a crack, across a library it does not trust, a lattice whose denominator is
odd, and a collapse that may eat a whole piece; nothing downstream can check that promise but the
verifier, which compares parts of a collection that were computed from one another. `PROJECT.json` lists these
hazards at their lines.

What makes each part correct:

- *chunking*: every row in exactly one run; over budget only when one row is; no cut too many;
- *writer*: a manifest means that everything it names is there and fits together; a retry heals;
- *reader*: on a prefix completed and left alone every listed cell can be read, and is the cell;
- *planner*: the plan is a cut of the octree (no hole, no overlap, nothing finer than needed),
  bounded by `max_cells`, breadth-first; what is visible is in it;
- *async reader*: a part is opened once, a prefetch reaches the file the parse reads, the parse
  stays off the store, and every call ends, whatever fails or is released under it;
- *StoreFile*: reads what the bytes are, whatever has been primed; what it says is at hand needs no store;
- *builder*: what is pinned is neither moved nor given up; no object vanishes from a level; what two
  levels show of a shared face agrees; what was cut is what reads back; it ends;
- *verifier*: accepts what the builder makes (all but the checks that a sound collection can fail, see below), rejects what has been
  damaged.

## Modules

| Module | Models |
|---|---|
| `Chunking` | `plan_byte_chunks`, `_plan_parts`, `table_to_chunked_parquet`, `_locate` as operators |
| `ChunkLoop` | `plan_byte_chunks` as the loop it is, one row a step |
| `ChunkPlan` | no code: the loop of `ChunkLoop` against the operators of `Chunking` |
| `Cut` | abstract: a cut of an octree, changed only by refining a cell into its wanted children |
| `Planner` | `plan_cells`, one turn of its loop a step; implements `Cut` |
| `Visibility` | `Planner` with the box and frustum tests that make its wanted cells |
| `WriteProtocol` | `write_collection` against a store, one put (or its truncation) a step |
| `Publication` | abstract: one collection that appears at an instant and can be read from then on |
| `ReadProtocol` | `WriteProtocol` and `reader.Collection`, one store access a step; implements `Publication` |
| `AsyncReader` | `aread_cells` of several calls on one `Collection` and one event loop, with `release` and synchronous reads in between; what runs between two awaits is a step |
| `RandomAccess` | abstract: an object of fixed bytes, a position, reads that return what lies there |
| `StoreFile` | `stores/file.py`, one call a step; implements `RandomAccess` |
| `Mesh` | triangle meshes over whole coordinates: edges, borders, compaction, degenerate faces |
| `Collapse` | abstract: vertices merged two at a time, pinned ones never given up or moved |
| `Decimate` | `geometry.decimate_fixed`, one turn of its loop a step; implements `Collapse` |
| `Simplify` | `simplify_to_target` and its backends, over `Decimate` |
| `Lattice` | Morton codes, cell boxes, snapping and quantization as operators |
| `Build` | `build_collection`, piece by piece and cell by cell, over `Simplify` and `Lattice`; the written collection, over `Chunking` |
| `Verify` | `verify.verify` of that collection, through the reader, with a fault in it or none |
| `*_proofs` | the theorems about a module, and their lemmas: `Protocol_proofs` is about `WriteProtocol` and `ReadProtocol`, `Planner_proofs` about `Planner` and `Cut`, `Build_proofs` about `Decimate`, `Lattice` and how `Build` makes its pieces, `Verify_proofs` about what is written of them and `Verify` |
| `CommonLemmas` | no code: induction, folds, sums and powers, for the proofs |
| `MC*` | instances for TLC |

`MCWriting` takes the parts and row groups of its calls from `Chunking`, applied to shards with
byte budgets; `ChunkPlan` says that `Chunking` computes what `ChunkLoop` does, which `MCChunkLoop` checks and
`ChunkLoop_proofs` proves. So the write
protocol runs over real plans, and so does `Build`, which takes the writer as one step: that a
completed write leaves this under the prefix is `WriteProtocol`'s to show.

An operator described as *faulty* in a module is the code with a plausible mistake in it. No
specification uses it; it is there to be put in the place of the right one, to see that a
property notices.

### How the state and the actions correspond to the code

**`ChunkLoop`.** `sizes`, `budget`, `row`, `start`, `running`, `chunks` are the loop's own
variables; `offset` is history (bytes before a row). `ReturnEmpty` is the early return, `NoRoom`
the `if`, `Cut` and `Extend` the two ways through the body, `Finish` the append after the loop.

**`Planner`.** `queue` is the heap, `selected` the dict. `Popped` is the heap's order
(`(-level, cell)`); `SelectGood`, `SelectFinest`, `SelectCoarse`, `Descend` are the four ways
through the body in the order of its tests; `refused` is history. A query is what its arguments
come to over a catalog: the cells that `wanted` keeps, the cells whose error fits (from a camera
or as such), `min_level`, `max_cells`. No error given means that no cell fits. `Cut!Children`
is `CellEntry.children`: the octants of `child_mask`, eight codes from eight times the cell's.

**`Visibility`.** Adds the bounds of the cells and `_overlaps` / `_inside_frustum` over integer
coordinates; a box and planes that are not given are a box and planes that hold everything.

**`WriteProtocol`.** A *call* is the arguments of `write_collection`. `files` and `locators` are
its accumulators; `at` the place of the loop. Each `Put...` action is the turn around one
`put_bytes`, with what the code records after it. `Truncate` is the moment between the opening
and the writing of a file in `DirectoryStore.put`; with `AtomicPuts` there is none (`MemoryStore`,
object stores). A body is a record of what the bytes say; `Torn` is a body no put has finished, or
two have mixed. `Interrupt` loses the writer's memory and nothing else. Several writers stand for
runs that overlap. `alone` is history: nobody else has touched the store since the call.

**`ReadProtocol`.** `held`, `catalog` and `handles` are `manifest`, `cells` and `_parquet_files`.
`Open`, `LoadCatalog`, `OpenPart`, `ReadCell`, `Release` are what touches the store or the caches.
`ReadCell` lets the bytes of the row group come from the file as it was when its footer was read
(the tail window) or as it is now. `read_cells` is a sequence of these steps. `intact` is history:
the prefix was complete when opened and nobody has touched it since.

**`AsyncReader`.** `opener` and `fetcher` say where each call's tasks of the two `gather`s are
(`_aopen_part`, one a part; `_aprefetch`, one a row group): at the semaphore (`gate`), at the part's
lock (`lock`), at the store (`fetch`), or `done`. `opening`, `parquet` and `partFile` are `_opening`,
`_parquet_files` and `_part_files`; the files are numbered in the order in which they are made, so that two
openings of one part can be told apart. `target` is the local `handle` a prefetch keeps over its
await. `primed` is what has been handed to the files the parts are read through; what lies in the tail
window (`InTail`) needs no prefetch. A lock is named after the call whose `setdefault` made it,
since `release` drops locks that tasks still hold. `FailCall` is `gather` raising the first
failure while the other tasks go on; `Cancel` is the caller giving up, at any await. `Parse` is
the list comprehension that runs on the loop; it opens what is closed by then. `stalled` is history: the
calls for which it went to the store. `orderly` chooses, for a behaviour, whether the other users of the
Collection wait until it is safe. Left out: an unknown key (raises before anything happens), cells
without a locator, row groups whose place the footer does not say (the prefetch passes over them), the
first read of the catalog, and the numbers in the decoded cells.

**`StoreFile`.** `object` is what lies at the path, `result` what the last read returned, `position`, `closed`,
`tail`, `primed` the attributes. `read` is five actions, the ways it can go: nothing left (`ReadNothing`), a primed
window (`ReadPrimed`, the newest that covers the request), the tail (`ReadTail`, fetched by the first such read),
the store (`ReadStore`), or an error (`ReadFails`). `asked` is history: what the last step asked of the store. What is
primed is what `aget_range_bytes` returned, so it is the object's: an object rewritten under an
open file is `ReadProtocol`'s subject. A file is used by one thread; `AsyncReader` has the calls
in between.

**`Decimate`.** `parent` is the union-find, `place` the `vertices` that move (the arguments stay in `call`),
`waiting` the edges the loop has not come to, `since` is `collapses_since_check`. `Skip` is the two
`continue`s, `Collapse` the rest of the body with the count of faces every `check_interval` (three
alternatives: not yet, enough left to do, done), `RunOut` the end of the edges. `Compressed` is what
`_find` does to `parent` on its way, for both ends of the edge, which is why looking changes the state.
Edges of one length come in any order (`argsort` promises none).

**`Simplify`.** `attempt` and `asking` are the loop of `simplify_to_target`; `TryGreedy` and `TryLibrary` its call
of a backend, `TakeCollapse` what it does with the answer, `KeepWhole` what is after the loop. The library
may return nothing, the mesh, or less of it with the remaining vertex in one of four places, two of
them where it must not be; `Trusted` is the check behind it, and what fails it goes to the greedy fallback with
the same target.

**`Lattice`.** Coordinates are whole numbers of a unit of which every step of every level is a
multiple; `QuantMax` is odd, as 65535 is, and 15 in the instance. `SnapPoint` is `snap_boundary` of one vertex,
`Quantized`/`Decoded` what `encode_positions` and `decode_positions` do to it.

**`Build`.** `fragments`, `perLevel`, `displacement`, `floored` are `fragments_by_object`, `per_level`, `displacement`
and `at_the_floor`; `todo` is what the nested loops have not come to, and `Due` their order. `KeepFragment` is
level 0, `Coarsen` and `PlacePiece` the two sides of the call of `simplify_to_target`, whose steps are in between.
`AssembleCell` is one turn of the assembly, with the row, its catalog entry and its error; `RefuseCell`
the same turn when `encode_positions` raises. `FinishCatalogs` is the object catalog and the warnings, `Write` all
of `write_collection`.

**`Verify`.** Each check is an operator named after its function, true if the check passes, over the
collection as a reader opens it (`TableFor`, `ReadCell`, `ObjectMesh`). `Tampering` changes one thing in
what was written: it is the environment's, happens at most once and before the verification, and `TamperCell`,
`TamperObject`, `TamperPart`, `TamperRow` and `LoseLevel` are what it may do. `Verification` is a call of
`verify` at a tier; a check that raises outside its `try` is the failure `raised`. The distance of a vertex to the finest surface
is the code's: the `CandidateFaces` faces with the nearest centroids, and of each the point with the clipped barycentric
coordinates (`Weights`), in whole numbers over a common denominator. The code has 32 candidates; the instance has 4 for its meshes
of at most 20 faces, as it has a floor of 4 faces. Which of several faces as near are candidates the search tree does not say;
here it is the first ones. Without scipy the code takes all faces, which is a `CandidateFaces` large enough.

Left out of all these: the sizes the manifest gives the catalogs (no reader uses them, only
their paths); manifests without file lists (no writer here makes them), hence the listing.

## Runs

| Run | Bounds, and why they are enough | Shows |
|---|---|---|
| `chunk_loop` | lists of at most five sizes 0 to 3, budgets -1 to 6: a run of several rows, an empty row anywhere, a row over budget, a budget below everything | the loop partitions the rows, cuts only when it must, and the locators find their cells through both scales |
| `planner` | three levels, eight cells, every set of wanted cells, every set of fitting cells above level 0, `min_level` 0 or 1, `max_cells` 1, 3, 4 or none: budgets below and at the roots, between refinements, and beyond; and boxes and pairs of straight and slanted half-planes over bounds in two axes | the plan is a cut, within budget, breadth-first, the call returns; nothing visible is missing, when bounds nest |
| `rewrite` | two writers, two collections, torn puts, any number of interruptions and retries | a returned write nobody disturbed is sound |
| `publish` | two writers with the same arguments, one reader, atomic puts | the collection appears atomically; `ReadProtocol` implements `Publication`; no debris |
| `reread` | one writer rewriting with two collections over torn puts, one reader | a completed prefix reads back whole |
| `async` | two calls, with one or two places behind the semaphore, two parts: one with a length, a row group in its tail window and one outside, one without a length; any failures and cancellations, one `release`, synchronous reads, orderly or not | a part is opened once, the handles agree, orderly calls parse from memory, every call ends |
| `store_file` | an object shorter than the tail window and one longer, all bytes different; two primed windows anywhere (one behind, one in front of the other, overlapping, or apart); places and counts below, inside and beyond the object | a `StoreFile` is a file; what `holds` accepts needs no store |
| `build` | fifteen calls over thirteen meshes of 1 to 20 faces, chosen so that every branch is taken (see below), both backends and both placements, two and three levels; one fault of 15 kinds at every place it can be, or none; each tier | all of what is promised of the builder and of the verifier: what is accepted, what is rejected, and that no coarse vertex passes that is away from the finest surface; and that every build ends |
| `dangling` | one writer, two budgets | **violated**: see below |
| `sync_open` | `async` without `release` and without order | **violated**: see below |
| `cull` | `planner`'s octree with the bounds of a decimated surface | **violated**: see below |
| `pinned` | `build` | **violated**: see below |

`publish` needs one call: with two different ones under way no order of puts can help. Two
writers with the same arguments are what a cancelled `awrite_collection` and its retry are.
Three writers add nothing two do not: every property speaks of one writer and the store, and all the
others together act on it like one that is interrupted and called again.

Two calls are what it takes for a lock to be contended, and a failed call's left-over tasks, or those of a
cancelled one's rival, stand in for a third. Whether a third would add anything is what the
theorems of `AsyncReader_proofs` answer for the safety properties.

The meshes of `build` are there for what happens to them. `Strip` loses a pinned corner with its faces. `Sheet` crosses
planes of two levels and has a vertex on a plane in the middle of a coarser cell (the half-step residual).
`Ball` has edges so long that what a cell says of its error has to have all of a collapse in it, and shares its
cell with a piece that has none. `Sliver` is thin and open, and stays as it is. `Octahedron` is closed and touches a cell face, so that its pinned vertex is on no border and the
library may move it. `Book` and `Spine` collapse to nothing, at the first target and only at
level 2, where `Spine`'s spine is free and its level comes out larger than the one below (the builder
warns, and its verifier rejects). `Spike` lets the library put a vertex outside its cell, and the build fails.
`Curtain` has nothing free to collapse: the misses the warning explains. `Flake` lies in a level-0
plane. `Splinter` is in two cells and has a face with two corners that the finest lattice shows at one place, which the weld of
`object_mesh` loses and the row has. Cells of 30 units with 15 steps make a coarser cell's middle odd on its own lattice, which is what 65535
does; three levels are the fewest in which a vertex is pinned at one coarse level and free at the next. Parts
of at most 200 bytes in row groups of 100 give levels of several parts and parts of several groups.

Deadlock is not checked in `ChunkLoop`, `Planner` and `AsyncReader`: these stop when they return. A writer or a
reader can always be called again, and `build` stutters only once its build has failed or its collection has
been looked at: anywhere else TLC would report that nothing can go on.

Fairness: `Planner` has a liveness property (`Terminates`), under weak fairness of its next
step: a call that is running on a thread goes on running. `AsyncReader` has one (`EveryCallEnds`), under
weak fairness of each call's steps: an event loop runs what is ready, and a request to a store is
answered or fails. `Verify` has one (`Terminates`), under weak fairness of all steps that are not a fault: the build is
one thread that goes on running, and so is the verification. `Fairness` is that written out: one of those steps is
enabled exactly until the end (deadlock freedom of the same run), so `ENABLED` can be replaced by `~Ended`,
which TLC evaluates quickly where it would otherwise take all the steps of a build apart again. Calls, cancellations, releases and synchronous reads are not fair. Nothing forces a writer to finish,
since a process may die.

### Four places where the code does not do what it says

- `dangling`. The docstring of `write_collection` says that an interrupted write leaves "a
  catalog pointing at nothing only if it also leaves no manifest". This is so for a first write
  (`ManifestMeansSound`, checked and proved). A rewrite of a complete prefix puts new parts
  under the old manifest: stopped there, the old catalog points into row groups that are gone.
- `cull`. `_inside_frustum` "never culls a cell that is partly visible". It does not cull by the cell
  it is asked about; but `plan_cells` asks it about every cell on the way down, and a coarse
  cell's bounds are those of its decimated vertices. A fine cell that sticks out of them can be
  visible and not be planned. With nested bounds (`planner`) it cannot.
- `sync_open`. `_opening` has "one lock per part, so concurrent readers open it once between them",
  but `_parquet_file`, with which `read_cell` and its like open a part, does not ask for it. Called
  on the loop while `aread_cells` waits for the footer, it opens the part, and the footer that
  arrives opens it again: a call that primed the first file parses through the second, from the
  store, where `aread_cells` says that its parse "touches memory and no store at all". Without that, and without a
  `release` in the middle of a call, it is as it says (`OrderlyParsesFromMemory`, checked and
  proved); and what it returns, how it ends and that the two tables of files agree does not depend on it.

- `pinned`. `geometry.py` says that on-plane vertices are "held **fixed** -- never moved, never collapsed away", and a
  test asserts that each is found in the output. It is never moved and never given up for another (`PinnedHeld`, checked and
  proved), but only vertices that a face still uses are returned: when the last of its faces falls together, a
  pinned vertex is gone from its piece, while the neighbouring cell and the finer level still have it. The verifier
  says so of what the builder made ("did not survive to this level").

A retry with other budgets also leaves parts the new manifest does not name, where a test says
"a retried write must not leave debris"; the test retries with the same arguments, for which
`NoDebris` holds, checked and proved.

### Smaller things met on the way

None of these has a run of its own.

- `_box_problems` can never report anything: decoded positions are in their cell's box by construction, so a collection
  read with a wrong `cell_size`, which its docstring says it finds, passes.
- `_offset_problems` lets a wrong vertex offset pass that ascends and stays in range, and `_identity_problems`
  does not look for objects that name a cell which does not hold them.
- "Nothing here raises" (`verify.py`), but a missing cell catalog does, and so does the distance to a face with an index
  that is out of range (the failure `raised`).
- `object_mesh` welds an object of several cells and not one of a single cell: a face that the finest lattice lets fall
  together is there in the second case and not in the first (`ReadsBack` says so of both; `Splinter`).
- An object in a level-0 plane is in no cell, at no level, and nothing warns of it (`Flake`); of a collection of which nothing
  was cut at all, the verifier then finds that its levels are not contiguous (`NothingCut`).
- The check of `lod_error` can fail a sound collection that has thin triangles. It measures to the closest point of a face
  only over the face itself: beyond its edges and corners it clips each barycentric coordinate on its own and
  divides by their sum. Beyond a sharp corner one of them is far below zero and another far above, and the clipped point
  is a good way along the opposite side. The lattice of a coarse level shows the corner of a thin triangle a fraction of a step outside
  of it; what is then measured is a part of the triangle's length. In `Sliver`, which no level changes, the coarse corner is
  two units from the finest one, `lod_error` is four, and the point that is measured to is 16 away. The docstring of `_point_to_faces` says
  that it errs large there, and calls it the safe direction, since it "can only fail a collection loudly rather than pass a bad one quietly"
  (`NothingFarPasses`, checked); but the fixture of `tests/test_verify.py` is "written the way the writer writes it, and therefore
  expected to pass". Hence `VerifierAccepts` says nothing of this check, and what `lod_error` does promise is stated of the
  vertices: `CoarseVerticesAreNear`, checked and proved.
- The check of `lod_error` measures to the finest faces. A vertex whose faces were all flat once the boundary was snapped, or fall
  together on the lattice, is still a vertex of its fragment but of none of them (`Bare`), and it can be reported, in an object
  with anything else left, however little the coarse level has changed. In `Sliver` every vertex
  has a face.
- A library vertex outside its cell fails the whole build in `encode_positions`, where the check
  behind the library looks only at what is pinned and at the border.
- The greedy `error` is measured to where the vertices went, which may be a vertex that is not in the
  output; the library's is measured from the vertices before to those after and not back. `CoarseVerticesAreNear` claims `lod_error`
  as a bound for the greedy backend only.
- With three levels a coarse level can be larger than the finer one: the builder warns and its verifier rejects.
- The loop of `choose_cell_size` that halves a cell size never runs: a size above 8 is the smallest power of two
  not below what is wanted.

## Proofs

All for every value of the constants under the ASSUMEs of the module, and of the hypotheses in a theorem's statement:

- `PublicationIsImplemented` and `ManifestLastIsEnough`: atomic puts and a single call. `RetriesLeaveNoDebris`: every call
  has the same parts. These are the cases the code speaks of; the runs `dangling` and `rewrite` have the others.
- `NestedBoundsAreNeverCulled`: the catalog is an octree with a mask for every cell (`Rooted`, which the builder makes) and
  bounds nest (`Nested`, which it does not: see `cull`).
- `ReadersAssumption`: no body and no collection is the marker for nothing.
- `BuildAssumption`: an object is a mesh with a point, in the cells that a code can name. The code raises for anything else
  before the finest level is complete (trimesh has no bounds of an empty mesh, `morton_encode` refuses a cell out of range;
  only a vertex that no face uses may be anywhere, and is left out). The budgets of parts and row groups are whole numbers.
  That
  `ratio ^ level` is a positive number is assumed for the levels there are, since the provers know powers of two
  from `CommonLemmas` and no others.
- `VerifyAssumption`: there is a candidate face. Nothing that is proved depends on how many.
- `LatticeAssumption`: `QuantMax` is odd, as 65535 is, and the unit of the coordinates is fine enough for every lattice.

- **`ChunkLoop_proofs`**: types; the runs partition the rows; the two budget properties. The
  invariants are not inductive alone: the bytes of a run are differences of prefix sums, so
  the induction carries that `offset` is such a sum (`Weighed`) and that the open run starts
  where the last closed one ends (`Contiguous`). `LoopComputesThePlan`: the operator folds over the
  rows, the loop walks along them, and the invariant is that the loop stands where the fold of the rows before it
  does (`Follows`). `LocatorsPointAtCells` needs no invariant beyond the types: it is about two plans, one within
  the parts of the other, and finds a row again from its places in both.
- **`Planner_proofs`**, of `Cut`, with what is chosen and what waits as its plan: refinement of cells keeps `Covers` and
  `OnlyNeededDetail`. The inductive step is geometric: a way down through a refined cell goes on into exactly one of
  its children. `Planner` implements `Cut` (initial states to initial states, `Descend` to
  `Refine`, every other turn to a stutter), so the two theorems of `Cut` hold of it; breadth-first
  order, from the invariant that what waits is of two neighbouring levels (`Ordered`); the budget, with the
  cardinalities of the sets it counts (`Counted`); `NoOvertaking`, from the fact that a refusal
  is never undone since the plan never shrinks (`Spent`). `NestedBoundsAreNeverCulled`: with nested bounds
  whatever a plane or a box lets through below, it lets through above (`FurthestIsFurthest`, of a scalar product that is a sum over the axes), so every
  cell on the way down to something visible is wanted; the plan, being a cut, meets that way.
- **`Protocol_proofs`**, of `WriteProtocol`: types; `ReturnedIsSound`, `NoDebris` and `ManifestMeansSound`. The invariant
  `SafeWriting` says, of a writer, that its accumulators are what the parts before `at` make them
  (`WritersProgress`), that what it put is still there while nobody else writes (`Kept`), and, of a
  store that only sees one call, that a manifest is only there when everything is (`ManifestComplete`).
- **`Protocol_proofs`**, of `ReadProtocol`: `IntactReadsSucceed`, and that `ReadProtocol` implements
  `Publication`. Both rest on `Knows(r, c)`: what a reader has open, its manifest, its catalog and the footers in
  its handles, is what the call `c` puts, and its last answer was not a failure. Opening, loading the
  catalog, opening a part and reading each keep it while the prefix is complete (`OpenKnows`, `LoadKnows`, `OpenPartKnows`,
  `ReadKnows`). For the first theorem the prefix is complete because nobody has written since (`IntactKnow`); for
  the second because a prefix that is complete stays so when only one call is ever written (`CompleteStays`), whoever is
  in the middle of rewriting it (`OpenKnow`). The put of the first manifest maps to `Publish`, every other put to a
  stutter, and opening a part to opening the collection again, since neither shows an answer.

- **`AsyncReader_proofs`**: types, with the semaphore's bound, by counting the tasks inside it
  (`NobodyIn`, `OneIn`); `HandlesAgree`, inductive as it stands, since every opening writes both tables
  (`WhatMovesFiles`); `OpenedOnce` and `OrderlyParsesFromMemory`, from one invariant (`Orderly`): a
  task that waits for or holds a lock has the lock of its part, one task fetches, openers that are done
  have opened (`OpenersDeliver`), fetchers that are done have primed the file that is read
  (`FetchersDeliver`). These need each other: a parse opens nothing because the openers have delivered, and they
  stay delivered because a parse opens nothing.
- **`StoreFile_proofs`**: from the invariant that whatever is kept is the object's, where it is kept
  for (`Faithful`), and the lemma that a slice of a window of an object is a window of the object
  (`SliceOfWindow`): types, the refinement of `RandomAccess`, `HeldIsLocal` and `NothingForgotten` (proved only), for
  objects and tail windows of any size.

- **`Build_proofs`**, of `Decimate`: it implements `Collapse` for any mesh, any pinned vertices, any target,
  interval and placement, and pinned vertices are held. The invariant is that `parent` is a forest (`Forest`): every
  set of vertices that is closed under parents holds the root of each of its vertices, so no way leads past a root
  and none goes round (`Grounded`). Without it the recursive function that finds a root is not known to have a
  value. The lemmas: looking for a root shortens paths and changes no root (`LookingChangesNoRoot`), nor does
  flattening the forest; linking two roots changes the roots of the one tree only (`LinkedIsForest`).
  `PinnedAreHeld` follows from the refinement and from `Collapse` (`MergeHolds`).
  Of `Lattice`: arithmetic. `SnapStaysInTheCell`: a coordinate that is not pinned is more than a whole
  step away from both cell faces, and a snap moves it half a step, so no snap crosses a face.
  `SnappedIsRepresentable`: for odd `QuantMax`, a coordinate on the coarsest lattice is decoded as itself by every
  level. Both rest on `NearestIsNearest`: rounding half to even finds a nearest multiple.
  `MortonRoundTrip` and `ChildCodesExtendTheirParents`: a code is a sum of bits at places that are all different, so
  its bits are those of the three coordinates; and the bits of a child are its parent's one place up, with the octant below them.
  Of `Build` and `Verify`: `BuildTyped`, `NothingEverVanishes`, `BuildHoldsThePinned`, `BuildRefinesCollapse`, all from one
  invariant, `BuildInv`, which TLC also checked on `build` before it was proved. Neither of the first two is inductive. That a piece is never
  without a face rests on what the retry loop was asked (`Answering`: a mesh with a face, and an answer, if there is one, that has one),
  which rests on pieces being welded from fragments that have faces, and on the collapse giving back a
  mesh (`Collapsible`). That every cell above a fragment is there at the end rests on the loops'
  work being split between `todo` and `perLevel`, with no piece in neither (`Covered`). That coordinates fit
  the lattice rests on a row being written only if nothing in it strays (`RowsFit`). The
  last two theorems need the forest of `Decimate` (`Inv`), since a build makes one collapse after another from whatever the
  last one left. Of the library they use only that what it returns is a mesh (`OutcomesAreMeshes`).
  `GreedySeamsAgree`: a vertex that a coarse piece has on a face of its cell is one of the finest level's, and both levels show
  it at one place, up to half a step along an axis on which it lies on a plane inside the coarse cell. The invariant
  is `SeamsInv`, of four parts that need each other and `BuildInv`. `Wanders`, of a collapse: the place of a vertex that may move
  is along every axis no lower and no higher than vertices that may move (a midpoint is, and what the roots hold is
  a place of one of their tree), and what is returned is pinned or so placed. `Answers`, of the retry loop: what was
  asked is the piece that is due, with the vertices on the cell's faces pinned. As the others are then strictly between two
  faces, so is all that comes back of them (`ReachedSettles`). `Settled`, of the pieces: every vertex is a point of
  the cut or inside its cell, and the finest pieces are the fragments as they were cut. `Seating`, of the fragments: a point
  is in its cell, and if it is on a plane of the finest level, then each of its coordinates is on a plane or a multiple
  of the coarsest step (`FragmentsSeated`, from `SnapSeats`). What is left is arithmetic: a coordinate on a multiple of a
  level's step is decoded as itself (`ShownExactly`), every level's step divides the coarsest (`StepsOfSteps`), and a plane is on the lattice
  of every level of which it is a face; any other is half a step off it at most (`AxesAgree`). `SnappingServesAllLevels` is the part
  that is due to the snap and not to the pins: whatever the backend, a point of the cut that is on a
  plane, every level that holds it shows alike.
- **`Verify_proofs`**, which builds on `Build_proofs`: `WhatIsWrittenReadsBack` and `EveryPieceReadsBack`: what is written is what was cut, read through the catalogs, the locators,
  the offsets and the weld; and at every level each piece is in the row its cell's locator leads to, and is what the offsets slice
  out of it. The invariant is `Shelved`, beside `BuildInv` and `SeamsInv`: what is on a level's shelf is the rows its
  cells are to have (`Shelves`), every catalogued cell has its own there, the object catalog names the cells of the object's pieces
  (`Catalogued`), and a collection nobody tampered with is what the writer makes of these (`Shelf`). The rest is about the
  operators. A plan, and a plan of row groups within it, divides the rows into lists that hold all of them, so the row group
  a locator names has its cell's row and no other cell's (`PartsDivide`, `GroupsDivide`, `LocatorFinds`, `RowIsRead`). A row's
  offsets are the running sums of what its pieces hold (`Totals`), a piece lies between its own and the next (`Spans`), and
  counting its faces from there gives back the piece (`PieceIsSliced`). One code is one cell (`OneCodeOneCell`, by
  `MortonRoundTrip`), so the pieces read for an object at level 0 are its fragments, each once (`CellsAreTheCuts`); and a weld
  keeps of the concatenated pieces exactly the faces whose corners stay apart (`FusedPlaces`, `ConcatenatedPlaces`).
  `WhatIsWrittenIsAccepted`, `LodErrorReachesTheCut` and `LodErrorReachesTheSurface`: the verifier accepts the structure and the rows
  of what was written and a level without a warning, and a greedy `lod_error` is a bound. The last is about the vertices and not about the
  verifier's check of them, which overstates distances (see `Sliver`): from a vertex as its cell shows it, to the nearest vertex of
  the cut, and to the nearest corner of the finest surface as it is read back.
  The invariant is `WrittenInv`, which adds two parts. `DriftInv` follows distances. Of a collapse (`Measured`),
  every vertex that is returned is within the returned error of one of the call's (`Near`); of the retry loop (`Deviates`), the same of what was asked; of the pieces (`Displaced`), the
  displacement that is kept of a cell is no less than that of any piece in it. `Tallied` is what the rows of the cell catalog
  say: the counts are those of the concatenated pieces, the mask names the children that exist, and `lod_error`
  is no less than the quantum and the displacement of the cell, nor than any child's; at the end ordinals are ranks and the builder has
  warned of every inversion. From these each check follows by itself: of the structure (`StructureStands`), of the rows
  (`BlobsStand`, from `CellIsRead` and the offsets being running sums), of the counts by level (`SmallerIsWarned`,
  a sum over cells of three indices a face). Of the bound (`NearCorners`): half a step at the coarse level, the displacement
  and half a step at the finest are at most the displacement and one quantum (`CoarseIsNear`), and the vertex that is
  reached is a corner of the finest surface (`ObjectReadsBack`) unless it is `Bare`.
  `NearIsAround`: along every axis the point that is measured to is a mean of the corners, with the clipped weights over their total, which
  are not negative and not all zero (`WeightsTyped`), so if all corners are beyond the limit on one side, the mean is (`MeanBeyond`).
  `WhatIsWrongIsFound`: the verifier rejects what was tampered with, at the tier that is to find it and at each one above.
  The invariant is `Marred` and `Reported`, beside `WrittenInv`: after a fault there is a tier, the fault's own, with something
  that its checks or those before it do not accept (`Seen`), no later step changes the collection (`SeenStays`), and a tier reports all
  that those below it would (`SeenIsReported`). The work is that `Tampering` makes it so, one kind of fault after the other
  (`TamperingMarks`), and most of it is that nothing else in the collection makes up for the fault. It needs more than that each row can be found: that
  each is in one place only (`Filed`: a shelf holds the row of a cell once, and of catalogued cells only; the runs of a
  plan share no place, `RunsShareNoPlace`; hence `RowIsSeated`). So a locator that leads to another row group leads to a table without the cell
  (`WrongPlaceIsSeen`), and a row that is changed is the row of one cell, which reads as what it is now, while every other reads as before
  (`RowIsReplaced`). A mask with an octant too many or too few is wrong because two octants are two child codes
  (`OctantsApart`). For a vertex that drifts from the boundary, the vertex below that only it matched has no match left: the others of the
  row and those of every other cell are where they were, and it has gone beyond what the check allows (`DriftIsSeen`).
- **`CommonLemmas`**: the induction theorems of the library take an operator, which no installed prover can instantiate;
  stated with a set in its place, as they are here, induction over the naturals and over finite sets is within reach. A fold of the
  community modules is then a function that exists (`FoldExists`), is unique, and can be reasoned about step by step.

Only model-checked:

- `Terminates` and `EveryCallEnds`: liveness under fairness is beyond the prover.
- `SeamsAgree` of the quadric backend. A library that moves a free vertex exactly onto a plane of the cell makes a vertex
  on a seam that no finer level has, and nothing checks for that (`QuadricSimplifier` looks only at what was pinned or on
  the border); in the instance no such move is among `LibraryOutcomes`. For the greedy backends it is proved.
- The four properties that are violated.
- `NothingFarPasses`, as a property of what a verification reports, of collections damaged or not. What it rests on, that the measure
  never puts a point nearer to a face than to the box around it, is proved for every face (`NearIsAround`).

## Abstractions, and what is not modelled

In `Mesh`, `Decimate` and above:

- coordinates are whole numbers: a midpoint is rounded down to a unit, a distance is the largest
  of the three differences, in the errors of a collapse as in the check of `lod_error`, where the code has the Euclidean norm in both.
  The properties compare places, or distances with bounds that were computed with the same measure;
- trimesh's slicing is external. The inputs have no face that crosses a level-0 plane, as if they had been
  sliced before, and a face is kept by every cell it is in; this is where the seams come from, and they do not depend on
  how a face was cut, only on both cells having the same vertices on the plane;
- `fast_simplification` is external: it returns nothing, the mesh, or the mesh with one of its shortest edges gone and the
  remaining vertex in one of four places, whatever the target. What follows is to depend on none of it;
- the packing of bytes (`codecs/raw.py`, `codecs/meshopt.py`, compression) is lossless and left out; a vertex is six bytes
  and an index four, for the budgets of parts and row groups.

Not modelled: Parquet itself and the schemas of `frames.py`; validation of arguments and paths, which raises before
anything happens; `sources.py` (adapters without state); `choose_cell_size` (it picks an argument with
percentiles and logarithms, and keeps nothing); `Camera.screen_error` (real arithmetic; what it comes to, the set of
cells whose error fits, is a parameter of `Planner`); `aopen_collection` (the synchronous opening with one await in
it); the rendering of reports; examples and benchmarks.

What is left to do: in the model, the listing for manifests that name no parts.
