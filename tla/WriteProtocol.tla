---------------------------- MODULE WriteProtocol -----------------------------
(***************************************************************************)
(* writer.write_collection against a store, under one prefix: the geometry *)
(* parts level by level, then the cell catalog that points into them, then *)
(* the object catalog, and the manifest last.                              *)
(*                                                                         *)
(* A writer is one run of write_collection.  There can be several: a       *)
(* cancelled awrite_collection leaves its worker thread writing, and the   *)
(* caller is free to try again.  A run can be interrupted before any of    *)
(* its puts (the process dies, the store raises); nothing is cleaned up.   *)
(*                                                                         *)
(* A call stands for the arguments of write_collection: a built collection *)
(* and the two byte budgets, which with the rows of the collection         *)
(* determine its parts and their row groups (module Chunking).  A path's   *)
(* body is a record of what the bytes say.                                 *)
(***************************************************************************)
EXTENDS Naturals

CONSTANTS
    Writers,        \* runs of write_collection that may be under way at once
    Calls,          \* the arguments it is called with
    Collection,     \* Collection[c]: the built collection of a call
    Cells,          \* Morton codes
    NumLevels,      \* NumLevels[c]: how many levels are written
    NumParts,       \* NumParts[c][l]: how many parts the byte budget cuts level l into
    Groups,         \* Groups[c][p]: the row groups of part p, numbered from 0, as sets of cells
    PartSize,       \* PartSize[c][p]: the length of the body of part p
    CatalogKeys,    \* CatalogKeys[c]: the <<level, cell>> rows of the cell catalog
    AtomicPuts,     \* MemoryStore and object stores, as against DirectoryStore
    Absent,         \* no object at a path
    Torn,           \* an object that is not the whole body of any one put
    Null            \* a catalog row without a locator; no call

Levels(c) == 0 .. NumLevels[c] - 1
PartIds(c) == UNION {{l} \X (0 .. NumParts[c][l] - 1) : l \in Levels(c)}

\* Every collection has a level and every level a part, empty or not; the catalog has
\* a row for each cell of the geometry, and for no other (build.build_collection).
ASSUME CallsAssumption ==
    \A c \in Calls :
        /\ NumLevels[c] \in Nat \ {0}
        /\ \A l \in Levels(c) : NumParts[c][l] \in Nat \ {0}
        /\ \A p \in PartIds(c) :
              /\ PartSize[c][p] \in Nat
              /\ \A g \in DOMAIN Groups[c][p] : Groups[c][p][g] \subseteq Cells
        /\ \A key \in CatalogKeys[c] :
              /\ key \in Levels(c) \X Cells
              /\ \E p \in PartIds(c) : /\ p[1] = key[1]
                                       /\ \E g \in DOMAIN Groups[c][p] : key[2] \in Groups[c][p][g]

ASSUME StoreAssumption == AtomicPuts \in BOOLEAN

-----------------------------------------------------------------------------
(* Where things are put, and what is put there.                            *)

ManifestPath == <<"maille.json", 0, 0>>
CellsPath    == <<"catalog/cells.parquet", 0, 0>>
ObjectsPath  == <<"catalog/objects.parquet", 0, 0>>
PartPath(p)  == <<"part", p[1], p[2]>>
PartPaths    == {PartPath(p) : p \in UNION {PartIds(c) : c \in Calls}}
Paths        == {ManifestPath, CellsPath, ObjectsPath} \cup PartPaths

Keys == UNION {CatalogKeys[c] : c \in Calls}

FileEntry(c, p) ==
    [path |-> PartPath(p), size |-> PartSize[c][p], row_groups |-> DOMAIN Groups[c][p]]

PartBody(c, p) ==
    [kind |-> "part", of |-> Collection[c], level |-> p[1],
     groups |-> Groups[c][p], size |-> PartSize[c][p]]

\* writer._locate for one part, over the cells of its level.
PartLocators(c, p) ==
    [cell \in UNION {Groups[c][p][g] : g \in DOMAIN Groups[c][p]} |->
        [part |-> p[2],
         row_group |-> CHOOSE g \in DOMAIN Groups[c][p] : cell \in Groups[c][p][g]]]

\* locators.update(_locate(part)): what the part holds is overwritten, the rest kept.
Located(locs, c, p) ==
    [key \in Keys |-> IF key[1] = p[1] /\ key[2] \in DOMAIN PartLocators(c, p)
                      THEN PartLocators(c, p)[key[2]]
                      ELSE locs[key]]

\* writer._with_locators: a catalog row the geometry never located keeps its nulls.
CatalogBody(c, locs) ==
    [kind |-> "cells", of |-> Collection[c],
     rows |-> [key \in CatalogKeys[c] |-> locs[key]]]

ObjectsBody(c) == [kind |-> "objects", of |-> Collection[c]]

ManifestBody(c, files) == [kind |-> "manifest", of |-> Collection[c], files |-> files]

CallParts == UNION {{c} \X PartIds(c) : c \in Calls}

FileEntries == {FileEntry(cp[1], cp[2]) : cp \in CallParts}

Locators == [part : {cp[2][2] : cp \in CallParts},
              row_group : UNION {DOMAIN Groups[cp[1]][cp[2]] : cp \in CallParts}]

Bodies ==
    UNION {{PartBody(cp[1], cp[2]) : cp \in CallParts},
           [kind : {"cells"}, of : {Collection[c] : c \in Calls},
            rows : UNION {[CatalogKeys[c] -> Locators \cup {Null}] : c \in Calls}],
           {ObjectsBody(c) : c \in Calls},
           [kind : {"manifest"}, of : {Collection[c] : c \in Calls}, files : SUBSET FileEntries]}

\* The markers are not what a put or a loop over parts makes.
ASSUME MarkersAssumption ==
    /\ Absent # Torn
    /\ Absent \notin Bodies /\ Torn \notin Bodies
    /\ Null \notin Locators /\ Null \notin Calls

-----------------------------------------------------------------------------
VARIABLES
    store,      \* what is at each path
    phase,      \* where each writer is
    call,       \* the arguments it was called with
    at,         \* the part <<level, number>> the loop is at
    files,      \* the FileEntry of every part put so far
    locators,   \* where each key was put so far
    opened,     \* it has truncated the file of the put under way (DirectoryStore)
    alone       \* history: no other writer has touched the store since the call

vars == <<store, phase, call, at, files, locators, opened, alone>>

Phases  == {"idle", "parts", "cells", "objects", "manifest", "returned"}
Writing == {"parts", "cells", "objects", "manifest"}

Init ==
    /\ store = [path \in Paths |-> Absent]
    /\ phase = [w \in Writers |-> "idle"]
    /\ call = [w \in Writers |-> Null]
    /\ at = [w \in Writers |-> <<0, 0>>]
    /\ files = [w \in Writers |-> {}]
    /\ locators = [w \in Writers |-> [key \in Keys |-> Null]]
    /\ opened = [w \in Writers |-> FALSE]
    /\ alone = [w \in Writers |-> FALSE]

\* A faulty call, whose list of files outlives it.
CallKeepingFiles(w, c) ==
    /\ phase[w] \notin Writing
    /\ phase' = [phase EXCEPT ![w] = "parts"]
    /\ call' = [call EXCEPT ![w] = c]
    /\ at' = [at EXCEPT ![w] = <<0, 0>>]
    /\ locators' = [locators EXCEPT ![w] = [key \in Keys |-> Null]]
    /\ alone' = [alone EXCEPT ![w] = TRUE]
    /\ UNCHANGED <<store, opened, files>>

\* The call: the frames are validated, the accumulators start empty.
Call(w, c) ==
    /\ phase[w] \notin Writing
    /\ phase' = [phase EXCEPT ![w] = "parts"]
    /\ call' = [call EXCEPT ![w] = c]
    /\ at' = [at EXCEPT ![w] = <<0, 0>>]
    /\ files' = [files EXCEPT ![w] = {}]
    /\ locators' = [locators EXCEPT ![w] = [key \in Keys |-> Null]]
    /\ alone' = [alone EXCEPT ![w] = TRUE]
    /\ UNCHANGED <<store, opened>>

\* The path of the put a writer is at.
Target(w) ==
    CASE phase[w] = "parts"    -> PartPath(at[w])
      [] phase[w] = "cells"    -> CellsPath
      [] phase[w] = "objects"  -> ObjectsPath
      [] phase[w] = "manifest" -> ManifestPath

Touches(w) == alone' = [v \in Writers |-> v = w /\ alone[v]]

\* DirectoryStore.put opens the file before it writes it, which empties it.
Truncate(w) ==
    /\ ~AtomicPuts
    /\ phase[w] \in Writing
    /\ ~opened[w]
    /\ opened' = [opened EXCEPT ![w] = TRUE]
    /\ store' = [store EXCEPT ![Target(w)] = Torn]
    /\ Touches(w)
    /\ UNCHANGED <<phase, call, at, files, locators>>

\* The put itself.  Two DirectoryStore puts that both had the file open write over each
\* other: what is left is whole only when they wrote the same bytes.
Put(w, path, body) ==
    /\ AtomicPuts \/ opened[w]
    /\ store' = [store EXCEPT ![path] = IF AtomicPuts \/ @ \in {Torn, body} THEN body ELSE Torn]
    /\ opened' = [opened EXCEPT ![w] = FALSE]
    /\ Touches(w)

NextPart(c, p) ==
    IF p[2] + 1 < NumParts[c][p[1]] THEN <<p[1], p[2] + 1>> ELSE <<p[1] + 1, 0>>

\* One turn of the loop over parts, given what the files become and the phase after the last.
PutPartThen(w, entries, last) ==
    LET c == call[w]
        p == at[w]
    IN  /\ phase[w] = "parts"
        /\ Put(w, PartPath(p), PartBody(c, p))
        /\ files' = [files EXCEPT ![w] = entries]
        /\ locators' = [locators EXCEPT ![w] = Located(@, c, p)]
        /\ at' = [at EXCEPT ![w] = NextPart(c, p)]
        /\ phase' = [phase EXCEPT ![w] = IF NextPart(c, p) \in PartIds(c) THEN "parts" ELSE last]
        /\ UNCHANGED call

\* Faulty turns: one that remembers only its own entry, one that is followed by the manifest,
\* one that does not notice the last part.
PutPartForgetting(w) == PutPartThen(w, {FileEntry(call[w], at[w])}, "cells")
PutPartCatalogLast(w) == PutPartThen(w, files[w] \cup {FileEntry(call[w], at[w])}, "manifest")
PutPartEndlessly(w) == PutPartThen(w, files[w] \cup {FileEntry(call[w], at[w])}, "parts")

\* The body is put, then its entry and its locators are recorded.  What follows the last part
\* of the last level is the cell catalog.
PutPart(w) == PutPartThen(w, files[w] \cup {FileEntry(call[w], at[w])}, "cells")

PutCells(w) ==
    /\ phase[w] = "cells"
    /\ Put(w, CellsPath, CatalogBody(call[w], locators[w]))
    /\ phase' = [phase EXCEPT ![w] = "objects"]
    /\ UNCHANGED <<call, at, files, locators>>

PutObjects(w) ==
    /\ phase[w] = "objects"
    /\ Put(w, ObjectsPath, ObjectsBody(call[w]))
    /\ phase' = [phase EXCEPT ![w] = "manifest"]
    /\ UNCHANGED <<call, at, files, locators>>

\* "Only now is the collection a collection."
PutManifest(w) ==
    /\ phase[w] = "manifest"
    /\ Put(w, ManifestPath, ManifestBody(call[w], files[w]))
    /\ phase' = [phase EXCEPT ![w] = "returned"]
    /\ UNCHANGED <<call, at, files, locators>>

\* The process dies or a put raises.  A file that was truncated stays truncated.
Interrupt(w) ==
    /\ phase[w] \in Writing
    /\ phase' = [phase EXCEPT ![w] = "idle"]
    /\ call' = [call EXCEPT ![w] = Null]
    /\ at' = [at EXCEPT ![w] = <<0, 0>>]
    /\ files' = [files EXCEPT ![w] = {}]
    /\ locators' = [locators EXCEPT ![w] = [key \in Keys |-> Null]]
    /\ opened' = [opened EXCEPT ![w] = FALSE]
    /\ UNCHANGED <<store, alone>>

Write(w) == PutPart(w) \/ PutCells(w) \/ PutObjects(w) \/ PutManifest(w)

WriterNext ==
    \E w \in Writers :
        \/ \E c \in Calls : Call(w, c)
        \/ Truncate(w)
        \/ Write(w)
        \/ Interrupt(w)

Spec == Init /\ [][WriterNext]_vars

-----------------------------------------------------------------------------
(* What a prefix must be for a reader to trust it.                         *)

\* Every variable has its type: there is nothing at a path, a torn object, or a body; a
\* writer in the loop is at a part of its call.
TypeOK ==
    /\ store \in [Paths -> {Absent, Torn} \cup Bodies]
    /\ phase \in [Writers -> Phases]
    /\ call \in [Writers -> Calls \cup {Null}]
    /\ at \in [Writers -> Nat \X Nat]
    /\ files \in [Writers -> SUBSET FileEntries]
    /\ locators \in [Writers -> [Keys -> Locators \cup {Null}]]
    /\ opened \in [Writers -> BOOLEAN]
    /\ alone \in [Writers -> BOOLEAN]
    /\ \A w \in Writers :
          /\ phase[w] # "idle" => call[w] \in Calls
          /\ phase[w] = "parts" => at[w] \in PartIds(call[w])

Whole(path) == store[path] \notin {Absent, Torn}

\* Every part the manifest names is there, as long and in as many row groups as it says.
FilesAreThere ==
    \A entry \in store[ManifestPath].files :
        /\ Whole(entry.path)
        /\ store[entry.path].size = entry.size
        /\ DOMAIN store[entry.path].groups = entry.row_groups

\* Every row of the cell catalog has a locator, the manifest names the part it points into,
\* and the row group it points at holds the cell.
LocatorsResolve ==
    /\ Whole(CellsPath)
    /\ \A key \in DOMAIN store[CellsPath].rows :
          LET loc  == store[CellsPath].rows[key]
              path == <<"part", key[1], loc.part>>
          IN  /\ loc # Null
              /\ \E entry \in store[ManifestPath].files : entry.path = path
              /\ Whole(path)
              /\ loc.row_group \in DOMAIN store[path].groups
              /\ key[2] \in store[path].groups[loc.row_group]

\* Everything the manifest names belongs to the collection the manifest describes.
OneCollection ==
    /\ Whole(ObjectsPath)
    /\ \A path \in {CellsPath, ObjectsPath} \cup {e.path : e \in store[ManifestPath].files} :
          store[path].of = store[ManifestPath].of

Sound == Whole(ManifestPath) /\ FilesAreThere /\ LocatorsResolve /\ OneCollection

\* Whatever was under the prefix before -- parts of an interrupted run, another collection,
\* torn files -- a run of write_collection that returned with nobody else writing leaves its
\* own collection, complete: a retry heals everything it finds (writer.write_collection).
ReturnedIsSound ==
    \A w \in Writers :
        phase[w] = "returned" /\ alone[w] =>
            Sound /\ store[ManifestPath].of = Collection[call[w]]

\* "Everything the manifest names now exists": at every moment, through interrupted runs,
\* retries and runs that overlap, a manifest that can be read describes what is there
\* (writer.write_collection puts it last).  So it is where a prefix only ever sees one call
\* and the store puts atomically; NoManifestOverDanglingCatalog below says what else can be.
ManifestMeansSound == Whole(ManifestPath) => Sound

-----------------------------------------------------------------------------
(* What the repository says of interrupted and repeated writes, and what   *)
(* rewriting a prefix does to it.                                          *)

\* "An interrupted write can now leave a catalog pointing at nothing only if it also leaves
\* no manifest" (the docstring of writer.write_collection): with nobody writing, a catalog
\* with a row whose part or row group does not exist means there is no manifest.
NoManifestOverDanglingCatalog ==
    (\A w \in Writers : phase[w] \notin Writing) /\ Whole(CellsPath) /\ Whole(ManifestPath) =>
        \A key \in DOMAIN store[CellsPath].rows :
            LET loc  == store[CellsPath].rows[key]
                path == <<"part", key[1], loc.part>>
            IN  Whole(path) /\ loc.row_group \in DOMAIN store[path].groups

\* "A retried write must not leave debris" (test_writing_twice_replaces_rather_than_accumulates):
\* when a write has returned, with nobody else writing, the prefix holds what its manifest
\* names and nothing else.
NoDebris ==
    \A w \in Writers : phase[w] = "returned" /\ alone[w] =>
        \A path \in PartPaths :
            store[path] # Absent => \E entry \in store[ManifestPath].files : entry.path = path
=============================================================================
