----------------------------- MODULE ReadProtocol -----------------------------
(***************************************************************************)
(* The writers of WriteProtocol together with readers of the same prefix:  *)
(* reader.Collection, one step per access to the store.  Opening reads the *)
(* manifest and nothing else; the cell catalog is read at its first use    *)
(* and a part's footer at the first read of one of its cells, and both are *)
(* kept.  The asynchronous path makes the same accesses (AsyncReader says  *)
(* how it arranges them).                                                  *)
(***************************************************************************)
EXTENDS WriteProtocol

CONSTANTS Readers

\* What the bytes of a path say is something, and so is a built collection.
ASSUME ReadersAssumption == Null \notin Bodies /\ \A c \in Calls : Collection[c] # Null

VARIABLES
    held,      \* the manifest a reader's Collection was opened with
    catalog,   \* its cells, once read
    handles,   \* _parquet_files: the body each open part had when its footer was read
    outcome,   \* what the last call answered
    intact     \* history: the prefix was complete when opened, and is untouched since

readers == <<held, catalog, handles, outcome, intact>>
allVars == <<vars, readers>>

ReaderInit ==
    /\ held = [r \in Readers |-> Null]
    /\ catalog = [r \in Readers |-> Null]
    /\ handles = [r \in Readers |-> [path \in PartPaths |-> Null]]
    /\ outcome = [r \in Readers |-> [what |-> "none"]]
    /\ intact = [r \in Readers |-> FALSE]

Answer(r, what) == outcome' = [outcome EXCEPT ![r] = [what |-> what]]

\* A faulty opening, that keeps the handles of the Collection before it.
OpenKeepingHandles(r) ==
    /\ held' = [held EXCEPT ![r] = IF Whole(ManifestPath) THEN store[ManifestPath] ELSE Null]
    /\ catalog' = [catalog EXCEPT ![r] = Null]
    /\ intact' = [intact EXCEPT ![r] = \E w \in Writers : phase[w] = "returned" /\ alone[w]]
    /\ Answer(r, IF Whole(ManifestPath) THEN "none"
                 ELSE IF store[ManifestPath] = Absent THEN "unfinished" ELSE "malformed")
    /\ UNCHANGED handles

\* open_collection.  A missing manifest is an UnfinishedCollectionError, one that does not
\* parse a FormatError, and neither yields a Collection.
Open(r) ==
    /\ held' = [held EXCEPT ![r] = IF Whole(ManifestPath) THEN store[ManifestPath] ELSE Null]
    /\ catalog' = [catalog EXCEPT ![r] = Null]
    /\ handles' = [handles EXCEPT ![r] = [path \in PartPaths |-> Null]]
    /\ intact' = [intact EXCEPT ![r] = \E w \in Writers : phase[w] = "returned" /\ alone[w]]
    /\ Answer(r, IF Whole(ManifestPath) THEN "none"
                 ELSE IF store[ManifestPath] = Absent THEN "unfinished" ELSE "malformed")

\* Collection.cells, a cached property: a failure is not cached.
LoadCatalog(r) ==
    /\ held[r] # Null
    /\ catalog[r] = Null
    /\ catalog' = [catalog EXCEPT ![r] = IF Whole(CellsPath) THEN store[CellsPath].rows ELSE Null]
    /\ Answer(r, IF Whole(CellsPath) THEN "none" ELSE "failed")
    /\ UNCHANGED <<held, handles, intact>>

PartOf(r, key) == <<"part", key[1], catalog[r][key].part>>

\* What a Parquet reader told the part is `size` bytes long finds there: a footer, or not.
Footer(path, size) == IF Whole(path) /\ store[path].size = size THEN store[path] ELSE Null

\* Collection._parquet_file, for a part not open yet.  A part the manifest does not name is
\* a FormatError, before the store is asked.
OpenPart(r, key) ==
    LET path   == PartOf(r, key)
        named  == {entry \in held[r].files : entry.path = path}
        footer == IF named = {} THEN Null ELSE Footer(path, (CHOOSE e \in named : TRUE).size)
    IN  /\ handles[r][path] = Null
        /\ handles' = [handles EXCEPT ![r][path] = footer]
        /\ Answer(r, IF footer = Null THEN "failed" ELSE "none")
        /\ UNCHANGED <<held, catalog, intact>>

\* read_row_group and _decode: the footer says where the row group is, `body` is the file
\* whose bytes are read there.
CellFrom(body, footer, loc, cell) ==
    IF /\ loc.row_group \in DOMAIN footer.groups
       /\ body \notin {Absent, Torn}
       /\ body.groups = footer.groups
       /\ body.size = footer.size
       /\ cell \in body.groups[loc.row_group]
    THEN [what |-> "geometry", of |-> body.of, key |-> <<body.level, cell>>]
    ELSE [what |-> "failed"]

\* Collection.read_cell over an open part.  A row group inside the tail window was read with
\* the footer; any other is read now.
ReadCell(r, key) ==
    LET path == PartOf(r, key)
    IN  /\ handles[r][path] # Null
        /\ \E body \in {handles[r][path], store[path]} :
              outcome' = [outcome EXCEPT
                  ![r] = CellFrom(body, handles[r][path], catalog[r][key], key[2])]
        /\ UNCHANGED <<held, catalog, handles, intact>>

\* Collection.release: the catalogs stay.
Release(r) ==
    /\ held[r] # Null
    /\ handles' = [handles EXCEPT ![r] = [path \in PartPaths |-> Null]]
    /\ UNCHANGED <<held, catalog, outcome, intact>>

ReaderNext ==
    \E r \in Readers :
        \/ Open(r)
        \/ LoadCatalog(r)
        \/ /\ catalog[r] # Null
           /\ \E key \in DOMAIN catalog[r] : OpenPart(r, key) \/ ReadCell(r, key)
        \/ Release(r)

ReadInit == Init /\ ReaderInit

ReadNext ==
    \/ /\ WriterNext
       /\ intact' = [r \in Readers |-> intact[r] /\ store' = store]
       /\ UNCHANGED <<held, catalog, handles, outcome>>
    \/ ReaderNext /\ UNCHANGED vars

ReadSpec == ReadInit /\ [][ReadNext]_allVars

-----------------------------------------------------------------------------
\* A reader that opened a prefix some run of write_collection had completed, and that nobody
\* has touched since, is never refused a cell its catalog lists and is given that cell of the
\* collection it opened -- whatever debris the prefix holds besides (the chain manifest ->
\* catalog -> locator -> part -> row group, writer.write_collection to reader._decode).
IntactReadsSucceed ==
    \A r \in Readers : intact[r] =>
        /\ outcome[r].what \in {"none", "geometry"}
        /\ outcome[r].what = "geometry" =>
              /\ outcome[r].of = held[r].of
              /\ outcome[r].key \in DOMAIN catalog[r]

-----------------------------------------------------------------------------
(* Publication, where one collection is written with one call: what the    *)
(* prefix is, is what its manifest says.                                   *)

Published == IF Whole(ManifestPath) THEN store[ManifestPath].of ELSE Null
View      == [r \in Readers |-> IF held[r] = Null THEN Null ELSE held[r].of]
LastRead  == [r \in Readers |->
                CASE outcome[r].what = "geometry" -> <<outcome[r].of, outcome[r].key>>
                  [] outcome[r].what = "failed"   -> <<"failed">>
                  [] OTHER                        -> Null]

KeysOf(x) == UNION {CatalogKeys[c] : c \in {d \in Calls : Collection[d] = x}}

Abstract == INSTANCE Publication
    WITH Collections <- {Collection[c] : c \in Calls}, Nothing <- Null, Keys <- KeysOf,
         published <- Published, view <- View, answer <- LastRead

\* Every step of the writers and the readers is a step of Publication or changes nothing it
\* can see: the collection appears with the put of the manifest, however often the write is
\* interrupted, retried or run twice at once, and no read of it ever fails.
PublishesAtomically == Abstract!Spec
=============================================================================
