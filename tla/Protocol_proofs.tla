---------------------------- MODULE Protocol_proofs ----------------------------
(***************************************************************************)
(* Proofs about writer.write_collection and the reader.Collections beside  *)
(* it: first the writers alone (WriteProtocol), then with readers          *)
(* (ReadProtocol).  For every set of writers and readers, every number of  *)
(* levels and parts, every collection, and stores that put atomically or   *)
(* not.                                                                    *)
(***************************************************************************)
EXTENDS ReadProtocol, TLAPS

-----------------------------------------------------------------------------
(* Parts, and the order the loop puts them in.                             *)

LEMMA PartIdsShape ==
    ASSUME NEW c \in Calls
    PROVE  /\ \A p \in PartIds(c) : /\ p = <<p[1], p[2]>>
                                    /\ p[1] \in Levels(c)
                                    /\ p[2] \in 0 .. NumParts[c][p[1]] - 1
                                    /\ p[1] \in Nat /\ p[2] \in Nat
           /\ \A l \in Levels(c) : \A n \in 0 .. NumParts[c][l] - 1 : <<l, n>> \in PartIds(c)
           /\ NumLevels[c] \in Nat \ {0}
           /\ \A l \in Levels(c) : NumParts[c][l] \in Nat \ {0}
<1>1. NumLevels[c] \in Nat \ {0} /\ \A l \in Levels(c) : NumParts[c][l] \in Nat \ {0}
  BY CallsAssumption
<1> QED
  BY <1>1 DEF PartIds, Levels

PartBefore(p, q) == p[1] < q[1] \/ (p[1] = q[1] /\ p[2] < q[2])

\* The parts in front of q.
PartsBefore(c, q) == {p \in PartIds(c) : PartBefore(p, q)}

LEMMA NoPartBeforeTheFirst ==
    ASSUME NEW c \in Calls
    PROVE  /\ <<0, 0>> \in PartIds(c)
           /\ PartsBefore(c, <<0, 0>>) = {}
<1>1. 0 \in Levels(c)
  BY PartIdsShape DEF Levels
<1> QED
  BY <1>1, PartIdsShape DEF PartsBefore, PartBefore

LEMMA NextPartShape ==
    ASSUME NEW c \in Calls, NEW p \in PartIds(c)
    PROVE  /\ p \notin PartsBefore(c, p)
           /\ PartsBefore(c, NextPart(c, p)) = PartsBefore(c, p) \cup {p}
           /\ NextPart(c, p) \notin PartIds(c) => PartsBefore(c, p) \cup {p} = PartIds(c)
<1>1. /\ p = <<p[1], p[2]>> /\ p[1] \in Nat /\ p[2] \in Nat /\ p[1] \in Levels(c)
      /\ p[2] \in 0 .. NumParts[c][p[1]] - 1
  BY PartIdsShape
<1>2. p \notin PartsBefore(c, p)
  BY <1>1 DEF PartsBefore, PartBefore
<1>3. CASE p[2] + 1 < NumParts[c][p[1]]
  <2>1. NextPart(c, p) = <<p[1], p[2] + 1>>
    BY <1>3 DEF NextPart
  <2>2. \A q \in PartIds(c) : PartBefore(q, <<p[1], p[2] + 1>>) <=> PartBefore(q, p) \/ q = p
    BY <1>1, PartIdsShape DEF PartBefore
  <2>3. <<p[1], p[2] + 1>> \in PartIds(c)
    <3>1. p[2] + 1 \in 0 .. NumParts[c][p[1]] - 1
      BY <1>1, <1>3, PartIdsShape
    <3> QED
      BY <1>1, <3>1, PartIdsShape
  <2> QED
    BY <1>2, <2>1, <2>2, <2>3 DEF PartsBefore
<1>4. CASE ~(p[2] + 1 < NumParts[c][p[1]])
  <2>1. NextPart(c, p) = <<p[1] + 1, 0>>
    BY <1>4 DEF NextPart
  <2>2. NumParts[c][p[1]] = p[2] + 1
    BY <1>1, <1>4, PartIdsShape
  <2>3. \A q \in PartIds(c) : PartBefore(q, <<p[1] + 1, 0>>) <=> PartBefore(q, p) \/ q = p
    <3> SUFFICES ASSUME NEW q \in PartIds(c)
                 PROVE  PartBefore(q, <<p[1] + 1, 0>>) <=> PartBefore(q, p) \/ q = p
      OBVIOUS
    <3>1. q = <<q[1], q[2]>> /\ q[1] \in Nat /\ q[2] \in Nat /\ q[2] \in 0 .. NumParts[c][q[1]] - 1
      BY PartIdsShape
    <3>2. q[1] = p[1] => q[2] <= p[2]
      BY <1>1, <2>2, <3>1
    <3> QED
      BY <1>1, <3>1, <3>2 DEF PartBefore
  <2>4. <<p[1] + 1, 0>> \notin PartIds(c) => \A q \in PartIds(c) : PartBefore(q, <<p[1] + 1, 0>>)
    <3> SUFFICES ASSUME <<p[1] + 1, 0>> \notin PartIds(c), NEW q \in PartIds(c)
                 PROVE  PartBefore(q, <<p[1] + 1, 0>>)
      OBVIOUS
    <3>1. p[1] + 1 \notin Levels(c)
      <4>1. \A l \in Levels(c) : 0 \in 0 .. NumParts[c][l] - 1
        BY PartIdsShape
      <4> QED
        BY <4>1, PartIdsShape
    <3>2. p[1] + 1 = NumLevels[c]
      BY <1>1, <3>1, PartIdsShape DEF Levels
    <3>3. q[1] \in 0 .. NumLevels[c] - 1 /\ q[1] \in Nat
      BY PartIdsShape DEF Levels
    <3>4. q[1] < p[1] + 1
      BY <1>1, <3>2, <3>3, PartIdsShape
    <3> QED
      BY <3>4 DEF PartBefore
  <2> QED
    BY <1>2, <2>1, <2>3, <2>4 DEF PartsBefore
<1> QED
  BY <1>3, <1>4

-----------------------------------------------------------------------------
(* Paths and bodies.                                                       *)

LEMMA PathsDiffer ==
    ASSUME NEW p, NEW q
    PROVE  /\ PartPath(p) \notin {ManifestPath, CellsPath, ObjectsPath}
           /\ ManifestPath # CellsPath /\ ManifestPath # ObjectsPath /\ CellsPath # ObjectsPath
           /\ PartPath(p) = PartPath(q) => p[1] = q[1] /\ p[2] = q[2]
  BY DEF PartPath, ManifestPath, CellsPath, ObjectsPath

LEMMA PartPathTyped ==
    ASSUME NEW c \in Calls, NEW p \in PartIds(c)
    PROVE  PartPath(p) \in PartPaths
  BY DEF PartPaths

LEMMA PartTyped ==
    ASSUME NEW c \in Calls, NEW p \in PartIds(c)
    PROVE  /\ PartBody(c, p) \in Bodies
           /\ FileEntry(c, p) \in FileEntries
           /\ <<c, p>> \in CallParts
<1>1. <<c, p>> \in CallParts
  BY DEF CallParts
<1> QED
  BY <1>1 DEF Bodies, FileEntries

LEMMA LocatorTyped ==
    ASSUME NEW c \in Calls, NEW p \in PartIds(c), NEW cell \in DOMAIN PartLocators(c, p)
    PROVE  /\ PartLocators(c, p)[cell] \in Locators
           /\ PartLocators(c, p)[cell].part = p[2]
           /\ PartLocators(c, p)[cell].row_group \in DOMAIN Groups[c][p]
           /\ cell \in Groups[c][p][PartLocators(c, p)[cell].row_group]
<1>1. PICK g \in DOMAIN Groups[c][p] : cell \in Groups[c][p][g]
  BY DEF PartLocators
<1> DEFINE h == CHOOSE x \in DOMAIN Groups[c][p] : cell \in Groups[c][p][x]
<1>2. PartLocators(c, p)[cell] = [part |-> p[2], row_group |-> h]
  BY DEF PartLocators
<1>3. h \in DOMAIN Groups[c][p] /\ cell \in Groups[c][p][h]
  BY <1>1
<1> HIDE DEF h
<1>4. PICK cp \in CallParts : cp[1] = c /\ cp[2] = p
  BY PartTyped
<1>5. p[2] \in {x[2][2] : x \in CallParts}
  BY <1>4
<1>6. DOMAIN Groups[c][p] \subseteq UNION {DOMAIN Groups[x[1]][x[2]] : x \in CallParts}
  BY <1>4
<1>7. [part |-> p[2], row_group |-> h] \in Locators
  BY <1>3, <1>5, <1>6 DEF Locators
<1> QED
  BY <1>2, <1>3, <1>7

LEMMA LocatedTyped ==
    ASSUME NEW c \in Calls, NEW p \in PartIds(c), NEW locs \in [Keys -> Locators \cup {Null}]
    PROVE  Located(locs, c, p) \in [Keys -> Locators \cup {Null}]
  BY LocatorTyped DEF Located

LEMMA CatalogTyped ==
    ASSUME NEW c \in Calls, NEW locs \in [Keys -> Locators \cup {Null}]
    PROVE  CatalogBody(c, locs) \in Bodies
<1>1. CatalogKeys[c] \subseteq Keys
  BY DEF Keys
<1>2. [key \in CatalogKeys[c] |-> locs[key]] \in [CatalogKeys[c] -> Locators \cup {Null}]
  BY <1>1
<1>3. [key \in CatalogKeys[c] |-> locs[key]] \in UNION {[CatalogKeys[d] -> Locators \cup {Null}] : d \in Calls}
  BY <1>2
<1>4. Collection[c] \in {Collection[d] : d \in Calls}
  OBVIOUS
<1> QED
  BY <1>3, <1>4 DEF CatalogBody, Bodies

LEMMA ManifestTyped ==
    ASSUME NEW c \in Calls, NEW entries \in SUBSET FileEntries
    PROVE  ManifestBody(c, entries) \in Bodies /\ ObjectsBody(c) \in Bodies
<1>1. Collection[c] \in {Collection[d] : d \in Calls}
  OBVIOUS
<1> QED
  BY <1>1 DEF ManifestBody, ObjectsBody, Bodies

-----------------------------------------------------------------------------
(* What a writer knows.  Its own variables say of the parts it has put     *)
(* where they are; the store agrees while nobody else writes, or as long   *)
(* as everybody else writes the very same thing.                           *)

Row == [Keys -> Locators \cup {Null}]

\* A key's locator names one of these parts and a row group of it that holds the cell.
PointsInto(c, parts, key, loc) ==
    /\ loc # Null
    /\ <<key[1], loc.part>> \in parts
    /\ loc.row_group \in DOMAIN Groups[c][<<key[1], loc.part>>]
    /\ key[2] \in Groups[c][<<key[1], loc.part>>][loc.row_group]

\* Every cell that one of these parts holds has been located in one of them.
LocatesAll(c, parts, locs) ==
    \A key \in Keys :
        (\E p \in parts : p[1] = key[1] /\ key[2] \in DOMAIN PartLocators(c, p)) =>
            PointsInto(c, parts, key, locs[key])

Resolved(c, locs) == \A key \in CatalogKeys[c] : PointsInto(c, PartIds(c), key, locs[key])

LEMMA LocatingOneMore ==
    ASSUME NEW c \in Calls, NEW p \in PartIds(c), NEW parts \in SUBSET PartIds(c),
           NEW locs \in Row, LocatesAll(c, parts, locs)
    PROVE  LocatesAll(c, parts \cup {p}, Located(locs, c, p))
<1> SUFFICES ASSUME NEW key \in Keys,
                    \E q \in parts \cup {p} : q[1] = key[1] /\ key[2] \in DOMAIN PartLocators(c, q)
             PROVE  PointsInto(c, parts \cup {p}, key, Located(locs, c, p)[key])
  BY DEF LocatesAll
<1>1. CASE key[1] = p[1] /\ key[2] \in DOMAIN PartLocators(c, p)
  <2>1. Located(locs, c, p)[key] = PartLocators(c, p)[key[2]]
    BY <1>1 DEF Located
  <2>2. /\ PartLocators(c, p)[key[2]] \in Locators
        /\ PartLocators(c, p)[key[2]].part = p[2]
        /\ PartLocators(c, p)[key[2]].row_group \in DOMAIN Groups[c][p]
        /\ key[2] \in Groups[c][p][PartLocators(c, p)[key[2]].row_group]
    BY <1>1, LocatorTyped
  <2>3. p = <<key[1], p[2]>>
    BY <1>1, PartIdsShape
  <2>4. PartLocators(c, p)[key[2]] # Null
    BY <2>2, MarkersAssumption
  <2> QED
    BY <2>1, <2>2, <2>3, <2>4 DEF PointsInto
<1>2. CASE ~(key[1] = p[1] /\ key[2] \in DOMAIN PartLocators(c, p))
  <2>1. Located(locs, c, p)[key] = locs[key]
    BY <1>2 DEF Located
  <2>2. PointsInto(c, parts, key, locs[key])
    BY <1>2 DEF LocatesAll
  <2> QED
    BY <2>1, <2>2 DEF PointsInto
<1> QED
  BY <1>1, <1>2

\* When every part is located, so is every row of the catalog.
LEMMA AllLocatedResolves ==
    ASSUME NEW c \in Calls, NEW locs, LocatesAll(c, PartIds(c), locs)
    PROVE  Resolved(c, locs)
<1> SUFFICES ASSUME NEW key \in CatalogKeys[c] PROVE PointsInto(c, PartIds(c), key, locs[key])
  BY DEF Resolved
<1>1. key \in Keys
  BY DEF Keys
<1>2. PICK p \in PartIds(c) : p[1] = key[1] /\ \E g \in DOMAIN Groups[c][p] : key[2] \in Groups[c][p][g]
  BY CallsAssumption
<1>3. key[2] \in DOMAIN PartLocators(c, p)
  BY <1>2 DEF PartLocators
<1> QED
  BY <1>1, <1>2, <1>3 DEF LocatesAll

-----------------------------------------------------------------------------
LEMMA InitTyped == Init => TypeOK
  BY DEF Init, TypeOK, Phases

LEMMA PutTyped ==
    ASSUME TypeOK, NEW w \in Writers, NEW path \in Paths, NEW body \in Bodies, Put(w, path, body)
    PROVE  /\ store' \in [Paths -> {Absent, Torn} \cup Bodies]
           /\ opened' \in [Writers -> BOOLEAN]
           /\ alone' \in [Writers -> BOOLEAN]
<1>1. store' \in [Paths -> {Absent, Torn} \cup Bodies]
  BY DEF TypeOK, Put
<1>2. opened' \in [Writers -> BOOLEAN]
  BY DEF TypeOK, Put
<1>3. alone' \in [Writers -> BOOLEAN]
  BY DEF TypeOK, Put, Touches
<1> QED
  BY <1>1, <1>2, <1>3

LEMMA FixedPathsTyped == ManifestPath \in Paths /\ CellsPath \in Paths /\ ObjectsPath \in Paths
  BY DEF Paths

LEMMA TargetTyped ==
    ASSUME TypeOK, NEW w \in Writers, phase[w] \in Writing
    PROVE  Target(w) \in Paths
<1>1. CASE phase[w] = "parts"
  <2>1. PartPath(at[w]) \in PartPaths
    BY <1>1, PartPathTyped DEF TypeOK
  <2> QED
    BY <1>1, <2>1 DEF Target, Paths
<1>2. CASE phase[w] # "parts"
  BY <1>2 DEF Target, Paths, Writing
<1> QED
  BY <1>1, <1>2

LEMMA CallTyped ==
    ASSUME TypeOK, NEW w \in Writers, NEW c \in Calls, Call(w, c)
    PROVE  TypeOK'
<1>1. phase' \in [Writers -> Phases] /\ call' \in [Writers -> Calls \cup {Null}]
  BY DEF Call, TypeOK, Phases
<1>a. at' \in [Writers -> Nat \X Nat]
  BY DEF Call, TypeOK
<1>2. files' \in [Writers -> SUBSET FileEntries]
  BY DEF Call, TypeOK
<1>3. locators' \in [Writers -> [Keys -> Locators \cup {Null}]]
  BY DEF Call, TypeOK
<1>4. alone' \in [Writers -> BOOLEAN]
  BY DEF Call, TypeOK
<1>5. \A v \in Writers : /\ phase'[v] # "idle" => call'[v] \in Calls
                         /\ phase'[v] = "parts" => at'[v] \in PartIds(call'[v])
  <2> SUFFICES ASSUME NEW v \in Writers
               PROVE  /\ phase'[v] # "idle" => call'[v] \in Calls
                      /\ phase'[v] = "parts" => at'[v] \in PartIds(call'[v])
    OBVIOUS
  <2>1. CASE v = w
    BY <2>1, NoPartBeforeTheFirst DEF Call, TypeOK
  <2>2. CASE v # w
    BY <2>2 DEF Call, TypeOK
  <2> QED
    BY <2>1, <2>2
<1> QED
  BY <1>1, <1>2, <1>3, <1>4, <1>5, <1>a DEF Call, TypeOK

LEMMA TruncateTyped ==
    ASSUME TypeOK, NEW w \in Writers, Truncate(w)
    PROVE  TypeOK'
<1>1. store' \in [Paths -> {Absent, Torn} \cup Bodies]
  BY DEF Truncate, TypeOK
<1>2. opened' \in [Writers -> BOOLEAN]
  BY DEF Truncate, TypeOK
<1>3. alone' \in [Writers -> BOOLEAN]
  BY DEF Truncate, Touches, TypeOK
<1> QED
  BY <1>1, <1>2, <1>3 DEF Truncate, TypeOK

LEMMA PutPartTyped ==
    ASSUME TypeOK, NEW w \in Writers, PutPart(w)
    PROVE  TypeOK'
<1> DEFINE c == call[w]
           p == at[w]
<1>1. c \in Calls /\ p \in PartIds(c)
  BY DEF PutPart, PutPartThen, TypeOK
<1>2. PartPath(p) \in Paths /\ PartBody(c, p) \in Bodies /\ FileEntry(c, p) \in FileEntries
  BY <1>1, PartPathTyped, PartTyped DEF Paths
<1>3. /\ store' \in [Paths -> {Absent, Torn} \cup Bodies]
      /\ opened' \in [Writers -> BOOLEAN]
      /\ alone' \in [Writers -> BOOLEAN]
  BY <1>2, PutTyped DEF PutPart, PutPartThen
<1>4. files' \in [Writers -> SUBSET FileEntries]
  BY <1>2 DEF PutPart, PutPartThen, TypeOK
<1>5. locators' \in [Writers -> [Keys -> Locators \cup {Null}]]
  <2>1. locators[w] \in [Keys -> Locators \cup {Null}]
    BY DEF TypeOK
  <2>2. Located(locators[w], c, p) \in [Keys -> Locators \cup {Null}]
    BY <1>1, <2>1, LocatedTyped
  <2> QED
    BY <2>2 DEF PutPart, PutPartThen, TypeOK
<1>6. phase' \in [Writers -> Phases]
  BY DEF PutPart, PutPartThen, TypeOK, Phases
<1>a. at' \in [Writers -> Nat \X Nat]
  <2>1. p[1] \in Nat /\ p[2] \in Nat
    BY <1>1, PartIdsShape
  <2>2. NextPart(c, p) \in Nat \X Nat
    BY <2>1 DEF NextPart
  <2> QED
    BY <2>2 DEF PutPart, PutPartThen, TypeOK
<1>7. \A v \in Writers : /\ phase'[v] # "idle" => call'[v] \in Calls
                         /\ phase'[v] = "parts" => at'[v] \in PartIds(call'[v])
  <2> SUFFICES ASSUME NEW v \in Writers
               PROVE  /\ phase'[v] # "idle" => call'[v] \in Calls
                      /\ phase'[v] = "parts" => at'[v] \in PartIds(call'[v])
    OBVIOUS
  <2>1. CASE v = w
    BY <1>1, <2>1 DEF PutPart, PutPartThen, TypeOK
  <2>2. CASE v # w
    BY <2>2 DEF PutPart, PutPartThen, TypeOK
  <2> QED
    BY <2>1, <2>2
<1> QED
  BY <1>3, <1>4, <1>5, <1>6, <1>7, <1>a DEF PutPart, PutPartThen, TypeOK

\* The three puts after the parts differ in their path, their body and the phase they reach.
LEMMA LastPutsTyped ==
    ASSUME TypeOK, NEW w \in Writers, PutCells(w) \/ PutObjects(w) \/ PutManifest(w)
    PROVE  TypeOK'
<1>1. call[w] \in Calls
  BY DEF PutCells, PutObjects, PutManifest, TypeOK
<1>2. /\ CatalogBody(call[w], locators[w]) \in Bodies
      /\ ObjectsBody(call[w]) \in Bodies
      /\ ManifestBody(call[w], files[w]) \in Bodies
  <2>1. locators[w] \in [Keys -> Locators \cup {Null}] /\ files[w] \in SUBSET FileEntries
    BY DEF TypeOK
  <2> QED
    BY <1>1, <2>1, CatalogTyped, ManifestTyped
<1>3. /\ store' \in [Paths -> {Absent, Torn} \cup Bodies]
      /\ opened' \in [Writers -> BOOLEAN]
      /\ alone' \in [Writers -> BOOLEAN]
  BY <1>2, FixedPathsTyped, PutTyped DEF PutCells, PutObjects, PutManifest
<1>4. phase' \in [Writers -> Phases]
  BY DEF PutCells, PutObjects, PutManifest, TypeOK, Phases
<1>5. \A v \in Writers : /\ phase'[v] # "idle" => call[v] \in Calls
                         /\ phase'[v] = "parts" => at[v] \in PartIds(call[v])
  BY <1>1 DEF PutCells, PutObjects, PutManifest, TypeOK
<1>6. UNCHANGED <<call, at, files, locators>>
  BY DEF PutCells, PutObjects, PutManifest
<1> QED
  BY <1>3, <1>4, <1>5, <1>6 DEF TypeOK

LEMMA InterruptTyped ==
    ASSUME TypeOK, NEW w \in Writers, Interrupt(w)
    PROVE  TypeOK'
<1>1. phase' \in [Writers -> Phases] /\ call' \in [Writers -> Calls \cup {Null}]
  BY DEF Interrupt, TypeOK, Phases
<1>a. at' \in [Writers -> Nat \X Nat]
  BY DEF Interrupt, TypeOK
<1>2. files' \in [Writers -> SUBSET FileEntries]
  BY DEF Interrupt, TypeOK
<1>3. locators' \in [Writers -> [Keys -> Locators \cup {Null}]]
  BY DEF Interrupt, TypeOK
<1>4. opened' \in [Writers -> BOOLEAN]
  BY DEF Interrupt, TypeOK
<1>5. \A v \in Writers : /\ phase'[v] # "idle" => call'[v] \in Calls
                         /\ phase'[v] = "parts" => at'[v] \in PartIds(call'[v])
  BY DEF Interrupt, TypeOK
<1> QED
  BY <1>1, <1>2, <1>3, <1>4, <1>5, <1>a DEF Interrupt, TypeOK

LEMMA StepTyped == TypeOK /\ [WriterNext]_vars => TypeOK'
<1> SUFFICES ASSUME TypeOK, [WriterNext]_vars PROVE TypeOK'
  OBVIOUS
<1>1. CASE UNCHANGED vars
  BY <1>1 DEF vars, TypeOK
<1> QED
  BY <1>1, CallTyped, TruncateTyped, PutPartTyped, LastPutsTyped, InterruptTyped DEF WriterNext, Write

\* At every path there is nothing, a torn object or the body of some put, whatever overlaps
\* and breaks off, and a writer in the loop is at a part of its call (writer.write_collection).
THEOREM StoreTyped == Spec => []TypeOK
  BY InitTyped, StepTyped, PTL DEF Spec

DoneParts(w) == PartsBefore(call[w], at[w])

\* A writer's own variables: where it is, what it has put and where.
Progress(w) ==
    /\ phase[w] # "parts" => DoneParts(w) = PartIds(call[w])
    /\ files[w] = {FileEntry(call[w], p) : p \in DoneParts(w)}
    /\ LocatesAll(call[w], DoneParts(w), locators[w])

WritersProgress ==
    /\ TypeOK
    /\ \A w \in Writers : /\ phase[w] # "idle" => Progress(w)
                          /\ opened[w] => ~AtomicPuts /\ phase[w] \in Writing

LEMMA InitProgress == Init => WritersProgress
  BY InitTyped DEF Init, WritersProgress

\* A writer whose own variables do not change goes on knowing what it knew.
LEMMA OthersProgress ==
    ASSUME WritersProgress, NEW v \in Writers, phase'[v] = phase[v], call'[v] = call[v],
           at'[v] = at[v], files'[v] = files[v], locators'[v] = locators[v], opened'[v] = opened[v]
    PROVE  /\ phase'[v] # "idle" => Progress(v)'
           /\ opened'[v] => ~AtomicPuts /\ phase'[v] \in Writing
  BY DEF WritersProgress, Progress, DoneParts

LEMMA PutPartProgress ==
    ASSUME WritersProgress, NEW w \in Writers, PutPart(w)
    PROVE  Progress(w)'
<1> DEFINE c == call[w]
           p == at[w]
           parts == DoneParts(w)
<1>1. c \in Calls /\ p \in PartIds(c) /\ Progress(w) /\ phase[w] = "parts"
  BY DEF PutPart, PutPartThen, WritersProgress, TypeOK
<1>2. /\ call'[w] = c /\ at'[w] = NextPart(c, p)
      /\ files'[w] = files[w] \cup {FileEntry(c, p)}
      /\ locators'[w] = Located(locators[w], c, p)
      /\ phase'[w] = IF NextPart(c, p) \in PartIds(c) THEN "parts" ELSE "cells"
  BY DEF PutPart, PutPartThen, WritersProgress, TypeOK
<1>3. DoneParts(w)' = parts \cup {p} /\ (NextPart(c, p) \notin PartIds(c) => parts \cup {p} = PartIds(c))
  BY <1>1, <1>2, NextPartShape DEF DoneParts
<1>4. files'[w] = {FileEntry(c, q) : q \in parts \cup {p}}
  BY <1>1, <1>2 DEF Progress
<1>5. LocatesAll(c, parts \cup {p}, locators'[w])
  <2>1. PICK done \in SUBSET PartIds(c) : done = parts
    BY DEF DoneParts, PartsBefore
  <2>2. PICK locs \in Row : locs = locators[w]
    BY DEF WritersProgress, TypeOK, Row
  <2>3. LocatesAll(c, done, locs)
    BY <1>1, <2>1, <2>2 DEF Progress
  <2>4. LocatesAll(c, done \cup {p}, Located(locs, c, p))
    BY <1>1, <2>3, LocatingOneMore
  <2> QED
    BY <1>2, <2>1, <2>2, <2>4
<1> HIDE DEF c, p, parts
<1> QED
  BY <1>2, <1>3, <1>4, <1>5 DEF Progress

LEMMA StepProgress == WritersProgress /\ [WriterNext]_vars => WritersProgress'
<1> SUFFICES ASSUME WritersProgress, [WriterNext]_vars,
                    NEW v \in Writers
             PROVE  /\ phase'[v] # "idle" => Progress(v)'
                    /\ opened'[v] => ~AtomicPuts /\ phase'[v] \in Writing
  BY StepTyped DEF WritersProgress
<1>1. CASE UNCHANGED vars
  BY <1>1, OthersProgress DEF vars
<1>2. ASSUME NEW w \in Writers, v # w,
             \/ \E c \in Calls : Call(w, c)
             \/ Truncate(w) \/ Write(w) \/ Interrupt(w)
      PROVE  /\ phase'[v] # "idle" => Progress(v)'
             /\ opened'[v] => ~AtomicPuts /\ phase'[v] \in Writing
  BY <1>2, OthersProgress DEF WritersProgress, TypeOK, Call, Truncate, Write, PutPart, PutPartThen, PutCells, PutObjects,
     PutManifest, Put, Interrupt
<1>3. ASSUME NEW c \in Calls, Call(v, c)
      PROVE  Progress(v)' /\ ~opened'[v]
  <2>1. phase'[v] = "parts" /\ call'[v] = c /\ at'[v] = <<0, 0>> /\ files'[v] = {}
    BY <1>3 DEF Call, WritersProgress, TypeOK
  <2>2. DoneParts(v)' = {}
    BY <2>1, NoPartBeforeTheFirst DEF DoneParts
  <2>3. ~opened'[v]
    BY <1>3 DEF Call, WritersProgress
  <2> QED
    BY <2>1, <2>2, <2>3 DEF Progress, LocatesAll
<1>4. CASE Truncate(v)
  BY <1>4 DEF Truncate, WritersProgress, TypeOK, Progress, DoneParts, Writing
<1>5. CASE PutPart(v)
  BY <1>5, PutPartProgress DEF PutPart, PutPartThen, Put, WritersProgress, TypeOK
<1>6. CASE PutCells(v) \/ PutObjects(v) \/ PutManifest(v)
  <2>1. /\ phase[v] # "parts" /\ phase'[v] # "parts" /\ phase[v] # "idle"
        /\ UNCHANGED <<call, at, files, locators>>
    BY <1>6 DEF PutCells, PutObjects, PutManifest, WritersProgress, TypeOK
  <2>2. ~opened'[v]
    BY <1>6 DEF PutCells, PutObjects, PutManifest, Put, WritersProgress, TypeOK
  <2> QED
    BY <2>1, <2>2 DEF WritersProgress, Progress, DoneParts
<1>7. CASE Interrupt(v)
  BY <1>7 DEF Interrupt, WritersProgress, TypeOK
<1> QED
  BY <1>1, <1>2, <1>3, <1>4, <1>5, <1>6, <1>7 DEF WriterNext, Write

-----------------------------------------------------------------------------
(* What the store holds of a call.                                         *)

Entries(c) == {FileEntry(c, p) : p \in PartIds(c)}

PartsThere(c, parts) == \A p \in parts : store[PartPath(p)] = PartBody(c, p)
CatalogThere(c) == \E locs \in Row : Resolved(c, locs) /\ store[CellsPath] = CatalogBody(c, locs)
ObjectsThere(c) == store[ObjectsPath] = ObjectsBody(c)
ManifestThere(c) == store[ManifestPath] = ManifestBody(c, Entries(c))

Complete(c) == PartsThere(c, PartIds(c)) /\ CatalogThere(c) /\ ObjectsThere(c) /\ ManifestThere(c)

\* A complete call is a prefix a reader can trust, whatever else lies there.
LEMMA CompleteIsSound ==
    ASSUME TypeOK, NEW c \in Calls, Complete(c)
    PROVE  Sound /\ store[ManifestPath].of = Collection[c]
<1>1. /\ store[ManifestPath].files = Entries(c)
      /\ store[ManifestPath].of = Collection[c]
      /\ Whole(ManifestPath)
  <2>1. Entries(c) \in SUBSET FileEntries
    BY PartTyped DEF Entries
  <2>2. ManifestBody(c, Entries(c)) \notin {Absent, Torn}
    BY <2>1, ManifestTyped, MarkersAssumption
  <2> QED
    BY <2>2 DEF Complete, ManifestThere, ManifestBody, Whole
<1>2. Whole(ObjectsPath) /\ store[ObjectsPath].of = Collection[c]
  <2>1. ObjectsBody(c) \notin {Absent, Torn}
    BY ManifestTyped, MarkersAssumption
  <2> QED
    BY <2>1 DEF Complete, ObjectsThere, ObjectsBody, Whole
<1>3. \A p \in PartIds(c) :
         /\ Whole(PartPath(p))
         /\ store[PartPath(p)].of = Collection[c]
         /\ store[PartPath(p)].size = PartSize[c][p]
         /\ store[PartPath(p)].groups = Groups[c][p]
  <2> SUFFICES ASSUME NEW p \in PartIds(c)
               PROVE  /\ Whole(PartPath(p))
                      /\ store[PartPath(p)].of = Collection[c]
                      /\ store[PartPath(p)].size = PartSize[c][p]
                      /\ store[PartPath(p)].groups = Groups[c][p]
    OBVIOUS
  <2>1. store[PartPath(p)] = PartBody(c, p)
    BY DEF Complete, PartsThere
  <2>2. PartBody(c, p) \notin {Absent, Torn}
    BY PartTyped, MarkersAssumption
  <2> QED
    BY <2>1, <2>2 DEF PartBody, Whole
<1>4. PICK locs \in Row : Resolved(c, locs) /\ store[CellsPath] = CatalogBody(c, locs)
  BY DEF Complete, CatalogThere
<1>5. Whole(CellsPath) /\ store[CellsPath].of = Collection[c]
      /\ store[CellsPath].rows = [key \in CatalogKeys[c] |-> locs[key]]
  <2>1. CatalogBody(c, locs) \notin {Absent, Torn}
    BY CatalogTyped, MarkersAssumption DEF Row
  <2> QED
    BY <1>4, <2>1 DEF CatalogBody, Whole
<1>6. FilesAreThere
  <2>1. \A p \in PartIds(c) : /\ FileEntry(c, p).path = PartPath(p)
                              /\ FileEntry(c, p).size = PartSize[c][p]
                              /\ FileEntry(c, p).row_groups = DOMAIN Groups[c][p]
    BY DEF FileEntry
  <2> QED
    BY <1>1, <1>3, <2>1 DEF FilesAreThere, Entries
<1>7. LocatorsResolve
  <2> SUFFICES ASSUME NEW key \in CatalogKeys[c]
               PROVE  LET loc  == locs[key]
                          path == <<"part", key[1], loc.part>>
                      IN  /\ loc # Null
                          /\ \E entry \in Entries(c) : entry.path = path
                          /\ Whole(path)
                          /\ loc.row_group \in DOMAIN store[path].groups
                          /\ key[2] \in store[path].groups[loc.row_group]
    BY <1>1, <1>5 DEF LocatorsResolve
  <2> DEFINE loc == locs[key]
             p == <<key[1], loc.part>>
  <2>1. PointsInto(c, PartIds(c), key, loc)
    BY <1>4 DEF Resolved
  <2>2. p \in PartIds(c) /\ PartPath(p) = <<"part", key[1], loc.part>>
    BY <2>1 DEF PointsInto, PartPath
  <2>3. FileEntry(c, p) \in Entries(c) /\ FileEntry(c, p).path = PartPath(p)
    BY <2>2 DEF Entries, FileEntry
  <2> QED
    BY <1>3, <2>1, <2>2, <2>3 DEF PointsInto
<1>8. OneCollection
  <2>1. \A entry \in Entries(c) : \E p \in PartIds(c) : entry.path = PartPath(p)
    BY DEF Entries, FileEntry
  <2> QED
    BY <1>1, <1>2, <1>3, <1>5, <2>1 DEF OneCollection
<1> QED
  BY <1>1, <1>6, <1>7, <1>8 DEF Sound

\* Some put of a call that has come to it.
OneOfItsPuts(c, path, body) ==
    \/ \E p \in PartIds(c) : path = PartPath(p) /\ body = PartBody(c, p)
    \/ path = CellsPath /\ \E locs \in Row : Resolved(c, locs) /\ body = CatalogBody(c, locs)
    \/ path = ObjectsPath /\ body = ObjectsBody(c)
    \/ path = ManifestPath /\ body = ManifestBody(c, Entries(c))

\* Putting once more what a call puts takes nothing of it away.
LEMMA PutKeeps ==
    ASSUME TypeOK, NEW c \in Calls, NEW path \in Paths, NEW body, OneOfItsPuts(c, path, body),
           store' = [store EXCEPT ![path] = body], NEW parts \in SUBSET PartIds(c)
    PROVE  /\ PartsThere(c, parts) => PartsThere(c, parts)'
           /\ CatalogThere(c) \/ path = CellsPath => CatalogThere(c)'
           /\ ObjectsThere(c) \/ path = ObjectsPath => ObjectsThere(c)'
           /\ ManifestThere(c) \/ path = ManifestPath => ManifestThere(c)'
<1>1. store'[path] = body /\ \A other \in Paths : other # path => store'[other] = store[other]
  BY DEF TypeOK
<1>2. PartsThere(c, parts) => PartsThere(c, parts)'
  <2> SUFFICES ASSUME PartsThere(c, parts), NEW p \in parts
               PROVE  store'[PartPath(p)] = PartBody(c, p)
    BY DEF PartsThere
  <2>1. PartPath(p) \in Paths /\ p \in PartIds(c)
    BY PartPathTyped DEF Paths
  <2>2. CASE PartPath(p) # path
    BY <1>1, <2>1, <2>2 DEF PartsThere
  <2>3. CASE PartPath(p) = path
    <3>1. PICK q \in PartIds(c) : path = PartPath(q) /\ body = PartBody(c, q)
      BY <2>3, PathsDiffer DEF OneOfItsPuts
    <3>2. p = q
      BY <2>1, <2>3, <3>1, PathsDiffer, PartIdsShape
    <3> QED
      BY <1>1, <2>3, <3>1, <3>2
  <2> QED
    BY <2>2, <2>3
<1>3. CatalogThere(c) \/ path = CellsPath => CatalogThere(c)'
  BY <1>1, FixedPathsTyped, PathsDiffer DEF CatalogThere, OneOfItsPuts
<1>4. ObjectsThere(c) \/ path = ObjectsPath => ObjectsThere(c)'
  BY <1>1, FixedPathsTyped, PathsDiffer DEF ObjectsThere, OneOfItsPuts
<1>5. ManifestThere(c) \/ path = ManifestPath => ManifestThere(c)'
  BY <1>1, FixedPathsTyped, PathsDiffer DEF ManifestThere, OneOfItsPuts
<1> QED
  BY <1>2, <1>3, <1>4, <1>5

-----------------------------------------------------------------------------
(* The invariant.  A prefix sees one call only, put atomically; or a       *)
(* writer has had the prefix to itself since its call.                     *)

OnlyCall == AtomicPuts /\ \A c, d \in Calls : c = d

Undisturbed(w) == alone[w] \/ OnlyCall

\* What a writer has put is there.
InStore(w) ==
    /\ PartsThere(call[w], DoneParts(w))
    /\ phase[w] \in {"objects", "manifest", "returned"} => CatalogThere(call[w])
    /\ phase[w] \in {"manifest", "returned"} => ObjectsThere(call[w])
    /\ phase[w] = "returned" => ManifestThere(call[w])
    /\ opened[w] => store[Target(w)] = Torn

Kept == \A w \in Writers : phase[w] # "idle" /\ Undisturbed(w) => InStore(w)

ManifestComplete == OnlyCall /\ store[ManifestPath] # Absent => \E c \in Calls : Complete(c)

SafeWriting == WritersProgress /\ Kept /\ ManifestComplete

LEMMA InitSafe == Init => SafeWriting
<1> SUFFICES ASSUME Init PROVE SafeWriting
  OBVIOUS
<1>1. Kept
  BY DEF Init, Kept
<1>2. store[ManifestPath] = Absent
  BY FixedPathsTyped DEF Init
<1> QED
  BY <1>1, <1>2, InitProgress DEF SafeWriting, ManifestComplete

\* An undisturbed writer's put leaves the body it puts.
LEMMA PutLands ==
    ASSUME SafeWriting, NEW w \in Writers, phase[w] # "idle", Undisturbed(w),
           NEW body, Put(w, Target(w), body)
    PROVE  store' = [store EXCEPT ![Target(w)] = body]
<1>1. CASE AtomicPuts
  BY <1>1 DEF Put
<1>2. CASE ~AtomicPuts
  <2>1. opened[w] /\ phase[w] \in Writing
    BY <1>2 DEF Put, SafeWriting, WritersProgress
  <2>2. store[Target(w)] = Torn
    BY <2>1 DEF SafeWriting, Kept, InStore
  <2>3. Target(w) \in Paths
    BY <2>1, TargetTyped DEF SafeWriting, WritersProgress
  <2> QED
    BY <2>2, <2>3 DEF Put, SafeWriting, WritersProgress, TypeOK
<1> QED
  BY <1>1, <1>2

\* Every step of the loop is the put of a body that its call has come to.
LEMMA WriteIsAPut ==
    ASSUME WritersProgress, NEW w \in Writers, Write(w)
    PROVE  \E body : Put(w, Target(w), body) /\ OneOfItsPuts(call[w], Target(w), body)
<1>1. Progress(w) /\ phase[w] \in Writing /\ call[w] \in Calls
  BY DEF Write, PutPart, PutPartThen, PutCells, PutObjects, PutManifest, WritersProgress, TypeOK, Writing
<1>2. CASE PutPart(w)
  <2>1. at[w] \in PartIds(call[w]) /\ Target(w) = PartPath(at[w])
    BY <1>2 DEF PutPart, PutPartThen, WritersProgress, TypeOK, Target
  <2> QED
    BY <1>2, <2>1 DEF PutPart, PutPartThen, OneOfItsPuts
<1>3. CASE PutCells(w)
  <2>1. Target(w) = CellsPath /\ Put(w, CellsPath, CatalogBody(call[w], locators[w]))
    BY <1>3 DEF PutCells, Target
  <2>2. locators[w] \in Row
    BY DEF WritersProgress, TypeOK, Row
  <2>3. Resolved(call[w], locators[w])
    <3>1. phase[w] # "parts"
      BY <1>3 DEF PutCells
    <3>2. LocatesAll(call[w], PartIds(call[w]), locators[w])
      BY <1>1, <3>1 DEF Progress
    <3> QED
      BY <1>1, <3>2, AllLocatedResolves
  <2> QED
    BY <2>1, <2>2, <2>3 DEF OneOfItsPuts
<1>4. CASE PutObjects(w)
  BY <1>4 DEF PutObjects, Target, OneOfItsPuts
<1>5. CASE PutManifest(w)
  <2>1. files[w] = Entries(call[w])
    BY <1>1, <1>5 DEF PutManifest, Progress, Entries
  <2> QED
    BY <1>5, <2>1 DEF PutManifest, Target, OneOfItsPuts
<1> QED
  BY <1>2, <1>3, <1>4, <1>5 DEF Write

\* The write of an undisturbed writer takes nothing of its call away, and adds what it puts.
LEMMA WriteKeeps ==
    ASSUME SafeWriting, NEW w \in Writers, Write(w), Undisturbed(w),
           NEW c \in Calls, c = call[w], NEW parts \in SUBSET PartIds(c)
    PROVE  /\ PartsThere(c, parts) => PartsThere(c, parts)'
           /\ CatalogThere(c) \/ phase[w] = "cells" => CatalogThere(c)'
           /\ ObjectsThere(c) \/ phase[w] = "objects" => ObjectsThere(c)'
           /\ ManifestThere(c) \/ phase[w] = "manifest" => ManifestThere(c)'
<1>1. TypeOK /\ WritersProgress
  BY DEF SafeWriting, WritersProgress
<1>2. PICK body : Put(w, Target(w), body) /\ OneOfItsPuts(c, Target(w), body)
  BY <1>1, WriteIsAPut
<1>3. phase[w] \in Writing /\ phase[w] # "idle"
  BY DEF Write, PutPart, PutPartThen, PutCells, PutObjects, PutManifest, Writing
<1>4. PICK path \in Paths : path = Target(w)
  BY <1>1, <1>3, TargetTyped
<1>5. store' = [store EXCEPT ![path] = body] /\ OneOfItsPuts(c, path, body)
  BY <1>2, <1>3, <1>4, PutLands
<1>6. /\ phase[w] = "cells" => path = CellsPath
      /\ phase[w] = "objects" => path = ObjectsPath
      /\ phase[w] = "manifest" => path = ManifestPath
  BY <1>4 DEF Target
<1> QED
  BY <1>1, <1>5, <1>6, PutKeeps

LEMMA OwnPart ==
    ASSUME SafeWriting, NEW w \in Writers, PutPart(w), Undisturbed(w)
    PROVE  store'[PartPath(at[w])] = PartBody(call[w], at[w])
<1>1. phase[w] = "parts" /\ Target(w) = PartPath(at[w])
  BY DEF PutPart, PutPartThen, Target
<1>2. store' = [store EXCEPT ![Target(w)] = PartBody(call[w], at[w])]
  BY <1>1, PutLands DEF PutPart, PutPartThen
<1>3. Target(w) \in Paths /\ store \in [Paths -> {Absent, Torn} \cup Bodies]
  BY <1>1, TargetTyped DEF SafeWriting, WritersProgress, TypeOK, Writing
<1> QED
  BY <1>1, <1>2, <1>3

LEMMA OwnWriteKept ==
    ASSUME SafeWriting, NEW w \in Writers, Write(w), Undisturbed(w)
    PROVE  InStore(w)'
<1>1. PICK c \in Calls : c = call[w]
  BY DEF SafeWriting, WritersProgress, TypeOK, Write, PutPart, PutPartThen, PutCells, PutObjects, PutManifest
<1>2. phase[w] # "idle" /\ InStore(w) /\ Progress(w) /\ call'[w] = c
  BY <1>1 DEF SafeWriting, WritersProgress, Kept, Write, PutPart, PutPartThen, PutCells, PutObjects, PutManifest
<1>3. ~opened'[w]
  BY DEF SafeWriting, WritersProgress, TypeOK, Write, PutPart, PutPartThen, PutCells, PutObjects, PutManifest, Put
<1>4. PICK parts \in SUBSET PartIds(c) : parts = DoneParts(w)
  BY <1>1 DEF DoneParts, PartsBefore
<1>5. /\ PartsThere(c, parts)'
      /\ CatalogThere(c) \/ phase[w] = "cells" => CatalogThere(c)'
      /\ ObjectsThere(c) \/ phase[w] = "objects" => ObjectsThere(c)'
      /\ ManifestThere(c) \/ phase[w] = "manifest" => ManifestThere(c)'
  BY <1>1, <1>2, <1>4, WriteKeeps DEF InStore
<1>6. CASE PutPart(w)
  <2>1. at[w] \in PartIds(c) /\ at'[w] = NextPart(c, at[w]) /\ phase'[w] \in {"parts", "cells"}
    BY <1>1, <1>6 DEF PutPart, PutPartThen, SafeWriting, WritersProgress, TypeOK
  <2>2. DoneParts(w)' = parts \cup {at[w]}
    BY <1>1, <1>2, <1>4, <2>1, NextPartShape DEF DoneParts
  <2>3. store'[PartPath(at[w])] = PartBody(c, at[w])
    BY <1>1, <1>6, OwnPart
  <2>4. PICK now \in SUBSET PartIds(c) : now = parts \cup {at[w]}
    BY <2>1
  <2>5. PartsThere(c, now)'
    BY <1>5, <2>3, <2>4 DEF PartsThere
  <2>6. PartsThere(call[w], DoneParts(w))'
    BY <1>2, <2>2, <2>4, <2>5 DEF PartsThere
  <2> QED
    BY <1>3, <2>1, <2>6 DEF InStore
<1>7. CASE PutCells(w) \/ PutObjects(w) \/ PutManifest(w)
  <2>1. UNCHANGED <<call, at>>
    BY <1>7 DEF PutCells, PutObjects, PutManifest
  <2>2. PartsThere(call[w], DoneParts(w))'
    BY <1>1, <1>4, <1>5, <2>1 DEF DoneParts, PartsThere
  <2>3. \/ phase[w] = "cells" /\ phase'[w] = "objects"
        \/ phase[w] = "objects" /\ phase'[w] = "manifest"
        \/ phase[w] = "manifest" /\ phase'[w] = "returned"
    BY <1>7 DEF PutCells, PutObjects, PutManifest, SafeWriting, WritersProgress, TypeOK
  <2>4. /\ phase'[w] \in {"objects", "manifest", "returned"} => CatalogThere(c)'
        /\ phase'[w] \in {"manifest", "returned"} => ObjectsThere(c)'
        /\ phase'[w] = "returned" => ManifestThere(c)'
    BY <1>1, <1>2, <1>5, <2>3 DEF InStore
  <2>5. /\ CatalogThere(c)' => CatalogThere(call[w])'
        /\ ObjectsThere(c)' => ObjectsThere(call[w])'
        /\ ManifestThere(c)' => ManifestThere(call[w])'
    BY <1>2 DEF CatalogThere, ObjectsThere, ManifestThere
  <2> QED
    BY <1>3, <2>2, <2>4, <2>5 DEF InStore
<1> QED
  BY <1>6, <1>7 DEF Write

\* A writer whose own variables and phase stand still keeps what another's write leaves it.
LEMMA OthersWriteKept ==
    ASSUME SafeWriting, NEW w \in Writers, Write(w), NEW v \in Writers, v # w,
           phase[v] # "idle", Undisturbed(v)'
    PROVE  InStore(v)'
<1>1. OnlyCall
  BY DEF Write, PutPart, PutPartThen, PutCells, PutObjects, PutManifest, Put, Touches, Undisturbed, OnlyCall
<1>2. Undisturbed(w) /\ Undisturbed(v) /\ InStore(v)
  BY <1>1 DEF Undisturbed, SafeWriting, Kept
<1>3. PICK c \in Calls : c = call[w] /\ c = call[v]
  BY <1>1 DEF OnlyCall, SafeWriting, WritersProgress, TypeOK, Write, PutPart, PutPartThen, PutCells, PutObjects, PutManifest
<1>4. phase'[v] = phase[v] /\ at'[v] = at[v] /\ call'[v] = c
  BY <1>3 DEF SafeWriting, WritersProgress, TypeOK, Write, PutPart, PutPartThen, PutCells, PutObjects, PutManifest
<1>5. ~opened'[v]
  BY <1>1, StepProgress DEF OnlyCall, SafeWriting, WritersProgress, WriterNext
<1>6. PICK parts \in SUBSET PartIds(c) : parts = DoneParts(v)
  BY <1>3 DEF DoneParts, PartsBefore
<1>7. /\ PartsThere(c, parts)'
      /\ CatalogThere(c) => CatalogThere(c)'
      /\ ObjectsThere(c) => ObjectsThere(c)'
      /\ ManifestThere(c) => ManifestThere(c)'
  BY <1>2, <1>3, <1>6, WriteKeeps DEF InStore
<1>8. PartsThere(call[v], DoneParts(v))'
  BY <1>3, <1>4, <1>6, <1>7 DEF DoneParts, PartsThere
<1>9. /\ CatalogThere(c)' => CatalogThere(call[v])'
      /\ ObjectsThere(c)' => ObjectsThere(call[v])'
      /\ ManifestThere(c)' => ManifestThere(call[v])'
  BY <1>4 DEF CatalogThere, ObjectsThere, ManifestThere
<1>10. InStore(v) => /\ phase[v] \in {"objects", "manifest", "returned"} => CatalogThere(c)
                     /\ phase[v] \in {"manifest", "returned"} => ObjectsThere(c)
                     /\ phase[v] = "returned" => ManifestThere(c)
  BY <1>3 DEF InStore
<1> QED
  BY <1>2, <1>4, <1>5, <1>7, <1>8, <1>9, <1>10 DEF InStore

\* What an undisturbed writer has put is still there when the store has not changed.
LEMMA StillStoreKeeps ==
    ASSUME NEW v \in Writers, InStore(v), store' = store,
           phase'[v] = phase[v], call'[v] = call[v], at'[v] = at[v], opened'[v] = opened[v]
    PROVE  InStore(v)'
  BY DEF InStore, PartsThere, CatalogThere, ObjectsThere, ManifestThere, DoneParts, Target

LEMMA TruncateKept ==
    ASSUME SafeWriting, NEW w \in Writers, Truncate(w), InStore(w)
    PROVE  InStore(w)'
<1>1. /\ phase[w] \in Writing /\ UNCHANGED <<phase, call, at>>
      /\ store' = [store EXCEPT ![Target(w)] = Torn]
  BY DEF Truncate
<1>2. TypeOK /\ Target(w) \in Paths
  BY <1>1, TargetTyped DEF SafeWriting, WritersProgress
<1>3. store'[Target(w)] = Torn /\ \A other \in Paths : other # Target(w) => store'[other] = store[other]
  BY <1>1, <1>2 DEF TypeOK
<1>4. PICK c \in Calls : c = call[w]
  BY <1>1, <1>2 DEF TypeOK, Writing
<1>5. PartsThere(c, DoneParts(w))'
  <2> SUFFICES ASSUME NEW p \in DoneParts(w) PROVE store'[PartPath(p)] = PartBody(c, p)
    BY <1>1 DEF PartsThere, DoneParts
  <2>1. p \in PartIds(c) /\ PartBefore(p, at[w]) /\ store[PartPath(p)] = PartBody(c, p)
    BY <1>4 DEF DoneParts, PartsBefore, InStore, PartsThere
  <2>2. PartPath(p) # Target(w)
    <3>1. CASE phase[w] = "parts"
      <4>1. Target(w) = PartPath(at[w]) /\ at[w] \in PartIds(c)
        BY <1>2, <1>4, <3>1 DEF Target, TypeOK
      <4>2. p[1] # at[w][1] \/ p[2] # at[w][2]
        BY <2>1, <4>1, PartIdsShape DEF PartBefore
      <4> QED
        BY <4>1, <4>2, PathsDiffer
    <3>2. CASE phase[w] # "parts"
      BY <1>1, <3>2, PathsDiffer DEF Target, Writing
    <3> QED
      BY <3>1, <3>2
  <2>3. PartPath(p) \in Paths
    BY <2>1, PartPathTyped DEF Paths
  <2> QED
    BY <1>3, <2>1, <2>2, <2>3
<1>6. phase[w] \in {"objects", "manifest"} => CatalogThere(c)'
  <2>1. phase[w] \in {"objects", "manifest"} => Target(w) # CellsPath /\ CatalogThere(c)
    BY <1>4, PathsDiffer DEF Target, InStore
  <2> QED
    BY <1>3, <2>1, FixedPathsTyped DEF CatalogThere
<1>7. phase[w] = "manifest" => ObjectsThere(c)'
  <2>1. phase[w] = "manifest" => Target(w) # ObjectsPath /\ ObjectsThere(c)
    BY <1>4, PathsDiffer DEF Target, InStore
  <2> QED
    BY <1>3, <2>1, FixedPathsTyped DEF ObjectsThere
<1>8. call'[w] = c /\ phase'[w] = phase[w] /\ phase[w] # "returned" /\ Target(w)' = Target(w)
  BY <1>1, <1>4 DEF Target, Writing
<1> QED
  BY <1>3, <1>5, <1>6, <1>7, <1>8 DEF InStore, PartsThere, CatalogThere, ObjectsThere

LEMMA CallKept ==
    ASSUME SafeWriting, NEW w \in Writers, NEW c \in Calls, Call(w, c)
    PROVE  InStore(w)'
<1>1. phase'[w] = "parts" /\ call'[w] = c /\ at'[w] = <<0, 0>> /\ ~opened'[w]
  BY DEF Call, SafeWriting, WritersProgress, TypeOK
<1>2. DoneParts(w)' = {}
  BY <1>1, NoPartBeforeTheFirst DEF DoneParts
<1> QED
  BY <1>1, <1>2 DEF InStore, PartsThere

LEMMA StepKept == SafeWriting /\ [WriterNext]_vars => Kept'
<1> SUFFICES ASSUME SafeWriting, [WriterNext]_vars,
                    NEW v \in Writers, phase'[v] # "idle", Undisturbed(v)'
             PROVE  InStore(v)'
  BY DEF Kept
<1>k. ASSUME phase[v] # "idle", Undisturbed(v) PROVE InStore(v)
  BY <1>k DEF SafeWriting, Kept
<1>1. CASE UNCHANGED vars
  <2>1. phase[v] # "idle" /\ Undisturbed(v)
    BY <1>1 DEF vars, Undisturbed, OnlyCall
  <2> QED
    BY <1>1, <1>k, <2>1, StillStoreKeeps DEF vars
<1>2. ASSUME NEW w \in Writers, NEW c \in Calls, Call(w, c) PROVE InStore(v)'
  <2>1. CASE w = v
    BY <1>2, <2>1, CallKept
  <2>2. CASE w # v
    <3>1. /\ phase'[v] = phase[v] /\ call'[v] = call[v] /\ at'[v] = at[v] /\ opened'[v] = opened[v]
          /\ alone'[v] = alone[v] /\ store' = store
      BY <1>2, <2>2 DEF Call, SafeWriting, WritersProgress, TypeOK
    <3>2. phase[v] # "idle" /\ Undisturbed(v)
      BY <3>1 DEF Undisturbed, OnlyCall
    <3> QED
      BY <1>k, <3>1, <3>2, StillStoreKeeps
  <2> QED
    BY <2>1, <2>2
<1>3. ASSUME NEW w \in Writers, Truncate(w) PROVE InStore(v)'
  <2>1. v = w /\ Undisturbed(v) /\ phase[v] # "idle"
    BY <1>3 DEF Truncate, Touches, Undisturbed, OnlyCall, SafeWriting, WritersProgress, TypeOK
  <2> QED
    BY <1>3, <1>k, <2>1, TruncateKept
<1>4. ASSUME NEW w \in Writers, Write(w) PROVE InStore(v)'
  <2>1. CASE v = w
    <3>1. Undisturbed(w)
      BY <1>4, <2>1 DEF Write, PutPart, PutPartThen, PutCells, PutObjects, PutManifest, Put, Touches, Undisturbed, OnlyCall
    <3> QED
      BY <1>4, <2>1, <3>1, OwnWriteKept
  <2>2. CASE v # w
    <3>1. phase[v] # "idle"
      BY <1>4, <2>2 DEF Write, PutPart, PutPartThen, PutCells, PutObjects, PutManifest, SafeWriting, WritersProgress, TypeOK
    <3> QED
      BY <1>4, <2>2, <3>1, OthersWriteKept
  <2> QED
    BY <2>1, <2>2
<1>5. ASSUME NEW w \in Writers, Interrupt(w) PROVE InStore(v)'
  <2>1. v # w
    BY <1>5 DEF Interrupt, SafeWriting, WritersProgress, TypeOK
  <2>2. /\ phase'[v] = phase[v] /\ call'[v] = call[v] /\ at'[v] = at[v] /\ opened'[v] = opened[v]
        /\ alone'[v] = alone[v] /\ store' = store
    BY <1>5, <2>1 DEF Interrupt, SafeWriting, WritersProgress, TypeOK
  <2>3. phase[v] # "idle" /\ Undisturbed(v)
    BY <2>2 DEF Undisturbed, OnlyCall
  <2> QED
    BY <1>k, <2>2, <2>3, StillStoreKeeps
<1> QED
  BY <1>1, <1>2, <1>3, <1>4, <1>5 DEF WriterNext

LEMMA StepPublished == SafeWriting /\ [WriterNext]_vars => ManifestComplete'
<1> SUFFICES ASSUME SafeWriting, [WriterNext]_vars, OnlyCall, store'[ManifestPath] # Absent
             PROVE  \E c \in Calls : Complete(c)'
  BY DEF ManifestComplete, OnlyCall
<1>1. CASE store' = store
  BY <1>1 DEF SafeWriting, ManifestComplete, Complete, PartsThere, CatalogThere, ObjectsThere, ManifestThere
<1>2. ASSUME NEW w \in Writers, Write(w) PROVE \E c \in Calls : Complete(c)'
  <2>1. PICK c \in Calls : c = call[w]
    BY <1>2 DEF SafeWriting, WritersProgress, TypeOK, Write, PutPart, PutPartThen, PutCells, PutObjects, PutManifest
  <2>2. Undisturbed(w) /\ phase[w] # "idle" /\ InStore(w) /\ Progress(w)
    BY <1>2 DEF Undisturbed, SafeWriting, WritersProgress, Kept, Write, PutPart, PutPartThen, PutCells, PutObjects, PutManifest
  <2>3. PICK parts \in SUBSET PartIds(c) : parts = PartIds(c)
    OBVIOUS
  <2>4. /\ PartsThere(c, parts) => PartsThere(c, parts)'
        /\ CatalogThere(c) => CatalogThere(c)'
        /\ ObjectsThere(c) => ObjectsThere(c)'
        /\ ManifestThere(c) \/ phase[w] = "manifest" => ManifestThere(c)'
    BY <1>2, <2>1, <2>2, WriteKeeps
  <2>5. PartsThere(c, PartIds(c)) /\ CatalogThere(c) /\ ObjectsThere(c)
        /\ (ManifestThere(c) \/ phase[w] = "manifest")
    <3>1. CASE phase[w] = "manifest"
      BY <2>1, <2>2, <3>1 DEF InStore, Progress
    <3>2. CASE phase[w] # "manifest"
      <4>1. Target(w) # ManifestPath /\ Target(w) \in Paths
        BY <1>2, <3>2, PathsDiffer, TargetTyped DEF Target, Write, PutPart, PutPartThen, PutCells, PutObjects, PutManifest,
           SafeWriting, WritersProgress, Writing
      <4>2. PICK body : Put(w, Target(w), body)
        BY <1>2, WriteIsAPut DEF SafeWriting
      <4>3. store' = [store EXCEPT ![Target(w)] = body]
        BY <2>2, <4>2, PutLands
      <4>4. store[ManifestPath] # Absent
        BY <4>1, <4>3, FixedPathsTyped DEF SafeWriting, WritersProgress, TypeOK
      <4>5. PICK d \in Calls : Complete(d)
        BY <4>4 DEF SafeWriting, ManifestComplete
      <4>6. d = c
        BY DEF OnlyCall
      <4> QED
        BY <4>5, <4>6 DEF Complete
    <3> QED
      BY <3>1, <3>2
  <2>6. PartsThere(c, PartIds(c))' /\ CatalogThere(c)' /\ ObjectsThere(c)' /\ ManifestThere(c)'
    BY <2>3, <2>4, <2>5
  <2> QED
    BY <2>6 DEF Complete
<1>3. ASSUME NEW w \in Writers, ~Write(w),
             (\E c \in Calls : Call(w, c)) \/ Truncate(w) \/ Interrupt(w)
      PROVE  store' = store
  BY <1>3 DEF Call, Truncate, Interrupt, OnlyCall
<1> QED
  BY <1>1, <1>2, <1>3 DEF WriterNext, vars

LEMMA AlwaysSafe == Spec => []SafeWriting
<1>1. SafeWriting /\ [WriterNext]_vars => SafeWriting'
  BY StepProgress, StepKept, StepPublished DEF SafeWriting
<1> QED
  BY <1>1, InitSafe, PTL DEF Spec

\* A run of write_collection that returned with the prefix to itself leaves its collection
\* there, complete, over whatever it found: debris, torn files, another collection
\* (writer.write_collection).  For every number of levels, parts and writers.
THEOREM ReturnedWritesAreSound == Spec => []ReturnedIsSound
<1>1. SafeWriting => ReturnedIsSound
  <2> SUFFICES ASSUME SafeWriting, NEW w \in Writers, phase[w] = "returned", alone[w]
               PROVE  Sound /\ store[ManifestPath].of = Collection[call[w]]
    BY DEF ReturnedIsSound
  <2>1. TypeOK /\ call[w] \in Calls /\ InStore(w) /\ Progress(w)
    BY DEF SafeWriting, WritersProgress, TypeOK, Kept, Undisturbed
  <2>2. Complete(call[w])
    BY <2>1 DEF InStore, Progress, Complete
  <2> QED
    BY <2>1, <2>2, CompleteIsSound
<1> QED
  BY <1>1, AlwaysSafe, PTL

\* "A retried write must not leave debris": where the calls a prefix sees cut their collections
\* into the same parts, as retries of one call do, a run that returned with the prefix to
\* itself leaves no part there that its manifest does not name (writer.write_collection).
THEOREM RetriesLeaveNoDebris ==
    ASSUME \A c, d \in Calls : PartIds(c) = PartIds(d)
    PROVE  Spec => []NoDebris
<1>1. SafeWriting => NoDebris
  <2> SUFFICES ASSUME SafeWriting, NEW w \in Writers, phase[w] = "returned", alone[w],
                      NEW path \in PartPaths
               PROVE  \E entry \in store[ManifestPath].files : entry.path = path
    BY DEF NoDebris
  <2>1. call[w] \in Calls /\ InStore(w)
    BY DEF SafeWriting, WritersProgress, TypeOK, Kept, Undisturbed
  <2>2. store[ManifestPath].files = Entries(call[w])
    BY <2>1 DEF InStore, ManifestThere, ManifestBody
  <2>3. PICK p \in PartIds(call[w]) : path = PartPath(p)
    BY <2>1 DEF PartPaths
  <2>4. FileEntry(call[w], p) \in Entries(call[w]) /\ FileEntry(call[w], p).path = path
    BY <2>3 DEF Entries, FileEntry
  <2> QED
    BY <2>2, <2>4
<1> QED
  BY <1>1, AlwaysSafe, PTL

\* "Everything the manifest names now exists": with the manifest put last, a prefix that only
\* ever sees one call, through a store that puts atomically, is complete whenever its
\* manifest is there -- at every moment, with any number of interrupted, repeated and
\* overlapping runs (writer.write_collection, awrite_collection).
THEOREM ManifestLastIsEnough ==
    ASSUME AtomicPuts, \A c, d \in Calls : c = d
    PROVE  Spec => []ManifestMeansSound
<1>1. OnlyCall
  BY DEF OnlyCall
<1>2. SafeWriting => ManifestMeansSound
  <2> SUFFICES ASSUME SafeWriting, Whole(ManifestPath) PROVE Sound
    BY DEF ManifestMeansSound
  <2>1. PICK c \in Calls : Complete(c)
    BY <1>1 DEF SafeWriting, ManifestComplete, Whole
  <2> QED
    BY <2>1, CompleteIsSound DEF SafeWriting, WritersProgress
<1> QED
  BY <1>2, AlwaysSafe, PTL

-----------------------------------------------------------------------------
(* What a complete prefix holds for a reader.                              *)

\* The catalog of a call, as some run of it has written it.
CatalogRows(c, rows) == \E locs \in Row : Resolved(c, locs) /\ rows = [key \in CatalogKeys[c] |-> locs[key]]

LEMMA CompleteManifest ==
    ASSUME NEW c \in Calls, Complete(c)
    PROVE  /\ Whole(ManifestPath)
           /\ store[ManifestPath] = ManifestBody(c, Entries(c))
           /\ store[ManifestPath] # Null /\ store[ManifestPath] # Absent
           /\ store[ManifestPath].of = Collection[c]
           /\ store[ManifestPath].files = Entries(c)
<1>1. Entries(c) \in SUBSET FileEntries
  BY PartTyped DEF Entries
<1>2. ManifestBody(c, Entries(c)) \in Bodies
  BY <1>1, ManifestTyped
<1>3. store[ManifestPath] = ManifestBody(c, Entries(c))
  BY DEF Complete, ManifestThere
<1> QED
  BY <1>2, <1>3, MarkersAssumption, ReadersAssumption DEF ManifestBody, Whole

LEMMA CompleteCatalog ==
    ASSUME NEW c \in Calls, Complete(c)
    PROVE  Whole(CellsPath) /\ CatalogRows(c, store[CellsPath].rows)
<1>1. PICK locs \in Row : Resolved(c, locs) /\ store[CellsPath] = CatalogBody(c, locs)
  BY DEF Complete, CatalogThere
<1>2. CatalogBody(c, locs) \notin {Absent, Torn}
  BY CatalogTyped, MarkersAssumption DEF Row
<1>3. store[CellsPath].rows = [key \in CatalogKeys[c] |-> locs[key]]
  BY <1>1 DEF CatalogBody
<1> QED
  BY <1>1, <1>2, <1>3 DEF CatalogRows, Whole

LEMMA CompletePart ==
    ASSUME NEW c \in Calls, Complete(c), NEW p \in PartIds(c)
    PROVE  /\ Whole(PartPath(p))
           /\ store[PartPath(p)] = PartBody(c, p)
           /\ store[PartPath(p)] # Null
           /\ store[PartPath(p)].size = PartSize[c][p]
<1>1. store[PartPath(p)] = PartBody(c, p)
  BY DEF Complete, PartsThere
<1>2. PartBody(c, p) \in Bodies
  BY PartTyped
<1> QED
  BY <1>1, <1>2, MarkersAssumption, ReadersAssumption DEF PartBody, Whole

\* A catalog row names a part of the call, and a row group of it that holds the cell.
LEMMA RowResolves ==
    ASSUME NEW c \in Calls, NEW rows, CatalogRows(c, rows), NEW key \in DOMAIN rows
    PROVE  /\ key \in CatalogKeys[c]
           /\ key = <<key[1], key[2]>>
           /\ <<key[1], rows[key].part>> \in PartIds(c)
           /\ rows[key].row_group \in DOMAIN Groups[c][<<key[1], rows[key].part>>]
           /\ key[2] \in Groups[c][<<key[1], rows[key].part>>][rows[key].row_group]
<1>1. PICK locs \in Row : Resolved(c, locs) /\ rows = [k \in CatalogKeys[c] |-> locs[k]]
  BY DEF CatalogRows
<1>2. key \in CatalogKeys[c] /\ rows[key] = locs[key]
  BY <1>1
<1>3. key \in Levels(c) \X Cells
  BY <1>2, CallsAssumption
<1>4. PointsInto(c, PartIds(c), key, locs[key])
  BY <1>1, <1>2 DEF Resolved
<1> QED
  BY <1>2, <1>3, <1>4 DEF PointsInto

-----------------------------------------------------------------------------
(* A reader of a complete prefix: what it keeps is what the call put, and  *)
(* no call of it has failed.                                               *)

ReadersTyped ==
    /\ DOMAIN held = Readers
    /\ DOMAIN catalog = Readers
    /\ DOMAIN handles = Readers
    /\ DOMAIN outcome = Readers
    /\ DOMAIN intact = Readers
    /\ \A r \in Readers : DOMAIN handles[r] = PartPaths

\* Of a reader's last answer: nothing, or a cell of the collection.
Answered(r, c) ==
    \/ outcome[r].what = "none"
    \/ /\ outcome[r].what = "geometry"
       /\ catalog[r] # Null
       /\ outcome[r].of = Collection[c]
       /\ outcome[r].key \in CatalogKeys[c]

Knows(r, c) ==
    /\ held[r] = ManifestBody(c, Entries(c))
    /\ catalog[r] = Null \/ CatalogRows(c, catalog[r])
    /\ \A p \in PartIds(c) : handles[r][PartPath(p)] \in {Null, PartBody(c, p)}
    /\ Answered(r, c)

\* What a reader keeps changes by its own calls only.
LEMMA OthersKnow ==
    ASSUME NEW r \in Readers, NEW c \in Calls, Knows(r, c),
           held'[r] = held[r], catalog'[r] = catalog[r], handles'[r] = handles[r], outcome'[r] = outcome[r]
    PROVE  Knows(r, c)'
  BY DEF Knows, Answered, CatalogRows, Resolved, PointsInto

LEMMA OpenKnows ==
    ASSUME ReadersTyped, NEW r \in Readers, NEW c \in Calls, Complete(c), Open(r)
    PROVE  Knows(r, c)'
<1>1. Whole(ManifestPath) /\ store[ManifestPath] = ManifestBody(c, Entries(c))
  BY CompleteManifest
<1>2. /\ held'[r] = ManifestBody(c, Entries(c))
      /\ catalog'[r] = Null
      /\ handles'[r] = [path \in PartPaths |-> Null]
      /\ outcome'[r] = [what |-> "none"]
  BY <1>1 DEF Open, Answer, ReadersTyped
<1>3. \A p \in PartIds(c) : handles'[r][PartPath(p)] = Null
  BY <1>2, PartPathTyped
<1> QED
  BY <1>2, <1>3 DEF Knows, Answered

LEMMA LoadKnows ==
    ASSUME ReadersTyped, NEW r \in Readers, NEW c \in Calls, Complete(c), Knows(r, c), LoadCatalog(r)
    PROVE  Knows(r, c)' /\ outcome[r].what = "none" /\ outcome'[r].what = "none"
<1>1. Whole(CellsPath) /\ CatalogRows(c, store[CellsPath].rows)
  BY CompleteCatalog
<1>2. /\ catalog'[r] = store[CellsPath].rows
      /\ outcome'[r] = [what |-> "none"]
      /\ UNCHANGED <<held, handles>>
  BY <1>1 DEF LoadCatalog, Answer, ReadersTyped
<1>3. CatalogRows(c, catalog'[r])
  BY <1>1, <1>2
<1>4. outcome[r].what = "none"
  BY DEF LoadCatalog, Knows, Answered
<1> QED
  BY <1>2, <1>3, <1>4 DEF Knows, Answered, CatalogRows, Resolved, PointsInto

LEMMA OpenPartKnows ==
    ASSUME ReadersTyped, NEW r \in Readers, NEW c \in Calls, Complete(c), Knows(r, c),
           catalog[r] # Null, NEW key \in DOMAIN catalog[r], OpenPart(r, key)
    PROVE  Knows(r, c)' /\ outcome'[r].what = "none"
<1> DEFINE p == <<key[1], catalog[r][key].part>>
           path == PartOf(r, key)
           named == {entry \in held[r].files : entry.path = path}
           footer == IF named = {} THEN Null ELSE Footer(path, (CHOOSE e \in named : TRUE).size)
<1>1. p \in PartIds(c) /\ path = PartPath(p) /\ path \in PartPaths
  BY RowResolves, PartPathTyped DEF Knows, PartOf, PartPath
<1>2. held[r].files = Entries(c)
  BY DEF Knows, ManifestBody
<1>3. FileEntry(c, p) \in named
  BY <1>1, <1>2 DEF Entries, FileEntry
<1>4. \A e \in named : e.size = PartSize[c][p]
  <2> SUFFICES ASSUME NEW e \in named PROVE e.size = PartSize[c][p]
    OBVIOUS
  <2>1. PICK q \in PartIds(c) : e = FileEntry(c, q)
    BY <1>2 DEF Entries
  <2>2. PartPath(q) = PartPath(p)
    BY <1>1, <2>1 DEF FileEntry
  <2>3. q = p
    BY <1>1, <2>2, PathsDiffer, PartIdsShape
  <2> QED
    BY <2>1, <2>3 DEF FileEntry
<1>5. (CHOOSE e \in named : TRUE) \in named
  BY <1>3
<1>6. footer = PartBody(c, p) /\ footer # Null
  BY <1>1, <1>3, <1>4, <1>5, CompletePart DEF Footer
<1>7. /\ handles' = [handles EXCEPT ![r][path] = footer]
      /\ Answer(r, IF footer = Null THEN "failed" ELSE "none")
      /\ UNCHANGED <<held, catalog>>
  BY DEF OpenPart
<1> HIDE DEF footer, named, path
<1>8. outcome'[r] = [what |-> "none"]
  BY <1>6, <1>7 DEF Answer, ReadersTyped
<1>9. \A q \in PartIds(c) : handles'[r][PartPath(q)] \in {Null, PartBody(c, q)}
  <2> SUFFICES ASSUME NEW q \in PartIds(c) PROVE handles'[r][PartPath(q)] \in {Null, PartBody(c, q)}
    OBVIOUS
  <2>1. PartPath(q) \in PartPaths /\ handles[r][PartPath(q)] \in {Null, PartBody(c, q)}
    BY PartPathTyped DEF Knows
  <2>2. CASE PartPath(q) = path
    <3>1. q = p
      BY <1>1, <2>2, PathsDiffer, PartIdsShape
    <3> QED
      BY <1>1, <1>6, <1>7, <2>2, <3>1 DEF ReadersTyped
  <2>3. CASE PartPath(q) # path
    BY <1>7, <2>1, <2>3 DEF ReadersTyped
  <2> QED
    BY <2>2, <2>3
<1>10. held'[r] = ManifestBody(c, Entries(c)) /\ (catalog[r] = Null \/ CatalogRows(c, catalog[r]))'
  BY <1>7 DEF Knows, CatalogRows, Resolved, PointsInto
<1>11. outcome'[r].what = "none" /\ Answered(r, c)'
  BY <1>8 DEF Answered
<1> QED
  BY <1>9, <1>10, <1>11 DEF Knows

LEMMA ReadKnows ==
    ASSUME ReadersTyped, NEW r \in Readers, NEW c \in Calls, Complete(c), Knows(r, c),
           catalog[r] # Null, NEW key \in DOMAIN catalog[r], ReadCell(r, key)
    PROVE  /\ Knows(r, c)'
           /\ key \in CatalogKeys[c]
           /\ outcome'[r] = [what |-> "geometry", of |-> Collection[c], key |-> key]
<1> DEFINE p == <<key[1], catalog[r][key].part>>
           path == PartOf(r, key)
           loc == catalog[r][key]
<1>1. /\ p \in PartIds(c) /\ path = PartPath(p)
      /\ key \in CatalogKeys[c] /\ key = <<key[1], key[2]>>
      /\ loc.row_group \in DOMAIN Groups[c][p]
      /\ key[2] \in Groups[c][p][loc.row_group]
  BY RowResolves DEF Knows, PartOf, PartPath
<1>2. handles[r][path] = PartBody(c, p) /\ store[path] = PartBody(c, p)
  BY <1>1, CompletePart DEF ReadCell, Knows
<1>3. outcome' = [outcome EXCEPT ![r] = CellFrom(PartBody(c, p), PartBody(c, p), loc, key[2])]
  BY <1>2 DEF ReadCell
<1>4. PartBody(c, p) \notin {Absent, Torn}
  BY <1>1, PartTyped, MarkersAssumption
<1>5. /\ PartBody(c, p).groups = Groups[c][p]
      /\ PartBody(c, p).of = Collection[c]
      /\ PartBody(c, p).level = key[1]
  BY DEF PartBody
<1>6. CellFrom(PartBody(c, p), PartBody(c, p), loc, key[2]) =
          [what |-> "geometry", of |-> Collection[c], key |-> key]
  BY <1>1, <1>4, <1>5 DEF CellFrom
<1>7. outcome'[r] = [what |-> "geometry", of |-> Collection[c], key |-> key]
  BY <1>3, <1>6 DEF ReadersTyped
<1>8. UNCHANGED <<held, catalog, handles>>
  BY DEF ReadCell
<1>9. Answered(r, c)'
  BY <1>1, <1>7, <1>8 DEF Answered
<1> QED
  BY <1>1, <1>7, <1>8, <1>9 DEF Knows, CatalogRows, Resolved, PointsInto

LEMMA ReleaseKnows ==
    ASSUME ReadersTyped, NEW r \in Readers, NEW c \in Calls, Knows(r, c), Release(r)
    PROVE  Knows(r, c)' /\ outcome' = outcome
<1>1. handles'[r] = [path \in PartPaths |-> Null] /\ UNCHANGED <<held, catalog, outcome>>
  BY DEF Release, ReadersTyped
<1>2. \A p \in PartIds(c) : handles'[r][PartPath(p)] = Null
  BY <1>1, PartPathTyped
<1> QED
  BY <1>1, <1>2 DEF Knows, Answered, CatalogRows, Resolved, PointsInto
-----------------------------------------------------------------------------
(* Reads of an intact prefix.                                              *)

\* Whoever reads a prefix that has been complete since it was opened knows it.
IntactKnow == \A r \in Readers : intact[r] => \E c \in Calls : Complete(c) /\ Knows(r, c)

\* A writer that has returned with the prefix to itself has left its call there.
LEMMA ReturnedIsComplete ==
    ASSUME SafeWriting, NEW w \in Writers, phase[w] = "returned", alone[w]
    PROVE  call[w] \in Calls /\ Complete(call[w])
<1>1. call[w] \in Calls /\ InStore(w) /\ Progress(w)
  BY DEF SafeWriting, WritersProgress, TypeOK, Kept, Undisturbed
<1> QED
  BY <1>1 DEF InStore, Progress, Complete

LEMMA WritersStep == SafeWriting /\ [WriterNext]_vars => SafeWriting'
  BY StepProgress, StepKept, StepPublished DEF SafeWriting

\* The steps of a reader.
ReaderStep(r) ==
    \/ Open(r)
    \/ LoadCatalog(r)
    \/ catalog[r] # Null /\ \E key \in DOMAIN catalog[r] : OpenPart(r, key) \/ ReadCell(r, key)
    \/ Release(r)

LEMMA StepReadersTyped == ReadersTyped /\ [ReadNext]_allVars => ReadersTyped'
<1> SUFFICES ASSUME ReadersTyped, [ReadNext]_allVars PROVE ReadersTyped'
  OBVIOUS
<1>1. CASE UNCHANGED allVars
  BY <1>1 DEF allVars, readers, ReadersTyped
<1>2. CASE intact' = [r \in Readers |-> intact[r] /\ store' = store] /\ UNCHANGED <<held, catalog, handles, outcome>>
  BY <1>2 DEF ReadersTyped
<1>3. ASSUME NEW r \in Readers, ReaderStep(r) PROVE ReadersTyped'
  <2>1. CASE Open(r)
    BY <2>1 DEF Open, Answer, ReadersTyped
  <2>2. CASE LoadCatalog(r)
    BY <2>2 DEF LoadCatalog, Answer, ReadersTyped
  <2>3. ASSUME NEW key, OpenPart(r, key) PROVE ReadersTyped'
    BY <2>3 DEF OpenPart, Answer, ReadersTyped
  <2>4. ASSUME NEW key, ReadCell(r, key) PROVE ReadersTyped'
    BY <2>4 DEF ReadCell, ReadersTyped
  <2>5. CASE Release(r)
    BY <2>5 DEF Release, ReadersTyped
  <2> QED
    BY <1>3, <2>1, <2>2, <2>3, <2>4, <2>5 DEF ReaderStep
<1> QED
  BY <1>1, <1>2, <1>3 DEF ReadNext, ReaderNext, ReaderStep

\* A reader's step changes nothing of what another reader keeps.
LEMMA ReaderStepsAlone ==
    ASSUME ReadersTyped, NEW q \in Readers, NEW r \in Readers, q # r, ReaderStep(q)
    PROVE  /\ held'[r] = held[r] /\ catalog'[r] = catalog[r] /\ handles'[r] = handles[r]
           /\ outcome'[r] = outcome[r] /\ intact'[r] = intact[r]
<1>1. CASE Open(q)
  BY <1>1 DEF Open, Answer, ReadersTyped
<1>2. CASE LoadCatalog(q)
  BY <1>2 DEF LoadCatalog, Answer, ReadersTyped
<1>3. ASSUME NEW key, OpenPart(q, key)
      PROVE  /\ held'[r] = held[r] /\ catalog'[r] = catalog[r] /\ handles'[r] = handles[r]
             /\ outcome'[r] = outcome[r] /\ intact'[r] = intact[r]
  BY <1>3 DEF OpenPart, Answer, ReadersTyped
<1>4. ASSUME NEW key, ReadCell(q, key)
      PROVE  /\ held'[r] = held[r] /\ catalog'[r] = catalog[r] /\ handles'[r] = handles[r]
             /\ outcome'[r] = outcome[r] /\ intact'[r] = intact[r]
  BY <1>4 DEF ReadCell, ReadersTyped
<1>5. CASE Release(q)
  BY <1>5 DEF Release, ReadersTyped
<1> QED
  BY <1>1, <1>2, <1>3, <1>4, <1>5 DEF ReaderStep

\* A reader of a complete prefix goes on knowing it, whatever it calls.
LEMMA ReaderStepKnows ==
    ASSUME ReadersTyped, NEW r \in Readers, NEW c \in Calls, Complete(c), Knows(r, c), ReaderStep(r)
    PROVE  Knows(r, c)'
  BY OpenKnows, LoadKnows, OpenPartKnows, ReadKnows, ReleaseKnows DEF ReaderStep

LEMMA StillComplete ==
    ASSUME NEW c \in Calls, Complete(c), store' = store
    PROVE  Complete(c)'
  BY DEF Complete, PartsThere, CatalogThere, ObjectsThere, ManifestThere, Resolved, PointsInto

LEMMA StepIntactKnow == SafeWriting /\ ReadersTyped /\ IntactKnow /\ [ReadNext]_allVars => IntactKnow'
<1> SUFFICES ASSUME SafeWriting, ReadersTyped, IntactKnow, [ReadNext]_allVars,
                    NEW r \in Readers, intact'[r]
             PROVE  \E c \in Calls : Complete(c)' /\ Knows(r, c)'
  BY DEF IntactKnow
<1>1. CASE UNCHANGED allVars
  <2>1. PICK c \in Calls : Complete(c) /\ Knows(r, c)
    BY <1>1 DEF IntactKnow, allVars, readers
  <2> QED
    BY <1>1, <2>1, StillComplete, OthersKnow DEF allVars, readers, vars
<1>2. CASE /\ WriterNext
           /\ intact' = [q \in Readers |-> intact[q] /\ store' = store]
           /\ UNCHANGED <<held, catalog, handles, outcome>>
  <2>1. intact[r] /\ store' = store
    BY <1>2
  <2>2. PICK c \in Calls : Complete(c) /\ Knows(r, c)
    BY <2>1 DEF IntactKnow
  <2> QED
    BY <1>2, <2>1, <2>2, StillComplete, OthersKnow
<1>3. ASSUME NEW q \in Readers, ReaderStep(q), UNCHANGED vars
      PROVE  \E c \in Calls : Complete(c)' /\ Knows(r, c)'
  <2>1. store' = store
    BY <1>3 DEF vars
  <2>2. CASE q # r
    <3>1. /\ held'[r] = held[r] /\ catalog'[r] = catalog[r] /\ handles'[r] = handles[r]
          /\ outcome'[r] = outcome[r] /\ intact[r]
      BY <1>3, <2>2, ReaderStepsAlone
    <3>2. PICK c \in Calls : Complete(c) /\ Knows(r, c)
      BY <3>1 DEF IntactKnow
    <3> QED
      BY <2>1, <3>1, <3>2, StillComplete, OthersKnow
  <2>3. CASE q = r /\ Open(r)
    <3>1. PICK w \in Writers : phase[w] = "returned" /\ alone[w]
      BY <2>3 DEF Open, ReadersTyped
    <3>2. PICK c \in Calls : Complete(c)
      BY <3>1, ReturnedIsComplete
    <3> QED
      BY <2>1, <2>3, <3>2, StillComplete, OpenKnows
  <2>4. CASE q = r /\ ~Open(r)
    <3>1. intact[r]
      BY <1>3, <2>4 DEF ReaderStep, LoadCatalog, OpenPart, ReadCell, Release
    <3>2. PICK c \in Calls : Complete(c) /\ Knows(r, c)
      BY <3>1 DEF IntactKnow
    <3> QED
      BY <1>3, <2>1, <2>4, <3>2, StillComplete, ReaderStepKnows
  <2> QED
    BY <2>2, <2>3, <2>4
<1> QED
  BY <1>1, <1>2, <1>3 DEF ReadNext, ReaderNext, ReaderStep

LEMMA InitReaders == ReaderInit => ReadersTyped /\ IntactKnow
  BY DEF ReaderInit, ReadersTyped, IntactKnow

\* A Collection opened on a completed prefix that nobody has touched since answers every read
\* of a cell its catalog lists, with a cell of the collection it was opened on, whatever debris
\* of earlier runs lies beside it, and through any releases (reader.Collection).
THEOREM IntactPrefixesReadBack == ReadSpec => []IntactReadsSucceed
<1> DEFINE ReadInv == SafeWriting /\ ReadersTyped /\ IntactKnow
<1>1. ReadInit => ReadInv
  BY InitSafe, InitReaders DEF ReadInit
<1>2. ReadInv /\ [ReadNext]_allVars => ReadInv'
  <2>1. [ReadNext]_allVars => [WriterNext]_vars
    BY DEF ReadNext, allVars
  <2> QED
    BY <2>1, WritersStep, StepReadersTyped, StepIntactKnow
<1>3. ReadInv => IntactReadsSucceed
  <2> SUFFICES ASSUME ReadInv, NEW r \in Readers, intact[r]
               PROVE  /\ outcome[r].what \in {"none", "geometry"}
                      /\ outcome[r].what = "geometry" =>
                            outcome[r].of = held[r].of /\ outcome[r].key \in DOMAIN catalog[r]
    BY DEF IntactReadsSucceed
  <2>1. PICK c \in Calls : Knows(r, c)
    BY DEF IntactKnow
  <2>2. held[r].of = Collection[c]
    BY <2>1 DEF Knows, ManifestBody
  <2>3. catalog[r] # Null => DOMAIN catalog[r] = CatalogKeys[c]
    BY <2>1 DEF Knows, CatalogRows
  <2> QED
    BY <2>1, <2>2, <2>3 DEF Knows, Answered
<1> QED
  BY <1>1, <1>2, <1>3, PTL DEF ReadSpec
-----------------------------------------------------------------------------
(* Publication.  One call and a store that puts atomically: whoever has a  *)
(* manifest has one of a prefix that is complete and stays so.             *)

OpenKnow ==
    \A r \in Readers :
        \/ held[r] = Null /\ catalog[r] = Null /\ outcome[r].what \notin {"geometry", "failed"}
        \/ \E c \in Calls : Complete(c) /\ Knows(r, c)

\* A manifest that is there stays there.
LEMMA ManifestStays ==
    ASSUME SafeWriting, OnlyCall, WriterNext, store[ManifestPath] # Absent
    PROVE  store'[ManifestPath] # Absent
<1>1. PICK w \in Writers : (\E c \in Calls : Call(w, c)) \/ Truncate(w) \/ Write(w) \/ Interrupt(w)
  BY DEF WriterNext
<1>2. CASE (\E c \in Calls : Call(w, c)) \/ Truncate(w) \/ Interrupt(w)
  BY <1>2 DEF Call, Truncate, Interrupt, OnlyCall
<1>3. CASE Write(w)
  <2>1. /\ phase[w] \in Writing /\ phase[w] # "idle" /\ Undisturbed(w)
        /\ call[w] \in Calls /\ TypeOK /\ WritersProgress
    BY <1>3 DEF Write, PutPart, PutPartThen, PutCells, PutObjects, PutManifest, Writing, Undisturbed,
       SafeWriting, WritersProgress, TypeOK
  <2>2. PICK body : Put(w, Target(w), body) /\ OneOfItsPuts(call[w], Target(w), body)
    BY <1>3, <2>1, WriteIsAPut
  <2>3. store' = [store EXCEPT ![Target(w)] = body]
    BY <2>1, <2>2, PutLands
  <2>4. CASE Target(w) = ManifestPath
    <3>1. body = ManifestBody(call[w], Entries(call[w]))
      BY <2>2, <2>4, PathsDiffer DEF OneOfItsPuts
    <3>2. body # Absent
      <4>1. Entries(call[w]) \in SUBSET FileEntries
        BY <2>1, PartTyped DEF Entries
      <4> QED
        BY <2>1, <3>1, <4>1, ManifestTyped, MarkersAssumption
    <3> QED
      BY <2>1, <2>3, <2>4, <3>2, FixedPathsTyped DEF TypeOK
  <2>5. CASE Target(w) # ManifestPath
    BY <2>1, <2>3, <2>5, FixedPathsTyped DEF TypeOK
  <2> QED
    BY <2>4, <2>5
<1> QED
  BY <1>1, <1>2, <1>3

\* With one call, what is complete stays complete.
LEMMA CompleteStays ==
    ASSUME SafeWriting, OnlyCall, WriterNext, NEW c \in Calls, Complete(c)
    PROVE  Complete(c)'
<1>1. store[ManifestPath] # Absent
  BY CompleteManifest
<1>2. store'[ManifestPath] # Absent
  BY <1>1, ManifestStays
<1>3. ManifestComplete'
  BY StepPublished
<1>4. PICK d \in Calls : Complete(d)'
  BY <1>2, <1>3 DEF ManifestComplete, OnlyCall
<1>5. d = c
  BY DEF OnlyCall
<1> QED
  BY <1>4, <1>5

LEMMA StepOpenKnow ==
    ASSUME SafeWriting, OnlyCall, ReadersTyped, OpenKnow, [ReadNext]_allVars
    PROVE  OpenKnow'
<1> SUFFICES ASSUME NEW r \in Readers
             PROVE  \/ held'[r] = Null /\ catalog'[r] = Null /\ outcome'[r].what \notin {"geometry", "failed"}
                    \/ \E c \in Calls : Complete(c)' /\ Knows(r, c)'
  BY DEF OpenKnow
<1>1. CASE UNCHANGED <<held, catalog, handles, outcome>> /\ (WriterNext \/ store' = store)
  <2>1. CASE held[r] = Null /\ catalog[r] = Null /\ outcome[r].what \notin {"geometry", "failed"}
    BY <1>1, <2>1
  <2>2. ASSUME NEW c \in Calls, Complete(c), Knows(r, c) PROVE Complete(c)' /\ Knows(r, c)'
    BY <1>1, <2>2, CompleteStays, StillComplete, OthersKnow
  <2> QED
    BY <2>1, <2>2 DEF OpenKnow
<1>2. ASSUME NEW q \in Readers, ReaderStep(q), store' = store
      PROVE  \/ held'[r] = Null /\ catalog'[r] = Null /\ outcome'[r].what \notin {"geometry", "failed"}
             \/ \E c \in Calls : Complete(c)' /\ Knows(r, c)'
  <2>1. CASE q # r
    <3>1. /\ held'[r] = held[r] /\ catalog'[r] = catalog[r] /\ handles'[r] = handles[r]
          /\ outcome'[r] = outcome[r]
      BY <1>2, <2>1, ReaderStepsAlone
    <3>2. ASSUME NEW c \in Calls, Complete(c), Knows(r, c) PROVE Complete(c)' /\ Knows(r, c)'
      BY <1>2, <3>1, <3>2, StillComplete, OthersKnow
    <3> QED
      BY <3>1, <3>2 DEF OpenKnow
  <2>2. CASE q = r /\ Open(r) /\ Whole(ManifestPath)
    <3>1. PICK c \in Calls : Complete(c)
      BY <2>2 DEF SafeWriting, ManifestComplete, Whole
    <3> QED
      BY <1>2, <2>2, <3>1, StillComplete, OpenKnows
  <2>3. CASE q = r /\ Open(r) /\ ~Whole(ManifestPath)
    BY <2>3 DEF Open, Answer, ReadersTyped
  <2>4. CASE q = r /\ ~Open(r)
    <3>1. ASSUME NEW c \in Calls, Complete(c), Knows(r, c) PROVE Complete(c)' /\ Knows(r, c)'
      BY <1>2, <2>4, <3>1, StillComplete, ReaderStepKnows
    <3>2. held[r] # Null
          \/ (catalog[r] # Null /\ \E key \in DOMAIN catalog[r] : OpenPart(r, key) \/ ReadCell(r, key))
      BY <1>2, <2>4 DEF ReaderStep, LoadCatalog, Release
    <3> QED
      BY <3>1, <3>2 DEF OpenKnow
  <2> QED
    BY <2>1, <2>2, <2>3, <2>4
<1>3. [ReadNext]_allVars =>
          \/ UNCHANGED <<held, catalog, handles, outcome>> /\ (WriterNext \/ store' = store)
          \/ \E q \in Readers : ReaderStep(q) /\ store' = store
  BY DEF ReadNext, ReaderNext, ReaderStep, allVars, readers, vars
<1> QED
  BY <1>1, <1>2, <1>3

LEMMA LastReadIs ==
    ASSUME NEW r \in Readers
    PROVE  /\ outcome[r].what = "geometry" => LastRead[r] = <<outcome[r].of, outcome[r].key>>
           /\ outcome[r].what \notin {"geometry", "failed"} => LastRead[r] = Null
  BY DEF LastRead

LEMMA PublishedIs ==
    ASSUME NEW c \in Calls, Complete(c)
    PROVE  Published = Collection[c]
  BY CompleteManifest DEF Published

\* A step of the writers publishes the collection or changes nothing a reader can see.
LEMMA WritersPublish ==
    ASSUME SafeWriting, OnlyCall, WriterNext, UNCHANGED <<held, catalog, handles, outcome>>
    PROVE  (\E c \in Calls : Abstract!Publish(Collection[c])) \/ UNCHANGED Abstract!vars
<1>1. UNCHANGED View /\ UNCHANGED LastRead
  BY DEF View, LastRead
<1>2. CASE store[ManifestPath] # Absent
  <2>1. PICK c \in Calls : Complete(c)
    BY <1>2 DEF SafeWriting, ManifestComplete
  <2>2. Complete(c)'
    BY <2>1, CompleteStays
  <2>3. Published = Collection[c] /\ Published' = Collection[c]
    BY <2>1, <2>2, CompleteManifest DEF Published, Whole, Complete, ManifestThere, ManifestBody
  <2> QED
    BY <1>1, <2>3 DEF Abstract!vars
<1>3. CASE store[ManifestPath] = Absent
  <2>1. Published = Null
    BY <1>3 DEF Published, Whole
  <2>2. CASE store'[ManifestPath] = Absent
    <3>1. Published' = Null
      BY <2>2 DEF Published, Whole
    <3> QED
      BY <1>1, <2>1, <3>1 DEF Abstract!vars
  <2>3. CASE store'[ManifestPath] # Absent
    <3>1. ManifestComplete'
      BY StepPublished
    <3>2. PICK c \in Calls : Complete(c)'
      BY <2>3, <3>1 DEF ManifestComplete, OnlyCall
    <3>3. Published' = Collection[c]
      <4>1. store'[ManifestPath] = ManifestBody(c, Entries(c))
        BY <3>2 DEF Complete, ManifestThere
      <4>2. ManifestBody(c, Entries(c)) \notin {Absent, Torn}
        <5>1. Entries(c) \in SUBSET FileEntries
          BY PartTyped DEF Entries
        <5> QED
          BY <5>1, ManifestTyped, MarkersAssumption
      <4> QED
        BY <4>1, <4>2 DEF Published, Whole, ManifestBody
    <3> QED
      BY <1>1, <2>1, <3>3 DEF Abstract!Publish
  <2> QED
    BY <2>2, <2>3
<1> QED
  BY <1>2, <1>3

\* A step of a reader opens the collection, reads a cell of it, or changes nothing it can see.
LEMMA ReadersRead ==
    ASSUME SafeWriting, OnlyCall, ReadersTyped, OpenKnow, NEW r \in Readers, ReaderStep(r), UNCHANGED vars
    PROVE  \/ Abstract!Open(r)
           \/ \E c \in Calls : \E key \in KeysOf(Collection[c]) : Abstract!Read(r, key)
           \/ UNCHANGED Abstract!vars
<1>1. UNCHANGED Published
  BY DEF Published, Whole, vars
<1>2. \A q \in Readers : q # r => held'[q] = held[q] /\ outcome'[q] = outcome[q]
  BY ReaderStepsAlone
<1>3. CASE Open(r)
  <2>1. /\ held'[r] = IF Whole(ManifestPath) THEN store[ManifestPath] ELSE Null
        /\ outcome'[r].what \notin {"geometry", "failed"}
    BY <1>3 DEF Open, Answer, ReadersTyped
  <2>2. (IF held'[r] = Null THEN Null ELSE held'[r].of) = Published
    <3>1. CASE Whole(ManifestPath)
      <4>1. PICK c \in Calls : Complete(c)
        BY <3>1 DEF SafeWriting, ManifestComplete, Whole
      <4> QED
        BY <2>1, <3>1, <4>1, CompleteManifest DEF Published
    <3>2. CASE ~Whole(ManifestPath)
      BY <2>1, <3>2 DEF Published
    <3> QED
      BY <3>1, <3>2
  <2>3. View' = [View EXCEPT ![r] = Published]
    BY <1>2, <2>2 DEF View
  <2>4. LastRead' = [LastRead EXCEPT ![r] = Null]
    BY <1>2, <2>1 DEF LastRead
  <2> QED
    BY <1>1, <2>3, <2>4 DEF Abstract!Open
<1>4. ASSUME ~Open(r)
      PROVE  \/ Abstract!Open(r)
             \/ \E c \in Calls : \E key \in KeysOf(Collection[c]) : Abstract!Read(r, key)
             \/ UNCHANGED Abstract!vars
  <2>1. held[r] # Null \/ catalog[r] # Null
    BY <1>4 DEF ReaderStep, LoadCatalog, Release
  <2>2. PICK c \in Calls : Complete(c) /\ Knows(r, c)
    BY <2>1 DEF OpenKnow
  <2>3. Published = Collection[c] /\ held[r] # Null /\ View[r] = Collection[c] /\ Collection[c] # Null
    <3>1. held[r] = store[ManifestPath]
      BY <2>2, CompleteManifest DEF Knows
    <3> QED
      BY <2>2, <3>1, CompleteManifest, PublishedIs, ReadersAssumption DEF View
  <2>4. held' = held /\ View' = View
    BY <1>4 DEF ReaderStep, LoadCatalog, OpenPart, ReadCell, Release, View
  <2>5. CASE LoadCatalog(r)
    <3>1. outcome[r].what = "none" /\ outcome'[r].what = "none"
      BY <2>2, <2>5, LoadKnows
    <3>2. LastRead' = LastRead
      BY <1>2, <3>1 DEF LastRead
    <3> QED
      BY <1>1, <2>4, <3>2 DEF Abstract!vars
  <2>6. ASSUME catalog[r] # Null, NEW key \in DOMAIN catalog[r], OpenPart(r, key) PROVE Abstract!Open(r)
    <3>1. outcome'[r].what = "none"
      BY <2>2, <2>6, OpenPartKnows
    <3>2. LastRead' = [LastRead EXCEPT ![r] = Null]
      BY <1>2, <3>1 DEF LastRead
    <3>3. View' = [View EXCEPT ![r] = Published]
      BY <2>3, <2>4 DEF View
    <3> QED
      BY <1>1, <3>2, <3>3 DEF Abstract!Open
  <2>7. ASSUME catalog[r] # Null, NEW key \in DOMAIN catalog[r], ReadCell(r, key)
        PROVE  key \in KeysOf(Collection[c]) /\ Abstract!Read(r, key)
    <3>1. key \in CatalogKeys[c] /\ outcome'[r] = [what |-> "geometry", of |-> Collection[c], key |-> key]
      BY <2>2, <2>7, ReadKnows
    <3>2. key \in KeysOf(Collection[c])
      BY <3>1 DEF KeysOf
    <3>3. LastRead' = [LastRead EXCEPT ![r] = <<View[r], key>>]
      <4>1. /\ outcome'[r].what = "geometry"
            /\ outcome'[r].of = View[r] /\ outcome'[r].key = key
        BY <2>3, <3>1
      <4>2. LastRead'[r] = <<View[r], key>>
        BY <4>1 DEF LastRead
      <4>3. \A q \in Readers : q # r => LastRead'[q] = LastRead[q]
        BY <1>2 DEF LastRead
      <4>4. LastRead' = [q \in Readers |-> LastRead'[q]] /\ LastRead = [q \in Readers |-> LastRead[q]]
        BY DEF LastRead
      <4> QED
        BY <4>2, <4>3, <4>4
    <3> QED
      BY <1>1, <2>3, <2>4, <3>2, <3>3 DEF Abstract!Read
  <2>8. CASE Release(r)
    <3>1. outcome' = outcome
      BY <2>8 DEF Release
    <3> QED
      BY <1>1, <2>4, <3>1 DEF Abstract!vars, LastRead
  <2> QED
    BY <1>4, <2>5, <2>6, <2>7, <2>8 DEF ReaderStep
<1> QED
  BY <1>3, <1>4

\* Where a prefix only ever sees one call, through a store that puts atomically, the collection
\* appears at one instant, for all its readers, stays as it is, and no read of it fails, however
\* many runs write it and are interrupted (write_collection, awrite_collection, Collection).
THEOREM PublicationIsImplemented ==
    ASSUME AtomicPuts, \A c, d \in Calls : c = d
    PROVE  ReadSpec => PublishesAtomically
<1> DEFINE ReadInv == SafeWriting /\ ReadersTyped /\ OpenKnow
<1>1. OnlyCall
  BY DEF OnlyCall
<1>2. ReadInit => ReadInv
  BY InitSafe, InitReaders DEF ReadInit, ReaderInit, OpenKnow
<1>3. ReadInv /\ [ReadNext]_allVars => ReadInv'
  <2>1. [ReadNext]_allVars => [WriterNext]_vars
    BY DEF ReadNext, allVars
  <2> QED
    BY <1>1, <2>1, WritersStep, StepReadersTyped, StepOpenKnow
<1>4. ReadInit => Abstract!Init
  <2>1. Init => store[ManifestPath] = Absent
    BY FixedPathsTyped DEF Init
  <2> QED
    BY <2>1 DEF ReadInit, ReaderInit, Abstract!Init, Published, View, LastRead, Whole
<1>5. ReadInv /\ [ReadNext]_allVars => [Abstract!Next]_(Abstract!vars)
  <2> SUFFICES ASSUME ReadInv, [ReadNext]_allVars PROVE [Abstract!Next]_(Abstract!vars)
    OBVIOUS
  <2>1. CASE UNCHANGED allVars
    BY <2>1 DEF allVars, readers, vars, Abstract!vars, Published, View, LastRead, Whole
  <2>2. CASE WriterNext /\ UNCHANGED <<held, catalog, handles, outcome>>
    BY <1>1, <2>2, WritersPublish DEF Abstract!Next
  <2>3. ASSUME NEW r \in Readers, ReaderStep(r), UNCHANGED vars
        PROVE  [Abstract!Next]_(Abstract!vars)
    BY <1>1, <2>3, ReadersRead DEF Abstract!Next
  <2> QED
    BY <2>1, <2>2, <2>3 DEF ReadNext, ReaderNext, ReaderStep
<1> QED
  BY <1>2, <1>3, <1>4, <1>5, PTL DEF ReadSpec, PublishesAtomically, Abstract!Spec
=============================================================================
