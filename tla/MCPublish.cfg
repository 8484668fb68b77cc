CONSTANTS
    Writers = {w1, w2}
    Calls = {"one"}
    Collection <- MCCollection
    Cells <- MCCells
    NumLevels <- MCNumLevels
    NumParts <- MCNumParts
    Groups <- MCGroups
    PartSize <- MCPartSize
    CatalogKeys <- MCCatalogKeys
    AtomicPuts = TRUE
    Absent = Absent
    Torn = Torn
    Null = Null
    Readers = {r1}
SPECIFICATION ReadSpec
INVARIANTS
    TypeOK
    ManifestMeansSound
    NoDebris
PROPERTIES
    PublishesAtomically
