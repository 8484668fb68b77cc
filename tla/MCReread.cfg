CONSTANTS
    Writers = {w1}
    Calls = {"split", "other"}
    Collection <- MCCollection
    Cells <- MCCells
    NumLevels <- MCNumLevels
    NumParts <- MCNumParts
    Groups <- MCGroups
    PartSize <- MCPartSize
    CatalogKeys <- MCCatalogKeys
    AtomicPuts = FALSE
    Absent = Absent
    Torn = Torn
    Null = Null
    Readers = {r1}
SPECIFICATION ReadSpec
INVARIANTS
    IntactReadsSucceed
