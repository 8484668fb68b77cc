CONSTANTS
    Writers = {w1}
    Calls = {"one", "split"}
    Collection <- MCCollection
    Cells <- MCCells
    NumLevels <- MCNumLevels
    NumParts <- MCNumParts
    Groups <- MCGroups
    PartSize <- MCPartSize
    CatalogKeys <- MCCatalogKeys
    AtomicPuts = TRUE
    Absent = Absent
    Torn = Torn
    Null = Null
SPECIFICATION Spec
INVARIANTS
    NoManifestOverDanglingCatalog
