CONSTANTS
    Writers = {w1, w2}
    Calls = {"split", "other"}
    Collection <- MCCollection
    Cells <- MCCells
    NumLevels <- MCNumLevels
    NumParts <- MCNumParts
    Groups <- MCGroups
    PartSize <- MCPartSize
    CatalogKeys <- MCCatalogKeys
    AtomicPuts = FALSE
    Absent = Absent
    Torn = Torn
    Null = Null
SPECIFICATION Spec
SYMMETRY WriterSymmetry
INVARIANTS
    ReturnedIsSound
