SPECIFICATION VerifySpec
CONSTANTS
    MortonBits = 3
    QuantMax = 15
    CellSize <- MCCellSize
    Inputs <- MCInputs
    FloorFaces = 4
    MaxPartBytes = 200
    RowGroupBytes = 100
    CandidateFaces = 4
INVARIANTS
    TypeOK
    PinnedHeld
    NothingVanishes
    SeamsAgree
    ReadsBack
    CoarseVerticesAreNear
    VerifierAccepts
    VerifierRejects
    NothingFarPasses
PROPERTIES
    ImplementsCollapse
    Terminates
