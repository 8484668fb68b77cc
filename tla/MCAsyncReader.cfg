CONSTANTS
    Calls = {c1, c2}
    Parts <- MCParts
    Groups <- MCGroups
    Sized = {"a"}
    InTail <- MCInTail
    Requests <- MCRequests
    Manners = {TRUE, FALSE}
    MaxReleases = 1
    None = None
SPECIFICATION FairSpec
INVARIANTS
    TypeOK
    OpenedOnce
    HandlesAgree
    OrderlyParsesFromMemory
PROPERTIES
    EveryCallEnds
CHECK_DEADLOCK FALSE
