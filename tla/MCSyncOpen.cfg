CONSTANTS
    Calls = {c1, c2}
    Parts <- MCParts
    Groups <- MCGroups
    Sized = {"a"}
    InTail <- MCInTail
    Requests <- MCRequests
    Manners = {FALSE}
    MaxReleases = 0
    None = None
SPECIFICATION Spec
INVARIANTS
    ParsesFromMemory
CHECK_DEADLOCK FALSE
