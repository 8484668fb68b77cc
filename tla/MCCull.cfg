CONSTANTS
    Top <- MCTop
    Catalog <- MCCatalog
    Mask <- MCMask
    Queries <- MCQueries
    NoLimit = NoLimit
    Axes <- MCAxes
    Bounds <- MCDecimatedBounds
    Calls <- MCFrustumCalls
    Space <- MCSpace
SPECIFICATION ViewedSpec
INVARIANTS
    NeverCullsTheVisible
CHECK_DEADLOCK FALSE
