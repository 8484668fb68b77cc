CONSTANTS
    Top <- MCTop
    Catalog <- MCCatalog
    Mask <- MCMask
    Queries <- MCQueries
    NoLimit = NoLimit
    Axes <- MCAxes
    Bounds <- MCNestedBounds
    Calls <- MCCalls
    Space <- MCSpace
SPECIFICATION ViewedSpec
INVARIANTS
    TypeOK
    BudgetRespected
    BreadthFirst
    Covers
    OnlyNeededDetail
    NeverCullsTheVisible
PROPERTIES
    IsACut
    Terminates
    NoOvertaking
CHECK_DEADLOCK FALSE
