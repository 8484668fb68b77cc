CONSTANTS
    Inputs <- MCInputs
    Budgets <- MCBudgets
SPECIFICATION Spec
INVARIANTS
    TypeOK
    RunsPartitionRows
    OverBudgetIsOneRow
    NoNeedlessCut
    LoopIsPlan
    LocatorsFindTheirCell
CHECK_DEADLOCK FALSE
