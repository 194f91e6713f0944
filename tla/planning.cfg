CONSTANTS
    x = x
    y = y
    Path = {x, y}
    Scope <- Writes
    Group = {g}
    MaxItems = 3
    Ceiling = {3, 5}
    MaxConcurrency = 2
    MaxFailures = 3
SPECIFICATION Spec
SYMMETRY Symmetry
INVARIANTS
    WorkStartsOnFinishedWork
    OrderedWritersNeverMeet
    BudgetCoversPlan
    IdleIsBlocked
CHECK_DEADLOCK FALSE
