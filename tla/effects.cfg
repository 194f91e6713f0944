SPECIFICATION Spec
CONSTANTS
    o1 = o1
    o2 = o2
    Op <- TwoOperations
    Planned = FALSE
    AttemptBound = 1
    MaxWrites = 2
    MaxFaults = 1
    MaxAmendments = 1
SYMMETRY OperationSymmetry
INVARIANTS
    AppliedAtMostOnce
    OthersWorkSurvives
    ReceiptIsTrue
    UncertainStops
    ExecutionIsAnswered
PROPERTIES
    NoEffectAfterWithdrawal
CHECK_DEADLOCK FALSE
