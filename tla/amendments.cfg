SPECIFICATION Spec
CONSTANTS
    w1 = w1
    w2 = w2
    c1 = c1
    c2 = c2
    Work <- TwoWork
    Configs <- OneConfig
    ExecErrors = {"failed"}
    MaxAttempts = 2
    MaxConcurrency = 2
    ClockCeilings = TRUE
    MaxFailing = 1
    AttemptBound = 2
    MaxFaults = 1
    MaxAmendments = 1
    Amendments = {"verification", "mandate"}
SYMMETRY WorkSymmetry
INVARIANTS
    RunningAttemptOwnsAssignment
    CompletionIsEarned
PROPERTIES
    FinalIsFinal
CHECK_DEADLOCK FALSE
