SPECIFICATION Spec
CONSTANTS
    w1 = w1
    w2 = w2
    c1 = c1
    c2 = c2
    Work <- OneWork
    Configs <- TwoConfigs
    ExecErrors = {"lease_expired", "interrupted", "unavailable"}
    MaxAttempts = 3
    MaxConcurrency = 1
    ClockCeilings = FALSE
    MaxFailing = 1
    AttemptBound = 3
    MaxFaults = 2
    MaxAmendments = 0
    Amendments = {}
SYMMETRY ConfigSymmetry
INVARIANTS
    HoldsMatchAttempts
    AcceptedWasNeverContained
    NoRetryBesideLiveSandbox
    StoppedIsExplained
    RunningAssignmentHasAttempt
PROPERTIES
    KeepsLedger
CHECK_DEADLOCK FALSE
