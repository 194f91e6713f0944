SPECIFICATION FairSpec
CONSTANTS
    w1 = w1
    w2 = w2
    c1 = c1
    c2 = c2
    Work <- TwoWork
    Configs <- OneConfig
    ExecErrors = {"storage"}
    MaxAttempts = 2
    MaxConcurrency = 2
    ClockCeilings = FALSE
    MaxFailing = 1
    AttemptBound = 2
    MaxFaults = 1
    MaxAmendments = 0
    Amendments = {}
PROPERTIES
    AttemptsEnd
    DaemonComesBack
CHECK_DEADLOCK FALSE
