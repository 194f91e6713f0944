SPECIFICATION FairSpec
CONSTANTS
    w1 = w1
    w2 = w2
    c1 = c1
    c2 = c2
    Work <- OneWork
    Configs <- OneConfig
    ExecErrors = {"failed"}
    MaxAttempts = 2
    MaxConcurrency = 1
    ClockCeilings = FALSE
    MaxFailing = 1
    AttemptBound = 2
    MaxFaults = 1
    MaxAmendments = 1
    Amendments = {"verification"}
PROPERTIES
    DaemonComesBack
CHECK_DEADLOCK FALSE
