SPECIFICATION Spec
CONSTANTS
    AttemptBound = 4
    MaxConcurrency = 2
    MaxFaults = 2
INVARIANTS
    HeadIsRecorded
    OnlyRegressionLosesWork
    AcceptedExtendsAccepted
    RolledBackIsGone
CHECK_DEADLOCK FALSE
