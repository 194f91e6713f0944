SPECIFICATION Spec
CONSTANTS
    AttemptBound = 3
    MaxConcurrency = 2
    MaxFaults = 2
INVARIANTS
    AcceptedWorkIsKept
CHECK_DEADLOCK FALSE
