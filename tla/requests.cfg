SPECIFICATION Spec
CONSTANTS
    a1 = a1
    a2 = a2
    Attachment <- TheAttachments
    Creator = a1
    Key = {k1, k2}
    Downgrades <- SteeringOnly
    QueueCapacity = 1
    Threads = 2
    MaxJobs = 3
    MaxFaults = 1
SYMMETRY KeySymmetry
INVARIANTS
    AppliedOnce
    AnswersAgree
PROPERTIES
    NoBlindTakeover
CHECK_DEADLOCK FALSE
