CONSTANTS
    Criterion = {c1, c2}
    Verifier = {v1, v2}
    Artifact = {x, y}
    Setting <- Settings
    MaxAttempts = 2
    MaxAmendments = 1
    MaxSubmissions = 3
SPECIFICATION Spec
SYMMETRY Symmetry
INVARIANTS
    PassedIsEarned
    PassedClosesGate
    BadNewsIsFollowedUp
PROPERTY GivenUpStaysGivenUp
CHECK_DEADLOCK FALSE
