CONSTANTS
    Commission = {c1, c2}
    Grant = {g1, g2}
    Op = {o1, o2}
    Ref = {r1}
    MaxSecrets = 2
    MaxFaults = 1
SPECIFICATION Spec
SYMMETRY Symmetry
INVARIANTS
    SettledLeavesNothing
    OutcomeIsTrue
    HolderIsKnown
PROPERTY NoSecretAfterWithdrawal
CHECK_DEADLOCK FALSE
