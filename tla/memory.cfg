SPECIFICATION Spec
CONSTANTS
    p1 = p1
    p2 = p2
    pr = pr
    s1 = s1
    s2 = s2
    Project <- TheProjects
    Commission <- TheCommissions
    Terminal <- TheTerminal
    WithMaterial <- TheMaterial
    ProjectOf <- TheProjectOf
    Principal <- pr
    Statement <- TheStatements
    Tokens <- TheTokens
    ClaimLimit <- TheClaimLimit
    TokenLimit <- TheTokenLimit
    Stated <- TheStated
    Shown <- TheShown
    Excluded <- TheExcluded
    MaxClaims = 3
    MaxObservations = 3
    MaxEvents = 3
INVARIANTS
    BudgetKept
    InferenceIsIndependent
PROPERTIES
    NothingLearnedAcrossBoundary
    BackOnlyByCorrection
CHECK_DEADLOCK FALSE
