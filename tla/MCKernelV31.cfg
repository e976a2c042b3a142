CONSTANTS
    r1 = r1
    s1 = s1
    s2 = s2
    j1 = j1
    j2 = j2
    Repositories <- OneRepository
    NumGaps = 3
    GapRepository <- Gaps3In1
    DependsOn <- ThirdNeedsBoth
    HoldGaps = {1}
    Shas = {s1, s2}
    Outside = Outside
    None = None
    Legacy <- FirstDone
    Jobs = {j1, j2}
    MaxRuns = 2
    MaxChanges = 1
    MaxDepth = 3
SPECIFICATION Spec
SYMMETRY Symmetry
INVARIANTS
    TypeOK
    CapacityHolds
    MergedIsLanded
    ChainIsLinear
    ResultsMatch
    DependenciesLanded
    FactsStand
PROPERTIES
    SettledStands
    ClaimsFenced
    BaseNeverRewound
