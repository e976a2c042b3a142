CONSTANTS
    r1 = r1
    s1 = s1
    Repositories <- OneRepository
    NumGaps = 3
    GapRepository <- Gaps3In1
    DependsOn <- Chain
    HoldGaps = {}
    Shas = {s1}
    Outside = Outside
    None = None
    Legacy <- FirstDone
    NewGaps = {3}
    MaxRevision = 2
    MaxDepth = 2
SPECIFICATION Spec
CHECK_DEADLOCK FALSE
INVARIANTS
    TypeOK
    WorkFollowsDependencies
    FinishedStaysFinished
    UnfinishedComesBack
PROPERTIES
    QueuedWorkSurvives
    ResultsSurvive
