SPECIFICATION Spec
CONSTANTS
    Repositories = {"etf", "weekly"}
    NumGaps = 3
    GapRepository <- MCGapRepository
    DependsOn <- MCDependsOn
    MaxRevision = 2
    Runs = {native, legacy}
    InteractiveRuns = {native}
    None = None
    InitialTasks <- MCUnderWay
    MaxCommands = 2
    MaxPublications = 1
    MaxVersion = 3
CHECK_DEADLOCK FALSE
INVARIANTS
    TicksKeepTheirPlace
    TypeOK
    DependenciesFirst
    NoWorkMeansNone
PROPERTIES
    EveryCommitBinds
    NoTaskLost
    DisabledMaterializesNothing
    LeaseIsExclusive
