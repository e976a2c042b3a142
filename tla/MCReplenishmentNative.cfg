SPECIFICATION Spec
CONSTANTS
    Repositories = {"etf"}
    NumGaps = 2
    GapRepository <- MCGapRepository1
    DependsOn <- MCDependsOn1
    MaxRevision = 2
    Runs = {native}
    InteractiveRuns = {native}
    None = None
    InitialTasks <- MCActive1
    MaxCommands = 2
    MaxPublications = 2
    MaxVersion = 3
CHECK_DEADLOCK FALSE
PROPERTIES
    OneAcquisitionPerNativeRun
