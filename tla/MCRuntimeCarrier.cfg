SPECIFICATION Spec
CONSTANTS
    NumTasks = 1
    Repositories = {"etf"}
    Repository <- MCRepository1
    ReviewPolicy <- MCInternal1
    IntegrationPolicy <- MCHold1
    PRs = {1}
    Revs = {r1, r2}
    Refs = {c1}
    r1 = r1
    c1 = c1
    Runs = {legacy, native}
    InteractiveRuns = {native}
    None = None
    InitialTasks <- MCQueuedTasks
    MaxCommands = 3
    MaxPublications = 1
    Events = {"YIELD", "CANDIDATE_READY", "INTERNAL_PASS"}
    Operations = {}
CHECK_DEADLOCK FALSE
INVARIANTS
    TypeOK
    TicksKeepTheirPlace
PROPERTIES
    LeaseIsSound
    Serializable
