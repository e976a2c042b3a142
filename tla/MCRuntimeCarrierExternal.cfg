SPECIFICATION Spec
CONSTANTS
    NumTasks = 1
    Repositories = {"etf"}
    Repository <- MCRepository1
    ReviewPolicy <- MCExternal1
    IntegrationPolicy <- MCHold1
    PRs = {1}
    Revs = {r1, r2}
    Refs = {c1}
    r1 = r1
    c1 = c1
    Runs = {legacy}
    InteractiveRuns = {}
    None = None
    InitialTasks <- MCPassedTasks
    MaxCommands = 3
    MaxPublications = 1
    Events = {"CANDIDATE_READY", "INTERNAL_REPAIR", "EXTERNAL_REQUESTED",
              "REVIEW_UNAVAILABLE", "EXTERNAL_FINDING", "EXTERNAL_PASS"}
    Operations = {"COMPLETE_REVIEW", "FINALIZE_INTEGRATED",
                  "REBIND_READY_CANDIDATE", "RECONCILE_INTEGRATED"}
CHECK_DEADLOCK FALSE
PROPERTIES
    Serializable
    LiveLeaseIsPrivate
    DisabledRuntimeStandsStill
