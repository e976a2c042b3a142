SPECIFICATION Spec
CONSTANTS
    NumTasks = 2
    Repositories = {"etf"}
    Repository <- MCRepository
    ReviewPolicy <- MCReviewPolicy
    IntegrationPolicy <- MCIntegrationPolicy
    PRs = {1, 2}
    Revs = {r1, r2}
    Refs = {c1, c2}
    Runs = {legacy, native}
    InteractiveRuns = {native}
    None = None
    InitialTasks <- MCQueuedTasks
SYMMETRY MCSymmetry
INVARIANTS
    TypeOK
    QueueStaysValid
    NoProgressBrake
PROPERTIES
    ExternalFailStands
