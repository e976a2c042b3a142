SPECIFICATION RunnerSpec
CONSTANTS
    NumTasks = 3
    Repositories = {"etf", "weekly", "privacy"}
    Repository <- MCRepository
    ReviewPolicy <- MCReviewPolicy
    IntegrationPolicy <- MCIntegrationPolicy
    PRs = {1}
    Revs = {r1}
    Refs = {c1}
    Runs = {legacy}
    InteractiveRuns = {}
    None = None
    InitialTasks <- MCQueuedTasks
    Runner = legacy
    MaxAcquisitions = 2
PROPERTIES
    ExpiredLockRecovered
    WaitingStarvesNobody
