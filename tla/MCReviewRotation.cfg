SPECIFICATION PunctualSpec
CONSTANTS
    NumTasks = 4
    NumRepositories = 2
    Repository <- MCRepository
    BatchSize = 2
    Period = 12
    None = None
INVARIANTS
    TypeOK
PROPERTIES
    TokenCoversReads
    NoBatchStarves
