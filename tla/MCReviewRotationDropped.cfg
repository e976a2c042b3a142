SPECIFICATION DroppingSpec
CONSTANTS
    NumTasks = 3
    NumRepositories = 2
    Repository <- MCRepository3
    BatchSize = 2
    Period = 4
    None = None
PROPERTIES
    DroppedRunsAreRetried
