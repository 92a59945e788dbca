SPECIFICATION Spec
CONSTANTS
    Keys = {1, 2}
    Threads = {"run"}
    Retention = 2
    MaxChanges = 1
    MaxListLimit = 10
    MaxBatch = 2
    MissingDeletes = FALSE
    LateLanding = FALSE
    MaxWrites = 3
    MaxArchives = 1
    MaxFaults = 0
    MaxRestores = 0
    AutoRestore = TRUE
    Staging = TRUE
INVARIANTS NoChangeLost
CHECK_DEADLOCK FALSE
