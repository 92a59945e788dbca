SPECIFICATION FairSpec
CONSTANTS
    Keys = {1}
    Threads = {"run"}
    Retention = 2
    MaxChanges = 10
    MaxListLimit = 10
    MaxBatch = 1
    MissingDeletes = FALSE
    LateLanding = FALSE
    MaxWrites = 3
    MaxArchives = 3
    MaxFaults = 1
    MaxRestores = 0
    AutoRestore = TRUE
    Staging = TRUE
INVARIANTS NoChangeLost RestoreNotStale NewestRestores
PROPERTIES EventuallyShipped
CHECK_DEADLOCK FALSE
