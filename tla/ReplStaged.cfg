SPECIFICATION Spec
CONSTANTS
    Keys = {1}
    Threads = {"run"}
    Retention = 2
    MaxChanges = 10
    MaxListLimit = 10
    MaxBatch = 1
    MissingDeletes = TRUE
    LateLanding = TRUE
    MaxWrites = 2
    MaxArchives = 2
    MaxFaults = 2
    MaxRestores = 1
    AutoRestore = FALSE
    Staging = TRUE
INVARIANTS NoBootOnPartial
CHECK_DEADLOCK FALSE
