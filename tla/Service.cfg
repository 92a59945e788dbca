SPECIFICATION Spec
CONSTANTS
    Tags = {11, 12}
    Digests = {1, 2}
    Counts = {3}
    MinCount = 1
    MaxCount = 4
    MaxEdits = 2
    MaxMoves = 2
    MaxTime = 4
    Ratios = {40, 105, 300}
    Tolerance = 10
    Stabilize = 2
    ScaleCooldown = 2
    MaxRestarts = 1
    Healthy = {1}
    Interval = 3
    Deadline = 1
    MinAge = 1
    Keep = 1
    MaxSweeps = 1
    Threshold = 2
    Window = 2
    Cooldown = 3
    MaxInstant = 6
    MaxFailures = 5
INVARIANTS
    
    NoBadRollback
    RevertParks
PROPERTIES
    NoDoubleCount
    OnlyOwnFields
    
    ShrinkWatched
    
CHECK_DEADLOCK FALSE
