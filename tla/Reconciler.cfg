SPECIFICATION Spec
CONSTANTS
    MaxCount = 2
    Steps = 1
    Attempts = 1
    MaxParallel = 1
    Checked = TRUE
    Timeout = TRUE
    HasDependency = FALSE
    Scaling = TRUE
    MaxSpec = 2
    MaxEdits = 2
    MaxExits = 0
    MaxTrouble = 1
INVARIANTS
    RollingBound
    StepsBeforeTask
    BudgetHolds
    OutagesAreFree
