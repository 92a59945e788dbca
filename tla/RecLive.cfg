SPECIFICATION FairSpec
CONSTANTS
    MaxCount = 2
    Steps = 2
    Attempts = 1
    MaxParallel = 1
    Checked = FALSE
    Timeout = TRUE
    HasDependency = TRUE
    Scaling = TRUE
    MaxSpec = 2
    MaxEdits = 1
    MaxExits = 1
    MaxTrouble = 0
INVARIANTS
    OneMigration
PROPERTIES
    ConvergesOrStalls
