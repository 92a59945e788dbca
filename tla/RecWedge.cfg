SPECIFICATION FairSpec
CONSTANTS
    MaxCount = 1
    Steps = 1
    Attempts = 1
    MaxParallel = 1
    Checked = FALSE
    Timeout = TRUE
    HasDependency = FALSE
    Scaling = FALSE
    MaxSpec = 1
    MaxEdits = 0
    MaxExits = 0
    MaxTrouble = 1
PROPERTIES
    Converges
