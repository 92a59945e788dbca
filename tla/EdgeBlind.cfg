SPECIFICATION EdgeSpec
CONSTANTS
    Routes = {"node", "app"}
    RouteSets = {{}, {"node", "app"}}
    Scope <- MCScope
    Limit <- MCLimit
    Filter <- MCFilter
    Projects = {"p"}
    AnyProject = "any"
    Kinds = {"deploy"}
    QueueDepth = 1
    MaxBatch = 2
    MaxAttempts = 2
    CoalesceWindow = 1
    Minute = 2
    MaxEvents = 4
    MaxLag = 1
    MaxReloads = 1
    Services = {1, 2, 3}
    Pool = {1, 2}
    Pool6 = {1, 2, 3}
    EventFns = {1}
    CronFns = {1, 2}
    SignedFns = {2}
    Period = 2
    FnQueueDepth = 1
    MaxConcurrent = 1
    FnAttempts = 2
    MaxApplies = 5
    MonthDays <- MCMonthDays
    WeekDays = 2
    DayHours = 2
    HourMinutes = 2
    HorizonYears = 1
    MaxCron = 20
    MaxLate = 1
    MaxStates = 2
    MaxOutages = 2
    MaxUnmountErrors = 1
    EdgeServices = {1, 2}
    Domains = {"a"}
    Ports = {80}
    Modes = {"tcp", "udp"}
    BackendSets = {{1}, {2}}
    Untrusts = FALSE
    MaxEdgeEdits = 2
    MaxEdgeFaults = 1
PROPERTY RoutesKept
CHECK_DEADLOCK FALSE
