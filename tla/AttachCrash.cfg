SPECIFICATION Spec
CONSTANTS
    Repos = {"r1", "r2"}
    Tags = {"t1", "t2"}
    Layers = {"l1", "l2"}
    Manifests = {"m1", "m2"}
    Children <- McChildren
    KeepManifests = 1
    MaxTags = 1
    MaxUploads = 2
    Expiry = 1
    Allocs = {"a1", "a2", "b1"}
    ServiceOf <- McServiceOf
    PoolSize = 2
    TeardownFails = FALSE
    MaxFaults = 3
    Frontends = {1, 2}
    FrontIds = {1, 2}
    BackendSets <- McBackendSets
    Renames = FALSE
    FailOps = {"put", "commit", "withdraw"}
    MaxGen = 2
    MaxLbFaults = 1
    MaxTime = 3
    RandomParts = {1, 2}
    PruneBatch = 1
    MaxEntries = 4
    Subjects = {"c1", "c2", "c3"}
    Limits <- McLimits
    Buckets = 2
    IdleFactor = 2
    Parts = 2
    MaxIdle = 4
    b1 = b1
    b2 = b2
    k1 = k1
    k2 = k2
    c1 = c1
    c2 = c2
    Clients = {c1, c2, "d1"}
    SourceOf <- McSourceOf
    SourceCap = 1
    Conns = {k1, k2}
    NodeMax = 2
    PortLimits = {1, 2}
    PortBackends = {{b1}, {b2}}
    MaxSessions = 2
    MaxUpdates = 2
INVARIANT AttachComplete
CHECK_DEADLOCK FALSE
