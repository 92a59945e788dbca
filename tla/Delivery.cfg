SPECIFICATION Spec
CONSTANTS
  Services = {"a"}
  MaxRuns = 2
  MaxCommit = 2
  QueueDepth = 1
  MaxChanges = 1
  MaxStops = 1
  Sites = {"auto", "custom"}
  AutoSites = {"auto"}
  GrantNames = {"auto", "custom"}
  Wildcards = TRUE
  WildcardThreshold = 1
  Life = 2
  CertFaults = {"ca", "list", "put", "files", "edge", "crash"}
  MaxCertTime = 2
  MaxCertEdits = 1
  MaxCertFaults = 1
INVARIANTS RunsHeld
PROPERTIES Implements NoResurrection PushSynced WorkingKept CertsServed
CHECK_DEADLOCK FALSE
