SPECIFICATION ResourcesSpec
CONSTANTS
  Parts = {"backup", "restore", "proxy", "rate", "stats", "ring", "global", "system"}
  BackupConfigs = {"b1", "b2"}
  Containers = {"db"}
  Jobs = {j1, j2}
  Restores = {"x1"}
  Requests = {"q1"}
  Crons = {"daily"}
  Keeps = {0, 1, 2}
  InitRows <- MCInitRows
  NewRows <- MCNewRows
  MaxOps = 1
  Slots = 1
  MaxRuns = 2
  MaxClock = 1
  BFaults = {"plan","pre","dump","upload","post","apply","delete"}
  BOps = {"create", "remove", "restore", "crash", "update", "purge", "sidecar",
          "upload"}
  PxApps = {1, 2}
  PxDomains = {"a"}
  Custom = "a"
  PxRules = {"open", "list"}
  Loaders = {"l1", "l2"}
  Uploaders = {"l1", "l2"}
  MaxClaims = 2
  MaxCerts = 2
  Keys = {"k1", "k2", "k3"}
  Watched = "k1"
  Quota = 1
  Burst = 2
  Window = 2
  MaxBuckets = 2
  MaxTicks = 4
  MaxCalls = 6
  TierCut <- MCCut
  TierBucket <- MCBucket
  TierKeep <- MCKeep
  QueueSize = 1
  FlushTicks = 1
  MaxNow = 9
  MaxServed = 2
  RingSize = 3
  MaxWrites = 8
  Users = {"ann", "bob"}
  Owner = "ann"
  MaxChanges = 3
  MaxFaults = 3
  NewHost = FALSE
  Gone = Gone
  Absent = Absent
  Malformed = Malformed
  Unknown = Unknown
  SysSavers = {"put1"}
  SysDirs = {"d"}
  SysKeeps = {1}
  SysMaxTime = 3
  SysMaxSaves = 2
  SysFaults = 1
  NoSysCron = NoSysCron
INVARIANTS
  RestoreVerbatim ServiceRestarted MissingIsPrunable
  RulesMatchLoaded SkipIsSafe
  SteadyRate
  CountedOnce ViewIsComplete
  RecentIsSuffix
  ListedHasFile
PROPERTIES
  NewestKept
  DomainKept
  RestartKeepsRows BadFileKept
CHECK_DEADLOCK FALSE
SYMMETRY JobSymmetry
