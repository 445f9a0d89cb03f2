SPECIFICATION FairSpec
CONSTANTS
  Apps = {a1}
  Watchers = {w1}
  Jobs = {j1}
  Ids = {c1, c2}
  Refused = {}
  Broken = {}
  NoFile = NoFile
  Nobody = Nobody
  NoRow = NoRow
  KeepVersions = 1
  Health = {"up"}
  Faults = {}
  Proxy = FALSE
  Ops = {"edit", "deploy", "restart", "crash"}
  MaxOps = 2
  EditNet = {TRUE}
  InitStates = {"deployed"}
  InitIds = {c1}
INVARIANT EditsTried
PROPERTY Converges
CHECK_DEADLOCK FALSE
