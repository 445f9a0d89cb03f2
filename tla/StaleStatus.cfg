SPECIFICATION Spec
CONSTANTS
  Apps = {a1}
  Watchers = {w1}
  Jobs = {j1, j2}
  Ids = {c1}
  Refused = {}
  Broken = {}
  NoFile = NoFile
  Nobody = Nobody
  NoRow = NoRow
  KeepVersions = 1
  Health = {"up"}
  Faults = {}
  Proxy = FALSE
  Ops = {"health", "statuses", "stop"}
  MaxOps = 3
  EditNet = {TRUE}
  InitStates = {"deployed"}
  InitIds = {c1}
PROPERTY RefreshKeepsStopped
CHECK_DEADLOCK FALSE
