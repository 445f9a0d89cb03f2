SPECIFICATION Spec
CONSTANTS
  Apps = {a1}
  Watchers = {w1}
  Jobs = {j1, j2}
  Ids = {c1, c2}
  Refused = {}
  Broken = {}
  NoFile = NoFile
  Nobody = Nobody
  NoRow = NoRow
  KeepVersions = 1
  Health = {"up"}
  Faults = {}
  Proxy = TRUE
  Ops = {"relabel"}
  MaxOps = 2
  EditNet = {TRUE}
  InitStates = {"deployed"}
  InitIds = {c1}
INVARIANT RoutesFollowFiles
CHECK_DEADLOCK FALSE
