SPECIFICATION Spec
CONSTANTS
  Apps = {a1}
  Watchers = {w1}
  Jobs = {j1, j2}
  Ids = {c1, c2}
  Refused = {}
  Broken = {}
  NoFile = NoFile
  Nobody = Nobody
  NoRow = NoRow
  KeepVersions = 1
  Health = {"up"}
  Faults = {}
  Proxy = FALSE
  Ops = {"edit", "restart", "cancel"}
  MaxOps = 3
  EditNet = {TRUE}
  InitStates = {"deployed"}
  InitIds = {c1}
INVARIANT LoopConverges
CHECK_DEADLOCK FALSE
