SPECIFICATION Spec
CONSTANTS
  Apps = {a1}
  Watchers = {w1, w2}
  Jobs = {j1}
  Ids = {c1, c2}
  Refused = {}
  Broken = {}
  NoFile = NoFile
  Nobody = Nobody
  NoRow = NoRow
  KeepVersions = 1
  Health = {"up"}
  Faults = {}
  Proxy = FALSE
  Ops = {"edit", "cancel"}
  MaxOps = 2
  EditNet = {TRUE}
  InitStates = {"new"}
  InitIds = {c1}
PROPERTY RetryWaits
CHECK_DEADLOCK FALSE
