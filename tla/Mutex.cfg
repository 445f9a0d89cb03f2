SPECIFICATION Spec
CONSTANTS
  Apps = {a1}
  Watchers = {w1}
  Jobs = {j1, j2}
  Ids = {c1, c2}
  Refused = {}
  Broken = {c2}
  NoFile = NoFile
  Nobody = Nobody
  NoRow = NoRow
  KeepVersions = 1
  Health = {"up"}
  Faults = {"pull"}
  Proxy = FALSE
  Ops = {"deploy", "restart", "pull", "cancel", "retryTimeout"}
  MaxOps = 3
  EditNet = {TRUE}
  InitStates = {"deployed"}
  InitIds = {c1}
SYMMETRY JobSymmetry
INVARIANTS TypeOK LogIsHeld
PROPERTY MutexSpec
CHECK_DEADLOCK FALSE
