SPECIFICATION Spec
CONSTANTS
  Apps = {a1}
  Watchers = {w1}
  Jobs = {j1, j2}
  Ids = {r1}
  Refused = {r1}
  Broken = {}
  NoFile = NoFile
  Nobody = Nobody
  NoRow = NoRow
  KeepVersions = 1
  Health = {"up", "bad"}
  Faults = {"pull"}
  Proxy = TRUE
  Ops = {"pull", "restart", "cancel", "stop", "statuses", "health", "crash", "rmdir"}
  MaxOps = 4
  EditNet = {TRUE}
  InitStates = {"deployed"}
  InitIds = {r1}
SYMMETRY JobSymmetry
INVARIANTS RefusedStaysRouted
CHECK_DEADLOCK FALSE
