SPECIFICATION Spec
CONSTANTS
  Apps = {a1, a2}
  Watchers = {w1}
  Jobs = {j1}
  Ids = {c1, c2}
  Refused = {}
  Broken = {}
  NoFile = NoFile
  Nobody = Nobody
  NoRow = NoRow
  KeepVersions = 1
  Health = {"up"}
  Faults = {}
  Proxy = FALSE
  Ops = {"edit", "relabel"}
  MaxOps = 2
  EditNet = {TRUE}
  InitStates = {"deployed"}
  InitIds = {c1}
INVARIANT OtherEditsDeployed
CHECK_DEADLOCK FALSE
