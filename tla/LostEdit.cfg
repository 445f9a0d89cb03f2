SPECIFICATION Spec
CONSTANTS
  Apps = {a1}
  Watchers = {w1}
  Jobs = {}
  Ids = {c1, c2}
  Refused = {}
  Broken = {}
  NoFile = NoFile
  Nobody = Nobody
  NoRow = NoRow
  KeepVersions = 1
  Health = {"up"}
  Faults = {}
  Proxy = FALSE
  Ops = {"edit"}
  MaxOps = 1
  EditNet = {TRUE}
  InitStates = {"new"}
  InitIds = {c1}
INVARIANT EditsDeployed
CHECK_DEADLOCK FALSE
