SPECIFICATION Spec
CONSTANTS
  Apps = {a1}
  Watchers = {w1, w2}
  Jobs = {}
  Ids = {c1, c2}
  Refused = {}
  Broken = {}
  NoFile = NoFile
  Nobody = Nobody
  NoRow = NoRow
  KeepVersions = 1
  Health = {"up"}
  Faults = {}
  Proxy = FALSE
  Ops = {"edit", "rmdir"}
  MaxOps = 2
  EditNet = {TRUE}
  InitStates = {"deployed"}
  InitIds = {c1}
INVARIANT ArchivedHasNoContainers
CHECK_DEADLOCK FALSE
