SPECIFICATION FairSpec
CONSTANTS
  Apps = {a1}
  Watchers = {w1}
  Jobs = {j1, j2}
  Ids = {c1}
  Refused = {}
  Broken = {}
  NoFile = NoFile
  Nobody = Nobody
  NoRow = NoRow
  KeepVersions = 1
  Health = {"up", "bad"}
  Faults = {"up", "other", "down"}
  Proxy = FALSE
  Ops = {"restart", "stop", "start", "scale", "rollback", "statuses", "health", "cancel", "pull", "relabel"}
  MaxOps = 2
  EditNet = {TRUE}
  InitStates = {"imported"}
  InitIds = {c1}
PROPERTY ComesToRest
CHECK_DEADLOCK FALSE
