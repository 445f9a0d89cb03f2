SPECIFICATION Spec
CONSTANTS
  Apps = {a1}
  Watchers = {w1}
  Jobs = {j1, j2}
  Ids = {c1, r1, b1}
  Refused = {r1}
  Broken = {b1}
  NoFile = NoFile
  Nobody = Nobody
  NoRow = NoRow
  KeepVersions = 1
  Health = {"up"}
  Faults = {"down"}
  Proxy = FALSE
  Ops = {"remove", "create", "rmdir", "purge", "retryTimeout", "edit", "crash"}
  MaxOps = 2
  EditNet = {TRUE}
  InitStates = {"new"}
  InitIds = {c1, r1, b1}
SYMMETRY JobSymmetry
INVARIANTS VersionsHaveRow ArchivedWasGone
CHECK_DEADLOCK FALSE
