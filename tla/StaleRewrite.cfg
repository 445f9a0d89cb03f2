SPECIFICATION GSpec
CONSTANTS
  Writers = {"w"}
  MaxEdits = 0
  MaxGrants = 0
  HandEdits = FALSE
  AccessFromDashboard = TRUE
  Modes <- PullMode
  QueueCap = 1
  MaxRemote = 2
  RemoteKinds <- Kinds
  MaxChanges = 2
  MaxFaults = 0
  Restarts = FALSE
CHECK_DEADLOCK FALSE
INVARIANT RemoteEditsApply
