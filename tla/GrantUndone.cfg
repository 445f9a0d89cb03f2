SPECIFICATION GSpec
CONSTANTS
  Writers = {"w"}
  MaxEdits = 1
  MaxGrants = 1
  HandEdits = FALSE
  AccessFromDashboard = TRUE
  Modes <- RacingMode
  QueueCap = 1
  MaxRemote = 2
  RemoteKinds <- Kinds
  MaxChanges = 2
  MaxFaults = 0
  Restarts = FALSE
CHECK_DEADLOCK FALSE
INVARIANT GrantKept
