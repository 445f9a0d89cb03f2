SPECIFICATION GSpec
CONSTANTS
  Writers = {"w"}
  MaxEdits = 1
  MaxGrants = 1
  HandEdits = TRUE
  AccessFromDashboard = TRUE
  Modes <- AllModes
  QueueCap = 1
  MaxRemote = 2
  RemoteKinds <- Kinds
  MaxChanges = 2
  MaxFaults = 1
  Restarts = TRUE
CHECK_DEADLOCK FALSE
INVARIANTS AccessNeverPulled PullOnlyFollows
PROPERTIES LocalCommitKept BranchesConverge
