SPECIFICATION CSSpec
CONSTANTS
  Writers = {"w"}
  MaxEdits = 2
  MaxGrants = 1
  HandEdits = TRUE
  AccessFromDashboard = TRUE
CHECK_DEADLOCK FALSE
INVARIANT FileReflectsRows
