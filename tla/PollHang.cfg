SPECIFICATION ReloadSpec
CONSTANTS
  Savers = {"put1"}
  Clients = {}
  Polling = {TRUE}
  SyncChan = 1
  MaxStarts = 2
  NoRow = NoRow
  NoSyncer = NoSyncer
  Nobody = Nobody
PROPERTY ReloadReturns
CHECK_DEADLOCK FALSE
