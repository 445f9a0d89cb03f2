SPECIFICATION ServicesSpec
CONSTANTS
  Parts = {"bus", "alerts", "access", "status", "logs", "reload"}
  Pubs = {p1, p2}
  Subs = {s1}
  Cap = 2
  Limit = 5
  None = None
  RuleIds = {1, 2}
  Hooks = {"w1", "w2"}
  Samples = {0, 1}
  InitRules <- MCInitRules
  NewRules <- MCNewRules
  MaxEdits = 2
  Ids = {1, 2, 3}
  Names = {"ann", "bob"}
  Passwords = {"p1", "p2"}
  KeyNames = {"k"}
  Hashes = {"h1", "h2"}
  Callers = {c1, c2}
  Sockets = {"s1"}
  Threshold = 1
  Starts <- MCStarts
  Wanted <- MCWanted
  Kinds = {"setup", "login", "logout", "password", "update", "grant", "key",
           "dropkey", "socket", "create", "delete", "sidecar"}
  MaxAsks = 4
  Services = {"web", "db"}
  Operators = {"o1"}
  MaxRequests = 2
  MaxFaults = 1
  Followers = {"f1"}
  ChanSize = 2
  HistSize = 3
  PollTries = 2
  MaxLines = 4
  MaxDeploys = 2
  Savers = {"put1", "put2"}
  Clients = {"sync1"}
  Polling = {TRUE, FALSE}
  SyncChan = 1
  MaxStarts = 4
  NoRow = NoRow
  NoSyncer = NoSyncer
  Nobody = Nobody
INVARIANTS
  LossIsMarked
  OneOpenAlert
  RunningIsSaved
  SessionsKnowPassword BurstBounded
PROPERTIES
  PublishReturns
  ResolvedAfterFiring AlertFollowsMetric
  StatusSettles
  FollowersEnd
  UnpolledReturns
CHECK_DEADLOCK FALSE
