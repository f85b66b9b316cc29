SPECIFICATION MCSpec
CONSTANTS
  Slots = 3
  Kinds = {"read", "write", "addBackup", "addWrite"}
  MaxQueries = 4
  MaxPending = 2
  None = None
  BufferLen = 2
  PingQueueSize = 2
  AwakeAt = 1
  ReturnAt = 3
  MaxMsgs = 3
  MaxOwn = 1
  AutoReply = TRUE
  SpamReply = TRUE
  MaxWaiting = 3
  MaxLines = 6
  NumClients = 2
  NumTeams = 1
  MaxTeamSize = 2
  MaxRuns = 1
  Features = {"save", "swap", "invalid"}
INVARIANTS
  QueriesSafe
  TeamsConsistent
  ChatInOrder
PROPERTIES
  RanksKept
CHECK_DEADLOCK FALSE
