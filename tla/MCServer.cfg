SPECIFICATION MCSpec
CONSTANTS
  Protocols = {"v4", "v6"}
  MaxSerial = 1
  MaxFlight = 2
  MaxFaults = 1
  MaxChanges = 2
  MaxGen = 1
  NumClients = 3
  NumTeams = 1
  MaxTeamSize = 2
  MaxRuns = 1
  Features = {"practice", "team0mode", "swap"}
  NoData = NoData
  NoAddr = NoAddr
  s1 = s1
  s2 = s2
INVARIANTS
  ListsTidy
  BansHold
  MasterAgrees
  RunsAreFair
PROPERTIES
  ImplementsList
  InfoOnlyNewer
CHECK_DEADLOCK FALSE
