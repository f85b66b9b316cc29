SPECIFICATION Spec
PROPERTIES
  PlayerIsHeard
  UnfinishableEnds
  MasterFollows
  ChatDrains
CHECK_DEADLOCK FALSE
