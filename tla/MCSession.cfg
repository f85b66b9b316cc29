SPECIFICATION MCSpec
CONSTANTS
  Worlds = {w1, w2}
  MaxTick = 4
  MaxMap = 0
  MaxParts = 2
  TickSpeed = 2
  InitEvery = 1
  KeepTicks = 2
  CrcLimit = 1
INVARIANTS
  StreamContinues
  StoredTicksIncrease
  ShownSnapshotsLive
  SnapshotsTrue
CHECK_DEADLOCK FALSE
