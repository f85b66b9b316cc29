SPECIFICATION MCSpec
CONSTANTS
  Workers = {w1, w2}
  None = None
  Jobs = {j1, j2, j3}
  Abortables = {j1, j3}
  RingSlots = 3
  Queries = 4
  Bytes = 5
INVARIANTS
  NoJobLost
PROPERTIES
  ImplementsService
  AllWorkEnds
CHECK_DEADLOCK FALSE
