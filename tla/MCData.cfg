SPECIFICATION MCSpec
CONSTANTS
  MaxSequence = 16
  Writers = {w1, w2}
  Lines <- TwoLines
  BufSize = 2
  LocalSize = 3
  MaxBytes = 5
  ItemSize = 24
  Bytes = 190
  Lengths = {0, 24, 25, 80, 180}
  Values = {"x", "y"}
INVARIANTS
  ComparesOnCircle
  WalksInOrder
  RefusesOnlyWhenTight
  WrittenInOrder
PROPERTIES
  ImplementsQueue
CHECK_DEADLOCK FALSE
