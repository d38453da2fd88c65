SPECIFICATION FairSpec
CONSTANTS
  Objects = {a, b, c}
  Null = Null
  Deltas = {2}
  Intervals = {1}
  Turns = 2
  Lag = 6
  MaxQueue = 2
INVARIANTS RegisteredAgrees OnePlace NoDangling LatenessBounded
PROPERTIES Served
