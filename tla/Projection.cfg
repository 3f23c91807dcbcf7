SPECIFICATION HSpec
CONSTANTS
  r1 = r1
  r2 = r2
  ReviewIds = {r1, r2}
  Targets = {1, 2}
  RATING_MIN = 5
  RATING_MAX = 5
  Aggregate <- TheAggregate
  limit = 1
  MaxTime = 2
  MaxQueue = 2
INVARIANTS
  XTypeOK
  NoTargetTwice
  NothingMissed
  Converges
PROPERTIES
  SnapshotEnds
