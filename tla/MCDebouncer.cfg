CONSTANTS
  Keys = {k1, k2}
  MaxSubmits = 5
SPECIFICATION FairSpec
PROPERTIES
  LatestOfItsLife
  PendingAnswered
CHECK_DEADLOCK FALSE
