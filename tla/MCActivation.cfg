CONSTANTS
  MaxBuilds = 5
  MaxEvents = 3
  MaxFaults = 1
SPECIFICATION FairSpec
INVARIANTS
  OneFeed
  BlockedMeansDown
  RotationReaches
  NoFeedOutlivesClose
PROPERTIES
  FollowsEvents
