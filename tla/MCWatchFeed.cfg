CONSTANTS
  Tenants = {t1, t2}
  Zero = zero
  Colls = {a, b}
  NoID = NoID
  MaxRefs = 2
  MaxMoves = 2
  MaxFaults = 2
SPECIFICATION FairSpec
INVARIANTS
  OneScopePerCollection
PROPERTIES
  StreamsAgain
