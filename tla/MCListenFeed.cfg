CONSTANTS
  Scopes = {zero, t1}
  Zero = zero
  OneDatabase = {zero, t1}
  Subscribers = {s1, s2}
  Nobody = Nobody
  MaxFeeds = 2
SYMMETRY Symmetry
SPECIFICATION Spec
INVARIANTS
  Informed
  FeedsOwned
  HoldersServed
  NoSelfWait
  NobodyStranded
PROPERTIES
  KeepsContract
