CONSTANTS
  Tenants = {t1, t2}
  Zero = zero
  Colls = {a, b}
  NoID = NoID
  MaxRefs = 1
  MaxMoves = 1
  MaxFaults = 1
SPECIFICATION Spec
INVARIANT OnlyIdentified
