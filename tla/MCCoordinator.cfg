CONSTANTS
  Appliers = {a1, a2}
  Publishers = {p1}
  Docs = {x, y, u}
  Undecodable = {u}
  NoApplier = NoApplier
  MaxVersions = 2
SPECIFICATION Spec
INVARIANTS
  NothingDropped
  PreviousInForce
  NewestOffered
  NoneAhead
  StatusTruthful
SYMMETRY Symmetry
