CONSTANTS
  Appliers = {a1}
  Publishers = {p1}
  Docs = {x, y}
  Undecodable = {}
  NoApplier = NoApplier
  MaxVersions = 2
SPECIFICATION Spec
INVARIANT NeverTwice
