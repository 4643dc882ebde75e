CONSTANTS
  Scopes = {1, 2}
  Subs = {u1, u2}
  Publishers = {p1, p2}
  MaxPubs = 2
SPECIFICATION FairSpec
INVARIANTS
  PendingWakes
  OwedVisible
  DrainedForGood
PROPERTIES
  Conflates
  DebtsSettled
