CONSTANTS
  Keys = {k1, k2}
  Values = {v1, v2}
  Tombstone = Tombstone
  Absent = Absent
  Engine = Engine
  MaxStamp = 1
  MaxWrites = 3
  MaxFailures = 1
SPECIFICATION Spec
INVARIANT LateNotLost
