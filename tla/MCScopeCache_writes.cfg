CONSTANTS
  Keys = {k1}
  Values = {d, v}
  Default = d
  Bad = {}
  Nothing = Nothing
  Writers = {w1, w2}
  Windows = {TRUE, FALSE}
  MaxCommits = 3
  MaxLosses = 0
  MaxFaults = 1
SPECIFICATION Spec
INVARIANTS
  AckedWritesStand
SYMMETRY Symmetry
