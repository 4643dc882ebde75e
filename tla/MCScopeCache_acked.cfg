CONSTANTS
  Keys = {k1}
  Values = {d, v}
  Default = d
  Bad = {}
  Nothing = Nothing
  Writers = {w1, w2}
  Windows = {TRUE}
  MaxCommits = 3
  MaxLosses = 0
  MaxFaults = 0
SPECIFICATION Spec
INVARIANT AckedWritesVisible
