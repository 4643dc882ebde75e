CONSTANTS
  Keys = {k1}
  Values = {d, v}
  Default = d
  Bad = {}
  Nothing = Nothing
  Writers = {}
  Windows = {TRUE}
  MaxCommits = 3
  MaxLosses = 1
  MaxFaults = 0
SPECIFICATION Spec
INVARIANT ResyncConverges
