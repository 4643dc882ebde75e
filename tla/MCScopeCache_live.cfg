CONSTANTS
  Keys = {k1, k2}
  Values = {d, v}
  Default = d
  Bad = {}
  Nothing = Nothing
  Writers = {}
  Windows = {TRUE, FALSE}
  MaxCommits = 2
  MaxLosses = 1
  MaxFaults = 1
SPECIFICATION FairSpec
PROPERTY EventuallySettles
