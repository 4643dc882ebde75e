CONSTANTS
  Keys = {k1}
  Values = {d, v, b}
  Default = d
  Bad = {b}
  Nothing = Nothing
  Writers = {}
  Windows = {TRUE}
  MaxCommits = 3
  MaxLosses = 1
  MaxFaults = 2
SPECIFICATION Spec
INVARIANTS
  Converged
  WindowsOwned
  StaleWhileDisconnected
PROPERTIES
  SnapshotNeverRegresses
  RemovalStands
