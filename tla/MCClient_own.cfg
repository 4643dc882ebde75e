SPECIFICATION Spec
CONSTANTS
  Keys = {k1}
  Writers = {w1, w2}
  MaxCommits = 2
  MaxStarts = 2
  MaxLosses = 1
  MaxFaults = 1
INVARIANT ReadsOwnWrites
