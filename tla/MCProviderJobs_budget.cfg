SPECIFICATION Spec
CONSTANTS
  Jobs = {j1, j2, j3, j4}
  Workers = {w1, w2}
  MaxAttempts = 1
  RateLimit = 0
  Budget = 3
  MaxUnits = 2
  MockUnits = 2
  BatchSize = 2
  MaxLiveRuns = 1
  Manual = FALSE
  MaxRuns = 4
  MaxSlips = 0
SYMMETRY Symmetry
INVARIANTS OverspendIsBounded
