SPECIFICATION Spec
CONSTANTS
  Jobs = {j1, j2}
  Workers = {w1, w2}
  MaxAttempts = 2
  RateLimit = 1
  Budget = 2
  MaxUnits = 1
  MockUnits = 1
  BatchSize = 2
  MaxLiveRuns = 2
  Manual = FALSE
  MaxRuns = 3
  MaxSlips = 0
SYMMETRY Symmetry
PROPERTIES RateLimitEnforced
