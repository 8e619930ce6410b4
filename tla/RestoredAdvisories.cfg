SPECIFICATION AdvisorySpec
CONSTANTS
  a1 = a1
  AdvisoryWorkers = {a1}
  MaxAdvisoryAttempts = 2
  Truncated = {}
  Restorable = TRUE
  MaxBundles = 2
  MaxAdvisoryRuns = 3
  MaxAdvisoryMishaps = 0
INVARIANT FreshAdvisoriesAreShown
CHECK_DEADLOCK FALSE
