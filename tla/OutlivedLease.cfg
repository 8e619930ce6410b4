SPECIFICATION Spec
CONSTANTS
  k1 = k1
  k2 = k2
  s1 = s1
  s2 = s2
  w1 = w1
  w2 = w2
  Keys <- OneKey
  Sources <- OneSource
  Owner <- OnlyKey
  Workers = {w1, w2}
  BatchSize = 2
  MaxAttempts = 5
  Adversity = {"stall"}
  MaxOutbox = 3
  MaxFailures = 0
  MaxMishaps = 2
INVARIANT DrainedGraphIsCurrent
CHECK_DEADLOCK FALSE
