SPECIFICATION Spec
CONSTANTS
  k1 = k1
  k2 = k2
  s1 = s1
  s2 = s2
  w1 = w1
  w2 = w2
  Keys <- TwoKeys
  Sources <- TwoSources
  Owner <- OwnKey
  Workers = {w1, w2}
  BatchSize = 2
  MaxAttempts = 2
  Adversity = {}
  MaxOutbox = 2
  MaxFailures = 2
  MaxMishaps = 0
INVARIANT ServedGraphIsCurrent
CHECK_DEADLOCK FALSE
