SPECIFICATION FairSpec
CONSTANTS
  k1 = k1
  k2 = k2
  blue = blue
  green = green
  w1 = w1
  r1 = r1
  r2 = r2
  Keys = {k1, k2}
  Databases = {blue, green}
  Workers = {w1}
  Rebuilders = {r1, r2}
  BatchSize = 1
  Adversity = {}
  MaxOutbox = 3
  MaxRebuilds = 2
  MaxMishaps = 1
INVARIANT TypeOK
INVARIANT CandidateIsPrivate
INVARIANT ServedGraphIsCurrent
INVARIANT CatchUpRequestsAnalysis
PROPERTY WatermarkNeverFallsBack
PROPERTY DeliveriesEnd
PROPERTY Refines
CHECK_DEADLOCK FALSE
