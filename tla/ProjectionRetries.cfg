SPECIFICATION FairSpec
CONSTANTS
  k1 = k1
  k2 = k2
  s1 = s1
  s2 = s2
  w1 = w1
  w2 = w2
  Keys <- OneKey
  Sources <- OneSource
  Owner <- OnlyKey
  Workers = {w1, w2}
  BatchSize = 2
  MaxAttempts = 2
  Adversity = {"stall"}
  MaxOutbox = 3
  MaxFailures = 2
  MaxMishaps = 2
INVARIANT TypeOK
INVARIANT ProcessedWasApplied
INVARIANT LiveLeasesHaveOneHolder
INVARIANT LeasesAreHeld
INVARIANT ClaimsInOrder
INVARIANT CatchUpRequestsAnalysis
PROPERTY TerminalIsFinal
PROPERTY DeadLetterStops
PROPERTY EveryDeliveryEnds
CHECK_DEADLOCK FALSE
