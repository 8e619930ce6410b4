SPECIFICATION FairSpec
CONSTANTS
  w1 = w1
  w2 = w2
  r1 = r1
  r2 = r2
  r3 = r3
  r4 = r4
  r5 = r5
  r6 = r6
  Requests <- SixRequests
  Workers <- TwoWorkers
  MaxAttempts = 3
  MaxChanges = 2
  MaxAsks = 1
  MaxFailures = 1
  MaxMishaps = 1
INVARIANT TypeOK
INVARIANT RunsMatchRequests
INVARIANT ActiveIsNewest
INVARIANT NoRequestForgotten
INVARIANT RunCoversRequest
PROPERTY EveryRequestAnalysed
CHECK_DEADLOCK FALSE
