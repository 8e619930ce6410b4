SPECIFICATION FairScans
CONSTANTS
  s1 = s1
  s2 = s2
  Scanners = {s1, s2}
  MaxScanAttempts = 2
  Oversized = {2}
  ScanAdversity = {}
  MaxRevisions = 2
  MaxScans = 2
  MaxDisturbances = 1
INVARIANT ScansTypeOK
INVARIANT FreshMeansPublished
INVARIANT ScheduledTargetsAreDue
INVARIANT RescanReportsItsRuns
PROPERTY EndedScansStayEnded
PROPERTY EveryScanEnds
CHECK_DEADLOCK FALSE
