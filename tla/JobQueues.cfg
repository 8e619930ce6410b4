SPECIFICATION JobSpec
CONSTANTS
  a1 = a1
  a2 = a2
  e1 = e1
  i1 = i1
  c1 = c1
  c2 = c2
  p1 = p1
  p2 = p2
  AdvisoryWorkers = {a1, a2}
  MaxAdvisoryAttempts = 2
  Truncated = {2}
  Restorable = FALSE
  MaxBundles = 2
  MaxAdvisoryRuns = 2
  MaxAdvisoryMishaps = 2
  Embedders = {e1}
  MaxEmbeddingAttempts = 2
  Texts = {"x", "y"}
  MaxDocumentChanges = 3
  MaxEmbeddingJobs = 2
  MaxEmbeddingMishaps = 2
  Analysers = {i1}
  MaxAnalysisAttempts = 2
  Incomplete = {2}
  MaxRevision = 3
  MaxConfiguration = 2
  MaxAnalyserCrashes = 1
  Simulators = {c1, c2}
  MaxSimulationAttempts = 2
  MaxSimulations = 2
  MaxSimulatorKills = 1
  Actors = {p1, p2}
  Versions = {"v1", "v2"}
  Scenarios = {"s1"}
  ClassOf <- ScenarioClass
  MaxWatermark = 1
  MaxEvaluations = 2
  MaxPromotions = 2
INVARIANT QueuesTypeOK
INVARIANT SucceededJobsAreStored
INVARIANT LatestIsAnalysed
INVARIANT FindingsMeanResult
INVARIANT ChampionIsProven
PROPERTY EndedAdvisoriesStayEnded
PROPERTY EndedSimulationsAreFinal
PROPERTY EveryJobEnds
CHECK_DEADLOCK FALSE
