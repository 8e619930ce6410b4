SPECIFICATION HarnessSpec
CONSTANTS
  p1 = p1
  p2 = p2
  Actors = {p1, p2}
  Versions = {"v1", "v2"}
  Scenarios = {"s1"}
  ClassOf <- ScenarioClass
  MaxWatermark = 1
  MaxEvaluations = 2
  MaxPromotions = 2
PROPERTY RollbackRestores
CHECK_DEADLOCK FALSE
