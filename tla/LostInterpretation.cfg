SPECIFICATION SimulationSpec
CONSTANTS
  c1 = c1
  c2 = c2
  Simulators = {c1, c2}
  MaxSimulationAttempts = 2
  MaxSimulations = 2
  MaxSimulatorKills = 0
INVARIANT ResultsAreInterpreted
CHECK_DEADLOCK FALSE
