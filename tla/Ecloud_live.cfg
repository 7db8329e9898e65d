\* the scenario under fair scheduling, with rounds released twice; with this batch
\* one registration is left in the mailbox
SPECIFICATION FairSpec
CONSTANTS
  N = 2
  StepCount = 1
  IsEdge = FALSE
  PullEvery = 2
  Control = FALSE
  BatchSize = 0
  Durations = {1}
  Resends = 0
PROPERTY RoundReleases
PROPERTY EveryVehicleExits
\* the scenario ends: every process stops
CHECK_DEADLOCK FALSE
