\* every vehicle is done before the script is
SPECIFICATION FairSpec
CONSTANTS
  N = 2
  StepCount = 1
  IsEdge = FALSE
  PullEvery = 2
  Control = FALSE
  BatchSize = 3
  Durations = {1}
  Resends = 0
PROPERTY EveryRoundReleases
\* the scenario ends: every process stops
CHECK_DEADLOCK FALSE
