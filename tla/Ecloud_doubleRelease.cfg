\* two handlers find the same round complete
SPECIFICATION Spec
CONSTANTS
  N = 2
  StepCount = 1
  IsEdge = FALSE
  PullEvery = 2
  Control = FALSE
  BatchSize = 3
  Durations = {1, 2}
  Resends = 0
INVARIANT EveryoneAnswered
\* the scenario ends: every process stops
CHECK_DEADLOCK FALSE
