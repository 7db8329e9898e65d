\* the next tick overtakes the answer to the last Client_SendUpdate
SPECIFICATION Spec
CONSTANTS
  N = 2
  StepCount = 1
  IsEdge = FALSE
  PullEvery = 2
  Control = FALSE
  BatchSize = 3
  Durations = {1}
  Resends = 0
INVARIANT QueueEmptyAfterUpdate
\* the scenario ends: every process stops
CHECK_DEADLOCK FALSE
