SPECIFICATION Spec
CONSTANTS
  N = 2
  MaxTick = 5
  PullEvery = 2
  Control = TRUE
  Contents = {w1, w2}
INVARIANT TypeOK
INVARIANT FetchSeesPush
INVARIANT OnePullLate
PROPERTY ImplementsBarrier
\* the last tick, or everybody done: the simulation waits
CHECK_DEADLOCK FALSE
