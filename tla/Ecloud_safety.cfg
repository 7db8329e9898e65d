\* an edge scenario with CONTROL; handlers overlap, pushes arrive at any time,
\* and one answered call is delivered again
SPECIFICATION Spec
CONSTANTS
  N = 2
  StepCount = 2
  IsEdge = TRUE
  PullEvery = 2
  Control = TRUE
  BatchSize = 3
  Durations = {1}
  Resends = 1
\* what follows a second release is explored by Ecloud_live.cfg
CONSTRAINT ReleasedOnce
INVARIANT TypeOK
INVARIANT LockStep
INVARIANT InStep
INVARIANT MailboxQuiet
INVARIANT ProxiesFreshFromThird
INVARIANT CrashesOnlyOvertaken
INVARIANT NobodyWaitsInVain
INVARIANT AbortsOnlyIfRepeated
PROPERTY ImplementsBarrier
\* the scenario ends: every process stops
CHECK_DEADLOCK FALSE
