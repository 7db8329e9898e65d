SPECIFICATION FairSpec
CONSTANTS
  Containers = {c1, c2}
  BatchSize = 0
  Nobody = Nobody
INVARIANT TypeOK
INVARIANT IndexNamesClient
INVARIANT StartsComplete
INVARIANT AbortsOnlyAfterRelease
PROPERTY SimulationStarts
\* the scenario has started, or cannot: every process waits
CHECK_DEADLOCK FALSE
