SPECIFICATION Spec
CONSTANTS
  s1 = s1
  s2 = s2
  a = a
  b = b
  c = c
  Trips = {s1, s2}
  Actors = {a, b, c}
INVARIANT TypeOK
INVARIANT OneBodyEach
INVARIANT NoOrphans
INVARIANT LeavesOneBehind
INVARIANT RaisesOnlyIfLost
\* the scenario ends
CHECK_DEADLOCK FALSE
