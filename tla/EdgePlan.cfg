SPECIFICATION Spec
CONSTANTS
  N = 4
  MapLength = 200
  NumLanes = 4
  SearchLanes = 4
  MaxSpeed = 25
  TargetSpeed = 15
  Dt = 2
  Traffics <- MCTraffics
INVARIANT TypeOK
INVARIANT PathsLeadBack
INVARIANT LaneChangesHaveRoom
INVARIANT SlowPairsChangeLane
