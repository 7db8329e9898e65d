SPECIFICATION FairSpec
CONSTANTS
  a = a
  b = b
  c = c
  x = x
  y = y
  z = z
  p = p
  q = q
  None = None
  Vehicles = {a, b, c, x, y, z}
  Platoons = {p, q}
  Initial <- MCInitial
  SingleList <- MCSingleList
  Audible <- MCAudible
  Connected = {x, y}
  MaxCapacity = 3
  OpenGap = 1
  RecoverSteps = 1
INVARIANT TypeOK
INVARIANT MembersInOrder
INVARIANT JoinPointStands
INVARIANT GapIsForSomebody
PROPERTY BlindedForEver
PROPERTY EveryoneDrives
