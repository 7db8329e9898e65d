SPECIFICATION Spec
CONSTANTS
  BufferSize = 7
  UpdateFreq = 6
  RouteLengths = {1, 3, 10}
  PopMax = 2
  OvertakeWait = 3
  PushWait = 2
  IdleCap = 2
PROPERTY DoneIsNotProgressed
