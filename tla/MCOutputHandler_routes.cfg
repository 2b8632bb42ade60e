SPECIFICATION Spec
CONSTANTS
  Handlers <- AB
  Rules <- TwoRules
  map_ <- TwoOutputs
  attachments <- BothImage
  SIZE = 2
  PRE = 2
  POST = 2
  MIN_FRAMES = 3
  MIN_MOTION = 1
  MaxFrames = 3
  MaxFiles = 2
INVARIANT KeptWhileDue
CHECK_DEADLOCK FALSE
