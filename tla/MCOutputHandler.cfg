SPECIFICATION Spec
CONSTANTS
  Handlers <- AB
  Rules <- MCRules
  map_ <- OneOutput
  attachments <- Wishes
  SIZE = 2
  PRE = 2
  POST = 2
  MIN_FRAMES = 3
  MIN_MOTION = 1
  MaxFrames = 4
  MaxFiles = 2
INVARIANTS TypeOK UnbrokenVideo KeptWhileDue GoneWhenDone
CHECK_DEADLOCK FALSE
