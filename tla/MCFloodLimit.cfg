SPECIFICATION FairSpec
CONSTANTS
  Programs <- MCPrograms
  FLOOD_MSG_PER_SECOND = 2
  WINDOW = 1
INVARIANTS TypeOK OneThreadRate
PROPERTY HeartbeatGetsOut
