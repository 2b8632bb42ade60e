SPECIFICATION Spec
CONSTANTS
  SECOND = 2
  Setups <- MCSetups
  Work <- MCWork
  MaxRules = 2
  MAX_MISSED_HEARTBEATS = 5
  CHECK_INTERVAL = 20
  DEFAULT_INTERVAL = 20
INVARIANTS TypeOK InTime GivesUpOnlyNoise
PROPERTY PollsOnTime
