SPECIFICATION FairSpec
CONSTANTS
  m1 = m1
  Modules <- One
  MORTALITY_STEP = 3
  MORTALITY_DECREASE = 1
  CRITICAL_MORTALITY_RATE = 5
  MAX_MISSED_HEARTBEATS = 2
  STABILITY_CHECK_INTERVAL = 3
  DEFAULT_INTERVAL = 1
  Intervals = {1, 2}
  Mute <- None
  Forking <- None
  ForkFails = TRUE
  KillIsSlow = FALSE
  SigintComes = FALSE
  MaxBeats = 2
PROPERTY DownComesBack
