SPECIFICATION Spec
CONSTANTS
  NumRules = 3
  SysRules <- SysRule
  Disabled <- DisabledRule
  FireLimit <- Limits
  ACK_TIMEOUT = 1
  NUM_ACTION_RETRIES = 0
  MaxUptime = 2
  MaxEvents = 2
INVARIANT SuppressedHasFired
