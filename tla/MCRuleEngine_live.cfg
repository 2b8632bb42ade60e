SPECIFICATION FairSpec
CONSTANTS
  NumRules = 2
  SysRules <- SysRule
  Disabled <- NoRule
  FireLimit <- Unlimited
  ACK_TIMEOUT = 1
  NUM_ACTION_RETRIES = 1
  MaxUptime = 0
  MaxEvents = 2
PROPERTIES EveryEventAnswered CallersReturn
