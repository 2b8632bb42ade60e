SPECIFICATION Spec
CONSTANTS
  NumRules = 3
  SysRules <- SysRule
  Disabled <- DisabledRule
  FireLimit <- Limits
  ACK_TIMEOUT = 2
  NUM_ACTION_RETRIES = 1
  MaxUptime = 1
  MaxEvents = 2
INVARIANTS TypeOK OneReply AbortAfterAllTries
PROPERTIES RetryOnlyOverdue ModuleFireLimit ImplementsDelivery
