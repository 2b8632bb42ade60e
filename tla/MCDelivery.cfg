SPECIFICATION DeliverySpec
CONSTANTS
  ModuleQueues <- TwoQueues
  DEFAULT_QUEUE_SIZE = 2
  Kinds <- AllKinds
  MaxRetries = 1
  MaxRaises = 2
  MaxRestarts = 1
  MaxBuried = 1
INVARIANTS DeliveryTypeOK AckMeansDone DoneAtMostSent OneReplyEach
