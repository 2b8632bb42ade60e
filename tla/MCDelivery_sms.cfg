SPECIFICATION DeliverySpec
CONSTANTS
  ModuleQueues <- TwoQueues
  DEFAULT_QUEUE_SIZE = 2
  Kinds <- OnlySMS
  MaxRetries = 1
  MaxRaises = 2
  MaxRestarts = 1
  MaxBuried = 1
PROPERTY SentSMSAcknowledged
