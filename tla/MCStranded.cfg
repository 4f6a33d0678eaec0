\* Two instances that scan and recover the same leases.
CONSTANTS
  w1 = w1
  w2 = w2
  Delivery <- ThreeRoutes
  Chain = {1}
  ChainOf <- MCChainOf
  PriorityOf <- MCPriorityOf
  ProviderOf <- AllTelegram
  MessageId <- UniqueIds
  MessageIdOf <- UniqueId
  NoMessage = NoMessage
  MaxAttempts = 2
  Deduplicated = {}
  Worker = {w1, w2}
  BatchSize = 2
  MaxFaults = 1
  NoReceipt = NoReceipt
  EventTime = {1}
SPECIFICATION Spec
INVARIANT RetryHasAttemptLeft
CHECK_DEADLOCK FALSE
