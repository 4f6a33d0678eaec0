\* The first of two routes was deduplicated against an earlier alert.
CONSTANTS
  w1 = w1
  w2 = w2
  Delivery <- TwoRoutes
  Chain = {1}
  ChainOf <- MCChainOf
  PriorityOf <- MCPriorityOf
  ProviderOf <- AllTelegram
  MessageId <- UniqueIds
  MessageIdOf <- UniqueId
  NoMessage = NoMessage
  MaxAttempts = 2
  Deduplicated <- FirstRoute
  Worker = {w1}
  BatchSize = 2
  MaxFaults = 0
  NoReceipt = NoReceipt
  EventTime = {1}
SPECIFICATION Spec
INVARIANT WaitsBehindLiveRoute
CHECK_DEADLOCK FALSE
