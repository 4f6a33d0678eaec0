\* One instance that claims batches of two, an alert with a fallback route and
\* one without, one fault, message ids that never repeat: under fairness both
\* alerts end. The system may stop then.
CONSTANTS
  w1 = w1
  w2 = w2
  Delivery <- TwoChains
  Chain = {1, 2}
  ChainOf <- MCChainOf
  PriorityOf <- MCPriorityOf
  ProviderOf <- AllTelegram
  MessageId <- UniqueIds
  MessageIdOf <- UniqueId
  NoMessage = NoMessage
  MaxAttempts = 2
  Deduplicated = {}
  Worker = {w1}
  BatchSize = 2
  MaxFaults = 1
  NoReceipt = NoReceipt
  EventTime = {1}
SPECIFICATION FairSpec
INVARIANT EveryClaimIsAudited RetryHasAttemptLeft
PROPERTY ChainsSettle
CHECK_DEADLOCK FALSE
