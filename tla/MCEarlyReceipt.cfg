\* Two WhatsApp alerts; a receipt may come before the message id is committed.
CONSTANTS
  w1 = w1
  w2 = w2
  Delivery <- TwoSingles
  Chain = {1, 2}
  ChainOf <- MCChainOf
  PriorityOf <- MCPriorityOf
  ProviderOf <- AllWhatsApp
  MessageId <- UniqueIds
  MessageIdOf <- UniqueId
  NoMessage = NoMessage
  MaxAttempts = 2
  Deduplicated = {}
  Worker = {w1}
  BatchSize = 2
  MaxFaults = 0
  NoReceipt = NoReceipt
  EventTime = {1}
SPECIFICATION Spec
INVARIANT NoFailureReceiptLost
CHECK_DEADLOCK FALSE
