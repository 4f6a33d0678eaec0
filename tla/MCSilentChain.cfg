\* WhatsApp first, two Telegram fallbacks, no fault.
CONSTANTS
  w1 = w1
  w2 = w2
  Delivery <- ThreeRoutes
  Chain = {1}
  ChainOf <- MCChainOf
  PriorityOf <- MCPriorityOf
  ProviderOf <- WhatsAppFirst
  MessageId <- UniqueIds
  MessageIdOf <- UniqueId
  NoMessage = NoMessage
  MaxAttempts = 2
  Deduplicated = {}
  Worker = {w1}
  BatchSize = 2
  MaxFaults = 0
  NoReceipt = NoReceipt
  EventTime = {1}
SPECIFICATION Spec
INVARIANT NoRouteLeftUnused
CHECK_DEADLOCK FALSE
