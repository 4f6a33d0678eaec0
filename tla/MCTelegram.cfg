\* Two instances, one alert of three Telegram routes, one fault; two attempts
\* a route. Nothing obliges an alert to come, so the system may stop.
CONSTANTS
  w1 = w1
  w2 = w2
  Delivery <- ThreeRoutes
  Chain = {1}
  ChainOf <- MCChainOf
  PriorityOf <- MCPriorityOf
  ProviderOf <- AllTelegram
  MessageId <- UniqueIds
  MessageIdOf <- UniqueId
  NoMessage = NoMessage
  MaxAttempts = 2
  Deduplicated = {}
  Worker = {w1, w2}
  BatchSize = 2
  MaxFaults = 1
  NoReceipt = NoReceipt
  EventTime = {1}
SPECIFICATION Spec
SYMMETRY Workers
INVARIANT TypeOK NoRouteLeftUnused LeaseIffProcessing
PROPERTY ClaimIsExclusive AcceptedIsRecorded
CHECK_DEADLOCK FALSE
