\* Two instances, one alert of three routes whose first is WhatsApp, one fault,
\* receipts of every kind. The system may stop when every chain has ended.
CONSTANTS
  w1 = w1
  w2 = w2
  Delivery <- ThreeRoutes
  Chain = {1}
  ChainOf <- MCChainOf
  PriorityOf <- MCPriorityOf
  ProviderOf <- WhatsAppFirst
  MessageId <- UniqueIds
  MessageIdOf <- UniqueId
  NoMessage = NoMessage
  MaxAttempts = 2
  Deduplicated = {}
  Worker = {w1, w2}
  BatchSize = 2
  MaxFaults = 1
  NoReceipt = NoReceipt
  EventTime = {1}
SPECIFICATION Spec
SYMMETRY Workers
INVARIANT OneRouteAtATime WaitsBehindLiveRoute SuccessIsOfLastClaim FailedReceiptFailsRoute
PROPERTY DeliveredStaysSent KeepsPromise
CHECK_DEADLOCK FALSE
