\* Two Telegram chats that number their messages alike.
CONSTANTS
  w1 = w1
  w2 = w2
  Delivery <- TwoSingles
  Chain = {1, 2}
  ChainOf <- MCChainOf
  PriorityOf <- MCPriorityOf
  ProviderOf <- AllTelegram
  MessageId <- PerChatIds
  MessageIdOf <- PerChatId
  NoMessage = NoMessage
  MaxAttempts = 2
  Deduplicated = {}
  Worker = {w1}
  BatchSize = 2
  MaxFaults = 0
  NoReceipt = NoReceipt
  EventTime = {1}
SPECIFICATION FairSpec
PROPERTY AcceptedIsRecorded
CHECK_DEADLOCK FALSE
