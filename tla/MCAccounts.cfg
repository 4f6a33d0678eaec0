SPECIFICATION Spec
CONSTANTS
  Tab <- Tabs
  Query <- Queries
  Handler <- Handlers
  Plans <- BrowserPlans
  MaxTokens = 6
  NoToken = NoToken
INVARIANTS TypeOK StaysLoggedIn
PROPERTIES Rotates CallsEnd
CHECK_DEADLOCK FALSE
