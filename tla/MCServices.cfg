\* The components that share no state, each in the behaviours in which it is
\* in focus. Requests, links, runners and the clock are bounded: the system
\* may stop.
CONSTANTS
  MaxFaults = 1
  User = {"own", "mgr", "opr"}
  Alert = {"a1"}
  Home = "home"
  InitRole <- MCInitRole
  StoreCall = {"d1", "d2", "d3", "n1", "n2", "m1", "m2", "m3", "m4"}
  StorePlans = {{"d1", "d2", "d3", "m1", "m2"}, {"n1", "n2", "m2", "m3", "m4"}}
  StoreDoes <- MCStoreDoes
  Suspendable = {"own", "opr"}
  Endpoint = {"e1", "e2"}
  StoreOf <- MCStoreOf
  TestCall = {"c1", "c2", "c3", "c4"}
  TestPlans = {{"c1", "c3", "c4"}, {"c1", "c2", "c3"}}
  EndpointOf <- MCEndpointOf
  RequestOf <- MCRequestOf
  RequesterOf <- MCRequesterOf
  Minute = 1
  Hour = 2
  EndpointPerMinute = 1
  EndpointPerHour = 2
  StorePerHour = 2
  RequesterPerHour = 3
  GlobalPerHour = 3
  EndpointPending = 1
  StorePending = 2
  GlobalPending = 2
  Switched = {"e1"}
  MaxTestTime = 2
  \* Three rows at two times, pages of one row, one change of a status.
  Id = {1, 2, 3}
  Time = {1, 2}
  Status = {"open", "closed"}
  Limit = 1
  MaxChanges = 1
  \* One link and two clocks; or two links that one instance deletes.
  Instance = {"i1", "i2"}
  MaxLinks = 1
  TTL = 5
  Retention = 2
  Skew = 2
  MaxLinkTime = 8
  Cleaner = {"i1"}
  MaxBacklog = 2
  BacklogTTL = 3
  BacklogRetention = 1
  BacklogSkew = 1
  MaxBacklogTime = 12
  Interval = 3
  Retry = 1
  Batch = 1
  \* Three runners that start together.
  Runner = {"r1", "r2", "r3"}
  N = 3
  Registrations <- MCRegistrations
  MaxRegisterFaults = 2
  Key = {"login:a", "ai-ingest:c"}
  Maximum <- MCMaximum
  Window <- MCWindow
  MaxEntries = 1
  LimitedRequest = {"r1", "r2"}
  Delay = 1
  MaxLimiterTime = 8
  \* Two trusted proxies, one that is not, clients that send two parts.
  Client = {"c1", "c2"}
  Proxy = {"p1", "p2", "q"}
  Trusted = {"p1", "p2"}
  TrustProxy = TRUE
  Bad = "bad"
  MaxParts = 3
  MaxSent = 2
  Worker = {"w1", "w2"}
  MaxAttempts = 3
  Provider = {"TELEGRAM", "WHATSAPP"}
  RequestTimeout <- MCRequestTimeout
  LeaseDuration = 3
  BaseBackoff = 1
  MaxBackoff = 2
  MaxProviderRetryDelay = 4
  MaxRetryAfter = 4
  Waits = {0, 3, 5}
SPECIFICATION Spec
INVARIANTS
  TypeOK HistoryIsChain QuotasHold SchemaIsSound AllOrNothing
  AtMostTwiceTheLimit KnownByTheNearestUntrusted OneRequestAtATime
PROPERTIES
  RolesHold OneRequestIsOneTest PagesAreSound LinksLastAndGo
  AnswersAreHeeded EverythingEnds
CHECK_DEADLOCK FALSE
