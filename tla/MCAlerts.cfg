\* Seven scenarios, each a behaviour of its own. The gateway may stop sending.
CONSTANTS
  e1 = e1
  e2 = e2
  e3 = e3
  r1 = r1
  r2 = r2
  r3 = r3
  i1 = i1
  i2 = i2
  Endpoint = {e1, e2, e3}
  Rule = {1, 2}
  ProviderOf <- MCProviderOf
  Editor = {"h1", "h2"}
  Scenarios <- MCScenarios
  Unborn = Unborn
  Deleted = Deleted
  NoEdit = NoEdit
  Request = {r1, r2, r3}
  RuleStore = "s1"
  NoIncident = NoIncident
SPECIFICATION FairSpec
INVARIANTS
  TypeOK IncidentNotifiedOnce AnswersAgree ChainIsWhole
  CooldownIsExact DeliveriesKeepTheirRoute EnabledIsSendable
PROPERTY NobodyIsStuck
CHECK_DEADLOCK FALSE
