\* Three calls, two at once, of an agent with two presentations; one worker.
SPECIFICATION Spec
CONSTANTS
  p = p
  a1 = a1
  a2 = a2
  i = i
  g = g
  buy = buy
  t1 = t1
  d1 = d1
  d2 = d2
  d3 = d3
  look = look
  idp = idp
  ida = ida
  ag = ag
  v1 = v1
  v2 = v2
  Dids = {p, a1, a2, i, g}
  Agents = {a2}
  Creds = {d1, d2, d3, idp, ida, ag}
  Cred <- MCCred
  Vps = {v1, v2}
  Vp <- MCVp
  Me = g
  TrustedIssuers = {}
  RequiredTypes = {}
  RequiredActions = {}
  DelegatorTypes = {}
  RequireDelegatorIdentity = TRUE
  MaxRecursion = 2
  None = None
  Absent = Absent
  Actions = {buy, look}
  Merchants = {}
  Categories = {}
  Currencies = {"USD"}
  DefaultCurrency = "USD"
  Selectors = {}
  Limits = {}
  Star = Star
  Unset = Unset
  AllowThreshold = 75
  StepUpThreshold = 50
  CacheTtl = 1
  WarmUp = 1
  VelocityWarmUp = 1
  Window = 1
  Rates <- MCRates
  Workers = 1
  Attempts = 2
  FullScores = {60}
  MaxTime = 1
  Calls = {1, 2, 3}
  Embedded = {a2}
  MaxEmbedded = 1
  MaxAtOnce = 2
  Tools = {t1}
  Required <- MCRequired
  EnvFailClosed = None
  YamlFailClosed = None
  Production = TRUE
  ScanDepth = 3
  SwarmWindow = 1
INVARIANTS
  RecordsAreSound
  ForwardedWasAuthorized
  VerifiersAgree
  AlertsAreFounded
PROPERTIES
  PenaltyForgiven
  CallsAndRefreshesEnd
CHECK_DEADLOCK FALSE
