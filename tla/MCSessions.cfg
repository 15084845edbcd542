\* Two concurrent requests on one session, production deployment.
SPECIFICATION Spec
CONSTANTS
  Requests = {r1, r2}
  SessionIds = {s1}
  Keys = {k1}
  buy = buy
  read = read
  star = star
  m1 = m1
  m2 = m2
  usd = usd
  eur = eur
  d1 = d1
  d2 = d2
  d3 = d3
  None = None
  Actions <- MCActions
  Wildcard = star
  Merchants = {m1, m2}
  Currencies = {usd, eur}
  DefaultCurrency = usd
  Delegations = {d1, d2, d3}
  Parent <- MCParent
  Bodies <- BothBodies
  Inputs <- FewInputs
  Scores = {85}
  Production = TRUE
  MaxClock = 1
SYMMETRY Symmetric
INVARIANTS
  TypeOK
  BudgetRespected
  UnscoredNeedsStepUp
PROPERTIES
  RegistryFollowsSession
  RevokedIsFinal
  NoChargeAfterExpiry
  PendingStepUpHolds
  KeepsContract
