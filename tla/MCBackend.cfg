SPECIFICATION Spec
CHECK_DEADLOCK FALSE
CONSTANTS
  Agents = {0, 1, 2, 3, 4, 5, 6, 7, 8, 9}
  StatusIssuer = 0
  Tenants = {"default", "demo", "public"}
  DefaultTenant = "default"
  HomeTenant = "default"
  Public = "public"
  Nobody = Nobody
  None = None
  Spiffes = {"spiffe"}
  Creds = {1, 2, 3, 4, 5, 6}
  DemoMode = TRUE
  AuthMode = "oidc"
  RateLimit = 3
  Window = 1
  Loads <- MCLoads
  MaxJobs = 4
  MaxAtOnce = 2
  CacheTtl = 1
  CacheSize = 2
  FetchTime = 1
  Grace = 1
  Tokens <- MCTokens
  Hooks = {1, 2}
  Topics <- MCTopics
  AttestTtl = 1
  Roster <- MCRoster
  Plan <- MCPlan
  Targets <- MCTargets
  Tree <- MCTree
  Deals <- MCDeals
  SeedEvents <- MCSeedEvents
INVARIANTS
  TypeOK
  ChainsAreSound
  OneSigningKey
  AttestationsAgree
PROPERTIES
  VerdictsHaveCause
  AloneSucceeds
  ReportsAreBetween
  RequestsEnd
