\* A person's delegation and two below it; one verifier.
SPECIFICATION Spec
CONSTANTS
  buy = buy
  pay = pay
  shop = shop
  Jtis = {j1, j2, j3}
  Users = {u1}
  IdpKeys = {0, 1}
  Actions = {buy, pay}
  Merchants = {shop}
  Categories = {}
  Currencies = {"USD"}
  DefaultCurrency = "USD"
  Selectors = {}
  Limits = {"daily"}
  Star = Star
  Unset = Unset
  BindScopes <- MCBindScopes
  NarrowedScopes <- MCNarrowed
  ForeignScopes <- MCForeign
  ListSize = 2
  JwksLifespan = 1
  TokenTtl = 3
  Ttl = 2
  MaxDepth = 1
  MaxTime = 2
  MaxBoots = 1
  None = None
  Verifiers = {v1}
  FailClosed = TRUE
  MaxRecursion = 10
SYMMETRY Symmetric
INVARIANTS
  ScopesAreSound
  VerifiedWasValid
  IssuedOnTrust
CHECK_DEADLOCK FALSE
