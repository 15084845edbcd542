\* Two requests on one process that verify two carts at once.
SPECIFICATION Spec
CONSTANTS
  p1 = p1
  p2 = p2
  r1 = r1
  r2 = r2
  Processes = {p1}
  Requests = {r1, r2}
  On <- OneProcess
  Endpoints = {verify}
  None = None
  Intents = {i1}
  Limit <- MCLimit
  Revocable = {i1}
  Tenants = {t1}
  Carts = {c1, c2}
  Jtis = {c1, c2}
  Totals = {3}
  Lifetimes = {1}
  MaxClock = 0
SYMMETRY Symmetric
INVARIANTS
  BudgetKept
