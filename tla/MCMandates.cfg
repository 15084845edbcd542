\* Two requests on two processes, for two tenants: three carts against one intent that
\* expires.
SPECIFICATION Spec
CONSTANTS
  p1 = p1
  p2 = p2
  r1 = r1
  r2 = r2
  Processes = {p1, p2}
  Requests = {r1, r2}
  On <- TwoProcesses
  Endpoints = {verify}
  None = None
  Intents = {i1}
  Limit <- MCLimit
  Revocable = {i1}
  Tenants = {t1, t2}
  Carts = {c1, c2, c3}
  Jtis = {c1, c2, c3}
  Totals = {3}
  Lifetimes = {1}
  MaxClock = 1
SYMMETRY Symmetric
INVARIANTS
  SpendsAreSound
PROPERTIES
  NoSpendOnVoidIntent
