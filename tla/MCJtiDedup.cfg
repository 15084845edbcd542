\* Two processes that restart; one of them cannot always reach the table.
SPECIFICATION DedupSpec
CONSTANTS
  Processes = {p1, p2}
  Jtis = {j1, j2}
  j1 = j1
  j2 = j2
  Endpoints = {verify}
  None = None
  Expiry <- MCExpiry
  Unreliable = {p2}
  MaxInstant = 3
INVARIANTS
  DedupTypeOK
PROPERTIES
  AcceptedOnce
