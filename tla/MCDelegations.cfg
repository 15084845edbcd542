\* Two requests, three delegations, one level of recursion below the first.
SPECIFICATION FairRegistrySpec
CONSTANTS
  r1 = r1
  r2 = r2
  d1 = d1
  d2 = d2
  d3 = d3
  t1 = t1
  t2 = t2
  Requests = {r1, r2}
  Delegations = {d1, d2, d3}
  Tenants = {t1, t2}
  Registrations <- MCRegistrations
  Guard = 1
  Absent = Absent
INVARIANTS
  RegistryTypeOK
PROPERTIES
  CascadeIsComplete
  RevokedByItsTenantForGood
  RevocationEnds
