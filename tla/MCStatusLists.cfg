\* Three concurrent requests, which issue and revoke.
SPECIFICATION ListsSpec
CONSTANTS
  Threads = {r1, r2, r3}
  r1 = r1
  r2 = r2
  r3 = r3
  Tenants = {t1}
  ListIds = {l1, l2}
  CredIds = {c1, c2, c3}
  Size = 2
  Absent = Absent
SYMMETRY Symmetric
INVARIANTS
  ListsAreSound
  LostOnlyByOverlap
