\* Two requests that confirm, cancel and die.
SPECIFICATION FairSpec
CONSTANTS
  None = None
  Requests = {r1, r2}
  Intents = {i1}
  Creds = {c1, c2, c3, c4}
  Keys = {k1}
  Bodies = {b1}
  Count = 2
INVARIANTS
  BundlesAreSound
PROPERTIES
  ProcessingEnds
