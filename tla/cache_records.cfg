SPECIFICATION Spec

CONSTANTS
  Profiles = {a}
  Requests = {r1, r2, r3}
  Versions = {1, 2}
  MaxTime = 3
  None = None

INVARIANTS
  StaleKeepsUp
  StaleWasLive

SYMMETRY Symmetry
