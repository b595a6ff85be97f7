SPECIFICATION FairSpec

CONSTANTS
  Profiles = {a, b}
  Requests = {r1, r2}
  Versions = {1, 2}
  MaxTime = 2
  None = None

INVARIANTS
  NeverAnotherMember

PROPERTIES
  RecordNeverMovesBack
  ImplementsLastGoodRecord
  CacheHoldsNobody
