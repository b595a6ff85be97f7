SPECIFICATION Spec

CONSTANTS
  Kids = {k1, k2, k3}
  Threads = {t1, t2}
  Ttl = 3
  Floor = 2
  CallTime = 1
  MaxTime = 6
  MaxVersion = 3
  None = None

INVARIANTS
  OneFetchAtATime
  AcceptedKeyStaysHeld
  UnavailableOnlyWithoutKeys

PROPERTIES
  KeySetNeverMovesBack

SYMMETRY Symmetry
