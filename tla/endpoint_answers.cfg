SPECIFICATION FairSpec

CONSTANTS
  Callers = {a}
  Gets = {g1, g2}
  Puts = {p1}
  Workers = 1
  Earlier = Earlier
  None = None

INVARIANTS
  PermanentFailureShown
  VerdictIsEarned
  QueueIsWanted

PROPERTIES
  EveryRequestAnswered
  WorkersComeBack
  ImplementsSessionRegister

\* Every request is served once.
CHECK_DEADLOCK FALSE
