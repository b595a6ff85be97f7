\* One worker, one request waiting for the session table and one behind it.
SPECIFICATION WedgeableSpec

CONSTANTS
  Callers = {a}
  Gets = {g1, g2}
  Puts = {}
  Workers = 1
  Earlier = Earlier
  None = None

PROPERTY EveryRequestAnswered

\* Every request is served once.
CHECK_DEADLOCK FALSE
