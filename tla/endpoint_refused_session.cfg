\* One request suffices: the row says that its session was refused.
SPECIFICATION Spec

CONSTANTS
  Callers = {a}
  Gets = {g1}
  Puts = {}
  Workers = 1
  Earlier = Earlier
  None = None

INVARIANT RefusedSessionIsNotServed

\* Every request is served once.
CHECK_DEADLOCK FALSE
