\* Three statements, as in the code; faults enough to use up the attempts.
CONSTANTS
  Containers = {a, b, c}
  Statements = 3
  Attempts = 2
  MaxFaults = 2
  Ghost = Ghost
  None = None
SPECIFICATION FairSpec
INVARIANTS
  ServingMeansSchema
  RaceNeverLost
PROPERTIES
  NeverHalfASchema
  EveryContainerServes
\* Once every container serves and the faults are used up nothing is left to do.
CHECK_DEADLOCK FALSE
