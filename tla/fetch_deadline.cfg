\* Every call is over within a third of the deadline, as 15 s is of 45 s.
CONSTANTS
  SectionCount = 1
  CallTime = 5
  Deadline = 15
  None = None
SPECIFICATION Spec
INVARIANT DeadlineOnlyWhenWedged
\* One fetch: it ends.
CHECK_DEADLOCK FALSE
