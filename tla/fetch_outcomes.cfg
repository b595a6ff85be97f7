\* Two sections, one tick to the deadline, calls of any length.
CONSTANTS
  SectionCount = 2
  CallTime = 9
  Deadline = 1
  None = None
SPECIFICATION FairSpec
INVARIANTS
  NotFoundIsAboutTheMember
  RefusalIsTold
  OnlyForgivableLosses
  NothingRunsOn
  CallsAccountedFor
PROPERTY FetchEnds
\* One fetch: it ends.
CHECK_DEADLOCK FALSE
