CONSTANTS
  Fields <- MCFields
  Sections = {"experience", "skills"}
  SECTION_PAGE_SIZE = 2
  MaxEntries = 3
  NotStated = NotStated
SPECIFICATION Spec
INVARIANTS
  PublishedIsWhole
  ReadableIsPublished
  PartialIsExact
CHECK_DEADLOCK FALSE
