CONSTANTS
  PageCount = 16
  PdeCount = 3
  PteCount = 2
  PageSize = 2
  StackPages = 1
  TaskNr = 2
  Programs = {1}
  MaxIncr = 4
  MaxCalls = 4
SPECIFICATION Spec
INVARIANTS MemTypeOK OneOwner AllAccounted HeapMapped HaltsOnlyWhenStarved
PROPERTIES Isolation ForkCopies
