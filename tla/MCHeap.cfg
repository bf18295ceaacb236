SPECIFICATION Spec
CONSTANTS
  HeapStart = 10
  HeapMax = 70
  PageSize = 10
  PageCount = 2
  MajorSize = 2
  MinorSize = 3
  Alignment = 2
  AlignInfo = 1
  Requests = {0, 5, 14}
INVARIANTS TypeOK BlocksApart NoDangling UsageAccounted
PROPERTIES GrowsOnlyWithoutRoom KeepsPromise
CHECK_DEADLOCK FALSE
