SPECIFICATION Spec
CONSTANTS
  PGSIZE = 3
  MaxPage = 10
  Begin = 2
  End = 7
  Low = {1}
  Sizes = {1, 2, 3, 5}
INVARIANTS HeapIntact
PROPERTIES LostToWholePages LeavesAtEnd
CHECK_DEADLOCK FALSE
