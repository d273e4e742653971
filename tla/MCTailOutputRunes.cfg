\* Four bytes over two streams, a budget of two: a rune that two writes divide.
CONSTANTS
  MaxInt = 127
  Budget = 2
  MaxLines = 2
  Filters <- SomeFilters
  MaxBytes = 4
  MaxWrite = 2
SPECIFICATION Spec
INVARIANT WholeRunesRetained
CHECK_DEADLOCK FALSE
