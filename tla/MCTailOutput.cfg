\* Four bytes over two streams, a budget of three; ints of eight bits.
CONSTANTS
  MaxInt = 127
  Budget = 3
  MaxLines = 2
  Filters <- SomeFilters
  MaxBytes = 4
  MaxWrite = 2
SPECIFICATION Spec
INVARIANTS RetainedIsTail SecretsMasked LiveRecordCoherent FinalRecordComplete FilterAnswers
CHECK_DEADLOCK FALSE
