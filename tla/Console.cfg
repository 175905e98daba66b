SPECIFICATION Spec
CONSTANTS
  InputMax = 2
  MaxEntries = 5
  MaxKeys = 5
INVARIANTS LogInOrder LinesAreExecuted
CHECK_DEADLOCK FALSE
