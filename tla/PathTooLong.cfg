SPECIFICATION Spec
CONSTANTS
  PathMax = 3
  PathLen = {2, 3, 4}
  MaxWrites = 1
  MaxStarts = 1
INVARIANT TooLongReported
CHECK_DEADLOCK FALSE
