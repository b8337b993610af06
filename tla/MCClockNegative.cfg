SPECIFICATION Spec
CONSTANTS
  Ns = 10
  Starts <- MCStarts
  Span = 1470
  Times <- MCTimes
  MarkDays <- MCMarkDays
  Watch = 400
  Offsets <- MCOffsets
INVARIANT DifferencePositive
CHECK_DEADLOCK FALSE
