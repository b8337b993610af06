SPECIFICATION Spec
CONSTANTS
  Ns = 10
  Starts <- MCStarts
  Span = 1470
  Times <- MCTimes
  MarkDays <- MCMarkDays
  Watch = 400
  Offsets <- MCOffsets
INVARIANTS CalTypeOK DayNumber PartsRebuild CountedParts PeriodStarts FromUnixExact RezoneExact BetweenCounts WholeUnits SumLength SumExact ParsedForms ReadBack MapsRebuild DurationTexts SummerTime
CHECK_DEADLOCK FALSE
