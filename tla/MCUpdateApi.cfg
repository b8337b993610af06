SPECIFICATION EitherSpec
CONSTANTS
  n1 = n1  n2 = n2  s1 = s1  s2 = s2
  b1 = b1  b2 = b2  b3 = b3  b4 = b4
  Node <- MCNode
  Var <- MCVar
  AnonVar <- MCAnonVar
  StableIri <- MCStableIri
  Label = {"A", "B"}
  Key = {"k", "j"}
  Rel = {"R", "S"}
  Val = {1, 2}
  Query <- EitherQueries
  Retried <- EitherRetried
  Graphs <- MCGraphs
  MaxQueries = 1
  MaxFailures = 1
INVARIANTS ApiTypeOK GraphClosed MergeSettles ExactOutcome
PROPERTY QueryEnds
CHECK_DEADLOCK FALSE
