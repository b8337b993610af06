SPECIFICATION FairSpec
CONSTANTS
  n1 = n1  n2 = n2
  Node = {n1, n2}
  Var = {}
  Label = {"A", "B"}
  Key = {"k", "l"}
  Rel = {"R", "S"}
  Val = {}
  Requests <- Reading
  Graphs <- MCGraphs
  MaxWrites = 1
  MaxFaults = 1
  Compiled <- Outputs
  Solve <- Results
  Resume <- Continue
  ByColumns <- MapResults
  Presented <- Read
  Allowed <- Permitted
  Refusable <- MayRefuse
  NoOutput <- None
  NoRequest <- NoQuery
INVARIANTS ReadTypeOK FailsForCause
PROPERTIES OutputsAnswer ImplementsRead DriveEnds
