SPECIFICATION Spec
CONSTANTS
  n1 = n1  n2 = n2
  Node = {n1, n2}
  Var = {}
  Label = {"A", "B"}
  Key = {"k", "l"}
  Rel = {"R", "S"}
  Val = {}
  Requests <- ReadingLists
  Graphs <- MCGraphs
  MaxWrites = 0
  MaxFaults = 0
  Compiled <- Outputs
  Solve <- SerialisedResults
  Resume <- Continue
  ByColumns <- MapResults
  Presented <- Read
  Allowed <- Permitted
  Refusable <- MayRefuse
  NoOutput <- None
  NoRequest <- NoQuery
INVARIANT FailsForCause
