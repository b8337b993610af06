SPECIFICATION Spec
CONSTANTS
  Names <- MCNames
  NoName = ""
  NoKey = ""
  Clauses <- MCClauses
  MaxClauses = 5
INVARIANTS ScopeTypeOK ScopeAgrees KindsAgree ValidAccepted WrongRefused
CHECK_DEADLOCK FALSE
