SPECIFICATION Spec
CONSTANTS
  UUIDs = {u1, u2}
  Malformed = Malformed
  PlanNames = {n1, n2}
  Empty = Empty
  Maximum = 2
  MaxTokens = 6
  MaxPlans = 2
  MaxName = 64
INVARIANTS
  SplitsAsWritten
  CatalogUnambiguous
  CreateSchemaIsEnforced
  
  NamesFit
CHECK_DEADLOCK FALSE
