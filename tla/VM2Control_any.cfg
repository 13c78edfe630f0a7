SPECIFICATION Spec
CONSTANTS
  Programs <- Handmade
  MaxCalls = 2
  Budgets = {0, 3, 7}
  CycleCap = 7
INVARIANTS TypeOK CallsMatched
PROPERTIES RunReturns
