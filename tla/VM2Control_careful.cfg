SPECIFICATION CarefulSpec
CONSTANTS
  Programs <- Short
  MaxCalls = 2
  Budgets = {3, 6}
  CycleCap = 5
PROPERTIES WalkRefined
