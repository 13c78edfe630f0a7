SPECIFICATION Spec
CONSTANTS
  A = A
  B = B
  Programs <- Handmade
  Locks = {A, B}
  StackSize = 2
  ByteSize = 6
  Budgets = {1, 5}
INVARIANTS LocksAccounted FaultsExplained
PROPERTIES RunReturns ReturnToPushed
CHECK_DEADLOCK FALSE
