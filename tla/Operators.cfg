SPECIFICATION Spec
CONSTANTS
  MaxSize = 4
  MaxFit = 2
  MaxGenes = 5
  Bits = 8
  Values = {0, 1, 128, 255}
  MaxSteps = 3
  Byte = 2
  HeapSize = 5
  Numbers = {0, 6, 11}
  Addresses = {0, 1, 3, 5, 14}
  Lengths = {0, 2, 3, 4, 15}
INVARIANTS FitterIsLikelier TournamentIsWon NoGeneLost DialectsAgree BranchOrders FieldsKept StringsAgree
CHECK_DEADLOCK FALSE
