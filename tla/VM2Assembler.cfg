SPECIFICATION Spec
CONSTANTS
  None = None
  L = L
  M = M
  Labels = {L, M}
  Sources <- AllSources
  MaxLines = 4
  MaxLabels = 2
  MaxProgram = 26
INVARIANTS TypeOK BackwardReferences References ReadAsWritten
CHECK_DEADLOCK FALSE
