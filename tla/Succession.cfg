SPECIFICATION Spec
CONSTANTS
  Programs <- MCPrograms
  Bits = 24
  WordBytes = 3
  StackSize = 48
  HeapSize = 56
  MemorySize = 112
  MaxLocks = 8
  MaxFiles = 2
  FileBytes = 2
  DefaultCycles = 40
  Budgets = {0, 3}
  CodeLimit = 256
INVARIANTS TypeOK Agree WordsKept Contained NoFileLost BlocksApart
PROPERTY Ends
CHECK_DEADLOCK FALSE
