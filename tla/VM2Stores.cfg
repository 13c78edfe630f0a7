SPECIFICATION StoresSpec
CONSTANTS
  Modulus = 13
  HeapSize = 6
  StackTop = 4
  WordBytes = 2
  Byte = {0, 1}
  Zero = 0
  OpSizes = {1, 2}
  Requests = {0, 1, 11}
  MaxBlocks = 3
  NumRegs = 3
  SP = 1
  StackWords = 6
  Values = {9}
  None = None
  VMs = {v1, v2}
  MaxFiles = 3
  MaxOpens = 5
  Positions = {0, 1}
INVARIANTS TypeOK BlocksApart ZeroNamesOne StackKept OpenIsListed HandlesKept
PROPERTIES Restored
