SPECIFICATION Spec
CONSTANTS
  Widths = {3, 4, 5, 8}
  None = None
  Trees <- MCTrees
  MaxLength = 5
  MaxNested = 3
  MaxBytes = 20
  Levels = {10, 11, 12}
INVARIANTS TypeOK LinesFit ReadsAsSent OneEncoding PartsAreFound
CHECK_DEADLOCK FALSE
