SPECIFICATION Spec
CONSTANTS
  Names = {a, b}
  Sources = {2, 9}
  BlockSize = 3
  InodesPerBlock = 3
  InodeBlocks = 1
  Direct = 1
  Indirect = 2
  data_count = 5
  FormatBound = 3
  Stops = {"take"}
INVARIANTS
  NewFileIsEmpty
CHECK_DEADLOCK FALSE
