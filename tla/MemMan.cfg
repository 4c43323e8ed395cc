SPECIFICATION Spec
CONSTANTS
  Procs = {p1, p2, p3}
  Sizes = {3, 252, 256, 260}
  FRAME_LEN = 4
  PT_ENTRIES = 64
  frame_count = 4608
  KernelFrames = 32
  UintMax = 65535
INVARIANTS
  TypeOK
  FramesBalanced
  HeapBalanced
  SpaceIsComplete
PROPERTY ImplementsAddressSpaces
CHECK_DEADLOCK FALSE
