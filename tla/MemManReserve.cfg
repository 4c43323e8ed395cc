SPECIFICATION Spec
CONSTANTS
  Procs = {p1, p2, p3}
  Sizes = {3, 4, 8}
  FRAME_LEN = 4
  PT_ENTRIES = 128
  frame_count = 256
  KernelFrames = 32
  UintMax = 65535
INVARIANT KernelMemoryReserved
CHECK_DEADLOCK FALSE
