SPECIFICATION LoaderSpec
CONSTANTS
  Names = {kernel, b, c}
  Sources = {2, 5, 9}
  BlockSize = 3
  InodesPerBlock = 3
  InodeBlocks = 1
  Direct = 1
  Indirect = 1
  data_count = 5
  FormatBound = 3
  Stops = {"entry", "inodeblocks", "rootdir", "rootinode", "rootmark", "read", "point", "indirect", "zero", "data", "size"}
  Kernel = kernel
  Word = 9
  Room = 2
INVARIANTS
  TypeOK
  DirectoryIntact
  NoBlockShared
  NothingAllocatedTooEarly
  CompleteWhenDone
  RunsAPrefix
PROPERTIES
  ImplementsFileStore
CHECK_DEADLOCK FALSE
