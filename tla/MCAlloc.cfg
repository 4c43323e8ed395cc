SPECIFICATION Spec
CONSTANTS
  Base = 4
  Length = 84
  Sizes <- MCSizes
  Pointers <- MCPointers
INVARIANTS
  TypeOK
  Contained
  Disjoint
  NoLeak
  Coalesced
  AllFreed
  WordAligned
PROPERTY ImplementsHeap
