SPECIFICATION FairSpec
CONSTANTS
  Base = 8
  Size = 56
  Requests = {5, 16}
  AlignRequests = {8}
  Aligns = {4, 16}
INVARIANTS
  NoOverlap
  NoLeak
  RefusedOnlyWhenFull
PROPERTIES
  ImplementsHeap
  CallsReturn
