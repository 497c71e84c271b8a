SPECIFICATION MCSpec
CONSTANTS
  Segs <- ThreeSegs
  NumOrders = 3
  NumPools = 1
  NumLists = 2
  Orders = {0, 1}
  Counts = {3, 5}
  Ranges <- TwoRanges
  Alignments = {1, 2}
  Boundaries = {0, 4}
INVARIANTS
  ListsAgree
  RequestsFilled
  MemoryKept
  BuddiesJoined
  FreeFound
