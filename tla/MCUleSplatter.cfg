SPECIFICATION FairSpec
CONSTANTS
  c1 = c1
  a = a
  b = b
  k = k
  NoThread = NoThread
  Thread = {a, b, k}
  CPU = {c1}
  BalanceCpu = c1
  Thread0 = a
  NQS = 4
  PPQ = 3
  Discipline = "FIFO"
  SortFrom = 0
  SortBelow = 3
  SortAbove = 9
  Policy = "SPLATTER"
  MinInteract = 2
  MinBatch = 4
  MaxBatch = 7
  MaxPri = 9
  PreemptThresh = 1
  StealThresh = 2
  Slice = 1
  SliceMin = 1
  SliceDivisor = 2
  UserPris <- NicePris
  FifoThread = {}
  StaticBoost = 4
  Masks = {}
  IdleIpi = {TRUE}
  Pinnable = {}
  Owners = {}
  Forks = {b, k}
  Niced = {}
  BindCpus = {}
PROPERTIES
  NoStarvation
