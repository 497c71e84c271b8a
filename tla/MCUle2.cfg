SPECIFICATION Spec
CONSTANTS
  c1 = c1
  c2 = c2
  a = a
  b = b
  k = k
  NoThread = NoThread
  Thread = {a, b, k}
  CPU = {c1, c2}
  BalanceCpu = c1
  Thread0 = a
  NQS = 1
  PPQ = 8
  Discipline = "FIFO"
  SortFrom = 0
  SortBelow = 3
  SortAbove = 9
  Policy = "PRI"
  MinInteract = 2
  MinBatch = 4
  MaxBatch = 5
  MaxPri = 7
  PreemptThresh = 1
  StealThresh = 2
  Slice = 1
  SliceMin = 1
  SliceDivisor = 2
  UserPris <- TwoUserPris
  FifoThread = {}
  StaticBoost = 7
  Masks = {}
  IdleIpi = {TRUE, FALSE}
  Pinnable = {}
  Owners = {a}
  Forks = {b, k}
  Niced = {}
  BindCpus = {}
INVARIANTS
  QueuedOnce
  CountersExact
  RunsOnce
  IpiBacked
PROPERTIES
  PreemptionAsked
