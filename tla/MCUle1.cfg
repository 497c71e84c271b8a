SPECIFICATION Spec
CONSTANTS
  c1 = c1
  a = a
  b = b
  k = k
  NoThread = NoThread
  Thread = {a, b, k}
  CPU = {c1}
  BalanceCpu = c1
  Thread0 = a
  NQS = 4
  PPQ = 2
  Discipline = "PQ"
  SortFrom = 0
  SortBelow = 3
  SortAbove = 9
  Policy = "PRI"
  MinInteract = 2
  MinBatch = 4
  MaxBatch = 5
  MaxPri = 7
  PreemptThresh = 1
  StealThresh = 2
  Slice = 1
  SliceMin = 1
  SliceDivisor = 2
  UserPris <- OneUserPris
  FifoThread = {}
  StaticBoost = 4
  Masks = {}
  IdleIpi = {TRUE}
  Pinnable = {}
  Owners = {a, b}
  Forks = {b, k}
  Niced = {}
  BindCpus = {}
INVARIANTS
  TypeOK
  QueuesSound
  QueuedHighEnough
  LowpriBound
  SortedUnlessNiced
