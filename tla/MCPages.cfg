SPECIFICATION LayerSpec
CONSTANTS
  p1 = p1
  t1 = t1
  t2 = t2
  t3 = t3
  d1 = d1
  d2 = d2
  u1 = u1
  u2 = u2
  pp = pp
  k1 = k1
  k2 = k2
  NoProc = NoProc
  Nobody = Nobody
  Daemon = Daemon
  Page = {p1}
  Thread = {t1, t2}
  BatchSize = 1
  Launders = FALSE
  LaundryThread = {t3}
  Domain = {d1}
  User = {u1, u2}
  Pageproc = {pp}
  Total = 5
  InterruptFreeMin = 1
  PageoutFreeMin = 2
  FreeReserved = 2
  FreeSevere = 3
  FreeMin = 4
  WakeupThresh = 5
  LastIndex = 4
  Count = 3
  Changes = 1
  OomDomain = {d1, d2}
  Proc = {k1, k2}
  Order <- MCOrder
  Size <- MCSize
  OomSeq = 2
SYMMETRY Symmetry
INVARIANTS
  ListsHoldPages
  NoPageLost
  SleepersJustified
  ClusterSound
  CleanReleases
  VotesAndWalks
PROPERTIES
  MembershipGuarded
