SPECIFICATION MCSpec
CONSTANTS
  t1 = t1
  t2 = t2
  t3 = t3
  c1 = c1
  c2 = c2
  p1 = p1
  p2 = p2
  Thread = {t1, t2, t3}
  Nobody = Nobody
  Remote = {c1, c2}
  Self = Self
  Free = Free
  MaxLoad = 3
  StealThresh = 2
  AlwaysSteal = FALSE
  IdleWakeup = TRUE
  Cycle = 2
  Background = 3
  Rate = 1
  Belt = 2
  Shortfalls <- MCShortfalls
  Cluster = 2
  Page = {p1, p2}
  Watched = {p1}
  BatchSize = 2
  Advance = 3
  ActMax = 5
  ActInit = 2
  Random = 2
  Idle = 1
INVARIANTS
  HoldersAndSleepers
  NoLostWakeup
  MarkBacked
  DaemonsSound
PROPERTIES
  IsPageLock
  SleepersWake
  WorkRuns
  ShortfallAnswered
  ShortageReclaims
