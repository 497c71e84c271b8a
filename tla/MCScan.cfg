SPECIFICATION FairSpec
CONSTANTS
  p1 = p1
  p2 = p2
  Page = {p1, p2}
  Watched = {p1, p2}
  BatchSize = 2
  Advance = 3
  ActMax = 5
  ActInit = 2
  Random = 2
  Idle = 1
PROPERTIES
  IdleReclaims
