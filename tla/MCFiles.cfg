SPECIFICATION MCSpec
CONSTANTS
  t1 = t1
  t2 = t2
  root = root
  sub = sub
  f = f
  None = None
  Whiteout = Whiteout
  Thread = {t1, t2}
  Dir = {root, sub}
  File = {f}
  Root = root
  Name = {"a", "b"}
  Op <- MCOp
  To <- MCTo
  From <- MCTo
  MovingOp <- MCMovingOp
  MovingFrom <- MCMovingFrom
  Block = 4
  Size = 5
  Slips = 1
  Symbols = 2
  Length = 11
  ByteBits = 2
CONSTRAINT
  Followed
INVARIANTS
  PadsOwn
  CallsReturnClean
  NamesCurrent
  SuspendedIsFlushed
  NobodyStuck
  BitTells
  WordsReturn
