SPECIFICATION Spec
CONSTANTS
  p1 = p1
  t1 = t1
  t2 = t2
  Nobody = Nobody
  Daemon = Daemon
  Page = {p1}
  Thread = {t1, t2}
  BatchSize = 1
  Launders = FALSE
SYMMETRY Symmetry
INVARIANTS
  RightQueue
