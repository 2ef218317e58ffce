CONSTANTS
  p = p
  q = q
  t1 = t1
  t2 = t2
  u = u
  s1 = s1
  r = r
  Process = {p, q}
  Thread = {t1, u}
  Name = {n1}
  Session = {s1, r}
  HostOf <- MCHostOf
  PoolOf <- MCPoolOf
  MaxOpen = 1
  MaxHeld = 1
  MaxDepth = 1
  Faults = {}
  NoThread = NoThread
  NoName = NoName
  NoSession = NoSession
SPECIFICATION Spec
INVARIANTS NoOrphan
