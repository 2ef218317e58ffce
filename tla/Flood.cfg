CONSTANTS
  e1 = e1
  e2 = e2
  Worker = {w1, w2}
  Event = {e1, e2}
  Identifier = {i1}
  Window <- TwoWindows
  Threshold = 1
  MaxTime = 7
  Id = {h1, h2, h3}
SPECIFICATION Spec
SYMMETRY Symmetry
INVARIANTS RateLimit HitsCount GCIsInvisible
CHECK_DEADLOCK FALSE
