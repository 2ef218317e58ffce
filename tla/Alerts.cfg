CONSTANTS
  k1 = k1
  x1 = x1
  x2 = x2
  Default = Default
  Alert = {a1, a2}
  Secret = {x1, x2}
  Category = {k1, unknown}
  Config <- MCConfig
  RetryAfter = {0, 3}
  Second = 1
  Half = 8
SPECIFICATION FairSpec
INVARIANTS NilMeansDelivered InOrderOnce
PROPERTIES CallsReturn
CHECK_DEADLOCK FALSE
