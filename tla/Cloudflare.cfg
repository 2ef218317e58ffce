CONSTANTS
  g1 = g1
  Goroutine = {g1, g2}
  CheckInterval = 2
  MaxTime = 4
  MaxVersion = 2
  NoTag = NoTag
  a1 = a1
  a2 = a2
  Addr = {a1, a2}
  NoAddr = NoAddr
  Ranges <- MCRanges
  RequireCloudflare = {g1}
SPECIFICATION CfSpec
INVARIANTS TagMatchesCache StaleIsBounded ServedIsVouched
