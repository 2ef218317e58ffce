CONSTANTS
  Limit = 4
  MaxWrite = 6
  MaxBody = 12
  Nothing = Nothing
  Fields <- MCFields
  Chains <- MCChains
  Times = {0, 1}
  Failures <- MCFailures
  Pools <- MCPools
  Administered = {"c1", "c2", "c3"}
  User = {"u1", "u2"}
  Caller = {"c1", "c2"}
  Hour = 2
  Skew = {0, 1}
  MaxClock = 4
  Page <- MCPage
  Invalid = {"a:b"}
  Expiry = {0, 1, 2, 10}
  DurationBits = 4
  MaxTime = 6
  MaxLinks = 2
  Request = {"r1", "r2"}
  Tokens <- MCTokens
  Keys <- MCKeys
  Now = 10
  Leeway = 1
  Issuer = "us"
  Audience = "app"
  Action = {"login", "pay"}
  Host = {"ours", "theirs"}
  Trusted = {"ours"}
  Score = {0, 1, 2}
  MinScore = 1
  Origins <- MCOrigins
  Lists <- MCLists
  Address <- MCAddress
  Domains <- MCDomains
  AddressLists <- MCAddressLists
  Buffer = 2
  MaxBytes = 4
  Value <- MCValue
  IntBits = 3
  Year0 <- MCYear0
  Year10000 = 8
  Texts <- MCTexts
  Limits = {0, 1, 2, 3, 4, 5, 6, 7, 8, 9, 10}
SPECIFICATION CallsSpec
INVARIANT TruncateIsUtf8Safe
CHECK_DEADLOCK FALSE
