CONSTANTS
  Goroutine = {g1, g2}
  EventName = {e1, e2}
  GroupId = {i1, i2}
  NoEvent = NoEvent
  NoGroup = NoGroup
SPECIFICATION FairSpec
PROPERTIES NoStranding
