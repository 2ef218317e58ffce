CONSTANTS
  Goroutine = {g1, g2, g3}
  EventName = {e1, e2}
  GroupId = {i1, i2}
  NoEvent = NoEvent
  NoGroup = NoGroup
SPECIFICATION Spec
SYMMETRY Symmetry
INVARIANTS OpenIffWatched DeliveredOnce
PROPERTIES ImplementsOneShot
