CONSTANTS
  p1 = p1
  p2 = p2
  x = x
  y = y
  Process = {p1, p2}
  EventTypes <- MCEventTypes
  Version = {"v1", "v2"}
  EventsOf <- MCEventsOf
  VersionOf <- MCVersionOf
  HasSecret = {p1}
  UsesClient = {p2}
  Former <- MCFormer
  Event = {e1}
  MaxEndpoints = 2
SPECIFICATION FairSpec
INVARIANT AckedIsProcessed
PROPERTIES DoneMeansSubscribed ClientIsGiven
CHECK_DEADLOCK FALSE
