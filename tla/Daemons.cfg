CONSTANTS
  Count = 2
  Slow = {2}
  MaxRequests = 2
  Job = {j1, j2}
  Run = {r1, r2}
  NoJob = NoJob
  Member = {m1, m2, m3}
SPECIFICATION DaemonsSpec
INVARIANTS DaemonsTypeOK HttpExitIsGraceful ContainerTellsTheEnd
  FailureIsReported WaitTellsTheFirst
PROPERTIES StopEnds QuietAtLast
CHECK_DEADLOCK FALSE
