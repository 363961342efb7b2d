\* Three runs, two subscribers, Stop and Shutdown at any time.
SPECIFICATION FairSpec
CONSTANTS
  MaxRuns = 3
  Subscribers = {s1, s2}
  Capacity = 1
  NoChannel = NoChannel
\* After the drain the service is gone.
CHECK_DEADLOCK FALSE
INVARIANTS
  MasksFollowState
  NoPanic
  OpenStreamIsServed
PROPERTIES
  StopMeansStopped
  ImplementsContract
  StopsFinish
  SubscribersAreServed
