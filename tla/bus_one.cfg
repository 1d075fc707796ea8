\* One process, three events, batches of two, one crash; under fairness.
SPECIFICATION FairSpec
CONSTANTS
  Proc = {p1}
  Event <- MCEvent
  EventType <- MCEventType
  Subscriptions <- MCSubscriptions
  Limit = 2
  RunWorkers = TRUE
  MaxTime = 2
  MaxCrashes = 1
INVARIANTS TypeOK NoPhantom NoLostWakeup BoundedRedelivery
PROPERTIES OldestFirst EventuallyDispatched
CHECK_DEADLOCK FALSE
