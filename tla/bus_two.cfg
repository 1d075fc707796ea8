\* Two processes on one database file.
SPECIFICATION Spec
CONSTANTS
  Proc = {p1, p2}
  Event <- MCTwoEvents
  EventType <- MCEventType
  Subscriptions <- MCSubscriptions
  Limit = 1
  RunWorkers = TRUE
  MaxTime = 1
  MaxCrashes = 1
PROPERTIES ImplementsOutbox
CHECK_DEADLOCK FALSE
