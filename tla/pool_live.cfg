\* Two jobs of different priority, one pool with one slot, under fairness.
SPECIFICATION FairSpec
CONSTANTS
  Job = {j1, j2}
  Key = {}
  NoKey = NoKey
  Worker = {w1}
  NoWorker = NoWorker
  Api = {a1}
  Ref = {e1}
  NoRef = NoRef
  Priority <- MCFavourite
  MaxAttempts = 2
  Timeout = 0
  Grace = 1
  Extra = 1
  PollDelay = 1
  BackoffBase = 1
  BackoffCap = 2
  Delay <- MCNow
  MaxTime = 1
  MaxClaims = 2
  Concurrency = 1
PROPERTIES QueuedIsServed HeldIsSettled
CHECK_DEADLOCK FALSE
