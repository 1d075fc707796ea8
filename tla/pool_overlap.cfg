\* One job, two pools: stale and current runs of the same job interleave.
SPECIFICATION Spec
CONSTANTS
  Job = {j1}
  Key = {}
  NoKey = NoKey
  Worker = {w1, w2}
  NoWorker = NoWorker
  Api = {a1}
  Ref = {e1, e2}
  NoRef = NoRef
  Priority <- MCEqualPriority
  MaxAttempts = 2
  Timeout = 0
  Grace = 1
  Extra = 1
  PollDelay = 1
  BackoffBase = 1
  BackoffCap = 2
  Delay <- MCNow
  MaxTime = 1
  MaxClaims = 2
  Concurrency = 2
SYMMETRY MCWorkerSymmetry
INVARIANTS TypeOK RowDiscipline NoOrphanUnderLivePool
PROPERTIES LiveLeaseExclusive RefSurvives ImplementsLease
CHECK_DEADLOCK FALSE
