\* Two jobs compete for one slot, two HTTP processes for one key.
SPECIFICATION Spec
CONSTANTS
  Job = {j1, j2}
  Key = {k1}
  NoKey = NoKey
  Worker = {w1}
  NoWorker = NoWorker
  Api = {a1, a2}
  Ref = {e1}
  NoRef = NoRef
  Priority <- MCEqualPriority
  MaxAttempts = 2
  Timeout = 0
  Grace = 1
  Extra = 1
  PollDelay = 1
  BackoffBase = 1
  BackoffCap = 2
  Delay <- MCNow
  MaxTime = 0
  MaxClaims = 2
  Concurrency = 1
SYMMETRY MCSymmetry
INVARIANTS WithinConcurrency
PROPERTIES KeyNamesOneJob
CHECK_DEADLOCK FALSE
