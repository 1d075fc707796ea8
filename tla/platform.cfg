\* Nine components, one after the other.
SPECIFICATION AllSpec
CONSTANTS
  Parts = {"generation", "repository", "rates", "router", "policy",
           "submission", "secrets", "probe", "media"}
  Job = {j1}
  Runner = {r1, r2}
  Variant = {1, 2}
  Limit = 2
  MaxClaims = 3
  Proc = {"p", "q"}
  Id = {1, 2}
  Stamp = {1, 2}
  PageSize = 1
  MaxVersion = 3
  CallLimit = 2
  WindowMs = 2
  MaxTime = 5
  Provider = {1, 2}
  Priority <- MCPriority
  Declares = {1, 2}
  Registered = {1, 2}
  MaxChanges = 1
  MaxSentences = 2
  Disclosure <- MCDisclosure
  MaxCalls = 3
  Ref = {"r1", "r2"}
  RowId = {1, 2, 3}
  MaxKeys = 2
  MaxShifts = 1
  MaxFrames = 3
  Bytes = {b}
  Place = {png, jpg}
  NoKey = NoKey
  MediaId = {a1, a2}
  Req = {q1, q2, q3}
  MaxFaults = 1
SYMMETRY MCSymmetry
INVARIANTS
  TypesOK
  BilledOnce
  RenderIsTracked
  Delivered
  LimitHolds
  FailoverIsSafe
  SentIsHonest
  SubmittedOnce
  Readable
  ProbeIsHonest
  BytesStay
PROPERTIES
  DeletedIsUntouched
  NoFileIsForgotten
CHECK_DEADLOCK FALSE
