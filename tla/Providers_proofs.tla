--------------------------- MODULE Providers_proofs ---------------------------
(* Theorems about the adapters of the providers, submissions and probes, for *)
(* every number of calls, changes and frames; and the types of the platform. *)
EXTENDS Services_proofs, Generation_proofs

-----------------------------------------------------------------------------
(* Submissions                                                               *)

(* What Receive and GiveUp report.                                           *)
LEMMA Answers ==
  ASSUME NEW response \in Gateways!Response
  PROVE  /\ Gateways!Read(response) \in {Gateways!Handle} \cup Gateways!AppError
         /\ Gateways!Read(response) = Gateways!Handle => response = "id"
         /\ Gateways!Thrown(Gateways!Unanswered) \in Gateways!AppError
         /\ gateway = "wavespeed" =>
              /\ Gateways!Read(response) \in Gateways!AppError =>
                   ~Gateways!Read(response).retryable
              /\ ~Gateways!Thrown(Gateways!Unanswered).retryable
<1> DEFINE E(code, retryable) == Gateways!Error(code, retryable)
<1>1. ASSUME NEW code \in Gateways!Code, NEW retryable \in BOOLEAN
      PROVE  /\ E(code, retryable) \in Gateways!AppError
             /\ E(code, retryable).retryable = retryable
             /\ Gateways!asNonResubmittable(E(code, retryable)) \in Gateways!AppError
             /\ ~Gateways!asNonResubmittable(E(code, retryable)).retryable
  <2>1. E(code, retryable) \in Gateways!AppError /\ E(code, retryable).retryable = retryable
    BY DEF Gateways!Error, Gateways!AppError
  <2>2. ASSUME NEW e \in Gateways!AppError
        PROVE  /\ Gateways!asNonResubmittable(e) \in Gateways!AppError
               /\ ~Gateways!asNonResubmittable(e).retryable
    BY DEF Gateways!AppError, Gateways!asNonResubmittable
  <2> QED BY <2>1, <2>2
<1>2. Gateways!Handle \notin Gateways!AppError
  BY DEF Gateways!Handle, Gateways!AppError, Gateways!Code
<1>3. {"PROVIDER_AUTH", "PROVIDER_ERROR", "RATE_LIMITED", "PROVIDER_UNAVAILABLE", "INTERNAL"}
        = Gateways!Code
  BY DEF Gateways!Code
<1>4. \A code \in Gateways!Code, retryable \in BOOLEAN :
        /\ Gateways!Thrown(E(code, retryable)) \in Gateways!AppError
        /\ gateway = "wavespeed" => ~Gateways!Thrown(E(code, retryable)).retryable
  BY <1>1 DEF Gateways!Thrown
<1>5. \E code \in Gateways!Code, retryable \in BOOLEAN :
        Gateways!classifyHttpError(response) = E(code, retryable)
  BY <1>3 DEF Gateways!classifyHttpError
<1>6. Gateways!Unanswered = E("PROVIDER_UNAVAILABLE", TRUE)
  BY DEF Gateways!Unanswered
<1>7. \/ response = "id" /\ Gateways!Read(response) = Gateways!Handle
      \/ /\ response # "id"
         /\ \E code \in Gateways!Code, retryable \in BOOLEAN :
              Gateways!Read(response) = Gateways!Thrown(E(code, retryable))
      \/ /\ response # "id" /\ gateway = "wavespeed"
         /\ Gateways!Read(response) = E("PROVIDER_ERROR", FALSE)
      \/ /\ response # "id" /\ gateway # "wavespeed"
         /\ Gateways!Read(response) = E("INTERNAL", TRUE)
  BY <1>3, <1>5 DEF Gateways!Read, Gateways!Response
<1> HIDE DEF E
<1>8. /\ Gateways!Thrown(Gateways!Unanswered) \in Gateways!AppError
      /\ gateway = "wavespeed" => ~Gateways!Thrown(Gateways!Unanswered).retryable
  BY <1>3, <1>4, <1>6
<1>9. /\ Gateways!Read(response) \in {Gateways!Handle} \cup Gateways!AppError
      /\ gateway = "wavespeed" /\ Gateways!Read(response) \in Gateways!AppError =>
           ~Gateways!Read(response).retryable
  BY <1>1, <1>2, <1>3, <1>4, <1>7
<1>10. response # "id" => Gateways!Read(response) \in Gateways!AppError
  BY <1>1, <1>3, <1>4, <1>7
<1> QED BY <1>2, <1>8, <1>9, <1>10

(* Nothing that is still to come to something is an end.                     *)
LEMMA Readings ==
  ASSUME NEW a \in Gateways!Adapter
  PROVE  /\ Gateways!mapState[a]["waiting"] \notin Gateways!Ends
         /\ Gateways!mapState[a]["working"] \notin Gateways!Ends
         /\ a # "mock_publishing" => Gateways!mapState[a]["none"] \notin Gateways!Ends
         /\ "open" \notin Gateways!Ends
BY DEF Gateways!Adapter, Gateways!Remote, Gateways!Mock, Gateways!mapState, Gateways!Ends

LEMMA Shares ==
  ASSUME NEW a \in Nat, NEW b \in Nat, NEW c \in {0, 1}, NEW n \in 0..MaxCalls,
         MaxCalls \in Nat, a + b + c <= n
  PROVE  a \in 0..MaxCalls /\ b \in 0..MaxCalls
OBVIOUS

LEMMA Absorbs ==
  ASSUME NEW a \in Nat, NEW b \in Nat, NEW c \in {0, 1}, NEW n \in Int, a + b + c <= n,
         NEW m \in {a, a + 1}
  PROVE  /\ c = 1 => m + b + 0 <= n
         /\ m + (b - 1) + c <= n
OBVIOUS

Travelling == IF request = Gateways!Sent THEN 1 ELSE 0

(* Every thing and every request on its way is one submission's, and a       *)
(* handle stands for a thing, which only the mocks can forget; a submission  *)
(* to WaveSpeed is not repeated unless somebody presses for it; and ends are *)
(* told of things that are there.                                            *)
Accounted ==
  /\ things + stray + Travelling <= submissions
  /\ things = 0 => stage = "none"
  /\ stage = "none" /\ things > 0 => gateway \in Gateways!Mock /\ "restarted" \in past
  /\ answer = Gateways!Handle => things > 0
  /\ request.st = "answered" /\ request.response = "id" => things > 0
  /\ gateway \in Gateways!Mock =>
       /\ request = Gateways!NoCall /\ stray = 0
       /\ "restarted" \notin past => things <= 1
  /\ gateway \in Gateways!Remote /\ honours => things <= 1
Unrepeated ==
  gateway = "wavespeed" =>
    /\ ~(answer \in Gateways!AppError /\ answer.retryable)
    /\ "pressed" \notin past =>
         /\ submissions <= 1
         /\ answer = Gateways!NoAnswer /\ request = Gateways!NoCall => submissions = 0
Reported ==
  /\ told # "open" => things > 0 /\ request = Gateways!NoCall
  /\ "restarted" \in past => gateway \in Gateways!Mock
  /\ told # "open" /\ "restarted" \notin past =>
       stage # "none" /\ Gateways!mapState[gateway][stage] = told

LEMMA SubmissionInit ==
  Gateways!Init => Gateways!TypeOK /\ Accounted /\ Unrepeated /\ Reported
<1> SUFFICES ASSUME Gateways!Init
             PROVE  Gateways!TypeOK /\ Accounted /\ Unrepeated /\ Reported
  OBVIOUS
<1>1. MaxCalls \in Nat
  BY PlatformAssumption DEF Gateways!SubmissionAssumption
<1>2. Gateways!TypeOK
  BY <1>1 DEF Gateways!Init, Gateways!TypeOK, Gateways!Call, Gateways!Stage
<1>3. Accounted
  BY DEF Gateways!Init, Accounted, Travelling, Gateways!NoCall, Gateways!Sent,
     Gateways!NoAnswer, Gateways!Handle
<1>4. Gateways!NoAnswer \notin Gateways!AppError
  BY DEF Gateways!NoAnswer, Gateways!AppError, Gateways!Code
<1> QED BY <1>2, <1>3, <1>4 DEF Gateways!Init, Unrepeated, Reported

(* What the provider makes of a request.                                     *)
LEMMA Making ==
  ASSUME Gateways!TypeOK, Accounted, Reported, NEW response, Gateways!MakeThing(response),
         response = "id" => told = "open",
         gateway \in Gateways!Remote, UNCHANGED <<gateway, told, past>>
  PROVE  /\ things' \in {things, things + 1} /\ things' > 0 /\ things' \in Nat
         /\ honours => things' <= 1
         /\ stage' \in Gateways!Stage /\ stage' # "none"
         /\ told # "open" => stage' = stage
<1>1. things \in Nat /\ stage \in Gateways!Stage
  BY DEF Gateways!TypeOK
<1>2. gateway \notin Gateways!Mock
  BY DEF Gateways!Mock, Gateways!Remote
<1>3. things' \in {things, things + 1} /\ things' > 0 /\ things' \in Nat
  BY <1>1 DEF Gateways!MakeThing
<1>4. honours => things' <= 1
  BY <1>1 DEF Gateways!MakeThing, Accounted
<1>5. stage' \in Gateways!Stage /\ stage' # "none"
  BY <1>1, <1>2 DEF Gateways!MakeThing, Accounted, Gateways!Stage
<1>6. things = 0 => told = "open"
  BY <1>1 DEF Reported
<1>7. told # "open" => stage' = stage
  BY <1>6 DEF Gateways!MakeThing
<1> QED BY <1>3, <1>4, <1>5, <1>7

LEMMA SubmissionStep ==
  /\ Gateways!TypeOK /\ Accounted /\ Unrepeated /\ Reported
  /\ [Gateways!Next]_gatewayVars
  => Gateways!TypeOK' /\ Accounted' /\ Unrepeated' /\ Reported'
<1> SUFFICES ASSUME Gateways!TypeOK, Accounted, Unrepeated, Reported,
                    [Gateways!Next]_gatewayVars
             PROVE  Gateways!TypeOK' /\ Accounted' /\ Unrepeated' /\ Reported'
  OBVIOUS
<1>0. /\ things \in Nat /\ stray \in Nat /\ submissions \in 0..MaxCalls /\ MaxCalls \in Nat
      /\ request \in Gateways!Call /\ gateway \in Gateways!Adapter
      /\ told # "open" => told \in Gateways!Ends
      /\ stage \in Gateways!Stage /\ Travelling \in {0, 1}
      /\ Gateways!NoAnswer # Gateways!Handle
  BY PlatformAssumption DEF Gateways!SubmissionAssumption, Gateways!TypeOK, Travelling,
     Gateways!NoAnswer, Gateways!Handle
<1>s. /\ Gateways!Sent # Gateways!NoCall /\ Gateways!Sent.st # "answered"
      /\ Gateways!NoCall.st # "answered"
      /\ \A response : [st |-> "answered", response |-> response]
                         \notin {Gateways!NoCall, Gateways!Sent}
  BY DEF Gateways!Sent, Gateways!NoCall
(* The bounds of the types follow from the account.                          *)
<1>b. ASSUME things' \in Nat, stray' \in Nat, submissions' \in 0..MaxCalls, Accounted'
      PROVE  things' \in 0..MaxCalls /\ stray' \in 0..MaxCalls
  <2>1. Travelling' \in {0, 1}
    BY DEF Travelling
  <2>2. things' + stray' + Travelling' <= submissions'
    BY <1>b DEF Accounted
  <2> QED BY <1>0, <1>b, <2>1, <2>2, Shares
<1>1. CASE Gateways!generate
  <2>1. /\ request' = Gateways!Sent /\ answer' = Gateways!NoAnswer /\ told' = "open"
        /\ submissions' = submissions + 1 /\ submissions < MaxCalls
        /\ stray' = IF request = Gateways!Sent THEN stray + 1 ELSE stray
        /\ past' = IF Gateways!Invited THEN past ELSE past \cup {"pressed"}
        /\ gateway' = gateway /\ honours' = honours /\ things' = things /\ stage' = stage
        /\ gateway \notin Gateways!Mock
    BY <1>1 DEF Gateways!generate, Gateways!Remote, Gateways!Mock
  <2>2. past' \subseteq {"pressed", "restarted"} /\ past \subseteq past'
    BY <2>1 DEF Gateways!TypeOK
  <2>3. Travelling' = 1 /\ stray' + Travelling' = stray + Travelling + 1 /\ stray' \in Nat
    BY <1>0, <2>1 DEF Travelling
  <2>4. Accounted'
    BY <1>0, <1>s, <2>1, <2>2, <2>3 DEF Accounted
  <2>5. ASSUME gateway = "wavespeed", "pressed" \notin past' PROVE submissions' = 1
    <3>1. Gateways!Invited /\ past' = past
      BY <2>1, <2>5
    <3>2. answer = Gateways!NoAnswer /\ request = Gateways!NoCall
      BY <2>5, <3>1 DEF Gateways!Invited, Unrepeated
    <3> QED BY <1>0, <2>1, <2>5, <3>1, <3>2 DEF Unrepeated
  <2>6. Gateways!NoAnswer \notin Gateways!AppError
    BY DEF Gateways!NoAnswer, Gateways!AppError, Gateways!Code
  <2>7. Unrepeated' /\ Reported'
    BY <1>0, <1>s, <2>1, <2>5, <2>6 DEF Unrepeated, Reported
  <2>8. things' \in 0..MaxCalls /\ stray' \in 0..MaxCalls
    BY <1>0, <1>b, <2>1, <2>3, <2>4
  <2> QED BY <1>0, <2>1, <2>2, <2>4, <2>7, <2>8 DEF Gateways!TypeOK, Gateways!Call
<1>2. CASE Gateways!generateMock
  <2>1. /\ gateway \in Gateways!Mock /\ gateway # "wavespeed"
        /\ submissions' = submissions + 1 /\ submissions < MaxCalls
        /\ answer' = Gateways!Handle
        /\ IF stage = "none" THEN things' = things + 1 /\ stage' = "working" /\ told' = "open"
           ELSE UNCHANGED <<things, stage, told>>
        /\ UNCHANGED <<gateway, honours, past, request, stray>>
        /\ gateway \notin Gateways!Remote
    BY <1>2 DEF Gateways!generateMock, Gateways!Mock, Gateways!Remote
  <2>2. request = Gateways!NoCall /\ stray = 0 /\ Travelling = 0 /\ Travelling' = 0
    BY <1>s, <2>1 DEF Accounted, Travelling
  <2>3. Accounted' /\ things' \in Nat
    BY <1>0, <2>1, <2>2 DEF Accounted
  <2>4. Unrepeated'
    BY <2>1 DEF Unrepeated
  <2>5. Reported' /\ stage' \in Gateways!Stage
    BY <1>0, <2>1 DEF Reported, Accounted, Gateways!Stage
  <2> QED BY <1>0, <1>b, <2>1, <2>3, <2>4, <2>5 DEF Gateways!TypeOK
<1>3. CASE Gateways!Arrive
  <2>1. PICK response \in Gateways!Response :
          /\ request' = [st |-> "answered", response |-> response]
          /\ \/ response \in {"id", "no_id", "empty", "500"} /\ Gateways!MakeThing(response)
             \/ response \in {"401", "404", "429", "500"} /\ UNCHANGED <<things, stage>>
    BY <1>3 DEF Gateways!Arrive
  <2>2. /\ request = Gateways!Sent /\ Travelling = 1 /\ Travelling' = 0
        /\ request' \in Gateways!Call /\ request' # Gateways!NoCall
        /\ UNCHANGED <<gateway, honours, past, stray, submissions, answer, told>>
        /\ gateway \notin Gateways!Mock
    BY <1>3, <1>s, <2>1 DEF Gateways!Arrive, Travelling, Gateways!Call, Accounted
  <2>3. Unrepeated'
    BY <2>2 DEF Unrepeated
  <2>6. gateway \in Gateways!Remote /\ told = "open"
    BY <1>0, <1>s, <2>2 DEF Gateways!Adapter, Reported
  <2>4. CASE response \in {"id", "no_id", "empty", "500"} /\ Gateways!MakeThing(response)
    <3>0. /\ things' \in {things, things + 1} /\ things' > 0 /\ things' \in Nat
          /\ honours => things' <= 1
          /\ stage' \in Gateways!Stage /\ stage' # "none"
      BY <2>2, <2>4, <2>6, Making
    <3>1. things' + stray' + Travelling' <= submissions'
      <4>1. things + stray + Travelling <= submissions
        BY DEF Accounted
      <4>2. /\ Travelling = 1 /\ Travelling' = 0 /\ stray' = stray
            /\ submissions' = submissions
        BY <2>2
      <4>3. things \in Nat /\ stray \in Nat /\ submissions \in Int
        BY <1>0
      <4>4. things' + stray + 0 <= submissions
        BY <1>0, <2>2, <3>0, <4>1, <4>3, Absorbs
      <4> QED BY <4>2, <4>4
    <3>2. Accounted'
      <4>1. /\ gateway' \in Gateways!Remote /\ gateway' \notin Gateways!Mock
            /\ honours' = honours
        BY <2>2, <2>6
      <4>2. things' > 0 /\ ~(things' = 0) /\ stage' # "none" /\ (honours => things' <= 1)
        BY <3>0
      <4> QED BY <3>1, <4>1, <4>2 DEF Accounted
    <3>3. Reported'
      BY <2>2, <2>6 DEF Reported
    <3> QED BY <1>0, <1>b, <2>2, <2>3, <3>0, <3>2, <3>3 DEF Gateways!TypeOK
  <2>5. CASE response \in {"401", "404", "429", "500"} /\ UNCHANGED <<things, stage>>
    <3>1. request'.response # "id"
      BY <2>1, <2>5
    <3>2. Reported'
      BY <2>2, <2>6 DEF Reported
    <3>3. Accounted'
      BY <1>0, <2>2, <2>5, <2>6, <3>1 DEF Accounted
    <3> QED BY <2>2, <2>3, <2>5, <3>2, <3>3 DEF Gateways!TypeOK
  <2> QED BY <2>1, <2>4, <2>5
<1>4. CASE Gateways!ArriveLate
  <2>1. /\ stray > 0 /\ stray' = stray - 1 /\ Travelling' = Travelling
        /\ UNCHANGED <<gateway, honours, past, request, submissions, answer, told>>
        /\ gateway \notin Gateways!Mock
    BY <1>0, <1>4 DEF Gateways!ArriveLate, Travelling, Accounted
  <2>2. Unrepeated'
    BY <2>1 DEF Unrepeated
  <2>5. gateway \in Gateways!Remote
    BY <1>0, <2>1 DEF Gateways!Adapter
  <2>3. CASE Gateways!MakeThing("late")
    <3>0. /\ things' \in {things, things + 1} /\ things' > 0 /\ things' \in Nat
          /\ honours => things' <= 1
          /\ stage' \in Gateways!Stage /\ stage' # "none"
          /\ told # "open" => stage' = stage
      BY <2>1, <2>3, <2>5, Making
    <3>1. things' + stray' + Travelling' <= submissions'
      <4>1. things + stray + Travelling <= submissions
        BY DEF Accounted
      <4>2. /\ Travelling' = Travelling /\ stray' = stray - 1
            /\ submissions' = submissions
        BY <2>1
      <4>3. things \in Nat /\ stray \in Nat /\ submissions \in Int /\ Travelling \in {0, 1}
        BY <1>0
      <4>4. things' + (stray - 1) + Travelling <= submissions
        BY <1>0, <3>0, <4>1, <4>3, Absorbs
      <4> QED BY <4>2, <4>4
    <3>2. stray' \in Nat
      BY <1>0, <2>1
    <3>3. Accounted'
      <4>1. /\ gateway' \in Gateways!Remote /\ gateway' \notin Gateways!Mock
            /\ honours' = honours
        BY <2>1, <2>5
      <4>2. things' > 0 /\ ~(things' = 0) /\ stage' # "none" /\ (honours => things' <= 1)
        BY <3>0
      <4> QED BY <3>1, <4>1, <4>2 DEF Accounted
    <3>4. Reported'
      BY <2>1, <3>0 DEF Reported
    <3> QED BY <1>0, <1>b, <2>1, <2>2, <3>0, <3>2, <3>3, <3>4 DEF Gateways!TypeOK
  <2>4. CASE UNCHANGED <<things, stage>>
    <3>1. Accounted' /\ Reported'
      BY <1>0, <2>1, <2>4 DEF Accounted, Reported
    <3>2. stray' \in Nat
      BY <1>0, <2>1
    <3> QED BY <1>0, <1>b, <2>1, <2>2, <2>4, <3>1, <3>2 DEF Gateways!TypeOK
  <2> QED BY <1>4, <2>3, <2>4 DEF Gateways!ArriveLate
<1>5. CASE Gateways!Receive
  <2>1. /\ request.st = "answered" /\ answer' = Gateways!Read(request.response)
        /\ request' = Gateways!NoCall
        /\ UNCHANGED <<gateway, honours, past, stray, submissions, things, stage, told>>
    BY <1>5 DEF Gateways!Receive
  <2>2. request.response \in Gateways!Response /\ Travelling = 0 /\ Travelling' = 0
    <3>1. request \in [st: {"answered"}, response: Gateways!Response]
      BY <1>0, <1>s, <2>1 DEF Gateways!Call
    <3> QED BY <1>s, <2>1, <3>1 DEF Travelling
  <2>3. Accounted'
    BY <1>s, <2>1, <2>2, Answers DEF Accounted
  <2>4. answer' # Gateways!NoAnswer
    BY <1>0, <2>1, <2>2, Answers DEF Gateways!NoAnswer, Gateways!AppError, Gateways!Code
  <2>5. Unrepeated' /\ Reported'
    BY <2>1, <2>2, <2>4, Answers DEF Unrepeated, Reported
  <2> QED BY <2>1, <2>2, <2>3, <2>5, Answers DEF Gateways!TypeOK, Gateways!Call
<1>6. CASE Gateways!GiveUp
  <2>1. /\ request # Gateways!NoCall /\ request' = Gateways!NoCall
        /\ answer' = Gateways!Thrown(Gateways!Unanswered)
        /\ \/ request = Gateways!Sent /\ stray' = stray + 1
           \/ UNCHANGED stray
        /\ UNCHANGED <<gateway, honours, past, submissions, things, stage, told>>
    BY <1>6 DEF Gateways!GiveUp
  <2>2. answer' \in Gateways!AppError /\ (gateway = "wavespeed" => ~answer'.retryable)
    BY <2>1, Answers DEF Gateways!Response
  <2>3. answer' # Gateways!NoAnswer /\ answer' # Gateways!Handle
    BY <2>2 DEF Gateways!NoAnswer, Gateways!Handle, Gateways!AppError, Gateways!Code
  <2>4. Accounted' /\ stray' \in Nat
    BY <1>0, <1>s, <2>1, <2>3 DEF Accounted, Travelling
  <2>5. Unrepeated' /\ Reported'
    BY <2>1, <2>2, <2>3 DEF Unrepeated, Reported
  <2> QED BY <1>0, <1>b, <2>1, <2>2, <2>4, <2>5 DEF Gateways!TypeOK, Gateways!Call
(* What follows a handle leaves the account as it is.                        *)
<1>7. ASSUME UNCHANGED <<gateway, honours, past, request, stray, submissions, answer, things>>,
             stage' \in Gateways!Stage, stage' = "none" <=> stage = "none",
             told' \in Gateways!Ends \cup {"open"}, Reported'
      PROVE  Gateways!TypeOK' /\ Accounted' /\ Unrepeated' /\ Reported'
  BY <1>7 DEF Gateways!TypeOK, Accounted, Unrepeated, Travelling
<1>8. CASE Gateways!result
  <2>1. UNCHANGED <<gateway, honours, past, request, stray, submissions, answer, things, stage>>
    BY <1>8 DEF Gateways!result
  <2>2. things > 0 /\ request = Gateways!NoCall
        /\ (stage = "none" => "restarted" \in past)
    BY <1>0, <1>8 DEF Gateways!result, Gateways!HasHandle, Accounted
  <2>3. told' \in Gateways!Ends \cup {"open"} /\ Reported'
    BY <1>0, <1>8, <2>1, <2>2 DEF Gateways!result, Reported
  <2> QED BY <1>0, <1>7, <2>1, <2>3
<1>9. CASE Gateways!cancel
  <2>1. /\ UNCHANGED <<gateway, honours, past, request, stray, submissions, answer, things>>
        /\ stage' = "cancelled" /\ stage # "none"
    BY <1>0, <1>9 DEF Gateways!cancel, Gateways!HasHandle, Accounted
  <2>2. told' = "open"
    <3>1. CASE gateway = "higgsfield" /\ stage \in {"waiting", "working"} /\ told' = told
      <4>1. "restarted" \notin past
        BY <3>1 DEF Reported, Gateways!Mock
      <4> QED BY <1>0, <3>1, <4>1, Readings DEF Reported
    <3> QED BY <1>9, <3>1 DEF Gateways!cancel
  <2> QED BY <1>7, <2>1, <2>2 DEF Reported, Gateways!Stage
<1>10. CASE Gateways!retryPublish
  <2>1. /\ UNCHANGED <<gateway, honours, past, request, stray, submissions, answer, things>>
        /\ stage' \in {"waiting", "working"} /\ stage # "none" /\ told' = "open"
    BY <1>0, <1>10 DEF Gateways!retryPublish, Gateways!HasHandle, Accounted
  <2> QED BY <1>7, <2>1 DEF Reported, Gateways!Stage
<1>11. CASE Gateways!Work
  <2>1. /\ UNCHANGED <<gateway, honours, past, request, stray, submissions, answer, things, told>>
        /\ stage \in {"waiting", "working"}
        /\ stage' \in {"working", "done", "failed", "blocked"}
    BY <1>11 DEF Gateways!Work
  <2>2. told = "open" \/ "restarted" \in past
    BY <1>0, <2>1, Readings DEF Reported
  <2>3. Reported'
    BY <2>1, <2>2 DEF Reported
  <2>4. stage' \in Gateways!Stage /\ stage' # "none" /\ stage # "none"
    BY <2>1 DEF Gateways!Stage
  <2> QED BY <1>0, <1>7, <2>1, <2>3, <2>4
<1>13. CASE Gateways!Restart
  <2>1. /\ UNCHANGED <<gateway, honours, request, stray, submissions, answer, things, told>>
        /\ stage' = "none" /\ past' = past \cup {"restarted"} /\ stage # "none"
        /\ gateway \in Gateways!Mock /\ gateway # "wavespeed" /\ gateway \notin Gateways!Remote
    BY <1>13 DEF Gateways!Restart, Gateways!Mock, Gateways!Remote
  <2>2. past' \subseteq {"pressed", "restarted"}
    BY <2>1 DEF Gateways!TypeOK
  <2>3. Accounted'
    BY <1>0, <2>1 DEF Accounted, Travelling
  <2>4. Unrepeated' /\ Reported'
    BY <2>1 DEF Unrepeated, Reported
  <2> QED BY <2>1, <2>2, <2>3, <2>4 DEF Gateways!TypeOK, Gateways!Stage
<1>12. CASE UNCHANGED gatewayVars
  BY <1>12 DEF gatewayVars, Gateways!TypeOK, Accounted, Unrepeated, Reported, Travelling
<1> QED BY <1>1, <1>2, <1>3, <1>4, <1>5, <1>6, <1>8, <1>9, <1>10, <1>11, <1>12, <1>13
        DEF Gateways!Next

LEMMA SubmissionTyping ==
  AllSpec => [](Gateways!TypeOK /\ Accounted /\ Unrepeated /\ Reported)
BY SubmissionInit, SubmissionStep, Steps, PTL DEF AllSpec, AllInit

(* However requests are lost, overtaken and repeated, whether invited by the *)
(* error or pressed for by a retry or an expired lease: there is a second    *)
(* thing only if the provider heeds no key, and then by WaveSpeed only if it *)
(* was pressed for, or if a mock has forgotten the first; and an end that    *)
(* was reported stays the end.                                               *)
THEOREM Once == AllSpec => []SubmittedOnce
<1>1. Gateways!TypeOK /\ Accounted /\ Unrepeated /\ Reported => SubmittedOnce
  <2> SUFFICES ASSUME Gateways!TypeOK, Accounted, Unrepeated, Reported
               PROVE  SubmittedOnce
    OBVIOUS
  <2>1. things \in Nat /\ stray \in Nat /\ submissions \in Nat /\ Travelling \in Nat
    BY DEF Gateways!TypeOK, Travelling
  <2>2. gateway = "wavespeed" /\ "pressed" \notin past => things <= 1
    BY <2>1 DEF Accounted, Unrepeated
  <2>3. Gateways!MadeOnce
    BY <2>1, <2>2 DEF Gateways!TypeOK, Gateways!Adapter, Accounted, Gateways!MadeOnce
  <2>4. Gateways!ToldStaysTrue
    BY DEF Reported, Gateways!ToldStaysTrue
  <2> QED BY <2>3, <2>4 DEF SubmittedOnce, Gateways!SubmittedOnce
<1> QED BY <1>1, SubmissionTyping, PTL
-----------------------------------------------------------------------------
(* Probes                                                                    *)

(* The probes count as everybody does.                                       *)
LEMMA ProbeCounts == \A S : Probes!Cardinality(S) = Cardinality(S)
BY DEF Probes!Cardinality, Cardinality

(* Which adapter asks what, and what it has been told when it asks.          *)
Routed ==
  /\ Probes!Fact \ missing \subseteq holds /\ holds \subseteq seen /\ seen \subseteq Probes!Fact
  /\ missing \subseteq Probes!Fact
  /\ step = "health:models" => prober = "llm"
  /\ step = "health:chat" => prober \in {"llm", "anthropic"}
  /\ step = "health:chat" /\ prober = "llm" => "models" \in seen
  /\ step = "health:balance" => prober = "media"
  /\ step \in {"health:healthz", "health:queue"} => prober = "open_dispatch"
  /\ step \in Probes!Optional => {"models", "default"} \cap seen # {}

LEMMA ProbeInit ==
  Probes!Init => Probes!TypeOK /\ Routed /\ Probes!ClaimsAreShown /\ Probes!VerdictIsShown
<1> SUFFICES ASSUME Probes!Init
             PROVE  /\ Probes!TypeOK /\ Routed
                    /\ Probes!ClaimsAreShown /\ Probes!VerdictIsShown
  OBVIOUS
<1>1. MaxShifts \in Nat /\ MaxFrames \in Nat
  BY PlatformAssumption DEF Probes!ProbeAssumption
<1>2. <<>> \in Probes!BoundedSeq(Probes!Frame, MaxFrames) /\ Len(<<>>) = 0
  <2>1. <<>> \in [1..0 -> Probes!Frame] /\ 0 \in 0..MaxFrames
    BY <1>1
  <2> QED BY <2>1 DEF Probes!BoundedSeq, Probes!SeqOf
<1>3. /\ step \in Probes!First(prober)
      /\ prober \in {"llm", "anthropic", "media", "open_dispatch"}
  BY DEF Probes!Init
<1>4. step \in Probes!Step
  BY <1>3 DEF Probes!First, Probes!Step
<1>5. Probes!TypeOK
  <2>1. /\ holds \subseteq Probes!Fact /\ seen = holds /\ missing = Probes!Fact \ holds
        /\ verdict = "none" /\ shifts = 0
        /\ frames = <<>> /\ cursor = 0 /\ buffer = FALSE /\ yielded = 0
        /\ found \subseteq {"chat", "streaming"}
    BY DEF Probes!Init
  <2>2. frames \in Probes!BoundedSeq(Probes!Frame, MaxFrames) /\ cursor \in 0..Len(frames)
    BY <1>2, <2>1
  <2>3. /\ seen \subseteq Probes!Fact /\ missing \subseteq Probes!Fact
        /\ found \subseteq {"chat", "streaming"} \cup Probes!Optional
        /\ verdict \in Probes!Health
    BY <2>1 DEF Probes!Health
  <2>4. shifts \in 0..MaxShifts /\ yielded \in 0..MaxFrames /\ buffer \in BOOLEAN
    <3>1. shifts = 0 /\ yielded = 0
      BY <2>1
    <3>2. buffer = FALSE
      BY <2>1
    <3>3. shifts \in 0..MaxShifts /\ yielded \in 0..MaxFrames
      BY <1>1, <3>1
    <3> QED BY <3>2, <3>3
  <2> QED BY <1>3, <1>4, <2>1, <2>2, <2>3, <2>4 DEF Probes!TypeOK
<1>6. Routed
  BY <1>3 DEF Probes!Init, Probes!First, Routed, Probes!Optional
<1>7. Probes!ClaimsAreShown /\ Probes!VerdictIsShown
  <2>1. found \cap Probes!Optional = {} /\ verdict = "none"
    BY DEF Probes!Init, Probes!Optional
  <2> QED BY <2>1 DEF Probes!ClaimsAreShown, Probes!VerdictIsShown, Probes!Optional
<1> QED BY <1>5, <1>6, <1>7

(* What an answer says of the server.                                        *)
LEMMA Replied ==
  /\ Probes!httpJson \in {"none", "404", "401", "ok"}
  /\ Probes!httpJson # "none" => "reachable" \in holds
  /\ Probes!httpJson = "404" => "endpoint" \notin holds
  /\ Probes!httpJson = "401" => "accepted" \notin holds
  /\ Probes!httpJson = "ok" => {"reachable", "endpoint", "accepted"} \subseteq holds
  /\ Probes!httpJson # "ok" => ~({"reachable", "endpoint", "accepted"} \subseteq holds)
  /\ Probes!chat <=> {"reachable", "endpoint", "accepted", "chat"} \subseteq holds
BY DEF Probes!httpJson, Probes!chat

(* A request of a health probe.                                              *)
LEMMA Verdicts ==
  ASSUME Probes!TypeOK, Routed, Probes!VerdictIsShown,
         \/ Probes!healthModels \/ Probes!healthChat \/ Probes!healthBalance
         \/ Probes!healthz \/ Probes!healthQueue
  PROVE  /\ UNCHANGED <<holds, seen, missing, prober, shifts, frames, cursor, buffer, yielded>>
         /\ UNCHANGED found
         /\ verdict' \in Probes!Health /\ step' \in {"health:chat", "health:queue", "done"}
         /\ Routed' /\ Probes!VerdictIsShown'
<1> USE DEF Probes!Report, Probes!Asked, Probes!Optional
<1>0. /\ UNCHANGED <<holds, seen, missing, prober, shifts, frames, cursor, buffer, yielded>>
      /\ UNCHANGED found
      /\ verdict \in Probes!Health
  BY DEF Probes!TypeOK, Probes!healthModels, Probes!healthChat, Probes!healthBalance,
     Probes!healthz, Probes!healthQueue
<1>1. \A fact \in Probes!Fact : /\ fact \in holds => fact \in seen
                                /\ fact \notin holds => fact \in missing
  BY DEF Routed
<1>f. {"credential", "reachable", "accepted", "endpoint", "models", "chat"} \subseteq Probes!Fact
  BY DEF Probes!Fact, Probes!Setting
<1>2. CASE Probes!healthModels
  <2>1. CASE Probes!httpJson # "ok"
    <3>1. verdict' = Probes!Thrown(Probes!httpJson) /\ step' = "done"
      BY <1>2, <2>1 DEF Probes!healthModels
    <3> QED BY <1>0, <1>1, <1>f, <3>1, Replied DEF Probes!Thrown, Probes!Health, Routed,
           Probes!VerdictIsShown
  <2>2. CASE Probes!httpJson = "ok" /\ "models" \notin holds
    <3>1. verdict' = "model_missing" /\ step' = "done"
      BY <1>2, <2>2 DEF Probes!healthModels
    <3> QED BY <1>0, <1>1, <1>f, <2>2, <3>1, Replied DEF Probes!Health, Routed,
           Probes!VerdictIsShown
  <2>3. CASE Probes!httpJson = "ok" /\ "models" \in holds
    <3>1. verdict' = verdict /\ step' = "health:chat" /\ step = "health:models"
      BY <1>2, <2>3 DEF Probes!healthModels
    <3> QED BY <1>0, <1>1, <1>f, <2>3, <3>1 DEF Routed, Probes!VerdictIsShown
  <2> QED BY <2>1, <2>2, <2>3
<1>3. CASE Probes!healthChat
  <2>1. step = "health:chat"
    BY <1>3 DEF Probes!healthChat
  <2>2. CASE Probes!chat
    <3>1. verdict' = "connected" /\ step' = "done"
      BY <1>3, <2>2 DEF Probes!healthChat
    <3> QED BY <1>0, <1>1, <1>f, <2>1, <2>2, <3>1, Replied DEF Probes!Health, Routed,
           Probes!VerdictIsShown
  <2>3. CASE ~Probes!chat /\ prober = "anthropic"
    <3>1. verdict' = Probes!Thrown(Probes!httpJson) /\ step' = "done"
      BY <1>3, <2>3 DEF Probes!healthChat
    <3> QED BY <1>0, <1>1, <1>f, <3>1, Replied DEF Probes!Thrown, Probes!Health, Routed,
           Probes!VerdictIsShown
  <2>4. CASE ~Probes!chat /\ prober # "anthropic"
    <3>1. verdict' = "degraded" /\ step' = "done"
      BY <1>3, <2>4 DEF Probes!healthChat
    <3>2. "models" \in seen
      BY <2>1, <2>4 DEF Routed
    <3> QED BY <1>0, <1>1, <1>f, <2>4, <3>1, <3>2, Replied DEF Probes!Health, Routed,
           Probes!VerdictIsShown
  <2> QED BY <2>2, <2>3, <2>4
<1>4. CASE Probes!healthBalance
  <2>1. prober = "media" /\ step' = "done"
    BY <1>4 DEF Probes!healthBalance, Routed
  <2>2. CASE "credential" \notin holds
    <3>1. verdict' = "auth_error"
      BY <1>4, <2>2 DEF Probes!healthBalance
    <3> QED BY <1>0, <1>1, <1>f, <2>1, <2>2, <3>1 DEF Probes!Health, Routed,
           Probes!VerdictIsShown
  <2>3. CASE "credential" \in holds /\ Probes!httpJson \in {"ok", "404"}
    <3>1. verdict' = "connected"
      BY <1>4, <2>3 DEF Probes!healthBalance
    <3> QED BY <1>0, <1>1, <1>f, <2>1, <2>3, <3>1, Replied DEF Probes!Health, Routed,
           Probes!VerdictIsShown
  <2>4. CASE "credential" \in holds /\ Probes!httpJson \notin {"ok", "404"}
    <3>1. verdict' = Probes!Thrown(Probes!httpJson)
      BY <1>4, <2>4 DEF Probes!healthBalance
    <3> QED BY <1>0, <1>1, <1>f, <2>1, <3>1, Replied DEF Probes!Thrown, Probes!Health, Routed,
           Probes!VerdictIsShown
  <2> QED BY <2>2, <2>3, <2>4
<1>5. CASE Probes!healthz
  <2>1. step = "health:healthz"
    BY <1>5 DEF Probes!healthz
  <2>2. CASE step' = "health:queue" /\ UNCHANGED verdict
    BY <1>0, <2>1, <2>2 DEF Routed, Probes!VerdictIsShown
  <2>3. CASE verdict' = Probes!Thrown(Probes!httpJson) /\ step' = "done"
    BY <1>0, <1>1, <1>f, <2>3, Replied DEF Probes!Thrown, Probes!Health, Routed,
       Probes!VerdictIsShown
  <2> QED BY <1>5, <2>2, <2>3 DEF Probes!healthz
<1>6. CASE Probes!healthQueue
  <2>1. prober = "open_dispatch" /\ step' = "done"
    BY <1>6 DEF Probes!healthQueue, Routed
  <2>2. CASE Probes!httpJson = "ok" /\ verdict' = "connected"
    BY <1>0, <1>1, <1>f, <2>1, <2>2, Replied DEF Probes!Health, Routed,
       Probes!VerdictIsShown
  <2>3. CASE Probes!httpJson = "401" /\ verdict' = "auth_error"
    BY <1>0, <1>1, <1>f, <2>1, <2>3, Replied DEF Probes!Health, Routed,
       Probes!VerdictIsShown
  <2>4. CASE verdict' = "unavailable"
    BY <1>0, <2>1, <2>4 DEF Probes!Health, Routed, Probes!VerdictIsShown
  <2> QED BY <1>6, <2>2, <2>3, <2>4 DEF Probes!healthQueue
<1> QED BY <1>2, <1>3, <1>4, <1>5, <1>6

-----------------------------------------------------------------------------
(* Streams                                                                   *)

LEMMA Apart ==
  ASSUME NEW A, NEW B, IsFiniteSet(A), IsFiniteSet(B), A \cap B = {}
  PROVE  Cardinality(A \cup B) = Cardinality(A) + Cardinality(B)
<1>1. Cardinality({}) = 0
  BY FS_EmptySet
<1>2. Cardinality(A) \in Nat /\ Cardinality(B) \in Nat
  BY FS_CardinalityType
<1>3. Cardinality(A \cup B) = Cardinality(A) + Cardinality(B) - Cardinality(A \cap B)
  BY FS_Union
<1>4. Cardinality(A \cap B) = 0
  BY <1>1
<1> QED BY <1>2, <1>3, <1>4

(* The text among the first lines and among those that follow them.          *)
LEMMA Joins ==
  ASSUME NEW m \in Nat, NEW n \in Nat, m <= n,
         \A k \in 1..m : frames[k] # "[DONE]"
  PROVE  Probes!Text(1..n) = Probes!Text(1..m) + Probes!Text((m + 1)..n)
<1> DEFINE T(lines) == {i \in lines : /\ frames[i] = "text"
                                      /\ \A k \in lines : k <= i => frames[k] # "[DONE]"}
<1>1. \A lines : Probes!Text(lines) = Cardinality(T(lines))
  BY ProbeCounts DEF Probes!Text
<1>2. T(1..n) = T(1..m) \cup T((m + 1)..n)
  <2>1. 1..n = (1..m) \cup ((m + 1)..n)
    OBVIOUS
  <2>2. ASSUME NEW i \in 1..m PROVE i \in T(1..n) <=> i \in T(1..m)
    OBVIOUS
  <2>3. ASSUME NEW i \in (m + 1)..n PROVE i \in T(1..n) <=> i \in T((m + 1)..n)
    OBVIOUS
  <2> QED BY <2>1, <2>2, <2>3
<1>3. T(1..m) \cap T((m + 1)..n) = {}
  OBVIOUS
<1>4. IsFiniteSet(T(1..m)) /\ IsFiniteSet(T((m + 1)..n))
  <2>1. IsFiniteSet(1..m) /\ IsFiniteSet((m + 1)..n)
    BY FS_Interval
  <2>2. T(1..m) \subseteq 1..m /\ T((m + 1)..n) \subseteq (m + 1)..n
    OBVIOUS
  <2> HIDE DEF T
  <2> QED BY <2>1, <2>2, FS_Subset
<1> HIDE DEF T
<1>5. Cardinality(T(1..n)) = Cardinality(T(1..m)) + Cardinality(T((m + 1)..n))
  BY <1>2, <1>3, <1>4, Apart
<1> QED BY <1>1, <1>5

LEMMA TextFits == ASSUME NEW n \in Nat PROVE Probes!Text(1..n) \in 0..n
<1> DEFINE T == {i \in 1..n : /\ frames[i] = "text"
                              /\ \A k \in 1..n : k <= i => frames[k] # "[DONE]"}
<1>1. T \subseteq 1..n /\ IsFiniteSet(1..n) /\ Cardinality(1..n) = n
  BY FS_Interval
<1>2. Cardinality(T) \in Nat /\ Cardinality(T) <= n
  BY <1>1, FS_Subset, FS_CardinalityType
<1> QED BY <1>2, ProbeCounts DEF Probes!Text

(* While lines come in, none of them was the end.                            *)
Streams ==
  /\ step \notin {"stream", "done"} => frames = <<>> /\ cursor = 0 /\ yielded = 0
  /\ step = "stream" => \A k \in 1..cursor : frames[k] # "[DONE]"
  /\ Probes!StreamIsWhole

LEMMA StreamInit == Probes!Init => Streams
<1> SUFFICES ASSUME Probes!Init PROVE Streams
  OBVIOUS
<1>1. frames = <<>> /\ cursor = 0 /\ yielded = 0
  BY DEF Probes!Init
<1>2. Probes!Text(1..0) = 0
  BY TextFits
<1> QED BY <1>1, <1>2 DEF Streams, Probes!StreamIsWhole

ProbeInv ==
  Probes!TypeOK /\ Routed /\ Probes!ClaimsAreShown /\ Probes!VerdictIsShown /\ Streams

LEMMA ProbeStep == ProbeInv /\ [Probes!Next]_probeVars => ProbeInv'
<1> SUFFICES ASSUME ProbeInv, [Probes!Next]_probeVars PROVE ProbeInv'
  OBVIOUS
<1> USE DEF ProbeInv, Probes!Optional
<1>0. /\ MaxShifts \in Nat /\ MaxFrames \in Nat /\ cursor \in Nat /\ Len(frames) \in Nat
      /\ Len(frames) <= MaxFrames
  <2>1. MaxShifts \in Nat /\ MaxFrames \in Nat
    BY PlatformAssumption DEF Probes!ProbeAssumption
  <2>2. PICK m \in 0..MaxFrames : frames \in [1..m -> Probes!Frame]
    BY DEF Probes!TypeOK, Probes!BoundedSeq, Probes!SeqOf
  <2>3. Len(frames) = m
    BY <2>1, <2>2
  <2> QED BY <2>1, <2>2, <2>3 DEF Probes!TypeOK
(* What leaves the stream alone.                                             *)
<1>s. ASSUME UNCHANGED <<frames, cursor, yielded>>, step' \notin {"stream"},
             step # "stream", step # "done" \/ step' = "done"
      PROVE  Streams'
  BY <1>s DEF Streams, Probes!StreamIsWhole, Probes!Text
<1>1. ASSUME NEW fact \in Probes!Fact \ Probes!Setting, Probes!Change(fact) PROVE ProbeInv'
  <2>1. /\ step \notin {"stream", "done"} /\ shifts' = shifts + 1 /\ shifts < MaxShifts
        /\ holds' \subseteq Probes!Fact
        /\ seen' = seen \cup holds' /\ missing' = missing \cup (Probes!Fact \ holds')
        /\ UNCHANGED <<prober, step, found, verdict, frames, cursor, buffer, yielded>>
    BY <1>1 DEF Probes!Change, Probes!TypeOK
  <2>2. Probes!TypeOK'
    BY <1>0, <2>1 DEF Probes!TypeOK
  <2>3. Routed' /\ Probes!ClaimsAreShown' /\ Probes!VerdictIsShown'
    BY <2>1 DEF Routed, Probes!ClaimsAreShown, Probes!VerdictIsShown
  <2> QED BY <1>s, <2>1, <2>2, <2>3
<1>2. CASE \/ Probes!healthModels \/ Probes!healthChat \/ Probes!healthBalance
           \/ Probes!healthz \/ Probes!healthQueue
  <2>1. /\ UNCHANGED <<holds, seen, missing, prober, shifts, frames, cursor, buffer, yielded>>
        /\ UNCHANGED found
        /\ verdict' \in Probes!Health /\ step' \in {"health:chat", "health:queue", "done"}
        /\ Routed' /\ Probes!VerdictIsShown'
    BY <1>2, Verdicts
  <2>2. step \notin {"stream", "done"}
    BY <1>2 DEF Probes!healthModels, Probes!healthChat, Probes!healthBalance,
       Probes!healthz, Probes!healthQueue
  <2>3. Probes!TypeOK' /\ Probes!ClaimsAreShown'
    BY <2>1 DEF Probes!TypeOK, Probes!Step, Probes!ClaimsAreShown
  <2> QED BY <1>s, <2>1, <2>2, <2>3
<1>3. CASE Probes!capabilitiesModels
  <2>1. /\ step = "models" /\ step' \in {"structured_output", "done"}
        /\ UNCHANGED <<holds, seen, missing, prober, shifts, frames, cursor, buffer, yielded,
                       found, verdict>>
        /\ step' = "structured_output" => {"models", "default"} \cap holds # {}
    BY <1>3 DEF Probes!capabilitiesModels, Probes!Asked
  <2>2. Probes!TypeOK'
    BY <2>1 DEF Probes!TypeOK, Probes!Step
  <2>3. Routed' /\ Probes!ClaimsAreShown' /\ Probes!VerdictIsShown'
    BY <2>1 DEF Routed, Probes!ClaimsAreShown, Probes!VerdictIsShown
  <2> QED BY <1>s, <2>1, <2>2, <2>3
<1>4. CASE Probes!capabilitiesProbe
  <2>1. /\ step \in {"structured_output", "tool_calling", "embeddings"}
        /\ step' \in {"tool_calling", "embeddings", "done"}
        /\ UNCHANGED <<holds, seen, missing, prober, shifts, frames, cursor, buffer, yielded,
                       verdict>>
        /\ found \subseteq found' /\ found' \subseteq found \cup {step}
        /\ step \in found' => step \in found \/ Probes!Demonstrated[step]
    BY <1>4 DEF Probes!capabilitiesProbe, Probes!Asked, Probes!Optional, Probes!After
  <2>2. Probes!TypeOK'
    BY <2>1 DEF Probes!TypeOK, Probes!Step, Probes!Optional
  <2>3. Routed' /\ Probes!VerdictIsShown'
    BY <2>1 DEF Routed, Probes!VerdictIsShown
  <2>4. /\ step = "structured_output" /\ Probes!Demonstrated[step] => {"chat", "json"} \subseteq seen
        /\ step = "tool_calling" /\ Probes!Demonstrated[step] => {"chat", "tools"} \subseteq seen
        /\ Probes!Demonstrated[step] => {"reachable", "accepted", "endpoint"} \subseteq seen
    <3>1. /\ Probes!Demonstrated["structured_output"] <=> Probes!chat /\ "json" \in holds
          /\ Probes!Demonstrated["tool_calling"] <=> Probes!chat /\ "tools" \in holds
          /\ Probes!Demonstrated["embeddings"] <=> Probes!embed
      BY Zenon DEF Probes!Demonstrated
    <3>2. /\ Probes!chat => Probes!httpJson = "ok" /\ "chat" \in holds
          /\ Probes!embed => Probes!httpJson = "ok"
      BY DEF Probes!chat, Probes!embed
    <3>3. Probes!httpJson = "ok" => {"reachable", "accepted", "endpoint"} \subseteq holds
      BY Replied
    <3>4. holds \subseteq seen
      BY DEF Routed
    <3> HIDE DEF ProbeInv
    <3>5. CASE step = "structured_output"
      BY <3>1, <3>2, <3>3, <3>4, <3>5
    <3>6. CASE step = "tool_calling"
      BY <3>1, <3>2, <3>3, <3>4, <3>6
    <3>7. CASE step = "embeddings"
      BY <3>1, <3>2, <3>3, <3>4, <3>7
    <3> QED BY <2>1, <3>5, <3>6, <3>7
  <2>5. Probes!ClaimsAreShown'
    <3>1. seen' = seen /\ ({"models", "default"} \cap seen # {})
      BY <2>1 DEF Routed, Probes!Optional
    <3>2. ASSUME found' \cap Probes!Optional # {}
          PROVE  {"reachable", "accepted", "endpoint"} \subseteq seen
      <4>1. CASE found \cap Probes!Optional # {}
        BY <4>1 DEF Probes!ClaimsAreShown
      <4>2. CASE found \cap Probes!Optional = {}
        <5>1. Probes!Demonstrated[step]
          BY <2>1, <3>2, <4>2
        <5> QED BY <2>4, <5>1
      <4> QED BY <4>1, <4>2
    <3> QED BY <2>1, <2>4, <3>1, <3>2 DEF Probes!ClaimsAreShown
  <2> QED BY <1>s, <2>1, <2>2, <2>3, <2>5
<1>5. CASE Probes!openStream
  <2>1. /\ step = "stream:open" /\ step' \in {"stream", "done"}
        /\ UNCHANGED <<holds, seen, missing, prober, found, verdict, shifts, cursor, buffer,
                       yielded>>
    BY <1>5 DEF Probes!openStream
  <2>2. cursor = 0 /\ yielded = 0 /\ frames = <<>>
    BY <2>1 DEF Streams
  <2>3. frames' \in Probes!BoundedSeq(Probes!Frame, MaxFrames)
    BY <1>5, <2>2 DEF Probes!openStream, Probes!TypeOK
  <2>4. Len(frames') \in Nat
    BY <2>3, <1>0 DEF Probes!BoundedSeq, Probes!SeqOf
  <2>5. Probes!TypeOK'
    BY <1>0, <2>1, <2>2, <2>3, <2>4 DEF Probes!TypeOK, Probes!Step
  <2>6. Routed' /\ Probes!ClaimsAreShown' /\ Probes!VerdictIsShown'
    BY <2>1 DEF Routed, Probes!ClaimsAreShown, Probes!VerdictIsShown
  <2>7. Probes!Text(1..0)' = 0
    <3>1. {i \in 1..0 : /\ frames'[i] = "text"
                        /\ \A k \in 1..0 : k <= i => frames'[k] # "[DONE]"} = {}
      OBVIOUS
    <3> QED BY <3>1, ProbeCounts, FS_EmptySet DEF Probes!Text
  <2>8. Streams'
    BY <2>1, <2>2, <2>7 DEF Streams, Probes!StreamIsWhole
  <2> QED BY <2>5, <2>6, <2>8
<1>6. ASSUME NEW n \in 0..Len(frames), NEW cut \in BOOLEAN, Probes!Chunk(n, cut)
      PROVE  ProbeInv'
  <2>1. /\ step = "stream" /\ n >= cursor /\ n \in Nat /\ n <= MaxFrames
        /\ yielded' = yielded + Probes!Text((cursor + 1)..n)
        /\ step' = IF Probes!Stop((cursor + 1)..n) THEN "done" ELSE step
        /\ cursor' = n /\ buffer' = cut
        /\ UNCHANGED <<holds, seen, missing, prober, found, verdict, shifts, frames>>
    BY <1>0, <1>6 DEF Probes!Chunk, Probes!Complete
  <2>2. yielded' = Probes!Text(1..n)
    <3>1. yielded = Probes!Text(1..cursor) /\ \A k \in 1..cursor : frames[k] # "[DONE]"
      BY <2>1 DEF Streams, Probes!StreamIsWhole
    <3> QED BY <1>0, <2>1, <3>1, Joins
  <2>3. Probes!Text(1..n)' = Probes!Text(1..n)
    BY <2>1 DEF Probes!Text
  <2>4. step' = "stream" => \A k \in 1..n : frames'[k] # "[DONE]"
    <3> SUFFICES ASSUME step' = "stream", NEW k \in 1..n PROVE frames[k] # "[DONE]"
      BY <2>1
    <3>1. CASE k \in 1..cursor
      BY <2>1, <3>1 DEF Streams
    <3>2. CASE k \in (cursor + 1)..n
      BY <2>1, <3>2 DEF Probes!Stop
    <3> QED BY <1>0, <2>1, <3>1, <3>2
  <2>5. step' \in {"stream", "done"}
    BY <2>1
  <2>6. Streams'
    BY <2>1, <2>2, <2>3, <2>4, <2>5 DEF Streams, Probes!StreamIsWhole
  <2>7. yielded' \in 0..MaxFrames
    BY <1>0, <2>1, <2>2, TextFits
  <2>8. Probes!TypeOK'
    BY <1>0, <2>1, <2>5, <2>7 DEF Probes!TypeOK, Probes!Step
  <2>9. Routed' /\ Probes!ClaimsAreShown' /\ Probes!VerdictIsShown'
    BY <2>1, <2>5 DEF Routed, Probes!ClaimsAreShown, Probes!VerdictIsShown
  <2> QED BY <2>6, <2>8, <2>9
<1>7. CASE Probes!EndOfStream
  <2>1. /\ step = "stream" /\ step' = "done"
        /\ UNCHANGED <<holds, seen, missing, prober, found, verdict, shifts, frames, cursor,
                       buffer, yielded>>
    BY <1>7 DEF Probes!EndOfStream
  <2>2. Probes!TypeOK'
    BY <2>1 DEF Probes!TypeOK, Probes!Step
  <2>3. Routed' /\ Probes!ClaimsAreShown' /\ Probes!VerdictIsShown'
    BY <2>1 DEF Routed, Probes!ClaimsAreShown, Probes!VerdictIsShown
  <2>4. Streams'
    BY <2>1 DEF Streams, Probes!StreamIsWhole, Probes!Text
  <2> QED BY <2>2, <2>3, <2>4
<1>8. CASE UNCHANGED probeVars
  BY <1>8 DEF probeVars, Probes!TypeOK, Routed, Probes!ClaimsAreShown,
     Probes!VerdictIsShown, Streams, Probes!StreamIsWhole, Probes!Text
<1> QED BY <1>1, <1>2, <1>3, <1>4, <1>5, <1>6, <1>7, <1>8 DEF Probes!Next

LEMMA ProbeTyping == AllSpec => []ProbeInv
<1>1. Probes!Init => ProbeInv
  BY ProbeInit, StreamInit DEF ProbeInv
<1> QED BY <1>1, ProbeStep, Steps, PTL DEF AllSpec, AllInit

(* However the server changes between the requests of a probe, and wherever  *)
(* a stream is cut: structured output and tool calling were shown if they    *)
(* are claimed, verdicts are about what was the case, and the text passed on *)
(* is the text of the complete lines.                                        *)
THEOREM Honestly == AllSpec => []ProbeIsHonest
<1>1. ProbeInv => ProbeIsHonest
  BY DEF ProbeInv, Streams, ProbeIsHonest, Probes!ProbeIsHonest
<1> QED BY <1>1, ProbeTyping, PTL

-----------------------------------------------------------------------------
(* The media library                                                         *)

(* The theorems about AssetStore, for the library of the platform.           *)
Files == INSTANCE AssetStore_proofs
  WITH rows <- media, Content <- Bytes, Asset <- MediaId, faults <- failures

LEMMA LibraryInit == Library!Init => Files!Init
BY DEF Library!Init, Library!Key, Library!NoRow, Library!Idle,
   Files!Init, Files!Key, Files!NoRow, Files!Idle

LEMMA LibraryNext == [Library!Next]_mediaVars => [Files!Next]_(Files!vars)
BY DEF mediaVars, Files!vars,
   Library!Next, Library!StartUpload, Library!PutStep, Library!Stat, Library!BeginWrite,
   Library!EndWrite, Library!Rename, Library!FinishUpload, Library!ReturnsExisting,
   Library!LiveWith, Library!Insert, Library!UnlinkPending, Library!SoftDelete, Library!Purge,
   Library!StillReferenced, Library!InTable, Library!Unlink, Library!Fault, Library!Crash,
   Library!Key, Library!Checksum, Library!Idle, Library!NoRow, Library!Purged,
   Files!Next, Files!StartUpload, Files!PutStep, Files!Stat, Files!BeginWrite,
   Files!EndWrite, Files!Rename, Files!FinishUpload, Files!ReturnsExisting,
   Files!LiveWith, Files!Insert, Files!UnlinkPending, Files!SoftDelete, Files!Purge,
   Files!StillReferenced, Files!InTable, Files!Unlink, Files!Fault, Files!Crash,
   Files!Key, Files!Checksum, Files!Idle, Files!NoRow, Files!Purged

LEMMA LibrarySpec == AllSpec => Files!Spec
BY LibraryInit, LibraryNext, Steps, PTL DEF AllSpec, AllInit, Files!Spec

LEMMA LibraryTyping == AllSpec => []Library!TypeOK
<1>1. Files!TypeOK => Library!TypeOK
  BY DEF Library!TypeOK, Library!Key, Library!FileState, Library!Row, Library!NoRow,
     Library!Purged, Library!Upload, Library!Removal, Library!Idle,
     Files!TypeOK, Files!Key, Files!FileState, Files!Row, Files!NoRow,
     Files!Purged, Files!Upload, Files!Removal, Files!Idle
<1>2. Files!Spec => []Files!TypeOK
  BY Files!Typing DEF Files!Typing
<1> QED BY <1>1, <1>2, LibrarySpec, PTL

(* A row of the library that had its file keeps it, whole, while it is in    *)
(* the table; no row leads to half a file.                                   *)
THEOREM LibraryKept == AllSpec => []BytesStay
<1>1. Files!BytesStay => BytesStay
  BY DEF BytesStay, Library!BytesStay, Library!InTable, Files!BytesStay, Files!InTable
<1>2. Files!Spec => []Files!BytesStay
  BY Files!Kept DEF Files!Kept
<1> QED BY <1>1, <1>2, LibrarySpec, PTL

(* Only a failed call or a crash leaves the library a file that neither a    *)
(* row nor a request accounts for.                                           *)
THEOREM LibraryAccounted == AllSpec => NoFileIsForgotten
<1>1. [\A k \in Files!Key :
          (files[k] # "absent" => Files!Owned(k)) /\ failures' = failures
            => (files'[k] # "absent" => Files!Owned(k)')]_(Files!vars)
        => [\A k \in Library!Key :
          (files[k] # "absent" => Library!Owned(k)) /\ failures' = failures
            => (files'[k] # "absent" => Library!Owned(k)')]_(Library!vars)
  BY DEF Library!Key, Library!Owned, Library!InTable, Library!UnlinkPending, Library!vars,
     Files!Key, Files!Owned, Files!InTable, Files!UnlinkPending, Files!vars
<1>2. Files!Spec => Files!NoFileIsForgotten
  BY Files!Accounted DEF Files!Accounted
<1> QED BY <1>1, <1>2, LibrarySpec, PTL
  DEF NoFileIsForgotten, Library!NoFileIsForgotten, Files!NoFileIsForgotten

-----------------------------------------------------------------------------
(* All of the platform                                                       *)

(* Every component of the platform keeps to its types.                       *)
THEOREM PlatformTyping == AllSpec => []TypesOK
<1>1. AllSpec => []TypeOK
  BY TypeInit, TypeStep, Steps, PTL DEF AllSpec, AllInit
<1>2. AllSpec => [](/\ TypeOK /\ Repo!TypeOK /\ Rate!TypeOK /\ Router!TypeOK
                    /\ Replies!TypeOK /\ Gateways!TypeOK /\ Vault!TypeOK /\ Probes!TypeOK
                    /\ Library!TypeOK)
  <2>1. ProbeInv => Probes!TypeOK
    BY DEF ProbeInv
  <2> QED BY <1>1, <2>1, RepoTyping, RateTyping, RouterTyping, ReplyTyping, SubmissionTyping,
             VaultTyping, ProbeTyping, LibraryTyping, PTL
<1>3. (/\ TypeOK /\ Repo!TypeOK /\ Rate!TypeOK /\ Router!TypeOK
       /\ Replies!TypeOK /\ Gateways!TypeOK /\ Vault!TypeOK /\ Probes!TypeOK
       /\ Library!TypeOK) => TypesOK
  BY DEF TypesOK
<1> QED BY <1>2, <1>3, PTL

(* The renders of the platform are those of Generation: what holds of that   *)
(* component holds here, whatever the others do.  A job is billed twice only *)
(* by a provider that heeds no key, after a fault or under two runs at once; *)
(* what is billed and not tracked is what a fault or an overlap explains;    *)
(* completed jobs have delivered.                                            *)
THEOREM RendersHold == AllSpec => [](BilledOnce /\ RenderIsTracked /\ Delivered)
<1>1. AllSpec => Spec
  BY Steps, PTL DEF AllSpec, AllInit, Spec
<1> QED BY <1>1, Billed, Traced, CompletedIsDelivered, PTL
=============================================================================
