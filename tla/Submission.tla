----------------------------- MODULE Submission -----------------------------
(* providers/media, publishing and mock with providers/http.ts: what happens *)
(* between an adapter and its provider when one thing is submitted, for      *)
(* rendering or publishing, and then followed to its end.  Requests may get  *)
(* lost or arrive after their caller has given up.  JobQueue.fail and the    *)
(* router ask again while the error says retryable; JobQueue.retry and       *)
(* reclaimExpired ask again whatever has come of it, even during a call.     *)
EXTENDS Naturals

CONSTANT MaxCalls   \* bound: submissions, and travelling requests, of one thing

SubmissionAssumption == MaxCalls \in Nat

VARIABLES
  adapter,      \* the adapter in use
  honours,      \* does the provider heed the Idempotency-Key header
  call,         \* the call under way, with the provider's response
  stray,        \* requests on their way that nobody waits for any more
  calls,        \* how often the thing was submitted
  answer,       \* what the caller was told of the submission
  things,       \* how many things the provider has made of it
  stage,        \* how far the one has come whose id was last given out
  told,         \* the end the caller was told of since its last order
  past          \* history: it was submitted again whatever had come of it
                \* ("pressed"), the mock has lost its maps ("restarted")

vars == <<adapter, honours, call, stray, calls, answer, things, stage, told, past>>

Remote == {"wavespeed", "higgsfield", "open_dispatch"}
Mock == {"mock_media", "mock_publishing"}
Adapter == Remote \cup Mock

(* Statuses of HTTP, "no_id" and "empty" being successes of an odd body.     *)
Response == {"id", "no_id", "empty", "401", "404", "429", "500"}
NoCall == [st |-> "none"]
Sent == [st |-> "sent"]
Call == {NoCall, Sent} \cup [st: {"answered"}, response: Response]

Code == {"PROVIDER_AUTH", "PROVIDER_ERROR", "RATE_LIMITED", "PROVIDER_UNAVAILABLE", "INTERNAL"}
AppError == [code: Code, retryable: BOOLEAN]
Error(code, retryable) == [code |-> code, retryable |-> retryable]
Handle == [code |-> "none"]
NoAnswer == [code |-> "not_asked"]

Ends == {"completed", "failed", "cancelled", "published", "dead"}
Stage == {"none", "waiting", "working", "done", "failed", "blocked", "cancelled"}

TypeOK ==
  /\ adapter \in Adapter /\ honours \in BOOLEAN
  /\ call \in Call /\ stray \in 0..MaxCalls /\ calls \in 0..MaxCalls
  /\ answer \in {NoAnswer, Handle} \cup AppError
  /\ things \in 0..MaxCalls /\ stage \in Stage
  /\ told \in Ends \cup {"open"}
  /\ past \subseteq {"pressed", "restarted"}

Init ==
  /\ adapter \in Adapter /\ honours \in BOOLEAN
  /\ call = NoCall /\ stray = 0 /\ calls = 0
  /\ answer = NoAnswer
  /\ things = 0 /\ stage = "none" /\ told = "open" /\ past = {}

-----------------------------------------------------------------------------
(* Errors                                                                    *)

classifyHttpError(response) ==
  CASE response = "401" -> Error("PROVIDER_AUTH", FALSE)
    [] response = "404" -> Error("PROVIDER_ERROR", FALSE)
    [] response = "429" -> Error("RATE_LIMITED", TRUE)
    [] OTHER -> Error("PROVIDER_UNAVAILABLE", TRUE)

(* No response: a timeout, an abort, or no connection.                       *)
Unanswered == Error("PROVIDER_UNAVAILABLE", TRUE)

(* Mutant of asNonResubmittable: the error as it came.                       *)
asItCame(error) == error
(* A submission to WaveSpeed never says retryable.                           *)
asNonResubmittable(error) == [error EXCEPT !.retryable = FALSE]
Thrown(error) == IF adapter = "wavespeed" THEN asNonResubmittable(error) ELSE error

(* A body that is no object makes the read of its id throw: whoever catches  *)
(* the TypeError makes INTERNAL of it, which is retryable by default.        *)
Read(response) ==
  CASE response = "id" -> Handle
    [] response = "no_id" -> Thrown(Error("PROVIDER_ERROR", FALSE))
    [] response = "empty" ->
         IF adapter = "wavespeed" THEN Error("PROVIDER_ERROR", FALSE)
         ELSE Error("INTERNAL", TRUE)
    [] OTHER -> Thrown(classifyHttpError(response))

-----------------------------------------------------------------------------
(* generate() and publish()                                                  *)

(* A first request, or one more after an error that allows it.               *)
Invited == call = NoCall /\ (answer = NoAnswer \/ (answer \in AppError /\ answer.retryable))

(* Otherwise it is a retry that an operator asked for, or a lease that ended *)
(* while the request was under way or before its answer was recorded: what   *)
(* is on its way then arrives with nobody waiting.                           *)
generate ==
  /\ adapter \in Remote /\ calls < MaxCalls
  /\ past' = IF Invited THEN past ELSE past \cup {"pressed"}
  /\ stray' = IF call = Sent THEN stray + 1 ELSE stray
  /\ call' = Sent /\ calls' = calls + 1
  /\ answer' = NoAnswer /\ told' = "open"
  /\ UNCHANGED <<adapter, honours, things, stage>>

(* The mocks look the key up in a map, which lasts as long as the process.   *)
generateMock ==
  /\ adapter \in Mock /\ calls < MaxCalls
  /\ calls' = calls + 1 /\ answer' = Handle
  /\ IF stage = "none"
     THEN things' = things + 1 /\ stage' = "working" /\ told' = "open"
     ELSE UNCHANGED <<things, stage, told>>
  /\ UNCHANGED <<adapter, honours, past, call, stray>>

Restart ==
  /\ adapter \in Mock /\ stage # "none"
  /\ stage' = "none" /\ past' = past \cup {"restarted"}
  /\ UNCHANGED <<adapter, honours, call, stray, calls, answer, things, told>>

(* The provider: it makes a thing, unless it knows the key, or it does not;  *)
(* an error of the server leaves open which.  A new thing is followed once   *)
(* its id is given out.                                                      *)
MakeThing(response) ==
  /\ things' = IF honours /\ things > 0 THEN things ELSE things + 1
  /\ stage' = IF things = 0 \/ (~honours /\ response = "id") THEN "waiting" ELSE stage
Arrive ==
  /\ call = Sent
  /\ \E response \in Response :
       /\ call' = [st |-> "answered", response |-> response]
       /\ \/ response \in {"id", "no_id", "empty", "500"} /\ MakeThing(response)
          \/ response \in {"401", "404", "429", "500"} /\ UNCHANGED <<things, stage>>
  /\ UNCHANGED <<adapter, honours, past, stray, calls, answer, told>>

ArriveLate ==
  /\ stray > 0 /\ stray' = stray - 1
  /\ MakeThing("late") \/ UNCHANGED <<things, stage>>
  /\ UNCHANGED <<adapter, honours, past, call, calls, answer, told>>

Receive ==
  /\ call.st = "answered"
  /\ answer' = Read(call.response) /\ call' = NoCall
  /\ UNCHANGED <<adapter, honours, past, stray, calls, things, stage, told>>

(* The timer fires or the connection breaks; the request may still arrive.   *)
GiveUp ==
  /\ call # NoCall /\ call' = NoCall
  /\ answer' = Thrown(Unanswered)
  /\ \/ call = Sent /\ stray' = stray + 1
     \/ UNCHANGED stray
  /\ UNCHANGED <<adapter, honours, past, calls, things, stage, told>>

-----------------------------------------------------------------------------
(* Following the thing                                                       *)

(* Mutant of mapState: a render at work is taken for a finished one.         *)
mapStateEager ==
  [a \in Adapter |-> [s \in Stage |->
     IF s \in {"working", "done"} THEN "completed" ELSE "failed"]]

(* Each adapter's reading of its provider's words, by what they mean, and    *)
(* the mocks' of an id they do not know.                                     *)
mapState ==
  LET read(none, waiting, working, done, failed, blocked, cancelled) ==
        [none |-> none, waiting |-> waiting, working |-> working, done |-> done,
         failed |-> failed, blocked |-> blocked, cancelled |-> cancelled]
  IN [wavespeed |->
        read("unknown", "submitted", "running", "completed", "failed", "unknown", "cancelled"),
      higgsfield |->
        read("unknown", "submitted", "running", "completed", "failed", "failed", "cancelled"),
      open_dispatch |->
        read("unknown", "queued", "publishing", "published", "failed", "dead", "queued"),
      mock_media |->
        read("unknown", "submitted", "running", "completed", "failed", "unknown", "cancelled"),
      mock_publishing |->
        read("failed", "queued", "publishing", "published", "failed", "unknown", "unknown")]

HasHandle == answer = Handle /\ call = NoCall

(* What is read may be a word nobody knows, which is no end.                 *)
result ==
  /\ HasHandle
  /\ told' = IF mapState[adapter][stage] \in Ends THEN mapState[adapter][stage] ELSE told
  /\ UNCHANGED <<adapter, honours, past, call, stray, calls, answer, things, stage>>

(* Higgsfield cancels what is not at an end and answers 409 otherwise; the   *)
(* mock takes back what has ended, too.  The other adapters have no cancel.  *)
cancel ==
  /\ HasHandle
  /\ \/ adapter = "higgsfield" /\ stage \in {"waiting", "working"} /\ UNCHANGED told
     \/ adapter = "mock_media" /\ stage # "none" /\ told' = "open"
  /\ stage' = "cancelled"
  /\ UNCHANGED <<adapter, honours, past, call, stray, calls, answer, things>>

(* The provider takes what has failed into its queue again, the mock sends   *)
(* off anything again, published or not.                                     *)
retryPublish ==
  /\ HasHandle
  /\ \/ adapter = "open_dispatch" /\ stage \in {"failed", "blocked"} /\ stage' = "waiting"
     \/ adapter = "mock_publishing" /\ stage # "none" /\ stage' = "working"
  /\ told' = "open"
  /\ UNCHANGED <<adapter, honours, past, call, stray, calls, answer, things>>

Work ==
  /\ \/ stage = "waiting" /\ stage' = "working"
     \/ stage \in {"waiting", "working"} /\ stage' \in {"done", "failed"}
     \/ /\ adapter \in {"higgsfield", "open_dispatch"}
        /\ stage \in {"waiting", "working"} /\ stage' = "blocked"
  /\ UNCHANGED <<adapter, honours, past, call, stray, calls, answer, things, told>>

Next == generate \/ generateMock \/ Restart \/ Arrive \/ ArriveLate \/ Receive \/ GiveUp
          \/ result \/ cancel \/ retryPublish \/ Work

Spec == Init /\ [][Next]_vars

-----------------------------------------------------------------------------
(* A second thing is billed or posted only where the provider heeds no key,  *)
(* and then, by WaveSpeed's adapter, not for a lost, late or odd answer but  *)
(* only if the job was retried or reclaimed whatever had come of it; and by  *)
(* a mock that has lost its maps.                                            *)
MadeOnce ==
  things > 1 =>
    \/ adapter \in Remote /\ ~honours /\ (adapter = "wavespeed" => "pressed" \in past)
    \/ adapter \in Mock /\ "restarted" \in past

(* What the caller is told of the end stays true: no report that something   *)
(* is completed, failed, cancelled or published is taken back later, unless  *)
(* the caller has sent it off again or cancelled it, or a mock has forgotten *)
(* it.                                                                       *)
ToldStaysTrue == told # "open" /\ "restarted" \notin past => mapState[adapter][stage] = told

SubmittedOnce == MadeOnce /\ ToldStaysTrue
=============================================================================
