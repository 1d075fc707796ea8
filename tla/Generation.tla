----------------------------- MODULE Generation -----------------------------
(* services/generation.ts: renders of one brief at a media provider.         *)
(* submit() enqueues a job; the runs of a job call performSubmission() the   *)
(* first time and pollAndCollect() after that, and settle the job by what    *)
(* these return.  The queue appears as the status of each job; that a run    *)
(* may go on after its job was given to another one is what WorkerPool       *)
(* shows of expired leases and restarts.  The worker that would register     *)
(* these handlers is not in the repository: claiming, parking and settling   *)
(* follow the comments of the two methods.  Every submission of a job bears  *)
(* its idempotency key; the mock provider answers a key it knows with the    *)
(* render it has, WaveSpeed is only asked to (a header), so both kinds of    *)
(* provider are looked at.                                                   *)
EXTENDS JobTransitions, FiniteSets

CONSTANTS
  Job,          \* ids for jobs
  Runner,       \* slots for run() calls
  Variant,      \* the outputs of one render
  Limit,        \* generations of the character in the hour
  MaxClaims     \* bound: how often one job is claimed

ASSUME GenerationAssumption == Limit \in Nat /\ MaxClaims \in Nat

VARIABLES
  used,         \* the rate counter of the character
  brief,        \* the brief's status
  jobs,         \* status of each job, and how often it was claimed
  heeds,        \* whether the provider knows keys again
  renders,      \* what the provider has accepted: by job, and by the claim
                \* of it that asked for it
  generation,   \* the rows of generation_jobs
  outputs,      \* the variants that have rows in generation_outputs
  skipped,      \* history: variants whose bytes could not be had
  announced,    \* jobs with a generation.completed event
  costs,        \* how many cost_records a job has
  runs,         \* what each slot is doing
  cancelling,   \* jobs whose cancel() waits for the provider
  faults,       \* history: jobs with a crash or a lost answer
  overlapped    \* history: jobs two runs were submitting at once

results == <<outputs, skipped, announced, costs>>
history == <<faults, overlapped>>
vars == <<used, brief, jobs, heeds, renders, generation, results, runs, cancelling, history>>

Render == Job \X (1..MaxClaims)
NoRender == <<>>
RenderState == {"unknown", "rendering", "completed", "failed", "cancelled"}
(* Of the statuses of a brief, those these operations give it.               *)
BriefStatus == {"draft", "queued", "generated", "deleted"}
(* At most one row per job, which keeps the provider's id of the render.     *)
GenerationRow == Render \cup {NoRender}
(* A row per stored output; a row per cost of a completed run.               *)
OutputRows == SUBSET Variant
CostRecords == Nat
Idle == [step |-> "idle"]
Run ==
  {Idle} \cup [step: {"submitting"}, job: Job, render: Render]
         \cup [step: {"accepted"}, job: Job, render: Render]
         \cup [step: {"polling"}, job: Job]
         \cup [step: {"collecting"}, job: Job, todo: SUBSET Variant]

TypeOK ==
  /\ used \in 0..Limit
  /\ brief \in BriefStatus
  /\ jobs \in [Job -> [status: JobStatus \cup {"absent"}, claims: 0..MaxClaims]]
  /\ heeds \in BOOLEAN
  /\ renders \in [Render -> RenderState]
  /\ generation \in [Job -> GenerationRow]
  /\ outputs \in [Job -> OutputRows] /\ skipped \in [Job -> SUBSET Variant]
  /\ costs \in [Job -> CostRecords]
  /\ announced \subseteq Job /\ cancelling \subseteq Job
  /\ faults \subseteq Job /\ overlapped \subseteq Job
  /\ runs \in [Runner -> Run]

Init ==
  /\ used = 0 /\ brief = "draft"
  /\ jobs = [j \in Job |-> [status |-> "absent", claims |-> 0]]
  /\ heeds \in BOOLEAN
  /\ renders = [x \in Render |-> "unknown"]
  /\ generation = [j \in Job |-> NoRender]
  /\ outputs = [j \in Job |-> {}] /\ skipped = [j \in Job |-> {}]
  /\ costs = [j \in Job |-> 0]
  /\ announced = {} /\ cancelling = {} /\ faults = {} /\ overlapped = {}
  /\ runs = [r \in Runner |-> Idle]

Step(r, new) == runs' = [runs EXCEPT ![r] = new]
(* An illegal move is a conflict, and the row stays.                         *)
Move(j, to) ==
  jobs' = IF canTransitionJob(jobs[j].status, to)
          THEN [jobs EXCEPT ![j].status = to] ELSE jobs

-----------------------------------------------------------------------------
(* The HTTP side                                                             *)

(* Mutant of UnderLimit: one more than the limit.                            *)
UnderLimitLate == used <= Limit
(* rateLimiter.require() has not refused.                                    *)
UnderLimit == used < Limit

(* The counter goes up before the router is asked; it may have no provider.  *)
submit(j) ==
  /\ brief # "deleted" /\ UnderLimit /\ jobs[j].status = "absent"
  /\ used' = used + 1
  /\ \/ /\ jobs' = [jobs EXCEPT ![j].status = "queued"]
        /\ brief' = "queued"
     \/ UNCHANGED <<jobs, brief>>
  /\ UNCHANGED <<heeds, renders, generation, results, runs, cancelling, history>>

deleteBrief ==
  /\ brief # "deleted" /\ brief' = "deleted"
  /\ UNCHANGED <<used, jobs, heeds, renders, generation, results, runs, cancelling, history>>

(* A failed job is queued again by hand (JobQueue.retry).                    *)
RetryJob(j) ==
  /\ jobs[j].status = "failed" /\ Move(j, "queued")
  /\ UNCHANGED <<used, brief, heeds, renders, generation, results, runs, cancelling, history>>

cancel(j) ==
  /\ jobs[j].status # "absent" /\ j \notin cancelling
  /\ cancelling' = cancelling \cup {j}
  /\ UNCHANGED <<used, brief, jobs, heeds, renders, generation, results, runs, history>>

(* The provider has cancelled, or not; then the job is, if it still can be.  *)
EndCancel(j) ==
  /\ j \in cancelling /\ cancelling' = cancelling \ {j}
  /\ \/ /\ generation[j] # NoRender /\ renders[generation[j]] = "rendering"
        /\ renders' = [renders EXCEPT ![generation[j]] = "cancelled"]
     \/ UNCHANGED renders
  /\ Move(j, "cancelled")
  /\ UNCHANGED <<used, brief, heeds, generation, results, runs, history>>

-----------------------------------------------------------------------------
(* performSubmission                                                         *)

(* Mutant of KeyOf: a key per attempt.                                       *)
KeyPerAttempt(x) == x
(* The key a render is asked for under: one per job, whatever run asks.      *)
KeyOf(x) == x[1]

(* Mutant of Unrecorded: a retried job is submitted whatever became of it.   *)
UnrecordedOrNot(j) == TRUE
(* A job with a row of generation_jobs has been submitted, and is polled.    *)
Unrecorded(j) == generation[j] = NoRender

Submitting(j) == {r \in Runner : /\ runs[r].step \in {"submitting", "accepted"}
                                 /\ runs[r].job = j}

(* A brief that was deleted makes briefRepo.get() throw before anything.     *)
Claim(r, j) ==
  /\ runs[r] = Idle /\ jobs[j].claims < MaxClaims
  /\ jobs[j].status \in {"queued", "submitted"}
  /\ LET throws == Unrecorded(j) /\ brief = "deleted"
         submits == Unrecorded(j) /\ ~throws
         n == jobs[j].claims + 1
     IN /\ jobs' = [jobs EXCEPT ![j] =
             [status |-> IF throws THEN "failed" ELSE "running", claims |-> n]]
        /\ Step(r, IF throws THEN Idle
                   ELSE IF submits THEN [step |-> "submitting", job |-> j, render |-> <<j, n>>]
                   ELSE [step |-> "polling", job |-> j])
        /\ overlapped' = IF submits /\ Submitting(j) # {} THEN overlapped \cup {j}
                                                         ELSE overlapped
  /\ UNCHANGED <<used, brief, heeds, renders, generation, results, cancelling, faults>>

Accepted(j) == {x \in Render : x[1] = j /\ renders[x] # "unknown"}
(* Renders under the key of x.                                               *)
Known(x) == {y \in Render : renders[y] # "unknown" /\ KeyOf(y) = KeyOf(x)}

(* The provider begins, and bills, a render; if it knows the key again, it   *)
(* answers with the one it has.  The answer may get lost, as a timeout or as *)
(* an answer without an id.                                                  *)
Accept(r) ==
  LET run == runs[r]
  IN /\ run.step = "submitting"
     /\ \E x \in IF heeds /\ Known(run.render) # {} THEN Known(run.render) ELSE {run.render} :
          /\ renders' = [renders EXCEPT ![x] = IF @ = "unknown" THEN "rendering" ELSE @]
          /\ \/ /\ Step(r, [step |-> "accepted", job |-> run.job, render |-> x])
                /\ UNCHANGED <<jobs, faults>>
             \/ /\ Step(r, Idle) /\ Move(run.job, "failed")
                /\ faults' = faults \cup {run.job}
     /\ UNCHANGED <<used, brief, heeds, generation, results, cancelling, overlapped>>

(* Nothing was accepted; no error of a submission is retried.                *)
Refuse(r) ==
  /\ runs[r].step = "submitting"
  /\ Step(r, Idle) /\ Move(runs[r].job, "failed")
  /\ UNCHANGED <<used, brief, heeds, renders, generation, results, cancelling, history>>

(* Mutant of Record: what was cancelled meanwhile needs no row.              *)
RecordRunning(r) ==
  LET run == runs[r]
      taken == generation[run.job] # NoRender \/ jobs[run.job].status = "cancelled"
  IN /\ run.step = "accepted"
     /\ generation' = IF taken THEN generation ELSE [generation EXCEPT ![run.job] = run.render]
     /\ Move(run.job, IF taken THEN "failed" ELSE "submitted")
     /\ Step(r, Idle)
     /\ UNCHANGED <<used, brief, heeds, renders, results, cancelling, history>>

(* The row of generation_jobs; a second one for the job is refused, and the  *)
(* run fails.  Otherwise the worker parks the job on the handle.             *)
Record(r) ==
  LET run == runs[r]
      taken == generation[run.job] # NoRender
  IN /\ run.step = "accepted"
     /\ generation' = IF taken THEN generation ELSE [generation EXCEPT ![run.job] = run.render]
     /\ Move(run.job, IF taken THEN "failed" ELSE "submitted")
     /\ Step(r, Idle)
     /\ UNCHANGED <<used, brief, heeds, renders, results, cancelling, history>>

-----------------------------------------------------------------------------
(* pollAndCollect                                                            *)

Poll(r) ==
  LET j == runs[r].job
      state == renders[generation[j]]
  IN /\ runs[r].step = "polling"
     /\ CASE state = "rendering" -> Step(r, Idle) /\ Move(j, "submitted")
          [] state = "completed" ->
               Step(r, [step |-> "collecting", job |-> j, todo |-> Variant]) /\ UNCHANGED jobs
          [] OTHER -> Step(r, Idle) /\ Move(j, "failed")
     /\ UNCHANGED <<used, brief, heeds, renders, generation, results, cancelling, history>>

(* One output: its bytes are downloaded and stored and its row inserted, or  *)
(* they cannot be had and it is passed over.                                 *)
Collect(r, v) ==
  LET j == runs[r].job
  IN /\ runs[r].step = "collecting" /\ v \in runs[r].todo
     /\ Step(r, [runs[r] EXCEPT !.todo = @ \ {v}])
     /\ \/ outputs' = [outputs EXCEPT ![j] = @ \cup {v}] /\ UNCHANGED skipped
        \/ skipped' = [skipped EXCEPT ![j] = @ \cup {v}] /\ UNCHANGED outputs
     /\ UNCHANGED <<used, brief, jobs, heeds, renders, generation, announced, costs,
                    cancelling, history>>

(* The poll, a download or the storage throws: the rows so far stay.         *)
Throw(r) ==
  /\ runs[r].step \in {"polling", "collecting"}
  /\ Step(r, Idle) /\ Move(runs[r].job, "failed")
  /\ UNCHANGED <<used, brief, heeds, renders, generation, results, cancelling, history>>

(* Mutant of Announce: it does not wait for the last outputs.                *)
AnnounceEarly(r) ==
  LET j == runs[r].job
  IN /\ runs[r].step = "collecting"
     /\ brief' = IF brief = "deleted" THEN brief ELSE "generated"
     /\ announced' = announced \cup {j}
     /\ costs' = [costs EXCEPT ![j] = @ + 1]
     /\ Move(j, "completed")
     /\ Step(r, Idle)
     /\ UNCHANGED <<used, heeds, renders, generation, outputs, skipped, cancelling, history>>

(* The cost record, the brief, the event, and the end of the run.            *)
Announce(r) ==
  LET j == runs[r].job
  IN /\ runs[r].step = "collecting" /\ runs[r].todo = {}
     /\ brief' = IF brief = "deleted" THEN brief ELSE "generated"
     /\ announced' = announced \cup {j}
     /\ costs' = [costs EXCEPT ![j] = @ + 1]
     /\ Move(j, "completed")
     /\ Step(r, Idle)
     /\ UNCHANGED <<used, heeds, renders, generation, outputs, skipped, cancelling, history>>

-----------------------------------------------------------------------------
(* The provider and the processes                                            *)

EndRender(x) ==
  /\ renders[x] = "rendering"
  /\ \E state \in {"completed", "failed"} : renders' = [renders EXCEPT ![x] = state]
  /\ UNCHANGED <<used, brief, jobs, heeds, generation, results, runs, cancelling, history>>

Crash(r) ==
  /\ runs[r] # Idle
  /\ Step(r, Idle)
  /\ faults' = faults \cup {runs[r].job}
  /\ UNCHANGED <<used, brief, jobs, heeds, renders, generation, results, cancelling, overlapped>>

(* A pool that starts finds the lease expired; the run may be alive.         *)
Reclaim(j) ==
  /\ jobs[j].status = "running"
  /\ jobs' = [jobs EXCEPT ![j].status = "queued"]
  /\ UNCHANGED <<used, brief, heeds, renders, generation, results, runs, cancelling, history>>

Next ==
  \/ deleteBrief
  \/ \E j \in Job : submit(j) \/ RetryJob(j) \/ cancel(j) \/ EndCancel(j) \/ Reclaim(j)
  \/ \E r \in Runner, j \in Job : Claim(r, j)
  \/ \E r \in Runner : Accept(r) \/ Refuse(r) \/ Record(r) \/ Poll(r) \/ Throw(r)
                         \/ Announce(r) \/ Crash(r)
  \/ \E r \in Runner, v \in Variant : Collect(r, v)
  \/ \E x \in Render : EndRender(x)

Spec == Init /\ [][Next]_vars

-----------------------------------------------------------------------------
(* However often a job is claimed, reclaimed, retried and run twice at once, *)
(* the provider renders, and bills, it once if it knows keys again.  If it   *)
(* does not, it bills a job again only after an answer was lost or a process *)
(* died before the row was written, or when a job whose lease ran out was    *)
(* submitted by two runs at once: never, say, because it was cancelled,      *)
(* retried, or failed to be polled.                                          *)
BilledOnce ==
  \A j \in Job : Cardinality(Accepted(j)) <= 1 \/ (~heeds /\ j \in faults \cup overlapped)

(* A render the provider has accepted can be polled: the job's row names it, *)
(* or a run is about to write that row.  Only a crash or a lost answer, or   *)
(* two submissions at once to a provider that does not know keys again,      *)
(* leaves a billed render that nothing points to.                            *)
Excused == faults \cup (IF heeds THEN {} ELSE overlapped)
RenderIsTracked ==
  \A j \in Job \ Excused : \A x \in Accepted(j) :
    \/ generation[j] = x
    \/ \E r \in Submitting(j) : runs[r].step = "accepted" /\ runs[r].render = x

(* A job is completed, and said to be, only when each output of its render   *)
(* was stored or could not be had, in whatever parts its runs came to them.  *)
Delivered ==
  \A j \in Job : jobs[j].status = "completed" \/ j \in announced =>
    j \in announced /\ outputs[j] \cup skipped[j] = Variant
=============================================================================
