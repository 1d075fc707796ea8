----------------------------- MODULE WorkerPool -----------------------------
(* jobs/worker.ts composed with the queue: worker pools, each in a process   *)
(* of its own, that claim jobs and run their handlers, and HTTP servers that *)
(* enqueue, cancel and retry jobs.                                           *)
(*                                                                           *)
(* A handler is asynchronous code outside these files: between two of its    *)
(* awaits anything may happen, and it ends by returning, throwing or parking *)
(* the job.  A pool id is drawn afresh whenever a process starts, so a       *)
(* restart is the start of another element of Worker.                        *)
EXTENDS JobQueue

CONSTANT Concurrency
ASSUME PoolAssumption == Concurrency \in Nat \ {0}

VARIABLES
  pool,         \* the life of each pool
  runs          \* the run() calls in flight, over all pools

vars == <<now, jobs, stmt, pool, runs>>

(* "dead" pools were killed; "rejected" ones died of a promise rejection     *)
(* nobody handled, which ends a Node process.                                *)
PoolState == {"new", "up", "stopped", "dead", "rejected"}

(* started is the claim's time, aborted the state of the run's AbortSignal,  *)
(* awaited says that stop() handles the run's rejection.                     *)
Run == [worker: Worker, job: Job, claim: Nat, started: Nat,
        aborted: BOOLEAN, awaited: BOOLEAN]

TypeOK ==
  /\ QueueTypeOK
  /\ pool \in [Worker -> PoolState]
  /\ runs \subseteq Run

RunsOf(w) == {r \in runs : r.worker = w}
Alive(w) == pool[w] \in {"up", "stopped"}

Init ==
  /\ QueueInit
  /\ pool = [w \in Worker |-> "new"]
  /\ runs = {}

-----------------------------------------------------------------------------
(* The pool                                                                  *)

Start(w) ==
  /\ pool[w] = "new"
  /\ pool' = [pool EXCEPT ![w] = "up"]
  /\ reclaimExpired
  /\ UNCHANGED <<now, stmt, runs>>

(* Mutant of TickClaim: an off-by-one in the capacity test.                  *)
TickClaimOneMore(w) ==
  /\ pool[w] = "up"
  /\ Cardinality(RunsOf(w)) <= Concurrency
  /\ ClaimSelect(w)
  /\ UNCHANGED <<pool, runs>>

(* tick: one more claim while capacity lasts.                                *)
TickClaim(w) ==
  /\ pool[w] = "up"
  /\ Cardinality(RunsOf(w)) < Concurrency
  /\ ClaimSelect(w)
  /\ UNCHANGED <<pool, runs>>

NewRun(w) ==
  [worker |-> w, job |-> stmt[w].job, claim |-> jobs[stmt[w].job].claims + 1,
   started |-> stmt[w].at, aborted |-> FALSE, awaited |-> FALSE]

TickRun(w) ==
  /\ ClaimUpdate(w)
  /\ runs' = IF ClaimGuard(w) THEN runs \cup {NewRun(w)} ELSE runs
  /\ UNCHANGED pool

(* stop(): the timers go, and the runs in flight are awaited.                *)
Stop(w) ==
  /\ pool[w] = "up" /\ stmt[w] = Idle
  /\ pool' = [pool EXCEPT ![w] = "stopped"]
  /\ runs' = (runs \ RunsOf(w)) \cup {[r EXCEPT !.awaited = TRUE] : r \in RunsOf(w)}
  /\ UNCHANGED queueVars

(* The end of the process: its runs and its pending statement vanish.        *)
Die(w, how) ==
  /\ pool' = [pool EXCEPT ![w] = how]
  /\ runs' = runs \ RunsOf(w)
  /\ stmt' = [stmt EXCEPT ![w] = Idle]
  /\ UNCHANGED <<now, jobs>>

Kill(w) == Alive(w) /\ Die(w, "dead")

-----------------------------------------------------------------------------
(* run()                                                                     *)

Running(r) == r \in runs /\ stmt[r.worker] = Idle

EndRun(r) == runs' = runs \ {r} /\ UNCHANGED pool

(* setTimeout(() => controller.abort(), job.timeoutMs)                       *)
Abort(r) ==
  /\ ~r.aborted /\ now >= r.started + Timeout
  /\ runs' = (runs \ {r}) \cup {[r EXCEPT !.aborted = TRUE]}
  /\ UNCHANGED <<now, jobs, stmt, pool>>

HandlerHeartbeat(r) ==
  /\ Running(r)
  /\ Heartbeat(r.worker, r.job)
  /\ UNCHANGED <<pool, runs>>

(* Mutant of Reject: void run(...).catch(() => {}).                          *)
RejectSwallowed(r) == EndRun(r) /\ UNCHANGED queueVars

(* A conflict thrown by fail() leaves the catch block: run() rejects.        *)
Reject(r) ==
  IF r.awaited THEN EndRun(r) /\ UNCHANGED queueVars
               ELSE Die(r.worker, "rejected")

(* The catch block: a timed-out run is always reported as retryable.         *)
FailRun(r, retryable) ==
  LET again == r.aborted \/ retryable
  IN \/ Fail(r.worker, r.job, again) /\ EndRun(r)
     \/ ~CanFail(r.job, again) /\ Reject(r)

(* complete() sits inside the try: its conflict, which is not retryable, is  *)
(* handed to fail().                                                         *)
HandlerReturns(r) ==
  /\ Running(r)
  /\ \/ Complete(r.worker, r.job) /\ EndRun(r)
     \/ ~CanComplete(r.job) /\ FailRun(r, FALSE)

(* The handler throws; a missing handler fails the job without retry.        *)
HandlerThrows(r) ==
  /\ Running(r)
  /\ \E retryable \in BOOLEAN : FailRun(r, retryable)

(* awaitExternal sets parked before markSubmitted, so a conflict there ends  *)
(* the run just as quietly as a parked job does.                             *)
HandlerParks(r) ==
  /\ Running(r)
  /\ EndRun(r)
  /\ \/ \E ref \in Ref : MarkSubmitted(r.worker, r.job, ref)
     \/ ~CanPark(r.job) /\ UNCHANGED queueVars

UpdateOf(p) == Update(p) /\ UNCHANGED <<pool, runs>>

-----------------------------------------------------------------------------
(* The HTTP side                                                             *)

ApiCall(p) ==
  /\ \/ \E k \in Key \cup {NoKey} : Enqueue(p, k)
     \/ EnqueueInsert(p)
     \/ \E j \in Job : Cancel(p, j) \/ Retry(p, j)
  /\ UNCHANGED <<pool, runs>>

TickClock == Tick /\ UNCHANGED <<pool, runs>>

-----------------------------------------------------------------------------
PoolStep(w) == Start(w) \/ TickClaim(w) \/ TickRun(w) \/ Stop(w) \/ Kill(w)
RunStep(r) ==
  Abort(r) \/ HandlerHeartbeat(r) \/ HandlerReturns(r) \/ HandlerThrows(r) \/ HandlerParks(r)

Next ==
  \/ \E w \in Worker : PoolStep(w)
  \/ \E r \in runs : RunStep(r)
  \/ \E p \in Proc : UpdateOf(p)
  \/ \E p \in Api : ApiCall(p)
  \/ TickClock

Spec == Init /\ [][Next]_vars
-----------------------------------------------------------------------------
(* Fairness: setInterval keeps ticking, a prepared statement is executed     *)
(* without a pause, and the handlers end.  Nothing makes a pool start, stop  *)
(* or die, or an operator act.                                               *)
HandlerEnds(w, j) ==
  \E r \in runs : /\ r.worker = w /\ r.job = j
                  /\ HandlerReturns(r) \/ HandlerThrows(r) \/ HandlerParks(r)

Fairness ==
  /\ WF_vars(TickClock)
  /\ \A p \in Proc : WF_vars(UpdateOf(p))
  /\ \A w \in Worker : WF_vars(TickClaim(w)) /\ WF_vars(TickRun(w))
  /\ \A w \in Worker, j \in Job : WF_vars(HandlerEnds(w, j))

FairSpec == Spec /\ Fairness

-----------------------------------------------------------------------------
(* Safety                                                                    *)

(* A row is running exactly while it carries a lease: whatever statements    *)
(* processes interleave, no row is left running with nothing to expire       *)
(* (reclaimExpired would never see it) or claimable while it is leased.      *)
LeaseIffRunning ==
  \A j \in Job :
    /\ (jobs[j].status = "running") <=> (jobs[j].lockedBy # NoWorker)
    /\ (jobs[j].status = "running") <=> (jobs[j].lockedUntil # NULL)

(* What the job centre and the poller rely on: a failed row is dead-lettered *)
(* and a submitted one still names the provider's own id.                    *)
FailedIsVisible == \A j \in Job : jobs[j].status = "failed" => jobs[j].deadLettered
SubmittedHasRef ==
  \A j \in Job : jobs[j].status = "submitted" => jobs[j].ref # NoRef

RowDiscipline == LeaseIffRunning /\ FailedIsVisible /\ SubmittedHasRef

(* While a lease is live its job is not handed out again, although a claim   *)
(* selects and updates in two statements and another process may claim in    *)
(* between: the comment above claim() in jobs/queue.ts.                      *)
LiveLease(j) == jobs[j].status = "running" /\ jobs[j].lockedUntil > now
LiveLeaseExclusive ==
  [][\A j \in Job : LiveLease(j) => jobs'[j].claims = jobs[j].claims]_vars

(* A pool that is up never loses track of a job it holds: the run that       *)
(* claimed it is in flight, or its last statement is about to be executed.   *)
(* Every way a run can end (result, error, timeout, parking, conflict) has   *)
(* to leave the row settled or take the pool down with it.                   *)
NoOrphanUnderLivePool ==
  \A j \in Job, w \in Worker :
    jobs[j].lockedBy = w /\ pool[w] = "up" =>
      \/ \E r \in RunsOf(w) : r.job = j /\ r.claim = jobs[j].claims
      \/ stmt[w] # Idle /\ stmt[w].job = j

(* concurrency bounds the runs of a pool, claimed but unfinished ones too.   *)
WithinConcurrency == \A w \in Worker : Cardinality(RunsOf(w)) <= Concurrency

(* A provider's id, once recorded, survives lease expiry, failure, cancel    *)
(* and retry unchanged, so that a later run can poll instead of submitting   *)
(* again.  It goes only when the job completes, or when a run of the job,    *)
(* perhaps a stale one, parks it with an id of its own (queue.ts:205-210     *)
(* replaces result whatever it held).                                        *)
RefSurvives ==
  [][\A j \in Job :
       jobs[j].ref # NoRef /\ jobs'[j].ref # jobs[j].ref =>
         \/ jobs'[j].status = "completed"
         \/ /\ jobs'[j].status = "submitted"
            /\ \E p \in Proc : /\ Pending(p, "park") /\ stmt[p].job = j
                              /\ stmt[p].ref = jobs'[j].ref]_vars

(* The unique index and both lookups of enqueue: one row per key, for ever.  *)
KeyNamesOneJob ==
  [][\A i, j \in Job :
       /\ jobs'[i].key = jobs'[j].key /\ jobs'[i].key # NoKey => i = j
       /\ jobs[i].key # NoKey => jobs'[i].key = jobs[i].key]_vars

(* The table, read as leases, behaves as JobLease allows.                    *)
NoLease == [by |-> NoWorker, until |-> NULL]
leaseOf == [j \in Job |-> [by |-> jobs[j].lockedBy, until |-> jobs[j].lockedUntil]]
Lease == INSTANCE JobLease WITH lease <- leaseOf
ImplementsLease == Lease!LeaseSpec

(* Liveness                                                                  *)

(* If some pool stays up, a queued job that is due (and has claims left in   *)
(* the bound) waits only behind jobs that go before it: sooner or later it   *)
(* is claimed or cancelled, or one that ORDER BY does not put after it runs. *)
(* Triggered again while the job waits, this leaves one way to starve: a     *)
(* stream of such jobs without end, which nothing in claim() prevents, for   *)
(* there is no aging (queue.ts:133).  Nothing else keeps a due job waiting:  *)
(* neither a slot that a timeout, a parking or a conflict fails to give      *)
(* back, nor a job that comes after it, nor a row no SELECT finds.           *)
Due(j) == jobs[j].status = "queued" /\ jobs[j].runAt <= now /\ jobs[j].claims < MaxClaims
Overtaken(j) ==
  \E i \in Job \ {j} : jobs[i].status = "running" /\ ~Before(j, i)
QueuedIsServed ==
  (\E w \in Worker : <>[](pool[w] = "up")) =>
    \A j \in Job : Due(j) ~> (~Due(j) \/ Overtaken(j))

(* A job a pool holds is eventually settled, unless the pool stops or dies   *)
(* first.                                                                    *)
HeldIsSettled ==
  \A j \in Job, w \in Worker :
    jobs[j].lockedBy = w ~> (jobs[j].lockedBy # w \/ pool[w] # "up")

-----------------------------------------------------------------------------
(* What a comment in the code says and its behaviour contradicts             *)

(* queue.ts:213-217: a failure is recorded - the job is retried or dead-     *)
(* lettered - so a pool never ends over a failure with the job still its own.*)
FailureIsRecorded ==
  \A j \in Job, w \in Worker : pool[w] = "rejected" => jobs[j].lockedBy # w
=============================================================================
