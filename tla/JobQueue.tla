------------------------------ MODULE JobQueue ------------------------------
(* jobs/queue.ts: one durable table of jobs, claimed by lease.               *)
(*                                                                           *)
(* Every method of JobQueue is synchronous, so inside one process it runs    *)
(* without interruption; but several processes (the HTTP server, worker      *)
(* pools) may share the database file, and a method that reads a row and     *)
(* then updates it is two SQL statements.  The module therefore splits such  *)
(* a method in two: its reading half decides on an UPDATE or INSERT and      *)
(* leaves it in stmt[p]; its writing half executes it.  While stmt[p] is     *)
(* pending, process p does nothing else.  The consecutive reads of one       *)
(* method are one step.                                                      *)
EXTENDS JobTransitions, FiniteSets

CONSTANTS
  Job,          \* row ids the table may come to hold
  Key,          \* idempotency keys
  NoKey,
  Worker,       \* ids of worker pools; a restarted process has a new id
  NoWorker,
  Api,          \* processes that serve the HTTP API
  Ref,          \* the ids a provider may give a submission: externalRef
  NoRef,
  Priority,     \* [Job -> Int]: the priority a row is inserted with
  MaxAttempts,  \* maxAttempts of every row
  Timeout,      \* timeoutMs of every row
  Grace,        \* the 30 s claim adds to timeoutMs
  Extra,        \* extraMs of heartbeat
  PollDelay,    \* pollDelayMs of markSubmitted
  BackoffBase, BackoffCap,
  Delay,        \* the delays an enqueue may ask for
  MaxTime,      \* bound: the clock stops here
  MaxClaims     \* bound: how often one row may be claimed

Proc == Worker \cup Api
NULL == -1

ASSUME QueueAssumption ==
  /\ NoWorker \notin Worker /\ NoKey \notin Key /\ NoRef \notin Ref
  /\ Worker \cap Api = {}
  /\ Priority \in [Job -> Int]
  /\ MaxAttempts \in Nat \ {0} /\ MaxClaims \in Nat /\ MaxTime \in Nat
  /\ Timeout \in Nat /\ Grace \in Nat \ {0} /\ Extra \in Nat /\ PollDelay \in Nat
  /\ BackoffBase \in Nat \ {0} /\ BackoffCap \in Nat \ {0}
  /\ Delay \subseteq Nat

VARIABLES
  now,          \* the clock
  jobs,         \* the table: one row per job id
  stmt          \* the statement a process is about to execute

queueVars == <<now, jobs, stmt>>

(* "absent" marks an id no row has yet.  claims numbers the claims of a row  *)
(* (the code counts them, with other writes, in the version column), ref is  *)
(* the externalRef result holds.                                             *)
Row == [status: JobStatus \cup {"absent"}, key: Key \cup {NoKey},
        attempts: Nat, claims: Nat, runAt: Nat,
        lockedBy: Worker \cup {NoWorker}, lockedUntil: Nat \cup {NULL},
        deadLettered: BOOLEAN, ref: Ref \cup {NoRef}]

AbsentRow == [status |-> "absent", key |-> NoKey, attempts |-> 0, claims |-> 0,
              runAt |-> 0, lockedBy |-> NoWorker, lockedUntil |-> NULL,
              deadLettered |-> FALSE, ref |-> NoRef]

Idle == [op |-> "none"]
RowOp == {"claim", "complete", "park", "requeue", "deadLetter", "cancel", "retry"}
Stmt == {Idle} \cup [op: RowOp \ {"park"}, job: Job, at: Nat]
               \cup [op: {"park"}, job: Job, at: Nat, ref: Ref]
               \cup [op: {"insert"}, key: Key \cup {NoKey}, at: Nat]

QueueTypeOK ==
  /\ now \in Nat
  /\ jobs \in [Job -> Row]
  /\ stmt \in [Proc -> Stmt]

QueueInit ==
  /\ now = 0
  /\ jobs = [j \in Job |-> AbsentRow]
  /\ stmt = [p \in Proc |-> Idle]

-----------------------------------------------------------------------------
(* Statements                                                                *)

Exists(j) == jobs[j].status # "absent"
Pending(p, op) == stmt[p].op = op
Prepare(p, s) == stmt[p] = Idle /\ stmt' = [stmt EXCEPT ![p] = s]
Finish(p) == stmt' = [stmt EXCEPT ![p] = Idle]
(* Mutant of Unlocked: SQL's lockedUntil <= t without the IS NULL branch.    *)
UnlockedNotNull(row, t) == row.lockedUntil # NULL /\ row.lockedUntil <= t
Unlocked(row, t) == row.lockedUntil = NULL \/ row.lockedUntil <= t

(* Mutant of Released: the patch forgets lockedUntil.                        *)
ReleasedHalf(row, to) == [row EXCEPT !.status = to, !.lockedBy = NoWorker]

(* The row transition(j, to, patch) leaves behind; every patch of the class  *)
(* releases the lease.                                                       *)
Released(row, to) ==
  [row EXCEPT !.status = to, !.lockedBy = NoWorker, !.lockedUntil = NULL]

Claimed(row, w, at) ==
  [row EXCEPT !.status = "running", !.lockedBy = w,
              !.lockedUntil = at + Timeout + Grace,
              !.attempts = @ + 1, !.claims = @ + 1]
Completed(row) == [Released(row, "completed") EXCEPT !.ref = NoRef]
(* Mutant of Parked: a parked run gives its attempt back.                    *)
ParkedUncounted(row, at, ref) ==
  [Released(row, "submitted") EXCEPT !.runAt = at, !.ref = ref,
                                     !.attempts = @ - 1]
(* result is replaced as a whole, whatever id it held before.                *)
Parked(row, at, ref) ==
  [Released(row, "submitted") EXCEPT !.runAt = at, !.ref = ref]
Requeued(row, runAt) == [Released(row, "queued") EXCEPT !.runAt = runAt]
DeadLettered(row) == [Released(row, "failed") EXCEPT !.deadLettered = TRUE]
(* Mutant of Retried: the retry starts from a clean result.                  *)
RetriedClean(row, at) ==
  [Released(row, "queued") EXCEPT !.runAt = at, !.attempts = 0,
                                  !.deadLettered = FALSE, !.ref = NoRef]
Retried(row, at) ==
  [Released(row, "queued") EXCEPT !.runAt = at, !.attempts = 0,
                                  !.deadLettered = FALSE]

-----------------------------------------------------------------------------
(* enqueue                                                                   *)

Enqueue(p, k) ==
  /\ \E j \in Job : ~Exists(j)        \* bound: Job is a finite supply of ids
  /\ k # NoKey => \A j \in Job : jobs[j].key # k
  /\ Prepare(p, [op |-> "insert", key |-> k, at |-> now])
  /\ UNCHANGED <<now, jobs>>

(* Mutant of EnqueueInsert: no unique index, the earlier lookup has to do.   *)
EnqueueInsertUnindexed(p) ==
  /\ Pending(p, "insert")
  /\ \E j \in Job, d \in Delay :
       /\ ~Exists(j)
       /\ jobs' = [jobs EXCEPT ![j] =
            [AbsentRow EXCEPT !.status = "queued", !.key = stmt[p].key,
                              !.runAt = stmt[p].at + d]]
  /\ Finish(p)
  /\ UNCHANGED now

(* The unique index (workspaceId, idempotencyKey) turns an insert that lost  *)
(* the race into a read of the winner.                                       *)
EnqueueInsert(p) ==
  /\ Pending(p, "insert")
  /\ LET k == stmt[p].key
     IN \/ /\ k = NoKey \/ \A j \in Job : jobs[j].key # k
           /\ \E j \in Job, d \in Delay :
                /\ ~Exists(j)
                /\ jobs' = [jobs EXCEPT ![j] =
                     [AbsentRow EXCEPT !.status = "queued", !.key = k,
                                       !.runAt = stmt[p].at + d]]
        \/ /\ k # NoKey /\ \E j \in Job : jobs[j].key = k
           /\ UNCHANGED jobs
  /\ Finish(p)
  /\ UNCHANGED now

-----------------------------------------------------------------------------
(* claim: one iteration of its loop                                          *)

Claimable(j, t) ==
  /\ jobs[j].status \in {"queued", "submitted"}
  /\ jobs[j].runAt <= t
  /\ Unlocked(jobs[j], t)
  /\ jobs[j].claims < MaxClaims

(* ORDER BY priority DESC, runAt ASC                                         *)
Before(i, j) ==
  \/ Priority[i] > Priority[j]
  \/ Priority[i] = Priority[j] /\ jobs[i].runAt < jobs[j].runAt

ClaimSelect(w) ==
  /\ \E j \in Job :
       /\ Claimable(j, now)
       /\ \A i \in Job : Claimable(i, now) => ~Before(i, j)
       /\ Prepare(w, [op |-> "claim", job |-> j, at |-> now])
  /\ UNCHANGED <<now, jobs>>

(* Mutant of ClaimGuard: the UPDATE matches on the id alone.                 *)
ClaimUnguarded(w) == TRUE

(* The UPDATE's own WHERE clause; it does not repeat the status test.        *)
ClaimGuard(w) == Unlocked(jobs[stmt[w].job], stmt[w].at)

ClaimUpdate(w) ==
  /\ Pending(w, "claim")
  /\ jobs' = IF ClaimGuard(w)
             THEN [jobs EXCEPT ![stmt[w].job] = Claimed(@, w, stmt[w].at)]
             ELSE jobs
  /\ Finish(w)
  /\ UNCHANGED now

-----------------------------------------------------------------------------
(* heartbeat and reclaimExpired are single UPDATEs                           *)

Heartbeat(w, j) ==
  /\ jobs[j].lockedBy = w
  /\ jobs' = [jobs EXCEPT ![j].lockedUntil = now + Extra]
  /\ UNCHANGED <<now, stmt>>

(* Mutant of Reclaimed: every running row is taken to be abandoned.          *)
ReclaimedAll(row) ==
  IF row.status = "running" THEN Released(row, "queued") ELSE row

(* version and attempts are left alone, and maxAttempts is not consulted.    *)
Reclaimed(row) ==
  IF row.status = "running" /\ row.lockedUntil # NULL /\ row.lockedUntil <= now
  THEN Released(row, "queued") ELSE row
reclaimExpired == jobs' = [j \in Job |-> Reclaimed(jobs[j])]

-----------------------------------------------------------------------------
(* complete, markSubmitted, fail, cancel, retry: the reading halves.  Each   *)
(* returns normally only from the statuses transition() allows; Throws says  *)
(* when it raises a conflict instead.                                        *)

Write(p, op, j, at) ==
  /\ Prepare(p, [op |-> op, job |-> j, at |-> at])
  /\ UNCHANGED <<now, jobs>>

CanComplete(j) == canTransitionJob(jobs[j].status, "completed")
CanPark(j) == canTransitionJob(jobs[j].status, "submitted")
CanRetryFailure(j, retryable) == retryable /\ jobs[j].attempts < MaxAttempts
CanFail(j, retryable) ==
  canTransitionJob(jobs[j].status,
                   IF CanRetryFailure(j, retryable) THEN "queued" ELSE "failed")

Complete(p, j) == CanComplete(j) /\ Write(p, "complete", j, now)
MarkSubmitted(p, j, ref) ==
  /\ CanPark(j)
  /\ Prepare(p, [op |-> "park", job |-> j, at |-> now + PollDelay, ref |-> ref])
  /\ UNCHANGED <<now, jobs>>
Fail(p, j, retryable) ==
  /\ CanFail(j, retryable)
  /\ \/ /\ CanRetryFailure(j, retryable)
        /\ \E d \in backoffMs(jobs[j].attempts, BackoffBase, BackoffCap) :
              Write(p, "requeue", j, now + d)
     \/ ~CanRetryFailure(j, retryable) /\ Write(p, "deadLetter", j, now)
Cancel(p, j) == canTransitionJob(jobs[j].status, "cancelled") /\ Write(p, "cancel", j, now)
Retry(p, j) ==
  /\ isTerminal(jobs[j].status) \/ jobs[j].status = "unknown"
  /\ Write(p, "retry", j, now)

(* ... and the UPDATE ... WHERE id = j that follows: no status, no lockedBy. *)
Update(p) ==
  LET j == stmt[p].job
      row == jobs[j]
      at == stmt[p].at
      Put(new) == jobs' = [jobs EXCEPT ![j] = new]
  IN /\ \/ Pending(p, "complete") /\ Put(Completed(row))
        \/ Pending(p, "park") /\ Put(Parked(row, at, stmt[p].ref))
        \/ Pending(p, "requeue") /\ Put(Requeued(row, at))
        \/ Pending(p, "deadLetter") /\ Put(DeadLettered(row))
        \/ Pending(p, "cancel") /\ Put(Released(row, "cancelled"))
        \/ Pending(p, "retry") /\ Put(Retried(row, at))
     /\ Finish(p)
     /\ UNCHANGED now

Tick == now < MaxTime /\ now' = now + 1 /\ UNCHANGED <<jobs, stmt>>
=============================================================================
