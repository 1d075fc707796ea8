-------------------------- MODULE WorkerPool_proofs --------------------------
(* Theorems about WorkerPool for every set of jobs, pools and HTTP           *)
(* processes and every value of the timing constants and bounds.             *)
EXTENDS WorkerPool, TLAPS, FiniteSetTheorems

(* A claim's SELECT looked at an earlier or the present time.                *)
StatementsPast == \A p \in Proc : stmt[p].op = "claim" => stmt[p].at <= now

(* The inductive invariant: typing, the discipline of the rows, and what a   *)
(* claim's UPDATE needs to know of the time its SELECT looked at.            *)
IInv == TypeOK /\ RowDiscipline /\ StatementsPast

-----------------------------------------------------------------------------
(* Rows and statements                                                       *)

(* Any operation of the queue but a claim and a heartbeat leaves a row of    *)
(* this kind behind.                                                         *)
Settled(row) ==
  /\ row \in Row
  /\ row.status # "running"
  /\ row.lockedBy = NoWorker /\ row.lockedUntil = NULL
  /\ row.status = "failed" => row.deadLettered
  /\ row.status = "submitted" => row.ref # NoRef

LEMMA AbsentIsSettled == Settled(AbsentRow)
  BY QueueAssumption DEF Settled, AbsentRow, Row, NULL

LEMMA NewRowIsSettled ==
  ASSUME NEW k \in Key \cup {NoKey}, NEW t \in Nat
  PROVE  Settled([AbsentRow EXCEPT !.status = "queued", !.key = k, !.runAt = t])
  BY QueueAssumption DEF Settled, AbsentRow, Row, NULL, JobStatus

(* The six statements a transition may end in all settle the row.            *)
LEMMA PatchesSettle ==
  ASSUME NEW row \in Row, NEW t \in Nat
  PROVE  /\ Settled(Completed(row))
         /\ \A ref \in Ref : Settled(Parked(row, t, ref))
         /\ Settled(Requeued(row, t))
         /\ Settled(DeadLettered(row))
         /\ Settled(Released(row, "cancelled"))
         /\ Settled(Released(row, "queued"))
         /\ Settled(Retried(row, t))
<1> DEFINE rel(st) == Released(row, st)
<1>1. ASSUME NEW st \in JobStatus \ {"running"}
      PROVE  /\ rel(st) \in Row
             /\ rel(st).status = st
             /\ rel(st).lockedBy = NoWorker /\ rel(st).lockedUntil = NULL
  BY DEF Row, NULL, Released
<1> HIDE DEF rel
<1>0. \A st \in {"completed", "submitted", "queued", "failed", "cancelled"} :
        /\ rel(st) \in Row
        /\ rel(st).status = st
        /\ rel(st).lockedBy = NoWorker /\ rel(st).lockedUntil = NULL
  BY <1>1 DEF JobStatus
<1>2. Settled(Completed(row))
  <2>1. Completed(row) = [rel("completed") EXCEPT !.ref = NoRef]
    BY DEF Completed, rel
  <2>2. Completed(row) \in Row
    BY <1>0, <2>1 DEF Row
  <2>3. /\ Completed(row).status = "completed"
        /\ Completed(row).lockedBy = NoWorker /\ Completed(row).lockedUntil = NULL
    BY <1>0, <2>1 DEF Row
  <2> QED BY <2>2, <2>3 DEF Settled
<1>3. ASSUME NEW ref \in Ref PROVE Settled(Parked(row, t, ref))
  <2>1. Parked(row, t, ref) = [rel("submitted") EXCEPT !.runAt = t, !.ref = ref]
    BY DEF Parked, rel
  <2>2. Parked(row, t, ref) \in Row
    <3>1. ASSUME NEW r \in Row
          PROVE  [r EXCEPT !.runAt = t, !.ref = ref] \in Row
      BY DEF Row
    <3> QED BY <1>0, <2>1, <3>1
  <2>3. /\ Parked(row, t, ref).status = "submitted"
        /\ Parked(row, t, ref).lockedBy = NoWorker
        /\ Parked(row, t, ref).lockedUntil = NULL
    BY <1>0, <2>1 DEF Row
  <2>4. Parked(row, t, ref).ref # NoRef
    BY <1>0, <2>1, QueueAssumption DEF Row
  <2> QED BY <2>2, <2>3, <2>4 DEF Settled
<1>4. Settled(Requeued(row, t))
  <2>1. Requeued(row, t) = [rel("queued") EXCEPT !.runAt = t]
    BY DEF Requeued, rel
  <2>2. Requeued(row, t) \in Row
    BY <1>0, <2>1 DEF Row
  <2>3. /\ Requeued(row, t).status = "queued"
        /\ Requeued(row, t).lockedBy = NoWorker /\ Requeued(row, t).lockedUntil = NULL
    BY <1>0, <2>1 DEF Row
  <2> QED BY <2>2, <2>3 DEF Settled
<1>5. Settled(DeadLettered(row))
  <2>1. DeadLettered(row) = [rel("failed") EXCEPT !.deadLettered = TRUE]
    BY DEF DeadLettered, rel
  <2>2. DeadLettered(row) \in Row
    BY <1>0, <2>1 DEF Row
  <2>3. /\ DeadLettered(row).status = "failed"
        /\ DeadLettered(row).lockedBy = NoWorker /\ DeadLettered(row).lockedUntil = NULL
    BY <1>0, <2>1 DEF Row
  <2>4. DeadLettered(row).deadLettered
    BY <1>0, <2>1 DEF Row
  <2> QED BY <2>2, <2>3, <2>4 DEF Settled
<1>6. Settled(rel("cancelled")) /\ Settled(rel("queued"))
  BY <1>0 DEF Settled
<1>7. Settled(Retried(row, t))
  <2>1. Retried(row, t) = [rel("queued") EXCEPT !.runAt = t, !.attempts = 0,
                                                !.deadLettered = FALSE]
    BY DEF Retried, rel
  <2>2. Retried(row, t) \in Row
    <3>1. ASSUME NEW r \in Row
          PROVE  [r EXCEPT !.runAt = t, !.attempts = 0, !.deadLettered = FALSE] \in Row
      BY DEF Row
    <3> QED BY <1>0, <2>1, <3>1
  <2>3. /\ Retried(row, t).status = "queued"
        /\ Retried(row, t).lockedBy = NoWorker /\ Retried(row, t).lockedUntil = NULL
    BY <1>0, <2>1 DEF Row
  <2> QED BY <2>2, <2>3 DEF Settled
<1> QED BY <1>2, <1>3, <1>4, <1>5, <1>6, <1>7 DEF rel

LEMMA ClaimedRow ==
  ASSUME NEW row \in Row, NEW w \in Worker, NEW t \in Nat
  PROVE  /\ Claimed(row, w, t) \in Row
         /\ Claimed(row, w, t).status = "running"
         /\ Claimed(row, w, t).lockedBy = w
         /\ Claimed(row, w, t).lockedUntil \in Nat
<1> DEFINE until == t + Timeout + Grace
           attempt == row.attempts + 1
           number == row.claims + 1
<1>1. Claimed(row, w, t) =
        [row EXCEPT !.status = "running", !.lockedBy = w, !.lockedUntil = until,
                    !.attempts = attempt, !.claims = number]
  BY DEF Claimed
<1>2. until \in Nat /\ attempt \in Nat /\ number \in Nat
  BY QueueAssumption DEF Row
<1> HIDE DEF until, attempt, number
<1>3. "running" \in JobStatus
  BY DEF JobStatus
<1>4. [row EXCEPT !.status = "running", !.lockedBy = w, !.lockedUntil = until,
                  !.attempts = attempt, !.claims = number] \in Row
  BY <1>2, <1>3 DEF Row
<1> QED BY <1>1, <1>2, <1>4 DEF Row

LEMMA StatementFields ==
  ASSUME NEW s \in Stmt
  PROVE  /\ s.op \in RowOp => s.job \in Job /\ s.at \in Nat
         /\ s.op = "park" => s.ref \in Ref
         /\ s.op = "insert" => s.key \in Key \cup {NoKey} /\ s.at \in Nat
  BY DEF Stmt, RowOp, Idle

(* What RowDiscipline says of one row.                                       *)
RowOK(row) ==
  /\ (row.status = "running") <=> (row.lockedBy # NoWorker)
  /\ (row.status = "running") <=> (row.lockedUntil # NULL)
  /\ row.status = "failed" => row.deadLettered
  /\ row.status = "submitted" => row.ref # NoRef

LEMMA RowDisciplineByRow == RowDiscipline <=> \A j \in Job : RowOK(jobs[j])
  BY DEF RowDiscipline, LeaseIffRunning, FailedIsVisible, SubmittedHasRef, RowOK

LEMMA RowDisciplineByRowNext == RowDiscipline' <=> \A j \in Job : RowOK(jobs'[j])
  BY DEF RowDiscipline, LeaseIffRunning, FailedIsVisible, SubmittedHasRef, RowOK

LEMMA SettledIsOK ==
  ASSUME NEW row, Settled(row)
  PROVE  row \in Row /\ RowOK(row)
  BY DEF Settled, RowOK

(* Replacing one row by a good one keeps the table good.                     *)
LEMMA PutRow ==
  ASSUME TypeOK, RowDiscipline,
         NEW j \in Job, NEW row \in Row, RowOK(row),
         jobs' = [jobs EXCEPT ![j] = row]
  PROVE  jobs' \in [Job -> Row] /\ RowDiscipline'
<1>1. jobs \in [Job -> Row]
  BY DEF TypeOK, QueueTypeOK
<1>2. jobs' \in [Job -> Row]
  BY <1>1
<1>3. \A i \in Job : jobs'[i] = IF i = j THEN row ELSE jobs[i]
  BY <1>1
<1>4. \A i \in Job : RowOK(jobs[i])
  BY RowDisciplineByRow
<1>5. \A i \in Job : RowOK(jobs'[i])
  BY <1>3, <1>4
<1> QED BY <1>2, <1>5, RowDisciplineByRowNext

LEMMA SameTable ==
  ASSUME TypeOK, RowDiscipline, UNCHANGED jobs
  PROVE  jobs' \in [Job -> Row] /\ RowDiscipline'
  BY DEF TypeOK, QueueTypeOK, RowDiscipline, LeaseIffRunning, FailedIsVisible, SubmittedHasRef

LEMMA IdleIsStatement == Idle \in Stmt
  BY DEF Stmt

(* A process that prepares a statement now, or gives one up.                 *)
LEMMA PrepareOK ==
  ASSUME TypeOK, StatementsPast, NEW p \in Proc, NEW s \in Stmt,
         s.op = "claim" => s.at <= now,
         Prepare(p, s), UNCHANGED now
  PROVE  stmt' \in [Proc -> Stmt] /\ StatementsPast'
  BY DEF TypeOK, QueueTypeOK, Prepare, StatementsPast

LEMMA FinishOK ==
  ASSUME TypeOK, StatementsPast, NEW p \in Proc, Finish(p), UNCHANGED now
  PROVE  stmt' \in [Proc -> Stmt] /\ StatementsPast'
  BY IdleIsStatement DEF TypeOK, QueueTypeOK, Finish, StatementsPast, Idle

LEMMA SameStatements ==
  ASSUME TypeOK, StatementsPast, UNCHANGED stmt, now' >= now, now' \in Nat
  PROVE  stmt' \in [Proc -> Stmt] /\ StatementsPast'
<1>1. ASSUME NEW p \in Proc, stmt'[p].op = "claim"
      PROVE  stmt'[p].at <= now'
  <2>1. stmt[p] \in Stmt /\ stmt[p].op = "claim" /\ now \in Nat
    BY <1>1 DEF TypeOK, QueueTypeOK
  <2>2. stmt[p].at \in Nat
    BY <2>1, StatementFields DEF RowOp
  <2>3. stmt[p].at <= now
    BY <2>1 DEF StatementsPast
  <2> QED BY <1>1, <2>1, <2>2, <2>3
<1> QED BY <1>1 DEF TypeOK, QueueTypeOK, StatementsPast

(* The reading half of a transition.                                         *)
LEMMA WriteOK ==
  ASSUME IInv, NEW p \in Proc, NEW op \in RowOp \ {"claim", "park"}, NEW j \in Job,
         NEW at \in Nat, Write(p, op, j, at)
  PROVE  QueueTypeOK' /\ RowDiscipline' /\ StatementsPast'
<1> DEFINE s == [op |-> op, job |-> j, at |-> at]
<1>1. now \in Nat /\ s \in Stmt /\ s.op # "claim"
  BY DEF IInv, TypeOK, QueueTypeOK, Stmt
<1>2. Prepare(p, s) /\ UNCHANGED <<now, jobs>>
  BY DEF Write
<1>3. stmt' \in [Proc -> Stmt] /\ StatementsPast'
  BY <1>1, <1>2, PrepareOK DEF IInv
<1> QED BY <1>1, <1>2, <1>3, SameTable DEF IInv, QueueTypeOK

LEMMA ParkOK ==
  ASSUME IInv, NEW p \in Proc, NEW j \in Job, NEW ref \in Ref, MarkSubmitted(p, j, ref)
  PROVE  QueueTypeOK' /\ RowDiscipline' /\ StatementsPast'
<1> DEFINE s == [op |-> "park", job |-> j, at |-> now + PollDelay, ref |-> ref]
<1>1. now \in Nat /\ s \in Stmt /\ s.op # "claim"
  BY QueueAssumption DEF IInv, TypeOK, QueueTypeOK, Stmt
<1>2. Prepare(p, s) /\ UNCHANGED <<now, jobs>>
  BY DEF MarkSubmitted
<1>3. stmt' \in [Proc -> Stmt] /\ StatementsPast'
  BY <1>1, <1>2, PrepareOK DEF IInv
<1> QED BY <1>1, <1>2, <1>3, SameTable DEF IInv, QueueTypeOK

(* The writing half.                                                         *)
LEMMA UpdateOK ==
  ASSUME IInv, NEW p \in Proc, Update(p)
  PROVE  QueueTypeOK' /\ RowDiscipline' /\ StatementsPast'
<1> DEFINE j == stmt[p].job
           at == stmt[p].at
<1>1. now \in Nat /\ UNCHANGED now /\ Finish(p)
  BY DEF IInv, TypeOK, QueueTypeOK, Update
<1>2. stmt' \in [Proc -> Stmt] /\ StatementsPast'
  BY <1>1, FinishOK DEF IInv
<1>3. stmt[p] \in Stmt /\ stmt[p].op \in RowOp
  BY DEF IInv, TypeOK, QueueTypeOK, Update, Pending, RowOp
<1>4. j \in Job /\ at \in Nat
  BY <1>3, StatementFields
<1>5. jobs[j] \in Row
  BY <1>4 DEF IInv, TypeOK, QueueTypeOK
<1>6. PICK row : Settled(row) /\ jobs' = [jobs EXCEPT ![j] = row]
  <2>1. \/ jobs' = [jobs EXCEPT ![j] = Completed(jobs[j])]
        \/ \E ref \in Ref : jobs' = [jobs EXCEPT ![j] = Parked(jobs[j], at, ref)]
        \/ jobs' = [jobs EXCEPT ![j] = Requeued(jobs[j], at)]
        \/ jobs' = [jobs EXCEPT ![j] = DeadLettered(jobs[j])]
        \/ jobs' = [jobs EXCEPT ![j] = Released(jobs[j], "cancelled")]
        \/ jobs' = [jobs EXCEPT ![j] = Retried(jobs[j], at)]
    BY <1>3, StatementFields DEF Update, Pending
  <2> QED BY <1>4, <1>5, <2>1, PatchesSettle
<1>7. jobs' \in [Job -> Row] /\ RowDiscipline'
  BY <1>4, <1>6, SettledIsOK, PutRow DEF IInv
<1> QED BY <1>1, <1>2, <1>7 DEF QueueTypeOK

LEMMA EnqueueInsertOK ==
  ASSUME IInv, NEW p \in Proc, EnqueueInsert(p)
  PROVE  QueueTypeOK' /\ RowDiscipline' /\ StatementsPast'
<1>1. now \in Nat /\ UNCHANGED now /\ Finish(p)
  BY DEF IInv, TypeOK, QueueTypeOK, EnqueueInsert
<1>2. stmt' \in [Proc -> Stmt] /\ StatementsPast'
  BY <1>1, FinishOK DEF IInv
<1>3. stmt[p].key \in Key \cup {NoKey} /\ stmt[p].at \in Nat
  BY StatementFields DEF IInv, TypeOK, QueueTypeOK, EnqueueInsert, Pending
<1>4. jobs' \in [Job -> Row] /\ RowDiscipline'
  <2>1. CASE UNCHANGED jobs
    BY <2>1, SameTable DEF IInv
  <2>2. CASE ~UNCHANGED jobs
    <3>1. PICK j \in Job, d \in Delay :
            jobs' = [jobs EXCEPT ![j] =
                       [AbsentRow EXCEPT !.status = "queued", !.key = stmt[p].key,
                                         !.runAt = stmt[p].at + d]]
      BY <2>2 DEF EnqueueInsert
    <3>2. stmt[p].at + d \in Nat
      BY <1>3, QueueAssumption
    <3> QED BY <1>3, <3>1, <3>2, NewRowIsSettled, SettledIsOK, PutRow DEF IInv
  <2> QED BY <2>1, <2>2
<1> QED BY <1>1, <1>2, <1>4 DEF QueueTypeOK

LEMMA EnqueueOK ==
  ASSUME IInv, NEW p \in Proc, NEW k \in Key \cup {NoKey}, Enqueue(p, k)
  PROVE  QueueTypeOK' /\ RowDiscipline' /\ StatementsPast'
<1> DEFINE s == [op |-> "insert", key |-> k, at |-> now]
<1>1. now \in Nat /\ s \in Stmt /\ s.at <= now
  BY DEF IInv, TypeOK, QueueTypeOK, Stmt
<1>2. Prepare(p, s) /\ UNCHANGED <<now, jobs>>
  BY DEF Enqueue
<1>3. stmt' \in [Proc -> Stmt] /\ StatementsPast'
  BY <1>1, <1>2, PrepareOK DEF IInv
<1> QED BY <1>1, <1>2, <1>3, SameTable DEF IInv, QueueTypeOK

LEMMA ClaimSelectOK ==
  ASSUME IInv, NEW w \in Worker, ClaimSelect(w)
  PROVE  QueueTypeOK' /\ RowDiscipline' /\ StatementsPast'
<1>1. w \in Proc
  BY DEF Proc
<1>2. PICK j \in Job : Prepare(w, [op |-> "claim", job |-> j, at |-> now])
  BY DEF ClaimSelect
<1> DEFINE s == [op |-> "claim", job |-> j, at |-> now]
<1>3. now \in Nat /\ s \in Stmt /\ s.at <= now
  BY DEF IInv, TypeOK, QueueTypeOK, Stmt, RowOp
<1>4. UNCHANGED <<now, jobs>>
  BY DEF ClaimSelect
<1>5. stmt' \in [Proc -> Stmt] /\ StatementsPast'
  BY <1>1, <1>2, <1>3, <1>4, PrepareOK DEF IInv
<1> QED BY <1>3, <1>4, <1>5, SameTable DEF IInv, QueueTypeOK

LEMMA ClaimUpdateOK ==
  ASSUME IInv, NEW w \in Worker, ClaimUpdate(w)
  PROVE  /\ QueueTypeOK' /\ RowDiscipline' /\ StatementsPast'
         /\ stmt[w].job \in Job /\ stmt[w].at \in Nat /\ stmt[w].at <= now
<1> DEFINE j == stmt[w].job
<1>1. w \in Proc /\ now \in Nat /\ UNCHANGED now /\ Finish(w)
  BY DEF Proc, IInv, TypeOK, QueueTypeOK, ClaimUpdate
<1>2. stmt' \in [Proc -> Stmt] /\ StatementsPast'
  BY <1>1, FinishOK DEF IInv
<1>3. stmt[w] \in Stmt /\ stmt[w].op = "claim"
  BY <1>1 DEF IInv, TypeOK, QueueTypeOK, ClaimUpdate, Pending
<1>4. j \in Job /\ stmt[w].at \in Nat
  BY <1>3, StatementFields DEF RowOp
<1>5. stmt[w].at <= now
  BY <1>1, <1>3 DEF IInv, StatementsPast, Idle
<1>6. jobs' \in [Job -> Row] /\ RowDiscipline'
  <2>1. CASE ClaimGuard(w)
    <3> DEFINE row == Claimed(jobs[j], w, stmt[w].at)
    <3>1. jobs[j] \in Row
      BY <1>4 DEF IInv, TypeOK, QueueTypeOK
    <3>2. row \in Row /\ RowOK(row)
      BY <1>4, <3>1, ClaimedRow, QueueAssumption DEF RowOK, NULL
    <3>3. jobs' = [jobs EXCEPT ![j] = row]
      BY <2>1 DEF ClaimUpdate
    <3> HIDE DEF row
    <3> QED BY <1>4, <3>2, <3>3, PutRow DEF IInv
  <2>2. CASE ~ClaimGuard(w)
    BY <2>2, SameTable DEF ClaimUpdate, IInv
  <2> QED BY <2>1, <2>2
<1> QED BY <1>1, <1>2, <1>4, <1>5, <1>6 DEF QueueTypeOK

LEMMA HeartbeatOK ==
  ASSUME IInv, NEW w \in Worker, NEW j \in Job, Heartbeat(w, j)
  PROVE  QueueTypeOK' /\ RowDiscipline' /\ StatementsPast'
<1> DEFINE until == now + Extra
           row == [jobs[j] EXCEPT !.lockedUntil = until]
<1>1. now \in Nat /\ jobs[j] \in Row /\ RowOK(jobs[j])
  BY RowDisciplineByRow DEF IInv, TypeOK, QueueTypeOK
<1>2. until \in Nat /\ until # NULL
  BY <1>1, QueueAssumption DEF NULL
<1>3. jobs' = [jobs EXCEPT ![j] = row] /\ UNCHANGED <<now, stmt>> /\ jobs[j].lockedBy = w
  BY DEF Heartbeat
<1> HIDE DEF until
<1>4. row \in Row
  BY <1>1, <1>2 DEF Row
<1>5. /\ row.status = jobs[j].status /\ row.lockedBy = jobs[j].lockedBy
      /\ row.deadLettered = jobs[j].deadLettered /\ row.ref = jobs[j].ref
      /\ row.lockedUntil = until
  BY <1>1 DEF Row
<1>6. RowOK(row)
  <2>1. jobs[j].lockedBy # NoWorker
    BY <1>3, QueueAssumption
  <2> QED BY <1>1, <1>2, <1>5, <2>1 DEF RowOK
<1> HIDE DEF row
<1>7. jobs' \in [Job -> Row] /\ RowDiscipline'
  BY <1>3, <1>4, <1>6, PutRow DEF IInv
<1>8. stmt' \in [Proc -> Stmt] /\ StatementsPast'
  BY <1>1, <1>3, SameStatements DEF IInv
<1> QED BY <1>1, <1>3, <1>7, <1>8 DEF QueueTypeOK

LEMMA ReclaimOK ==
  ASSUME IInv, reclaimExpired, UNCHANGED <<now, stmt>>
  PROVE  QueueTypeOK' /\ RowDiscipline' /\ StatementsPast'
<1>1. now \in Nat /\ \A j \in Job : jobs[j] \in Row /\ RowOK(jobs[j])
  BY RowDisciplineByRow DEF IInv, TypeOK, QueueTypeOK
<1>2. ASSUME NEW j \in Job
      PROVE  Reclaimed(jobs[j]) \in Row /\ RowOK(Reclaimed(jobs[j]))
  <2>1. CASE Reclaimed(jobs[j]) = jobs[j]
    BY <1>1, <2>1
  <2>2. CASE Reclaimed(jobs[j]) = Released(jobs[j], "queued")
    BY <1>1, <2>2, PatchesSettle, SettledIsOK
  <2> QED BY <2>1, <2>2 DEF Reclaimed
<1>3. jobs' \in [Job -> Row] /\ \A j \in Job : RowOK(jobs'[j])
  BY <1>2 DEF reclaimExpired
<1>4. stmt' \in [Proc -> Stmt] /\ StatementsPast'
  BY <1>1, SameStatements DEF IInv
<1> QED BY <1>1, <1>3, <1>4, RowDisciplineByRowNext DEF QueueTypeOK

-----------------------------------------------------------------------------
(* Runs                                                                      *)

(* The end of a process keeps the invariant.                                 *)
LEMMA DieOK ==
  ASSUME IInv, NEW w \in Worker, NEW how \in PoolState, Die(w, how)
  PROVE  IInv'
<1>1. UNCHANGED <<now, jobs>> /\ Finish(w) /\ w \in Proc /\ now \in Nat
  BY DEF Die, Finish, Proc, IInv, TypeOK, QueueTypeOK
<1>2. stmt' \in [Proc -> Stmt] /\ StatementsPast'
  BY <1>1, FinishOK DEF IInv
<1>3. pool' \in [Worker -> PoolState] /\ runs' \subseteq Run
  BY DEF Die, RunsOf, IInv, TypeOK
<1> QED BY <1>1, <1>2, <1>3, SameTable DEF IInv, TypeOK, QueueTypeOK

LEMMA FailWrites ==
  ASSUME IInv, NEW p, NEW j, NEW again, Fail(p, j, again)
  PROVE  \E op \in RowOp \ {"claim", "park"}, at \in Nat : Write(p, op, j, at)
<1>1. now \in Nat
  BY DEF IInv, TypeOK, QueueTypeOK
<1>2. ASSUME NEW d \in backoffMs(jobs[j].attempts, BackoffBase, BackoffCap),
             Write(p, "requeue", j, now + d)
      PROVE  \E op \in RowOp \ {"claim", "park"}, at \in Nat : Write(p, op, j, at)
  <2>1. now + d \in Nat
    BY <1>1 DEF backoffMs
  <2> QED BY <1>2, <2>1 DEF RowOp
<1>3. ASSUME Write(p, "deadLetter", j, now)
      PROVE  \E op \in RowOp \ {"claim", "park"}, at \in Nat : Write(p, op, j, at)
  BY <1>1, <1>3 DEF RowOp
<1> QED BY <1>2, <1>3 DEF Fail

LEMMA FailRunOK ==
  ASSUME IInv, NEW r \in Run, NEW retryable \in BOOLEAN, FailRun(r, retryable)
  PROVE  IInv'
<1> DEFINE again == r.aborted \/ retryable
<1>1. r.worker \in Worker /\ r.worker \in Proc /\ r.job \in Job
  BY DEF Run, Proc
<1>2. CASE Fail(r.worker, r.job, again) /\ EndRun(r)
  <2>1. PICK op \in RowOp \ {"claim", "park"}, at \in Nat : Write(r.worker, op, r.job, at)
    BY <1>2, FailWrites
  <2>2. QueueTypeOK' /\ RowDiscipline' /\ StatementsPast'
    BY <1>1, <2>1, WriteOK
  <2> QED BY <1>2, <2>2 DEF EndRun, IInv, TypeOK
<1>3. CASE Reject(r) /\ r.awaited
  <2>1. UNCHANGED <<now, jobs, stmt, pool>> /\ runs' \subseteq runs
    BY <1>3 DEF Reject, EndRun, queueVars
  <2> QED BY <2>1 DEF IInv, TypeOK, QueueTypeOK, StatementsPast, RowDiscipline,
                     LeaseIffRunning, FailedIsVisible, SubmittedHasRef
<1>4. CASE Reject(r) /\ ~r.awaited
  BY <1>1, <1>4, DieOK DEF Reject, PoolState
<1> QED BY <1>2, <1>3, <1>4 DEF FailRun

LEMMA RunStepOK ==
  ASSUME IInv, NEW r \in runs, RunStep(r)
  PROVE  IInv'
<1>0. now \in Nat /\ now + PollDelay \in Nat
  BY QueueAssumption DEF IInv, TypeOK, QueueTypeOK
<1>1. r \in Run /\ r.worker \in Worker /\ r.worker \in Proc /\ r.job \in Job
  BY DEF IInv, TypeOK, Run, Proc
<1>2. CASE Abort(r)
  <2>1. [r EXCEPT !.aborted = TRUE] \in Run
    BY <1>1 DEF Run
  <2>2. runs' \subseteq Run /\ UNCHANGED <<now, jobs, stmt, pool>>
    BY <1>2, <2>1 DEF Abort, IInv, TypeOK
  <2> QED BY <2>2 DEF IInv, TypeOK, QueueTypeOK, StatementsPast, RowDiscipline,
                     LeaseIffRunning, FailedIsVisible, SubmittedHasRef
<1>3. CASE HandlerHeartbeat(r)
  <2>1. QueueTypeOK' /\ RowDiscipline' /\ StatementsPast'
    BY <1>1, <1>3, HeartbeatOK DEF HandlerHeartbeat
  <2> QED BY <1>3, <2>1 DEF HandlerHeartbeat, IInv, TypeOK
<1>4. CASE HandlerReturns(r)
  <2>1. CASE Complete(r.worker, r.job) /\ EndRun(r)
    <3>1. QueueTypeOK' /\ RowDiscipline' /\ StatementsPast'
      BY <1>0, <1>1, <2>1, WriteOK DEF Complete, RowOp
    <3> QED BY <2>1, <3>1 DEF EndRun, IInv, TypeOK
  <2>2. CASE FailRun(r, FALSE)
    BY <1>1, <2>2, FailRunOK
  <2> QED BY <1>4, <2>1, <2>2 DEF HandlerReturns
<1>5. CASE HandlerThrows(r)
  BY <1>1, <1>5, FailRunOK DEF HandlerThrows
<1>6. CASE HandlerParks(r)
  <2>1. CASE \E ref \in Ref : MarkSubmitted(r.worker, r.job, ref)
    <3>1. QueueTypeOK' /\ RowDiscipline' /\ StatementsPast'
      BY <1>0, <1>1, <2>1, ParkOK
    <3> QED BY <1>6, <3>1 DEF HandlerParks, EndRun, IInv, TypeOK
  <2>2. CASE UNCHANGED queueVars
    BY <1>6, <2>2 DEF HandlerParks, EndRun, queueVars, IInv, TypeOK, QueueTypeOK,
       StatementsPast, RowDiscipline, LeaseIffRunning, FailedIsVisible, SubmittedHasRef
  <2> QED BY <1>6, <2>1, <2>2 DEF HandlerParks
<1> QED BY <1>2, <1>3, <1>4, <1>5, <1>6 DEF RunStep

LEMMA PoolStepOK ==
  ASSUME IInv, NEW w \in Worker, PoolStep(w)
  PROVE  IInv'
<1>1. CASE Start(w)
  <2>1. QueueTypeOK' /\ RowDiscipline' /\ StatementsPast'
    BY <1>1, ReclaimOK DEF Start
  <2> QED BY <1>1, <2>1 DEF Start, IInv, TypeOK, PoolState
<1>2. CASE TickClaim(w)
  <2>1. QueueTypeOK' /\ RowDiscipline' /\ StatementsPast'
    BY <1>2, ClaimSelectOK DEF TickClaim
  <2> QED BY <1>2, <2>1 DEF TickClaim, IInv, TypeOK
<1>3. CASE TickRun(w)
  <2>1. /\ QueueTypeOK' /\ RowDiscipline' /\ StatementsPast'
        /\ stmt[w].job \in Job /\ stmt[w].at \in Nat
    BY <1>3, ClaimUpdateOK DEF TickRun
  <2>2. jobs[stmt[w].job].claims + 1 \in Nat
    BY <2>1 DEF IInv, TypeOK, QueueTypeOK, Row
  <2>3. NewRun(w) \in Run
    BY <2>1, <2>2 DEF NewRun, Run
  <2> QED BY <1>3, <2>1, <2>3 DEF TickRun, IInv, TypeOK
<1>4. CASE Stop(w)
  <2>1. \A r \in runs : [r EXCEPT !.awaited = TRUE] \in Run
    BY DEF IInv, TypeOK, Run
  <2>2. /\ pool' \in [Worker -> PoolState] /\ runs' \subseteq Run
        /\ UNCHANGED <<now, jobs, stmt>>
    BY <1>4, <2>1 DEF Stop, RunsOf, PoolState, queueVars, IInv, TypeOK
  <2> QED BY <2>2 DEF IInv, TypeOK, QueueTypeOK, StatementsPast, RowDiscipline,
                     LeaseIffRunning, FailedIsVisible, SubmittedHasRef
<1>5. CASE Kill(w)
  BY <1>5, DieOK DEF Kill, PoolState
<1> QED BY <1>1, <1>2, <1>3, <1>4, <1>5 DEF PoolStep

-----------------------------------------------------------------------------
LEMMA InitOK == Init => IInv
<1> SUFFICES ASSUME Init PROVE IInv
  OBVIOUS
<1>1. QueueTypeOK
  BY AbsentIsSettled, IdleIsStatement DEF Init, QueueInit, QueueTypeOK, Settled
<1>2. \A j \in Job : RowOK(jobs[j])
  BY AbsentIsSettled, SettledIsOK DEF Init, QueueInit
<1>3. StatementsPast
  BY DEF Init, QueueInit, StatementsPast, Idle
<1> QED BY <1>1, <1>2, <1>3, RowDisciplineByRow DEF Init, IInv, TypeOK, PoolState

LEMMA StepOK == IInv /\ [Next]_vars => IInv'
<1> SUFFICES ASSUME IInv, [Next]_vars PROVE IInv'
  OBVIOUS
<1>1. ASSUME NEW w \in Worker, PoolStep(w) PROVE IInv'
  BY <1>1, PoolStepOK
<1>2. ASSUME NEW r \in runs, RunStep(r) PROVE IInv'
  BY <1>2, RunStepOK
<1>3. ASSUME NEW p \in Proc, UpdateOf(p) PROVE IInv'
  BY <1>3, UpdateOK DEF UpdateOf, IInv, TypeOK
<1>4. ASSUME NEW p \in Api, ApiCall(p) PROVE IInv'
  <2>0. now \in Nat
    BY DEF IInv, TypeOK, QueueTypeOK
  <2>1. p \in Proc
    BY DEF Proc
  <2>2. QueueTypeOK' /\ RowDiscipline' /\ StatementsPast'
    <3>1. CASE \E k \in Key \cup {NoKey} : Enqueue(p, k)
      BY <2>1, <3>1, EnqueueOK
    <3>2. CASE EnqueueInsert(p)
      BY <2>1, <3>2, EnqueueInsertOK
    <3>3. CASE \E j \in Job : Cancel(p, j) \/ Retry(p, j)
      BY <2>0, <2>1, <3>3, WriteOK DEF Cancel, Retry, RowOp
    <3> QED BY <1>4, <3>1, <3>2, <3>3 DEF ApiCall
  <2> QED BY <1>4, <2>2 DEF ApiCall, IInv, TypeOK
<1>5. CASE TickClock
  <2>1. now' \in Nat /\ now' >= now /\ UNCHANGED <<jobs, stmt, pool, runs>>
    BY <1>5 DEF TickClock, Tick, IInv, TypeOK, QueueTypeOK
  <2> QED BY <2>1, SameStatements, SameTable DEF IInv, TypeOK, QueueTypeOK
<1>6. CASE UNCHANGED vars
  BY <1>6 DEF vars, IInv, TypeOK, QueueTypeOK, StatementsPast, RowDiscipline,
     LeaseIffRunning, FailedIsVisible, SubmittedHasRef
<1> QED BY <1>1, <1>2, <1>3, <1>4, <1>5, <1>6 DEF Next

LEMMA Invariance == Spec => []IInv
  BY InitOK, StepOK, PTL DEF Spec

(* Every row, statement, pool and run keeps its type.                        *)
THEOREM Typing == Spec => []TypeOK
<1>1. IInv => TypeOK
  BY DEF IInv
<1> QED BY <1>1, Invariance, PTL

(* Whatever processes interleave, a row is running exactly while it carries  *)
(* a lease, failed rows are dead-lettered, submitted rows name the           *)
(* provider's id.                                                            *)
THEOREM Discipline == Spec => []RowDiscipline
<1>1. IInv => RowDiscipline
  BY DEF IInv
<1> QED BY <1>1, Invariance, PTL

-----------------------------------------------------------------------------
(* What one step may do to the table                                         *)

RowClaim(old, new) ==
  \E w \in Worker, at \in Nat :
    at <= now /\ Unlocked(old, at) /\ new = Claimed(old, w, at)
RowExtend(old, new) ==
  \E u \in Nat : old.lockedBy # NoWorker /\ new = [old EXCEPT !.lockedUntil = u]
RowSettle(old, new) ==
  Settled(new) /\ (old.status # "absent" => new.claims = old.claims)

(* One row changes, or the leases that are over are taken back, or none.     *)
OneRow(j) ==
  /\ jobs' = [jobs EXCEPT ![j] = jobs'[j]]
  /\ \/ RowClaim(jobs[j], jobs'[j])
     \/ RowExtend(jobs[j], jobs'[j])
     \/ RowSettle(jobs[j], jobs'[j])

TableStep ==
  \/ UNCHANGED <<now, jobs>>
  \/ UNCHANGED jobs /\ now' = now + 1
  \/ UNCHANGED now /\ reclaimExpired
  \/ UNCHANGED now /\ \E j \in Job : OneRow(j)

LEMMA PatchesKeepClaims ==
  ASSUME NEW row \in Row, NEW t \in Nat
  PROVE  /\ Completed(row).claims = row.claims
         /\ \A ref \in Ref : Parked(row, t, ref).claims = row.claims
         /\ Requeued(row, t).claims = row.claims
         /\ DeadLettered(row).claims = row.claims
         /\ Released(row, "cancelled").claims = row.claims
         /\ Released(row, "queued").claims = row.claims
         /\ Retried(row, t).claims = row.claims
<1> DEFINE rel(st) == Released(row, st)
<1>1. ASSUME NEW st \in JobStatus
      PROVE  rel(st) \in Row /\ rel(st).claims = row.claims
  BY DEF Row, NULL, Released
<1>2. \A st \in {"completed", "submitted", "queued", "failed", "cancelled"} :
        rel(st) \in Row /\ rel(st).claims = row.claims
  BY <1>1 DEF JobStatus
<1> HIDE DEF rel
<1>3. /\ Completed(row) = [rel("completed") EXCEPT !.ref = NoRef]
      /\ \A ref : Parked(row, t, ref) = [rel("submitted") EXCEPT !.runAt = t, !.ref = ref]
      /\ Requeued(row, t) = [rel("queued") EXCEPT !.runAt = t]
      /\ DeadLettered(row) = [rel("failed") EXCEPT !.deadLettered = TRUE]
      /\ Retried(row, t) = [rel("queued") EXCEPT !.runAt = t, !.attempts = 0,
                                                 !.deadLettered = FALSE]
  BY DEF Completed, Parked, Requeued, DeadLettered, Retried, rel
<1>4. Completed(row).claims = row.claims
  BY <1>2, <1>3 DEF Row
<1>5. ASSUME NEW ref \in Ref PROVE Parked(row, t, ref).claims = row.claims
  <2>1. Parked(row, t, ref) = [rel("submitted") EXCEPT !.runAt = t, !.ref = ref]
    BY <1>3
  <2> QED BY <1>2, <2>1 DEF Row
<1>6. Requeued(row, t).claims = row.claims
  BY <1>2, <1>3 DEF Row
<1>7. DeadLettered(row).claims = row.claims
  BY <1>2, <1>3 DEF Row
<1>8. Retried(row, t).claims = row.claims
  BY <1>2, <1>3 DEF Row
<1> QED BY <1>2, <1>4, <1>5, <1>6, <1>7, <1>8 DEF rel

LEMMA UpdateSettles ==
  ASSUME IInv, NEW p \in Proc, Update(p)
  PROVE  /\ UNCHANGED now /\ stmt[p].op \in RowOp /\ stmt[p].job \in Job
         /\ Settled(jobs'[stmt[p].job]) /\ OneRow(stmt[p].job)
<1> DEFINE j == stmt[p].job
           at == stmt[p].at
<1>1. stmt[p] \in Stmt /\ stmt[p].op \in RowOp
  BY DEF IInv, TypeOK, QueueTypeOK, Update, Pending, RowOp
<1>2. j \in Job /\ at \in Nat
  BY <1>1, StatementFields
<1>3. jobs[j] \in Row /\ jobs \in [Job -> Row]
  BY <1>2 DEF IInv, TypeOK, QueueTypeOK
<1>4. PICK row : /\ Settled(row) /\ row.claims = jobs[j].claims
                 /\ jobs' = [jobs EXCEPT ![j] = row]
  <2>1. \/ jobs' = [jobs EXCEPT ![j] = Completed(jobs[j])]
        \/ \E ref \in Ref : jobs' = [jobs EXCEPT ![j] = Parked(jobs[j], at, ref)]
        \/ jobs' = [jobs EXCEPT ![j] = Requeued(jobs[j], at)]
        \/ jobs' = [jobs EXCEPT ![j] = DeadLettered(jobs[j])]
        \/ jobs' = [jobs EXCEPT ![j] = Released(jobs[j], "cancelled")]
        \/ jobs' = [jobs EXCEPT ![j] = Retried(jobs[j], at)]
    BY <1>1, StatementFields DEF Update, Pending
  <2> QED BY <1>2, <1>3, <2>1, PatchesSettle, PatchesKeepClaims
<1>5. jobs'[j] = row
  BY <1>2, <1>3, <1>4
<1>6. OneRow(j)
  BY <1>4, <1>5 DEF OneRow, RowSettle
<1> QED BY <1>1, <1>2, <1>4, <1>5, <1>6 DEF Update

LEMMA TableSteps == IInv /\ [Next]_vars => TableStep
<1> SUFFICES ASSUME IInv, [Next]_vars PROVE TableStep
  OBVIOUS
<1>0. jobs \in [Job -> Row] /\ now \in Nat
  BY DEF IInv, TypeOK, QueueTypeOK
<1>1. ASSUME NEW w \in Worker, PoolStep(w) PROVE TableStep
  <2>1. CASE Start(w)
    BY <2>1 DEF Start, TableStep
  <2>2. CASE TickClaim(w) \/ Stop(w) \/ Kill(w)
    BY <2>2 DEF TickClaim, ClaimSelect, Stop, Kill, Die, queueVars, TableStep
  <2>3. CASE TickRun(w)
    <3> DEFINE j == stmt[w].job
    <3>1. ClaimUpdate(w) /\ UNCHANGED now
      BY <2>3 DEF TickRun, ClaimUpdate
    <3>2. j \in Job /\ stmt[w].at \in Nat /\ stmt[w].at <= now
      BY <3>1, ClaimUpdateOK
    <3>3. CASE ClaimGuard(w)
      <4>1. jobs' = [jobs EXCEPT ![j] = Claimed(jobs[j], w, stmt[w].at)]
        BY <3>1, <3>3 DEF ClaimUpdate
      <4>2. jobs'[j] = Claimed(jobs[j], w, stmt[w].at)
        BY <1>0, <3>2, <4>1
      <4>3. OneRow(j)
        BY <3>2, <3>3, <4>1, <4>2 DEF OneRow, RowClaim, ClaimGuard
      <4> QED BY <3>1, <3>2, <4>3 DEF TableStep
    <3>4. CASE ~ClaimGuard(w)
      BY <3>1, <3>4 DEF ClaimUpdate, TableStep
    <3> QED BY <3>3, <3>4
  <2> QED BY <1>1, <2>1, <2>2, <2>3 DEF PoolStep
<1>2. ASSUME NEW r \in runs, RunStep(r) PROVE TableStep
  <2>1. CASE HandlerHeartbeat(r)
    <3> DEFINE j == r.job
               u == now + Extra
    <3>1. j \in Job /\ r.worker \in Worker
      BY DEF IInv, TypeOK, Run
    <3>2. /\ jobs' = [jobs EXCEPT ![j] = [jobs[j] EXCEPT !.lockedUntil = u]]
          /\ jobs[j].lockedBy # NoWorker /\ UNCHANGED now
      BY <2>1, <3>1, QueueAssumption DEF HandlerHeartbeat, Heartbeat
    <3>3. u \in Nat
      BY <1>0, QueueAssumption
    <3> HIDE DEF u
    <3>4. jobs'[j] = [jobs[j] EXCEPT !.lockedUntil = u]
      BY <1>0, <3>1, <3>2
    <3>5. OneRow(j)
      BY <3>2, <3>3, <3>4 DEF OneRow, RowExtend
    <3> QED BY <3>1, <3>2, <3>5 DEF TableStep
  <2>2. CASE ~HandlerHeartbeat(r)
    BY <1>2, <2>2 DEF RunStep, Abort, HandlerReturns, HandlerThrows, HandlerParks,
       FailRun, Reject, Die, Complete, Fail, MarkSubmitted, Write, queueVars, TableStep
  <2> QED BY <2>1, <2>2
<1>3. ASSUME NEW p \in Proc, UpdateOf(p) PROVE TableStep
  BY <1>3, UpdateSettles DEF UpdateOf, TableStep
<1>4. ASSUME NEW p \in Api, ApiCall(p) PROVE TableStep
  <2>1. CASE EnqueueInsert(p)
    <3>1. CASE UNCHANGED jobs
      BY <2>1, <3>1 DEF EnqueueInsert, TableStep
    <3>2. CASE ~UNCHANGED jobs
      <4> DEFINE new(d) == [AbsentRow EXCEPT !.status = "queued", !.key = stmt[p].key,
                                             !.runAt = stmt[p].at + d]
      <4>1. PICK j \in Job, d \in Delay : ~Exists(j) /\ jobs' = [jobs EXCEPT ![j] = new(d)]
        BY <2>1, <3>2 DEF EnqueueInsert
      <4>2. stmt[p].key \in Key \cup {NoKey} /\ stmt[p].at \in Nat
        BY <2>1, StatementFields DEF IInv, TypeOK, QueueTypeOK, EnqueueInsert, Pending, Proc
      <4>3. stmt[p].at + d \in Nat
        BY <4>2, QueueAssumption
      <4>4. Settled(new(d))
        BY <4>2, <4>3, NewRowIsSettled
      <4>5. jobs'[j] = new(d)
        BY <1>0, <4>1
      <4>6. OneRow(j)
        BY <4>1, <4>4, <4>5 DEF OneRow, RowSettle, Exists
      <4> QED BY <2>1, <4>6 DEF EnqueueInsert, TableStep
    <3> QED BY <3>1, <3>2
  <2>2. CASE ~EnqueueInsert(p)
    BY <1>4, <2>2 DEF ApiCall, Enqueue, Cancel, Retry, Write, TableStep
  <2> QED BY <2>1, <2>2
<1>5. CASE TickClock
  BY <1>5 DEF TickClock, Tick, TableStep
<1>6. CASE UNCHANGED vars
  BY <1>6 DEF vars, TableStep
<1> QED BY <1>1, <1>2, <1>3, <1>4, <1>5, <1>6 DEF Next

-----------------------------------------------------------------------------
LEMMA ExclusiveStep ==
  ASSUME IInv, TableStep, NEW j \in Job, LiveLease(j)
  PROVE  jobs'[j].claims = jobs[j].claims
<1>1. jobs \in [Job -> Row] /\ jobs[j] \in Row /\ now \in Nat
  BY DEF IInv, TypeOK, QueueTypeOK
<1>2. jobs[j].lockedUntil > now /\ jobs[j].status = "running" /\ jobs[j].lockedUntil # NULL
  BY <1>1 DEF LiveLease, IInv, RowDiscipline, LeaseIffRunning
<1>3. CASE UNCHANGED jobs
  BY <1>3
<1>4. CASE reclaimExpired
  <2>1. Reclaimed(jobs[j]) = jobs[j]
    BY <1>1, <1>2 DEF Reclaimed, Row, NULL
  <2> QED BY <1>4, <2>1 DEF reclaimExpired
<1>5. ASSUME NEW i \in Job, OneRow(i)
      PROVE  jobs'[j].claims = jobs[j].claims
  <2>1. CASE i # j
    BY <1>1, <1>5, <2>1 DEF OneRow
  <2>2. CASE i = j
    <3>1. CASE RowClaim(jobs[j], jobs'[j])
      BY <1>1, <1>2, <3>1 DEF RowClaim, Unlocked, Row, NULL
    <3>2. CASE RowExtend(jobs[j], jobs'[j])
      BY <1>1, <3>2 DEF RowExtend, Row
    <3>3. CASE RowSettle(jobs[j], jobs'[j])
      BY <1>2, <3>3 DEF RowSettle
    <3> QED BY <1>5, <2>2, <3>1, <3>2, <3>3 DEF OneRow
  <2> QED BY <2>1, <2>2
<1> QED BY <1>3, <1>4, <1>5 DEF TableStep

(* A job whose lease is live is not claimed by anyone, although the SELECT   *)
(* and the UPDATE of a claim are two statements.                             *)
THEOREM Exclusion == Spec => LiveLeaseExclusive
<1>1. IInv /\ [Next]_vars =>
        [\A j \in Job : LiveLease(j) => jobs'[j].claims = jobs[j].claims]_vars
  BY TableSteps, ExclusiveStep
<1> QED BY <1>1, Invariance, PTL DEF Spec, LiveLeaseExclusive

-----------------------------------------------------------------------------
(* The table implements JobLease                                             *)

LEMMA LeaseInitOK == Init => Lease!LeaseInit
  BY DEF Init, QueueInit, Lease!LeaseInit, leaseOf, NoLease, AbsentRow

LEMMA OneRowLease ==
  ASSUME IInv, NEW j \in Job, OneRow(j), UNCHANGED now
  PROVE  Lease!LeaseNext
<1>1. jobs \in [Job -> Row] /\ jobs[j] \in Row /\ RowOK(jobs[j]) /\ now \in Nat
  BY RowDisciplineByRow DEF IInv, TypeOK, QueueTypeOK
<1>2. /\ leaseOf[j] = [by |-> jobs[j].lockedBy, until |-> jobs[j].lockedUntil]
      /\ leaseOf'[j] = [by |-> jobs'[j].lockedBy, until |-> jobs'[j].lockedUntil]
  BY DEF leaseOf
<1>3. Lease!Only(j)
  <2>1. leaseOf' = [leaseOf EXCEPT ![j] = leaseOf'[j]]
    <3>1. ASSUME NEW i \in Job, i # j PROVE jobs'[i] = jobs[i]
      BY <1>1, <3>1 DEF OneRow
    <3> QED BY <3>1 DEF leaseOf
  <2> QED BY <2>1 DEF Lease!Only
<1>4. CASE RowClaim(jobs[j], jobs'[j])
  <2>1. PICK w \in Worker, at \in Nat :
          at <= now /\ Unlocked(jobs[j], at) /\ jobs'[j] = Claimed(jobs[j], w, at)
    BY <1>4 DEF RowClaim
  <2>2. jobs'[j].lockedBy \in Worker /\ jobs'[j].lockedUntil \in Nat
    BY <1>1, <2>1, ClaimedRow
  <2>3. Lease!Free(j)
    <3>1. CASE jobs[j].lockedUntil = NULL
      BY <1>1, <1>2, <3>1 DEF Lease!Free, NoLease, RowOK
    <3>2. CASE jobs[j].lockedUntil # NULL
      BY <1>1, <1>2, <2>1, <3>2 DEF Lease!Free, Unlocked, Row
    <3> QED BY <3>1, <3>2
  <2> QED BY <1>2, <1>3, <2>2, <2>3 DEF Lease!Grant, Lease!LeaseNext
<1>5. CASE RowExtend(jobs[j], jobs'[j])
  <2>1. PICK u \in Nat : /\ jobs[j].lockedBy # NoWorker
                         /\ jobs'[j] = [jobs[j] EXCEPT !.lockedUntil = u]
    BY <1>5 DEF RowExtend
  <2>2. jobs'[j].lockedBy = jobs[j].lockedBy /\ jobs'[j].lockedUntil = u
    BY <1>1, <2>1 DEF Row
  <2> QED BY <1>2, <1>3, <2>1, <2>2 DEF Lease!Extend, Lease!LeaseNext, NoLease
<1>6. CASE RowSettle(jobs[j], jobs'[j])
  BY <1>2, <1>3, <1>6 DEF RowSettle, Settled, Lease!Release, Lease!LeaseNext, NoLease
<1> QED BY <1>4, <1>5, <1>6 DEF OneRow

LEMMA ReclaimLease ==
  ASSUME IInv, reclaimExpired, UNCHANGED now
  PROVE  Lease!Expire
<1>1. ASSUME NEW j \in Job
      PROVE  leaseOf'[j] = IF Lease!Free(j) THEN NoLease ELSE leaseOf[j]
  <2>1. jobs[j] \in Row /\ RowOK(jobs[j]) /\ now \in Nat
    BY RowDisciplineByRow DEF IInv, TypeOK, QueueTypeOK
  <2>2. /\ leaseOf[j] = [by |-> jobs[j].lockedBy, until |-> jobs[j].lockedUntil]
        /\ leaseOf'[j] = [by |-> Reclaimed(jobs[j]).lockedBy,
                          until |-> Reclaimed(jobs[j]).lockedUntil]
    BY DEF leaseOf, reclaimExpired
  <2>3. CASE jobs[j].lockedUntil = NULL
    <3>1. leaseOf[j] = NoLease /\ Reclaimed(jobs[j]) = jobs[j]
      BY <2>1, <2>2, <2>3 DEF NoLease, RowOK, Reclaimed
    <3> QED BY <2>2, <3>1 DEF Lease!Free
  <2>4. CASE jobs[j].lockedUntil # NULL /\ jobs[j].lockedUntil <= now
    <3>1. Reclaimed(jobs[j]) = Released(jobs[j], "queued")
      BY <2>1, <2>4 DEF RowOK, Reclaimed
    <3>2. leaseOf'[j] = NoLease
      BY <2>1, <2>2, <3>1, PatchesSettle DEF Settled, NoLease
    <3> QED BY <2>2, <2>4, <3>2 DEF Lease!Free
  <2>5. CASE jobs[j].lockedUntil # NULL /\ ~(jobs[j].lockedUntil <= now)
    <3>1. leaseOf[j] # NoLease /\ Reclaimed(jobs[j]) = jobs[j]
      BY <2>2, <2>5 DEF NoLease, Reclaimed
    <3>2. leaseOf'[j] = leaseOf[j]
      BY <2>2, <3>1
    <3>3. ~Lease!Free(j)
      BY <2>2, <2>5, <3>1 DEF Lease!Free
    <3> QED BY <3>2, <3>3
  <2> QED BY <2>3, <2>4, <2>5
<1> QED BY <1>1 DEF Lease!Expire, leaseOf

LEMMA LeaseStep == IInv /\ [Next]_vars => [Lease!LeaseNext]_<<leaseOf, now>>
<1> SUFFICES ASSUME IInv, TableStep PROVE [Lease!LeaseNext]_<<leaseOf, now>>
  BY TableSteps
<1>1. CASE UNCHANGED <<now, jobs>>
  BY <1>1 DEF leaseOf
<1>2. CASE UNCHANGED jobs /\ now' = now + 1
  BY <1>2 DEF Lease!LeaseNext, Lease!Pass, leaseOf
<1>3. CASE UNCHANGED now /\ reclaimExpired
  BY <1>3, ReclaimLease DEF Lease!LeaseNext
<1>4. CASE UNCHANGED now /\ \E j \in Job : OneRow(j)
  BY <1>4, OneRowLease
<1> QED BY <1>1, <1>2, <1>3, <1>4 DEF TableStep

(* The pools, the handlers and the HTTP side together keep to the lease      *)
(* protocol: every step grants, extends, releases or expires as JobLease     *)
(* allows, or leaves the leases alone.                                       *)
THEOREM LeaseRefinement == Spec => ImplementsLease
  BY LeaseInitOK, LeaseStep, Invariance, PTL DEF Spec, ImplementsLease, Lease!LeaseSpec

-----------------------------------------------------------------------------
(* A live pool never loses a job it holds                                    *)

(* The strengthening: a pending claim does not account for a held job; only  *)
(* pools that have started hold jobs, prepare statements or run handlers;    *)
(* and a run whose rejection is awaited belongs to a pool that was stopped.  *)
Accounted(w, j) ==
  \/ \E r \in runs : r.worker = w /\ r.job = j /\ r.claim = jobs[j].claims
  \/ stmt[w].op \in RowOp \ {"claim"} /\ stmt[w].job = j
Held == \A j \in Job, w \in Worker :
          jobs[j].lockedBy = w /\ pool[w] = "up" => Accounted(w, j)
NewIsClean == \A w \in Worker : pool[w] = "new" =>
                /\ stmt[w] = Idle
                /\ \A j \in Job : jobs[j].lockedBy # w
                /\ \A r \in runs : r.worker # w
AwaitedIsStopped == \A r \in runs : r.awaited => pool[r.worker] # "up"
HInv == IInv /\ Held /\ NewIsClean /\ AwaitedIsStopped

(* The leases a step may add: only a claim's.                                *)
LEMMA NewHolder ==
  ASSUME IInv, NEW j \in Job, NEW w \in Worker, TableStep, jobs'[j].lockedBy = w
  PROVE  \/ jobs[j].lockedBy = w /\ jobs'[j].claims = jobs[j].claims
         \/ RowClaim(jobs[j], jobs'[j])
<1>1. jobs \in [Job -> Row] /\ jobs[j] \in Row
  BY DEF IInv, TypeOK, QueueTypeOK
<1>2. CASE UNCHANGED jobs
  BY <1>2
<1>3. CASE reclaimExpired
  <2>1. Released(jobs[j], "queued").lockedBy = NoWorker
    BY <1>1, PatchesSettle DEF Settled
  <2>2. jobs'[j] = jobs[j] \/ jobs'[j] = Released(jobs[j], "queued")
    BY <1>3 DEF reclaimExpired, Reclaimed
  <2> QED BY <2>1, <2>2, QueueAssumption
<1>4. ASSUME NEW i \in Job, OneRow(i)
      PROVE  \/ jobs[j].lockedBy = w /\ jobs'[j].claims = jobs[j].claims
             \/ RowClaim(jobs[j], jobs'[j])
  <2>1. CASE i # j
    BY <1>1, <1>4, <2>1 DEF OneRow
  <2>2. CASE i = j /\ RowExtend(jobs[j], jobs'[j])
    BY <1>1, <2>2 DEF RowExtend, Row
  <2>3. CASE i = j /\ RowSettle(jobs[j], jobs'[j])
    BY <2>3, QueueAssumption DEF RowSettle, Settled
  <2> QED BY <1>4, <2>1, <2>2, <2>3 DEF OneRow
<1> QED BY <1>2, <1>3, <1>4 DEF TableStep

(* A run ends with its own statement prepared, or with its pool.             *)
(* A run's last act: it leaves a statement on its own job.                   *)
Hands(w, j) ==
  \E s : /\ stmt[w] = Idle /\ stmt' = [stmt EXCEPT ![w] = s]
         /\ s.op \in RowOp \ {"claim"} /\ s.job = j

ParkStep(w, j) == \E ref \in Ref : MarkSubmitted(w, j, ref)

LEMMA WriteHands ==
  ASSUME NEW w, NEW j, NEW op \in RowOp \ {"claim"}, NEW at, Write(w, op, j, at)
  PROVE  Hands(w, j)
<1> DEFINE s == [op |-> op, job |-> j, at |-> at]
<1>1. stmt[w] = Idle /\ stmt' = [stmt EXCEPT ![w] = s]
  BY DEF Write, Prepare
<1>2. s.op \in RowOp \ {"claim"} /\ s.job = j
  OBVIOUS
<1> HIDE DEF s
<1> QED BY <1>1, <1>2 DEF Hands

LEMMA ParkHands ==
  ASSUME NEW w, NEW j, ParkStep(w, j)
  PROVE  Hands(w, j)
<1>1. PICK ref \in Ref : MarkSubmitted(w, j, ref)
  BY DEF ParkStep
<1> DEFINE s == [op |-> "park", job |-> j, at |-> now + PollDelay, ref |-> ref]
<1>2. stmt[w] = Idle /\ stmt' = [stmt EXCEPT ![w] = s]
  BY <1>1 DEF MarkSubmitted, Prepare
<1>3. s.op \in RowOp \ {"claim"} /\ s.job = j
  BY DEF RowOp
<1> HIDE DEF s
<1> QED BY <1>2, <1>3 DEF Hands

LEMMA EndHolds ==
  ASSUME HInv, NEW r \in runs, EndRun(r), UNCHANGED <<now, jobs>>,
         \/ \E op \in RowOp \ {"claim"}, at \in Nat : Write(r.worker, op, r.job, at)
         \/ ParkStep(r.worker, r.job)
         \/ UNCHANGED stmt /\ (jobs[r.job].lockedBy # r.worker \/ pool[r.worker] # "up")
  PROVE  Held' /\ NewIsClean' /\ AwaitedIsStopped'
<1>1. r.worker \in Worker /\ r.worker \in Proc /\ r.job \in Job
  BY DEF HInv, IInv, TypeOK, Run, Proc
<1>2. runs' = runs \ {r} /\ pool' = pool /\ stmt \in [Proc -> Stmt]
  BY DEF EndRun, HInv, IInv, TypeOK, QueueTypeOK
<1>3. AwaitedIsStopped'
  BY <1>2 DEF HInv, AwaitedIsStopped
<1>4. pool[r.worker] # "new"
  BY <1>1 DEF HInv, NewIsClean
<1>0. \/ Hands(r.worker, r.job)
      \/ UNCHANGED stmt /\ (jobs[r.job].lockedBy # r.worker \/ pool[r.worker] # "up")
  BY WriteHands, ParkHands
<1>5. \A w \in Worker : w # r.worker => stmt'[w] = stmt[w]
  BY <1>0, <1>1, <1>2 DEF Hands, Proc
<1>6. NewIsClean'
  BY <1>2, <1>4, <1>5 DEF HInv, NewIsClean
<1>7. ASSUME NEW j \in Job, NEW w \in Worker, jobs'[j].lockedBy = w, pool'[w] = "up"
      PROVE  Accounted(w, j)'
  <2>1. Accounted(w, j)
    BY <1>2, <1>7 DEF HInv, Held
  <2>2. CASE w # r.worker
    BY <1>2, <1>5, <2>1, <2>2 DEF Accounted
  <2>3. CASE w = r.worker /\ Hands(w, r.job)
    <3>2. stmt[w] = Idle /\ stmt'[w].op \in RowOp \ {"claim"} /\ stmt'[w].job = r.job
      BY <1>1, <1>2, <2>3 DEF Hands
    <3>3. stmt[w].op \notin RowOp
      BY <3>2 DEF Idle, RowOp
    <3>4. CASE j = r.job
      BY <3>2, <3>4 DEF Accounted
    <3>5. CASE j # r.job
      BY <1>2, <2>1, <3>3, <3>5 DEF Accounted
    <3> QED BY <3>4, <3>5
  <2>4. CASE w = r.worker /\ UNCHANGED stmt /\ jobs[r.job].lockedBy # w
    <3>1. j # r.job
      BY <1>7, <2>4
    <3> QED BY <1>2, <2>1, <2>4, <3>1 DEF Accounted
  <2> QED BY <1>0, <1>2, <1>7, <2>2, <2>3, <2>4
<1> QED BY <1>3, <1>6, <1>7 DEF Held

LEMMA DieHolds ==
  ASSUME HInv, NEW w \in Worker, NEW how \in {"dead", "rejected"}, Die(w, how)
  PROVE  Held' /\ NewIsClean' /\ AwaitedIsStopped'
<1>1. /\ pool' = [pool EXCEPT ![w] = how] /\ pool \in [Worker -> PoolState]
      /\ stmt' = [stmt EXCEPT ![w] = Idle] /\ stmt \in [Proc -> Stmt] /\ w \in Proc
      /\ jobs' = jobs
  BY DEF Die, HInv, IInv, TypeOK, QueueTypeOK, Proc
<1>2. pool'[w] = how /\ \A v \in Worker : v # w => pool'[v] = pool[v] /\ stmt'[v] = stmt[v]
  BY <1>1 DEF Proc
<1>3. runs' = {r \in runs : r.worker # w}
  BY DEF Die, RunsOf
<1>4. \A r \in runs : r.worker \in Worker
  BY DEF HInv, IInv, TypeOK, Run
<1>5. AwaitedIsStopped'
  BY <1>2, <1>3, <1>4 DEF HInv, AwaitedIsStopped
<1>6. NewIsClean'
  BY <1>1, <1>2, <1>3 DEF HInv, NewIsClean
<1>7. Held'
  BY <1>1, <1>2, <1>3 DEF HInv, Held, Accounted
<1> QED BY <1>5, <1>6, <1>7

LEMMA FailRunHolds ==
  ASSUME HInv, NEW r \in runs, NEW retryable \in BOOLEAN, FailRun(r, retryable)
  PROVE  Held' /\ NewIsClean' /\ AwaitedIsStopped'
<1> DEFINE again == r.aborted \/ retryable
<1>1. r.worker \in Worker
  BY DEF HInv, IInv, TypeOK, Run
<1>2. CASE Fail(r.worker, r.job, again) /\ EndRun(r)
  <2>1. \E op \in RowOp \ {"claim"}, at \in Nat : Write(r.worker, op, r.job, at)
    BY <1>2, FailWrites DEF HInv
  <2> QED BY <1>2, <2>1, EndHolds DEF Fail, Write
<1>3. CASE Reject(r) /\ r.awaited
  BY <1>3, EndHolds DEF Reject, queueVars, HInv, AwaitedIsStopped
<1>4. CASE Reject(r) /\ ~r.awaited
  BY <1>1, <1>4, DieHolds DEF Reject
<1> QED BY <1>2, <1>3, <1>4 DEF FailRun

LEMMA RunStepHolds ==
  ASSUME HInv, NEW r \in runs, RunStep(r)
  PROVE  Held' /\ NewIsClean' /\ AwaitedIsStopped'
<1>0. now \in Nat
  BY DEF HInv, IInv, TypeOK, QueueTypeOK
<1>1. r \in Run /\ r.worker \in Worker /\ r.job \in Job
  BY DEF HInv, IInv, TypeOK, Run
<1>2. CASE Abort(r)
  <2> DEFINE q == [r EXCEPT !.aborted = TRUE]
  <2>1. /\ q.worker = r.worker /\ q.job = r.job /\ q.claim = r.claim
        /\ q.awaited = r.awaited
    BY <1>1 DEF Run
  <2>2. runs' = (runs \ {r}) \cup {q} /\ UNCHANGED <<jobs, stmt, pool>>
    BY <1>2 DEF Abort
  <2> HIDE DEF q
  <2>3. AwaitedIsStopped' /\ NewIsClean'
    BY <2>1, <2>2 DEF HInv, AwaitedIsStopped, NewIsClean
  <2>4. ASSUME NEW j \in Job, NEW w \in Worker, Accounted(w, j)
        PROVE  Accounted(w, j)'
    BY <2>1, <2>2, <2>4 DEF Accounted
  <2> QED BY <2>2, <2>3, <2>4 DEF HInv, Held
<1>3. CASE HandlerHeartbeat(r)
  <2>1. UNCHANGED <<stmt, pool, runs>> /\ jobs \in [Job -> Row]
    BY <1>3 DEF HandlerHeartbeat, Heartbeat, HInv, IInv, TypeOK, QueueTypeOK
  <2>2. ASSUME NEW j \in Job
        PROVE  jobs'[j].lockedBy = jobs[j].lockedBy /\ jobs'[j].claims = jobs[j].claims
    BY <1>1, <1>3, <2>1 DEF HandlerHeartbeat, Heartbeat, Row
  <2> QED BY <2>1, <2>2 DEF HInv, Held, NewIsClean, AwaitedIsStopped, Accounted
<1>4. CASE HandlerReturns(r)
  <2>1. CASE Complete(r.worker, r.job) /\ EndRun(r)
    <3>1. \E op \in RowOp \ {"claim"}, at \in Nat : Write(r.worker, op, r.job, at)
      BY <1>0, <2>1 DEF Complete, RowOp
    <3> QED BY <2>1, <3>1, EndHolds DEF Complete, Write
  <2>2. CASE FailRun(r, FALSE)
    BY <2>2, FailRunHolds
  <2> QED BY <1>4, <2>1, <2>2 DEF HandlerReturns
<1>5. CASE HandlerThrows(r)
  BY <1>5, FailRunHolds DEF HandlerThrows
<1>6. CASE HandlerParks(r)
  <2>1. CASE \E ref \in Ref : MarkSubmitted(r.worker, r.job, ref)
    <3>1. ParkStep(r.worker, r.job)
      BY <2>1 DEF ParkStep
    <3> QED BY <1>6, <2>1, <3>1, EndHolds DEF HandlerParks, MarkSubmitted
  <2>2. CASE ~CanPark(r.job) /\ UNCHANGED queueVars
    <3>1. jobs[r.job].status # "running"
      BY <2>2 DEF CanPark, canTransitionJob, JOB_TRANSITIONS, JobStatus
    <3>2. jobs[r.job].lockedBy # r.worker
      BY <1>1, <3>1, QueueAssumption DEF HInv, IInv, RowDiscipline, LeaseIffRunning
    <3> QED BY <1>6, <2>2, <3>2, EndHolds DEF HandlerParks, queueVars
  <2> QED BY <1>6, <2>1, <2>2 DEF HandlerParks
<1> QED BY <1>2, <1>3, <1>4, <1>5, <1>6 DEF RunStep

(* Steps that add no lease, end no run and finish no statement of a pool     *)
(* that is up, except for the job the statement is about.                    *)
LEMMA QuietHolds ==
  ASSUME HInv, UNCHANGED <<pool, runs>>, TableStep,
         \A j \in Job : ~RowClaim(jobs[j], jobs'[j]) \/ jobs'[j].lockedBy \notin Worker,
         \A w \in Worker : \/ stmt'[w] = stmt[w]
                           \/ stmt[w] = Idle /\ pool[w] # "new"
                           \/ /\ pool[w] # "new"
                              /\ stmt[w].op \in RowOp => jobs'[stmt[w].job].lockedBy # w
  PROVE  Held' /\ NewIsClean' /\ AwaitedIsStopped'
<1>1. ASSUME NEW j \in Job, NEW w \in Worker, jobs'[j].lockedBy = w
      PROVE  jobs[j].lockedBy = w /\ jobs'[j].claims = jobs[j].claims
  BY <1>1, NewHolder DEF HInv
<1>2. ASSUME NEW j \in Job, NEW w \in Worker, jobs'[j].lockedBy = w, pool'[w] = "up"
      PROVE  Accounted(w, j)'
  <2>1. Accounted(w, j) /\ jobs'[j].claims = jobs[j].claims
    BY <1>1, <1>2 DEF HInv, Held
  <2>2. CASE \E r \in runs : r.worker = w /\ r.job = j /\ r.claim = jobs[j].claims
    BY <2>1, <2>2 DEF Accounted
  <2>3. CASE stmt[w].op \in RowOp \ {"claim"} /\ stmt[w].job = j
    <3>1. stmt[w] # Idle
      BY <2>3 DEF Idle, RowOp
    <3> QED BY <1>2, <2>3, <3>1 DEF Accounted
  <2> QED BY <2>1, <2>2, <2>3 DEF Accounted
<1>3. NewIsClean'
  BY <1>1 DEF HInv, NewIsClean
<1> QED BY <1>2, <1>3 DEF HInv, Held, AwaitedIsStopped

(* A pool that is prepared to claim has been started.                        *)
LEMMA BusyIsNotNew ==
  ASSUME HInv, NEW w \in Worker, stmt[w].op \in RowOp
  PROVE  pool[w] # "new"
  BY DEF HInv, NewIsClean, Idle, RowOp

LEMMA NoClaimUnlessTaken ==
  ASSUME IInv, NEW j \in Job, jobs'[j].claims = jobs[j].claims
  PROVE  ~RowClaim(jobs[j], jobs'[j])
<1>1. jobs[j] \in Row
  BY DEF IInv, TypeOK, QueueTypeOK
<1>2. ASSUME NEW w \in Worker, NEW at \in Nat, jobs'[j] = Claimed(jobs[j], w, at)
      PROVE  FALSE
  <2>1. Claimed(jobs[j], w, at).claims = jobs[j].claims + 1
    BY <1>1 DEF Claimed, Row
  <2> QED BY <1>1, <1>2, <2>1 DEF Row
<1> QED BY <1>2 DEF RowClaim

LEMMA PoolStepHolds ==
  ASSUME HInv, NEW w \in Worker, PoolStep(w)
  PROVE  Held' /\ NewIsClean' /\ AwaitedIsStopped'
<1>0. /\ jobs \in [Job -> Row] /\ stmt \in [Proc -> Stmt] /\ w \in Proc
      /\ pool \in [Worker -> PoolState] /\ runs \subseteq Run /\ IInv
  BY DEF HInv, IInv, TypeOK, QueueTypeOK, Proc
<1>1. CASE Start(w)
  <2>1. /\ pool' = [pool EXCEPT ![w] = "up"] /\ UNCHANGED <<stmt, runs>>
        /\ pool[w] = "new" /\ reclaimExpired
    BY <1>1 DEF Start
  <2>2. ASSUME NEW j \in Job, NEW v \in Worker, jobs'[j].lockedBy = v
        PROVE  jobs'[j] = jobs[j]
    <3>1. Released(jobs[j], "queued").lockedBy = NoWorker
      BY <1>0, PatchesSettle DEF Settled
    <3>2. jobs'[j] = jobs[j] \/ jobs'[j] = Released(jobs[j], "queued")
      BY <2>1 DEF reclaimExpired, Reclaimed
    <3> QED BY <2>2, <3>1, <3>2, QueueAssumption
  <2>3. NewIsClean'
    BY <1>0, <2>1, <2>2 DEF HInv, NewIsClean
  <2>4. ASSUME NEW j \in Job, NEW v \in Worker, jobs'[j].lockedBy = v, pool'[v] = "up"
        PROVE  Accounted(v, j)'
    <3>1. jobs'[j] = jobs[j]
      BY <2>2, <2>4
    <3>2. v # w
      BY <2>1, <2>4, <3>1 DEF HInv, NewIsClean
    <3>3. Accounted(v, j)
      BY <1>0, <2>1, <2>4, <3>1, <3>2 DEF HInv, Held
    <3> QED BY <2>1, <3>1, <3>3 DEF Accounted
  <2>5. AwaitedIsStopped'
    <3>1. ASSUME NEW r \in runs, r.awaited PROVE pool'[r.worker] # "up"
      <4>1. r.worker \in Worker /\ r.worker # w
        BY <1>0, <2>1 DEF HInv, NewIsClean, Run
      <4> QED BY <1>0, <2>1, <3>1, <4>1 DEF HInv, AwaitedIsStopped
    <3> QED BY <2>1, <3>1 DEF AwaitedIsStopped
  <2> QED BY <2>3, <2>4, <2>5 DEF Held
<1>2. CASE TickClaim(w)
  <2>1. stmt[w] = Idle /\ pool[w] = "up" /\ UNCHANGED <<now, jobs, pool, runs>>
    BY <1>2 DEF TickClaim, ClaimSelect, Prepare
  <2>2. \A v \in Worker : v # w => stmt'[v] = stmt[v]
    BY <1>0, <1>2 DEF TickClaim, ClaimSelect, Prepare, Proc
  <2>3. \A j \in Job : ~RowClaim(jobs[j], jobs'[j])
    BY <1>0, <2>1, NoClaimUnlessTaken
  <2> QED BY <2>1, <2>2, <2>3, QuietHolds DEF TableStep
<1>3. CASE TickRun(w)
  <2> DEFINE j == stmt[w].job
             q == NewRun(w)
  <2>1. j \in Job /\ stmt[w].at \in Nat
    BY <1>0, <1>3, ClaimUpdateOK DEF TickRun
  <2>2. stmt[w].op = "claim" /\ UNCHANGED <<now, pool>> /\ stmt' = [stmt EXCEPT ![w] = Idle]
    BY <1>3 DEF TickRun, ClaimUpdate, Pending, Finish
  <2>3. pool[w] # "new" /\ \A v \in Worker : v # w => stmt'[v] = stmt[v]
    BY <1>0, <2>2, BusyIsNotNew DEF Proc, RowOp
  <2>4. CASE ~ClaimGuard(w)
    <3>1. UNCHANGED <<jobs, runs>>
      BY <1>3, <2>4 DEF TickRun, ClaimUpdate
    <3>2. NewIsClean' /\ AwaitedIsStopped'
      BY <2>2, <2>3, <3>1 DEF HInv, NewIsClean, AwaitedIsStopped
    <3>3. ASSUME NEW i \in Job, NEW v \in Worker, Accounted(v, i)
          PROVE  Accounted(v, i)'
      BY <2>2, <2>3, <3>1, <3>3 DEF Accounted
    <3> QED BY <2>2, <3>1, <3>2, <3>3 DEF HInv, Held
  <2>5. CASE ClaimGuard(w)
    <3>1. /\ jobs' = [jobs EXCEPT ![j] = Claimed(jobs[j], w, stmt[w].at)]
          /\ runs' = runs \cup {q}
      BY <1>3, <2>5 DEF TickRun, ClaimUpdate
    <3>2. /\ q.worker = w /\ q.job = j /\ q.claim = jobs[j].claims + 1
          /\ q.awaited = FALSE
      BY DEF NewRun
    <3>3. /\ Claimed(jobs[j], w, stmt[w].at).lockedBy = w
          /\ Claimed(jobs[j], w, stmt[w].at).claims = jobs[j].claims + 1
      BY <1>0, <2>1 DEF Claimed, Row
    <3> HIDE DEF q
    <3>4. /\ jobs'[j].lockedBy = w /\ jobs'[j].claims = jobs[j].claims + 1
          /\ \A i \in Job : i # j => jobs'[i] = jobs[i]
      BY <1>0, <2>1, <3>1, <3>3
    <3>5. AwaitedIsStopped'
      BY <2>2, <3>1, <3>2 DEF HInv, AwaitedIsStopped
    <3>6. NewIsClean'
      BY <2>2, <2>3, <3>1, <3>2, <3>4 DEF HInv, NewIsClean
    <3>7. ASSUME NEW i \in Job, NEW v \in Worker, jobs'[i].lockedBy = v, pool'[v] = "up"
          PROVE  Accounted(v, i)'
      <4>1. CASE i = j
        <5>1. q \in runs' /\ v = w
          BY <3>1, <3>4, <3>7, <4>1
        <5> QED BY <3>2, <3>4, <4>1, <5>1 DEF Accounted
      <4>2. CASE i # j
        <5>1. Accounted(v, i) /\ jobs'[i] = jobs[i]
          BY <2>2, <3>4, <3>7, <4>2 DEF HInv, Held
        <5> QED BY <2>2, <2>3, <3>1, <4>2, <5>1 DEF Accounted
      <4> QED BY <4>1, <4>2
    <3> QED BY <3>5, <3>6, <3>7 DEF Held
  <2> QED BY <2>4, <2>5
<1>4. CASE Stop(w)
  <2>1. /\ pool' = [pool EXCEPT ![w] = "stopped"] /\ UNCHANGED <<jobs, stmt>>
        /\ runs' = {r \in runs : r.worker # w}
                     \cup {[r EXCEPT !.awaited = TRUE] : r \in {q \in runs : q.worker = w}}
    BY <1>4 DEF Stop, RunsOf, queueVars
  <2>2. \A r \in runs : [r EXCEPT !.awaited = TRUE].worker = r.worker
    BY <1>0 DEF Run
  <2>3. pool'[w] = "stopped" /\ \A v \in Worker : v # w => pool'[v] = pool[v]
    BY <1>0, <2>1
  <2>4. \A r \in runs' : r.worker = w \/ r \in runs
    BY <2>1, <2>2
  <2>5. AwaitedIsStopped'
    <3>1. \A r \in runs : r.worker \in Worker
      BY <1>0 DEF Run
    <3> QED BY <2>3, <2>4, <3>1 DEF HInv, AwaitedIsStopped
  <2>6. NewIsClean'
    BY <2>1, <2>3, <2>4 DEF HInv, NewIsClean
  <2>7. \A r \in runs : r.worker # w => r \in runs'
    BY <2>1
  <2>8. Held'
    BY <2>1, <2>3, <2>7 DEF HInv, Held, Accounted
  <2> QED BY <2>5, <2>6, <2>8
<1>5. CASE Kill(w)
  BY <1>5, DieHolds DEF Kill
<1> QED BY <1>1, <1>2, <1>3, <1>4, <1>5 DEF PoolStep

LEMMA OtherStepHolds ==
  ASSUME HInv, TableStep, UNCHANGED <<pool, runs>>,
         \/ \E p \in Proc : UpdateOf(p)
         \/ \E p \in Api : ApiCall(p)
         \/ TickClock
  PROVE  Held' /\ NewIsClean' /\ AwaitedIsStopped'
<1>0. IInv /\ jobs \in [Job -> Row] /\ stmt \in [Proc -> Stmt]
  BY DEF HInv, IInv, TypeOK, QueueTypeOK
<1>1. ASSUME NEW p \in Proc, UpdateOf(p)
      PROVE  Held' /\ NewIsClean' /\ AwaitedIsStopped'
  <2> DEFINE j == stmt[p].job
  <2>1. /\ stmt[p].op \in RowOp /\ j \in Job
        /\ Settled(jobs'[j]) /\ OneRow(j)
    BY <1>0, <1>1, UpdateSettles DEF UpdateOf
  <2>2. stmt' = [stmt EXCEPT ![p] = Idle]
    BY <1>1 DEF UpdateOf, Update, Finish
  <2>3. jobs'[j].lockedBy \notin Worker
    BY <2>1, QueueAssumption DEF Settled
  <2>4. ASSUME NEW i \in Job, i # j PROVE ~RowClaim(jobs[i], jobs'[i])
    <3>1. jobs'[i] = jobs[i]
      BY <1>0, <2>1, <2>4 DEF OneRow
    <3> QED BY <1>0, <3>1, NoClaimUnlessTaken
  <2>5. ASSUME NEW w \in Worker
        PROVE  \/ stmt'[w] = stmt[w]
               \/ /\ pool[w] # "new"
                  /\ stmt[w].op \in RowOp => jobs'[stmt[w].job].lockedBy # w
    <3>1. CASE w = p
      BY <2>1, <2>3, <3>1, BusyIsNotNew
    <3>2. CASE w # p
      BY <1>0, <2>2, <3>2 DEF Proc
    <3> QED BY <3>1, <3>2
  <2> QED BY <2>3, <2>4, <2>5, QuietHolds
<1>2. ASSUME NEW p \in Api, ApiCall(p)
      PROVE  Held' /\ NewIsClean' /\ AwaitedIsStopped'
  <2>1. \A w \in Worker : stmt'[w] = stmt[w]
    <3>1. \A w \in Worker : w # p /\ w \in Proc
      BY QueueAssumption DEF Proc
    <3> QED BY <1>0, <1>2, <3>1 DEF ApiCall, Enqueue, EnqueueInsert, Cancel, Retry, Write,
               Prepare, Finish
  <2>2. ASSUME NEW i \in Job
        PROVE  ~RowClaim(jobs[i], jobs'[i]) \/ jobs'[i].lockedBy \notin Worker
    <3>1. CASE jobs'[i] = jobs[i]
      BY <1>0, <3>1, NoClaimUnlessTaken
    <3>2. CASE jobs'[i] # jobs[i]
      <4>1. EnqueueInsert(p) /\ jobs' # jobs
        BY <1>2, <3>2 DEF ApiCall, Enqueue, Cancel, Retry, Write
      <4>2. PICK j \in Job, d \in Delay :
              jobs' = [jobs EXCEPT ![j] =
                         [AbsentRow EXCEPT !.status = "queued", !.key = stmt[p].key,
                                           !.runAt = stmt[p].at + d]]
        BY <4>1 DEF EnqueueInsert
      <4>3. jobs'[i] = [AbsentRow EXCEPT !.status = "queued", !.key = stmt[p].key,
                                         !.runAt = stmt[p].at + d]
        BY <1>0, <3>2, <4>2
      <4>4. jobs'[i].lockedBy = NoWorker
        BY <4>3 DEF AbsentRow
      <4> QED BY <4>4, QueueAssumption
    <3> QED BY <3>1, <3>2
  <2> QED BY <2>1, <2>2, QuietHolds
<1>3. CASE TickClock
  <2>1. UNCHANGED <<jobs, stmt>>
    BY <1>3 DEF TickClock, Tick
  <2>2. \A i \in Job : ~RowClaim(jobs[i], jobs'[i])
    BY <1>0, <2>1, NoClaimUnlessTaken
  <2> QED BY <2>1, <2>2, QuietHolds
<1> QED BY <1>1, <1>2, <1>3

LEMMA HoldsInit == Init => HInv
<1> SUFFICES ASSUME Init PROVE HInv
  OBVIOUS
<1>1. IInv
  BY InitOK
<1>2. /\ \A j \in Job : jobs[j] = AbsentRow
      /\ \A p \in Proc : stmt[p] = Idle
      /\ runs = {} /\ \A w \in Worker : pool[w] = "new"
  BY DEF Init, QueueInit
<1>3. \A j \in Job : jobs[j].lockedBy = NoWorker
  BY <1>2 DEF AbsentRow
<1>4. Held
  BY <1>2 DEF Held
<1>5. NewIsClean
  <2>1. Worker \subseteq Proc
    BY DEF Proc
  <2> QED BY <1>2, <1>3, <2>1, QueueAssumption DEF NewIsClean
<1>6. AwaitedIsStopped
  BY <1>2 DEF AwaitedIsStopped
<1> QED BY <1>1, <1>4, <1>5, <1>6 DEF HInv

LEMMA HoldsStep == HInv /\ [Next]_vars => HInv'
<1> SUFFICES ASSUME HInv, [Next]_vars PROVE HInv'
  OBVIOUS
<1>1. IInv' /\ TableStep
  BY StepOK, TableSteps DEF HInv
<1>2. ASSUME NEW w \in Worker, PoolStep(w) PROVE Held' /\ NewIsClean' /\ AwaitedIsStopped'
  BY <1>2, PoolStepHolds
<1>3. ASSUME NEW r \in runs, RunStep(r) PROVE Held' /\ NewIsClean' /\ AwaitedIsStopped'
  BY <1>3, RunStepHolds
<1>4. ASSUME NEW p \in Proc, UpdateOf(p) PROVE Held' /\ NewIsClean' /\ AwaitedIsStopped'
  <2>1. UNCHANGED <<pool, runs>>
    BY <1>4 DEF UpdateOf
  <2> QED BY <1>1, <1>4, <2>1, OtherStepHolds
<1>5. ASSUME NEW p \in Api, ApiCall(p) PROVE Held' /\ NewIsClean' /\ AwaitedIsStopped'
  <2>1. UNCHANGED <<pool, runs>>
    BY <1>5 DEF ApiCall
  <2> QED BY <1>1, <1>5, <2>1, OtherStepHolds
<1>6. CASE TickClock
  <2>1. UNCHANGED <<pool, runs>>
    BY <1>6 DEF TickClock
  <2>2. Held' /\ NewIsClean' /\ AwaitedIsStopped'
    BY <1>1, <1>6, <2>1, OtherStepHolds
  <2> QED BY <1>1, <2>2 DEF HInv
<1>7. CASE UNCHANGED vars
  <2>1. now' = now /\ jobs' = jobs /\ stmt' = stmt /\ pool' = pool /\ runs' = runs
    BY <1>7 DEF vars
  <2>2. Held'
    BY <2>1 DEF HInv, Held, Accounted
  <2>3. NewIsClean'
    BY <2>1 DEF HInv, NewIsClean
  <2>4. AwaitedIsStopped'
    BY <2>1 DEF HInv, AwaitedIsStopped
  <2> QED BY <1>1, <2>2, <2>3, <2>4 DEF HInv
<1>8. ASSUME Next PROVE HInv'
  BY <1>1, <1>2, <1>3, <1>4, <1>5, <1>6, <1>8 DEF Next, HInv
<1> QED BY <1>7, <1>8

(* A pool that is up accounts for every job it holds: the claiming run is in *)
(* flight, or its last statement is pending.                                 *)
THEOREM NoOrphan == Spec => []NoOrphanUnderLivePool
<1>1. HInv => NoOrphanUnderLivePool
  BY DEF HInv, Held, Accounted, NoOrphanUnderLivePool, RunsOf, Idle, RowOp
<1> QED BY <1>1, HoldsInit, HoldsStep, PTL DEF Spec

-----------------------------------------------------------------------------
(* Keys and external references                                              *)

(* What every statement but an insert and a parking does to a row.           *)
RowKept(old, new) ==
  /\ new.key = old.key
  /\ old.ref # NoRef /\ new.ref # old.ref => new.status = "completed"
  /\ new.status = "absent" => new = old

Inserted(j) ==
  /\ jobs[j].status = "absent"
  /\ jobs' = [jobs EXCEPT ![j] = jobs'[j]]
  /\ jobs'[j].status = "queued"
  /\ jobs'[j].key = NoKey \/ \A i \in Job : jobs[i].key # jobs'[j].key

(* A parking keeps the key and brings the id its statement carries.          *)
ParkedBy(p) ==
  LET j == stmt[p].job
  IN /\ Pending(p, "park") /\ j \in Job
     /\ \A i \in Job \ {j} : jobs'[i] = jobs[i]
     /\ jobs'[j].status = "submitted" /\ jobs'[j].key = jobs[j].key
     /\ jobs'[j].ref = stmt[p].ref

KeepingStep ==
  \/ \A j \in Job : RowKept(jobs[j], jobs'[j])
  \/ \E p \in Proc : ParkedBy(p)
  \/ \E j \in Job : Inserted(j)

LEMMA PatchesKeep ==
  ASSUME NEW row \in Row, NEW t \in Nat
  PROVE  /\ RowKept(row, Completed(row))
         /\ \A ref \in Ref : /\ Parked(row, t, ref).status = "submitted"
                             /\ Parked(row, t, ref).key = row.key
                             /\ Parked(row, t, ref).ref = ref
         /\ RowKept(row, Requeued(row, t))
         /\ RowKept(row, DeadLettered(row))
         /\ RowKept(row, Released(row, "cancelled"))
         /\ RowKept(row, Released(row, "queued"))
         /\ RowKept(row, Retried(row, t))
<1> DEFINE rel(st) == Released(row, st)
<1>1. ASSUME NEW st \in JobStatus
      PROVE  /\ rel(st) \in Row /\ rel(st).key = row.key /\ rel(st).ref = row.ref
             /\ rel(st).status = st
  BY DEF Row, NULL, Released
<1>2. \A st \in {"completed", "submitted", "queued", "failed", "cancelled"} :
        /\ rel(st) \in Row /\ rel(st).key = row.key /\ rel(st).ref = row.ref
        /\ rel(st).status = st
  BY <1>1 DEF JobStatus
<1> HIDE DEF rel
<1>3. /\ Completed(row) = [rel("completed") EXCEPT !.ref = NoRef]
      /\ \A ref : Parked(row, t, ref) = [rel("submitted") EXCEPT !.runAt = t, !.ref = ref]
      /\ Requeued(row, t) = [rel("queued") EXCEPT !.runAt = t]
      /\ DeadLettered(row) = [rel("failed") EXCEPT !.deadLettered = TRUE]
      /\ Retried(row, t) = [rel("queued") EXCEPT !.runAt = t, !.attempts = 0,
                                                 !.deadLettered = FALSE]
  BY DEF Completed, Parked, Requeued, DeadLettered, Retried, rel
<1>4. RowKept(row, Completed(row))
  BY <1>2, <1>3 DEF Row, RowKept
<1>5. ASSUME NEW ref \in Ref
      PROVE  /\ Parked(row, t, ref).status = "submitted"
             /\ Parked(row, t, ref).key = row.key
             /\ Parked(row, t, ref).ref = ref
  <2>1. Parked(row, t, ref) = [rel("submitted") EXCEPT !.runAt = t, !.ref = ref]
    BY <1>3
  <2> QED BY <1>2, <2>1 DEF Row
<1>6. RowKept(row, Requeued(row, t))
  BY <1>2, <1>3 DEF Row, RowKept
<1>7. RowKept(row, DeadLettered(row))
  BY <1>2, <1>3 DEF Row, RowKept
<1>8. RowKept(row, Retried(row, t))
  BY <1>2, <1>3 DEF Row, RowKept
<1>9. RowKept(row, rel("cancelled")) /\ RowKept(row, rel("queued"))
  BY <1>2 DEF RowKept
<1> QED BY <1>4, <1>5, <1>6, <1>7, <1>8, <1>9 DEF rel

(* A statement on one row that keeps it keeps the table.                     *)
LEMMA OneRowKept ==
  ASSUME NEW j \in Job, NEW row, jobs \in [Job -> Row],
         jobs' = [jobs EXCEPT ![j] = row], RowKept(jobs[j], row)
  PROVE  KeepingStep
<1>1. \A i \in Job : jobs'[i] = IF i = j THEN row ELSE jobs[i]
  OBVIOUS
<1> QED BY <1>1 DEF KeepingStep, RowKept

LEMMA TableKeeps == IInv /\ [Next]_vars => KeepingStep
<1> SUFFICES ASSUME IInv, [Next]_vars PROVE KeepingStep
  OBVIOUS
<1>0. jobs \in [Job -> Row] /\ now \in Nat
  BY DEF IInv, TypeOK, QueueTypeOK
<1>a. UNCHANGED jobs => KeepingStep
  BY DEF KeepingStep, RowKept
<1>1. ASSUME NEW w \in Worker, PoolStep(w) PROVE KeepingStep
  <2>1. CASE Start(w)
    <3>1. \A j \in Job : jobs'[j] = Reclaimed(jobs[j])
      BY <2>1 DEF Start, reclaimExpired
    <3>2. ASSUME NEW j \in Job PROVE RowKept(jobs[j], jobs'[j])
      <4>1. jobs'[j] = jobs[j] \/ jobs'[j] = Released(jobs[j], "queued")
        BY <3>1 DEF Reclaimed
      <4>2. RowKept(jobs[j], Released(jobs[j], "queued"))
        BY <1>0, PatchesKeep
      <4> QED BY <4>1, <4>2 DEF RowKept
    <3> QED BY <3>2 DEF KeepingStep
  <2>2. CASE TickClaim(w) \/ Stop(w) \/ Kill(w)
    BY <1>a, <2>2 DEF TickClaim, ClaimSelect, Stop, Kill, Die, queueVars
  <2>3. CASE TickRun(w)
    <3> DEFINE j == stmt[w].job
    <3>1. ClaimUpdate(w)
      BY <2>3 DEF TickRun
    <3>2. j \in Job /\ stmt[w].at \in Nat
      BY <3>1, ClaimUpdateOK
    <3>3. CASE ClaimGuard(w)
      <4>1. jobs' = [jobs EXCEPT ![j] = Claimed(jobs[j], w, stmt[w].at)]
        BY <3>1, <3>3 DEF ClaimUpdate
      <4>2. RowKept(jobs[j], Claimed(jobs[j], w, stmt[w].at))
        <5>1. jobs[j] \in Row
          BY <1>0, <3>2
        <5> QED BY <5>1 DEF RowKept, Claimed, Row
      <4> QED BY <1>0, <3>2, <4>1, <4>2, OneRowKept
    <3>4. CASE ~ClaimGuard(w)
      BY <1>a, <3>1, <3>4 DEF ClaimUpdate
    <3> QED BY <3>3, <3>4
  <2> QED BY <1>1, <2>1, <2>2, <2>3 DEF PoolStep
<1>2. ASSUME NEW r \in runs, RunStep(r) PROVE KeepingStep
  <2>1. CASE HandlerHeartbeat(r)
    <3> DEFINE j == r.job
               u == now + Extra
    <3>1. j \in Job /\ r.worker \in Worker
      BY DEF IInv, TypeOK, Run
    <3>2. /\ jobs' = [jobs EXCEPT ![j] = [jobs[j] EXCEPT !.lockedUntil = u]]
          /\ jobs[j].lockedBy # NoWorker
      BY <2>1, <3>1, QueueAssumption DEF HandlerHeartbeat, Heartbeat
    <3> HIDE DEF u
    <3>3. jobs[j].status = "running" /\ jobs[j] \in Row
      BY <1>0, <3>1, <3>2 DEF IInv, RowDiscipline, LeaseIffRunning
    <3>4. RowKept(jobs[j], [jobs[j] EXCEPT !.lockedUntil = u])
      BY <3>3 DEF RowKept, Row
    <3> QED BY <1>0, <3>1, <3>2, <3>4, OneRowKept
  <2>2. CASE ~HandlerHeartbeat(r)
    BY <1>2, <1>a, <2>2 DEF RunStep, Abort, HandlerReturns, HandlerThrows, HandlerParks,
       FailRun, Reject, Die, Complete, Fail, MarkSubmitted, Write, queueVars
  <2> QED BY <2>1, <2>2
<1>3. ASSUME NEW p \in Proc, UpdateOf(p) PROVE KeepingStep
  <2> DEFINE j == stmt[p].job
             at == stmt[p].at
  <2>1. Update(p) /\ j \in Job
    BY <1>3, UpdateSettles DEF UpdateOf
  <2>2. at \in Nat
    <3>1. stmt[p] \in Stmt /\ stmt[p].op \in RowOp
      BY <2>1, UpdateSettles DEF IInv, TypeOK, QueueTypeOK
    <3> QED BY <3>1, StatementFields
  <2>3. \/ jobs' = [jobs EXCEPT ![j] = Completed(jobs[j])]
        \/ Pending(p, "park") /\ jobs' = [jobs EXCEPT ![j] = Parked(jobs[j], at, stmt[p].ref)]
        \/ jobs' = [jobs EXCEPT ![j] = Requeued(jobs[j], at)]
        \/ jobs' = [jobs EXCEPT ![j] = DeadLettered(jobs[j])]
        \/ jobs' = [jobs EXCEPT ![j] = Released(jobs[j], "cancelled")]
        \/ jobs' = [jobs EXCEPT ![j] = Retried(jobs[j], at)]
    BY <2>1 DEF Update
  <2>4. CASE Pending(p, "park") /\ jobs' = [jobs EXCEPT ![j] = Parked(jobs[j], at, stmt[p].ref)]
    <3>1. stmt[p].ref \in Ref
      BY <2>4, StatementFields DEF Pending, IInv, TypeOK, QueueTypeOK
    <3>2. jobs'[j] = Parked(jobs[j], at, stmt[p].ref) /\ \A i \in Job \ {j} : jobs'[i] = jobs[i]
      BY <1>0, <2>1, <2>4
    <3>3. ParkedBy(p)
      BY <1>0, <2>1, <2>2, <2>4, <3>1, <3>2, PatchesKeep DEF ParkedBy
    <3> QED BY <3>3 DEF KeepingStep
  <2>5. CASE \E row : jobs' = [jobs EXCEPT ![j] = row] /\ RowKept(jobs[j], row)
    BY <1>0, <2>1, <2>5, OneRowKept
  <2> QED BY <1>0, <2>1, <2>2, <2>3, <2>4, <2>5, PatchesKeep
<1>4. ASSUME NEW p \in Api, ApiCall(p) PROVE KeepingStep
  <2>1. CASE EnqueueInsert(p) /\ ~UNCHANGED jobs
    <3> DEFINE new(d) == [AbsentRow EXCEPT !.status = "queued", !.key = stmt[p].key,
                                           !.runAt = stmt[p].at + d]
    <3>1. PICK j \in Job, d \in Delay : ~Exists(j) /\ jobs' = [jobs EXCEPT ![j] = new(d)]
      BY <2>1 DEF EnqueueInsert
    <3>2. stmt[p].key = NoKey \/ \A i \in Job : jobs[i].key # stmt[p].key
      BY <2>1 DEF EnqueueInsert
    <3>3. new(d).status = "queued" /\ new(d).key = stmt[p].key
      BY DEF AbsentRow
    <3>4. jobs'[j] = new(d)
      BY <1>0, <3>1
    <3> HIDE DEF new
    <3>5. Inserted(j)
      BY <3>1, <3>2, <3>3, <3>4 DEF Inserted, Exists
    <3> QED BY <3>5 DEF KeepingStep
  <2>2. CASE ~EnqueueInsert(p) \/ UNCHANGED jobs
    BY <1>4, <1>a, <2>2 DEF ApiCall, Enqueue, Cancel, Retry, Write
  <2> QED BY <2>1, <2>2
<1>5. CASE TickClock \/ UNCHANGED vars
  BY <1>5, <1>a DEF TickClock, Tick, vars
<1> QED BY <1>1, <1>2, <1>3, <1>4, <1>5 DEF Next

(* Rows that are not there yet are blank, and keys name one row each.        *)
KeyInv ==
  /\ \A j \in Job : jobs[j].status = "absent" => jobs[j].key = NoKey /\ jobs[j].ref = NoRef
  /\ \A i, j \in Job : jobs[i].key = jobs[j].key /\ jobs[i].key # NoKey => i = j

(* What a step may do to the ids the table holds.                            *)
RefStep ==
  \A j \in Job :
    jobs[j].ref # NoRef /\ jobs'[j].ref # jobs[j].ref =>
      \/ jobs'[j].status = "completed"
      \/ /\ jobs'[j].status = "submitted"
         /\ \E p \in Proc : /\ Pending(p, "park") /\ stmt[p].job = j
                           /\ stmt[p].ref = jobs'[j].ref

LEMMA KeyInitOK == Init => KeyInv
BY DEF Init, QueueInit, KeyInv, AbsentRow

LEMMA KeyStepOK ==
  ASSUME IInv, KeyInv, KeepingStep
  PROVE  /\ KeyInv'
         /\ RefStep
         /\ \A j \in Job : jobs[j].key # NoKey => jobs'[j].key = jobs[j].key
<1>1. CASE \A j \in Job : RowKept(jobs[j], jobs'[j])
  BY <1>1 DEF KeyInv, RowKept, RefStep
<1>2. ASSUME NEW j \in Job, Inserted(j)
      PROVE  /\ KeyInv'
             /\ RefStep
             /\ \A i \in Job : jobs[i].key # NoKey => jobs'[i].key = jobs[i].key
  <2>1. \A i \in Job \ {j} : jobs'[i] = jobs[i]
    BY <1>2 DEF Inserted, IInv, TypeOK, QueueTypeOK
  <2>2. /\ jobs[j].key = NoKey /\ jobs[j].ref = NoRef /\ jobs'[j].status = "queued"
        /\ jobs'[j].key = NoKey \/ \A i \in Job : jobs[i].key # jobs'[j].key
    BY <1>2 DEF Inserted, KeyInv
  <2> QED BY <2>1, <2>2 DEF KeyInv, RefStep
<1>3. ASSUME NEW p \in Proc, ParkedBy(p)
      PROVE  /\ KeyInv'
             /\ RefStep
             /\ \A i \in Job : jobs[i].key # NoKey => jobs'[i].key = jobs[i].key
  <2>1. \A i \in Job : jobs'[i].key = jobs[i].key
    BY <1>3 DEF ParkedBy
  <2>2. \A i \in Job : jobs'[i].status = "absent" => jobs'[i] = jobs[i]
    BY <1>3 DEF ParkedBy
  <2>3. RefStep
    BY <1>3 DEF ParkedBy, RefStep
  <2> QED BY <2>1, <2>2, <2>3 DEF KeyInv
<1> QED BY <1>1, <1>2, <1>3 DEF KeepingStep

LEMMA KeysInvariant == Spec => []KeyInv
<1>1. IInv /\ KeyInv /\ [Next]_vars => KeyInv'
  BY TableKeeps, KeyStepOK
<1> QED BY <1>1, KeyInitOK, Invariance, PTL DEF Spec

(* A provider's id, once recorded, survives lease expiry, failure, cancel    *)
(* and retry; only completing the job drops it, and only a parking of that   *)
(* job replaces it, by the id the parking run brings.                        *)
THEOREM RefKept == Spec => RefSurvives
<1>1. IInv /\ KeyInv /\ [Next]_vars =>
        [RefStep]_vars
  BY TableKeeps, KeyStepOK
<1> QED BY <1>1, Invariance, KeysInvariant, PTL DEF Spec, RefSurvives, RefStep

(* Whatever processes enqueue under one key at once, one row is there for    *)
(* it, for ever.                                                             *)
THEOREM OneJobPerKey == Spec => KeyNamesOneJob
<1>1. IInv /\ KeyInv /\ [Next]_vars =>
        [\A i, j \in Job :
           /\ jobs'[i].key = jobs'[j].key /\ jobs'[i].key # NoKey => i = j
           /\ jobs[i].key # NoKey => jobs'[i].key = jobs[i].key]_vars
  <2> SUFFICES ASSUME IInv, KeyInv, [Next]_vars
               PROVE  \A i, j \in Job :
                        /\ jobs'[i].key = jobs'[j].key /\ jobs'[i].key # NoKey => i = j
                        /\ jobs[i].key # NoKey => jobs'[i].key = jobs[i].key
    OBVIOUS
  <2>1. KeyInv' /\ \A j \in Job : jobs[j].key # NoKey => jobs'[j].key = jobs[j].key
    BY TableKeeps, KeyStepOK
  <2> QED BY <2>1 DEF KeyInv
<1> QED BY <1>1, Invariance, KeysInvariant, PTL DEF Spec, KeyNamesOneJob

-----------------------------------------------------------------------------
(* Capacity                                                                  *)

(* A pool whose tick is between the SELECT and the UPDATE of a claim has a   *)
(* place left for the run that may come of it.                               *)
Capacity ==
  \A w \in Worker :
    /\ IsFiniteSet(RunsOf(w)) /\ Cardinality(RunsOf(w)) <= Concurrency
    /\ stmt[w].op = "claim" => Cardinality(RunsOf(w)) < Concurrency

LEMMA CapacityInit == Init => Capacity
<1> SUFFICES ASSUME Init, NEW w \in Worker
             PROVE  /\ IsFiniteSet(RunsOf(w)) /\ Cardinality(RunsOf(w)) <= Concurrency
                    /\ stmt[w].op = "claim" => Cardinality(RunsOf(w)) < Concurrency
  BY DEF Capacity
<1>1. RunsOf(w) = {}
  BY DEF Init, RunsOf
<1> QED BY <1>1, FS_EmptySet, PoolAssumption

(* Where no pool gets more runs and none begins a claim, capacity stays.     *)
LEMMA CapacityKept ==
  ASSUME Capacity,
         \A w \in Worker :
           /\ IsFiniteSet(RunsOf(w)') /\ Cardinality(RunsOf(w)') <= Cardinality(RunsOf(w))
           /\ stmt'[w].op = "claim" => stmt[w].op = "claim"
  PROVE  Capacity'
<1> SUFFICES ASSUME NEW w \in Worker
             PROVE  /\ IsFiniteSet(RunsOf(w)') /\ Cardinality(RunsOf(w)') <= Concurrency
                    /\ stmt'[w].op = "claim" => Cardinality(RunsOf(w)') < Concurrency
  BY DEF Capacity
<1>1. /\ IsFiniteSet(RunsOf(w)) /\ Cardinality(RunsOf(w)) <= Concurrency
      /\ stmt[w].op = "claim" => Cardinality(RunsOf(w)) < Concurrency
  BY DEF Capacity
<1>2. IsFiniteSet(RunsOf(w)') /\ Cardinality(RunsOf(w)') <= Cardinality(RunsOf(w))
  OBVIOUS
<1>3. Cardinality(RunsOf(w)) \in Nat /\ Cardinality(RunsOf(w)') \in Nat
  BY <1>1, <1>2, FS_CardinalityType
<1> QED BY <1>1, <1>2, <1>3, PoolAssumption

LEMMA FewerRuns ==
  ASSUME Capacity, NEW w \in Worker, RunsOf(w)' \subseteq RunsOf(w)
  PROVE  IsFiniteSet(RunsOf(w)') /\ Cardinality(RunsOf(w)') <= Cardinality(RunsOf(w))
<1>1. IsFiniteSet(RunsOf(w))
  BY DEF Capacity
<1> QED BY <1>1, FS_Subset

LEMMA CapacityStep == IInv /\ Capacity /\ [Next]_vars => Capacity'
<1> SUFFICES ASSUME IInv, Capacity, [Next]_vars PROVE Capacity'
  OBVIOUS
<1>0. /\ stmt \in [Proc -> Stmt] /\ Worker \subseteq Proc
      /\ \A r \in runs : r \in Run /\ r.worker \in Worker
  BY DEF IInv, TypeOK, QueueTypeOK, Proc, Run
(* Runs go, and no claim begins.                                             *)
<1>a. ASSUME runs' \subseteq runs,
             \A w \in Worker : stmt'[w].op = "claim" => stmt[w].op = "claim"
      PROVE  Capacity'
  <2>1. \A w \in Worker : RunsOf(w)' \subseteq RunsOf(w)
    BY <1>a DEF RunsOf
  <2> QED BY <1>a, <2>1, FewerRuns, CapacityKept
<1>1. ASSUME NEW w \in Worker, Start(w) \/ Kill(w) PROVE Capacity'
  BY <1>0, <1>1, <1>a DEF Start, Kill, Die, Idle
<1>2. ASSUME NEW w \in Worker, TickClaim(w) PROVE Capacity'
  <2>1. runs' = runs /\ Cardinality(RunsOf(w)) < Concurrency
    BY <1>2 DEF TickClaim
  <2>2. \A v \in Worker : v # w => stmt'[v] = stmt[v]
    BY <1>0, <1>2 DEF TickClaim, ClaimSelect, Prepare
  <2>3. \A v \in Worker : RunsOf(v)' = RunsOf(v)
    BY <2>1 DEF RunsOf
  <2> QED BY <2>1, <2>2, <2>3 DEF Capacity
<1>3. ASSUME NEW w \in Worker, TickRun(w) PROVE Capacity'
  <2>1. /\ stmt[w].op = "claim" /\ stmt' = [stmt EXCEPT ![w] = Idle]
        /\ runs' = runs \/ runs' = runs \cup {NewRun(w)}
    BY <1>3 DEF TickRun, ClaimUpdate, Pending, Finish
  <2>2. \A v \in Worker : IF v = w THEN stmt'[v].op # "claim" ELSE stmt'[v] = stmt[v]
    BY <1>0, <2>1 DEF Idle
  <2>3. CASE runs' = runs
    BY <1>a, <2>2, <2>3
  <2>4. CASE runs' = runs \cup {NewRun(w)}
    <3>1. NewRun(w).worker = w
      BY DEF NewRun
    <3> HIDE DEF NewRun
    <3>2. /\ RunsOf(w)' = RunsOf(w) \cup {NewRun(w)}
          /\ \A v \in Worker : v # w => RunsOf(v)' = RunsOf(v)
      BY <2>4, <3>1 DEF RunsOf
    <3>3. /\ IsFiniteSet(RunsOf(w)) /\ Cardinality(RunsOf(w)) < Concurrency
          /\ Cardinality(RunsOf(w)) \in Nat
      BY <2>1, FS_CardinalityType DEF Capacity
    <3>4. /\ IsFiniteSet(RunsOf(w)')
          /\ Cardinality(RunsOf(w)') <= Cardinality(RunsOf(w)) + 1
      BY <3>2, <3>3, FS_AddElement
    <3>5. Cardinality(RunsOf(w)') <= Concurrency
      <4>1. Cardinality(RunsOf(w)') \in Nat
        BY <3>4, FS_CardinalityType
      <4> QED BY <3>3, <3>4, <4>1, PoolAssumption
    <3> QED BY <2>2, <3>2, <3>4, <3>5 DEF Capacity
  <2> QED BY <2>1, <2>3, <2>4
(* stop() marks the runs in flight, which does not make more of them.        *)
<1>4. ASSUME NEW w \in Worker, Stop(w) PROVE Capacity'
  <2> DEFINE f == [r \in RunsOf(w) |-> [r EXCEPT !.awaited = TRUE]]
             T == {[r EXCEPT !.awaited = TRUE] : r \in RunsOf(w)}
  <2>1. runs' = (runs \ RunsOf(w)) \cup T /\ stmt' = stmt
    BY <1>4 DEF Stop, queueVars
  <2>2. \A r \in T : r.worker = w
    BY <1>0 DEF RunsOf, Run
  <2>3. IsFiniteSet(RunsOf(w))
    BY DEF Capacity
  <2>4. f \in Surjection(RunsOf(w), T)
    BY DEF Surjection
  <2>5. IsFiniteSet(T) /\ Cardinality(T) <= Cardinality(RunsOf(w))
    BY <2>3, <2>4, FS_Surjection
  <2> HIDE DEF T
  <2>6. RunsOf(w)' = T /\ \A v \in Worker : v # w => RunsOf(v)' = RunsOf(v)
    BY <2>1, <2>2 DEF RunsOf
  <2>7. \A v \in Worker : v # w =>
          IsFiniteSet(RunsOf(v)') /\ Cardinality(RunsOf(v)') <= Cardinality(RunsOf(v))
    BY <2>6, FewerRuns
  <2> QED BY <2>1, <2>5, <2>6, <2>7, CapacityKept
<1>5. ASSUME NEW r \in runs, Abort(r) PROVE Capacity'
  <2> DEFINE w == r.worker
             q == [r EXCEPT !.aborted = TRUE]
  <2>1. runs' = (runs \ {r}) \cup {q} /\ stmt' = stmt
    BY <1>5 DEF Abort
  <2>2. w \in Worker /\ q.worker = w
    BY <1>0 DEF Run
  <2> HIDE DEF q
  <2>3. /\ RunsOf(w)' = (RunsOf(w) \ {r}) \cup {q} /\ r \in RunsOf(w)
        /\ \A v \in Worker : v # w => RunsOf(v)' = RunsOf(v)
    BY <2>1, <2>2 DEF RunsOf
  <2>4. IsFiniteSet(RunsOf(w)) /\ Cardinality(RunsOf(w)) \in Nat
    BY <2>2, FS_CardinalityType DEF Capacity
  <2>5. /\ IsFiniteSet(RunsOf(w) \ {r})
        /\ Cardinality(RunsOf(w) \ {r}) = Cardinality(RunsOf(w)) - 1
    BY <2>3, <2>4, FS_RemoveElement
  <2>6. /\ IsFiniteSet(RunsOf(w)')
        /\ Cardinality(RunsOf(w)') <= Cardinality(RunsOf(w))
    BY <2>3, <2>4, <2>5, FS_AddElement
  <2>7. \A v \in Worker : v # w =>
          IsFiniteSet(RunsOf(v)') /\ Cardinality(RunsOf(v)') <= Cardinality(RunsOf(v))
    BY <2>3, FewerRuns
  <2> QED BY <2>1, <2>2, <2>6, <2>7, CapacityKept
<1>6. ASSUME NEW r \in runs,
             \/ HandlerHeartbeat(r) \/ HandlerReturns(r) \/ HandlerThrows(r) \/ HandlerParks(r)
      PROVE  Capacity'
  <2>1. runs' \subseteq runs
    BY <1>6 DEF HandlerHeartbeat, HandlerReturns, HandlerThrows, HandlerParks, FailRun,
       Reject, EndRun, Die
  <2>2. \/ UNCHANGED stmt
        \/ stmt' = [stmt EXCEPT ![r.worker] = Idle]
        \/ Hands(r.worker, r.job)
    <3>1. \A again : Fail(r.worker, r.job, again) =>
            Hands(r.worker, r.job)
      BY WriteHands DEF Fail, RowOp
    <3>2. Complete(r.worker, r.job) => Hands(r.worker, r.job)
      BY WriteHands DEF Complete, RowOp
    <3>3. CASE HandlerReturns(r) \/ HandlerThrows(r)
      BY <3>1, <3>2, <3>3 DEF HandlerReturns, HandlerThrows, FailRun, Reject, Die, queueVars
    <3>4. CASE HandlerHeartbeat(r)
      BY <3>4 DEF HandlerHeartbeat, Heartbeat
    <3>5. CASE HandlerParks(r)
      BY <3>5, ParkHands DEF HandlerParks, ParkStep, queueVars
    <3> QED BY <1>6, <3>3, <3>4, <3>5
  <2>3. \A w \in Worker : stmt'[w].op = "claim" => stmt[w].op = "claim"
    <3>1. \/ UNCHANGED stmt
          \/ \E new : stmt' = [stmt EXCEPT ![r.worker] = new] /\ new.op # "claim"
      <4>1. CASE UNCHANGED stmt
        BY <4>1
      <4>2. CASE stmt' = [stmt EXCEPT ![r.worker] = Idle]
        <5>1. Idle.op # "claim"
          BY DEF Idle
        <5> QED BY <4>2, <5>1
      <4>3. CASE Hands(r.worker, r.job)
        BY <4>3 DEF Hands
      <4> QED BY <2>2, <4>1, <4>2, <4>3
    <3> QED BY <1>0, <3>1
  <2> QED BY <1>a, <2>1, <2>3
<1>7. ASSUME NEW p \in Proc, UpdateOf(p) PROVE Capacity'
  BY <1>0, <1>7, <1>a DEF UpdateOf, Update, Finish, Idle
<1>8. ASSUME NEW p \in Api, ApiCall(p) PROVE Capacity'
  <2>1. p \in Proc /\ p \notin Worker
    BY QueueAssumption DEF Proc
  <2>2. \A w \in Worker : stmt'[w] = stmt[w]
    <3>1. \E s : stmt' = [stmt EXCEPT ![p] = s]
      BY <1>8 DEF ApiCall, Enqueue, EnqueueInsert, Cancel, Retry, Write, Prepare, Finish
    <3> QED BY <1>0, <2>1, <3>1
  <2>3. runs' = runs
    BY <1>8 DEF ApiCall
  <2> QED BY <1>a, <2>2, <2>3
<1>9. CASE TickClock \/ UNCHANGED vars
  BY <1>9, <1>a DEF TickClock, Tick, vars
<1> QED BY <1>1, <1>2, <1>3, <1>4, <1>5, <1>6, <1>7, <1>8, <1>9 DEF Next, PoolStep, RunStep

(* concurrency bounds the runs of a pool, claimed but unfinished ones too.   *)
THEOREM Bounded == Spec => []WithinConcurrency
<1>1. Capacity => WithinConcurrency
  BY DEF Capacity, WithinConcurrency
<1> QED BY <1>1, CapacityInit, CapacityStep, Invariance, PTL DEF Spec
=============================================================================
