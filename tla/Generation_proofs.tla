-------------------------- MODULE Generation_proofs --------------------------
(* Theorems about Generation for every set of jobs, run slots and variants,  *)
(* every limit and every number of claims.                                   *)
EXTENDS Generation, TLAPS, FiniteSetTheorems

(* What a run is, told from its step.                                        *)
LEMMA RunShape ==
  ASSUME NEW run \in Run
  PROVE  /\ run.step = "submitting" => run \in [step: {"submitting"}, job: Job, render: Render]
         /\ run.step = "accepted" => run \in [step: {"accepted"}, job: Job, render: Render]
         /\ run.step = "polling" => run \in [step: {"polling"}, job: Job]
         /\ run.step = "collecting" =>
              run \in [step: {"collecting"}, job: Job, todo: SUBSET Variant]
         /\ run.step = "idle" <=> run = Idle
BY DEF Run, Idle

JobRows == [status: JobStatus \cup {"absent"}, claims: 0..MaxClaims]

(* A legal or an illegal move of a job's status leaves rows of jobs, and     *)
(* makes nothing of a job but what it was or what it was to become.          *)
LEMMA Moves ==
  ASSUME jobs \in [Job -> JobRows], NEW j \in Job, NEW to \in JobStatus, Move(j, to)
  PROVE  /\ jobs' \in [Job -> JobRows]
         /\ \A i \in Job : jobs'[i].status \in {jobs[i].status} \cup (IF i = j THEN {to} ELSE {})
         /\ \A i \in Job : jobs'[i].claims = jobs[i].claims
BY DEF Move, JobRows

(* Claims are counted from 1, and a render is not the lack of one.           *)
LEMMA RenderPairs ==
  /\ \A j \in Job, n \in 1..MaxClaims : <<j, n>> \in Render
  /\ NoRender \notin Render
BY DEF Render, NoRender

-----------------------------------------------------------------------------
(* Types                                                                     *)

LEMMA TypeInit == Init => TypeOK
BY GenerationAssumption DEF Init, TypeOK, Run, GenerationRow, BriefStatus, RenderState,
   OutputRows, CostRecords, JobStatus

LEMMA TypeStep == TypeOK /\ [Next]_vars => TypeOK'
<1> SUFFICES ASSUME TypeOK, [Next]_vars PROVE TypeOK'
  OBVIOUS
<1> USE DEF history, BriefStatus, GenerationRow, OutputRows, CostRecords
<1>0. /\ \A r \in Runner : runs[r] \in Run
      /\ jobs \in [Job -> JobRows]
      /\ Idle \in Run
      /\ {"queued", "submitted", "running", "completed", "failed", "cancelled"} \subseteq JobStatus
  BY DEF TypeOK, JobRows, Run, JobStatus
<1>1. CASE deleteBrief
  BY <1>1 DEF deleteBrief, TypeOK, results
<1>2. ASSUME NEW j \in Job, submit(j) PROVE TypeOK'
  <2>1. used' \in 0..Limit
    BY <1>2, GenerationAssumption DEF submit, UnderLimit, TypeOK
  <2>2. jobs' \in [Job -> JobRows]
    BY <1>0, <1>2 DEF submit, JobRows
  <2> QED BY <1>2, <2>1, <2>2 DEF submit, TypeOK, results, JobRows
<1>3. ASSUME NEW j \in Job, RetryJob(j) PROVE TypeOK'
  <2>1. jobs' \in [Job -> JobRows]
    BY <1>0, <1>3, Moves DEF RetryJob
  <2> QED BY <1>3, <2>1 DEF RetryJob, TypeOK, results, JobRows
<1>4. ASSUME NEW j \in Job, cancel(j) PROVE TypeOK'
  BY <1>4 DEF cancel, TypeOK, results
<1>5. ASSUME NEW j \in Job, EndCancel(j) PROVE TypeOK'
  <2>1. jobs' \in [Job -> JobRows]
    BY <1>0, <1>5, Moves DEF EndCancel
  <2>2. renders' \in [Render -> RenderState]
    BY <1>5 DEF EndCancel, TypeOK, RenderState
  <2> QED BY <1>5, <2>1, <2>2 DEF EndCancel, TypeOK, results, JobRows
<1>6. ASSUME NEW j \in Job, Reclaim(j) PROVE TypeOK'
  <2>1. jobs' \in [Job -> JobRows]
    BY <1>0, <1>6 DEF Reclaim, JobRows
  <2> QED BY <1>6, <2>1 DEF Reclaim, TypeOK, results, JobRows
<1>7. ASSUME NEW r \in Runner, NEW j \in Job, Claim(r, j) PROVE TypeOK'
  <2>1. jobs' \in [Job -> JobRows]
    <3>1. jobs[j].claims + 1 \in 0..MaxClaims
      BY <1>0, <1>7, GenerationAssumption DEF Claim, JobRows
    <3>2. PICK status \in JobStatus :
            jobs' = [jobs EXCEPT ![j] = [status |-> status, claims |-> @.claims + 1]]
      BY <1>0, <1>7 DEF Claim
    <3> QED BY <1>0, <3>1, <3>2 DEF JobRows
  <2>2. PICK new \in Run : Step(r, new)
    <3>1. jobs[j].claims + 1 \in 1..MaxClaims
      BY <1>0, <1>7, GenerationAssumption DEF Claim, JobRows
    <3>2. <<j, jobs[j].claims + 1>> \in Render
      BY <3>1, RenderPairs
    <3>3. /\ [step |-> "submitting", job |-> j, render |-> <<j, jobs[j].claims + 1>>] \in Run
          /\ [step |-> "polling", job |-> j] \in Run
      BY <3>2 DEF Run
    <3> QED BY <1>0, <1>7, <3>3 DEF Claim
  <2>3. overlapped' \subseteq Job
    BY <1>7 DEF Claim, TypeOK
  <2>4. UNCHANGED <<used, brief, heeds, renders, generation, results, cancelling, faults>>
    BY <1>7 DEF Claim
  <2> QED BY <2>1, <2>2, <2>3, <2>4 DEF TypeOK, results, JobRows, Step
<1>8. ASSUME NEW r \in Runner, Accept(r) PROVE TypeOK'
  <2>1. runs[r] \in [step: {"submitting"}, job: Job, render: Render]
    BY <1>0, <1>8, RunShape DEF Accept
  <2>2. PICK x \in Render :
          /\ renders' = [renders EXCEPT ![x] = IF @ = "unknown" THEN "rendering" ELSE @]
          /\ \/ /\ Step(r, [step |-> "accepted", job |-> runs[r].job, render |-> x])
                /\ UNCHANGED <<jobs, faults>>
             \/ /\ Step(r, Idle) /\ Move(runs[r].job, "failed")
                /\ faults' = faults \cup {runs[r].job}
    BY <1>8, <2>1 DEF Accept, Known
  <2>3. jobs' \in [Job -> JobRows] /\ faults' \subseteq Job
    <3>1. CASE UNCHANGED <<jobs, faults>>
      BY <1>0, <3>1 DEF TypeOK
    <3>2. CASE Move(runs[r].job, "failed") /\ faults' = faults \cup {runs[r].job}
      BY <1>0, <2>1, <3>2, Moves DEF TypeOK
    <3> QED BY <2>2, <3>1, <3>2
  <2>4. renders' \in [Render -> RenderState]
    BY <2>2 DEF TypeOK, RenderState
  <2>5. [step |-> "accepted", job |-> runs[r].job, render |-> x] \in Run
    BY <2>1 DEF Run
  <2>6. runs' \in [Runner -> Run]
    BY <1>0, <2>2, <2>5 DEF Step, TypeOK
  <2> QED BY <1>8, <2>3, <2>4, <2>6 DEF Accept, TypeOK, results, JobRows
<1>9. ASSUME NEW r \in Runner, Refuse(r) \/ Throw(r) PROVE TypeOK'
  <2>1. runs[r].job \in Job
    BY <1>0, <1>9, RunShape DEF Refuse, Throw
  <2>2. jobs' \in [Job -> JobRows]
    BY <1>0, <1>9, <2>1, Moves DEF Refuse, Throw
  <2> QED BY <1>0, <1>9, <2>2 DEF Refuse, Throw, TypeOK, results, JobRows, Step
<1>10. ASSUME NEW r \in Runner, Record(r) PROVE TypeOK'
  <2>1. runs[r] \in [step: {"accepted"}, job: Job, render: Render]
    BY <1>0, <1>10, RunShape DEF Record
  <2>2. jobs' \in [Job -> JobRows]
    BY <1>0, <1>10, <2>1, Moves DEF Record
  <2>3. generation' \in [Job -> Render \cup {NoRender}]
    BY <1>10, <2>1 DEF Record, TypeOK
  <2> QED BY <1>0, <1>10, <2>2, <2>3 DEF Record, TypeOK, results, JobRows, Step
<1>11. ASSUME NEW r \in Runner, Poll(r) PROVE TypeOK'
  <2>1. runs[r].job \in Job
    BY <1>0, <1>11, RunShape DEF Poll
  <2>2. jobs' \in [Job -> JobRows]
    BY <1>0, <1>11, <2>1, Moves DEF Poll
  <2>3. PICK new \in Run : Step(r, new)
    <3>1. [step |-> "collecting", job |-> runs[r].job, todo |-> Variant] \in Run
      BY <2>1 DEF Run
    <3> QED BY <1>0, <1>11, <3>1 DEF Poll
  <2> QED BY <1>11, <2>2, <2>3 DEF Poll, TypeOK, results, JobRows, Step
<1>12. ASSUME NEW r \in Runner, NEW v \in Variant, Collect(r, v) PROVE TypeOK'
  <2>1. runs[r] \in [step: {"collecting"}, job: Job, todo: SUBSET Variant]
    BY <1>0, <1>12, RunShape DEF Collect
  <2>2. [runs[r] EXCEPT !.todo = @ \ {v}] \in Run
    BY <2>1 DEF Run
  <2>3. outputs' \in [Job -> SUBSET Variant] /\ skipped' \in [Job -> SUBSET Variant]
    <3>1. /\ v \in Variant /\ runs[r].job \in Job
          /\ outputs \in [Job -> SUBSET Variant] /\ skipped \in [Job -> SUBSET Variant]
      BY <2>1 DEF TypeOK
    <3>2. CASE /\ outputs' = [outputs EXCEPT ![runs[r].job] = @ \cup {v}]
               /\ UNCHANGED skipped
      BY <3>1, <3>2
    <3>3. CASE /\ skipped' = [skipped EXCEPT ![runs[r].job] = @ \cup {v}]
               /\ UNCHANGED outputs
      BY <3>1, <3>3
    <3> QED BY <1>12, <3>2, <3>3 DEF Collect
  <2> QED BY <1>12, <2>2, <2>3 DEF Collect, TypeOK, Step
<1>13. ASSUME NEW r \in Runner, Announce(r) PROVE TypeOK'
  <2>1. runs[r].job \in Job
    BY <1>0, <1>13, RunShape DEF Announce
  <2>2. jobs' \in [Job -> JobRows]
    BY <1>0, <1>13, <2>1, Moves DEF Announce
  <2>3. costs' \in [Job -> Nat] /\ announced' \subseteq Job
    BY <1>13, <2>1 DEF Announce, TypeOK
  <2> QED BY <1>0, <1>13, <2>2, <2>3 DEF Announce, TypeOK, JobRows, Step
<1>14. ASSUME NEW r \in Runner, Crash(r) PROVE TypeOK'
  <2>1. runs[r].job \in Job
    BY <1>0, <1>14, RunShape DEF Crash, Run
  <2> QED BY <1>0, <1>14, <2>1 DEF Crash, TypeOK, results, Step
<1>15. ASSUME NEW x \in Render, EndRender(x) PROVE TypeOK'
  BY <1>15 DEF EndRender, TypeOK, results, RenderState
<1>16. CASE UNCHANGED vars
  BY <1>16 DEF vars, results, TypeOK
<1> QED
  BY <1>1, <1>2, <1>3, <1>4, <1>5, <1>6, <1>7, <1>8, <1>9, <1>10, <1>11, <1>12, <1>13,
     <1>14, <1>15, <1>16 DEF Next

(* Whatever is submitted, claimed, lost and cancelled, the tables and runs   *)
(* keep their types, and the hourly counter never passes the limit.          *)
THEOREM Typing == Spec => []TypeOK
BY TypeInit, TypeStep, PTL DEF Spec

-----------------------------------------------------------------------------
(* What the provider has, who knows of it, and what became of it             *)

(* A run submits for its own job.  What a run or a row names was accepted.   *)
Held ==
  /\ \A r \in Runner : runs[r].step \in {"submitting", "accepted"} =>
                         runs[r].render[1] = runs[r].job
  /\ \A r \in Runner : runs[r].step = "accepted" => renders[runs[r].render] # "unknown"
  /\ \A j \in Job : generation[j] # NoRender =>
                      generation[j][1] = j /\ renders[generation[j]] # "unknown"

(* A provider that knows keys has one render of a job.                       *)
One == heeds => \A j \in Job : \A x, y \in Accepted(j) : x = y

(* Without faults, and as long as no two runs submitted a job at once, one   *)
(* run submits it, only while there is no row of it, and asks for nothing    *)
(* that was accepted already.                                                *)
Alone ==
  \A j \in Job \ (faults \cup overlapped) :
    /\ \A r, q \in Submitting(j) : r = q
    /\ generation[j] # NoRender => Submitting(j) = {}
    /\ \A r \in Submitting(j) : runs[r].step = "submitting" => Accepted(j) = {}

Submitted == Held /\ One /\ Alone /\ RenderIsTracked

(* A run that collects has a handle on every variant: still to do, stored,   *)
(* or passed over, by itself or by a run before it.                          *)
Collected ==
  /\ \A r \in Runner : runs[r].step = "collecting" =>
       runs[r].todo \cup outputs[runs[r].job] \cup skipped[runs[r].job] = Variant
  /\ \A j \in announced : outputs[j] \cup skipped[j] = Variant
  /\ \A j \in Job : jobs[j].status = "completed" => j \in announced

LEMMA SubmittedInit == Init => Submitted
<1> SUFFICES ASSUME Init PROVE Submitted
  OBVIOUS
<1>1. \A j \in Job : Submitting(j) = {} /\ Accepted(j) = {} /\ generation[j] = NoRender
  BY DEF Init, Submitting, Accepted, Idle
<1>2. Held
  BY <1>1 DEF Init, Held, Idle
<1>3. One /\ Alone /\ RenderIsTracked
  BY <1>1 DEF One, Alone, RenderIsTracked
<1> QED BY <1>2, <1>3 DEF Submitted

(* A step that neither adds nor takes a render, a row or a run that holds    *)
(* one, that starts no submission and takes no fault back.                   *)
LEMMA SubmittedKept ==
  ASSUME Submitted, UNCHANGED <<generation, heeds>>,
         faults \subseteq faults', overlapped \subseteq overlapped',
         \A x \in Render : renders'[x] # "unknown" <=> renders[x] # "unknown",
         \A r \in Runner : runs[r].step = "accepted" => runs[r].render \in Render,
         \A j \in Job : generation[j] \in Render \cup {NoRender},
         \A r \in Runner : \/ runs'[r] = runs[r]
                           \/ /\ runs[r].step # "accepted"
                              /\ runs'[r].step \notin {"submitting", "accepted"}
  PROVE  Submitted'
<1>1. \A j \in Job : Accepted(j)' = Accepted(j)
  BY DEF Accepted
<1>2. \A j \in Job : /\ \A r \in Submitting(j)' : r \in Submitting(j) /\ runs'[r] = runs[r]
                     /\ \A r \in Submitting(j) : runs[r].step = "accepted" =>
                                                   r \in Submitting(j)' /\ runs'[r] = runs[r]
  BY DEF Submitting
<1>3. Held'
  BY DEF Submitted, Held
<1>4. One'
  BY <1>1 DEF Submitted, One
<1>5. Alone'
  BY <1>1, <1>2 DEF Submitted, Alone
<1>6. RenderIsTracked'
  <2>1. Excused \subseteq Excused'
    BY DEF Excused
  <2> QED BY <1>1, <1>2, <2>1 DEF Submitted, RenderIsTracked
<1> QED BY <1>3, <1>4, <1>5, <1>6 DEF Submitted

(* A claim that leads to a submission.                                       *)
LEMMA ClaimStep ==
  ASSUME TypeOK, Submitted, NEW r \in Runner, NEW j \in Job, NEW n,
         runs[r] = Idle, generation[j] = NoRender,
         runs' = [runs EXCEPT ![r] = [step |-> "submitting", job |-> j, render |-> <<j, n>>]],
         overlapped' = IF Submitting(j) # {} THEN overlapped \cup {j} ELSE overlapped,
         UNCHANGED <<heeds, renders, generation, faults>>
  PROVE  Submitted'
<1>1. \A i \in Job : Accepted(i)' = Accepted(i)
  BY DEF Accepted
<1>2. /\ \A i \in Job : Submitting(i)' = IF i = j THEN Submitting(i) \cup {r} ELSE Submitting(i)
      /\ \A q \in Runner \ {r} : runs'[q] = runs[q]
      /\ r \notin Submitting(j) /\ \A i \in Job : r \notin Submitting(i)
      /\ runs'[r].step = "submitting" /\ runs'[r].job = j /\ runs'[r].render = <<j, n>>
  BY DEF Submitting, Idle, TypeOK
<1>3. Held'
  BY <1>2 DEF Submitted, Held
<1>4. One'
  BY <1>1 DEF Submitted, One
<1>5. RenderIsTracked'
  <2>1. Excused \subseteq Excused'
    BY DEF Excused
  <2> QED BY <1>1, <1>2, <2>1 DEF Submitted, RenderIsTracked
<1>6. ASSUME NEW i \in Job \ (faults' \cup overlapped')
      PROVE  /\ \A p, q \in Submitting(i)' : p = q
             /\ generation'[i] # NoRender => Submitting(i)' = {}
             /\ \A q \in Submitting(i)' : runs'[q].step = "submitting" => Accepted(i)' = {}
  <2>1. i \notin faults \cup overlapped
    BY <1>6
  <2>2. CASE i # j
    BY <1>1, <1>2, <2>1, <2>2 DEF Submitted, Alone, Submitting
  <2>3. CASE i = j
    <3>1. Submitting(j) = {}
      BY <1>6, <2>3
    <3>2. Accepted(j) = {}
      <4>1. j \in Job \ Excused
        BY <2>1, <2>3 DEF Excused
      <4> QED BY <3>1, <4>1, RenderPairs DEF Submitted, RenderIsTracked, Accepted
    <3> QED BY <1>1, <1>2, <2>3, <3>1, <3>2
  <2> QED BY <2>2, <2>3
<1> QED BY <1>3, <1>4, <1>5, <1>6 DEF Submitted, Alone

(* The provider accepts x for run r, which learns of it or does not.         *)
LEMMA AcceptStep ==
  ASSUME TypeOK, Submitted, NEW r \in Runner, Accept(r)
  PROVE  Submitted'
<1> DEFINE j == runs[r].job
<1>0. /\ runs[r] \in [step: {"submitting"}, job: Job, render: Render]
      /\ \A q \in Runner : runs[q] \in Run
  BY RunShape DEF TypeOK, Accept
<1>1. PICK x \in IF heeds /\ Known(runs[r].render) # {} THEN Known(runs[r].render)
                 ELSE {runs[r].render} :
        /\ renders' = [renders EXCEPT ![x] = IF @ = "unknown" THEN "rendering" ELSE @]
        /\ \/ /\ Step(r, [step |-> "accepted", job |-> j, render |-> x])
              /\ UNCHANGED <<jobs, faults>>
           \/ /\ Step(r, Idle) /\ Move(j, "failed")
              /\ faults' = faults \cup {j}
  BY DEF Accept
<1>2. runs[r].render[1] = j /\ r \in Submitting(j) /\ runs[r].step = "submitting" /\ j \in Job
  BY <1>0 DEF Submitted, Held, Submitting
<1>3. Known(runs[r].render) = Accepted(j)
  BY <1>2 DEF Known, Accepted, KeyOf
<1>4. x \in Render /\ x[1] = j
  BY <1>0, <1>1, <1>2, <1>3 DEF Accepted
<1>5. heeds => Accepted(j) = {} \/ Accepted(j) = {x}
  BY <1>1, <1>2, <1>3 DEF Submitted, One
<1>6. /\ \A i \in Job : Accepted(i)' = Accepted(i) \cup (IF i = j THEN {x} ELSE {})
      /\ \A y \in Render : renders[y] # "unknown" => renders'[y] # "unknown"
      /\ renders'[x] # "unknown"
  <2>1. \A y \in Render : renders'[y] # "unknown" <=> renders[y] # "unknown" \/ y = x
    BY <1>1, <1>4 DEF TypeOK
  <2> QED BY <1>4, <2>1 DEF Accepted
<1>7. /\ UNCHANGED <<generation, heeds, overlapped>> /\ faults \subseteq faults'
      /\ \A q \in Runner \ {r} : runs'[q] = runs[q]
      /\ \/ /\ runs'[r] = [step |-> "accepted", job |-> j, render |-> x]
            /\ faults' = faults
         \/ runs'[r] = Idle /\ j \in faults'
  BY <1>1 DEF Accept, Step, TypeOK
<1>8. \A i \in Job : /\ Submitting(i)' \subseteq Submitting(i)
                     /\ Submitting(i) \ {r} \subseteq Submitting(i)'
                     /\ i # j => r \notin Submitting(i)
  BY <1>2, <1>7 DEF Submitting, Idle
<1>9. Held'
  <2>1. \A q \in Runner : runs[q].step = "accepted" => runs[q].render \in Render
    BY <1>0, RunShape
  <2>2. \A i \in Job : generation[i] \in Render \cup {NoRender}
    BY DEF TypeOK, GenerationRow
  <2>3. /\ \A q \in Runner : runs'[q].step \in {"submitting", "accepted"} =>
                               runs'[q].render[1] = runs'[q].job
        /\ \A q \in Runner : runs'[q].step = "accepted" => renders'[runs'[q].render] # "unknown"
    <3> SUFFICES ASSUME NEW q \in Runner
                 PROVE  /\ runs'[q].step \in {"submitting", "accepted"} =>
                             runs'[q].render[1] = runs'[q].job
                        /\ runs'[q].step = "accepted" => renders'[runs'[q].render] # "unknown"
      OBVIOUS
    <3>1. CASE q # r
      BY <1>6, <1>7, <2>1, <3>1 DEF Submitted, Held
    <3>2. CASE q = r
      BY <1>4, <1>6, <1>7, <3>2 DEF Idle
    <3> QED BY <3>1, <3>2
  <2>4. \A i \in Job : generation'[i] # NoRender =>
                         generation'[i][1] = i /\ renders'[generation'[i]] # "unknown"
    BY <1>6, <1>7, <2>2 DEF Submitted, Held
  <2> QED BY <2>3, <2>4 DEF Held
<1>10. One'
  <2> SUFFICES ASSUME heeds, NEW i \in Job PROVE \A y, z \in Accepted(i)' : y = z
    BY <1>7 DEF One
  <2>1. Accepted(i)' = Accepted(i) \cup (IF i = j THEN {x} ELSE {})
    BY <1>6
  <2>2. CASE i = j
    BY <1>5, <2>1, <2>2
  <2>3. CASE i # j
    BY <2>1, <2>3 DEF Submitted, One
  <2> QED BY <2>2, <2>3
<1>11. Alone'
  <2> SUFFICES ASSUME NEW i \in Job \ (faults' \cup overlapped')
               PROVE  /\ \A p, q \in Submitting(i)' : p = q
                      /\ generation'[i] # NoRender => Submitting(i)' = {}
                      /\ \A q \in Submitting(i)' :
                           runs'[q].step = "submitting" => Accepted(i)' = {}
    BY DEF Alone
  <2>1. i \notin faults \cup overlapped
    BY <1>7
  <2>2. /\ \A p, q \in Submitting(i) : p = q
        /\ generation[i] # NoRender => Submitting(i) = {}
        /\ \A q \in Submitting(i) : runs[q].step = "submitting" => Accepted(i) = {}
    BY <2>1 DEF Submitted, Alone
  <2>3. \A q \in Submitting(i)' : runs'[q].step = "submitting" => Accepted(i)' = {}
    <3>1. CASE i = j
      <4>1. \A q \in Submitting(i)' : q = r
        BY <1>2, <1>8, <2>2, <3>1
      <4> QED BY <1>7, <4>1 DEF Idle
    <3>2. CASE i # j
      <4>1. Accepted(i)' = Accepted(i)
        BY <1>6, <3>2
      <4>2. \A q \in Submitting(i)' : q \in Submitting(i) /\ runs'[q] = runs[q]
        BY <1>7, <1>8, <3>2 DEF Submitting
      <4> QED BY <2>2, <4>1, <4>2
    <3> QED BY <3>1, <3>2
  <2> QED BY <1>7, <1>8, <2>2, <2>3
<1>12. RenderIsTracked'
  <2> SUFFICES ASSUME NEW i \in Job \ Excused', NEW y \in Accepted(i)'
               PROVE  \/ generation'[i] = y
                      \/ \E q \in Submitting(i)' : /\ runs'[q].step = "accepted"
                                                   /\ runs'[q].render = y
    BY DEF RenderIsTracked
  <2>1. i \notin Excused /\ i \notin faults' /\ (heeds \/ i \notin overlapped)
    BY <1>7 DEF Excused
  <2>2. CASE y \in Accepted(i)
    <3>1. \/ generation[i] = y
          \/ \E q \in Submitting(i) : runs[q].step = "accepted" /\ runs[q].render = y
      BY <2>1, <2>2 DEF Submitted, RenderIsTracked
    <3>2. \A q \in Submitting(i) : runs[q].step = "accepted" =>
                                     q \in Submitting(i)' /\ runs'[q] = runs[q]
      BY <1>2, <1>7, <1>8 DEF Submitting
    <3> QED BY <1>7, <3>1, <3>2
  <2>3. CASE y \notin Accepted(i)
    <3>1. i = j /\ y = x
      <4>1. Accepted(i)' = Accepted(i) \cup (IF i = j THEN {x} ELSE {})
        BY <1>6
      <4> QED BY <2>3, <4>1
    <3>2. runs'[r] = [step |-> "accepted", job |-> j, render |-> x]
      BY <1>7, <2>1, <3>1
    <3>3. r \in Submitting(i)'
      BY <3>1, <3>2 DEF Submitting
    <3> QED BY <3>1, <3>2, <3>3
  <2> QED BY <2>2, <2>3
<1> QED BY <1>9, <1>10, <1>11, <1>12 DEF Submitted

(* The row names what the run holds, or already names the same.              *)
LEMMA RecordStep ==
  ASSUME TypeOK, Submitted, NEW r \in Runner, Record(r)
  PROVE  Submitted'
<1> DEFINE j == runs[r].job
           x == runs[r].render
<1>0. runs[r] \in [step: {"accepted"}, job: Job, render: Render]
  BY RunShape DEF TypeOK, Record
<1>1. /\ j \in Job /\ x \in Render /\ x[1] = j /\ r \in Submitting(j) /\ x \in Accepted(j)
  BY <1>0 DEF Submitted, Held, Submitting, Accepted
<1>2. /\ UNCHANGED <<renders, heeds, faults, overlapped>>
      /\ runs'[r] = Idle /\ \A q \in Runner \ {r} : runs'[q] = runs[q]
      /\ generation'[j] = IF generation[j] # NoRender THEN generation[j] ELSE x
      /\ \A i \in Job \ {j} : generation'[i] = generation[i]
  BY <1>1 DEF Record, Step, TypeOK, history
<1>3. \A i \in Job : /\ Accepted(i)' = Accepted(i)
                     /\ Submitting(i)' = Submitting(i) \ {r}
                     /\ i # j => r \notin Submitting(i)
  BY <1>1, <1>2 DEF Accepted, Submitting, Idle
<1>4. Held'
  BY <1>1, <1>2 DEF Submitted, Held, Accepted, Idle
<1>5. One'
  BY <1>2, <1>3 DEF Submitted, One
<1>6. Alone'
  <2> SUFFICES ASSUME NEW i \in Job \ (faults \cup overlapped)
               PROVE  /\ \A p, q \in Submitting(i)' : p = q
                      /\ generation'[i] # NoRender => Submitting(i)' = {}
                      /\ \A q \in Submitting(i)' :
                           runs'[q].step = "submitting" => Accepted(i)' = {}
    BY <1>2 DEF Alone
  <2>1. /\ \A p, q \in Submitting(i) : p = q
        /\ generation[i] # NoRender => Submitting(i) = {}
        /\ \A q \in Submitting(i) : runs[q].step = "submitting" => Accepted(i) = {}
    BY DEF Submitted, Alone
  <2>2. CASE i = j
    BY <1>1, <1>3, <2>1, <2>2
  <2>3. CASE i # j
    <3>1. \A q \in Submitting(i) : runs'[q] = runs[q]
      BY <1>2, <1>3, <2>3 DEF Submitting
    <3> QED BY <1>2, <1>3, <2>1, <2>3, <3>1
  <2> QED BY <2>2, <2>3
<1>7. RenderIsTracked'
  <2> SUFFICES ASSUME NEW i \in Job \ Excused, NEW y \in Accepted(i)
               PROVE  \/ generation'[i] = y
                      \/ \E q \in Submitting(i)' : /\ runs'[q].step = "accepted"
                                                   /\ runs'[q].render = y
    BY <1>2, <1>3 DEF RenderIsTracked, Excused
  <2>1. \/ generation[i] = y
        \/ \E q \in Submitting(i) : runs[q].step = "accepted" /\ runs[q].render = y
    BY DEF Submitted, RenderIsTracked
  <2>2. CASE i # j
    <3>1. \A q \in Submitting(i) : q \in Submitting(i)' /\ runs'[q] = runs[q]
      BY <1>2, <1>3, <2>2 DEF Submitting
    <3> QED BY <1>2, <2>1, <2>2, <3>1
  <2>3. CASE i = j
    <3>1. \A p, q \in Accepted(j) : heeds => p = q
      BY <1>1 DEF Submitted, One
    <3>2. CASE heeds
      (* All there is is x.                                                  *)
      <4>1. y = x
        BY <1>1, <2>3, <3>1, <3>2
      <4>2. generation[j] # NoRender => generation[j] \in Accepted(j)
        BY <1>1 DEF Submitted, Held, Accepted, TypeOK, GenerationRow
      <4> QED BY <1>1, <1>2, <2>3, <3>1, <3>2, <4>1, <4>2
    <3>3. CASE ~heeds
      <4>1. j \notin faults \cup overlapped
        BY <2>3, <3>3 DEF Excused
      <4>2. generation[j] = NoRender /\ \A q \in Submitting(j) : q = r
        BY <1>1, <4>1 DEF Submitted, Alone
      <4> QED BY <1>2, <2>1, <2>3, <4>2, RenderPairs DEF Accepted
    <3> QED BY <3>2, <3>3
  <2> QED BY <2>2, <2>3
<1> QED BY <1>4, <1>5, <1>6, <1>7 DEF Submitted

(* What a run held when it died is excused.                                  *)
LEMMA CrashStep ==
  ASSUME TypeOK, Submitted, NEW r \in Runner, Crash(r)
  PROVE  Submitted'
<1>1. /\ UNCHANGED <<renders, generation, heeds, overlapped>>
      /\ faults' = faults \cup {runs[r].job}
      /\ runs'[r] = Idle /\ \A q \in Runner \ {r} : runs'[q] = runs[q]
  BY DEF Crash, Step, TypeOK
<1>2. \A i \in Job : /\ Accepted(i)' = Accepted(i)
                     /\ Submitting(i)' = Submitting(i) \ {r}
                     /\ i # runs[r].job => r \notin Submitting(i)
  BY <1>1 DEF Accepted, Submitting, Idle
<1>3. \A i \in Job \ faults' : /\ Submitting(i)' = Submitting(i)
                               /\ \A q \in Submitting(i) : runs'[q] = runs[q]
  BY <1>1, <1>2 DEF Submitting
<1>4. Held'
  BY <1>1 DEF Submitted, Held, Idle
<1>5. One'
  BY <1>1, <1>2 DEF Submitted, One
<1>6. Alone'
  BY <1>1, <1>2, <1>3 DEF Submitted, Alone
<1>7. RenderIsTracked'
  <2>1. Excused \subseteq Excused' /\ faults' \subseteq Excused'
    BY <1>1 DEF Excused
  <2> QED BY <1>1, <1>2, <1>3, <2>1 DEF Submitted, RenderIsTracked
<1> QED BY <1>4, <1>5, <1>6, <1>7 DEF Submitted

LEMMA SubmittedStep == TypeOK /\ Submitted /\ [Next]_vars => Submitted'
<1> SUFFICES ASSUME TypeOK, Submitted, [Next]_vars PROVE Submitted'
  OBVIOUS
<1>0. /\ \A r \in Runner : runs[r] \in Run
      /\ \A r \in Runner : runs[r].step = "accepted" => runs[r].render \in Render
      /\ \A j \in Job : generation[j] \in Render \cup {NoRender}
  BY RunShape DEF TypeOK, GenerationRow
<1>1. ASSUME NEW j \in Job, submit(j) \/ RetryJob(j) \/ cancel(j) \/ Reclaim(j)
      PROVE  Submitted'
  BY <1>0, <1>1, SubmittedKept DEF submit, RetryJob, cancel, Reclaim, history
<1>2. CASE deleteBrief \/ UNCHANGED vars
  BY <1>0, <1>2, SubmittedKept DEF deleteBrief, vars, history
<1>3. ASSUME NEW j \in Job, EndCancel(j) PROVE Submitted'
  <2>1. \A x \in Render : renders'[x] # "unknown" <=> renders[x] # "unknown"
    BY <1>3 DEF EndCancel, TypeOK
  <2> QED BY <1>0, <1>3, <2>1, SubmittedKept DEF EndCancel, history
<1>4. ASSUME NEW r \in Runner, NEW j \in Job, Claim(r, j) PROVE Submitted'
  <2>1. runs[r] = Idle /\ UNCHANGED <<heeds, renders, generation, faults>>
    BY <1>4 DEF Claim
  <2>2. CASE Unrecorded(j) /\ brief # "deleted"
    BY <1>4, <2>1, <2>2, ClaimStep DEF Claim, Unrecorded, Step
  <2>3. CASE ~(Unrecorded(j) /\ brief # "deleted")
    <3>1. PICK new : /\ runs' = [runs EXCEPT ![r] = new]
                     /\ new = Idle \/ new = [step |-> "polling", job |-> j]
                     /\ overlapped' = overlapped
      BY <1>4, <2>3 DEF Claim, Step
    <3>2. \A q \in Runner : \/ runs'[q] = runs[q]
                            \/ /\ runs[q].step # "accepted"
                               /\ runs'[q].step \notin {"submitting", "accepted"}
      BY <2>1, <3>1 DEF TypeOK, Idle
    <3> QED BY <1>0, <2>1, <3>1, <3>2, SubmittedKept
  <2> QED BY <2>2, <2>3
<1>5. ASSUME NEW r \in Runner, Accept(r) PROVE Submitted'
  BY <1>5, AcceptStep
<1>6. ASSUME NEW r \in Runner, Record(r) PROVE Submitted'
  BY <1>6, RecordStep
<1>7. ASSUME NEW r \in Runner, Crash(r) PROVE Submitted'
  BY <1>7, CrashStep
<1>8. ASSUME NEW r \in Runner,
             Refuse(r) \/ Poll(r) \/ Throw(r) \/ Announce(r)
                \/ \E v \in Variant : Collect(r, v)
      PROVE  Submitted'
  <2>1. UNCHANGED <<renders, generation, heeds, faults, overlapped>>
    BY <1>8 DEF Refuse, Poll, Throw, Announce, Collect, history
  <2>2. runs[r].step # "accepted" /\ \A q \in Runner \ {r} : runs'[q] = runs[q]
    BY <1>8 DEF Refuse, Poll, Throw, Announce, Collect, Step, TypeOK
  <2>3. runs'[r] = runs[r] \/ runs'[r].step \notin {"submitting", "accepted"}
    <3>1. CASE Poll(r)
      BY <3>1 DEF Poll, Step, TypeOK, Idle
    <3>2. CASE \E v \in Variant : Collect(r, v)
      <4>1. runs[r] \in [step: {"collecting"}, job: Job, todo: SUBSET Variant]
        BY <1>0, <3>2, RunShape DEF Collect
      <4>2. PICK v \in Variant : runs' = [runs EXCEPT ![r] = [runs[r] EXCEPT !.todo = @ \ {v}]]
        BY <3>2 DEF Collect, Step
      <4> QED BY <4>1, <4>2 DEF TypeOK
    <3>3. CASE Refuse(r) \/ Throw(r) \/ Announce(r)
      BY <3>3 DEF Refuse, Throw, Announce, Step, TypeOK, Idle
    <3> QED BY <1>8, <3>1, <3>2, <3>3
  <2> QED BY <1>0, <2>1, <2>2, <2>3, SubmittedKept
<1>9. ASSUME NEW x \in Render, EndRender(x) PROVE Submitted'
  <2>1. \A y \in Render : renders'[y] # "unknown" <=> renders[y] # "unknown"
    BY <1>9 DEF EndRender, TypeOK
  <2> QED BY <1>0, <1>9, <2>1, SubmittedKept DEF EndRender, history
<1> QED
  BY <1>1, <1>2, <1>3, <1>4, <1>5, <1>6, <1>7, <1>8, <1>9 DEF Next

LEMMA SubmittedAlways == Spec => []Submitted
BY Typing, SubmittedInit, SubmittedStep, PTL DEF Spec

(* At most one render, told from there being no two.                         *)
LEMMA AtMostOne ==
  ASSUME NEW S, \A x, y \in S : x = y
  PROVE  Cardinality(S) <= 1
<1>1. CASE S = {}
  BY <1>1, FS_EmptySet
<1>2. CASE S # {}
  <2>1. PICK x \in S : TRUE
    BY <1>2
  <2>2. S = {x}
    BY <2>1
  <2> QED BY <2>2, FS_Singleton
<1> QED BY <1>1, <1>2

LEMMA BilledOfSubmitted == TypeOK /\ Submitted => BilledOnce
<1> SUFFICES ASSUME TypeOK, Submitted, NEW j \in Job,
                    heeds \/ j \notin faults \cup overlapped
             PROVE  Cardinality(Accepted(j)) <= 1
  BY DEF BilledOnce
<1>1. \A x, y \in Accepted(j) : x = y
  <2>1. CASE heeds
    BY <2>1 DEF Submitted, One
  <2>2. CASE j \notin faults \cup overlapped
    <3>1. \A x \in Accepted(j) :
            \/ generation[j] = x /\ Submitting(j) = {}
            \/ \E r \in Submitting(j) : runs[r].render = x
      <4>1. j \notin Excused /\ \A x \in Accepted(j) : x # NoRender
        BY <2>2, RenderPairs DEF Excused, Accepted
      <4> QED BY <2>2, <4>1 DEF Submitted, Alone, RenderIsTracked
    <3>2. \A r, q \in Submitting(j) : r = q
      BY <2>2 DEF Submitted, Alone
    <3> QED BY <3>1, <3>2
  <2> QED BY <2>1, <2>2
<1> QED BY <1>1, AtMostOne

(* However often a job is claimed, reclaimed, retried and run twice at once, *)
(* the provider renders, and bills, it once if it knows keys again.  If it   *)
(* does not, it bills a job again only after an answer was lost or a process *)
(* died before the row was written, or when two runs submitted it at once.   *)
THEOREM Billed == Spec => []BilledOnce
BY Typing, SubmittedAlways, BilledOfSubmitted, PTL

(* A render the provider has accepted can be polled: the job's row names it, *)
(* or a run is about to write that row.  Only a crash or a lost answer, or   *)
(* two submissions at once to a provider that does not know keys again,      *)
(* leaves a billed render that nothing points to.                            *)
THEOREM Traced == Spec => []RenderIsTracked
<1>1. Submitted => RenderIsTracked
  BY DEF Submitted
<1> QED BY <1>1, SubmittedAlways, PTL

-----------------------------------------------------------------------------
(* Completion means delivery                                                 *)

LEMMA CollectedInit == Init => Collected
BY DEF Init, Collected, Idle

(* Results only grow; a step that starts no collecting run, announces        *)
(* nothing and completes no job keeps what runs and events stand for.        *)
LEMMA CollectedKept ==
  ASSUME Collected, UNCHANGED results,
         \A r \in Runner : runs'[r].step = "collecting" => runs'[r] = runs[r],
         \A j \in Job : jobs'[j].status = "completed" => jobs[j].status = "completed"
  PROVE  Collected'
BY DEF Collected, results

LEMMA CollectedStep == TypeOK /\ Collected /\ [Next]_vars => Collected'
<1> SUFFICES ASSUME TypeOK, Collected, [Next]_vars PROVE Collected'
  OBVIOUS
<1>0. /\ \A r \in Runner : runs[r] \in Run
      /\ jobs \in [Job -> JobRows]
      /\ {"queued", "submitted", "running", "completed", "failed", "cancelled"} \subseteq JobStatus
  BY DEF TypeOK, JobRows, JobStatus
<1>1. ASSUME NEW j \in Job, submit(j) \/ cancel(j) \/ Reclaim(j) PROVE Collected'
  <2>1. \A i \in Job : jobs'[i].status = "completed" => jobs[i].status = "completed"
    BY <1>0, <1>1 DEF submit, cancel, Reclaim, JobRows
  <2> QED BY <1>1, <2>1, CollectedKept DEF submit, cancel, Reclaim, results
<1>2. CASE deleteBrief \/ UNCHANGED vars
  BY <1>2, CollectedKept DEF deleteBrief, vars, results
<1>3. ASSUME NEW j \in Job, RetryJob(j) \/ EndCancel(j) PROVE Collected'
  <2>1. Move(j, "queued") \/ Move(j, "cancelled")
    BY <1>3 DEF RetryJob, EndCancel
  <2>2. \A i \in Job : jobs'[i].status = "completed" => jobs[i].status = "completed"
    BY <1>0, <2>1, Moves
  <2> QED BY <1>3, <2>2, CollectedKept DEF RetryJob, EndCancel, results
<1>4. ASSUME NEW r \in Runner, NEW j \in Job, Claim(r, j) PROVE Collected'
  <2>1. PICK status \in {"failed", "running"} :
          jobs' = [jobs EXCEPT ![j] = [status |-> status, claims |-> @.claims + 1]]
    BY <1>4 DEF Claim
  <2>2. \A i \in Job : jobs'[i].status = "completed" => jobs[i].status = "completed"
    BY <1>0, <2>1
  <2>3. PICK new : Step(r, new) /\ new.step # "collecting"
    BY <1>4 DEF Claim, Idle
  <2>4. \A q \in Runner : runs'[q].step = "collecting" => runs'[q] = runs[q]
    BY <2>3 DEF Step, TypeOK
  <2> QED BY <1>4, <2>2, <2>4, CollectedKept DEF Claim, results
<1>5. ASSUME NEW r \in Runner, Accept(r) \/ Refuse(r) \/ Record(r) \/ Throw(r) \/ Crash(r)
      PROVE  Collected'
  <2>1. runs[r].job \in Job
    BY <1>0, <1>5, RunShape DEF Accept, Refuse, Record, Throw, Crash, Run
  <2>2. \A i \in Job : jobs'[i].status = "completed" => jobs[i].status = "completed"
    <3>1. jobs' = jobs \/ \E to \in {"failed", "submitted"} : Move(runs[r].job, to)
      BY <1>5 DEF Accept, Refuse, Record, Throw, Crash
    <3> QED BY <1>0, <2>1, <3>1, Moves
  <2>3. \A q \in Runner : runs'[q].step = "collecting" => runs'[q] = runs[q]
    <3>1. CASE Accept(r)
      <4>1. PICK new : Step(r, new) /\ new.step # "collecting"
        BY <3>1 DEF Accept, Idle
      <4> QED BY <4>1 DEF Step, TypeOK
    <3>2. CASE Refuse(r) \/ Record(r) \/ Throw(r) \/ Crash(r)
      BY <3>2 DEF Refuse, Record, Throw, Crash, Step, TypeOK, Idle
    <3> QED BY <1>5, <3>1, <3>2
  <2> QED
    BY <1>5, <2>2, <2>3, CollectedKept DEF Accept, Refuse, Record, Throw, Crash, results
<1>6. ASSUME NEW r \in Runner, Poll(r) PROVE Collected'
  <2>1. runs[r].job \in Job
    BY <1>0, <1>6, RunShape DEF Poll
  <2>2. \A i \in Job : jobs'[i].status = "completed" => jobs[i].status = "completed"
    <3>1. jobs' = jobs \/ \E to \in {"failed", "submitted"} : Move(runs[r].job, to)
      BY <1>6 DEF Poll
    <3> QED BY <1>0, <2>1, <3>1, Moves
  <2>3. \A q \in Runner : \/ runs'[q].step = "collecting" => runs'[q] = runs[q]
                          \/ runs'[q].todo = Variant /\ runs'[q].job \in Job
    <3>1. PICK new : /\ Step(r, new)
                     /\ new.step = "collecting" => new.todo = Variant /\ new.job \in Job
      BY <1>6, <2>1 DEF Poll, Idle
    <3> QED BY <3>1 DEF Step, TypeOK
  <2>4. UNCHANGED results
    BY <1>6 DEF Poll
  <2>5. \A j \in Job : outputs[j] \subseteq Variant /\ skipped[j] \subseteq Variant
    BY DEF TypeOK, OutputRows
  <2>6. \A q \in Runner : runs'[q].step = "collecting" =>
          runs'[q].todo \cup outputs[runs'[q].job] \cup skipped[runs'[q].job] = Variant
    BY <2>3, <2>5 DEF Collected
  <2> QED BY <2>2, <2>4, <2>6 DEF Collected, results
<1>7. ASSUME NEW r \in Runner, NEW v \in Variant, Collect(r, v) PROVE Collected'
  <2> DEFINE j == runs[r].job
  <2>1. runs[r] \in [step: {"collecting"}, job: Job, todo: SUBSET Variant]
    BY <1>0, <1>7, RunShape DEF Collect
  <2>2. /\ runs'[r].job = j /\ runs'[r].todo = runs[r].todo \ {v}
        /\ \A q \in Runner \ {r} : runs'[q] = runs[q]
    BY <1>7, <2>1 DEF Collect, Step, TypeOK
  <2>3. outputs \in [Job -> SUBSET Variant] /\ skipped \in [Job -> SUBSET Variant]
    BY DEF TypeOK, OutputRows
  <2>4. /\ outputs' \in [Job -> SUBSET Variant] /\ skipped' \in [Job -> SUBSET Variant]
        /\ \A i \in Job : outputs[i] \subseteq outputs'[i] /\ skipped[i] \subseteq skipped'[i]
        /\ v \in outputs'[j] \cup skipped'[j]
    <3>1. CASE outputs' = [outputs EXCEPT ![j] = @ \cup {v}] /\ UNCHANGED skipped
      BY <2>1, <2>3, <3>1
    <3>2. CASE skipped' = [skipped EXCEPT ![j] = @ \cup {v}] /\ UNCHANGED outputs
      BY <2>1, <2>3, <3>2
    <3> QED BY <1>7, <3>1, <3>2 DEF Collect
  <2>5. ASSUME NEW q \in Runner, runs'[q].step = "collecting"
        PROVE  runs'[q].todo \cup outputs'[runs'[q].job] \cup skipped'[runs'[q].job] = Variant
    <3>1. CASE q = r
      <4>1. runs[r].todo \cup outputs[j] \cup skipped[j] = Variant
        BY <2>1 DEF Collected
      <4> QED BY <2>1, <2>2, <2>4, <3>1, <4>1
    <3>2. CASE q # r
      <4>1. runs'[q] = runs[q] /\ runs[q].step = "collecting"
        BY <2>2, <2>5, <3>2
      <4>2. runs[q] \in [step: {"collecting"}, job: Job, todo: SUBSET Variant]
        BY <1>0, <4>1, RunShape
      <4>3. runs[q].todo \cup outputs[runs[q].job] \cup skipped[runs[q].job] = Variant
        BY <4>1 DEF Collected
      <4> QED BY <2>4, <4>1, <4>2, <4>3
    <3> QED BY <3>1, <3>2
  <2>6. ASSUME NEW i \in announced' PROVE outputs'[i] \cup skipped'[i] = Variant
    <3>1. i \in announced /\ i \in Job
      BY <1>7 DEF Collect, TypeOK
    <3> QED BY <2>4, <3>1 DEF Collected
  <2>7. UNCHANGED <<jobs, announced>>
    BY <1>7 DEF Collect
  <2> QED BY <2>5, <2>6, <2>7 DEF Collected
<1>8. ASSUME NEW r \in Runner, Announce(r) PROVE Collected'
  <2> DEFINE j == runs[r].job
  <2>1. runs[r] \in [step: {"collecting"}, job: Job, todo: SUBSET Variant]
    BY <1>0, <1>8, RunShape DEF Announce
  <2>2. outputs[j] \cup skipped[j] = Variant
    <3>1. runs[r].todo \cup outputs[j] \cup skipped[j] = Variant
      BY <2>1 DEF Collected
    <3> QED BY <1>8, <3>1 DEF Announce
  <2>3. \A q \in Runner : runs'[q].step = "collecting" => runs'[q] = runs[q]
    BY <1>8 DEF Announce, Step, TypeOK, Idle
  <2>4. \A i \in Job : jobs'[i].status = "completed" => jobs[i].status = "completed" \/ i = j
    <3>1. Move(j, "completed")
      BY <1>8 DEF Announce
    <3> QED BY <1>0, <2>1, <3>1, Moves
  <2>5. announced' = announced \cup {j} /\ UNCHANGED <<outputs, skipped>>
    BY <1>8 DEF Announce
  <2> QED BY <2>2, <2>3, <2>4, <2>5 DEF Collected
<1>9. ASSUME NEW x \in Render, EndRender(x) PROVE Collected'
  BY <1>9, CollectedKept DEF EndRender, results
<1> QED
  BY <1>1, <1>2, <1>3, <1>4, <1>5, <1>6, <1>7, <1>8, <1>9 DEF Next

LEMMA CollectedDelivers == Collected => Delivered
BY DEF Collected, Delivered

(* A job is completed, and said to be, only when each output of its render   *)
(* was stored or could not be had, in whatever parts its runs came to them.  *)
THEOREM CompletedIsDelivered == Spec => []Delivered
<1>1. Spec => []Collected
  BY Typing, CollectedInit, CollectedStep, PTL DEF Spec
<1> QED BY <1>1, CollectedDelivers, PTL
=============================================================================
