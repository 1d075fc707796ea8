------------------------------ MODULE Pipeline ------------------------------
(* Brand deals and scripts: two tables whose rows move through the stages of *)
(* a workflow (BrandDealService, ScriptService, domain/studio.ts).  PATCH    *)
(* hands the request's body on unread (api/studio.ts), so update() may name  *)
(* the stage or the status as well, with any text in it.  One server runs    *)
(* the synchronous methods, so a call is a step.                             *)
CONSTANTS
  Deal, Script  \* ids for rows

VARIABLES
  deals, scripts,   \* the tables
  trail             \* history: whether setStage() took a deal into review,
                    \* whether it approved it since, and whether a raw patch
                    \* named the stage since; of these moves, the audit log
                    \* records those of setStage()

vars == <<deals, scripts, trail>>

BrandDealStage == {"new", "briefed", "assets_ready", "production", "review",
                   "approved", "scheduled", "published", "completed", "cancelled"}
(* What the column can hold: it is a text, and nothing checks a raw patch.   *)
Stage == BrandDealStage \cup {"other"}

(* Mutant of DEAL_TRANSITIONS: production goes straight to the schedule.     *)
DEAL_TRANSITIONS_SHORT ==
  [from \in Stage |->
     CASE from = "new" -> {"briefed"}
       [] from = "briefed" -> {"assets_ready", "new"}
       [] from = "assets_ready" -> {"production", "briefed"}
       [] from = "production" -> {"review", "assets_ready", "scheduled"}
       [] from = "review" -> {"approved", "production"}
       [] from = "approved" -> {"scheduled", "review"}
       [] from = "scheduled" -> {"published", "approved"}
       [] from = "published" -> {"completed"}
       [] OTHER -> {}]

(* The moves besides the one to cancelled.                                   *)
DEAL_TRANSITIONS ==
  [from \in Stage |->
     CASE from = "new" -> {"briefed"}
       [] from = "briefed" -> {"assets_ready", "new"}
       [] from = "assets_ready" -> {"production", "briefed"}
       [] from = "production" -> {"review", "assets_ready"}
       [] from = "review" -> {"approved", "production"}
       [] from = "approved" -> {"scheduled", "review"}
       [] from = "scheduled" -> {"published", "approved"}
       [] from = "published" -> {"completed"}
       [] OTHER -> {}]

canTransitionDeal(from, to) ==
  \/ from = to
  \/ to \in DEAL_TRANSITIONS[from]
  \/ to = "cancelled" /\ from # "completed"

ScriptStatus == {"idea", "draft", "ready", "in_production", "review",
                 "approved", "scheduled", "published", "archived"}
Status == ScriptStatus \cup {"other"}

SCRIPT_FLOW ==
  [from \in ScriptStatus |->
     CASE from = "idea" -> {"draft", "archived"}
       [] from = "draft" -> {"ready", "idea", "archived"}
       [] from = "ready" -> {"in_production", "draft", "archived"}
       [] from = "in_production" -> {"review", "ready", "archived"}
       [] from = "review" -> {"approved", "in_production", "archived"}
       [] from = "approved" -> {"scheduled", "review", "archived"}
       [] from = "scheduled" -> {"published", "approved", "archived"}
       [] from = "published" -> {"archived"}
       [] from = "archived" -> {"draft"}]

(* A deal's stage, a script's status, and the soft delete.                   *)
DealRow == [st: {"absent", "live", "deleted"}, stage: Stage]
ScriptRow == [st: {"absent", "live", "deleted"}, status: Status]

TypeOK ==
  /\ deals \in [Deal -> DealRow]
  /\ scripts \in [Script -> ScriptRow]
  /\ trail \in [Deal -> [reviewed: BOOLEAN, signedOff: BOOLEAN, patched: BOOLEAN]]

Init ==
  /\ deals = [d \in Deal |-> [st |-> "absent", stage |-> "new"]]
  /\ scripts = [s \in Script |-> [st |-> "absent", status |-> "idea"]]
  /\ trail = [d \in Deal |-> [reviewed |-> FALSE, signedOff |-> FALSE, patched |-> FALSE]]

createDeal(d) ==
  /\ deals[d].st = "absent"
  /\ deals' = [deals EXCEPT ![d].st = "live"]
  /\ UNCHANGED <<scripts, trail>>

setStage(d, stage) ==
  /\ deals[d].st = "live"
  /\ canTransitionDeal(deals[d].stage, stage)
  /\ deals' = [deals EXCEPT ![d].stage = stage]
  /\ trail' = [trail EXCEPT ![d] =
       [reviewed |-> @.reviewed \/ stage = "review",
        signedOff |-> stage # "review" /\ (@.signedOff \/ stage = "approved"),
        patched |-> @.patched /\ stage # "review"]]
  /\ UNCHANGED scripts

(* update() with a body that names the stage; one that does not changes      *)
(* columns that are left out here.                                           *)
updateDeal(d, stage) ==
  /\ deals[d].st = "live"
  /\ deals' = [deals EXCEPT ![d].stage = stage]
  /\ trail' = [trail EXCEPT ![d].patched = TRUE]
  /\ UNCHANGED scripts

deleteDeal(d) ==
  /\ deals[d].st = "live"
  /\ deals' = [deals EXCEPT ![d].st = "deleted"]
  /\ UNCHANGED <<scripts, trail>>

createScript(s) ==
  /\ scripts[s].st = "absent"
  /\ scripts' = [scripts EXCEPT ![s].st = "live"]
  /\ UNCHANGED <<deals, trail>>

setStatus(s, status) ==
  /\ scripts[s].st = "live"
  /\ \/ scripts[s].status = status
     \/ scripts[s].status # "other" /\ status \in SCRIPT_FLOW[scripts[s].status]
  /\ scripts' = [scripts EXCEPT ![s].status = status]
  /\ UNCHANGED <<deals, trail>>

(* As updateDeal.  From a status that is none, setStatus() throws.           *)
updateScript(s, status) ==
  /\ scripts[s].st = "live"
  /\ scripts' = [scripts EXCEPT ![s].status = status]
  /\ UNCHANGED <<deals, trail>>

deleteScript(s) ==
  /\ scripts[s].st = "live"
  /\ scripts' = [scripts EXCEPT ![s].st = "deleted"]
  /\ UNCHANGED <<deals, trail>>

Next ==
  \/ \E d \in Deal : createDeal(d) \/ deleteDeal(d)
  \/ \E d \in Deal, stage \in Stage : setStage(d, stage) \/ updateDeal(d, stage)
  \/ \E s \in Script : createScript(s) \/ deleteScript(s)
  \/ \E s \in Script, status \in Status : setStatus(s, status) \/ updateScript(s, status)

Spec == Init /\ [][Next]_vars

-----------------------------------------------------------------------------
(* However setStage() moves a deal forward and back, its content goes out    *)
(* only when it has been reviewed and no review was begun after the last     *)
(* approval - unless a raw patch has put the deal somewhere and it has not   *)
(* been in review since: that is the one way around.                         *)
SignedOffBeforeOut ==
  \A d \in Deal : deals[d].stage \in {"scheduled", "published", "completed"} =>
                    (trail[d].reviewed /\ trail[d].signedOff) \/ trail[d].patched

(* Refuted: "the workflow is a guarded state machine, not a free-text field".*)
(* Stages change by legal moves only; PATCH /api/brand-deals/:id changes     *)
(* them to anything.                                                         *)
WorkflowIsGuarded ==
  [][\A d \in Deal : canTransitionDeal(deals[d].stage, deals'[d].stage)]_vars
=============================================================================
