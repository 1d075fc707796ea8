--------------------------- MODULE ProviderRouter ---------------------------
(* providers/router.ts with the error classes of providers/http.ts: which    *)
(* providers a request may go to, in which order, and when a failed call is  *)
(* tried on the next one.  The request is for one capability of one kind;    *)
(* providers of other kinds and workspaces are not rows here.                *)
EXTENDS Naturals, FiniteSets, SequencesExt

CONSTANTS
  Provider,     \* rows of the table providers
  Priority,     \* [Provider -> Nat]: lower wins
  Declares,     \* providers whose adapter declares the capability
  Registered,   \* providers whose adapter is in the registry
  MaxChanges    \* bound: probes and changes of the settings

RouterAssumption ==
  /\ Priority \in [Provider -> Nat] /\ MaxChanges \in Nat
  /\ Declares \subseteq Registered /\ Registered \subseteq Provider
  /\ IsFiniteSet(Provider)

VARIABLES
  rows,         \* what the table says of the providers
  call,         \* the call of withFailover() that is under way
  changes

vars == <<rows, call, changes>>

(* The states the router itself records, and those that stand for the rest.  *)
HealthState == {"connected", "unknown", "auth_error", "rate_limited", "unavailable"}
isUsable(state) == state \in {"connected", "unknown"}

(* capabilities as probed: not yet, with the one asked for, without it.      *)
Row == [enabled: BOOLEAN, health: HealthState, capable: {"unprobed", "yes", "no"},
        resolvable: BOOLEAN]
Call == [st: {"idle", "running", "ok", "rejected", "exhausted", "no_provider",
              "unresolved"},
         idempotent: BOOLEAN, left: Seq(Provider), tried: Seq(Provider),
         usable: SUBSET Provider, accepted: SUBSET Provider]
NoCall == [st |-> "idle", idempotent |-> FALSE, left |-> <<>>, tried |-> <<>>,
           usable |-> {}, accepted |-> {}]

TypeOK == rows \in [Provider -> Row] /\ call \in Call /\ changes \in Nat

Init ==
  /\ rows = [p \in Provider |-> [enabled |-> TRUE, health |-> "unknown",
                                 capable |-> "unprobed", resolvable |-> TRUE]]
  /\ call = NoCall
  /\ changes = 0

-----------------------------------------------------------------------------
(* What a call of a provider can come to, as httpJson() classifies it.       *)
Outcome == {"ok", "PROVIDER_AUTH", "RATE_LIMITED", "PROVIDER_UNAVAILABLE",
            "PROVIDER_ERROR", "exception"}

(* The provider may have done, and billed, what it was asked for: it said    *)
(* so, or its answer is missing.                                             *)
MayHaveAccepted(outcome) == outcome \in {"ok", "PROVIDER_UNAVAILABLE", "exception"}

(* An error that no other provider would make better: an AppError that is    *)
(* neither retryable nor PROVIDER_UNAVAILABLE.                               *)
IsHard(outcome) == outcome \in {"PROVIDER_AUTH", "PROVIDER_ERROR"}

Marked(row, outcome) ==
  CASE outcome = "PROVIDER_AUTH" -> [row EXCEPT !.health = "auth_error"]
    [] outcome = "RATE_LIMITED" -> [row EXCEPT !.health = "rate_limited"]
    [] outcome = "PROVIDER_UNAVAILABLE" -> [row EXCEPT !.health = "unavailable"]
    [] OTHER -> row

supports(p) ==
  rows[p].capable = "yes" \/ (rows[p].capable = "unprobed" /\ p \in Declares)

(* allowed stands for the allowlist and for a pinned provider.               *)
Filtered(allowed) ==
  {p \in allowed \cap Registered : rows[p].enabled /\ supports(p)}

Usable == {p \in Provider : isUsable(rows[p].health)}

(* Mutant of Precedes: by priority alone.                                    *)
PrecedesByPriority(p, q) == Priority[p] < Priority[q]

(* Usable ones first, then by priority; SQL leaves ties open.                *)
Precedes(p, q) ==
  \/ p \in Usable /\ q \notin Usable
  \/ (p \in Usable <=> q \in Usable) /\ Priority[p] < Priority[q]

(* Its endpoint passes and its secret can be read.                           *)
Resolvable(p) == rows[p].resolvable

candidates(allowed) ==
  {s \in SetToSeqs(Filtered(allowed)) :
     \A i, j \in DOMAIN s : i < j => ~Precedes(s[j], s[i])}

(* Every candidate is resolved before the first is asked, and one that       *)
(* cannot be ends the call, whatever its place among them.                   *)
withFailover(allowed, idempotent) ==
  /\ call.st # "running"
  /\ \E s \in candidates(allowed) :
       call' = [st |-> IF s = <<>> THEN "no_provider"
                       ELSE IF \A p \in Range(s) : Resolvable(p) THEN "running"
                       ELSE "unresolved",
                idempotent |-> idempotent, left |-> s, tried |-> <<>>,
                usable |-> Usable, accepted |-> {}]
  /\ UNCHANGED <<rows, changes>>

(* Mutant of Stops: an error that says retryable is tried on the next one.   *)
StopsUnlessRetryable(outcome) == IsHard(outcome)

(* Whether a failure ends the call though candidates are left.               *)
Stops(outcome) == ~call.idempotent \/ IsHard(outcome)

AttemptEnds(outcome) ==
  LET p == Head(call.left)
      rest == Tail(call.left)
  IN /\ call.st = "running"
     /\ rows' = [rows EXCEPT ![p] = Marked(@, outcome)]
     /\ call' = [call EXCEPT
          !.tried = Append(@, p), !.left = rest,
          !.accepted = IF MayHaveAccepted(outcome) THEN @ \cup {p} ELSE @,
          !.st = IF outcome = "ok" THEN "ok"
                 ELSE IF Stops(outcome) THEN "rejected"
                 ELSE IF rest = <<>> THEN "exhausted" ELSE "running"]
     /\ UNCHANGED changes

(* Meanwhile a probe finds out, another call marks, or somebody changes the  *)
(* settings.                                                                 *)
Change(p, row) ==
  /\ changes < MaxChanges /\ row # rows[p]
  /\ rows' = [rows EXCEPT ![p] = row]
  /\ changes' = changes + 1
  /\ UNCHANGED call

Next ==
  \/ \E allowed \in SUBSET Provider, idempotent \in BOOLEAN :
       withFailover(allowed, idempotent)
  \/ \E outcome \in Outcome : AttemptEnds(outcome)
  \/ \E p \in Provider, row \in Row : Change(p, row)

Spec == Init /\ [][Next]_vars

-----------------------------------------------------------------------------
(* A request whose caller does not vouch for repeating it is never accepted, *)
(* and so billed, by two providers, lost answers included.                   *)
NoSecondBill ==
  ~call.idempotent => \A p, q \in call.accepted : p = q

(* A provider that was not usable is asked only after every usable one that  *)
(* could serve the request has failed it; among equals the preferred first.  *)
UsableFirst ==
  LET asked == call.tried \o call.left
  IN \A i, j \in DOMAIN asked : i < j =>
       /\ asked[j] \in call.usable => asked[i] \in call.usable
       /\ (asked[i] \in call.usable <=> asked[j] \in call.usable) =>
            Priority[asked[i]] <= Priority[asked[j]]

FailoverIsSafe == NoSecondBill /\ UsableFirst
=============================================================================
