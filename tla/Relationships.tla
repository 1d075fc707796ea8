--------------------------- MODULE Relationships ---------------------------
(* services/relationships.ts and domain/relationship.ts: the scores of one   *)
(* fan with each character and overall, the events that explain them, decay, *)
(* and the counters on the fan the stage is derived from.  Of the seven      *)
(* scores these are the two the stage looks at and the one that grows with   *)
(* silence, in hundredths.  One server runs the synchronous methods; apply() *)
(* is a statement per scope and table without a transaction.  adjust(), with *)
(* deltas of the operator's own, is left out.                                *)
EXTENDS Integers, Sequences, FiniteSets

CONSTANTS
  Character, Global,  \* the scopes; Global is the row without a character
  Kind,               \* the event kinds a run looks at
  Weight,             \* weights of events; a purchase's grows with its amount
  Amount,             \* amountMinor of every purchase
  Wait,               \* days that may pass at once
  BatchSize,          \* of decayInactive
  MaxEvents, MaxCount, MaxDay, MaxDecays  \* bounds: events, counters, clock,
                      \* how often a row decays

VARIABLES
  rels,         \* the table relationships, by scope
  log,          \* the table relationship_events, by scope
  fan,          \* last interaction and counters of the row of fans
  bought,       \* completed rows of purchases
  pending,      \* what is left of a call of apply()
  cut,          \* history: the server died inside apply()
  faded,        \* history: how often each row was decayed
  today         \* the clock, in days

vars == <<rels, log, fan, bought, pending, cut, faded, today>>

Scope == Character \cup {Global}
Score == {"loyalty", "engagement", "churnRisk"}
Full == 10000   \* a score of 100, in hundredths; and 1, in ten-thousandths
Scores == [Score -> 0..Full]
ZERO_SCORES == [s \in Score |-> 0]
Never == -1

DELTAS ==
  LET d(l, e, c) == [loyalty |-> l, engagement |-> e, churnRisk |-> c]
  IN [message_inbound |-> d(0, 200, -200), message_outbound |-> d(0, 50, 0),
      reply |-> d(0, 300, -300), positive_interaction |-> d(150, 200, -200),
      negative_interaction |-> d(-300, -200, 600), purchase |-> d(800, 0, -800),
      subscription_started |-> d(1200, 0, -1200),
      subscription_cancelled |-> d(-1000, 0, 1500), refund |-> d(-600, 0, 1000),
      media_request |-> d(0, 300, 0), campaign_response |-> d(200, 400, -300),
      campaign_ignored |-> d(0, 0, 200), inactivity |-> d(0, -300, 400)]

RelationshipsAssumption ==
  /\ Global \notin Character /\ Kind \subseteq DOMAIN DELTAS
  /\ Weight \subseteq Nat /\ Wait \subseteq Nat

RelationshipStage == {"new", "engaged", "regular", "loyal", "vip", "dormant", "churned"}
Row == [scores: Scores, stage: RelationshipStage]
NoRow == [stage |-> "absent"]
Event == [kind: DOMAIN DELTAS, weight: Weight]

TypeOK ==
  /\ rels \in [Scope -> Row \cup {NoRow}]
  /\ log \in [Scope -> Seq(Event)]
  /\ fan \in [last: Nat \cup {Never}, messages: Nat, purchases: Nat]
  /\ faded \in [Scope -> Nat]
  /\ bought \in Nat /\ today \in Nat /\ cut \in BOOLEAN
  /\ pending \in Seq([do: {"update", "log"}, scope: Scope, event: Event])

Init ==
  /\ rels = [s \in Scope |-> IF s = Global THEN [scores |-> ZERO_SCORES, stage |-> "new"]
                             ELSE NoRow]
  /\ log = [s \in Scope |-> <<>>]
  /\ fan = [last |-> Never, messages |-> 0, purchases |-> 0]
  /\ bought = 0 /\ today = 0 /\ cut = FALSE
  /\ faded = [s \in Scope |-> 0]
  /\ pending = <<>>

Free == pending = <<>>

-----------------------------------------------------------------------------
(* Mutant of clamp: scores may sink below nothing.                           *)
clampAbove(n) == IF n > Full THEN Full ELSE n
clamp(n) == IF n < 0 THEN 0 ELSE IF n > Full THEN Full ELSE n

applyRelationshipEvent(scores, event) ==
  [s \in Score |-> clamp(scores[s] + DELTAS[event.kind][s] * event.weight)]

(* Days since the last interaction, of a fan that has had one.               *)
Quiet == fan.last # Never
Days == today - fan.last

deriveStage(scores) ==
  CASE Quiet /\ Days > 180 -> "churned"
    [] Quiet /\ Days > 60 /\ Days <= 180 -> "dormant"
    [] OTHER ->
       IF fan.purchases * Amount >= 50000 \/ (scores.loyalty >= 8000 /\ fan.purchases >= 3)
       THEN "vip"
       ELSE IF scores.loyalty >= 5500 \/ fan.purchases >= 2 THEN "loyal"
       ELSE IF fan.messages >= 20 \/ scores.engagement >= 5000 THEN "regular"
       ELSE IF fan.messages >= 3 \/ scores.engagement >= 1500 THEN "engaged"
       ELSE "new"

(* 0.95 to the power of n, in ten-thousandths.                               *)
Factor[n \in Nat] == IF n = 0 THEN Full ELSE (Factor[n - 1] * 95) \div 100

decayScores(scores, days) ==
  LET periods == days \div 7
  IN [scores EXCEPT !.engagement = (@ * Factor[periods]) \div Full,
                    !.churnRisk = clamp(@ + periods * 150)]

ScoresOf(scope) == IF rels[scope] = NoRow THEN ZERO_SCORES ELSE rels[scope].scores
Write(scope, scores) == [scores |-> scores, stage |-> deriveStage(scores)]

-----------------------------------------------------------------------------
(* Mutant of scopes: an event with a character does not reach the global row.*)
scopesOwn(scope) == <<scope>>
scopes(scope) == IF scope = Global THEN <<Global>> ELSE <<scope, Global>>

(* A weight other than 1 comes with a purchase only.                         *)
apply(scope, event) ==
  /\ Free /\ Len(log[Global]) < MaxEvents
  /\ event.kind # "purchase" => event.weight = 1
  /\ pending' = [i \in 1..2 * Len(scopes(scope)) |->
                  [do |-> IF i % 2 = 1 THEN "update" ELSE "log",
                   scope |-> scopes(scope)[(i + 1) \div 2], event |-> event]]
  /\ UNCHANGED <<rels, log, fan, bought, cut, faded, today>>

(* get() and the UPDATE of a scope, or its event.  A row get() has inserted  *)
(* and nothing else is like no row.                                          *)
ApplyStep ==
  LET p == Head(pending)
  IN /\ ~Free
     /\ pending' = Tail(pending)
     /\ IF p.do = "update"
        THEN /\ rels' = [rels EXCEPT ![p.scope] =
                  Write(p.scope, applyRelationshipEvent(ScoresOf(p.scope), p.event))]
             /\ UNCHANGED log
        ELSE /\ log' = [log EXCEPT ![p.scope] = Append(@, p.event)]
             /\ UNCHANGED rels
     /\ UNCHANGED <<fan, bought, cut, faded, today>>

(* Bound: one crash.                                                         *)
Crash ==
  /\ ~Free /\ ~cut
  /\ pending' = <<>> /\ cut' = TRUE
  /\ UNCHANGED <<rels, log, fan, bought, faded, today>>

(* Any batch of rows: SQL leaves open which.  The fan is not deleted.        *)
decayInactive ==
  /\ Free /\ Quiet /\ Days >= 7
  /\ \E batch \in SUBSET {s \in Scope : rels[s] # NoRow /\ faded[s] < MaxDecays} :
       /\ Cardinality(batch) <= BatchSize
       /\ rels' = [s \in Scope |-> IF s \in batch
                                   THEN Write(s, decayScores(rels[s].scores, Days))
                                   ELSE rels[s]]
       /\ faded' = [s \in Scope |-> IF s \in batch THEN faded[s] + 1 ELSE faded[s]]
  /\ UNCHANGED <<log, fan, bought, pending, cut, today>>

recordInteraction(message) ==
  /\ Free
  /\ fan.messages < MaxCount
  /\ fan' = [fan EXCEPT !.last = today, !.messages = IF message THEN @ + 1 ELSE @]
  /\ UNCHANGED <<rels, log, bought, pending, cut, faded, today>>

refreshFanCommercials ==
  /\ Free
  /\ fan' = [fan EXCEPT !.purchases = bought]
  /\ UNCHANGED <<rels, log, bought, pending, cut, faded, today>>

Buy ==
  /\ bought < MaxCount /\ bought' = bought + 1
  /\ UNCHANGED <<rels, log, fan, pending, cut, faded, today>>

Pass(days) ==
  /\ today + days <= MaxDay /\ today' = today + days
  /\ UNCHANGED <<rels, log, fan, bought, pending, cut, faded>>

Next ==
  \/ \E scope \in Scope, event \in [kind: Kind, weight: Weight] : apply(scope, event)
  \/ ApplyStep \/ Crash \/ decayInactive \/ refreshFanCommercials \/ Buy
  \/ \E message \in BOOLEAN : recordInteraction(message)
  \/ \E days \in Wait : Pass(days)

Spec == Init /\ [][Next]_vars

-----------------------------------------------------------------------------
(* How often an event of a kind was logged in some scopes.                   *)
Logged(kind, in) ==
  Cardinality(UNION {{<<s, i>> : i \in {n \in DOMAIN log[s] : log[s][n].kind = kind}}
                       : s \in in})

(* The scores after each of the events of a scope.                           *)
Replay(scope) ==
  LET after[n \in 0..Len(log[scope])] ==
        IF n = 0 THEN ZERO_SCORES
        ELSE applyRelationshipEvent(after[n - 1], log[scope][n])
  IN after
Replayed(scope) == Replay(scope)[Len(log[scope])]

(* Unless the server died half-way: what happened with any character is in   *)
(* the global scope as well, and the events of a scope, replayed, give its   *)
(* scores, as long as these have not been decayed.                           *)
Accountable ==
  Free /\ ~cut =>
    /\ \A kind \in Kind : Logged(kind, Character) <= Logged(kind, {Global})
    /\ \A scope \in Scope : faded[scope] = 0 => ScoresOf(scope) = Replayed(scope)
=============================================================================
