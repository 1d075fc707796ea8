------------------------------ MODULE EventBus ------------------------------
(* events/bus.ts: events are rows of an append-only table, dispatched by     *)
(* drain() after they were committed.                                        *)
(*                                                                           *)
(* Inside one process everything between two awaits runs undisturbed, and    *)
(* drain() awaits nothing but handlers, so a process is at any time either   *)
(* free (no drain, or a drain that awaits a handler) or in the middle of its *)
(* drain's synchronous code.  That code is split at its SQL statements only  *)
(* for the sake of crashes and of other processes on the same database file. *)
(* Not modelled: listen() and the live listeners, which keep no state, and   *)
(* subscriptions that come or go while the bus runs.                         *)
EXTENDS Naturals, Sequences, FiniteSets

CONSTANTS
  Proc,           \* processes, each with a bus of its own
  Event,          \* ids; among events of one time, they are ordered as numbers
  EventType,      \* [Event -> sequence of segments]: fan.created is two
  Subscriptions,  \* the patterns subscribed to, in order of registration
  Limit,          \* drain's batch size
  RunWorkers,     \* config.runWorkers: is there a drain at boot
  MaxTime,        \* bound: the clock stops here
  MaxCrashes      \* bound: how often processes crash, all together

Sub == DOMAIN Subscriptions

ASSUME BusAssumption ==
  /\ Event \subseteq Nat /\ IsFiniteSet(Event)
  /\ Sub \subseteq Nat
  /\ Limit \in Nat \ {0} /\ RunWorkers \in BOOLEAN
  /\ MaxTime \in Nat /\ MaxCrashes \in Nat

(* A pattern is exact, or names what has to precede further segments; the    *)
(* pattern * is the wildcard after nothing.                                  *)
matchesPattern(pattern, type) ==
  IF pattern.wild
  THEN Len(type) > Len(pattern.path) /\ SubSeq(type, 1, Len(pattern.path)) = pattern.path
  ELSE type = pattern.path

matching == [e \in Event |-> {s \in Sub : matchesPattern(Subscriptions[s], EventType[e])}]

VARIABLES
  now,
  events,       \* the table: each event's timestamp, and how far it has come
  tx,           \* the events inserted by the transaction a process has open
  up,           \* is the process running
  wake,         \* pending setImmediate callbacks, each to call drain()
  drainQueued,
  loop,         \* where drain() is
  crashes,      \* how often a process crashed
  owed,         \* history: the events a process is to see through: those it
                \* emitted since it booted and, with RunWorkers, found waiting
  calls,        \* history: how often a handler was called for an event
  settled       \* history: the handlers that came to an end for an event

table == <<now, events, tx>>
local == <<up, wake, drainQueued, loop, crashes>>
history == <<owed, calls, settled>>
vars == <<table, local, history>>

(* A rolled back event leaves no row, and nobody uses its id again ("gone"). *)
Row == [st: {"none", "pending", "gone", "open", "done"}, at: Nat]

(* rows: the rest of the batch; subs: the handlers the event at its head     *)
(* still has to go to; full: did the SELECT return limit rows.               *)
Loop == [at: {"off", "select", "rows", "await"}, rows: SUBSET Event,
         subs: SUBSET Sub, full: BOOLEAN]
Off == [at |-> "off", rows |-> {}, subs |-> {}, full |-> FALSE]
Selecting == [at |-> "select", rows |-> {}, subs |-> {}, full |-> FALSE]

TypeOK ==
  /\ now \in Nat
  /\ events \in [Event -> Row]
  /\ tx \in [Proc -> SUBSET Event]
  /\ up \in [Proc -> BOOLEAN]
  /\ wake \in [Proc -> Nat]
  /\ drainQueued \in [Proc -> BOOLEAN]
  /\ loop \in [Proc -> Loop]
  /\ crashes \in Nat
  /\ owed \in [Proc -> SUBSET Event]
  /\ calls \in [Event -> [Sub -> Nat]]
  /\ settled \in [Event -> SUBSET Sub]

Init ==
  /\ now = 0
  /\ events = [e \in Event |-> [st |-> "none", at |-> 0]]
  /\ tx = [p \in Proc |-> {}]
  /\ up = [p \in Proc |-> FALSE]
  /\ wake = [p \in Proc |-> 0]
  /\ drainQueued = [p \in Proc |-> FALSE]
  /\ loop = [p \in Proc |-> Off]
  /\ crashes = 0
  /\ owed = [p \in Proc |-> {}]
  /\ calls = [e \in Event |-> [s \in Sub |-> 0]]
  /\ settled = [e \in Event |-> {}]

draining(p) == loop[p].at # "off"

(* The event loop may run something else in p.                               *)
Free(p) == up[p] /\ loop[p].at \in {"off", "await"}

(* SQLite has one writer at a time: the others wait (busy_timeout).          *)
Writable(p) == \A q \in Proc \ {p} : tx[q] = {}

-----------------------------------------------------------------------------
(* emit                                                                      *)

(* Mutant of scheduleDrain: drain() is called at once.                       *)
drainNow(p) ==
  IF draining(p)
  THEN drainQueued' = [drainQueued EXCEPT ![p] = TRUE] /\ UNCHANGED <<wake, loop>>
  ELSE loop' = [loop EXCEPT ![p] = Selecting] /\ UNCHANGED <<drainQueued, wake>>

scheduleDrain(p) ==
  IF draining(p)
  THEN drainQueued' = [drainQueued EXCEPT ![p] = TRUE] /\ UNCHANGED <<wake, loop>>
  ELSE wake' = [wake EXCEPT ![p] = @ + 1] /\ UNCHANGED <<drainQueued, loop>>

(* Inside a transaction, or as one of its own.                               *)
Emit(p, e, inTx) ==
  /\ Free(p) /\ Writable(p)
  /\ tx[p] # {} => inTx
  /\ events[e].st = "none"
  /\ events' = [events EXCEPT ![e] = [st |-> IF inTx THEN "pending" ELSE "open",
                                      at |-> now]]
  /\ tx' = IF inTx THEN [tx EXCEPT ![p] = @ \cup {e}] ELSE tx
  /\ owed' = [owed EXCEPT ![p] = @ \cup {e}]
  /\ scheduleDrain(p)
  /\ UNCHANGED <<now, up, crashes, calls, settled>>

EndTx(p, st) ==
  /\ events' = [e \in Event |-> IF e \in tx[p] THEN [events[e] EXCEPT !.st = st]
                                               ELSE events[e]]
  /\ tx' = [tx EXCEPT ![p] = {}]

Commit(p) == tx[p] # {} /\ EndTx(p, "open") /\ UNCHANGED <<now, local, history>>
Rollback(p) == tx[p] # {} /\ EndTx(p, "gone") /\ UNCHANGED <<now, local, history>>

-----------------------------------------------------------------------------
(* drain                                                                     *)

GoTo(p, l) == loop' = [loop EXCEPT ![p] = l]

(* Mutant of RunDrain: no test of draining.                                  *)
RunDrainReentrant(p) ==
  /\ Free(p) /\ tx[p] = {} /\ wake[p] > 0
  /\ wake' = [wake EXCEPT ![p] = @ - 1]
  /\ GoTo(p, Selecting) /\ UNCHANGED drainQueued
  /\ UNCHANGED <<table, up, crashes, history>>

(* A setImmediate callback calls drain().                                    *)
RunDrain(p) ==
  /\ Free(p) /\ tx[p] = {} /\ wake[p] > 0
  /\ wake' = [wake EXCEPT ![p] = @ - 1]
  /\ IF draining(p)
     THEN drainQueued' = [drainQueued EXCEPT ![p] = TRUE] /\ UNCHANGED loop
     ELSE GoTo(p, Selecting) /\ UNCHANGED drainQueued
  /\ UNCHANGED <<table, up, crashes, history>>

(* Mutant of EndDrain: drainQueued is forgotten instead of served.           *)
EndDrainForgetful(p) ==
  /\ GoTo(p, Off)
  /\ drainQueued' = [drainQueued EXCEPT ![p] = FALSE]
  /\ UNCHANGED wake

(* Mutant of EndDrain: the next drain replaces the callbacks still pending.  *)
EndDrainUncounted(p) ==
  /\ GoTo(p, Off)
  /\ drainQueued' = [drainQueued EXCEPT ![p] = FALSE]
  /\ wake' = [wake EXCEPT ![p] = IF drainQueued[p] THEN @ + 1 ELSE @ - 1]

(* The finally block.                                                        *)
EndDrain(p) ==
  /\ GoTo(p, Off)
  /\ drainQueued' = [drainQueued EXCEPT ![p] = FALSE]
  /\ wake' = IF drainQueued[p] THEN [wake EXCEPT ![p] = @ + 1] ELSE wake

(* Mutant of Before: ORDER BY id.                                            *)
BeforeById(e, f) == e < f

(* ORDER BY timestamp, id                                                    *)
Before(e, f) ==
  \/ events[e].at < events[f].at
  \/ events[e].at = events[f].at /\ e < f
First(B) == CHOOSE e \in B : \A f \in B \ {e} : Before(e, f)

(* What p's connection sees undispatched.                                    *)
Undispatched(p) == {e \in Event : events[e].st = "open" \/ e \in tx[p]}

IsBatch(p, B) ==
  /\ \A e \in B, f \in Undispatched(p) \ B : Before(e, f)
  /\ B = Undispatched(p) \/ Cardinality(B) = Limit
  /\ Cardinality(B) <= Limit

(* On to the next row: matching() looks its subscribers up.                  *)
NextRow(p, B, full) ==
  GoTo(p, [at |-> "rows", rows |-> B, subs |-> matching[First(B)], full |-> full])

Select(p) ==
  /\ loop[p].at = "select"
  /\ \E B \in SUBSET Undispatched(p) :
       /\ IsBatch(p, B)
       /\ IF B = {} THEN EndDrain(p)
                    ELSE /\ NextRow(p, B, Cardinality(B) = Limit)
                         /\ UNCHANGED <<wake, drainQueued>>
  /\ UNCHANGED <<table, up, crashes, history>>

Current(p) == First(loop[p].rows)
NextSub(p) == CHOOSE s \in loop[p].subs : \A t \in loop[p].subs : s <= t

CallHandler(p) ==
  /\ loop[p].at = "rows" /\ loop[p].subs # {}
  /\ GoTo(p, [loop[p] EXCEPT !.at = "await"])
  /\ calls' = [calls EXCEPT ![Current(p)][NextSub(p)] = @ + 1]
  /\ UNCHANGED <<table, up, wake, drainQueued, crashes, owed, settled>>

(* The handler resolves, or throws, which is only logged.                    *)
HandlerEnds(p) ==
  /\ loop[p].at = "await" /\ tx[p] = {}
  /\ GoTo(p, [loop[p] EXCEPT !.at = "rows", !.subs = @ \ {NextSub(p)}])
  /\ settled' = [settled EXCEPT ![Current(p)] = @ \cup {NextSub(p)}]
  /\ UNCHANGED <<table, up, wake, drainQueued, crashes, owed, calls>>

(* Mutant of Mark: dispatchedAt is set without waiting for the handlers.     *)
MarkEarly(p) ==
  LET rest == loop[p].rows \ {Current(p)}
  IN /\ loop[p].at = "rows"
     /\ Writable(p)
     /\ events' = [events EXCEPT ![Current(p)].st = "done"]
     /\ \/ rest # {} /\ NextRow(p, rest, loop[p].full) /\ UNCHANGED <<wake, drainQueued>>
        \/ rest = {} /\ loop[p].full /\ GoTo(p, Selecting) /\ UNCHANGED <<wake, drainQueued>>
        \/ rest = {} /\ ~loop[p].full /\ EndDrain(p)
     /\ UNCHANGED <<now, tx, up, crashes, history>>

(* dispatchedAt is set; then the next row, the next batch or the end.        *)
Mark(p) ==
  LET rest == loop[p].rows \ {Current(p)}
  IN /\ loop[p].at = "rows" /\ loop[p].subs = {}
     /\ Writable(p)
     /\ events' = [events EXCEPT ![Current(p)].st = "done"]
     /\ \/ rest # {} /\ NextRow(p, rest, loop[p].full) /\ UNCHANGED <<wake, drainQueued>>
        \/ rest = {} /\ loop[p].full /\ GoTo(p, Selecting) /\ UNCHANGED <<wake, drainQueued>>
        \/ rest = {} /\ ~loop[p].full /\ EndDrain(p)
     /\ UNCHANGED <<now, tx, up, crashes, history>>

-----------------------------------------------------------------------------
(* Processes                                                                 *)

(* Mutant of Boot: no drain at boot.                                         *)
BootIdle(p) ==
  /\ ~up[p]
  /\ up' = [up EXCEPT ![p] = TRUE]
  /\ owed' = [owed EXCEPT ![p] = {e \in Event : events[e].st = "open"}]
  /\ UNCHANGED <<table, wake, drainQueued, loop, crashes, calls, settled>>

(* main.ts: one drain after boot, if this process runs workers.              *)
Boot(p) ==
  /\ ~up[p]
  /\ up' = [up EXCEPT ![p] = TRUE]
  /\ wake' = [wake EXCEPT ![p] = IF RunWorkers THEN 1 ELSE 0]
  /\ owed' = [owed EXCEPT ![p] =
       IF RunWorkers THEN {e \in Event : events[e].st = "open"} ELSE {}]
  /\ UNCHANGED <<table, drainQueued, loop, crashes, calls, settled>>

(* Memory is gone and an open transaction rolled back.                       *)
Crash(p) ==
  /\ up[p] /\ crashes < MaxCrashes
  /\ crashes' = crashes + 1
  /\ up' = [up EXCEPT ![p] = FALSE]
  /\ wake' = [wake EXCEPT ![p] = 0]
  /\ drainQueued' = [drainQueued EXCEPT ![p] = FALSE]
  /\ GoTo(p, Off)
  /\ EndTx(p, "gone")
  /\ owed' = [owed EXCEPT ![p] = {}]
  /\ UNCHANGED <<now, calls, settled>>

Tick ==
  /\ now < MaxTime
  /\ now' = now + 1
  /\ UNCHANGED <<events, tx, local, history>>

-----------------------------------------------------------------------------
DrainStep(p) == Select(p) \/ CallHandler(p) \/ HandlerEnds(p) \/ Mark(p)
Step(p) ==
  \/ \E e \in Event, inTx \in BOOLEAN : Emit(p, e, inTx)
  \/ Commit(p) \/ Rollback(p)
  \/ RunDrain(p) \/ DrainStep(p)
  \/ Boot(p) \/ Crash(p)

Next == Tick \/ \E p \in Proc : Step(p)
Spec == Init /\ [][Next]_vars

(* Node runs what is due, transactions and handlers come to an end; nobody   *)
(* has to boot, to emit or to crash.                                         *)
Fairness == \A p \in Proc : WF_vars(Commit(p)) /\ WF_vars(RunDrain(p) \/ DrainStep(p))
FairSpec == Spec /\ Fairness

-----------------------------------------------------------------------------
(* Safety                                                                    *)

(* No handler is called with an event that is not committed, and may never   *)
(* be: the comment above emit().                                             *)
NoPhantom ==
  \A p \in Proc : \A e \in loop[p].rows : events[e].st \in {"open", "done"}

(* No lost wake-up: whatever a process owes is in the batch it works on, or  *)
(* there will be another SELECT.  An emit during a drain leaves this to      *)
(* drainQueued, and one between two drains to its own callback.              *)
NoLostWakeup ==
  \A p \in Proc : \A e \in owed[p] :
    events[e].st \in {"pending", "open"} =>
      \/ wake[p] > 0 \/ drainQueued[p] \/ loop[p].at = "select"
      \/ e \in loop[p].rows
      \/ loop[p].at # "off" /\ loop[p].full

(* With one process, a handler sees an event once, plus once per crash: no   *)
(* interleaving of emits, callbacks and drains dispatches an event twice.    *)
BoundedRedelivery ==
  \A e \in Event, s \in Sub : calls[e][s] <= 1 + crashes

(* With one process, events are dispatched oldest first, over several        *)
(* batches, failures of handlers and restarts.  (Events of one time are      *)
(* dispatched in no particular order.)                                       *)
OldestFirst ==
  [][\A e, f \in Event :
       events[e].st = "open" /\ events'[e].st = "done" /\ events[f].st = "open" =>
         events[e].at <= events[f].at]_vars

(* However processes crash and compete, an event is marked only after every  *)
(* matching handler has been through with it: at-least-once, as Outbox says. *)
Stage(st) == CASE st \in {"none", "pending", "gone"} -> "unknown"
               [] st = "open" -> "waiting"
               [] st = "done" -> "retired"
box == [e \in Event |-> Stage(events[e].st)]
Promise == INSTANCE Outbox WITH Wanted <- matching, served <- settled
ImplementsOutbox == Promise!OutboxSpec

(* Liveness                                                                  *)

(* What a process owes is dispatched if it stays up; and if it runs workers, *)
(* that includes what crashed processes left behind.                         *)
EventuallyDispatched ==
  \A p \in Proc : <>[]up[p] =>
    \A e \in Event :
      (e \in owed[p] /\ events[e].st = "open") ~> (events[e].st = "done")
=============================================================================
