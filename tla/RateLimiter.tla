----------------------------- MODULE RateLimiter -----------------------------
(* services/rateLimit.ts: one persisted counter per subject and action, over *)
(* fixed windows.  Keys do not affect one another, so the module has one.    *)
(* Processes share the database file; consume() reads the counter and then   *)
(* writes it, so a call that is let through is two steps.                    *)
EXTENDS Integers

CONSTANTS
  Proc,         \* processes that share the database file
  Limit,        \* the limit every call passes
  WindowMs,     \* length of a window
  MaxTime       \* bound: the clock stops here

RateLimiterAssumption ==
  /\ Limit \in Nat /\ WindowMs \in Nat \ {0} /\ MaxTime \in Nat

VARIABLES
  now,          \* the clock
  counter,      \* the row of rate_counters
  stmt,         \* the statement a process is about to execute
  admitted,     \* history: how many calls were let through in each window
  raced         \* history: whether two calls of consume() have overlapped

vars == <<now, counter, stmt, admitted, raced>>

None == -1
Windows == 0..MaxTime
Counter == [window: Windows \cup {None}, count: Nat]
NoCounter == [window |-> None, count |-> 0]
Idle == [op |-> "none"]

TypeOK ==
  /\ now \in 0..MaxTime
  /\ counter \in Counter
  /\ stmt \in [Proc -> {Idle} \cup [op: {"reset", "increment"}, window: Windows]]
  /\ admitted \in [Windows -> Nat]
  /\ raced \in BOOLEAN

Init ==
  /\ now = 0
  /\ counter = NoCounter
  /\ stmt = [p \in Proc |-> Idle]
  /\ admitted = [w \in Windows |-> 0]
  /\ raced = FALSE

(* windowStart, as the number of the window.                                 *)
windowOf(t) == t \div WindowMs

(* Whether consume() starts the count anew, and whether it says no.          *)
Restarts(c, t) == c.window # windowOf(t)
(* Mutant of Refuses: one more than the limit.                               *)
RefusesLate(c, t) == ~Restarts(c, t) /\ c.count > Limit
Refuses(c, t) == ~Restarts(c, t) /\ c.count >= Limit

(* What the upsert and the UPDATE of consume() leave behind; the UPDATE goes *)
(* by the key, whatever the window is by now, and finds nothing when the row *)
(* was pruned.                                                               *)
Reset(w) == [window |-> w, count |-> 1]
Incremented(c) == IF c = NoCounter THEN c ELSE [c EXCEPT !.count = @ + 1]

(* The reading half of a call that is let through.  One that is refused      *)
(* leaves no trace; require() throws then.                                   *)
consume(p) ==
  /\ stmt[p] = Idle
  /\ ~Refuses(counter, now)
  /\ stmt' = [stmt EXCEPT ![p] =
       [op |-> IF Restarts(counter, now) THEN "reset" ELSE "increment",
        window |-> windowOf(now)]]
  /\ raced' = (raced \/ \E q \in Proc : stmt[q] # Idle)
  /\ UNCHANGED <<now, counter, admitted>>

Write(p) ==
  /\ stmt[p] # Idle
  /\ counter' = IF stmt[p].op = "reset" THEN Reset(stmt[p].window) ELSE Incremented(counter)
  /\ admitted' = [admitted EXCEPT ![stmt[p].window] = @ + 1]
  /\ stmt' = [stmt EXCEPT ![p] = Idle]
  /\ UNCHANGED <<now, raced>>

(* The process dies between the two; the counter is in the database.         *)
Crash(p) ==
  /\ stmt[p] # Idle
  /\ stmt' = [stmt EXCEPT ![p] = Idle]
  /\ UNCHANGED <<now, counter, admitted, raced>>

(* For windows that cannot be current any more.                              *)
prune ==
  /\ counter.window # None /\ counter.window < windowOf(now)
  /\ counter' = NoCounter
  /\ UNCHANGED <<now, stmt, admitted, raced>>

Tick ==
  /\ now < MaxTime
  /\ now' = now + 1
  /\ UNCHANGED <<counter, stmt, admitted, raced>>

Next == (\E p \in Proc : consume(p) \/ Write(p) \/ Crash(p)) \/ prune \/ Tick

Spec == Init /\ [][Next]_vars

-----------------------------------------------------------------------------
(* A limit of zero lets the first call of a window through.                  *)
Cap == IF Limit = 0 THEN 1 ELSE Limit

(* As long as no two calls overlap, no window lets more calls through than   *)
(* the limit, whenever processes die and counters are pruned.                *)
LimitHolds == ~raced => \A w \in Windows : admitted[w] <= Cap
=============================================================================
