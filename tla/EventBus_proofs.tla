--------------------------- MODULE EventBus_proofs ---------------------------
(* Theorems about EventBus for every set of processes and events, every set  *)
(* of subscriptions and every batch size.                                    *)
EXTENDS EventBus, WellFoundedInduction, FiniteSetTheorems, TLAPS

-----------------------------------------------------------------------------
(* Least elements                                                            *)

LEMMA LeastNatural ==
  ASSUME NEW T \in SUBSET Nat, T # {}
  PROVE  \E m \in T : \A n \in T : m <= n
<1> DEFINE R == {ss \in Nat \X Nat : ss[1] < ss[2]}
<1>1. IsWellFoundedOn(R, Nat)
  BY NatLessThanWellFounded DEF OpToRel
<1> HIDE DEF R
<1>2. PICK m \in T : \A n \in T : <<n, m>> \notin R
  BY <1>1, WFMin
<1>3. \A n \in T : ~(n < m)
  BY <1>2 DEF R
<1> QED BY <1>3

LEMMA LeastByTime ==
  ASSUME NEW B \in SUBSET Nat, B # {}, NEW t \in [B -> Nat]
  PROVE  \E e \in B : \A f \in B \ {e} : t[e] < t[f] \/ (t[e] = t[f] /\ e < f)
<1> DEFINE T == {t[e] : e \in B}
<1>0. T \in SUBSET Nat /\ T # {}
  OBVIOUS
<1>1. PICK u \in T : \A v \in T : u <= v
  BY <1>0, LeastNatural
<1> DEFINE C == {e \in B : t[e] = u}
<1>2. PICK e \in C : \A f \in C : e <= f
  BY <1>1, LeastNatural
<1>3. ASSUME NEW f \in B \ {e} PROVE t[e] < t[f] \/ (t[e] = t[f] /\ e < f)
  <2>1. u <= t[f] /\ t[f] \in Nat /\ t[e] = u /\ u \in Nat
    BY <1>1, <1>2, <1>3
  <2>2. t[f] = u => e <= f /\ e # f /\ e \in Nat /\ f \in Nat
    BY <1>2, <1>3
  <2> QED BY <2>1, <2>2
<1> QED BY <1>2, <1>3

(* rows and subs are worked off from their least elements.                   *)
IsFirst(B, e) == e \in B /\ \A f \in B \ {e} : Before(e, f)

LEMMA FirstRow ==
  ASSUME TypeOK, NEW B \in SUBSET Event, B # {}
  PROVE  IsFirst(B, First(B))
<1>1. B \in SUBSET Nat /\ \A e \in B : events[e].at \in Nat
  BY BusAssumption DEF TypeOK, Row
<1> DEFINE t == [e \in B |-> events[e].at]
<1>2. \E e \in B : \A f \in B \ {e} : t[e] < t[f] \/ (t[e] = t[f] /\ e < f)
  BY <1>1, LeastByTime
<1>3. \E e \in B : \A f \in B \ {e} : Before(e, f)
  BY <1>2 DEF Before
<1> QED BY <1>3 DEF First, IsFirst

LEMMA FirstRowNext ==
  ASSUME TypeOK', NEW B \in SUBSET Event, B # {}
  PROVE  IsFirst(B, First(B))'
<1>1. B \in SUBSET Nat /\ \A e \in B : events'[e].at \in Nat
  BY BusAssumption DEF TypeOK, Row
<1> DEFINE t == [e \in B |-> events'[e].at]
<1>2. \E e \in B : \A f \in B \ {e} : t[e] < t[f] \/ (t[e] = t[f] /\ e < f)
  BY <1>1, LeastByTime
<1>3. \E e \in B : \A f \in B \ {e} : Before(e, f)'
  BY <1>2 DEF Before
<1> QED BY <1>3 DEF First, IsFirst, Before

(* The head of a batch does not change while its rows keep their times.      *)
LEMMA FirstStays ==
  ASSUME TypeOK, TypeOK', NEW B \in SUBSET Event, B # {},
         \A e \in B : events'[e].at = events[e].at
  PROVE  First(B)' = First(B)
<1>1. IsFirst(B, First(B)) /\ IsFirst(B, First(B))'
  BY FirstRow, FirstRowNext
<1>2. \A e \in B : e \in Nat /\ events[e].at \in Nat
  BY BusAssumption DEF TypeOK, Row
<1> QED BY <1>1, <1>2 DEF IsFirst, Before

LEMMA SubNext ==
  ASSUME TypeOK, NEW p \in Proc, loop[p].subs # {}
  PROVE  NextSub(p) \in loop[p].subs
<1>1. loop[p].subs \in SUBSET Nat
  BY BusAssumption DEF TypeOK, Loop
<1>2. \E s \in loop[p].subs : \A t \in loop[p].subs : s <= t
  BY <1>1, LeastNatural
<1> QED BY <1>2 DEF NextSub

LEMMA MatchingType == matching \in [Event -> SUBSET Sub]
  BY DEF matching

-----------------------------------------------------------------------------
(* The inductive invariant.  NoPhantom and NoLostWakeup need to know how     *)
(* transactions, batches and the events owed hang together.                  *)

(* A process that is down holds nothing; one inside a transaction is not in  *)
(* the synchronous part of its drain.                                        *)
Sound(p) ==
  /\ ~up[p] => tx[p] = {} /\ loop[p].at = "off"
  /\ tx[p] # {} => loop[p].at \in {"off", "await"}
  /\ \A e \in tx[p] : events[e].st = "pending"

(* What is left of a batch, and whom its head has been to already.           *)
BatchOK(p) ==
  IF loop[p].at \in {"off", "select"}
  THEN loop[p].rows = {}
  ELSE /\ loop[p].rows # {}
       /\ \A e \in loop[p].rows : events[e].st \in {"open", "done"}
       /\ loop[p].subs \subseteq matching[Current(p)]
       /\ matching[Current(p)] \ loop[p].subs \subseteq settled[Current(p)]
       /\ loop[p].at = "await" => loop[p].subs # {}

(* The events a process owes have been emitted, those pending by itself.     *)
OwedOK(p) ==
  \A e \in owed[p] :
    /\ events[e].st # "none"
    /\ events[e].st = "pending" => e \in tx[p]

Awake(p) ==
  \A e \in owed[p] :
    events[e].st \in {"pending", "open"} =>
      \/ wake[p] > 0 \/ drainQueued[p] \/ loop[p].at = "select"
      \/ e \in loop[p].rows
      \/ loop[p].at # "off" /\ loop[p].full

ProcOK(p) == Sound(p) /\ BatchOK(p) /\ OwedOK(p) /\ Awake(p)

OneTx == \A p, q \in Proc : tx[p] # {} /\ tx[q] # {} => p = q

BInv == TypeOK /\ OneTx /\ \A p \in Proc : ProcOK(p)

(* How the table and the history may change under a process that does not    *)
(* take part.                                                                *)
Evolves ==
  \A e \in Event :
    /\ events[e].st # "none" => events'[e].at = events[e].at
    /\ events[e].st # "none" /\ events'[e].st \in {"none", "pending"} =>
         events'[e].st = events[e].st
    /\ events[e].st \in {"open", "done"} => events'[e].st \in {"open", "done"}
    /\ events'[e].st = "open" => events[e].st \in {"none", "pending", "open"}
    /\ settled[e] \subseteq settled'[e]

SameProc(q) ==
  /\ up'[q] = up[q] /\ tx'[q] = tx[q] /\ wake'[q] = wake[q]
  /\ drainQueued'[q] = drainQueued[q] /\ loop'[q] = loop[q] /\ owed'[q] = owed[q]

LEMMA BatchStays ==
  ASSUME BInv, TypeOK', Evolves, NEW q \in Proc, loop'[q] = loop[q]
  PROVE  BatchOK(q)'
<1>0. BatchOK(q) /\ TypeOK /\ loop[q] \in Loop
  BY DEF BInv, ProcOK, TypeOK
<1>1. CASE loop[q].at \in {"off", "select"}
  BY <1>0, <1>1 DEF BatchOK
<1>2. CASE loop[q].at \notin {"off", "select"}
  <2>0. PICK B \in SUBSET Event : B = loop[q].rows
    BY <1>0 DEF Loop
  <2> DEFINE c == First(B)
  <2>1. /\ B # {}
        /\ \A e \in B : events[e].st \in {"open", "done"}
        /\ loop[q].subs \subseteq matching[c]
        /\ matching[c] \ loop[q].subs \subseteq settled[c]
        /\ loop[q].at = "await" => loop[q].subs # {}
    BY <1>0, <1>2, <2>0 DEF BatchOK, Current
  <2>2. \A e \in B : /\ events'[e].at = events[e].at
                     /\ events'[e].st \in {"open", "done"}
    BY <2>1 DEF Evolves
  <2>3. First(B)' = c
    BY <1>0, <2>1, <2>2, FirstStays
  <2>4. Current(q)' = c
    BY <2>0, <2>3 DEF Current
  <2>5. c \in Event
    BY <1>0, <2>1, FirstRow DEF IsFirst
  <2>6. settled[c] \subseteq settled'[c]
    BY <2>5 DEF Evolves
  <2> HIDE DEF c
  <2> QED BY <1>2, <2>0, <2>1, <2>2, <2>4, <2>6 DEF BatchOK
<1> QED BY <1>1, <1>2

LEMMA Frame ==
  ASSUME BInv, TypeOK', Evolves, NEW q \in Proc, SameProc(q),
         \A e \in tx[q] : events'[e].st = "pending"
  PROVE  ProcOK(q)'
<1>0. ProcOK(q) /\ tx[q] \in SUBSET Event /\ owed[q] \in SUBSET Event
  BY DEF BInv, TypeOK
<1>1. Sound(q)'
  BY <1>0 DEF ProcOK, Sound, SameProc
<1>2. BatchOK(q)'
  BY BatchStays DEF SameProc
<1>3. OwedOK(q)'
  BY <1>0 DEF ProcOK, OwedOK, SameProc, Evolves
<1>4. Awake(q)'
  <2>1. ASSUME NEW e \in owed[q], events'[e].st \in {"pending", "open"}
        PROVE  events[e].st \in {"pending", "open"}
    BY <1>0, <2>1 DEF ProcOK, OwedOK, Evolves
  <2> QED BY <1>0, <2>1 DEF ProcOK, Awake, SameProc
<1> QED BY <1>1, <1>2, <1>3, <1>4 DEF ProcOK

(* A step of p preserves the invariant if it leaves p in order, the others'  *)
(* memory alone and their transactions pending.                              *)
LEMMA StepOfOne ==
  ASSUME BInv, TypeOK', Evolves, NEW p \in Proc, ProcOK(p)', OneTx',
         \A q \in Proc \ {p} : SameProc(q) /\ \A e \in tx[q] : events'[e].st = "pending"
  PROVE  BInv'
<1>1. \A q \in Proc : ProcOK(q)'
  BY Frame
<1> QED BY <1>1 DEF BInv

LEMMA SameEvents ==
  ASSUME BInv, UNCHANGED events, \A e \in Event : settled[e] \subseteq settled'[e]
  PROVE  Evolves /\ \A q \in Proc : \A e \in tx[q] : events'[e].st = "pending"
  BY DEF BInv, ProcOK, Sound, Evolves

LEMMA InitHolds == Init => BInv
<1> SUFFICES ASSUME Init PROVE BInv
  OBVIOUS
<1>1. TypeOK
  BY DEF Init, TypeOK, Row, Loop, Off
<1>2. ASSUME NEW p \in Proc PROVE ProcOK(p)
  BY DEF Init, ProcOK, Sound, BatchOK, OwedOK, Awake, Off
<1> QED BY <1>1, <1>2 DEF BInv, OneTx, Init

-----------------------------------------------------------------------------
(* One lemma per operation                                                   *)

LEMMA EmitHolds ==
  ASSUME BInv, NEW p \in Proc, NEW e \in Event, NEW inTx \in BOOLEAN, Emit(p, e, inTx)
  PROVE  BInv'
<1>0. TypeOK /\ ProcOK(p) /\ OneTx /\ now \in Nat /\ up[p]
  BY DEF BInv, TypeOK, Emit, Free
<1> DEFINE st == IF inTx THEN "pending" ELSE "open"
<1>1. /\ events[e].st = "none" /\ events' = [events EXCEPT ![e] = [st |-> st, at |-> now]]
      /\ st \in {"pending", "open"}
  BY DEF Emit
<1>2. /\ events'[e] = [st |-> st, at |-> now]
      /\ \A f \in Event : f # e => events'[f] = events[f]
  BY <1>0, <1>1 DEF TypeOK
<1>3. /\ \A q \in Proc \ {p} : SameProc(q)
      /\ UNCHANGED <<now, loop, up, crashes, calls, settled>>
      /\ tx'[p] = (IF inTx THEN tx[p] \cup {e} ELSE tx[p])
      /\ owed'[p] = owed[p] \cup {e}
      /\ wake'[p] > 0 \/ drainQueued'[p]
  BY <1>0 DEF Emit, scheduleDrain, draining, SameProc, history, TypeOK
<1>4. TypeOK'
  <2>1. [st |-> st, at |-> now] \in Row
    BY <1>0, <1>1 DEF Row
  <2>2. events' \in [Event -> Row]
    BY <1>0, <1>1, <2>1 DEF TypeOK
  <2>3. /\ tx' \in [Proc -> SUBSET Event] /\ owed' \in [Proc -> SUBSET Event]
        /\ wake' \in [Proc -> Nat] /\ drainQueued' \in [Proc -> BOOLEAN]
    <3>1. tx' \in [Proc -> SUBSET Event] /\ owed' \in [Proc -> SUBSET Event]
      BY <1>0 DEF Emit, TypeOK
    <3>2. \/ wake' = wake /\ drainQueued' = [drainQueued EXCEPT ![p] = TRUE]
          \/ wake' = [wake EXCEPT ![p] = @ + 1] /\ drainQueued' = drainQueued
      BY DEF Emit, scheduleDrain
    <3>3. wake' \in [Proc -> Nat]
      BY <1>0, <3>2 DEF TypeOK
    <3>4. drainQueued' \in [Proc -> BOOLEAN]
      BY <1>0, <3>2 DEF TypeOK
    <3> QED BY <3>1, <3>3, <3>4
  <2> QED BY <1>0, <1>3, <2>2, <2>3 DEF TypeOK
<1>5. Evolves
  BY <1>1, <1>2, <1>3 DEF Evolves
<1>6. ASSUME NEW q \in Proc, NEW f \in tx[q] PROVE events'[f].st = "pending" /\ f # e
  <2>1. events[f].st = "pending" /\ f \in Event
    BY DEF BInv, ProcOK, Sound, TypeOK
  <2> QED BY <1>1, <1>2, <2>1
<1>7. OneTx'
  <2>1. \A q \in Proc \ {p} : tx[q] = {} /\ tx'[q] = tx[q]
    BY <1>3 DEF Emit, Writable, SameProc
  <2> QED BY <2>1 DEF OneTx
<1>8. Sound(p)'
  BY <1>0, <1>2, <1>3, <1>6 DEF Sound, Emit, Free
<1>9. BatchOK(p)'
  BY <1>3, <1>4, <1>5, BatchStays
<1>10. OwedOK(p)'
  <2>1. ASSUME NEW f \in owed[p], f # e
        PROVE  events'[f].st # "none" /\ (events'[f].st = "pending" => f \in tx'[p])
    BY <1>0, <1>2, <1>3, <2>1 DEF ProcOK, OwedOK, TypeOK
  <2>2. events'[e].st # "none" /\ (events'[e].st = "pending" => e \in tx'[p])
    BY <1>1, <1>2, <1>3
  <2> QED BY <1>3, <2>1, <2>2 DEF OwedOK
<1>11. Awake(p)'
  BY <1>3 DEF Awake
<1> QED BY <1>3, <1>4, <1>5, <1>6, <1>7, <1>8, <1>9, <1>10, <1>11, StepOfOne DEF ProcOK

LEMMA EndTxHolds ==
  ASSUME BInv, NEW p \in Proc, NEW st \in {"open", "gone"}, tx[p] # {}, EndTx(p, st),
         UNCHANGED <<now, local, history>>
  PROVE  BInv'
<1>0. TypeOK /\ ProcOK(p) /\ OneTx /\ tx[p] \in SUBSET Event
  BY DEF BInv, TypeOK
<1>1. /\ \A e \in tx[p] : /\ events[e].st = "pending"
                          /\ events'[e].st = st /\ events'[e].at = events[e].at
      /\ \A e \in Event \ tx[p] : events'[e] = events[e]
      /\ events' \in [Event -> Row]
  BY <1>0 DEF EndTx, ProcOK, Sound, TypeOK, Row
<1>2. tx'[p] = {} /\ \A q \in Proc \ {p} : tx'[q] = tx[q] /\ tx[q] = {}
  BY <1>0 DEF EndTx, OneTx, TypeOK
<1>3. UNCHANGED <<now, up, wake, drainQueued, loop, crashes, owed, calls, settled>>
  BY DEF local, history
<1>4. TypeOK'
  BY <1>0, <1>1, <1>3 DEF TypeOK, EndTx
<1>5. Evolves
  BY <1>1, <1>3 DEF Evolves
<1>6. \A q \in Proc \ {p} : SameProc(q)
  BY <1>2, <1>3 DEF SameProc
<1>7. OneTx'
  BY <1>2 DEF OneTx
<1>8. Sound(p)' /\ BatchOK(p)'
  BY <1>0, <1>2, <1>3, <1>4, <1>5, BatchStays DEF Sound, ProcOK
<1>9. OwedOK(p)' /\ Awake(p)'
  <2>1. ASSUME NEW e \in owed[p]
        PROVE  /\ events'[e].st \notin {"none", "pending"}
               /\ events'[e].st = "open" => events[e].st \in {"pending", "open"}
    BY <1>0, <1>1, <2>1 DEF ProcOK, OwedOK, TypeOK
  <2> QED BY <1>0, <1>3, <2>1 DEF ProcOK, OwedOK, Awake
<1> QED BY <1>2, <1>4, <1>5, <1>6, <1>7, <1>8, <1>9, StepOfOne DEF ProcOK

LEMMA RunDrainHolds ==
  ASSUME BInv, NEW p \in Proc, RunDrain(p)
  PROVE  BInv'
<1>0. TypeOK /\ ProcOK(p) /\ OneTx /\ up[p] /\ tx[p] = {}
  BY DEF BInv, RunDrain, Free
<1>1. UNCHANGED <<now, events, tx, up, crashes, owed, calls, settled>>
  BY DEF RunDrain, table, history
<1>2. \A q \in Proc \ {p} : SameProc(q)
  BY <1>0, <1>1 DEF RunDrain, GoTo, SameProc, TypeOK
<1>3. TypeOK'
  <2>1. Selecting \in Loop
    BY DEF Selecting, Loop
  <2>2. wake' \in [Proc -> Nat]
    BY <1>0 DEF RunDrain, TypeOK
  <2>3. loop' \in [Proc -> Loop] /\ drainQueued' \in [Proc -> BOOLEAN]
    BY <1>0, <2>1 DEF RunDrain, GoTo, TypeOK
  <2> QED BY <1>0, <1>1, <2>2, <2>3 DEF TypeOK
<1>4. Evolves /\ \A q \in Proc : \A e \in tx[q] : events'[e].st = "pending"
  BY <1>1, SameEvents
<1>5. \/ loop'[p] = loop[p] /\ draining(p) /\ drainQueued'[p]
      \/ loop'[p] = Selecting
  BY <1>0 DEF RunDrain, GoTo, TypeOK
<1>6. BatchOK(p)'
  <2>1. CASE loop'[p] = loop[p]
    BY <1>3, <1>4, <2>1, BatchStays
  <2>2. CASE loop'[p] = Selecting
    BY <2>2 DEF BatchOK, Selecting, Off
  <2> QED BY <1>5, <2>1, <2>2
<1>7. Sound(p)' /\ OwedOK(p)' /\ Awake(p)'
  BY <1>0, <1>1, <1>5 DEF Sound, OwedOK, Awake, ProcOK, Selecting, Off
<1> QED BY <1>0, <1>1, <1>2, <1>3, <1>4, <1>6, <1>7, StepOfOne DEF ProcOK, OneTx

(* The end of a drain, as far as it does not depend on how it came about.    *)
LEMMA EndDrainFacts ==
  ASSUME TypeOK, NEW p \in Proc, EndDrain(p)
  PROVE  /\ wake' \in [Proc -> Nat] /\ drainQueued' \in [Proc -> BOOLEAN]
         /\ loop' \in [Proc -> Loop]
         /\ loop'[p] = Off
         /\ wake[p] > 0 \/ drainQueued[p] => wake'[p] > 0
         /\ \A q \in Proc \ {p} : /\ loop'[q] = loop[q] /\ wake'[q] = wake[q]
                                  /\ drainQueued'[q] = drainQueued[q]
<1>1. Off \in Loop
  BY DEF Off, Loop
<1>2. loop' \in [Proc -> Loop] /\ loop'[p] = Off /\ \A q \in Proc \ {p} : loop'[q] = loop[q]
  BY <1>1 DEF EndDrain, GoTo, TypeOK
<1>3. /\ drainQueued' \in [Proc -> BOOLEAN]
      /\ \A q \in Proc \ {p} : drainQueued'[q] = drainQueued[q]
  BY DEF EndDrain, TypeOK
<1>4. /\ wake' \in [Proc -> Nat]
      /\ wake[p] > 0 \/ drainQueued[p] => wake'[p] > 0
      /\ \A q \in Proc \ {p} : wake'[q] = wake[q]
  BY DEF EndDrain, TypeOK
<1> QED BY <1>2, <1>3, <1>4

LEMMA NextRowFacts ==
  ASSUME TypeOK, NEW p \in Proc, NEW B \in SUBSET Event, B # {},
         NEW full \in BOOLEAN, NextRow(p, B, full)
  PROVE  /\ loop' \in [Proc -> Loop]
         /\ loop'[p] = [at |-> "rows", rows |-> B, subs |-> matching[First(B)], full |-> full]
         /\ \A q \in Proc \ {p} : loop'[q] = loop[q]
<1>1. First(B) \in Event
  BY FirstRow DEF IsFirst
<1>2. [at |-> "rows", rows |-> B, subs |-> matching[First(B)], full |-> full] \in Loop
  BY <1>1, MatchingType DEF Loop
<1> QED BY <1>2 DEF NextRow, GoTo, TypeOK

(* A batch whose head has not been to anyone is in order.                    *)
LEMMA FreshBatch ==
  ASSUME TypeOK, TypeOK', NEW p \in Proc, NEW B \in SUBSET Event, B # {}, NEW full \in BOOLEAN,
         loop'[p] = [at |-> "rows", rows |-> B, subs |-> matching[First(B)], full |-> full],
         \A e \in B : events'[e].st \in {"open", "done"} /\ events'[e].at = events[e].at
  PROVE  BatchOK(p)'
<1>1. First(B)' = First(B)
  BY FirstStays
<1>2. Current(p)' = First(B)
  BY <1>1 DEF Current
<1> QED BY <1>2 DEF BatchOK

LEMMA SelectHolds ==
  ASSUME BInv, NEW p \in Proc, Select(p)
  PROVE  BInv'
<1>0. TypeOK /\ ProcOK(p) /\ OneTx /\ loop[p].at = "select" /\ tx[p] = {} /\ up[p]
  BY DEF BInv, ProcOK, Sound, Select
<1>1. UNCHANGED <<now, events, tx, up, crashes, owed, calls, settled>>
  BY DEF Select, table, history
<1>2. PICK B \in SUBSET Undispatched(p) :
        /\ IsBatch(p, B)
        /\ IF B = {} THEN EndDrain(p)
                     ELSE /\ NextRow(p, B, Cardinality(B) = Limit)
                          /\ UNCHANGED <<wake, drainQueued>>
  BY DEF Select
<1>3. /\ B \in SUBSET Event /\ \A e \in B : events[e].st = "open"
      /\ \A e \in owed[p] : events[e].st \in {"pending", "open"} => e \in Undispatched(p)
  BY <1>0 DEF Undispatched, ProcOK, OwedOK, TypeOK
<1>4. Evolves /\ \A q \in Proc : \A e \in tx[q] : events'[e].st = "pending"
  BY <1>1, SameEvents
<1>5. CASE B = {}
  <2>1. EndDrain(p)
    BY <1>2, <1>5
  <2>2. Undispatched(p) = {}
    BY <1>2, <1>5, FS_EmptySet, BusAssumption DEF IsBatch
  <2>3. TypeOK'
    BY <1>0, <1>1, <2>1, EndDrainFacts DEF TypeOK
  <2>4. \A q \in Proc \ {p} : SameProc(q)
    BY <1>0, <1>1, <2>1, EndDrainFacts DEF SameProc
  <2>5. ProcOK(p)'
    <3>1. loop'[p] = Off
      BY <1>0, <2>1, EndDrainFacts
    <3>2. Sound(p)' /\ BatchOK(p)' /\ OwedOK(p)'
      BY <1>0, <1>1, <3>1 DEF ProcOK, Sound, BatchOK, OwedOK, Off
    <3>3. Awake(p)'
      BY <1>1, <1>3, <2>2 DEF Awake
    <3> QED BY <3>2, <3>3 DEF ProcOK
  <2> QED BY <1>0, <1>1, <1>4, <2>3, <2>4, <2>5, StepOfOne DEF OneTx
<1>6. CASE B # {}
  <2> DEFINE full == Cardinality(B) = Limit
  <2>1. NextRow(p, B, full) /\ UNCHANGED <<wake, drainQueued>> /\ full \in BOOLEAN
    BY <1>2, <1>6
  <2>2. /\ loop' \in [Proc -> Loop]
        /\ loop'[p] = [at |-> "rows", rows |-> B, subs |-> matching[First(B)], full |-> full]
        /\ \A q \in Proc \ {p} : loop'[q] = loop[q]
    BY <1>0, <1>3, <1>6, <2>1, NextRowFacts
  <2>3. B = Undispatched(p) \/ full
    BY <1>2 DEF IsBatch
  <2> HIDE DEF full
  <2>4. TypeOK'
    BY <1>0, <1>1, <2>1, <2>2 DEF TypeOK
  <2>5. \A q \in Proc \ {p} : SameProc(q)
    BY <1>1, <2>1, <2>2 DEF SameProc
  <2>6. BatchOK(p)'
    BY <1>0, <1>1, <1>3, <1>6, <2>1, <2>2, <2>4, FreshBatch
  <2>7. Sound(p)' /\ OwedOK(p)'
    BY <1>0, <1>1, <2>2 DEF ProcOK, Sound, OwedOK
  <2>8. Awake(p)'
    BY <1>1, <1>3, <2>2, <2>3 DEF Awake
  <2> QED BY <1>0, <1>1, <1>4, <2>4, <2>5, <2>6, <2>7, <2>8, StepOfOne DEF OneTx, ProcOK
<1> QED BY <1>5, <1>6

LEMMA CallHandlerHolds ==
  ASSUME BInv, NEW p \in Proc, CallHandler(p)
  PROVE  BInv'
<1>0. /\ TypeOK /\ ProcOK(p) /\ OneTx /\ loop[p].at = "rows" /\ loop[p].subs # {}
      /\ tx[p] = {} /\ up[p] /\ loop[p] \in Loop
  BY DEF BInv, ProcOK, Sound, CallHandler, TypeOK
<1>1. UNCHANGED <<now, events, tx, up, wake, drainQueued, crashes, owed, settled>>
  BY DEF CallHandler, table
<1>2. /\ loop'[p] = [at |-> "await", rows |-> loop[p].rows,
                     subs |-> loop[p].subs, full |-> loop[p].full]
      /\ \A q \in Proc \ {p} : loop'[q] = loop[q]
  BY <1>0 DEF CallHandler, GoTo, TypeOK, Loop
<1>3. TypeOK'
  <2>1. loop' \in [Proc -> Loop]
    <3>1. loop'[p] \in Loop
      BY <1>0, <1>2 DEF Loop
    <3> QED BY <1>0, <3>1 DEF CallHandler, GoTo, TypeOK
  <2>2. Current(p) \in Event /\ NextSub(p) \in Sub
    BY <1>0, FirstRow, SubNext DEF ProcOK, BatchOK, Current, IsFirst, Loop
  <2>3. calls' \in [Event -> [Sub -> Nat]]
    BY <1>0, <2>2 DEF CallHandler, TypeOK
  <2> QED BY <1>0, <1>1, <2>1, <2>3 DEF TypeOK
<1>4. Evolves /\ \A q \in Proc : \A e \in tx[q] : events'[e].st = "pending"
  BY <1>1, SameEvents
<1>5. \A q \in Proc \ {p} : SameProc(q)
  BY <1>1, <1>2 DEF SameProc
<1>6. BatchOK(p)'
  <2>1. Current(p)' = Current(p)
    BY <1>1, <1>2 DEF Current, First, Before
  <2> QED BY <1>0, <1>1, <1>2, <2>1 DEF ProcOK, BatchOK
<1>7. Sound(p)' /\ OwedOK(p)' /\ Awake(p)'
  BY <1>0, <1>1, <1>2 DEF ProcOK, Sound, OwedOK, Awake
<1> QED BY <1>0, <1>1, <1>3, <1>4, <1>5, <1>6, <1>7, StepOfOne DEF OneTx, ProcOK

LEMMA HandlerEndsHolds ==
  ASSUME BInv, NEW p \in Proc, HandlerEnds(p)
  PROVE  /\ BInv'
         /\ Current(p) \in Event /\ NextSub(p) \in matching[Current(p)]
         /\ events[Current(p)].st \in {"open", "done"}
<1>0. /\ TypeOK /\ ProcOK(p) /\ OneTx /\ loop[p].at = "await"
      /\ tx[p] = {} /\ up[p] /\ loop[p] \in Loop
  BY DEF BInv, ProcOK, Sound, HandlerEnds, TypeOK
<1> DEFINE c == Current(p)
           s == NextSub(p)
<1>1. /\ c \in loop[p].rows /\ s \in loop[p].subs /\ s \in matching[c]
      /\ c \in Event /\ s \in Sub /\ events[c].st \in {"open", "done"}
  BY <1>0, FirstRow, SubNext DEF ProcOK, BatchOK, Current, IsFirst, Loop
<1>2. UNCHANGED <<now, events, tx, up, wake, drainQueued, crashes, owed, calls>>
  BY DEF HandlerEnds, table
<1>3. /\ loop'[p] = [at |-> "rows", rows |-> loop[p].rows,
                     subs |-> loop[p].subs \ {s}, full |-> loop[p].full]
      /\ \A q \in Proc \ {p} : loop'[q] = loop[q]
  BY <1>0 DEF HandlerEnds, GoTo, TypeOK, Loop
<1>4. /\ settled' \in [Event -> SUBSET Sub] /\ settled'[c] = settled[c] \cup {s}
      /\ \A e \in Event : settled[e] \subseteq settled'[e]
  BY <1>0, <1>1 DEF HandlerEnds, TypeOK
<1>5. Current(p)' = c
  BY <1>2, <1>3 DEF Current, First, Before
<1> HIDE DEF c, s
<1>6. TypeOK'
  <2>1. loop'[p] \in Loop
    BY <1>0, <1>3 DEF Loop
  <2>2. loop' \in [Proc -> Loop]
    BY <1>0, <2>1 DEF HandlerEnds, GoTo, TypeOK
  <2> QED BY <1>0, <1>2, <1>4, <2>2 DEF TypeOK
<1>7. Evolves /\ \A q \in Proc : \A e \in tx[q] : events'[e].st = "pending"
  BY <1>2, <1>4, SameEvents
<1>8. \A q \in Proc \ {p} : SameProc(q)
  BY <1>2, <1>3 DEF SameProc
<1>9. BatchOK(p)'
  <2>1. /\ loop[p].rows # {} /\ \A e \in loop[p].rows : events[e].st \in {"open", "done"}
        /\ loop[p].subs \subseteq matching[c] /\ matching[c] \ loop[p].subs \subseteq settled[c]
    BY <1>0 DEF ProcOK, BatchOK, c
  <2> QED BY <1>2, <1>3, <1>4, <1>5, <2>1 DEF BatchOK
<1>10. Sound(p)' /\ OwedOK(p)' /\ Awake(p)'
  BY <1>0, <1>2, <1>3 DEF ProcOK, Sound, OwedOK, Awake
<1>11. BInv'
  BY <1>0, <1>2, <1>6, <1>7, <1>8, <1>9, <1>10, StepOfOne DEF OneTx, ProcOK
<1> QED BY <1>1, <1>11 DEF c, s

(* An event is marked only after all its subscribers have been through.      *)
LEMMA MarkHolds ==
  ASSUME BInv, NEW p \in Proc, Mark(p)
  PROVE  /\ BInv'
         /\ Current(p) \in Event /\ matching[Current(p)] \subseteq settled[Current(p)]
         /\ events[Current(p)].st \in {"open", "done"}
<1>0. /\ TypeOK /\ ProcOK(p) /\ OneTx /\ loop[p].at = "rows" /\ loop[p].subs = {}
      /\ tx[p] = {} /\ up[p] /\ loop[p] \in Loop
  BY DEF BInv, ProcOK, Sound, Mark, TypeOK
<1>1. PICK c \in Event : c = Current(p) /\ c \in loop[p].rows
  BY <1>0, FirstRow DEF ProcOK, BatchOK, Current, IsFirst, Loop
<1>2. events[c].st \in {"open", "done"} /\ matching[c] \subseteq settled[c]
  BY <1>0, <1>1 DEF ProcOK, BatchOK
<1>3. PICK rest \in SUBSET Event : rest = loop[p].rows \ {c}
  BY <1>0 DEF Loop
<1>4. UNCHANGED <<now, tx, up, crashes, owed, calls, settled>>
  BY DEF Mark, history
<1>5. /\ events' \in [Event -> Row]
      /\ events'[c].st = "done" /\ events'[c].at = events[c].at
      /\ \A e \in Event : e # c => events'[e] = events[e]
  BY <1>0, <1>1 DEF Mark, TypeOK, Row
<1>6. Evolves
  BY <1>2, <1>4, <1>5 DEF Evolves
<1>7. \A q \in Proc : \A e \in tx[q] : events'[e].st = "pending"
  <2>1. ASSUME NEW q \in Proc, NEW e \in tx[q] PROVE events[e].st = "pending" /\ e \in Event
    BY DEF BInv, ProcOK, Sound, TypeOK
  <2> QED BY <1>2, <1>5, <2>1
<1>8. \/ rest # {} /\ NextRow(p, rest, loop[p].full) /\ UNCHANGED <<wake, drainQueued>>
      \/ rest = {} /\ loop[p].full /\ GoTo(p, Selecting) /\ UNCHANGED <<wake, drainQueued>>
      \/ rest = {} /\ ~loop[p].full /\ EndDrain(p)
  BY <1>1, <1>3 DEF Mark
<1>9. loop[p].full \in BOOLEAN
  BY <1>0 DEF Loop
<1>10. Sound(p)' <=> (~up[p] => loop'[p].at = "off")
  BY <1>0, <1>4 DEF Sound
<1>11. OwedOK(p)'
  <2>1. ASSUME NEW e \in owed[p]
        PROVE  events'[e].st # "none" /\ (events'[e].st = "pending" => e \in tx[p])
    BY <1>0, <1>5, <2>1 DEF ProcOK, OwedOK, TypeOK
  <2> QED BY <1>4, <2>1 DEF OwedOK
<1>12. ASSUME NEW e \in owed[p], events'[e].st \in {"pending", "open"}
       PROVE  \/ wake[p] > 0 \/ drainQueued[p] \/ e \in rest \/ loop[p].full
  <2>1. e # c /\ events[e].st \in {"pending", "open"}
    BY <1>0, <1>5, <1>12 DEF TypeOK
  <2> QED BY <1>0, <1>3, <2>1 DEF ProcOK, Awake
<1>13. ASSUME rest # {} /\ NextRow(p, rest, loop[p].full) /\ UNCHANGED <<wake, drainQueued>>
       PROVE  BInv'
  <2>1. /\ loop' \in [Proc -> Loop]
        /\ loop'[p] = [at |-> "rows", rows |-> rest, subs |-> matching[First(rest)],
                       full |-> loop[p].full]
        /\ \A q \in Proc \ {p} : loop'[q] = loop[q]
    BY <1>0, <1>9, <1>13, NextRowFacts
  <2>2. TypeOK'
    BY <1>0, <1>4, <1>5, <1>13, <2>1 DEF TypeOK
  <2>3. \A q \in Proc \ {p} : SameProc(q)
    BY <1>4, <1>13, <2>1 DEF SameProc
  <2>4. \A e \in rest : events'[e].st \in {"open", "done"} /\ events'[e].at = events[e].at
    BY <1>0, <1>3, <1>5 DEF ProcOK, BatchOK
  <2>5. BatchOK(p)'
    BY <1>0, <1>9, <1>13, <2>1, <2>2, <2>4, FreshBatch
  <2>6. Sound(p)' /\ Awake(p)'
    BY <1>0, <1>4, <1>10, <1>12, <1>13, <2>1 DEF Awake
  <2> QED BY <1>0, <1>4, <1>6, <1>7, <1>11, <2>2, <2>3, <2>5, <2>6, StepOfOne
          DEF OneTx, ProcOK
<1>14. ASSUME rest = {} /\ loop[p].full /\ GoTo(p, Selecting) /\ UNCHANGED <<wake, drainQueued>>
       PROVE  BInv'
  <2>1. /\ loop' \in [Proc -> Loop] /\ loop'[p] = Selecting
        /\ \A q \in Proc \ {p} : loop'[q] = loop[q]
    BY <1>0, <1>14 DEF GoTo, TypeOK, Selecting, Loop
  <2>2. TypeOK'
    BY <1>0, <1>4, <1>5, <1>14, <2>1 DEF TypeOK
  <2>3. \A q \in Proc \ {p} : SameProc(q)
    BY <1>4, <1>14, <2>1 DEF SameProc
  <2>4. Sound(p)' /\ BatchOK(p)' /\ Awake(p)'
    BY <1>0, <1>10, <2>1 DEF BatchOK, Awake, Selecting
  <2> QED BY <1>0, <1>4, <1>6, <1>7, <1>11, <2>2, <2>3, <2>4, StepOfOne DEF OneTx, ProcOK
<1>15. ASSUME rest = {} /\ ~loop[p].full /\ EndDrain(p)
       PROVE  BInv'
  <2>1. /\ wake' \in [Proc -> Nat] /\ drainQueued' \in [Proc -> BOOLEAN]
        /\ loop' \in [Proc -> Loop] /\ loop'[p] = Off
        /\ wake[p] > 0 \/ drainQueued[p] => wake'[p] > 0
        /\ \A q \in Proc \ {p} : /\ loop'[q] = loop[q] /\ wake'[q] = wake[q]
                                 /\ drainQueued'[q] = drainQueued[q]
    BY <1>0, <1>15, EndDrainFacts
  <2>2. TypeOK'
    BY <1>0, <1>4, <1>5, <2>1 DEF TypeOK
  <2>3. \A q \in Proc \ {p} : SameProc(q)
    BY <1>4, <2>1 DEF SameProc
  <2>4. Sound(p)' /\ BatchOK(p)'
    BY <1>0, <1>10, <2>1 DEF BatchOK, Off
  <2>5. Awake(p)'
    BY <1>4, <1>12, <1>15, <2>1 DEF Awake
  <2> QED BY <1>0, <1>4, <1>6, <1>7, <1>11, <2>2, <2>3, <2>4, <2>5, StepOfOne DEF OneTx, ProcOK
<1>16. BInv'
  BY <1>8, <1>13, <1>14, <1>15
<1> QED BY <1>1, <1>2, <1>16

LEMMA BootHolds ==
  ASSUME BInv, NEW p \in Proc, Boot(p)
  PROVE  BInv'
<1>0. TypeOK /\ ProcOK(p) /\ OneTx /\ ~up[p] /\ tx[p] = {} /\ loop[p].at = "off"
  BY DEF BInv, ProcOK, Sound, Boot
<1>1. UNCHANGED <<now, events, tx, drainQueued, loop, crashes, calls, settled>>
  BY DEF Boot, table
<1>2. /\ up' \in [Proc -> BOOLEAN] /\ up'[p]
      /\ wake' \in [Proc -> Nat] /\ wake'[p] = IF RunWorkers THEN 1 ELSE 0
      /\ owed' \in [Proc -> SUBSET Event]
      /\ owed'[p] = IF RunWorkers THEN {e \in Event : events[e].st = "open"} ELSE {}
      /\ \A q \in Proc \ {p} : wake'[q] = wake[q] /\ owed'[q] = owed[q] /\ up'[q] = up[q]
  <2>1. up' \in [Proc -> BOOLEAN] /\ up'[p] /\ \A q \in Proc \ {p} : up'[q] = up[q]
    BY <1>0 DEF Boot, TypeOK
  <2>2. /\ wake' \in [Proc -> Nat] /\ wake'[p] = IF RunWorkers THEN 1 ELSE 0
        /\ \A q \in Proc \ {p} : wake'[q] = wake[q]
    BY <1>0 DEF Boot, TypeOK
  <2>3. /\ owed' \in [Proc -> SUBSET Event]
        /\ owed'[p] = IF RunWorkers THEN {e \in Event : events[e].st = "open"} ELSE {}
        /\ \A q \in Proc \ {p} : owed'[q] = owed[q]
    BY <1>0 DEF Boot, TypeOK
  <2> QED BY <2>1, <2>2, <2>3
<1>3. TypeOK'
  BY <1>0, <1>1, <1>2 DEF TypeOK
<1>4. Evolves /\ \A q \in Proc : \A e \in tx[q] : events'[e].st = "pending"
  BY <1>1, SameEvents
<1>5. \A q \in Proc \ {p} : SameProc(q)
  BY <1>1, <1>2 DEF SameProc
<1>6. BatchOK(p)'
  BY <1>0, <1>1 DEF ProcOK, BatchOK
<1>7. Sound(p)' /\ OwedOK(p)' /\ Awake(p)'
  BY <1>0, <1>1, <1>2 DEF Sound, OwedOK, Awake
<1> QED BY <1>0, <1>1, <1>3, <1>4, <1>5, <1>6, <1>7, StepOfOne DEF OneTx, ProcOK

LEMMA CrashHolds ==
  ASSUME BInv, NEW p \in Proc, Crash(p)
  PROVE  BInv'
<1>0. TypeOK /\ ProcOK(p) /\ OneTx /\ tx[p] \in SUBSET Event
  BY DEF BInv, TypeOK
<1>1. /\ \A e \in tx[p] : /\ events[e].st = "pending"
                          /\ events'[e].st = "gone" /\ events'[e].at = events[e].at
      /\ \A e \in Event \ tx[p] : events'[e] = events[e]
      /\ events' \in [Event -> Row]
  BY <1>0 DEF Crash, EndTx, ProcOK, Sound, TypeOK, Row
<1>2. /\ tx' \in [Proc -> SUBSET Event] /\ tx'[p] = {}
      /\ \A q \in Proc \ {p} : tx'[q] = tx[q] /\ (tx[p] # {} => tx[q] = {})
  BY <1>0 DEF Crash, EndTx, OneTx, TypeOK
<1>3. /\ loop' \in [Proc -> Loop] /\ loop'[p] = Off
      /\ \A q \in Proc \ {p} : loop'[q] = loop[q]
  BY <1>0 DEF Crash, GoTo, TypeOK, Off, Loop
<1>4. /\ wake' \in [Proc -> Nat] /\ drainQueued' \in [Proc -> BOOLEAN]
      /\ up' \in [Proc -> BOOLEAN] /\ crashes' \in Nat
      /\ \A q \in Proc \ {p} : /\ wake'[q] = wake[q] /\ drainQueued'[q] = drainQueued[q]
                               /\ up'[q] = up[q]
  BY <1>0 DEF Crash, TypeOK
<1>5. /\ owed' \in [Proc -> SUBSET Event] /\ owed'[p] = {}
      /\ \A q \in Proc \ {p} : owed'[q] = owed[q]
  BY <1>0 DEF Crash, TypeOK
<1>6. UNCHANGED <<now, calls, settled>>
  BY DEF Crash
<1>7. TypeOK'
  BY <1>0, <1>1, <1>2, <1>3, <1>4, <1>5, <1>6 DEF TypeOK
<1>8. Evolves
  BY <1>1, <1>6 DEF Evolves
<1>9. \A q \in Proc \ {p} : SameProc(q) /\ \A e \in tx[q] : events'[e].st = "pending"
  <2>1. ASSUME NEW q \in Proc \ {p}, NEW e \in tx[q] PROVE events'[e].st = "pending"
    <3>1. events[e].st = "pending" /\ e \in Event /\ e \notin tx[p]
      BY <1>0, <1>2, <2>1 DEF BInv, ProcOK, Sound, TypeOK
    <3> QED BY <1>1, <3>1
  <2> QED BY <1>2, <1>3, <1>4, <1>5, <2>1 DEF SameProc
<1>10. OneTx'
  BY <1>0, <1>2 DEF OneTx
<1>11. ProcOK(p)'
  BY <1>2, <1>3, <1>5 DEF ProcOK, Sound, BatchOK, OwedOK, Awake, Off
<1> QED BY <1>7, <1>8, <1>9, <1>10, <1>11, StepOfOne

LEMMA QuietHolds ==
  ASSUME BInv, UNCHANGED <<events, tx, up, wake, drainQueued, loop, owed, calls, settled>>,
         now' \in Nat, crashes' \in Nat
  PROVE  BInv'
<1>1. TypeOK'
  BY DEF BInv, TypeOK
<1>2. Evolves /\ \A q \in Proc : \A e \in tx[q] : events'[e].st = "pending"
  BY SameEvents
<1>3. \A q \in Proc : ProcOK(q)'
  BY <1>1, <1>2, Frame DEF SameProc
<1> QED BY <1>1, <1>3 DEF BInv, OneTx

LEMMA NextHolds == BInv /\ [Next]_vars => BInv'
<1> SUFFICES ASSUME BInv, [Next]_vars PROVE BInv'
  OBVIOUS
<1>1. CASE Tick
  <2>1. now \in Nat /\ crashes \in Nat
    BY DEF BInv, TypeOK
  <2> QED BY <1>1, <2>1, QuietHolds DEF Tick, local, history
<1>2. ASSUME NEW p \in Proc, Step(p) PROVE BInv'
  <2>1. CASE \E e \in Event, inTx \in BOOLEAN : Emit(p, e, inTx)
    BY <2>1, EmitHolds
  <2>2. CASE Commit(p)
    BY <2>2, EndTxHolds DEF Commit
  <2>3. CASE Rollback(p)
    BY <2>3, EndTxHolds DEF Rollback
  <2>4. CASE RunDrain(p)
    BY <2>4, RunDrainHolds
  <2>5. CASE Select(p)
    BY <2>5, SelectHolds
  <2>6. CASE CallHandler(p)
    BY <2>6, CallHandlerHolds
  <2>7. CASE HandlerEnds(p)
    BY <2>7, HandlerEndsHolds
  <2>8. CASE Mark(p)
    BY <2>8, MarkHolds
  <2>9. CASE Boot(p)
    BY <2>9, BootHolds
  <2>10. CASE Crash(p)
    BY <2>10, CrashHolds
  <2> QED BY <1>2, <2>1, <2>2, <2>3, <2>4, <2>5, <2>6, <2>7, <2>8, <2>9, <2>10
          DEF Step, DrainStep
<1>3. CASE UNCHANGED vars
  <2>1. now \in Nat /\ crashes \in Nat
    BY DEF BInv, TypeOK
  <2> QED BY <1>3, <2>1, QuietHolds DEF vars, table, local, history
<1> QED BY <1>1, <1>2, <1>3 DEF Next

THEOREM Invariant == Spec => []BInv
BY InitHolds, NextHolds, PTL DEF Spec

-----------------------------------------------------------------------------
(* Every variable keeps its type: in particular the rows a drain still has   *)
(* to go through are events, and its next subscribers are subscribed.        *)
THEOREM BusTyping == Spec => []TypeOK
<1>1. BInv => TypeOK
  BY DEF BInv
<1> QED BY <1>1, Invariant, PTL

(* emit()'s promise: no handler is called with an event whose transaction    *)
(* may still roll back.                                                      *)
THEOREM Committed == Spec => []NoPhantom
<1>1. BInv => NoPhantom
  BY DEF BInv, ProcOK, BatchOK, NoPhantom
<1> QED BY <1>1, Invariant, PTL

(* scheduleDrain's and drain()'s bookkeeping never forgets an event that     *)
(* nobody is about to dispatch.                                              *)
THEOREM Wakeful == Spec => []NoLostWakeup
<1>1. BInv => NoLostWakeup
  BY DEF BInv, ProcOK, Awake, NoLostWakeup
<1> QED BY <1>1, Invariant, PTL

-----------------------------------------------------------------------------
(* EventBus implements Outbox                                                *)

LEMMA BoxOf ==
  \A e \in Event :
    /\ events[e].st \in {"none", "pending", "gone"} => box[e] = "unknown"
    /\ events[e].st = "open" => box[e] = "waiting"
    /\ events[e].st = "done" => box[e] = "retired"
<1>1. \A e \in Event : box[e] = Stage(events[e].st)
  BY DEF box
<1> QED BY <1>1 DEF Stage

LEMMA BoxOfNext ==
  \A e \in Event :
    /\ events'[e].st \in {"none", "pending", "gone"} => box'[e] = "unknown"
    /\ events'[e].st = "open" => box'[e] = "waiting"
    /\ events'[e].st = "done" => box'[e] = "retired"
<1>1. \A e \in Event : box'[e] = Stage(events'[e].st)
  BY DEF box, Stage
<1> QED BY <1>1 DEF Stage

LEMMA BoxIsFunction ==
  /\ box = [e \in Event |-> box[e]]
  /\ box' = [e \in Event |-> box'[e]]
<1>1. box = [e \in Event |-> box[e]]
  BY DEF box
<1>2. box' = [e \in Event |-> box'[e]]
  BY DEF box
<1> QED BY <1>1, <1>2

LEMMA BoxStays ==
  ASSUME \A e \in Event : box'[e] = box[e]
  PROVE  box' = box
<1>1. box' = [e \in Event |-> box[e]]
  BY BoxIsFunction
<1> QED BY <1>1, BoxIsFunction

LEMMA BoxIfSameEvents == UNCHANGED events => UNCHANGED box
BY DEF box

LEMMA EmitRefines ==
  ASSUME TypeOK, NEW p \in Proc, NEW e \in Event, NEW inTx \in BOOLEAN, Emit(p, e, inTx)
  PROVE  Promise!Accept({e}) \/ UNCHANGED <<box, settled>>
<1>1. /\ events[e].st = "none"
      /\ events'[e].st = IF inTx THEN "pending" ELSE "open"
      /\ \A f \in Event : f # e => events'[f] = events[f]
      /\ UNCHANGED settled
  BY DEF Emit, TypeOK
<1>2. \A f \in Event : f # e => box'[f] = box[f]
  BY <1>1 DEF box
<1>3. CASE inTx
  <2>1. box'[e] = box[e]
    BY <1>1, <1>3, BoxOf, BoxOfNext
  <2> QED BY <1>1, <1>2, <2>1, BoxStays
<1>4. CASE ~inTx
  <2>1. box[e] = "unknown" /\ box'[e] = "waiting"
    BY <1>1, <1>4, BoxOf, BoxOfNext
  <2>2. box' = [f \in Event |-> IF f \in {e} THEN "waiting" ELSE box[f]]
    BY <1>2, <2>1, BoxIsFunction
  <2> QED BY <1>1, <2>1, <2>2 DEF Promise!Accept
<1> QED BY <1>3, <1>4

LEMMA EndTxRefines ==
  ASSUME BInv, NEW p \in Proc, NEW st \in {"open", "gone"}, EndTx(p, st), UNCHANGED settled
  PROVE  Promise!Accept(tx[p]) \/ UNCHANGED <<box, settled>>
<1>1. /\ tx[p] \in SUBSET Event
      /\ \A e \in tx[p] : events[e].st = "pending" /\ events'[e].st = st
      /\ \A e \in Event \ tx[p] : events'[e] = events[e]
  BY DEF BInv, TypeOK, EndTx, ProcOK, Sound, Row
<1>2. \A e \in Event \ tx[p] : box'[e] = box[e]
  BY <1>1 DEF box
<1>3. \A e \in tx[p] : box[e] = "unknown"
  BY <1>1, BoxOf
<1>4. CASE st = "gone"
  <2>1. \A e \in tx[p] : box'[e] = "unknown"
    BY <1>1, <1>4, BoxOfNext
  <2> QED BY <1>2, <1>3, <2>1, BoxStays
<1>5. CASE st = "open"
  <2>1. \A e \in tx[p] : box'[e] = "waiting"
    BY <1>1, <1>5, BoxOfNext
  <2>2. box' = [e \in Event |-> IF e \in tx[p] THEN "waiting" ELSE box[e]]
    BY <1>2, <2>1, BoxIsFunction
  <2> QED BY <1>3, <2>2 DEF Promise!Accept
<1> QED BY <1>4, <1>5

LEMMA HandlerEndsRefines ==
  ASSUME BInv, NEW p \in Proc, HandlerEnds(p)
  PROVE  \E e \in Event : \E s \in Sub : Promise!Serve(e, s)
<1>1. /\ Current(p) \in Event /\ NextSub(p) \in matching[Current(p)]
      /\ events[Current(p)].st \in {"open", "done"}
  BY HandlerEndsHolds
<1>2. NextSub(p) \in Sub
  BY <1>1, MatchingType
<1>3. box[Current(p)] # "unknown" /\ UNCHANGED box
  BY <1>1, BoxOf, BoxIfSameEvents DEF HandlerEnds, table
<1>4. settled' = [settled EXCEPT ![Current(p)] = @ \cup {NextSub(p)}]
  BY DEF HandlerEnds
<1>5. Promise!Serve(Current(p), NextSub(p))
  BY <1>1, <1>3, <1>4 DEF Promise!Serve
<1> QED BY <1>1, <1>2, <1>5

LEMMA MarkRefines ==
  ASSUME BInv, NEW p \in Proc, Mark(p)
  PROVE  (\E e \in Event : Promise!Retire(e)) \/ UNCHANGED <<box, settled>>
<1>1. PICK c \in Event :
        /\ c = Current(p) /\ matching[c] \subseteq settled[c]
        /\ events[c].st \in {"open", "done"}
  BY MarkHolds
<1>2. /\ events'[c].st = "done" /\ UNCHANGED settled
      /\ \A e \in Event : e # c => events'[e] = events[e]
  BY <1>1 DEF BInv, TypeOK, Row, Mark, history
<1>3. \A e \in Event : e # c => box'[e] = box[e]
  BY <1>2 DEF box
<1>4. box'[c] = "retired"
  BY <1>2, BoxOfNext
<1>5. CASE events[c].st = "done"
  <2>1. box[c] = "retired"
    BY <1>5, BoxOf
  <2> QED BY <1>2, <1>3, <1>4, <2>1, BoxStays
<1>6. CASE events[c].st = "open"
  <2>1. box[c] = "waiting"
    BY <1>6, BoxOf
  <2>2. box' = [box EXCEPT ![c] = "retired"]
    BY <1>3, <1>4, BoxIsFunction
  <2>3. Promise!Retire(c)
    BY <1>1, <1>2, <2>1, <2>2 DEF Promise!Retire
  <2> QED BY <2>3
<1> QED BY <1>1, <1>5, <1>6

LEMMA StepRefines ==
  ASSUME BInv, [Next]_vars
  PROVE  [Promise!OutboxNext]_<<box, settled>>
<1>1. ASSUME \E B \in SUBSET Event : Promise!Accept(B)
      PROVE  Promise!OutboxNext
  BY <1>1 DEF Promise!OutboxNext
<1>2. CASE Tick
  BY <1>2, BoxIfSameEvents DEF Tick, history
<1>3. CASE UNCHANGED vars
  BY <1>3, BoxIfSameEvents DEF vars, table, history
<1>4. ASSUME NEW p \in Proc, Step(p) PROVE [Promise!OutboxNext]_<<box, settled>>
  <2>0. TypeOK /\ tx[p] \in SUBSET Event
    BY DEF BInv, TypeOK
  <2>1. CASE \E e \in Event, inTx \in BOOLEAN : Emit(p, e, inTx)
    <3>1. PICK e \in Event : Promise!Accept({e}) \/ UNCHANGED <<box, settled>>
      BY <2>0, <2>1, EmitRefines
    <3> QED BY <1>1, <3>1
  <2>2. CASE Commit(p)
    BY <1>1, <2>0, <2>2, EndTxRefines DEF Commit, history
  <2>3. CASE Rollback(p)
    BY <1>1, <2>0, <2>3, EndTxRefines DEF Rollback, history
  <2>4. CASE RunDrain(p)
    BY <2>4, BoxIfSameEvents DEF RunDrain, table, history
  <2>5. CASE Select(p)
    BY <2>5, BoxIfSameEvents DEF Select, table, history
  <2>6. CASE CallHandler(p)
    BY <2>6, BoxIfSameEvents DEF CallHandler, table
  <2>7. CASE HandlerEnds(p)
    BY <2>7, HandlerEndsRefines DEF Promise!OutboxNext
  <2>8. CASE Mark(p)
    BY <2>8, MarkRefines DEF Promise!OutboxNext
  <2>9. CASE Boot(p)
    BY <2>9, BoxIfSameEvents DEF Boot, table
  <2>10. CASE Crash(p)
    BY <1>1, <2>0, <2>10, EndTxRefines DEF Crash
  <2> QED BY <1>4, <2>1, <2>2, <2>3, <2>4, <2>5, <2>6, <2>7, <2>8, <2>9, <2>10
          DEF Step, DrainStep
<1> QED BY <1>2, <1>3, <1>4 DEF Next

(* Whatever crashes and whoever competes, drain() keeps the outbox's promise *)
(* (at least once): an event is marked dispatched only after every handler   *)
(* that matches it has been called with it and come to an end.               *)
THEOREM AtLeastOnce == Spec => ImplementsOutbox
<1>1. Init => Promise!OutboxInit
  BY BoxOf, BoxIsFunction DEF Init, Promise!OutboxInit
<1>2. BInv /\ [Next]_vars => [Promise!OutboxNext]_<<box, settled>>
  BY StepRefines
<1> QED BY <1>1, <1>2, Invariant, PTL DEF Spec, ImplementsOutbox, Promise!OutboxSpec

-----------------------------------------------------------------------------
(* One process on the table                                                  *)

Single == \A p, q \in Proc : p = q

(* p has been to s with the event it is at, or awaits s.                     *)
Through(p, e, s) ==
  /\ e \in loop[p].rows /\ e = Current(p)
  /\ s \notin loop[p].subs \/ (loop[p].at = "await" /\ s = NextSub(p))

(* Only the event at the head of the batch has been to a handler since the   *)
(* last crash; what is marked will not go to one again.                      *)
CallsOK ==
  \A e \in Event, s \in Sub :
    /\ calls[e][s] <= 1 + crashes
    /\ events[e].st # "done" =>
         calls[e][s] <= crashes \/ \E p \in Proc : Through(p, e, s)

(* Nobody else marks the rows of a batch, and nothing older waits outside.   *)
BatchFirst(p) ==
  \A e \in loop[p].rows :
    /\ events[e].st = "open"
    /\ \A f \in Event \ loop[p].rows :
         events[f].st \in {"pending", "open"} => events[e].at <= events[f].at

(* Times lie in the past, and pending events in somebody's transaction.      *)
Clocked ==
  \A e \in Event :
    /\ events[e].st # "none" => events[e].at <= now
    /\ events[e].st = "pending" => \E p \in Proc : e \in tx[p]

AInv == BInv /\ CallsOK /\ Clocked /\ \A p \in Proc : BatchFirst(p)

LEMMA HeadStays ==
  ASSUME BInv, TypeOK', Evolves, NEW p \in Proc, loop'[p] = loop[p],
         NEW e \in Event, NEW s \in Sub
  PROVE  Through(p, e, s)' <=> Through(p, e, s)
<1>1. NextSub(p)' = NextSub(p)
  BY DEF NextSub
<1>2. CASE loop[p].rows = {}
  BY <1>2 DEF Through
<1>3. CASE loop[p].rows # {}
  <2>0. PICK B \in SUBSET Event : B = loop[p].rows
    BY DEF BInv, TypeOK, Loop
  <2>1. \A f \in B : events[f].st \in {"open", "done"}
    BY <1>3, <2>0 DEF BInv, ProcOK, BatchOK
  <2>2. \A f \in B : events'[f].at = events[f].at
    BY <2>1 DEF Evolves
  <2>3. First(B)' = First(B)
    BY <1>3, <2>0, <2>2, FirstStays DEF BInv
  <2>4. Current(p)' = Current(p)
    BY <2>0, <2>3 DEF Current
  <2> QED BY <1>1, <2>4 DEF Through
<1> QED BY <1>2, <1>3

(* Steps that leave the drains alone, and no event unmarked.                 *)
LEMMA CallsStay ==
  ASSUME AInv, TypeOK', Evolves, UNCHANGED <<loop, calls, crashes>>,
         \A e \in Event : events'[e].st # "done" => events[e].st # "done"
  PROVE  CallsOK'
<1>1. \A p \in Proc, e \in Event, s \in Sub : Through(p, e, s) => Through(p, e, s)'
  BY HeadStays DEF AInv
<1> QED BY <1>1 DEF AInv, CallsOK

(* What is emitted or committed is not older than a row of the batch.        *)
LEMMA BatchStaysFirst ==
  ASSUME AInv, UNCHANGED loop, NEW p \in Proc,
         \A e \in Event : events[e].st = "open" => events'[e] = events[e],
         \A f \in Event : events'[f].st \in {"pending", "open"} =>
           \/ events[f].st \in {"pending", "open"} /\ events'[f].at = events[f].at
           \/ events'[f].at = now
  PROVE  BatchFirst(p)'
<1>1. loop[p].rows \in SUBSET Event /\ loop'[p] = loop[p]
  BY DEF AInv, BInv, TypeOK, Loop
<1>2. ASSUME NEW e \in loop[p].rows
      PROVE  /\ events'[e] = events[e] /\ events[e].st = "open" /\ events[e].at <= now
             /\ \A f \in Event \ loop[p].rows :
                  events[f].st \in {"pending", "open"} => events[e].at <= events[f].at
  BY <1>1, <1>2 DEF AInv, BatchFirst, Clocked
<1> QED BY <1>1, <1>2 DEF BatchFirst

(* Steps that leave table, drains and calls alone.                           *)
LEMMA AloneQuiet ==
  ASSUME AInv, BInv', UNCHANGED <<events, tx, loop, calls, settled, crashes>>,
         now' >= now
  PROVE  AInv'
<1>1. Evolves
  BY SameEvents DEF AInv
<1>2. CallsOK'
  BY <1>1, CallsStay DEF BInv
<1>3. Clocked'
  <2>1. \A e \in Event : events[e].at \in Nat /\ now \in Nat /\ now' \in Nat
    BY DEF AInv, BInv, TypeOK, Row
  <2> QED BY <2>1 DEF AInv, Clocked
<1>4. \A p \in Proc : BatchFirst(p)'
  BY DEF AInv, BatchFirst
<1> QED BY <1>2, <1>3, <1>4 DEF AInv

LEMMA AloneEmit ==
  ASSUME AInv, BInv', NEW p \in Proc, NEW e \in Event, NEW inTx \in BOOLEAN,
         Emit(p, e, inTx)
  PROVE  AInv'
<1>0. /\ TypeOK /\ TypeOK' /\ now \in Nat
      /\ UNCHANGED <<now, calls, settled, crashes>> /\ events[e].st = "none"
  BY DEF AInv, BInv, TypeOK, Emit
<1>1. /\ events'[e].st \in {"pending", "open"} /\ events'[e].at = now
      /\ events'[e].st = "pending" => e \in tx'[p]
      /\ \A f \in Event : f # e => events'[f] = events[f]
      /\ \A q \in Proc : tx[q] \subseteq tx'[q]
  BY <1>0 DEF Emit, TypeOK
<1>2. UNCHANGED loop
  BY DEF Emit, scheduleDrain
<1>3. Evolves
  BY <1>0, <1>1 DEF Evolves
<1>4. CallsOK'
  BY <1>0, <1>1, <1>2, <1>3, CallsStay
<1>5. Clocked'
  <2>1. \A f \in Event : f # e => events'[f].at = events[f].at /\ events'[f].st = events[f].st
    BY <1>1
  <2> QED BY <1>0, <1>1, <2>1 DEF AInv, Clocked
<1>6. \A q \in Proc : BatchFirst(q)'
  BY <1>0, <1>1, <1>2, BatchStaysFirst
<1> QED BY <1>4, <1>5, <1>6 DEF AInv

LEMMA AloneEndTx ==
  ASSUME AInv, BInv', NEW p \in Proc, NEW st \in {"open", "gone"}, EndTx(p, st),
         UNCHANGED <<now, local, history>>
  PROVE  AInv'
<1>0. /\ TypeOK /\ TypeOK' /\ tx[p] \in SUBSET Event
      /\ UNCHANGED <<now, loop, calls, settled, crashes>>
  BY DEF AInv, BInv, TypeOK, local, history
<1>1. /\ \A e \in tx[p] : /\ events[e].st = "pending"
                          /\ events'[e].st = st /\ events'[e].at = events[e].at
      /\ \A e \in Event \ tx[p] : events'[e] = events[e]
      /\ \A q \in Proc \ {p} : tx'[q] = tx[q]
  BY <1>0 DEF AInv, BInv, EndTx, ProcOK, Sound, TypeOK, Row
<1>2. Evolves
  BY <1>0, <1>1 DEF Evolves
<1>3. CallsOK'
  BY <1>0, <1>1, <1>2, CallsStay
<1>4. Clocked'
  BY <1>0, <1>1 DEF AInv, Clocked
<1>5. \A q \in Proc : BatchFirst(q)'
  BY <1>0, <1>1, BatchStaysFirst
<1> QED BY <1>3, <1>4, <1>5 DEF AInv

(* A drain that begins or ends has no batch.                                 *)
LEMMA AloneNoBatch ==
  ASSUME AInv, BInv', Single, NEW p \in Proc, loop[p].rows = {}, loop'[p].rows = {},
         UNCHANGED <<now, events, tx, calls, crashes>>
  PROVE  AInv'
<1>1. CallsOK'
  BY DEF AInv, CallsOK, Single, Through
<1>2. Clocked' /\ \A q \in Proc : BatchFirst(q)'
  BY DEF AInv, Clocked, Single, BatchFirst
<1> QED BY <1>1, <1>2 DEF AInv

LEMMA AloneRunDrain ==
  ASSUME AInv, BInv', Single, NEW p \in Proc, RunDrain(p)
  PROVE  AInv'
<1>0. UNCHANGED <<now, events, tx, calls, settled, crashes>> /\ now \in Nat
  BY DEF AInv, BInv, TypeOK, RunDrain, table, history
<1>1. CASE draining(p)
  BY <1>0, <1>1, AloneQuiet DEF RunDrain
<1>2. CASE ~draining(p)
  <2>1. loop[p].rows = {}
    BY <1>2 DEF AInv, BInv, ProcOK, BatchOK, draining
  <2>2. loop'[p] = Selecting
    BY <1>2 DEF AInv, BInv, TypeOK, RunDrain, GoTo
  <2> QED BY <1>0, <2>1, <2>2, AloneNoBatch DEF Selecting
<1> QED BY <1>1, <1>2

LEMMA AloneSelect ==
  ASSUME AInv, BInv', Single, NEW p \in Proc, Select(p)
  PROVE  AInv'
<1>0. /\ TypeOK /\ tx[p] = {} /\ loop[p].rows = {}
      /\ UNCHANGED <<now, events, tx, calls, crashes>>
  BY DEF AInv, BInv, ProcOK, Sound, BatchOK, Select, table, history
<1>1. PICK B \in SUBSET Undispatched(p) :
        /\ IsBatch(p, B)
        /\ IF B = {} THEN EndDrain(p)
                     ELSE /\ NextRow(p, B, Cardinality(B) = Limit)
                          /\ UNCHANGED <<wake, drainQueued>>
  BY DEF Select
<1>2. CASE B = {}
  <2>1. loop'[p].rows = {}
    BY <1>0, <1>1, <1>2, EndDrainFacts DEF Off
  <2> QED BY <1>0, <2>1, AloneNoBatch
<1>3. CASE B # {}
  <2>1. B \in SUBSET Event /\ \A e \in B : events[e].st = "open"
    BY <1>0 DEF Undispatched
  <2>2. loop'[p].rows = B
    <3> DEFINE full == Cardinality(B) = Limit
    <3>1. NextRow(p, B, full) /\ full \in BOOLEAN
      BY <1>1, <1>3
    <3> HIDE DEF full
    <3>2. loop'[p] = [at |-> "rows", rows |-> B, subs |-> matching[First(B)], full |-> full]
      BY <1>0, <1>3, <2>1, <3>1, NextRowFacts
    <3> QED BY <3>2
  <2>3. \A f \in Event : events[f].st \in {"pending", "open"} => f \in Undispatched(p)
    BY <1>0 DEF AInv, Clocked, Single, Undispatched
  <2>4. ASSUME NEW e \in B, NEW f \in Event \ B, events[f].st \in {"pending", "open"}
        PROVE  events[e].at <= events[f].at
    <3>1. Before(e, f)
      BY <1>1, <2>3, <2>4 DEF IsBatch
    <3>2. events[e].at \in Nat /\ events[f].at \in Nat
      BY <1>0, <2>1 DEF TypeOK, Row
    <3> QED BY <3>1, <3>2 DEF Before
  <2>5. BatchFirst(p)'
    BY <1>0, <2>1, <2>2, <2>4 DEF BatchFirst
  <2>6. CallsOK'
    BY <1>0 DEF AInv, CallsOK, Single, Through
  <2>7. Clocked'
    BY <1>0 DEF AInv, Clocked
  <2> QED BY <2>5, <2>6, <2>7 DEF AInv, Single
<1> QED BY <1>2, <1>3

LEMMA AloneCallHandler ==
  ASSUME AInv, BInv', Single, NEW p \in Proc, CallHandler(p)
  PROVE  AInv'
<1>0. /\ TypeOK /\ loop[p].at = "rows" /\ loop[p].subs # {} /\ loop[p] \in Loop
      /\ UNCHANGED <<now, events, tx, crashes>> /\ loop[p].rows # {} /\ crashes \in Nat
  BY DEF AInv, BInv, TypeOK, ProcOK, BatchOK, CallHandler, table
<1>1. /\ loop'[p].rows = loop[p].rows /\ loop'[p].subs = loop[p].subs
      /\ loop'[p].at = "await"
  BY <1>0 DEF CallHandler, GoTo, TypeOK, Loop
<1>2. PICK c \in Event, n \in Sub :
        /\ c = Current(p) /\ c \in loop[p].rows
        /\ n = NextSub(p) /\ n \in loop[p].subs
  BY <1>0, FirstRow, SubNext DEF Current, IsFirst, Loop
<1>3. Current(p)' = c /\ NextSub(p)' = n
  BY <1>0, <1>1, <1>2 DEF Current, First, Before, NextSub
<1>4. ASSUME NEW e \in Event, NEW s \in Sub
      PROVE  /\ calls[e][s] \in Nat
             /\ calls'[e][s] = IF e = c /\ s = n THEN calls[e][s] + 1 ELSE calls[e][s]
  BY <1>0, <1>2 DEF CallHandler, TypeOK
<1>5. \A e \in Event, s \in Sub : Through(p, e, s) => Through(p, e, s)'
  BY <1>0, <1>1, <1>2, <1>3 DEF Through
<1>6. Through(p, c, n)' /\ ~Through(p, c, n) /\ events[c].st = "open"
  BY <1>0, <1>1, <1>2, <1>3 DEF AInv, BatchFirst, Through
<1>7. calls[c][n] <= crashes
  BY <1>2, <1>6 DEF AInv, CallsOK, Single
<1>8. CallsOK'
  <2>1. ASSUME NEW e \in Event, NEW s \in Sub
        PROVE  /\ calls'[e][s] <= 1 + crashes
               /\ events[e].st # "done" => calls'[e][s] <= crashes \/ Through(p, e, s)'
    <3>1. CASE e = c /\ s = n
      <4>1. Through(p, e, s)'
        BY <1>6, <3>1
      <4>2. calls'[e][s] = calls[e][s] + 1 /\ calls[e][s] <= crashes
        BY <1>4, <1>7, <3>1
      <4> QED BY <1>0, <1>4, <4>1, <4>2
    <3>2. CASE ~(e = c /\ s = n)
      BY <1>4, <1>5, <3>2 DEF AInv, CallsOK, Single
    <3> QED BY <3>1, <3>2
  <2> QED BY <1>0, <2>1 DEF CallsOK
<1>9. Clocked' /\ \A q \in Proc : BatchFirst(q)'
  BY <1>0, <1>1 DEF AInv, Clocked, Single, BatchFirst
<1> QED BY <1>8, <1>9 DEF AInv

LEMMA AloneHandlerEnds ==
  ASSUME AInv, BInv', Single, NEW p \in Proc, HandlerEnds(p)
  PROVE  AInv'
<1>0. /\ TypeOK /\ loop[p].at = "await" /\ loop[p] \in Loop
      /\ UNCHANGED <<now, events, tx, crashes, calls>>
  BY DEF AInv, BInv, TypeOK, HandlerEnds, table
<1>1. loop'[p].rows = loop[p].rows /\ loop'[p].subs = loop[p].subs \ {NextSub(p)}
  BY <1>0 DEF HandlerEnds, GoTo, TypeOK, Loop
<1>2. Current(p)' = Current(p)
  BY <1>0, <1>1 DEF Current, First, Before
<1>3. \A e \in Event, s \in Sub : Through(p, e, s) => Through(p, e, s)'
  BY <1>1, <1>2 DEF Through
<1>4. CallsOK'
  BY <1>0, <1>3 DEF AInv, CallsOK, Single
<1>5. Clocked' /\ \A q \in Proc : BatchFirst(q)'
  BY <1>0, <1>1 DEF AInv, Clocked, Single, BatchFirst
<1> QED BY <1>4, <1>5 DEF AInv

(* The row that is marked was the oldest that waited.                        *)
LEMMA AloneMark ==
  ASSUME AInv, BInv', Single, NEW p \in Proc, Mark(p)
  PROVE  /\ AInv'
         /\ \A f \in Event : events[f].st = "open" => events[Current(p)].at <= events[f].at
<1>0. /\ TypeOK /\ loop[p].at = "rows" /\ loop[p].subs = {} /\ loop[p] \in Loop
      /\ UNCHANGED <<now, tx, crashes, calls>> /\ loop[p].rows # {}
      /\ loop[p].rows \in SUBSET Event /\ loop[p].full \in BOOLEAN
  BY DEF AInv, BInv, TypeOK, ProcOK, BatchOK, Mark, history, Loop
<1>1. PICK c \in Event : c = Current(p) /\ c \in loop[p].rows
                         /\ \A f \in loop[p].rows \ {c} : Before(c, f)
  BY <1>0, FirstRow DEF Current, IsFirst
<1>2. PICK rest \in SUBSET Event : rest = loop[p].rows \ {c}
  BY <1>0
<1>3. /\ events'[c].st = "done" /\ events'[c].at = events[c].at
      /\ \A e \in Event : e # c => events'[e] = events[e]
  BY <1>0, <1>1 DEF Mark, TypeOK, Row
<1>4. loop'[p].rows = rest
  <2>1. CASE rest # {} /\ NextRow(p, rest, loop[p].full)
    <3>1. loop'[p] = [at |-> "rows", rows |-> rest, subs |-> matching[First(rest)],
                      full |-> loop[p].full]
      BY <1>0, <2>1, NextRowFacts
    <3> QED BY <3>1
  <2>2. CASE rest = {} /\ GoTo(p, Selecting)
    BY <1>0, <2>2 DEF GoTo, TypeOK, Selecting
  <2>3. CASE rest = {} /\ EndDrain(p)
    BY <1>0, <2>3, EndDrainFacts DEF Off
  <2> QED BY <1>1, <1>2, <2>1, <2>2, <2>3 DEF Mark
<1>5. CallsOK'
  <2>1. \A e \in Event, s \in Sub : Through(p, e, s) => e = c
    BY <1>1 DEF Through
  <2>2. \A e \in Event, s \in Sub :
          events'[e].st # "done" => e # c /\ events[e].st # "done"
    BY <1>3
  <2> QED BY <1>0, <2>1, <2>2 DEF AInv, CallsOK, Single
<1>6. Clocked'
  <2>1. events[c].st = "open"
    BY <1>1 DEF AInv, BatchFirst
  <2> QED BY <1>0, <1>3, <2>1 DEF AInv, Clocked
<1>7. BatchFirst(p)'
  <2>1. ASSUME NEW e \in rest
        PROVE  /\ events'[e] = events[e] /\ events[e].st = "open"
               /\ \A f \in Event \ rest : events'[f].st \in {"pending", "open"} =>
                    events[e].at <= events'[f].at
    <3>1. e # c /\ e \in loop[p].rows
      BY <1>2
    <3>2. \A f \in Event \ rest : events'[f].st \in {"pending", "open"} =>
            f \notin loop[p].rows /\ events'[f] = events[f]
      BY <1>2, <1>3
    <3> QED BY <1>3, <3>1, <3>2 DEF AInv, BatchFirst
  <2> QED BY <1>4, <2>1 DEF BatchFirst
<1>8. AInv'
  BY <1>5, <1>6, <1>7 DEF AInv, Single
<1>9. ASSUME NEW f \in Event, events[f].st = "open" PROVE events[c].at <= events[f].at
  <2>0. events[c].at \in Nat /\ events[f].at \in Nat
    BY <1>0 DEF TypeOK, Row
  <2>1. CASE f = c
    BY <2>0, <2>1
  <2>2. CASE f \in loop[p].rows \ {c}
    BY <1>1, <2>0, <2>2 DEF Before
  <2>3. CASE f \notin loop[p].rows
    BY <1>1, <1>9, <2>3 DEF AInv, BatchFirst
  <2> QED BY <2>1, <2>2, <2>3
<1> QED BY <1>1, <1>8, <1>9

LEMMA AloneCrash ==
  ASSUME AInv, BInv', Single, NEW p \in Proc, Crash(p)
  PROVE  AInv'
<1>0. /\ TypeOK /\ tx[p] \in SUBSET Event /\ UNCHANGED <<now, calls>>
      /\ crashes' = crashes + 1 /\ crashes \in Nat
  BY DEF AInv, BInv, TypeOK, Crash
<1>1. /\ \A e \in tx[p] : /\ events[e].st = "pending"
                          /\ events'[e].st = "gone" /\ events'[e].at = events[e].at
      /\ \A e \in Event \ tx[p] : events'[e] = events[e]
  BY <1>0 DEF AInv, BInv, Crash, EndTx, ProcOK, Sound, TypeOK, Row
<1>2. loop'[p].rows = {}
  BY <1>0 DEF Crash, GoTo, TypeOK, Off
<1>3. CallsOK'
  <2>1. \A e \in Event, s \in Sub : calls[e][s] \in Nat
    BY <1>0 DEF TypeOK
  <2> QED BY <1>0, <2>1 DEF AInv, CallsOK
<1>4. Clocked'
  <2>1. \A e \in Event : events'[e].st # "pending"
    BY <1>1 DEF AInv, Clocked, Single
  <2> QED BY <1>0, <1>1, <2>1 DEF AInv, Clocked
<1> QED BY <1>2, <1>3, <1>4 DEF AInv, Single, BatchFirst

LEMMA AloneStep ==
  ASSUME AInv, [Next]_vars, Single
  PROVE  AInv'
<1>0. BInv' /\ now \in Nat
  BY NextHolds DEF AInv, BInv, TypeOK
<1>1. CASE Tick
  BY <1>0, <1>1, AloneQuiet DEF Tick, local, history
<1>2. ASSUME NEW p \in Proc, Step(p) PROVE AInv'
  <2>1. CASE \E e \in Event, inTx \in BOOLEAN : Emit(p, e, inTx)
    BY <1>0, <2>1, AloneEmit
  <2>2. CASE Commit(p)
    BY <1>0, <2>2, AloneEndTx DEF Commit
  <2>3. CASE Rollback(p)
    BY <1>0, <2>3, AloneEndTx DEF Rollback
  <2>4. CASE RunDrain(p)
    BY <1>0, <2>4, AloneRunDrain
  <2>5. CASE Select(p)
    BY <1>0, <2>5, AloneSelect
  <2>6. CASE CallHandler(p)
    BY <1>0, <2>6, AloneCallHandler
  <2>7. CASE HandlerEnds(p)
    BY <1>0, <2>7, AloneHandlerEnds
  <2>8. CASE Mark(p)
    BY <1>0, <2>8, AloneMark
  <2>9. CASE Boot(p)
    BY <1>0, <2>9, AloneQuiet DEF Boot, table
  <2>10. CASE Crash(p)
    BY <1>0, <2>10, AloneCrash
  <2> QED BY <1>2, <2>1, <2>2, <2>3, <2>4, <2>5, <2>6, <2>7, <2>8, <2>9, <2>10
          DEF Step, DrainStep
<1>3. CASE UNCHANGED vars
  BY <1>0, <1>3, AloneQuiet DEF vars, table, local, history
<1> QED BY <1>1, <1>2, <1>3 DEF Next

LEMMA AloneInit == Init => AInv
<1>1. Init => CallsOK /\ Clocked
  BY DEF Init, CallsOK, Clocked
<1>2. Init => \A p \in Proc : BatchFirst(p)
  BY DEF Init, BatchFirst, Off
<1> QED BY <1>1, <1>2, InitHolds DEF AInv

(* Only Mark marks an event: the one its drain is at.                        *)
LEMMA OldestStep ==
  ASSUME AInv, [Next]_vars, Single,
         NEW e \in Event, NEW f \in Event, events[e].st = "open",
         events'[e].st = "done", events[f].st = "open"
  PROVE  events[e].at <= events[f].at
<1>0. TypeOK /\ events' # events /\ AInv' /\ BInv'
  BY AloneStep, NextHolds DEF AInv, BInv
<1>1. PICK p \in Proc : Step(p)
  BY <1>0 DEF Next, Tick, vars, table
<1>2. ~(\E g \in Event, inTx \in BOOLEAN : Emit(p, g, inTx))
  <2>1. ASSUME NEW g \in Event, NEW inTx \in BOOLEAN, Emit(p, g, inTx) PROVE FALSE
    <3>1. events[g].st = "none" /\ g # e
      BY <2>1 DEF Emit
    <3>2. events'[e] = events[e]
      BY <1>0, <2>1, <3>1 DEF Emit, TypeOK
    <3> QED BY <3>2
  <2> QED BY <2>1
<1>3. ASSUME NEW st \in {"open", "gone"}, EndTx(p, st) PROVE FALSE
  <2>1. e \notin tx[p]
    BY DEF AInv, BInv, ProcOK, Sound
  <2>2. events'[e] = events[e]
    BY <1>3, <2>1 DEF EndTx
  <2> QED BY <2>2
<1>4. ~Commit(p) /\ ~Rollback(p) /\ ~Crash(p)
  BY <1>3 DEF Commit, Rollback, Crash
<1>5. Mark(p)
  BY <1>0, <1>1, <1>2, <1>4
     DEF Step, DrainStep, RunDrain, Select, CallHandler, HandlerEnds, Boot, table
<1>6. e = Current(p)
  <2>1. e # Current(p) => events'[e] = events[e]
    BY <1>0, <1>5 DEF Mark, TypeOK
  <2> QED BY <2>1
<1> QED BY <1>0, <1>5, <1>6, AloneMark

(* With one process on the table, a handler gets an event once, plus once    *)
(* per crash, through any interleaving of emits, callbacks and drains.       *)
THEOREM OncePerLife ==
  ASSUME Single
  PROVE  Spec => []BoundedRedelivery
<1>1. AInv /\ [Next]_vars => AInv'
  BY AloneStep
<1>2. AInv => BoundedRedelivery
  BY DEF AInv, CallsOK, BoundedRedelivery
<1> QED BY <1>1, <1>2, AloneInit, PTL DEF Spec

(* With one process on the table, an event is marked only when no older one  *)
(* waits, over batches, crashes and boots.                                   *)
THEOREM InOrder ==
  ASSUME Single
  PROVE  Spec => OldestFirst
<1>1. AInv /\ [Next]_vars => AInv'
  BY AloneStep
<1>2. AInv /\ [Next]_vars =>
        [\A e, f \in Event :
           events[e].st = "open" /\ events'[e].st = "done" /\ events[f].st = "open" =>
             events[e].at <= events[f].at]_vars
  BY OldestStep
<1> QED BY <1>1, <1>2, AloneInit, PTL DEF Spec, OldestFirst

=============================================================================
