------------------------------- MODULE Outbox -------------------------------
(* What the event bus promises about one event, without processes, drains or *)
(* wake-ups: the event is accepted, its subscribers are called while it is   *)
(* waiting, and it is retired once every one of them has been called to the  *)
(* end.  A subscriber may be called again, never too few times.              *)
CONSTANTS
  Event, Sub,
  Wanted        \* [Event -> SUBSET Sub]: who is to be called

VARIABLES
  box,          \* box[e]: is e unknown, waiting or retired
  served        \* served[e]: the subscribers that have dealt with e

OutboxInit ==
  /\ box = [e \in Event |-> "unknown"]
  /\ served = [e \in Event |-> {}]

(* The events of one transaction are accepted together.                      *)
Accept(B) ==
  /\ \A e \in B : box[e] = "unknown"
  /\ box' = [e \in Event |-> IF e \in B THEN "waiting" ELSE box[e]]
  /\ UNCHANGED served

(* Also after e is retired: a second process may still be at it.             *)
Serve(e, s) ==
  /\ box[e] # "unknown" /\ s \in Wanted[e]
  /\ served' = [served EXCEPT ![e] = @ \cup {s}]
  /\ UNCHANGED box

Retire(e) ==
  /\ box[e] = "waiting" /\ Wanted[e] \subseteq served[e]
  /\ box' = [box EXCEPT ![e] = "retired"]
  /\ UNCHANGED served

OutboxNext ==
  \/ \E B \in SUBSET Event : Accept(B)
  \/ \E e \in Event : Retire(e) \/ \E s \in Sub : Serve(e, s)

OutboxSpec == OutboxInit /\ [][OutboxNext]_<<box, served>>
=============================================================================
