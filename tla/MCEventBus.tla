----------------------------- MODULE MCEventBus -----------------------------
(* Constants for the TLC runs of EventBus: two types of event of which one   *)
(* interests two subscribers, the other only the subscriber to everything.   *)
EXTENDS EventBus

MCEvent == 1 .. 3
MCTwoEvents == 1 .. 2
MCEventType == [e \in MCEvent |-> IF e = 2 THEN <<"fan">> ELSE <<"fan", "created">>]
MCSubscriptions == <<[wild |-> TRUE, path |-> <<>>], [wild |-> TRUE, path |-> <<"fan">>],
                     [wild |-> FALSE, path |-> <<"fan", "created", "late">>]>>
=============================================================================
