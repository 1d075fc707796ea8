----------------------------- MODULE MCPlatform -----------------------------
(* Constants for the TLC run of Platform and the one that refutes a comment. *)
EXTENDS Platform, TLC

(* No ties: the lower id wins.                                               *)
MCPriority == [p \in Provider |-> p]

(* A statement that admits, one that does not, one that is itself at fault.  *)
MCDisclosure == {{"admits"}, {}, {"admits", "claims", "forbidden"}}

(* Requests of the library are interchangeable.                              *)
MCSymmetry == Permutations(Req)
=============================================================================
