---------------------------- MODULE MCWorkerPool ----------------------------
(* Constants for the TLC runs of WorkerPool.                                 *)
EXTENDS WorkerPool, TLC

MCEqualPriority == [j \in Job |-> 0]
(* One row (whichever CHOOSE picks) goes before the others.                  *)
MCFavourite == [j \in Job |-> IF j = (CHOOSE i \in Job : TRUE) THEN 1 ELSE 0]

MCNow == {0}
MCNowOrLater == {0, 1}

MCWorkerSymmetry == Permutations(Worker)
MCSymmetry == Permutations(Worker) \cup Permutations(Job)
=============================================================================
