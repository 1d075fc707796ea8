----------------------------- MODULE MCWorkspace -----------------------------
(* Constants for the TLC run of Workspace and the three that refute a comment.*)
EXTENDS Workspace

(* Any list of up to three ids, of three none twice.                         *)
MCOrder == {ids \in BoundedSeq(Shot, 3) : Len(ids) = 3 => IsInjective(ids)}
(* One of them is where a reorder puts shots out of the way.                  *)
MCNumber == {-1, 1, 3}
MCScope == {"c", All}

MCSymmetry == Permutations(Mem)
=============================================================================
