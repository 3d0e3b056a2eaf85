---------------------------- MODULE MCChrdevFile ----------------------------
(* Instances of ChrdevFile for TLC. *)
EXTENDS ChrdevFileRefinement, TLC

CONSTANTS p1, p2, f1

Shared == p1 :> f1 @@ p2 :> f1

\* The two processes do the same on the same file.
ProcSymmetry == Permutations(Procs)

\* One byte back and forth.
Around == {-1, 1}
=============================================================================
