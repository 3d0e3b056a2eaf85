---------------------------- MODULE MCChrdevIrq ----------------------------
(* Instances of ChrdevIrq for TLC. *)
EXTENDS ChrdevIrqRefinement, TLC

\* Readers are interchangeable; used by runs without temporal properties.
ReaderSymmetry == Permutations(Readers)
=============================================================================
