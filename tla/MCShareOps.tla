----------------------------- MODULE MCShareOps -----------------------------
(***************************************************************************)
(* Instances of ShareOps for TLC: the goroutines are interchangeable.      *)
(***************************************************************************)
EXTENDS ShareOps, TLC

Symmetry == Permutations(Procs)
=============================================================================
