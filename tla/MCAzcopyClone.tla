---------------------------- MODULE MCAzcopyClone ---------------------------
(***************************************************************************)
(* Instances of AzcopyClone for TLC: the volumes are interchangeable.      *)
(***************************************************************************)
EXTENDS AzcopyClone, TLC

Symmetry == Permutations(Vols)
=============================================================================
