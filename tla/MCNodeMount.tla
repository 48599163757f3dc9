----------------------------- MODULE MCNodeMount ----------------------------
(***************************************************************************)
(* Instances of NodeMount for TLC.                                         *)
(***************************************************************************)
EXTENDS NodeMount
=============================================================================
