----------------------------- MODULE MCLockMap ------------------------------
(***************************************************************************)
(* Instances of LockMap for TLC.                                           *)
(***************************************************************************)
EXTENDS LockMap

CONSTANTS p1, p2, p3, k1, k2
=============================================================================
