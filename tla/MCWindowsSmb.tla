---------------------------- MODULE MCWindowsSmb ----------------------------
(***************************************************************************)
(* An instance of WindowsSmb for TLC: two volumes of a share spelled       *)
(* alike, one that is spelled differently, and an inline volume.           *)
(***************************************************************************)
EXTENDS WindowsSmb, TLC

CONSTANTS p1, p2, p3, t1, t2, t3, t4, lower, upper

Spelled == t1 :> lower @@ t2 :> lower @@ t3 :> upper @@ t4 :> lower

Symmetry == Permutations(Procs) \cup Permutations({t1, t2})
=============================================================================
