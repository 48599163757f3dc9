--------------------------- MODULE MCProvisioning ---------------------------
(***************************************************************************)
(* Instances of Provisioning for TLC. All volumes of an instance share one *)
(* set of parameters, so that they compete for the same account; v2 may    *)
(* name its account itself. The accounts that are not there at the start   *)
(* can be created.                                                         *)
(***************************************************************************)
EXTENDS Provisioning, TLC

CONSTANTS v1, v2, v3, a1, a2, a3, a4, k1, p1, p2

OneClass     == [v \in Vols |-> k1]
NoAccount    == [v \in Vols |-> None]
V2NamesA1    == [v \in Vols |-> IF v = v2 THEN a1 ELSE None]
NoneAtStart  == [a \in Accounts |-> None]
TwoAtStart   == [a \in Accounts |-> IF a \in {a1, a2} THEN k1 ELSE None]

Calls(n1, n2, n3) == [v \in Vols |-> CASE v = v1 -> n1 [] v = v2 -> n2 [] OTHER -> n3]
Fresh(n1, n2, n3, n) ==
    [calls |-> Calls(n1, n2, n3), faults |-> n, tagged |-> {}]
Full(n1, n2, n3, n) == [Fresh(n1, n2, n3, n) EXCEPT !.tagged = {a1, a2}]

\* A volume that is asked for again and again, alone or next to one that names an account;
\* two volumes that search an account when there is none left.
Several == {Fresh(3, 0, 0, 1), Fresh(1, 2, 0, 1), Fresh(0, 3, 0, 1), Full(1, 0, 1, 0)}
TwoEach == {Fresh(2, 2, 0, 0)}

SymmetryAll  == Permutations(Procs) \cup Permutations(Accounts) \cup Permutations(Vols)
=============================================================================
