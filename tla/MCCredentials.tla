--------------------------- MODULE MCCredentials ---------------------------
(***************************************************************************)
(* Credentials for TLC: two volumes that name one secret and are of one    *)
(* account or of two, or one of them names none; two volumes with the      *)
(* token of one secret; one volume with the token of an identity,          *)
(* persistent or inline.                                                   *)
(***************************************************************************)
EXTENDS Credentials, TLC

CONSTANTS p1, p2, a1, a2, s1, s2, sx, k1, k2, k3, o1, o2, w1, w2

AccountOf == k1 :> a1 @@ k2 :> a1 @@ k3 :> a2
             @@ o1 :> a1 @@ o2 :> a1 @@ w1 :> a1 @@ w2 :> a1
AuthOf == [v \in {k1, k2, k3} |-> "key"] @@ [v \in {o1, o2} |-> "oauth"]
          @@ [v \in {w1, w2} |-> "identity"]
NameOf == k1 :> sx @@ k3 :> sx @@ [v \in Volumes |-> None]
Defaults == a1 :> s1 @@ a2 :> s2
AllScenarios == {{k1, k3}, {k1, k2}, {o1, o2}, {w1}, {w2}}
BoundOf == [s \in AllScenarios |-> IF s = {k1, k3} THEN 1
                                   ELSE IF s = {k1, k2} THEN 2 ELSE 3]
=============================================================================
