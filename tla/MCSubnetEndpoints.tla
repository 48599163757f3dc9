------------------------- MODULE MCSubnetEndpoints --------------------------
(***************************************************************************)
(* An instance of SubnetEndpoints for TLC: a list of two subnets and the   *)
(* list without names, which means the same subnets in another order.      *)
(***************************************************************************)
EXTENDS SubnetEndpoints, TLC

CONSTANTS p1, p2, s1, s2, two, all

SomeNames == two :> <<s2, s1>> @@ all :> <<>>
TwoSubnets == <<s1, s2>>
=============================================================================
