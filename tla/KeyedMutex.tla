----------------------------- MODULE KeyedMutex -----------------------------
(***************************************************************************)
(* What the driver expects of a lockMap: per key, a mutex held by at most  *)
(* one goroutine and released by its holder. A restart of the process      *)
(* frees every key.                                                        *)
(***************************************************************************)
CONSTANTS Procs, Keys, None

VARIABLE holder       \* key -> the goroutine that holds it

Init == holder = [k \in Keys |-> None]

Acquire(p, k) ==
    /\ holder[k] = None
    /\ holder' = [holder EXCEPT ![k] = p]

Release(p, k) ==
    /\ holder[k] = p
    /\ holder' = [holder EXCEPT ![k] = None]

Restart == holder' = [k \in Keys |-> None]

Next ==
    \/ \E p \in Procs, k \in Keys : Acquire(p, k) \/ Release(p, k)
    \/ Restart

Spec == Init /\ [][Next]_holder
=============================================================================
