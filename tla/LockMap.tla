------------------------------ MODULE LockMap -------------------------------
(***************************************************************************)
(* lockMap of pkg/azurefile/utils.go: a map from keys to mutexes, created  *)
(* on demand under an outer mutex. It guards EnsureStorageAccount          *)
(* (volLockMap) and the update of service endpoints (subnetLockMap).       *)
(*                                                                         *)
(* LockEntry looks the entry up once more after it has unlocked the outer  *)
(* mutex. A Go map that is read while another goroutine writes it is a     *)
(* data race: the read may go well, or the runtime ends the process with   *)
(* "concurrent map read and map write".                                    *)
(***************************************************************************)
EXTENDS Integers

CONSTANTS
    Procs,        \* goroutines
    Keys,         \* lock keys
    None,
    MaxRestarts   \* bound: restarts of the process

ASSUME LockMapAssumption == None \notin Procs /\ MaxRestarts \in Nat

VARIABLES
    lm,           \* holder of the outer mutex
    mutexMap,     \* keys that have an entry
    mutex,        \* key -> holder of the entry's mutex
    pc, key,      \* where a goroutine is, and in the call for which key
    restarts

vars == <<lm, mutexMap, mutex, pc, key, restarts>>

LockSteps   == {"lm", "check", "addEntry", "unlockLm", "lookup", "lockEntry"}
UnlockSteps == {"lmU", "unlockEntry", "unlockLmU"}

TypeOK ==
    /\ lm \in Procs \cup {None}
    /\ mutexMap \subseteq Keys
    /\ mutex \in [Keys -> Procs \cup {None}]
    /\ pc \in [Procs -> {"idle", "held"} \cup LockSteps \cup UnlockSteps]
    /\ key \in [Procs -> Keys \cup {None}]
    /\ \A p \in Procs : pc[p] # "idle" => key[p] \in Keys
    /\ restarts \in Nat

Init ==
    /\ lm = None
    /\ mutexMap = {}
    /\ mutex = [k \in Keys |-> None]
    /\ pc = [p \in Procs |-> "idle"]
    /\ key = [p \in Procs |-> None]
    /\ restarts = 0

Goto(p, from, to) ==
    /\ pc[p] = from
    /\ pc' = [pc EXCEPT ![p] = to]

Lm(p, from, to) ==
    /\ Goto(p, from, to)
    /\ lm = None
    /\ lm' = p
    /\ UNCHANGED <<mutexMap, mutex, key, restarts>>

UnlockLm(p, from, to) ==
    /\ Goto(p, from, to)
    /\ lm' = None
    /\ UNCHANGED <<mutexMap, mutex, key, restarts>>

-----------------------------------------------------------------------------
\* LockEntry(k)

CallLock(p, k) ==
    /\ Goto(p, "idle", "lm")
    /\ key' = [key EXCEPT ![p] = k]
    /\ UNCHANGED <<lm, mutexMap, mutex, restarts>>

LockLm(p) == Lm(p, "lm", "check")

\* Mutant: an entry is made on every call.
CheckEntryAlwaysAdds(p) ==
    /\ Goto(p, "check", "addEntry")
    /\ UNCHANGED <<lm, mutexMap, mutex, key, restarts>>

\* Mutant: no entry is ever made.
CheckEntryNeverAdds(p) ==
    /\ Goto(p, "check", "unlockLm")
    /\ UNCHANGED <<lm, mutexMap, mutex, key, restarts>>

CheckEntry(p) ==
    /\ Goto(p, "check", IF key[p] \in mutexMap THEN "unlockLm" ELSE "addEntry")
    /\ UNCHANGED <<lm, mutexMap, mutex, key, restarts>>

\* The entry is a new mutex, held by nobody. The write of the map is under way
\* while pc is "addEntry".
AddEntry(p) ==
    /\ Goto(p, "addEntry", "unlockLm")
    /\ mutexMap' = mutexMap \cup {key[p]}
    /\ mutex' = [mutex EXCEPT ![key[p]] = None]
    /\ UNCHANGED <<lm, key, restarts>>

\* Mutant: the outer mutex is kept until LockEntry returns.
UnlockLmAfterLock(p) ==
    /\ Goto(p, "unlockLm", "lookup")
    /\ UNCHANGED <<lm, mutexMap, mutex, key, restarts>>

UnlockLmAfterAdd(p) == UnlockLm(p, "unlockLm", "lookup")

\* lm.mutexMap[entry], without lm.
Lookup(p) ==
    /\ Goto(p, "lookup", "lockEntry")
    /\ UNCHANGED <<lm, mutexMap, mutex, key, restarts>>

MapRace == \E p, q \in Procs : pc[p] = "lookup" /\ pc[q] = "addEntry"

Restart ==
    /\ restarts < MaxRestarts
    /\ restarts' = restarts + 1
    /\ lm' = None
    /\ mutexMap' = {}
    /\ mutex' = [k \in Keys |-> None]
    /\ pc' = [p \in Procs |-> "idle"]
    /\ key' = [p \in Procs |-> None]

\* The other outcome of a racing read: the process ends and starts again.
ConcurrentMapReadAndWrite == MapRace /\ Restart

\* Mutant: the entry's mutex is taken whoever holds it.
LockMutexAnyway(p) ==
    /\ Goto(p, "lockEntry", "held")
    /\ mutex' = [mutex EXCEPT ![key[p]] = p]
    /\ UNCHANGED <<lm, mutexMap, key, restarts>>

LockMutex(p) ==
    /\ Goto(p, "lockEntry", "held")
    /\ mutex[key[p]] = None
    /\ mutex' = [mutex EXCEPT ![key[p]] = p]
    /\ UNCHANGED <<lm, mutexMap, key, restarts>>

-----------------------------------------------------------------------------
\* UnlockEntry(k), by the goroutine that locked it

CallUnlock(p) ==
    /\ Goto(p, "held", "lmU")
    /\ UNCHANGED <<lm, mutexMap, mutex, key, restarts>>

LockLmForUnlock(p) == Lm(p, "lmU", "unlockEntry")

UnlockMutex(p) ==
    /\ Goto(p, "unlockEntry", "unlockLmU")
    /\ IF key[p] \in mutexMap
       THEN mutex' = [mutex EXCEPT ![key[p]] = None]
       ELSE UNCHANGED mutex
    /\ UNCHANGED <<lm, mutexMap, key, restarts>>

UnlockLmAfterUnlock(p) == UnlockLm(p, "unlockLmU", "idle")

-----------------------------------------------------------------------------
Step(p) ==
    \/ LockLm(p) \/ CheckEntry(p) \/ AddEntry(p) \/ UnlockLmAfterAdd(p)
    \/ Lookup(p) \/ LockMutex(p) \/ CallUnlock(p) \/ LockLmForUnlock(p)
    \/ UnlockMutex(p) \/ UnlockLmAfterUnlock(p)

Next ==
    \/ \E p \in Procs : Step(p)
    \/ \E p \in Procs, k \in Keys : CallLock(p, k)
    \/ ConcurrentMapReadAndWrite

Spec == Init /\ [][Next]_vars

\* Goroutines run, a Go mutex starves nobody (a goroutine that can go on again
\* and again does), and a holder always calls UnlockEntry.
Fairness == \A p \in Procs : SF_vars(Step(p))

FairSpec == Spec /\ Fairness

-----------------------------------------------------------------------------
(***************************************************************************)
(* Properties.                                                             *)
(***************************************************************************)

Abstract == INSTANCE KeyedMutex WITH holder <- mutex

\* The map of on-demand mutexes behaves as one mutex per key: whatever way two
\* goroutines create, look up, lock and unlock entries, a key is taken only when
\* it is free and given back only by its holder.
ImplementsKeyedMutex == Abstract!Spec

\* A goroutine that has returned from LockEntry holds the key until its
\* UnlockEntry has unlocked it, so UnlockEntry never unlocks another's mutex.
HolderIsInside ==
    \A p \in Procs :
        pc[p] \in {"held", "lmU", "unlockEntry"} => mutex[key[p]] = p /\ key[p] \in mutexMap

\* "LockEntry acquires a lock associated with the specific entry" (utils.go:62):
\* a call of LockEntry ends with the entry locked. The lookup outside the outer
\* mutex races with addEntry, and then the call need not return at all.
LockEntryAcquires == \A p \in Procs : pc[p] = "lm" ~> pc[p] = "held"

\* The mutex of an entry is held by a goroutine between LockEntry and UnlockEntry for that
\* entry: no call that has returned has left it locked.
EntryIsInUse ==
    \A k \in Keys : mutex[k] # None =>
        pc[mutex[k]] \in {"held", "lmU", "unlockEntry"} /\ key[mutex[k]] = k

\* p waits for q: for the outer mutex, or for that of an entry.
WaitsFor(p, q) ==
    \/ pc[p] \in {"lm", "lmU"} /\ lm = q
    \/ pc[p] = "lockEntry" /\ mutex[key[p]] = q

\* Who waits for an entry waits for its holder, who waits at most for the outer mutex, whose
\* holder waits for nobody: UnlockEntry needs the outer mutex, and LockEntry never keeps it
\* while it waits for an entry.
NoDeadlock ==
    \A p, q, r, s \in Procs : ~(WaitsFor(p, q) /\ WaitsFor(q, r) /\ WaitsFor(r, s))

-----------------------------------------------------------------------------
(***************************************************************************)
(* The inductive invariant.                                                *)
(***************************************************************************)
LmSteps == {"check", "addEntry", "unlockLm", "unlockEntry", "unlockLmU"}

IInv ==
    /\ TypeOK
    /\ HolderIsInside
    /\ EntryIsInUse
    \* the entry exists from the moment the goroutine unlocks lm
    /\ \A p \in Procs : pc[p] \in {"unlockLm", "lookup", "lockEntry"} => key[p] \in mutexMap
    \* a key without an entry is held by nobody, and it is still without one
    \* when the goroutine that found none adds it
    /\ \A k \in Keys \ mutexMap : mutex[k] = None
    /\ \A p \in Procs : pc[p] = "addEntry" => key[p] \notin mutexMap
    \* lm is held exactly inside its critical sections
    /\ \A p \in Procs : pc[p] \in LmSteps <=> lm = p
=============================================================================
