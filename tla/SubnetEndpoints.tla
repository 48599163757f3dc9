-------------------------- MODULE SubnetEndpoints ---------------------------
(***************************************************************************)
(* updateSubnetServiceEndpoints of pkg/azurefile/azure.go: CreateVolume    *)
(* gives every subnet of its list the storage service endpoint before it   *)
(* creates an account that only those subnets may reach.                   *)
(*                                                                         *)
(* A call looks in subnetCache, locks its list of names in subnetLockMap   *)
(* (LockMap), reads all its subnets, writes back whole the ones without    *)
(* the endpoint, remembers the list and unlocks. Lists are different keys  *)
(* even when they share a subnet, and others change subnets as well.       *)
(***************************************************************************)
EXTENDS LockMap, Sequences

CONSTANTS
    NamesOf,      \* key -> the subnet names in it, <<>> when it has none
    AllSubnets,   \* the subnets of the network, in the order of List
    MaxFaults     \* bound: failed requests, changes by others, expiries, restarts

Subnets == {AllSubnets[i] : i \in 1..Len(AllSubnets)}

ASSUME SubnetsAssumption ==
    /\ None \notin Keys
    /\ AllSubnets \in Seq(Subnets)
    /\ NamesOf \in [Keys -> Seq(Subnets)]
    \* no list has a name twice
    /\ \A list \in {NamesOf[k] : k \in Keys} \cup {AllSubnets} :
           \A i, j \in 1..Len(list) : list[i] = list[j] => i = j
    /\ MaxFaults \in Nat

VARIABLES
    subnet,       \* name -> [endpoint, conf], in the cloud
    subnetCache,  \* key -> the subnets an earlier call has answered, or None
    subnets,      \* goroutine -> what its call has read, in order
    handled,      \* goroutine -> how many of those have the endpoint for certain
    faults,
    removed,      \* history: subnets whose endpoint somebody else removed
    writer        \* history: subnet -> the key that wrote it last, or None

cloud == <<subnet, removed, writer>>
svars == <<subnet, subnetCache, subnets, handled, faults, removed, writer>>

Settings == [endpoint : BOOLEAN, conf : Nat]

SubnetInit ==
    /\ Init
    /\ subnet = [s \in Subnets |-> [endpoint |-> FALSE, conf |-> 0]]
    /\ subnetCache = [k \in Keys |-> None]
    /\ subnets = [p \in Procs |-> <<>>]
    /\ handled = [p \in Procs |-> 0]
    /\ faults = 0
    /\ removed = {}
    /\ writer = [s \in Subnets |-> None]

-----------------------------------------------------------------------------
\* The call, in a goroutine of CreateVolume

\* A list in the cache is answered at once. Any other list is locked; the cache
\* is not read again under the lock.
UpdateSubnetServiceEndpoints(p, k) ==
    /\ pc[p] = "idle"
    /\ IF subnetCache[k] # None THEN UNCHANGED vars ELSE CallLock(p, k)
    /\ UNCHANGED svars

\* The steps of LockEntry and UnlockEntry, except the call of the latter.
LockMapStep(p) ==
    /\ \/ LockLm(p) \/ CheckEntry(p) \/ AddEntry(p) \/ UnlockLmAfterAdd(p) \/ Lookup(p)
       \/ LockMutex(p) \/ LockLmForUnlock(p) \/ UnlockMutex(p) \/ UnlockLmAfterUnlock(p)
    /\ UNCHANGED svars

Named(k)  == NamesOf[k] # <<>>
ListOf(k) == IF Named(k) THEN NamesOf[k] ELSE AllSubnets

AllRead(p) == Len(subnets[p]) = Len(ListOf(key[p]))

Read(s) == [name |-> s, endpoint |-> subnet[s].endpoint, conf |-> subnet[s].conf]

\* One Get per name of the list, or one List for all of them.
Get(p) ==
    /\ pc[p] = "held" /\ ~AllRead(p)
    /\ LET n == Len(subnets[p]) + 1
       IN  subnets' = [subnets EXCEPT ![p] =
               IF Named(key[p])
               THEN Append(@, Read(NamesOf[key[p]][n]))
               ELSE [i \in 1..Len(AllSubnets) |-> Read(AllSubnets[i])]]
    /\ UNCHANGED <<vars, cloud, subnetCache, handled, faults>>

Pending(p) == pc[p] = "held" /\ AllRead(p) /\ handled[p] < Len(subnets[p])
Current(p) == subnets[p][handled[p] + 1]

HasEndpoint(p) ==
    /\ Pending(p) /\ Current(p).endpoint
    /\ handled' = [handled EXCEPT ![p] = @ + 1]
    /\ UNCHANGED <<vars, cloud, subnetCache, subnets, faults>>

\* The request carries the whole subnet as it was read, with the endpoint added.
Write(p) ==
    LET s == Current(p).name
    IN  /\ subnet' = [subnet EXCEPT ![s] = [endpoint |-> TRUE, conf |-> Current(p).conf]]
        /\ removed' = removed \ {s}
        /\ writer' = [writer EXCEPT ![s] = key[p]]

CreateOrUpdate(p) ==
    /\ Pending(p) /\ ~Current(p).endpoint
    /\ Write(p)
    /\ handled' = [handled EXCEPT ![p] = @ + 1]
    /\ UNCHANGED <<vars, subnetCache, subnets, faults>>

\* Mutant: UnlockEntry is not called.
ReturnWithoutUnlock(p) ==
    /\ pc' = [pc EXCEPT ![p] = "idle"]
    /\ UNCHANGED <<lm, mutexMap, mutex, key, restarts>>

\* Every return: the deferred UnlockEntry is called, and what was read is gone.
Return(p) == CallUnlock(p)

Forget(p) ==
    /\ subnets' = [subnets EXCEPT ![p] = <<>>]
    /\ handled' = [handled EXCEPT ![p] = 0]

Fault == faults < MaxFaults /\ faults' = faults + 1

\* Mutant: an error is logged and the list remembered all the same.
RememberAnyway(p) ==
    subnetCache' = [subnetCache EXCEPT ![key[p]] = {ListOf(key[p])[i] : i \in 1..Len(ListOf(key[p]))}]

\* An error keeps the list out of subnetCache.
NotRemembered(p) == UNCHANGED subnetCache

\* Get or List fails, or CreateOrUpdate does; of the latter the answer alone may
\* be lost.
RequestFails(p) ==
    /\ pc[p] = "held" /\ (~AllRead(p) \/ (Pending(p) /\ ~Current(p).endpoint))
    /\ Fault
    /\ Return(p)
    /\ \/ UNCHANGED cloud
       \/ Pending(p) /\ Write(p)
    /\ NotRemembered(p)
    /\ Forget(p)

\* subnetCache.Set(lockKey, vnetResourceIDs), then the deferred UnlockEntry.
ReturnSubnets(p) ==
    /\ pc[p] = "held" /\ AllRead(p) /\ handled[p] = Len(subnets[p])
    /\ subnetCache' = [subnetCache EXCEPT ![key[p]] =
           {subnets[p][i].name : i \in 1..Len(subnets[p])}]
    /\ Return(p) /\ Forget(p)
    /\ UNCHANGED <<cloud, faults>>

-----------------------------------------------------------------------------
\* What happens around the calls

\* Ten minutes have passed.
CacheExpires(k) ==
    /\ subnetCache[k] # None /\ Fault
    /\ subnetCache' = [subnetCache EXCEPT ![k] = None]
    /\ UNCHANGED <<vars, cloud, subnets, handled>>

\* Others change a subnet: another setting, or its endpoint.
Configure(s) ==
    /\ Fault
    /\ subnet' = [subnet EXCEPT ![s] = [endpoint |-> @.endpoint, conf |-> @.conf + 1]]
    /\ writer' = [writer EXCEPT ![s] = None]
    /\ UNCHANGED <<vars, subnetCache, subnets, handled, removed>>

RemoveEndpoint(s) ==
    /\ subnet[s].endpoint /\ Fault
    /\ subnet' = [subnet EXCEPT ![s] = [endpoint |-> FALSE, conf |-> @.conf]]
    /\ removed' = removed \cup {s}
    /\ writer' = [writer EXCEPT ![s] = None]
    /\ UNCHANGED <<vars, subnetCache, subnets, handled>>

\* The driver starts again, after the race in lockMap or for any other reason.
DriverRestarts ==
    /\ Restart /\ Fault
    /\ subnetCache' = [k \in Keys |-> None]
    /\ subnets' = [p \in Procs |-> <<>>]
    /\ handled' = [p \in Procs |-> 0]
    /\ UNCHANGED cloud

-----------------------------------------------------------------------------
Serve(p) ==
    \/ LockMapStep(p) \/ Get(p) \/ HasEndpoint(p) \/ CreateOrUpdate(p)
    \/ RequestFails(p) \/ ReturnSubnets(p)

SubnetNext ==
    \/ \E p \in Procs : Serve(p)
    \/ \E p \in Procs, k \in Keys : UpdateSubnetServiceEndpoints(p, k)
    \/ \E k \in Keys : CacheExpires(k)
    \/ \E s \in Subnets : Configure(s) \/ RemoveEndpoint(s)
    \/ DriverRestarts

SubnetSpec == SubnetInit /\ [][SubnetNext]_<<vars, svars>>

\* Goroutines run, a request is answered or fails, and a Go mutex starves nobody:
\* a goroutine whose next step is possible again and again takes it.
SubnetFairSpec == SubnetSpec /\ \A p \in Procs : SF_<<vars, svars>>(Serve(p))

-----------------------------------------------------------------------------
(***************************************************************************)
(* Properties.                                                             *)
(***************************************************************************)

\* A list is answered from the cache only when all its subnets have been given
\* the endpoint, whichever request has failed on the way and whoever wrote back
\* what it had read before: the account's network rules rely on it. Only others
\* take the endpoint away.
CachedHaveEndpoint ==
    \A k \in Keys : subnetCache[k] # None =>
        \A s \in subnetCache[k] : subnet[s].endpoint \/ s \in removed

\* What a call is about to write back is as it was read, unless somebody else has
\* changed it since or a call with another list has: two calls with the same list
\* never undo each other's writes. (The writes of others may be undone: between
\* the two requests nothing protects a subnet.)
StaleOnlyByOthers ==
    \A p \in Procs : \A i \in handled[p] + 1..Len(subnets[p]) :
        LET r == subnets[p][i]
        IN  \/ subnet[r.name] = [endpoint |-> r.endpoint, conf |-> r.conf]
            \/ writer[r.name] # key[p]

\* Every call returns, whatever requests fail and whoever waits for its lock.
EveryUpdateReturns == \A p \in Procs : pc[p] = "lm" ~> pc[p] = "idle"

-----------------------------------------------------------------------------
(***************************************************************************)
(* The inductive invariant.                                                *)
(***************************************************************************)
Snapshots == [name : Subnets, endpoint : BOOLEAN, conf : Nat]

SubnetTypeOK ==
    /\ subnet \in [Subnets -> Settings]
    /\ subnetCache \in [Keys -> (SUBSET Subnets) \cup {None}]
    /\ subnets \in [Procs -> Seq(Snapshots)]
    /\ handled \in [Procs -> Nat]
    /\ \A p \in Procs : handled[p] <= Len(subnets[p])
    /\ faults \in Nat
    /\ removed \subseteq Subnets
    /\ writer \in [Subnets -> Keys \cup {None}]

\* What the call has handled has the endpoint.
HandledHaveEndpoint ==
    \A p \in Procs : \A i \in 1..handled[p] :
        LET s == subnets[p][i].name IN subnet[s].endpoint \/ s \in removed

\* An endpoint read before is still there.
ReadStillHaveEndpoint ==
    \A p \in Procs : \A i \in 1..Len(subnets[p]) :
        LET r == subnets[p][i]
        IN  r.endpoint => subnet[r.name].endpoint \/ r.name \in removed

\* A call reads under its lock, in the order of its list.
ReadInside ==
    \A p \in Procs :
        /\ subnets[p] # <<>> => pc[p] = "held"
        /\ \A i \in 1..Len(subnets[p]) :
               i <= Len(ListOf(key[p])) /\ subnets[p][i].name = ListOf(key[p])[i]

SubnetInv ==
    /\ IInv
    /\ SubnetTypeOK
    /\ ReadInside
    /\ CachedHaveEndpoint
    /\ StaleOnlyByOthers
    /\ HandledHaveEndpoint
    /\ ReadStillHaveEndpoint
=============================================================================
