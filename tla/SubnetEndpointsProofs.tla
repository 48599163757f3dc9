----------------------- MODULE SubnetEndpointsProofs ------------------------
(***************************************************************************)
(* Proofs about LockMap, for any goroutines and keys, and about            *)
(* SubnetEndpoints, which uses it, for any lists and subnets. A step of    *)
(* the composition is a step of LockMap or leaves it alone, so the         *)
(* invariant of LockMap carries over; the rest of SubnetInv rests on it.   *)
(***************************************************************************)
EXTENDS SubnetEndpoints, TLAPS

------------------------------------------------------------------------------
(* The map of on-demand mutexes implements KeyedMutex. *)

\* The initial state, an empty map, satisfies the invariant.
LEMMA InitInv == Init => IInv
BY LockMapAssumption
DEF Init, IInv, TypeOK, HolderIsInside, EntryIsInUse, LmSteps, LockSteps, UnlockSteps

\* Every step of every goroutine keeps the invariant: inside the outer mutex
\* there is one goroutine, and a key is unlocked by the goroutine that has it.
LEMMA StepInv == IInv /\ [Next]_vars => IInv'
<1> USE LockMapAssumption
    DEF IInv, TypeOK, HolderIsInside, EntryIsInUse, LmSteps, LockSteps, UnlockSteps, Goto,
        Lm, UnlockLm
<1> SUFFICES ASSUME IInv, [Next]_vars PROVE IInv'
  OBVIOUS
<1>1. ASSUME NEW p \in Procs, NEW k \in Keys, CallLock(p, k) PROVE IInv'
  BY <1>1 DEF CallLock
<1>2. ASSUME NEW p \in Procs, LockLm(p) PROVE IInv'
  BY <1>2 DEF LockLm
<1>3. ASSUME NEW p \in Procs, CheckEntry(p) PROVE IInv'
  BY <1>3 DEF CheckEntry
<1>4. ASSUME NEW p \in Procs, AddEntry(p) PROVE IInv'
  BY <1>4 DEF AddEntry
<1>5. ASSUME NEW p \in Procs, UnlockLmAfterAdd(p) PROVE IInv'
  BY <1>5 DEF UnlockLmAfterAdd
<1>6. ASSUME NEW p \in Procs, Lookup(p) PROVE IInv'
  BY <1>6 DEF Lookup
<1>7. ASSUME NEW p \in Procs, LockMutex(p) PROVE IInv'
  BY <1>7 DEF LockMutex
<1>8. ASSUME NEW p \in Procs, CallUnlock(p) PROVE IInv'
  BY <1>8 DEF CallUnlock
<1>9. ASSUME NEW p \in Procs, LockLmForUnlock(p) PROVE IInv'
  BY <1>9 DEF LockLmForUnlock
<1>10. ASSUME NEW p \in Procs, UnlockMutex(p) PROVE IInv'
  BY <1>10 DEF UnlockMutex
<1>11. ASSUME NEW p \in Procs, UnlockLmAfterUnlock(p) PROVE IInv'
  BY <1>11 DEF UnlockLmAfterUnlock
<1>12. CASE ConcurrentMapReadAndWrite
  BY <1>12 DEF ConcurrentMapReadAndWrite, Restart
<1>13. CASE UNCHANGED vars
  BY <1>13 DEF vars
<1> QED
  BY <1>1, <1>2, <1>3, <1>4, <1>5, <1>6, <1>7, <1>8, <1>9, <1>10, <1>11, <1>12, <1>13
  DEF Next, Step

\* A goroutine between LockEntry and UnlockEntry holds its key, so two of them
\* are never inside for the same key.
THEOREM MutualExclusion == Spec => []HolderIsInside
<1>1. IInv => HolderIsInside
  BY DEF IInv
<1> QED
  BY <1>1, InitInv, StepInv, PTL DEF Spec

\* The holder of the outer mutex waits for nobody, that of an entry at most for the outer
\* mutex.
LEMMA ShortWaits ==
    ASSUME IInv
    PROVE  NoDeadlock
<1>1. \A p, q \in Procs : WaitsFor(p, q) => pc[q] \in LmSteps \cup {"held", "lmU"}
  BY LockMapAssumption DEF WaitsFor, IInv, TypeOK, EntryIsInUse, LmSteps
<1>2. ASSUME NEW p \in Procs, NEW q \in Procs, WaitsFor(p, q), pc[p] \in LmSteps \cup {"held", "lmU"}
      PROVE  pc[q] \in LmSteps
  BY <1>2 DEF WaitsFor, IInv, LmSteps
<1>3. \A p, q \in Procs : WaitsFor(p, q) => pc[p] \notin LmSteps
  BY DEF WaitsFor, LmSteps
<1> QED BY <1>1, <1>2, <1>3 DEF NoDeadlock

\* Every step of the map of mutexes is a step of KeyedMutex or a stutter:
\* LockMutex takes a free key, UnlockMutex gives back the caller's own key, and
\* AddEntry, which puts a new mutex under the key, replaces none that is held.
LEMMA StepRefines == IInv /\ [Next]_vars => [Abstract!Next]_mutex
<1> SUFFICES ASSUME IInv, [Next]_vars PROVE Abstract!Next \/ UNCHANGED mutex
  OBVIOUS
<1> USE DEF Abstract!Next, Abstract!Acquire, Abstract!Release, Abstract!Restart
<1>1. ASSUME NEW p \in Procs, LockMutex(p) PROVE Abstract!Next
  <2>1. key[p] \in Keys
    BY <1>1 DEF LockMutex, Goto, IInv, TypeOK
  <2> QED
    BY <1>1, <2>1 DEF LockMutex
<1>2. ASSUME NEW p \in Procs, UnlockMutex(p) PROVE Abstract!Next \/ UNCHANGED mutex
  <2>1. key[p] \in Keys /\ mutex[key[p]] = p
    BY <1>2 DEF UnlockMutex, Goto, IInv, TypeOK, HolderIsInside
  <2> QED
    BY <1>2, <2>1 DEF UnlockMutex
<1>3. CASE ConcurrentMapReadAndWrite
  BY <1>3 DEF ConcurrentMapReadAndWrite, Restart
<1>4. ASSUME NEW p \in Procs, AddEntry(p) PROVE UNCHANGED mutex
  <2>1. key[p] \in Keys /\ mutex[key[p]] = None /\ mutex \in [Keys -> Procs \cup {None}]
    BY <1>4 DEF AddEntry, Goto, IInv, TypeOK
  <2> QED
    BY <1>4, <2>1 DEF AddEntry
<1>5. ASSUME NEW p \in Procs, Step(p), ~LockMutex(p), ~UnlockMutex(p), ~AddEntry(p)
      PROVE  UNCHANGED mutex
  BY <1>5 DEF Step, LockLm, CheckEntry, UnlockLmAfterAdd, Lookup, CallUnlock,
              LockLmForUnlock, UnlockLmAfterUnlock, Lm, UnlockLm
<1> QED
  BY <1>1, <1>2, <1>3, <1>4, <1>5 DEF Next, CallLock, vars

\* lockMap implements one mutex per key.
THEOREM Refinement == Spec => ImplementsKeyedMutex
<1>1. Init => Abstract!Init
  BY DEF Init, Abstract!Init
<1> QED
  BY <1>1, InitInv, StepInv, StepRefines, PTL
  DEF Spec, ImplementsKeyedMutex, Abstract!Spec

------------------------------------------------------------------------------
(* Lists, locks and subnets. *)

all_vars == <<vars, svars>>

\* The composition keeps the invariant of the locks it uses.
LEMMA LockInvKept == IInv /\ [SubnetNext]_all_vars => IInv'
<1> SUFFICES ASSUME IInv, [SubnetNext]_all_vars PROVE IInv'
  OBVIOUS
<1>1. CASE Restart
  BY <1>1, LockMapAssumption
  DEF Restart, IInv, TypeOK, HolderIsInside, EntryIsInUse, LmSteps, LockSteps, UnlockSteps
<1>2. CASE [Next]_vars
  BY <1>2, StepInv
<1>3. ASSUME NEW p \in Procs, Serve(p) PROVE [Next]_vars
  <2>1. CASE LockMapStep(p)
    BY <2>1 DEF LockMapStep, Next, Step
  <2>2. CASE Get(p) \/ HasEndpoint(p) \/ CreateOrUpdate(p)
    BY <2>2 DEF Get, HasEndpoint, CreateOrUpdate
  <2>3. CASE RequestFails(p) \/ ReturnSubnets(p)
    BY <2>3 DEF RequestFails, ReturnSubnets, Return, Next, Step
  <2> QED
    BY <1>3, <2>1, <2>2, <2>3 DEF Serve
<1>4. ASSUME NEW p \in Procs, NEW k \in Keys, UpdateSubnetServiceEndpoints(p, k)
      PROVE  [Next]_vars
  BY <1>4 DEF UpdateSubnetServiceEndpoints, Next
<1>5. ASSUME NEW k \in Keys, CacheExpires(k) PROVE [Next]_vars
  BY <1>5 DEF CacheExpires
<1>6. ASSUME NEW s \in Subnets, Configure(s) \/ RemoveEndpoint(s) PROVE [Next]_vars
  BY <1>6 DEF Configure, RemoveEndpoint
<1>7. CASE UNCHANGED all_vars
  <2>1. [Next]_vars
    BY <1>7 DEF all_vars, svars, cloud
  <2> QED
    BY <2>1, <1>2
<1> QED
  BY <1>1, <1>2, <1>3, <1>4, <1>5, <1>6, <1>7 DEF SubnetNext, DriverRestarts

\* What the rest of the invariant needs to know of a step of the locks: the
\* goroutines inside stay inside with their keys, and exclude each other.
LEMMA Exclusion ==
    ASSUME IInv, NEW p \in Procs, NEW q \in Procs,
           pc[p] = "held", pc[q] = "held", key[p] = key[q]
    PROVE  p = q
BY DEF IInv, HolderIsInside

\* Lists have their names in range, and each of them once.
LEMMA ListFacts ==
    ASSUME NEW k \in Keys
    PROVE  /\ ListOf(k) \in Seq(Subnets)
           /\ \A i, j \in 1..Len(ListOf(k)) : ListOf(k)[i] = ListOf(k)[j] => i = j
BY SubnetsAssumption DEF ListOf, Named

Rest ==
    /\ SubnetTypeOK
    /\ ReadInside
    /\ CachedHaveEndpoint
    /\ StaleOnlyByOthers
    /\ HandledHaveEndpoint
    /\ ReadStillHaveEndpoint

\* What a call has read are subnets, and so is what a list in the cache holds.
LEMMA NameFacts ==
    ASSUME SubnetInv
    PROVE  /\ \A q \in Procs : \A i \in 1..Len(subnets[q]) : subnets[q][i].name \in Subnets
           /\ \A k \in Keys : subnetCache[k] # None =>
                  \A s \in subnetCache[k] : s \in Subnets
<1>1. \A q \in Procs : \A i \in 1..Len(subnets[q]) : subnets[q][i] \in Snapshots
  BY DEF SubnetInv, SubnetTypeOK
<1>2. ASSUME NEW k \in Keys PROVE subnetCache[k] \subseteq Subnets \/ subnetCache[k] = None
  <2>1. subnetCache[k] \in (SUBSET Subnets) \cup {None}
    BY DEF SubnetInv, SubnetTypeOK
  <2> QED
    BY <2>1, Zenon
<1>3. \A r \in Snapshots : r.name \in Subnets
  BY DEF Snapshots
<1>4. \A k \in Keys : subnetCache[k] # None => \A s \in subnetCache[k] : s \in Subnets
  BY <1>2
<1> QED
  BY <1>1, <1>3, <1>4

\* What a call is about to write, it has read, as a subnet of its list.
LEMMA CurrentFacts ==
    ASSUME SubnetInv, NEW p \in Procs, Pending(p)
    PROVE  /\ handled[p] \in Nat
           /\ handled[p] + 1 \in 1..Len(subnets[p])
           /\ Current(p) \in Snapshots
           /\ key[p] \in Keys
           /\ handled[p] + 1 <= Len(ListOf(key[p]))
           /\ Current(p).name = ListOf(key[p])[handled[p] + 1]
<1>1. /\ handled[p] \in Nat /\ handled[p] < Len(subnets[p]) /\ subnets[p] \in Seq(Snapshots)
      /\ key[p] \in Keys
  BY DEF SubnetInv, SubnetTypeOK, IInv, TypeOK, Pending
<1>2. handled[p] + 1 \in 1..Len(subnets[p])
  BY <1>1
<1> QED
  BY <1>1, <1>2 DEF Current, SubnetInv, ReadInside

\* A write of a subnet as it was read keeps what is known of the others' reads.
LEMMA WriteKeeps ==
    ASSUME SubnetInv, NEW p \in Procs, Pending(p), ~Current(p).endpoint, Write(p)
    PROVE  /\ subnet' \in [Subnets -> Settings]
           /\ removed' \subseteq Subnets
           /\ writer' \in [Subnets -> Keys \cup {None}]
           /\ subnet'[Current(p).name].endpoint
           /\ \A s \in Subnets : (subnet[s].endpoint \/ s \in removed) =>
                                   (subnet'[s].endpoint \/ s \in removed')
           /\ \A s \in Subnets : s # Current(p).name =>
                  subnet'[s] = subnet[s] /\ writer'[s] = writer[s]
           /\ writer'[Current(p).name] = key[p]
<1> USE CurrentFacts DEF Write, SubnetInv, SubnetTypeOK, Settings, Snapshots
<1> DEFINE s0 == Current(p).name
<1>1. s0 \in Subnets /\ Current(p).conf \in Nat /\ key[p] \in Keys
  OBVIOUS
<1>2. subnet' = [subnet EXCEPT ![s0] = [endpoint |-> TRUE, conf |-> Current(p).conf]]
      /\ removed' = removed \ {s0} /\ writer' = [writer EXCEPT ![s0] = key[p]]
  OBVIOUS
<1>3. subnet \in [Subnets -> Settings] /\ removed \subseteq Subnets
      /\ writer \in [Subnets -> Keys \cup {None}]
  OBVIOUS
<1>4. subnet' \in [Subnets -> Settings]
  <2>1. [endpoint |-> TRUE, conf |-> Current(p).conf] \in Settings
    BY <1>1
  <2> HIDE DEF Settings
  <2> QED
    BY <1>2, <1>3, <2>1
<1> HIDE DEF s0
<1> QED
  BY <1>1, <1>2, <1>3, <1>4 DEF s0

\* A step of LockEntry or UnlockEntry takes no goroutine out of its call and
\* changes no key.
LEMMA LockMapStepRest ==
    ASSUME SubnetInv, NEW p \in Procs, LockMapStep(p)
    PROVE  Rest'
<1>1. key' = key /\ \A q \in Procs : pc[q] = "held" => pc'[q] = "held"
  BY DEF LockMapStep, SubnetInv, IInv, TypeOK, LockLm, CheckEntry, AddEntry, UnlockLmAfterAdd,
         Lookup, LockMutex, LockLmForUnlock, UnlockMutex, UnlockLmAfterUnlock, Goto, Lm, UnlockLm
<1> QED
  BY <1>1 DEF LockMapStep, svars, Rest, SubnetInv, SubnetTypeOK, ReadInside, CachedHaveEndpoint,
              StaleOnlyByOthers, HandledHaveEndpoint, ReadStillHaveEndpoint

\* A goroutine that begins a call has read nothing yet.
LEMMA CallRest ==
    ASSUME SubnetInv, NEW p \in Procs, NEW k \in Keys, UpdateSubnetServiceEndpoints(p, k)
    PROVE  Rest'
<1>1. pc[p] = "idle" /\ subnets[p] = <<>>
  BY DEF UpdateSubnetServiceEndpoints, SubnetInv, ReadInside
<1>2. \A q \in Procs : q # p => key'[q] = key[q] /\ pc'[q] = pc[q]
  BY DEF UpdateSubnetServiceEndpoints, CallLock, Goto, vars, SubnetInv, IInv, TypeOK
<1> QED
  BY <1>1, <1>2
  DEF UpdateSubnetServiceEndpoints, svars, Rest, SubnetInv, SubnetTypeOK, ReadInside,
      CachedHaveEndpoint, StaleOnlyByOthers, HandledHaveEndpoint, ReadStillHaveEndpoint

\* What is read now is as the cloud has it now.
LEMMA GetRest ==
    ASSUME SubnetInv, NEW p \in Procs, Get(p)
    PROVE  Rest'
<1> DEFINE list == ListOf(key[p])
           n    == Len(subnets[p])
<1>1. /\ key[p] \in Keys /\ list \in Seq(Subnets) /\ subnets[p] \in Seq(Snapshots)
      /\ subnets \in [Procs -> Seq(Snapshots)] /\ n \in Nat /\ Len(list) \in Nat
      /\ handled[p] \in Nat /\ handled[p] <= n
  BY ListFacts DEF Get, SubnetInv, SubnetTypeOK, IInv, TypeOK
<1>2. \A s \in Subnets : Read(s) \in Snapshots
  BY DEF Read, Snapshots, SubnetInv, SubnetTypeOK, Settings
<1>3. n < Len(list)
  <2>1. n # Len(list) /\ \A i \in 1..n : i <= Len(list)
    BY DEF Get, AllRead, SubnetInv, ReadInside
  <2> QED
    BY <2>1, <1>1
<1> DEFINE new == subnets'[p]
<1>4. /\ new \in Seq(Snapshots) /\ Len(new) \in n..Len(list)
      /\ \A i \in 1..Len(new) : new[i] = Read(list[i]) \/ (i \in 1..n /\ new[i] = subnets[p][i])
  <2>1. CASE Named(key[p])
    <3>1. new = Append(subnets[p], Read(list[n + 1]))
      BY <2>1, <1>1 DEF Get, ListOf
    <3>2. list[n + 1] \in Subnets
      BY <1>1, <1>3
    <3>3. Read(list[n + 1]) \in Snapshots
      BY <3>2, <1>2
    <3> HIDE DEF list, n, new
    <3>4. new \in Seq(Snapshots) /\ Len(new) = n + 1
      BY <3>1, <3>3, <1>1 DEF n
    <3>5. \A i \in 1..n : new[i] = subnets[p][i]
      BY <3>1, <3>3, <1>1 DEF n
    <3>6. new[n + 1] = Read(list[n + 1])
      BY <3>1, <3>3, <1>1 DEF n
    <3> QED
      BY <3>4, <3>5, <3>6, <1>1, <1>3
  <2>2. CASE ~Named(key[p])
    <3>1. new = [i \in 1..Len(list) |-> Read(list[i])]
      BY <2>2, <1>1 DEF Get, ListOf
    <3>2. \A i \in 1..Len(list) : Read(list[i]) \in Snapshots
      BY <1>1, <1>2
    <3> HIDE DEF list, n, new
    <3> QED
      BY <3>1, <3>2, <1>1, <1>3
  <2> QED
    BY <2>1, <2>2
<1>5. /\ \A q \in Procs : q # p => subnets'[q] = subnets[q]
      /\ subnets' \in [Procs -> Seq(Snapshots)]
  <2>1. subnets' = [subnets EXCEPT ![p] = new]
    BY <1>1 DEF Get
  <2> HIDE DEF new
  <2> QED
    BY <2>1, <1>1, <1>4
<1>6. /\ UNCHANGED <<pc, key, subnet, subnetCache, handled, removed, writer, faults>>
      /\ pc[p] = "held"
  BY DEF Get, vars, cloud
<1>7. SubnetTypeOK'
  <2>1. \A q \in Procs : handled[q] <= Len(subnets'[q])
    <3>1. handled[p] <= Len(new)
      <4> HIDE DEF new, n, list
      <4> QED
        BY <1>1, <1>4
    <3>2. \A q \in Procs : q # p => handled[q] <= Len(subnets'[q])
      BY <1>5 DEF SubnetInv, SubnetTypeOK
    <3> QED
      BY <3>1, <3>2
  <2> QED
    BY <2>1, <1>5, <1>6 DEF SubnetInv, SubnetTypeOK
<1>8. ReadInside'
  <2>1. \A i \in 1..n : i <= Len(list) /\ subnets[p][i].name = list[i]
    BY DEF SubnetInv, ReadInside
  <2>2. \A i \in 1..Len(new) : i <= Len(list) /\ new[i].name = list[i]
    <3>1. \A s : Read(s).name = s
      BY DEF Read
    <3> HIDE DEF new, list, n
    <3> QED
      BY <2>1, <3>1, <1>1, <1>4
  <2>3. \A q \in Procs : q # p =>
          /\ subnets'[q] # <<>> => pc'[q] = "held"
          /\ \A i \in 1..Len(subnets'[q]) :
                 i <= Len(ListOf(key'[q])) /\ subnets'[q][i].name = ListOf(key'[q])[i]
    BY <1>5, <1>6 DEF SubnetInv, ReadInside
  <2>4. /\ pc'[p] = "held"
        /\ \A i \in 1..Len(subnets'[p]) :
               i <= Len(ListOf(key'[p])) /\ subnets'[p][i].name = ListOf(key'[p])[i]
    BY <2>2, <1>6 DEF new, list
  <2> QED
    BY <2>3, <2>4 DEF ReadInside
<1>9. /\ \A i \in 1..Len(new) : new[i].endpoint => subnet[new[i].name].endpoint \/ new[i].name \in removed
      /\ \A i \in handled[p] + 1..Len(new) :
            \/ subnet[new[i].name] = [endpoint |-> new[i].endpoint, conf |-> new[i].conf]
            \/ writer[new[i].name] # key[p]
      /\ \A i \in 1..handled[p] : subnet[new[i].name].endpoint \/ new[i].name \in removed
  <2>1. \A s \in Subnets : subnet[s] = [endpoint |-> Read(s).endpoint, conf |-> Read(s).conf]
                            /\ Read(s).name = s /\ (Read(s).endpoint = subnet[s].endpoint)
    BY DEF Read, SubnetInv, SubnetTypeOK, Settings
  <2>2. \A i \in 1..Len(new) : list[i] \in Subnets
    BY <1>1, <1>4
  <2>3. /\ \A i \in 1..n : subnets[p][i].endpoint => subnet[subnets[p][i].name].endpoint \/ subnets[p][i].name \in removed
        /\ \A i \in 1..handled[p] : subnet[subnets[p][i].name].endpoint \/ subnets[p][i].name \in removed
        /\ \A i \in handled[p] + 1..n :
              \/ subnet[subnets[p][i].name] = [endpoint |-> subnets[p][i].endpoint, conf |-> subnets[p][i].conf]
              \/ writer[subnets[p][i].name] # key[p]
    BY DEF SubnetInv, ReadStillHaveEndpoint, HandledHaveEndpoint, StaleOnlyByOthers
  <2>4. \A i \in 1..n : subnets[p][i].name = list[i]
    BY DEF SubnetInv, ReadInside
  <2>5. \A i \in 1..Len(new) : new[i] = Read(list[i]) =>
           /\ new[i].endpoint => subnet[new[i].name].endpoint
           /\ subnet[new[i].name] = [endpoint |-> new[i].endpoint, conf |-> new[i].conf]
    BY <2>1, <2>2
  <2>6. \A i \in 1..Len(new) : i \in 1..n \/ new[i] = Read(list[i])
    BY <1>1, <1>4
  <2>7. \A i \in 1..handled[p] : i \in 1..n /\ i \in 1..Len(new) /\ new[i].name = subnets[p][i].name
    <3>1. \A t : Read(t).name = t
      BY DEF Read
    <3> HIDE DEF new, list, n
    <3> QED
      BY <1>1, <1>4, <2>4, <3>1
  <2>8. \A i \in handled[p] + 1..Len(new) : i \in 1..Len(new) /\ (new[i] = Read(list[i]) \/
                                            (i \in handled[p] + 1..n /\ new[i] = subnets[p][i]))
    <3> HIDE DEF new, list, n
    <3> QED
      BY <1>1, <1>4
  <2>9. \A i \in 1..Len(new) : new[i].endpoint => subnet[new[i].name].endpoint \/ new[i].name \in removed
    BY <2>3, <2>5, <2>6, <1>4
  <2>10. \A i \in handled[p] + 1..Len(new) :
            \/ subnet[new[i].name] = [endpoint |-> new[i].endpoint, conf |-> new[i].conf]
            \/ writer[new[i].name] # key[p]
    BY <2>3, <2>5, <2>8
  <2> QED
    BY <2>3, <2>7, <2>9, <2>10
<1>10. CachedHaveEndpoint' /\ StaleOnlyByOthers' /\ HandledHaveEndpoint' /\ ReadStillHaveEndpoint'
  <2>1. CachedHaveEndpoint'
    BY <1>6 DEF SubnetInv, CachedHaveEndpoint
  <2>2. StaleOnlyByOthers'
    <3> SUFFICES ASSUME NEW q \in Procs, NEW i \in handled[q] + 1..Len(subnets'[q])
                 PROVE  LET r == subnets'[q][i]
                        IN  \/ subnet[r.name] = [endpoint |-> r.endpoint, conf |-> r.conf]
                            \/ writer[r.name] # key[q]
      BY <1>6 DEF StaleOnlyByOthers
    <3> QED
      BY <1>5, <1>9 DEF SubnetInv, StaleOnlyByOthers
  <2>3. HandledHaveEndpoint'
    <3> SUFFICES ASSUME NEW q \in Procs, NEW i \in 1..handled[q]
                 PROVE  subnet[subnets'[q][i].name].endpoint \/ subnets'[q][i].name \in removed
      BY <1>6 DEF HandledHaveEndpoint
    <3> QED
      BY <1>5, <1>9 DEF SubnetInv, HandledHaveEndpoint
  <2>4. ReadStillHaveEndpoint'
    <3> SUFFICES ASSUME NEW q \in Procs, NEW i \in 1..Len(subnets'[q]), subnets'[q][i].endpoint
                 PROVE  subnet[subnets'[q][i].name].endpoint \/ subnets'[q][i].name \in removed
      BY <1>6 DEF ReadStillHaveEndpoint
    <3> QED
      BY <1>5, <1>9 DEF SubnetInv, ReadStillHaveEndpoint
  <2> QED
    BY <2>1, <2>2, <2>3, <2>4
<1> QED
  BY <1>7, <1>8, <1>10 DEF Rest

\* A subnet read with the endpoint counts as handled.
LEMMA HasEndpointRest ==
    ASSUME SubnetInv, NEW p \in Procs, HasEndpoint(p)
    PROVE  Rest'
<1>1. /\ handled' = [handled EXCEPT ![p] = @ + 1]
      /\ UNCHANGED <<pc, key, subnet, subnetCache, subnets, faults, removed, writer>>
      /\ Pending(p) /\ Current(p).endpoint
  BY DEF HasEndpoint, vars, cloud
<1>2. /\ handled \in [Procs -> Nat] /\ handled[p] + 1 \in 1..Len(subnets[p])
      /\ subnet[Current(p).name].endpoint \/ Current(p).name \in removed
  BY <1>1, CurrentFacts DEF SubnetInv, SubnetTypeOK, ReadStillHaveEndpoint, Current
<1>3. SubnetTypeOK'
  BY <1>1, <1>2 DEF SubnetInv, SubnetTypeOK
<1>4. StaleOnlyByOthers'
  <2>1. \A q \in Procs : handled'[q] \in Nat /\ handled[q] \in Nat /\ handled'[q] >= handled[q]
    BY <1>1, <1>2
  <2>2. \A q \in Procs : \A i \in handled'[q] + 1..Len(subnets[q]) : i \in handled[q] + 1..Len(subnets[q])
    BY <2>1
  <2> QED
    BY <1>1, <2>2 DEF SubnetInv, StaleOnlyByOthers
<1>5. HandledHaveEndpoint'
  <2>1. \A i \in 1..handled'[p] : i \in 1..handled[p] \/ i = handled[p] + 1
    BY <1>1, <1>2
  <2>2. \A q \in Procs : q # p => handled'[q] = handled[q]
    BY <1>1, <1>2
  <2> QED
    BY <1>1, <1>2, <2>1, <2>2 DEF SubnetInv, HandledHaveEndpoint, Current
<1> QED
  BY <1>1, <1>3, <1>4, <1>5
  DEF Rest, SubnetInv, ReadInside, CachedHaveEndpoint, ReadStillHaveEndpoint

\* The write of one call leaves what the calls with other subnets have read as it
\* is, and is the write of another list for a call that has read the same subnet:
\* two calls inside have different lists.
LEMMA WriteOthers ==
    ASSUME SubnetInv, NEW p \in Procs, Pending(p), ~Current(p).endpoint, Write(p),
           NEW q \in Procs, q # p, NEW i \in handled[q] + 1..Len(subnets[q])
    PROVE  \/ subnet'[subnets[q][i].name] =
                  [endpoint |-> subnets[q][i].endpoint, conf |-> subnets[q][i].conf]
           \/ writer'[subnets[q][i].name] # key[q]
<1>1. handled[q] \in Nat /\ subnets[q] \in Seq(Snapshots) /\ i \in 1..Len(subnets[q])
  BY DEF SubnetInv, SubnetTypeOK
<1>2. subnets[q][i].name \in Subnets
  BY <1>1, NameFacts
<1>3. pc[q] = "held" /\ pc[p] = "held" /\ key[p] # key[q]
  <2>1. pc[q] = "held" /\ pc[p] = "held"
    BY <1>1 DEF SubnetInv, ReadInside, Pending
  <2> QED
    BY <2>1, Exclusion DEF SubnetInv
<1> QED
  BY <1>2, <1>3, WriteKeeps DEF SubnetInv, StaleOnlyByOthers

\* The subnets the call itself has still to write are others than the one it has
\* just written: its list has no name twice.
LEMMA WriteOwn ==
    ASSUME SubnetInv, NEW p \in Procs, Pending(p), ~Current(p).endpoint, Write(p),
           NEW i \in handled[p] + 2..Len(subnets[p])
    PROVE  \/ subnet'[subnets[p][i].name] =
                  [endpoint |-> subnets[p][i].endpoint, conf |-> subnets[p][i].conf]
           \/ writer'[subnets[p][i].name] # key[p]
<1>1. /\ handled[p] \in Nat /\ subnets[p] \in Seq(Snapshots) /\ i \in 1..Len(subnets[p])
      /\ i \in handled[p] + 1..Len(subnets[p]) /\ i # handled[p] + 1
  BY CurrentFacts DEF SubnetInv, SubnetTypeOK
<1>2. subnets[p][i].name \in Subnets
  BY <1>1, NameFacts
<1>3. subnets[p][i].name # Current(p).name
  <2> DEFINE list == ListOf(key[p])
             h    == handled[p] + 1
  <2>1. list \in Seq(Subnets) /\ h \in Nat /\ h >= 1
    BY <1>1, CurrentFacts, ListFacts
  <2>2. i <= Len(list) /\ subnets[p][i].name = list[i]
    BY <1>1 DEF SubnetInv, ReadInside
  <2>3. h <= Len(list) /\ Current(p).name = list[h]
    BY CurrentFacts
  <2>4. \A a, b \in 1..Len(list) : list[a] = list[b] => a = b
    BY CurrentFacts, ListFacts
  <2> HIDE DEF list
  <2>5. i \in 1..Len(list) /\ h \in 1..Len(list) /\ i # h
    BY <2>1, <2>2, <2>3, <1>1
  <2> QED
    BY <2>2, <2>3, <2>4, <2>5
<1> QED
  BY <1>1, <1>2, <1>3, WriteKeeps DEF SubnetInv, StaleOnlyByOthers

\* The subnet is written and counts as handled.
LEMMA CreateOrUpdateRest ==
    ASSUME SubnetInv, NEW p \in Procs, CreateOrUpdate(p)
    PROVE  Rest'
<1>1. /\ handled' = [handled EXCEPT ![p] = @ + 1] /\ Write(p)
      /\ UNCHANGED <<pc, key, subnetCache, subnets, faults>>
      /\ Pending(p) /\ ~Current(p).endpoint
  BY DEF CreateOrUpdate, vars
<1>2. /\ handled \in [Procs -> Nat] /\ handled[p] + 1 \in 1..Len(subnets[p])
      /\ Current(p).name \in Subnets
      /\ \A q \in Procs : \A i \in 1..Len(subnets[q]) : subnets[q][i].name \in Subnets
  <2>1. \A r \in Snapshots : r.name \in Subnets
    BY DEF Snapshots
  <2> QED
    BY <1>1, <2>1, CurrentFacts, NameFacts DEF SubnetInv, SubnetTypeOK
<1>3. SubnetTypeOK'
  BY <1>1, <1>2, WriteKeeps DEF SubnetInv, SubnetTypeOK
<1>4. StaleOnlyByOthers'
  <2>1. handled'[p] = handled[p] + 1 /\ \A q \in Procs : q # p => handled'[q] = handled[q]
    BY <1>1, <1>2
  <2>2. \A q \in Procs : q # p => \A i \in handled'[q] + 1..Len(subnets[q]) :
          \/ subnet'[subnets[q][i].name] = [endpoint |-> subnets[q][i].endpoint, conf |-> subnets[q][i].conf]
          \/ writer'[subnets[q][i].name] # key[q]
    BY <1>1, <2>1, WriteOthers
  <2>3. \A i \in handled'[p] + 1..Len(subnets[p]) : i \in handled[p] + 2..Len(subnets[p])
    BY <2>1, <1>2
  <2>4. \A i \in handled'[p] + 1..Len(subnets[p]) :
          \/ subnet'[subnets[p][i].name] = [endpoint |-> subnets[p][i].endpoint, conf |-> subnets[p][i].conf]
          \/ writer'[subnets[p][i].name] # key[p]
    BY <1>1, <2>3, WriteOwn
  <2> QED
    BY <1>1, <2>2, <2>4 DEF StaleOnlyByOthers
<1>5. HandledHaveEndpoint'
  <2>1. \A i \in 1..handled'[p] : i \in 1..handled[p] \/ i = handled[p] + 1
    BY <1>1, <1>2
  <2>2. \A q \in Procs : q # p => handled'[q] = handled[q]
    BY <1>1, <1>2
  <2>3. \A q \in Procs : \A i \in 1..handled[q] : i \in 1..Len(subnets[q])
    BY <1>2 DEF SubnetInv, SubnetTypeOK
  <2>4. \A q \in Procs : \A i \in 1..handled[q] :
          subnet'[subnets[q][i].name].endpoint \/ subnets[q][i].name \in removed'
    BY <1>1, <1>2, <2>3, WriteKeeps DEF SubnetInv, HandledHaveEndpoint
  <2>5. subnet'[subnets[p][handled[p] + 1].name].endpoint
    BY <1>1, WriteKeeps DEF Current
  <2> QED
    BY <1>1, <2>1, <2>2, <2>4, <2>5 DEF HandledHaveEndpoint
<1>6. CachedHaveEndpoint'
  BY <1>1, NameFacts, WriteKeeps DEF SubnetInv, CachedHaveEndpoint
<1>7. ReadStillHaveEndpoint'
  BY <1>1, <1>2, WriteKeeps DEF SubnetInv, ReadStillHaveEndpoint
<1>8. ReadInside'
  BY <1>1 DEF SubnetInv, ReadInside
<1> QED
  BY <1>3, <1>4, <1>5, <1>6, <1>7, <1>8 DEF Rest

\* A call that forgets what it has read keeps the rest; what has been written and
\* is in the cache stays.
LEMMA ForgetRest ==
    ASSUME SubnetInv, NEW p \in Procs, pc[p] = "held", Return(p), Forget(p),
           SubnetTypeOK', CachedHaveEndpoint',
           \A s \in Subnets : (subnet[s].endpoint \/ s \in removed) =>
                              (subnet'[s].endpoint \/ s \in removed'),
           \A q \in Procs \ {p} : \A i \in handled[q] + 1..Len(subnets[q]) :
              \/ subnet'[subnets[q][i].name] =
                    [endpoint |-> subnets[q][i].endpoint, conf |-> subnets[q][i].conf]
              \/ writer'[subnets[q][i].name] # key[q]
    PROVE  Rest'
<1>1. /\ subnets'[p] = <<>> /\ handled'[p] = 0 /\ key' = key
      /\ \A q \in Procs : q # p => /\ subnets'[q] = subnets[q] /\ handled'[q] = handled[q]
                                   /\ pc'[q] = pc[q]
  BY DEF Forget, Return, CallUnlock, Goto, SubnetInv, SubnetTypeOK, IInv, TypeOK
<1>2. \A i : i \notin 1..Len(subnets'[p]) /\ i \notin 1..handled'[p]
              /\ i \notin handled'[p] + 1..Len(subnets'[p])
  BY <1>1
<1>3. ReadInside'
  BY <1>1, <1>2 DEF SubnetInv, ReadInside
<1>4. StaleOnlyByOthers'
  <2>1. ASSUME NEW q \in Procs, NEW i \in handled'[q] + 1..Len(subnets'[q])
        PROVE  /\ q # p /\ i \in handled[q] + 1..Len(subnets[q])
               /\ subnets'[q] = subnets[q] /\ key'[q] = key[q]
    BY <1>1, <1>2, <2>1
  <2> QED
    BY <2>1 DEF StaleOnlyByOthers
<1>5. HandledHaveEndpoint'
  <2>1. \A q \in Procs : \A i \in 1..handled[q] : i \in 1..Len(subnets[q])
    BY DEF SubnetInv, SubnetTypeOK
  <2> QED
    BY <1>1, <1>2, <2>1, NameFacts DEF SubnetInv, HandledHaveEndpoint
<1>6. ReadStillHaveEndpoint'
  BY <1>1, <1>2, NameFacts DEF SubnetInv, ReadStillHaveEndpoint
<1> QED
  BY <1>3, <1>4, <1>5, <1>6 DEF Rest

\* A request fails: nothing is put into the cache.
LEMMA RequestFailsRest ==
    ASSUME SubnetInv, NEW p \in Procs, RequestFails(p)
    PROVE  Rest'
<1>1. /\ pc[p] = "held" /\ Return(p) /\ Forget(p) /\ UNCHANGED subnetCache
      /\ UNCHANGED cloud \/ (Pending(p) /\ ~Current(p).endpoint /\ Write(p))
      /\ faults' = faults + 1
  BY DEF RequestFails, NotRemembered, Fault, Pending
<1>2. /\ subnets' \in [Procs -> Seq(Snapshots)] /\ handled' \in [Procs -> Nat]
      /\ \A q \in Procs : handled'[q] <= Len(subnets'[q])
      /\ faults' \in Nat /\ subnetCache' \in [Keys -> (SUBSET Subnets) \cup {None}]
  BY <1>1 DEF Forget, SubnetInv, SubnetTypeOK
<1>3. CASE UNCHANGED cloud
  <2>1. SubnetTypeOK' /\ CachedHaveEndpoint'
    BY <1>1, <1>2, <1>3 DEF cloud, SubnetInv, SubnetTypeOK, CachedHaveEndpoint
  <2> QED
    BY <1>1, <1>3, <2>1, ForgetRest DEF cloud, SubnetInv, StaleOnlyByOthers
<1>4. CASE Pending(p) /\ ~Current(p).endpoint /\ Write(p)
  <2>1. SubnetTypeOK'
    BY <1>2, <1>4, WriteKeeps DEF SubnetTypeOK
  <2>2. CachedHaveEndpoint'
    BY <1>1, <1>4, NameFacts, WriteKeeps DEF SubnetInv, CachedHaveEndpoint
  <2>3. \A q \in Procs \ {p} : \A i \in handled[q] + 1..Len(subnets[q]) :
           \/ subnet'[subnets[q][i].name] =
                 [endpoint |-> subnets[q][i].endpoint, conf |-> subnets[q][i].conf]
           \/ writer'[subnets[q][i].name] # key[q]
    BY <1>4, WriteOthers
  <2> QED
    BY <1>1, <1>4, <2>1, <2>2, <2>3, WriteKeeps, ForgetRest
<1> QED
  BY <1>1, <1>3, <1>4

\* All subnets of the list are handled, so they may be remembered.
LEMMA ReturnSubnetsRest ==
    ASSUME SubnetInv, NEW p \in Procs, ReturnSubnets(p)
    PROVE  Rest'
<1> DEFINE names == {subnets[p][i].name : i \in 1..Len(subnets[p])}
<1>1. /\ pc[p] = "held" /\ Return(p) /\ Forget(p) /\ UNCHANGED cloud
      /\ handled[p] = Len(subnets[p]) /\ UNCHANGED faults
      /\ subnetCache' = [subnetCache EXCEPT ![key[p]] = names]
  BY DEF ReturnSubnets
<1>2. \A s \in names : s \in Subnets /\ (subnet[s].endpoint \/ s \in removed)
  BY <1>1, NameFacts DEF SubnetInv, HandledHaveEndpoint
<1>3. subnetCache \in [Keys -> (SUBSET Subnets) \cup {None}]
  BY DEF SubnetInv, SubnetTypeOK
<1>4. subnetCache' \in [Keys -> (SUBSET Subnets) \cup {None}] /\ CachedHaveEndpoint'
  <2> HIDE DEF names
  <2>1. names \in SUBSET Subnets
    BY <1>2
  <2>2. subnetCache' \in [Keys -> (SUBSET Subnets) \cup {None}]
    BY <1>1, <1>3, <2>1
  <2>3. \A k \in Keys : subnetCache'[k] = subnetCache[k] \/ subnetCache'[k] = names
    BY <1>1, <1>3
  <2> QED
    BY <1>1, <1>2, <2>2, <2>3 DEF cloud, SubnetInv, CachedHaveEndpoint
<1>5. SubnetTypeOK'
  BY <1>1, <1>4 DEF Forget, cloud, SubnetInv, SubnetTypeOK
<1> QED
  BY <1>1, <1>4, <1>5, ForgetRest DEF cloud, SubnetInv, StaleOnlyByOthers

\* The cache forgets a list, others change a subnet, the driver restarts.
LEMMA EnvironmentRest ==
    ASSUME SubnetInv,
           \/ \E k \in Keys : CacheExpires(k)
           \/ \E s \in Subnets : Configure(s) \/ RemoveEndpoint(s)
           \/ DriverRestarts
    PROVE  Rest'
<1> USE SubnetsAssumption DEF SubnetInv, SubnetTypeOK, Rest
<1>1. ASSUME NEW k \in Keys, CacheExpires(k) PROVE Rest'
  <2>1. /\ UNCHANGED <<subnet, removed, writer, subnets, handled, pc, key>>
        /\ subnetCache' = [subnetCache EXCEPT ![k] = None] /\ faults' = faults + 1
    BY <1>1 DEF CacheExpires, Fault, vars, cloud
  <2>2. subnetCache' \in [Keys -> (SUBSET Subnets) \cup {None}] /\ CachedHaveEndpoint'
    BY <2>1 DEF CachedHaveEndpoint
  <2> QED
    BY <2>1, <2>2 DEF ReadInside, StaleOnlyByOthers, HandledHaveEndpoint, ReadStillHaveEndpoint
<1>2. ASSUME NEW s \in Subnets, Configure(s) \/ RemoveEndpoint(s) PROVE Rest'
  <2>0. PICK r : /\ subnet' = [subnet EXCEPT ![s] = r] /\ r \in Settings
                 /\ (r.endpoint = subnet[s].endpoint /\ removed' = removed)
                    \/ removed' = removed \cup {s}
    <3>0. /\ [endpoint |-> subnet[s].endpoint, conf |-> subnet[s].conf + 1] \in Settings
          /\ [endpoint |-> FALSE, conf |-> subnet[s].conf] \in Settings
      BY DEF Settings
    <3>1. CASE Configure(s)
      <4> DEFINE r0 == [endpoint |-> subnet[s].endpoint, conf |-> subnet[s].conf + 1]
      <4>1. subnet' = [subnet EXCEPT ![s] = r0] /\ removed' = removed /\ r0 \in Settings
        BY <3>0, <3>1 DEF Configure
      <4>2. r0.endpoint = subnet[s].endpoint
        OBVIOUS
      <4> HIDE DEF r0
      <4> QED
        BY <4>1, <4>2
    <3>2. CASE RemoveEndpoint(s)
      BY <3>0, <3>2 DEF RemoveEndpoint
    <3> QED
      BY <1>2, <3>1, <3>2
  <2>1. /\ UNCHANGED <<subnetCache, subnets, handled, pc, key>> /\ faults' = faults + 1
        /\ writer' = [writer EXCEPT ![s] = None]
        /\ \A t \in Subnets : t # s => subnet'[t] = subnet[t]
        /\ removed' \subseteq Subnets
        /\ \A t \in Subnets : (subnet[t].endpoint \/ t \in removed) =>
                              (subnet'[t].endpoint \/ t \in removed')
    <3>1. /\ UNCHANGED <<subnetCache, subnets, handled, pc, key>> /\ faults' = faults + 1
          /\ writer' = [writer EXCEPT ![s] = None]
      BY <1>2 DEF Configure, RemoveEndpoint, Fault, vars
    <3> QED
      BY <2>0, <3>1
  <2>2. subnet' \in [Subnets -> Settings]
    BY <2>0
  <2>3. writer'[s] = None /\ \A t \in Subnets : t # s => writer'[t] = writer[t]
    BY <2>1
  <2>4. StaleOnlyByOthers'
    <3>1. \A q \in Procs : \A i \in handled[q] + 1..Len(subnets[q]) : i \in 1..Len(subnets[q])
      OBVIOUS
    <3>2. \A q \in Procs : \A i \in 1..Len(subnets[q]) : key[q] \in Keys
      BY DEF ReadInside, IInv, TypeOK
    <3> SUFFICES ASSUME NEW q \in Procs, NEW i \in handled[q] + 1..Len(subnets[q])
                 PROVE  \/ subnet'[subnets[q][i].name] =
                              [endpoint |-> subnets[q][i].endpoint, conf |-> subnets[q][i].conf]
                        \/ writer'[subnets[q][i].name] # key[q]
      <4>1. subnets' = subnets /\ handled' = handled /\ key' = key
        BY <2>1
      <4> QED
        BY <4>1 DEF StaleOnlyByOthers
    <3>3. key[q] \in Keys /\ subnets[q][i].name \in Subnets
      BY <3>1, <3>2, NameFacts
    <3>4. \/ subnet[subnets[q][i].name] =
                [endpoint |-> subnets[q][i].endpoint, conf |-> subnets[q][i].conf]
          \/ writer[subnets[q][i].name] # key[q]
      BY DEF StaleOnlyByOthers
    <3> QED
      BY <2>1, <2>3, <3>3, <3>4
  <2>5. HandledHaveEndpoint' /\ ReadStillHaveEndpoint'
    <3>1. \A q \in Procs : \A i \in 1..handled[q] : i \in 1..Len(subnets[q])
      OBVIOUS
    <3> QED
      BY <2>1, <3>1, NameFacts DEF HandledHaveEndpoint, ReadStillHaveEndpoint
  <2>6. CachedHaveEndpoint' /\ ReadInside'
    BY <2>1, NameFacts DEF CachedHaveEndpoint, ReadInside
  <2>7. SubnetTypeOK'
    <3>1. writer' \in [Subnets -> Keys \cup {None}]
      BY <2>1
    <3>2. handled' \in [Procs -> Nat] /\ subnets' \in [Procs -> Seq(Snapshots)]
          /\ \A p \in Procs : handled'[p] <= Len(subnets'[p])
      BY <2>1
    <3> QED
      BY <2>1, <2>2, <3>1, <3>2
  <2> QED
    BY <2>4, <2>5, <2>6, <2>7
<1>3. CASE DriverRestarts
  <2>1. /\ UNCHANGED <<subnet, removed, writer>> /\ faults' = faults + 1
        /\ subnetCache' = [k \in Keys |-> None]
        /\ subnets' = [p \in Procs |-> <<>>] /\ handled' = [p \in Procs |-> 0]
    BY <1>3 DEF DriverRestarts, Fault, cloud
  <2> QED
    BY <2>1 DEF CachedHaveEndpoint, ReadInside, StaleOnlyByOthers, HandledHaveEndpoint,
                ReadStillHaveEndpoint
<1> QED
  BY <1>1, <1>2, <1>3

LEMMA SubnetInitInv == SubnetInit => SubnetInv
<1> SUFFICES ASSUME SubnetInit PROVE SubnetInv
  OBVIOUS
<1>1. IInv
  BY InitInv DEF SubnetInit
<1>2. SubnetTypeOK
  BY SubnetsAssumption DEF SubnetInit, SubnetTypeOK, Settings
<1> QED
  BY <1>1, <1>2
  DEF SubnetInit, SubnetInv, ReadInside, CachedHaveEndpoint, StaleOnlyByOthers,
      HandledHaveEndpoint, ReadStillHaveEndpoint

LEMMA SubnetStepInv == SubnetInv /\ [SubnetNext]_all_vars => SubnetInv'
<1> SUFFICES ASSUME SubnetInv, [SubnetNext]_all_vars PROVE SubnetInv'
  OBVIOUS
<1>1. IInv'
  BY LockInvKept DEF SubnetInv
<1>2. CASE UNCHANGED all_vars
  <2>1. Rest'
    BY <1>2 DEF all_vars, vars, svars, cloud, Rest, SubnetInv, SubnetTypeOK, ReadInside,
                CachedHaveEndpoint, StaleOnlyByOthers, HandledHaveEndpoint,
                ReadStillHaveEndpoint
  <2> QED
    BY <1>1, <2>1 DEF Rest, SubnetInv
<1>3. ASSUME NEW p \in Procs, Serve(p) PROVE Rest'
  BY <1>3, LockMapStepRest, GetRest, HasEndpointRest, CreateOrUpdateRest, RequestFailsRest,
     ReturnSubnetsRest DEF Serve
<1>4. CASE SubnetNext
  <2>1. Rest'
    BY <1>3, <1>4, CallRest, EnvironmentRest DEF SubnetNext
  <2> QED
    BY <1>1, <2>1 DEF Rest, SubnetInv
<1> QED
  BY <1>2, <1>4

\* Whatever lists, goroutines and subnets there are: lockMap's invariant, and what
\* the cache and the calls know of the subnets.
THEOREM SubnetInvariant == SubnetSpec => []SubnetInv
BY SubnetInitInv, SubnetStepInv, PTL DEF SubnetSpec, all_vars

\* A list in the cache has its endpoints, unless others have removed one.
THEOREM CacheIsRight == SubnetSpec => []CachedHaveEndpoint
<1>1. SubnetInv => CachedHaveEndpoint
  BY DEF SubnetInv
<1> QED
  BY <1>1, SubnetInvariant, PTL

\* Calls with the same list never undo each other's writes.
THEOREM NoLostUpdate == SubnetSpec => []StaleOnlyByOthers
<1>1. SubnetInv => StaleOnlyByOthers
  BY DEF SubnetInv
<1> QED
  BY <1>1, SubnetInvariant, PTL

\* No goroutine waits in a circle, or for one that has returned: a chain of waits for the
\* outer mutex and those of the entries has at most two links, with the lock map as it is used
\* by UpdateSubnetServiceEndpoints, calls that fail and restarts included.
THEOREM WaitsAreShort == SubnetSpec => []NoDeadlock
<1>1. SubnetInv => NoDeadlock
  BY ShortWaits DEF SubnetInv
<1> QED
  BY <1>1, SubnetInvariant, PTL
=============================================================================
