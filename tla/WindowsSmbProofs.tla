-------------------------- MODULE WindowsSmbProofs --------------------------
(***************************************************************************)
(* Proofs about WindowsSmb, for any goroutines, targets and spellings.     *)
(***************************************************************************)
EXTENDS WindowsSmb, TLAPS

\* A goroutine that is not idle has a target, and only those that SMBMount left
\* behind have none that kubelet waits for.
LEMMA AtWork ==
    ASSUME IInv, NEW p \in Procs, pc[p] # "idle"
    PROVE  /\ target[p] \in Targets
           /\ pc[p] \notin Detached => p \notin late /\ staged[target[p]] = "maybe"
BY DEF IInv, TypeOK, LocalsInv, ServingInv

\* remotePathLocks excludes.
LEMMA Exclusion ==
    ASSUME IInv, NEW p \in Procs, NEW q \in Procs, pc[p] \in Inside, pc[q] \in Inside
    PROVE  p = q
BY DEF IInv, TypeOK

\* A staged volume is linked.
LEMMA StagedIsLinked ==
    ASSUME IInv, NEW t \in Targets, staged[t] = "yes"
    PROVE  link[t] = RemoteOf[t] /\ link[t] # None
BY WindowsAssumption DEF IInv, StagedHasMapping, Remotes

\* The node starts without mappings, links and locks.
LEMMA InitInv == Init => IInv
<1> SUFFICES ASSUME Init PROVE IInv
  OBVIOUS
<1>0. /\ pc \in [Procs -> PCs] /\ lock \in Procs \cup {None}
      /\ \A p \in Procs : pc[p] \in Inside <=> lock = p
  <2>1. None \notin Procs /\ "idle" \notin Inside /\ "idle" \in PCs
    BY WindowsAssumption DEF Inside, PCs
  <2> QED
    BY <2>1 DEF Init
<1>1. TypeOK
  <2>1. 0 \in 0..MaxCalls /\ 0 \in 0..MaxFaults
    BY WindowsAssumption
  <2> QED
    BY <1>0, <2>1 DEF Init, TypeOK
<1>2. LocalsInv /\ ServingInv /\ LockedInv
  BY DEF Init, LocalsInv, ServingInv, LockedInv
<1>3. MappingIsNeeded /\ NeededByOthers /\ StagedHasMapping
  BY DEF Init, MappingIsNeeded, NeededByOthers, StagedHasMapping
<1> QED
  BY <1>1, <1>2, <1>3 DEF IInv

\* The end of a goroutine, for every action that has one.
LEMMA EndKeeps ==
    ASSUME IInv, NEW p \in Procs, pc[p] # "idle", NEW answer, End(p, answer)
    PROVE  /\ pc' = [pc EXCEPT ![p] = "idle"] /\ pc' \in [Procs -> PCs]
           /\ op' \in [Procs -> {"stage", "unstage", "none"}]
           /\ target' \in [Procs -> Targets \cup {None}]
           /\ late' \subseteq Procs /\ staged' \in [Targets -> {"no", "maybe", "yes"}]
           /\ LocalsInv'
           /\ \A q, r \in Procs \ late' : target'[q] # None /\ target'[q] = target'[r] => q = r
           /\ \A q \in Procs \ late' : target'[q] # None => staged'[target'[q]] = "maybe"
           /\ \A q \in Procs \ {p} : target'[q] = target[q] /\ pc'[q] = pc[q]
           /\ \A t \in Targets : staged'[t] = "yes" =>
                  staged[t] = "yes" \/ (t = target[p] /\ p \notin late /\ op[p] = "stage" /\ answer # "err")
<1>1. target[p] \in Targets
  BY AtWork
<1>2. /\ pc' = [pc EXCEPT ![p] = "idle"] /\ pc' \in [Procs -> PCs]
      /\ op' \in [Procs -> {"stage", "unstage", "none"}]
      /\ target' \in [Procs -> Targets \cup {None}]
      /\ late' \subseteq Procs /\ staged' \in [Targets -> {"no", "maybe", "yes"}]
  BY <1>1 DEF End, IInv, TypeOK, PCs
<1>3. \A q \in Procs \ {p} : target'[q] = target[q] /\ pc'[q] = pc[q] /\ (q \in late' <=> q \in late)
  BY <1>2 DEF End, IInv, TypeOK
<1>4. target'[p] = None /\ pc'[p] = "idle" /\ p \notin late'
  BY <1>2 DEF End, IInv, TypeOK
<1>5. LocalsInv'
  BY <1>3, <1>4 DEF LocalsInv, IInv
<1>6. \A q, r \in Procs \ late' : target'[q] # None /\ target'[q] = target'[r] => q = r
  BY <1>3, <1>4 DEF ServingInv, IInv
<1>7. \A t \in Targets : staged'[t] # staged[t] =>
          t = target[p] /\ p \notin late /\ (staged'[t] = "yes" => op[p] = "stage" /\ answer # "err")
  BY <1>1 DEF End, IInv, TypeOK
<1>8. ASSUME NEW q \in Procs \ late', target'[q] # None PROVE staged'[target'[q]] = "maybe"
  <2>1. q # p /\ q \notin late /\ target[q] # None /\ target'[q] = target[q]
    BY <1>3, <1>4, <1>8
  <2>2. target[q] \in Targets /\ staged[target[q]] = "maybe"
    BY <2>1 DEF IInv, TypeOK, ServingInv
  <2>3. target[q] = target[p] => p \in late
    BY <2>1 DEF IInv, ServingInv
  <2> QED
    BY <2>1, <2>2, <2>3, <1>7
<1> QED
  BY <1>2, <1>3, <1>5, <1>6, <1>7, <1>8

\* Nobody waits for a target whose call is not over: the link that goes is not staged.
LEMMA PrepareStagePathKeeps ==
    ASSUME IInv, NEW p \in Procs, PrepareStagePath(p)
    PROVE  IInv'
<1>0. target[p] \in Targets
  BY AtWork DEF PrepareStagePath, Goto
<1>1. TypeOK'
  BY DEF PrepareStagePath, Goto, IInv, TypeOK, Inside, PCs, Locals, hist
<1>2. LocalsInv'
  BY DEF PrepareStagePath, Goto, IInv, LocalsInv, Locals, Detached
<1>3. ServingInv'
  BY DEF PrepareStagePath, IInv, ServingInv, Locals
<1>4. LockedInv'
  BY DEF PrepareStagePath, Goto, IInv, LockedInv, Locals, Linked
<1>5. MappingIsNeeded'
  BY DEF PrepareStagePath, Goto, MappingIsNeeded, SomeoneMounts, Mounting
<1>6. NeededByOthers'
  BY DEF PrepareStagePath, Goto, NeededByOthers, SomeoneMounts, Mounting
<1>7. StagedHasMapping'
  BY AtWork DEF PrepareStagePath, Goto, IInv, StagedHasMapping, Locals, Detached, hist
<1> QED
  BY <1>1, <1>2, <1>3, <1>4, <1>5, <1>6, <1>7 DEF IInv

\* The lock is taken.
LEMMA LockForMountKeeps ==
    ASSUME IInv, NEW p \in Procs, LockForMount(p)
    PROVE  IInv'
<1>0. target[p] \in Targets
  BY AtWork DEF LockForMount, Goto
<1>1. TypeOK'
  BY WindowsAssumption DEF LockForMount, Goto, IInv, TypeOK, Inside, PCs, Locals, node, hist
<1>2. LocalsInv'
  BY DEF LockForMount, Goto, IInv, LocalsInv, Locals, Detached, Mounting
<1>3. ServingInv'
  BY DEF LockForMount, IInv, ServingInv, Locals, node
<1>4. LockedInv'
  BY DEF LockForMount, Goto, IInv, LockedInv, Locals, Linked, node
<1>5. MappingIsNeeded'
  BY DEF LockForMount, Goto, MappingIsNeeded, SomeoneMounts, Mounting
<1>6. NeededByOthers'
  BY DEF LockForMount, Goto, NeededByOthers, SomeoneMounts, Mounting
<1>7. StagedHasMapping'
  BY DEF LockForMount, Goto, IInv, StagedHasMapping, Locals, node, hist
<1> QED
  BY <1>1, <1>2, <1>3, <1>4, <1>5, <1>6, <1>7 DEF IInv

\* The status decides what is done, under the lock.
LEMMA GetSmbGlobalMappingStatusKeeps ==
    ASSUME IInv, NEW p \in Procs, GetSmbGlobalMappingStatus(p)
    PROVE  IInv'
<1>0. target[p] \in Targets
  BY AtWork DEF GetSmbGlobalMappingStatus, Goto
<1>1. TypeOK'
  BY WindowsAssumption
  DEF GetSmbGlobalMappingStatus, Goto, IInv, TypeOK, Inside, PCs, Locals, node, hist, Fault
<1>2. LocalsInv'
  BY DEF GetSmbGlobalMappingStatus, Goto, IInv, TypeOK, LocalsInv, Locals, Detached, Mounting
<1>3. ServingInv'
  BY DEF GetSmbGlobalMappingStatus, IInv, ServingInv, Locals, node
<1>4. LockedInv'
  BY DEF GetSmbGlobalMappingStatus, Goto, IInv, TypeOK, LockedInv, Inside, node
<1>5. MappingIsNeeded'
  BY DEF GetSmbGlobalMappingStatus, Goto, IInv, TypeOK, MappingIsNeeded, SomeoneMounts, Mounting
<1>6. NeededByOthers'
  BY DEF GetSmbGlobalMappingStatus, Goto, IInv, TypeOK, NeededByOthers, SomeoneMounts, Mounting
<1>7. StagedHasMapping'
  BY DEF GetSmbGlobalMappingStatus, Goto, IInv, TypeOK, StagedHasMapping, Locals, node
<1> QED
  BY <1>1, <1>2, <1>3, <1>4, <1>5, <1>6, <1>7 DEF IInv

\* The link is read.
LEMMA GetRemoteServerFromTargetKeeps ==
    ASSUME IInv, NEW p \in Procs, GetRemoteServerFromTarget(p)
    PROVE  IInv'
<1>0. target[p] \in Targets
  BY AtWork DEF GetRemoteServerFromTarget, Goto
<1>1. TypeOK'
  BY DEF GetRemoteServerFromTarget, Goto, IInv, TypeOK, Inside, PCs, Locals, node, hist
<1>2. LocalsInv'
  BY DEF GetRemoteServerFromTarget, Goto, IInv, LocalsInv, Locals, Detached, Mounting
<1>3. ServingInv'
  BY DEF GetRemoteServerFromTarget, IInv, ServingInv, Locals, node
<1>4. LockedInv'
  BY DEF GetRemoteServerFromTarget, Goto, IInv, LockedInv, Locals, Linked, node
<1>5. MappingIsNeeded'
  BY DEF GetRemoteServerFromTarget, Goto, IInv, MappingIsNeeded, SomeoneMounts, Mounting, node, hist
<1>6. NeededByOthers'
  BY
  DEF GetRemoteServerFromTarget, Goto, IInv, NeededByOthers, SomeoneMounts, Mounting, Locals,
     node, hist
<1>7. StagedHasMapping'
  BY DEF GetRemoteServerFromTarget, Goto, IInv, StagedHasMapping, Locals, node, hist
<1> QED
  BY <1>1, <1>2, <1>3, <1>4, <1>5, <1>6, <1>7 DEF IInv

\* The lock is taken.
LEMMA LockForUnmountKeeps ==
    ASSUME IInv, NEW p \in Procs, LockForUnmount(p)
    PROVE  IInv'
<1>0. target[p] \in Targets
  BY AtWork DEF LockForUnmount, Goto
<1>1. TypeOK'
  BY WindowsAssumption DEF LockForUnmount, Goto, IInv, TypeOK, Inside, PCs, Locals, node, hist
<1>2. LocalsInv'
  BY DEF LockForUnmount, Goto, IInv, LocalsInv, Locals, Detached, Mounting
<1>3. ServingInv'
  BY DEF LockForUnmount, IInv, ServingInv, Locals, node
<1>4. LockedInv'
  BY DEF LockForUnmount, Goto, IInv, LockedInv, Locals, Linked, node
<1>5. MappingIsNeeded'
  BY DEF LockForUnmount, Goto, IInv, MappingIsNeeded, SomeoneMounts, Mounting, node, hist
<1>6. NeededByOthers'
  BY DEF LockForUnmount, Goto, IInv, NeededByOthers, SomeoneMounts, Mounting, Locals, node, hist
<1>7. StagedHasMapping'
  BY DEF LockForUnmount, Goto, IInv, StagedHasMapping, Locals, node, hist
<1> QED
  BY <1>1, <1>2, <1>3, <1>4, <1>5, <1>6, <1>7 DEF IInv

\* The check finds another link, which stays while the lock is held, or the mapping goes.
LEMMA CheckForDuplicateSMBMountsKeeps ==
    ASSUME IInv, NEW p \in Procs, CheckForDuplicateSMBMounts(p)
    PROVE  IInv'
<1>0. target[p] \in Targets
  BY AtWork DEF CheckForDuplicateSMBMounts, Goto
<1>1. TypeOK'
  <2>1. pc' \in [Procs -> PCs] /\ \A q \in Procs : pc'[q] \in Inside <=> lock = q
    <3>1. pc[p] \in Inside /\ \E to \in Inside : pc' = [pc EXCEPT ![p] = to]
      BY DEF CheckForDuplicateSMBMounts, Goto, Inside
    <3> QED
      BY <3>1 DEF IInv, TypeOK, PCs
  <2>2. cut' \subseteq Targets /\ leaked' \in BOOLEAN
    BY DEF CheckForDuplicateSMBMounts, IInv, TypeOK
  <2>3. faults' \in 0..MaxFaults
    BY WindowsAssumption DEF CheckForDuplicateSMBMounts, IInv, TypeOK, Fault
  <2>4. mapping' \in {"NotFound", "OK", "Invalid", "Disconnected", "Other"}
    BY DEF CheckForDuplicateSMBMounts, IInv, TypeOK, node
  <2> QED
    BY <2>1, <2>3 DEF CheckForDuplicateSMBMounts, IInv, TypeOK, Locals, node
<1>2. LocalsInv'
  BY DEF CheckForDuplicateSMBMounts, Goto, IInv, TypeOK, LocalsInv, Locals, Detached, Mounting
<1>3. ServingInv'
  BY DEF CheckForDuplicateSMBMounts, IInv, ServingInv, Locals, node
<1>4. LockedInv'
  BY DEF CheckForDuplicateSMBMounts, Goto, IInv, TypeOK, LockedInv, Locals, Linked, node
<1>5. MappingIsNeeded'
  BY
  DEF CheckForDuplicateSMBMounts, Goto, IInv, TypeOK, MappingIsNeeded, SomeoneMounts, Mounting, node
<1>6. NeededByOthers'
  <2>1. leaked' \/ pc' = [pc EXCEPT ![p] = "removeMapping"] \/ \E t \in Targets \ {target[p]} : link[t] # None
    BY DEF CheckForDuplicateSMBMounts, Goto, Seen, Linked
  <2> QED
    BY <2>1
    DEF CheckForDuplicateSMBMounts, Goto, IInv, TypeOK, NeededByOthers, SomeoneMounts, Mounting,
       Locals, node
<1>7. StagedHasMapping'
  BY DEF CheckForDuplicateSMBMounts, Goto, IInv, TypeOK, StagedHasMapping, Locals, node
<1> QED
  BY <1>1, <1>2, <1>3, <1>4, <1>5, <1>6, <1>7 DEF IInv

\* No link is seen, so that every link left is one the check cannot see.
LEMMA RemoveSmbGlobalMappingKeeps ==
    ASSUME IInv, NEW p \in Procs, RemoveSmbGlobalMapping(p)
    PROVE  IInv'
<1>0. target[p] \in Targets
  BY AtWork DEF RemoveSmbGlobalMapping, Goto
<1>1. TypeOK'
  <2>1. pc' \in [Procs -> PCs] /\ \A q \in Procs : pc'[q] \in Inside <=> lock = q
    <3>1. pc[p] \in Inside /\ \E to \in Inside : pc' = [pc EXCEPT ![p] = to]
      BY DEF RemoveSmbGlobalMapping, Goto, Inside
    <3> QED
      BY <3>1 DEF IInv, TypeOK, PCs
  <2>2. cut' \subseteq Targets /\ leaked' \in BOOLEAN
    BY DEF RemoveSmbGlobalMapping, Linked, IInv, TypeOK
  <2>3. faults' \in 0..MaxFaults
    BY WindowsAssumption DEF RemoveSmbGlobalMapping, IInv, TypeOK, Fault
  <2>4. mapping' \in {"NotFound", "OK", "Invalid", "Disconnected", "Other"}
    BY DEF RemoveSmbGlobalMapping, Goto, IInv, TypeOK, node
  <2> QED
    BY <2>1, <2>2, <2>3 DEF RemoveSmbGlobalMapping, IInv, TypeOK, Locals
<1>2. LocalsInv'
  BY DEF RemoveSmbGlobalMapping, Goto, IInv, LocalsInv, Locals, Detached, Mounting
<1>3. ServingInv'
  BY DEF RemoveSmbGlobalMapping, IInv, ServingInv, Locals
<1>4. LockedInv'
  BY DEF RemoveSmbGlobalMapping, Goto, IInv, TypeOK, LockedInv, Inside
<1>5. MappingIsNeeded'
  BY DEF RemoveSmbGlobalMapping, MappingIsNeeded
<1>6. NeededByOthers'
  BY DEF RemoveSmbGlobalMapping, NeededByOthers
<1>7. StagedHasMapping'
  <2>1. \A t \in Targets : link[t] # None /\ mapping' = "NotFound" /\ mapping # "NotFound" => t \in cut'
    BY DEF RemoveSmbGlobalMapping, Goto, IInv, LockedInv, Linked
  <2>2. \A q \in Procs : pc[q] = "new" => FALSE
    BY Exclusion DEF RemoveSmbGlobalMapping, Goto, Inside
  <2> QED
    BY <2>1, <2>2, StagedIsLinked DEF RemoveSmbGlobalMapping, IInv, StagedHasMapping, Locals
<1> QED
  BY <1>1, <1>2, <1>3, <1>4, <1>5, <1>6, <1>7 DEF IInv

\* The call is over; the goroutine goes on without it.
LEMMA MountTimesOutKeeps ==
    ASSUME IInv, NEW p \in Procs, MountTimesOut(p)
    PROVE  IInv'
<1>0. target[p] \in Targets
  BY AtWork DEF MountTimesOut, Goto
<1>1. TypeOK'
  BY WindowsAssumption DEF MountTimesOut, IInv, TypeOK, node, hist, Fault
<1>2. LocalsInv'
  BY DEF MountTimesOut, IInv, LocalsInv, Detached, Mounting
<1>3. ServingInv'
  BY DEF MountTimesOut, IInv, ServingInv, node
<1>4. LockedInv'
  BY DEF MountTimesOut, IInv, LockedInv, Linked, node
<1>5. MappingIsNeeded'
  BY DEF MountTimesOut, MappingIsNeeded, SomeoneMounts, Mounting
<1>6. NeededByOthers'
  BY DEF MountTimesOut, NeededByOthers, SomeoneMounts, Mounting
<1>7. StagedHasMapping'
  BY DEF MountTimesOut, IInv, StagedHasMapping, node, hist
<1> QED
  BY <1>1, <1>2, <1>3, <1>4, <1>5, <1>6, <1>7 DEF IInv

\* The end of a goroutine that gives its lock back.
LEMMA EndUnlocks ==
    ASSUME IInv, NEW p \in Procs, pc[p] # "idle", NEW answer, End(p, answer), UnlockKey(p)
    PROVE  lock' \in Procs \cup {None} /\ \A q \in Procs : pc'[q] \in Inside <=> lock' = q
<1>1. \A q \in Procs : pc'[q] = IF q = p THEN "idle" ELSE pc[q]
  BY EndKeeps DEF IInv, TypeOK
<1>2. None \notin Procs /\ "idle" \notin Inside
  BY WindowsAssumption DEF Inside
<1> QED
  BY <1>1, <1>2 DEF UnlockKey, IInv, TypeOK

\* A failed SMBMount: what is mapped now counts as left behind, and what lost its
\* mapping to a failed replacement as cut.
LEMMA MountFailsKeeps ==
    ASSUME IInv, NEW p \in Procs, pc[p] \in {"removeStale", "new", "symlink"}, MountFails(p),
           UNCHANGED <<node, calls>>, faults' \in 0..MaxFaults,
           cut' \in {cut, cut \cup Linked}, pc[p] = "new" /\ mapping = "NotFound" => cut' = cut \cup Linked
    PROVE  IInv'
<1>0. End(p, "err") /\ UnlockKey(p) /\ pc[p] # "idle" /\ pc[p] \in Inside
  BY DEF MountFails, Inside
<1>1. \A q \in Procs : q # p => pc'[q] = pc[q] /\ pc[q] \notin Inside
  BY <1>0, EndKeeps, Exclusion
<1>2. pc'[p] = "idle"
  BY <1>0, EndKeeps DEF IInv, TypeOK
<1>3. TypeOK'
  BY <1>0, EndKeeps, EndUnlocks DEF IInv, TypeOK, MountFails, node, Linked
<1>4. LocalsInv' /\ ServingInv'
  BY <1>0, EndKeeps DEF IInv, ServingInv, node
<1>5. LockedInv' /\ NeededByOthers' /\ MappingIsNeeded'
  BY <1>1, <1>2 DEF LockedInv, MountFails, NeededByOthers, MappingIsNeeded, Inside, node
<1>6. StagedHasMapping'
  <2> SUFFICES ASSUME NEW t \in Targets, staged'[t] = "yes"
               PROVE  link'[t] = RemoteOf[t] /\ (mapping' # "NotFound" \/ t \in cut')
    BY DEF StagedHasMapping
  <2>1. staged[t] = "yes"
    BY <1>0, EndKeeps
  <2>2. link[t] = RemoteOf[t] /\ t \in Linked
    BY <2>1, StagedIsLinked DEF Linked
  <2>3. mapping # "NotFound" \/ t \in cut \/ pc[p] = "new"
    BY <2>1, <1>1 DEF IInv, StagedHasMapping, Inside
  <2> QED
    BY <2>2, <2>3 DEF node
<1> QED
  BY <1>3, <1>4, <1>5, <1>6 DEF IInv

\* The old mapping is gone while the new one is made, by the same goroutine.
LEMMA RemoveStaleMappingKeeps ==
    ASSUME IInv, NEW p \in Procs, RemoveStaleMapping(p)
    PROVE  IInv'
<1>0. pc[p] = "removeStale" /\ pc[p] \in Inside /\ target[p] \in Targets
  BY AtWork DEF RemoveStaleMapping, Inside
<1>1. CASE /\ Goto(p, "removeStale", "new") /\ mapping' = "NotFound"
           /\ UNCHANGED <<link, calls, Locals, lock, hist, faults>>
  <2>1. \A q \in Procs : pc'[q] = IF q = p THEN "new" ELSE pc[q]
    BY <1>1 DEF Goto, IInv, TypeOK
  <2>2. \A q \in Procs : q # p => pc[q] \notin Inside
    BY <1>0, Exclusion
  <2>3. TypeOK'
    BY <1>0, <1>1, <2>1 DEF Goto, IInv, TypeOK, Inside, PCs, Locals, hist
  <2>4. LocalsInv'
    BY <1>0, <1>1, <2>1 DEF IInv, LocalsInv, Locals, Detached, Mounting
  <2>5. ServingInv'
    BY <1>1 DEF IInv, ServingInv, Locals
  <2>6. LockedInv' /\ MappingIsNeeded' /\ NeededByOthers'
    BY <1>1, <2>1, <2>2 DEF LockedInv, MappingIsNeeded, NeededByOthers, Inside
  <2>7. StagedHasMapping'
    BY <1>1, <2>1 DEF IInv, StagedHasMapping, Locals
  <2> QED
    BY <2>3, <2>4, <2>5, <2>6, <2>7 DEF IInv
<1>2. CASE Fault /\ UNCHANGED <<mapping, cut, link, calls>> /\ MountFails(p)
  <2>1. faults' \in 0..MaxFaults
    BY <1>2, WindowsAssumption DEF Fault, IInv, TypeOK
  <2> QED
    BY <1>0, <1>2, <2>1, MountFailsKeeps DEF node
<1> QED
  BY <1>1, <1>2 DEF RemoveStaleMapping

\* A mapping is made before the lock is given back, or everybody is cut.
LEMMA NewSmbGlobalMappingKeeps ==
    ASSUME IInv, NEW p \in Procs, NewSmbGlobalMapping(p)
    PROVE  IInv'
<1>0. pc[p] = "new" /\ pc[p] \in Inside /\ target[p] \in Targets
  BY AtWork DEF NewSmbGlobalMapping, Inside
<1>1. CASE /\ Goto(p, "new", "symlink") /\ mapping' = "OK"
           /\ UNCHANGED <<link, calls, Locals, lock, hist, faults>>
  <2>1. \A q \in Procs : pc'[q] = IF q = p THEN "symlink" ELSE pc[q]
    BY <1>1 DEF Goto, IInv, TypeOK
  <2>2. \A q \in Procs : q # p => pc[q] \notin Inside
    BY <1>0, Exclusion
  <2>3. TypeOK'
    BY <1>0, <1>1, <2>1 DEF Goto, IInv, TypeOK, Inside, PCs, Locals, hist
  <2>4. LocalsInv'
    BY <1>0, <1>1, <2>1 DEF IInv, LocalsInv, Locals, Detached, Mounting
  <2>5. ServingInv'
    BY <1>1 DEF IInv, ServingInv, Locals
  <2>6. LockedInv' /\ MappingIsNeeded' /\ NeededByOthers'
    BY <1>1, <2>1, <2>2
    DEF LockedInv, MappingIsNeeded, NeededByOthers, SomeoneMounts, Mounting, Inside
  <2>7. StagedHasMapping'
    BY <1>1 DEF IInv, StagedHasMapping, Locals
  <2> QED
    BY <2>3, <2>4, <2>5, <2>6, <2>7 DEF IInv
<1>2. CASE /\ faults' = faults \/ Fault
           /\ cut' = IF mapping = "NotFound" THEN cut \cup Linked ELSE cut
           /\ UNCHANGED <<mapping, link, calls>> /\ MountFails(p)
  <2>1. faults' \in 0..MaxFaults
    BY <1>2, WindowsAssumption DEF Fault, IInv, TypeOK
  <2>2. cut' \in {cut, cut \cup Linked} /\ (mapping = "NotFound" => cut' = cut \cup Linked)
    BY <1>2
  <2> QED
    BY <1>0, <1>2, <2>1, <2>2, MountFailsKeeps DEF node
<1> QED
  BY <1>1, <1>2 DEF NewSmbGlobalMapping

\* The link is made while its mapping is there.
LEMMA SymlinkKeeps ==
    ASSUME IInv, NEW p \in Procs, Symlink(p)
    PROVE  IInv'
<1>0. pc[p] = "symlink" /\ pc[p] \in Inside /\ pc[p] # "idle" /\ target[p] \in Targets /\ mapping # "NotFound"
  BY AtWork DEF Symlink, Inside, IInv, LockedInv
<1>r. RemoteOf[target[p]] \in Remotes /\ None \notin Remotes
  BY <1>0, WindowsAssumption DEF Remotes
<1>1. CASE /\ link' = [link EXCEPT ![target[p]] = RemoteOf[target[p]]]
           /\ End(p, "ok") /\ UnlockKey(p)
           /\ UNCHANGED <<mapping, leaked, faults, cut, calls>>
  <2>1. \A q \in Procs : pc'[q] = IF q = p THEN "idle" ELSE pc[q]
    BY <1>0, <1>1, EndKeeps DEF IInv, TypeOK
  <2>2. \A q \in Procs : q # p => pc[q] \notin Inside
    BY <1>0, Exclusion
  <2>3. TypeOK'
    BY <1>0, <1>r, <1>1, EndKeeps, EndUnlocks DEF IInv, TypeOK
  <2>4. \A t \in Targets : link'[t] = IF t = target[p] THEN RemoteOf[t] ELSE link[t]
    BY <1>1 DEF IInv, TypeOK
  <2>5. LocalsInv' /\ ServingInv'
    BY <1>0, <1>1, <2>4, EndKeeps DEF IInv, ServingInv
  <2>6. LockedInv' /\ NeededByOthers'
    BY <2>1, <2>2 DEF LockedInv, NeededByOthers, Inside
  <2>7. MappingIsNeeded'
    BY <1>0, <1>r, <2>4 DEF MappingIsNeeded
  <2>8. StagedHasMapping'
    BY <1>0, <1>1, <2>4, EndKeeps DEF IInv, StagedHasMapping
  <2> QED
    BY <2>3, <2>5, <2>6, <2>7, <2>8 DEF IInv
<1>2. CASE (faults' = faults \/ Fault) /\ UNCHANGED <<mapping, link, cut, calls>> /\ MountFails(p)
  <2>1. faults' \in 0..MaxFaults
    BY <1>2, WindowsAssumption DEF Fault, IInv, TypeOK
  <2> QED
    BY <1>0, <1>2, <2>1, MountFailsKeeps DEF node
<1> QED
  BY <1>1, <1>2 DEF Symlink

\* What is already linked and within reach is staged.
LEMMA EnsureMountPointKeeps ==
    ASSUME IInv, NEW p \in Procs, EnsureMountPoint(p)
    PROVE  IInv'
<1>0. pc[p] = "ensure" /\ pc[p] # "idle" /\ target[p] \in Targets /\ UNCHANGED <<node, lock, hist, calls, faults>>
  BY AtWork DEF EnsureMountPoint
<1>u. UnlockKey(p)
  BY <1>0 DEF UnlockKey, IInv, TypeOK, Inside
<1>1. CASE \E answer \in {"ok", "err"} :
               End(p, answer) /\ (answer = "ok" => link[target[p]] # None /\ mapping = "OK")
  <2> PICK answer \in {"ok", "err"} :
               End(p, answer) /\ (answer = "ok" => link[target[p]] # None /\ mapping = "OK")
    BY <1>1
  <2>1. \A q \in Procs : pc'[q] = IF q = p THEN "idle" ELSE pc[q]
    BY <1>0, EndKeeps DEF IInv, TypeOK
  <2>2. TypeOK'
    BY <1>0, <1>u, EndKeeps, EndUnlocks DEF IInv, TypeOK, node, hist
  <2>3. LocalsInv' /\ ServingInv'
    BY <1>0, EndKeeps DEF IInv, ServingInv, node
  <2>4. LockedInv'
    <3> SUFFICES ASSUME NEW q \in Procs
                 PROVE  /\ pc'[q] = "symlink" => mapping' # "NotFound"
                        /\ pc'[q] = "removeMapping" => (Seen(target[q]) \cap Linked)' = {}
      BY DEF LockedInv
    <3>1. CASE q = p
      BY <2>1, <3>1
    <3>2. CASE q # p
      BY <1>0, <2>1, <3>2, EndKeeps DEF IInv, LockedInv, node, Seen, Linked
    <3> QED
      BY <3>1, <3>2
  <2>5. SomeoneMounts' <=> SomeoneMounts
    BY <1>0, <2>1 DEF SomeoneMounts, Mounting
  <2>6. MappingIsNeeded' /\ NeededByOthers'
    <3>1. MappingIsNeeded'
      BY <1>0, <2>5 DEF IInv, MappingIsNeeded, node, hist
    <3>2. NeededByOthers'
      BY <1>0, <2>1, <2>5, EndKeeps DEF IInv, NeededByOthers, node, hist
    <3> QED
      BY <3>1, <3>2
  <2>7. StagedHasMapping'
    BY <1>0, <2>1, EndKeeps DEF IInv, StagedHasMapping, ServingInv, node, hist
  <2> QED
    BY <2>2, <2>3, <2>4, <2>6, <2>7 DEF IInv
<1>2. CASE /\ \E to \in {"readLink", "prepare"} : Goto(p, "ensure", to)
           /\ UNCHANGED Locals
  <2> PICK to \in {"readLink", "prepare"} : Goto(p, "ensure", to)
    BY <1>2
  <2>1. \A q \in Procs : pc'[q] = IF q = p THEN to ELSE pc[q]
    BY DEF Goto, IInv, TypeOK
  <2>2. TypeOK'
    BY <1>0, <1>2, <2>1 DEF Goto, IInv, TypeOK, Locals, node, hist, PCs, Inside
  <2>3. LocalsInv' /\ ServingInv'
    BY <1>0, <1>2, <2>1 DEF IInv, LocalsInv, ServingInv, Locals, node, Detached, Mounting
  <2>4. LockedInv'
    BY <1>0, <1>2, <2>1 DEF IInv, LockedInv, Locals, node, Seen, Linked
  <2>5. SomeoneMounts => SomeoneMounts'
    BY <1>0, <2>1 DEF SomeoneMounts, Mounting
  <2>6. MappingIsNeeded' /\ NeededByOthers'
    BY <1>0, <1>2, <2>1, <2>5 DEF IInv, MappingIsNeeded, NeededByOthers, node, hist, Locals
  <2>7. StagedHasMapping'
    BY <1>0, <1>2, <2>1 DEF IInv, StagedHasMapping, node, hist, Locals
  <2> QED
    BY <2>2, <2>3, <2>4, <2>6, <2>7 DEF IInv
<1> QED
  BY <1>1, <1>2 DEF EnsureMountPoint

\* Unmount removes its own link only, and no volume is served by it that is staged.
LEMMA RmdirKeeps ==
    ASSUME IInv, NEW p \in Procs, NEW from \in {"rmdirLocked", "rmdir"}, Rmdir(p, from)
    PROVE  IInv'
<1>0. /\ pc[p] = from /\ pc[p] # "idle" /\ pc[p] \notin Mounting /\ target[p] \in Targets
      /\ p \notin late /\ staged[target[p]] = "maybe"
      /\ UnlockKey(p) /\ UNCHANGED <<mapping, cut, calls>>
  BY AtWork DEF Rmdir, Mounting, Detached
<1>1. \A q \in Procs : q # p => ~(from = "rmdirLocked" /\ pc[q] \in Inside)
  BY <1>0, Exclusion DEF Inside
<1>2. lock' \in Procs \cup {None} /\ (lock' = lock \/ from = "rmdirLocked")
  BY <1>0 DEF UnlockKey, IInv, TypeOK, Inside
<1>3. CASE /\ link' = [link EXCEPT ![target[p]] = None]
           /\ leaked' = (leaked \/ (from = "rmdir" /\ link[target[p]] # None))
           /\ faults' = faults
  <2>1. \A t \in Targets : link'[t] = IF t = target[p] THEN None ELSE link[t]
    BY <1>3 DEF IInv, TypeOK
  <2>2. link' \in [Targets -> Remotes \cup {None}] /\ leaked' \in BOOLEAN
    BY <1>3 DEF IInv, TypeOK
  <2>3. \/ op[p] = "stage" /\ Goto(p, from, "prepare") /\ UNCHANGED Locals
        \/ op[p] # "stage" /\ End(p, "ok")
    <3>1. faults' # faults + 1
      BY <1>3 DEF IInv, TypeOK
    <3> QED
      BY <3>1 DEF Rmdir, Fault
  <2>4. /\ \A q \in Procs : q # p => pc'[q] = pc[q] /\ target'[q] = target[q]
        /\ pc'[p] \in {"idle", "prepare"}
        /\ \A t \in Targets : staged'[t] = "yes" => staged[t] = "yes"
    BY <1>0, <2>3, EndKeeps DEF Goto, Locals, IInv, TypeOK
  <2>5. TypeOK'
    <3>1. CASE End(p, "ok")
      BY <1>0, <1>3, <2>2, <3>1, EndKeeps, EndUnlocks DEF IInv, TypeOK
    <3>2. CASE Goto(p, from, "prepare") /\ UNCHANGED Locals
      <4>1. pc' \in [Procs -> PCs] /\ \A q \in Procs : pc'[q] = IF q = p THEN "prepare" ELSE pc[q]
        BY <3>2 DEF Goto, IInv, TypeOK, PCs
      <4>2. \A q \in Procs : pc'[q] \in Inside <=> lock' = q
        BY <1>0, <4>1, WindowsAssumption DEF UnlockKey, IInv, TypeOK, Inside
      <4> QED
        BY <1>0, <1>2, <1>3, <2>2, <3>2, <4>1, <4>2 DEF IInv, TypeOK, Locals
    <3> QED
      BY <2>3, <3>1, <3>2
  <2>6. LocalsInv' /\ ServingInv'
    <3>1. CASE End(p, "ok")
      BY <1>0, <2>1, <3>1, EndKeeps DEF IInv, ServingInv
    <3>2. CASE Goto(p, from, "prepare") /\ UNCHANGED Locals
      <4>1. \A q \in Procs : pc'[q] = IF q = p THEN "prepare" ELSE pc[q]
        BY <3>2 DEF Goto, IInv, TypeOK
      <4> QED
        BY <1>0, <2>1, <3>2, <4>1 DEF IInv, LocalsInv, ServingInv, Locals
    <3> QED
      BY <2>3, <3>1, <3>2
  <2>7. LockedInv'
    BY <1>0, <2>1, <2>4 DEF IInv, LockedInv, Seen, Linked
  <2>8. SomeoneMounts => SomeoneMounts'
    BY <1>0, <2>4 DEF SomeoneMounts
  <2>9. MappingIsNeeded'
    BY <1>0, <1>3, <2>1, <2>8 DEF IInv, MappingIsNeeded, NeededByOthers
  <2>10. NeededByOthers'
    <3> SUFFICES ASSUME NEW q \in Procs, pc'[q] = "rmdirLocked"
                 PROVE  leaked' \/ mapping' = "NotFound" \/ SomeoneMounts'
                            \/ \E t \in Targets \ {target'[q]} : link'[t] # None
      BY DEF NeededByOthers
    <3>1. q # p /\ pc[q] = "rmdirLocked" /\ target'[q] = target[q] /\ from = "rmdir"
      BY <1>1, <2>4 DEF Inside
    <3>2. leaked' \/ \A t \in Targets : link'[t] = link[t]
      BY <1>3, <2>1, <3>1
    <3> QED
      BY <1>0, <1>3, <2>8, <3>1, <3>2 DEF IInv, NeededByOthers
  <2>11. StagedHasMapping'
    BY <1>0, <2>1, <2>4 DEF IInv, StagedHasMapping
  <2> QED
    BY <2>5, <2>6, <2>7, <2>9, <2>10, <2>11 DEF IInv
<1>4. CASE Fault /\ End(p, "err") /\ UNCHANGED <<link, leaked>>
  <2>1. \A q \in Procs : pc'[q] = IF q = p THEN "idle" ELSE pc[q]
    BY <1>0, <1>4, EndKeeps DEF IInv, TypeOK
  <2>2. TypeOK'
    BY <1>0, <1>4, EndKeeps, EndUnlocks, WindowsAssumption DEF IInv, TypeOK, Fault
  <2>3. LocalsInv' /\ ServingInv'
    BY <1>0, <1>4, EndKeeps DEF IInv, ServingInv
  <2>4. LockedInv'
    BY <1>0, <1>4, <2>1, EndKeeps DEF IInv, LockedInv, Seen, Linked
  <2>5. SomeoneMounts => SomeoneMounts'
    BY <1>0, <2>1 DEF SomeoneMounts, Mounting
  <2>6. MappingIsNeeded'
    BY <1>0, <1>4, <2>5 DEF IInv, MappingIsNeeded
  <2>7. NeededByOthers'
    BY <1>0, <1>4, <2>1, <2>5, EndKeeps DEF IInv, NeededByOthers
  <2>8. StagedHasMapping'
    BY <1>0, <1>4, <2>1, EndKeeps DEF IInv, StagedHasMapping
  <2> QED
    BY <2>2, <2>3, <2>4, <2>6, <2>7, <2>8 DEF IInv
<1> QED
  BY <1>3, <1>4 DEF Rmdir

\* A call starts where nobody waits: the target is not staged from then on.
LEMMA CallKeeps ==
    ASSUME IInv, NEW p \in Procs, NEW t \in Targets, NEW o \in {"stage", "unstage"},
           NEW first \in {"ensure", "rmdir", "readLink"}, Call(p, o, t, first)
    PROVE  IInv'
<1>0. /\ pc[p] = "idle" /\ target[p] = None /\ p \notin late /\ ~Serving(t)
      /\ UNCHANGED <<node, lock, late, leaked, faults>>
  BY DEF Call, Goto, IInv, LocalsInv, Detached, Mounting
<1>1. /\ \A q \in Procs : /\ pc'[q] = IF q = p THEN first ELSE pc[q]
                          /\ target'[q] = IF q = p THEN t ELSE target[q]
      /\ \A u \in Targets : staged'[u] = IF u = t THEN "maybe" ELSE staged[u]
  BY DEF Call, Goto, IInv, TypeOK
<1>2. TypeOK'
  <2>1. pc' \in [Procs -> PCs] /\ \A q \in Procs : pc'[q] \in Inside <=> lock' = q
    BY <1>0, <1>1 DEF Call, Goto, IInv, TypeOK, PCs, Inside
  <2>2. calls' \in 0..MaxCalls
    BY WindowsAssumption DEF Call, IInv, TypeOK
  <2> QED
    BY <1>0, <2>1, <2>2 DEF Call, IInv, TypeOK, node
<1>3. LocalsInv'
  BY <1>0, <1>1, WindowsAssumption DEF IInv, LocalsInv
<1>4. ServingInv'
  <2>1. \A q \in Procs \ late : q # p => target[q] # t
    BY <1>0, WindowsAssumption DEF IInv, LocalsInv, Serving
  <2>2. \A q, r \in Procs \ late' : target'[q] # None /\ target'[q] = target'[r] => q = r
    BY <1>0, <1>1, <2>1 DEF IInv, ServingInv
  <2>3. \A q \in Procs \ late' : target'[q] # None => staged'[target'[q]] = "maybe"
    BY <1>0, <1>1, <2>1 DEF IInv, TypeOK, ServingInv
  <2> QED
    BY <1>0, <2>2, <2>3 DEF IInv, ServingInv, node
<1>5. LockedInv'
  BY <1>0, <1>1 DEF IInv, LockedInv, Seen, Linked, node
<1>6. SomeoneMounts => SomeoneMounts'
  BY <1>0, <1>1 DEF SomeoneMounts, Mounting
<1>7. MappingIsNeeded' /\ NeededByOthers'
  BY <1>0, <1>1, <1>6 DEF IInv, MappingIsNeeded, NeededByOthers, node
<1>8. StagedHasMapping'
  BY <1>0, <1>1 DEF IInv, StagedHasMapping, node, Call
<1> QED
  BY <1>2, <1>3, <1>4, <1>5, <1>7, <1>8 DEF IInv

\* Whatever becomes of a mapping, it is there.
LEMMA MappingChangesKeeps ==
    ASSUME IInv, MappingChanges
    PROVE  IInv'
<1>1. mapping # "NotFound" /\ mapping' # "NotFound" /\ UNCHANGED <<link, lock, pc, op, target, late, staged, hist, calls>>
  BY DEF MappingChanges
<1>2. TypeOK'
  BY <1>1, WindowsAssumption DEF MappingChanges, Fault, IInv, TypeOK, hist
<1>3. LocalsInv' /\ ServingInv' /\ LockedInv'
  BY <1>1 DEF IInv, LocalsInv, ServingInv, LockedInv, Linked, Seen
<1>4. MappingIsNeeded' /\ NeededByOthers' /\ StagedHasMapping'
  BY <1>1 DEF IInv, MappingIsNeeded, NeededByOthers, SomeoneMounts, StagedHasMapping, hist
<1> QED
  BY <1>2, <1>3, <1>4 DEF IInv

\* A restart counts as a mapping left behind when it stops anybody.
LEMMA RestartKeeps ==
    ASSUME IInv, Restart
    PROVE  IInv'
<1>1. \A q \in Procs : pc'[q] = "idle" /\ target'[q] = None
  BY DEF Restart
<1>2. TypeOK'
  <2>1. pc' \in [Procs -> PCs] /\ \A q \in Procs : pc'[q] \in Inside <=> lock' = q
    BY <1>1, WindowsAssumption DEF Restart, PCs, Inside
  <2>2. faults' \in 0..MaxFaults
    BY WindowsAssumption DEF Restart, Fault, IInv, TypeOK
  <2> QED
    BY <2>1, <2>2 DEF Restart, IInv, TypeOK, node, Linked
<1>3. LocalsInv' /\ ServingInv' /\ LockedInv' /\ NeededByOthers'
  BY <1>1 DEF Restart, IInv, LocalsInv, ServingInv, LockedInv, NeededByOthers, node
<1>4. MappingIsNeeded'
  BY DEF Restart, IInv, MappingIsNeeded, SomeoneMounts, Mounting, node
<1>5. StagedHasMapping'
  <2> SUFFICES ASSUME NEW t \in Targets, staged'[t] = "yes"
               PROVE  link'[t] = RemoteOf[t] /\ (mapping' # "NotFound" \/ t \in cut')
    BY DEF StagedHasMapping
  <2> QED
    BY StagedIsLinked DEF Restart, IInv, StagedHasMapping, node, Linked
<1> QED
  BY <1>2, <1>3, <1>4, <1>5 DEF IInv

\* Nothing changes when nothing happens.
LEMMA StutterKeeps ==
    ASSUME IInv, UNCHANGED vars
    PROVE  IInv'
<1>1. TypeOK' /\ LocalsInv' /\ ServingInv'
  BY DEF IInv, TypeOK, LocalsInv, ServingInv, vars, node, hist
<1>2. LockedInv' /\ MappingIsNeeded' /\ NeededByOthers' /\ StagedHasMapping'
  BY
  DEF IInv, LockedInv, Seen, Linked, MappingIsNeeded, NeededByOthers, SomeoneMounts,
     StagedHasMapping, vars, node, hist
<1> QED
  BY <1>1, <1>2 DEF IInv

\* Each action of Next keeps the invariant.
LEMMA StepInv == IInv /\ [Next]_vars => IInv'
<1> SUFFICES ASSUME IInv, [Next]_vars PROVE IInv'
  OBVIOUS
<1>1. ASSUME NEW p \in Procs, Step(p) PROVE IInv'
  <2>1. ASSUME RmdirLocked(p) \/ RmdirAlone(p) PROVE IInv'
    BY <2>1, RmdirKeeps DEF RmdirLocked, RmdirAlone
  <2> QED
    BY <1>1, <2>1, EnsureMountPointKeeps, PrepareStagePathKeeps, LockForMountKeeps,
       GetSmbGlobalMappingStatusKeeps, RemoveStaleMappingKeeps, NewSmbGlobalMappingKeeps,
       SymlinkKeeps, GetRemoteServerFromTargetKeeps, LockForUnmountKeeps,
       CheckForDuplicateSMBMountsKeeps, RemoveSmbGlobalMappingKeeps DEF Step
<1>2. ASSUME NEW p \in Procs, NEW t \in Targets, CallStage(p, t) \/ CallUnstage(p, t) PROVE IInv'
  BY <1>2, CallKeeps DEF CallStage, CallUnstage
<1>3. ASSUME UNCHANGED vars PROVE IInv'
  BY <1>3, StutterKeeps
<1> QED
  BY <1>1, <1>2, <1>3, MountTimesOutKeeps, MappingChangesKeeps, RestartKeeps DEF Next, Done

\* The state of the node and of the goroutines, as the operations of pkg/mounter
\* leave it whatever their order.
THEOREM Invariance == Spec => []IInv
<1>1. Init => IInv
  BY InitInv
<1>2. IInv /\ [Next]_vars => IInv'
  BY StepInv
<1> QED
  BY <1>1, <1>2, PTL DEF Spec

\* The variables have their types, and remotePathLocks excludes.
THEOREM TypeCorrect == Spec => []TypeOK
<1>1. IInv => TypeOK
  BY DEF IInv
<1> QED
  BY <1>1, Invariance, PTL

\* A staged volume is linked and its share mapped, but for the cases that
\* CheckForDuplicateSMBMounts and a failed replacement leave.
THEOREM StagedKeepsItsMapping == Spec => []StagedHasMapping
<1>1. IInv => StagedHasMapping
  BY DEF IInv
<1> QED
  BY <1>1, Invariance, PTL

\* No mapping outlives the links of its share, but for what failed.
THEOREM NoMappingIsLeft == Spec => []NoMappingLeak
<1>1. IInv => NoMappingLeak
  BY DEF IInv, MappingIsNeeded, SomeoneMounts, Mounting, NoMappingLeak, Linked
<1> QED
  BY <1>1, Invariance, PTL
=============================================================================
