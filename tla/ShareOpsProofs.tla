--------------------------- MODULE ShareOpsProofs ---------------------------
(***************************************************************************)
(* Proofs about ShareOps, for any number of goroutines, any sizes, IOPS    *)
(* and names, and any value of the bounds.                                 *)
(*                                                                         *)
(* The invariant is proved in layers: types and locals, then the IDs of    *)
(* snapshots, then the calls of the COs, which keep two searches for one   *)
(* name apart, then the share, and last the sizes that are answered.       *)
(***************************************************************************)
EXTENDS ShareOps, FiniteSetTheorems, TLAPS

-----------------------------------------------------------------------------
\* A new snapshot gets an ID that none ever had.
LEMMA NextIdIsNew ==
    ASSUME IdInv
    PROVE  /\ NextId \in Nat \ {0}
           /\ NextId \notin AllIds
           /\ Cardinality(AllIds) \in Nat
           /\ AllIds \cup {NextId} = 1..NextId
<1>1. Cardinality(AllIds) \in Nat /\ AllIds = 1..Cardinality(AllIds)
  BY FS_CardinalityType DEF IdInv, IdsAreCounted
<1> QED
  BY <1>1 DEF NextId

\* What the RPCs answer.
LEMMA AnswerTypes ==
    /\ Failed \in Answer /\ Done \in Answer /\ ~Failed.ok
    /\ Done.ok
    /\ \A i \in Ids, s \in Sizes \cup {0} : [id |-> i, size |-> s, ok |-> TRUE] \in Answer
BY DEF Failed, Done, Answer

\* What the history can record of an RPC.
LEMMA FlawTypes ==
    /\ <<"overwrote", None>> \in Flaws /\ <<"lateUpdate", None>> \in Flaws
    /\ <<"stale", None>> \in Flaws
    /\ \A n \in Names : <<"unread", n>> \in Flaws /\ <<"late", n>> \in Flaws
BY DEF Flaws

\* The management API gets a whole share, for the RPC has read one.
LEMMA WrittenType ==
    ASSUME TypeOK, LocalsInv, NEW p \in Procs, pc[p] = "update"
    PROVE  /\ Written(p) \in [quota : Sizes, iops : Iops]
           /\ op[p] = "expand" => Written(p).quota = arg[p]
           /\ op[p] = "modify" => Written(p).iops = arg[p]
BY DEF TypeOK, LocalsInv, Written

\* What the RPC of a search answers.
LEMMA FoundType ==
    ASSUME TypeOK, NEW s \in snaps
    PROVE  /\ s.id \in Ids /\ s.name \in Names /\ s.quota \in Sizes
           /\ [id |-> s.id, size |-> s.quota, ok |-> TRUE] \in Answer
           /\ [id |-> s.id, size |-> 0, ok |-> TRUE] \in Answer
BY AnswerTypes DEF TypeOK

\* The ID of the snapshot an RPC has just taken.
LEMMA TakenType ==
    ASSUME TypeOK, LocalsInv, NEW p \in Procs, pc[p] \in TakenSteps
    PROVE  /\ Taken(p) \in todo[p] /\ Taken(p) \in Ids
           /\ \A s \in Sizes \cup {0} : [id |-> Taken(p), size |-> s, ok |-> TRUE] \in Answer
<1>1. todo[p] # {} /\ todo[p] \subseteq Ids
  BY DEF LocalsInv, TypeOK
<1>2. Taken(p) \in todo[p]
  BY <1>1 DEF Taken
<1> QED
  BY <1>1, <1>2, AnswerTypes

\* Every step keeps the types. It is not inductive alone: what a step writes to
\* the share depends on its RPC, a new snapshot on the IDs there are.
LEMMA TypeStep == TypeOK /\ LocalsInv /\ IdInv /\ [Next]_vars => TypeOK'
<1> USE ShareOpsAssumption, AnswerTypes, FlawTypes
    DEF TypeOK, Ops, PCs, azure, caches, rpc, co, bounds, Goto, Return, Error,
        RequestFails, RequestSucceeds
<1> SUFFICES ASSUME TypeOK, LocalsInv, IdInv, [Next]_vars PROVE TypeOK'
  OBVIOUS
<1>1. ASSUME NEW p \in Procs, CallExpand(p) PROVE TypeOK'
  BY <1>1 DEF CallExpand, Call
<1>2. ASSUME NEW p \in Procs, CallModify(p) PROVE TypeOK'
  BY <1>2 DEF CallModify, Call
<1>3. ASSUME NEW p \in Procs, CallSnapshot(p) PROVE TypeOK'
  BY <1>3 DEF CallSnapshot, Call
<1>4. ASSUME NEW p \in Procs, CallDeleteSnapshot(p) PROVE TypeOK'
  BY <1>4 DEF CallDeleteSnapshot, Call
<1>5. ASSUME NEW p \in Procs, ReadResizeFailureCache(p) PROVE TypeOK'
  BY <1>5 DEF ReadResizeFailureCache
<1>6. ASSUME NEW p \in Procs, UseDataPlaneAPI(p) PROVE TypeOK'
  BY <1>6 DEF UseDataPlaneAPI
<1>7. ASSUME NEW p \in Procs, GetFileShare(p) PROVE TypeOK'
  BY <1>7 DEF GetFileShare
<1>8. ASSUME NEW p \in Procs, UpdateFileShare(p) PROVE TypeOK'
  <2>1. pc[p] = "update" /\ op[p] \in {"expand", "modify"}
    BY <1>8 DEF UpdateFileShare, LocalsInv
  <2>2. Land(p) => share' \in [quota : Sizes, iops : Iops] /\ flaws' \subseteq Flaws
    BY <2>1, WrittenType DEF Land
  <2>3. share' \in [quota : Sizes, iops : Iops] /\ flaws' \subseteq Flaws
    BY <1>8, <2>2 DEF UpdateFileShare
  <2>4. pc' \in [Procs -> PCs]
    BY <1>8 DEF UpdateFileShare, UpdateFails
  <2>5. reply' \in [Procs -> Answer]
    BY <1>8 DEF UpdateFileShare, UpdateFails
  <2>6. resizeFailure' \in BOOLEAN
    BY <1>8 DEF UpdateFileShare, UpdateFails
  <2>7. faults' \in 0..MaxFaults
    BY <1>8 DEF UpdateFileShare, UpdateFails
  <2> QED
    BY <1>8, <2>3, <2>4, <2>5, <2>6, <2>7 DEF UpdateFileShare
<1>9. ASSUME NEW p \in Procs, ListSnapshots(p) PROVE TypeOK'
  <2>1. pc' \in [Procs -> PCs] /\ faults' \in 0..MaxFaults
    BY <1>9 DEF ListSnapshots, Found
  <2>2. reply' \in [Procs -> Answer]
    BY <1>9, FoundType DEF ListSnapshots, Found, Named
  <2>3. todo' \in [Procs -> SUBSET Ids]
    BY <1>9, FoundType DEF ListSnapshots
  <2> QED
    BY <1>9, <2>1, <2>2, <2>3 DEF ListSnapshots
<1>10. ASSUME NEW p \in Procs, GetSnapshot(p) PROVE TypeOK'
  <2>1. pc' \in [Procs -> PCs] /\ faults' \in 0..MaxFaults
    BY <1>10 DEF GetSnapshot, Found
  <2>2. reply' \in [Procs -> Answer]
    BY <1>10, FoundType DEF GetSnapshot, Found
  <2>3. todo' \in [Procs -> SUBSET Ids]
    BY <1>10 DEF GetSnapshot
  <2>4. pc[p] = "getSnapshot" => arg[p] \in Names
    BY DEF LocalsInv, SnapshotSteps
  <2>5. flaws' \subseteq Flaws
    <3>1. pc[p] = "getSnapshot" => <<"unread", arg[p]>> \in Flaws
      BY <2>4, FlawTypes
    <3>2. flaws' \subseteq flaws \cup {<<"unread", arg[p]>>} /\ pc[p] = "getSnapshot"
      BY <1>10 DEF GetSnapshot
    <3> QED
      BY <3>1, <3>2
  <2> QED
    BY <1>10, <2>1, <2>2, <2>3, <2>5 DEF GetSnapshot
<1>11. ASSUME NEW p \in Procs, CreateShareSnapshot(p) PROVE TypeOK'
  <2>1. arg[p] \in Names /\ NextId \in Ids
    BY <1>11, NextIdIsNew DEF CreateShareSnapshot, LocalsInv, SnapshotSteps, Ids
  <2>2. TakeSnapshot(p) => snaps' \subseteq [id : Ids, name : Names, quota : Sizes] /\ flaws' \subseteq Flaws
    <3>1. [id |-> NextId, name |-> arg[p], quota |-> share.quota]
            \in [id : Ids, name : Names, quota : Sizes]
      BY <2>1
    <3>2. <<"late", arg[p]>> \in Flaws
      BY <2>1, FlawTypes
    <3> QED
      BY <3>1, <3>2 DEF TakeSnapshot
  <2>3. snaps' \subseteq [id : Ids, name : Names, quota : Sizes] /\ flaws' \subseteq Flaws
    BY <1>11, <2>2 DEF CreateShareSnapshot
  <2>4. pc' \in [Procs -> PCs] /\ faults' \in 0..MaxFaults
    BY <1>11 DEF CreateShareSnapshot
  <2>5. reply' \in [Procs -> Answer]
    BY <1>11, <2>1 DEF CreateShareSnapshot
  <2>6. todo' \in [Procs -> SUBSET Ids] /\ seen' \in [Procs -> [quota : Sizes, iops : Iops] \cup {None}]
    BY <1>11, <2>1 DEF CreateShareSnapshot
  <2> QED
    BY <1>11, <2>3, <2>4, <2>5, <2>6 DEF CreateShareSnapshot
<1>12. ASSUME NEW p \in Procs, GetProperties(p) PROVE TypeOK'
  <2>1. pc[p] \in TakenSteps
    BY <1>12 DEF GetProperties, AnswerSize, TakenSteps
  <2>2. reply' \in [Procs -> Answer]
    BY <1>12, <2>1, TakenType DEF GetProperties, AnswerSize
  <2> QED
    BY <1>12, <2>2 DEF GetProperties, AnswerSize
<1>13. ASSUME NEW p \in Procs, ReadSizeCache(p) PROVE TypeOK'
  <2>1. pc[p] \in TakenSteps
    BY <1>13 DEF ReadSizeCache, AnswerSize, TakenSteps
  <2>2. reply' \in [Procs -> Answer]
    BY <1>13, <2>1, TakenType DEF ReadSizeCache, AnswerSize
  <2>3. pc' \in [Procs -> PCs] /\ flaws' \subseteq Flaws
    BY <1>13 DEF ReadSizeCache, AnswerSize
  <2> QED
    BY <1>13, <2>2, <2>3 DEF ReadSizeCache
<1>14. ASSUME NEW p \in Procs, GetQuota(p) PROVE TypeOK'
  <2>1. pc[p] \in TakenSteps
    BY <1>14 DEF GetQuota, AnswerSize, TakenSteps
  <2>2. reply' \in [Procs -> Answer]
    BY <1>14, <2>1, TakenType DEF GetQuota, AnswerSize
  <2> QED
    BY <1>14, <2>2 DEF GetQuota, AnswerSize
<1>15. ASSUME NEW p \in Procs, DeleteSnapshot(p) PROVE TypeOK'
  BY <1>15 DEF DeleteSnapshot
<1>16. ASSUME NEW p \in Procs, Reply(p) PROVE TypeOK'
  <2>1. capacity' \in Sizes /\ iopsMay' \subseteq Iops
    BY <1>16 DEF Reply, Succeeded
  <2>2. op[p] = "snapshot" /\ reply[p].ok => reply[p].id \in Ids
    BY DEF IdInv, IdsAreKnown, AllIds, AnsweredIds
  <2>3. op[p] = "snapshot" => arg[p] \in Names /\ reply[p].size \in Sizes \cup {0}
    BY DEF Answer
  <2>4. answers' \subseteq [id : Ids, name : Names, size : Sizes \cup {0}]
    BY <1>16, <2>2, <2>3 DEF Reply, Succeeded
  <2> QED
    BY <1>16, <2>1, <2>4 DEF Reply
<1>17. ASSUME NEW p \in Procs, GiveUp(p) PROVE TypeOK'
  BY <1>17 DEF GiveUp
<1>18. CASE CacheExpires
  BY <1>18 DEF CacheExpires
<1>19. CASE Crash
  <2>1. reply' \in [Procs -> Answer] /\ seen' \in [Procs -> [quota : Sizes, iops : Iops] \cup {None}]
    BY <1>19 DEF Crash
  <2>2. /\ pc' \in [Procs -> PCs] /\ op' \in [Procs -> Ops \cup {"none"}]
        /\ arg' \in [Procs -> Sizes \cup Iops \cup Names \cup Ids \cup {None}]
        /\ \A p \in Procs : op'[p] = "none"
        /\ api' \in [Procs -> {"mgmt", "data", None}] /\ todo' \in [Procs -> SUBSET Ids]
    BY <1>19 DEF Crash
  <2>3. cancelled' \subseteq Procs /\ resizeFailure' \in BOOLEAN /\ sizeCache' \in Sizes \cup {0}
        /\ dataPlaneAPIVolMap' \in {"mgmt", "data"}
    BY <1>19 DEF Crash
  <2>4. crashes' \in 0..MaxCrashes
    BY <1>19 DEF Crash
  <2>5. UNCHANGED <<share, snaps, capacity, iopsMay, answers, deleted, flaws, calls, faults>>
    BY <1>19 DEF Crash
  <2> QED
    BY <2>1, <2>2, <2>3, <2>4, <2>5
<1>20. CASE UNCHANGED vars
  BY <1>20 DEF vars
<1> QED
  BY <1>1, <1>2, <1>3, <1>4, <1>5, <1>6, <1>7, <1>8, <1>9, <1>10, <1>11,
     <1>12, <1>13, <1>14, <1>15, <1>16, <1>17, <1>18, <1>19, <1>20
  DEF Next, Step

\* Where an RPC is tells what it is and what it has read.
LEMMA LocalsStep == TypeOK /\ LocalsInv /\ [Next]_vars => LocalsInv'
<1> USE ShareOpsAssumption, AnswerTypes
    DEF LocalsInv, SnapshotSteps, TakenSteps, azure, caches, rpc, co, bounds,
        Goto, Return, Error
<1> SUFFICES ASSUME TypeOK, LocalsInv, [Next]_vars PROVE LocalsInv'
  OBVIOUS
<1> USE DEF TypeOK
<1>1. ASSUME NEW p \in Procs, CallExpand(p) PROVE LocalsInv'
  BY <1>1 DEF CallExpand, Call
<1>2. ASSUME NEW p \in Procs, CallModify(p) PROVE LocalsInv'
  BY <1>2 DEF CallModify, Call
<1>3. ASSUME NEW p \in Procs, CallSnapshot(p) PROVE LocalsInv'
  BY <1>3 DEF CallSnapshot, Call
<1>4. ASSUME NEW p \in Procs, CallDeleteSnapshot(p) PROVE LocalsInv'
  BY <1>4 DEF CallDeleteSnapshot, Call
<1>5. ASSUME NEW p \in Procs, ReadResizeFailureCache(p) PROVE LocalsInv'
  BY <1>5 DEF ReadResizeFailureCache
<1>6. ASSUME NEW p \in Procs, UseDataPlaneAPI(p) PROVE LocalsInv'
  <2>1. pc[p] = "start" /\ op[p] \in {"expand", "modify", "snapshot"}
    BY <1>6 DEF UseDataPlaneAPI, Ops
  <2>2. pc'[p] \in {"list", "update", "get"}
        /\ (pc'[p] = "list" <=> op[p] = "snapshot")
        /\ (pc'[p] = "update" => op[p] = "modify" /\ api'[p] = "data")
    BY <1>6, <2>1 DEF UseDataPlaneAPI
  <2> QED
    BY <1>6, <2>1, <2>2 DEF UseDataPlaneAPI
<1>7. ASSUME NEW p \in Procs, GetFileShare(p) PROVE LocalsInv'
  <2>1. pc[p] = "get" /\ op[p] \in {"expand", "modify"} /\ ~reply[p].ok
    BY <1>7 DEF GetFileShare
  <2>2. share # None /\ share.quota \in Nat /\ (op[p] = "expand" => arg[p] \in Nat)
    OBVIOUS
  <2>3. \/ pc'[p] = "update" /\ seen'[p] = share /\ (op[p] = "expand" => share.quota < arg[p])
           /\ UNCHANGED reply
        \/ pc'[p] = "return"
        \/ UNCHANGED <<pc, seen, reply>>
    BY <1>7, <2>2 DEF GetFileShare
  <2>4. \A q \in Procs \ {p} : pc'[q] = pc[q] /\ seen'[q] = seen[q] /\ reply'[q] = reply[q]
    BY <1>7 DEF GetFileShare
  <2>5. UNCHANGED <<op, arg, api, todo>>
    BY <1>7 DEF GetFileShare
  <2> QED
    BY <2>1, <2>2, <2>3, <2>4, <2>5
<1>8. ASSUME NEW p \in Procs, UpdateFileShare(p) PROVE LocalsInv'
  BY <1>8 DEF UpdateFileShare, UpdateFails
<1>9. ASSUME NEW p \in Procs, ListSnapshots(p) PROVE LocalsInv'
  BY <1>9 DEF ListSnapshots, Found
<1>10. ASSUME NEW p \in Procs, GetSnapshot(p) PROVE LocalsInv'
  BY <1>10 DEF GetSnapshot, Found
<1>11. ASSUME NEW p \in Procs, CreateShareSnapshot(p) PROVE LocalsInv'
  <2>1. pc[p] = "create" /\ op[p] = "snapshot" /\ ~reply[p].ok
    BY <1>11 DEF CreateShareSnapshot
  <2>2. \/ pc'[p] \in TakenSteps /\ seen'[p] = share /\ todo'[p] = {NextId} /\ UNCHANGED reply
        \/ pc'[p] = "return"
    BY <1>11 DEF CreateShareSnapshot
  <2>3. share # None
    OBVIOUS
  <2>4. \A q \in Procs \ {p} : pc'[q] = pc[q] /\ seen'[q] = seen[q] /\ todo'[q] = todo[q] /\ reply'[q] = reply[q]
    BY <1>11 DEF CreateShareSnapshot
  <2>5. UNCHANGED <<op, arg, api>>
    BY <1>11 DEF CreateShareSnapshot
  <2>6. pc'[p] # "idle" /\ op[p] # "none"
    BY <2>1, <2>2
  <2>7. \A q \in Procs \ {p} : LocalsInv!(q)'
    BY <2>4, <2>5
  <2>8. LocalsInv!(p)'
    BY <2>1, <2>2, <2>3, <2>5, <2>6
  <2> QED
    BY <2>7, <2>8
<1>12. ASSUME NEW p \in Procs, GetProperties(p) PROVE LocalsInv'
  BY <1>12 DEF GetProperties, AnswerSize
<1>13. ASSUME NEW p \in Procs, ReadSizeCache(p) PROVE LocalsInv'
  BY <1>13 DEF ReadSizeCache, AnswerSize
<1>14. ASSUME NEW p \in Procs, GetQuota(p) PROVE LocalsInv'
  BY <1>14 DEF GetQuota, AnswerSize
<1>15. ASSUME NEW p \in Procs, DeleteSnapshot(p) PROVE LocalsInv'
  BY <1>15 DEF DeleteSnapshot
<1>16. ASSUME NEW p \in Procs, Reply(p) PROVE LocalsInv'
  BY <1>16 DEF Reply
<1>17. ASSUME NEW p \in Procs, GiveUp(p) PROVE LocalsInv'
  BY <1>17 DEF GiveUp
<1>18. CASE CacheExpires
  BY <1>18 DEF CacheExpires
<1>19. CASE Crash
  BY <1>19 DEF Crash
<1>20. CASE UNCHANGED vars
  BY <1>20 DEF vars
<1> QED
  BY <1>1, <1>2, <1>3, <1>4, <1>5, <1>6, <1>7, <1>8, <1>9, <1>10, <1>11,
     <1>12, <1>13, <1>14, <1>15, <1>16, <1>17, <1>18, <1>19, <1>20
  DEF Next, Step

\* The IDs: a new snapshot takes the next one, one that is deleted was answered,
\* so no ID is given twice and the driver never holds one that nobody had.
LEMMA IdStep == TypeOK /\ LocalsInv /\ IdInv /\ [Next]_vars => IdInv'
<1> SUFFICES ASSUME TypeOK, LocalsInv, IdInv, [Next]_vars PROVE IdInv'
  OBVIOUS
<1> USE ShareOpsAssumption
    DEF azure, caches, rpc, co, bounds, Goto, Return
<1>a. Done.ok /\ ~Failed.ok
  BY DEF Done, Failed
<1>b. ASSUME UNCHANGED <<snaps, answers>>, IdsAreKnown' PROVE IdInv'
  <2>1. AllIds' = AllIds /\ snaps' = snaps
    BY <1>b DEF AllIds, AnsweredIds
  <2>2. IdsAreCounted'
    BY <2>1 DEF IdInv, IdsAreCounted
  <2>3. IdsAreUnique'
    BY <2>1 DEF IdInv, IdsAreUnique
  <2> QED
    BY <1>b, <2>2, <2>3 DEF IdInv
<1> USE DEF TypeOK
<1>1. ASSUME NEW p \in Procs, CallExpand(p) PROVE IdInv'
  <2>1. UNCHANGED <<snaps, answers>>
    BY <1>1 DEF CallExpand, Call
  <2>2. AllIds' = AllIds /\ AnsweredIds' = AnsweredIds
    BY <2>1 DEF AllIds, AnsweredIds
  <2>3. IdsAreKnown'
    BY <1>1, <1>a, <2>2 DEF CallExpand, Call, IdInv, IdsAreKnown, LocalsInv, AnsweredIds
  <2> QED
    BY <1>b, <2>1, <2>3
<1>2. ASSUME NEW p \in Procs, CallModify(p) PROVE IdInv'
  <2>1. UNCHANGED <<snaps, answers>>
    BY <1>2 DEF CallModify, Call
  <2>2. AllIds' = AllIds /\ AnsweredIds' = AnsweredIds
    BY <2>1 DEF AllIds, AnsweredIds
  <2>3. IdsAreKnown'
    BY <1>2, <1>a, <2>2 DEF CallModify, Call, IdInv, IdsAreKnown, LocalsInv, AnsweredIds
  <2> QED
    BY <1>b, <2>1, <2>3
<1>3. ASSUME NEW p \in Procs, CallSnapshot(p) PROVE IdInv'
  <2>1. UNCHANGED <<snaps, answers>>
    BY <1>3 DEF CallSnapshot, Call
  <2>2. AllIds' = AllIds /\ AnsweredIds' = AnsweredIds
    BY <2>1 DEF AllIds, AnsweredIds
  <2>3. IdsAreKnown'
    BY <1>3, <1>a, <2>2 DEF CallSnapshot, Call, IdInv, IdsAreKnown, LocalsInv, AnsweredIds
  <2> QED
    BY <1>b, <2>1, <2>3
<1>4. ASSUME NEW p \in Procs, CallDeleteSnapshot(p) PROVE IdInv'
  <2>1. UNCHANGED <<snaps, answers>>
    BY <1>4 DEF CallDeleteSnapshot, Call
  <2>2. AllIds' = AllIds /\ AnsweredIds' = AnsweredIds
    BY <2>1 DEF AllIds, AnsweredIds
  <2>3. IdsAreKnown'
    BY <1>4, <1>a, <2>2 DEF CallDeleteSnapshot, Call, IdInv, IdsAreKnown, LocalsInv, AnsweredIds
  <2> QED
    BY <1>b, <2>1, <2>3
<1>5. ASSUME NEW p \in Procs, ReadResizeFailureCache(p) PROVE IdInv'
  <2>1. UNCHANGED <<snaps, answers>>
    BY <1>5 DEF ReadResizeFailureCache
  <2>2. AllIds' = AllIds /\ AnsweredIds' = AnsweredIds
    BY <2>1 DEF AllIds, AnsweredIds
  <2>3. IdsAreKnown'
    BY <1>5, <1>a, <2>2 DEF ReadResizeFailureCache, IdInv, IdsAreKnown, LocalsInv
  <2> QED
    BY <1>b, <2>1, <2>3
<1>6. ASSUME NEW p \in Procs, UseDataPlaneAPI(p) PROVE IdInv'
  <2>1. UNCHANGED <<snaps, answers>>
    BY <1>6 DEF UseDataPlaneAPI
  <2>2. AllIds' = AllIds /\ AnsweredIds' = AnsweredIds
    BY <2>1 DEF AllIds, AnsweredIds
  <2>3. IdsAreKnown'
    BY <1>6, <1>a, <2>2 DEF UseDataPlaneAPI, IdInv, IdsAreKnown
  <2> QED
    BY <1>b, <2>1, <2>3
<1>7. ASSUME NEW p \in Procs, GetFileShare(p) PROVE IdInv'
  <2>1. UNCHANGED <<snaps, answers>>
    BY <1>7 DEF GetFileShare, Error
  <2>2. AllIds' = AllIds /\ AnsweredIds' = AnsweredIds
    BY <2>1 DEF AllIds, AnsweredIds
  <2>3. IdsAreKnown'
    BY <1>7, <1>a, <2>2 DEF GetFileShare, Error, IdInv, IdsAreKnown, LocalsInv
  <2> QED
    BY <1>b, <2>1, <2>3
<1>8. ASSUME NEW p \in Procs, UpdateFileShare(p) PROVE IdInv'
  <2>1. UNCHANGED <<snaps, answers>>
    BY <1>8 DEF UpdateFileShare, UpdateFails
  <2>2. AllIds' = AllIds /\ AnsweredIds' = AnsweredIds
    BY <2>1 DEF AllIds, AnsweredIds
  <2>3. IdsAreKnown'
    BY <1>8, <1>a, <2>2 DEF UpdateFileShare, UpdateFails, IdInv, IdsAreKnown, LocalsInv
  <2> QED
    BY <1>b, <2>1, <2>3
<1>9. ASSUME NEW p \in Procs, ListSnapshots(p) PROVE IdInv'
  <2>1. UNCHANGED <<snaps, answers>>
    BY <1>9 DEF ListSnapshots, Found, Named, Error
  <2>2. AllIds' = AllIds /\ AnsweredIds' = AnsweredIds
    BY <2>1 DEF AllIds, AnsweredIds
  <2>3. IdsAreKnown'
    BY <1>9, <1>a, <2>2 DEF ListSnapshots, Found, Named, Error, IdInv, IdsAreKnown, LocalsInv, AllIds
  <2> QED
    BY <1>b, <2>1, <2>3
<1>10. ASSUME NEW p \in Procs, GetSnapshot(p) PROVE IdInv'
  <2>1. UNCHANGED <<snaps, answers>>
    BY <1>10 DEF GetSnapshot, Found, Error
  <2>2. AllIds' = AllIds /\ AnsweredIds' = AnsweredIds
    BY <2>1 DEF AllIds, AnsweredIds
  <2>3. IdsAreKnown'
    BY <1>10, <1>a, <2>2 DEF GetSnapshot, Found, Error, IdInv, IdsAreKnown, LocalsInv, AllIds
  <2> QED
    BY <1>b, <2>1, <2>3
<1>11. ASSUME NEW p \in Procs, CreateShareSnapshot(p) PROVE IdInv'
  <2>1. pc[p] = "create" /\ op[p] = "snapshot" /\ UNCHANGED <<answers, op, arg>>
    BY <1>11 DEF CreateShareSnapshot, LocalsInv, SnapshotSteps
  <2>2. \/ UNCHANGED snaps /\ UNCHANGED todo /\ ~reply'[p].ok
        \/ /\ snaps' = snaps \cup {[id |-> NextId, name |-> arg[p], quota |-> share.quota]}
           /\ todo' \in {todo, [todo EXCEPT ![p] = {NextId}]}
           /\ reply'[p].ok => reply'[p].id = NextId
    BY <1>11, <1>a, <2>1 DEF CreateShareSnapshot, TakeSnapshot, Error, LocalsInv
  <2>3. \A q \in Procs \ {p} : reply'[q] = reply[q]
    BY <1>11 DEF CreateShareSnapshot, Error
  <2>4. CASE UNCHANGED snaps /\ UNCHANGED todo /\ ~reply'[p].ok
    <3>1. AllIds' = AllIds /\ AnsweredIds' = AnsweredIds
      BY <2>1, <2>4 DEF AllIds, AnsweredIds
    <3> QED
      BY <1>b, <2>1, <2>3, <2>4, <3>1 DEF IdInv, IdsAreKnown
  <2>5. CASE /\ snaps' = snaps \cup {[id |-> NextId, name |-> arg[p], quota |-> share.quota]}
             /\ todo' \in {todo, [todo EXCEPT ![p] = {NextId}]}
             /\ reply'[p].ok => reply'[p].id = NextId
    <3> DEFINE n == [id |-> NextId, name |-> arg[p], quota |-> share.quota]
    <3>1. snaps' = snaps \cup {n} /\ n.id = NextId
      BY <2>5
    <3> HIDE DEF n
    <3>2. {s.id : s \in snaps'} = {s.id : s \in snaps} \cup {NextId}
      <4>1. \A i \in {s.id : s \in snaps'} : i \in {s.id : s \in snaps} \cup {NextId}
        BY <3>1
      <4>2. \A i \in {s.id : s \in snaps} \cup {NextId} : i \in {s.id : s \in snaps'}
        BY <3>1
      <4> QED
        BY <4>1, <4>2
    <3>3. AnsweredIds' = AnsweredIds /\ AllIds' = AllIds \cup {NextId}
      BY <2>1, <3>2 DEF AllIds, AnsweredIds
    <3>4. NextId \in Nat \ {0} /\ AllIds' = 1..NextId /\ NextId \notin AllIds
      BY <3>3, NextIdIsNew
    <3>5. /\ NextId \in Nat \ {0} /\ AllIds' = 1..NextId
          /\ \A s \in snaps : s.id # NextId
      BY <3>4 DEF AllIds
    <3>6. IsFiniteSet(AllIds)' /\ Cardinality(AllIds)' = NextId
      BY <3>5, FS_Interval
    <3>7. IdsAreUnique'
      BY <2>5, <3>5 DEF IdInv, IdsAreUnique
    <3>8. IdsAreKnown'
      BY <2>1, <2>3, <2>5, <3>3 DEF IdInv, IdsAreKnown
    <3>9. IdsAreCounted'
      BY <3>5, <3>6 DEF IdsAreCounted
    <3> QED
      BY <3>7, <3>8, <3>9 DEF IdInv
  <2> QED
    BY <2>2, <2>4, <2>5
<1>12. ASSUME NEW p \in Procs, GetProperties(p) PROVE IdInv'
  <2>0. pc[p] \in TakenSteps
    BY <1>12 DEF GetProperties, AnswerSize, TakenSteps
  <2>1. UNCHANGED <<snaps, answers>>
    BY <1>12 DEF GetProperties, AnswerSize, Error
  <2>2. AllIds' = AllIds /\ AnsweredIds' = AnsweredIds
    BY <2>1 DEF AllIds, AnsweredIds
  <2>3. IdsAreKnown'
    BY <1>12, <1>a, <2>2, <2>0, TakenType DEF GetProperties, AnswerSize, Error, IdInv, IdsAreKnown
  <2> QED
    BY <1>b, <2>1, <2>3
<1>13. ASSUME NEW p \in Procs, ReadSizeCache(p) PROVE IdInv'
  <2>0. pc[p] \in TakenSteps
    BY <1>13 DEF ReadSizeCache, AnswerSize, TakenSteps
  <2>1. UNCHANGED <<snaps, answers>>
    BY <1>13 DEF ReadSizeCache, AnswerSize, Error
  <2>2. AllIds' = AllIds /\ AnsweredIds' = AnsweredIds
    BY <2>1 DEF AllIds, AnsweredIds
  <2>3. IdsAreKnown'
    BY <1>13, <1>a, <2>2, <2>0, TakenType DEF ReadSizeCache, AnswerSize, Error, IdInv, IdsAreKnown
  <2> QED
    BY <1>b, <2>1, <2>3
<1>14. ASSUME NEW p \in Procs, GetQuota(p) PROVE IdInv'
  <2>0. pc[p] \in TakenSteps
    BY <1>14 DEF GetQuota, AnswerSize, TakenSteps
  <2>1. UNCHANGED <<snaps, answers>>
    BY <1>14 DEF GetQuota, AnswerSize, Error
  <2>2. AllIds' = AllIds /\ AnsweredIds' = AnsweredIds
    BY <2>1 DEF AllIds, AnsweredIds
  <2>3. IdsAreKnown'
    BY <1>14, <1>a, <2>2, <2>0, TakenType DEF GetQuota, AnswerSize, Error, IdInv, IdsAreKnown
  <2> QED
    BY <1>b, <2>1, <2>3
<1>15. ASSUME NEW p \in Procs, DeleteSnapshot(p) PROVE IdInv'
  <2>1. /\ pc[p] = "delete" /\ op[p] = "deleteSnapshot"
        /\ arg[p] \in AnsweredIds
        /\ UNCHANGED <<answers, op, arg, todo>>
    BY <1>15 DEF DeleteSnapshot, LocalsInv, IdInv, IdsAreKnown
  <2>2. snaps' \in {snaps, {s \in snaps : s.id # arg[p]}}
    BY <1>15 DEF DeleteSnapshot
  <2>3. AllIds' = AllIds /\ AnsweredIds' = AnsweredIds
    BY <2>1, <2>2 DEF AllIds, AnsweredIds
  <2>4. \A q \in Procs \ {p} : reply'[q] = reply[q]
    BY <1>15 DEF DeleteSnapshot, Error
  <2>5. IdsAreUnique'
    BY <2>2 DEF IdInv, IdsAreUnique
  <2>6. IdsAreKnown'
    BY <2>1, <2>3, <2>4 DEF IdInv, IdsAreKnown
  <2>7. IdsAreCounted'
    BY <2>3 DEF IdInv, IdsAreCounted
  <2> QED
    BY <2>5, <2>6, <2>7 DEF IdInv
<1>16. ASSUME NEW p \in Procs, Reply(p) PROVE IdInv'
  <2>1. /\ UNCHANGED snaps /\ todo'[p] = {} /\ op'[p] = "none"
        /\ answers \subseteq answers'
        /\ answers' # answers => /\ op[p] = "snapshot" /\ reply[p].ok
                                 /\ answers' = answers \cup {[id |-> reply[p].id, name |-> arg[p],
                                                            size |-> reply[p].size]}
    BY <1>16 DEF Reply, Succeeded
  <2>2. AllIds' = AllIds /\ AnsweredIds \subseteq AnsweredIds'
    BY <2>1 DEF AllIds, AnsweredIds, IdInv, IdsAreKnown
  <2>3. \A q \in Procs \ {p} : /\ reply'[q] = reply[q] /\ todo'[q] = todo[q]
                               /\ op'[q] = op[q] /\ arg'[q] = arg[q]
    BY <1>16 DEF Reply
  <2>4. IdsAreUnique'
    BY <2>1 DEF IdInv, IdsAreUnique
  <2>5. IdsAreKnown'
    BY <2>1, <2>2, <2>3 DEF IdInv, IdsAreKnown
  <2>6. IdsAreCounted'
    BY <2>2 DEF IdInv, IdsAreCounted
  <2> QED
    BY <2>4, <2>5, <2>6 DEF IdInv
<1>17. ASSUME NEW p \in Procs, GiveUp(p) PROVE IdInv'
  <2>1. UNCHANGED <<snaps, answers>>
    BY <1>17 DEF GiveUp
  <2>2. AllIds' = AllIds /\ AnsweredIds' = AnsweredIds
    BY <2>1 DEF AllIds, AnsweredIds
  <2>3. IdsAreKnown'
    BY <1>17, <1>a, <2>2 DEF GiveUp, IdInv, IdsAreKnown
  <2> QED
    BY <1>b, <2>1, <2>3
<1>18. CASE CacheExpires
  <2>1. UNCHANGED <<snaps, answers>>
    BY <1>18 DEF CacheExpires
  <2>2. AllIds' = AllIds /\ AnsweredIds' = AnsweredIds
    BY <2>1 DEF AllIds, AnsweredIds
  <2>3. IdsAreKnown'
    BY <1>18, <1>a, <2>2 DEF CacheExpires, IdInv, IdsAreKnown
  <2> QED
    BY <1>b, <2>1, <2>3
<1>19. CASE Crash
  <2>1. UNCHANGED <<snaps, answers>>
    BY <1>19 DEF Crash
  <2>2. AllIds' = AllIds /\ AnsweredIds' = AnsweredIds
    BY <2>1 DEF AllIds, AnsweredIds
  <2>3. IdsAreKnown'
    BY <1>19, <1>a, <2>2 DEF Crash, IdInv, IdsAreKnown
  <2> QED
    BY <1>b, <2>1, <2>3
<1>20. CASE UNCHANGED vars
  <2>1. UNCHANGED <<snaps, answers>>
    BY <1>20 DEF vars
  <2>2. AllIds' = AllIds /\ AnsweredIds' = AnsweredIds
    BY <2>1 DEF AllIds, AnsweredIds
  <2>3. IdsAreKnown'
    BY <1>20, <1>a, <2>2 DEF vars, IdInv, IdsAreKnown
  <2> QED
    BY <1>b, <2>1, <2>3
<1> QED
  BY <1>1, <1>2, <1>3, <1>4, <1>5, <1>6, <1>7, <1>8, <1>9, <1>10, <1>11,
     <1>12, <1>13, <1>14, <1>15, <1>16, <1>17, <1>18, <1>19, <1>20
  DEF Next, Step

\* A CO sends a call only when it has none of that kind outstanding.
LEMMA OneLiveCallStep == TypeOK /\ LocalsInv /\ OneLiveCall /\ [Next]_vars => OneLiveCall'
<1> USE DEF OneLiveCall, LocalsInv, azure, caches, rpc, co, bounds
<1> SUFFICES ASSUME TypeOK, LocalsInv, OneLiveCall, [Next]_vars PROVE OneLiveCall'
  OBVIOUS
<1> USE DEF TypeOK
<1>1. ASSUME NEW p \in Procs, CallExpand(p) PROVE OneLiveCall'
  BY <1>1 DEF CallExpand, Call
<1>2. ASSUME NEW p \in Procs, CallModify(p) PROVE OneLiveCall'
  BY <1>2 DEF CallModify, Call
<1>3. ASSUME NEW p \in Procs, CallSnapshot(p) PROVE OneLiveCall'
  BY <1>3 DEF CallSnapshot, Call
<1>4. ASSUME NEW p \in Procs, CallDeleteSnapshot(p) PROVE OneLiveCall'
  BY <1>4 DEF CallDeleteSnapshot, Call
<1>5. ASSUME NEW p \in Procs, ReadResizeFailureCache(p) PROVE OneLiveCall'
  BY <1>5 DEF ReadResizeFailureCache
<1>6. ASSUME NEW p \in Procs, UseDataPlaneAPI(p) PROVE OneLiveCall'
  BY <1>6 DEF UseDataPlaneAPI
<1>7. ASSUME NEW p \in Procs, GetFileShare(p) PROVE OneLiveCall'
  BY <1>7 DEF GetFileShare
<1>8. ASSUME NEW p \in Procs, UpdateFileShare(p) PROVE OneLiveCall'
  BY <1>8 DEF UpdateFileShare
<1>9. ASSUME NEW p \in Procs, ListSnapshots(p) PROVE OneLiveCall'
  BY <1>9 DEF ListSnapshots
<1>10. ASSUME NEW p \in Procs, GetSnapshot(p) PROVE OneLiveCall'
  BY <1>10 DEF GetSnapshot
<1>11. ASSUME NEW p \in Procs, CreateShareSnapshot(p) PROVE OneLiveCall'
  BY <1>11 DEF CreateShareSnapshot
<1>12. ASSUME NEW p \in Procs, GetProperties(p) PROVE OneLiveCall'
  BY <1>12 DEF GetProperties
<1>13. ASSUME NEW p \in Procs, ReadSizeCache(p) PROVE OneLiveCall'
  BY <1>13 DEF ReadSizeCache
<1>14. ASSUME NEW p \in Procs, GetQuota(p) PROVE OneLiveCall'
  BY <1>14 DEF GetQuota
<1>15. ASSUME NEW p \in Procs, DeleteSnapshot(p) PROVE OneLiveCall'
  BY <1>15 DEF DeleteSnapshot
<1>16. ASSUME NEW p \in Procs, Reply(p) PROVE OneLiveCall'
  BY <1>16 DEF Reply
<1>17. ASSUME NEW p \in Procs, GiveUp(p) PROVE OneLiveCall'
  BY <1>17 DEF GiveUp
<1>18. CASE CacheExpires
  BY <1>18 DEF CacheExpires
<1>19. CASE Crash
  BY <1>19 DEF Crash
<1>20. CASE UNCHANGED vars
  BY <1>20 DEF vars
<1> QED
  BY <1>1, <1>2, <1>3, <1>4, <1>5, <1>6, <1>7, <1>8, <1>9, <1>10, <1>11,
     <1>12, <1>13, <1>14, <1>15, <1>16, <1>17, <1>18, <1>19, <1>20
  DEF Next, Step

\* A step that takes no snapshot and brings no search further keeps the promise.
LEMMA SearchesRest ==
    ASSUME OneSnapshotPerName, SearchInv,
           snaps' \subseteq snaps, flaws \subseteq flaws',
           \A q \in Procs \ cancelled' :
             op'[q] = "snapshot" /\ pc'[q] \in {"getSnapshot", "create"}
             => /\ q \notin cancelled /\ op[q] = "snapshot" /\ pc[q] = pc'[q]
                /\ arg[q] = arg'[q] /\ todo[q] = todo'[q]
    PROVE  OneSnapshotPerName' /\ SearchInv'
<1>1. OneSnapshotPerName'
  BY DEF OneSnapshotPerName
<1>2. SearchInv'
  BY DEF SearchInv, Named
<1> QED
  BY <1>1, <1>2

\* Of one name there is one snapshot: the search of the only call that is not
\* given up on has either still to read it, or found that there is none.
LEMMA NameStep ==
    /\ TypeOK /\ LocalsInv /\ IdInv /\ OneLiveCall /\ OneSnapshotPerName /\ SearchInv
    /\ [Next]_vars
    => OneSnapshotPerName' /\ SearchInv'
<1> SUFFICES ASSUME TypeOK, LocalsInv, IdInv, OneLiveCall, OneSnapshotPerName, SearchInv,
                    [Next]_vars
             PROVE  OneSnapshotPerName' /\ SearchInv'
  OBVIOUS
<1> DEFINE Rest ==
      \A q \in Procs \ cancelled' :
        op'[q] = "snapshot" /\ pc'[q] \in {"getSnapshot", "create"}
        => /\ q \notin cancelled /\ op[q] = "snapshot" /\ pc[q] = pc'[q]
           /\ arg[q] = arg'[q] /\ todo[q] = todo'[q]
<1> USE DEF azure, caches, rpc, co, bounds, Goto, Return, Error
<1>1. ASSUME NEW p \in Procs, CallExpand(p) PROVE OneSnapshotPerName' /\ SearchInv'
  <2>1. snaps' \subseteq snaps /\ flaws \subseteq flaws'
    BY <1>1 DEF CallExpand, Call
  <2>2. Rest
    BY <1>1 DEF CallExpand, Call, TypeOK, LocalsInv
  <2> QED
    BY <2>1, <2>2, SearchesRest
<1>2. ASSUME NEW p \in Procs, CallModify(p) PROVE OneSnapshotPerName' /\ SearchInv'
  <2>1. snaps' \subseteq snaps /\ flaws \subseteq flaws'
    BY <1>2 DEF CallModify, Call
  <2>2. Rest
    BY <1>2 DEF CallModify, Call, TypeOK, LocalsInv
  <2> QED
    BY <2>1, <2>2, SearchesRest
<1>3. ASSUME NEW p \in Procs, CallSnapshot(p) PROVE OneSnapshotPerName' /\ SearchInv'
  <2>1. snaps' \subseteq snaps /\ flaws \subseteq flaws'
    BY <1>3 DEF CallSnapshot, Call
  <2>2. Rest
    BY <1>3 DEF CallSnapshot, Call, TypeOK, LocalsInv
  <2> QED
    BY <2>1, <2>2, SearchesRest
<1>4. ASSUME NEW p \in Procs, CallDeleteSnapshot(p) PROVE OneSnapshotPerName' /\ SearchInv'
  <2>1. snaps' \subseteq snaps /\ flaws \subseteq flaws'
    BY <1>4 DEF CallDeleteSnapshot, Call
  <2>2. Rest
    BY <1>4 DEF CallDeleteSnapshot, Call, TypeOK, LocalsInv
  <2> QED
    BY <2>1, <2>2, SearchesRest
<1>5. ASSUME NEW p \in Procs, ReadResizeFailureCache(p) PROVE OneSnapshotPerName' /\ SearchInv'
  <2>1. snaps' \subseteq snaps /\ flaws \subseteq flaws'
    BY <1>5 DEF ReadResizeFailureCache
  <2>2. Rest
    BY <1>5 DEF ReadResizeFailureCache, TypeOK, LocalsInv
  <2> QED
    BY <2>1, <2>2, SearchesRest
<1>6. ASSUME NEW p \in Procs, UseDataPlaneAPI(p) PROVE OneSnapshotPerName' /\ SearchInv'
  <2>1. snaps' \subseteq snaps /\ flaws \subseteq flaws'
    BY <1>6 DEF UseDataPlaneAPI
  <2>2. Rest
    BY <1>6 DEF UseDataPlaneAPI, TypeOK, LocalsInv
  <2> QED
    BY <2>1, <2>2, SearchesRest
<1>7. ASSUME NEW p \in Procs, GetFileShare(p) PROVE OneSnapshotPerName' /\ SearchInv'
  <2>1. snaps' \subseteq snaps /\ flaws \subseteq flaws'
    BY <1>7 DEF GetFileShare
  <2>2. Rest
    BY <1>7 DEF GetFileShare, TypeOK, LocalsInv
  <2> QED
    BY <2>1, <2>2, SearchesRest
<1>8. ASSUME NEW p \in Procs, UpdateFileShare(p) PROVE OneSnapshotPerName' /\ SearchInv'
  <2>1. snaps' \subseteq snaps /\ flaws \subseteq flaws'
    BY <1>8 DEF UpdateFileShare, UpdateFails, Land
  <2>2. Rest
    BY <1>8 DEF UpdateFileShare, UpdateFails, Land, TypeOK, LocalsInv
  <2> QED
    BY <2>1, <2>2, SearchesRest
<1>9. ASSUME NEW p \in Procs, ListSnapshots(p) PROVE OneSnapshotPerName' /\ SearchInv'
  <2>1. UNCHANGED <<snaps, flaws, cancelled, op, arg>>
    BY <1>9 DEF ListSnapshots
  <2>2. \A q \in Procs \ {p} : pc'[q] = pc[q] /\ todo'[q] = todo[q]
    BY <1>9 DEF ListSnapshots, Found, TypeOK
  <2>3. /\ pc'[p] = "create" => Named(arg[p]) = {}
        /\ pc'[p] = "getSnapshot" => todo'[p] = {s.id : s \in snaps}
    BY <1>9 DEF ListSnapshots, Found, TypeOK
  <2>4. OneSnapshotPerName'
    BY <2>1 DEF OneSnapshotPerName
  <2>5. SearchInv'
    BY <2>1, <2>2, <2>3 DEF SearchInv, Named
  <2> QED
    BY <2>4, <2>5
<1>10. ASSUME NEW p \in Procs, GetSnapshot(p) PROVE OneSnapshotPerName' /\ SearchInv'
  <2>1. UNCHANGED <<snaps, cancelled, op, arg>> /\ flaws \subseteq flaws'
    BY <1>10 DEF GetSnapshot
  <2>2. \A q \in Procs \ {p} : pc'[q] = pc[q] /\ todo'[q] = todo[q]
    BY <1>10 DEF GetSnapshot, Found, TypeOK
  <2>3. pc[p] = "getSnapshot" /\ op[p] = "snapshot"
    BY <1>10 DEF GetSnapshot, LocalsInv, SnapshotSteps
  <2>4. \/ todo[p] = {} /\ pc'[p] = "create"
        \/ pc'[p] = "return"
        \/ \E s \in snaps : s.name # arg[p] /\ todo'[p] = todo[p] \ {s.id} /\ UNCHANGED pc
        \/ <<"unread", arg[p]>> \in flaws'
    BY <1>10 DEF GetSnapshot, Found, TypeOK
  <2>5. OneSnapshotPerName'
    BY <2>1 DEF OneSnapshotPerName
  <2>6. SearchInv'
    <3> SUFFICES ASSUME NEW q \in Procs \ cancelled, op[q] = "snapshot",
                        {<<"unread", arg[q]>>, <<"late", arg[q]>>} \cap flaws' = {}
                 PROVE  /\ pc'[q] = "getSnapshot" => {s.id : s \in Named(arg[q])} \subseteq todo'[q]
                        /\ pc'[q] = "create" => Named(arg[q]) = {}
      BY <2>1 DEF SearchInv, Named
    <3>1. /\ pc[q] = "getSnapshot" => {s.id : s \in Named(arg[q])} \subseteq todo[q]
          /\ pc[q] = "create" => Named(arg[q]) = {}
      BY <2>1 DEF SearchInv
    <3>2. CASE q # p
      BY <2>2, <3>1, <3>2
    <3>3. CASE q = p
      <4>1. CASE \E s \in snaps : s.name # arg[p] /\ todo'[p] = todo[p] \ {s.id} /\ UNCHANGED pc
        BY <2>3, <3>1, <3>3, <4>1 DEF Named, IdInv, IdsAreUnique
      <4> QED
        BY <2>3, <2>4, <3>1, <3>3, <4>1 DEF Named
    <3> QED
      BY <3>2, <3>3
  <2> QED
    BY <2>5, <2>6
<1>11. ASSUME NEW p \in Procs, CreateShareSnapshot(p) PROVE OneSnapshotPerName' /\ SearchInv'
  <2>1. /\ UNCHANGED <<cancelled, op, arg>> /\ flaws \subseteq flaws'
        /\ pc[p] = "create" /\ op[p] = "snapshot" /\ pc'[p] \notin {"getSnapshot", "create"}
    BY <1>11 DEF CreateShareSnapshot, TakeSnapshot, LocalsInv, SnapshotSteps, TypeOK
  <2>2. \A q \in Procs \ {p} : pc'[q] = pc[q] /\ todo'[q] = todo[q]
    BY <1>11 DEF CreateShareSnapshot, TypeOK
  <2>3. CASE UNCHANGED snaps
    BY <2>1, <2>2, <2>3, SearchesRest
  <2>4. CASE TakeSnapshot(p)
    <3>1. PICK n : n.name = arg[p] /\ snaps' = snaps \cup {n}
      BY <2>4 DEF TakeSnapshot
    <3>2. p \in cancelled => <<"late", arg[p]>> \in flaws'
      BY <2>4 DEF TakeSnapshot
    <3>3. p \notin cancelled /\ {<<"unread", arg[p]>>, <<"late", arg[p]>>} \cap flaws = {}
          => Named(arg[p]) = {}
      BY <2>1 DEF SearchInv
    <3>4. OneSnapshotPerName'
      BY <2>1, <3>1, <3>2, <3>3 DEF OneSnapshotPerName, Named
    <3>5. \A q \in Procs \ cancelled : q # p /\ op[q] = "snapshot" =>
             arg[q] # arg[p] \/ <<"late", arg[q]>> \in flaws'
      BY <2>1, <3>2 DEF OneLiveCall
    <3>6. SearchInv'
      <4> SUFFICES ASSUME NEW q \in Procs \ cancelled, op[q] = "snapshot",
                          {<<"unread", arg[q]>>, <<"late", arg[q]>>} \cap flaws' = {}
                   PROVE  /\ pc'[q] = "getSnapshot" => {s.id : s \in Named(arg[q])'} \subseteq todo'[q]
                          /\ pc'[q] = "create" => Named(arg[q])' = {}
        BY <2>1 DEF SearchInv, Named
      <4>1. /\ pc[q] = "getSnapshot" => {s.id : s \in Named(arg[q])} \subseteq todo[q]
            /\ pc[q] = "create" => Named(arg[q]) = {}
        BY <2>1 DEF SearchInv
      <4>2. q # p => Named(arg[q])' = Named(arg[q])
        BY <2>1, <3>1, <3>5 DEF Named
      <4> QED
        BY <2>1, <2>2, <4>1, <4>2
    <3> QED
      BY <3>4, <3>6
  <2> QED
    BY <1>11, <2>3, <2>4 DEF CreateShareSnapshot
<1>12. ASSUME NEW p \in Procs, GetProperties(p) PROVE OneSnapshotPerName' /\ SearchInv'
  <2>1. snaps' \subseteq snaps /\ flaws \subseteq flaws'
    BY <1>12 DEF GetProperties, AnswerSize
  <2>2. Rest
    BY <1>12 DEF GetProperties, AnswerSize, TypeOK, LocalsInv
  <2> QED
    BY <2>1, <2>2, SearchesRest
<1>13. ASSUME NEW p \in Procs, ReadSizeCache(p) PROVE OneSnapshotPerName' /\ SearchInv'
  <2>1. snaps' \subseteq snaps /\ flaws \subseteq flaws'
    BY <1>13 DEF ReadSizeCache, AnswerSize
  <2>2. Rest
    BY <1>13 DEF ReadSizeCache, AnswerSize, TypeOK, LocalsInv
  <2> QED
    BY <2>1, <2>2, SearchesRest
<1>14. ASSUME NEW p \in Procs, GetQuota(p) PROVE OneSnapshotPerName' /\ SearchInv'
  <2>1. snaps' \subseteq snaps /\ flaws \subseteq flaws'
    BY <1>14 DEF GetQuota, AnswerSize
  <2>2. Rest
    BY <1>14 DEF GetQuota, AnswerSize, TypeOK, LocalsInv
  <2> QED
    BY <2>1, <2>2, SearchesRest
<1>15. ASSUME NEW p \in Procs, DeleteSnapshot(p) PROVE OneSnapshotPerName' /\ SearchInv'
  <2>1. snaps' \subseteq snaps /\ flaws \subseteq flaws'
    BY <1>15 DEF DeleteSnapshot
  <2>2. Rest
    BY <1>15 DEF DeleteSnapshot, TypeOK, LocalsInv
  <2> QED
    BY <2>1, <2>2, SearchesRest
<1>16. ASSUME NEW p \in Procs, Reply(p) PROVE OneSnapshotPerName' /\ SearchInv'
  <2>1. snaps' \subseteq snaps /\ flaws \subseteq flaws'
    BY <1>16 DEF Reply, Succeeded
  <2>2. Rest
    BY <1>16 DEF Reply, Succeeded, TypeOK, LocalsInv
  <2> QED
    BY <2>1, <2>2, SearchesRest
<1>17. ASSUME NEW p \in Procs, GiveUp(p) PROVE OneSnapshotPerName' /\ SearchInv'
  <2>1. snaps' \subseteq snaps /\ flaws \subseteq flaws'
    BY <1>17 DEF GiveUp
  <2>2. Rest
    BY <1>17 DEF GiveUp, TypeOK, LocalsInv
  <2> QED
    BY <2>1, <2>2, SearchesRest
<1>18. CASE CacheExpires
  <2>1. snaps' \subseteq snaps /\ flaws \subseteq flaws'
    BY <1>18 DEF CacheExpires
  <2>2. Rest
    BY <1>18 DEF CacheExpires, TypeOK, LocalsInv
  <2> QED
    BY <2>1, <2>2, SearchesRest
<1>19. CASE Crash
  <2>1. snaps' \subseteq snaps /\ flaws \subseteq flaws'
    BY <1>19 DEF Crash
  <2>2. Rest
    BY <1>19 DEF Crash, TypeOK, LocalsInv
  <2> QED
    BY <2>1, <2>2, SearchesRest
<1>20. CASE UNCHANGED vars
  <2>1. snaps' \subseteq snaps /\ flaws \subseteq flaws'
    BY <1>20 DEF vars
  <2>2. Rest
    BY <1>20 DEF vars, TypeOK, LocalsInv
  <2> QED
    BY <2>1, <2>2, SearchesRest
<1> QED
  BY <1>1, <1>2, <1>3, <1>4, <1>5, <1>6, <1>7, <1>8, <1>9, <1>10, <1>11,
     <1>12, <1>13, <1>14, <1>15, <1>16, <1>17, <1>18, <1>19, <1>20
  DEF Next, Step

\* An update that is no race writes what its RPC was called for, and leaves the
\* rest of the share as it is.
LEMMA LandStep ==
    ASSUME TypeOK, LocalsInv, ShareIsKept, NEW p \in Procs, pc[p] = "update",
           Land(p), ~Raced'
    PROVE  /\ p \notin cancelled
           /\ op[p] = "expand" => share'.quota = arg[p] /\ share.quota < arg[p] /\ share'.iops = share.iops
           /\ op[p] = "modify" => share'.iops = arg[p] /\ share'.quota = share.quota
<1>1. p \notin cancelled /\ ~Undoes(p)
  BY DEF Land, Raced
<1>2. share' = Written(p) /\ op[p] \in {"expand", "modify"}
  BY DEF Land, LocalsInv
<1>3. CASE op[p] = "expand"
  <2>1. share'.quota = arg[p] /\ share'.iops = share.iops
    BY <1>1, <1>2, <1>3, WrittenType DEF Undoes
  <2>2. share.quota < arg[p]
    BY <1>1, <1>3 DEF ShareIsKept, LocalsInv
  <2> QED
    BY <1>1, <1>3, <2>1, <2>2
<1>4. CASE op[p] = "modify"
  BY <1>1, <1>2, <1>4, WrittenType DEF Undoes
<1> QED
  BY <1>2, <1>3, <1>4

\* What is written to the share and what is confirmed of it stay in step: each
\* kind of call has one RPC that is not given up on.
LEMMA ShareStep ==
    TypeOK /\ LocalsInv /\ OneLiveCall /\ ShareInv /\ [Next]_vars => ShareInv'
<1> SUFFICES ASSUME TypeOK, LocalsInv, OneLiveCall, ShareInv, [Next]_vars, ~Raced'
             PROVE  ShareIsKept'
  BY DEF ShareInv
<1> USE ShareOpsAssumption
    DEF azure, caches, rpc, co, bounds, Goto, Return, Error
<1>a. flaws \subseteq flaws' => ShareIsKept
  BY DEF ShareInv, Raced
<1>b. Done.ok /\ ~Failed.ok
  BY DEF Done, Failed
<1> USE DEF TypeOK
<1>1. ASSUME NEW p \in Procs, CallExpand(p) PROVE ShareIsKept'
  <2>1. ShareIsKept
    BY <1>1, <1>a DEF CallExpand, Call
  <2> QED
    BY <1>1, <1>b, <2>1 DEF CallExpand, Call, ShareIsKept, LocalsInv
<1>2. ASSUME NEW p \in Procs, CallModify(p) PROVE ShareIsKept'
  <2>1. ShareIsKept
    BY <1>2, <1>a DEF CallModify, Call
  <2> QED
    BY <1>2, <1>b, <2>1 DEF CallModify, Call, ShareIsKept, LocalsInv
<1>3. ASSUME NEW p \in Procs, CallSnapshot(p) PROVE ShareIsKept'
  <2>1. ShareIsKept
    BY <1>3, <1>a DEF CallSnapshot, Call
  <2> QED
    BY <1>3, <1>b, <2>1 DEF CallSnapshot, Call, ShareIsKept, LocalsInv
<1>4. ASSUME NEW p \in Procs, CallDeleteSnapshot(p) PROVE ShareIsKept'
  <2>1. ShareIsKept
    BY <1>4, <1>a DEF CallDeleteSnapshot, Call
  <2> QED
    BY <1>4, <1>b, <2>1 DEF CallDeleteSnapshot, Call, ShareIsKept, LocalsInv
<1>5. ASSUME NEW p \in Procs, ReadResizeFailureCache(p) PROVE ShareIsKept'
  <2>1. ShareIsKept
    BY <1>5, <1>a DEF ReadResizeFailureCache
  <2> QED
    BY <1>5, <1>b, <2>1 DEF ReadResizeFailureCache, ShareIsKept, LocalsInv
<1>6. ASSUME NEW p \in Procs, UseDataPlaneAPI(p) PROVE ShareIsKept'
  <2>1. ShareIsKept
    BY <1>6, <1>a DEF UseDataPlaneAPI
  <2> QED
    BY <1>6, <1>b, <2>1 DEF UseDataPlaneAPI, ShareIsKept, LocalsInv
<1>7. ASSUME NEW p \in Procs, GetFileShare(p) PROVE ShareIsKept'
  <2>1. ShareIsKept
    BY <1>7, <1>a DEF GetFileShare
  <2> QED
    BY <1>7, <1>b, <2>1 DEF GetFileShare, ShareIsKept, LocalsInv
<1>8. ASSUME NEW p \in Procs, UpdateFileShare(p) PROVE ShareIsKept'
  <2>1. /\ ShareIsKept /\ pc[p] = "update" /\ op[p] \in {"expand", "modify"}
        /\ UNCHANGED <<snaps, capacity, iopsMay, cancelled, op, arg, seen>>
    BY <1>8, <1>a DEF UpdateFileShare, Land, LocalsInv
  <2>2. Land(p) \/ UNCHANGED share
    BY <1>8 DEF UpdateFileShare
  <2>3. reply'[p].ok => Land(p)
    BY <1>8, <1>b DEF UpdateFileShare, UpdateFails, LocalsInv
  <2>4. op[p] = "expand" => pc'[p] # "update"
    BY <1>8 DEF UpdateFileShare, UpdateFails
  <2>5. \A q \in Procs \ {p} : pc'[q] = pc[q] /\ reply'[q] = reply[q]
    BY <1>8 DEF UpdateFileShare, UpdateFails
  <2>6. CASE UNCHANGED share /\ ~Land(p)
    BY <2>1, <2>3, <2>4, <2>5, <2>6 DEF ShareIsKept
  <2>7. CASE Land(p)
    <3>1. /\ p \notin cancelled
          /\ op[p] = "expand" => share'.quota = arg[p] /\ share.quota < arg[p] /\ share'.iops = share.iops
          /\ op[p] = "modify" => share'.iops = arg[p] /\ share'.quota = share.quota
      BY <2>1, <2>7, LandStep
    <3>2. \A q \in Procs \ cancelled : op[q] = op[p] => q = p
      BY <2>1, <3>1 DEF OneLiveCall
    <3>3. arg[p] \in Nat \/ op[p] = "modify"
      BY <2>1
    <3>4. CASE op[p] = "expand"
      <4>1. share.quota \in Nat /\ arg[p] \in Nat /\ capacity \in Nat /\ \A s \in snaps : s.quota \in Nat
        BY <3>4
      <4>2. share'.quota = arg[p] /\ share.quota < arg[p] /\ share'.iops = share.iops
        BY <3>1, <3>4
      <4>3. share'.quota >= share.quota /\ share'.quota \in Nat
        BY <4>1, <4>2
      <4>4. share'.quota >= capacity /\ \A s \in snaps : s.quota <= share'.quota
        BY <2>1, <4>1, <4>3 DEF ShareIsKept
      <4>5. \A q \in Procs \ cancelled : q # p => op[q] # "expand"
        BY <3>2, <3>4
      <4> QED
        BY <2>1, <2>4, <2>5, <3>4, <4>1, <4>2, <4>4, <4>5 DEF ShareIsKept
    <3>5. CASE op[p] = "modify"
      BY <2>1, <2>5, <3>1, <3>2, <3>5 DEF ShareIsKept
    <3> QED
      BY <2>1, <3>4, <3>5
  <2> QED
    BY <2>2, <2>6, <2>7
<1>9. ASSUME NEW p \in Procs, ListSnapshots(p) PROVE ShareIsKept'
  <2>1. ShareIsKept
    BY <1>9, <1>a DEF ListSnapshots, Found
  <2> QED
    BY <1>9, <1>b, <2>1 DEF ListSnapshots, Found, ShareIsKept, LocalsInv, SnapshotSteps
<1>10. ASSUME NEW p \in Procs, GetSnapshot(p) PROVE ShareIsKept'
  <2>1. ShareIsKept
    BY <1>10, <1>a DEF GetSnapshot, Found
  <2> QED
    BY <1>10, <1>b, <2>1 DEF GetSnapshot, Found, ShareIsKept, LocalsInv, SnapshotSteps
<1>11. ASSUME NEW p \in Procs, CreateShareSnapshot(p) PROVE ShareIsKept'
  <2>1. ShareIsKept /\ UNCHANGED <<share, capacity, iopsMay, cancelled, op, arg>>
    BY <1>11, <1>a DEF CreateShareSnapshot, TakeSnapshot
  <2>2. pc[p] = "create" /\ op[p] = "snapshot"
    BY <1>11 DEF CreateShareSnapshot, LocalsInv, SnapshotSteps
  <2>3. \A q \in Procs \ {p} : pc'[q] = pc[q] /\ seen'[q] = seen[q] /\ reply'[q] = reply[q]
    BY <1>11 DEF CreateShareSnapshot
  <2>4. \A s \in snaps' : s \in snaps \/ s.quota = share.quota
    BY <1>11 DEF CreateShareSnapshot, TakeSnapshot
  <2>5. \A s \in snaps' : s.quota <= share.quota
    <3>1. share.quota \in Nat
      OBVIOUS
    <3>2. share.quota <= share.quota
      BY <3>1
    <3> QED
      BY <2>1, <2>4, <3>2 DEF ShareIsKept
  <2> QED
    BY <2>1, <2>2, <2>3, <2>5 DEF ShareIsKept
<1>12. ASSUME NEW p \in Procs, GetProperties(p) PROVE ShareIsKept'
  <2>1. ShareIsKept
    BY <1>12, <1>a DEF GetProperties, AnswerSize
  <2> QED
    BY <1>12, <1>b, <2>1 DEF GetProperties, AnswerSize, ShareIsKept, LocalsInv, SnapshotSteps
<1>13. ASSUME NEW p \in Procs, ReadSizeCache(p) PROVE ShareIsKept'
  <2>1. ShareIsKept
    BY <1>13, <1>a DEF ReadSizeCache, AnswerSize
  <2> QED
    BY <1>13, <1>b, <2>1 DEF ReadSizeCache, AnswerSize, ShareIsKept, LocalsInv, SnapshotSteps
<1>14. ASSUME NEW p \in Procs, GetQuota(p) PROVE ShareIsKept'
  <2>1. ShareIsKept
    BY <1>14, <1>a DEF GetQuota, AnswerSize
  <2> QED
    BY <1>14, <1>b, <2>1 DEF GetQuota, AnswerSize, ShareIsKept, LocalsInv, SnapshotSteps
<1>15. ASSUME NEW p \in Procs, DeleteSnapshot(p) PROVE ShareIsKept'
  <2>1. ShareIsKept
    BY <1>15, <1>a DEF DeleteSnapshot
  <2> QED
    BY <1>15, <1>b, <2>1 DEF DeleteSnapshot, ShareIsKept, LocalsInv
<1>16. ASSUME NEW p \in Procs, Reply(p) PROVE ShareIsKept'
  <2>1. ShareIsKept /\ UNCHANGED <<share, snaps>> /\ op'[p] = "none" /\ cancelled' = cancelled \ {p}
    BY <1>16, <1>a DEF Reply
  <2>2. \A q \in Procs \ {p} : /\ pc'[q] = pc[q] /\ op'[q] = op[q] /\ arg'[q] = arg[q]
                               /\ reply'[q] = reply[q] /\ seen'[q] = seen[q]
    BY <1>16 DEF Reply
  <2>3. share.quota >= capacity'
    BY <1>16, <2>1 DEF Reply, Succeeded, ShareIsKept
  <2>4. \/ iopsMay' = iopsMay
        \/ p \notin cancelled /\ op[p] = "modify" /\ reply[p].ok /\ iopsMay' = {arg[p]}
    BY <1>16 DEF Reply, Succeeded
  <2>5. share.iops \in iopsMay'
    BY <2>1, <2>4 DEF ShareIsKept
  <2>6. \A q \in Procs \ cancelled' : op'[q] = "modify" => arg'[q] \in iopsMay'
    BY <2>1, <2>2, <2>4 DEF ShareIsKept, OneLiveCall
  <2> QED
    BY <2>1, <2>2, <2>3, <2>5, <2>6 DEF ShareIsKept
<1>17. ASSUME NEW p \in Procs, GiveUp(p) PROVE ShareIsKept'
  <2>1. ShareIsKept
    BY <1>17, <1>a DEF GiveUp
  <2> QED
    BY <1>17, <1>b, <2>1 DEF GiveUp, ShareIsKept, LocalsInv
<1>18. CASE CacheExpires
  <2>1. ShareIsKept
    BY <1>18, <1>a DEF CacheExpires
  <2> QED
    BY <1>18, <1>b, <2>1 DEF CacheExpires, ShareIsKept, LocalsInv
<1>19. CASE Crash
  <2>1. ShareIsKept
    BY <1>19, <1>a DEF Crash
  <2> QED
    BY <1>19, <1>b, <2>1 DEF Crash, ShareIsKept, LocalsInv
<1>20. CASE UNCHANGED vars
  <2>1. ShareIsKept
    BY <1>20, <1>a DEF vars
  <2> QED
    BY <1>20, <1>b, <2>1 DEF vars, ShareIsKept, LocalsInv
<1> QED
  BY <1>1, <1>2, <1>3, <1>4, <1>5, <1>6, <1>7, <1>8, <1>9, <1>10, <1>11,
     <1>12, <1>13, <1>14, <1>15, <1>16, <1>17, <1>18, <1>19, <1>20
  DEF Next, Step

\* No step makes the share smaller but a race: what ControllerExpandVolume
\* writes is larger than what it has read, which is what the share still has.
LEMMA QuotaStep ==
    ASSUME TypeOK, LocalsInv, ShareInv, [Next]_vars
    PROVE  share'.quota >= share.quota \/ Raced'
<1> SUFFICES ASSUME ~Raced' PROVE share'.quota >= share.quota
  OBVIOUS
<1>1. share.quota \in Nat
  BY ShareOpsAssumption DEF TypeOK
<1>2. CASE UNCHANGED share
  BY <1>1, <1>2
<1>3. ASSUME NEW p \in Procs, UpdateFileShare(p), Land(p) PROVE share'.quota >= share.quota
  <2>1. pc[p] = "update" /\ flaws \subseteq flaws'
    BY <1>3 DEF UpdateFileShare, Land
  <2>2. ShareIsKept
    BY <2>1 DEF ShareInv, Raced
  <2>3. op[p] \in {"expand", "modify"} /\ (op[p] = "expand" => arg[p] \in Nat)
    BY <2>1, ShareOpsAssumption DEF LocalsInv, TypeOK
  <2> QED
    BY <1>1, <1>3, <2>1, <2>2, <2>3, LandStep
<1>4. UNCHANGED share \/ \E p \in Procs : UpdateFileShare(p) /\ Land(p)
  BY DEF Next, Step, CallExpand, CallModify, CallSnapshot, CallDeleteSnapshot, Call, GiveUp,
         ReadResizeFailureCache, UseDataPlaneAPI, GetFileShare, UpdateFileShare, ListSnapshots,
         GetSnapshot, CreateShareSnapshot, GetProperties, ReadSizeCache, GetQuota, DeleteSnapshot,
         Reply, CacheExpires, Crash, azure, vars
<1> QED
  BY <1>2, <1>3, <1>4

\* What CreateSnapshot answers covers the snapshot: the share is asked after it was
\* taken and has not become smaller, and a cached size that is too small is a flaw.
LEMMA SizeStep ==
    TypeOK /\ LocalsInv /\ IdInv /\ ShareInv /\ SizeInv /\ [Next]_vars => SizeInv'
<1> SUFFICES ASSUME TypeOK, LocalsInv, IdInv, ShareInv, SizeInv, [Next]_vars, ~Raced', ~Stale'
             PROVE  SizesCover'
  BY DEF SizeInv
<1> USE ShareOpsAssumption
    DEF azure, caches, rpc, co, bounds, Goto, Return, Error
<1>a. flaws \subseteq flaws' => ShareIsKept /\ SizesCover
  BY DEF ShareInv, SizeInv, Raced, Stale
<1>b. Done.ok /\ ~Failed.ok
  BY DEF Done, Failed
<1> USE DEF TypeOK, TakenSteps
<1>1. ASSUME NEW p \in Procs, CallExpand(p) PROVE SizesCover'
  <2>1. SizesCover
    BY <1>1, <1>a DEF CallExpand, Call
  <2> QED
    BY <1>1, <1>b, <2>1 DEF CallExpand, Call, SizesCover, LocalsInv
<1>2. ASSUME NEW p \in Procs, CallModify(p) PROVE SizesCover'
  <2>1. SizesCover
    BY <1>2, <1>a DEF CallModify, Call
  <2> QED
    BY <1>2, <1>b, <2>1 DEF CallModify, Call, SizesCover, LocalsInv
<1>3. ASSUME NEW p \in Procs, CallSnapshot(p) PROVE SizesCover'
  <2>1. SizesCover
    BY <1>3, <1>a DEF CallSnapshot, Call
  <2> QED
    BY <1>3, <1>b, <2>1 DEF CallSnapshot, Call, SizesCover, LocalsInv
<1>4. ASSUME NEW p \in Procs, CallDeleteSnapshot(p) PROVE SizesCover'
  <2>1. SizesCover
    BY <1>4, <1>a DEF CallDeleteSnapshot, Call
  <2> QED
    BY <1>4, <1>b, <2>1 DEF CallDeleteSnapshot, Call, SizesCover, LocalsInv
<1>5. ASSUME NEW p \in Procs, ReadResizeFailureCache(p) PROVE SizesCover'
  <2>1. SizesCover
    BY <1>5, <1>a DEF ReadResizeFailureCache
  <2> QED
    BY <1>5, <1>b, <2>1 DEF ReadResizeFailureCache, SizesCover, LocalsInv
<1>6. ASSUME NEW p \in Procs, UseDataPlaneAPI(p) PROVE SizesCover'
  <2>1. SizesCover
    BY <1>6, <1>a DEF UseDataPlaneAPI
  <2> QED
    BY <1>6, <1>b, <2>1 DEF UseDataPlaneAPI, SizesCover, LocalsInv
<1>7. ASSUME NEW p \in Procs, GetFileShare(p) PROVE SizesCover'
  <2>1. SizesCover
    BY <1>7, <1>a DEF GetFileShare
  <2> QED
    BY <1>7, <1>b, <2>1 DEF GetFileShare, SizesCover, LocalsInv
<1>8. ASSUME NEW p \in Procs, UpdateFileShare(p) PROVE SizesCover'
  <2>1. SizesCover
    BY <1>8, <1>a DEF UpdateFileShare, UpdateFails, Land
  <2> QED
    BY <1>8, <1>b, <2>1 DEF UpdateFileShare, UpdateFails, Land, SizesCover, LocalsInv
<1>9. ASSUME NEW p \in Procs, ListSnapshots(p) PROVE SizesCover'
  <2>1. SizesCover /\ UNCHANGED <<snaps, answers, op, seen>>
    BY <1>9, <1>a DEF ListSnapshots
  <2>2. pc[p] \notin TakenSteps /\ pc'[p] \notin TakenSteps /\ ~reply[p].ok
    BY <1>9 DEF ListSnapshots, Found, LocalsInv
  <2>3. \A q \in Procs \ {p} : pc'[q] = pc[q] /\ todo'[q] = todo[q] /\ reply'[q] = reply[q]
    BY <1>9 DEF ListSnapshots, Found
  <2>4. reply'[p].ok => \/ reply'[p].size = 0
                        \/ \E s \in snaps : reply'[p].id = s.id /\ reply'[p].size = s.quota
    BY <1>9, <1>b, <2>2 DEF ListSnapshots, Found, Named
  <2>5. \A s \in snaps : reply'[p].ok /\ reply'[p].id = s.id => reply'[p].size = 0 \/ reply'[p].size >= s.quota
    <3>1. \A s \in snaps : s.quota \in Nat
      OBVIOUS
    <3>2. \A s \in snaps : s.quota >= s.quota
      BY <3>1
    <3> QED
      BY <2>4, <3>2 DEF IdInv, IdsAreUnique
  <2> QED
    BY <2>1, <2>2, <2>3, <2>5 DEF SizesCover
<1>10. ASSUME NEW p \in Procs, GetSnapshot(p) PROVE SizesCover'
  <2>1. SizesCover /\ UNCHANGED <<snaps, answers, op, seen>>
    BY <1>10, <1>a DEF GetSnapshot
  <2>2. pc[p] \notin TakenSteps /\ pc'[p] \notin TakenSteps /\ ~reply[p].ok
    BY <1>10 DEF GetSnapshot, Found, LocalsInv
  <2>3. \A q \in Procs \ {p} : pc'[q] = pc[q] /\ todo'[q] = todo[q] /\ reply'[q] = reply[q]
    BY <1>10 DEF GetSnapshot, Found
  <2>4. reply'[p].ok => \/ reply'[p].size = 0
                        \/ \E s \in snaps : reply'[p].id = s.id /\ reply'[p].size = s.quota
    BY <1>10, <1>b, <2>2 DEF GetSnapshot, Found, Named
  <2>5. \A s \in snaps : reply'[p].ok /\ reply'[p].id = s.id => reply'[p].size = 0 \/ reply'[p].size >= s.quota
    <3>1. \A s \in snaps : s.quota \in Nat
      OBVIOUS
    <3>2. \A s \in snaps : s.quota >= s.quota
      BY <3>1
    <3> QED
      BY <2>4, <3>2 DEF IdInv, IdsAreUnique
  <2> QED
    BY <2>1, <2>2, <2>3, <2>5 DEF SizesCover
<1>11. ASSUME NEW p \in Procs, CreateShareSnapshot(p) PROVE SizesCover'
  <2>1. SizesCover /\ UNCHANGED <<share, answers, op>>
    BY <1>11, <1>a DEF CreateShareSnapshot, TakeSnapshot
  <2>2. pc[p] = "create" /\ ~reply[p].ok /\ share.quota \in Nat
    BY <1>11 DEF CreateShareSnapshot, LocalsInv
  <2>3. \A q \in Procs \ {p} : /\ pc'[q] = pc[q] /\ reply'[q] = reply[q]
                               /\ seen'[q] = seen[q] /\ todo'[q] = todo[q]
    BY <1>11 DEF CreateShareSnapshot
  <2>4. \A s \in snaps' : s \in snaps \/ (s.id = NextId /\ s.quota = share.quota)
    BY <1>11 DEF CreateShareSnapshot, TakeSnapshot
  <2>5. /\ \A s \in snaps : s.id # NextId
        /\ \A a \in answers : a.id # NextId
        /\ \A q \in Procs : NextId \notin todo[q]
        /\ \A q \in Procs : op[q] = "snapshot" /\ reply[q].ok => reply[q].id # NextId
    BY NextIdIsNew DEF AllIds, AnsweredIds, IdInv, IdsAreKnown
  <2>6. pc'[p] \in TakenSteps => todo'[p] = {NextId} /\ seen'[p].quota = share.quota
    BY <1>11 DEF CreateShareSnapshot
  <2>7. reply'[p].ok => reply'[p].id = NextId /\ reply'[p].size = share.quota
    BY <1>11, <1>b, <2>2 DEF CreateShareSnapshot
  <2>8. share.quota <= share.quota
    BY <2>2
  <2>9. \A a \in answers, s \in snaps' : a.id = s.id => a.size = 0 \/ a.size >= s.quota
    BY <2>1, <2>4, <2>5 DEF SizesCover
  <2>10. \A q \in Procs \ {p}, s \in snaps' :
           /\ pc'[q] \in TakenSteps /\ s.id \in todo'[q] => s.quota <= seen'[q].quota
           /\ op[q] = "snapshot" /\ reply'[q].ok /\ reply'[q].id = s.id
              => reply'[q].size = 0 \/ reply'[q].size >= s.quota
    BY <2>1, <2>3, <2>4, <2>5 DEF SizesCover
  <2>11. \A s \in snaps' :
           /\ pc'[p] \in TakenSteps /\ s.id \in todo'[p] => s.quota <= seen'[p].quota
           /\ reply'[p].ok /\ reply'[p].id = s.id => reply'[p].size >= s.quota
    BY <2>2, <2>4, <2>5, <2>6, <2>7, <2>8
  <2> QED
    BY <2>1, <2>9, <2>10, <2>11 DEF SizesCover
<1>12. ASSUME NEW p \in Procs, GetProperties(p) PROVE SizesCover'
  <2>1. SizesCover /\ ShareIsKept /\ UNCHANGED <<snaps, answers, op, seen, todo>>
    BY <1>12, <1>a DEF GetProperties, AnswerSize
  <2>2. pc[p] \in TakenSteps /\ op[p] = "snapshot" /\ seen[p] # None
    BY <1>12 DEF GetProperties, AnswerSize, LocalsInv, SnapshotSteps
  <2>3. \A q \in Procs \ {p} : pc'[q] = pc[q] /\ reply'[q] = reply[q]
    BY <1>12 DEF GetProperties, AnswerSize
  <2>4. Taken(p) \in todo[p]
    BY <2>2, TakenType
  <2>5. pc'[p] \in TakenSteps \/ pc'[p] = "return"
    BY <1>12 DEF GetProperties, AnswerSize
  <2>6. reply'[p].ok => \A s \in snaps : s.id = reply'[p].id => s.quota <= reply'[p].size
    BY <1>12, <2>1, <2>2, <1>b DEF GetProperties, AnswerSize, ShareIsKept, LocalsInv
  <2>7. \A s \in snaps : reply'[p].ok /\ s.id = reply'[p].id => reply'[p].size >= s.quota
    BY <2>6
  <2> QED
    BY <2>1, <2>2, <2>3, <2>5, <2>7 DEF SizesCover
<1>13. ASSUME NEW p \in Procs, ReadSizeCache(p) PROVE SizesCover'
  <2>1. SizesCover /\ ShareIsKept /\ UNCHANGED <<snaps, answers, op, seen, todo>>
    BY <1>13, <1>a DEF ReadSizeCache, AnswerSize
  <2>2. pc[p] \in TakenSteps /\ op[p] = "snapshot" /\ seen[p] # None
    BY <1>13 DEF ReadSizeCache, AnswerSize, LocalsInv, SnapshotSteps
  <2>3. \A q \in Procs \ {p} : pc'[q] = pc[q] /\ reply'[q] = reply[q]
    BY <1>13 DEF ReadSizeCache, AnswerSize
  <2>4. Taken(p) \in todo[p]
    BY <2>2, TakenType
  <2>5. pc'[p] \in TakenSteps \/ pc'[p] = "return"
    BY <1>13 DEF ReadSizeCache, AnswerSize
  <2>6. reply'[p].ok => \A s \in snaps : s.id = reply'[p].id => s.quota <= reply'[p].size
    <3>1. CASE sizeCache # 0 /\ AnswerSize(p, "sizeCache", sizeCache)
      <4>1. seen[p] \in [quota : Sizes, iops : Iops]
        BY <2>2
      <4>2. \A s \in snaps : s.quota \in Sizes
        OBVIOUS
      <4>3. Sizes \subseteq Nat /\ 0 \in Nat
        OBVIOUS
      <4>4. sizeCache \in Sizes \cup {0}
        OBVIOUS
      <4>5. sizeCache \in Nat /\ seen[p].quota \in Nat /\ \A s \in snaps : s.quota \in Nat
        BY <4>1, <4>2, <4>3, <4>4
      <4>6. ~(sizeCache < seen[p].quota) /\ pc[p] = "sizeCache"
        BY <1>13, <3>1 DEF ReadSizeCache, Stale, AnswerSize
      <4>7. sizeCache >= seen[p].quota
        BY <4>5, <4>6
      <4>8. \A s \in snaps : s.id = Taken(p) => s.quota <= seen[p].quota
        BY <2>1, <2>2, <2>4 DEF SizesCover
      <4>9. reply'[p].id = Taken(p) /\ reply'[p].size = sizeCache
        BY <3>1 DEF AnswerSize
      <4> QED
        BY <4>5, <4>7, <4>8, <4>9
    <3>2. CASE UNCHANGED reply
      BY <2>2, <3>2 DEF LocalsInv
    <3> QED
      BY <1>13, <3>1, <3>2 DEF ReadSizeCache
  <2>7. \A s \in snaps : reply'[p].ok /\ s.id = reply'[p].id => reply'[p].size >= s.quota
    BY <2>6
  <2> QED
    BY <2>1, <2>2, <2>3, <2>5, <2>7 DEF SizesCover
<1>14. ASSUME NEW p \in Procs, GetQuota(p) PROVE SizesCover'
  <2>1. SizesCover /\ ShareIsKept /\ UNCHANGED <<snaps, answers, op, seen, todo>>
    BY <1>14, <1>a DEF GetQuota, AnswerSize
  <2>2. pc[p] \in TakenSteps /\ op[p] = "snapshot" /\ seen[p] # None
    BY <1>14 DEF GetQuota, AnswerSize, LocalsInv, SnapshotSteps
  <2>3. \A q \in Procs \ {p} : pc'[q] = pc[q] /\ reply'[q] = reply[q]
    BY <1>14 DEF GetQuota, AnswerSize
  <2>4. Taken(p) \in todo[p]
    BY <2>2, TakenType
  <2>5. pc'[p] \in TakenSteps \/ pc'[p] = "return"
    BY <1>14 DEF GetQuota, AnswerSize
  <2>6. reply'[p].ok => \A s \in snaps : s.id = reply'[p].id => s.quota <= reply'[p].size
    BY <1>14, <2>1, <2>2, <1>b DEF GetQuota, AnswerSize, ShareIsKept, LocalsInv
  <2>7. \A s \in snaps : reply'[p].ok /\ s.id = reply'[p].id => reply'[p].size >= s.quota
    BY <2>6
  <2> QED
    BY <2>1, <2>2, <2>3, <2>5, <2>7 DEF SizesCover
<1>15. ASSUME NEW p \in Procs, DeleteSnapshot(p) PROVE SizesCover'
  <2>1. SizesCover
    BY <1>15, <1>a DEF DeleteSnapshot
  <2> QED
    BY <1>15, <1>b, <2>1 DEF DeleteSnapshot, SizesCover, LocalsInv
<1>16. ASSUME NEW p \in Procs, Reply(p) PROVE SizesCover'
  <2>1. SizesCover /\ UNCHANGED <<snaps>> /\ op'[p] = "none" /\ pc'[p] = "idle"
    BY <1>16, <1>a DEF Reply
  <2>2. \A q \in Procs \ {p} : /\ pc'[q] = pc[q] /\ op'[q] = op[q] /\ todo'[q] = todo[q]
                               /\ reply'[q] = reply[q] /\ seen'[q] = seen[q]
    BY <1>16 DEF Reply
  <2>3. \A a \in answers' :
           a \in answers \/ (op[p] = "snapshot" /\ reply[p].ok /\ a.id = reply[p].id /\ a.size = reply[p].size)
    <3>1. answers' # answers => /\ op[p] = "snapshot" /\ reply[p].ok
                                /\ answers' = answers \cup {[id |-> reply[p].id, name |-> arg[p],
                                                           size |-> reply[p].size]}
      BY <1>16 DEF Reply, Succeeded
    <3> DEFINE n == [id |-> reply[p].id, name |-> arg[p], size |-> reply[p].size]
    <3>2. n.id = reply[p].id /\ n.size = reply[p].size
      OBVIOUS
    <3>3. answers' # answers => op[p] = "snapshot" /\ reply[p].ok /\ answers' = answers \cup {n}
      BY <3>1
    <3> HIDE DEF n
    <3>4. \A a \in answers' : a \in answers \/ (answers' # answers /\ a = n)
      BY <3>3
    <3>5. ASSUME NEW a \in answers', a \notin answers
          PROVE  op[p] = "snapshot" /\ reply[p].ok /\ a.id = reply[p].id /\ a.size = reply[p].size
      <4>1. answers' # answers /\ a = n
        BY <3>4, <3>5
      <4>2. op[p] = "snapshot" /\ reply[p].ok
        BY <3>3, <4>1
      <4>3. a.id = reply[p].id /\ a.size = reply[p].size
        BY <3>2, <4>1
      <4> QED
        BY <4>2, <4>3
    <3> QED
      BY <3>5
  <2>4. \A a \in answers', s \in snaps : a.id = s.id => a.size = 0 \/ a.size >= s.quota
    BY <2>1, <2>3 DEF SizesCover
  <2> QED
    BY <2>1, <2>2, <2>4 DEF SizesCover
<1>17. ASSUME NEW p \in Procs, GiveUp(p) PROVE SizesCover'
  <2>1. SizesCover
    BY <1>17, <1>a DEF GiveUp
  <2> QED
    BY <1>17, <1>b, <2>1 DEF GiveUp, SizesCover, LocalsInv
<1>18. CASE CacheExpires
  <2>1. SizesCover
    BY <1>18, <1>a DEF CacheExpires
  <2> QED
    BY <1>18, <1>b, <2>1 DEF CacheExpires, SizesCover, LocalsInv
<1>19. CASE Crash
  <2>1. SizesCover
    BY <1>19, <1>a DEF Crash
  <2> QED
    BY <1>19, <1>b, <2>1 DEF Crash, SizesCover, LocalsInv
<1>20. CASE UNCHANGED vars
  <2>1. SizesCover
    BY <1>20, <1>a DEF vars
  <2> QED
    BY <1>20, <1>b, <2>1 DEF vars, SizesCover, LocalsInv
<1> QED
  BY <1>1, <1>2, <1>3, <1>4, <1>5, <1>6, <1>7, <1>8, <1>9, <1>10, <1>11,
     <1>12, <1>13, <1>14, <1>15, <1>16, <1>17, <1>18, <1>19, <1>20
  DEF Next, Step

-----------------------------------------------------------------------------
\* The initial state: a share of the smallest size, no snapshot and no RPC.
LEMMA InitInv == Init => IInv
<1> SUFFICES ASSUME Init PROVE IInv
  OBVIOUS
<1> USE ShareOpsAssumption, AnswerTypes DEF Init
<1>1. TypeOK
  <2>1. share \in [quota : Sizes, iops : Iops] /\ capacity \in Sizes /\ iopsMay \subseteq Iops
    OBVIOUS
  <2>2. /\ pc \in [Procs -> PCs] /\ op \in [Procs -> Ops \cup {"none"}]
        /\ arg \in [Procs -> Sizes \cup Iops \cup Names \cup Ids \cup {None}]
        /\ api \in [Procs -> {"mgmt", "data", None}]
        /\ seen \in [Procs -> [quota : Sizes, iops : Iops] \cup {None}]
        /\ todo \in [Procs -> SUBSET Ids] /\ reply \in [Procs -> Answer]
    BY DEF PCs, Ops
  <2>3. \A p \in Procs : op[p] = "none"
    OBVIOUS
  <2>4. dataPlaneAPIVolMap \in {"mgmt", "data"} /\ resizeFailure \in BOOLEAN
    OBVIOUS
  <2>5. calls \in 0..MaxCalls /\ faults \in 0..MaxFaults /\ crashes \in 0..MaxCrashes
    OBVIOUS
  <2> QED
    BY <2>1, <2>2, <2>3, <2>4, <2>5 DEF TypeOK
<1>2. LocalsInv /\ OneLiveCall
  BY DEF LocalsInv, OneLiveCall, SnapshotSteps, TakenSteps
<1>3. AllIds = {} /\ IdsAreUnique /\ IdsAreKnown
  BY DEF AllIds, AnsweredIds, IdsAreUnique, IdsAreKnown
<1>4. IdsAreCounted
  BY <1>3, FS_EmptySet DEF IdsAreCounted
<1>5. OneSnapshotPerName /\ SearchInv
  BY DEF OneSnapshotPerName, SearchInv, Named
<1>6. ShareIsKept /\ SizesCover
  BY <1>1 DEF ShareIsKept, SizesCover, TakenSteps, TypeOK
<1> QED
  BY <1>1, <1>2, <1>3, <1>4, <1>5, <1>6 DEF IInv, IdInv, ShareInv, SizeInv

\* IInv is inductive: each layer needs those before it.
LEMMA StepInv == IInv /\ [Next]_vars => IInv'
BY TypeStep, LocalsStep, IdStep, OneLiveCallStep, NameStep, ShareStep, SizeStep DEF IInv

\* IInv, the conjunction behind the theorems below, holds in every reachable state.
THEOREM Invariance == Spec => []IInv
BY InitInv, StepInv, PTL DEF Spec

\* Type correctness: among others, the management API is never sent a share that
\* was not read before.
THEOREM TypeCorrect == Spec => []TypeOK
<1>1. IInv => TypeOK
  BY DEF IInv
<1> QED
  BY <1>1, Invariance, PTL

\* CreateSnapshot is idempotent, whatever is retried, given up on or lost in a
\* restart: a second snapshot of one name exists only if one could not be read
\* (snapshotExists) or the request of a call that was given up on came late.
THEOREM SnapshotIdempotence == Spec => []OneSnapshotPerName
<1>1. IInv => OneSnapshotPerName
  BY DEF IInv
<1> QED
  BY <1>1, Invariance, PTL

\* The share stays as large as ControllerExpandVolume has confirmed, unless a
\* late update or a whole share written back takes the size away again.
THEOREM ExpansionIsKept == Spec => []ExpandedIsBigEnough
<1>1. IInv => ExpandedIsBigEnough
  BY DEF IInv, ShareInv, ShareIsKept, ExpandedIsBigEnough
<1> QED
  BY <1>1, Invariance, PTL

\* The IOPS that ControllerModifyVolume has confirmed stay, or give way to some
\* that were asked for later, with the same two exceptions.
THEOREM ModificationIsKept == Spec => []ModifiedIsKept
<1>1. IInv => ModifiedIsKept
  BY DEF IInv, ShareInv, ShareIsKept, ModifiedIsKept
<1> QED
  BY <1>1, Invariance, PTL

\* A volume of the size CreateSnapshot answers can hold the snapshot, unless the
\* share raced or getFileShareSizeCache was too old.
THEOREM AnswerCoversSnapshot == Spec => []SnapshotSizeCovers
<1>1. IInv => SnapshotSizeCovers
  BY DEF IInv, SizeInv, SizesCover, SnapshotSizeCovers
<1> QED
  BY <1>1, Invariance, PTL

\* No step of the driver makes the share smaller but such a race.
THEOREM NeverShrinks == Spec => QuotaNeverShrinks
<1>1. IInv /\ [Next]_vars => [share'.quota >= share.quota \/ Raced']_vars
  BY QuotaStep DEF IInv
<1> QED
  BY <1>1, Invariance, PTL DEF Spec, QuotaNeverShrinks
=============================================================================
