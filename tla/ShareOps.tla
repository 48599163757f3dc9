------------------------------- MODULE ShareOps ------------------------------
(***************************************************************************)
(* ControllerExpandVolume, ControllerModifyVolume, CreateSnapshot and      *)
(* DeleteSnapshot of one file share (controllerserver.go). None of them    *)
(* takes a lock: external-resizer, its modify controller and               *)
(* external-snapshotter call them side by side, each with one call         *)
(* outstanding, and give up on a call that takes too long.                 *)
(*                                                                         *)
(* Each goes to the management API or to the data plane. The first writes  *)
(* a share back whole, the second one property of it. A cancelled context  *)
(* makes requests fail, but one that is on its way may still take effect.  *)
(***************************************************************************)
EXTENDS Integers, FiniteSets

CONSTANTS
    Procs,        \* goroutines that serve RPCs
    Sizes,        \* sizes of the share in GiB
    Iops,         \* values of provisionedIops
    Names,        \* names of snapshots
    Apis,         \* the APIs of the instance: "mgmt", "data"
    None,
    MaxCalls,     \* bound: RPCs
    MaxFaults,    \* bound: requests that fail, or whose response is lost
    MaxCrashes    \* bound: restarts of the controller plugin

ASSUME ShareOpsAssumption ==
    /\ Sizes \subseteq Nat \ {0} /\ Sizes # {} /\ Iops # {}
    /\ Apis \subseteq {"mgmt", "data"}
    /\ None \notin Sizes \cup Iops \cup Names \cup [quota : Sizes, iops : Iops]
    /\ MaxCalls \in Nat /\ MaxFaults \in Nat /\ MaxCrashes \in Nat

VARIABLES
    \* Azure
    share,              \* [quota, iops]
    snaps,              \* snapshots: [id, name, quota]
    \* the driver
    dataPlaneAPIVolMap, \* the API CreateVolume noted for the volume
    resizeFailure,      \* resizeFileShareFailureCache has the account
    sizeCache,          \* getFileShareSizeCache of the share, or 0
    \* an RPC: its request, the API it uses, what it has read, its answer
    pc, op, arg, api, seen, todo, reply,
    \* the COs
    cancelled,          \* RPCs that were given up on
    capacity,           \* the size ControllerExpandVolume has confirmed
    iopsMay,            \* the IOPS last confirmed, and those asked for since
    answers,            \* CreateSnapshot's: [id, name, size]
    deleted,            \* IDs of snapshots it has sent DeleteSnapshot for
    \* history and bounds: which promise was broken how
    flaws,
    calls, faults, crashes

azure  == <<share, snaps>>
caches == <<dataPlaneAPIVolMap, resizeFailure, sizeCache>>
rpc    == <<op, arg, api, seen, todo>>
co     == <<cancelled, capacity, iopsMay, answers, deleted>>
bounds == <<calls, faults, crashes>>
vars   == <<azure, caches, pc, rpc, reply, co, flaws, bounds>>

Ids    == Nat \ {0}
Ops    == {"expand", "modify", "snapshot", "deleteSnapshot"}
PCs    == {"idle", "failureCache", "start", "get", "update", "list", "getSnapshot", "create",
           "properties", "sizeCache", "getQuota", "delete", "return"}
Answer == [id : Ids \cup {None}, size : Sizes \cup {0}, ok : BOOLEAN]
Failed == [id |-> None, size |-> 0, ok |-> FALSE]
Done   == [id |-> None, size |-> 0, ok |-> TRUE]

\* A whole-share write that undid the change of another RPC; an update that took
\* effect after its RPC was given up on; a cached size that was too small; a
\* snapshot that could not be read, or was taken after its RPC was given up on.
Flaws == ({"overwrote", "lateUpdate", "stale"} \X {None})
         \cup ({"unread", "late"} \X Names)

TypeOK ==
    /\ share \in [quota : Sizes, iops : Iops]
    /\ snaps \subseteq [id : Ids, name : Names, quota : Sizes]
    /\ dataPlaneAPIVolMap \in {"mgmt", "data"}
    /\ resizeFailure \in BOOLEAN
    /\ sizeCache \in Sizes \cup {0}
    /\ pc \in [Procs -> PCs]
    /\ op \in [Procs -> Ops \cup {"none"}]
    /\ arg \in [Procs -> Sizes \cup Iops \cup Names \cup Ids \cup {None}]
    /\ \A p \in Procs :
        /\ op[p] = "expand" => arg[p] \in Sizes
        /\ op[p] = "modify" => arg[p] \in Iops
        /\ op[p] = "snapshot" => arg[p] \in Names
        /\ op[p] = "deleteSnapshot" => arg[p] \in Ids
    /\ api \in [Procs -> {"mgmt", "data", None}]
    /\ seen \in [Procs -> [quota : Sizes, iops : Iops] \cup {None}]
    /\ todo \in [Procs -> SUBSET Ids]
    /\ reply \in [Procs -> Answer]
    /\ cancelled \subseteq Procs
    /\ capacity \in Sizes
    /\ iopsMay \subseteq Iops
    /\ answers \subseteq [id : Ids, name : Names, size : Sizes \cup {0}]
    /\ deleted \subseteq Ids
    /\ flaws \subseteq Flaws
    /\ calls \in 0..MaxCalls /\ faults \in 0..MaxFaults /\ crashes \in 0..MaxCrashes

Init ==
    /\ \E q \in Sizes, i \in Iops :
        /\ \A s \in Sizes : q <= s
        /\ share = [quota |-> q, iops |-> i]
        /\ capacity = q
        /\ iopsMay = {i}
    /\ snaps = {}
    /\ dataPlaneAPIVolMap \in Apis
    /\ resizeFailure = FALSE
    /\ sizeCache = 0
    /\ pc = [p \in Procs |-> "idle"]
    /\ op = [p \in Procs |-> "none"]
    /\ arg = [p \in Procs |-> None]
    /\ api = [p \in Procs |-> None]
    /\ seen = [p \in Procs |-> None]
    /\ todo = [p \in Procs |-> {}]
    /\ reply = [p \in Procs |-> Failed]
    /\ cancelled = {} /\ answers = {} /\ deleted = {} /\ flaws = {}
    /\ calls = 0 /\ faults = 0 /\ crashes = 0

Goto(p, from, to) == pc[p] = from /\ pc' = [pc EXCEPT ![p] = to]

Return(p, from, r) == Goto(p, from, "return") /\ reply' = [reply EXCEPT ![p] = r]

\* A request fails if its context is cancelled, and may fail otherwise.
RequestFails(p) ==
    \/ p \in cancelled /\ UNCHANGED faults
    \/ p \notin cancelled /\ faults < MaxFaults /\ faults' = faults + 1

RequestSucceeds(p) == p \notin cancelled /\ UNCHANGED faults

Error(p, from) == Return(p, from, Failed) /\ RequestFails(p)

-----------------------------------------------------------------------------
(***************************************************************************)
(* The COs                                                                 *)
(***************************************************************************)
Call(p, o, a, first) ==
    /\ pc[p] = "idle"
    /\ \A q \in Procs \ cancelled : pc[q] # "idle" => op[q] # o
    /\ calls < MaxCalls
    /\ calls' = calls + 1
    /\ pc' = [pc EXCEPT ![p] = first]
    /\ op' = [op EXCEPT ![p] = o]
    /\ arg' = [arg EXCEPT ![p] = a]
    /\ UNCHANGED <<azure, caches, api, seen, todo, reply, cancelled, capacity, answers, flaws,
                   faults, crashes>>

CallExpand(p) ==
    /\ \E s \in Sizes : s > capacity /\ Call(p, "expand", s, "failureCache")
    /\ UNCHANGED <<iopsMay, deleted>>

CallModify(p) ==
    /\ \E i \in Iops : Call(p, "modify", i, "start") /\ iopsMay' = iopsMay \cup {i}
    /\ UNCHANGED deleted

\* Sent again until it succeeds; a name is not used again.
CallSnapshot(p) ==
    /\ \E n \in Names :
        /\ \A a \in answers : a.name # n
        /\ Call(p, "snapshot", n, "start")
    /\ UNCHANGED <<iopsMay, deleted>>

CallDeleteSnapshot(p) ==
    /\ \E a \in answers : Call(p, "deleteSnapshot", a.id, "delete") /\ deleted' = deleted \cup {a.id}
    /\ UNCHANGED iopsMay

GiveUp(p) ==
    /\ pc[p] # "idle" /\ p \notin cancelled
    /\ cancelled' = cancelled \cup {p}
    /\ UNCHANGED <<azure, caches, pc, rpc, reply, capacity, iopsMay, answers, deleted, flaws, bounds>>

-----------------------------------------------------------------------------
(***************************************************************************)
(* ControllerExpandVolume and ControllerModifyVolume                       *)
(***************************************************************************)

\* An account that was over its limit minutes ago is left alone.
ReadResizeFailureCache(p) ==
    /\ \/ resizeFailure /\ Return(p, "failureCache", Failed)
       \/ ~resizeFailure /\ Goto(p, "failureCache", "start") /\ UNCHANGED reply
    /\ UNCHANGED <<azure, caches, rpc, co, flaws, bounds>>

\* dataPlaneAPIVolMap is empty after a restart. What is put into
\* dataPlaneAPIAccountCache for a throttled account is "", no API at all.
UseDataPlaneAPI(p) ==
    /\ api' = [api EXCEPT ![p] = dataPlaneAPIVolMap]
    /\ Goto(p, "start", CASE op[p] = "snapshot" -> "list"
                          [] op[p] = "modify" /\ dataPlaneAPIVolMap = "data" -> "update"
                          [] OTHER -> "get")
    /\ UNCHANGED <<azure, caches, op, arg, seen, todo, reply, co, flaws, bounds>>

\* Mutant: the size the share has is not looked at.
GetFileShareAlways(p) ==
    /\ \/ /\ RequestSucceeds(p)
          /\ seen' = [seen EXCEPT ![p] = share]
          /\ Goto(p, "get", "update") /\ UNCHANGED reply
       \/ Error(p, "get") /\ UNCHANGED seen
    /\ UNCHANGED <<azure, caches, op, arg, api, todo, co, flaws, calls, crashes>>

\* A share that is as large as requested is left as it is. An error of the data
\* plane may be tried again.
GetFileShare(p) ==
    /\ \/ /\ RequestSucceeds(p)
          /\ seen' = [seen EXCEPT ![p] = share]
          /\ IF op[p] = "expand" /\ share.quota >= arg[p]
             THEN Return(p, "get", Done)
             ELSE Goto(p, "get", "update") /\ UNCHANGED reply
       \/ Error(p, "get") /\ UNCHANGED seen
       \/ api[p] = "data" /\ pc[p] = "get" /\ RequestFails(p) /\ UNCHANGED <<pc, seen, reply>>
    /\ UNCHANGED <<azure, caches, op, arg, api, todo, co, flaws, calls, crashes>>

\* Mutant: the size is rounded up once too often.
WrittenRoundedUp(p) ==
    IF op[p] = "expand" THEN [share EXCEPT !.quota = arg[p] + 1] ELSE [share EXCEPT !.iops = arg[p]]

\* The management API gets the share as it was read, with one property changed.
Written(p) ==
    LET base == IF api[p] = "mgmt" THEN seen[p] ELSE share
    IN IF op[p] = "expand" THEN [base EXCEPT !.quota = arg[p]] ELSE [base EXCEPT !.iops = arg[p]]

Undoes(p) ==
    IF op[p] = "expand" THEN Written(p).iops # share.iops ELSE Written(p).quota # share.quota

Land(p) ==
    /\ share' = Written(p)
    /\ flaws' = flaws \cup {f \in {<<"overwrote", None>>} : Undoes(p)}
                      \cup {f \in {<<"lateUpdate", None>>} : p \in cancelled}

\* Mutant: an error that can be retried is taken for a success.
UpdateFailsQuietly(p) ==
    /\ RequestFails(p)
    /\ Return(p, "update", Done)
    /\ UNCHANGED resizeFailure

\* An error that can be retried starts over; others, and the last one, are the
\* answer. Of an account over its limit the expansion is not tried for a while.
UpdateFails(p) ==
    /\ RequestFails(p)
    /\ \/ Goto(p, "update", IF op[p] = "modify" /\ api[p] = "data" THEN "update" ELSE "get")
          /\ UNCHANGED <<resizeFailure, reply>>
       \/ /\ Return(p, "update", Failed)
          /\ UNCHANGED resizeFailure \/ (op[p] = "expand" /\ resizeFailure' = TRUE)

UpdateFileShare(p) ==
    /\ pc[p] = "update"
    /\ \/ RequestSucceeds(p) /\ Land(p) /\ Return(p, "update", Done) /\ UNCHANGED resizeFailure
       \/ UpdateFails(p) /\ (Land(p) \/ UNCHANGED <<share, flaws>>)
    /\ UNCHANGED <<snaps, dataPlaneAPIVolMap, sizeCache, rpc, co, calls, crashes>>

-----------------------------------------------------------------------------
(***************************************************************************)
(* CreateSnapshot and DeleteSnapshot                                       *)
(***************************************************************************)
Named(n) == {s \in snaps : s.name = n}

Found(p, from, s) == Return(p, from, [id |-> s.id, size |-> s.quota, ok |-> TRUE])

\* Mutant: the data plane is not asked for the metadata.
ListSnapshotsWithoutNames(p) ==
    /\ pc[p] = "list"
    /\ \/ /\ RequestSucceeds(p)
          /\ Goto(p, "list", IF api[p] = "data" THEN "create" ELSE "getSnapshot")
          /\ todo' = [todo EXCEPT ![p] = {s.id : s \in snaps}]
          /\ UNCHANGED reply
       \/ Error(p, "list") /\ UNCHANGED todo
    /\ UNCHANGED <<azure, caches, op, arg, api, seen, co, flaws, calls, crashes>>

\* snapshotExists: the data plane lists the snapshots with their metadata, the
\* management API without.
ListSnapshots(p) ==
    /\ pc[p] = "list"
    /\ \/ /\ RequestSucceeds(p) /\ api[p] = "data"
          /\ \/ \E s \in Named(arg[p]) : Found(p, "list", s)
             \/ Named(arg[p]) = {} /\ Goto(p, "list", "create") /\ UNCHANGED reply
          /\ UNCHANGED todo
       \/ /\ RequestSucceeds(p) /\ api[p] = "mgmt"
          /\ todo' = [todo EXCEPT ![p] = {s.id : s \in snaps}]
          /\ Goto(p, "list", "getSnapshot")
          /\ UNCHANGED reply
       \/ Error(p, "list") /\ UNCHANGED todo
    /\ UNCHANGED <<azure, caches, op, arg, api, seen, co, flaws, calls, crashes>>

\* Each of the list is read until one has the name. If one cannot be read the
\* snapshot counts as not found. The list may give its size, or none.
GetSnapshot(p) ==
    /\ pc[p] = "getSnapshot"
    /\ \/ /\ todo[p] = {}
          /\ Goto(p, "getSnapshot", "create")
          /\ UNCHANGED <<todo, reply, flaws, faults>>
       \/ /\ RequestSucceeds(p)
          /\ \E s \in snaps :
              /\ s.id \in todo[p]
              /\ todo' = [todo EXCEPT ![p] = @ \ {s.id}]
              /\ IF s.name = arg[p]
                 THEN \/ Found(p, "getSnapshot", s)
                      \/ Return(p, "getSnapshot", [id |-> s.id, size |-> 0, ok |-> TRUE])
                 ELSE UNCHANGED <<pc, reply>>
          /\ UNCHANGED flaws
       \/ /\ todo[p] # {}
          /\ RequestFails(p) \/ (RequestSucceeds(p) /\ ~ \A i \in todo[p] : \E s \in snaps : s.id = i)
          /\ Goto(p, "getSnapshot", "create")
          /\ flaws' = flaws \cup {<<"unread", arg[p]>>}
          /\ UNCHANGED <<todo, reply>>
    /\ UNCHANGED <<azure, caches, op, arg, api, seen, co, calls, crashes>>

\* The snapshots ever taken: only one that was answered is deleted.
AnsweredIds == {a.id : a \in answers}
AllIds == AnsweredIds \cup {s.id : s \in snaps}

NextId == 1 + Cardinality(AllIds)

TakeSnapshot(p) ==
    /\ snaps' = snaps \cup {[id |-> NextId, name |-> arg[p], quota |-> share.quota]}
    /\ flaws' = flaws \cup {f \in {<<"late", arg[p]>>} : p \in cancelled}

\* The response of the management API may lack the size.
CreateShareSnapshot(p) ==
    /\ pc[p] = "create"
    /\ \/ /\ RequestSucceeds(p) /\ TakeSnapshot(p)
          /\ seen' = [seen EXCEPT ![p] = share]
          /\ IF api[p] = "data" THEN Goto(p, "create", "properties") /\ UNCHANGED reply
             ELSE \/ Return(p, "create", [id |-> NextId, size |-> share.quota, ok |-> TRUE])
                  \/ Goto(p, "create", "sizeCache") /\ UNCHANGED reply
          /\ todo' = [todo EXCEPT ![p] = {NextId}]
       \/ /\ Error(p, "create")
          /\ TakeSnapshot(p) \/ UNCHANGED <<snaps, flaws>>
          /\ UNCHANGED <<seen, todo>>
    /\ UNCHANGED <<share, caches, op, arg, api, co, calls, crashes>>

Taken(p) == CHOOSE i \in todo[p] : TRUE

AnswerSize(p, from, s) == Return(p, from, [id |-> Taken(p), size |-> s, ok |-> TRUE])

\* The size of the share, not of the snapshot
GetProperties(p) ==
    /\ pc[p] = "properties"
    /\ \/ RequestSucceeds(p) /\ AnswerSize(p, "properties", share.quota)
       \/ Error(p, "properties")
    /\ UNCHANGED <<azure, caches, rpc, co, flaws, calls, crashes>>

\* ControllerExpandVolume does not touch the cached size.
ReadSizeCache(p) ==
    /\ \/ /\ sizeCache # 0 /\ AnswerSize(p, "sizeCache", sizeCache)
          /\ flaws' = flaws \cup {f \in {<<"stale", None>>} : sizeCache < seen[p].quota}
       \/ sizeCache = 0 /\ Goto(p, "sizeCache", "getQuota") /\ UNCHANGED <<reply, flaws>>
    /\ UNCHANGED <<azure, caches, rpc, co, bounds>>

\* Mutant: the default size is taken for the size of the share.
GetQuotaDefault(p) ==
    /\ \E q \in Sizes :
        /\ \A s \in Sizes : q <= s
        /\ AnswerSize(p, "getQuota", q)
        /\ sizeCache' = q
    /\ UNCHANGED <<azure, dataPlaneAPIVolMap, resizeFailure, rpc, co, flaws, bounds>>

GetQuota(p) ==
    /\ pc[p] = "getQuota"
    /\ \/ /\ RequestSucceeds(p) /\ AnswerSize(p, "getQuota", share.quota)
          /\ sizeCache' = share.quota
       \/ Error(p, "getQuota") /\ UNCHANGED sizeCache
    /\ UNCHANGED <<azure, dataPlaneAPIVolMap, resizeFailure, rpc, co, flaws, calls, crashes>>

\* A snapshot that is not there is a success.
DeleteSnapshot(p) ==
    /\ pc[p] = "delete"
    /\ \/ RequestSucceeds(p) /\ Return(p, "delete", Done) /\ snaps' = {s \in snaps : s.id # arg[p]}
       \/ Error(p, "delete") /\ snaps' \in {snaps, {s \in snaps : s.id # arg[p]}}
    /\ UNCHANGED <<share, caches, rpc, co, flaws, calls, crashes>>

-----------------------------------------------------------------------------
Succeeded(p, o) == p \notin cancelled /\ reply[p].ok /\ op[p] = o

Reply(p) ==
    /\ Goto(p, "return", "idle")
    /\ capacity' = IF Succeeded(p, "expand") THEN arg[p] ELSE capacity
    /\ iopsMay' = IF Succeeded(p, "modify") THEN {arg[p]} ELSE iopsMay
    /\ answers' = answers \cup {[id |-> reply[p].id, name |-> arg[p], size |-> reply[p].size] :
                                o \in {x \in {"snapshot"} : Succeeded(p, x)}}
    /\ cancelled' = cancelled \ {p}
    /\ op' = [op EXCEPT ![p] = "none"]
    /\ arg' = [arg EXCEPT ![p] = None]
    /\ reply' = [reply EXCEPT ![p] = Failed]
    /\ api' = [api EXCEPT ![p] = None]
    /\ seen' = [seen EXCEPT ![p] = None]
    /\ todo' = [todo EXCEPT ![p] = {}]
    /\ UNCHANGED <<azure, caches, deleted, flaws, bounds>>

CacheExpires ==
    /\ \/ resizeFailure' = FALSE /\ UNCHANGED sizeCache
       \/ sizeCache' = 0 /\ UNCHANGED resizeFailure
    /\ UNCHANGED <<azure, dataPlaneAPIVolMap, pc, rpc, reply, co, flaws, bounds>>

\* Azure keeps what it has; what was on its way is as good as a lost response.
Crash ==
    /\ crashes < MaxCrashes
    /\ crashes' = crashes + 1
    /\ dataPlaneAPIVolMap' = "mgmt"
    /\ resizeFailure' = FALSE
    /\ sizeCache' = 0
    /\ pc' = [p \in Procs |-> "idle"]
    /\ op' = [p \in Procs |-> "none"]
    /\ arg' = [p \in Procs |-> None]
    /\ reply' = [p \in Procs |-> Failed]
    /\ cancelled' = {}
    /\ api' = [p \in Procs |-> None]
    /\ seen' = [p \in Procs |-> None]
    /\ todo' = [p \in Procs |-> {}]
    /\ UNCHANGED <<azure, capacity, iopsMay, answers, deleted, flaws, calls, faults>>

Step(p) ==
    \/ ReadResizeFailureCache(p) \/ UseDataPlaneAPI(p) \/ GetFileShare(p) \/ UpdateFileShare(p)
    \/ ListSnapshots(p) \/ GetSnapshot(p) \/ CreateShareSnapshot(p) \/ GetProperties(p)
    \/ ReadSizeCache(p) \/ GetQuota(p) \/ DeleteSnapshot(p) \/ Reply(p)

Next ==
    \/ \E p \in Procs :
        \/ CallExpand(p) \/ CallModify(p) \/ CallSnapshot(p) \/ CallDeleteSnapshot(p)
        \/ Step(p) \/ GiveUp(p)
    \/ CacheExpires
    \/ Crash

Spec == Init /\ [][Next]_vars

-----------------------------------------------------------------------------
(***************************************************************************)
(* Properties. They say which of the races and faults of the model can     *)
(* break a promise, and that nothing else does: with the data plane only a *)
(* request that overtakes its own cancellation, with the management API    *)
(* also one RPC that writes back what another has changed.                 *)
(***************************************************************************)
Raced == {<<"overwrote", None>>, <<"lateUpdate", None>>} \cap flaws # {}

Stale == <<"stale", None>> \in flaws

\* "Volume MUST be at least this big" (csi.pb.go:1436): the share is, from then
\* on, as large as ControllerExpandVolume has confirmed.
ExpandedIsBigEnough ==
    share.quota >= capacity \/ Raced

\* No step makes the share smaller, whatever sizes are asked for: ResizeFileShare
\* leaves a share alone that is large enough.
QuotaNeverShrinks ==
    [][share'.quota >= share.quota \/ Raced']_vars

\* The share has the IOPS ControllerModifyVolume has confirmed last, or some that
\* were asked for since, whatever expansions run next to it.
ModifiedIsKept ==
    share.iops \in iopsMay \/ Raced

\* CreateSnapshot is idempotent: retried after a lost response, a timeout or a
\* restart it finds the snapshot of that name (snapshotExists).
OneSnapshotPerName ==
    \A s, t \in snaps :
        /\ s.name = t.name
        /\ {<<"unread", s.name>>, <<"late", s.name>>} \cap flaws = {}
        => s = t

\* A volume of the size CreateSnapshot answered can hold the snapshot; size 0
\* stands for unknown.
SnapshotSizeCovers ==
    \A a \in answers, s \in snaps :
        a.id = s.id => a.size = 0 \/ a.size >= s.quota \/ Raced \/ Stale

-----------------------------------------------------------------------------
(***************************************************************************)
(* The inductive invariant behind the theorems of ShareOpsProofs.          *)
(***************************************************************************)

\* What each step may rely on.
SnapshotSteps == {"list", "getSnapshot", "create", "properties", "sizeCache", "getQuota"}
TakenSteps    == {"properties", "sizeCache", "getQuota"}

LocalsInv ==
    \A p \in Procs :
        /\ pc[p] = "idle" <=> op[p] = "none"
        /\ pc[p] = "failureCache" => op[p] = "expand"
        /\ pc[p] = "start" => op[p] # "deleteSnapshot"
        /\ pc[p] \in {"get", "update"} => op[p] \in {"expand", "modify"}
        /\ pc[p] \in SnapshotSteps => op[p] = "snapshot"
        /\ pc[p] = "delete" => op[p] = "deleteSnapshot"
        /\ pc[p] = "update" /\ api[p] = "mgmt" => seen[p] # None
        /\ pc[p] = "update" /\ op[p] = "expand" => seen[p] # None /\ seen[p].quota < arg[p]
        /\ pc[p] \in TakenSteps => seen[p] # None /\ todo[p] # {}
        /\ reply[p].ok => pc[p] = "return"

\* A new ID is new, no two snapshots share one, and every ID an RPC holds was
\* given to a snapshot.
IdsAreCounted == IsFiniteSet(AllIds) /\ AllIds = 1..Cardinality(AllIds)

IdsAreUnique == \A s, t \in snaps : s.id = t.id => s = t

IdsAreKnown ==
    \A p \in Procs :
        /\ todo[p] \subseteq AllIds
        /\ op[p] = "deleteSnapshot" => arg[p] \in AnsweredIds
        /\ op[p] = "snapshot" /\ reply[p].ok => reply[p].id \in AllIds

IdInv == IdsAreCounted /\ IdsAreUnique /\ IdsAreKnown

\* Each CO has one call outstanding.
OneLiveCall ==
    \A p, q \in Procs \ cancelled : op[p] # "none" /\ op[p] = op[q] => p = q

\* A snapshot of the name that is there is still to be read, and none is there
\* when one is about to be taken.
SearchInv ==
    \A p \in Procs \ cancelled :
        /\ op[p] = "snapshot"
        /\ {<<"unread", arg[p]>>, <<"late", arg[p]>>} \cap flaws = {}
        => /\ pc[p] = "getSnapshot" => {s.id : s \in Named(arg[p])} \subseteq todo[p]
           /\ pc[p] = "create" => Named(arg[p]) = {}

\* The share is what the RPC that is not given up on has read or written.
ShareIsKept ==
    /\ share.quota >= capacity
    /\ share.iops \in iopsMay
    /\ \A s \in snaps : s.quota <= share.quota
    /\ \A p \in Procs \ cancelled :
        /\ op[p] = "expand" /\ pc[p] = "update" => seen[p].quota = share.quota
        /\ op[p] = "expand" /\ reply[p].ok => share.quota >= arg[p]
        /\ op[p] = "modify" => arg[p] \in iopsMay
        /\ op[p] = "modify" /\ reply[p].ok => share.iops = arg[p]

\* An answer, also one on its way, covers its snapshot.
SizesCover ==
    /\ \A a \in answers, s \in snaps : a.id = s.id => a.size = 0 \/ a.size >= s.quota
    /\ \A p \in Procs, s \in snaps :
        /\ pc[p] \in TakenSteps /\ s.id \in todo[p] => s.quota <= seen[p].quota
        /\ op[p] = "snapshot" /\ reply[p].ok /\ reply[p].id = s.id
           => reply[p].size = 0 \/ reply[p].size >= s.quota

ShareInv == Raced \/ ShareIsKept
SizeInv  == Raced \/ Stale \/ SizesCover

IInv ==
    /\ TypeOK /\ LocalsInv /\ IdInv /\ OneLiveCall
    /\ OneSnapshotPerName /\ SearchInv /\ ShareInv /\ SizeInv
=============================================================================
