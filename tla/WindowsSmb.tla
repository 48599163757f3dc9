----------------------------- MODULE WindowsSmb -----------------------------
(***************************************************************************)
(* SMB volumes on a Windows node (pkg/mounter, pkg/os/smb and what the     *)
(* node service does of them on Windows): the volumes of one share.        *)
(*                                                                         *)
(* The node has one SMB global mapping per share, and each volume is a     *)
(* symbolic link to the remote path. SMBMount reconciles the mapping and   *)
(* then links; Unmount takes the mapping away with the last link it sees   *)
(* among the global mounts, and then the link. Both do so under a lock of  *)
(* the remote path in lower case. The links of inline volumes are          *)
(* elsewhere, and links are compared as they are spelled.                  *)
(***************************************************************************)
EXTENDS Integers

CONSTANTS
    Procs,        \* goroutines of the node service
    Targets,      \* staging paths, and target paths of inline volumes
    Inline,       \* the latter
    RemoteOf,     \* target -> the remote path of its volume, as it is spelled
    None,
    MaxCalls,     \* bound: RPCs kubelet sends
    MaxFaults     \* bound: requests that fail, mappings that break, restarts, timeouts

Remotes == {RemoteOf[t] : t \in Targets}

ASSUME WindowsAssumption ==
    /\ Inline \subseteq Targets
    /\ None \notin Remotes \cup Procs \cup Targets
    /\ MaxCalls \in Nat /\ MaxFaults \in Nat

VARIABLES
    \* the node
    mapping,      \* "NotFound", "OK", "Invalid" (OK, path out of reach), "Disconnected", "Other"
    link,         \* target -> the remote path its link points to, or None
    lock,         \* holder of the lock of the remote path
    \* a goroutine: where it is, what it is, its target, and whether its RPC is over
    pc, op, target, late,
    \* kubelet
    staged,       \* target -> "no", "maybe" (a call was sent) or "yes"
    \* history and bounds
    cut,          \* targets whose mapping was taken away although they are linked
    leaked,       \* a mapping was left although nothing may need it
    calls, faults

node == <<mapping, link>>
hist == <<cut, leaked>>
vars == <<node, lock, pc, op, target, late, staged, hist, calls, faults>>

Inside == {"status", "removeStale", "new", "symlink", "checkDup", "removeMapping", "rmdirLocked"}
PCs == {"idle", "ensure", "readLink", "lockUnmount", "rmdir", "prepare", "lockMount"} \cup Inside

\* The lock is held by the goroutine that is inside, and by nobody otherwise.
TypeOK ==
    /\ mapping \in {"NotFound", "OK", "Invalid", "Disconnected", "Other"}
    /\ link \in [Targets -> Remotes \cup {None}]
    /\ lock \in Procs \cup {None}
    /\ pc \in [Procs -> PCs]
    /\ op \in [Procs -> {"stage", "unstage", "none"}]
    /\ target \in [Procs -> Targets \cup {None}]
    /\ late \subseteq Procs
    /\ staged \in [Targets -> {"no", "maybe", "yes"}]
    /\ cut \subseteq Targets /\ leaked \in BOOLEAN
    /\ calls \in 0..MaxCalls /\ faults \in 0..MaxFaults
    /\ \A p \in Procs : pc[p] \in Inside <=> lock = p

Init ==
    /\ mapping = "NotFound"
    /\ link = [t \in Targets |-> None]
    /\ lock = None
    /\ pc = [p \in Procs |-> "idle"]
    /\ op = [p \in Procs |-> "none"]
    /\ target = [p \in Procs |-> None]
    /\ late = {}
    /\ staged = [t \in Targets |-> "no"]
    /\ cut = {} /\ leaked = FALSE
    /\ calls = 0 /\ faults = 0

Goto(p, from, to) ==
    /\ pc[p] = from
    /\ pc' = [pc EXCEPT ![p] = to]

Fault == faults < MaxFaults /\ faults' = faults + 1

Linked == {t \in Targets : link[t] # None}

-----------------------------------------------------------------------------
(***************************************************************************)
(* Kubelet, one call at a time per target, and the end of a call. A call   *)
(* that fails leaves kubelet uncertain.                                    *)
(***************************************************************************)
Serving(t) == \E p \in Procs \ late : pc[p] # "idle" /\ target[p] = t

Call(p, o, t, first) ==
    /\ Goto(p, "idle", first)
    /\ ~Serving(t)
    /\ calls < MaxCalls
    /\ calls' = calls + 1
    /\ op' = [op EXCEPT ![p] = o]
    /\ target' = [target EXCEPT ![p] = t]
    /\ staged' = [staged EXCEPT ![t] = "maybe"]
    /\ cut' = cut \ {t}
    /\ UNCHANGED <<node, lock, late, leaked, faults>>

\* NodeStageVolume, which NodePublishVolume calls for an inline volume.
CallStage(p, t) == staged[t] # "yes" /\ Call(p, "stage", t, "ensure")

\* NodeUnstageVolume unmounts; NodeUnpublishVolume of an inline volume removes
\* the link only.
CallUnstage(p, t) ==
    staged[t] # "no" /\ Call(p, "unstage", t, IF t \in Inline THEN "rmdir" ELSE "readLink")

\* The goroutine ends, and with it the RPC if that is not over.
End(p, answer) ==
    /\ pc' = [pc EXCEPT ![p] = "idle"]
    /\ op' = [op EXCEPT ![p] = "none"]
    /\ target' = [target EXCEPT ![p] = None]
    /\ late' = late \ {p}
    /\ staged' = IF answer = "err" \/ p \in late THEN staged
                 ELSE [staged EXCEPT ![target[p]] = IF op[p] = "stage" THEN "yes" ELSE "no"]

Locals == <<op, target, late, staged>>

\* Mutant: only the goroutine whose RPC is not over gives the lock back.
UnlockKeyInTime(p) == lock' = IF lock = p /\ p \notin late THEN None ELSE lock

\* The deferred UnlockKey.
UnlockKey(p) == lock' = IF lock = p THEN None ELSE lock

-----------------------------------------------------------------------------
(***************************************************************************)
(* NodeStageVolume up to the mount.                                        *)
(***************************************************************************)

\* ensureMountPoint: a link to a path within reach is mounted. A link to a path
\* out of reach is no mount point, or an error, or found only by ReadDir to be
\* stale; then it is unmounted.
EnsureMountPoint(p) ==
    /\ pc[p] = "ensure"
    /\ LET here == link[target[p]]
       IN  \/ /\ here # None /\ mapping = "OK"
              /\ End(p, "ok")
           \/ /\ here # None /\ mapping # "OK"
              /\ End(p, "err")
           \/ /\ here # None /\ mapping # "OK"
              /\ Goto(p, "ensure", "readLink") /\ UNCHANGED Locals
           \/ /\ here = None \/ mapping # "OK"
              /\ Goto(p, "ensure", "prepare") /\ UNCHANGED Locals
    /\ UNCHANGED <<node, lock, hist, calls, faults>>

\* prepareStagePath: what is at the target goes.
PrepareStagePath(p) ==
    /\ Goto(p, "prepare", "lockMount")
    /\ link' = [link EXCEPT ![target[p]] = None]
    /\ UNCHANGED <<mapping, lock, Locals, hist, calls, faults>>

\* WaitUntilTimeout: the call is answered with an error and unlocks the volume;
\* the goroutine of SMBMount goes on.
MountTimesOut(p) ==
    /\ op[p] = "stage" /\ p \notin late
    /\ pc[p] \in {"lockMount", "status", "removeStale", "new", "symlink"}
    /\ Fault
    /\ late' = late \cup {p}
    /\ UNCHANGED <<node, lock, pc, op, target, staged, hist, calls>>

-----------------------------------------------------------------------------
(***************************************************************************)
(* SMBMount. remotePathLocks is held until the link is there.              *)
(***************************************************************************)
LockForMount(p) ==
    /\ Goto(p, "lockMount", "status")
    /\ lock = None
    /\ lock' = p
    /\ UNCHANGED <<node, Locals, hist, calls, faults>>

\* A mapping that is not used is not taken away again.
MountFails(p) ==
    /\ End(p, "err")
    /\ UnlockKey(p)
    /\ leaked' = (leaked \/ mapping' # "NotFound")

\* ensureSMBGlobalMappingLocked: what to do depends on the status, and on the
\* path for a mapping that is well. A status that cannot be read counts as none, a
\* path that cannot be looked at as out of reach.
GetSmbGlobalMappingStatus(p) ==
    /\ \/ /\ Goto(p, "status", CASE mapping = "OK" -> "symlink"
                                 [] mapping \in {"Invalid", "Disconnected"} -> "removeStale"
                                 [] OTHER -> "new")
          /\ UNCHANGED faults
       \/ Goto(p, "status", "new") /\ Fault
       \/ mapping = "OK" /\ Goto(p, "status", "removeStale") /\ Fault
    /\ UNCHANGED <<node, lock, Locals, hist, calls>>

RemoveStaleMapping(p) ==
    /\ pc[p] = "removeStale"
    /\ \/ /\ Goto(p, "removeStale", "new")
          /\ mapping' = "NotFound"
          /\ UNCHANGED <<Locals, lock, hist, faults>>
       \/ /\ Fault
          /\ UNCHANGED <<mapping, cut>>
          /\ MountFails(p)
    /\ UNCHANGED <<link, calls>>

\* A mapping that exists already may be an error. When there is none in the end,
\* the volumes that were linked have lost theirs.
NewSmbGlobalMapping(p) ==
    /\ pc[p] = "new"
    /\ \/ /\ Goto(p, "new", "symlink")
          /\ mapping' = "OK"
          /\ UNCHANGED <<Locals, lock, hist, faults>>
       \/ /\ IF mapping = "NotFound" THEN Fault ELSE UNCHANGED faults
          /\ UNCHANGED mapping
          /\ cut' = IF mapping = "NotFound" THEN cut \cup Linked ELSE cut
          /\ MountFails(p)
    /\ UNCHANGED <<link, calls>>

Symlink(p) ==
    /\ pc[p] = "symlink"
    /\ UNCHANGED mapping
    /\ \/ /\ link[target[p]] = None
          /\ link' = [link EXCEPT ![target[p]] = RemoteOf[target[p]]]
          /\ End(p, "ok")
          /\ UnlockKey(p)
          /\ UNCHANGED <<leaked, faults>>
       \/ /\ IF link[target[p]] = None THEN Fault ELSE UNCHANGED faults
          /\ UNCHANGED link
          /\ MountFails(p)
    /\ UNCHANGED <<cut, calls>>

-----------------------------------------------------------------------------
(***************************************************************************)
(* Unmount, called by NodeUnstageVolume and for a stale link. The link is  *)
(* read before the lock is taken.                                          *)
(***************************************************************************)
GetRemoteServerFromTarget(p) ==
    /\ Goto(p, "readLink", IF link[target[p]] = None THEN "rmdir" ELSE "lockUnmount")
    /\ UNCHANGED <<node, lock, Locals, hist, calls, faults>>

\* Mutant: Unmount takes no lock.
LockForUnmountNot(p) ==
    /\ Goto(p, "lockUnmount", "checkDup")
    /\ UNCHANGED <<node, lock, Locals, hist, calls, faults>>

LockForUnmount(p) ==
    /\ Goto(p, "lockUnmount", "checkDup")
    /\ lock = None
    /\ lock' = p
    /\ UNCHANGED <<node, Locals, hist, calls, faults>>

\* The global mounts with the same spelling as t.
Seen(t) == {x \in Targets \ (Inline \cup {t}) : RemoteOf[x] = RemoteOf[t]}

\* If the global mounts cannot be listed, the mapping stays.
CheckForDuplicateSMBMounts(p) ==
    /\ \/ /\ Goto(p, "checkDup",
                  IF Seen(target[p]) \cap Linked # {} THEN "rmdirLocked" ELSE "removeMapping")
          /\ UNCHANGED <<leaked, faults>>
       \/ /\ Goto(p, "checkDup", "rmdirLocked")
          /\ Fault
          /\ leaked' = TRUE
    /\ UNCHANGED <<node, lock, Locals, cut, calls>>

\* An error is logged and the mapping stays. The links the check does not see lose
\* their mapping.
RemoveSmbGlobalMapping(p) ==
    /\ Goto(p, "removeMapping", "rmdirLocked")
    /\ \/ /\ mapping' = "NotFound"
          /\ cut' = cut \cup (Linked \ Seen(target[p]))
          /\ UNCHANGED <<leaked, faults>>
       \/ /\ Fault
          /\ leaked' = TRUE
          /\ UNCHANGED <<mapping, cut>>
    /\ UNCHANGED <<link, lock, Locals, calls>>

\* Rmdir, and the deferred UnlockKey. Unmount in NodeStageVolume goes on to mount;
\* of an inline volume the mapping stays.
Rmdir(p, from) ==
    /\ pc[p] = from
    /\ UnlockKey(p)
    /\ \/ /\ link' = [link EXCEPT ![target[p]] = None]
          /\ IF op[p] = "stage" THEN Goto(p, from, "prepare") /\ UNCHANGED Locals
             ELSE End(p, "ok")
          /\ leaked' = (leaked \/ (from = "rmdir" /\ link[target[p]] # None))
          /\ UNCHANGED faults
       \/ /\ Fault
          /\ End(p, "err")
          /\ UNCHANGED <<link, leaked>>
    /\ UNCHANGED <<mapping, cut, calls>>

RmdirLocked(p) == Rmdir(p, "rmdirLocked")

RmdirAlone(p) == Rmdir(p, "rmdir")

-----------------------------------------------------------------------------
\* The server or the credentials change, the connection breaks or comes back.
MappingChanges ==
    /\ mapping # "NotFound"
    /\ Fault
    /\ mapping' \in {"OK", "Invalid", "Disconnected", "Other"} \ {mapping}
    /\ UNCHANGED <<link, lock, pc, op, target, late, staged, hist, calls>>

\* The plugin restarts; links and mappings are the node's.
Restart ==
    /\ Fault
    /\ lock' = None
    /\ pc' = [p \in Procs |-> "idle"]
    /\ op' = [p \in Procs |-> "none"]
    /\ target' = [p \in Procs |-> None]
    /\ late' = {}
    /\ leaked' = (leaked \/ \E p \in Procs : pc[p] # "idle")
    /\ cut' = IF \E p \in Procs : pc[p] = "new" THEN cut \cup Linked ELSE cut
    /\ UNCHANGED <<node, staged, calls>>

Step(p) ==
    \/ EnsureMountPoint(p) \/ PrepareStagePath(p) \/ LockForMount(p)
    \/ GetSmbGlobalMappingStatus(p) \/ RemoveStaleMapping(p) \/ NewSmbGlobalMapping(p)
    \/ Symlink(p)
    \/ GetRemoteServerFromTarget(p) \/ LockForUnmount(p) \/ CheckForDuplicateSMBMounts(p)
    \/ RemoveSmbGlobalMapping(p) \/ RmdirLocked(p) \/ RmdirAlone(p)

\* All calls are over and no more come.
Done == calls = MaxCalls /\ (\A p \in Procs : pc[p] = "idle") /\ UNCHANGED vars

Next ==
    \/ \E p \in Procs : Step(p) \/ MountTimesOut(p)
    \/ \E p \in Procs, t \in Targets : CallStage(p, t) \/ CallUnstage(p, t)
    \/ MappingChanges \/ Restart
    \/ Done

Spec == Init /\ [][Next]_vars

-----------------------------------------------------------------------------
(***************************************************************************)
(* Properties.                                                             *)
(***************************************************************************)

\* A volume that kubelet believes staged is linked, and the share has its mapping,
\* whoever mounts and unmounts the share's other volumes and whatever breaks. It
\* may be replaced at this moment, and it may have been taken away by an Unmount
\* that cannot see this link or by a replacement that failed.
StagedHasMapping ==
    \A t \in Targets : staged[t] = "yes" =>
        /\ link[t] = RemoteOf[t]
        /\ mapping # "NotFound" \/ t \in cut \/ \E p \in Procs : pc[p] = "new"

\* With the last volume goes the mapping: when all links are gone and nobody works
\* on the share there is none, unless a removal or a mount failed, the plugin
\* restarted or a link was removed without Unmount.
NoMappingLeak ==
    (Linked = {} /\ \A p \in Procs : pc[p] = "idle") => mapping = "NotFound" \/ leaked

-----------------------------------------------------------------------------
(***************************************************************************)
(* The invariant behind them.                                              *)
(***************************************************************************)

\* Who is on the way to a new link, and who may be after its RPC is over.
Mounting  == {"prepare", "lockMount", "status", "removeStale", "new", "symlink"}
Detached  == Mounting \ {"prepare"}

LocalsInv ==
    \A p \in Procs :
        /\ (pc[p] = "idle") <=> (target[p] = None)
        /\ p \in late => pc[p] \in Detached

\* A target has one RPC, and kubelet waits for it; a link points where it should.
ServingInv ==
    /\ \A p, q \in Procs \ late : target[p] # None /\ target[p] = target[q] => p = q
    /\ \A p \in Procs \ late : target[p] # None => staged[target[p]] = "maybe"
    /\ \A t \in Targets : link[t] \in {None, RemoteOf[t]}

\* The lock of the remote path: nobody takes the mapping from under a link that is
\* being made, and nobody links a share whose mapping is being removed.
LockedInv ==
    \A p \in Procs :
        /\ pc[p] = "symlink" => mapping # "NotFound"
        /\ pc[p] = "removeMapping" => Seen(target[p]) \cap Linked = {}

\* A mapping that was not left behind has a link, or somebody who will link or fail.
SomeoneMounts == \E q \in Procs : pc[q] \in Mounting
MappingIsNeeded ==
    leaked \/ mapping = "NotFound" \/ SomeoneMounts \/ \E t \in Targets : link[t] # None
\* Also without the link of who removes it as the last step of Unmount.
NeededByOthers ==
    \A p \in Procs : pc[p] = "rmdirLocked" =>
        leaked \/ mapping = "NotFound" \/ SomeoneMounts
               \/ \E t \in Targets \ {target[p]} : link[t] # None

IInv ==
    /\ TypeOK /\ LocalsInv /\ ServingInv /\ LockedInv
    /\ MappingIsNeeded /\ NeededByOthers /\ StagedHasMapping
=============================================================================
