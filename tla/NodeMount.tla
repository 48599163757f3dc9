------------------------------ MODULE NodeMount -----------------------------
(***************************************************************************)
(* The node service of pkg/azurefile/nodeserver.go for one volume:         *)
(* NodeStageVolume, NodePublishVolume, NodeUnpublishVolume and             *)
(* NodeUnstageVolume, each served by a goroutine of its own, over the      *)
(* mount points of a Linux node. Volumes have no paths or lock keys in     *)
(* common, so one volume shows what they do.                               *)
(*                                                                         *)
(* A volume is an SMB share (staged, then bind mounted into each pod), an  *)
(* NFS share (whose mode is changed once it is mounted), a VHD disk (its   *)
(* share is mounted on proxy-mount, the disk in it is staged), an inline   *)
(* volume, or an SMB share for which the service account token of the pod  *)
(* is used (clientID, mountWithWorkloadIdentityToken). For the last two    *)
(* NodePublishVolume calls NodeStageVolume on the target of the pod.       *)
(* Kubelet has the token for NodePublishVolume only. Left out are Kata     *)
(* mounts, token files, and tokens for NFS shares and VHD disks.           *)
(***************************************************************************)
EXTENDS Integers

CONSTANTS
    Procs,        \* goroutines that serve RPCs
    Pods,         \* pods of the node that use the volume, and their target paths
    Kinds,        \* the kinds of volume of the instance
    None,
    MaxCalls,     \* bound: RPCs kubelet sends
    MaxFaults     \* bound: calls given up on, mounts that break, restarts of the plugin

Stage == "stage"              \* stagingTargetPath
Proxy == "proxy-mount"        \* next to it, for a VHD disk
Paths == Pods \cup {Stage, Proxy}

ASSUME NodeAssumption ==
    /\ Kinds \subseteq {"smb", "nfs", "disk", "inline", "token"}
    /\ None \notin Paths /\ Stage \notin Pods /\ Proxy \notin Pods
    /\ MaxCalls \in Nat /\ MaxFaults \in Nat

VARIABLES
    kind,         \* the kind of the volume
    volumeLocks,  \* paths whose key volumeID-path is in the set
    \* the node
    dir,          \* paths at which there is a directory
    mounts,       \* path -> number of mounts on it, one on top of the other
    stale,        \* paths whose topmost mount is broken
    late,         \* path -> mount helpers that outlived their NodeStageVolume
    localBind,    \* pods whose target is bound to the bare staging directory
    \* an RPC: where it is, what it is, its target path, the path it works on
    pc, op, target, path, locked, reply,
    \* kubelet
    cancelled,    \* RPCs kubelet gave up on
    staged,       \* "no", "maybe" (a call was sent) or "yes"
    pod,          \* pod -> "new", "maybe", "running", "leaving", "gone"
    \* history and bounds
    overtaken,    \* an RPC took a lock after kubelet had given up on it
    abandoned,    \* pods for which kubelet gave up on a NodePublishVolume
    broke,        \* paths whose mount broke at some time
    tokenless,    \* pods for which a call came without the token it needs
    calls, faults

node   == <<dir, mounts, stale, late, localBind>>
rpc    == <<op, target, path, locked>>
kube   == <<cancelled, staged, pod>>
hist   == <<overtaken, abandoned, broke, tokenless, calls, faults>>
vars   == <<kind, volumeLocks, node, pc, rpc, reply, kube, hist>>

Ops == {"stage", "publish", "unpublish", "unstage"}
PCs == {"idle", "inline", "account", "acquire", "mkdirAll", "ensure", "makeDir", "unmountStale",
        "mount", "mounting", "chmod", "ensureDisk", "makeDiskDir", "unmountStaleDisk", "format",
        "ensureTarget", "makeTarget", "bind", "removeTarget", "unmount", "remove", "return"}

TypeOK ==
    /\ kind \in Kinds
    /\ volumeLocks \subseteq Paths
    /\ dir \subseteq Paths
    /\ mounts \in [Paths -> Nat]
    /\ stale \subseteq Paths
    /\ late \in [Paths -> Nat]
    /\ localBind \subseteq Pods
    /\ pc \in [Procs -> PCs]
    /\ op \in [Procs -> Ops \cup {"none"}]
    /\ target \in [Procs -> Paths \cup {None}]
    /\ path \in [Procs -> Paths \cup {None}]
    /\ \A p \in Procs : pc[p] # "idle" => target[p] \in Paths /\ path[p] \in Paths /\ op[p] \in Ops
    /\ locked \in [Procs -> BOOLEAN]
    /\ reply \in [Procs -> {"none", "ok", "err"}]
    /\ cancelled \subseteq Procs
    /\ staged \in {"no", "maybe", "yes"}
    /\ pod \in [Pods -> {"new", "maybe", "running", "leaving", "gone"}]
    /\ overtaken \in BOOLEAN
    /\ abandoned \subseteq Pods
    /\ broke \subseteq Paths
    /\ tokenless \subseteq Pods
    /\ calls \in Nat /\ faults \in Nat

Init ==
    /\ kind \in Kinds
    /\ volumeLocks = {}
    /\ dir = {}
    /\ mounts = [x \in Paths |-> 0]
    /\ stale = {}
    /\ late = [x \in Paths |-> 0]
    /\ localBind = {}
    /\ pc = [p \in Procs |-> "idle"]
    /\ op = [p \in Procs |-> "none"]
    /\ target = [p \in Procs |-> None]
    /\ path = [p \in Procs |-> None]
    /\ locked = [p \in Procs |-> FALSE]
    /\ reply = [p \in Procs |-> "none"]
    /\ cancelled = {}
    /\ staged = "no"
    /\ pod = [x \in Pods |-> "new"]
    /\ overtaken = FALSE
    /\ abandoned = {}
    /\ calls = 0
    /\ broke = {}
    /\ tokenless = {}
    /\ faults = 0

Goto(p, from, to) ==
    /\ pc[p] = from
    /\ pc' = [pc EXCEPT ![p] = to]

Return(p, from, r) ==
    /\ Goto(p, from, "return")
    /\ reply' = [reply EXCEPT ![p] = r]

\* A mount on x goes on top of those that are there.
Push(x) ==
    /\ mounts' = [mounts EXCEPT ![x] = @ + 1]
    /\ stale' = stale \ {x}

\* umount takes the topmost one off; of a path that is no mount point it is a
\* success. The share under a mounted VHD disk is busy.
Busy(x) == x = Proxy /\ mounts[Stage] > 0

Pop(x) ==
    /\ ~Busy(x)
    /\ mounts' = [mounts EXCEPT ![x] = IF @ = 0 THEN 0 ELSE @ - 1]
    /\ stale' = stale \ {x}
    /\ localBind' = IF mounts[x] <= 1 THEN localBind \ {x} ELSE localBind

Mounted(x) == mounts[x] > 0

-----------------------------------------------------------------------------
(***************************************************************************)
(* Kubelet. It has one call outstanding for the device and one per pod,    *)
(* gives up on a call that takes too long and sends another.               *)
(***************************************************************************)
Outstanding(x) == {p \in Procs \ cancelled : pc[p] # "idle" /\ target[p] = x}

Call(p, o, x, first) ==
    /\ pc[p] = "idle"
    /\ Outstanding(x) = {}
    /\ calls < MaxCalls
    /\ calls' = calls + 1
    /\ pc' = [pc EXCEPT ![p] = first]
    /\ op' = [op EXCEPT ![p] = o]
    /\ target' = [target EXCEPT ![p] = x]
    /\ path' = [path EXCEPT ![p] = x]
    /\ UNCHANGED <<kind, volumeLocks, mounts, stale, late, localBind, locked, reply, cancelled,
                   overtaken, abandoned, broke, tokenless, faults>>

\* The kinds of volume that NodePublishVolume stages on the target of the pod
OnTarget == kind \in {"inline", "token"}

\* Kubelet makes the staging directory first.
CallStage(p) ==
    /\ kind # "inline"
    /\ staged # "yes"
    /\ staged' = "maybe"
    /\ dir' = dir \cup {Stage}
    /\ Call(p, "stage", Stage, "account")
    /\ UNCHANGED pod

\* Also sent again for a running pod (requiresRepublish).
CallPublish(p, x) ==
    /\ kind = "inline" \/ staged = "yes"
    /\ pod[x] \in {"new", "maybe", "running"}
    /\ pod' = [pod EXCEPT ![x] = IF @ = "running" THEN @ ELSE "maybe"]
    /\ Call(p, "publish", x, IF OnTarget THEN "inline" ELSE "ensureTarget")
    /\ UNCHANGED <<staged, dir>>

CallUnpublish(p, x) ==
    /\ pod[x] \in {"maybe", "running", "leaving"}
    /\ pod' = [pod EXCEPT ![x] = "leaving"]
    /\ Call(p, "unpublish", x, "unmount")
    /\ UNCHANGED <<staged, dir>>

CallUnstage(p) ==
    /\ staged # "no"
    /\ \A x \in Pods : pod[x] \in {"new", "gone"}
    /\ staged' = "maybe"
    /\ Call(p, "unstage", Stage, "acquire")
    /\ UNCHANGED <<pod, dir>>

GiveUp(p) ==
    /\ pc[p] # "idle"
    /\ p \notin cancelled
    /\ faults < MaxFaults
    /\ faults' = faults + 1
    /\ cancelled' = cancelled \cup {p}
    /\ abandoned' = IF op[p] = "publish" THEN abandoned \cup {target[p]} ELSE abandoned
    /\ UNCHANGED <<kind, volumeLocks, node, pc, rpc, reply, staged, pod, overtaken,
                   broke, tokenless, calls>>

-----------------------------------------------------------------------------
(***************************************************************************)
(* NodeStageVolume                                                         *)
(***************************************************************************)

\* The volume uses a token and the call brings none: NodeStageVolume succeeds
\* and does nothing.
StageSkipped(p) ==
    /\ Return(p, "account", "ok")
    /\ \/ kind = "token" /\ op[p] = "stage" /\ UNCHANGED tokenless
       \/ kind = "inline" /\ tokenless' = tokenless \cup {target[p]}
    /\ UNCHANGED <<kind, volumeLocks, node, rpc, kube, overtaken, abandoned, broke, calls, faults>>

\* GetAccountInfo and the checks of the parameters
GetAccountInfo(p) ==
    /\ ~(kind = "token" /\ op[p] = "stage")
    /\ \/ Goto(p, "account", "acquire") /\ UNCHANGED reply
       \/ Return(p, "account", "err")
    /\ UNCHANGED <<kind, volumeLocks, node, rpc, kube, hist>>

\* Mutant: the set is not looked up first.
TryAcquireUnchecked(p, first) ==
    /\ Goto(p, "acquire", first)
    /\ volumeLocks' = volumeLocks \cup {target[p]}
    /\ locked' = [locked EXCEPT ![p] = TRUE]
    /\ overtaken' = (overtaken \/ p \in cancelled)
    /\ UNCHANGED <<kind, node, op, target, path, reply, kube, abandoned, broke, tokenless, calls,
                   faults>>

TryAcquire(p, first) ==
    /\ Goto(p, "acquire", first)
    /\ target[p] \notin volumeLocks
    /\ volumeLocks' = volumeLocks \cup {target[p]}
    /\ locked' = [locked EXCEPT ![p] = TRUE]
    /\ overtaken' = (overtaken \/ p \in cancelled)
    /\ UNCHANGED <<kind, node, op, target, path, reply, kube, abandoned, broke, tokenless, calls,
                   faults>>

StageAcquire(p) == op[p] # "unstage" /\ TryAcquire(p, "mkdirAll")

\* Mutant: the call releases the key that it did not get.
AbortedReleases(p) ==
    /\ target[p] \in volumeLocks
    /\ volumeLocks' = volumeLocks \ {target[p]}
    /\ Return(p, "acquire", "err")
    /\ UNCHANGED <<kind, node, rpc, kube, hist>>

Aborted(p) ==
    /\ target[p] \in volumeLocks
    /\ Return(p, "acquire", "err")
    /\ UNCHANGED <<kind, volumeLocks, node, rpc, kube, hist>>

\* With an account key the target is created first. The share of a VHD disk is
\* mounted next to it. A bad option or an identity that cannot be set up is an
\* error.
MkdirAll(p) ==
    /\ \/ /\ Goto(p, "mkdirAll", "ensure")
          /\ dir' \in {dir, dir \cup {target[p]}}
          /\ path' = [path EXCEPT ![p] = IF kind = "disk" THEN Proxy ELSE target[p]]
          /\ UNCHANGED reply
       \/ Return(p, "mkdirAll", "err") /\ UNCHANGED <<dir, path>>
    /\ UNCHANGED <<kind, volumeLocks, mounts, stale, late, localBind, op, target, locked,
                   kube, hist>>

\* ensureMountPoint(path, shouldUnmount = true) of a path that is no mount point
\* or a broken one.
Usable(x) == Mounted(x) /\ x \notin stale

NotUsable(p, from, makeDir, unmountStale) ==
    /\ \/ ~Mounted(path[p]) /\ Goto(p, from, makeDir) /\ UNCHANGED reply
       \/ path[p] \in stale /\ Goto(p, from, unmountStale) /\ UNCHANGED reply
       \/ Return(p, from, "err")
    /\ UNCHANGED path

MakeDir(p, from, to) ==
    /\ Goto(p, from, to)
    /\ dir' = dir \cup {path[p]}
    /\ UNCHANGED <<kind, volumeLocks, mounts, stale, late, localBind, rpc, reply, kube, hist>>

\* The stale mount is taken off and the call fails: a later one mounts again.
UnmountStale(p, from) ==
    /\ Return(p, from, "err")
    /\ Pop(path[p]) \/ UNCHANGED <<mounts, stale, localBind>>
    /\ UNCHANGED <<kind, volumeLocks, dir, late, rpc, kube, hist>>

\* The share of a VHD disk is there: next comes the disk on the staging path.
\* For an NFS share SetVolumeOwnership is left, and may fail.
AfterShare(p, from) ==
    \/ /\ kind = "disk"
       /\ Goto(p, from, "ensureDisk")
       /\ path' = [path EXCEPT ![p] = target[p]]
       /\ UNCHANGED reply
    \/ /\ kind # "disk"
       /\ Return(p, from, "ok") \/ (kind = "nfs" /\ Return(p, from, "err"))
       /\ UNCHANGED path

EnsureShare(p) ==
    /\ pc[p] = "ensure"
    /\ \/ Usable(path[p]) /\ AfterShare(p, "ensure")
       \/ NotUsable(p, "ensure", "makeDir", "unmountStale")
    /\ UNCHANGED <<kind, volumeLocks, node, op, target, locked, kube, hist>>

MakeShareDir(p)      == MakeDir(p, "makeDir", "mount")
UnmountStaleShare(p) == UnmountStale(p, "unmountStale")

\* WaitUntilTimeout: the mount helper runs in a goroutine of its own...
StartMount(p) ==
    /\ Goto(p, "mount", "mounting")
    /\ UNCHANGED <<kind, volumeLocks, node, rpc, reply, kube, hist>>

\* ... and answers in time, ...
MountDone(p) ==
    /\ pc[p] = "mounting"
    /\ path[p] \in dir
    /\ Push(path[p])
    /\ IF kind = "nfs" THEN Goto(p, "mounting", "chmod") /\ UNCHANGED <<path, reply>>
                       ELSE AfterShare(p, "mounting")
    /\ UNCHANGED <<kind, volumeLocks, dir, late, localBind, op, target, locked,
                   kube, hist>>

\* chmodIfPermissionMismatch, only by the call that mounted the share
Chmod(p) ==
    /\ \/ AfterShare(p, "chmod")
       \/ Return(p, "chmod", "err") /\ UNCHANGED path
    /\ UNCHANGED <<kind, volumeLocks, dir, mounts, stale, late, localBind, op, target, locked,
                   kube, hist>>

MountFails(p) ==
    /\ Return(p, "mounting", "err")
    /\ UNCHANGED <<kind, volumeLocks, node, rpc, kube, hist>>

\* Mutant: the call waits for the mount helper.
MountTimesOutNever(p) == FALSE

\* ... or does not, and goes on when the call has returned.
MountTimesOut(p) ==
    /\ Return(p, "mounting", "err")
    /\ late' = [late EXCEPT ![path[p]] = @ + 1]
    /\ UNCHANGED <<kind, volumeLocks, dir, mounts, stale, localBind, rpc, kube, hist>>

\* Without the directory there is nothing to mount on.
LateMount(x) ==
    /\ late[x] > 0
    /\ late' = [late EXCEPT ![x] = @ - 1]
    /\ \/ x \in dir /\ Push(x)
       \/ UNCHANGED <<mounts, stale>>
    /\ UNCHANGED <<kind, volumeLocks, dir, localBind, pc, rpc, reply, kube, hist>>

EnsureDisk(p) ==
    /\ pc[p] = "ensureDisk"
    /\ \/ Usable(path[p]) /\ Return(p, "ensureDisk", "ok") /\ UNCHANGED path
       \/ NotUsable(p, "ensureDisk", "makeDiskDir", "unmountStaleDisk")
    /\ UNCHANGED <<kind, volumeLocks, node, op, target, locked, kube, hist>>

MakeDiskDir(p)      == MakeDir(p, "makeDiskDir", "format")
UnmountStaleDisk(p) == UnmountStale(p, "unmountStaleDisk")

\* FormatAndMount finds the VHD file only through the share. Nothing limits how
\* long it takes. SetVolumeOwnership comes last, and may fail.
FormatAndMount(p) ==
    /\ \/ /\ Mounted(Proxy) /\ path[p] \in dir
          /\ Push(path[p])
          /\ Return(p, "format", "ok") \/ Return(p, "format", "err")
       \/ Return(p, "format", "err") /\ UNCHANGED <<mounts, stale>>
    /\ UNCHANGED <<kind, volumeLocks, dir, late, localBind, rpc, kube, hist>>

-----------------------------------------------------------------------------
(***************************************************************************)
(* NodePublishVolume: no lock.                                             *)
(***************************************************************************)

\* An inline volume, or one for which there is a token, is staged on the target
\* of the pod, unless it needs no new credentials and the target is a mount point
\* (canSkipRepublishNodeStage). A persistent volume without its token goes on
\* like any other: what is on the staging path is bound to the target.
PublishOnTarget(p) ==
    /\ pc[p] = "inline"
    /\ \/ Goto(p, "inline", "account") /\ UNCHANGED <<reply, tokenless>>
       \/ Mounted(target[p]) /\ Return(p, "inline", "ok") /\ UNCHANGED tokenless
       \/ kind = "inline" /\ Return(p, "inline", "err") /\ UNCHANGED tokenless
       \/ /\ kind = "token"
          /\ tokenless' = tokenless \cup {target[p]}
          /\ Goto(p, "inline", "ensureTarget")
          /\ UNCHANGED reply
    /\ UNCHANGED <<kind, volumeLocks, node, rpc, kube, overtaken, abandoned, broke, calls, faults>>

\* Mutant: a broken mount is unmounted.
EnsureTargetUnmounts(p) ==
    /\ pc[p] = "ensureTarget"
    /\ \/ Usable(path[p]) /\ Return(p, "ensureTarget", "ok") /\ UNCHANGED path
       \/ NotUsable(p, "ensureTarget", "makeTarget", "unmountStale")
    /\ UNCHANGED <<kind, volumeLocks, node, op, target, locked, kube, hist>>

\* ensureMountPoint(target, shouldUnmount = false): a broken mount is an error.
EnsureTarget(p) ==
    /\ pc[p] = "ensureTarget"
    /\ \/ Usable(path[p]) /\ Return(p, "ensureTarget", "ok")
       \/ ~Mounted(path[p]) /\ Goto(p, "ensureTarget", "makeTarget") /\ UNCHANGED reply
       \/ Return(p, "ensureTarget", "err")
    /\ UNCHANGED <<kind, volumeLocks, node, rpc, kube, hist>>

MakeTarget(p) == MakeDir(p, "makeTarget", "bind")

\* What the pod sees is what is on the staging path at this moment.
BindMount(p) ==
    /\ \/ /\ Stage \in dir /\ path[p] \in dir
          /\ mounts' = [mounts EXCEPT ![path[p]] = @ + 1]
          /\ stale' = IF Stage \in stale THEN stale \cup {path[p]} ELSE stale \ {path[p]}
          /\ localBind' = IF Mounted(Stage) THEN localBind ELSE localBind \cup {path[p]}
          /\ Return(p, "bind", "ok")
       \/ Goto(p, "bind", "removeTarget") /\ UNCHANGED <<mounts, stale, localBind, reply>>
    /\ UNCHANGED <<kind, volumeLocks, dir, late, rpc, kube, hist>>

RemoveTarget(p) ==
    /\ Return(p, "removeTarget", "err")
    /\ dir' = IF Mounted(path[p]) THEN dir ELSE dir \ {path[p]}
    /\ UNCHANGED <<kind, volumeLocks, mounts, stale, late, localBind, rpc, kube, hist>>

-----------------------------------------------------------------------------
(***************************************************************************)
(* NodeUnpublishVolume (no lock) and NodeUnstageVolume: CleanupMountPoint  *)
(* of one path or of two.                                                  *)
(***************************************************************************)
UnstageAcquire(p) == op[p] = "unstage" /\ TryAcquire(p, "unmount")

NextCleanup(p, from) ==
    IF op[p] = "unstage" /\ path[p] = Stage
    THEN /\ Goto(p, from, "unmount")
         /\ path' = [path EXCEPT ![p] = Proxy]
         /\ UNCHANGED reply
    ELSE Return(p, from, "ok") /\ UNCHANGED path

\* A path that does not exist has nothing to clean up.
CleanupUnmount(p) ==
    /\ pc[p] = "unmount"
    /\ \/ path[p] \notin dir /\ NextCleanup(p, "unmount") /\ UNCHANGED <<mounts, stale, localBind>>
       \/ path[p] \in dir /\ Goto(p, "unmount", "remove") /\ Pop(path[p])
          /\ UNCHANGED <<path, reply>>
       \/ Return(p, "unmount", "err") /\ UNCHANGED <<mounts, stale, localBind, path>>
    /\ UNCHANGED <<kind, volumeLocks, dir, late, op, target, locked, kube, hist>>

\* Mutant: the directory is left behind.
CleanupRemoveNothing(p) ==
    /\ pc[p] = "remove"
    /\ \/ ~Mounted(path[p]) /\ NextCleanup(p, "remove")
       \/ Return(p, "remove", "err") /\ UNCHANGED path
    /\ UNCHANGED <<kind, volumeLocks, node, op, target, locked, kube, hist>>

\* The directory of a path that is still a mount point cannot be removed.
CleanupRemove(p) ==
    /\ pc[p] = "remove"
    /\ \/ ~Mounted(path[p]) /\ NextCleanup(p, "remove") /\ dir' = dir \ {path[p]}
       \/ Return(p, "remove", "err") /\ UNCHANGED <<dir, path>>
    /\ UNCHANGED <<kind, volumeLocks, mounts, stale, late, localBind, op, target, locked,
                   kube, hist>>

-----------------------------------------------------------------------------
\* The deferred Release, then the answer.
Release(p) ==
    /\ pc[p] = "return"
    /\ locked[p]
    /\ volumeLocks' = volumeLocks \ {target[p]}
    /\ locked' = [locked EXCEPT ![p] = FALSE]
    /\ UNCHANGED <<kind, node, pc, op, target, path, reply, kube, hist>>

Succeeded(p) == p \notin cancelled /\ reply[p] = "ok"

Reply(p) ==
    /\ ~locked[p]
    /\ Goto(p, "return", "idle")
    /\ staged' = CASE Succeeded(p) /\ op[p] = "stage" -> "yes"
                   [] Succeeded(p) /\ op[p] = "unstage" -> "no"
                   [] OTHER -> staged
    /\ pod' = CASE Succeeded(p) /\ op[p] = "publish" -> [pod EXCEPT ![target[p]] = "running"]
                [] Succeeded(p) /\ op[p] = "unpublish" -> [pod EXCEPT ![target[p]] = "gone"]
                [] OTHER -> pod
    /\ cancelled' = cancelled \ {p}
    /\ op' = [op EXCEPT ![p] = "none"]
    /\ target' = [target EXCEPT ![p] = None]
    /\ path' = [path EXCEPT ![p] = None]
    /\ reply' = [reply EXCEPT ![p] = "none"]
    /\ UNCHANGED <<kind, volumeLocks, node, locked, hist>>

\* The connection to the share is lost.
Break(x) ==
    /\ faults < MaxFaults
    /\ faults' = faults + 1
    /\ Mounted(x) /\ x \notin stale
    /\ stale' = stale \cup {x}
    /\ broke' = broke \cup {x}
    /\ UNCHANGED <<kind, volumeLocks, dir, mounts, late, localBind, pc, rpc, reply, kube,
                   overtaken, abandoned, tokenless, calls>>

\* The node plugin restarts: its goroutines, mount helpers and locks are gone,
\* the mounts of the node are not.
Crash ==
    /\ faults < MaxFaults
    /\ faults' = faults + 1
    /\ volumeLocks' = {}
    /\ late' = [x \in Paths |-> 0]
    /\ pc' = [p \in Procs |-> "idle"]
    /\ op' = [p \in Procs |-> "none"]
    /\ target' = [p \in Procs |-> None]
    /\ path' = [p \in Procs |-> None]
    /\ locked' = [p \in Procs |-> FALSE]
    /\ reply' = [p \in Procs |-> "none"]
    /\ cancelled' = {}
    /\ UNCHANGED <<kind, dir, mounts, stale, localBind, staged, pod, overtaken, abandoned,
                   broke, tokenless, calls>>

StageStep(p) ==
    \/ StageSkipped(p) \/ GetAccountInfo(p) \/ StageAcquire(p) \/ Aborted(p) \/ MkdirAll(p)
    \/ EnsureShare(p) \/ MakeShareDir(p) \/ UnmountStaleShare(p) \/ StartMount(p)
    \/ MountTimesOut(p) \/ Chmod(p) \/ EnsureDisk(p) \/ MakeDiskDir(p) \/ UnmountStaleDisk(p)

Step(p) ==
    \/ StageStep(p)
    \/ PublishOnTarget(p) \/ EnsureTarget(p) \/ MakeTarget(p) \/ BindMount(p) \/ RemoveTarget(p)
    \/ UnstageAcquire(p) \/ CleanupUnmount(p) \/ CleanupRemove(p)
    \/ Release(p) \/ Reply(p)

Next ==
    \/ \E p \in Procs : Step(p) \/ GiveUp(p)
    \/ \E p \in Procs : MountDone(p) \/ MountFails(p) \/ FormatAndMount(p)
    \/ \E p \in Procs : CallStage(p) \/ CallUnstage(p)
    \/ \E p \in Procs, x \in Pods : CallPublish(p, x) \/ CallUnpublish(p, x)
    \/ \E x \in Paths : LateMount(x) \/ Break(x)
    \/ Crash

Spec == Init /\ [][Next]_vars

\* The steps of the driver are taken, and so is the timeout of a mount. The mount
\* helper and FormatAndMount (mkfs, fsck, mount) may hang for ever, and kubelet
\* owes nothing. Other system calls are assumed to return.
FairSpec == Spec /\ \A p \in Procs : WF_vars(Step(p))

-----------------------------------------------------------------------------
(***************************************************************************)
(* Properties                                                              *)
(***************************************************************************)

\* When NodeUnstageVolume has succeeded nothing is mounted on the staging path
\* or on proxy-mount, and nothing comes back: a mount helper that outlived its
\* timeout (WaitUntilTimeout) finds the directory removed. Only a call that took
\* its lock after kubelet had given up on it can mount later.
UnstagedIsClean ==
    staged = "no" /\ ~overtaken => ~Mounted(Stage) /\ ~Mounted(Proxy)

\* When NodeStageVolume has succeeded the staging path is a mount point, and
\* stays one until NodeUnstageVolume is called, whatever calls kubelet gave up
\* on are still at work; volumeLocks keeps them apart. For a volume that uses
\* the token of the pod it is none: NodeStageVolume succeeds without one.
StagedIsMounted ==
    staged = "yes" /\ ~overtaken /\ kind # "token" => Mounted(Stage)

\* When NodeUnpublishVolume has succeeded the target of the pod is no mount
\* point, also after a restart of the plugin in between and when NodeStageVolume
\* timed out on it, unless kubelet gave up on a NodePublishVolume of that pod,
\* which takes no lock.
GonePodIsClean ==
    \A x \in Pods \ abandoned : pod[x] = "gone" => ~Mounted(x)

\* A running pod keeps a mount of the volume, never of the bare staging
\* directory of the node: NodePublishVolume sent again for it must not unmount a
\* broken target (ensureMountPoint with shouldUnmount = false). For a volume that
\* is staged on the target of the pod it does: the NodeStageVolume it calls takes
\* the broken target off. And without the token that it needs an inline volume
\* gives the pod nothing, a persistent one the bare staging directory.
RunningIsMounted ==
    \A x \in Pods \ abandoned :
        /\ /\ pod[x] = "running"
           /\ OnTarget => x \notin broke
           /\ kind = "inline" => x \notin tokenless
           => Mounted(x)
        /\ pod[x] = "running" /\ ~overtaken /\ (kind = "token" => x \notin tokenless) =>
           x \notin localBind

\* Every RPC returns, and gives its lock back, even when the mount helper hangs:
\* NodeStageVolume stops waiting for it. Only FormatAndMount of a VHD disk it
\* waits for without a limit, and keeps its lock.
NodeRpcReturns ==
    \A p \in Procs : pc[p] # "idle" ~> pc[p] = "format" \/ (pc[p] = "idle" /\ ~locked[p])

-----------------------------------------------------------------------------
(***************************************************************************)
(* The inductive invariant                                                 *)
(***************************************************************************)
StagePCs == {"account", "acquire", "mkdirAll", "ensure", "makeDir", "unmountStale", "mount",
             "mounting", "chmod", "ensureDisk", "makeDiskDir", "unmountStaleDisk", "format"}
HeldPCs  == StagePCs \ {"account", "acquire"}

\* What a call is for, where it can be, and where it holds its lock.
CallOK(p) ==
    /\ \/ pc[p] = "idle" /\ ~locked[p] /\ p \notin cancelled
       \/ /\ op[p] = "stage" /\ kind # "inline" /\ target[p] = Stage
          /\ pc[p] \in StagePCs \cup {"return"}
          /\ kind = "token" => pc[p] \in {"account", "return"} /\ ~locked[p]
       \/ /\ op[p] = "publish" /\ OnTarget /\ target[p] \in Pods
          /\ pc[p] \in StagePCs \cup {"inline", "return"}
       \/ /\ op[p] = "publish" /\ kind # "inline" /\ target[p] \in Pods
          /\ pc[p] \in {"ensureTarget", "makeTarget", "bind", "removeTarget", "return"}
       \/ /\ op[p] = "unpublish" /\ target[p] \in Pods
          /\ pc[p] \in {"unmount", "remove", "return"}
       \/ /\ op[p] = "unstage" /\ target[p] = Stage
          /\ pc[p] \in {"acquire", "unmount", "remove", "return"}
    /\ pc[p] \in HeldPCs \/ (op[p] = "unstage" /\ pc[p] \in {"unmount", "remove"}) => locked[p]

\* Only the share of a VHD disk is mounted elsewhere than on the target, and
\* NodeUnstageVolume comes to proxy-mount when the staging path is gone.
PathOK(p) ==
    /\ pc[p] # "idle" /\ path[p] # target[p] =>
           /\ path[p] = Proxy /\ target[p] = Stage
           /\ op[p] = "unstage" \/ kind = "disk"
    /\ pc[p] \in {"ensureDisk", "makeDiskDir", "unmountStaleDisk", "format"} =>
           kind = "disk" /\ path[p] = target[p]
    /\ op[p] = "unstage" /\ pc[p] = "acquire" => path[p] = Stage
    /\ op[p] = "unstage" /\ path[p] = Proxy /\ locked[p] /\ p \notin cancelled => Stage \notin dir
    /\ pc[p] = "chmod" => kind = "nfs" /\ Mounted(path[p])
    /\ pc[p] = "unmountStale" /\ OnTarget => path[p] \in broke
    /\ pc[p] \in {"ensureTarget", "makeTarget", "bind"} /\ kind = "token" => target[p] \in tokenless

Nobody(x) == \A p \in Procs : locked[p] => target[p] # x
Gone      == Stage \notin dir /\ Proxy \notin dir
Intact(x) ==
    /\ x \notin abandoned
    /\ OnTarget => x \notin broke
    /\ kind = "inline" => x \notin tokenless

\* A success of p is still true when kubelet gets it: p has the lock, or nobody
\* can have taken it since without being overtaken; a pod has no lock, and neither
\* has a NodeStageVolume that did nothing.
AnswerOK(p) ==
    pc[p] = "return" /\ reply[p] = "ok" =>
        /\ locked[p] \/ (p \notin cancelled /\ ~overtaken) =>
               /\ op[p] = "stage" /\ kind # "token" =>
                      (locked[p] \/ Nobody(Stage)) /\ Mounted(Stage)
               /\ op[p] = "unstage" => locked[p] \/ Nobody(Stage)
               /\ op[p] = "unstage" /\ p \notin cancelled => Gone
        /\ op[p] = "publish" /\ Intact(target[p]) => Mounted(target[p])
        /\ op[p] = "unpublish" /\ target[p] \notin abandoned => target[p] \notin dir

\* volumeLocks has one owner per key.
LocksOK ==
    /\ \A p \in Procs : locked[p] => target[p] \in volumeLocks
    /\ \A p, q \in Procs : locked[p] /\ locked[q] /\ target[p] = target[q] => p = q

\* What kubelet has sent, and what it then thinks of the volume and of the pods.
SentOK(p) ==
    /\ p \notin cancelled /\ target[p] = Stage => staged = "maybe"
    /\ op[p] = "publish" /\ p \in cancelled => target[p] \in abandoned
    /\ op[p] = "publish" /\ p \notin cancelled => pod[target[p]] \in {"maybe", "running"}
    /\ op[p] = "unpublish" => pod[target[p]] \in {"leaving", "gone"}

KubeletOK ==
    /\ \A p \in Procs : pc[p] # "idle" => SentOK(p)
    /\ \A p, q \in Procs \ cancelled :
           pc[p] # "idle" /\ pc[q] # "idle" /\ target[p] = target[q] => p = q
    /\ kind # "inline" => \A x \in Pods : pod[x] \notin {"new", "gone"} => staged = "yes"

\* What kubelet has been told of the staging path and of the pods.
ToldOK ==
    /\ staged = "yes" /\ kind # "token" /\ ~overtaken => Nobody(Stage) /\ Mounted(Stage)
    /\ staged = "no" /\ ~overtaken => Nobody(Stage) /\ Gone
    /\ \A x \in Pods : pod[x] = "running" /\ Intact(x) => Mounted(x)
    /\ \A x \in Pods \ abandoned : pod[x] = "gone" => x \notin dir

\* A mount keeps its directory; what is bound to the bare staging directory, and
\* what is broken.
NodeOK ==
    /\ \A x \in Paths : Mounted(x) => x \in dir
    /\ OnTarget => stale \subseteq broke
    /\ kind = "inline" => localBind = {}
    /\ kind = "token" => ~Mounted(Stage) /\ late[Stage] = 0 /\ Stage \notin stale
    /\ ~overtaken => localBind \subseteq abandoned \cup (IF kind = "token" THEN tokenless ELSE {})

IInv ==
    /\ TypeOK
    /\ \A p \in Procs : CallOK(p) /\ PathOK(p) /\ AnswerOK(p)
    /\ LocksOK /\ KubeletOK /\ ToldOK /\ NodeOK
=============================================================================
