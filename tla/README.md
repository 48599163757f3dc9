# TLA+ specification of the Azure File CSI driver

This directory specifies, model-checks and proves properties of the controller
and node services of azurefile-csi-driver (`pkg/azurefile`). `PROJECT.json`
lists the components, the runs, the mutants, the map from definitions to source
lines, the findings, the hazards and the theorems.

Model-check with `tlc -config X.cfg M`, prove with `tlapm M.tla`. Below, C is
`pkg/azurefile/controllerserver.go`, A `azurefile.go` and N `nodeserver.go`.

## The system

| part | state | operations | talks to |
|---|---|---|---|
| controller service (`controllerserver.go`) | none of its own; all of it is in `Driver` | CreateVolume, DeleteVolume, CreateSnapshot, DeleteSnapshot, ControllerExpandVolume, ControllerModifyVolume | `Driver` memory, Azure management and data plane APIs, azcopy, Kubernetes secrets |
| `Driver` memory (`azurefile.go`) | `volumeLocks`, `volMap`, `accountSearchCache`, `skipMatchingTagCache`, `accountCacheMap`, `secretCacheMap`, `dataPlaneAPIAccountCache`, `dataPlaneAPIVolMap`, `resizeFileShareFailureCache`, `subnetCache`, `getFileShareSizeCache`, `azcopySasTokenCache`, `volStatsCache`, `oauthTokenSHAMap` | get, set, delete, expiry | every RPC goroutine |
| `volumeLocks` (`volume_lock.go`) | a set of keys without owners | TryAcquire, Release | CreateVolume, DeleteVolume, NodeStage, NodeUnstage |
| `lockMap` (`utils.go`) | a map of mutexes created on demand | LockEntry, UnlockEntry | CreateVolume (`volLockMap`), subnet update (`subnetLockMap`) |
| storage accounts (cloud-provider-azure, vendored) | accounts, tags in Azure | EnsureStorageAccount, AddStorageAccountTags, RemoveStorageAccountTag | Azure |
| file shares (`azurefile_mgmt_client.go`, `azurefile_dataplane_client.go`) | shares in Azure | create, delete, get quota, resize, modify | Azure |
| copy by azcopy (`controllerserver.go`, `pkg/util`) | azcopy's job list | copyVolume, copyFileShareByAzcopy, GetAzcopyJob, CleanJobs | azcopy processes |
| snapshots (`controllerserver.go`) | snapshots in Azure | create, delete, restore | Azure |
| subnet service endpoints (`azure.go`) | subnets in Azure, `subnetCache` | updateSubnetServiceEndpoints | Azure |
| node service (`nodeserver.go`) | mount points of the node, token files | NodeStage, NodePublish, NodeUnpublish, NodeUnstage, NodeGetVolumeStats | mount helpers, proxy, Kata runtime |
| account keys and Kerberos tickets (`azurefile.go`, `nodeserver.go`, `utils.go`) | secrets in Kubernetes, `accountCacheMap`, token files, `oauthTokenSHAMap`, the ticket of the node | GetAccountInfo, GetStorageAccesskey, SetAzureCredentials, setCredentialCache | Azure, Kubernetes, azfilesauthmanager |
| parameters, IDs, sizes (`controllerserver.go`, `azurefile.go`, `utils.go`) | the parameters of the request, which CreateVolume changes | reading, checking and completing them; formatting and parsing IDs and contexts | every RPC |
| Windows mounters (`pkg/mounter`, `pkg/os`) | SMB global mappings, links, `remotePathLocks` | SMBMount, Unmount | WMI, PowerShell |
| proxy, csi-common, metrics, file watcher, main | none that decisions depend on | | |

Every RPC is a goroutine of its own; nothing orders two RPCs but `volumeLocks`,
`lockMap` and Azure itself. What is hard here: the CO (external-provisioner,
kubelet) gives up on a call and sends it again while the first one still runs;
CreateVolume releases its lock and calls itself when an account turns out to be
full; caches are read, and acted upon later; requests to Azure fail after they
took effect; the controller restarts and loses its memory while Azure does not.

What makes the parts correct:

- *CreateVolume/DeleteVolume*: operations on one volume exclude each other; no
  path leaves a volume locked; concurrent searches do not create superfluous
  accounts; a deleted share does not come back; every RPC returns.
- *lockMap*: one mutex per key, and UnlockEntry never waits for a holder.
- *azcopy*: CreateVolume succeeds only with a complete copy; a share that is not
  handed out is removed unless its copy still runs.
- *share operations*: concurrent expand and modify do not undo each other.
- *snapshots*: one snapshot per name, whatever the retries; the size answered
  for a snapshot is large enough to restore it.
- *node service*: after NodeStage the volume is mounted, after NodeUnstage it is
  not, and late mounts do not undo this.
- *subnets*: once the update returned, every subnet has the endpoint.
- *keys and tickets*: a key stays with its account; the ticket follows the tokens
  that calls were answered OK for.
- *parameters and IDs*: the node, DeleteVolume and the snapshots find the volume where
  CreateVolume made it; every attempt decides the same; the account fits.
- *Windows*: a staged volume keeps its link and its mapping; the last volume takes the
  mapping with it.

## The modules

One action is one access to shared memory, one request to Azure, one system call
or one step of the other side (CO, kubelet, azcopy). `pc[p]` says where the
goroutine of an RPC is; each value of it stands for a place between two such
accesses. Everything else a function does between them (parsing parameters,
building requests, logging) belongs to the action before or after. Where the
code deliberately goes on after an error, so does the action; where it returns,
the action goes to `"return"`, where the deferred calls run.

### Provisioning

CreateVolume and DeleteVolume. `volumeLocks`, `volMap`, `accountSearchCache`,
`skipMatchingTagCache` and `volLockMap` are the fields of `Driver`; `class`,
`skipTag` and `shares` are Azure; `pv`, `deleted` and `cancelled` are what the CO
knows. A call goes

    acquire -> validate -> [search -> lockEntry -> list -> newAccount -> unlockEntry
      -> quota -> remember] -> getShare -> createShare -> finish -> return

and leaves that path in two places to start again: `tagQuota`, `releaseQuota`
when the account exceeds `accountQuota` (C:699-712), and `tagLimit`, `setSkip`,
`releaseLimit`, `forget` when Azure says that the account is full (C:770-788).
Both call `volumeLocks.Release` and then CreateVolume, so the `defer Release` of
the outer invocation is still pending: `defers[p]` counts these, and `RunDefer`
runs them one by one. The key of CreateVolume is the name of the volume, that of
DeleteVolume its ID. DeleteVolume deletes the share and then takes the
skip-matching tag off the account, through `skipMatchingTagCache`.

The classes (`ClassOf`) are the values of `lockKey`, one per set of parameters.
Shares are of one size, so that the total quota of an account follows from their number.
`Starts` says how many calls the CO sends for each volume, how many faults there may be, and
which accounts carry the skip-matching tag from before. `everTagged` is history: a tag that DeleteVolume removed
counts. CreateVolume may call itself any number of times, since a tag request may fail each
time (`AddSkipTag`); `defers` counts up to `MaxDefers`, and a call that is deeper goes on with
that many pending Releases.

### KeyedMutex, LockMap

`LockMap` is `lockMap` of `utils.go` step by step: the outer mutex `lm`, the map
of entries, the mutex of each entry, and the lookup of the entry after `lm` was
released. A lookup during the write of another goroutine is a data race; its
outcomes are a lookup that goes well (`Lookup`) and the end of the process
(`ConcurrentMapReadAndWrite`). `KeyedMutex` is what a user of the type may
assume, one mutex per key, and is how `Provisioning` uses `volLockMap`.

### SubnetEndpoints

`updateSubnetServiceEndpoints`, which CreateVolume calls before it makes an account that
only some subnets may reach. It EXTENDS `LockMap`: the lock of the list of subnets is
taken and given back by the steps of that module, and `LockMapStep` and the actions of
the module change each other's variables in no other way, so that the proofs about
`LockMap` are used for it as they are. `subnet` is the cloud, `subnets[p]` what a call has
read, `handled[p]` how many of those have the endpoint. A subnet is read and written back
whole (`conf` counts the changes of others); `subnetCache` is looked at before the lock is
taken and not again. Two lists may share a subnet and are different keys.

### ShareOps

ControllerExpandVolume, ControllerModifyVolume, CreateSnapshot and
DeleteSnapshot of one share. They take no lock, and come from three sidecars with
one call outstanding for each kind of call. `share` and `snaps` are Azure;
`dataPlaneAPIVolMap`, `resizeFailure` and `sizeCache` are the driver's caches for
this volume. Through the management API an RPC reads the share (`GetFileShare`) and
writes it back whole with one property changed (`UpdateFileShare`, `Written`);
through the data plane it writes the property only. `ListSnapshots` and
`GetSnapshot` are `snapshotExists`, whose two branches differ in where the name of a
snapshot is found; `CreateShareSnapshot`, `GetProperties`, `ReadSizeCache` and
`GetQuota` are the rest of CreateSnapshot with its four sources of the size.

`flaws` is history: it records when one of five known weaknesses has struck (a
whole share written over another's change, an update that took effect after its
call was given up on, a cached size that was too small, a snapshot that could not
be read, a snapshot taken after its call was given up on). The properties say
that nothing else breaks them.

### AzcopyClone

CreateVolume with a content source, from the moment the account is chosen. It
creates the share, asks azcopy's job list what an earlier call has left
(`LookUpJob`, `JobState`), and waits for the copy it starts (`ExecAzcopyCopy`,
`CopyReturns`, `CopyTimesOut`) or polls one that runs (`Poll`, `PollTimesOut`); then
`CleanJobs`. On an error `CleanupShareOnFailure` deletes the share unless its copy
runs. An azcopy process outlives the call that started it; a restart kills it and
leaves the job list, which is on an emptyDir volume. `lost` is history, as `flaws`
above. The code takes every line of the list that contains the name of the share for a job
of it (`util.go:102`); the module takes those that copy to it, which is the same as long as no
name is part of another's and no volume being created is the source of another copy. This is the inside of the `createShare` step of `Provisioning`; the lock of
that module is why there is one RPC per volume here.

### VolumeParameters

What CreateVolume makes of the parameters of a storage class, attempt by attempt:
`ReadParameters` goes through the map in any order (two keys that differ in their spelling
only are one parameter), `Validate` is the checks and defaults, `ConfigureEndpoint`,
`ReadSku`, `SizeAndName`, the choice of the account (`GivenAccount`, `PinnedAccount`,
`CachedAccount`, `EnsureStorageAccount`), `SetServer`, `CreateFileShare` and `Answer`. A
setting is a text, a sequence of words. An ID is the sequence of its segments: `Segmented`
splits the texts it is made of (`IDTexts`) at each `#` that is in them, `Valid` are the checks
of GetFileShareInfo with `validateVolumeIDSegment`, and `GetFileShareInfo` returns empty values
with an error. `GetAccountInfo` and `NodeReads` are how the node reads ID and context, ignoring
that error, `DeleteTarget` how DeleteVolume does, which answers OK with an error and deletes
nothing; `SnapshotID` and `GetInfoFromSnapshotID` are those of snapshots. Tags are looked at
late (`RejectTags`); which ones, and which prefixes of share names, are no good is a parameter. `params` is the map of
the request, which the code changes: the attempt after `OverQuota` or
`AccountLimitExceeded` reads those changes. One handler runs at a time here; what happens
between two is the subject of `Provisioning`. Shares have, as history, the volume they were
made for, and `open` the options that did not matter when the account was chosen. That a
name has at most 63 characters is not modelled: a prefix of 20 (U:112) and the 40 of `pvc-` and
a UID fit, so that `getValidFileShareName` cuts nothing off.

### Credentials

`GetAccountInfo`, `GetStorageAccesskey` and `setCredentialCacheWithOAuthToken`. A key is a pair
of account and generation, a token a generation; `RotateKey` and `RotateToken` make the next.
A volume of the controller gets its key from the cache or Azure and writes a secret that
does not exist yet (`SetAzureCredentials`); on the node the cache, the secret and Azure are
asked in this order. A volume with tickets writes the token file, takes the volume lock,
compares the SHA, sets the ticket and stores the SHA, each a step. `foreign` and `excused`
are history: the accounts whose volumes name a secret made for another account, and that
a call which had written its token file failed or lost the file to NodeUnstageVolume
before it set the ticket, or one with an older token came last.

### NodeMount

NodeStageVolume, NodePublishVolume, NodeUnpublishVolume and NodeUnstageVolume of
one volume on a Linux node. `mounts` counts the mounts on a path (a mount goes on
top of another), `dir` says where there is a directory, `stale` which mounts are
broken, `late` which mount helpers outlived the call that started them
(`WaitUntilTimeout`). `localBind` marks a pod bound to the bare staging directory,
with no share under it. A volume is an SMB or an NFS share, a VHD disk on a share, an inline volume, or a
persistent volume mounted with the service account token of the pod (`"token"`). The last
two NodePublishVolume stages on the target of the pod (`PublishOnTarget`, N:72-177), unless
the target is a mount point and there are no credentials to refresh. Kubelet has the token
for NodePublishVolume only: NodeStageVolume of such a volume answers OK and does nothing
(`StageSkipped`, N:344-347). Without the token NodePublishVolume binds the staging path of a
persistent volume, and gives an inline one nothing; `tokenless` remembers the pods.
NodeStage and NodeUnstage take the key of their path, as does the NodeStageVolume that
NodePublish calls; NodePublish and NodeUnpublish take none. The mount helper is waited for
with a limit (`MountTimesOut`), `FormatAndMount` of a VHD disk without one (N:761): it may
hang for ever, with the lock held.

### WindowsSmb

The host-process mounter, and NodeStageVolume and NodeUnstageVolume around it, for the
volumes of one share. `mapping` is the one SMB global mapping of the share, `link` the
symbolic link of each volume. SMBMount checks the status of the mapping, replaces it when
it is stale, and links; Unmount looks for another link of the share, removes the mapping
when there is none, and then its link; both hold the lock of the remote path in lower
case. `RemoteOf` is the path as a volume spells it: the check for other links compares
spellings, and sees only global mounts (`Seen`), which leaves out inline volumes. A
goroutine of SMBMount outlives its call after a timeout (`late`). `cut` and `leaked` are
history: volumes whose mapping was removed by somebody who could not see them, or by a
replacement that failed; and that a removal, a mount or a restart has left a mapping.

## What the runs check

Model-checked with no error:

| run | instance | shows |
|---|---|---|
| `provisioning` | 3 volumes of one class, v2 names its account; 4 accounts, two of them at the start, each filled by 1 share of 2 GiB, by number (`ShareLimit`) or by `accountQuota`; calls: 3 for v1, 3 for v2, 1 for v1 and 2 for v2, or 1 each for v1 and v3, which then both search when the two accounts are tagged and two more can be created; tag requests that fail any number of times, up to 2 pending Releases; 1 restart or call given up on (none in the last case), and any number of calls given up on once CreateVolume called itself | no key of `volumeLocks` without a pending Release; operations exclude each other, and `volMap` pins a volume, unless CreateVolume called itself; no superfluous account, of two goroutines that find none; a deleted share stays deleted; every RPC returns, at the latest by its deadline; `IInv` |
| `subnets` | 2 goroutines, a list of 2 subnets and the empty list that stands for all, 2 faults, 1 restart | a cached list has its endpoints; only others, or calls with another list, undo a write; the lock implements `KeyedMutex`; every call returns; `SubnetInv` |
| `share_ops` | 2 goroutines, sizes 1 to 3, 2 values of IOPS, 1 snapshot name, both APIs, 3 calls, 1 fault, 1 restart | only the recorded races take back a confirmed size or IOPS, duplicate a snapshot, or answer a size that is too small; `IInv` |
| `clone` | 2 volumes, copies that complete, complete with errors or fail, 2 copies, 1 fault or restart, any number of timeouts | the recorded causes are the only ones for a volume handed out incomplete; one copy per share; cleanup keeps the share of a copy that runs; both volumes are created however often calls time out; `IInv` |
| `node` | NFS, VHD disk, inline, and with a service account token; 1 pod, 2 goroutines, 4 calls, 2 broken mounts, calls given up on or restarts | staged is mounted (but for volumes with a token, which NodeStageVolume does not mount), unstaged is clean and stays clean, a running pod keeps its mount (but for one staged on its target that broke, and without the token it needs), nothing is mounted for a pod that is gone; `IInv`, from which these follow; every RPC returns and gives its lock back though mount helpers hang, unless it is in FormatAndMount |
| `windows_smb` | 3 goroutines, 4 targets of one share, one spelled differently and one inline, 5 calls, 2 faults (failed requests, broken mappings, timeouts, restarts) | a staged volume keeps its link, and its mapping unless the recorded causes have taken it; no mapping is left behind but by a failure; `IInv` |
| `credentials` | 2 goroutines; two volumes that name one secret and are of two accounts; two of one account of which one names a secret; two with the token of one secret; one with the token of an identity, persistent or inline; 1, 2, or 3 events (rotations, failures, restarts, calls given up on, unmounts) | keys do not cross accounts but through a shared secret; the ticket lags behind the answers only for the recorded causes; every volume with a key is mounted in the end; `IInv` |
| `parameters` | 34 sets of one or two storage classes, among them 18 that are refused and one whose IDs cannot be read; 2 calls, 2 faults (failures, limits exceeded, expired caches, restarts) | node, DeleteVolume and snapshots find the volume where it was made, when its ID can be read; attempts decide the same; size, account and share are what was asked for, with the exceptions each property names; `IInv`, from which these follow |

Findings, each a run in which one property fails:

| run | what happens |
|---|---|
| `double_release` | CreateVolume of v finds its account full, releases its key and calls itself. When the inner call has returned, or another retry has taken the key, the outer deferred Release removes the key a second time. `volume_lock.go:30` calls it "a set of all volume IDs with an ongoing operation": an operation is under way and its key is not there. |
| `lock_map_race` | `lockEntry` (`utils.go:90`) reads `mutexMap` after `lm` was released, while `addEntry` for another key writes it: "concurrent map read and map write" ends the process, and LockEntry never "acquires a lock associated with the specific entry" (`utils.go:62`). |
| `clone_clean_jobs` | `azcopy jobs clean` of one volume (C:1429) removes the jobs of all; the call of another volume that polls its job reads NotFound, takes this for the end (C:1408), and answers success for a share whose copy still runs. |
| `credential_refresh` | A call writes the new token to the token file (A:1024) and then fails: the volume lock is taken (Aborted), azfilesauthmanager fails, or the plugin restarts. The next call finds the token in the file, gets no token file path, and is answered OK with the old ticket. N:1281 says that setCredentialCache rotates the ticket on every republish. |

Further disagreements and weaknesses, seen while modelling, that are in the model
as what they are and have no run of their own; where a property exempts one, it says so:

- NodePublishVolume sent again for a running pod calls NodeStageVolume on the target of the
  pod when the volume is inline (N:152) or uses a service account token (N:169), and
  its `ensureMountPoint` (N:615) unmounts a broken mount. N:1023-1034 says why that must not
  be done.
- NodeStageVolume answers OK without a mount when a volume uses a service account token and
  the call brings none (N:344-347). If NodePublishVolume has none either it goes on as for
  any other volume and binds the bare staging directory into the pod.
- FormatAndMount of a VHD disk has no timeout (N:761), unlike the mount of its share: when it
  hangs the RPC does not return and its lock stays held.
- CreateVolume that finds its account full calls itself (C:711, C:788), and when the tag cannot be
  added it finds the same account again, each time one call deeper, until its deadline.
- CreateVolume checks neither `diskName` (C:163) nor `secretNamespace`, which go into the
  volume ID. With a `..` in one of them `GetFileShareInfo` fails (A:587-589, A:605-607): DeleteVolume
  answers OK and deletes nothing (C:947-952), snapshots and expansion fail, the node ignores
  the error (A:888-892) and has only the context. A `#` in one shifts the segments after it.
- `volMap` is not written when `accountSearchCache` has the account (C:687, C:716), so
  that a retry is not pinned to the account its share is on; and `accountQuota`
  (`docs/driver-parameters.md:64`) is not looked at on that path either. Where it is
  written, it pins a retry whatever its parameters are (C:670).
- `RemoveStorageAccountTag` reads `skipMatchingTagCache` and removes the tag later
  (A:1424): one that was added in between is lost.
- A share whose copy completed with errors (C:1396), whose job failed while it was
  polled (C:1408), or was cut short by a restart and still reads InProgress
  (C:1398) is answered as complete, or polled until the call ends.
- Expansion and modification through the management API overwrite each other's
  change (A:1311, `azurefile_mgmt_client.go:146`).
- A snapshot that cannot be read makes `snapshotExists` answer that there is none
  (C:1626), and `getFileShareSizeCache` is not told of expansions (C:1207).
- For a throttled account `""` is put into `dataPlaneAPIAccountCache` (A:1267), which
  switches nothing; `dataPlaneAPIVolMap` is empty after a restart (A:1532).
- NodePublish and NodeUnpublish of one target may overlap; A:302 says of
  `volumeLocks` that it covers such operations. The retry of a NodeStageVolume that
  has mounted an NFS share does not change its mode (`docs/driver-parameters.md:77`).
- Two lists of subnets that share one write it back whole under two locks, so that one
  call may undo the other's change of it.
- A secret that two storage classes name for volumes of different accounts holds the key
  of the first account; the controller caches it as that of the second (A:1571).
- `isKataNode` is learnt from a label in NodePublishVolume and forgotten in a restart (N:189).
- DeleteSnapshot with secrets answers OK when the client of the share cannot be made (C:1296).
- On Windows the check for other volumes of a share compares spellings and does not see
  inline volumes: Unmount takes the mapping from under them.
- *Parameters.* A mutable parameter spelled differently from the storage class's (C:123-127)
  competes with it in the order of the map (C:145). A request may be refused after the
  subnets were updated for it (C:485-509). The name of a VHD disk made from a UUID, and a
  share name generated for an invalid volume name, differ with each attempt. The SKU of
  a given account is read for shares below 32 GiB only, so that one of 32 to 99 GiB on
  a premium account is not raised to its smallest size (C:517), and not when reading it
  fails. An account or share given as an empty text replaces that of the ID on the node.
- *IDs.* The snapshot ID of a volume ID of five segments has its time in another place
  than the parser looks for it (A:641-678, C:1232).
- *Choice of the account.* `lockKey` takes an option that is not set for one set to its
  default, where `docs/driver-parameters.md:45` and its neighbours distinguish them, and
  leaves out `createAccount`: an account remembered for one class is given to another. The
  data plane API takes no protocol or IOPS (`azurefile_dataplane_client.go:87`), and an
  existing share is accepted with another protocol than the requested one.

### Bounds

Every bound is a constant named `Max...`, and a conjunct of a guard (`MaxDefers` a limit of a
count); the calls and faults of `Provisioning` are in `Starts`.

- *Goroutines*: 2, and 3 on Windows. A race here is between a call that was given up on
  and its retry, or between two kinds of calls; a goroutine that has answered serves
  the next call. On Windows a late SMBMount meets an Unmount of its target and a mount
  of another volume of the share.
- *Volumes, accounts, keys*: enough to compete. Provisioning has accounts that one share
  fills, so that they are tagged; two volumes search at the same time when both accounts
  there are carry the tag, and there are two names for accounts they could both create, which
  is what `LockEntry` prevents (the mutant of `OneFreshAccountPerClass` creates both); the lock map
  has two keys because its race needs a second one; the lists of subnets overlap.
- *Sizes*: 3, since a late smaller expansion has to meet a later larger one.
- *Calls*: one call and its retry, with a third for the call of the other kind (an
  expansion during a snapshot, a DeleteVolume after two CreateVolume); 4 on the
  node, the shortest history in which a volume is staged, published, unpublished
  and unstaged; 5 on Windows, two volumes staged and unstaged and a retry; 2 for
  parameters, where each scenario is one or two classes.
- *Faults, restarts*: 1 or 2, at any point: a defect that needs three failures in one
  history is out of reach of the runs, not of the theorems. Failures that repeat without
  end are not counted where a call's own progress depends on them: requests for the
  skip-matching tag, requests to Azure that end a call, and the deadline of a call
  that calls itself in `Provisioning`, timeouts in `AzcopyClone`.
- *Pending Releases*: 2 in `Provisioning`. The second is the one that removes a key which
  is held by then; a third removes it once more.
- *Copies*: 2 that run or are listed at once: one that is lost and its successor, or
  those of two volumes. The number of a job that counts no more is used again,
  so there is no bound on how often a copy fails.
- *Parameters*: the scenarios are chosen so that each rule of CreateVolume about a
  parameter applies in one, and each pair of rules that touch the same setting in one
  more; sizes lie on both sides of the limits of the code (32, 100 GiB, half GiB).

The theorems hold for every value of these. Symmetry (goroutines, volumes, targets with one spelling) is used
in runs without temporal properties only, with the exception of `share_ops`, whose `QuotaNeverShrinks` is an
action property and invariant under the permutations.

Deadlock is checked in `subnets`, `lock_map_race` and `windows_smb`, where a state without a
step would be a defect. In the other runs the calls and events of the instance come to an
end; that their RPCs return is a property of its own where they wait for something.

### Fairness

- `Provisioning`: WF of the steps of each RPC, a goroutine that can go on does, and WF of
  `GiveUp`: the CO sets a deadline for each call (`--timeout=1200s`,
  `deploy/csi-azurefile-controller.yaml:46`), and the requests of a call that is past
  it fail. Without the deadline a CreateVolume whose tag requests keep failing calls
  itself for ever. Starvation-free mutexes are not assumed: the CO sends
  finitely many calls. The expiry of caches and crashes owe nothing.
- `LockMap`: WF of the steps of a goroutine, including that a holder calls
  UnlockEntry, which both callers do on every path; SF of the three Lock calls.
- `SubnetEndpoints`: SF of the steps of a call, since they contain those Lock calls. Azure
  answers every request, if with an error; others need not change anything.
- `NodeMount`: WF of the steps of the driver, among them the timeout of a mount.
  None for a mount helper (`MountDone`, `MountFails`, `LateMount`) or for `FormatAndMount`, which
  may hang for ever, and none for kubelet. The other system calls (directories, umount,
  the bind mount, chmod) are assumed to return.
- `AzcopyClone`: WF of the steps of the driver; a copy that runs ends; the CO calls
  again as long as it has no answer. Nothing is assumed of timeouts, which may
  strike every call.
- `Credentials`: WF of the steps of each goroutine; the CO and kubelet call again for a volume
  with a key that is not mounted; some entry of the node's cache expires and some
  secret that is out of date is updated by its administrator as long as there are such.
  None for rotations, failures and restarts, nor for the volumes with tickets.
- `ShareOps`, `WindowsSmb` and `VolumeParameters` have safety properties only.

## What is proved

For any number of goroutines, volumes, accounts, sizes and names, and any values
of the bounds.

**ProvisioningProofs.** `Invariance`: `Spec => []IInv`; from it `TypeCorrect`,
`KeysAreReleased`, `Exclusion`, `NoDuplicateAccount`, `MutexesAreGivenBack`,
`DeletionIsFinal`, `VolumeIsPinned`. The properties are not inductive. `IInv` is built in layers, each proved from those
before it, one step per action:

1. `TypeOK` and `LocalsInv`: which locals are set at which step. Without it a share
   could be created on no account.
2. `LockInv`: every key in the set has a pending Release, and a key whose
   CreateVolume never called itself exactly one, of the goroutine that acquired it.
   Exclusion follows from the uniqueness; the exception is where the proof breaks
   down, and is what `double_release` shows.
3. `AccountInv`: who is between LockEntry and UnlockEntry holds the mutex of the
   class, and at `newAccount` all accounts of the class have been set aside. The converse,
   that a mutex is held only by somebody inside (`MutexIsInUse`), is `MutexesAreGivenBack`.
4. `DeleteInv`: when the CO learns that v was created, what is left of CreateVolume
   of v has been given up, and cannot reach `createShare`: its context has ended
   (`ProvisionedIsQuiet`), and a second one cannot have been there at the same time,
   by layer 2 (`NoRivalCreate`).
5. `PinInv`: the shares of a volume are on the account it is pinned to (`Pin`, its parameter
   or `volMap`), a goroutine works on that account, and none searches when there is one,
   unless CreateVolume called itself or the volume was created on an unpinned account.

**ShareOpsProofs.** `Invariance`, and from it `TypeCorrect`, `SnapshotIdempotence`,
`ExpansionIsKept`, `ModificationIsKept`, `AnswerCoversSnapshot`, `NeverShrinks`. Layers:

1. `TypeOK`, `LocalsInv`: the management API is sent a share only after it was read.
2. `IdInv`: the IDs of the snapshots ever taken are 1..n, so that a new one is new.
3. `OneLiveCall`: of the calls not given up on, one of each kind.
4. `SearchInv`, with it `OneSnapshotPerName`: while a search goes on, a snapshot of the
   name that is there is still to be read; at `create` there is none. Uses layers 2, 3.
5. `ShareInv`: unless one of the two races has struck, the share is what the live
   RPC has read or written. `QuotaNeverShrinks` follows: an update is larger than the
   size read, and that is the size of the share.
6. `SizeInv`: also the answers on their way cover their snapshots.

**SubnetEndpointsProofs.** For `LockMap`, `MutualExclusion` and `Refinement`: every step of `LockMap`
is a step of `KeyedMutex` under `holder <- mutex`, or changes no holder. The invariant adds
that a key without an entry is held by nobody and is still without one when the
goroutine that found none adds it (`addEntry` resets the mutex to a fresh one), and
that `lm` is held exactly inside its critical sections, and the mutex of an entry only by
a goroutine that has not returned (`EntryIsInUse`).
For `SubnetEndpoints`, `SubnetInvariant`, and from it `CacheIsRight`, `NoLostUpdate` and
`WaitsAreShort` (nobody waits in a circle, and chains of waits have at most two links). That the
lock of a list excludes is `MutualExclusion`, used through the fact that every step of the
module is a step of `LockMap` or leaves its variables alone. What
`SubnetInv` adds is what a call knows of its list while it holds the lock: the subnets it
has handled have the endpoint unless somebody else removed it, and those it has read are as
they were unless somebody else, or a call with another list, has written them since.

**WindowsSmbProofs.** `Invariance`, and from it `TypeCorrect`, `StagedKeepsItsMapping`,
`NoMappingIsLeft`. `IInv` says that only goroutines of SMBMount outlive their call, that a target
with a call that is not over is not staged (`ServingInv`), what the lock of the remote path
protects (`LockedInv`: who is about to link finds a mapping, who is about to remove the
mapping sees no link), and that a mapping nobody has left behind has a link or somebody
who will link (`MappingIsNeeded`), also without the link that an Unmount which has
kept the mapping is about to remove (`NeededByOthers`); without the last part two Unmounts
could each rely on the other's link.

**AzcopyCloneProofs.** `Invariance`, and from it `TypeCorrect`, `CopiesAreComplete`, `NoSecondCopy`,
`CopiesKeepTheirShare`. `IInv` says, in this order: what a call has at each step (`LocalsInv`); that a
process that copies is in the job list, in progress, unless the list was cleaned under it
(`AliveInv`), and that a job that did not complete is recorded as such (`EndedInv`); that of the
jobs of a share one counts (`OneJobCounts`), since a call starts a copy only where each
earlier one has failed; what a call relies on of the jobs of its share where it starts a
copy, waits, cleans and deletes (`JobsInv`); and that where a call or the CO relies on the
copy, the share is full (`FullInv`). The last two need each other: who deletes a share
must know that no copy of it has completed.

**CredentialsProofs.** `Invariance`, and from it `TypeCorrect`, `KeysStayWithTheirAccount`,
`TicketsAreCurrent`. For keys, `KeysInHand` and `KeysOfSecrets` say whose key a call and a secret
have, and that a call works on another account than that of its volume only if the
latter is foreign. For tickets the invariant is `Covered`: a token that was confirmed,
stored as SHA, written to a file or is about to be relied upon is not newer than the
ticket, or a call that is still to set the ticket will do so from a file as new, or
the exception is recorded. It is what shows that the causes in `excused` are all.

**NodeMountProofs.** `Invariance`, and from it `TypeCorrect`, `UnstagedStaysClean`,
`StagedStaysMounted`, `RunningStaysMounted`, `GonePodStaysClean`. `IInv` says

1. what a call is for and between which steps it holds its lock (`CallOK`), and on which
   path it works (`PathOK`): only the share of a VHD disk is mounted elsewhere than on
   the target, and NodeUnstageVolume comes to it when the staging path is gone;
2. that a key has one owner (`LocksOK`), and what kubelet has sent and so thinks of the volume
   and of the pods (`KubeletOK`): of the calls for a path it has given up on all but one;
3. that a success is still true when kubelet gets it (`AnswerOK`): the call still has the lock,
   or nobody has taken it since without being recorded in `overtaken`; and what kubelet
   has been told of a path nobody works on (`ToldOK`); a NodeStageVolume that was skipped for want
   of a token tells it nothing, and a pod that was published without one is in `tokenless`;
4. that a mount keeps its directory (`NodeOK`). This is why a mount helper that outlived its
   call brings nothing back: it needs the directory, an unstaged path has none, and
   directories are made only under the lock.

The proof goes over what the steps do to the node: a step that mounts, unmounts or makes
directories on the path of p (`Effect`) leaves the rest of `IInv` alone by lemmas that are
stated once.

**VolumeParametersProofs.** `DecisionsInvariance` and `Invariance`, and from them `TypeCorrect`,
`RetriesDecideTheSame`, `AnswersFit`, `VolumesAreFound`: for any storage classes, accounts and
SKUs, any text of a parameter, and any number of calls and failures. `IInv` has two halves.
`DecisionInv` is what an attempt decides:

1. the map still says what the request says, or what an earlier attempt has made of it
   (`MapOK`): the NFS that follows from the request, and folders whose variables have been
   replaced, which replaces nothing the second time;
2. at each step the settings are those that follow from the request alone (`SettingsOK`), so
   that settings which agree are refused, completed and named alike (the lemmas `...Like`);
   the exception is the SKU of a given account (`SkuOK`), which Azure has to be asked for;
3. the size and the name (`SizeOK`), and the account: given, or one that fits (`AccountOK`), also
   when it is remembered for the lock key or the volume (`MemoryOK`). That an account found
   under a lock key fits every request with the key is `FitsItsKey` and `KeyFits`;
4. what shares are (`QuotaOK`, `AzureOK`) and what has been answered (`AnswersOK`).

`PlaceInv` is where the volume is found: which texts can be in the map (`WordsOK`), that the map
names the server and the protocol that were chosen (`ContextOK`), that a generated name ends
with the UID of its own volume or is a UUID nobody else has (`NamesOK`), and that ID and
context, read by any of the readers in any order, give back the place when the ID can be
read (`PlacesOK`): no text in it contains `#`, so that it has the segments it was made of
(`SegmentsOf`), and disk and namespace contain no `..`. The readers are functions of sequences
without recursion, but for the split at `#`, of which nothing needs to be known: what they
return is proved from the number and the kinds of segments of an ID (`VolumeIDFacts`,
`DeleteFacts`, `SnapshotFacts`, `AnswerIsFound`).

Assumptions are the named ASSUMEs of the modules: `None` is none of the other
values, the parameters of a volume are a function, the bounds are natural numbers. Those of
`VolumeParameters` say more of its surroundings: texts are sequences and an account's name is
one word; the metadata the provisioner adds are names of Kubernetes objects (no `..` and no
variable); volume names differ in their UID at the end and are no `pvc-file` names; Azure
refuses what is not the ID of a subscription; the driver has a resource group; accounts that
exist have the kind of their SKU; static IDs have 3 to 7 segments.

Only model-checked: the liveness properties (`EveryRpcReturns`, `EveryUpdateReturns`,
`NodeRpcReturns`, `EventuallyCreated`, `MountsInTheEnd`), which are beyond the prover. What two of
them rest on is proved: a mutex that is waited for belongs to a goroutine that can go on
(`MutexesAreGivenBack`, `WaitsAreShort`). The
four findings are counterexamples and have no theorem.

## What is assumed of the surroundings

- The CO has one call outstanding for a volume (provisioner), for a kind of call
  (resizer, snapshotter) or for a target path (kubelet). When it gives up on one the
  context of that call ends: its requests fail, but one that is on its way may still
  take effect. A request may fail after it took effect.
- The CO deletes a volume only after it got its ID and does not use the name again,
  and deletes a snapshot only after it got its ID.
- The requests carry no secrets. A storage class, and a static volume ID, may be changed
  or written by anybody, as `parameters` does.
- Administrators rotate keys and tokens, and update a secret only with the present key of
  the account it is of.
- Links and SMB mappings of Windows survive a restart of the plugin.
- An update through the management API replaces the properties it carries, and the
  driver sends those it has read.
- A container restart ends its processes, azcopy and mount helpers among them, and
  keeps its emptyDir volumes and the mounts of the node.
- The source of a copy does not change while it is copied. No name of a share is part of
  another's, and no volume is the source of a copy while it is being created.
- Kubelet sends the service account token with NodePublishVolume only.

## What is not modelled

- The contents of VHD disks, which CreateVolume formats; secrets given with a call; the
  snapshots of other shares of an account. They would add branches to actions of the
  modules and no state that decisions depend on.
- Content sources in `Provisioning` and `VolumeParameters`: they are in `AzcopyClone`, for a
  volume whose account is chosen.
- On the node: NFS shares and VHD disks mounted with a service account token, which would
  combine two kinds of `NodeMount`.
- NodeGetVolumeStats and Kata direct volumes: calls of the operating system and a cache of
  figures nobody decides by.
- Keys through managed identities and a clientID, and `useSecretCache`: other sources of what
  `Credentials` treats as a key or a token.
- On Windows the mounter that goes through csi-proxy, which forwards each call, and how
  WMI and PowerShell are called.
- Identity service, azurefile-proxy, csi-common, metrics, file watcher, main:
  stateless, generated or plumbing.

## Plan

| order | module | composes / refines | runs | theorems | state |
|---|---|---|---|---|---|
| 1 | `Provisioning` | uses `KeyedMutex` for `volLockMap` | `provisioning`, `double_release` | types, locks, exclusion, accounts, mutexes, deletion, pinning | done |
| 2 | `LockMap` | refines `KeyedMutex` | `subnets`, `lock_map_race` | mutual exclusion, refinement | done |
| 3 | `AzcopyClone` | the copy inside CreateVolume | `clone`, `clone_clean_jobs` | types, one copy per share, complete unless lost, no deletion under a copy | done |
| 4 | `NodeMount` | | `node` | types, staged is mounted, unstaged is clean, pods | done |
| 5 | `ShareOps` | | `share_ops` | types, sizes, IOPS, snapshots | done |
| 6 | `SubnetEndpoints` | composed with `LockMap` | `subnets` | cache, lost updates, no circular wait | done |
| 7 | `Credentials` | | `credentials`, `credential_refresh` | keys of their account, current tickets | done |
| 8 | `VolumeParameters` | the inside of an attempt of `Provisioning` | `parameters` | types, places, retries, answers | done |
| 9 | `WindowsSmb` | what `NodeMount` is on Windows | `windows_smb` | types, mappings | done |
