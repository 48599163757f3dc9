---------------------------- MODULE Provisioning ----------------------------
(***************************************************************************)
(* Dynamic provisioning by the controller service: the CreateVolume and    *)
(* DeleteVolume RPCs of pkg/azurefile/controllerserver.go, each served by  *)
(* a goroutine of its own, over the driver's shared memory (volumeLocks,   *)
(* volMap, accountSearchCache, skipMatchingTagCache, volLockMap) and over  *)
(* the storage accounts and file shares in Azure.                          *)
(*                                                                         *)
(* One action is one access to the shared memory or one Azure request.     *)
(* Requests have no secrets; all shares are of one size.                   *)
(***************************************************************************)
EXTENDS Integers, FiniteSets

CONSTANTS
    Procs,            \* goroutines that serve RPCs
    Vols,             \* volume names (req.Name); the share name is derived from it
    Accounts,         \* storage account names
    Classes,          \* the lockKey values: one per distinct set of parameters
    None,             \* "", nil, not found
    ClassOf,          \* [Vols -> Classes]: the parameters of a volume
    AccountParam,     \* [Vols -> Accounts \cup {None}]: parameter storageAccount
    ClassAtStart,     \* account -> its class if it is there before the driver, else None
    ShareSize,        \* the quota of a share
    ShareLimit,       \* shares an account takes before it answers "limit exceeded"
    AccountQuota,     \* parameter accountQuota; 0 when it is not given
    MinimumAccountQuota, \* minimumAccountQuota
    Starts,           \* what an instance begins with: the accounts that carry the tag from
                      \* before, and two bounds, the RPCs the CO sends for each volume and the
                      \* faults (restarts, and calls given up on that did not call themselves)
    MaxDefers         \* bound: pending Releases of a call that are told apart

ASSUME NoneAssumption ==
    /\ None \notin Accounts
    /\ None \notin Classes
    /\ None \notin Procs

ASSUME ParamAssumption ==
    /\ ClassOf \in [Vols -> Classes]
    /\ AccountParam \in [Vols -> Accounts \cup {None}]

ASSUME StartAssumption ==
    /\ ClassAtStart \in [Accounts -> Classes \cup {None}]
    /\ Starts \subseteq [calls : [Vols -> Nat], faults : Nat, tagged : SUBSET Accounts]

ASSUME BoundAssumption ==
    /\ ShareSize \in Nat
    /\ ShareLimit \in Nat
    /\ AccountQuota \in Nat
    /\ MinimumAccountQuota \in Nat
    /\ MaxDefers \in Nat \ {0}

VARIABLES
    \* memory of the driver
    volumeLocks,           \* keys in the set: <<v, None>> a name, <<v, a>> a volume ID
    volMap,                \* volume name -> account
    accountSearchCache,    \* lockKey -> account
    skipMatchingTagCache,  \* accounts with an unexpired entry
    volLockMap,            \* lockKey -> the goroutine holding its mutex
    \* state of Azure
    class,                 \* account -> its class, None while it does not exist
    skipTag,               \* accounts tagged skip-matching
    shares,                \* <<account, volume>> for each file share
    \* local to an RPC
    pc, target, account, lockKey, defers, reply,
    \* the CO (external-provisioner)
    cancelled,             \* RPCs the CO gave up on: their context has ended
    pv,                    \* volume -> account of the volume ID it was given
    deleted,               \* volumes whose DeleteVolume succeeded
    \* history and bounds
    unpinned,              \* volumes whose account volMap was not told or has lost
    reentered,             \* volumes whose CreateVolume called itself
    everTagged,            \* accounts that carried the tag at some time
    calls,                 \* volume -> RPCs the CO may still send
    faults                 \* faults there may still be

memory == <<volumeLocks, volMap, accountSearchCache, skipMatchingTagCache, volLockMap>>
azure  == <<class, skipTag, shares>>
locals == <<target, account, lockKey, defers, reply>>
co     == <<cancelled, pv, deleted>>
hist   == <<unpinned, reentered, everTagged, calls, faults>>
vars   == <<memory, azure, pc, locals, co, hist>>

VolOf(p)   == target[p][1]
NoTarget   == <<None, None>>
Targets    == Vols \X (Accounts \cup {None})

\* Steps of an RPC during which it operates on its volume.
CreateSteps == {"validate", "search", "lockEntry", "list", "newAccount", "unlockEntry",
                "quota", "tagQuota", "releaseQuota", "remember", "getShare",
                "createShare", "tagLimit", "setSkip", "releaseLimit", "forget", "finish"}
DeleteSteps == {"delShare", "getSkip", "untag", "setSkipDel"}
Working     == CreateSteps \cup DeleteSteps
PCs         == Working \cup {"idle", "acquire", "return"}

TypeOK ==
    /\ volumeLocks \subseteq Targets
    /\ volMap \in [Vols -> Accounts \cup {None}]
    /\ accountSearchCache \in [Classes -> Accounts \cup {None}]
    /\ skipMatchingTagCache \subseteq Accounts
    /\ volLockMap \in [Classes -> Procs \cup {None}]
    /\ class \in [Accounts -> Classes \cup {None}]
    /\ skipTag \subseteq Accounts
    /\ shares \subseteq Accounts \X Vols
    /\ pc \in [Procs -> PCs]
    /\ target \in [Procs -> Targets \cup {NoTarget}]
    /\ \A p \in Procs : pc[p] # "idle" => target[p] \in Targets
    /\ account \in [Procs -> Accounts \cup {None}]
    /\ lockKey \in [Procs -> Classes \cup {None}]
    /\ defers \in [Procs -> Nat]
    /\ reply \in [Procs -> {"none", "ok", "err"}]
    /\ cancelled \subseteq Procs
    /\ pv \in [Vols -> Accounts \cup {None}]
    /\ deleted \subseteq Vols
    /\ unpinned \subseteq Vols
    /\ reentered \subseteq Vols
    /\ everTagged \subseteq Accounts
    /\ calls \in [Vols -> Nat]
    /\ faults \in Nat

Init ==
    /\ volumeLocks = {}
    /\ volMap = [v \in Vols |-> None]
    /\ accountSearchCache = [k \in Classes |-> None]
    /\ skipMatchingTagCache = {}
    /\ volLockMap = [k \in Classes |-> None]
    /\ class = ClassAtStart
    /\ \E s \in Starts : skipTag = s.tagged /\ calls = s.calls /\ faults = s.faults
    /\ shares = {}
    /\ pc = [p \in Procs |-> "idle"]
    /\ target = [p \in Procs |-> NoTarget]
    /\ account = [p \in Procs |-> None]
    /\ lockKey = [p \in Procs |-> None]
    /\ defers = [p \in Procs |-> 0]
    /\ reply = [p \in Procs |-> "none"]
    /\ cancelled = {}
    /\ pv = [v \in Vols |-> None]
    /\ deleted = {}
    /\ unpinned = {}
    /\ reentered = {}
    /\ everTagged = skipTag

Goto(p, from, to) ==
    /\ pc[p] = from
    /\ pc' = [pc EXCEPT ![p] = to]

\* return status.Error(...)
Fail(p, from) ==
    /\ Goto(p, from, "return")
    /\ reply' = [reply EXCEPT ![p] = "err"]

SharesOn(a) == {v \in Vols : <<a, v>> \in shares}

-----------------------------------------------------------------------------
(***************************************************************************)
(* volumeLocks: a set of keys that remembers no owner.                     *)
(***************************************************************************)

\* Mutant: the set is not looked up first.
TryAcquireUnchecked(key) == volumeLocks' = volumeLocks \cup {key}

TryAcquire(key) == key \notin volumeLocks /\ volumeLocks' = volumeLocks \cup {key}

Release(key) == volumeLocks' = volumeLocks \ {key}

-----------------------------------------------------------------------------
(***************************************************************************)
(* CreateVolume.                                                           *)
(***************************************************************************)

\* The CO waits for one call per volume. It gives up on a call that takes too
\* long (--timeout=1200s of the csi-provisioner), which ends the call's context,
\* and sends another; the first is still being served.
Outstanding(v) == {p \in Procs \ cancelled : pc[p] # "idle" /\ VolOf(p) = v}

GiveUp(p) ==
    /\ pc[p] # "idle"
    /\ p \notin cancelled
    /\ VolOf(p) \in reentered \/ faults > 0
    /\ faults' = IF VolOf(p) \in reentered THEN faults ELSE faults - 1
    /\ cancelled' = cancelled \cup {p}
    /\ UNCHANGED <<memory, azure, pc, locals, pv, deleted, unpinned, reentered, everTagged, calls>>

\* Azure requests fail once the context of the call has ended.
Live(p) == p \notin cancelled

\* The CO asks for volume v until it is given a volume ID.
CallCreate(p, v) ==
    /\ pc[p] = "idle"
    /\ pv[v] = None
    /\ Outstanding(v) = {}
    /\ calls[v] > 0
    /\ calls' = [calls EXCEPT ![v] = @ - 1]
    /\ pc' = [pc EXCEPT ![p] = "acquire"]
    /\ target' = [target EXCEPT ![p] = <<v, None>>]
    /\ UNCHANGED <<memory, azure, account, lockKey, defers, reply, co,
                   unpinned, reentered, everTagged, faults>>

\* Mutant: the Release is not deferred.
AcquireNoDefer(p, first) ==
    /\ pc[p] = "acquire"
    /\ TryAcquire(target[p])
    /\ pc' = [pc EXCEPT ![p] = first]
    /\ UNCHANGED <<volMap, accountSearchCache, skipMatchingTagCache, volLockMap, azure,
                   target, account, lockKey, defers, reply, co, hist>>

\* TryAcquire and `defer Release` on success. A call that calls itself again and
\* again is not followed deeper than MaxDefers: it goes on with as many Releases.
Acquire(p, first) ==
    /\ pc[p] = "acquire"
    /\ TryAcquire(target[p])
    /\ pc' = [pc EXCEPT ![p] = first]
    /\ defers' = [defers EXCEPT ![p] = IF @ < MaxDefers THEN @ + 1 ELSE @]
    /\ UNCHANGED <<volMap, accountSearchCache, skipMatchingTagCache, volLockMap,
                   azure, target, account, lockKey, reply, co, hist>>

AcquireCreate(p) == target[p][2] = None /\ Acquire(p, "validate")

\* codes.Aborted: the call that finds the key in the set defers nothing.
Aborted(p) ==
    /\ target[p] \in volumeLocks
    /\ Fail(p, "acquire")
    /\ UNCHANGED <<memory, azure, target, account, lockKey, defers, co, hist>>

\* Parameters are parsed, the service endpoints of the subnets updated, and
\* volMap is asked for the account. The locals of this invocation start empty.
Validate(p) ==
    LET v == VolOf(p)
        a == IF AccountParam[v] # None THEN AccountParam[v] ELSE volMap[v]
    IN  /\ Goto(p, "validate", IF a = None THEN "search" ELSE "getShare")
        /\ account' = [account EXCEPT ![p] = a]
        /\ lockKey' = [lockKey EXCEPT ![p] = None]
        /\ UNCHANGED <<memory, azure, target, defers, reply, co, hist>>

\* A hit goes past RememberAccount: volMap is not told.
SearchAccountCache(p) ==
    LET k == ClassOf[VolOf(p)]
    IN  /\ Goto(p, "search", IF accountSearchCache[k] = None THEN "lockEntry" ELSE "getShare")
        /\ lockKey' = [lockKey EXCEPT ![p] = k]
        /\ account' = [account EXCEPT ![p] = accountSearchCache[k]]
        /\ unpinned' = IF accountSearchCache[k] = None THEN unpinned ELSE unpinned \cup {VolOf(p)}
        /\ UNCHANGED <<memory, azure, target, defers, reply, co, reentered, everTagged,
                       calls, faults>>

\* Mutant: the mutex is taken without waiting.
LockEntryAnyway(p) ==
    /\ Goto(p, "lockEntry", "list")
    /\ volLockMap' = [volLockMap EXCEPT ![lockKey[p]] = p]
    /\ UNCHANGED <<volumeLocks, volMap, accountSearchCache, skipMatchingTagCache,
                   azure, locals, co, hist>>

LockEntry(p) ==
    /\ Goto(p, "lockEntry", "list")
    /\ volLockMap[lockKey[p]] = None
    /\ volLockMap' = [volLockMap EXCEPT ![lockKey[p]] = p]
    /\ UNCHANGED <<volumeLocks, volMap, accountSearchCache, skipMatchingTagCache,
                   azure, locals, co, hist>>

\* EnsureStorageAccount lists the accounts that match and are not tagged...
Matching(k) == {a \in Accounts : class[a] = k /\ a \notin skipTag}

EnsureListAccounts(p) ==
    /\ Live(p)
    /\ \/ /\ \E a \in Matching(lockKey[p]) : account' = [account EXCEPT ![p] = a]
          /\ Goto(p, "list", "unlockEntry")
       \/ /\ Matching(lockKey[p]) = {}
          /\ Goto(p, "list", "newAccount")
          /\ UNCHANGED account
    /\ UNCHANGED <<memory, azure, target, lockKey, defers, reply, co, hist>>

\* ... and creates one when there is none. A later step of it (private
\* endpoint, file service properties, key) may fail: an error, and the account
\* stays.
EnsureCreateAccount(p) ==
    /\ Live(p)
    /\ Goto(p, "newAccount", "unlockEntry")
    /\ \E a \in Accounts :
         /\ class[a] = None
         /\ class' = [class EXCEPT ![a] = lockKey[p]]
         /\ \E r \in {a, None} : account' = [account EXCEPT ![p] = r]
    /\ UNCHANGED <<memory, skipTag, shares, target, lockKey, defers, reply, co, hist>>

\* EnsureStorageAccount returns an error.
EnsureFails(p) ==
    /\ \/ Goto(p, "list", "unlockEntry")
       \/ Goto(p, "newAccount", "unlockEntry")
    /\ account' = [account EXCEPT ![p] = None]
    /\ UNCHANGED <<memory, azure, target, lockKey, defers, reply, co, hist>>

\* The total quota is read only when accountQuota is above the minimum.
QuotaIsChecked == AccountQuota > MinimumAccountQuota
OverQuota(a)   == QuotaIsChecked /\ ShareSize * Cardinality(SharesOn(a)) > AccountQuota

\* Mutant: the error of EnsureStorageAccount is not looked at.
UnlockEntryNoCheck(p) ==
    /\ Goto(p, "unlockEntry", IF QuotaIsChecked THEN "quota" ELSE "remember")
    /\ volLockMap' = [volLockMap EXCEPT ![lockKey[p]] = None]
    /\ UNCHANGED <<volumeLocks, volMap, accountSearchCache, skipMatchingTagCache,
                   azure, locals, co, hist>>

\* Mutant: the error return comes before UnlockEntry.
UnlockEntryOnSuccess(p) ==
    /\ \/ /\ account[p] # None
          /\ Goto(p, "unlockEntry", IF QuotaIsChecked THEN "quota" ELSE "remember")
          /\ volLockMap' = [volLockMap EXCEPT ![lockKey[p]] = None]
          /\ UNCHANGED reply
       \/ account[p] = None /\ Fail(p, "unlockEntry") /\ UNCHANGED volLockMap
    /\ UNCHANGED <<volumeLocks, volMap, accountSearchCache, skipMatchingTagCache,
                   azure, target, account, lockKey, defers, co, hist>>

\* The lock is released before the error is looked at.
UnlockEntry(p) ==
    /\ \/ /\ account[p] # None
          /\ Goto(p, "unlockEntry", IF QuotaIsChecked THEN "quota" ELSE "remember")
          /\ UNCHANGED reply
       \/ account[p] = None /\ Fail(p, "unlockEntry")
    /\ volLockMap' = [volLockMap EXCEPT ![lockKey[p]] = None]
    /\ UNCHANGED <<volumeLocks, volMap, accountSearchCache, skipMatchingTagCache,
                   azure, target, account, lockKey, defers, co, hist>>

CheckAccountQuota(p) ==
    /\ Live(p)
    /\ Goto(p, "quota", IF OverQuota(account[p]) THEN "tagQuota" ELSE "remember")
    /\ UNCHANGED <<memory, azure, locals, co, hist>>

\* A failure of AddStorageAccountTags is only logged, and nothing limits how often
\* it fails: CreateVolume then finds the same account when it calls itself.
AddSkipTag(p, from, to) ==
    /\ Goto(p, from, to)
    /\ \/ /\ Live(p)
          /\ skipTag' = skipTag \cup {account[p]}
          /\ everTagged' = everTagged \cup {account[p]}
       \/ UNCHANGED <<skipTag, everTagged>>
    /\ UNCHANGED <<memory, class, shares, locals, co, unpinned, reentered, calls, faults>>

TagOverQuota(p) == AddSkipTag(p, "tagQuota", "releaseQuota")

\* The key is released, then CreateVolume calls itself; the deferred Release
\* of this invocation stays pending.
ReleaseAndReenter(p, from, to) ==
    /\ Goto(p, from, to)
    /\ Release(target[p])
    /\ reentered' = reentered \cup {VolOf(p)}
    /\ UNCHANGED <<volMap, accountSearchCache, skipMatchingTagCache, volLockMap,
                   azure, locals, co, unpinned, everTagged, calls, faults>>

RetryOverQuota(p) == ReleaseAndReenter(p, "releaseQuota", "acquire")

\* Mutant: volMap is not told of the account.
RememberInCacheOnly(p) ==
    /\ Goto(p, "remember", "getShare")
    /\ accountSearchCache' = [accountSearchCache EXCEPT ![lockKey[p]] = account[p]]
    /\ UNCHANGED <<volumeLocks, volMap, skipMatchingTagCache, volLockMap, azure, locals, co, hist>>

\* accountSearchCache.Set and volMap.Store.
RememberAccount(p) ==
    /\ Goto(p, "remember", "getShare")
    /\ accountSearchCache' = [accountSearchCache EXCEPT ![lockKey[p]] = account[p]]
    /\ volMap' = [volMap EXCEPT ![VolOf(p)] = account[p]]
    /\ UNCHANGED <<volumeLocks, skipMatchingTagCache, volLockMap, azure, locals, co, hist>>

\* Mutant: the requests do not carry the context of the call.
GetFileShareDetached(p) ==
    /\ Goto(p, "getShare", IF <<account[p], VolOf(p)>> \in shares
                           THEN "finish" ELSE "createShare")
    /\ UNCHANGED <<memory, azure, locals, co, hist>>

\* getFileShareQuota finds no share, or one that is large enough, and
\* CreateFileShare has nothing to do when the share exists. A create request
\* that was sent takes effect whether or not the CO still waits.
GetFileShare(p) ==
    /\ Live(p)
    /\ Goto(p, "getShare", IF <<account[p], VolOf(p)>> \in shares
                           THEN "finish" ELSE "createShare")
    /\ UNCHANGED <<memory, azure, locals, co, hist>>

\* ShareAlreadyExists is a success. The answer to a request that took effect may
\* be lost, and that is an error.
CreateFileShare(p) ==
    LET s == <<account[p], VolOf(p)>>
    IN  /\ s \in shares \/ Cardinality(SharesOn(account[p])) < ShareLimit
        /\ shares' = shares \cup {s}
        /\ \/ Goto(p, "createShare", "finish") /\ UNCHANGED reply
           \/ Fail(p, "createShare")
        /\ UNCHANGED <<memory, class, skipTag, target, account, lockKey, defers, co, hist>>

\* The account is full: an error when the storage class names the account,
\* else the account is set aside and CreateVolume starts again.
AccountLimitExceeded(p) ==
    /\ <<account[p], VolOf(p)>> \notin shares
    /\ Cardinality(SharesOn(account[p])) >= ShareLimit
    /\ \/ AccountParam[VolOf(p)] # None /\ Fail(p, "createShare")
       \/ AccountParam[VolOf(p)] = None /\ Goto(p, "createShare", "tagLimit") /\ UNCHANGED reply
    /\ UNCHANGED <<memory, azure, target, account, lockKey, defers, co, hist>>

TagFullAccount(p) == AddSkipTag(p, "tagLimit", "setSkip")

SetSkipMatchingTagCache(p) ==
    /\ Goto(p, "setSkip", "releaseLimit")
    /\ skipMatchingTagCache' = skipMatchingTagCache \cup {account[p]}
    /\ UNCHANGED <<volumeLocks, volMap, accountSearchCache, volLockMap, azure, locals, co, hist>>

RetryFullAccount(p) == ReleaseAndReenter(p, "releaseLimit", "forget")

\* accountSearchCache.Delete(lockKey) and volMap.Delete(volName). Nothing is
\* stored under "", which is what lockKey is when the account came from volMap.
ForgetAccount(p) ==
    /\ Goto(p, "forget", "acquire")
    /\ accountSearchCache' = IF lockKey[p] = None THEN accountSearchCache
                             ELSE [accountSearchCache EXCEPT ![lockKey[p]] = None]
    /\ volMap' = [volMap EXCEPT ![VolOf(p)] = None]
    /\ UNCHANGED <<volumeLocks, skipMatchingTagCache, volLockMap, azure, locals, co, hist>>

\* The account key is stored and the volume ID returned.
Finish(p) ==
    /\ Goto(p, "finish", "return")
    /\ reply' = [reply EXCEPT ![p] = "ok"]
    /\ UNCHANGED <<memory, azure, target, account, lockKey, defers, co, hist>>

\* The early error returns of CreateVolume: bad parameters or subnet update,
\* quota of the account or of the share, any other error of CreateFileShare,
\* access key, VHD file, Kubernetes secret.
ReturnError(p) ==
    /\ \E s \in {"validate", "quota", "getShare", "createShare", "finish"} : Fail(p, s)
    /\ UNCHANGED <<memory, azure, target, account, lockKey, defers, co, hist>>

\* Mutant: the deferred call does not remove the key.
RunDeferNoRelease(p) ==
    /\ pc[p] = "return"
    /\ defers[p] > 0
    /\ defers' = [defers EXCEPT ![p] = @ - 1]
    /\ UNCHANGED <<memory, azure, pc, target, account, lockKey, reply, co, hist>>

\* A deferred Release runs for each invocation that acquired the key.
RunDefer(p) ==
    /\ pc[p] = "return"
    /\ defers[p] > 0
    /\ Release(target[p])
    /\ defers' = [defers EXCEPT ![p] = @ - 1]
    /\ UNCHANGED <<volMap, accountSearchCache, skipMatchingTagCache, volLockMap,
                   azure, pc, target, account, lockKey, reply, co, hist>>

\* The locals go; the reply reaches the CO unless it has given up on the call.
Reply(p) ==
    /\ defers[p] = 0
    /\ Goto(p, "return", "idle")
    /\ cancelled' = cancelled \ {p}
    /\ IF Live(p) /\ reply[p] = "ok" /\ target[p][2] = None
       THEN pv' = [pv EXCEPT ![VolOf(p)] = account[p]] ELSE UNCHANGED pv
    /\ IF Live(p) /\ reply[p] = "ok" /\ target[p][2] # None
       THEN deleted' = deleted \cup {VolOf(p)} ELSE UNCHANGED deleted
    /\ target' = [target EXCEPT ![p] = NoTarget]
    /\ account' = [account EXCEPT ![p] = None]
    /\ lockKey' = [lockKey EXCEPT ![p] = None]
    /\ reply' = [reply EXCEPT ![p] = "none"]
    /\ UNCHANGED <<memory, azure, defers, hist>>

-----------------------------------------------------------------------------
(***************************************************************************)
(* DeleteVolume: its key is the volume ID, not the volume name.            *)
(***************************************************************************)

\* A volume is deleted only after its ID was returned, and not used again.
CallDelete(p, v) ==
    /\ pc[p] = "idle"
    /\ pv[v] # None
    /\ v \notin deleted
    /\ Outstanding(v) = {}
    /\ calls[v] > 0
    /\ calls' = [calls EXCEPT ![v] = @ - 1]
    /\ pc' = [pc EXCEPT ![p] = "acquire"]
    /\ target' = [target EXCEPT ![p] = <<v, pv[v]>>]
    /\ UNCHANGED <<memory, azure, account, lockKey, defers, reply, co,
                   unpinned, reentered, everTagged, faults>>

AcquireDelete(p) == target[p][2] # None /\ Acquire(p, "delShare")

\* DeleteFileShare: a share that is not there is a success. The share may be
\* gone although the request failed.
DeleteFileShare(p) ==
    LET s == <<target[p][2], VolOf(p)>>
    IN  /\ \/ /\ Live(p)
              /\ Goto(p, "delShare", "getSkip")
              /\ shares' = shares \ {s}
              /\ UNCHANGED reply
           \/ Fail(p, "delShare") /\ shares' \in {shares, shares \ {s}}
        /\ UNCHANGED <<memory, class, skipTag, target, account, lockKey, defers, co, hist>>

\* RemoveStorageAccountTag does nothing while the cache has the account.
GetSkipMatchingTagCache(p) ==
    /\ \/ /\ target[p][2] \in skipMatchingTagCache
          /\ Goto(p, "getSkip", "return")
          /\ reply' = [reply EXCEPT ![p] = "ok"]
       \/ /\ target[p][2] \notin skipMatchingTagCache
          /\ Goto(p, "getSkip", "untag")
          /\ UNCHANGED reply
    /\ UNCHANGED <<memory, azure, target, account, lockKey, defers, co, hist>>

\* A failure to remove the tag is only logged.
RemoveStorageAccountTag(p) ==
    /\ Goto(p, "untag", "setSkipDel")
    /\ \/ Live(p) /\ skipTag' = skipTag \ {target[p][2]}
       \/ UNCHANGED skipTag
    /\ UNCHANGED <<memory, class, shares, locals, co, hist>>

SetSkipAfterRemove(p) ==
    /\ Goto(p, "setSkipDel", "return")
    /\ skipMatchingTagCache' = skipMatchingTagCache \cup {target[p][2]}
    /\ reply' = [reply EXCEPT ![p] = "ok"]
    /\ UNCHANGED <<volumeLocks, volMap, accountSearchCache, volLockMap, azure,
                   target, account, lockKey, defers, co, hist>>

-----------------------------------------------------------------------------
(***************************************************************************)
(* Expiry of the timed caches; restart of the controller.                  *)
(***************************************************************************)

ExpireSearch(k) ==
    /\ accountSearchCache[k] # None
    /\ accountSearchCache' = [accountSearchCache EXCEPT ![k] = None]
    /\ UNCHANGED <<volumeLocks, volMap, skipMatchingTagCache, volLockMap,
                   azure, pc, locals, co, hist>>

ExpireSkip(a) ==
    /\ a \in skipMatchingTagCache
    /\ skipMatchingTagCache' = skipMatchingTagCache \ {a}
    /\ UNCHANGED <<volumeLocks, volMap, accountSearchCache, volLockMap,
                   azure, pc, locals, co, hist>>

\* All of the driver's memory is lost, Azure and the CO are not.
Crash ==
    /\ faults > 0
    /\ faults' = faults - 1
    /\ volumeLocks' = {}
    /\ volMap' = [v \in Vols |-> None]
    /\ accountSearchCache' = [k \in Classes |-> None]
    /\ skipMatchingTagCache' = {}
    /\ volLockMap' = [k \in Classes |-> None]
    /\ pc' = [p \in Procs |-> "idle"]
    /\ target' = [p \in Procs |-> NoTarget]
    /\ account' = [p \in Procs |-> None]
    /\ lockKey' = [p \in Procs |-> None]
    /\ defers' = [p \in Procs |-> 0]
    /\ reply' = [p \in Procs |-> "none"]
    /\ cancelled' = {}
    /\ unpinned' = Vols
    /\ UNCHANGED <<azure, pv, deleted, reentered, everTagged, calls>>

-----------------------------------------------------------------------------
CreateStep(p) ==
    \/ AcquireCreate(p) \/ Aborted(p) \/ Validate(p) \/ SearchAccountCache(p)
    \/ LockEntry(p) \/ EnsureListAccounts(p) \/ EnsureCreateAccount(p)
    \/ EnsureFails(p) \/ UnlockEntry(p) \/ CheckAccountQuota(p)
    \/ TagOverQuota(p) \/ RetryOverQuota(p) \/ RememberAccount(p)
    \/ GetFileShare(p) \/ CreateFileShare(p) \/ AccountLimitExceeded(p)
    \/ TagFullAccount(p) \/ SetSkipMatchingTagCache(p) \/ RetryFullAccount(p)
    \/ ForgetAccount(p) \/ Finish(p) \/ ReturnError(p)

DeleteStep(p) ==
    \/ AcquireDelete(p) \/ DeleteFileShare(p) \/ GetSkipMatchingTagCache(p)
    \/ RemoveStorageAccountTag(p) \/ SetSkipAfterRemove(p)

RpcStep(p) == CreateStep(p) \/ DeleteStep(p) \/ RunDefer(p) \/ Reply(p)

Next ==
    \/ \E p \in Procs : RpcStep(p)
    \/ \E p \in Procs, v \in Vols : CallCreate(p, v) \/ CallDelete(p, v)
    \/ \E p \in Procs : GiveUp(p)
    \/ \E k \in Classes : ExpireSearch(k)
    \/ \E a \in Accounts : ExpireSkip(a)
    \/ Crash

Spec == Init /\ [][Next]_vars

(***************************************************************************)
(* Goroutines that can run do run, and Azure answers every request. The    *)
(* deadline that the CO has set for a call comes: while                    *)
(* AddStorageAccountTags keeps failing nothing else ends a CreateVolume    *)
(* that calls itself. The expiries and crashes owe nothing. That mutexes   *)
(* of Go are starvation-free is not needed: the CO sends finitely many     *)
(* calls.                                                                  *)
(***************************************************************************)
Fairness == \A p \in Procs : WF_vars(RpcStep(p)) /\ WF_vars(GiveUp(p))

FairSpec == Spec /\ Fairness

-----------------------------------------------------------------------------
(***************************************************************************)
(* Properties.                                                             *)
(***************************************************************************)

\* Between its TryAcquire and its Release (the explicit one before CreateVolume
\* calls itself, or the deferred one) an RPC operates on its key.
Operating(p) == pc[p] \in Working \ {"forget"}

\* "a set of all volume IDs with an ongoing operation" (volume_lock.go:30): the
\* key of an RPC that operates on a volume is in volumeLocks. Re-entered calls
\* of CreateVolume release a key twice, so it does not hold.
OngoingIsLocked == \A p \in Procs : Operating(p) => target[p] \in volumeLocks

\* A key is in volumeLocks only while some RPC still has to run a deferred
\* Release for it: no error path leaves a volume locked for ever.
NoOrphanLock ==
    \A key \in volumeLocks : \E p \in Procs : target[p] = key /\ defers[p] > 0

\* Two RPCs operate on the same key only if it is the name of a volume whose
\* CreateVolume called itself. DeleteVolume of a volume ID is always alone.
ExclusiveUnlessReentered ==
    \A p, q \in Procs :
        /\ p # q /\ Operating(p) /\ Operating(q)
        /\ target[p] = target[q]
        => target[p][2] = None /\ VolOf(p) \in reentered

\* EnsureStorageAccount under volLockMap never creates an account next to one
\* that it could have used: of the accounts of a class that the driver created,
\* all but one have been set aside with the skip-matching tag.
OneFreshAccountPerClass ==
    \A a, b \in Accounts :
        /\ class[a] # None /\ class[a] = class[b]
        /\ {a, b} \cap everTagged = {}
        /\ \E x \in {a, b} : ClassAtStart[x] = None
        => a = b

\* Once DeleteVolume has succeeded, the share it deleted does not come back by
\* a CreateVolume still being served, unless that CreateVolume called itself.
DeletedStaysDeleted ==
    \A v \in deleted \ reentered : <<pv[v], v>> \notin shares

\* volMap pins a volume to its account: however often CreateVolume(v) fails and
\* is sent again, it makes the share on one account, unless the account came
\* from accountSearchCache, CreateVolume called itself or volMap was lost.
OneAccountPerVolume ==
    \A v \in Vols \ (unpinned \cup reentered), a, b \in Accounts :
        <<a, v>> \in shares /\ <<b, v>> \in shares => a = b

\* Every RPC returns. The deadline of the call ends a CreateVolume that calls
\* itself, even when every request for the tag fails, and nobody waits for ever in
\* LockEntry, which heeds no deadline.
EveryRpcReturns == \A p \in Procs : pc[p] # "idle" ~> pc[p] = "idle"

-----------------------------------------------------------------------------
(***************************************************************************)
(* The inductive invariant behind the theorems of ProvisioningProofs.      *)
(***************************************************************************)

\* What each step may rely on: an account was chosen, a class computed, the
\* target is a name or an ID.
AccountSteps == {"quota", "tagQuota", "releaseQuota", "remember", "getShare",
                 "createShare", "tagLimit", "setSkip", "releaseLimit", "forget", "finish"}
EntrySteps   == {"list", "newAccount", "unlockEntry"}

LocalsInv ==
    \A p \in Procs :
        /\ pc[p] \in AccountSteps => account[p] \in Accounts
        /\ pc[p] \in EntrySteps \cup {"lockEntry"} => lockKey[p] = ClassOf[VolOf(p)]
        /\ pc[p] \in CreateSteps => target[p][2] = None
        /\ pc[p] \in DeleteSteps => target[p][2] # None

\* A key is backed by a pending Release, and for a key whose CreateVolume never
\* called itself there is exactly one.
Once(key) == key[2] # None \/ key[1] \notin reentered

LockInv ==
    /\ NoOrphanLock
    /\ \A p \in Procs :
         /\ Operating(p) => defers[p] > 0
         /\ pc[p] = "idle" => defers[p] = 0
         /\ Once(target[p]) => /\ defers[p] \in {0, 1}
                               /\ defers[p] = 1 => target[p] \in volumeLocks
                               /\ pc[p] = "acquire" => defers[p] = 0
                               /\ pc[p] # "forget"
    /\ \A p, q \in Procs :
         defers[p] > 0 /\ defers[q] > 0 /\ target[p] = target[q] /\ Once(target[p]) => p = q

\* A mutex that LockEntry waits for is held by a goroutine between LockEntry and
\* UnlockEntry, which waits for no other: no return path of CreateVolume keeps the
\* mutex, and no two RPCs wait for each other.
MutexIsInUse ==
    \A k \in Classes : volLockMap[k] # None =>
        pc[volLockMap[k]] \in EntrySteps /\ lockKey[volLockMap[k]] = k

\* The mutex of a class is held by the goroutine inside EnsureStorageAccount,
\* which creates an account only when all of the class have been set aside.
AccountInv ==
    /\ OneFreshAccountPerClass
    /\ MutexIsInUse
    /\ skipTag \subseteq everTagged
    /\ \A p \in Procs : pc[p] \in EntrySteps => volLockMap[lockKey[p]] = p
    /\ \A p \in Procs : pc[p] = "newAccount" =>
          \A a \in Accounts : class[a] = lockKey[p] => a \in everTagged

\* The CO waits for one call per volume.
OneLiveCall ==
    \A p, q \in Procs \ cancelled :
        pc[p] # "idle" /\ pc[q] # "idle" /\ VolOf(p) = VolOf(q) => p = q

\* While the CO is about to learn that v was created, nobody creates its share.
NoRivalCreate ==
    \A p, q \in Procs :
        /\ p # q /\ target[p] = target[q] /\ target[q][2] = None
        /\ VolOf(q) \notin reentered
        /\ q \notin cancelled /\ pc[q] = "return" /\ reply[q] = "ok"
        => pc[p] # "createShare"

\* Once it knows, what is left of CreateVolume(v) has been given up and cannot
\* send a request for the share any more.
ProvisionedIsQuiet ==
    \A p \in Procs :
        /\ pc[p] # "idle" /\ target[p][2] = None /\ pv[VolOf(p)] # None
        => p \in cancelled /\ (VolOf(p) \notin reentered => pc[p] # "createShare")

DeleteTargetsPv ==
    \A p \in Procs : pc[p] # "idle" /\ target[p][2] # None => target[p][2] = pv[VolOf(p)]

\* From DeleteFileShare to the reply the share is gone.
ShareIsGone ==
    \A p \in Procs :
        /\ target[p][2] # None /\ VolOf(p) \notin reentered
        /\ \/ pc[p] \in {"getSkip", "untag", "setSkipDel"}
           \/ pc[p] = "return" /\ reply[p] = "ok"
        => <<target[p][2], VolOf(p)>> \notin shares

DeleteInv ==
    /\ DeletedStaysDeleted
    /\ OneLiveCall
    /\ NoRivalCreate
    /\ ProvisionedIsQuiet
    /\ DeleteTargetsPv
    /\ ShareIsGone
    /\ \A v \in deleted : pv[v] # None

\* The account of v is the one it names or the one volMap was told. What is
\* left of a search for another account has not begun.
Pin(v) == IF AccountParam[v] # None THEN AccountParam[v] ELSE volMap[v]

SearchSteps == {"search", "lockEntry", "quota", "tagQuota", "releaseQuota", "remember"}
               \cup EntrySteps
UseSteps    == {"getShare", "createShare", "tagLimit", "setSkip", "releaseLimit", "finish"}

PinInv ==
    /\ \A v \in Vols \ (unpinned \cup reentered) :
          \A a \in Accounts : <<a, v>> \in shares => a = Pin(v)
    /\ \A p \in Procs :
          /\ pc[p] # "idle" /\ target[p][2] = None
          /\ VolOf(p) \notin unpinned \cup reentered
          => /\ pc[p] \in SearchSteps => Pin(VolOf(p)) = None
             /\ pc[p] \in UseSteps => account[p] = Pin(VolOf(p))

\* The whole of it: every reachable state of the driver, Azure and the CO.
IInv == TypeOK /\ LocalsInv /\ LockInv /\ AccountInv /\ DeleteInv /\ PinInv
=============================================================================
