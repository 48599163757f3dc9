---------------------------- MODULE Credentials ----------------------------
(***************************************************************************)
(* What an SMB mount authenticates with: account keys, which CreateVolume  *)
(* stores in secrets of Kubernetes and the node reads from its cache, a    *)
(* secret or Azure, and Kerberos tickets, which the node gets with a token *)
(* that stands in a secret ("oauth") or that kubelet passes ("identity").  *)
(*                                                                         *)
(* GetAccountInfo, GetStorageAccesskey and setCredentialCacheWithOAuthToken *)
(* step by step, between the caches, files and secrets they read and       *)
(* write. The volumes with tickets are those of one server and one         *)
(* identity. Credentials given with a call, managed identities, keys       *)
(* through a clientID and useSecretCache are left out.                     *)
(***************************************************************************)
EXTENDS Integers

CONSTANTS
    Procs,        \* goroutines of the controller and of the node
    Accounts, Secrets,
    Volumes,
    Account,      \* volume -> its account
    Auth,         \* volume -> "key", "oauth" or "identity"
    SecretName,   \* volume -> the secret its storage class names, or None
    DefaultName,  \* account -> azure-storage-account-<account>-secret
    Inline,       \* the ephemeral volumes
    Scenarios,    \* the sets of volumes there may be
    None,
    MaxEvents,    \* bound: rotations, failures, restarts, abandoned calls, unmounts
    Bound         \* and the bound of each scenario

ASSUME CredentialsAssumption ==
    /\ Account \in [Volumes -> Accounts]
    /\ Auth \in [Volumes -> {"key", "oauth", "identity"}]
    /\ SecretName \in [Volumes -> Secrets \cup {None}]
    /\ DefaultName \in [Accounts -> Secrets]
    /\ Inline \subseteq Volumes /\ Scenarios \subseteq SUBSET Volumes
    /\ None \notin Secrets \cup Accounts \cup Volumes \cup (Accounts \X Nat)
    /\ MaxEvents \in Nat /\ Bound \in [Scenarios -> 0..MaxEvents]

Generations == 1..(MaxEvents + 1)

KeyVolumes == {v \in Volumes : Auth[v] = "key"}

\* A key belongs to an account and is good until the account gets the next one.
Keys == Accounts \X Generations

VARIABLES
    used,         \* the volumes there are
    \* Azure, Kubernetes and kubelet
    keyNow,       \* account -> generation of its key
    secret,       \* name -> the account and the key in it, or None
    token,        \* generation of the token in the secret, or of the one kubelet passes
    created,      \* volumes CreateVolume has answered
    \* the node
    ticket,       \* generation of the token behind the Kerberos ticket, or 0
    tokenFile,    \* volume -> generation of the token in its file, or 0
    mounted,      \* volume -> account it is mounted from, or None
    \* memory of the processes
    cache,        \* accountCacheMap of "controller" and "node": account -> key and age, or None
    sha,          \* oauthTokenSHAMap: generation of the token, or 0
    locked,       \* goroutines that hold the volume lock of their target
    \* goroutines
    pc, vol,
    key,          \* the key it has, or None
    tok,          \* generation of the token it has, or 0
    acct,         \* the account it works on
    path,         \* tokenFilePath is not empty
    late,         \* goroutines whose call was given up on
    \* history and bounds
    foreign,      \* accounts one of whose volumes names a secret made for another account
    confirmed,    \* latest token a call has been answered OK with
    excused,      \* the ticket may lag behind it, see TicketIsCurrent
    events

azure == <<keyNow, secret, token, created>>
node == <<ticket, tokenFile, mounted>>
memory == <<cache, sha, locked>>
locals == <<vol, key, tok, acct, path, late>>
hist == <<foreign, confirmed, excused>>
vars == <<used, azure, node, memory, pc, locals, hist, events>>

Sides == {"controller", "node"}
ControllerPCs == {"ctlCache", "ctlSecret", "ctlKeys", "ctlCreate"}
NodePCs == {"cache", "secret", "keys", "readFile", "writeFile", "lock",
            "token", "sha", "ticket", "store", "mount"}

TypeOK ==
    /\ used \in Scenarios
    /\ keyNow \in [Accounts -> Generations]
    /\ secret \in [Secrets -> [account : Accounts, key : Keys] \cup {None}]
    /\ {token, confirmed, ticket, sha} \subseteq 0..(MaxEvents + 1)
    /\ created \subseteq used
    /\ tokenFile \in [Volumes -> 0..(MaxEvents + 1)]
    /\ mounted \in [Volumes -> Accounts \cup {None}]
    /\ cache \in [Sides -> [Accounts -> [key : Keys, age : {"new", "old"}] \cup {None}]]
    /\ pc \in [Procs -> {"idle"} \cup ControllerPCs \cup NodePCs]
    /\ vol \in [Procs -> Volumes \cup {None}]
    /\ key \in [Procs -> Keys \cup {None}]
    /\ tok \in [Procs -> 0..(MaxEvents + 1)]
    /\ acct \in [Procs -> Accounts \cup {None}]
    /\ path \in [Procs -> BOOLEAN]
    /\ late \subseteq Procs
    /\ foreign \subseteq Accounts /\ excused \in BOOLEAN
    /\ events \in 0..MaxEvents
    /\ \A p \in locked : p \in Procs /\ pc[p] \in {"token", "sha", "ticket", "store", "mount"}
    /\ \A p, q \in locked : vol[p] = vol[q] => p = q

\* Volumes with a ticket exist already.
Init ==
    /\ used \in Scenarios
    /\ keyNow = [a \in Accounts |-> 1]
    /\ secret = [s \in Secrets |-> None]
    /\ token = 1
    /\ created = {v \in used : Auth[v] # "key"}
    /\ ticket = 0
    /\ tokenFile = [v \in Volumes |-> 0]
    /\ mounted = [v \in Volumes |-> None]
    /\ cache = [s \in Sides |-> [a \in Accounts |-> None]]
    /\ sha = 0
    /\ locked = {}
    /\ pc = [p \in Procs |-> "idle"]
    /\ vol = [p \in Procs |-> None]
    /\ key = [p \in Procs |-> None]
    /\ tok = [p \in Procs |-> 0]
    /\ acct = [p \in Procs |-> None]
    /\ path = [p \in Procs |-> FALSE]
    /\ late = {}
    /\ foreign = {} /\ confirmed = 0 /\ excused = FALSE
    /\ events = 0

Event == events < Bound[used] /\ events' = events + 1

Goto(p, to) == pc' = [pc EXCEPT ![p] = to]

KeepKey(p, k) == key' = [key EXCEPT ![p] = k]
KeepToken(p, n) == tok' = [tok EXCEPT ![p] = n]

Side(p) == IF pc[p] \in ControllerPCs THEN "controller" ELSE "node"

Key(a) == <<a, keyNow[a]>>

\* The secret of a volume's account key.
SecretOf(v) == IF SecretName[v] # None THEN SecretName[v] ELSE DefaultName[Account[v]]

-----------------------------------------------------------------------------
(***************************************************************************)
(* Calls. External-provisioner and kubelet repeat one until it succeeds,   *)
(* and kubelet repeats NodePublishVolume of a mounted volume with a ticket *)
(* (requiresRepublish). A call of the node may be given up on while it     *)
(* runs; one of the controller keeps the volume locked to its end.         *)
(***************************************************************************)
Begin(p, v, first) ==
    /\ pc[p] = "idle"
    /\ \A q \in Procs \ late : pc[q] # "idle" => vol[q] # v
    /\ Goto(p, first)
    /\ vol' = [vol EXCEPT ![p] = v]
    /\ acct' = [acct EXCEPT ![p] = Account[v]]
    /\ UNCHANGED <<used, azure, node, memory, key, path, late, hist, events>>

\* CreateVolume of a volume whose account key is stored (storeAccountKey).
CallCreate(p, v) ==
    /\ v \in used \ created
    /\ Begin(p, v, "ctlCache")
    /\ UNCHANGED tok

\* NodeStageVolume, or NodePublishVolume, which for "identity" calls the former and
\* for "oauth" does not lock.
CallNode(p, v) ==
    /\ v \in created
    /\ CASE Auth[v] = "key" -> mounted[v] = None /\ Begin(p, v, "cache") /\ UNCHANGED tok
         [] Auth[v] = "oauth" ->
              Begin(p, v, IF mounted[v] = None THEN "lock" ELSE "token") /\ UNCHANGED tok
         [] OTHER -> Begin(p, v, "readFile") /\ KeepToken(p, token)

\* A call that wrote the token file and then fails before it has set the ticket.
LeavesTicketBehind(p) == path[p] /\ pc[p] \in {"writeFile", "lock", "ticket"}

End(p, answer) ==
    /\ Goto(p, "idle")
    /\ vol' = [vol EXCEPT ![p] = None]
    /\ key' = [key EXCEPT ![p] = None]
    /\ tok' = [tok EXCEPT ![p] = 0]
    /\ acct' = [acct EXCEPT ![p] = None]
    /\ path' = [path EXCEPT ![p] = FALSE]
    /\ late' = late \ {p}
    /\ locked' = locked \ {p}
    /\ excused' = (excused \/ (answer = "err" /\ LeavesTicketBehind(p)))
    /\ confirmed' = IF answer = "ok" /\ p \notin late /\ tok[p] > confirmed
                    THEN tok[p] ELSE confirmed

Stays == UNCHANGED <<vol, tok, acct, path, late, locked, excused, confirmed>>

GiveUp(p) ==
    /\ pc[p] \in NodePCs /\ p \notin late
    /\ Event
    /\ late' = late \cup {p}
    /\ UNCHANGED <<used, azure, node, memory, pc, vol, key, tok, acct, path, hist>>

-----------------------------------------------------------------------------
(***************************************************************************)
(* The account key: from the cache, the secret, or Azure with the identity *)
(* of the cluster. GetStorageAccesskey of the controller and               *)
(* GetAccountInfo of the node do the same, except that the node goes on    *)
(* with the account the secret names.                                      *)
(***************************************************************************)
GoOn(p, nodeStep, controllerStep) ==
    Goto(p, IF Side(p) = "node" THEN nodeStep ELSE controllerStep)

\* Mutant: a key from the cache is stored there again.
ReadCacheRenews(p) ==
    /\ pc[p] \in {"cache", "ctlCache"}
    /\ LET c == cache[Side(p)][acct[p]]
       IN  IF c # None
           THEN /\ KeepKey(p, c.key) /\ GoOn(p, "lock", "ctlCreate")
                /\ cache' = [cache EXCEPT ![Side(p)][acct[p]].age = "new"]
           ELSE UNCHANGED <<key, cache>> /\ GoOn(p, "secret", "ctlSecret")
    /\ Stays
    /\ UNCHANGED <<used, azure, node, sha, foreign, events>>

ReadCache(p) ==
    /\ pc[p] \in {"cache", "ctlCache"}
    /\ LET c == cache[Side(p)][acct[p]]
       IN  IF c # None THEN KeepKey(p, c.key) /\ GoOn(p, "lock", "ctlCreate")
           ELSE UNCHANGED key /\ GoOn(p, "secret", "ctlSecret")
    /\ Stays
    /\ UNCHANGED <<used, azure, node, cache, sha, foreign, events>>

\* Only entries of the node have an age, one of the controller may expire at any time.
CacheSet(p, a, k) ==
    cache' = [cache EXCEPT ![Side(p)][a] =
                 [key |-> k, age |-> IF Side(p) = "node" THEN "new" ELSE "old"]]

GetStorageAccountFromSecret(p) ==
    /\ pc[p] \in {"secret", "ctlSecret"}
    /\ LET s == secret[SecretOf(vol[p])]
           a == IF Side(p) = "node" THEN s.account ELSE acct[p]
       IN  \/ /\ s # None
              /\ KeepKey(p, s.key)
              /\ acct' = [acct EXCEPT ![p] = a]
              /\ CacheSet(p, a, s.key)
              /\ GoOn(p, "lock", "ctlCreate")
              /\ UNCHANGED events
           \/ /\ IF s # None THEN Event ELSE UNCHANGED events
              /\ GoOn(p, "keys", "ctlKeys")
              /\ UNCHANGED <<cache, key, acct>>
    /\ UNCHANGED <<vol, tok, path, late, locked, excused, confirmed>>
    /\ UNCHANGED <<used, azure, node, sha, foreign>>

GetStorageAccesskeyWithSubsID(p) ==
    /\ pc[p] \in {"keys", "ctlKeys"}
    /\ \/ /\ KeepKey(p, Key(acct[p]))
          /\ CacheSet(p, acct[p], Key(acct[p]))
          /\ GoOn(p, "lock", "ctlCreate")
          /\ Stays
          /\ UNCHANGED events
       \/ Event /\ End(p, "err") /\ UNCHANGED cache
    /\ UNCHANGED <<used, azure, node, sha, foreign>>

\* Mutant: a secret that is there is written over.
CreateOrUpdateSecret(s, new) == secret' = [secret EXCEPT ![s] = new]

\* A secret that is there is left as it is.
CreateSecret(s, new) ==
    secret' = IF secret[s] = None THEN [secret EXCEPT ![s] = new] ELSE secret

SetAzureCredentials(p) ==
    /\ pc[p] = "ctlCreate"
    /\ LET s == SecretOf(vol[p])
           Stores ==
               /\ CreateSecret(s, [account |-> acct[p], key |-> key[p]])
               /\ foreign' = IF secret[s] = None
                             THEN foreign \cup {Account[w] : w \in {x \in used :
                                      SecretOf(x) = s /\ Account[x] # acct[p]}}
                             ELSE foreign
       IN  \/ /\ Stores
              /\ created' = created \cup {vol[p]}
              /\ End(p, "ok")
              /\ UNCHANGED events
           \/ /\ Event
              /\ Stores \/ UNCHANGED <<secret, foreign>>
              /\ End(p, "err")
              /\ UNCHANGED created
    /\ UNCHANGED <<used, keyNow, token, node, cache, sha>>

-----------------------------------------------------------------------------
(***************************************************************************)
(* The token of an identity, in GetAccountInfo: the file is written if it  *)
(* holds another token, before the volume is locked. If it holds this one, *)
(* there is no path, except for inline volumes.                            *)
(***************************************************************************)

ReadTokenFile(p) ==
    /\ pc[p] = "readFile"
    /\ LET same == tokenFile[vol[p]] = tok[p]
       IN  /\ Goto(p, IF same THEN "lock" ELSE "writeFile")
           /\ path' = [path EXCEPT ![p] = ~same \/ vol[p] \in Inline]
    /\ UNCHANGED <<used, azure, node, memory, vol, key, tok, acct, late, hist, events>>

WriteTokenFile(p) ==
    /\ pc[p] = "writeFile"
    /\ \/ /\ tokenFile' = [tokenFile EXCEPT ![vol[p]] = tok[p]]
          /\ Goto(p, "lock")
          /\ excused' = (excused \/ tok[p] < tokenFile[vol[p]])
          /\ UNCHANGED <<locals, locked, confirmed, events>>
       \/ /\ Event
          /\ End(p, "err")
          /\ UNCHANGED tokenFile
    /\ UNCHANGED <<used, azure, ticket, mounted, cache, sha, foreign>>

-----------------------------------------------------------------------------
(***************************************************************************)
(* NodeStageVolume after GetAccountInfo, and the token of a secret.        *)
(***************************************************************************)

\* Mutant: the volume is not locked.
TryAcquireUnchecked(p) ==
    /\ pc[p] = "lock"
    /\ locked' = locked \cup {p}
    /\ Goto(p, CASE Auth[vol[p]] = "oauth" -> "token"
                 [] path[p] -> "ticket"
                 [] OTHER -> "mount")
    /\ UNCHANGED <<locals, excused, confirmed>>
    /\ UNCHANGED <<used, azure, node, cache, sha, foreign, events>>

TryAcquire(p) ==
    /\ pc[p] = "lock"
    /\ \/ /\ \A q \in locked : vol[q] # vol[p]
          /\ locked' = locked \cup {p}
          /\ Goto(p, CASE Auth[vol[p]] = "oauth" -> "token"
                       [] path[p] -> "ticket"
                       [] OTHER -> "mount")
          /\ UNCHANGED <<locals, excused, confirmed>>
       \/ /\ \E q \in locked : vol[q] = vol[p]
          /\ End(p, "err")
    /\ UNCHANGED <<used, azure, node, cache, sha, foreign, events>>

ReadToken(p) ==
    /\ pc[p] = "token"
    /\ \/ KeepToken(p, token) /\ Goto(p, "sha")
          /\ UNCHANGED <<vol, key, acct, path, late, locked, excused, confirmed, events>>
       \/ Event /\ End(p, "err")
    /\ UNCHANGED <<used, azure, node, cache, sha, foreign>>

\* Mutant: the SHA is stored before the ticket is set.
CompareAndStoreSHA(p) ==
    /\ pc[p] = "sha"
    /\ Goto(p, IF sha = tok[p] THEN "mount" ELSE "ticket")
    /\ sha' = tok[p]
    /\ UNCHANGED <<used, azure, node, cache, locked, locals, hist, events>>

CompareSHA(p) ==
    /\ pc[p] = "sha"
    /\ Goto(p, IF sha = tok[p] THEN "mount" ELSE "ticket")
    /\ UNCHANGED <<used, azure, node, memory, locals, hist, events>>

\* setCredentialCache hands over the token, or the path of the file.
SetCredentialCache(p) ==
    /\ pc[p] = "ticket"
    /\ LET new == IF path[p] THEN tokenFile[vol[p]] ELSE tok[p]
       IN  \/ /\ new # 0
              /\ ticket' = new
              /\ excused' = (new # token /\ (excused \/ new < ticket))
              /\ Goto(p, IF path[p] THEN "mount" ELSE "store")
              /\ UNCHANGED <<locals, locked, confirmed, events>>
           \/ /\ IF new # 0 THEN Event ELSE UNCHANGED events
              /\ End(p, "err")
              /\ UNCHANGED ticket
    /\ UNCHANGED <<used, azure, tokenFile, mounted, cache, sha, foreign>>

StoreSHA(p) ==
    /\ pc[p] = "store"
    /\ sha' = tok[p]
    /\ Goto(p, "mount")
    /\ UNCHANGED <<used, azure, node, cache, locked, locals, hist, events>>

\* ensureMountPoint and the mount. A volume is mounted from the share of its name in
\* the account it works on, which another account may have as well.
Mount(p) ==
    /\ pc[p] = "mount"
    /\ LET v == vol[p]
           good == IF Auth[v] = "key" THEN key[p] = Key(acct[p]) ELSE ticket # 0
       IN  \/ /\ mounted[v] # None
              /\ End(p, "ok")
              /\ UNCHANGED <<mounted, events>>
           \/ /\ mounted[v] = None /\ good
              /\ mounted' = [mounted EXCEPT ![v] = acct[p]]
              /\ End(p, "ok")
              /\ UNCHANGED events
           \/ /\ mounted[v] = None
              /\ IF good /\ acct[p] = Account[v] THEN Event ELSE UNCHANGED events
              /\ End(p, "err")
              /\ UNCHANGED mounted
    /\ UNCHANGED <<used, azure, ticket, tokenFile, cache, sha, foreign>>

\* The pods go, and a persistent volume may leave the node, its token files with it.
NodeUnstageVolume(v) ==
    /\ mounted[v] # None
    /\ \A p \in Procs \ late : vol[p] # v
    /\ Auth[v] # "identity" => \A p \in locked : vol[p] # v
    /\ Event
    /\ mounted' = [mounted EXCEPT ![v] = None]
    /\ \/ UNCHANGED <<tokenFile, excused>>
       \/ /\ v \notin Inline
          /\ tokenFile' = [tokenFile EXCEPT ![v] = 0]
          /\ excused' = (excused \/ \E p \in Procs : vol[p] = v /\ LeavesTicketBehind(p))
    /\ UNCHANGED <<used, azure, ticket, memory, pc, locals, foreign, confirmed>>

-----------------------------------------------------------------------------
(***************************************************************************)
(* Azure, the administrators, time and restarts.                           *)
(***************************************************************************)
RotateKey(a) ==
    /\ Event
    /\ keyNow' = [keyNow EXCEPT ![a] = @ + 1]
    /\ UNCHANGED <<used, secret, token, created, node, memory, pc, locals, hist>>

RotateToken ==
    /\ created # {} /\ \E v \in used : Auth[v] # "key"
    /\ Event
    /\ token' = token + 1
    /\ UNCHANGED <<used, keyNow, secret, created, node, memory, pc, locals, hist>>

\* After a rotation the secrets of the account are updated, as the documentation asks.
UpdateSecret(s) ==
    /\ secret[s] # None
    /\ secret[s].key # Key(secret[s].account)
    /\ secret' = [secret EXCEPT ![s].key = Key(secret[s].account)]
    /\ UNCHANGED <<used, keyNow, token, created, node, memory, pc, locals, hist, events>>

\* An entry of accountCacheMap lives as long as its TTL since it was set.
Tick(side, a) ==
    /\ cache[side][a] # None
    /\ cache' = [cache EXCEPT ![side][a] = IF @.age = "new" THEN [@ EXCEPT !.age = "old"] ELSE None]
    /\ UNCHANGED <<used, azure, node, sha, locked, pc, locals, hist, events>>

Restart(side) ==
    LET dead == {p \in Procs : pc[p] # "idle" /\ Side(p) = side}
        Reset(f, x) == [p \in Procs |-> IF p \in dead THEN x ELSE f[p]]
    IN  /\ Event
        /\ cache' = [cache EXCEPT ![side] = [a \in Accounts |-> None]]
        /\ sha' = IF side = "node" THEN 0 ELSE sha
        /\ locked' = locked \ dead
        /\ pc' = Reset(pc, "idle")
        /\ vol' = Reset(vol, None) /\ key' = Reset(key, None) /\ tok' = Reset(tok, 0) /\ acct' = Reset(acct, None)
        /\ path' = Reset(path, FALSE)
        /\ late' = late \ dead
        /\ excused' = (excused \/ \E p \in dead : LeavesTicketBehind(p))
        /\ UNCHANGED <<used, azure, node, foreign, confirmed>>

-----------------------------------------------------------------------------
Step(p) ==
    \/ ReadCache(p) \/ GetStorageAccountFromSecret(p) \/ GetStorageAccesskeyWithSubsID(p)
    \/ SetAzureCredentials(p)
    \/ ReadTokenFile(p) \/ WriteTokenFile(p) \/ TryAcquire(p)
    \/ ReadToken(p) \/ CompareSHA(p) \/ SetCredentialCache(p) \/ StoreSHA(p)
    \/ Mount(p)

Call(v) == \E p \in Procs : CallCreate(p, v) \/ CallNode(p, v)

Next ==
    \/ \E p \in Procs : Step(p) \/ GiveUp(p)
    \/ \E v \in Volumes : Call(v) \/ NodeUnstageVolume(v)
    \/ \E a \in Accounts : RotateKey(a) \/ \E side \in Sides : Tick(side, a)
    \/ \E s \in Secrets : UpdateSecret(s)
    \/ \E side \in Sides : Restart(side)
    \/ RotateToken

Spec == Init /\ [][Next]_vars

\* Goroutines go on, calls are repeated, the node's entries expire, and administrators
\* update secrets; of the last two, that some entry and some secret has its turn is enough.
FairSpec ==
    /\ Spec
    /\ \A p \in Procs : WF_vars(Step(p))
    /\ \A v \in KeyVolumes : WF_vars(Call(v))
    /\ WF_vars(\E a \in Accounts : Tick("node", a))
    /\ WF_vars(\E s \in Secrets : UpdateSecret(s))

-----------------------------------------------------------------------------
(***************************************************************************)
(* Properties.                                                             *)
(***************************************************************************)

\* Keys do not cross accounts: what the caches and the mounts of an account and the
\* secrets of its volumes hold is its own, unless one of its volumes names a secret that
\* was made for another account. It does not reach the other accounts.
KeysOfTheirAccount ==
    /\ \A a \in Accounts \ foreign, side \in Sides : cache[side][a] # None => cache[side][a].key[1] = a
    /\ \A v \in used : Account[v] \notin foreign =>
          /\ secret[SecretOf(v)] # None =>
                 secret[SecretOf(v)].account = Account[v] /\ secret[SecretOf(v)].key[1] = Account[v]
          /\ mounted[v] \in {Account[v], None}

\* When a call with a token has been answered OK, the ticket is at least as new, unless a
\* call with an older token, which was still running, came after it, or a call that has
\* written the token file is still to set the ticket or failed before it did, or lost the
\* file to NodeUnstageVolume. Setting the ticket with the latest token ends the exception.
TicketIsCurrent == ticket < confirmed => excused \/ \E p \in Procs : LeavesTicketBehind(p)

\* "setCredentialCache continues to rotate the Kerberos ticket on every republish":
\* a call with the token of an identity is not answered OK with an older ticket.
RotatesOnRepublish ==
    (\A v \in used : Auth[v] = "identity") => ticket >= confirmed

\* A volume whose account key rotates is mounted in the end, if its account is spared
\* by foreign secrets: no cache keeps an old key alive.
MountsInTheEnd ==
    <>[](\A v \in KeyVolumes \cap used : mounted[v] # None \/ Account[v] \in foreign)

-----------------------------------------------------------------------------
(***************************************************************************)
(* The inductive invariant.                                                *)
(***************************************************************************)

\* Generations are counted by events.
BoundInv ==
    /\ events <= Bound[used]
    /\ token <= events + 1 /\ \A a \in Accounts : keyNow[a] <= events + 1
    /\ sha <= token /\ confirmed <= token /\ ticket <= token
    /\ \A p \in Procs : tok[p] <= token
    /\ \A v \in Volumes : tokenFile[v] <= token

CallInv ==
    \A p \in Procs :
        /\ pc[p] = "idle" => tok[p] = 0 /\ ~path[p] /\ key[p] = None
        /\ pc[p] # "idle" => vol[p] \in used /\ acct[p] \in Accounts
        /\ pc[p] \in ControllerPCs => acct[p] = Account[vol[p]]
        /\ pc[p] \in ControllerPCs \cup {"cache", "secret", "keys"} => tok[p] = 0
        /\ pc[p] = "ctlCreate" => key[p] # None
        /\ path[p] => Auth[vol[p]] = "identity"
        /\ pc[p] = "readFile" => Auth[vol[p]] = "identity"
        /\ pc[p] = "writeFile" => path[p]
        /\ pc[p] \in {"token", "sha", "store"} => ~path[p]

\* Whose key it is that a goroutine has.
KeysInHand ==
    \A p \in Procs :
        /\ key[p] # None => key[p][1] = acct[p] \/ acct[p] \in foreign
        /\ pc[p] # "idle" => acct[p] = Account[vol[p]] \/ Account[vol[p]] \in foreign

\* And whose it is that a secret has.
KeysOfSecrets ==
    \A s \in Secrets : secret[s] # None =>
        /\ secret[s].key[1] = secret[s].account \/ secret[s].account \in foreign
        /\ \A v \in used : SecretOf(v) = s => Account[v] = secret[s].account \/ Account[v] \in foreign

\* A token that the ticket has caught up with, or will: somebody is about to set it from a
\* file that is as new.
Covered(n) ==
    \/ n <= ticket \/ excused
    \/ \E p \in Procs : path[p] /\ pc[p] \in {"lock", "ticket"} /\ n <= tokenFile[vol[p]]

TicketInv ==
    /\ Covered(confirmed) /\ Covered(sha)
    /\ \A v \in Volumes : Covered(tokenFile[v])
    /\ \A p \in Procs :
          (pc[p] \in {"lock", "store", "mount"} \/ (path[p] /\ pc[p] = "ticket")) => Covered(tok[p])

IInv == TypeOK /\ BoundInv /\ CallInv /\ KeysInHand /\ KeysOfSecrets /\ KeysOfTheirAccount /\ TicketInv
=============================================================================
