-------------------------- MODULE VolumeParameters --------------------------
(***************************************************************************)
(* What CreateVolume makes of the parameters of a storage class: it reads  *)
(* them in the random order of a Go map, checks and completes them, derives *)
(* the size and name of the share and the options of its account, chooses  *)
(* the account, makes the share, and answers a volume ID and a context from *)
(* which the node, DeleteVolume and the snapshots find it again. The map   *)
(* of the request is the one the code changes, so an attempt that starts   *)
(* over, on another account, reads its own changes.                        *)
(*                                                                         *)
(* One handler runs at a time (module Provisioning interleaves them), on   *)
(* requests without secrets and content sources. A text is the sequence of *)
(* its words, <<>> is one that is not set, and a parameter's key is a pair *)
(* of its lower-case name and its spelling. Sizes are in GiB.              *)
(***************************************************************************)
EXTENDS Integers, Sequences

CONSTANTS
    Scenarios,   \* sets of CreateVolume requests: [vol, half, params, mutable], half in GiB / 2
    InvalidNames,    \* volume names that cannot be names of shares
    InvalidPrefixes,    \* texts that cannot begin names of shares
    InvalidTags,     \* <<tags, delimiter>> that are no tags
    Accounts,    \* names EnsureStorageAccount gives to new accounts
    Existing,    \* the accounts there are: name -> properties
    DriverRG, DriverSub, Suffix, VHDFeature,    \* the driver's cloud and flags
    Subscriptions,  \* the words that are subscription IDs
    Numbers,     \* text -> number, for those that are numbers
    StaticIDs,   \* IDs of volumes the driver did not create
    None,
    MaxCalls,    \* bound: calls of CreateVolume
    MaxFaults    \* bound: failures, limits exceeded, expired caches, restarts

Requests == UNION Scenarios

ASSUME ParametersAssumption ==
    /\ None \notin Requests /\ \A r \in Requests : r.half \in Nat
    /\ DOMAIN Existing \cap Accounts = {}
    /\ MaxCalls \in Nat /\ MaxFaults \in Nat

VARIABLES
    offered,     \* the requests of this run
    pc, req, params,    \* of the handler: where it is, its request, the request's map
    f,           \* its local variables: setting -> text
    size, share, account, lockKey,    \* more of them
    skuKnown,    \* history: it knows the SKU of its account
    open,        \* history: options the choice of its account left open
    accounts,    \* Azure: name -> properties
    skipped,     \* Azure: accounts with the tag skip-matching
    shares,      \* Azure: <<account, share>> -> [quota, nfs, iops, bandwidth], and
                 \* history: the volume it was made for
    accountSearchCache,    \* LockKey -> account, and the options its choice left open
    volMap,      \* volume name -> account
    answers,     \* history: what was answered
    calls, faults

locals == <<req, params, f, size, share, account, lockKey, skuKnown, open>>
azure  == <<accounts, skipped, shares>>
memory == <<accountSearchCache, volMap>>
vars   == <<offered, pc, locals, azure, memory, answers, calls, faults>>

------------------------------------------------------------------------------
(* The parameters. *)

T(word) == <<word>>
True  == T("true")
False == T("false")

BoolFields == {"selectrandommatchingaccount", "enablelargefileshares",
    "disabledeleteretentionpolicy", "allowblobpublicaccess", "allowsharedkeyaccess",
    "allowcrosstenantreplication", "requireinfraencryption", "enablemultichannel",
    "getlatestaccountkey", "encryptintransit"}
IdentityFields == {"mountwithmanagedidentity", "mountwithworkloadidentitytoken",
    "mountwithoauthtoken"}
NumberFields == {"provisionedbandwidth", "provisionediops", "accountquota",
    "mountpermissions"}
\* Read without a check, or checked when all have been read.
TextFields == {"skuname", "storageaccounttype", "location", "storageaccount",
    "subscriptionid", "resourcegroup", "sharename", "diskname", "fstype",
    "storeaccountkey", "secretname", "secretnamespace", "protocol", "matchtags", "tags",
    "createaccount", "usesecretcache", "usedataplaneapi", "csi.storage.k8s.io/pvc/name",
    "csi.storage.k8s.io/pvc/namespace", "csi.storage.k8s.io/pv/name",
    "storageendpointsuffix", "networkendpointtype", "privatednszoneresourcegroup",
    "accesstier", "shareaccesstier", "accountaccesstier", "rootsquashtype",
    "publicnetworkaccess", "fsgroupchangepolicy", "vnetresourcegroup", "vnetname",
    "vnetlinkname", "subnetname", "sharenameprefix", "tagvaluedelimiter"}
\* For the node; CreateVolume reads none of them into a variable.
NodeFields == {"server", "foldername", "clientid", "tenantid",
    "confidentialcontainerlabel", "runtimeclasshandler", "createfolderifnotexist"}

\* Mutant: server, which a private endpoint adds to the map, is not a parameter.
KnownWithoutServer == BoolFields \cup IdentityFields \cup NumberFields \cup TextFields
                      \cup (NodeFields \ {"server"})

Known == BoolFields \cup IdentityFields \cup NumberFields \cup TextFields \cup NodeFields

\* Two names of one variable.
Setting(name) == CASE name = "storageaccounttype" -> "skuname"
                   [] name = "accesstier"         -> "shareaccesstier"
                   [] OTHER                       -> name
Settings == {Setting(name) : name \in Known}

\* The texts the lists of supported values hold.
Supported ==
    [fstype |-> {"cifs", "smb", "nfs", "ext4", "ext3", "ext2", "xfs"},
     protocol |-> {"smb", "nfs"},
     shareaccesstier |-> {"Cool", "Hot", "Premium", "TransactionOptimized"},
     accountaccesstier |-> {"Cold", "Cool", "Hot", "Premium"},
     rootsquashtype |-> {"AllSquash", "NoRootSquash", "RootSquash"},
     fsgroupchangepolicy |-> {"None", "Always", "OnRootMismatch"},
     publicnetworkaccess |-> {"Disabled", "Enabled", "SecuredByPerimeter"},
     networkendpointtype |-> {"privateendpoint", "serviceendpoint"}]

\* Mutant: only the spelling of the driver is replaced.
SetKeyValueOnly(m, name, v) == [k \in DOMAIN m \cup {<<name, "lower">>} |->
                                   IF k = <<name, "lower">> THEN v ELSE m[k]]

\* setKeyValueInMap: the key takes the place of all its spellings.
SetKeyValue(m, name, v) ==
    [k \in {k \in DOMAIN m : k[1] # name} \cup {<<name, "lower">>} |->
        IF k[1] = name THEN v ELSE m[k]]

\* A text of the map under any spelling (getValueInMap), whichever is met first.
Values(m, name) == {m[k] : k \in {k \in DOMAIN m : k[1] = name}}

\* The words that stand for metadata, and the parameters they stand for.
Variables == {"${pvc.metadata.name}", "${pvc.metadata.namespace}", "${pv.metadata.name}"}
MetadataField(w) == CASE w = "${pvc.metadata.name}"      -> "csi.storage.k8s.io/pvc/name"
                      [] w = "${pvc.metadata.namespace}" -> "csi.storage.k8s.io/pvc/namespace"
                      [] w = "${pv.metadata.name}"       -> "csi.storage.k8s.io/pv/name"
MetadataFields == {MetadataField(w) : w \in Variables}

\* The provisioner adds them: names of Kubernetes objects.
ASSUME MetadataAssumption ==
    \A r \in Requests : \A m \in {r.params, r.mutable} : \A k \in DOMAIN m :
        k[1] \in MetadataFields => Len(m[k]) = 1 /\ m[k][1] \notin Variables \cup {".."}

\* replaceWithMap.
Replace(text, g) ==
    [i \in DOMAIN text |->
        IF text[i] \in Variables /\ g[MetadataField(text[i])] # <<>>
        THEN g[MetadataField(text[i])][1] ELSE text[i]]

------------------------------------------------------------------------------
(* What follows from the settings. *)

IsNFS(g)  == g.fstype = T("nfs") \/ g.protocol = T("nfs")
IsDisk(g) == g.fstype \in {T("ext4"), T("ext3"), T("ext2"), T("xfs")}
HasPrefix(text, word) == text # <<>> /\ Head(text) = word
IsV2(sku)      == \E i \in DOMAIN sku : sku[i] = "v2"
IsPremium(sku) == HasPrefix(sku, "premium")
SmbOAuth(g)    == \E n \in IdentityFields : g[n] = True
PrivateEndpoint(g) == g.networkendpointtype = T("privateendpoint")
\* The subnet gets an endpoint, and the account a rule for the subnet.
ServiceEndpoint(g) == /\ ~PrivateEndpoint(g)
                      /\ IsNFS(g) \/ g.networkendpointtype = T("serviceendpoint")

\* Mutant: a request without a size is not given the default.
RoundUpGiBPlain(half) == (half + 1) \div 2

RoundUpGiB(half) == IF half = 0 THEN 100 ELSE (half + 1) \div 2

\* fileShareSize.
ShareSize(gib, sku) ==
    LET atLeast == IF IsV2(sku) THEN 32 ELSE IF IsPremium(sku) THEN 100 ELSE 0
    IN  IF gib < atLeast THEN atLeast ELSE gib

CeilDiv(n, d) == (n + d - 1) \div d
AtMost(n, limit) == IF n <= limit THEN n ELSE limit

\* getDefaultIOPS and getDefaultBandwidth; 0 leaves the choice to Azure.
DefaultIOPS(gib, sku) ==
    IF ~IsV2(sku) THEN 0
    ELSE IF IsPremium(sku) THEN AtMost(gib + 3000, 102400)
    ELSE AtMost(CeilDiv(gib, 5) + 1000, 50000)
DefaultBandwidth(gib, sku) ==
    IF ~IsV2(sku) THEN 0
    ELSE IF IsPremium(sku) THEN AtMost(CeilDiv(gib, 10) + 100, 10340)
    ELSE AtMost(CeilDiv(gib, 50) + 60, 5120)

\* UUIDs, a new one in each attempt.
UuidOf(n) == [i \in 1..n |-> "uuid"]
Uuid == UuidOf(calls + faults)

\* getValidFileShareName: another name, with a new UUID, for one no share can have.
UuidName(n) == T("pvc-file") \o UuidOf(n)
ValidFileShareName(name) == IF name \in InvalidNames THEN UuidName(calls + faults) ELSE name

GeneratedName(g, vol) ==
    LET pvc == Head(vol) = "pvc"
    IN  IF g.sharenameprefix # <<>> THEN g.sharenameprefix \o vol
        ELSE IF IsNFS(g) /\ pvc THEN T("pvcn") \o Tail(vol)
        ELSE IF IsDisk(g) /\ pvc THEN T("pvcd") \o Tail(vol)
        ELSE vol

\* What the driver takes an option for that is not set.
Default == [allowblobpublicaccess |-> False, requireinfraencryption |-> False,
            enablelargefileshares |-> False, disabledeleteretentionpolicy |-> False,
            allowcrosstenantreplication |-> True, allowsharedkeyaccess |-> True,
            enablemultichannel |-> False, encryptintransit |-> False]
Deref(g, n) == IF g[n] = <<>> THEN Default[n] ELSE g[n]

\* Options EnsureStorageAccount does not compare when they are not set.
Open == {"enablelargefileshares", "disabledeleteretentionpolicy",
         "allowcrosstenantreplication", "enablemultichannel"}

SubOf(g) == IF g.subscriptionid = <<>> THEN DriverSub ELSE g.subscriptionid
AccountKind(g) == IF IsPremium(g.skuname) \/ IsV2(g.skuname) THEN "FileStorage" ELSE "StorageV2"
Encrypted(g) == IsNFS(g) /\ g.encryptintransit = True
EnableHTTPSTrafficOnly(g) == IsNFS(g) => Encrypted(g)

CopiedFields == {"skuname", "resourcegroup", "location", "protocol", "subscriptionid",
    "accountaccesstier", "privatednszoneresourcegroup", "publicnetworkaccess",
    "vnetresourcegroup", "vnetname", "vnetlinkname", "subnetname", "matchtags", "tags",
    "storageendpointsuffix"}

\* Mutant: the key says nothing of HTTPS and encryption.
LockKeyUnencrypted(g) ==
    [text |-> [n \in CopiedFields |-> g[n]],
     flag |-> [n \in DOMAIN Default \ {"encryptintransit"} |-> Deref(g, n)],
     derived |-> <<AccountKind(g), PrivateEndpoint(g), ServiceEndpoint(g), SmbOAuth(g)>>]

\* lockKey: requests with the same key share an account found for one of them.
LockKeyOf(g) ==
    [text |-> [n \in CopiedFields |-> g[n]],
     flag |-> [n \in DOMAIN Default \ {"encryptintransit"} |-> Deref(g, n)],
     derived |-> <<AccountKind(g), PrivateEndpoint(g), ServiceEndpoint(g), SmbOAuth(g),
                   EnableHTTPSTrafficOnly(g), Encrypted(g)>>]

\* The account EnsureStorageAccount makes from the account options; Azure has defaults.
Compared == {"skuname", "location", "accountaccesstier"} \cup Open
Exact    == {"allowblobpublicaccess", "requireinfraencryption", "allowsharedkeyaccess"}
AzureDefault ==
    [n \in Compared \cup Exact \cup {"tags"} |->
        IF n = "skuname" THEN <<"standard", "lrs">>
        ELSE IF n = "allowcrosstenantreplication" THEN False
        ELSE IF n \in DOMAIN Default THEN Default[n] ELSE <<>>]
NewAccount(g) ==
    [options |-> [n \in DOMAIN AzureDefault |-> IF g[n] = <<>> THEN AzureDefault[n] ELSE g[n]],
     rg |-> g.resourcegroup, sub |-> SubOf(g), kind |-> AccountKind(g),
     https |-> EnableHTTPSTrafficOnly(g), nfsEncrypted |-> Encrypted(g),
     smbOAuth |-> SmbOAuth(g), private |-> PrivateEndpoint(g), rule |-> ServiceEndpoint(g)]

\* getStorageAccounts: the account p is as the options want it.
Fits(p, g) ==
    /\ p.rg = g.resourcegroup /\ p.sub = SubOf(g) /\ p.kind = AccountKind(g)
    /\ \A n \in Compared : g[n] \in {<<>>, p.options[n]}
    /\ \A n \in Exact : Deref(g, n) = p.options[n]
    /\ Encrypted(g) \/ p.https = EnableHTTPSTrafficOnly(g)
    /\ IsNFS(g) /\ ~Encrypted(g) => ~p.nfsEncrypted
    /\ SmbOAuth(g) => p.smbOAuth
    /\ PrivateEndpoint(g) => p.private
    /\ ServiceEndpoint(g) => p.rule
    /\ g.matchtags = True => g.tags \in {<<>>, p.options.tags}

\* Azure has accounts of the kind FileStorage for these SKUs.
ASSUME AccountsAssumption ==
    \A a \in DOMAIN Existing :
        LET sku == Existing[a].options.skuname
        IN  IsPremium(sku) \/ IsV2(sku) => Existing[a].kind = "FileStorage"

------------------------------------------------------------------------------
(* What others read from the ID and the context. *)

Has(text, word) == \E i \in DOMAIN text : text[i] = word

\* strings.Split at "#".
SplitText(text) ==
    LET split[n \in 0..Len(text)] ==
            IF n = 0 THEN << <<>> >>
            ELSE IF text[n] = "#" THEN Append(split[n - 1], <<>>)
            ELSE [split[n - 1] EXCEPT ![Len(split[n - 1])] = Append(@, text[n])]
    IN  split[Len(text)]
SplitAll(texts) ==
    LET split[n \in 0..Len(texts)] ==
            IF n = 0 THEN <<>> ELSE split[n - 1] \o SplitText(texts[n])
    IN  split[Len(texts)]

\* An ID, as the sequence of its segments: texts joined by "#" and split at "#", which is as
\* a rule in none of them.
Segmented(texts) == IF \E i \in DOMAIN texts : Has(texts[i], "#") THEN SplitAll(texts) ELSE texts

Segment(id, i) == IF i <= Len(id) THEN id[i] ELSE <<>>
Namespace(id)  == IF id[1] = <<>> THEN Segment(id, 5) ELSE Segment(id, 6)

\* GetFileShareInfo returns no error.
Valid(id) == Len(id) >= 3 /\ ~Has(Segment(id, 4), "..") /\ ~Has(Namespace(id), "..")

\* What it returns: nothing with an error.
GetFileShareInfo(id) ==
    LET in(i) == IF Valid(id) THEN Segment(id, i) ELSE <<>>
    IN  [rg |-> in(1), account |-> in(2), share |-> in(3), disk |-> in(4),
         namespace |-> IF Valid(id) THEN Namespace(id) ELSE <<>>,
         sub |-> IF in(1) = <<>> THEN <<>> ELSE in(7)]

IsSubscription(text) == Len(text) = 1 /\ text[1] \in Subscriptions

\* DeleteVolume, and CreateSnapshot and ControllerExpandVolume like it. With an error these
\* two fail, and DeleteVolume answers OK and deletes nothing: None.
DeleteTarget(id) ==
    LET i == GetFileShareInfo(id)
    IN  IF ~Valid(id) THEN None
        ELSE [rg |-> IF i.rg = <<>> THEN DriverRG ELSE i.rg,
              sub |-> IF IsSubscription(i.sub) THEN i.sub ELSE DriverSub,
              account |-> i.account, share |-> i.share, namespace |-> i.namespace]

\* CreateSnapshot appends the time and the subscription to the ID.
SnapshotID(id, time) == id \o <<time, DeleteTarget(id).sub>>

\* GetInfoFromSnapshotID.
GetInfoFromSnapshotID(id) ==
    LET n == Len(id)
        Info(time, sub) == [rg |-> id[1], account |-> id[2], share |-> id[3],
                            time |-> time, sub |-> sub]
    IN  IF n >= 7
        THEN IF n = 7 THEN Info(id[7], <<>>)
             ELSE IF IsSubscription(id[8]) THEN Info(id[7], id[8])
             ELSE IF IsSubscription(id[7]) THEN Info(id[8], id[7])
             ELSE Info(id[7], <<>>)
        ELSE IF n >= 5 /\ IsSubscription(id[n]) THEN Info(id[n - 1], id[n])
        ELSE IF n >= 5 /\ IsSubscription(id[n - 1]) THEN Info(id[n], id[n - 1])
        ELSE Info(id[n], <<>>)

Server(a, private, suffix) == <<a>> \o (IF private THEN T("privatelink") ELSE <<>>)
                              \o T("file") \o suffix

Get(m, name, default) == IF Values(m, name) = {} THEN {default} ELSE Values(m, name)

\* GetAccountInfo: the context m comes before the ID, of which errors are ignored. What it
\* can read, as sets.
GetAccountInfo(id, m) ==
    LET i == GetFileShareInfo(id)
    IN  [rg        : {IF v = <<>> THEN DriverRG ELSE v : v \in Get(m, "resourcegroup", i.rg)},
         sub       : {IF v = <<>> THEN DriverSub ELSE v : v \in Get(m, "subscriptionid", i.sub)},
         account   : Get(m, "storageaccount", i.account),
         share     : Get(m, "sharename", i.share),
         disk      : Get(m, "diskname", i.disk),
         namespace : Get(m, "secretnamespace", i.namespace)]

\* What NodeStageVolume can mount for info, read from the ID and the context m.
NodeReads(info, m) ==
    LET metadata == [n \in Settings |-> CHOOSE v \in Get(m, n, <<>>) : TRUE]
        suffixes == {IF v = <<>> THEN T(Suffix) ELSE v :
                         v \in Get(m, "storageendpointsuffix", <<>>)}
    IN  [share  : {Replace(info.share, metadata)},
         folder : {Replace(v, metadata) : v \in Get(m, "foldername", <<>>)},
         nfs    : {v = T("nfs") : v \in Get(m, "protocol", <<>>)},
         server : {IF v = <<>> THEN Server(info.account[1], FALSE, suffix) ELSE v :
                       v \in Get(m, "server", <<>>), suffix \in suffixes}]

IsText(t) == t \in Seq({t[i] : i \in DOMAIN t})
Last(text) == text[Len(text)]

\* The name of an account is one word, and Azure refuses what is no subscription.
Plausible(name, text) ==
    /\ IsText(text)
    /\ name = "storageaccount" => Len(text) <= 1
    /\ name = "subscriptionid" => text = <<>> \/ IsSubscription(text)
ASSUME TextsAssumption ==
    \A r \in Requests : \A m \in {r.params, r.mutable} : \A k \in DOMAIN m : Plausible(k[1], m[k])

\* The provisioner ends the name of a volume with the UID of its claim.
ASSUME NamesAssumption ==
    /\ \A r \in Requests :
           /\ IsText(r.vol) /\ r.vol # <<>> /\ (Head(r.vol) = "pvc" => Len(r.vol) > 1)
           /\ \A i \in DOMAIN r.vol : r.vol[i] \notin Variables \cup {"pvc-file", "uuid"}
    /\ \A q, r \in Requests : Last(q.vol) = Last(r.vol) => q.vol = r.vol

\* IDs have their segments, and those of snapshots the time.
ASSUME IDsAssumption ==
    /\ DriverRG # <<>> /\ IsSubscription(DriverSub) /\ "time" \notin Subscriptions
    /\ \A id \in StaticIDs :
           /\ IsText(id) /\ Len(id) \in 3..7
           /\ Len(id) = 7 => id[1] # <<>> /\ IsSubscription(id[7])

------------------------------------------------------------------------------
(* The handler. *)

NoSettings == [s \in Settings |-> <<>>]
NoMap == [k \in {} |-> <<>>]
Put(m, k, v) == [x \in DOMAIN m \cup {k} |-> IF x = k THEN v ELSE m[x]]
Drop(m, k)   == [x \in DOMAIN m \ {k} |-> m[x]]

Init ==
    /\ offered \in Scenarios
    /\ pc = "idle" /\ req = None /\ params = NoMap /\ f = NoSettings
    /\ size = 0 /\ share = <<>> /\ account = None /\ lockKey = None
    /\ skuKnown = FALSE /\ open = {}
    /\ accounts = Existing /\ skipped = {} /\ shares = NoMap
    /\ accountSearchCache = NoMap /\ volMap = NoMap
    /\ answers = {} /\ calls = 0 /\ faults = 0

\* The variables of an attempt, before it and after it.
Fresh == /\ f' = NoSettings /\ size' = 0 /\ share' = <<>> /\ account' = None
         /\ lockKey' = None /\ skuKnown' = FALSE /\ open' = {}

Fault == faults < MaxFaults /\ faults' = faults + 1

Respond(kind, volume) ==
    /\ answers' = answers \cup {[req |-> req, kind |-> kind, volume |-> volume]}
    /\ pc' = "idle" /\ req' = None /\ params' = NoMap /\ Fresh
    /\ UNCHANGED <<offered, calls>>
Reject == Respond("InvalidArgument", None) /\ UNCHANGED <<azure, memory, faults>>

Goto(from, to) == pc = from /\ pc' = to
Go(from, to) == Goto(from, to) /\ UNCHANGED <<offered, req, azure, memory, answers, calls, faults>>

\* The mutable parameters go into the map of the others, each under its spelling.
Merge(r, m) == [k \in DOMAIN r.mutable \cup DOMAIN m |->
                   IF k \in DOMAIN r.mutable THEN r.mutable[k] ELSE m[k]]

Call(r) ==
    /\ r \in offered /\ calls < MaxCalls /\ calls' = calls + 1
    /\ Goto("idle", "read") /\ req' = r /\ params' = Merge(r, r.params) /\ Fresh
    /\ UNCHANGED <<offered, azure, memory, answers, faults>>

\* CreateVolume calls itself. Without parameters the map was not the request's.
Reenter ==
    /\ pc' = "read" /\ Fresh
    /\ params' = Merge(req, IF req.params = NoMap THEN NoMap ELSE params)
    /\ UNCHANGED <<offered, req, answers, calls>>

Accepts(name, v) ==
    /\ name \in Known
    /\ name \in BoolFields \cup IdentityFields => v \in {True, False}
    /\ name \in NumberFields => v \in DOMAIN Numbers
    /\ name = "accountquota" => Numbers[v] >= 100
    /\ name = "usedataplaneapi" => v \in {True, False, T("oauth")}
    /\ name = "foldername" => \A i \in DOMAIN v : v[i] # ".."

\* Of several keys of one variable the last one read wins.
KeysOf(m, s) == {k \in DOMAIN m : Setting(k[1]) = s}
Colliding(m) == {s \in Settings : \E k, l \in KeysOf(m, s) : m[k] # m[l]}

\* The text of a setting without a collision.
TextOf(m, s) == IF KeysOf(m, s) = {} THEN <<>> ELSE m[CHOOSE k \in KeysOf(m, s) : TRUE]

ReadParameters ==
    /\ pc = "read"
    /\ \/ /\ \E k \in DOMAIN params : ~Accepts(k[1], params[k])
          /\ Reject
       \/ /\ \A k \in DOMAIN params : Accepts(k[1], params[k])
          /\ \E last \in [Colliding(params) -> DOMAIN params] :
                /\ \A s \in Colliding(params) : last[s] \in KeysOf(params, s)
                /\ f' = [s \in Settings |-> IF s \in Colliding(params) THEN params[last[s]]
                                            ELSE TextOf(params, s)]
          /\ Go("read", "validate")
          /\ UNCHANGED <<params, size, share, account, lockKey, skuKnown, open>>

SupportedShareNamePrefix(prefix) ==
    prefix \notin InvalidPrefixes /\ \A i \in DOMAIN prefix : prefix[i] \notin Variables

\* The combinations that are refused before anything is done.
Invalid(g) ==
    \/ \E m, n \in IdentityFields : m # n /\ g[m] = True /\ g[n] = True
    \/ g.mountwithoauthtoken = True /\ (g.secretname = <<>> \/ IsNFS(g))
    \/ g.matchtags = True /\ g.storageaccount # <<>>
    \/ SubOf(g) # DriverSub /\ g.resourcegroup = <<>>
    \/ ~VHDFeature /\ g.fstype # <<>>
    \/ ~SupportedShareNamePrefix(g.sharenameprefix)
    \/ \E n \in DOMAIN Supported : g[n] # <<>> /\ g[n] \notin {T(w) : w \in Supported[n]}
    \/ g.protocol = T("nfs") /\ g.fstype \notin {<<>>, T("nfs")}

Validated(g) ==
    LET namespace == g["csi.storage.k8s.io/pvc/namespace"]
    IN  [g EXCEPT !.secretnamespace = IF @ # <<>> THEN @
                                      ELSE IF namespace # <<>> THEN namespace ELSE T("default"),
                  !.storeaccountkey = IF SmbOAuth(g) THEN False ELSE @]

Validate ==
    /\ pc = "validate"
    /\ \/ Invalid(f) /\ Reject
       \/ /\ ~Invalid(f) /\ Go("validate", "endpoint") /\ f' = Validated(f)
          /\ UNCHANGED <<params, size, share, account, lockKey, skuKnown, open>>

\* Refused with the endpoint, some after the subnets have got theirs.
InvalidForEndpoint(g) ==
    \/ IF PrivateEndpoint(g) THEN Len(g.subnetname) > 1 ELSE g.privatednszoneresourcegroup # <<>>
    \/ IsNFS(g) /\ HasPrefix(g.skuname, "standard")
    \/ /\ g.enablemultichannel = True
       /\ IsNFS(g) \/ (g.skuname # <<>> /\ ~IsPremium(g.skuname))
    \/ ~IsNFS(g) /\ g.storeaccountkey # False /\ g.allowsharedkeyaccess = False

\* NFS has settings of its own, and the resource group is the driver's by default.
WithEndpoint(g) ==
    LET nfs == [g EXCEPT !.protocol = T("nfs"), !.storeaccountkey = False,
                         !.skuname = IF @ = <<>> THEN <<"premium", "lrs">> ELSE @]
    IN  [IF IsNFS(g) THEN nfs ELSE g EXCEPT !.resourcegroup = IF @ = <<>> THEN DriverRG ELSE @]

ConfigureEndpoint ==
    /\ pc = "endpoint"
    /\ \/ InvalidForEndpoint(f) /\ Reject
       \/ /\ ~InvalidForEndpoint(f) /\ Go("endpoint", "sku") /\ f' = WithEndpoint(f)
          /\ params' = IF IsNFS(f) THEN SetKeyValue(params, "protocol", T("nfs")) ELSE params
          /\ UNCHANGED <<size, share, account, lockKey, skuKnown, open>>

\* The SKU of a given account matters to the smallest sizes; a failure is a warning.
SkuWanted == pc = "sku" /\ f.storageaccount # <<>> /\ f.skuname = <<>> /\ RoundUpGiB(req.half) < 32

ReadSku ==
    /\ Goto("sku", "share")
    /\ \/ /\ SkuWanted /\ f.storageaccount[1] \in DOMAIN accounts
          /\ f' = [f EXCEPT !.skuname = accounts[f.storageaccount[1]].options.skuname]
          /\ skuKnown' = TRUE /\ UNCHANGED faults
       \/ SkuWanted /\ Fault /\ UNCHANGED <<f, skuKnown>>
       \/ ~SkuWanted /\ skuKnown' = (f.storageaccount = <<>>) /\ UNCHANGED <<f, faults>>
    /\ UNCHANGED <<offered, req, params, size, share, account, lockKey, open, azure, memory,
                   answers, calls>>

WithSuffix(g) == [g EXCEPT !.storageendpointsuffix = IF @ = <<>> THEN T(Suffix) ELSE @]

\* ConvertTagsToMap.
TagsAreInvalid(g) == <<g.tags, g.tagvaluedelimiter>> \in InvalidTags

\* Only now are the tags looked at.
RejectTags == pc = "share" /\ TagsAreInvalid(f) /\ Reject

\* Size, performance, name of the share, and the folder in the map.
SizeAndName ==
    /\ ~TagsAreInvalid(f) /\ Go("share", "account")
    /\ size' = ShareSize(RoundUpGiB(req.half), f.skuname)
    /\ share' = IF f.sharename = <<>> THEN ValidFileShareName(GeneratedName(f, req.vol))
                ELSE Replace(f.sharename, f)
    /\ \E folder \in IF Values(params, "foldername") = {} THEN {<<>>}
                     ELSE Values(params, "foldername") :
          params' = IF Replace(folder, f) = folder THEN params
                    ELSE SetKeyValue(params, "foldername", Replace(folder, f))
    /\ f' = WithSuffix(f)
    /\ UNCHANGED <<account, lockKey, skuKnown, open>>

UseAccount(a, to) == /\ account' = a /\ Go("account", to)
                     /\ UNCHANGED <<params, f, size, share, skuKnown>>

GivenAccount == /\ pc = "account" /\ f.storageaccount # <<>>
                /\ UseAccount(f.storageaccount[1], "server") /\ UNCHANGED <<lockKey, open>>

PinnedAccount == /\ pc = "account" /\ f.storageaccount = <<>> /\ req.vol \in DOMAIN volMap
                 /\ UseAccount(volMap[req.vol], "server") /\ UNCHANGED <<lockKey, open>>

\* accountSearchCache is asked, and answers for every request with the key.
Search == pc = "account" /\ f.storageaccount = <<>> /\ req.vol \notin DOMAIN volMap

CachedAccount ==
    LET key == LockKeyOf(f)
    IN  /\ Search /\ key \in DOMAIN accountSearchCache
        /\ UseAccount(accountSearchCache[key].account, "server")
        /\ lockKey' = key /\ open' = accountSearchCache[key].open

\* EnsureStorageAccount finds an account or makes one.
EnsureStorageAccount ==
    LET key == LockKeyOf(f)
        matching == IF f.createaccount = True THEN {}
                    ELSE {a \in DOMAIN accounts \ skipped : Fits(accounts[a], f)}
    IN  /\ Search /\ key \notin DOMAIN accountSearchCache
        /\ \/ account' \in matching /\ UNCHANGED accounts
           \/ /\ matching = {} /\ account' \in Accounts \ DOMAIN accounts
              /\ accounts' = Put(accounts, account', NewAccount(f))
        /\ pc' = "quota" /\ lockKey' = key /\ open' = {n \in Open : f[n] = <<>>}
        /\ UNCHANGED <<offered, req, params, f, size, share, skuKnown, skipped, shares, memory,
                       answers, calls, faults>>

\* The account's shares exceed accountQuota: it is tagged, if Azure
\* lets it, and the call starts over.
OverQuota ==
    /\ pc = "quota" /\ f.accountquota # <<>> /\ Numbers[f.accountquota] > 100 /\ Fault
    /\ skipped' \in {skipped, skipped \cup {account}} /\ Reenter
    /\ UNCHANGED <<accounts, shares, memory>>

RememberAccount ==
    /\ Goto("quota", "server")
    /\ accountSearchCache' = Put(accountSearchCache, lockKey, [account |-> account, open |-> open])
    /\ volMap' = Put(volMap, req.vol, account)
    /\ UNCHANGED <<offered, locals, azure, answers, calls, faults>>

SetServer ==
    /\ Go("server", "check")
    /\ params' = IF PrivateEndpoint(f)
                 THEN SetKeyValue(params, "server",
                                  Server(account, ~SmbOAuth(f), f.storageendpointsuffix))
                 ELSE params
    /\ UNCHANGED <<f, size, share, account, lockKey, skuKnown, open>>

Target == <<account, share>>
DataPlane(g) == g.usedataplaneapi \in {True, T("oauth")}

\* getFileShareQuota; -1 when there is no such share.
FileShareQuota(t) == IF t \in DOMAIN shares THEN shares[t].quota ELSE -1

\* The quota of a share that exists is read, except with the account key.
CheckQuota ==
    LET quota == FileShareQuota(Target)
        tooSmall == f.usedataplaneapi # True /\ quota # -1 /\ quota < size
    IN  /\ pc = "check"
        /\ \/ tooSmall /\ Respond("AlreadyExists", None) /\ UNCHANGED <<azure, memory, faults>>
           \/ /\ ~tooSmall /\ Go("check", "create")
              /\ UNCHANGED <<params, f, size, share, account, lockKey, skuKnown, open>>

Provisioned(n, default) == IF f[n] = <<>> THEN default ELSE Numbers[f[n]]
Wanted == [vol |-> req.vol, quota |-> size, nfs |-> IsNFS(f),
           iops |-> Provisioned("provisionediops", DefaultIOPS(size, f.skuname)),
           bandwidth |-> Provisioned("provisionedbandwidth", DefaultBandwidth(size, f.skuname))]

\* A share that exists is taken for the one wanted; the data plane passes the quota only.
CreateFileShare ==
    LET made == IF DataPlane(f) THEN [Wanted EXCEPT !.nfs = FALSE, !.iops = 0, !.bandwidth = 0]
                ELSE Wanted
    IN  /\ Goto("create", "answer") /\ account \in DOMAIN accounts
        /\ shares' = IF Target \in DOMAIN shares THEN shares ELSE Put(shares, Target, made)
        /\ UNCHANGED <<offered, locals, accounts, skipped, memory, answers, calls, faults>>

\* TotalSharesProvisionedCapacityExceedsAccountLimit.
AccountLimitExceeded ==
    /\ pc = "create" /\ Target \notin DOMAIN shares /\ Fault
    /\ \/ /\ f.storageaccount # <<>>
          /\ Respond("Internal", None) /\ UNCHANGED <<azure, memory>>
       \/ /\ f.storageaccount = <<>> /\ Reenter
          /\ skipped' \in {skipped, skipped \cup {account}}
          /\ accountSearchCache' = Drop(accountSearchCache, lockKey)
          /\ volMap' = Drop(volMap, req.vol)
          /\ UNCHANGED <<accounts, shares>>

\* The ID: the volume's name for a share it may not have alone, another subscription.
IDTexts(g, a, name, disk, vol) ==
    LET texts == <<g.resourcegroup, T(a), name, disk, IF g.sharename = <<>> THEN <<>> ELSE vol,
                   g.secretnamespace>>
    IN  IF SubOf(g) = DriverSub THEN texts ELSE Append(texts, g.subscriptionid)
VolumeID(g, a, name, disk, vol) == Segmented(IDTexts(g, a, name, disk, vol))

\* The VHD disk of the volume, the ID, and secretNamespace in the context.
Answer ==
    LET made == IsDisk(f) /\ (f.diskname = <<>> \/ f.diskname[Len(f.diskname)] # "vhd")
        disk == IF ~made THEN f.diskname
                ELSE IF f.sharename = <<>> THEN share \o T("vhd")
                ELSE Append(Uuid, "vhd")
        context == IF made THEN SetKeyValue(params, "diskname", disk) ELSE params
    IN  /\ pc = "answer"
        /\ Respond("OK", [f |-> f, size |-> size, account |-> account, share |-> share,
                          disk |-> disk, skuKnown |-> skuKnown, open |-> open,
                          id |-> VolumeID(f, account, share, disk, req.vol),
                          context |-> SetKeyValue(context, "secretnamespace", f.secretnamespace)])
        /\ UNCHANGED <<azure, memory, faults>>

\* A request to Azure or Kubernetes fails.
RequestFails ==
    /\ \/ pc = "endpoint" /\ ServiceEndpoint(f) /\ Fault
       \/ SkuWanted /\ Fault
       \/ pc = "quota" /\ f.accountquota # <<>> /\ Fault
       \/ pc \in {"check", "create", "answer"} /\ Fault
       \/ Search /\ Fault
       \/ pc = "create" /\ account \notin DOMAIN accounts /\ UNCHANGED faults
       \/ /\ Search /\ Accounts \subseteq DOMAIN accounts
          /\ LockKeyOf(f) \notin DOMAIN accountSearchCache /\ UNCHANGED faults
    /\ Respond("Internal", None) /\ UNCHANGED <<azure, memory>>

CacheExpires ==
    /\ Fault
    /\ \E key \in DOMAIN accountSearchCache :
          accountSearchCache' = Drop(accountSearchCache, key)
    /\ UNCHANGED <<offered, pc, locals, azure, volMap, answers, calls>>

Restart ==
    /\ Fault /\ pc' = "idle" /\ req' = None /\ params' = NoMap /\ Fresh
    /\ accountSearchCache' = NoMap /\ volMap' = NoMap
    /\ UNCHANGED <<offered, azure, answers, calls>>

Next ==
    \/ \E r \in offered : Call(r)
    \/ ReadParameters \/ Validate \/ ConfigureEndpoint \/ ReadSku \/ RejectTags \/ SizeAndName
    \/ GivenAccount \/ PinnedAccount \/ CachedAccount \/ EnsureStorageAccount
    \/ OverQuota \/ RememberAccount \/ SetServer \/ CheckQuota
    \/ CreateFileShare \/ AccountLimitExceeded \/ Answer
    \/ RequestFails \/ CacheExpires \/ Restart

Spec == Init /\ [][Next]_vars

------------------------------------------------------------------------------
(* Properties. *)

\* Every variable has its type, and a size is known before the account is chosen.
TypeOK ==
    /\ pc \in {"idle", "read", "validate", "endpoint", "sku", "share", "account", "quota",
               "server", "check", "create", "answer"}
    /\ req \in offered \cup {None} /\ (req = None) = (pc = "idle")
    /\ DOMAIN f = Settings /\ size \in Nat /\ skuKnown \in BOOLEAN /\ open \subseteq Open
    /\ pc \in {"account", "quota", "server", "check", "create", "answer"} => size > 0
    /\ offered \in Scenarios
    /\ skipped \subseteq DOMAIN accounts
    /\ \A t \in DOMAIN shares : t[1] \in DOMAIN accounts /\ shares[t].quota \in Nat \ {0}
    /\ \A k \in DOMAIN accountSearchCache :
           /\ accountSearchCache[k].account \in DOMAIN accounts
           /\ accountSearchCache[k].open \subseteq Open
    /\ \A v \in DOMAIN volMap : volMap[v] \in DOMAIN accounts
    /\ calls \in 0..MaxCalls /\ faults \in 0..MaxFaults

Given(r) == Merge(r, r.params)

\* The request says one thing under each name.
Unambiguous(r) == Colliding(Given(r)) = {} /\ \A n \in NodeFields : \A k, l \in DOMAIN Given(r) :
                      k[1] = n /\ l[1] = n => Given(r)[k] = Given(r)[l]

\* No account or share is given as the empty text, which the node takes as it is.
NoneEmpty(r) == \A n \in {"storageaccount", "sharename"} : <<>> \notin Values(Given(r), n)

\* The volume v of the request r is found where it was made, whatever is read first.
FoundWhereMade(v, r) ==
    LET at == [rg |-> v.f.resourcegroup, sub |-> SubOf(v.f), account |-> T(v.account),
               share |-> v.share, namespace |-> v.f.secretnamespace]
        folder == IF Values(Given(r), "foldername") = {} THEN {<<>>}
                  ELSE {Replace(x, v.f) : x \in Values(Given(r), "foldername")}
    IN  /\ DeleteTarget(v.id) = at
        /\ \A i \in GetAccountInfo(v.id, v.context) :
            /\ \A n \in DOMAIN at \ {"share"} : i[n] = at[n]
            /\ i.disk = v.disk
            /\ \A x \in NodeReads(i, v.context) :
                /\ x.share = v.share /\ x.folder \in folder /\ x.nfs = IsNFS(v.f)
                /\ \/ x.server = Server(v.account, PrivateEndpoint(v.f) /\ ~SmbOAuth(v.f),
                                       v.f.storageendpointsuffix)
                   \/ ~PrivateEndpoint(v.f) /\ x.server \in Values(Given(r), "server")

\* The segments of the volume's ID are the texts it was made of.
Separated(v, r) ==
    LET texts == IDTexts(v.f, v.account, v.share, v.disk, r.vol)
    IN  \A i \in DOMAIN texts : ~Has(texts[i], "#")

\* The volume's ID can be read.
Readable(v, r) == /\ Separated(v, r)
                  /\ ~Has(v.disk, "..") /\ ~Has(v.f.secretnamespace, "..")

\* A snapshot of the volume with the ID is found where it was taken. There is none when the
\* ID cannot be read, and the times in IDs of five segments are misread.
SnapshotFound(id) ==
    LET i == GetFileShareInfo(id)
    IN  Valid(id) /\ Len(id) # 5 => GetInfoFromSnapshotID(SnapshotID(id, T("time"))) =
                           [rg |-> i.rg, account |-> i.account, share |-> i.share,
                            time |-> T("time"), sub |-> DeleteTarget(id).sub]

\* Where the node and the deleting and snapshotting controller calls find the volume is
\* where CreateVolume made it: account, share, disk, folder, protocol, server and secret
\* namespace; and no two volumes have one ID. Exempt are volumes of which the code checks the
\* texts of the ID only when it is too late: when one contains "#", or the disk or namespace
\* "..", CreateVolume answers OK, and with ".." DeleteVolume deletes nothing, for ever. Exempt
\* are also ambiguous requests, empty names, servers chosen by the storage class, and for
\* snapshots IDs of five segments.
NodeMountsWhatWasMade ==
    LET made == {a \in answers : a.kind = "OK"}
        separated == {a \in made : Separated(a.volume, a.req)}
    IN  /\ \A a \in made : Unambiguous(a.req) /\ NoneEmpty(a.req) /\ Readable(a.volume, a.req)
                            => FoundWhereMade(a.volume, a.req)
        /\ \A id \in StaticIDs \cup {a.volume.id : a \in separated} : SnapshotFound(id)
        /\ \A a, b \in separated : a.volume.id = b.volume.id => a.req.vol = b.req.vol

\* What a volume is does not depend on the attempt: all answers to one request, on
\* whatever account, after whatever failures and reading the map in whatever order, refuse
\* it or give it the same share, size, protocol and namespace. Exempt are ambiguous
\* requests, names of shares and disks that are UUIDs, and answers of which one knew the
\* SKU of the given account and the other did not.
RetryDecidesTheSame ==
    \A a, b \in {c \in answers : c.kind \in {"OK", "InvalidArgument"} /\ Unambiguous(c.req)} :
        a.req = b.req =>
            /\ a.kind = b.kind
            /\ a.kind = "OK" /\ a.volume.skuKnown = b.volume.skuKnown =>
                /\ a.volume.size = b.volume.size
                /\ \A n \in {"skuname", "protocol", "secretnamespace", "resourcegroup"} :
                      a.volume.f[n] = b.volume.f[n]
                /\ \/ a.volume.f.sharename # <<>>
                   \/ GeneratedName(a.volume.f, a.req.vol) \notin InvalidNames
                   => a.volume.share = b.volume.share

\* The storage class was replaced between two attempts to make the volume.
Changed(r) == \E other \in offered : other # r /\ other.vol = r.vol

\* The options of a request without those that were open when its account was chosen.
Relaxed(g, o) == [n \in Settings |-> IF n \in o THEN <<>> ELSE g[n]]

\* The answer is what was asked for: the capacity covers the request and the smallest
\* share of the account, the share has the size, and when it was made for the volume the
\* protocol and performance answered, and the account, found or remembered for another
\* request, fits the options. Exempt are volumes that may be pinned to an account chosen
\* for other parameters (the request is ambiguous or its storage class was replaced),
\* accounts given by name (not checked at all, and the performance follows from a SKU that
\* another attempt may not have known), options open in the request the account was
\* remembered for, the size of an existing share with the account key, and the protocol
\* and performance of shares made through the data plane.
AnswerFits ==
    \A a \in {b \in answers : b.kind = "OK" /\ Unambiguous(b.req) /\ ~Changed(b.req)} :
        LET v == a.volume
            s == shares[<<v.account, v.share>>]
            p == accounts[v.account]
        IN  /\ 2 * v.size >= a.req.half
            /\ v.skuKnown => v.size = ShareSize(v.size, p.options.skuname)
            /\ s.quota >= v.size \/ v.f.usedataplaneapi = True
            /\ s.vol = a.req.vol /\ ~DataPlane(v.f) =>
                  /\ s.nfs = IsNFS(v.f)
                  /\ v.skuKnown /\ v.f.provisionediops = <<>> =>
                         s.iops = DefaultIOPS(v.size, v.f.skuname)
            /\ v.f.storageaccount # <<>> \/ Fits(p, Relaxed(v.f, v.open))

------------------------------------------------------------------------------
(* The inductive invariant. *)

AfterAccount == {"quota", "server", "check", "create", "answer"}
AfterShare   == AfterAccount \cup {"account"}
AfterSku     == AfterShare \cup {"share"}

\* The parameters CreateVolume writes into the map before it may start over.
Rewritten == {"protocol", "foldername", "server"}

\* What an unambiguous request says, and what becomes of it.
ReadOf(r) == [s \in Settings |-> TextOf(Given(r), s)]
Located(r) == WithEndpoint(Validated(ReadOf(r)))
Chosen(r)  == WithSuffix(Located(r))

Accepted(r) == \A k \in DOMAIN Given(r) : Accepts(k[1], Given(r)[k])
RefusedEarly(r) == \/ ~Accepted(r) \/ Invalid(ReadOf(r))
                   \/ InvalidForEndpoint(Validated(ReadOf(r)))
Refused(r)      == RefusedEarly(r) \/ TagsAreInvalid(ReadOf(r))

\* Every attempt finds the request in the map, or what an earlier one made of it.
MapOK ==
    pc # "idle" /\ Unambiguous(req) =>
        LET m == Given(req)
        IN  /\ \A k \in (DOMAIN params) \cup (DOMAIN m) : k[1] \notin Rewritten =>
                   k \in DOMAIN params /\ k \in DOMAIN m /\ params[k] = m[k]
            /\ \/ Values(params, "protocol") = Values(m, "protocol")
               \/ /\ IsNFS(ReadOf(req)) /\ ~Invalid(ReadOf(req))
                  /\ T("nfs") \in Values(params, "protocol")
                  /\ Values(params, "protocol") \subseteq {T("nfs")} \cup Values(m, "protocol")
            /\ Values(m, "foldername") # {} => Values(params, "foldername") # {}
            /\ \A v \in Values(params, "foldername") :
                   \E x \in Values(m, "foldername") : v \in {x, Replace(x, ReadOf(req))}

\* The settings the decisions are made by are those of the request, whatever the attempt.
SettingsOK ==
    pc \notin {"idle", "read"} /\ Unambiguous(req) =>
        LET read == ReadOf(req)
            want == CASE pc = "validate"        -> read
                      [] pc = "endpoint"        -> Validated(read)
                      [] pc \in {"sku", "share"} -> Located(req)
                      [] OTHER                  -> Chosen(req)
        IN  /\ Accepted(req)
            /\ pc # "validate" => ~Invalid(read)
            /\ pc \notin {"validate", "endpoint"} => ~InvalidForEndpoint(Validated(read))
            /\ pc \notin {"validate", "endpoint", "sku", "share"} => ~TagsAreInvalid(read)
            /\ \A s \in Settings \ {"foldername", "server", "protocol", "skuname"} : f[s] = want[s]
            /\ \/ f.protocol = want.protocol
               \/ /\ pc \in {"validate", "endpoint"} /\ f.protocol = T("nfs")
                  /\ IsNFS(read) /\ ~Invalid(read)
            /\ IF skuKnown /\ f.storageaccount # <<>> THEN want.skuname = <<>>
               ELSE f.skuname = want.skuname

\* It knows the SKU of an account it is given when it has read it.
SkuOK ==
    /\ skuKnown => pc \in AfterSku
    /\ pc \in AfterSku /\ f.storageaccount = <<>> => skuKnown
    /\ skuKnown /\ f.storageaccount # <<>> =>
           /\ f.storageaccount[1] \in DOMAIN accounts /\ RoundUpGiB(req.half) < 32
           /\ f.skuname = accounts[f.storageaccount[1]].options.skuname

\* The name of the share of a request.
IsShareOf(name, r) ==
    LET g == Chosen(r)
    IN  IF g.sharename # <<>> THEN name = Replace(g.sharename, g)
        ELSE GeneratedName(g, r.vol) \notin InvalidNames => name = GeneratedName(g, r.vol)

SizeOK ==
    pc \in AfterShare =>
        /\ size = ShareSize(RoundUpGiB(req.half), f.skuname)
        /\ Unambiguous(req) => IsShareOf(share, req)

\* The parameters of the volume were the same in all attempts.
Settled(r) == Unambiguous(r) /\ ~Changed(r)

\* The account is the one given, or fits.
AccountOK ==
    pc \in AfterAccount =>
        IF f.storageaccount # <<>> THEN pc # "quota" /\ account = f.storageaccount[1]
        ELSE /\ account \in DOMAIN accounts
             /\ Settled(req) => Fits(accounts[account], Relaxed(f, open))
             /\ pc = "quota" => /\ Fits(accounts[account], f) /\ lockKey = LockKeyOf(f)
                                /\ open = {n \in Open : f[n] = <<>>}

QuotaOK ==
    /\ pc = "answer" => Target \in DOMAIN shares
    /\ pc \in {"create", "answer"} /\ Target \in DOMAIN shares /\ f.usedataplaneapi # True =>
           shares[Target].quota >= size

\* The account p fits every request with the lock key k, but for the options in o.
FitsKey(p, k, o) ==
    /\ p.rg = k.text.resourcegroup /\ p.sub = SubOf(k.text) /\ p.kind = k.derived[1]
    /\ \A n \in Compared \ Open : k.text[n] \in {<<>>, p.options[n]}
    /\ \A n \in (Open \ o) \cup Exact : k.flag[n] = p.options[n]
    /\ k.derived[6] \/ p.https = k.derived[5]
    /\ ~k.derived[5] => ~p.nfsEncrypted
    /\ k.derived[4] => p.smbOAuth
    /\ k.derived[2] => p.private
    /\ k.derived[3] => p.rule
    /\ k.text.matchtags = True => k.text.tags \in {<<>>, p.options.tags}

\* What is remembered fits: an account under a lock key, and that of a volume.
MemoryOK ==
    /\ \A k \in DOMAIN accountSearchCache :
           LET c == accountSearchCache[k]
           IN  FitsKey(accounts[c.account], k, c.open)
    /\ \A r \in offered : Settled(r) /\ r.vol \in DOMAIN volMap =>
           Fits(accounts[volMap[r.vol]], Chosen(r))

\* Accounts have the kind of their SKU. The share that was made for a volume has the
\* protocol and the performance of its settings, with the SKU known at the time.
AzureOK ==
    /\ \A a \in DOMAIN accounts :
           LET sku == accounts[a].options.skuname
           IN  IsPremium(sku) \/ IsV2(sku) => accounts[a].kind = "FileStorage"
    /\ \A t \in DOMAIN shares, r \in offered :
           LET g == Chosen(r)
           IN  Settled(r) /\ shares[t].vol = r.vol /\ ~DataPlane(g) =>
                   /\ shares[t].nfs = IsNFS(g)
                   /\ g.provisionediops = <<>> =>
                         \E sku \in {g.skuname, accounts[t[1]].options.skuname} :
                             /\ sku # g.skuname => g.skuname = <<>> /\ g.storageaccount # <<>>
                                                   /\ RoundUpGiB(r.half) < 32
                             /\ shares[t].quota = ShareSize(RoundUpGiB(r.half), sku)
                             /\ shares[t].iops = DefaultIOPS(shares[t].quota, sku)

\* Answers are what the request alone decides, but for the SKU of a given account.
AnswersOK ==
    \A a \in answers :
        /\ a.req \in offered
        /\ a.kind = "InvalidArgument" /\ Unambiguous(a.req) => Refused(a.req)
        /\ a.kind = "OK" =>
            LET v == a.volume
                g == Chosen(a.req)
            IN  /\ <<v.account, v.share>> \in DOMAIN shares
                /\ v.size = ShareSize(RoundUpGiB(a.req.half), v.f.skuname)
                /\ v.f.storageaccount # <<>> /\ v.skuKnown =>
                       /\ v.f.storageaccount[1] \in DOMAIN accounts
                       /\ v.f.skuname = accounts[v.f.storageaccount[1]].options.skuname
                /\ Unambiguous(a.req) =>
                    /\ ~Refused(a.req) /\ IsShareOf(v.share, a.req)
                    /\ \A s \in Settings \ {"foldername", "server", "skuname"} : v.f[s] = g[s]
                    /\ v.f.storageaccount = <<>> \/ ~v.skuKnown => v.f.skuname = g.skuname

\* What every attempt decides.
DecisionInv ==
    /\ TypeOK /\ MapOK /\ SettingsOK /\ SkuOK /\ SizeOK /\ AccountOK /\ QuotaOK
    /\ MemoryOK /\ AzureOK /\ AnswersOK /\ AnswerFits

\* What is read was given in the request, but for what CreateVolume has written.
WordsOK ==
    /\ pc # "idle" =>
           \A k \in DOMAIN params : k[1] \notin Rewritten => Plausible(k[1], params[k])
    /\ pc \notin {"idle", "read"} =>
           /\ \A n \in {"sharenameprefix", "subscriptionid", "storageaccount",
                       "storageendpointsuffix"} : Plausible(n, f[n])
           /\ pc # "validate" =>
                  \A i \in DOMAIN f.sharenameprefix : f.sharenameprefix[i] \notin Variables
    /\ pc \in AfterSku \cup {"sku"} => f.resourcegroup # <<>>

\* The map says to the node what CreateVolume has chosen.
ContextOK ==
    /\ pc # "idle" /\ Unambiguous(req) /\ ~PrivateEndpoint(ReadOf(req)) =>
           Values(params, "server") = Values(Given(req), "server")
    /\ pc \in AfterSku \cup {"sku"} /\ IsNFS(f) => Values(params, "protocol") = {T("nfs")}
    /\ pc \in {"check", "create", "answer"} /\ PrivateEndpoint(f) =>
           Values(params, "server") = {Server(account, ~SmbOAuth(f), f.storageendpointsuffix)}

\* A share is named after its volume, or has a name of its own.
NamedAfter(name, vol) ==
    /\ IsText(name) /\ name # <<>> /\ Last(name) = Last(vol)
    /\ \A i \in DOMAIN name : name[i] \notin Variables

Generated == {a \in answers : a.kind = "OK" /\ a.volume.f.sharename = <<>>}

NamesOK ==
    /\ \A a \in Generated :
           \/ NamedAfter(a.volume.share, a.req.vol)
           \/ \E n \in 0..(calls + faults) :
                  a.volume.share = UuidName(n) /\ (pc # "idle" => n < calls + faults)
    /\ pc \in AfterShare /\ f.sharename = <<>> =>
           \/ NamedAfter(share, req.vol)
           \/ /\ \E n \in 0..(calls + faults) : share = UuidName(n)
              /\ \A a \in Generated : a.volume.share # share
    /\ \A a, b \in Generated : a.volume.share = b.volume.share => a.req.vol = b.req.vol

\* IDs say where the volume was made, and it is found there.
PlacesOK ==
    \A a \in answers : a.kind = "OK" =>
        LET v == a.volume
        IN  /\ v.id = VolumeID(v.f, v.account, v.share, v.disk, a.req.vol)
            /\ Unambiguous(a.req) /\ NoneEmpty(a.req) /\ Readable(v, a.req)
                   => FoundWhereMade(v, a.req)
            /\ Separated(v, a.req) => SnapshotFound(v.id)

\* Where it is found.
PlaceInv == WordsOK /\ ContextOK /\ NamesOK /\ PlacesOK

IInv == DecisionInv /\ PlaceInv
=============================================================================
