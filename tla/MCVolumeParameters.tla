------------------------ MODULE MCVolumeParameters ------------------------
(***************************************************************************)
(* VolumeParameters for TLC: one or two storage classes at a time, with    *)
(* parameters that touch each other.                                       *)
(***************************************************************************)
EXTENDS VolumeParameters, TLC

\* A parameter as the driver spells it, and as users do.
P(name, word) == <<name, "lower">> :> <<word>>
C(name, words) == <<name, "camel">> :> words

R(n, half, class, mutable) ==
    [vol |-> <<"pvc", n>>, half |-> half, params |-> class, mutable |-> mutable]

pvc == P("csi.storage.k8s.io/pvc/name", "claim") @@ P("csi.storage.k8s.io/pvc/namespace", "team")
none == NoMap

\* NFS by fsType over a private endpoint, with a folder of the claim and an account quota.
privateNFS == R("1", 0, pvc @@ C("fstype", <<"nfs">>)
                    @@ C("networkendpointtype", <<"privateendpoint">>)
                    @@ C("foldername", <<"data", "${pvc.metadata.name}">>)
                    @@ P("accountquota", "200") @@ C("secretnamespace", <<"vault">>), none)
\* SMB with tickets over a private endpoint, VHD disks on a share of their own or a given one.
privateSMB == R("2", 129, C("networkendpointtype", <<"privateendpoint">>) @@ P("server", "mine")
                    @@ P("mountwithmanagedidentity", "true") @@ C("fstype", <<"ext4">>)
                    @@ C("diskname", <<"image">>), none)
disk == R("3", 2, pvc @@ C("fstype", <<"xfs">>) @@ C("sharename", <<"images">>)
              @@ C("diskname", <<"image">>), none)
\* Plaintext and encrypted NFS, and SMB.
plain     == R("1", 201, P("protocol", "nfs"), none)
encrypted == R("2", 201, P("protocol", "nfs"), C("encryptintransit", True))
shared    == R("3", 1, none, none)
\* Two volumes on one share of a given account, the second of another subscription.
small == R("1", 20, pvc @@ C("sharename", <<"s", "${pvc.metadata.name}">>)
               @@ C("storageaccount", <<"old">>), none)
large == R("2", 80, pvc @@ C("sharename", <<"s", "claim">>) @@ C("storageaccount", <<"old">>)
               @@ C("usedataplaneapi", <<"oauth">>), none)
cross == R("2", 80, C("subscriptionid", <<"sub2">>) @@ C("resourcegroup", <<"rg2">>)
               @@ C("sharenameprefix", <<"p">>) @@ C("storageendpointsuffix", <<"us">>), none)
\* Provisioned v2, with given and default performance.
v2    == R("1", 60, C("skuname", <<"premium", "v2", "lrs">>), none)
v2std == R("2", 65, P("skuname", "standard") @@ C("accesstier", <<"Hot">>),
              C("storageaccounttype", <<"standard", "v2", "lrs">>) @@ P("provisionediops", "200"))
\* A given account whose SKU the driver has to read, and one that does not exist.
given == R("1", 20, C("storageaccount", <<"fast">>), none)
gone  == R("2", 20, C("storageaccount", <<"gone">>), none)
\* Options left open by one class, without a size, and set by another; a class that wants
\* new accounts.
any   == R("1", 0, none, none)
noLFS == R("2", 20, P("enablelargefileshares", "false"), none)
fresh == R("3", 20, P("createaccount", "true"), none)
\* A mutable parameter spelled differently, an empty one, an invalid name.
twice == R("1", 20, C("skuname", <<"premium", "lrs">>), P("skuname", "standard"))
empty == R("2", 20, P("storageaccount", "old") @@ C("sharename", <<>>), none)
named == [vol |-> <<"_">>, half |-> 20, params |-> none, mutable |-> none]
\* The storage class of a volume after it was replaced.
changed == R("3", 20, P("skuname", "premium"), none)
\* IDs that cannot be read: of a disk in another directory, and of a secret namespace with a
\* separator.
outside == R("1", 20, P("fstype", "ext4") @@ C("diskname", <<"..", "x", "vhd">>), none)
hash    == R("2", 20, C("secretnamespace", <<"a", "#", "b">>), none)
tagged  == R("1", 20, P("tags", "k=v") @@ P("tagvaluedelimiter", ";"), none)
\* Refused.
refused == {R("1", 20, p, none) : p \in {
    P("skunam", "premium"), P("enablemultichannel", "maybe"), P("accountquota", "10"),
    P("usedataplaneapi", "maybe"), C("foldername", <<"..", "etc">>), P("mountpermissions", "rwx"),
    P("mountwithoauthtoken", "true"), P("protocol", "iscsi"),
    P("mountwithoauthtoken", "true") @@ P("mountwithmanagedidentity", "true"),
    P("matchtags", "true") @@ P("storageaccount", "old"), P("subscriptionid", "sub2"),
    P("protocol", "nfs") @@ P("fstype", "ext4"), P("protocol", "nfs") @@ P("skuname", "standard"),
    P("enablemultichannel", "true") @@ P("skuname", "standard"),
    P("privatednszoneresourcegroup", "rg2"), P("allowsharedkeyaccess", "false"),
    P("tags", "k"), P("sharenameprefix", "Share")}}

AllScenarios == {{privateNFS}, {privateSMB}, {disk}, {plain, encrypted}, {shared, cross}, {shared, changed},
                 {small, large}, {v2, v2std}, {given, gone}, {any, noLFS}, {any, fresh}, {twice}, {empty},
                 {outside, hash}, {tagged}, {named}} \cup {{r} : r \in refused}

Old(sku, lfs) == NewAccount([NoSettings EXCEPT !.resourcegroup = T("rg"), !.skuname = sku,
                                               !.enablelargefileshares = lfs])
ExistingAccounts == "old" :> Old(<<"standard", "lrs">>, True)
                    @@ "fast" :> Old(<<"premium", "v2", "lrs">>, False)
NumberTexts == T("10") :> 10 @@ T("200") :> 200
RG == T("rg")
Sub == T("sub1")
NoShareNames == {<<"_">>}
NoPrefixes == {T("Share")}
NoTags == {<<T("k"), <<>>>>, <<T("k=v"), T("=")>>}
IDs == {<<T("rg"), T("a"), T("s")>>, <<T("rg"), T("a"), T("s"), T("d")>>,
        <<<<>>, T("a"), T("s"), <<>>, T("ns")>>,
        <<T("rg"), T("a"), T("s"), <<>>, T("pvc"), T("ns")>>,
        <<T("rg"), T("a"), T("s"), <<>>, T("pvc"), T("ns"), T("sub2")>>,
        <<T("rg"), T("a"), T("s"), <<"..", "d">>>>}
=============================================================================
