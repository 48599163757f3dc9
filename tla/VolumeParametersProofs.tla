---------------------- MODULE VolumeParametersProofs ----------------------
(***************************************************************************)
(* Proofs about VolumeParameters, for any requests, accounts, limits and   *)
(* bounds.                                                                 *)
(***************************************************************************)
EXTENDS VolumeParameters, SequenceTheorems, TLAPS

------------------------------------------------------------------------------
(* Settings. *)

\* The settings that are made by the request alone, but for defaults.
Plain == Settings \ {"foldername", "server", "protocol", "skuname"}

\* Two names are renamed, every other name is the setting of its own.
LEMMA SettingFacts ==
    /\ \A n : n \notin {"storageaccounttype", "accesstier"} => Setting(n) = n
    /\ Setting("storageaccounttype") = "skuname" /\ Setting("accesstier") = "shareaccesstier"
BY DEF Setting

\* A parameter has a setting.
LEMMA KnownNames ==
    \A n \in Known \ {"storageaccounttype", "accesstier"} : n \in Settings
BY SettingFacts DEF Settings

\* A parameter the code does not change has a plain setting.
LEMMA InPlain ==
    ASSUME NEW n \in Known,
           n \notin {"storageaccounttype", "accesstier", "foldername", "server", "protocol",
                     "skuname"}
    PROVE  n \in Plain
BY KnownNames DEF Plain

\* The settings that are not plain.
LEMMA OtherNames == {"skuname", "protocol", "foldername", "server"} \subseteq Settings
BY KnownNames DEF Known, TextFields, NodeFields

\* The settings that are checked when they are read.
LEMMA CheckedNames ==
    BoolFields \subseteq Plain /\ IdentityFields \subseteq Plain /\ NumberFields \subseteq Plain
BY InPlain DEF Known, BoolFields, IdentityFields, NumberFields

\* The other settings the model uses by name.
LEMMA TextNames ==
    {"location", "storageaccount", "subscriptionid", "resourcegroup", "sharename", "diskname",
     "fstype", "storeaccountkey", "secretname", "secretnamespace", "matchtags", "tags",
     "createaccount", "usedataplaneapi", "csi.storage.k8s.io/pvc/name",
     "csi.storage.k8s.io/pvc/namespace", "csi.storage.k8s.io/pv/name",
     "storageendpointsuffix", "networkendpointtype", "privatednszoneresourcegroup",
     "shareaccesstier", "accountaccesstier", "rootsquashtype", "publicnetworkaccess",
     "fsgroupchangepolicy", "vnetresourcegroup", "vnetname", "vnetlinkname", "subnetname",
     "sharenameprefix", "tagvaluedelimiter"} \subseteq Plain
BY InPlain DEF Known, TextFields

\* The flags by name.
LEMMA FlagNames ==
    {"enablelargefileshares", "disabledeleteretentionpolicy", "allowblobpublicaccess",
     "allowsharedkeyaccess", "allowcrosstenantreplication", "requireinfraencryption",
     "enablemultichannel", "encryptintransit", "accountquota", "provisionediops",
     "provisionedbandwidth"} \subseteq Plain
BY CheckedNames DEF BoolFields, NumberFields

\* Metadata have plain settings.
LEMMA MetadataNames == MetadataFields \subseteq Plain
BY TextNames DEF MetadataFields, MetadataField, Variables

\* What the lock key and the account are made of.
LEMMA ComparedNames ==
    /\ Compared \subseteq Plain \cup {"skuname"} /\ Open \subseteq Plain /\ Exact \subseteq Plain
    /\ CopiedFields \subseteq Plain \cup {"skuname", "protocol"}
    /\ DOMAIN Default \subseteq Plain /\ Open \subseteq DOMAIN Default
    /\ Exact \subseteq DOMAIN Default
BY TextNames, FlagNames DEF Compared, Open, Exact, CopiedFields, Default

------------------------------------------------------------------------------
(* Settings that agree. *)

Like(g, h) == \A s \in Plain : g[s] = h[s]

\* What settings that agree have in common.
LEMMA LikeFacts ==
    ASSUME NEW g, NEW h, Like(g, h)
    PROVE  /\ IsDisk(g) = IsDisk(h) /\ SmbOAuth(g) = SmbOAuth(h) /\ SubOf(g) = SubOf(h)
           /\ PrivateEndpoint(g) = PrivateEndpoint(h) /\ DataPlane(g) = DataPlane(h)
           /\ \A text : Replace(text, g) = Replace(text, h)
<1>1. IsDisk(g) = IsDisk(h)
  BY TextNames DEF Like, IsDisk
<1>2. SmbOAuth(g) = SmbOAuth(h)
  BY CheckedNames DEF Like, SmbOAuth
<1>3. SubOf(g) = SubOf(h) /\ DataPlane(g) = DataPlane(h)
  BY TextNames DEF Like, SubOf, DataPlane
<1>4. PrivateEndpoint(g) = PrivateEndpoint(h)
  BY TextNames DEF Like, PrivateEndpoint
<1>5. ASSUME NEW text PROVE Replace(text, g) = Replace(text, h)
  <2>1. \A w \in Variables : g[MetadataField(w)] = h[MetadataField(w)]
    BY MetadataNames DEF Like, MetadataFields
  <2> QED BY <2>1 DEF Replace
<1> QED BY <1>1, <1>2, <1>3, <1>4, <1>5

\* The protocol of g is that of h, or the NFS that CreateVolume has written.
ProtocolLike(g, h) ==
    \/ g.protocol = h.protocol
    \/ g.protocol = T("nfs") /\ IsNFS(h) /\ ~Invalid(h)

\* Such settings are for NFS or not.
LEMMA NFSLike ==
    ASSUME NEW g, NEW h, Like(g, h), ProtocolLike(g, h)
    PROVE  IsNFS(g) = IsNFS(h)
BY TextNames DEF Like, ProtocolLike, IsNFS

\* They are refused or not.
LEMMA InvalidLike ==
    ASSUME NEW g, NEW h, Like(g, h), ProtocolLike(g, h)
    PROVE  Invalid(g) = Invalid(h)
<1> DEFINE Ids(x)    == \E m, n \in IdentityFields : m # n /\ x[m] = True /\ x[n] = True
           Token(x)  == x.mountwithoauthtoken = True /\ (x.secretname = <<>> \/ IsNFS(x))
           Tags(x)   == x.matchtags = True /\ x.storageaccount # <<>>
           Sub(x)    == SubOf(x) # DriverSub /\ x.resourcegroup = <<>>
           Disk(x)   == ~VHDFeature /\ x.fstype # <<>>
           Prefix(x) == ~SupportedShareNamePrefix(x.sharenameprefix)
           Text(x)   == \E n \in DOMAIN Supported \ {"protocol"} :
                            x[n] # <<>> /\ x[n] \notin {T(w) : w \in Supported[n]}
           Proto(x)  == x.protocol # <<>> /\ x.protocol \notin {T(w) : w \in Supported["protocol"]}
           Both(x)   == x.protocol = T("nfs") /\ x.fstype \notin {<<>>, T("nfs")}
<1>1. \A x : Invalid(x) = (\/ Ids(x) \/ Token(x) \/ Tags(x) \/ Sub(x) \/ Disk(x) \/ Prefix(x)
                           \/ Text(x) \/ Proto(x) \/ Both(x))
  <2>1. "protocol" \in DOMAIN Supported
    BY DEF Supported
  <2> QED BY <2>1 DEF Invalid
<1>2. Ids(g) = Ids(h)
  BY CheckedNames DEF Like
<1>3. Token(g) = Token(h)
  <2>1. "mountwithoauthtoken" \in Plain
    BY CheckedNames DEF IdentityFields
  <2> QED BY <2>1, TextNames, NFSLike DEF Like
<1>4. Tags(g) = Tags(h) /\ Sub(g) = Sub(h) /\ Disk(g) = Disk(h) /\ Prefix(g) = Prefix(h)
  BY TextNames, LikeFacts DEF Like
<1>5. Text(g) = Text(h)
  <2>1. DOMAIN Supported \ {"protocol"} \subseteq Plain
    BY TextNames DEF Supported
  <2> QED BY <2>1 DEF Like
<1>6. g.fstype = h.fstype
  BY TextNames DEF Like
<1>7. CASE g.protocol = h.protocol
  <2>1. Proto(g) = Proto(h) /\ Both(g) = Both(h)
    BY <1>6, <1>7
  <2> HIDE DEF Ids, Token, Tags, Sub, Disk, Prefix, Text, Proto, Both
  <2> QED BY <1>1, <1>2, <1>3, <1>4, <1>5, <2>1
<1>8. CASE g.protocol = T("nfs") /\ IsNFS(h) /\ ~Invalid(h)
  <2>1. ~Proto(g)
    BY <1>8 DEF Supported
  <2>2. ~Both(g)
    <3>1. CASE h.fstype = T("nfs")
      BY <3>1, <1>6
    <3>2. CASE h.protocol = T("nfs")
      <4>1. ~Both(h)
        BY <1>1, <1>8
      <4> QED BY <4>1, <3>2, <1>6
    <3> QED BY <3>1, <3>2, <1>8 DEF IsNFS
  <2> HIDE DEF Ids, Token, Tags, Sub, Disk, Prefix, Text, Proto, Both
  <2> QED BY <1>1, <1>2, <1>3, <1>4, <1>5, <1>8, <2>1, <2>2
<1> QED BY <1>7, <1>8 DEF ProtocolLike

\* They are refused with the endpoint or not.
LEMMA EndpointLike ==
    ASSUME NEW g, NEW h, Like(g, h), IsNFS(g) = IsNFS(h), g.skuname = h.skuname
    PROVE  InvalidForEndpoint(g) = InvalidForEndpoint(h)
<1>1. PrivateEndpoint(g) = PrivateEndpoint(h)
  BY LikeFacts
<1>2. /\ g.subnetname = h.subnetname /\ g.storeaccountkey = h.storeaccountkey
      /\ g.privatednszoneresourcegroup = h.privatednszoneresourcegroup
      /\ g.enablemultichannel = h.enablemultichannel
      /\ g.allowsharedkeyaccess = h.allowsharedkeyaccess
  BY TextNames, FlagNames DEF Like
<1> QED BY <1>1, <1>2 DEF InvalidForEndpoint

------------------------------------------------------------------------------
(* What becomes of the settings. *)

\* The checks fill in the namespace, and the account key of identities.
LEMMA ValidatedFacts ==
    ASSUME NEW g, DOMAIN g = Settings
    PROVE  /\ DOMAIN Validated(g) = Settings
           /\ \A s \in Settings \ {"secretnamespace", "storeaccountkey"} : Validated(g)[s] = g[s]
           /\ IsNFS(Validated(g)) = IsNFS(g)
<1>1. /\ DOMAIN Validated(g) = Settings
      /\ \A s \in Settings \ {"secretnamespace", "storeaccountkey"} : Validated(g)[s] = g[s]
  BY DEF Validated
<1> QED BY <1>1, TextNames, OtherNames DEF IsNFS, Plain

\* They do so alike.
LEMMA ValidatedLike ==
    ASSUME NEW g, NEW h, DOMAIN g = Settings, DOMAIN h = Settings, Like(g, h)
    PROVE  Like(Validated(g), Validated(h))
<1>1. SmbOAuth(g) = SmbOAuth(h)
  BY LikeFacts
<1>2. /\ {"secretnamespace", "storeaccountkey", "csi.storage.k8s.io/pvc/namespace"}
             \subseteq Plain
      /\ Plain \subseteq Settings
  BY TextNames DEF Plain
<1> QED BY <1>1, <1>2 DEF Like, Validated

\* NFS and the resource group.
LEMMA WithEndpointFacts ==
    ASSUME NEW g, DOMAIN g = Settings
    PROVE  /\ DOMAIN WithEndpoint(g) = Settings
           /\ \A s \in Settings \ {"protocol", "storeaccountkey", "skuname", "resourcegroup"} :
                  WithEndpoint(g)[s] = g[s]
           /\ WithEndpoint(g).protocol = IF IsNFS(g) THEN T("nfs") ELSE g.protocol
           /\ WithEndpoint(g).skuname = IF IsNFS(g) /\ g.skuname = <<>> THEN <<"premium", "lrs">>
                                        ELSE g.skuname
           /\ WithEndpoint(g).resourcegroup = IF g.resourcegroup = <<>> THEN DriverRG
                                              ELSE g.resourcegroup
           /\ WithEndpoint(g).storeaccountkey = IF IsNFS(g) THEN False ELSE g.storeaccountkey
           /\ IsNFS(WithEndpoint(g)) = IsNFS(g)
<1>1. {"storeaccountkey", "resourcegroup", "fstype"} \subseteq Settings
  BY TextNames DEF Plain
<1>2. /\ DOMAIN WithEndpoint(g) = Settings
      /\ \A s \in Settings \ {"protocol", "storeaccountkey", "skuname", "resourcegroup"} :
             WithEndpoint(g)[s] = g[s]
      /\ WithEndpoint(g).protocol = IF IsNFS(g) THEN T("nfs") ELSE g.protocol
      /\ WithEndpoint(g).skuname = IF IsNFS(g) /\ g.skuname = <<>> THEN <<"premium", "lrs">>
                                   ELSE g.skuname
      /\ WithEndpoint(g).resourcegroup = IF g.resourcegroup = <<>> THEN DriverRG
                                         ELSE g.resourcegroup
      /\ WithEndpoint(g).storeaccountkey = IF IsNFS(g) THEN False ELSE g.storeaccountkey
  BY <1>1, OtherNames DEF WithEndpoint
<1>3. IsNFS(WithEndpoint(g)) = IsNFS(g)
  BY <1>1, <1>2 DEF IsNFS
<1> QED BY <1>2, <1>3

\* They are made alike.
LEMMA WithEndpointLike ==
    ASSUME NEW g, NEW h, DOMAIN g = Settings, DOMAIN h = Settings, Like(g, h),
           IsNFS(g) = IsNFS(h)
    PROVE  Like(WithEndpoint(g), WithEndpoint(h))
<1>1. ASSUME NEW s \in Plain PROVE WithEndpoint(g)[s] = WithEndpoint(h)[s]
  <2>1. s \in Settings \ {"protocol", "skuname"} /\ g[s] = h[s]
    BY <1>1 DEF Plain, Like
  <2>2. g.storeaccountkey = h.storeaccountkey /\ g.resourcegroup = h.resourcegroup
    BY TextNames DEF Like
  <2>3. CASE s \in {"storeaccountkey", "resourcegroup"}
    BY <2>2, <2>3, WithEndpointFacts
  <2>4. CASE s \notin {"storeaccountkey", "resourcegroup"}
    BY <2>1, <2>4, WithEndpointFacts
  <2> QED BY <2>3, <2>4
<1> QED BY <1>1 DEF Like

\* The endpoint suffix of the cloud.
LEMMA WithSuffixFacts ==
    ASSUME NEW g, DOMAIN g = Settings
    PROVE  /\ DOMAIN WithSuffix(g) = Settings
           /\ \A s \in Settings \ {"storageendpointsuffix"} : WithSuffix(g)[s] = g[s]
           /\ IsNFS(WithSuffix(g)) = IsNFS(g)
<1>1. /\ DOMAIN WithSuffix(g) = Settings
      /\ \A s \in Settings \ {"storageendpointsuffix"} : WithSuffix(g)[s] = g[s]
  BY DEF WithSuffix
<1> QED BY <1>1, TextNames, OtherNames DEF IsNFS, Plain

\* It is filled in alike.
LEMMA WithSuffixLike ==
    ASSUME NEW g, NEW h, DOMAIN g = Settings, DOMAIN h = Settings, Like(g, h)
    PROVE  Like(WithSuffix(g), WithSuffix(h))
<1>1. "storageendpointsuffix" \in Plain /\ Plain \subseteq Settings
  BY TextNames DEF Plain
<1> QED BY <1>1 DEF Like, WithSuffix

\* What a request says, and what becomes of it, has all settings, and the metadata and the
\* protocol of what it says.
LEMMA ChosenFacts ==
    ASSUME NEW r
    PROVE  /\ DOMAIN ReadOf(r) = Settings /\ DOMAIN Validated(ReadOf(r)) = Settings
           /\ DOMAIN Located(r) = Settings /\ DOMAIN Chosen(r) = Settings
           /\ Located(r).protocol = Chosen(r).protocol /\ Located(r).skuname = Chosen(r).skuname
           /\ \A s \in Plain \ {"secretnamespace", "storeaccountkey", "resourcegroup",
                                "storageendpointsuffix"} : Chosen(r)[s] = ReadOf(r)[s]
           /\ \A s \in Settings \ {"storageendpointsuffix"} : Located(r)[s] = Chosen(r)[s]
           /\ IsNFS(Located(r)) = IsNFS(ReadOf(r)) /\ IsNFS(Chosen(r)) = IsNFS(ReadOf(r))
           /\ IsNFS(Validated(ReadOf(r))) = IsNFS(ReadOf(r))
<1>1. DOMAIN ReadOf(r) = Settings
  BY DEF ReadOf
<1> DEFINE v == Validated(ReadOf(r))
<1>2. DOMAIN v = Settings
  BY <1>1, ValidatedFacts
<1>3. DOMAIN Located(r) = Settings
  BY <1>2, WithEndpointFacts DEF Located
<1>4. DOMAIN Chosen(r) = Settings
  BY <1>3, WithSuffixFacts DEF Chosen
<1>5. \A s \in Settings \ {"storageendpointsuffix"} : Located(r)[s] = Chosen(r)[s]
  BY <1>3, WithSuffixFacts DEF Chosen
<1>6. \A s \in Plain \ {"storeaccountkey", "resourcegroup"} : Located(r)[s] = v[s]
  BY <1>2, WithEndpointFacts DEF Located, Plain
<1>7. \A s \in Plain \ {"secretnamespace", "storeaccountkey"} : v[s] = ReadOf(r)[s]
  BY <1>1, ValidatedFacts DEF Plain
<1>8. Plain \subseteq Settings
  BY DEF Plain
<1>9. IsNFS(v) = IsNFS(ReadOf(r))
  BY <1>1, ValidatedFacts
<1>10. IsNFS(Located(r)) = IsNFS(v)
  BY <1>2, WithEndpointFacts DEF Located
<1>11. IsNFS(Chosen(r)) = IsNFS(Located(r))
  BY <1>3, WithSuffixFacts DEF Chosen
<1>12. ASSUME NEW s \in Plain \ {"secretnamespace", "storeaccountkey", "resourcegroup",
                                 "storageendpointsuffix"}
       PROVE  Chosen(r)[s] = ReadOf(r)[s]
  BY <1>5, <1>6, <1>7, <1>8
<1> HIDE DEF v
<1> QED BY <1>1, <1>2, <1>3, <1>4, <1>5, <1>9, <1>10, <1>11, <1>12, OtherNames DEF v

------------------------------------------------------------------------------
(* The choice of the account. *)

\* What it is made by.
LEMMA FitsLike ==
    ASSUME NEW p, NEW g, NEW h, Like(g, h), g.protocol = h.protocol, g.skuname = h.skuname
    PROVE  Fits(p, g) = Fits(p, h)
<1>1. /\ SmbOAuth(g) = SmbOAuth(h) /\ SubOf(g) = SubOf(h)
      /\ PrivateEndpoint(g) = PrivateEndpoint(h)
  BY LikeFacts
<1>2. IsNFS(g) = IsNFS(h)
  BY TextNames DEF IsNFS, Like
<1>3. Encrypted(g) = Encrypted(h) /\ EnableHTTPSTrafficOnly(g) = EnableHTTPSTrafficOnly(h)
  BY <1>2, FlagNames DEF Like, Encrypted, EnableHTTPSTrafficOnly
<1>4. ServiceEndpoint(g) = ServiceEndpoint(h)
  BY <1>1, <1>2, TextNames DEF Like, ServiceEndpoint
<1>5. AccountKind(g) = AccountKind(h)
  BY DEF AccountKind
<1>6. (\A n \in Compared : g[n] \in {<<>>, p.options[n]})
      = (\A n \in Compared : h[n] \in {<<>>, p.options[n]})
  BY ComparedNames DEF Like
<1>7. (\A n \in Exact : Deref(g, n) = p.options[n]) = (\A n \in Exact : Deref(h, n) = p.options[n])
  BY ComparedNames DEF Like, Deref
<1>8. g.resourcegroup = h.resourcegroup /\ g.matchtags = h.matchtags /\ g.tags = h.tags
  BY TextNames DEF Like
<1> QED BY <1>1, <1>2, <1>3, <1>4, <1>5, <1>6, <1>7, <1>8 DEF Fits

\* Options that are left open are none that anything else is made by.
LEMMA RelaxedFacts ==
    ASSUME NEW g, NEW o \in SUBSET Open
    PROVE  LET h == Relaxed(g, o)
           IN  /\ \A s \in (Plain \cup {"protocol", "skuname"}) \ o : h[s] = g[s]
               /\ \A s \in o : h[s] = <<>>
               /\ IsNFS(h) = IsNFS(g) /\ SubOf(h) = SubOf(g) /\ AccountKind(h) = AccountKind(g)
               /\ SmbOAuth(h) = SmbOAuth(g) /\ PrivateEndpoint(h) = PrivateEndpoint(g)
               /\ Encrypted(h) = Encrypted(g) /\ ServiceEndpoint(h) = ServiceEndpoint(g)
               /\ EnableHTTPSTrafficOnly(h) = EnableHTTPSTrafficOnly(g)
               /\ h.resourcegroup = g.resourcegroup /\ h.matchtags = g.matchtags
               /\ h.tags = g.tags
<1> DEFINE h == Relaxed(g, o)
<1>1. \A s \in (Plain \cup {"protocol", "skuname"}) \ o : h[s] = g[s]
  BY OtherNames DEF Relaxed, Plain
<1>2. \A s \in o : h[s] = <<>>
  BY ComparedNames DEF Relaxed, Plain
<1>3. "protocol" \notin Open /\ "skuname" \notin Open /\ IdentityFields \cap Open = {}
  BY DEF Open, IdentityFields
<1>4. {"resourcegroup", "subscriptionid", "fstype", "networkendpointtype", "matchtags", "tags",
       "encryptintransit"} \subseteq Plain \ Open
  BY TextNames, FlagNames DEF Open
<1>5. h.protocol = g.protocol /\ h.skuname = g.skuname
  BY <1>1, <1>3
<1>6. IsNFS(h) = IsNFS(g) /\ SubOf(h) = SubOf(g) /\ AccountKind(h) = AccountKind(g)
  BY <1>1, <1>4, <1>5 DEF IsNFS, SubOf, AccountKind
<1>7. SmbOAuth(h) = SmbOAuth(g)
  BY <1>1, <1>3, CheckedNames DEF SmbOAuth
<1>8. PrivateEndpoint(h) = PrivateEndpoint(g) /\ Encrypted(h) = Encrypted(g)
  BY <1>1, <1>4, <1>6 DEF PrivateEndpoint, Encrypted
<1>9. ServiceEndpoint(h) = ServiceEndpoint(g)
  BY <1>1, <1>4, <1>6, <1>8 DEF ServiceEndpoint
<1>10. EnableHTTPSTrafficOnly(h) = EnableHTTPSTrafficOnly(g)
  BY <1>6, <1>8 DEF EnableHTTPSTrafficOnly
<1>11. h.resourcegroup = g.resourcegroup /\ h.matchtags = g.matchtags /\ h.tags = g.tags
  BY <1>1, <1>4
<1> HIDE DEF h
<1> QED BY <1>1, <1>2, <1>6, <1>7, <1>8, <1>9, <1>10, <1>11 DEF h

\* An account that fits, fits without some options that are left open.
LEMMA RelaxedFits ==
    ASSUME NEW p, NEW g, NEW o \in SUBSET Open, Fits(p, g)
    PROVE  Fits(p, Relaxed(g, o))
<1> DEFINE h == Relaxed(g, o)
<1>1. ASSUME NEW n \in Compared PROVE h[n] \in {<<>>, p.options[n]}
  <2>1. h[n] \in {<<>>, g[n]}
    BY RelaxedFacts, ComparedNames
  <2> QED BY <2>1 DEF Fits
<1>2. ASSUME NEW n \in Exact PROVE Deref(h, n) = p.options[n]
  <2>1. n \notin o
    BY DEF Exact, Open
  <2>2. h[n] = g[n]
    BY <2>1, RelaxedFacts, ComparedNames
  <2> QED BY <2>2 DEF Fits, Deref
<1> HIDE DEF h
<1>3. Fits(p, h)
  BY <1>1, <1>2, RelaxedFacts DEF Fits, h
<1> QED BY <1>3 DEF h

\* An account made for options fits them, and has the kind of its SKU.
LEMMA NewAccountFits ==
    ASSUME NEW g
    PROVE  /\ Fits(NewAccount(g), g)
           /\ LET sku == NewAccount(g).options.skuname
              IN  IsPremium(sku) \/ IsV2(sku) => NewAccount(g).kind = "FileStorage"
<1> DEFINE p == NewAccount(g)
<1>1. DOMAIN AzureDefault = Compared \cup Exact \cup {"tags"}
  BY DEF AzureDefault
<1>2. \A n \in Compared \cup Exact \cup {"tags"} :
          p.options[n] = IF g[n] = <<>> THEN AzureDefault[n] ELSE g[n]
  BY <1>1 DEF NewAccount
<1>3. \A n \in Exact : AzureDefault[n] = Default[n]
  BY DEF AzureDefault, Exact, Default
<1>4. AzureDefault["skuname"] = <<"standard", "lrs">> /\ AzureDefault["tags"] = <<>>
  BY DEF AzureDefault, Compared, Default
<1>5. /\ p.rg = g.resourcegroup /\ p.sub = SubOf(g) /\ p.kind = AccountKind(g)
      /\ p.https = EnableHTTPSTrafficOnly(g) /\ p.nfsEncrypted = Encrypted(g)
      /\ p.smbOAuth = SmbOAuth(g) /\ p.private = PrivateEndpoint(g) /\ p.rule = ServiceEndpoint(g)
  BY DEF NewAccount
<1>6. \A n \in Compared : g[n] \in {<<>>, p.options[n]}
  BY <1>2
<1>7. \A n \in Exact : Deref(g, n) = p.options[n]
  BY <1>2, <1>3 DEF Deref
<1>8. g.tags \in {<<>>, p.options.tags}
  BY <1>2
<1>9. p.options.skuname = IF g.skuname = <<>> THEN <<"standard", "lrs">> ELSE g.skuname
  BY <1>2, <1>4 DEF Compared
<1>10. ~IsPremium(<<"standard", "lrs">>) /\ ~IsV2(<<"standard", "lrs">>)
  BY DEF IsPremium, IsV2, HasPrefix
<1> HIDE DEF p
<1>11. Fits(p, g)
  BY <1>5, <1>6, <1>7, <1>8 DEF Fits
<1>12. IsPremium(p.options.skuname) \/ IsV2(p.options.skuname) => p.kind = "FileStorage"
  BY <1>5, <1>9, <1>10 DEF AccountKind
<1> QED BY <1>11, <1>12 DEF p

\* An account that fits a request is remembered under its lock key.
LEMMA FitsItsKey ==
    ASSUME NEW p, NEW g, Fits(p, g)
    PROVE  FitsKey(p, LockKeyOf(g), {n \in Open : g[n] = <<>>})
<1> DEFINE k == LockKeyOf(g)
           o == {n \in Open : g[n] = <<>>}
<1>1. /\ \A n \in CopiedFields : k.text[n] = g[n]
      /\ \A n \in DOMAIN Default \ {"encryptintransit"} : k.flag[n] = Deref(g, n)
      /\ k.derived[1] = AccountKind(g) /\ k.derived[2] = PrivateEndpoint(g)
      /\ k.derived[3] = ServiceEndpoint(g) /\ k.derived[4] = SmbOAuth(g)
      /\ k.derived[5] = EnableHTTPSTrafficOnly(g) /\ k.derived[6] = Encrypted(g)
  BY DEF LockKeyOf
<1>2. k.text.resourcegroup = g.resourcegroup /\ SubOf(k.text) = SubOf(g)
      /\ k.text.matchtags = g.matchtags /\ k.text.tags = g.tags
  BY <1>1 DEF CopiedFields, SubOf
<1>3. \A n \in Compared \ Open : k.text[n] \in {<<>>, p.options[n]}
  <2>1. Compared \ Open \subseteq CopiedFields
    BY DEF Compared, Open, CopiedFields
  <2> QED BY <1>1, <2>1 DEF Fits
<1>4. \A n \in (Open \ o) \cup Exact : k.flag[n] = p.options[n]
  <2>1. Open \cup Exact \subseteq DOMAIN Default \ {"encryptintransit"}
    BY DEF Open, Exact, Default
  <2>2. \A n \in Exact : Deref(g, n) = p.options[n]
    BY DEF Fits
  <2>3. \A n \in Open \ o : Deref(g, n) = p.options[n]
    BY DEF Fits, Deref, Compared
  <2> QED BY <1>1, <2>1, <2>2, <2>3
<1>5. ~EnableHTTPSTrafficOnly(g) => IsNFS(g) /\ ~Encrypted(g)
  BY DEF EnableHTTPSTrafficOnly
<1> HIDE DEF k, o
<1>6. FitsKey(p, k, o)
  BY <1>1, <1>2, <1>3, <1>4, <1>5 DEF FitsKey, Fits
<1> QED BY <1>6 DEF k, o

\* A remembered account fits every request with the lock key, but for what was left open.
LEMMA KeyFits ==
    ASSUME NEW p, NEW g, NEW o \in SUBSET Open, FitsKey(p, LockKeyOf(g), o)
    PROVE  Fits(p, Relaxed(g, o))
<1> DEFINE k == LockKeyOf(g)
           h == Relaxed(g, o)
<1>1. /\ \A n \in CopiedFields : k.text[n] = g[n]
      /\ \A n \in DOMAIN Default \ {"encryptintransit"} : k.flag[n] = Deref(g, n)
      /\ k.derived[1] = AccountKind(g) /\ k.derived[2] = PrivateEndpoint(g)
      /\ k.derived[3] = ServiceEndpoint(g) /\ k.derived[4] = SmbOAuth(g)
      /\ k.derived[5] = EnableHTTPSTrafficOnly(g) /\ k.derived[6] = Encrypted(g)
  BY DEF LockKeyOf
<1>2. k.text.resourcegroup = g.resourcegroup /\ SubOf(k.text) = SubOf(g)
      /\ k.text.matchtags = g.matchtags /\ k.text.tags = g.tags
  BY <1>1 DEF CopiedFields, SubOf
<1>3. ASSUME NEW n \in Compared PROVE h[n] \in {<<>>, p.options[n]}
  <2>1. CASE n \in o
    BY <2>1, RelaxedFacts
  <2>2. CASE n \in Compared \ Open
    <3>1. n \in CopiedFields
      BY <2>2 DEF Compared, Open, CopiedFields
    <3>2. h[n] = g[n]
      BY RelaxedFacts, <2>2, ComparedNames
    <3>3. k.text[n] \in {<<>>, p.options[n]}
      BY <2>2 DEF FitsKey
    <3> QED BY <1>1, <3>1, <3>2, <3>3
  <2>3. CASE n \in Open \ o
    <3>1. n \in DOMAIN Default \ {"encryptintransit"}
      BY <2>3 DEF Open, Default
    <3>2. k.flag[n] = p.options[n]
      BY <2>3 DEF FitsKey
    <3>3. h[n] = g[n]
      BY <2>3, RelaxedFacts, ComparedNames
    <3> QED BY <1>1, <3>1, <3>2, <3>3 DEF Deref
  <2> QED BY <2>1, <2>2, <2>3
<1>4. ASSUME NEW n \in Exact PROVE Deref(h, n) = p.options[n]
  <2>1. n \notin o /\ n \in DOMAIN Default \ {"encryptintransit"}
    BY DEF Exact, Open, Default
  <2>2. h[n] = g[n]
    BY <2>1, RelaxedFacts, ComparedNames
  <2>3. k.flag[n] = p.options[n]
    BY DEF FitsKey
  <2> QED BY <1>1, <2>1, <2>2, <2>3 DEF Deref
<1>5. IsNFS(g) /\ ~Encrypted(g) => ~EnableHTTPSTrafficOnly(g)
  BY DEF EnableHTTPSTrafficOnly
<1> HIDE DEF k, h
<1>6. FitsKey(p, k, o)
  BY DEF k
<1>7. Fits(p, h)
  BY <1>1, <1>2, <1>3, <1>4, <1>5, <1>6, RelaxedFacts DEF Fits, FitsKey, h
<1> QED BY <1>7 DEF h

------------------------------------------------------------------------------
(* Sizes, and the texts of a map. *)

\* A request for nothing gets the default.
LEMMA RoundUpFacts ==
    ASSUME NEW h \in Nat
    PROVE  RoundUpGiB(h) \in Nat /\ RoundUpGiB(h) > 0 /\ 2 * RoundUpGiB(h) >= h
BY DEF RoundUpGiB

\* The smallest share of an account is not rounded up again.
LEMMA ShareSizeFacts ==
    ASSUME NEW gib \in Nat, NEW sku
    PROVE  /\ ShareSize(gib, sku) \in Nat /\ ShareSize(gib, sku) >= gib
           /\ ShareSize(ShareSize(gib, sku), sku) = ShareSize(gib, sku)
           /\ ~IsPremium(sku) /\ ~IsV2(sku) => ShareSize(gib, sku) = gib
           /\ IsV2(sku) /\ gib < 32 => ShareSize(gib, sku) > gib
BY DEF ShareSize

\* A SKU that is not set is none of these.
LEMMA NoSku == ~IsPremium(<<>>) /\ ~IsV2(<<>>)
BY DEF IsPremium, IsV2, HasPrefix

\* A setting is the text of one of its keys.
LEMMA TextOfFacts ==
    ASSUME NEW m, NEW s, KeysOf(m, s) # {}
    PROVE  \E k \in KeysOf(m, s) : TextOf(m, s) = m[k]
BY DEF TextOf

\* Without a collision it is the text of all of them.
LEMMA TextOfAll ==
    ASSUME NEW m, NEW s \in Settings, s \notin Colliding(m), NEW k \in KeysOf(m, s)
    PROVE  TextOf(m, s) = m[k]
BY TextOfFacts DEF Colliding

\* The keys of a setting that is no second name are its spellings.
LEMMA KeysOfFacts ==
    ASSUME NEW m, NEW s, s \notin {"storageaccounttype", "accesstier", "skuname", "shareaccesstier"}
    PROVE  KeysOf(m, s) = {k \in DOMAIN m : k[1] = s}
BY SettingFacts DEF KeysOf

\* setKeyValueInMap leaves the other parameters alone.
LEMMA SetKeyValueFacts ==
    ASSUME NEW m, NEW name, NEW v
    PROVE  LET n == SetKeyValue(m, name, v)
           IN  /\ Values(n, name) = {v}
               /\ \A other : other # name => Values(n, other) = Values(m, other)
               /\ \A k : k[1] # name => (k \in DOMAIN n) = (k \in DOMAIN m)
               /\ \A k \in DOMAIN n : k[1] # name => n[k] = m[k]
<1> DEFINE n == SetKeyValue(m, name, v)
           new == <<name, "lower">>
<1>1. new[1] = name
  OBVIOUS
<1>2. /\ DOMAIN n = {k \in DOMAIN m : k[1] # name} \cup {new}
      /\ \A k \in DOMAIN n : n[k] = IF k[1] = name THEN v ELSE m[k]
  BY DEF SetKeyValue
<1> HIDE DEF n, new
<1>3. Values(n, name) = {v}
  BY <1>1, <1>2 DEF Values
<1>4. \A k : k[1] # name => (k \in DOMAIN n) = (k \in DOMAIN m)
  BY <1>1, <1>2
<1>5. \A k \in DOMAIN n : k[1] # name => n[k] = m[k]
  BY <1>2
<1>6. ASSUME NEW other, other # name PROVE Values(n, other) = Values(m, other)
  BY <1>4, <1>5, <1>6 DEF Values
<1> QED BY <1>3, <1>4, <1>5, <1>6 DEF n

\* Metadata an unambiguous request has, or has not, are single words that stand for nothing.
LEMMA MetadataFacts ==
    ASSUME NEW r \in Requests, NEW w \in Variables, ReadOf(r)[MetadataField(w)] # <<>>
    PROVE  ReadOf(r)[MetadataField(w)][1] \notin Variables \cup {".."}
<1> DEFINE s == MetadataField(w)
           m == Given(r)
<1>1. s \in MetadataFields
  BY DEF MetadataFields
<1>2. s \in Settings /\ s \notin {"storageaccounttype", "accesstier", "skuname", "shareaccesstier"}
  <2>1. s \in Settings
    BY <1>1, MetadataNames DEF Plain
  <2>2. s \in {"csi.storage.k8s.io/pvc/name", "csi.storage.k8s.io/pvc/namespace",
              "csi.storage.k8s.io/pv/name"}
    BY DEF MetadataField, Variables
  <2> HIDE DEF s
  <2> QED BY <2>1, <2>2
<1>3. ReadOf(r)[s] = TextOf(m, s)
  BY <1>2 DEF ReadOf
<1>4. KeysOf(m, s) # {}
  BY <1>3 DEF TextOf
<1>5. PICK k \in KeysOf(m, s) : TextOf(m, s) = m[k]
  BY <1>4, TextOfFacts
<1>6. k \in DOMAIN m /\ k[1] = s
  BY <1>2, <1>5, KeysOfFacts
<1>7. \/ k \in DOMAIN r.mutable /\ m[k] = r.mutable[k]
      \/ k \in DOMAIN r.params /\ m[k] = r.params[k]
  BY <1>6 DEF Given, Merge
<1>8. m[k][1] \notin Variables \cup {".."}
  BY <1>1, <1>6, <1>7, MetadataAssumption
<1> QED BY <1>3, <1>5, <1>8

\* What was replaced is not replaced again, and it has a ".." where the text had one.
LEMMA ReplaceFacts ==
    ASSUME NEW r \in Requests, NEW text
    PROVE  LET g == ReadOf(r)
           IN  /\ Replace(Replace(text, g), g) = Replace(text, g)
               /\ DOMAIN Replace(text, g) = DOMAIN text
               /\ \A i \in DOMAIN text : (Replace(text, g)[i] = "..") = (text[i] = "..")
<1> DEFINE g == ReadOf(r)
           t == Replace(text, g)
<1>1. DOMAIN t = DOMAIN text
  BY DEF Replace
<1>2. ASSUME NEW i \in DOMAIN text
      PROVE  \/ text[i] \in Variables /\ t[i] \notin Variables \cup {".."}
             \/ t[i] = text[i] /\ (t[i] \notin Variables \/ g[MetadataField(t[i])] = <<>>)
  <2>1. CASE text[i] \in Variables /\ g[MetadataField(text[i])] # <<>>
    <3>1. t[i] = g[MetadataField(text[i])][1]
      BY <2>1 DEF Replace
    <3> QED BY <2>1, <3>1, MetadataFacts
  <2>2. CASE ~(text[i] \in Variables /\ g[MetadataField(text[i])] # <<>>)
    BY <2>2 DEF Replace
  <2> QED BY <2>1, <2>2
<1>3. ".." \notin Variables
  BY DEF Variables
<1>4. Replace(t, g) = t
  <2>1. Replace(t, g) = [i \in DOMAIN t |-> t[i]]
    BY <1>1, <1>2 DEF Replace
  <2>2. t = [i \in DOMAIN t |-> t[i]]
    BY DEF Replace
  <2> QED BY <2>1, <2>2
<1>5. \A i \in DOMAIN text : (t[i] = "..") = (text[i] = "..")
  BY <1>2, <1>3
<1> QED BY <1>1, <1>4, <1>5

------------------------------------------------------------------------------
(* What the invariant says of the handler, and what the steps have in common. *)

\* The handler has a request.
LEMMA ReqFacts ==
    ASSUME DecisionInv, pc # "idle"
    PROVE  req \in offered /\ req \in Requests /\ req.half \in Nat
<1>1. req \in offered /\ offered \in Scenarios
  BY DEF DecisionInv, TypeOK
<1> QED BY <1>1, ParametersAssumption DEF Requests

\* After it has read the parameters.
LEMMA AtValidate ==
    ASSUME DecisionInv, pc = "validate", Unambiguous(req)
    PROVE  /\ Accepted(req)
           /\ Like(f, ReadOf(req)) /\ ProtocolLike(f, ReadOf(req))
           /\ f.skuname = ReadOf(req).skuname
<1>1. ~skuKnown
  BY DEF DecisionInv, SkuOK, AfterSku, AfterShare, AfterAccount
<1>2. SettingsOK
  BY DEF DecisionInv
<1> QED BY <1>1, <1>2 DEF SettingsOK, Like, ProtocolLike, Plain

\* After it has checked them.
LEMMA AtEndpoint ==
    ASSUME DecisionInv, pc = "endpoint", Unambiguous(req)
    PROVE  LET want == Validated(ReadOf(req))
           IN  /\ Accepted(req) /\ ~Invalid(ReadOf(req))
               /\ Like(f, want) /\ f.skuname = want.skuname
               /\ IsNFS(f) = IsNFS(want) /\ (IsNFS(f) \/ f.protocol = want.protocol)
<1>1. ~skuKnown
  BY DEF DecisionInv, SkuOK, AfterSku, AfterShare, AfterAccount
<1>2. SettingsOK
  BY DEF DecisionInv
<1> DEFINE want == Validated(ReadOf(req))
<1>3. /\ Accepted(req) /\ ~Invalid(ReadOf(req)) /\ Like(f, want) /\ f.skuname = want.skuname
      /\ f.protocol = want.protocol \/ (f.protocol = T("nfs") /\ IsNFS(ReadOf(req)))
  BY <1>1, <1>2 DEF SettingsOK, Like, Plain
<1>4. IsNFS(want) = IsNFS(ReadOf(req))
  BY ChosenFacts
<1>5. f.fstype = want.fstype
  BY <1>3, TextNames DEF Like
<1> QED BY <1>3, <1>4, <1>5 DEF IsNFS

\* After it has configured the endpoint.
LEMMA AtShare ==
    ASSUME DecisionInv, pc \in {"sku", "share"}, Unambiguous(req)
    PROVE  /\ ~RefusedEarly(req) /\ Like(f, Located(req)) /\ f.protocol = Located(req).protocol
           /\ IF skuKnown /\ f.storageaccount # <<>> THEN Located(req).skuname = <<>>
              ELSE f.skuname = Located(req).skuname
<1>1. SettingsOK
  BY DEF DecisionInv
<1> QED BY <1>1 DEF SettingsOK, Like, Plain, RefusedEarly

\* After it has chosen the name of the share.
LEMMA AtAccount ==
    ASSUME DecisionInv, pc \in AfterShare, Unambiguous(req)
    PROVE  /\ ~Refused(req) /\ Like(f, Chosen(req)) /\ f.protocol = Chosen(req).protocol
           /\ IF skuKnown /\ f.storageaccount # <<>> THEN Chosen(req).skuname = <<>>
              ELSE f.skuname = Chosen(req).skuname
<1>1. SettingsOK
  BY DEF DecisionInv
<1>2. pc \notin {"idle", "read", "validate", "endpoint", "sku", "share"}
  BY DEF AfterShare, AfterAccount
<1> QED BY <1>1, <1>2 DEF SettingsOK, Like, Plain, Refused, RefusedEarly

\* A map that has grown.
Extends(m, n) == DOMAIN m \subseteq DOMAIN n /\ \A x \in DOMAIN m : n[x] = m[x]

\* Answers remain true while accounts and shares are added.
LEMMA GrowingKeeps ==
    ASSUME DecisionInv, Extends(accounts, accounts'), Extends(shares, shares'),
           UNCHANGED <<offered, answers>>
    PROVE  AnswersOK' /\ AnswerFits'
<1>1. AnswersOK /\ AnswerFits /\ TypeOK
  BY DEF DecisionInv
<1>2. AnswersOK'
  <2>1. ASSUME NEW a \in answers, a.kind = "OK"
        PROVE  /\ <<a.volume.account, a.volume.share>> \in DOMAIN shares'
               /\ a.volume.f.storageaccount # <<>> /\ a.volume.skuKnown =>
                    /\ a.volume.f.storageaccount[1] \in DOMAIN accounts'
                    /\ a.volume.f.skuname =
                           accounts'[a.volume.f.storageaccount[1]].options.skuname
    BY <1>1, <2>1 DEF AnswersOK, Extends
  <2> QED BY <1>1, <2>1 DEF AnswersOK
<1>3. AnswerFits'
  <2>1. ASSUME NEW a \in answers, a.kind = "OK"
        PROVE  /\ shares'[<<a.volume.account, a.volume.share>>]
                      = shares[<<a.volume.account, a.volume.share>>]
               /\ accounts'[a.volume.account] = accounts[a.volume.account]
    <3>1. <<a.volume.account, a.volume.share>> \in DOMAIN shares
      BY <1>1, <2>1 DEF AnswersOK
    <3>2. a.volume.account \in DOMAIN accounts
      <4>1. <<a.volume.account, a.volume.share>>[1] = a.volume.account
        OBVIOUS
      <4> QED BY <1>1, <3>1, <4>1 DEF TypeOK
    <3> QED BY <3>1, <3>2 DEF Extends
  <2> QED BY <1>1, <2>1 DEF AnswerFits, Changed
<1> QED BY <1>2, <1>3

\* What is remembered fits while accounts are added and entries are forgotten.
LEMMA ForgettingKeeps ==
    ASSUME DecisionInv, Extends(accounts, accounts'), offered' = offered,
           Extends(accountSearchCache', accountSearchCache), Extends(volMap', volMap)
    PROVE  MemoryOK'
<1>1. MemoryOK /\ TypeOK
  BY DEF DecisionInv
<1>2. \A r : Settled(r)' = Settled(r)
  BY DEF Settled, Changed
<1>3. ASSUME NEW k \in DOMAIN accountSearchCache'
      PROVE  FitsKey(accounts'[accountSearchCache'[k].account], k, accountSearchCache'[k].open)
  <2>1. k \in DOMAIN accountSearchCache /\ accountSearchCache'[k] = accountSearchCache[k]
    BY DEF Extends
  <2>2. accounts'[accountSearchCache[k].account] = accounts[accountSearchCache[k].account]
    BY <1>1, <2>1 DEF TypeOK, Extends
  <2> QED BY <1>1, <2>1, <2>2 DEF MemoryOK
<1>4. ASSUME NEW r \in offered, Settled(r), r.vol \in DOMAIN volMap'
      PROVE  Fits(accounts'[volMap'[r.vol]], Chosen(r))
  <2>1. r.vol \in DOMAIN volMap /\ volMap'[r.vol] = volMap[r.vol]
    BY <1>4 DEF Extends
  <2>2. accounts'[volMap[r.vol]] = accounts[volMap[r.vol]]
    BY <1>1, <2>1 DEF TypeOK, Extends
  <2> QED BY <1>1, <1>4, <2>1, <2>2 DEF MemoryOK
<1> QED BY <1>2, <1>3, <1>4 DEF MemoryOK

\* Azure is as it was.
LEMMA AzureKeeps ==
    ASSUME DecisionInv, UNCHANGED <<offered, accounts, shares>>
    PROVE  AzureOK'
<1>1. AzureOK
  BY DEF DecisionInv
<1>2. \A r : Settled(r)' = Settled(r)
  BY DEF Settled, Changed
<1> QED BY <1>1, <1>2 DEF AzureOK

\* A step that changes neither Azure nor the memory of the driver, and answers nothing.
LEMMA FrameKeeps ==
    ASSUME DecisionInv, UNCHANGED <<offered, azure, memory, answers>>
    PROVE  MemoryOK' /\ AzureOK' /\ AnswersOK' /\ AnswerFits'
<1>1. UNCHANGED <<offered, accounts, skipped, shares, accountSearchCache, volMap, answers>>
  BY DEF azure, memory
<1>2. Extends(accounts, accounts') /\ Extends(shares, shares')
  BY <1>1 DEF Extends
<1>3. Extends(accountSearchCache', accountSearchCache) /\ Extends(volMap', volMap)
  BY <1>1 DEF Extends
<1> QED BY <1>1, <1>2, <1>3, GrowingKeeps, ForgettingKeeps, AzureKeeps

\* Where a handler has no variables yet there is nothing to be known of them.
LEMMA FreshKeeps ==
    ASSUME Fresh, pc' \in {"idle", "read"}
    PROVE  SettingsOK' /\ SkuOK' /\ SizeOK' /\ AccountOK' /\ QuotaOK'
<1>1. pc' \notin AfterSku /\ pc' \notin AfterShare /\ pc' \notin AfterAccount
  BY DEF AfterSku, AfterShare, AfterAccount
<1>2. ~skuKnown'
  BY DEF Fresh
<1>3. SettingsOK' /\ QuotaOK'
  BY DEF SettingsOK, QuotaOK
<1> QED BY <1>1, <1>2, <1>3 DEF SkuOK, SizeOK, AccountOK

\* The types of what a step leaves of Azure and of the memory of the driver.
LEMMA FreshTypes ==
    ASSUME DecisionInv, Fresh, pc' \in {"idle", "read"}, offered' = offered,
           req' \in offered \cup {None}, (req' = None) = (pc' = "idle"),
           calls' \in 0..MaxCalls, faults' \in 0..MaxFaults,
           UNCHANGED <<accounts, shares>>, skipped' \subseteq DOMAIN accounts,
           Extends(accountSearchCache', accountSearchCache), Extends(volMap', volMap)
    PROVE  TypeOK'
<1>1. TypeOK
  BY DEF DecisionInv
<1>2. DOMAIN f' = Settings /\ size' \in Nat /\ skuKnown' \in BOOLEAN /\ open' \subseteq Open
  BY DEF Fresh, NoSettings
<1>3. \A k \in DOMAIN accountSearchCache' :
          /\ accountSearchCache'[k].account \in DOMAIN accounts'
          /\ accountSearchCache'[k].open \subseteq Open
  BY <1>1 DEF TypeOK, Extends
<1>4. \A v \in DOMAIN volMap' : volMap'[v] \in DOMAIN accounts'
  BY <1>1 DEF TypeOK, Extends
<1> QED BY <1>1, <1>2, <1>3, <1>4 DEF TypeOK

------------------------------------------------------------------------------
(* The steps that end an attempt. *)

\* An error is answered; only what is wrong with the request is an invalid argument.
LEMMA ErrorKeeps ==
    ASSUME DecisionInv, pc # "idle", NEW kind, Respond(kind, None), kind # "OK",
           kind = "InvalidArgument" /\ Unambiguous(req) => Refused(req),
           UNCHANGED <<azure, memory>>, faults' \in 0..MaxFaults
    PROVE  DecisionInv'
<1>1. /\ UNCHANGED <<accounts, skipped, shares, accountSearchCache, volMap, offered, calls>>
      /\ answers' = answers \cup {[req |-> req, kind |-> kind, volume |-> None]}
      /\ pc' = "idle" /\ req' = None /\ Fresh
  BY DEF Respond, azure, memory
<1>2. TypeOK /\ AnswersOK /\ AnswerFits
  BY DEF DecisionInv
<1>3. /\ Extends(accounts, accounts') /\ Extends(shares, shares')
      /\ Extends(accountSearchCache', accountSearchCache) /\ Extends(volMap', volMap)
  BY <1>1 DEF Extends
<1>4. TypeOK'
  BY <1>1, <1>2, <1>3, FreshTypes DEF TypeOK
<1>5. SettingsOK' /\ SkuOK' /\ SizeOK' /\ AccountOK' /\ QuotaOK'
  BY <1>1, FreshKeeps
<1>6. MapOK'
  BY <1>1 DEF MapOK
<1>7. MemoryOK' /\ AzureOK'
  BY <1>1, <1>3, ForgettingKeeps, AzureKeeps
<1> DEFINE new == [req |-> req, kind |-> kind, volume |-> None]
<1>8. AnswersOK'
  <2>1. new.req \in offered /\ new.kind # "OK"
        /\ (new.kind = "InvalidArgument" /\ Unambiguous(new.req) => Refused(new.req))
    BY ReqFacts
  <2> HIDE DEF new
  <2> QED BY <1>1, <1>2, <2>1 DEF AnswersOK, new
<1>9. AnswerFits'
  <2>1. {b \in answers' : b.kind = "OK"} = {b \in answers : b.kind = "OK"}
    BY <1>1
  <2> QED BY <1>1, <1>2, <2>1 DEF AnswerFits, Changed
<1> QED BY <1>4, <1>5, <1>6, <1>7, <1>8, <1>9 DEF DecisionInv

\* A fault is counted.
LEMMA FaultFacts == ASSUME DecisionInv, Fault PROVE faults' \in 0..MaxFaults
BY ParametersAssumption DEF Fault, DecisionInv, TypeOK

\* The map of an unambiguous request is accepted when the request is.
LEMMA AcceptedLike ==
    ASSUME DecisionInv, pc # "idle", Unambiguous(req)
    PROVE  (\A k \in DOMAIN params : Accepts(k[1], params[k])) = Accepted(req)
<1> DEFINE m == Given(req)
<1>1. /\ \A k \in (DOMAIN params) \cup (DOMAIN m) : k[1] \notin Rewritten =>
             k \in DOMAIN params /\ k \in DOMAIN m /\ params[k] = m[k]
      /\ Values(m, "foldername") # {} => Values(params, "foldername") # {}
      /\ \A v \in Values(params, "foldername") :
             \E x \in Values(m, "foldername") : v \in {x, Replace(x, ReadOf(req))}
  BY DEF DecisionInv, MapOK
<1>2. \A v : Accepts("protocol", v) /\ Accepts("server", v)
  BY DEF Accepts, Known, TextFields, NodeFields, BoolFields, IdentityFields, NumberFields
<1>3. \A v : Accepts("foldername", v) = (\A i \in DOMAIN v : v[i] # "..")
  <2>1. "foldername" \in Known
    BY DEF Known, NodeFields
  <2>2. "foldername" \notin BoolFields \cup IdentityFields /\ "foldername" \notin NumberFields
    BY DEF BoolFields, IdentityFields, NumberFields
  <2> QED BY <2>1, <2>2 DEF Accepts
<1>4. ASSUME NEW x PROVE Accepts("foldername", Replace(x, ReadOf(req))) = Accepts("foldername", x)
  <2> DEFINE y == Replace(x, ReadOf(req))
  <2>1. DOMAIN y = DOMAIN x /\ \A i \in DOMAIN x : (y[i] = "..") = (x[i] = "..")
    BY ReqFacts, ReplaceFacts
  <2> HIDE DEF y
  <2>2. (\A i \in DOMAIN y : y[i] # "..") = (\A i \in DOMAIN x : x[i] # "..")
    BY <2>1
  <2>3. Accepts("foldername", y) = Accepts("foldername", x)
    BY <1>3, <2>2
  <2> QED BY <2>3 DEF y
<1>5. \A x, y \in Values(m, "foldername") : x = y
  BY DEF Unambiguous, NodeFields, Values
<1>6. ASSUME Accepted(req), NEW k \in DOMAIN params PROVE Accepts(k[1], params[k])
  <2>1. CASE k[1] \notin Rewritten
    BY <1>1, <1>6, <2>1 DEF Accepted
  <2>2. CASE k[1] = "foldername"
    <3>1. params[k] \in Values(params, "foldername")
      BY <2>2 DEF Values
    <3>2. PICK x \in Values(m, "foldername") : params[k] \in {x, Replace(x, ReadOf(req))}
      BY <1>1, <3>1
    <3>3. Accepts("foldername", x)
      BY <1>6, <3>2 DEF Values, Accepted
    <3> QED BY <1>4, <2>2, <3>2, <3>3
  <2>3. CASE k[1] \in {"protocol", "server"}
    BY <1>2, <2>3
  <2> QED BY <2>1, <2>2, <2>3 DEF Rewritten
<1>7. ASSUME \A k \in DOMAIN params : Accepts(k[1], params[k]), NEW k \in DOMAIN m
      PROVE  Accepts(k[1], m[k])
  <2>1. CASE k[1] \notin Rewritten
    BY <1>1, <1>7, <2>1
  <2>2. CASE k[1] = "foldername"
    <3>1. m[k] \in Values(m, "foldername")
      BY <2>2 DEF Values
    <3>2. PICK v \in Values(params, "foldername") : TRUE
      BY <1>1, <3>1
    <3>3. v \in {m[k], Replace(m[k], ReadOf(req))}
      BY <1>1, <1>5, <3>1, <3>2
    <3>4. Accepts("foldername", v)
      BY <1>7, <3>2 DEF Values
    <3> QED BY <1>4, <2>2, <3>3, <3>4
  <2>3. CASE k[1] \in {"protocol", "server"}
    BY <1>2, <2>3
  <2> QED BY <2>1, <2>2, <2>3 DEF Rewritten
<1> QED BY <1>6, <1>7 DEF Accepted

\* It is read as the request, whichever key is met last.
LEMMA ReadLike ==
    ASSUME DecisionInv, pc # "idle", Unambiguous(req),
           NEW last, \A s \in Colliding(params) : last[s] \in KeysOf(params, s),
           NEW g, g = [s \in Settings |-> IF s \in Colliding(params) THEN params[last[s]]
                                          ELSE TextOf(params, s)]
    PROVE  Like(g, ReadOf(req)) /\ ProtocolLike(g, ReadOf(req)) /\ g.skuname = ReadOf(req).skuname
<1> DEFINE m == Given(req)
<1>1. /\ \A k \in (DOMAIN params) \cup (DOMAIN m) : k[1] \notin Rewritten =>
             k \in DOMAIN params /\ k \in DOMAIN m /\ params[k] = m[k]
      /\ \/ Values(params, "protocol") = Values(m, "protocol")
         \/ /\ IsNFS(ReadOf(req)) /\ ~Invalid(ReadOf(req))
            /\ Values(params, "protocol") \subseteq {T("nfs")} \cup Values(m, "protocol")
            /\ T("nfs") \in Values(params, "protocol")
  BY DEF DecisionInv, MapOK
<1>2. Colliding(m) = {}
  BY DEF Unambiguous
<1>3. ASSUME NEW s \in Settings \ Rewritten PROVE g[s] = ReadOf(req)[s]
  <2>1. \A k : Setting(k[1]) = s => k[1] \notin Rewritten
    BY <1>3, SettingFacts DEF Rewritten
  <2>2. KeysOf(params, s) = KeysOf(m, s) /\ \A k \in KeysOf(m, s) : params[k] = m[k]
    BY <1>1, <2>1 DEF KeysOf
  <2>3. s \notin Colliding(params)
    BY <1>2, <2>2 DEF Colliding
  <2>4. TextOf(params, s) = TextOf(m, s)
    <3>1. CASE KeysOf(m, s) = {}
      BY <2>2, <3>1 DEF TextOf
    <3>2. CASE KeysOf(m, s) # {}
      BY <1>2, <2>2, <2>3, <3>2, TextOfAll
    <3> QED BY <3>1, <3>2
  <2> QED BY <2>3, <2>4 DEF ReadOf
<1>4. ProtocolLike(g, ReadOf(req))
  <2> DEFINE s == "protocol"
  <2>1. /\ KeysOf(params, s) = {k \in DOMAIN params : k[1] = s}
        /\ KeysOf(m, s) = {k \in DOMAIN m : k[1] = s}
    BY KeysOfFacts
  <2>2. ReadOf(req).protocol = TextOf(m, s)
    BY OtherNames DEF ReadOf
  <2>3. \A x \in Values(m, s) : x = TextOf(m, s)
    BY <1>2, <2>1, TextOfAll, OtherNames DEF Values
  <2>4. CASE KeysOf(params, s) = {}
    <3>1. Values(params, s) = {}
      BY <2>1, <2>4 DEF Values
    <3>2. Values(m, s) = {}
      BY <1>1, <3>1
    <3>3. KeysOf(m, s) = {}
      BY <2>1, <3>2 DEF Values
    <3>4. s \notin Colliding(params)
      BY <2>4 DEF Colliding
    <3> QED BY <2>2, <2>4, <3>3, <3>4, OtherNames DEF TextOf, ProtocolLike
  <2>5. CASE KeysOf(params, s) # {}
    <3>1. \E k \in KeysOf(params, s) : g.protocol = params[k]
      <4>1. g.protocol = IF s \in Colliding(params) THEN params[last[s]] ELSE TextOf(params, s)
        BY OtherNames
      <4> QED BY <2>5, <4>1, TextOfFacts
    <3>2. g.protocol \in Values(params, s)
      BY <2>1, <3>1 DEF Values
    <3> QED BY <1>1, <2>2, <2>3, <3>2 DEF ProtocolLike
  <2> QED BY <2>4, <2>5
<1>5. Plain \subseteq Settings \ Rewritten /\ "skuname" \in Settings \ Rewritten
  BY OtherNames DEF Plain, Rewritten
<1> QED BY <1>3, <1>4, <1>5 DEF Like

------------------------------------------------------------------------------
(* The steps up to the choice of the account. *)

\* A step that goes on with the same map.
LEMMA MapSame ==
    ASSUME DecisionInv, pc # "idle", UNCHANGED <<req, params>>
    PROVE  MapOK'
BY DEF DecisionInv, MapOK

\* The types of the variables of the handler.
LEMMA GoTypes ==
    ASSUME DecisionInv, pc # "idle", UNCHANGED <<offered, req, azure, memory, calls>>,
           faults' \in 0..MaxFaults,
           pc' \in {"validate", "endpoint", "sku", "share", "account", "quota", "server", "check",
                    "create", "answer"},
           DOMAIN f' = Settings, size' \in Nat, skuKnown' \in BOOLEAN, open' \subseteq Open,
           pc' \in AfterShare => size' > 0
    PROVE  TypeOK'
<1>1. TypeOK
  BY DEF DecisionInv
<1>2. UNCHANGED <<accounts, skipped, shares, accountSearchCache, volMap>>
  BY DEF azure, memory
<1> QED BY <1>1, <1>2 DEF TypeOK, AfterShare, AfterAccount

\* CreateVolume is called.
LEMMA CallKeeps == ASSUME DecisionInv, NEW r \in offered, Call(r) PROVE DecisionInv'
<1>1. /\ pc = "idle" /\ pc' = "read" /\ req' = r /\ params' = Given(r) /\ Fresh
      /\ calls' = calls + 1 /\ calls < MaxCalls
      /\ UNCHANGED <<offered, azure, memory, answers, faults>>
  BY DEF Call, Goto, Given
<1>2. UNCHANGED <<accounts, skipped, shares, accountSearchCache, volMap>>
  BY <1>1 DEF azure, memory
<1>3. r # None
  <2>1. r \in Requests
    BY DEF Requests, DecisionInv, TypeOK
  <2> QED BY <2>1, ParametersAssumption
<1>4. TypeOK'
  <2>1. TypeOK
    BY DEF DecisionInv
  <2>2. calls' \in 0..MaxCalls /\ faults' \in 0..MaxFaults
    BY <1>1, <2>1, ParametersAssumption DEF TypeOK
  <2>3. Extends(accountSearchCache', accountSearchCache) /\ Extends(volMap', volMap)
    BY <1>2 DEF Extends
  <2>4. skipped' \subseteq DOMAIN accounts
    BY <1>2, <2>1 DEF TypeOK
  <2>5. UNCHANGED <<accounts, shares>>
    BY <1>2
  <2> QED BY <1>1, <1>3, <2>2, <2>3, <2>4, <2>5, FreshTypes
<1>5. MapOK'
  BY <1>1 DEF MapOK
<1>6. SettingsOK' /\ SkuOK' /\ SizeOK' /\ AccountOK' /\ QuotaOK'
  BY <1>1, FreshKeeps
<1> QED BY <1>1, <1>4, <1>5, <1>6, FrameKeeps DEF DecisionInv

\* It reads the parameters.
LEMMA ReadParametersKeeps == ASSUME DecisionInv, ReadParameters PROVE DecisionInv'
<1>1. pc = "read"
  BY DEF ReadParameters
<1>2. CASE \E k \in DOMAIN params : ~Accepts(k[1], params[k]) /\ Reject
  <2>1. Unambiguous(req) => Refused(req)
    BY <1>1, <1>2, AcceptedLike DEF Refused, RefusedEarly
  <2>2. faults' \in 0..MaxFaults /\ Respond("InvalidArgument", None) /\ UNCHANGED <<azure, memory>>
    BY <1>2 DEF Reject, DecisionInv, TypeOK
  <2> QED BY <1>1, <2>1, <2>2, ErrorKeeps
<1>3. CASE /\ \A k \in DOMAIN params : Accepts(k[1], params[k])
           /\ \E last \in [Colliding(params) -> DOMAIN params] :
                 /\ \A s \in Colliding(params) : last[s] \in KeysOf(params, s)
                 /\ f' = [s \in Settings |-> IF s \in Colliding(params) THEN params[last[s]]
                                             ELSE TextOf(params, s)]
           /\ Go("read", "validate")
           /\ UNCHANGED <<params, size, share, account, lockKey, skuKnown, open>>
  <2>1. PICK last \in [Colliding(params) -> DOMAIN params] :
            /\ \A s \in Colliding(params) : last[s] \in KeysOf(params, s)
            /\ f' = [s \in Settings |-> IF s \in Colliding(params) THEN params[last[s]]
                                        ELSE TextOf(params, s)]
    BY <1>3
  <2>2. /\ pc' = "validate" /\ UNCHANGED <<offered, req, azure, memory, answers, calls, faults>>
        /\ UNCHANGED <<params, size, share, account, lockKey, skuKnown, open>>
    BY <1>3 DEF Go, Goto
  <2>3. pc' \notin AfterSku /\ pc' \notin AfterShare /\ pc' \notin AfterAccount
    BY <2>2 DEF AfterSku, AfterShare, AfterAccount
  <2>4. DOMAIN f' = Settings
    BY <2>1
  <2>5. TypeOK'
    BY <1>1, <2>2, <2>3, <2>4, GoTypes DEF DecisionInv, TypeOK
  <2>6. ~skuKnown'
    BY <1>1, <2>2 DEF DecisionInv, SkuOK, AfterSku, AfterShare, AfterAccount
  <2>7. SettingsOK'
    <3>1. SUFFICES ASSUME Unambiguous(req) PROVE SettingsOK'
      BY <2>2 DEF SettingsOK
    <3>2. Accepted(req)
      BY <1>1, <1>3, <3>1, AcceptedLike
    <3>3. Like(f', ReadOf(req)) /\ ProtocolLike(f', ReadOf(req)) /\ f'.skuname = ReadOf(req).skuname
      BY <1>1, <2>1, <3>1, ReadLike
    <3> QED BY <2>2, <2>6, <3>2, <3>3 DEF SettingsOK, Like, ProtocolLike, Plain
  <2>8. SkuOK' /\ SizeOK' /\ AccountOK' /\ QuotaOK'
    BY <2>2, <2>3, <2>6 DEF SkuOK, SizeOK, AccountOK, QuotaOK
  <2>9. MapOK'
    BY <1>1, <2>2, MapSame
  <2> QED BY <2>2, <2>5, <2>7, <2>8, <2>9, FrameKeeps DEF DecisionInv
<1> QED BY <1>2, <1>3 DEF ReadParameters

\* It checks them.
LEMMA ValidateKeeps == ASSUME DecisionInv, Validate PROVE DecisionInv'
<1>1. pc = "validate"
  BY DEF Validate
<1>2. CASE Invalid(f) /\ Reject
  <2>1. Unambiguous(req) => Refused(req)
    BY <1>1, <1>2, AtValidate, InvalidLike DEF Refused, RefusedEarly
  <2>2. faults' \in 0..MaxFaults /\ Respond("InvalidArgument", None) /\ UNCHANGED <<azure, memory>>
    BY <1>2 DEF Reject, DecisionInv, TypeOK
  <2> QED BY <1>1, <2>1, <2>2, ErrorKeeps
<1>3. CASE /\ ~Invalid(f) /\ Go("validate", "endpoint") /\ f' = Validated(f)
           /\ UNCHANGED <<params, size, share, account, lockKey, skuKnown, open>>
  <2>1. /\ pc' = "endpoint" /\ UNCHANGED <<offered, req, azure, memory, answers, calls, faults>>
        /\ UNCHANGED <<params, size, share, account, lockKey, skuKnown, open>>
    BY <1>3 DEF Go, Goto
  <2>2. pc' \notin AfterSku /\ pc' \notin AfterShare /\ pc' \notin AfterAccount
    BY <2>1 DEF AfterSku, AfterShare, AfterAccount
  <2>3. DOMAIN f = Settings
    BY DEF DecisionInv, TypeOK
  <2>4. DOMAIN f' = Settings
    BY <1>3, <2>3, ValidatedFacts
  <2>5. TypeOK'
    BY <1>1, <2>1, <2>2, <2>4, GoTypes DEF DecisionInv, TypeOK
  <2>6. ~skuKnown'
    BY <1>1, <2>1 DEF DecisionInv, SkuOK, AfterSku, AfterShare, AfterAccount
  <2>7. SettingsOK'
    <3>1. SUFFICES ASSUME Unambiguous(req) PROVE SettingsOK'
      BY <2>1 DEF SettingsOK
    <3> DEFINE read == ReadOf(req)
    <3>2. Accepted(req) /\ Like(f, read) /\ ProtocolLike(f, read) /\ f.skuname = read.skuname
      BY <1>1, <3>1, AtValidate
    <3>3. ~Invalid(read)
      BY <1>3, <3>2, InvalidLike
    <3>4. DOMAIN read = Settings
      BY ChosenFacts
    <3> HIDE DEF read
    <3>5. Like(f', Validated(read))
      BY <1>3, <2>3, <3>2, <3>4, ValidatedLike
    <3>6. f'.skuname = f.skuname /\ f'.protocol = f.protocol
      BY <1>3, <2>3, ValidatedFacts, OtherNames
    <3>7. Validated(read).skuname = read.skuname /\ Validated(read).protocol = read.protocol
      BY <3>4, ValidatedFacts, OtherNames
    <3> QED BY <2>1, <2>6, <3>2, <3>3, <3>5, <3>6, <3>7
            DEF SettingsOK, Like, ProtocolLike, Plain, read
  <2>8. SkuOK' /\ SizeOK' /\ AccountOK' /\ QuotaOK'
    BY <2>1, <2>2, <2>6 DEF SkuOK, SizeOK, AccountOK, QuotaOK
  <2>9. MapOK'
    BY <1>1, <2>1, MapSame
  <2> QED BY <2>1, <2>5, <2>7, <2>8, <2>9, FrameKeeps DEF DecisionInv
<1> QED BY <1>2, <1>3 DEF Validate

\* The NFS it writes into the map is what the request asks for.
LEMMA ProtocolKept ==
    ASSUME DecisionInv, pc # "idle", req' = req, params' = SetKeyValue(params, "protocol", T("nfs")),
           Unambiguous(req) => IsNFS(ReadOf(req)) /\ ~Invalid(ReadOf(req))
    PROVE  MapOK'
<1>1. SUFFICES ASSUME Unambiguous(req) PROVE MapOK'
  BY DEF MapOK
<1>2. /\ \A k \in (DOMAIN params) \cup (DOMAIN Given(req)) : k[1] \notin Rewritten =>
             k \in DOMAIN params /\ k \in DOMAIN Given(req) /\ params[k] = Given(req)[k]
      /\ Values(Given(req), "foldername") # {} => Values(params, "foldername") # {}
      /\ \A v \in Values(params, "foldername") :
             \E x \in Values(Given(req), "foldername") : v \in {x, Replace(x, ReadOf(req))}
  BY <1>1 DEF DecisionInv, MapOK
<1>3. /\ Values(params', "protocol") = {T("nfs")}
      /\ Values(params', "foldername") = Values(params, "foldername")
      /\ \A k : k[1] # "protocol" => (k \in DOMAIN params') = (k \in DOMAIN params)
      /\ \A k \in DOMAIN params' : k[1] # "protocol" => params'[k] = params[k]
  BY SetKeyValueFacts
<1>4. \A k \in (DOMAIN params') \cup (DOMAIN Given(req)) : k[1] \notin Rewritten =>
             k \in DOMAIN params' /\ k \in DOMAIN Given(req) /\ params'[k] = Given(req)[k]
  BY <1>2, <1>3 DEF Rewritten
<1> QED BY <1>1, <1>2, <1>3, <1>4 DEF MapOK

\* It configures the endpoint.
LEMMA ConfigureEndpointKeeps == ASSUME DecisionInv, ConfigureEndpoint PROVE DecisionInv'
<1>1. pc = "endpoint"
  BY DEF ConfigureEndpoint
<1> DEFINE want == Validated(ReadOf(req))
<1>2. Unambiguous(req) => InvalidForEndpoint(f) = InvalidForEndpoint(want)
  BY <1>1, AtEndpoint, EndpointLike
<1>3. CASE InvalidForEndpoint(f) /\ Reject
  <2>1. Unambiguous(req) => Refused(req)
    BY <1>2, <1>3 DEF Refused, RefusedEarly
  <2>2. faults' \in 0..MaxFaults /\ Respond("InvalidArgument", None) /\ UNCHANGED <<azure, memory>>
    BY <1>3 DEF Reject, DecisionInv, TypeOK
  <2> QED BY <1>1, <2>1, <2>2, ErrorKeeps
<1>4. CASE /\ ~InvalidForEndpoint(f) /\ Go("endpoint", "sku") /\ f' = WithEndpoint(f)
           /\ params' = IF IsNFS(f) THEN SetKeyValue(params, "protocol", T("nfs")) ELSE params
           /\ UNCHANGED <<size, share, account, lockKey, skuKnown, open>>
  <2>1. /\ pc' = "sku" /\ UNCHANGED <<offered, req, azure, memory, answers, calls, faults>>
        /\ UNCHANGED <<size, share, account, lockKey, skuKnown, open>>
    BY <1>4 DEF Go, Goto
  <2>2. pc' \notin AfterSku /\ pc' \notin AfterShare /\ pc' \notin AfterAccount
    BY <2>1 DEF AfterSku, AfterShare, AfterAccount
  <2>3. DOMAIN f = Settings
    BY DEF DecisionInv, TypeOK
  <2>4. DOMAIN f' = Settings
    BY <1>4, <2>3, WithEndpointFacts
  <2>5. TypeOK'
    BY <1>1, <2>1, <2>2, <2>4, GoTypes DEF DecisionInv, TypeOK
  <2>6. ~skuKnown'
    BY <1>1, <2>1 DEF DecisionInv, SkuOK, AfterSku, AfterShare, AfterAccount
  <2>7. SettingsOK'
    <3>1. SUFFICES ASSUME Unambiguous(req) PROVE SettingsOK'
      BY <2>1 DEF SettingsOK
    <3>2. /\ Accepted(req) /\ ~Invalid(ReadOf(req)) /\ Like(f, want) /\ f.skuname = want.skuname
          /\ IsNFS(f) = IsNFS(want) /\ (IsNFS(f) \/ f.protocol = want.protocol)
      BY <1>1, <3>1, AtEndpoint
    <3>3. DOMAIN want = Settings /\ Located(req) = WithEndpoint(want)
      BY ChosenFacts DEF Located
    <3>4. ~InvalidForEndpoint(want)
      BY <1>2, <1>4, <3>1
    <3> HIDE DEF want
    <3>5. Like(f', Located(req))
      BY <1>4, <2>3, <3>2, <3>3, WithEndpointLike
    <3>6. f'.protocol = Located(req).protocol
      BY <1>4, <2>3, <3>2, <3>3, WithEndpointFacts
    <3>7. f'.skuname = Located(req).skuname
      BY <1>4, <2>3, <3>2, <3>3, WithEndpointFacts
    <3> QED BY <2>1, <2>6, <3>2, <3>4, <3>5, <3>6, <3>7 DEF SettingsOK, Like, Plain, want
  <2>8. SkuOK' /\ SizeOK' /\ AccountOK' /\ QuotaOK'
    BY <2>1, <2>2, <2>6 DEF SkuOK, SizeOK, AccountOK, QuotaOK
  <2>9. MapOK'
    <3>1. CASE IsNFS(f)
      <4>1. Unambiguous(req) => IsNFS(ReadOf(req)) /\ ~Invalid(ReadOf(req))
        BY <1>1, <3>1, AtEndpoint, ChosenFacts
      <4> QED BY <1>1, <1>4, <2>1, <3>1, <4>1, ProtocolKept
    <3>2. CASE ~IsNFS(f)
      BY <1>1, <1>4, <2>1, <3>2, MapSame
    <3> QED BY <3>1, <3>2
  <2> QED BY <2>1, <2>5, <2>7, <2>8, <2>9, FrameKeeps DEF DecisionInv
<1> QED BY <1>3, <1>4 DEF ConfigureEndpoint

\* It reads the SKU of an account it is given.
LEMMA ReadSkuKeeps == ASSUME DecisionInv, ReadSku PROVE DecisionInv'
<1>1. /\ pc = "sku" /\ pc' = "share"
      /\ UNCHANGED <<offered, req, params, size, share, account, lockKey, open, azure, memory,
                     answers, calls>>
  BY DEF ReadSku, Goto
<1>2. pc' \notin AfterShare /\ pc' \notin AfterAccount /\ pc' \in AfterSku
  BY <1>1 DEF AfterSku, AfterShare, AfterAccount
<1>3. skuKnown = FALSE
  BY <1>1 DEF DecisionInv, TypeOK, SkuOK, AfterSku, AfterShare, AfterAccount
<1>4. DOMAIN f = Settings /\ "storageaccount" \in Settings /\ "skuname" \in Settings
      /\ f.storageaccount = f["storageaccount"]
  BY TextNames, OtherNames DEF DecisionInv, TypeOK, Plain
<1> DEFINE Learns == /\ SkuWanted /\ f.storageaccount[1] \in DOMAIN accounts
                     /\ f' = [f EXCEPT !.skuname = accounts[f.storageaccount[1]].options.skuname]
                     /\ skuKnown' = TRUE
           Goes   == f' = f /\ skuKnown' = (f.storageaccount = <<>>)
<1>5. Learns \/ Goes
  <2>1. CASE SkuWanted /\ UNCHANGED <<f, skuKnown>>
    BY <1>3, <2>1 DEF SkuWanted
  <2> QED BY <2>1 DEF ReadSku
<1>6. DOMAIN f' = Settings /\ skuKnown' \in BOOLEAN
      /\ \A s \in Settings \ {"skuname"} : f'[s] = f[s]
  BY <1>4, <1>5
<1>7. faults' \in 0..MaxFaults
  BY <1>1, FaultFacts DEF ReadSku, DecisionInv, TypeOK
<1>8. TypeOK'
  BY <1>1, <1>2, <1>6, <1>7, GoTypes DEF DecisionInv, TypeOK
<1>9. f'.storageaccount = f.storageaccount
  BY <1>4, <1>6
<1>10. SettingsOK'
  <2>1. SUFFICES ASSUME Unambiguous(req) PROVE SettingsOK'
    BY <1>1 DEF SettingsOK
  <2>2. /\ ~RefusedEarly(req) /\ Like(f, Located(req)) /\ f.protocol = Located(req).protocol
        /\ f.skuname = Located(req).skuname
    BY <1>1, <1>3, <2>1, AtShare
  <2>3. Like(f', Located(req)) /\ f'.protocol = Located(req).protocol
    BY <1>6, <2>2, OtherNames DEF Like, Plain
  <2>4. IF skuKnown' /\ f'.storageaccount # <<>> THEN Located(req).skuname = <<>>
        ELSE f'.skuname = Located(req).skuname
    <3>1. CASE Learns
      BY <1>9, <2>2, <3>1 DEF SkuWanted
    <3>2. CASE Goes
      BY <1>9, <2>2, <3>2
    <3> QED BY <1>5, <3>1, <3>2
  <2> QED BY <1>1, <2>2, <2>3, <2>4 DEF SettingsOK, Like, Plain, RefusedEarly
<1>11. SkuOK'
  <2>1. UNCHANGED accounts
    BY <1>1 DEF azure
  <2>2. CASE Learns
    BY <1>1, <1>2, <1>4, <1>9, <2>1, <2>2 DEF SkuOK, SkuWanted
  <2>3. CASE Goes
    BY <1>1, <1>2, <1>9, <2>1, <2>3 DEF SkuOK
  <2> QED BY <1>5, <2>2, <2>3
<1>12. SizeOK' /\ AccountOK' /\ QuotaOK'
  BY <1>1, <1>2 DEF SizeOK, AccountOK, QuotaOK
<1>13. MapOK'
  BY <1>1, MapSame
<1> QED BY <1>1, <1>8, <1>10, <1>11, <1>12, <1>13, FrameKeeps DEF DecisionInv

\* The folder it writes into the map is that of the request.
LEMMA FolderKept ==
    ASSUME DecisionInv, pc # "idle", req' = req,
           NEW folder, folder = <<>> \/ folder \in Values(params, "foldername"),
           Unambiguous(req) => Replace(folder, f) = Replace(folder, ReadOf(req)),
           params' = IF Replace(folder, f) = folder THEN params
                     ELSE SetKeyValue(params, "foldername", Replace(folder, f))
    PROVE  MapOK'
<1>1. SUFFICES ASSUME Unambiguous(req) PROVE MapOK'
  BY DEF MapOK
<1>2. CASE Replace(folder, f) = folder
  BY <1>2, MapSame
<1>3. CASE Replace(folder, f) # folder
  <2>1. /\ \A k \in (DOMAIN params) \cup (DOMAIN Given(req)) : k[1] \notin Rewritten =>
               k \in DOMAIN params /\ k \in DOMAIN Given(req) /\ params[k] = Given(req)[k]
        /\ \/ Values(params, "protocol") = Values(Given(req), "protocol")
           \/ /\ IsNFS(ReadOf(req)) /\ ~Invalid(ReadOf(req))
              /\ T("nfs") \in Values(params, "protocol")
              /\ Values(params, "protocol") \subseteq {T("nfs")} \cup Values(Given(req), "protocol")
        /\ \A v \in Values(params, "foldername") :
               \E x \in Values(Given(req), "foldername") : v \in {x, Replace(x, ReadOf(req))}
    BY <1>1 DEF DecisionInv, MapOK
  <2> DEFINE new == Replace(folder, f)
  <2>2. folder \in Values(params, "foldername")
    <3>1. Replace(<<>>, f) = <<>>
      BY DEF Replace
    <3> QED BY <1>3, <3>1
  <2>3. PICK x \in Values(Given(req), "foldername") : folder \in {x, Replace(x, ReadOf(req))}
    BY <2>1, <2>2
  <2>4. new = Replace(x, ReadOf(req))
    BY <1>1, <2>3, ReqFacts, ReplaceFacts
  <2> HIDE DEF new
  <2>5. params' = SetKeyValue(params, "foldername", new)
    BY <1>3 DEF new
  <2>6. /\ Values(params', "foldername") = {new}
        /\ Values(params', "protocol") = Values(params, "protocol")
        /\ \A k : k[1] # "foldername" => (k \in DOMAIN params') = (k \in DOMAIN params)
        /\ \A k \in DOMAIN params' : k[1] # "foldername" => params'[k] = params[k]
    BY <2>5, SetKeyValueFacts
  <2>7. \A k \in (DOMAIN params') \cup (DOMAIN Given(req)) : k[1] \notin Rewritten =>
               k \in DOMAIN params' /\ k \in DOMAIN Given(req) /\ params'[k] = Given(req)[k]
    BY <2>1, <2>6 DEF Rewritten
  <2> QED BY <1>1, <2>1, <2>3, <2>4, <2>6, <2>7 DEF MapOK
<1> QED BY <1>2, <1>3

\* The names of shares, of settings that agree.
LEMMA ShareLike ==
    ASSUME NEW g, NEW h, Like(g, h), IsNFS(g) = IsNFS(h), NEW vol
    PROVE  g.sharename = h.sharename /\ GeneratedName(g, vol) = GeneratedName(h, vol)
<1>1. g.sharename = h.sharename /\ g.sharenameprefix = h.sharenameprefix
  BY TextNames DEF Like
<1>2. IsDisk(g) = IsDisk(h)
  BY LikeFacts
<1> QED BY <1>1, <1>2 DEF GeneratedName

\* Texts are replaced with the metadata of the request.
LEMMA ReplaceChosen ==
    ASSUME NEW r, NEW text
    PROVE  /\ Replace(text, Located(r)) = Replace(text, ReadOf(r))
           /\ Replace(text, Chosen(r)) = Replace(text, ReadOf(r))
<1>1. ASSUME NEW w \in Variables
      PROVE  /\ Located(r)[MetadataField(w)] = ReadOf(r)[MetadataField(w)]
             /\ Chosen(r)[MetadataField(w)] = ReadOf(r)[MetadataField(w)]
  <2>1. MetadataField(w) \in {"csi.storage.k8s.io/pvc/name", "csi.storage.k8s.io/pvc/namespace",
                              "csi.storage.k8s.io/pv/name"}
    BY DEF Variables, MetadataField
  <2>2. MetadataField(w) \in Plain \ {"secretnamespace", "storeaccountkey", "resourcegroup",
                                      "storageendpointsuffix"}
    BY <2>1, TextNames
  <2> QED BY <2>2, ChosenFacts DEF Plain
<1> QED BY <1>1 DEF Replace

\* The names of shares before the endpoint suffix is set, and after.
LEMMA LocatedChosen ==
    ASSUME NEW r, NEW vol
    PROVE  /\ Located(r).sharename = Chosen(r).sharename
           /\ GeneratedName(Located(r), vol) = GeneratedName(Chosen(r), vol)
<1>1. {"sharename", "sharenameprefix", "fstype"} \subseteq Settings \ {"storageendpointsuffix"}
  BY TextNames DEF Plain
<1>2. /\ Located(r).sharename = Chosen(r).sharename /\ Located(r).fstype = Chosen(r).fstype
      /\ Located(r).sharenameprefix = Chosen(r).sharenameprefix
  BY <1>1, ChosenFacts
<1> QED BY <1>2, ChosenFacts DEF GeneratedName, IsDisk

\* The tags of the request are those it reads.
LEMMA TagsLike ==
    ASSUME NEW r, NEW g, Like(g, Located(r))
    PROVE  TagsAreInvalid(g) = TagsAreInvalid(ReadOf(r))
<1>1. /\ Located(r).tags = ReadOf(r).tags
      /\ Located(r).tagvaluedelimiter = ReadOf(r).tagvaluedelimiter
  BY ChosenFacts, TextNames DEF Plain
<1> QED BY <1>1, TextNames DEF Like, TagsAreInvalid

\* It refuses tags.
LEMMA RejectTagsKeeps == ASSUME DecisionInv, RejectTags PROVE DecisionInv'
<1>1. pc = "share" /\ TagsAreInvalid(f) /\ Reject
  BY DEF RejectTags
<1>2. Unambiguous(req) => Refused(req)
  BY <1>1, AtShare, TagsLike DEF Refused
<1>3. faults' \in 0..MaxFaults /\ Respond("InvalidArgument", None) /\ UNCHANGED <<azure, memory>>
  BY <1>1 DEF Reject, DecisionInv, TypeOK
<1> QED BY <1>1, <1>2, <1>3, ErrorKeeps

\* It derives the size and the names.
LEMMA SizeAndNameKeeps == ASSUME DecisionInv, SizeAndName PROVE DecisionInv'
<1>1. /\ pc = "share" /\ pc' = "account"
      /\ UNCHANGED <<offered, req, azure, memory, answers, calls, faults>>
      /\ UNCHANGED <<account, lockKey, skuKnown, open>>
      /\ size' = ShareSize(RoundUpGiB(req.half), f.skuname)
      /\ share' = IF f.sharename = <<>> THEN ValidFileShareName(GeneratedName(f, req.vol))
                  ELSE Replace(f.sharename, f)
      /\ f' = WithSuffix(f) /\ ~TagsAreInvalid(f)
  BY DEF SizeAndName, Go, Goto
<1>2. pc' \notin AfterAccount /\ pc' \in AfterShare /\ pc \in AfterSku /\ pc' \in AfterSku
  BY <1>1 DEF AfterSku, AfterShare, AfterAccount
<1>3. DOMAIN f = Settings /\ faults \in 0..MaxFaults /\ skuKnown \in BOOLEAN /\ open \subseteq Open
  BY DEF DecisionInv, TypeOK
<1>4. /\ DOMAIN f' = Settings /\ \A s \in Settings \ {"storageendpointsuffix"} : f'[s] = f[s]
      /\ IsNFS(f') = IsNFS(f)
  BY <1>1, <1>3, WithSuffixFacts
<1>5. f'.skuname = f.skuname /\ f'.protocol = f.protocol /\ f'.storageaccount = f.storageaccount
  BY <1>4, TextNames, OtherNames DEF Plain
<1>6. size' \in Nat /\ size' > 0
  <2>1. RoundUpGiB(req.half) \in Nat /\ RoundUpGiB(req.half) > 0
    BY <1>1, ReqFacts, RoundUpFacts
  <2> QED BY <1>1, <2>1, ShareSizeFacts
<1>7. TypeOK'
  BY <1>1, <1>3, <1>4, <1>6, GoTypes
<1>8. ASSUME Unambiguous(req)
      PROVE  /\ ~RefusedEarly(req) /\ Like(f, Located(req)) /\ f.protocol = Located(req).protocol
             /\ IF skuKnown /\ f.storageaccount # <<>> THEN Located(req).skuname = <<>>
                ELSE f.skuname = Located(req).skuname
  BY <1>1, <1>8, AtShare
<1>9. SettingsOK'
  <2>1. SUFFICES ASSUME Unambiguous(req) PROVE SettingsOK'
    BY <1>1 DEF SettingsOK
  <2>2. Like(f', Chosen(req))
    BY <1>1, <1>3, <1>8, <2>1, ChosenFacts, WithSuffixLike DEF Chosen
  <2>3. Chosen(req).protocol = Located(req).protocol /\ Chosen(req).skuname = Located(req).skuname
    BY ChosenFacts
  <2>4. ~TagsAreInvalid(ReadOf(req))
    BY <1>1, <1>8, <2>1, TagsLike
  <2> QED BY <1>1, <1>5, <1>8, <2>1, <2>2, <2>3, <2>4 DEF SettingsOK, Like, Plain, RefusedEarly
<1>10. SkuOK'
  BY <1>1, <1>2, <1>5 DEF DecisionInv, SkuOK, azure
<1>11. SizeOK'
  <2>1. ASSUME Unambiguous(req) PROVE IsShareOf(share', req)
    <3>1. Like(f, Located(req)) /\ IsNFS(f) = IsNFS(Located(req))
      BY <1>8, <2>1, TextNames DEF IsNFS, Like
    <3> DEFINE g == Chosen(req)
    <3>2. f.sharename = g.sharename /\ GeneratedName(f, req.vol) = GeneratedName(g, req.vol)
      BY <3>1, ShareLike, LocatedChosen
    <3>3. Replace(f.sharename, f) = Replace(f.sharename, g)
      BY <3>1, LikeFacts, ReplaceChosen
    <3> HIDE DEF g
    <3> QED BY <1>1, <3>2, <3>3 DEF IsShareOf, ValidFileShareName, g
  <2> QED BY <1>1, <1>5, <2>1 DEF SizeOK
<1>12. AccountOK' /\ QuotaOK'
  BY <1>1, <1>2 DEF AccountOK, QuotaOK
<1>13. MapOK'
  <2>1. PICK folder \in IF Values(params, "foldername") = {} THEN {<<>>}
                        ELSE Values(params, "foldername") :
            params' = IF Replace(folder, f) = folder THEN params
                      ELSE SetKeyValue(params, "foldername", Replace(folder, f))
    BY DEF SizeAndName
  <2>2. Unambiguous(req) => Replace(folder, f) = Replace(folder, ReadOf(req))
    BY <1>8, LikeFacts, ReplaceChosen
  <2>3. folder = <<>> \/ folder \in Values(params, "foldername")
    OBVIOUS
  <2> QED BY <1>1, <2>1, <2>2, <2>3, FolderKept
<1> QED BY <1>1, <1>7, <1>9, <1>10, <1>11, <1>12, <1>13, FrameKeeps DEF DecisionInv

------------------------------------------------------------------------------
(* The choice of the account. *)

\* What is known of the handler stays so while accounts are added.
LEMMA StepKeeps ==
    ASSUME DecisionInv, pc \in AfterShare, pc' \in AfterShare,
           UNCHANGED <<req, f, size, share, skuKnown>>, Extends(accounts, accounts')
    PROVE  SettingsOK' /\ SkuOK' /\ SizeOK'
<1>1. pc' \in AfterSku /\ pc \in AfterSku
  BY DEF AfterSku
<1>2. SettingsOK'
  <2>1. SUFFICES ASSUME Unambiguous(req) PROVE SettingsOK'
    BY DEF SettingsOK
  <2>2. /\ ~Refused(req) /\ Like(f, Chosen(req)) /\ f.protocol = Chosen(req).protocol
        /\ IF skuKnown /\ f.storageaccount # <<>> THEN Chosen(req).skuname = <<>>
           ELSE f.skuname = Chosen(req).skuname
    BY <2>1, AtAccount
  <2>3. pc' \notin {"idle", "read", "validate", "endpoint", "sku", "share"}
    BY DEF AfterShare, AfterAccount
  <2> QED BY <2>2, <2>3 DEF SettingsOK, Like, Plain, Refused, RefusedEarly
<1>3. SkuOK'
  BY <1>1 DEF DecisionInv, SkuOK, Extends
<1>4. SizeOK'
  BY DEF DecisionInv, SizeOK
<1> QED BY <1>2, <1>3, <1>4

\* And the types, when neither Azure nor the memory of the driver changes.
LEMMA StepTypes ==
    ASSUME DecisionInv, pc \in AfterShare, pc' \in AfterShare,
           UNCHANGED <<offered, req, f, size, share, skuKnown, azure, memory, calls, faults>>,
           open' \subseteq Open
    PROVE  TypeOK'
<1>1. /\ pc # "idle" /\ DOMAIN f = Settings /\ size \in Nat /\ size > 0 /\ skuKnown \in BOOLEAN
      /\ faults \in 0..MaxFaults
  BY DEF DecisionInv, TypeOK, AfterShare, AfterAccount
<1>2. pc' \in {"validate", "endpoint", "sku", "share", "account", "quota", "server", "check",
               "create", "answer"}
  BY DEF AfterShare, AfterAccount
<1> QED BY <1>1, <1>2, GoTypes

\* The options of an unambiguous request choose as the request, when no account is given.
LEMMA ChosenFits ==
    ASSUME DecisionInv, pc \in AfterShare, Unambiguous(req), f.storageaccount = <<>>, NEW p
    PROVE  Fits(p, f) = Fits(p, Chosen(req))
<1>1. /\ Like(f, Chosen(req)) /\ f.protocol = Chosen(req).protocol
      /\ f.skuname = Chosen(req).skuname
  BY AtAccount
<1> QED BY <1>1, FitsLike

\* The account is the one the request gives, that of the volume, or that of the lock key.
LEMMA UseAccountKeeps ==
    ASSUME DecisionInv, NEW a, UseAccount(a, "server"), open' \subseteq Open,
           \/ f.storageaccount # <<>> /\ a = f.storageaccount[1]
           \/ /\ f.storageaccount = <<>> /\ a \in DOMAIN accounts
              /\ Settled(req) => Fits(accounts[a], Relaxed(f, open'))
    PROVE  DecisionInv'
<1>1. /\ pc = "account" /\ pc' = "server" /\ account' = a
      /\ UNCHANGED <<offered, req, params, f, size, share, skuKnown, azure, memory, answers, calls,
                     faults>>
  BY DEF UseAccount, Go, Goto
<1>2. pc \in AfterShare /\ pc' \in AfterShare /\ pc' \in AfterAccount
  BY <1>1 DEF AfterShare, AfterAccount
<1>3. UNCHANGED <<accounts, shares>> /\ Extends(accounts, accounts')
  BY <1>1 DEF azure, Extends
<1>4. AccountOK'
  BY <1>1, <1>3 DEF AccountOK, Settled, Changed
<1>5. QuotaOK'
  BY <1>1 DEF QuotaOK
<1> QED BY <1>1, <1>2, <1>3, <1>4, <1>5, MapSame, StepKeeps, StepTypes, FrameKeeps DEF DecisionInv

\* The request gives it.
LEMMA GivenAccountKeeps == ASSUME DecisionInv, GivenAccount PROVE DecisionInv'
<1>1. open' \subseteq Open
  BY DEF GivenAccount, DecisionInv, TypeOK
<1> QED BY <1>1, UseAccountKeeps DEF GivenAccount

\* An earlier attempt has chosen it for the volume.
LEMMA PinnedAccountKeeps == ASSUME DecisionInv, PinnedAccount PROVE DecisionInv'
<1>1. open' = open /\ open \subseteq Open /\ f.storageaccount = <<>> /\ req.vol \in DOMAIN volMap
  BY DEF PinnedAccount, DecisionInv, TypeOK
<1>2. pc = "account" /\ pc \in AfterShare
  BY DEF PinnedAccount, AfterShare
<1>3. volMap[req.vol] \in DOMAIN accounts
  BY <1>1 DEF DecisionInv, TypeOK
<1>4. ASSUME Settled(req) PROVE Fits(accounts[volMap[req.vol]], Relaxed(f, open))
  <2>1. Fits(accounts[volMap[req.vol]], Chosen(req))
    BY <1>1, <1>2, <1>4, ReqFacts DEF DecisionInv, MemoryOK
  <2>2. Unambiguous(req)
    BY <1>4 DEF Settled
  <2>3. Fits(accounts[volMap[req.vol]], f)
    BY <1>1, <1>2, <2>1, <2>2, ChosenFits
  <2> QED BY <1>1, <2>3, RelaxedFits
<1> QED BY <1>1, <1>3, <1>4, UseAccountKeeps DEF PinnedAccount

\* Another request has found it.
LEMMA CachedAccountKeeps == ASSUME DecisionInv, CachedAccount PROVE DecisionInv'
<1> DEFINE c == accountSearchCache[LockKeyOf(f)]
<1>1. /\ f.storageaccount = <<>> /\ LockKeyOf(f) \in DOMAIN accountSearchCache
      /\ UseAccount(c.account, "server") /\ open' = c.open
  BY DEF CachedAccount, Search
<1>2. c.account \in DOMAIN accounts /\ c.open \subseteq Open
  BY <1>1 DEF DecisionInv, TypeOK
<1>3. FitsKey(accounts[c.account], LockKeyOf(f), c.open)
  BY <1>1 DEF DecisionInv, MemoryOK
<1> HIDE DEF c
<1>4. Fits(accounts[c.account], Relaxed(f, c.open))
  BY <1>2, <1>3, KeyFits
<1> QED BY <1>1, <1>2, <1>4, UseAccountKeeps

\* Accounts are added, of the kind of their SKU.
LEMMA AzureGrows ==
    ASSUME DecisionInv, Extends(accounts, accounts'), UNCHANGED <<offered, shares>>,
           \A a \in (DOMAIN accounts') \ DOMAIN accounts :
               IsPremium(accounts'[a].options.skuname) \/ IsV2(accounts'[a].options.skuname)
                   => accounts'[a].kind = "FileStorage"
    PROVE  AzureOK'
<1>1. AzureOK /\ \A t \in DOMAIN shares : t[1] \in DOMAIN accounts
  BY DEF DecisionInv, TypeOK
<1>2. ASSUME NEW a \in DOMAIN accounts'
      PROVE  IsPremium(accounts'[a].options.skuname) \/ IsV2(accounts'[a].options.skuname)
                   => accounts'[a].kind = "FileStorage"
  BY <1>1 DEF AzureOK, Extends
<1>3. ASSUME NEW t \in DOMAIN shares PROVE accounts'[t[1]] = accounts[t[1]]
  BY <1>1 DEF Extends
<1>4. \A r : Settled(r)' = Settled(r)
  BY DEF Settled, Changed
<1> QED BY <1>1, <1>2, <1>3, <1>4 DEF AzureOK

\* EnsureStorageAccount answers an account that fits.
LEMMA EnsureStorageAccountKeeps == ASSUME DecisionInv, EnsureStorageAccount PROVE DecisionInv'
<1> DEFINE matching == IF f.createaccount = True THEN {}
                       ELSE {a \in DOMAIN accounts \ skipped : Fits(accounts[a], f)}
           key == LockKeyOf(f)
<1>1. /\ pc = "account" /\ f.storageaccount = <<>>
      /\ pc' = "quota" /\ lockKey' = key /\ open' = {n \in Open : f[n] = <<>>}
      /\ UNCHANGED <<offered, req, params, f, size, share, skuKnown, skipped, shares, memory,
                     answers, calls, faults>>
      /\ \/ account' \in matching /\ UNCHANGED accounts
         \/ /\ account' \in Accounts \ DOMAIN accounts
            /\ accounts' = Put(accounts, account', NewAccount(f))
  BY DEF EnsureStorageAccount, Search
<1>2. UNCHANGED <<accountSearchCache, volMap>> /\ pc \in AfterShare /\ pc' \in AfterShare
  BY <1>1 DEF memory, AfterShare, AfterAccount
<1>3. Extends(accounts, accounts') /\ account' \in DOMAIN accounts' /\ Fits(accounts'[account'], f)
  <2>1. CASE account' \in matching /\ UNCHANGED accounts
    BY <2>1 DEF Extends
  <2>2. CASE /\ account' \in Accounts \ DOMAIN accounts
             /\ accounts' = Put(accounts, account', NewAccount(f))
    BY <2>2, NewAccountFits DEF Put, Extends
  <2> HIDE DEF matching
  <2> QED BY <1>1, <2>1, <2>2
<1>4. \A a \in (DOMAIN accounts') \ DOMAIN accounts :
          IsPremium(accounts'[a].options.skuname) \/ IsV2(accounts'[a].options.skuname)
              => accounts'[a].kind = "FileStorage"
  <2>1. CASE UNCHANGED accounts
    BY <2>1
  <2>2. CASE accounts' = Put(accounts, account', NewAccount(f))
    <3>1. DOMAIN accounts' = DOMAIN accounts \cup {account'} /\ accounts'[account'] = NewAccount(f)
      BY <2>2 DEF Put
    <3> QED BY <3>1, NewAccountFits
  <2> QED BY <1>1, <2>1, <2>2
<1> HIDE DEF matching, key
<1>5. TypeOK'
  <2>1. TypeOK
    BY DEF DecisionInv
  <2>2. DOMAIN accounts \subseteq DOMAIN accounts'
    BY <1>3 DEF Extends
  <2> QED BY <1>1, <1>2, <2>1, <2>2 DEF TypeOK
<1>6. SettingsOK' /\ SkuOK' /\ SizeOK'
  BY <1>1, <1>2, <1>3, StepKeeps
<1>7. AccountOK'
  <2>1. Fits(accounts'[account'], Relaxed(f, {n \in Open : f[n] = <<>>}))
    BY <1>3, RelaxedFits
  <2> QED BY <1>1, <1>3, <2>1 DEF AccountOK, key
<1>8. QuotaOK'
  BY <1>1 DEF QuotaOK
<1>9. MapOK'
  BY <1>1, MapSame
<1>10. Extends(shares, shares') /\ Extends(accountSearchCache', accountSearchCache)
       /\ Extends(volMap', volMap)
  BY <1>1, <1>2 DEF Extends
<1>11. MemoryOK' /\ AzureOK' /\ AnswersOK' /\ AnswerFits'
  BY <1>1, <1>3, <1>4, <1>10, ForgettingKeeps, AzureGrows, GrowingKeeps
<1> QED BY <1>5, <1>6, <1>7, <1>8, <1>9, <1>11 DEF DecisionInv

\* The account is remembered, and fits what it is remembered for.
LEMMA RememberAccountKeeps == ASSUME DecisionInv, RememberAccount PROVE DecisionInv'
<1>1. /\ pc = "quota" /\ pc' = "server"
      /\ UNCHANGED <<offered, locals, azure, answers, calls, faults>>
      /\ accountSearchCache' = Put(accountSearchCache, lockKey, [account |-> account, open |-> open])
      /\ volMap' = Put(volMap, req.vol, account)
  BY DEF RememberAccount, Goto
<1>2. /\ UNCHANGED <<req, params, f, size, share, account, lockKey, skuKnown, open>>
      /\ UNCHANGED <<accounts, skipped, shares>>
      /\ pc \in AfterAccount /\ pc \in AfterShare /\ pc' \in AfterShare
  BY <1>1 DEF locals, azure, AfterShare, AfterAccount
<1>3. /\ f.storageaccount = <<>> /\ account \in DOMAIN accounts
      /\ Settled(req) => Fits(accounts[account], Relaxed(f, open))
      /\ Fits(accounts[account], f) /\ lockKey = LockKeyOf(f) /\ open = {n \in Open : f[n] = <<>>}
  BY <1>1, <1>2 DEF DecisionInv, AccountOK
<1>4. Extends(accounts, accounts') /\ Extends(shares, shares')
  BY <1>2 DEF Extends
<1>5. TypeOK'
  <2>1. TypeOK
    BY DEF DecisionInv
  <2>2. \A k \in DOMAIN accountSearchCache' :
            /\ accountSearchCache'[k].account \in DOMAIN accounts'
            /\ accountSearchCache'[k].open \subseteq Open
    <3> DEFINE new == [account |-> account, open |-> open]
    <3>1. new.account \in DOMAIN accounts /\ new.open \subseteq Open
      BY <1>3
    <3> HIDE DEF new
    <3>2. accountSearchCache' = Put(accountSearchCache, lockKey, new)
      BY <1>1 DEF new
    <3> QED BY <1>2, <2>1, <3>1, <3>2 DEF TypeOK, Put
  <2>3. \A v \in DOMAIN volMap' : volMap'[v] \in DOMAIN accounts'
    BY <1>1, <1>2, <1>3, <2>1 DEF TypeOK, Put
  <2> QED BY <1>1, <1>2, <2>1, <2>2, <2>3 DEF TypeOK
<1>6. SettingsOK' /\ SkuOK' /\ SizeOK'
  BY <1>2, <1>4, StepKeeps
<1>7. AccountOK'
  BY <1>1, <1>2, <1>3 DEF AccountOK, Settled, Changed
<1>8. QuotaOK'
  BY <1>1 DEF QuotaOK
<1>9. MapOK'
  BY <1>1, <1>2, MapSame
<1>10. AzureOK' /\ AnswersOK' /\ AnswerFits'
  BY <1>1, <1>2, <1>4, AzureKeeps, GrowingKeeps
<1>11. MemoryOK'
  <2>1. ASSUME NEW k \in DOMAIN accountSearchCache'
        PROVE  FitsKey(accounts[accountSearchCache'[k].account], k, accountSearchCache'[k].open)
    <3>1. CASE k = lockKey
      <4>1. /\ accountSearchCache'[k].account = account
            /\ accountSearchCache'[k].open = open
        BY <1>1, <3>1 DEF Put
      <4>2. FitsKey(accounts[account], LockKeyOf(f), {n \in Open : f[n] = <<>>})
        BY <1>3, FitsItsKey
      <4> QED BY <1>3, <3>1, <4>1, <4>2
    <3>2. CASE k # lockKey
      <4>1. k \in DOMAIN accountSearchCache /\ accountSearchCache'[k] = accountSearchCache[k]
        BY <1>1, <3>2 DEF Put
      <4> QED BY <4>1 DEF DecisionInv, MemoryOK
    <3> QED BY <3>1, <3>2
  <2>2. ASSUME NEW r \in offered, Settled(r), r.vol \in DOMAIN volMap'
        PROVE  Fits(accounts[volMap'[r.vol]], Chosen(r))
    <3>1. CASE r.vol = req.vol
      <4>1. r = req
        BY <1>1, <2>2, <3>1, ReqFacts DEF Settled, Changed
      <4>2. Fits(accounts[account], Chosen(r))
        BY <1>2, <1>3, <2>2, <4>1, ChosenFits DEF Settled
      <4> QED BY <1>1, <3>1, <4>2 DEF Put
    <3>2. CASE r.vol # req.vol
      <4>1. r.vol \in DOMAIN volMap /\ volMap'[r.vol] = volMap[r.vol]
        BY <1>1, <2>2, <3>2 DEF Put
      <4> QED BY <2>2, <4>1 DEF DecisionInv, MemoryOK
    <3> QED BY <3>1, <3>2
  <2> QED BY <1>1, <1>2, <2>1, <2>2 DEF MemoryOK, Settled, Changed
<1> QED BY <1>5, <1>6, <1>7, <1>8, <1>9, <1>10, <1>11 DEF DecisionInv

------------------------------------------------------------------------------
(* The steps that start over, and those up to the share. *)

\* An attempt that starts over finds the request in the map again.
LEMMA MergeKept ==
    ASSUME DecisionInv, pc # "idle", req' = req,
           params' = Merge(req, IF req.params = NoMap THEN NoMap ELSE params)
    PROVE  MapOK'
<1> DEFINE m == Given(req)
           P == "protocol"
           F == "foldername"
<1>1. SUFFICES ASSUME Unambiguous(req) PROVE MapOK'
  BY DEF MapOK
<1>2. /\ \A k \in (DOMAIN params) \cup (DOMAIN m) : k[1] \notin Rewritten =>
             k \in DOMAIN params /\ k \in DOMAIN m /\ params[k] = m[k]
      /\ \/ Values(params, P) = Values(m, P)
         \/ /\ IsNFS(ReadOf(req)) /\ ~Invalid(ReadOf(req))
            /\ T("nfs") \in Values(params, P)
            /\ Values(params, P) \subseteq {T("nfs")} \cup Values(m, P)
      /\ Values(m, F) # {} => Values(params, F) # {}
      /\ \A v \in Values(params, F) : \E x \in Values(m, F) : v \in {x, Replace(x, ReadOf(req))}
  BY <1>1 DEF DecisionInv, MapOK
<1>3. CASE req.params = NoMap
  <2>1. params' = m
    BY <1>3 DEF Given
  <2> HIDE DEF m
  <2> QED BY <1>1, <2>1 DEF MapOK, m
<1>4. CASE req.params # NoMap
  <2>1. /\ DOMAIN params' = (DOMAIN req.mutable) \cup (DOMAIN params)
        /\ \A k \in DOMAIN req.mutable : params'[k] = req.mutable[k]
        /\ \A k \in (DOMAIN params) \ DOMAIN req.mutable : params'[k] = params[k]
    BY <1>4 DEF Merge
  <2>2. DOMAIN req.mutable \subseteq DOMAIN m /\ \A k \in DOMAIN req.mutable : m[k] = req.mutable[k]
    BY DEF Given, Merge
  <2>3. \A k \in DOMAIN params' : \/ k \in DOMAIN m /\ params'[k] = m[k]
                                  \/ k \in DOMAIN params /\ params'[k] = params[k]
    BY <2>1, <2>2
  <2>4. \A x, y \in Values(m, P) : x = y
    <3>1. P \notin Colliding(m) /\ P \in Settings
      BY <1>1, OtherNames DEF Unambiguous
    <3>2. KeysOf(m, P) = {k \in DOMAIN m : k[1] = P}
      BY KeysOfFacts
    <3> QED BY <3>1, <3>2 DEF Colliding, Values
  <2> HIDE DEF m
  <2>5. \A k \in (DOMAIN params') \cup (DOMAIN m) : k[1] \notin Rewritten =>
             k \in DOMAIN params' /\ k \in DOMAIN m /\ params'[k] = m[k]
    BY <1>2, <2>1, <2>2
  <2>6. /\ Values(params', P) \subseteq Values(m, P) \cup Values(params, P)
        /\ Values(params', F) \subseteq Values(m, F) \cup Values(params, F)
    BY <2>3 DEF Values
  <2>7. /\ Values(params, P) # {} => Values(params', P) # {}
        /\ Values(params, F) # {} => Values(params', F) # {}
    BY <2>1 DEF Values
  <2>8. Values(m, P) = {} => Values(params', P) \subseteq Values(params, P)
    BY <2>6
  <2>9. \/ Values(params', P) = Values(m, P)
        \/ /\ IsNFS(ReadOf(req)) /\ ~Invalid(ReadOf(req))
           /\ T("nfs") \in Values(params', P)
           /\ Values(params', P) \subseteq {T("nfs")} \cup Values(m, P)
    <3>1. CASE Values(params, P) = Values(m, P)
      BY <2>4, <2>6, <2>7, <3>1
    <3>2. CASE /\ IsNFS(ReadOf(req)) /\ ~Invalid(ReadOf(req))
               /\ T("nfs") \in Values(params, P)
               /\ Values(params, P) \subseteq {T("nfs")} \cup Values(m, P)
      <4>1. Values(params', P) \subseteq {T("nfs")} \cup Values(m, P) /\ Values(params', P) # {}
        BY <2>6, <2>7, <3>2
      <4>2. CASE T("nfs") \in Values(params', P)
        BY <3>2, <4>1, <4>2
      <4>3. CASE T("nfs") \notin Values(params', P)
        BY <2>4, <4>1, <4>3
      <4> QED BY <4>2, <4>3
    <3> QED BY <1>2, <3>1, <3>2
  <2>10. \A v \in Values(params', F) :
             \E x \in Values(m, F) : v \in {x, Replace(x, ReadOf(req))}
    BY <1>2, <2>6
  <2> QED BY <1>1, <1>2, <2>5, <2>7, <2>9, <2>10 DEF MapOK, m
<1> QED BY <1>3, <1>4

\* The call starts over.
LEMMA ReenterKeeps ==
    ASSUME DecisionInv, pc # "idle", Reenter, faults' \in 0..MaxFaults,
           UNCHANGED <<accounts, shares>>, skipped' \subseteq DOMAIN accounts,
           Extends(accountSearchCache', accountSearchCache), Extends(volMap', volMap)
    PROVE  DecisionInv'
<1>1. /\ pc' = "read" /\ Fresh /\ UNCHANGED <<offered, req, answers, calls>>
      /\ params' = Merge(req, IF req.params = NoMap THEN NoMap ELSE params)
  BY DEF Reenter
<1>2. req \in offered /\ req # None /\ calls \in 0..MaxCalls
  BY ReqFacts DEF DecisionInv, TypeOK
<1>3. TypeOK'
  BY <1>1, <1>2, FreshTypes
<1>4. SettingsOK' /\ SkuOK' /\ SizeOK' /\ AccountOK' /\ QuotaOK'
  BY <1>1, FreshKeeps
<1>5. MapOK'
  BY <1>1, MergeKept
<1>6. Extends(accounts, accounts') /\ Extends(shares, shares')
  BY DEF Extends
<1>7. MemoryOK' /\ AzureOK' /\ AnswersOK' /\ AnswerFits'
  BY <1>1, <1>6, ForgettingKeeps, AzureKeeps, GrowingKeeps
<1> QED BY <1>3, <1>4, <1>5, <1>7 DEF DecisionInv

\* The account has too many shares.
LEMMA OverQuotaKeeps == ASSUME DecisionInv, OverQuota PROVE DecisionInv'
<1>1. /\ pc = "quota" /\ Reenter /\ faults' \in 0..MaxFaults
      /\ skipped' \in {skipped, skipped \cup {account}} /\ UNCHANGED <<accounts, shares, memory>>
  BY FaultFacts DEF OverQuota
<1>2. account \in DOMAIN accounts /\ skipped \subseteq DOMAIN accounts
  BY <1>1 DEF DecisionInv, TypeOK, AccountOK, AfterAccount
<1>3. Extends(accountSearchCache', accountSearchCache) /\ Extends(volMap', volMap)
  BY <1>1 DEF Extends, memory
<1> QED BY <1>1, <1>2, <1>3, ReenterKeeps

\* It has too much capacity.
LEMMA AccountLimitExceededKeeps == ASSUME DecisionInv, AccountLimitExceeded PROVE DecisionInv'
<1>1. pc = "create" /\ faults' \in 0..MaxFaults
  BY FaultFacts DEF AccountLimitExceeded
<1>2. CASE Respond("Internal", None) /\ UNCHANGED <<azure, memory>>
  BY <1>1, <1>2, ErrorKeeps
<1>3. CASE /\ f.storageaccount = <<>> /\ Reenter
           /\ skipped' \in {skipped, skipped \cup {account}}
           /\ accountSearchCache' = Drop(accountSearchCache, lockKey)
           /\ volMap' = Drop(volMap, req.vol)
           /\ UNCHANGED <<accounts, shares>>
  <2>1. account \in DOMAIN accounts /\ skipped \subseteq DOMAIN accounts
    BY <1>1, <1>3 DEF DecisionInv, TypeOK, AccountOK, AfterAccount
  <2>2. Extends(accountSearchCache', accountSearchCache) /\ Extends(volMap', volMap)
    BY <1>3 DEF Extends, Drop
  <2> QED BY <1>1, <1>3, <2>1, <2>2, ReenterKeeps
<1> QED BY <1>2, <1>3 DEF AccountLimitExceeded

\* The server it writes into the map is none of the request's parameters.
LEMMA ServerKept ==
    ASSUME DecisionInv, pc # "idle", req' = req, NEW v, params' = SetKeyValue(params, "server", v)
    PROVE  MapOK'
<1> DEFINE m == Given(req)
<1>1. SUFFICES ASSUME Unambiguous(req) PROVE MapOK'
  BY DEF MapOK
<1>2. /\ \A k \in (DOMAIN params) \cup (DOMAIN m) : k[1] \notin Rewritten =>
             k \in DOMAIN params /\ k \in DOMAIN m /\ params[k] = m[k]
      /\ \/ Values(params, "protocol") = Values(m, "protocol")
         \/ /\ IsNFS(ReadOf(req)) /\ ~Invalid(ReadOf(req))
            /\ T("nfs") \in Values(params, "protocol")
            /\ Values(params, "protocol") \subseteq {T("nfs")} \cup Values(m, "protocol")
      /\ Values(m, "foldername") # {} => Values(params, "foldername") # {}
      /\ \A x \in Values(params, "foldername") :
             \E y \in Values(m, "foldername") : x \in {y, Replace(y, ReadOf(req))}
  BY <1>1 DEF DecisionInv, MapOK
<1>3. /\ Values(params', "protocol") = Values(params, "protocol")
      /\ Values(params', "foldername") = Values(params, "foldername")
      /\ \A k : k[1] # "server" => (k \in DOMAIN params') = (k \in DOMAIN params)
      /\ \A k \in DOMAIN params' : k[1] # "server" => params'[k] = params[k]
  BY SetKeyValueFacts
<1> HIDE DEF m
<1>4. \A k \in (DOMAIN params') \cup (DOMAIN m) : k[1] \notin Rewritten =>
          k \in DOMAIN params' /\ k \in DOMAIN m /\ params'[k] = m[k]
  BY <1>2, <1>3 DEF Rewritten
<1> QED BY <1>1, <1>2, <1>3, <1>4 DEF MapOK, m

\* The server goes into the map.
LEMMA SetServerKeeps == ASSUME DecisionInv, SetServer PROVE DecisionInv'
<1>1. /\ pc = "server" /\ pc' = "check"
      /\ UNCHANGED <<offered, req, azure, memory, answers, calls, faults>>
      /\ UNCHANGED <<f, size, share, account, lockKey, skuKnown, open>>
  BY DEF SetServer, Go, Goto
<1>2. /\ pc \in AfterShare /\ pc' \in AfterShare /\ pc \in AfterAccount /\ pc' \in AfterAccount
  BY <1>1 DEF AfterShare, AfterAccount
<1>3. UNCHANGED <<accounts, shares>> /\ Extends(accounts, accounts')
  BY <1>1 DEF azure, Extends
<1>4. AccountOK'
  BY <1>1, <1>2, <1>3 DEF DecisionInv, AccountOK, Settled, Changed
<1>5. QuotaOK'
  BY <1>1 DEF QuotaOK
<1>6. MapOK'
  <2>1. CASE PrivateEndpoint(f)
    BY <1>1, <2>1, ServerKept DEF SetServer
  <2>2. CASE ~PrivateEndpoint(f)
    BY <1>1, <2>2, MapSame DEF SetServer
  <2> QED BY <2>1, <2>2
<1>7. open \subseteq Open
  BY DEF DecisionInv, TypeOK
<1> QED BY <1>1, <1>2, <1>3, <1>4, <1>5, <1>6, <1>7, StepKeeps, StepTypes, FrameKeeps DEF DecisionInv

\* The quota of a share that exists is large enough.
LEMMA CheckQuotaKeeps == ASSUME DecisionInv, CheckQuota PROVE DecisionInv'
<1> DEFINE quota == FileShareQuota(Target)
           tooSmall == f.usedataplaneapi # True /\ quota # -1 /\ quota < size
<1>1. pc = "check"
  BY DEF CheckQuota
<1>2. CASE tooSmall /\ Respond("AlreadyExists", None) /\ UNCHANGED <<azure, memory, faults>>
  <2>1. faults' \in 0..MaxFaults
    BY <1>2 DEF DecisionInv, TypeOK
  <2> QED BY <1>1, <1>2, <2>1, ErrorKeeps
<1>3. CASE /\ ~tooSmall /\ Go("check", "create")
           /\ UNCHANGED <<params, f, size, share, account, lockKey, skuKnown, open>>
  <2>1. /\ pc' = "create"
        /\ UNCHANGED <<offered, req, azure, memory, answers, calls, faults>>
        /\ UNCHANGED <<params, f, size, share, account, lockKey, skuKnown, open>>
    BY <1>3 DEF Go, Goto
  <2>2. /\ pc \in AfterShare /\ pc' \in AfterShare /\ pc \in AfterAccount /\ pc' \in AfterAccount
    BY <1>1, <2>1 DEF AfterShare, AfterAccount
  <2>3. UNCHANGED <<accounts, shares>> /\ Extends(accounts, accounts')
    BY <2>1 DEF azure, Extends
  <2>4. AccountOK'
    BY <1>1, <2>1, <2>2, <2>3 DEF DecisionInv, AccountOK, Settled, Changed
  <2>5. Target \in DOMAIN shares /\ f.usedataplaneapi # True => shares[Target].quota >= size
    <3>1. SUFFICES ASSUME Target \in DOMAIN shares, f.usedataplaneapi # True
                   PROVE  shares[Target].quota >= size
      OBVIOUS
    <3>2. quota = shares[Target].quota /\ quota \in Nat \ {0} /\ size \in Nat
      BY <3>1 DEF FileShareQuota, DecisionInv, TypeOK
    <3> HIDE DEF quota
    <3> QED BY <1>3, <3>1, <3>2
  <2>6. QuotaOK'
    BY <2>1, <2>3, <2>5 DEF QuotaOK, Target
  <2>7. open \subseteq Open
    BY DEF DecisionInv, TypeOK
  <2> QED BY <1>1, <2>1, <2>2, <2>3, <2>4, <2>6, <2>7, MapSame, StepKeeps, StepTypes, FrameKeeps
          DEF DecisionInv
<1> QED BY <1>2, <1>3 DEF CheckQuota

------------------------------------------------------------------------------
(* The share, and the answer. *)

\* A volume with the parameters of the request is this request's.
LEMMA TheRequest ==
    ASSUME DecisionInv, pc # "idle", NEW r \in offered, Settled(r), r.vol = req.vol
    PROVE  r = req
BY ReqFacts DEF Settled, Changed

\* What is known of a SKU when the account has been chosen.
LEMMA SkuFacts ==
    ASSUME DecisionInv, pc \in AfterAccount, Unambiguous(req)
    PROVE  LET g == Chosen(req)
           IN  /\ IsNFS(f) = IsNFS(g) /\ DataPlane(f) = DataPlane(g)
               /\ f.storageaccount = g.storageaccount /\ f.provisionediops = g.provisionediops
               /\ size = ShareSize(RoundUpGiB(req.half), f.skuname)
               /\ f.storageaccount = <<>> => skuKnown
               /\ f.skuname # g.skuname => skuKnown /\ f.storageaccount # <<>>
               /\ skuKnown /\ f.storageaccount # <<>> =>
                      /\ g.skuname = <<>> /\ account \in DOMAIN accounts
                      /\ f.skuname = accounts[account].options.skuname
                      /\ RoundUpGiB(req.half) < 32
<1>1. pc \in AfterShare /\ pc \in AfterSku
  BY DEF AfterShare, AfterSku
<1> DEFINE g == Chosen(req)
<1>2. /\ Like(f, g) /\ f.protocol = g.protocol
      /\ IF skuKnown /\ f.storageaccount # <<>> THEN g.skuname = <<>>
         ELSE f.skuname = g.skuname
  BY <1>1, AtAccount
<1> HIDE DEF g
<1>3. IsNFS(f) = IsNFS(g) /\ f.storageaccount = g.storageaccount
      /\ f.provisionediops = g.provisionediops
  BY <1>2, TextNames, FlagNames DEF Like, IsNFS
<1>4. DataPlane(f) = DataPlane(g)
  BY <1>2, LikeFacts
<1>5. size = ShareSize(RoundUpGiB(req.half), f.skuname)
  BY <1>1 DEF DecisionInv, SizeOK
<1>6. f.storageaccount # <<>> => account = f.storageaccount[1]
  BY DEF DecisionInv, AccountOK
<1>7. /\ f.storageaccount = <<>> => skuKnown
      /\ skuKnown /\ f.storageaccount # <<>> =>
             /\ f.storageaccount[1] \in DOMAIN accounts /\ RoundUpGiB(req.half) < 32
             /\ f.skuname = accounts[f.storageaccount[1]].options.skuname
  BY <1>1 DEF DecisionInv, SkuOK
<1> QED BY <1>2, <1>3, <1>4, <1>5, <1>6, <1>7 DEF g

\* The share is made as the volume wants it.
LEMMA CreateFileShareKeeps == ASSUME DecisionInv, CreateFileShare PROVE DecisionInv'
<1> DEFINE made == IF DataPlane(f)
                   THEN [Wanted EXCEPT !.nfs = FALSE, !.iops = 0, !.bandwidth = 0]
                   ELSE Wanted
<1>1. /\ pc = "create" /\ pc' = "answer" /\ account \in DOMAIN accounts
      /\ shares' = IF Target \in DOMAIN shares THEN shares ELSE Put(shares, Target, made)
      /\ UNCHANGED <<offered, locals, accounts, skipped, memory, answers, calls, faults>>
  BY DEF CreateFileShare, Goto
<1>2. /\ UNCHANGED <<req, params, f, size, share, account, lockKey, skuKnown, open>>
      /\ UNCHANGED <<accountSearchCache, volMap>> /\ Target' = Target
      /\ pc \in AfterAccount /\ pc' \in AfterAccount /\ pc \in AfterShare /\ pc' \in AfterShare
  BY <1>1 DEF locals, memory, AfterShare, AfterAccount, Target
<1>3. /\ made.vol = req.vol /\ made.quota = size
      /\ ~DataPlane(f) =>
             /\ made.nfs = IsNFS(f)
             /\ f.provisionediops = <<>> => made.iops = DefaultIOPS(size, f.skuname)
  BY DEF Wanted, Provisioned
<1>4. size \in Nat \ {0} /\ TypeOK
  BY <1>1 DEF DecisionInv, TypeOK
<1> HIDE DEF made
<1>5. /\ Extends(accounts, accounts') /\ Extends(shares, shares')
      /\ DOMAIN shares' = DOMAIN shares \cup {Target}
      /\ Target \notin DOMAIN shares => shares'[Target] = made
  BY <1>1 DEF Extends, Put
<1>6. Extends(accountSearchCache', accountSearchCache) /\ Extends(volMap', volMap)
  BY <1>2 DEF Extends
<1>7. TypeOK'
  <2>1. Target[1] = account
    BY DEF Target
  <2>2. \A t \in DOMAIN shares' : t[1] \in DOMAIN accounts /\ shares'[t].quota \in Nat \ {0}
    BY <1>1, <1>3, <1>4, <1>5, <2>1 DEF TypeOK, Extends
  <2> QED BY <1>1, <1>2, <1>4, <2>2 DEF TypeOK
<1>8. SettingsOK' /\ SkuOK' /\ SizeOK'
  BY <1>2, <1>5, StepKeeps
<1>9. AccountOK'
  BY <1>1, <1>2 DEF DecisionInv, AccountOK, Settled, Changed
<1>10. QuotaOK'
  <2>1. f.usedataplaneapi # True => shares'[Target].quota >= size
    <3>1. CASE Target \in DOMAIN shares
      BY <1>1, <1>5, <3>1 DEF DecisionInv, QuotaOK, Extends
    <3>2. CASE Target \notin DOMAIN shares
      BY <1>3, <1>4, <1>5, <3>2
    <3> QED BY <3>1, <3>2
  <2> QED BY <1>2, <1>5, <2>1 DEF QuotaOK
<1>11. MapOK'
  BY <1>1, <1>2, MapSame
<1>12. MemoryOK' /\ AnswersOK' /\ AnswerFits'
  BY <1>1, <1>5, <1>6, ForgettingKeeps, GrowingKeeps
<1>13. AzureOK'
  <2>1. AzureOK
    BY DEF DecisionInv
  <2>2. ASSUME NEW r \in offered, Settled(r), Target \notin DOMAIN shares,
               made.vol = r.vol, ~DataPlane(Chosen(r))
        PROVE  LET g == Chosen(r)
               IN  /\ made.nfs = IsNFS(g)
                   /\ g.provisionediops = <<>> =>
                         \E sku \in {g.skuname, accounts[Target[1]].options.skuname} :
                             /\ sku # g.skuname => g.skuname = <<>> /\ g.storageaccount # <<>>
                                                   /\ RoundUpGiB(r.half) < 32
                             /\ made.quota = ShareSize(RoundUpGiB(r.half), sku)
                             /\ made.iops = DefaultIOPS(made.quota, sku)
    <3>1. r = req /\ Unambiguous(req)
      BY <1>1, <1>3, <2>2, TheRequest DEF Settled
    <3> DEFINE g == Chosen(req)
    <3>2. /\ IsNFS(f) = IsNFS(g) /\ DataPlane(f) = DataPlane(g)
          /\ f.storageaccount = g.storageaccount /\ f.provisionediops = g.provisionediops
          /\ size = ShareSize(RoundUpGiB(req.half), f.skuname)
          /\ f.skuname # g.skuname => skuKnown /\ f.storageaccount # <<>>
          /\ skuKnown /\ f.storageaccount # <<>> =>
                 /\ g.skuname = <<>> /\ f.skuname = accounts[account].options.skuname
                 /\ RoundUpGiB(req.half) < 32
      BY <1>2, <3>1, SkuFacts
    <3> HIDE DEF g
    <3>3. ~DataPlane(f)
      BY <2>2, <3>1, <3>2 DEF g
    <3>4. made.nfs = IsNFS(g) /\ (g.provisionediops = <<>> => made.iops = DefaultIOPS(size, f.skuname))
      BY <1>3, <3>2, <3>3
    <3>5. Target[1] = account
      BY DEF Target
    <3>6. f.skuname \in {g.skuname, accounts[Target[1]].options.skuname}
      BY <3>2, <3>5
    <3>7. f.skuname # g.skuname => g.skuname = <<>> /\ g.storageaccount # <<>>
                                   /\ RoundUpGiB(req.half) < 32
      BY <3>2
    <3> QED BY <1>3, <3>1, <3>2, <3>4, <3>6, <3>7 DEF g
  <2>3. \A r : Settled(r)' = Settled(r)
    BY <1>1 DEF Settled, Changed
  <2>4. ASSUME NEW t \in DOMAIN shares', NEW r \in offered, Settled(r), shares'[t].vol = r.vol,
               ~DataPlane(Chosen(r))
        PROVE  LET g == Chosen(r)
               IN  /\ shares'[t].nfs = IsNFS(g)
                   /\ g.provisionediops = <<>> =>
                         \E sku \in {g.skuname, accounts[t[1]].options.skuname} :
                             /\ sku # g.skuname => g.skuname = <<>> /\ g.storageaccount # <<>>
                                                   /\ RoundUpGiB(r.half) < 32
                             /\ shares'[t].quota = ShareSize(RoundUpGiB(r.half), sku)
                             /\ shares'[t].iops = DefaultIOPS(shares'[t].quota, sku)
    <3>1. CASE t \in DOMAIN shares
      <4>1. shares'[t] = shares[t]
        BY <1>5, <3>1 DEF Extends
      <4> QED BY <2>1, <2>4, <3>1, <4>1 DEF AzureOK
    <3>2. CASE t \notin DOMAIN shares
      <4>1. t = Target /\ Target \notin DOMAIN shares /\ shares'[t] = made
        BY <1>5, <3>2
      <4> QED BY <2>2, <2>4, <4>1
    <3> QED BY <3>1, <3>2
  <2> QED BY <1>1, <2>1, <2>3, <2>4 DEF AzureOK
<1> QED BY <1>7, <1>8, <1>9, <1>10, <1>11, <1>12, <1>13 DEF DecisionInv

\* What is answered of the volume fits what was asked for.
LEMMA VolumeFits ==
    ASSUME DecisionInv, pc = "answer", Settled(req)
    PROVE  LET s == shares[Target]
               p == accounts[account]
           IN  /\ 2 * size >= req.half
               /\ skuKnown => size = ShareSize(size, p.options.skuname)
               /\ s.quota >= size \/ f.usedataplaneapi = True
               /\ s.vol = req.vol /\ ~DataPlane(f) =>
                     /\ s.nfs = IsNFS(f)
                     /\ skuKnown /\ f.provisionediops = <<>> =>
                            s.iops = DefaultIOPS(size, f.skuname)
               /\ f.storageaccount # <<>> \/ Fits(p, Relaxed(f, open))
<1> DEFINE s   == shares[Target]
           p   == accounts[account]
           g   == Chosen(req)
           gib == RoundUpGiB(req.half)
           sku == p.options.skuname
<1>1. pc \in AfterAccount /\ pc # "idle" /\ Target \in DOMAIN shares /\ Unambiguous(req)
  BY DEF AfterAccount, DecisionInv, QuotaOK, Settled
<1>2. gib \in Nat /\ 2 * gib >= req.half
  BY <1>1, ReqFacts, RoundUpFacts
<1>3. /\ IsNFS(f) = IsNFS(g) /\ DataPlane(f) = DataPlane(g)
      /\ f.storageaccount = g.storageaccount /\ f.provisionediops = g.provisionediops
      /\ size = ShareSize(gib, f.skuname)
      /\ f.storageaccount = <<>> => skuKnown
      /\ f.skuname # g.skuname => skuKnown /\ f.storageaccount # <<>>
      /\ skuKnown /\ f.storageaccount # <<>> =>
             /\ g.skuname = <<>> /\ account \in DOMAIN accounts /\ f.skuname = sku /\ gib < 32
  BY <1>1, SkuFacts
<1>4. size \in Nat /\ size >= gib /\ ShareSize(size, f.skuname) = size
  BY <1>2, <1>3, ShareSizeFacts
<1>5. 2 * size >= req.half
  <2>1. req.half \in Nat
    BY <1>1, ReqFacts
  <2> HIDE DEF gib
  <2> QED BY <1>2, <1>4, <2>1
<1>6. s.quota >= size \/ f.usedataplaneapi = True
  BY <1>1 DEF DecisionInv, QuotaOK
<1>7. f.storageaccount = <<>> => account \in DOMAIN accounts /\ Fits(p, Relaxed(f, open))
  BY <1>1 DEF DecisionInv, AccountOK
<1>8. ASSUME skuKnown PROVE size = ShareSize(size, sku)
  <2>1. CASE f.storageaccount # <<>>
    BY <1>3, <1>4, <1>8, <2>1
  <2>2. CASE f.storageaccount = <<>>
    <3> DEFINE h == Relaxed(f, open)
    <3>1. Fits(p, h) /\ h.skuname = f.skuname /\ AccountKind(h) = AccountKind(f)
      <4>1. open \in SUBSET Open /\ "skuname" \notin open
        BY DEF DecisionInv, TypeOK, Open
      <4> QED BY <1>7, <2>2, <4>1, RelaxedFacts
    <3> HIDE DEF h
    <3>2. p.kind = AccountKind(f) /\ f.skuname \in {<<>>, sku}
      BY <3>1 DEF Fits, Compared
    <3>3. CASE f.skuname = sku
      BY <1>4, <3>3
    <3>4. CASE f.skuname = <<>>
      <4>1. p.kind = "StorageV2"
        BY <3>2, <3>4, NoSku DEF AccountKind
      <4>2. ~IsPremium(sku) /\ ~IsV2(sku)
        BY <1>7, <2>2, <4>1 DEF DecisionInv, AzureOK
      <4> HIDE DEF sku
      <4> QED BY <1>4, <4>2, ShareSizeFacts
    <3> QED BY <3>2, <3>3, <3>4
  <2> QED BY <2>1, <2>2
<1>9. ASSUME s.vol = req.vol, ~DataPlane(f)
      PROVE  /\ s.nfs = IsNFS(f)
             /\ skuKnown /\ f.provisionediops = <<>> => s.iops = DefaultIOPS(size, f.skuname)
  <2>1. Target[1] = account
    BY DEF Target
  <2>2. /\ s.nfs = IsNFS(g)
        /\ g.provisionediops = <<>> =>
              \E x \in {g.skuname, sku} :
                  /\ x # g.skuname => g.skuname = <<>> /\ g.storageaccount # <<>> /\ gib < 32
                  /\ s.quota = ShareSize(gib, x) /\ s.iops = DefaultIOPS(s.quota, x)
    BY <1>1, <1>3, <1>9, <2>1, ReqFacts DEF DecisionInv, AzureOK
  <2>3. ASSUME skuKnown, f.provisionediops = <<>> PROVE s.iops = DefaultIOPS(size, f.skuname)
    <3>1. PICK x \in {g.skuname, sku} :
              /\ x # g.skuname => g.skuname = <<>> /\ g.storageaccount # <<>> /\ gib < 32
              /\ s.quota = ShareSize(gib, x) /\ s.iops = DefaultIOPS(s.quota, x)
      BY <1>3, <2>2, <2>3
    <3>2. CASE x = f.skuname
      BY <1>3, <3>1, <3>2
    <3>3. CASE x # f.skuname
      <4>1. f.storageaccount # <<>> /\ x = <<>> /\ f.skuname = sku /\ gib < 32
        BY <1>3, <2>3, <3>1, <3>3
      <4>2. s.quota = gib /\ s.iops = 0
        BY <1>2, <3>1, <4>1, NoSku, ShareSizeFacts DEF DefaultIOPS
      <4>3. f.usedataplaneapi # True
        BY <1>9 DEF DataPlane
      <4>4. ~IsV2(f.skuname)
        <5>1. IsV2(f.skuname) => size > gib
          BY <1>2, <1>3, <4>1, ShareSizeFacts
        <5> HIDE DEF gib, s
        <5> QED BY <1>2, <1>4, <1>6, <4>2, <4>3, <5>1
      <4> QED BY <4>2, <4>4 DEF DefaultIOPS
    <3> QED BY <3>2, <3>3
  <2> QED BY <1>3, <2>2, <2>3
<1> HIDE DEF s, p, g, gib, sku
<1>10. f.storageaccount # <<>> \/ Fits(p, Relaxed(f, open))
  BY <1>7
<1> QED BY <1>5, <1>6, <1>8, <1>9, <1>10 DEF s, p, sku

\* It is answered.
LEMMA AnswerKeeps == ASSUME DecisionInv, Answer PROVE DecisionInv'
<1>1. PICK v :
          /\ pc = "answer" /\ Respond("OK", v) /\ UNCHANGED <<azure, memory, faults>>
          /\ v.f = f /\ v.size = size /\ v.account = account /\ v.share = share
          /\ v.skuKnown = skuKnown /\ v.open = open
  BY DEF Answer
<1> DEFINE new == [req |-> req, kind |-> "OK", volume |-> v]
<1>2. /\ UNCHANGED <<accounts, skipped, shares, accountSearchCache, volMap, offered, calls, faults>>
      /\ answers' = answers \cup {new}
      /\ pc' = "idle" /\ req' = None /\ Fresh
  BY <1>1 DEF Respond, azure, memory
<1>3. new.req = req /\ new.kind = "OK" /\ new.volume = v
  OBVIOUS
<1> HIDE DEF new
<1>4. TypeOK /\ AnswersOK /\ AnswerFits
  BY DEF DecisionInv
<1>5. /\ Extends(accounts, accounts') /\ Extends(shares, shares')
      /\ Extends(accountSearchCache', accountSearchCache) /\ Extends(volMap', volMap)
  BY <1>2 DEF Extends
<1>6. TypeOK'
  BY <1>2, <1>4, <1>5, FreshTypes DEF TypeOK
<1>7. SettingsOK' /\ SkuOK' /\ SizeOK' /\ AccountOK' /\ QuotaOK'
  BY <1>2, FreshKeeps
<1>8. MapOK'
  BY <1>2 DEF MapOK
<1>9. MemoryOK' /\ AzureOK'
  BY <1>2, <1>5, ForgettingKeeps, AzureKeeps
<1>10. AnswersOK'
  <2>1. pc \in AfterAccount /\ pc \in AfterShare /\ pc \in AfterSku /\ pc # "idle"
    BY <1>1 DEF AfterAccount, AfterShare, AfterSku
  <2>2. req \in offered
    BY <2>1, ReqFacts
  <2>3. <<v.account, v.share>> \in DOMAIN shares
    BY <1>1 DEF DecisionInv, QuotaOK, Target
  <2>4. v.size = ShareSize(RoundUpGiB(req.half), v.f.skuname)
    BY <1>1, <2>1 DEF DecisionInv, SizeOK
  <2>5. v.f.storageaccount # <<>> /\ v.skuKnown =>
            /\ v.f.storageaccount[1] \in DOMAIN accounts
            /\ v.f.skuname = accounts[v.f.storageaccount[1]].options.skuname
    BY <1>1, <2>1 DEF DecisionInv, SkuOK
  <2>6. ASSUME Unambiguous(req)
        PROVE  /\ ~Refused(req) /\ IsShareOf(v.share, req)
               /\ \A s \in Settings \ {"foldername", "server", "skuname"} :
                      v.f[s] = Chosen(req)[s]
               /\ v.f.storageaccount = <<>> \/ ~v.skuKnown => v.f.skuname = Chosen(req).skuname
    <3>1. /\ ~Refused(req) /\ Like(f, Chosen(req)) /\ f.protocol = Chosen(req).protocol
          /\ IF skuKnown /\ f.storageaccount # <<>> THEN Chosen(req).skuname = <<>>
             ELSE f.skuname = Chosen(req).skuname
      BY <2>1, <2>6, AtAccount
    <3>2. IsShareOf(share, req)
      BY <2>1, <2>6 DEF DecisionInv, SizeOK
    <3>3. \A s \in Settings \ {"foldername", "server", "skuname"} : f[s] = Chosen(req)[s]
      BY <3>1 DEF Like, Plain
    <3> QED BY <1>1, <3>1, <3>2, <3>3
  <2>7. \A a \in answers' : a \in answers \/ a = new
    BY <1>2
  <2>8. UNCHANGED <<offered, shares, accounts>>
    BY <1>2
  <2> QED BY <1>3, <1>4, <2>2, <2>3, <2>4, <2>5, <2>6, <2>7, <2>8 DEF AnswersOK
<1>11. AnswerFits'
  <2>1. ASSUME Settled(req)
        PROVE  /\ 2 * v.size >= req.half
               /\ v.skuKnown => v.size = ShareSize(v.size, accounts[v.account].options.skuname)
               /\ \/ shares[<<v.account, v.share>>].quota >= v.size
                  \/ v.f.usedataplaneapi = True
               /\ shares[<<v.account, v.share>>].vol = req.vol /\ ~DataPlane(v.f) =>
                     /\ shares[<<v.account, v.share>>].nfs = IsNFS(v.f)
                     /\ v.skuKnown /\ v.f.provisionediops = <<>> =>
                            shares[<<v.account, v.share>>].iops = DefaultIOPS(v.size, v.f.skuname)
               /\ \/ v.f.storageaccount # <<>>
                  \/ Fits(accounts[v.account], Relaxed(v.f, v.open))
    BY <1>1, <2>1, VolumeFits DEF Target
  <2>2. \A a \in answers' : a \in answers \/ a = new
    BY <1>2
  <2>3. UNCHANGED <<offered, shares, accounts>>
    BY <1>2
  <2>4. \A r : Changed(r)' = Changed(r)
    BY <1>2 DEF Changed
  <2> QED BY <1>3, <1>4, <2>1, <2>2, <2>3, <2>4 DEF AnswerFits, Settled
<1> QED BY <1>6, <1>7, <1>8, <1>9, <1>10, <1>11 DEF DecisionInv

\* A request fails.
LEMMA RequestFailsKeeps == ASSUME DecisionInv, RequestFails PROVE DecisionInv'
<1>1. pc # "idle" /\ Respond("Internal", None) /\ UNCHANGED <<azure, memory>>
  BY DEF RequestFails, SkuWanted, Search
<1>2. faults' \in 0..MaxFaults
  <2>1. faults \in 0..MaxFaults
    BY DEF DecisionInv, TypeOK
  <2> QED BY <2>1, FaultFacts DEF RequestFails
<1> QED BY <1>1, <1>2, ErrorKeeps

\* An account found is forgotten.
LEMMA CacheExpiresKeeps == ASSUME DecisionInv, CacheExpires PROVE DecisionInv'
<1>1. /\ UNCHANGED <<offered, pc, req, params, f, size, share, account, lockKey, skuKnown, open>>
      /\ UNCHANGED <<accounts, skipped, shares, volMap, answers, calls>>
      /\ faults' \in 0..MaxFaults
      /\ \E key \in DOMAIN accountSearchCache :
             accountSearchCache' = Drop(accountSearchCache, key)
  BY FaultFacts DEF CacheExpires, locals, azure
<1>2. /\ Extends(accountSearchCache', accountSearchCache) /\ Extends(volMap', volMap)
      /\ Extends(accounts, accounts') /\ Extends(shares, shares')
  BY <1>1 DEF Extends, Drop
<1>3. TypeOK'
  <2>1. TypeOK
    BY DEF DecisionInv
  <2> QED BY <1>1, <1>2, <2>1 DEF TypeOK, Extends
<1>4. MapOK' /\ SettingsOK' /\ SkuOK' /\ SizeOK'
  BY <1>1 DEF DecisionInv, MapOK, SettingsOK, SkuOK, SizeOK
<1>5. AccountOK' /\ QuotaOK'
  BY <1>1 DEF DecisionInv, AccountOK, QuotaOK, Settled, Changed, Target
<1>6. MemoryOK' /\ AzureOK' /\ AnswersOK' /\ AnswerFits'
  BY <1>1, <1>2, ForgettingKeeps, AzureKeeps, GrowingKeeps
<1> QED BY <1>3, <1>4, <1>5, <1>6 DEF DecisionInv

\* The driver restarts.
LEMMA RestartKeeps == ASSUME DecisionInv, Restart PROVE DecisionInv'
<1>1. /\ pc' = "idle" /\ req' = None /\ Fresh
      /\ accountSearchCache' = NoMap /\ volMap' = NoMap
      /\ UNCHANGED <<offered, accounts, skipped, shares, answers, calls>>
      /\ faults' \in 0..MaxFaults
  BY FaultFacts DEF Restart, azure
<1>2. /\ Extends(accountSearchCache', accountSearchCache) /\ Extends(volMap', volMap)
      /\ Extends(accounts, accounts') /\ Extends(shares, shares')
  BY <1>1 DEF Extends, NoMap
<1>3. TypeOK'
  <2>1. skipped' \subseteq DOMAIN accounts /\ calls' \in 0..MaxCalls
    BY <1>1 DEF DecisionInv, TypeOK
  <2> QED BY <1>1, <1>2, <2>1, FreshTypes
<1>4. SettingsOK' /\ SkuOK' /\ SizeOK' /\ AccountOK' /\ QuotaOK'
  BY <1>1, FreshKeeps
<1>5. MapOK'
  BY <1>1 DEF MapOK
<1>6. MemoryOK' /\ AzureOK' /\ AnswersOK' /\ AnswerFits'
  BY <1>1, <1>2, ForgettingKeeps, AzureKeeps, GrowingKeeps
<1> QED BY <1>3, <1>4, <1>5, <1>6 DEF DecisionInv


------------------------------------------------------------------------------
(* Texts. *)

\* A sequence of anything is a text.
LEMMA SeqIsText ==
    ASSUME NEW S, NEW t \in Seq(S)
    PROVE  IsText(t) /\ Len(t) \in Nat /\ DOMAIN t = 1..Len(t)
<1> DEFINE R == {t[i] : i \in DOMAIN t}
<1>1. Len(t) \in Nat /\ DOMAIN t = 1..Len(t) /\ t \in [1..Len(t) -> S]
  BY LenProperties
<1>2. t \in [1..Len(t) -> R]
  BY <1>1
<1> HIDE DEF R
<1>3. t \in Seq(R)
  BY <1>1, <1>2, SeqDef
<1> QED BY <1>1, <1>3 DEF IsText, R

\* A text has its words at 1..Len.
LEMMA TextFacts ==
    ASSUME NEW t, IsText(t)
    PROVE  /\ Len(t) \in Nat /\ DOMAIN t = 1..Len(t) /\ t = [i \in DOMAIN t |-> t[i]]
           /\ t # <<>> => Len(t) \in DOMAIN t
<1> DEFINE S == {t[i] : i \in DOMAIN t}
<1>1. t \in Seq(S)
  BY DEF IsText
<1> HIDE DEF S
<1> QED BY <1>1, LenProperties, EmptySeq

\* A word is a text.
LEMMA WordIsText ==
    ASSUME NEW w
    PROVE  IsText(T(w)) /\ Len(T(w)) = 1 /\ DOMAIN T(w) = {1} /\ T(w)[1] = w
<1>1. T(w) \in Seq({w}) /\ Len(T(w)) = 1 /\ T(w)[1] = w
  BY DEF T
<1> QED BY <1>1, SeqIsText

\* Texts are joined.
LEMMA JoinFacts ==
    ASSUME NEW s, NEW t, IsText(s), IsText(t)
    PROVE  /\ IsText(s \o t) /\ Len(s \o t) = Len(s) + Len(t)
           /\ \A i \in DOMAIN s : i \in DOMAIN (s \o t) /\ (s \o t)[i] = s[i]
           /\ \A i \in DOMAIN t : i + Len(s) \in DOMAIN (s \o t) /\ (s \o t)[i + Len(s)] = t[i]
           /\ \A i \in DOMAIN (s \o t) : \/ i \in DOMAIN s /\ (s \o t)[i] = s[i]
                                         \/ \E j \in DOMAIN t : (s \o t)[i] = t[j]
           /\ t # <<>> => s \o t # <<>> /\ Last(s \o t) = Last(t)
<1> DEFINE u == s \o t
           S == {s[i] : i \in DOMAIN s} \cup {t[i] : i \in DOMAIN t}
<1>1. s \in Seq(S) /\ t \in Seq(S)
  BY SeqMonotonic DEF IsText
<1> HIDE DEF S
<1>2. /\ u \in Seq(S) /\ Len(u) = Len(s) + Len(t)
      /\ \A i \in 1 .. Len(s) + Len(t) : u[i] = IF i <= Len(s) THEN s[i] ELSE t[i - Len(s)]
  BY <1>1, ConcatProperties
<1> HIDE DEF u
<1>3. /\ Len(s) \in Nat /\ DOMAIN s = 1..Len(s) /\ Len(t) \in Nat /\ DOMAIN t = 1..Len(t)
      /\ IsText(u) /\ DOMAIN u = 1..Len(u)
  BY <1>2, TextFacts, SeqIsText
<1>4. ASSUME NEW i \in DOMAIN s PROVE i \in DOMAIN u /\ u[i] = s[i]
  BY <1>2, <1>3
<1>5. ASSUME NEW i \in DOMAIN t PROVE i + Len(s) \in DOMAIN u /\ u[i + Len(s)] = t[i]
  <2>1. i + Len(s) \in 1..Len(s) + Len(t) /\ ~(i + Len(s) <= Len(s)) /\ (i + Len(s)) - Len(s) = i
    BY <1>3
  <2> QED BY <1>2, <1>3, <2>1
<1>6. ASSUME NEW i \in DOMAIN u
      PROVE  (i \in DOMAIN s /\ u[i] = s[i]) \/ (\E j \in DOMAIN t : u[i] = t[j])
  <2>1. CASE i <= Len(s)
    BY <1>2, <1>3, <2>1
  <2>2. CASE ~(i <= Len(s))
    <3>1. i - Len(s) \in DOMAIN t
      BY <1>2, <1>3, <2>2
    <3> QED BY <1>2, <1>3, <2>2, <3>1
  <2> QED BY <2>1, <2>2
<1>7. ASSUME t # <<>> PROVE u # <<>> /\ Last(u) = Last(t)
  <2>1. Len(t) \in DOMAIN t
    BY <1>7, TextFacts
  <2>2. Len(t) + Len(s) = Len(u) /\ Len(u) > 0 /\ Len(<<>>) = 0
    BY <1>2, <1>3, <2>1
  <2> QED BY <1>5, <2>1, <2>2 DEF Last
<1> QED BY <1>2, <1>3, <1>4, <1>5, <1>6, <1>7 DEF u

\* A text without variables is not changed.
LEMMA ReplaceNothing ==
    ASSUME NEW t, IsText(t), \A i \in DOMAIN t : t[i] \notin Variables, NEW g
    PROVE  Replace(t, g) = t
<1>1. Replace(t, g) = [i \in DOMAIN t |-> t[i]]
  BY DEF Replace
<1>2. t = [i \in DOMAIN t |-> t[i]]
  BY TextFacts
<1> QED BY <1>1, <1>2

\* Names with UUIDs differ in their length, and from names that end in another word.
LEMMA UuidNameFacts ==
    ASSUME NEW n \in Nat
    PROVE  /\ IsText(UuidName(n)) /\ UuidName(n) # <<>> /\ Len(UuidName(n)) = n + 1
           /\ Last(UuidName(n)) \in {"pvc-file", "uuid"}
           /\ \A i \in DOMAIN UuidName(n) : UuidName(n)[i] \notin Variables
<1> DEFINE s == T("pvc-file")
           t == UuidOf(n)
           u == UuidName(n)
<1>1. IsText(s) /\ Len(s) = 1 /\ s[1] = "pvc-file" /\ DOMAIN s = {1}
  BY WordIsText
<1>2. /\ IsText(t) /\ Len(t) = n /\ DOMAIN t = 1..n
      /\ \A i \in 1..n : t[i] = "uuid"
  <2>1. t \in Seq({"uuid"}) /\ Len(t) = n /\ \A i \in 1..n : t[i] = "uuid"
    BY DEF UuidOf
  <2> QED BY <2>1, SeqIsText
<1>3. u = s \o t
  BY DEF UuidName
<1> HIDE DEF s, t, u
<1>4. /\ IsText(u) /\ Len(u) = n + 1
      /\ \A i \in DOMAIN u : u[i] \in {"pvc-file", "uuid"}
  <2>1. IsText(s \o t) /\ Len(s \o t) = Len(s) + Len(t)
    BY <1>1, <1>2, JoinFacts
  <2>2. ASSUME NEW i \in DOMAIN u PROVE u[i] \in {"pvc-file", "uuid"}
    <3>1. (i \in DOMAIN s /\ u[i] = s[i]) \/ (\E j \in DOMAIN t : u[i] = t[j])
      BY <1>1, <1>2, <1>3, JoinFacts
    <3> QED BY <1>1, <1>2, <3>1
  <2> QED BY <1>1, <1>2, <1>3, <2>1, <2>2
<1>5. u # <<>> /\ Len(u) \in DOMAIN u
  <2>1. Len(<<>>) = 0
    OBVIOUS
  <2> QED BY <1>4, <2>1, TextFacts
<1>6. "pvc-file" \notin Variables /\ "uuid" \notin Variables
  BY DEF Variables
<1> QED BY <1>4, <1>5, <1>6 DEF u, Last

\* The names of volumes.
LEMMA VolFacts ==
    ASSUME NEW r \in Requests
    PROVE  /\ IsText(r.vol) /\ r.vol # <<>> /\ Last(r.vol) \notin {"pvc-file", "uuid"}
           /\ \A i \in DOMAIN r.vol : r.vol[i] \notin Variables
           /\ Head(r.vol) = "pvc" => Len(r.vol) > 1
           /\ \A q \in Requests : Last(q.vol) = Last(r.vol) => q.vol = r.vol
<1>1. /\ IsText(r.vol) /\ r.vol # <<>> /\ (Head(r.vol) = "pvc" => Len(r.vol) > 1)
      /\ \A i \in DOMAIN r.vol : r.vol[i] \notin Variables \cup {"pvc-file", "uuid"}
      /\ \A q \in Requests : Last(q.vol) = Last(r.vol) => q.vol = r.vol
  BY NamesAssumption
<1>2. Len(r.vol) \in DOMAIN r.vol
  BY <1>1, TextFacts
<1> QED BY <1>1, <1>2 DEF Last

\* A share gets the name of its volume, with another prefix.
LEMMA GeneratedIsNamedAfter ==
    ASSUME NEW r \in Requests, NEW g, IsText(g.sharenameprefix),
           \A i \in DOMAIN g.sharenameprefix : g.sharenameprefix[i] \notin Variables
    PROVE  NamedAfter(GeneratedName(g, r.vol), r.vol)
<1> DEFINE vol == r.vol
<1>1. /\ IsText(vol) /\ vol # <<>> /\ (Head(vol) = "pvc" => Len(vol) > 1)
      /\ \A i \in DOMAIN vol : vol[i] \notin Variables
  BY VolFacts
<1> HIDE DEF vol
<1>2. NamedAfter(vol, vol)
  BY <1>1 DEF NamedAfter
<1>3. ASSUME NEW s, NEW t, IsText(s), IsText(t), t # <<>>, Last(t) = Last(vol),
             \A i \in DOMAIN s : s[i] \notin Variables, \A i \in DOMAIN t : t[i] \notin Variables
      PROVE  NamedAfter(s \o t, vol)
  BY <1>3, JoinFacts DEF NamedAfter
<1>4. ASSUME Head(vol) = "pvc", NEW w \in {"pvcn", "pvcd"} PROVE NamedAfter(T(w) \o Tail(vol), vol)
  <2> DEFINE S == {vol[i] : i \in DOMAIN vol}
             t == Tail(vol)
  <2>1. /\ t \in Seq(S) /\ Len(t) = Len(vol) - 1 /\ Len(vol) \in Nat /\ DOMAIN vol = 1..Len(vol)
        /\ \A i \in 1..Len(t) : t[i] = vol[i + 1]
    <3>1. vol \in Seq(S)
      BY <1>1 DEF IsText
    <3> HIDE DEF S
    <3> QED BY <1>1, <3>1, HeadTailProperties, TextFacts
  <2> HIDE DEF S, t
  <2>2. IsText(t) /\ DOMAIN t = 1..Len(t) /\ Len(t) \in Nat
    BY <2>1, SeqIsText
  <2>3. t # <<>> /\ Last(t) = Last(vol) /\ \A i \in DOMAIN t : t[i] \notin Variables
    <3>1. Len(t) > 0 /\ Len(<<>>) = 0
      BY <1>1, <1>4, <2>1
    <3>2. \A i \in DOMAIN t : i + 1 \in DOMAIN vol
      BY <2>1, <2>2
    <3>3. Len(t) \in 1..Len(t) /\ Len(t) + 1 = Len(vol)
      BY <2>1, <2>2, <3>1
    <3> QED BY <1>1, <2>1, <2>2, <3>1, <3>2, <3>3 DEF Last
  <2>4. IsText(T(w)) /\ \A i \in DOMAIN T(w) : T(w)[i] \notin Variables
    BY WordIsText DEF Variables
  <2> QED BY <1>3, <2>2, <2>3, <2>4 DEF t
<1>5. CASE g.sharenameprefix # <<>>
  BY <1>1, <1>3, <1>5 DEF GeneratedName, vol
<1>6. CASE g.sharenameprefix = <<>>
  <2>1. \/ GeneratedName(g, vol) = vol
        \/ \E w \in {"pvcn", "pvcd"} : Head(vol) = "pvc" /\ GeneratedName(g, vol) = T(w) \o Tail(vol)
    BY <1>6 DEF GeneratedName
  <2> QED BY <1>2, <1>4, <2>1 DEF vol
<1> QED BY <1>5, <1>6

------------------------------------------------------------------------------
(* Volume and snapshot IDs. *)

\* The texts of an ID, which are its segments when none has a separator.
LEMMA VolumeIDFacts ==
    ASSUME NEW g, NEW a, NEW name, NEW disk, NEW vol
    PROVE  LET id == IDTexts(g, a, name, disk, vol)
           IN  /\ IsText(id) /\ Len(id) = IF SubOf(g) = DriverSub THEN 6 ELSE 7
               /\ id[1] = g.resourcegroup /\ id[2] = T(a) /\ id[3] = name /\ id[4] = disk
               /\ id[5] = IF g.sharename = <<>> THEN <<>> ELSE vol
               /\ id[6] = g.secretnamespace
               /\ SubOf(g) # DriverSub => id[7] = g.subscriptionid
<1> DEFINE own == IF g.sharename = <<>> THEN <<>> ELSE vol
           six == <<g.resourcegroup, T(a), name, disk, own, g.secretnamespace>>
           S   == {g.resourcegroup, T(a), name, disk, own, g.secretnamespace, g.subscriptionid}
           id  == IDTexts(g, a, name, disk, vol)
<1>1. id = IF SubOf(g) = DriverSub THEN six ELSE Append(six, g.subscriptionid)
  BY DEF IDTexts
<1> HIDE DEF own, id
<1>2. /\ six \in Seq(S) /\ Len(six) = 6
      /\ six[1] = g.resourcegroup /\ six[2] = T(a) /\ six[3] = name /\ six[4] = disk
      /\ six[5] = own /\ six[6] = g.secretnamespace
  OBVIOUS
<1>3. g.subscriptionid \in S
  OBVIOUS
<1> HIDE DEF six, S
<1>4. CASE SubOf(g) = DriverSub
  BY <1>1, <1>2, <1>4, SeqIsText DEF own, id
<1>5. CASE SubOf(g) # DriverSub
  <2>1. /\ id \in Seq(S) /\ Len(id) = 7 /\ id[7] = g.subscriptionid
        /\ \A i \in 1..6 : id[i] = six[i]
    <3> DEFINE sub == g.subscriptionid
    <3>1. id = Append(six, sub) /\ six \in Seq(S) /\ sub \in S
      BY <1>1, <1>2, <1>3, <1>5
    <3> HIDE DEF sub
    <3>2. /\ Append(six, sub) \in Seq(S)
          /\ Len(Append(six, sub)) = Len(six) + 1
      BY <3>1, AppendProperties
    <3>3. \A i \in 1..Len(six) : Append(six, sub)[i] = six[i]
      BY <3>1, AppendProperties
    <3>4. Append(six, sub)[Len(six) + 1] = sub
      BY <3>1, AppendProperties
    <3> QED BY <1>2, <3>1, <3>2, <3>3, <3>4 DEF sub
  <2>2. IsText(id)
    BY <2>1, SeqIsText
  <2> QED BY <1>2, <1>5, <2>1, <2>2 DEF own, id
<1> QED BY <1>4, <1>5

\* The segments of the ID of a volume.
LEMMA SegmentsOf ==
    ASSUME NEW v, NEW r, Separated(v, r)
    PROVE  VolumeID(v.f, v.account, v.share, v.disk, r.vol) =
               IDTexts(v.f, v.account, v.share, v.disk, r.vol)
BY DEF Separated, VolumeID, Segmented

\* An ID, and a snapshot's, says where the volume is.
LEMMA SnapshotFacts ==
    ASSUME NEW id, IsText(id), Len(id) \in 3..7,
           Len(id) = 7 => id[1] # <<>> /\ IsSubscription(id[7])
    PROVE  SnapshotFound(id)
<1> SUFFICES ASSUME Valid(id) PROVE SnapshotFound(id)
  BY DEF SnapshotFound
<1> DEFINE sub  == DeleteTarget(id).sub
           time == T("time")
           S    == {id[i] : i \in DOMAIN id} \cup {time, sub}
           snap == SnapshotID(id, time)
           n    == Len(id)
           i    == GetFileShareInfo(id)
<1>1. IsSubscription(sub)
  BY IDsAssumption DEF DeleteTarget
<1>2. ~IsSubscription(time)
  BY IDsAssumption DEF IsSubscription, T
<1>3. /\ n \in Nat /\ Len(snap) = n + 2
      /\ \A j \in 1..n : snap[j] = id[j]
      /\ snap[n + 1] = time /\ snap[n + 2] = sub
  <2>1. /\ <<time, sub>> \in Seq(S) /\ Len(<<time, sub>>) = 2
        /\ <<time, sub>>[1] = time /\ <<time, sub>>[2] = sub
    OBVIOUS
  <2>2. id \in Seq(S) /\ n \in Nat
    BY TextFacts, SeqMonotonic DEF IsText
  <2> HIDE DEF S, time, sub
  <2>3. snap = id \o <<time, sub>>
    BY DEF SnapshotID, sub
  <2> HIDE DEF snap
  <2>4. /\ Len(snap) = n + 2
        /\ \A j \in 1..n + 2 : snap[j] = IF j <= n THEN id[j] ELSE <<time, sub>>[j - n]
    BY <2>1, <2>2, <2>3, ConcatProperties
  <2>5. (n + 1) - n = 1 /\ (n + 2) - n = 2
    BY <2>2
  <2> QED BY <2>1, <2>2, <2>4, <2>5
<1>4. i.rg = id[1] /\ i.account = id[2] /\ i.share = id[3]
  BY DEF GetFileShareInfo, Segment
<1> DEFINE want == [rg |-> i.rg, account |-> i.account, share |-> i.share, time |-> time, sub |-> sub]
<1>5. snap[1] = i.rg /\ snap[2] = i.account /\ snap[3] = i.share
  BY <1>3, <1>4
<1>6. n = 7 => sub = id[7]
  <2>1. ASSUME n = 7 PROVE sub = id[7]
    <3>1. id[1] # <<>> /\ IsSubscription(id[7])
      BY <2>1
    <3>2. i.sub = id[7]
      BY <2>1, <3>1 DEF GetFileShareInfo, Segment
    <3> QED BY <3>1, <3>2 DEF DeleteTarget
  <2> QED BY <2>1
<1> HIDE DEF time, sub, snap, n, i
<1>7. ASSUME n # 5 PROVE GetInfoFromSnapshotID(snap) = want
  <2>1. CASE n = 3
    BY <1>1, <1>3, <1>5, <2>1 DEF GetInfoFromSnapshotID
  <2>2. CASE n = 4
    BY <1>1, <1>3, <1>5, <2>2 DEF GetInfoFromSnapshotID
  <2>3. CASE n = 6
    BY <1>1, <1>3, <1>5, <2>3 DEF GetInfoFromSnapshotID
  <2>4. CASE n = 7
    BY <1>1, <1>2, <1>3, <1>5, <1>6, <2>4 DEF GetInfoFromSnapshotID, n
  <2>5. n \in 3..7
    BY DEF n
  <2> QED BY <1>7, <2>1, <2>2, <2>3, <2>4, <2>5
<1> QED BY <1>7 DEF SnapshotFound, n, snap, i, time, sub

\* DeleteVolume finds a volume by its ID, and so do the snapshots.
LEMMA DeleteFacts ==
    ASSUME NEW g, NEW a, NEW name, NEW disk, NEW vol, g.resourcegroup # <<>>,
           g.subscriptionid = <<>> \/ IsSubscription(g.subscriptionid)
    PROVE  LET id == IDTexts(g, a, name, disk, vol)
               i  == GetFileShareInfo(id)
           IN  /\ SnapshotFound(id)
               /\ ~Has(disk, "..") /\ ~Has(g.secretnamespace, "..") =>
                   /\ DeleteTarget(id) = [rg |-> g.resourcegroup, sub |-> SubOf(g),
                                          account |-> T(a), share |-> name,
                                          namespace |-> g.secretnamespace]
                   /\ i.rg = g.resourcegroup /\ i.account = T(a) /\ i.share = name
                   /\ i.disk = disk
                   /\ i.sub = IF SubOf(g) = DriverSub THEN <<>> ELSE g.subscriptionid
<1> DEFINE id == IDTexts(g, a, name, disk, vol)
           i  == GetFileShareInfo(id)
<1>1. /\ IsText(id) /\ Len(id) = IF SubOf(g) = DriverSub THEN 6 ELSE 7
      /\ id[1] = g.resourcegroup /\ id[2] = T(a) /\ id[3] = name /\ id[4] = disk
      /\ id[6] = g.secretnamespace
      /\ SubOf(g) # DriverSub => id[7] = g.subscriptionid
  BY VolumeIDFacts
<1>2. SubOf(g) # DriverSub => IsSubscription(g.subscriptionid) /\ SubOf(g) = g.subscriptionid
  BY DEF SubOf
<1> HIDE DEF id
<1>3. SnapshotFound(id)
  <2>1. Len(id) \in 3..7
    BY <1>1
  <2>2. Len(id) = 7 => id[1] # <<>> /\ IsSubscription(id[7])
    BY <1>1, <1>2
  <2> QED BY <1>1, <2>1, <2>2, SnapshotFacts
<1>4. ASSUME ~Has(disk, ".."), ~Has(g.secretnamespace, "..")
      PROVE  /\ DeleteTarget(id) = [rg |-> g.resourcegroup, sub |-> SubOf(g), account |-> T(a),
                                    share |-> name, namespace |-> g.secretnamespace]
             /\ i.rg = g.resourcegroup /\ i.account = T(a) /\ i.share = name /\ i.disk = disk
             /\ i.sub = IF SubOf(g) = DriverSub THEN <<>> ELSE g.subscriptionid
  <2>1. /\ Segment(id, 1) = g.resourcegroup /\ Segment(id, 2) = T(a) /\ Segment(id, 3) = name
        /\ Segment(id, 4) = disk /\ Namespace(id) = g.secretnamespace /\ Len(id) >= 3
    BY <1>1 DEF Segment, Namespace
  <2>2. Segment(id, 7) = IF SubOf(g) = DriverSub THEN <<>> ELSE g.subscriptionid
    BY <1>1 DEF Segment
  <2>3. Valid(id)
    BY <1>4, <2>1 DEF Valid
  <2>4. /\ i.rg = g.resourcegroup /\ i.account = T(a) /\ i.share = name /\ i.disk = disk
        /\ i.namespace = g.secretnamespace
        /\ i.sub = IF SubOf(g) = DriverSub THEN <<>> ELSE g.subscriptionid
    BY <2>1, <2>2, <2>3 DEF GetFileShareInfo
  <2> HIDE DEF i
  <2>5. ~IsSubscription(<<>>)
    BY DEF IsSubscription
  <2>6. (IF IsSubscription(i.sub) THEN i.sub ELSE DriverSub) = SubOf(g)
    BY <1>2, <2>4, <2>5
  <2> QED BY <2>3, <2>4, <2>6 DEF DeleteTarget, i
<1> QED BY <1>3, <1>4 DEF id, i

\* The IDs of volumes the driver did not create.
LEMMA StaticFound == \A id \in StaticIDs : SnapshotFound(id)
BY IDsAssumption, SnapshotFacts

------------------------------------------------------------------------------
(* Where a volume is found. *)

\* What an unambiguous request says under a name.
LEMMA SaidFacts ==
    ASSUME NEW r, Unambiguous(r), NEW n \in Plain \ {"shareaccesstier"}
    PROVE  /\ \A v \in Values(Given(r), n) : v = ReadOf(r)[n]
           /\ Values(Given(r), n) = {} => ReadOf(r)[n] = <<>>
<1> DEFINE m == Given(r)
<1>1. n \in Settings /\ n \notin {"storageaccounttype", "accesstier", "skuname", "shareaccesstier"}
  <2>1. \A x : Setting(x) \notin {"storageaccounttype", "accesstier"}
    BY SettingFacts DEF Setting
  <2> QED BY <2>1 DEF Plain, Settings
<1>2. KeysOf(m, n) = {k \in DOMAIN m : k[1] = n} /\ ReadOf(r)[n] = TextOf(m, n)
  BY <1>1, KeysOfFacts DEF ReadOf
<1>3. n \notin Colliding(m)
  BY DEF Unambiguous
<1>4. ASSUME NEW v \in Values(m, n) PROVE v = ReadOf(r)[n]
  BY <1>1, <1>2, <1>3, <1>4, TextOfAll DEF Values
<1>5. ASSUME Values(m, n) = {} PROVE ReadOf(r)[n] = <<>>
  <2>1. KeysOf(m, n) = {}
    BY <1>2, <1>5 DEF Values
  <2> QED BY <1>2, <2>1 DEF TextOf
<1> QED BY <1>4, <1>5

\* It is in the map of every attempt.
LEMMA MapSays ==
    ASSUME DecisionInv, pc # "idle", Unambiguous(req), NEW n, n \notin Rewritten
    PROVE  Values(params, n) = Values(Given(req), n)
<1>1. \A k \in (DOMAIN params) \cup (DOMAIN Given(req)) : k[1] \notin Rewritten =>
          k \in DOMAIN params /\ k \in DOMAIN Given(req) /\ params[k] = Given(req)[k]
  BY DEF DecisionInv, MapOK
<1> QED BY <1>1 DEF Values

\* The defaults of the resource group and the suffix.
LEMMA ChosenDefaults ==
    ASSUME NEW r
    PROVE  LET read == ReadOf(r)
           IN  /\ Chosen(r).resourcegroup = IF read.resourcegroup = <<>> THEN DriverRG
                                            ELSE read.resourcegroup
               /\ Chosen(r).storageendpointsuffix = IF read.storageendpointsuffix = <<>> THEN T(Suffix)
                                                    ELSE read.storageendpointsuffix
<1> DEFINE read == ReadOf(r)
           v == Validated(read)
<1>1. /\ DOMAIN read = Settings /\ DOMAIN v = Settings /\ DOMAIN Located(r) = Settings
      /\ {"resourcegroup", "storageendpointsuffix"} \subseteq Settings
  BY ChosenFacts, TextNames DEF Plain
<1> HIDE DEF read
<1>2. /\ v.resourcegroup = read.resourcegroup
      /\ v.storageendpointsuffix = read.storageendpointsuffix
  BY <1>1, ValidatedFacts
<1> HIDE DEF v
<1>3. Located(r) = WithEndpoint(v) /\ Chosen(r) = WithSuffix(Located(r))
  BY DEF Located, Chosen, v, read
<1>4. /\ Located(r).resourcegroup = IF v.resourcegroup = <<>> THEN DriverRG ELSE v.resourcegroup
      /\ Located(r).storageendpointsuffix = v.storageendpointsuffix
  BY <1>1, <1>3, WithEndpointFacts
<1>5. /\ Chosen(r).resourcegroup = Located(r).resourcegroup
      /\ Chosen(r).storageendpointsuffix = IF Located(r).storageendpointsuffix = <<>> THEN T(Suffix)
                                           ELSE Located(r).storageendpointsuffix
  BY <1>1, <1>3, WithSuffixFacts DEF WithSuffix
<1> QED BY <1>2, <1>4, <1>5 DEF read

\* The name of a server is a text.
LEMMA ServerFacts ==
    ASSUME NEW a, NEW private, NEW suffix, IsText(suffix)
    PROVE  Server(a, private, suffix) # <<>>
<1> DEFINE name == T(a)
           link == IF private THEN T("privatelink") ELSE <<>>
           file == T("file")
           s == name \o link
           t == s \o file
           u == t \o suffix
<1>1. Server(a, private, suffix) = u
  BY DEF Server, T
<1>2. IsText(<<>>) /\ Len(<<>>) = 0
  BY EmptySeq, SeqIsText
<1>3. /\ IsText(link) /\ Len(link) \in Nat /\ IsText(name) /\ Len(name) = 1
      /\ IsText(file) /\ Len(file) = 1 /\ Len(suffix) \in Nat
  BY <1>2, WordIsText, TextFacts
<1> HIDE DEF name, link, file
<1>4. IsText(s) /\ Len(s) = Len(name) + Len(link)
  BY <1>3, JoinFacts
<1> HIDE DEF s
<1>5. IsText(t) /\ Len(t) = Len(s) + Len(file)
  BY <1>3, <1>4, JoinFacts
<1> HIDE DEF t
<1>6. Len(u) = Len(t) + Len(suffix)
  BY <1>5, JoinFacts
<1> HIDE DEF u
<1> QED BY <1>1, <1>2, <1>3, <1>4, <1>5, <1>6

\* What is read under a name, of the context of an unambiguous request.
LEMMA GetFacts ==
    ASSUME NEW r, Unambiguous(r), NEW n \in Plain \ {"shareaccesstier"}, NEW m,
           Values(m, n) = Values(Given(r), n), NEW d, NEW x \in Get(m, n, d)
    PROVE  \/ x = ReadOf(r)[n] /\ x \in Values(Given(r), n)
           \/ x = d /\ ReadOf(r)[n] = <<>> /\ Values(Given(r), n) = {}
BY SaidFacts DEF Get

\* The volume that is answered is found.
LEMMA AnswerIsFound ==
    ASSUME DecisionInv, PlaceInv, pc = "answer", Unambiguous(req), NoneEmpty(req),
           NEW v, v.f = f, v.account = account, v.share = share,
           v.id = VolumeID(f, account, share, v.disk, req.vol),
           NEW context, v.context = SetKeyValue(context, "secretnamespace", f.secretnamespace),
           \/ context = SetKeyValue(params, "diskname", v.disk)
           \/ context = params /\ v.disk = f.diskname,
           Readable(v, req)
    PROVE  FoundWhereMade(v, req)
<1> DEFINE m    == v.context
           read == ReadOf(req)
           i0   == GetFileShareInfo(v.id)
<1>1. /\ pc # "idle" /\ pc \in AfterShare /\ pc \in AfterAccount /\ pc \in AfterSku
      /\ req \in Requests
  BY ReqFacts DEF AfterSku, AfterShare, AfterAccount
<1>2. /\ Like(f, Chosen(req)) /\ f.protocol = Chosen(req).protocol
      /\ IsNFS(Chosen(req)) = IsNFS(read)
      /\ \A s \in Plain \ {"secretnamespace", "storeaccountkey", "resourcegroup",
                           "storageendpointsuffix"} : f[s] = read[s]
      /\ f.resourcegroup = IF read.resourcegroup = <<>> THEN DriverRG ELSE read.resourcegroup
      /\ f.storageendpointsuffix = IF read.storageendpointsuffix = <<>> THEN T(Suffix)
                                   ELSE read.storageendpointsuffix
  BY <1>1, AtAccount, ChosenFacts, ChosenDefaults, TextNames DEF Like
<1>3. IsNFS(f) = IsNFS(read)
  BY <1>2, TextNames DEF Like, IsNFS
<1>4. /\ f.resourcegroup # <<>> /\ IsText(f.storageendpointsuffix)
      /\ IsText(f.storageaccount) /\ Len(f.storageaccount) <= 1
      /\ f.subscriptionid = <<>> \/ IsSubscription(f.subscriptionid)
  BY <1>1 DEF PlaceInv, WordsOK, Plausible
<1>5. /\ DeleteTarget(v.id) = [rg |-> f.resourcegroup, sub |-> SubOf(f), account |-> T(account),
                               share |-> share, namespace |-> f.secretnamespace]
      /\ i0.rg = f.resourcegroup /\ i0.account = T(account) /\ i0.share = share
      /\ i0.disk = v.disk
      /\ i0.sub = IF SubOf(f) = DriverSub THEN <<>> ELSE f.subscriptionid
  <2>1. v.id = IDTexts(f, account, share, v.disk, req.vol)
    BY SegmentsOf DEF Readable
  <2> QED BY <1>4, <2>1, DeleteFacts DEF Readable
<1> HIDE DEF read, i0
<1>6. /\ Values(m, "secretnamespace") = {f.secretnamespace}
      /\ Values(m, "diskname") = {v.disk}
         \/ (v.disk = f.diskname /\ Values(m, "diskname") = Values(params, "diskname"))
      /\ \A n : n \notin {"secretnamespace", "diskname"} => Values(m, n) = Values(params, n)
  <2>1. /\ Values(m, "secretnamespace") = {f.secretnamespace}
        /\ \A n : n # "secretnamespace" => Values(m, n) = Values(context, n)
    BY SetKeyValueFacts
  <2>2. /\ Values(context, "diskname") = {v.disk}
           \/ (v.disk = f.diskname /\ Values(context, "diskname") = Values(params, "diskname"))
        /\ \A n : n # "diskname" => Values(context, n) = Values(params, n)
    BY SetKeyValueFacts
  <2> HIDE DEF m
  <2> QED BY <2>1, <2>2
<1> HIDE DEF m
<1>7. \A n : n \notin Rewritten => Values(params, n) = Values(Given(req), n)
  BY <1>1, MapSays
<1>8. \A n : n \notin Rewritten \cup {"secretnamespace", "diskname"} =>
          Values(m, n) = Values(Given(req), n)
  BY <1>6, <1>7 DEF Rewritten
\* What the node reads of the account.
<1>9. ASSUME NEW x \in Get(m, "resourcegroup", i0.rg)
      PROVE  (IF x = <<>> THEN DriverRG ELSE x) = f.resourcegroup
  <2>1. x = read.resourcegroup \/ (x = i0.rg /\ read.resourcegroup = <<>>)
    BY <1>8, <1>9, GetFacts, TextNames DEF read, Rewritten
  <2> QED BY <1>2, <1>4, <1>5, <2>1
<1>10. ASSUME NEW x \in Get(m, "subscriptionid", i0.sub)
       PROVE  (IF x = <<>> THEN DriverSub ELSE x) = SubOf(f)
  <2>1. x = f.subscriptionid \/ x = i0.sub
    BY <1>2, <1>8, <1>10, GetFacts, TextNames DEF read, Rewritten
  <2> QED BY <1>5, <2>1 DEF SubOf
<1>11. ASSUME NEW x \in Get(m, "storageaccount", i0.account) PROVE x = T(account)
  <2>1. \/ x = f.storageaccount /\ x \in Values(Given(req), "storageaccount")
        \/ x = i0.account
    BY <1>2, <1>8, <1>11, GetFacts, TextNames DEF read, Rewritten
  <2>2. ASSUME x = f.storageaccount, x \in Values(Given(req), "storageaccount")
        PROVE  x = T(account)
    <3>1. x # <<>>
      BY <2>2 DEF NoneEmpty
    <3>2. account = x[1]
      BY <1>1, <2>2, <3>1 DEF DecisionInv, AccountOK
    <3>3. Len(x) = 1 /\ IsText(x)
      <4>1. IsText(x) /\ Len(x) <= 1
        BY <1>4, <2>2
      <4>2. Len(x) \in Nat /\ DOMAIN x = 1..Len(x) /\ Len(x) \in DOMAIN x
        BY <3>1, <4>1, TextFacts
      <4>3. Len(x) <= 1 /\ Len(x) >= 1
        BY <4>1, <4>2
      <4> QED BY <4>1, <4>2, <4>3
    <3>4. DOMAIN x = {1} /\ x = [j \in DOMAIN x |-> x[j]]
      BY <3>3, TextFacts
    <3>5. T(account) = [j \in {1} |-> account]
      BY WordIsText, TextFacts
    <3> QED BY <3>2, <3>4, <3>5
  <2> QED BY <1>5, <2>1, <2>2
<1>12. ASSUME NEW x \in Get(m, "diskname", i0.disk) PROVE x = v.disk
  <2>1. Values(params, "diskname") = Values(Given(req), "diskname")
    BY <1>7 DEF Rewritten
  <2>2. f.diskname = read.diskname
    BY <1>2, TextNames
  <2>3. CASE Values(m, "diskname") = {v.disk}
    BY <1>12, <2>3 DEF Get
  <2>4. CASE v.disk = f.diskname /\ Values(m, "diskname") = Values(params, "diskname")
    BY <1>5, <1>12, <2>1, <2>2, <2>4, GetFacts, TextNames DEF read
  <2> QED BY <1>6, <2>3, <2>4
<1>13. ASSUME NEW x \in Get(m, "secretnamespace", i0.namespace) PROVE x = f.secretnamespace
  BY <1>6, <1>13 DEF Get
\* What it mounts.
<1> DEFINE metadata == [n \in Settings |-> CHOOSE x \in Get(m, n, <<>>) : TRUE]
<1>14. ASSUME NEW text PROVE Replace(text, metadata) = Replace(text, read)
  <2>1. ASSUME NEW n \in MetadataFields PROVE metadata[n] = read[n]
    <3>1. /\ n \in {"csi.storage.k8s.io/pvc/name", "csi.storage.k8s.io/pvc/namespace",
                   "csi.storage.k8s.io/pv/name"}
          /\ n \in Plain \ {"shareaccesstier"} /\ n \in Settings
      BY <2>1, MetadataNames DEF MetadataFields, MetadataField, Variables, Plain
    <3>2. Values(m, n) = Values(Given(req), n)
      BY <1>8, <3>1 DEF Rewritten
    <3>3. \A x \in Get(m, n, <<>>) : x = read[n]
      BY <3>1, <3>2, GetFacts DEF read
    <3>4. \E x \in Get(m, n, <<>>) : TRUE
      BY DEF Get
    <3> QED BY <3>1, <3>3, <3>4
  <2> HIDE DEF metadata
  <2>2. \A w \in Variables : metadata[MetadataField(w)] = read[MetadataField(w)]
    BY <2>1 DEF MetadataFields
  <2> QED BY <2>2 DEF Replace
<1>15. ASSUME NEW text PROVE Replace(text, f) = Replace(text, read)
  <2>1. \A n \in MetadataFields : f[n] = read[n]
    <3>1. MetadataFields \subseteq Plain \ {"secretnamespace", "storeaccountkey", "resourcegroup",
                                            "storageendpointsuffix"}
      BY MetadataNames DEF MetadataFields, MetadataField, Variables
    <3> QED BY <1>2, <3>1
  <2> QED BY <2>1 DEF Replace, MetadataFields
<1> HIDE DEF metadata
<1>16. ASSUME NEW x \in Get(m, "sharename", i0.share) PROVE Replace(x, metadata) = share
  <2>1. \/ x = f.sharename /\ x \in Values(Given(req), "sharename")
        \/ x = share /\ f.sharename = <<>>
    BY <1>2, <1>5, <1>8, <1>16, GetFacts, TextNames DEF read, Rewritten
  <2>2. ASSUME x = f.sharename, x \in Values(Given(req), "sharename")
        PROVE  Replace(x, metadata) = share
    <3>1. x # <<>>
      BY <2>2 DEF NoneEmpty
    <3>2. x = Chosen(req).sharename
      BY <1>2, <2>2, TextNames DEF Like
    <3>3. share = Replace(x, Chosen(req))
      BY <1>1, <3>1, <3>2 DEF DecisionInv, SizeOK, IsShareOf
    <3>4. Replace(x, Chosen(req)) = Replace(x, f)
      BY <1>2, LikeFacts
    <3> QED BY <1>14, <1>15, <3>3, <3>4
  <2>3. ASSUME x = share, f.sharename = <<>> PROVE Replace(x, metadata) = share
    <3>1. \/ NamedAfter(share, req.vol)
          \/ \E n \in 0..(calls + faults) : share = UuidName(n)
      BY <1>1, <2>3 DEF PlaceInv, NamesOK
    <3>2. 0..(calls + faults) \subseteq Nat
      OBVIOUS
    <3>3. IsText(share) /\ \A j \in DOMAIN share : share[j] \notin Variables
      BY <3>1, <3>2, UuidNameFacts DEF NamedAfter
    <3> QED BY <2>3, <3>3, ReplaceNothing
  <2> QED BY <2>1, <2>2, <2>3
<1> DEFINE folder == IF Values(Given(req), "foldername") = {} THEN {<<>>}
                     ELSE {Replace(x, v.f) : x \in Values(Given(req), "foldername")}
<1>17. ASSUME NEW x \in Get(m, "foldername", <<>>) PROVE Replace(x, metadata) \in folder
  <2>1. /\ Values(m, "foldername") = Values(params, "foldername")
        /\ Values(Given(req), "foldername") # {} => Values(params, "foldername") # {}
        /\ \A y \in Values(params, "foldername") :
               \E z \in Values(Given(req), "foldername") : y \in {z, Replace(z, read)}
    BY <1>1, <1>6 DEF DecisionInv, MapOK, read
  <2>2. CASE Values(Given(req), "foldername") = {}
    <3>1. x = <<>>
      BY <1>17, <2>1, <2>2 DEF Get
    <3>2. Replace(<<>>, metadata) = <<>>
      BY DEF Replace
    <3> QED BY <2>2, <3>1, <3>2
  <2>3. CASE Values(Given(req), "foldername") # {}
    <3>1. x \in Values(params, "foldername")
      BY <1>17, <2>1, <2>3 DEF Get
    <3>2. PICK z \in Values(Given(req), "foldername") : x \in {z, Replace(z, read)}
      BY <2>1, <3>1
    <3>3. Replace(x, read) = Replace(z, read)
      BY <1>1, <3>2, ReplaceFacts DEF read
    <3> QED BY <1>14, <1>15, <2>3, <3>2, <3>3
  <2> QED BY <2>2, <2>3
<1>18. ASSUME NEW x \in Get(m, "protocol", <<>>) PROVE (x = T("nfs")) = IsNFS(f)
  <2>1. Values(m, "protocol") = Values(params, "protocol")
    BY <1>6
  <2>2. CASE IsNFS(f)
    <3>1. Values(params, "protocol") = {T("nfs")}
      BY <1>1, <2>2 DEF PlaceInv, ContextOK
    <3> QED BY <1>18, <2>1, <2>2, <3>1 DEF Get
  <2>3. CASE ~IsNFS(f)
    <3>1. Values(params, "protocol") = Values(Given(req), "protocol")
      BY <1>1, <1>3, <2>3 DEF DecisionInv, MapOK, read
    <3>2. read.protocol # T("nfs")
      BY <1>3, <2>3 DEF IsNFS
    <3>3. <<>> # T("nfs")
      BY DEF T
    <3>4. \A y \in Values(Given(req), "protocol") : y = read.protocol
      <4>1. "protocol" \in Settings
        BY OtherNames
      <4>2. read.protocol = TextOf(Given(req), "protocol")
        BY <4>1 DEF ReadOf, read
      <4>3. KeysOf(Given(req), "protocol") = {k \in DOMAIN Given(req) : k[1] = "protocol"}
        BY KeysOfFacts
      <4>4. "protocol" \notin Colliding(Given(req))
        BY DEF Unambiguous
      <4> QED BY <4>1, <4>2, <4>3, <4>4, TextOfAll DEF Values
    <3>5. x # T("nfs")
      BY <1>18, <2>1, <3>1, <3>2, <3>3, <3>4 DEF Get
    <3>6. IsNFS(f) = FALSE
      BY <2>3 DEF IsNFS
    <3> QED BY <3>5, <3>6
  <2> QED BY <2>2, <2>3
<1>19. PrivateEndpoint(f) = PrivateEndpoint(read)
  BY <1>2, TextNames DEF PrivateEndpoint
<1>20. ASSUME NEW x \in Get(m, "storageendpointsuffix", <<>>)
       PROVE  (IF x = <<>> THEN T(Suffix) ELSE x) = f.storageendpointsuffix
  BY <1>2, <1>8, <1>20, GetFacts, TextNames DEF read, Rewritten
<1> DEFINE own == Server(v.account, PrivateEndpoint(v.f) /\ ~SmbOAuth(v.f),
                         v.f.storageendpointsuffix)
<1>21. ASSUME NEW x \in Get(m, "server", <<>>)
       PROVE  LET server == IF x = <<>> THEN Server(account, FALSE, f.storageendpointsuffix) ELSE x
              IN  \/ server = own
                  \/ ~PrivateEndpoint(f) /\ server \in Values(Given(req), "server")
  <2>1. Values(m, "server") = Values(params, "server")
    BY <1>6
  <2>2. CASE PrivateEndpoint(f)
    <3>1. Values(params, "server") = {Server(account, ~SmbOAuth(f), f.storageendpointsuffix)}
      BY <2>2 DEF PlaceInv, ContextOK
    <3>2. x = Server(account, ~SmbOAuth(f), f.storageendpointsuffix)
      BY <1>21, <2>1, <3>1 DEF Get
    <3>3. x # <<>>
      BY <1>4, <3>2, ServerFacts
    <3>4. (PrivateEndpoint(f) /\ ~SmbOAuth(f)) = ~SmbOAuth(f)
      BY <2>2
    <3> QED BY <3>2, <3>3, <3>4
  <2>3. CASE ~PrivateEndpoint(f)
    <3>1. Values(params, "server") = Values(Given(req), "server")
      BY <1>1, <1>19, <2>3 DEF PlaceInv, ContextOK, read
    <3>2. (PrivateEndpoint(f) /\ ~SmbOAuth(f)) = FALSE
      BY <2>3
    <3>3. CASE x = <<>>
      BY <3>2, <3>3
    <3>4. CASE x # <<>>
      <4>1. x \in Values(Given(req), "server")
        BY <1>21, <2>1, <3>1, <3>4 DEF Get
      <4> QED BY <2>3, <3>4, <4>1
    <3> QED BY <3>3, <3>4
  <2> QED BY <2>2, <2>3
\* All of it.
<1>22. ASSUME NEW i \in GetAccountInfo(v.id, m)
       PROVE  /\ i.rg = f.resourcegroup /\ i.sub = SubOf(f) /\ i.account = T(account)
              /\ i.namespace = f.secretnamespace /\ i.disk = v.disk
              /\ i.share \in Get(m, "sharename", i0.share)
  <2>1. /\ \E x \in Get(m, "resourcegroup", i0.rg) : i.rg = IF x = <<>> THEN DriverRG ELSE x
        /\ \E x \in Get(m, "subscriptionid", i0.sub) : i.sub = IF x = <<>> THEN DriverSub ELSE x
        /\ i.account \in Get(m, "storageaccount", i0.account)
        /\ i.share \in Get(m, "sharename", i0.share)
        /\ i.disk \in Get(m, "diskname", i0.disk)
        /\ i.namespace \in Get(m, "secretnamespace", i0.namespace)
    BY <1>22 DEF GetAccountInfo, i0
  <2> QED BY <2>1, <1>9, <1>10, <1>11, <1>12, <1>13
<1>23. ASSUME NEW i \in GetAccountInfo(v.id, m), NEW x \in NodeReads(i, m)
       PROVE  /\ x.share = share /\ x.folder \in folder /\ x.nfs = IsNFS(f)
              /\ \/ x.server = own
                 \/ ~PrivateEndpoint(f) /\ x.server \in Values(Given(req), "server")
  <2> DEFINE suffixes == {IF y = <<>> THEN T(Suffix) ELSE y :
                              y \in Get(m, "storageendpointsuffix", <<>>)}
  <2> DEFINE nfs     == {y = T("nfs") : y \in Get(m, "protocol", <<>>)}
             Public(suffix) == Server(i.account[1], FALSE, suffix)
             servers == {IF y = <<>> THEN Public(suffix) ELSE y :
                             y \in Get(m, "server", <<>>), suffix \in suffixes}
             folders == {Replace(y, metadata) : y \in Get(m, "foldername", <<>>)}
  <2>0. NodeReads(i, m) = [share : {Replace(i.share, metadata)}, folder : folders, nfs : nfs,
                           server : servers]
    BY DEF NodeReads, metadata
  <2>1. /\ x.share = Replace(i.share, metadata)
        /\ \E y \in Get(m, "foldername", <<>>) : x.folder = Replace(y, metadata)
        /\ \E y \in Get(m, "protocol", <<>>) : x.nfs = (y = T("nfs"))
        /\ \E y \in Get(m, "server", <<>>), suffix \in suffixes :
               x.server = IF y = <<>> THEN Server(i.account[1], FALSE, suffix) ELSE y
    <3> HIDE DEF folders, nfs, servers
    <3>1. /\ x.share = Replace(i.share, metadata)
          /\ x.folder \in folders /\ x.nfs \in nfs /\ x.server \in servers
      BY <1>23, <2>0
    <3>2. \E y \in Get(m, "foldername", <<>>) : x.folder = Replace(y, metadata)
      BY <3>1 DEF folders
    <3>3. \E y \in Get(m, "protocol", <<>>) : x.nfs = (y = T("nfs"))
      BY <3>1 DEF nfs
    <3>4. \E y \in Get(m, "server", <<>>), suffix \in suffixes :
               x.server = IF y = <<>> THEN Public(suffix) ELSE y
      <4> HIDE DEF Public
      <4>1. ASSUME NEW z \in servers
            PROVE  \E y \in Get(m, "server", <<>>), suffix \in suffixes :
                       z = IF y = <<>> THEN Public(suffix) ELSE y
        BY <4>1 DEF servers
      <4> QED BY <3>1, <4>1
    <3> QED BY <3>1, <3>2, <3>3, <3>4
  <2>2. \A suffix \in suffixes : suffix = f.storageendpointsuffix
    BY <1>20
  <2>3. i.account[1] = account
    BY <1>22, WordIsText
  <2> HIDE DEF suffixes, folder, own, nfs, servers, folders
  <2>4. x.share = share
    BY <1>16, <1>22, <2>1
  <2>5. x.folder \in folder
    BY <1>17, <2>1
  <2>6. x.nfs = IsNFS(f)
    BY <1>18, <2>1
  <2>7. \/ x.server = own
        \/ ~PrivateEndpoint(f) /\ x.server \in Values(Given(req), "server")
    BY <1>21, <2>1, <2>2, <2>3
  <2> QED BY <2>4, <2>5, <2>6, <2>7
<1> HIDE DEF folder, own
<1> DEFINE at == [rg |-> v.f.resourcegroup, sub |-> SubOf(v.f), account |-> T(v.account),
                  share |-> v.share, namespace |-> v.f.secretnamespace]
<1>24. DOMAIN at = {"rg", "sub", "account", "share", "namespace"}
  OBVIOUS
<1>25. \A i \in GetAccountInfo(v.id, m) : \A n \in DOMAIN at \ {"share"} : i[n] = at[n]
  BY <1>22, <1>24
<1>26. DeleteTarget(v.id) = at
  BY <1>5
<1> HIDE DEF at
<1> QED BY <1>22, <1>23, <1>25, <1>26 DEF FoundWhereMade, m, folder, own, at

------------------------------------------------------------------------------
(* What is known of places. *)

\* No volume is answered.
NothingMade == \A a : (a \in answers' /\ a.kind = "OK") = (a \in answers /\ a.kind = "OK")

\* The UUIDs there are.
LEMMA CountFacts ==
    ASSUME DecisionInv
    PROVE  calls \in Nat /\ faults \in Nat /\ 0..(calls + faults) \subseteq Nat
BY ParametersAssumption DEF DecisionInv, TypeOK

\* What is answered remains true.
LEMMA PlacesSame ==
    ASSUME PlaceInv, NothingMade
    PROVE  PlacesOK'
BY DEF PlaceInv, PlacesOK, NothingMade

\* So are their sums.
LEMMA SumsAreNat ==
    ASSUME NEW i \in Nat, NEW j \in Nat
    PROVE  i + j \in Nat
OBVIOUS

\* Counts only grow.
LEMMA CountsGrow ==
    ASSUME NEW i \in Nat, NEW j \in Nat, j >= i, NEW n \in 0..i
    PROVE  n \in 0..j /\ (j > i \/ n < i => n < j)
OBVIOUS

\* And so does what is known of names, while attempts are counted.
LEMMA NamesSame ==
    ASSUME DecisionInv, DecisionInv', PlaceInv, NothingMade, calls' + faults' >= calls + faults,
           pc = "idle" /\ pc' # "idle" => calls' + faults' > calls + faults,
           pc' \in AfterShare /\ f'.sharename = <<>> =>
               pc \in AfterShare /\ f.sharename = <<>> /\ share' = share /\ req' = req
    PROVE  NamesOK'
<1> DEFINE i == calls + faults
           j == calls' + faults'
<1>1. i \in Nat /\ j \in Nat
  <2>1. calls' \in 0..MaxCalls /\ faults' \in 0..MaxFaults
    BY DEF DecisionInv, TypeOK
  <2>2. calls' \in Nat /\ faults' \in Nat
    BY ONLY <2>1, ParametersAssumption
  <2>3. calls \in Nat /\ faults \in Nat
    BY CountFacts
  <2> QED BY <2>2, <2>3, SumsAreNat
<1>2. j >= i /\ (pc = "idle" /\ pc' # "idle" => j > i)
  OBVIOUS
<1>3. NamesOK
  BY DEF PlaceInv
<1>4. Generated' = Generated
  BY DEF NothingMade, Generated
<1>5. /\ \A a \in Generated :
            \/ NamedAfter(a.volume.share, a.req.vol)
            \/ \E n \in 0..i : a.volume.share = UuidName(n) /\ (pc # "idle" => n < i)
      /\ pc \in AfterShare /\ f.sharename = <<>> =>
            \/ NamedAfter(share, req.vol)
            \/ /\ \E n \in 0..i : share = UuidName(n)
               /\ \A a \in Generated : a.volume.share # share
  BY <1>3 DEF NamesOK
<1> HIDE DEF i, j
<1>6. ASSUME NEW n \in 0..i
      PROVE  n \in 0..j /\ ((pc # "idle" => n < i) => (pc' # "idle" => n < j))
  BY <1>1, <1>2, CountsGrow
<1>7. \A a \in Generated :
          \/ NamedAfter(a.volume.share, a.req.vol)
          \/ \E n \in 0..j : a.volume.share = UuidName(n) /\ (pc' # "idle" => n < j)
  BY <1>5, <1>6
<1>8. pc' \in AfterShare /\ f'.sharename = <<>> =>
          \/ NamedAfter(share', req'.vol)
          \/ /\ \E n \in 0..j : share' = UuidName(n)
             /\ \A a \in Generated : a.volume.share # share'
  BY <1>5, <1>6
<1>9. \A a, b \in Generated : a.volume.share = b.volume.share => a.req.vol = b.req.vol
  BY <1>3 DEF NamesOK
<1> QED BY <1>4, <1>7, <1>8, <1>9 DEF NamesOK, i, j

\* A step that ends the call without a volume.
LEMMA EndPlaces ==
    ASSUME DecisionInv, DecisionInv', PlaceInv, NothingMade, pc' = "idle",
           calls' = calls, faults' \in {faults, faults + 1}
    PROVE  PlaceInv'
<1>1. pc' \notin AfterShare /\ pc' \notin AfterSku \cup {"sku"}
      /\ pc' \notin {"check", "create", "answer"}
  BY DEF AfterSku, AfterShare, AfterAccount
<1>2. WordsOK' /\ ContextOK'
  BY <1>1 DEF WordsOK, ContextOK
<1>3. calls' + faults' >= calls + faults
  BY CountFacts
<1>4. NamesOK'
  BY <1>1, <1>3, NamesSame
<1> QED BY <1>2, <1>4, PlacesSame DEF PlaceInv

\* A step after the name is chosen, or that leaves the handler alone.
LEMMA StayPlaces ==
    ASSUME DecisionInv, DecisionInv', PlaceInv, UNCHANGED <<req, params, f, share, answers, calls>>,
           faults' \in {faults, faults + 1},
           pc' = pc \/ (pc \in AfterShare /\ pc' \in AfterShare),
           pc' \in {"check", "create", "answer"} =>
               pc \in {"check", "create", "answer"} /\ account' = account
    PROVE  PlaceInv'
<1>1. /\ pc' \notin {"idle", "read"} => pc \notin {"idle", "read"}
      /\ pc' # "idle" => pc # "idle"
      /\ pc' \notin {"idle", "read", "validate"} => pc \notin {"idle", "read", "validate"}
      /\ pc' \in AfterSku \cup {"sku"} => pc \in AfterSku \cup {"sku"}
      /\ pc' \in AfterShare => pc \in AfterShare
  BY DEF AfterSku, AfterShare, AfterAccount
<1>2. WordsOK'
  BY <1>1 DEF PlaceInv, WordsOK
<1>3. ContextOK'
  BY <1>1 DEF PlaceInv, ContextOK
<1>4. NothingMade
  BY DEF NothingMade
<1>5. calls' + faults' >= calls + faults
  BY CountFacts
<1>6. NamesOK'
  BY <1>1, <1>4, <1>5, NamesSame
<1> QED BY <1>2, <1>3, <1>4, <1>6, PlacesSame DEF PlaceInv

\* An error is no volume.
LEMMA ErrorPlaces ==
    ASSUME DecisionInv, DecisionInv', PlaceInv, NEW kind, kind # "OK", Respond(kind, None),
           faults' \in {faults, faults + 1}
    PROVE  PlaceInv'
<1>1. NothingMade /\ pc' = "idle" /\ calls' = calls
  BY DEF NothingMade, Respond
<1> QED BY <1>1, EndPlaces

\* CreateVolume is called.
LEMMA CallPlaces ==
    ASSUME DecisionInv, DecisionInv', PlaceInv, NEW r \in offered, Call(r)
    PROVE  PlaceInv'
<1>1. r \in Requests
  BY DEF DecisionInv, TypeOK, Requests
<1>2. /\ pc = "idle" /\ pc' = "read" /\ req' = r /\ params' = Given(r) /\ answers' = answers
      /\ calls' = calls + 1 /\ faults' = faults
  BY DEF Call, Goto, Given
<1>3. \A k \in DOMAIN Given(r) : Plausible(k[1], Given(r)[k])
  BY <1>1, TextsAssumption DEF Given, Merge
<1>4. WordsOK'
  BY <1>2, <1>3 DEF WordsOK, AfterSku, AfterShare, AfterAccount
<1>5. ContextOK'
  BY <1>2 DEF ContextOK, AfterSku, AfterShare, AfterAccount
<1>6. NothingMade
  BY <1>2 DEF NothingMade
<1>7. calls' + faults' > calls + faults /\ calls' + faults' >= calls + faults
  BY <1>2, CountFacts
<1>8. pc' \notin AfterShare
  BY <1>2 DEF AfterShare, AfterAccount
<1>9. NamesOK'
  BY <1>6, <1>7, <1>8, NamesSame
<1> QED BY <1>4, <1>5, <1>6, <1>9, PlacesSame DEF PlaceInv

\* The map of an attempt that starts over says of the server what the request says.
LEMMA ServerMerged ==
    ASSUME NEW r, Unambiguous(r), NEW m, Values(m, "server") = Values(Given(r), "server")
    PROVE  Values(Merge(r, m), "server") = Values(Given(r), "server")
<1> DEFINE new == Merge(r, m)
           given == Given(r)
<1>1. /\ DOMAIN new = (DOMAIN r.mutable) \cup DOMAIN m
      /\ DOMAIN given = (DOMAIN r.mutable) \cup DOMAIN r.params
      /\ \A k \in DOMAIN r.mutable : new[k] = r.mutable[k] /\ given[k] = r.mutable[k]
      /\ \A k \in (DOMAIN m) \ DOMAIN r.mutable : new[k] = m[k]
  BY DEF Merge, Given
<1>2. \A k, l \in DOMAIN given : k[1] = "server" /\ l[1] = "server" => given[k] = given[l]
  BY DEF Unambiguous, NodeFields
<1> HIDE DEF new, given
<1>3. Values(m, "server") = Values(given, "server")
  BY DEF given
<1>4. ASSUME NEW k \in DOMAIN new, k[1] = "server"
      PROVE  new[k] \in Values(given, "server")
  <2>1. CASE k \in DOMAIN r.mutable
    BY <1>1, <1>4, <2>1 DEF Values
  <2>2. CASE k \in (DOMAIN m) \ DOMAIN r.mutable
    <3>1. m[k] \in Values(m, "server")
      BY <1>4, <2>2 DEF Values
    <3> QED BY <1>1, <1>3, <2>2, <3>1
  <2> QED BY <1>1, <1>4, <2>1, <2>2
<1>5. ASSUME NEW k \in DOMAIN given, k[1] = "server"
      PROVE  given[k] \in Values(new, "server")
  <2>1. given[k] \in Values(m, "server")
    BY <1>3, <1>5 DEF Values
  <2>2. PICK l \in DOMAIN m : l[1] = "server" /\ given[k] = m[l]
    BY <2>1 DEF Values
  <2>3. CASE l \in DOMAIN r.mutable
    BY <1>1, <1>2, <1>5, <2>2, <2>3 DEF Values
  <2>4. CASE l \notin DOMAIN r.mutable
    BY <1>1, <2>2, <2>4 DEF Values
  <2> QED BY <2>3, <2>4
<1>6. Values(new, "server") = Values(given, "server")
  BY <1>4, <1>5 DEF Values
<1> QED BY <1>6 DEF new, given

\* The call starts over.
LEMMA ReenterPlaces ==
    ASSUME DecisionInv, DecisionInv', PlaceInv, pc # "idle", Reenter, Fault
    PROVE  PlaceInv'
<1>1. /\ pc' = "read" /\ req' = req /\ answers' = answers
      /\ params' = Merge(req, IF req.params = NoMap THEN NoMap ELSE params)
      /\ calls' = calls /\ faults' = faults + 1
  BY DEF Reenter, Fault
<1>2. req \in Requests
  BY ReqFacts
<1>3. /\ \A k \in DOMAIN req.mutable : Plausible(k[1], req.mutable[k])
      /\ \A k \in DOMAIN params : k[1] \notin Rewritten => Plausible(k[1], params[k])
  BY <1>2, TextsAssumption DEF PlaceInv, WordsOK
<1>4. \A k \in DOMAIN params' : k[1] \notin Rewritten => Plausible(k[1], params'[k])
  BY <1>1, <1>3 DEF Merge, NoMap
<1>5. WordsOK'
  BY <1>1, <1>4 DEF WordsOK, AfterSku, AfterShare, AfterAccount
<1>6. ASSUME Unambiguous(req), ~PrivateEndpoint(ReadOf(req))
      PROVE  Values(params', "server") = Values(Given(req), "server")
  <2>1. CASE req.params = NoMap
    BY <1>1, <2>1 DEF Given
  <2>2. CASE req.params # NoMap
    BY <1>1, <1>6, <2>2, ServerMerged DEF PlaceInv, ContextOK
  <2> QED BY <2>1, <2>2
<1>7. ContextOK'
  BY <1>1, <1>6 DEF ContextOK, AfterSku, AfterShare, AfterAccount
<1>8. NothingMade
  BY <1>1 DEF NothingMade
<1>9. calls' + faults' >= calls + faults /\ pc' \notin AfterShare
  BY <1>1, CountFacts DEF AfterShare, AfterAccount
<1>10. NamesOK'
  BY <1>1, <1>8, <1>9, NamesSame
<1> QED BY <1>5, <1>7, <1>8, <1>10, PlacesSame DEF PlaceInv

\* The account has too many shares, or too much capacity.
LEMMA OverLimitPlaces ==
    ASSUME DecisionInv, DecisionInv', PlaceInv, OverQuota \/ AccountLimitExceeded
    PROVE  PlaceInv'
<1>1. CASE OverQuota
  BY <1>1, ReenterPlaces DEF OverQuota
<1>2. CASE AccountLimitExceeded
  <2>1. pc # "idle" /\ Fault
    BY <1>2 DEF AccountLimitExceeded
  <2>2. CASE Respond("Internal", None)
    BY <2>1, <2>2, ErrorPlaces DEF Fault
  <2>3. CASE Reenter
    BY <2>1, <2>3, ReenterPlaces
  <2> QED BY <1>2, <2>2, <2>3 DEF AccountLimitExceeded
<1> QED BY <1>1, <1>2

\* It reads the parameters.
LEMMA ReadParametersPlaces ==
    ASSUME DecisionInv, DecisionInv', PlaceInv, ReadParameters
    PROVE  PlaceInv'
<1>1. CASE Reject
  BY <1>1, ErrorPlaces DEF Reject
<1>2. CASE ~Reject
  <2>1. /\ pc = "read" /\ pc' = "validate" /\ UNCHANGED <<req, params, answers, calls, faults>>
        /\ \E last \in [Colliding(params) -> DOMAIN params] :
              /\ \A s \in Colliding(params) : last[s] \in KeysOf(params, s)
              /\ f' = [s \in Settings |-> IF s \in Colliding(params) THEN params[last[s]]
                                          ELSE TextOf(params, s)]
    BY <1>2 DEF ReadParameters, Go, Goto
  <2>2. PICK last \in [Colliding(params) -> DOMAIN params] :
            /\ \A s \in Colliding(params) : last[s] \in KeysOf(params, s)
            /\ f' = [s \in Settings |-> IF s \in Colliding(params) THEN params[last[s]]
                                        ELSE TextOf(params, s)]
    BY <2>1
  <2>3. ASSUME NEW n \in {"sharenameprefix", "subscriptionid", "storageaccount",
                          "storageendpointsuffix"}
        PROVE  Plausible(n, f'[n])
    <3>1. n \in Settings /\ n \notin Rewritten /\ KeysOf(params, n) = {k \in DOMAIN params : k[1] = n}
      BY TextNames, KeysOfFacts DEF Plain, Rewritten
    <3>2. \A k \in KeysOf(params, n) : Plausible(n, params[k])
      BY <2>1, <3>1 DEF PlaceInv, WordsOK
    <3>3. CASE n \in Colliding(params)
      BY <2>2, <3>1, <3>2, <3>3
    <3>4. CASE n \notin Colliding(params) /\ KeysOf(params, n) # {}
      BY <2>2, <3>1, <3>2, <3>4, TextOfFacts
    <3>5. CASE n \notin Colliding(params) /\ KeysOf(params, n) = {}
      <4>1. f'[n] = <<>>
        BY <2>2, <3>1, <3>5 DEF TextOf
      <4>2. Len(<<>>) = 0 /\ <<>> \in Seq({})
        OBVIOUS
      <4>3. IsText(<<>>)
        BY <4>2, SeqIsText
      <4> QED BY <4>1, <4>2, <4>3 DEF Plausible
    <3> QED BY <3>3, <3>4, <3>5
  <2>4. WordsOK'
    BY <2>1, <2>3 DEF PlaceInv, WordsOK, AfterSku, AfterShare, AfterAccount
  <2>5. ContextOK'
    BY <2>1 DEF PlaceInv, ContextOK, AfterSku, AfterShare, AfterAccount
  <2>6. NothingMade /\ calls' + faults' >= calls + faults /\ pc' \notin AfterShare
    BY <2>1, CountFacts DEF NothingMade, AfterShare, AfterAccount
  <2>7. NamesOK'
    BY <2>1, <2>6, NamesSame
  <2> QED BY <2>4, <2>5, <2>6, <2>7, PlacesSame DEF PlaceInv
<1> QED BY <1>1, <1>2

\* It checks them; the prefix of the names of shares has no variables.
LEMMA ValidatePlaces ==
    ASSUME DecisionInv, DecisionInv', PlaceInv, Validate
    PROVE  PlaceInv'
<1>1. CASE Reject
  BY <1>1, ErrorPlaces DEF Reject
<1>2. CASE ~Reject
  <2>1. /\ pc = "validate" /\ pc' = "endpoint" /\ UNCHANGED <<req, params, answers, calls, faults>>
        /\ f' = Validated(f) /\ ~Invalid(f) /\ DOMAIN f = Settings
    BY <1>2 DEF Validate, Go, Goto, DecisionInv, TypeOK
  <2>2. \A n \in {"sharenameprefix", "subscriptionid", "storageaccount",
                  "storageendpointsuffix"} : f'[n] = f[n]
    BY <2>1, ValidatedFacts, TextNames DEF Plain
  <2>3. \A i \in DOMAIN f.sharenameprefix : f.sharenameprefix[i] \notin Variables
    BY <2>1 DEF Invalid, SupportedShareNamePrefix
  <2>4. WordsOK'
    BY <2>1, <2>2, <2>3 DEF PlaceInv, WordsOK, AfterSku, AfterShare, AfterAccount
  <2>5. ContextOK'
    BY <2>1 DEF PlaceInv, ContextOK, AfterSku, AfterShare, AfterAccount
  <2>6. NothingMade /\ calls' + faults' >= calls + faults /\ pc' \notin AfterShare
    BY <2>1, CountFacts DEF NothingMade, AfterShare, AfterAccount
  <2>7. NamesOK'
    BY <2>1, <2>6, NamesSame
  <2> QED BY <2>4, <2>5, <2>6, <2>7, PlacesSame DEF PlaceInv
<1> QED BY <1>1, <1>2

\* It configures the endpoint, with NFS in the map.
LEMMA ConfigureEndpointPlaces ==
    ASSUME DecisionInv, DecisionInv', PlaceInv, ConfigureEndpoint
    PROVE  PlaceInv'
<1>1. CASE Reject
  BY <1>1, ErrorPlaces DEF Reject
<1>2. CASE ~Reject
  <2>1. /\ pc = "endpoint" /\ pc' = "sku" /\ UNCHANGED <<req, answers, calls, faults>>
        /\ f' = WithEndpoint(f) /\ DOMAIN f = Settings
        /\ params' = IF IsNFS(f) THEN SetKeyValue(params, "protocol", T("nfs")) ELSE params
    BY <1>2 DEF ConfigureEndpoint, Go, Goto, DecisionInv, TypeOK
  <2>2. /\ \A n \in {"sharenameprefix", "subscriptionid", "storageaccount",
                     "storageendpointsuffix"} : f'[n] = f[n]
        /\ f'.resourcegroup # <<>> /\ IsNFS(f)' = IsNFS(f)
    <3>1. f'.resourcegroup # <<>>
      BY <2>1, WithEndpointFacts, IDsAssumption
    <3>2. IsNFS(f') = IsNFS(f)
      BY <2>1, WithEndpointFacts
    <3>3. IsNFS(f)' = IsNFS(f)
      BY <3>2 DEF IsNFS
    <3> QED BY <2>1, <3>1, <3>3, WithEndpointFacts, TextNames DEF Plain
  <2>3. /\ Values(params', "server") = Values(params, "server")
        /\ IsNFS(f) => Values(params', "protocol") = {T("nfs")}
        /\ \A k : k[1] # "protocol" => (k \in DOMAIN params') = (k \in DOMAIN params)
        /\ \A k \in DOMAIN params' : k[1] # "protocol" => params'[k] = params[k]
    BY <2>1, SetKeyValueFacts
  <2>4. \A k \in DOMAIN params' : k[1] \notin Rewritten => Plausible(k[1], params'[k])
    BY <2>1, <2>3 DEF PlaceInv, WordsOK, Rewritten
  <2>5. WordsOK'
    BY <2>1, <2>2, <2>4 DEF PlaceInv, WordsOK
  <2>6. ContextOK'
    BY <2>1, <2>2, <2>3 DEF PlaceInv, ContextOK
  <2>7. NothingMade /\ calls' + faults' >= calls + faults /\ pc' \notin AfterShare
    BY <2>1, CountFacts DEF NothingMade, AfterShare, AfterAccount
  <2>8. NamesOK'
    BY <2>1, <2>7, NamesSame
  <2> QED BY <2>5, <2>6, <2>7, <2>8, PlacesSame DEF PlaceInv
<1> QED BY <1>1, <1>2

\* It reads the SKU of an account it is given.
LEMMA ReadSkuPlaces ==
    ASSUME DecisionInv, DecisionInv', PlaceInv, ReadSku
    PROVE  PlaceInv'
<1>1. /\ pc = "sku" /\ pc' = "share" /\ UNCHANGED <<req, params, answers, calls>>
      /\ faults' \in {faults, faults + 1}
      /\ \A s \in Settings \ {"skuname"} : f'[s] = f[s]
  BY DEF ReadSku, Goto, Fault, DecisionInv, TypeOK
<1>2. /\ \A n \in {"sharenameprefix", "subscriptionid", "storageaccount",
                   "storageendpointsuffix", "resourcegroup", "fstype", "protocol"} : f'[n] = f[n]
  BY <1>1, TextNames, OtherNames DEF Plain
<1>3. IsNFS(f)' = IsNFS(f)
  BY <1>2 DEF IsNFS
<1>4. WordsOK'
  BY <1>1, <1>2 DEF PlaceInv, WordsOK, AfterSku
<1>5. ContextOK'
  BY <1>1, <1>3 DEF PlaceInv, ContextOK, AfterSku
<1>6. NothingMade /\ pc' \notin AfterShare
  BY <1>1 DEF NothingMade, AfterShare, AfterAccount
<1>7. calls' + faults' >= calls + faults
  BY <1>1, CountFacts
<1>8. NamesOK'
  BY <1>1, <1>6, <1>7, NamesSame
<1> QED BY <1>4, <1>5, <1>6, <1>8, PlacesSame DEF PlaceInv

\* A new UUID is in no name that was answered.
LEMMA NewName ==
    ASSUME DecisionInv, PlaceInv, pc # "idle", NEW a \in Generated
    PROVE  a.volume.share # UuidName(calls + faults)
<1> DEFINE i == calls + faults
<1>1. i \in Nat
  BY CountFacts, SumsAreNat
<1>2. a \in answers /\ a.kind = "OK" /\ a.req \in Requests
  BY DEF Generated, DecisionInv, AnswersOK, TypeOK, Requests
<1>3. CASE NamedAfter(a.volume.share, a.req.vol)
  <2>1. Last(a.volume.share) \notin {"pvc-file", "uuid"}
    BY <1>2, <1>3, VolFacts DEF NamedAfter
  <2> HIDE DEF i
  <2>2. Last(UuidName(i)) \in {"pvc-file", "uuid"}
    BY <1>1, UuidNameFacts
  <2>3. a.volume.share # UuidName(i)
    BY <2>1, <2>2
  <2> QED BY <2>3 DEF i
<1>4. CASE \E n \in 0..i : a.volume.share = UuidName(n) /\ n < i
  <2> HIDE DEF i
  <2>1. PICK n \in 0..i : a.volume.share = UuidName(n) /\ n < i
    BY <1>4
  <2>2. n \in Nat /\ n + 1 # i + 1
    BY <1>1, <2>1
  <2>3. Len(UuidName(n)) = n + 1 /\ Len(UuidName(i)) = i + 1
    BY <1>1, <2>2, UuidNameFacts
  <2>4. a.volume.share # UuidName(i)
    BY <2>1, <2>2, <2>3
  <2> QED BY <2>4 DEF i
<1> QED BY <1>3, <1>4 DEF PlaceInv, NamesOK

\* It refuses tags.
LEMMA RejectTagsPlaces ==
    ASSUME DecisionInv, DecisionInv', PlaceInv, RejectTags
    PROVE  PlaceInv'
BY ErrorPlaces DEF RejectTags, Reject

\* It names the share after the volume, and writes the folder into the map.
LEMMA SizeAndNamePlaces ==
    ASSUME DecisionInv, DecisionInv', PlaceInv, SizeAndName
    PROVE  PlaceInv'
<1>1. /\ pc = "share" /\ pc' = "account" /\ UNCHANGED <<req, answers, calls, faults>>
      /\ f' = WithSuffix(f) /\ DOMAIN f = Settings
      /\ share' = IF f.sharename = <<>> THEN ValidFileShareName(GeneratedName(f, req.vol))
                  ELSE Replace(f.sharename, f)
      /\ \E folder : params' = IF Replace(folder, f) = folder THEN params
                               ELSE SetKeyValue(params, "foldername", Replace(folder, f))
  BY DEF SizeAndName, Go, Goto, DecisionInv, TypeOK
<1>2. PICK folder : params' = IF Replace(folder, f) = folder THEN params
                              ELSE SetKeyValue(params, "foldername", Replace(folder, f))
  BY <1>1
<1>3. /\ \A n \in {"server", "protocol"} : Values(params', n) = Values(params, n)
      /\ \A k : k[1] # "foldername" => (k \in DOMAIN params') = (k \in DOMAIN params)
      /\ \A k \in DOMAIN params' : k[1] # "foldername" => params'[k] = params[k]
  BY <1>2, SetKeyValueFacts
<1>4. /\ \A n \in {"sharenameprefix", "subscriptionid", "storageaccount", "sharename",
                   "resourcegroup"} : f'[n] = f[n]
      /\ f'.storageendpointsuffix \in {f.storageendpointsuffix, T(Suffix)}
      /\ IsNFS(f)' = IsNFS(f)
  <2>1. f'.storageendpointsuffix \in {f.storageendpointsuffix, T(Suffix)}
    BY <1>1, TextNames DEF WithSuffix, Plain
  <2>2. IsNFS(f') = IsNFS(f)
    BY <1>1, WithSuffixFacts
  <2>3. IsNFS(f)' = IsNFS(f)
    BY <2>2 DEF IsNFS
  <2> QED BY <1>1, <2>1, <2>3, WithSuffixFacts, TextNames DEF Plain
<1>5. \A k \in DOMAIN params' : k[1] \notin Rewritten => Plausible(k[1], params'[k])
  BY <1>1, <1>3 DEF PlaceInv, WordsOK, Rewritten
<1>6. Plausible("storageendpointsuffix", f'.storageendpointsuffix)
  BY <1>1, <1>4, WordIsText DEF PlaceInv, WordsOK, Plausible
<1>7. WordsOK'
  BY <1>1, <1>4, <1>5, <1>6 DEF PlaceInv, WordsOK, AfterSku, AfterShare, AfterAccount
<1>8. ContextOK'
  BY <1>1, <1>3, <1>4 DEF PlaceInv, ContextOK, AfterSku, AfterShare, AfterAccount
<1>9. NothingMade
  BY <1>1 DEF NothingMade
<1>10. Generated' = Generated
  BY <1>1 DEF Generated
<1>11. ASSUME f'.sharename = <<>>
       PROVE  \/ NamedAfter(share', req'.vol)
              \/ /\ \E n \in 0..(calls + faults) : share' = UuidName(n)
                 /\ \A a \in Generated : a.volume.share # share'
  <2>1. f.sharename = <<>> /\ req \in Requests
    BY <1>1, <1>4, <1>11, ReqFacts
  <2>2. IsText(f.sharenameprefix)
    BY <1>1 DEF PlaceInv, WordsOK, Plausible
  <2>3. \A i \in DOMAIN f.sharenameprefix : f.sharenameprefix[i] \notin Variables
    BY <1>1 DEF PlaceInv, WordsOK
  <2>4. NamedAfter(GeneratedName(f, req.vol), req.vol)
    BY <2>1, <2>2, <2>3, GeneratedIsNamedAfter
  <2>5. CASE share' = GeneratedName(f, req.vol)
    BY <1>1, <2>4, <2>5
  <2>6. CASE share' = UuidName(calls + faults)
    <3>1. calls + faults \in 0..(calls + faults)
      BY CountFacts
    <3>2. \A a \in Generated : a.volume.share # share'
      BY <1>1, <2>6, NewName
    <3> QED BY <2>6, <3>1, <3>2
  <2> QED BY <1>1, <2>1, <2>5, <2>6 DEF ValidFileShareName
<1>12. NamesOK'
  BY <1>1, <1>10, <1>11 DEF PlaceInv, NamesOK
<1> QED BY <1>7, <1>8, <1>9, <1>12, PlacesSame DEF PlaceInv

\* It writes the server of a private endpoint into the map, which the request has asked for.
LEMMA SetServerPlaces ==
    ASSUME DecisionInv, DecisionInv', PlaceInv, SetServer
    PROVE  PlaceInv'
<1> DEFINE server == Server(account, ~SmbOAuth(f), f.storageendpointsuffix)
<1>1. /\ pc = "server" /\ pc' = "check"
      /\ UNCHANGED <<req, answers, calls, faults, f, share, account>>
      /\ params' = IF PrivateEndpoint(f) THEN SetKeyValue(params, "server", server) ELSE params
  BY DEF SetServer, Go, Goto
<1> HIDE DEF server
<1>2. /\ Values(params', "protocol") = Values(params, "protocol")
      /\ PrivateEndpoint(f) => Values(params', "server") = {server}
      /\ \A k : k[1] # "server" => (k \in DOMAIN params') = (k \in DOMAIN params)
      /\ \A k \in DOMAIN params' : k[1] # "server" => params'[k] = params[k]
  BY <1>1, SetKeyValueFacts
<1>3. \A k \in DOMAIN params' : k[1] \notin Rewritten => Plausible(k[1], params'[k])
  BY <1>1, <1>2 DEF PlaceInv, WordsOK, Rewritten
<1>4. WordsOK'
  BY <1>1, <1>3 DEF PlaceInv, WordsOK, AfterSku, AfterShare, AfterAccount
<1>5. ASSUME Unambiguous(req), ~PrivateEndpoint(ReadOf(req))
      PROVE  params' = params
  <2>1. pc \in AfterShare
    BY <1>1 DEF AfterShare, AfterAccount
  <2>2. PrivateEndpoint(f) = PrivateEndpoint(Chosen(req))
    BY <1>5, <2>1, AtAccount, LikeFacts
  <2>3. Chosen(req).networkendpointtype = ReadOf(req).networkendpointtype
    BY ChosenFacts, TextNames
  <2> QED BY <1>1, <1>5, <2>2, <2>3 DEF PrivateEndpoint
<1>6. Unambiguous(req) /\ ~PrivateEndpoint(ReadOf(req)) =>
          Values(params', "server") = Values(Given(req), "server")
  BY <1>1, <1>5 DEF PlaceInv, ContextOK
<1>7. IsNFS(f) => Values(params', "protocol") = {T("nfs")}
  BY <1>1, <1>2 DEF PlaceInv, ContextOK, AfterSku, AfterShare, AfterAccount
<1>8. ContextOK'
  BY <1>1, <1>2, <1>6, <1>7 DEF ContextOK, server
<1>9. NothingMade /\ pc \in AfterShare
  BY <1>1 DEF NothingMade, AfterShare, AfterAccount
<1>10. calls' + faults' >= calls + faults
  BY <1>1, CountFacts
<1>11. NamesOK'
  BY <1>1, <1>9, <1>10, NamesSame
<1> QED BY <1>4, <1>8, <1>9, <1>11, PlacesSame DEF PlaceInv

\* It chooses, remembers or makes an account and the share, or an account is forgotten.
LEMMA ChoicePlaces ==
    ASSUME DecisionInv, DecisionInv', PlaceInv,
           \/ GivenAccount \/ PinnedAccount \/ CachedAccount \/ EnsureStorageAccount
           \/ RememberAccount \/ CheckQuota \/ CreateFileShare \/ CacheExpires
    PROVE  PlaceInv'
<1>1. CASE GivenAccount \/ PinnedAccount \/ CachedAccount
  <2>1. /\ pc = "account" /\ pc' = "server"
        /\ UNCHANGED <<req, params, f, share, answers, calls, faults>>
    BY <1>1 DEF GivenAccount, PinnedAccount, CachedAccount, Search, UseAccount, Go, Goto
  <2> QED BY <2>1, StayPlaces DEF AfterShare, AfterAccount
<1>2. CASE EnsureStorageAccount \/ RememberAccount
  <2>1. /\ pc \in {"account", "quota"} /\ pc' \in {"quota", "server"}
        /\ UNCHANGED <<req, params, f, share, answers, calls, faults>>
    BY <1>2 DEF EnsureStorageAccount, Search, RememberAccount, Goto, locals
  <2> QED BY <2>1, StayPlaces DEF AfterShare, AfterAccount
<1>3. CASE CheckQuota
  <2>1. CASE Respond("AlreadyExists", None) /\ faults' = faults
    BY <2>1, ErrorPlaces
  <2>2. CASE ~(Respond("AlreadyExists", None) /\ faults' = faults)
    <3>1. /\ pc = "check" /\ pc' = "create"
          /\ UNCHANGED <<req, params, f, share, account, answers, calls, faults>>
      BY <1>3, <2>2 DEF CheckQuota, Go, Goto
    <3> QED BY <3>1, StayPlaces DEF AfterShare, AfterAccount
  <2> QED BY <2>1, <2>2
<1>4. CASE CreateFileShare
  <2>1. /\ pc = "create" /\ pc' = "answer"
        /\ UNCHANGED <<req, params, f, share, account, answers, calls, faults>>
    BY <1>4 DEF CreateFileShare, Goto, locals
  <2> QED BY <2>1, StayPlaces DEF AfterShare, AfterAccount
<1>5. CASE CacheExpires
  <2>1. /\ pc' = pc /\ faults' \in {faults, faults + 1}
        /\ UNCHANGED <<req, params, f, share, account, answers, calls>>
    BY <1>5 DEF CacheExpires, Fault, locals
  <2> QED BY <2>1, StayPlaces
<1> QED BY <1>1, <1>2, <1>3, <1>4, <1>5

\* The volume is answered, with an ID that no other has.
LEMMA AnswerPlaces ==
    ASSUME DecisionInv, DecisionInv', PlaceInv, Answer
    PROVE  PlaceInv'
<1> DEFINE made    == IsDisk(f) /\ (f.diskname = <<>> \/ f.diskname[Len(f.diskname)] # "vhd")
           disk    == IF ~made THEN f.diskname
                      ELSE IF f.sharename = <<>> THEN share \o T("vhd")
                      ELSE Append(Uuid, "vhd")
           context == IF made THEN SetKeyValue(params, "diskname", disk) ELSE params
           v == [f |-> f, size |-> size, account |-> account, share |-> share,
                 disk |-> disk, skuKnown |-> skuKnown, open |-> open,
                 id |-> VolumeID(f, account, share, disk, req.vol),
                 context |-> SetKeyValue(context, "secretnamespace", f.secretnamespace)]
           new == [req |-> req, kind |-> "OK", volume |-> v]
<1>1. /\ pc = "answer" /\ pc' = "idle" /\ UNCHANGED <<calls, faults>>
      /\ answers' = answers \cup {new}
  BY DEF Answer, Respond
<1>2. context = SetKeyValue(params, "diskname", disk) \/ (context = params /\ disk = f.diskname)
  OBVIOUS
<1> HIDE DEF made, disk, context
<1>3. /\ v.f = f /\ v.account = account /\ v.share = share /\ v.disk = disk
      /\ v.id = VolumeID(f, account, share, v.disk, req.vol)
      /\ v.context = SetKeyValue(context, "secretnamespace", f.secretnamespace)
      /\ new.req = req /\ new.kind = "OK" /\ new.volume = v
  OBVIOUS
<1> HIDE DEF v
<1>4. req \in Requests
  BY <1>1, ReqFacts
<1> HIDE DEF new
<1>5. WordsOK' /\ ContextOK'
  BY <1>1 DEF WordsOK, ContextOK, AfterSku, AfterShare, AfterAccount
<1>6. Unambiguous(req) /\ NoneEmpty(req) /\ Readable(v, req) => FoundWhereMade(v, req)
  BY <1>1, <1>2, <1>3, AnswerIsFound
<1>7. ASSUME Separated(v, req) PROVE SnapshotFound(v.id)
  <2>1. f.resourcegroup # <<>> /\ Plausible("subscriptionid", f.subscriptionid)
    BY <1>1 DEF PlaceInv, WordsOK, AfterSku, AfterShare, AfterAccount
  <2>2. v.id = IDTexts(f, account, share, v.disk, req.vol)
    BY <1>3, <1>7, SegmentsOf
  <2> QED BY <2>1, <2>2, DeleteFacts DEF Plausible
<1>8. PlacesOK'
  BY <1>1, <1>3, <1>6, <1>7 DEF PlaceInv, PlacesOK
<1>9. NamesOK /\ pc # "idle" /\ pc \in AfterShare
  BY <1>1 DEF PlaceInv, AfterShare, AfterAccount
<1>10. /\ Generated' \subseteq Generated \cup {new}
       /\ new \in Generated' => f.sharename = <<>>
  BY <1>1, <1>3 DEF Generated
<1>11. ASSUME f.sharename = <<>>
       PROVE  \/ NamedAfter(share, req.vol)
              \/ \E n \in 0..(calls + faults) : share = UuidName(n)
  BY <1>9, <1>11 DEF NamesOK
<1>12. ASSUME NEW a \in Generated'
       PROVE  \/ NamedAfter(a.volume.share, a.req.vol)
              \/ \E n \in 0..(calls + faults) : a.volume.share = UuidName(n)
  BY <1>3, <1>9, <1>10, <1>11, <1>12 DEF NamesOK
<1>13. ASSUME NEW a \in Generated, f.sharename = <<>>, a.volume.share = share
       PROVE  a.req.vol = req.vol
  <2>1. a \in answers /\ a.req \in Requests
    BY DEF Generated, DecisionInv, AnswersOK, TypeOK, Requests
  <2>2. NamedAfter(share, req.vol)
    BY <1>9, <1>13 DEF NamesOK
  <2>3. CASE NamedAfter(a.volume.share, a.req.vol)
    <3>1. Last(a.req.vol) = Last(req.vol)
      BY <1>13, <2>2, <2>3 DEF NamedAfter
    <3> QED BY <1>4, <2>1, <3>1, VolFacts
  <2>4. CASE \E n \in 0..(calls + faults) : a.volume.share = UuidName(n)
    <3>1. PICK n \in 0..(calls + faults) : a.volume.share = UuidName(n)
      BY <2>4
    <3>2. Last(share) \in {"pvc-file", "uuid"}
      BY <1>13, <3>1, CountFacts, UuidNameFacts
    <3>3. Last(share) \notin {"pvc-file", "uuid"}
      BY <1>4, <2>2, VolFacts DEF NamedAfter
    <3> QED BY <3>2, <3>3
  <2> QED BY <1>9, <2>3, <2>4 DEF NamesOK
<1>14. ASSUME NEW a \in Generated', NEW b \in Generated', a.volume.share = b.volume.share
       PROVE  a.req.vol = b.req.vol
  <2>1. CASE a \in Generated /\ b \in Generated
    BY <1>9, <1>14, <2>1 DEF NamesOK
  <2>2. CASE a = new
    BY <1>3, <1>10, <1>13, <1>14, <2>2
  <2>3. CASE b = new
    BY <1>3, <1>10, <1>13, <1>14, <2>3
  <2> QED BY <1>10, <2>1, <2>2, <2>3
<1>15. NamesOK'
  BY <1>1, <1>12, <1>14 DEF NamesOK, AfterShare, AfterAccount
<1> QED BY <1>5, <1>8, <1>15 DEF PlaceInv

\* A request fails, or the driver restarts.
LEMMA FailurePlaces ==
    ASSUME DecisionInv, DecisionInv', PlaceInv, RequestFails \/ Restart
    PROVE  PlaceInv'
<1>1. CASE RequestFails
  <2>1. faults' \in {faults, faults + 1} /\ Respond("Internal", None)
    BY <1>1 DEF RequestFails, Fault
  <2> QED BY <2>1, ErrorPlaces
<1>2. CASE Restart
  <2>1. NothingMade /\ pc' = "idle" /\ calls' = calls /\ faults' \in {faults, faults + 1}
    BY <1>2 DEF Restart, Fault, NothingMade
  <2> QED BY <2>1, EndPlaces
<1> QED BY <1>1, <1>2
------------------------------------------------------------------------------
(* The theorems. *)

\* Every attempt reads the request out of the map, whatever earlier attempts have written
\* into it, and what it derives is what the request alone decides; the account, found,
\* remembered or new, fits.
THEOREM DecisionsInvariance == Spec => []DecisionInv
<1>1. ASSUME Init PROVE DecisionInv
  <2>1. TypeOK
    <3>1. DOMAIN f = Settings
      BY <1>1 DEF Init, NoSettings
    <3>2. DOMAIN shares = {} /\ DOMAIN accountSearchCache = {} /\ DOMAIN volMap = {}
      BY <1>1 DEF Init, NoMap
    <3>3. 0 \in 0..MaxCalls /\ 0 \in 0..MaxFaults
      BY ParametersAssumption
    <3> QED BY <1>1, <3>1, <3>2, <3>3 DEF Init, TypeOK
  <2>2. MapOK /\ SettingsOK /\ SkuOK /\ SizeOK /\ AccountOK /\ QuotaOK
    BY <1>1 DEF Init, MapOK, SettingsOK, SkuOK, SizeOK, AccountOK, QuotaOK, AfterSku,
                AfterShare, AfterAccount
  <2>3. MemoryOK
    BY <1>1 DEF Init, MemoryOK, NoMap
  <2>4. AzureOK
    BY <1>1, AccountsAssumption DEF Init, AzureOK, NoMap
  <2>5. AnswersOK /\ AnswerFits
    BY <1>1 DEF Init, AnswersOK, AnswerFits
  <2> QED BY <2>1, <2>2, <2>3, <2>4, <2>5 DEF DecisionInv
<1>2. ASSUME DecisionInv, [Next]_vars PROVE DecisionInv'
  <2>1. CASE Next
    BY <1>2, <2>1, CallKeeps, ReadParametersKeeps, ValidateKeeps, ConfigureEndpointKeeps,
       ReadSkuKeeps, RejectTagsKeeps, SizeAndNameKeeps, GivenAccountKeeps, PinnedAccountKeeps,
       CachedAccountKeeps, EnsureStorageAccountKeeps, OverQuotaKeeps, RememberAccountKeeps,
       SetServerKeeps, CheckQuotaKeeps, CreateFileShareKeeps, AccountLimitExceededKeeps,
       AnswerKeeps, RequestFailsKeeps, CacheExpiresKeeps, RestartKeeps DEF Next
  <2>2. CASE UNCHANGED vars
    <3>1. /\ UNCHANGED <<offered, pc, req, params, f, size, share, account, lockKey, skuKnown, open>>
          /\ UNCHANGED <<accounts, skipped, shares, accountSearchCache, volMap, answers, calls,
                         faults>>
      BY <2>2 DEF vars, locals, azure, memory
    <3>2. TypeOK' /\ MapOK' /\ SettingsOK' /\ SkuOK' /\ SizeOK'
      BY <1>2, <3>1 DEF DecisionInv, TypeOK, MapOK, SettingsOK, SkuOK, SizeOK
    <3>3. AccountOK' /\ QuotaOK'
      BY <1>2, <3>1 DEF DecisionInv, AccountOK, QuotaOK, Settled, Changed, Target
    <3>4. MemoryOK' /\ AzureOK' /\ AnswersOK' /\ AnswerFits'
      BY <1>2, <3>1, FrameKeeps DEF azure, memory
    <3> QED BY <3>2, <3>3, <3>4 DEF DecisionInv
  <2> QED BY <1>2, <2>1, <2>2
<1> QED BY <1>1, <1>2, PTL DEF Spec

\* Every variable has its type.
THEOREM TypeCorrect == Spec => []TypeOK
<1>1. DecisionInv => TypeOK
  BY DEF DecisionInv
<1> QED BY <1>1, DecisionsInvariance, PTL

\* The capacity, the share and the account of an answer are those asked for.
THEOREM AnswersFit == Spec => []AnswerFits
<1>1. DecisionInv => AnswerFits
  BY DEF DecisionInv
<1> QED BY <1>1, DecisionsInvariance, PTL

\* What a volume is does not depend on the attempt that made it.
THEOREM RetriesDecideTheSame == Spec => []RetryDecidesTheSame
<1>1. ASSUME DecisionInv PROVE RetryDecidesTheSame
  <2>1. ASSUME NEW a \in answers, NEW b \in answers, Unambiguous(a.req), a.req = b.req,
               a.kind \in {"OK", "InvalidArgument"}, b.kind \in {"OK", "InvalidArgument"}
        PROVE  /\ a.kind = b.kind
               /\ a.kind = "OK" /\ a.volume.skuKnown = b.volume.skuKnown =>
                   /\ a.volume.size = b.volume.size
                   /\ \A n \in {"skuname", "protocol", "secretnamespace", "resourcegroup"} :
                         a.volume.f[n] = b.volume.f[n]
                   /\ \/ a.volume.f.sharename # <<>>
                      \/ GeneratedName(a.volume.f, a.req.vol) \notin InvalidNames
                      => a.volume.share = b.volume.share
    <3>1. AnswersOK
      BY <1>1 DEF DecisionInv
    <3>2. a.kind = b.kind
      BY <2>1, <3>1 DEF AnswersOK
    <3>3. SUFFICES ASSUME a.kind = "OK", a.volume.skuKnown = b.volume.skuKnown
                   PROVE  /\ a.volume.size = b.volume.size
                          /\ \A n \in {"skuname", "protocol", "secretnamespace",
                                       "resourcegroup"} : a.volume.f[n] = b.volume.f[n]
                          /\ \/ a.volume.f.sharename # <<>>
                             \/ GeneratedName(a.volume.f, a.req.vol) \notin InvalidNames
                             => a.volume.share = b.volume.share
      BY <3>2
    <3> DEFINE v == a.volume
               w == b.volume
               g == Chosen(a.req)
    <3>4. /\ v.size = ShareSize(RoundUpGiB(a.req.half), v.f.skuname)
          /\ v.f.storageaccount # <<>> /\ v.skuKnown =>
                 v.f.skuname = accounts[v.f.storageaccount[1]].options.skuname
          /\ IsShareOf(v.share, a.req)
          /\ \A s \in Settings \ {"foldername", "server", "skuname"} : v.f[s] = g[s]
          /\ v.f.storageaccount = <<>> \/ ~v.skuKnown => v.f.skuname = g.skuname
      BY <2>1, <3>1, <3>3 DEF AnswersOK
    <3>5. /\ w.size = ShareSize(RoundUpGiB(a.req.half), w.f.skuname)
          /\ w.f.storageaccount # <<>> /\ w.skuKnown =>
                 w.f.skuname = accounts[w.f.storageaccount[1]].options.skuname
          /\ IsShareOf(w.share, a.req)
          /\ \A s \in Settings \ {"foldername", "server", "skuname"} : w.f[s] = g[s]
          /\ w.f.storageaccount = <<>> \/ ~w.skuKnown => w.f.skuname = g.skuname
      BY <2>1, <3>1, <3>2, <3>3 DEF AnswersOK
    <3> HIDE DEF v, w, g
    <3>6. v.skuKnown = w.skuKnown
      BY <3>3 DEF v, w
    <3>7. {"protocol", "secretnamespace", "resourcegroup", "storageaccount", "sharename"}
              \subseteq Settings \ {"foldername", "server", "skuname"}
      BY TextNames, OtherNames DEF Plain
    <3>8. v.f.storageaccount = w.f.storageaccount
      BY <3>4, <3>5, <3>7
    <3>9. v.f.skuname = w.f.skuname
      BY <3>4, <3>5, <3>6, <3>8
    <3>10. \A n \in {"skuname", "protocol", "secretnamespace", "resourcegroup"} : v.f[n] = w.f[n]
      BY <3>4, <3>5, <3>7, <3>9
    <3>11. v.size = w.size
      BY <3>4, <3>5, <3>9
    <3>12. Like(v.f, g) /\ v.f.protocol = g.protocol
      BY <3>4, <3>7 DEF Like, Plain
    <3>13. IsNFS(v.f) = IsNFS(g)
      BY <3>12, TextNames DEF IsNFS, Like
    <3>14. v.f.sharename = g.sharename
           /\ GeneratedName(v.f, a.req.vol) = GeneratedName(g, a.req.vol)
      BY <3>12, <3>13, ShareLike
    <3>15. v.f.sharename # <<>> \/ GeneratedName(v.f, a.req.vol) \notin InvalidNames
               => v.share = w.share
      BY <3>4, <3>5, <3>14 DEF IsShareOf, g
    <3> QED BY <3>10, <3>11, <3>15 DEF v, w
  <2> QED BY <2>1 DEF RetryDecidesTheSame
<1> QED BY <1>1, DecisionsInvariance, PTL

\* Where a volume is, its ID and its context say; and no two volumes have one name.
THEOREM Invariance == Spec => []IInv
<1>1. ASSUME Init PROVE PlaceInv
  <2>1. WordsOK /\ ContextOK
    BY <1>1 DEF Init, WordsOK, ContextOK, AfterSku, AfterShare, AfterAccount
  <2>2. NamesOK /\ PlacesOK
    BY <1>1 DEF Init, NamesOK, PlacesOK, Generated, AfterShare, AfterAccount
  <2> QED BY <2>1, <2>2 DEF PlaceInv
<1>2. ASSUME DecisionInv, DecisionInv', PlaceInv, [Next]_vars PROVE PlaceInv'
  <2>1. CASE Next
    BY <1>2, <2>1, CallPlaces, ReadParametersPlaces, ValidatePlaces, ConfigureEndpointPlaces,
       ReadSkuPlaces, RejectTagsPlaces, SizeAndNamePlaces, ChoicePlaces, OverLimitPlaces, SetServerPlaces,
       AnswerPlaces, FailurePlaces DEF Next
  <2>2. CASE UNCHANGED vars
    <3>1. UNCHANGED <<pc, req, params, f, share, account, answers, calls, faults>>
      BY <2>2 DEF vars, locals
    <3> QED BY <1>2, <3>1, StayPlaces
  <2> QED BY <1>2, <2>1, <2>2
<1> QED BY <1>1, <1>2, DecisionsInvariance, PTL DEF Spec, IInv

\* The node, DeleteVolume and the snapshots find a volume where CreateVolume has made it, when
\* its ID can be read.
THEOREM VolumesAreFound == Spec => []NodeMountsWhatWasMade
<1>1. ASSUME IInv PROVE NodeMountsWhatWasMade
  <2>1. PlacesOK /\ NamesOK /\ AnswersOK /\ offered \in Scenarios
    BY <1>1 DEF IInv, PlaceInv, DecisionInv, TypeOK
  <2>2. ASSUME NEW a \in answers, a.kind = "OK"
        PROVE  /\ Unambiguous(a.req) /\ NoneEmpty(a.req) /\ Readable(a.volume, a.req)
                      => FoundWhereMade(a.volume, a.req)
               /\ Separated(a.volume, a.req) => SnapshotFound(a.volume.id)
    BY <2>1, <2>2 DEF PlacesOK
  <2>3. ASSUME NEW a \in answers, a.kind = "OK", Separated(a.volume, a.req)
        PROVE  LET v == a.volume
               IN  /\ v.id[3] = v.share
                   /\ v.id[5] = IF v.f.sharename = <<>> THEN <<>> ELSE a.req.vol
                   /\ a.req.vol # <<>>
                   /\ v.f.sharename = <<>> => a \in Generated
    <3>1. a.volume.id = IDTexts(a.volume.f, a.volume.account, a.volume.share, a.volume.disk,
                                a.req.vol)
      BY <2>1, <2>3, SegmentsOf DEF PlacesOK
    <3>2. a.req.vol # <<>>
      BY <2>1, VolFacts DEF AnswersOK, Requests
    <3>3. a.volume.f.sharename = <<>> => a \in Generated
      BY <2>3 DEF Generated
    <3> QED BY <3>1, <3>2, <3>3, VolumeIDFacts
  <2>4. ASSUME NEW a \in answers, a.kind = "OK", NEW b \in answers, b.kind = "OK",
               Separated(a.volume, a.req), Separated(b.volume, b.req),
               a.volume.id = b.volume.id
        PROVE  a.req.vol = b.req.vol
    <3>1. CASE a.volume.f.sharename = <<>>
      <4>1. b.volume.f.sharename = <<>>
        BY <2>3, <2>4, <3>1
      <4>2. a \in Generated /\ b \in Generated /\ a.volume.share = b.volume.share
        BY <2>3, <2>4, <3>1, <4>1
      <4> QED BY <2>1, <4>2 DEF NamesOK
    <3>2. CASE a.volume.f.sharename # <<>>
      BY <2>3, <2>4, <3>2
    <3> QED BY <3>1, <3>2
  <2> QED BY <2>2, <2>4, StaticFound DEF NodeMountsWhatWasMade
<1> QED BY <1>1, Invariance, PTL

=============================================================================
