------------------------- MODULE CredentialsProofs -------------------------
(***************************************************************************)
(* Proofs about Credentials, for any number of volumes, accounts, calls    *)
(* and events.                                                             *)
(***************************************************************************)
EXTENDS Credentials, TLAPS

\* The halves of KeysOfTheirAccount that KeysOfSecrets does not give.
KeysOfCaches ==
    \A a \in Accounts \ foreign, side \in Sides : cache[side][a] # None => cache[side][a].key[1] = a
MountedFromTheirs ==
    \A v \in used : Account[v] \notin foreign => mounted[v] \in {Account[v], None}

\* Volumes, their accounts and secrets are of their sets.
LEMMA VolumeFacts ==
    ASSUME TypeOK
    PROVE  /\ used \subseteq Volumes
           /\ \A v \in Volumes : Account[v] \in Accounts /\ SecretOf(v) \in Secrets
           /\ Bound[used] \in 0..MaxEvents /\ MaxEvents \in Nat
BY CredentialsAssumption DEF TypeOK, SecretOf

\* An event, if there is one, is within the bound.
LEMMA EventFacts ==
    ASSUME IInv, Event \/ events' = events
    PROVE  events \in Nat /\ events' \in 0..MaxEvents /\ events' <= Bound[used] /\ events <= events'
BY VolumeFacts DEF IInv, TypeOK, BoundInv, Event

\* A key is not None.
LEMMA KeyIsNotNone == Keys \subseteq Accounts \X Nat /\ None \notin Keys
BY CredentialsAssumption DEF Keys, Generations

\* What a goroutine, a cache or a mount may do that leaves secrets, caches or mounts alone.
LEMMA SameKeys ==
    ASSUME IInv, used' = used, foreign \subseteq foreign'
    PROVE  /\ secret' = secret => KeysOfSecrets'
           /\ cache' = cache => KeysOfCaches'
           /\ mounted' = mounted => MountedFromTheirs'
<1>1. secret' = secret => KeysOfSecrets'
  BY DEF IInv, KeysOfSecrets, SecretOf
<1>2. cache' = cache => KeysOfCaches'
  BY DEF IInv, KeysOfTheirAccount, KeysOfCaches
<1>3. mounted' = mounted => MountedFromTheirs'
  BY DEF IInv, KeysOfTheirAccount, MountedFromTheirs
<1> QED
  BY <1>1, <1>2, <1>3

\* The parts of the invariant.
LEMMA Parts ==
    ASSUME TypeOK', BoundInv', CallInv', KeysInHand', KeysOfSecrets', KeysOfCaches',
           MountedFromTheirs', TicketInv'
    PROVE  IInv'
<1>1. \A v \in used' : Account[v] \in Accounts /\ SecretOf(v)' \in Secrets /\ SecretOf(v)' = SecretOf(v)
  BY CredentialsAssumption DEF TypeOK, SecretOf
<1>2. KeysOfTheirAccount'
  BY <1>1 DEF KeysOfTheirAccount, KeysOfSecrets, KeysOfCaches, MountedFromTheirs
<1> QED
  BY <1>2 DEF IInv

\* A token that is covered stays so while the ticket stays, if who is about to set it goes
\* on, or ends and is excused.
LEMMA TicketKeeps ==
    ASSUME IInv, TypeOK', CallInv', ticket <= ticket' \/ excused', excused => excused',
           \A q \in Procs : path[q] /\ pc[q] \in {"lock", "ticket"} =>
               \/ excused' \/ tokenFile[vol[q]] <= ticket'
               \/ /\ path'[q] /\ pc'[q] \in {"lock", "ticket"}
                  /\ tokenFile[vol[q]] <= tokenFile'[vol'[q]],
           Covered(confirmed'), Covered(sha'), \A v \in Volumes : Covered(tokenFile'[v]),
           \A q \in Procs : (pc'[q] \in {"lock", "store", "mount"} \/ (path'[q] /\ pc'[q] = "ticket"))
                                => Covered(tok'[q])
    PROVE  TicketInv'
<1>1. ASSUME NEW n \in Nat, Covered(n)
      PROVE  \/ n <= ticket' \/ excused'
             \/ \E p \in Procs : path'[p] /\ pc'[p] \in {"lock", "ticket"} /\ n <= tokenFile'[vol'[p]]
  <2>1. /\ ticket \in Nat /\ ticket' \in Nat
        /\ \A v \in Volumes : tokenFile[v] \in Nat /\ tokenFile'[v] \in Nat
    BY DEF IInv, TypeOK
  <2>2. \A q \in Procs : /\ pc[q] # "idle" => vol[q] \in Volumes
                         /\ pc'[q] # "idle" => vol'[q] \in Volumes
    BY CredentialsAssumption DEF IInv, TypeOK, CallInv
  <2>3. CASE n <= ticket \/ excused
    BY <2>1, <2>3
  <2>4. ASSUME NEW q \in Procs, path[q], pc[q] \in {"lock", "ticket"}, n <= tokenFile[vol[q]]
        PROVE  \/ n <= ticket' \/ excused'
               \/ \E p \in Procs : path'[p] /\ pc'[p] \in {"lock", "ticket"} /\ n <= tokenFile'[vol'[p]]
    BY <2>1, <2>2, <2>4
  <2> QED
    BY <1>1, <2>3, <2>4 DEF Covered
<1>2. /\ confirmed' \in Nat /\ sha' \in Nat /\ \A v \in Volumes : tokenFile'[v] \in Nat
      /\ \A q \in Procs : tok'[q] \in Nat
  BY DEF TypeOK
<1> QED
  BY <1>1, <1>2 DEF TicketInv, Covered

\* The end of a call, which may have changed a secret, the volumes that are created or mounted.
LEMMA EndKeeps ==
    ASSUME IInv, NEW p \in Procs, NEW answer \in {"ok", "err"}, End(p, answer), pc[p] # "idle",
           answer = "ok" => pc[p] \in {"mount", "ctlCreate"},
           UNCHANGED <<used, keyNow, token, ticket, tokenFile, cache, sha>>,
           Event \/ events' = events,
           secret' \in [Secrets -> [account : Accounts, key : Keys] \cup {None}], KeysOfSecrets',
           created' \subseteq used,
           mounted' \in [Volumes -> Accounts \cup {None}], MountedFromTheirs',
           foreign \subseteq foreign', foreign' \subseteq Accounts
    PROVE  IInv'
<1>1. /\ \A q \in Procs \ {p} : pc'[q] = pc[q] /\ vol'[q] = vol[q] /\ key'[q] = key[q] /\ tok'[q] = tok[q]
                                /\ acct'[q] = acct[q] /\ path'[q] = path[q]
      /\ pc'[p] = "idle" /\ vol'[p] = None /\ key'[p] = None /\ tok'[p] = 0 /\ acct'[p] = None /\ path'[p] = FALSE
  BY DEF IInv, TypeOK, End, Goto
<1>2. confirmed' \in {confirmed, tok[p]} /\ (confirmed' # confirmed => pc[p] \in {"mount", "ctlCreate"} /\ tok[p] > confirmed)
  BY DEF End
<1>3. excused' \in BOOLEAN /\ (excused => excused') /\ (answer = "err" /\ LeavesTicketBehind(p) => excused')
  BY DEF IInv, TypeOK, End
<1>t. TypeOK'
  <2>1. /\ pc' \in [Procs -> {"idle"} \cup ControllerPCs \cup NodePCs] /\ vol' \in [Procs -> Volumes \cup {None}]
        /\ key' \in [Procs -> Keys \cup {None}] /\ tok' \in [Procs -> 0..(MaxEvents + 1)]
        /\ acct' \in [Procs -> Accounts \cup {None}] /\ path' \in [Procs -> BOOLEAN]
    BY VolumeFacts DEF IInv, TypeOK, End, Goto
  <2>2. late' \subseteq Procs /\ confirmed' \in 0..(MaxEvents + 1)
    BY <1>2 DEF IInv, TypeOK, End
  <2>3. /\ \A q \in locked' : q \in Procs /\ pc'[q] \in {"token", "sha", "ticket", "store", "mount"}
        /\ \A q, r \in locked' : vol'[q] = vol'[r] => q = r
    BY <1>1 DEF IInv, TypeOK, End
  <2>4. events' \in 0..MaxEvents
    BY EventFacts
  <2> QED
    BY <1>3, <2>1, <2>2, <2>3, <2>4 DEF IInv, TypeOK
<1>b. BoundInv'
  <2>1. \A q \in Procs : tok'[q] <= token
    BY <1>1 DEF IInv, BoundInv, TypeOK
  <2>2. /\ token \in Nat /\ \A a \in Accounts : keyNow[a] \in Nat
        /\ token <= events + 1 /\ \A a \in Accounts : keyNow[a] <= events + 1
        /\ confirmed <= token /\ tok[p] <= token
    BY DEF IInv, BoundInv, TypeOK, Generations
  <2>3. confirmed' <= token
    BY <1>2, <2>2
  <2>4. token <= events' + 1 /\ \A a \in Accounts : keyNow[a] <= events' + 1
    BY <2>2, EventFacts
  <2> QED
    BY <2>1, <2>3, <2>4, EventFacts DEF IInv, BoundInv
<1>c. CallInv'
  BY <1>1 DEF IInv, CallInv, ControllerPCs
<1>k. KeysInHand'
  BY <1>1 DEF IInv, KeysInHand
<1>a. KeysOfCaches'
  BY SameKeys
<1>o. TicketInv'
  <2>1. Covered(confirmed')
    BY <1>2 DEF IInv, TicketInv, CallInv, ControllerPCs, TypeOK
  <2>2. Covered(sha') /\ \A v \in Volumes : Covered(tokenFile'[v])
    BY DEF IInv, TicketInv
  <2>3. \A q \in Procs : (pc'[q] \in {"lock", "store", "mount"} \/ (path'[q] /\ pc'[q] = "ticket"))
                             => Covered(tok'[q])
    BY <1>1 DEF IInv, TicketInv
  <2>4. ASSUME NEW q \in Procs, path[q], pc[q] \in {"lock", "ticket"}
        PROVE  excused' \/ (path'[q] /\ pc'[q] \in {"lock", "ticket"} /\ vol'[q] = vol[q] /\ q # p)
    BY <1>1, <1>3, <2>4 DEF LeavesTicketBehind
  <2>5. \A v \in Volumes : tokenFile[v] \in Nat
    BY DEF IInv, TypeOK
  <2>6. \A q \in Procs : pc[q] # "idle" => vol[q] \in Volumes
    BY VolumeFacts DEF IInv, CallInv
  <2>7. ticket <= ticket'
    BY DEF IInv, TypeOK
  <2> QED
    BY <1>t, <1>c, <1>3, <2>1, <2>2, <2>3, <2>4, <2>5, <2>6, <2>7, TicketKeeps
<1> QED
  BY <1>t, <1>b, <1>c, <1>k, <1>a, <1>o, Parts

\* A step of p leaves the other calls alone.
OthersWait(p) ==
    /\ pc' \in [Procs -> {"idle"} \cup ControllerPCs \cup NodePCs]
    /\ \A q \in Procs \ {p} : /\ pc'[q] = pc[q] /\ key'[q] = key[q] /\ acct'[q] = acct[q]
                             /\ path'[q] = path[q] /\ tok'[q] = tok[q]

\* The same for a step of a call that leaves the ticket and the files alone.
LEMMA TicketStays ==
    ASSUME IInv, TypeOK', CallInv', NEW p \in Procs, pc[p] # "idle",
           OthersWait(p),
           UNCHANGED <<vol, ticket, tokenFile, excused, confirmed>>, Covered(sha'),
           path[p] /\ pc[p] \in {"lock", "ticket"} => path'[p] /\ pc'[p] \in {"lock", "ticket"},
           (pc'[p] \in {"lock", "store", "mount"} \/ (path'[p] /\ pc'[p] = "ticket")) => Covered(tok'[p])
    PROVE  TicketInv'
<1>1. \A q \in Procs \ {p} : pc'[q] = pc[q] /\ path'[q] = path[q] /\ tok'[q] = tok[q]
  BY DEF OthersWait
<1>2. Covered(confirmed') /\ Covered(sha') /\ \A v \in Volumes : Covered(tokenFile'[v])
  BY DEF IInv, TicketInv
<1>3. \A q \in Procs : (pc'[q] \in {"lock", "store", "mount"} \/ (path'[q] /\ pc'[q] = "ticket"))
                           => Covered(tok'[q])
  BY <1>1 DEF IInv, TicketInv
<1>4. \A q \in Procs : path[q] /\ pc[q] \in {"lock", "ticket"} =>
          /\ path'[q] /\ pc'[q] \in {"lock", "ticket"}
          /\ tokenFile[vol[q]] <= tokenFile'[vol'[q]]
  <2>1. \A v \in Volumes : tokenFile[v] <= tokenFile[v]
    BY DEF IInv, TypeOK
  <2>2. \A q \in Procs : pc[q] # "idle" => vol[q] \in Volumes
    BY VolumeFacts DEF IInv, CallInv
  <2> QED
    BY <1>1, <2>1, <2>2
<1>5. ticket <= ticket'
  BY DEF IInv, TypeOK
<1> QED
  BY <1>2, <1>3, <1>4, <1>5, TicketKeeps

\* A step of a call that goes on: what has to hold of what it has at its next step.
LEMMA StepKeeps ==
    ASSUME IInv, NEW p \in Procs, pc[p] # "idle",
           OthersWait(p), pc'[p] \in ControllerPCs \cup NodePCs, pc'[p] # "readFile",
           key' \in [Procs -> Keys \cup {None}],
           acct' \in [Procs -> Accounts \cup {None}], acct'[p] \in Accounts,
           tok' \in [Procs -> Nat], tok'[p] \in 0..token,
           path' \in [Procs -> BOOLEAN],
           UNCHANGED <<used, keyNow, secret, token, created, mounted, vol, late, confirmed, foreign>>,
           Event \/ events' = events,
           ticket' \in 0..token, sha' \in 0..token, tokenFile' \in [Volumes -> 0..token],
           excused' \in BOOLEAN,
           cache' \in [Sides -> [Accounts -> [key : Keys, age : {"new", "old"}] \cup {None}]],
           KeysOfCaches',
           locked' = locked \/ (locked' = locked \cup {p} /\ \A q \in locked : vol[q] # vol[p]),
           p \in locked' => pc'[p] \in {"token", "sha", "ticket", "store", "mount"},
           pc'[p] \in ControllerPCs => acct'[p] = Account[vol[p]],
           pc'[p] \in ControllerPCs \cup {"cache", "secret", "keys"} => tok'[p] = 0,
           pc'[p] = "ctlCreate" => key'[p] # None,
           path'[p] => Auth[vol[p]] = "identity",
           pc'[p] = "writeFile" => path'[p],
           pc'[p] \in {"token", "sha", "store"} => ~path'[p],
           key'[p] # None => key'[p][1] = acct'[p] \/ acct'[p] \in foreign,
           acct'[p] = Account[vol[p]] \/ Account[vol[p]] \in foreign,
           TypeOK' /\ CallInv' => TicketInv'
    PROVE  IInv'
<1>1. /\ pc' \in [Procs -> {"idle"} \cup ControllerPCs \cup NodePCs]
      /\ \A q \in Procs \ {p} : /\ pc'[q] = pc[q] /\ key'[q] = key[q] /\ acct'[q] = acct[q]
                               /\ path'[q] = path[q] /\ tok'[q] = tok[q]
  BY DEF IInv, TypeOK, OthersWait
<1>2. /\ token \in 0..(MaxEvents + 1) /\ token <= events' + 1 /\ events' <= Bound[used]
      /\ \A v \in Accounts : keyNow[v] <= events' + 1
  <2>1. /\ token \in Nat /\ \A v \in Accounts : keyNow[v] \in Nat
        /\ token <= events + 1 /\ \A v \in Accounts : keyNow[v] <= events + 1
    BY DEF IInv, BoundInv, TypeOK, Generations
  <2> QED
    BY <2>1, EventFacts DEF IInv, TypeOK
<1>t. TypeOK'
  <2>1. MaxEvents \in Nat /\ 0..token \subseteq 0..(MaxEvents + 1) /\ events' \in 0..MaxEvents
    BY <1>2, VolumeFacts, EventFacts DEF IInv
  <2>2. /\ pc' \in [Procs -> {"idle"} \cup ControllerPCs \cup NodePCs]
        /\ key' \in [Procs -> Keys \cup {None}] /\ tok' \in [Procs -> 0..(MaxEvents + 1)]
        /\ acct' \in [Procs -> Accounts \cup {None}] /\ path' \in [Procs -> BOOLEAN]
    BY <1>1, <2>1 DEF IInv, TypeOK
  <2>3. /\ \A q \in locked' : q \in Procs /\ pc'[q] \in {"token", "sha", "ticket", "store", "mount"}
        /\ \A q, r \in locked' : vol'[q] = vol'[r] => q = r
    BY <1>1 DEF IInv, TypeOK
  <2>4. tokenFile' \in [Volumes -> 0..(MaxEvents + 1)] /\ ticket' \in 0..(MaxEvents + 1) /\ sha' \in 0..(MaxEvents + 1)
    BY <2>1
  <2> QED
    BY <2>1, <2>2, <2>3, <2>4 DEF IInv, TypeOK
<1>b. BoundInv'
  BY <1>1, <1>2 DEF IInv, BoundInv
<1>c. CallInv'
  <2>1. vol[p] \in used
    BY DEF IInv, CallInv
  <2> SUFFICES ASSUME NEW q \in Procs
               PROVE  /\ pc'[q] = "idle" => tok'[q] = 0 /\ ~path'[q] /\ key'[q] = None
                      /\ pc'[q] # "idle" => vol[q] \in used /\ acct'[q] \in Accounts
                      /\ pc'[q] \in ControllerPCs => acct'[q] = Account[vol[q]]
                      /\ pc'[q] \in ControllerPCs \cup {"cache", "secret", "keys"} => tok'[q] = 0
                      /\ pc'[q] = "ctlCreate" => key'[q] # None
                      /\ path'[q] => Auth[vol[q]] = "identity"
                      /\ pc'[q] = "readFile" => Auth[vol[q]] = "identity"
                      /\ pc'[q] = "writeFile" => path'[q]
                      /\ pc'[q] \in {"token", "sha", "store"} => ~path'[q]
    BY DEF CallInv
  <2>2. CASE q = p
    BY <1>1, <2>1, <2>2 DEF ControllerPCs, NodePCs
  <2>3. CASE q # p
    BY <1>1, <2>3 DEF IInv, CallInv
  <2> QED
    BY <2>2, <2>3
<1>k. KeysInHand'
  BY <1>1 DEF IInv, KeysInHand
<1> QED
  BY <1>t, <1>b, <1>c, <1>k, SameKeys, Parts

\* What a call has before a step that does not change it.
LEMMA CallFacts ==
    ASSUME IInv, NEW p \in Procs, pc[p] # "idle"
    PROVE  /\ vol[p] \in used /\ vol[p] \in Volumes
           /\ key[p] \in Keys \cup {None}
           /\ acct[p] \in Accounts
           /\ tok[p] \in 0..token /\ tok[p] \in Nat
           /\ key[p] # None => key[p][1] = acct[p] \/ acct[p] \in foreign
           /\ acct[p] = Account[vol[p]] \/ Account[vol[p]] \in foreign
           /\ path[p] => Auth[vol[p]] = "identity"
BY VolumeFacts DEF IInv, TypeOK, BoundInv, CallInv, KeysInHand

\* What is left alone by a step of a call has its bounds.
LEMMA NodeFacts ==
    ASSUME IInv
    PROVE  /\ ticket \in 0..token /\ sha \in 0..token /\ tokenFile \in [Volumes -> 0..token]
           /\ token \in Nat /\ token \in 0..token /\ 0 \in 0..token
           /\ Covered(0) /\ Covered(sha)
BY DEF IInv, TypeOK, BoundInv, TicketInv, Covered

\* accountCacheMap gets a key of the account it is for.
LEMMA CacheSetFacts ==
    ASSUME IInv, NEW p \in Procs, NEW a \in Accounts, NEW k \in Keys, CacheSet(p, a, k),
           k[1] = a \/ a \in foreign, foreign' = foreign
    PROVE  /\ cache' \in [Sides -> [Accounts -> [key : Keys, age : {"new", "old"}] \cup {None}]]
           /\ KeysOfCaches'
<1>1. Side(p) \in Sides
  BY DEF Side, Sides
<1>2. cache' \in [Sides -> [Accounts -> [key : Keys, age : {"new", "old"}] \cup {None}]]
  BY <1>1 DEF IInv, TypeOK, CacheSet
<1>3. ASSUME NEW b \in Accounts \ foreign, NEW side \in Sides, cache'[side][b] # None
      PROVE  cache'[side][b].key[1] = b
  <2>1. CASE side = Side(p) /\ b = a
    BY <1>1, <2>1, <1>3 DEF IInv, TypeOK, CacheSet
  <2>2. CASE ~(side = Side(p) /\ b = a)
    <3>1. cache'[side][b] = cache[side][b]
      BY <1>1, <2>2 DEF IInv, TypeOK, CacheSet
    <3> QED
      BY <3>1, <1>3 DEF IInv, KeysOfTheirAccount
  <2> QED
    BY <2>1, <2>2
<1> QED
  BY <1>2, <1>3 DEF KeysOfCaches

\* The steps that look for a key have no token, and a cache that is not set is as it was.
LEMMA KeyStepKeeps ==
    ASSUME IInv, NEW p \in Procs, pc[p] \in {"cache", "ctlCache", "secret", "ctlSecret", "keys", "ctlKeys"},
           OthersWait(p),
           pc'[p] \in {"secret", "keys", "lock", "ctlSecret", "ctlKeys", "ctlCreate"},
           pc'[p] \in ControllerPCs => pc[p] \in ControllerPCs /\ acct'[p] = acct[p],
           key' \in [Procs -> Keys \cup {None}],
           acct' \in [Procs -> Accounts \cup {None}], acct'[p] \in Accounts,
           UNCHANGED <<used, azure, node, sha, locked, vol, tok, path, late, hist>>,
           Event \/ events' = events,
           cache' = cache \/ (key'[p] \in Keys /\ CacheSet(p, acct'[p], key'[p])),
           pc'[p] = "ctlCreate" => key'[p] # None,
           key'[p] # None => key'[p][1] = acct'[p] \/ acct'[p] \in foreign,
           acct'[p] = Account[vol[p]] \/ Account[vol[p]] \in foreign
    PROVE  IInv'
<1>1. /\ cache' \in [Sides -> [Accounts -> [key : Keys, age : {"new", "old"}] \cup {None}]]
      /\ KeysOfCaches'
  <2>1. used' = used /\ foreign' = foreign
    BY DEF hist
  <2>2. CASE cache' = cache
    BY <2>1, <2>2, SameKeys DEF IInv, TypeOK
  <2>3. CASE key'[p] \in Keys /\ CacheSet(p, acct'[p], key'[p])
    BY <2>1, <2>3, CacheSetFacts, KeyIsNotNone
  <2> QED
    BY <2>2, <2>3
<1>2. /\ pc[p] # "idle" /\ tok[p] = 0 /\ p \notin locked
      /\ pc[p] \in ControllerPCs => acct[p] = Account[vol[p]]
      /\ pc'[p] \in ControllerPCs \cup NodePCs
  BY DEF IInv, TypeOK, CallInv, ControllerPCs, NodePCs
<1>3. /\ UNCHANGED <<vol, ticket, tokenFile, excused, confirmed>>
      /\ UNCHANGED <<used, keyNow, secret, token, created, mounted, vol, late, confirmed, foreign>>
      /\ sha' = sha /\ Covered(sha') /\ tok' = tok /\ Covered(tok'[p]) /\ locked' = locked
      /\ path' = path /\ path' \in [Procs -> BOOLEAN] /\ excused' \in BOOLEAN
      /\ ticket' \in 0..token /\ sha' \in 0..token /\ tokenFile' \in [Volumes -> 0..token]
      /\ tok' \in [Procs -> Nat] /\ tok'[p] \in 0..token
  BY <1>2, NodeFacts DEF azure, node, hist, IInv, TypeOK
<1>4. TypeOK' /\ CallInv' => TicketInv'
  BY <1>2, <1>3, TicketStays
<1>5. /\ pc'[p] \in ControllerPCs => acct'[p] = Account[vol[p]]
      /\ p \in locked' => pc'[p] \in {"token", "sha", "ticket", "store", "mount"}
      /\ pc'[p] \in ControllerPCs \cup {"cache", "secret", "keys"} => tok'[p] = 0
      /\ path'[p] => Auth[vol[p]] = "identity"
      /\ pc'[p] # "readFile" /\ pc'[p] # "writeFile" /\ pc'[p] \notin {"token", "sha", "store"}
  BY <1>2, <1>3, CallFacts
<1> QED
  BY <1>1, <1>2, <1>3, <1>4, <1>5, StepKeeps

\* Where a step of the key goes on.
LEMMA GoOnFacts ==
    ASSUME IInv, NEW p \in Procs,
           NEW nodeStep \in {"secret", "keys", "lock"},
           NEW controllerStep \in {"ctlSecret", "ctlKeys", "ctlCreate"},
           GoOn(p, nodeStep, controllerStep),
           \A q \in Procs \ {p} : key'[q] = key[q] /\ acct'[q] = acct[q] /\ path'[q] = path[q] /\ tok'[q] = tok[q]
    PROVE  /\ OthersWait(p)
           /\ pc'[p] \in {nodeStep, controllerStep}
           /\ pc'[p] \in ControllerPCs <=> pc[p] \in ControllerPCs
           /\ Side(p) \in Sides /\ (Side(p) = "node" <=> pc[p] \notin ControllerPCs)
<1>1. nodeStep \in NodePCs \ ControllerPCs /\ controllerStep \in ControllerPCs
  BY DEF NodePCs, ControllerPCs
<1>2. Side(p) \in Sides /\ (Side(p) = "node" <=> pc[p] \notin ControllerPCs)
  BY DEF Side, Sides
<1>3. pc' = [pc EXCEPT ![p] = IF Side(p) = "node" THEN nodeStep ELSE controllerStep]
  BY DEF GoOn, Goto
<1> QED
  BY <1>1, <1>2, <1>3 DEF OthersWait, IInv, TypeOK

\* Reading the cache gets a key of the account the call is for, or none.
LEMMA ReadCacheKeeps ==
    ASSUME IInv, NEW p \in Procs, ReadCache(p)
    PROVE  IInv'
<1>1. pc[p] \in {"cache", "ctlCache"} /\ Side(p) \in Sides
  BY DEF ReadCache, Side, Sides
<1>2. /\ UNCHANGED <<used, azure, node, sha, locked, vol, tok, path, late, hist>>
      /\ acct' = acct /\ cache' = cache /\ events' = events
  BY DEF ReadCache, Stays, hist
<1>3. /\ acct[p] \in Accounts /\ acct' \in [Procs -> Accounts \cup {None}]
      /\ acct[p] = Account[vol[p]] \/ Account[vol[p]] \in foreign
      /\ key \in [Procs -> Keys \cup {None}]
  BY <1>1, <1>2, CallFacts DEF IInv, TypeOK
<1>4. CASE cache[Side(p)][acct[p]] # None
  <2> DEFINE k == cache[Side(p)][acct[p]].key
  <2>1. k \in Keys /\ (k[1] = acct[p] \/ acct[p] \in foreign)
    BY <1>1, <1>3, <1>4 DEF IInv, TypeOK, KeysOfTheirAccount
  <2>2. key' = [key EXCEPT ![p] = k] /\ GoOn(p, "lock", "ctlCreate")
    BY <1>4 DEF ReadCache, KeepKey
  <2>3. key' \in [Procs -> Keys \cup {None}] /\ key'[p] = k /\ k # None
    BY <1>3, <2>1, <2>2, KeyIsNotNone
  <2>4. OthersWait(p) /\ pc'[p] \in {"lock", "ctlCreate"} /\ (pc'[p] \in ControllerPCs <=> pc[p] \in ControllerPCs)
    BY <1>2, <1>3, <2>2, GoOnFacts
  <2> QED
    BY <1>1, <1>2, <1>3, <2>1, <2>3, <2>4, KeyStepKeeps
<1>5. CASE cache[Side(p)][acct[p]] = None
  <2>1. key' = key /\ GoOn(p, "secret", "ctlSecret")
    BY <1>5 DEF ReadCache
  <2>2. key[p] # None => key[p][1] = acct[p] \/ acct[p] \in foreign
    BY DEF IInv, KeysInHand
  <2>3. OthersWait(p) /\ pc'[p] \in {"secret", "ctlSecret"} /\ (pc'[p] \in ControllerPCs <=> pc[p] \in ControllerPCs)
    BY <1>2, <2>1, GoOnFacts
  <2> QED
    BY <1>1, <1>2, <1>3, <2>1, <2>2, <2>3, KeyStepKeeps
<1> QED
  BY <1>4, <1>5

\* A call that fails and has changed nothing in the step.
LEMMA FailureKeeps ==
    ASSUME IInv, NEW p \in Procs, pc[p] # "idle", End(p, "err"),
           UNCHANGED <<used, azure, node, cache, sha, foreign>>, Event \/ events' = events
    PROVE  IInv'
<1>1. /\ UNCHANGED <<used, keyNow, token, ticket, tokenFile, cache, sha>>
      /\ secret' = secret /\ mounted' = mounted /\ foreign' = foreign /\ created' = created
  BY DEF azure, node
<1>2. KeysOfSecrets' /\ MountedFromTheirs'
  BY <1>1, SameKeys
<1>3. /\ secret' \in [Secrets -> [account : Accounts, key : Keys] \cup {None}] /\ created' \subseteq used
      /\ mounted' \in [Volumes -> Accounts \cup {None}] /\ foreign \subseteq foreign' /\ foreign' \subseteq Accounts
  BY <1>1 DEF IInv, TypeOK
<1> QED
  BY <1>1, <1>2, <1>3, EndKeeps

\* The node goes on with the account of the secret, the controller with its own.
LEMMA GetStorageAccountFromSecretKeeps ==
    ASSUME IInv, NEW p \in Procs, GetStorageAccountFromSecret(p)
    PROVE  IInv'
<1> DEFINE s == secret[SecretOf(vol[p])]
           a == IF Side(p) = "node" THEN s.account ELSE acct[p]
<1>1. pc[p] \in {"secret", "ctlSecret"}
  BY DEF GetStorageAccountFromSecret
<1>2. UNCHANGED <<used, azure, node, sha, locked, vol, tok, path, late, hist>>
  BY DEF GetStorageAccountFromSecret, hist
<1>3. /\ acct[p] \in Accounts /\ (acct[p] = Account[vol[p]] \/ Account[vol[p]] \in foreign)
      /\ vol[p] \in used /\ SecretOf(vol[p]) \in Secrets
      /\ acct \in [Procs -> Accounts \cup {None}] /\ key \in [Procs -> Keys \cup {None}]
      /\ pc[p] \in ControllerPCs => acct[p] = Account[vol[p]]
  BY <1>1, CallFacts, VolumeFacts DEF IInv, TypeOK, CallInv
<1>4. ASSUME s # None, key' = [key EXCEPT ![p] = s.key], acct' = [acct EXCEPT ![p] = a],
             CacheSet(p, a, s.key), GoOn(p, "lock", "ctlCreate"), events' = events
      PROVE  IInv'
  <2>1. /\ s.key \in Keys /\ s.account \in Accounts
        /\ s.key[1] = s.account \/ s.account \in foreign
        /\ Account[vol[p]] = s.account \/ Account[vol[p]] \in foreign
    BY <1>3, <1>4 DEF IInv, TypeOK, KeysOfSecrets
  <2>2. \A q \in Procs \ {p} : key'[q] = key[q] /\ acct'[q] = acct[q] /\ path'[q] = path[q] /\ tok'[q] = tok[q]
    BY <1>2, <1>3, <1>4
  <2>3. /\ OthersWait(p) /\ pc'[p] \in {"lock", "ctlCreate"} /\ (pc'[p] \in ControllerPCs <=> pc[p] \in ControllerPCs)
        /\ (Side(p) = "node" <=> pc[p] \notin ControllerPCs)
    BY <1>4, <2>2, GoOnFacts
  <2>4. /\ a \in Accounts /\ (s.key[1] = a \/ a \in foreign)
        /\ a = Account[vol[p]] \/ Account[vol[p]] \in foreign
        /\ pc'[p] \in ControllerPCs => a = acct[p]
    BY <1>3, <2>1, <2>3
  <2>5. /\ key' \in [Procs -> Keys \cup {None}] /\ key'[p] = s.key /\ s.key # None
        /\ acct' \in [Procs -> Accounts \cup {None}] /\ acct'[p] = a
    BY <1>3, <1>4, <2>1, <2>4, KeyIsNotNone
  <2>6. key'[p] \in Keys /\ CacheSet(p, acct'[p], key'[p])
    BY <1>4, <2>1, <2>5
  <2> HIDE DEF s, a
  <2> QED
    BY <1>1, <1>2, <1>4, <2>1, <2>3, <2>4, <2>5, <2>6, KeyStepKeeps
<1>5. ASSUME Event \/ events' = events, GoOn(p, "keys", "ctlKeys"), UNCHANGED <<cache, key, acct>>
      PROVE  IInv'
  <2>1. \A q \in Procs \ {p} : key'[q] = key[q] /\ acct'[q] = acct[q] /\ path'[q] = path[q] /\ tok'[q] = tok[q]
    BY <1>2, <1>5
  <2>2. OthersWait(p) /\ pc'[p] \in {"keys", "ctlKeys"} /\ (pc'[p] \in ControllerPCs <=> pc[p] \in ControllerPCs)
    BY <1>5, <2>1, GoOnFacts
  <2>3. key[p] # None => key[p][1] = acct[p] \/ acct[p] \in foreign
    BY DEF IInv, KeysInHand
  <2> QED
    BY <1>1, <1>2, <1>3, <1>5, <2>2, <2>3, KeyStepKeeps
<1> QED
  BY <1>4, <1>5 DEF GetStorageAccountFromSecret, KeepKey

\* Azure gives the key of the account that is asked for.
LEMMA GetStorageAccesskeyKeeps ==
    ASSUME IInv, NEW p \in Procs, GetStorageAccesskeyWithSubsID(p)
    PROVE  IInv'
<1>1. pc[p] \in {"keys", "ctlKeys"} /\ pc[p] # "idle"
  BY DEF GetStorageAccesskeyWithSubsID
<1>2. /\ acct[p] \in Accounts /\ (acct[p] = Account[vol[p]] \/ Account[vol[p]] \in foreign)
      /\ acct \in [Procs -> Accounts \cup {None}] /\ key \in [Procs -> Keys \cup {None}]
  BY <1>1, CallFacts DEF IInv, TypeOK
<1>3. ASSUME key' = [key EXCEPT ![p] = Key(acct[p])], CacheSet(p, acct[p], Key(acct[p])),
             GoOn(p, "lock", "ctlCreate"), Stays, events' = events,
             UNCHANGED <<used, azure, node, sha, foreign>>
      PROVE  IInv'
  <2>1. Key(acct[p]) \in Keys /\ Key(acct[p])[1] = acct[p]
    BY <1>2 DEF IInv, TypeOK, Key, Keys
  <2>2. /\ UNCHANGED <<used, azure, node, sha, locked, vol, tok, path, late, hist>> /\ acct' = acct
        /\ \A q \in Procs \ {p} : key'[q] = key[q] /\ acct'[q] = acct[q] /\ path'[q] = path[q] /\ tok'[q] = tok[q]
    BY <1>2, <1>3 DEF Stays, hist
  <2>3. OthersWait(p) /\ pc'[p] \in {"lock", "ctlCreate"} /\ (pc'[p] \in ControllerPCs <=> pc[p] \in ControllerPCs)
    BY <1>3, <2>2, GoOnFacts
  <2>4. key' \in [Procs -> Keys \cup {None}] /\ key'[p] = Key(acct[p]) /\ key'[p] # None
    BY <1>2, <1>3, <2>1, KeyIsNotNone
  <2> QED
    BY <1>1, <1>2, <1>3, <2>1, <2>2, <2>3, <2>4, KeyStepKeeps
<1>4. ASSUME Event, End(p, "err"), UNCHANGED <<used, azure, node, cache, sha, foreign>>
      PROVE  IInv'
  BY <1>1, <1>4, FailureKeeps
<1> QED
  BY <1>3, <1>4 DEF GetStorageAccesskeyWithSubsID, KeepKey

\* A secret that is made is that of its account for every volume, or makes it foreign to them.
LEMMA SetAzureCredentialsKeeps ==
    ASSUME IInv, NEW p \in Procs, SetAzureCredentials(p)
    PROVE  IInv'
<1> DEFINE s == SecretOf(vol[p])
           new == [account |-> acct[p], key |-> key[p]]
           Stores ==
               /\ CreateSecret(s, new)
               /\ foreign' = IF secret[s] = None
                             THEN foreign \cup {Account[w] : w \in {x \in used :
                                      SecretOf(x) = s /\ Account[x] # acct[p]}}
                             ELSE foreign
<1>1. /\ pc[p] = "ctlCreate" /\ pc[p] # "idle"
      /\ UNCHANGED <<used, keyNow, token, ticket, tokenFile, cache, sha, mounted>>
      /\ Stores \/ UNCHANGED <<secret, foreign>>
      /\ \/ End(p, "ok") /\ created' = created \cup {vol[p]} /\ events' = events
         \/ End(p, "err") /\ created' = created /\ Event
  BY DEF SetAzureCredentials, node
<1>2. /\ vol[p] \in used /\ s \in Secrets /\ key[p] \in Keys /\ acct[p] \in Accounts
      /\ key[p][1] = acct[p] \/ acct[p] \in foreign
  BY <1>1, CallFacts, VolumeFacts DEF IInv, CallInv
<1>3. CASE UNCHANGED <<secret, foreign>>
  <2>1. KeysOfSecrets' /\ MountedFromTheirs'
    BY <1>1, <1>3, SameKeys
  <2>2. /\ secret' \in [Secrets -> [account : Accounts, key : Keys] \cup {None}] /\ created' \subseteq used
        /\ mounted' \in [Volumes -> Accounts \cup {None}] /\ foreign \subseteq foreign' /\ foreign' \subseteq Accounts
    BY <1>1, <1>2, <1>3 DEF IInv, TypeOK
  <2> QED
    BY <1>1, <2>1, <2>2, EndKeeps
<1>4. CASE Stores
  <2>1. /\ foreign \subseteq foreign' /\ foreign' \subseteq Accounts
        /\ \A w \in used : secret[s] = None /\ SecretOf(w) = s => Account[w] = acct[p] \/ Account[w] \in foreign'
    BY <1>4, VolumeFacts DEF IInv, TypeOK
  <2>2. secret' = IF secret[s] = None THEN [secret EXCEPT ![s] = new] ELSE secret
    BY <1>4 DEF CreateSecret
  <2>3. secret' \in [Secrets -> [account : Accounts, key : Keys] \cup {None}]
    BY <1>2, <2>2 DEF IInv, TypeOK
  <2>4. KeysOfSecrets'
    <3> SUFFICES ASSUME NEW t \in Secrets, secret'[t] # None
                 PROVE  /\ secret'[t].key[1] = secret'[t].account \/ secret'[t].account \in foreign'
                        /\ \A v \in used : SecretOf(v) = t =>
                               Account[v] = secret'[t].account \/ Account[v] \in foreign'
      BY <1>1 DEF KeysOfSecrets, SecretOf
    <3>1. CASE t = s /\ secret[s] = None
      <4>1. secret'[t] = new
        BY <1>2, <2>2, <3>1 DEF IInv, TypeOK
      <4> QED
        BY <1>2, <2>1, <3>1, <4>1
    <3>2. CASE ~(t = s /\ secret[s] = None)
      <4>1. secret'[t] = secret[t]
        BY <1>2, <2>2, <3>2 DEF IInv, TypeOK
      <4> QED
        BY <2>1, <4>1 DEF IInv, KeysOfSecrets
    <3> QED
      BY <3>1, <3>2
  <2>5. MountedFromTheirs'
    BY <1>1, <2>1, SameKeys
  <2>6. created' \subseteq used /\ mounted' \in [Volumes -> Accounts \cup {None}]
    BY <1>1, <1>2 DEF IInv, TypeOK
  <2> HIDE DEF Stores, s, new
  <2> QED
    BY <1>1, <2>1, <2>3, <2>4, <2>5, <2>6, EndKeeps
<1> QED
  BY <1>1, <1>3, <1>4

\* A step of a call of the node that has its key or needs none.
LEMMA NodeStepKeeps ==
    ASSUME IInv, NEW p \in Procs, pc[p] # "idle", OthersWait(p),
           pc'[p] \in {"writeFile", "lock", "token", "sha", "ticket", "store", "mount"},
           UNCHANGED <<used, azure, mounted, cache, vol, key, acct, late, confirmed, foreign>>,
           Event \/ events' = events,
           tok' \in [Procs -> Nat], tok'[p] \in 0..token, path' \in [Procs -> BOOLEAN],
           ticket' \in 0..token, sha' \in 0..token, tokenFile' \in [Volumes -> 0..token],
           excused' \in BOOLEAN,
           locked' = locked \/ (locked' = locked \cup {p} /\ \A q \in locked : vol[q] # vol[p]),
           p \in locked' => pc'[p] \in {"token", "sha", "ticket", "store", "mount"},
           path'[p] => Auth[vol[p]] = "identity",
           pc'[p] = "writeFile" => path'[p],
           pc'[p] \in {"token", "sha", "store"} => ~path'[p],
           TypeOK' /\ CallInv' => TicketInv'
    PROVE  IInv'
<1>1. /\ UNCHANGED <<used, keyNow, secret, token, created, mounted, vol, late, confirmed, foreign>>
      /\ cache' = cache /\ key' = key /\ acct' = acct
  BY DEF azure
<1>2. /\ cache' \in [Sides -> [Accounts -> [key : Keys, age : {"new", "old"}] \cup {None}]]
      /\ KeysOfCaches'
  BY <1>1, SameKeys DEF IInv, TypeOK
<1>3. /\ pc'[p] \in NodePCs /\ pc'[p] \notin ControllerPCs \cup {"cache", "secret", "keys"}
      /\ pc'[p] # "ctlCreate" /\ pc'[p] # "readFile"
  BY DEF ControllerPCs, NodePCs
<1>4. /\ key' \in [Procs -> Keys \cup {None}] /\ acct' \in [Procs -> Accounts \cup {None}]
      /\ acct'[p] \in Accounts
      /\ key'[p] # None => key'[p][1] = acct'[p] \/ acct'[p] \in foreign
      /\ acct'[p] = Account[vol[p]] \/ Account[vol[p]] \in foreign
  BY <1>1, CallFacts DEF IInv, TypeOK
<1> QED
  BY <1>1, <1>2, <1>3, <1>4, StepKeeps

\* What such a step leaves alone has its types, whatever the others do.
LEMMA NodeTypes ==
    ASSUME IInv
    PROVE  /\ path \in [Procs -> BOOLEAN] /\ tok \in [Procs -> Nat] /\ excused \in BOOLEAN
           /\ ticket \in 0..token /\ sha \in 0..token /\ tokenFile \in [Volumes -> 0..token]
           /\ ticket \in Nat /\ token \in Nat
           /\ pc \in [Procs -> {"idle"} \cup ControllerPCs \cup NodePCs]
BY NodeFacts DEF IInv, TypeOK

\* A file that holds the token has one that is covered.
LEMMA ReadTokenFileKeeps ==
    ASSUME IInv, NEW p \in Procs, ReadTokenFile(p)
    PROVE  IInv'
<1>1. /\ pc[p] = "readFile" /\ pc[p] # "idle" /\ path[p] \in BOOLEAN
      /\ pc' = [pc EXCEPT ![p] = IF tokenFile[vol[p]] = tok[p] THEN "lock" ELSE "writeFile"]
      /\ path' = [path EXCEPT ![p] = tokenFile[vol[p]] # tok[p] \/ vol[p] \in Inline]
      /\ UNCHANGED <<used, azure, mounted, cache, vol, key, acct, late, confirmed, foreign>>
      /\ UNCHANGED <<vol, ticket, tokenFile, excused, confirmed>>
      /\ UNCHANGED <<tok, locked, sha, events, key, acct>>
  BY NodeTypes DEF ReadTokenFile, Goto, node, memory, hist
<1>2. OthersWait(p) /\ pc'[p] \in {"writeFile", "lock"} /\ path' \in [Procs -> BOOLEAN]
      /\ (pc'[p] = "writeFile" => path'[p]) /\ (pc'[p] = "lock" => tokenFile[vol[p]] = tok[p])
  <2>1. (tokenFile[vol[p]] # tok[p] \/ vol[p] \in Inline) \in BOOLEAN
    OBVIOUS
  <2> QED
    BY <1>1, <2>1, NodeTypes DEF OthersWait, NodePCs
<1>3. p \notin locked /\ Covered(tokenFile[vol[p]]) /\ Covered(sha')
  BY <1>1, CallFacts DEF IInv, TypeOK, TicketInv
<1>4. TypeOK' /\ CallInv' => TicketInv'
  BY <1>1, <1>2, <1>3, TicketStays
<1>5. Auth[vol[p]] = "identity"
  BY <1>1 DEF IInv, CallInv
<1> QED
  BY <1>1, <1>2, <1>3, <1>4, <1>5, NodeTypes, CallFacts, NodeStepKeeps

\* Who has written the file is about to set the ticket with it.
LEMMA WriteTokenFileKeeps ==
    ASSUME IInv, NEW p \in Procs, WriteTokenFile(p)
    PROVE  IInv'
<1>1. pc[p] = "writeFile" /\ pc[p] # "idle" /\ path[p] /\ Auth[vol[p]] = "identity" /\ p \notin locked
  BY DEF WriteTokenFile, IInv, TypeOK, CallInv
<1>2. ASSUME Event, End(p, "err"), UNCHANGED <<used, azure, node, cache, sha, foreign>>
      PROVE  IInv'
  BY <1>1, <1>2, FailureKeeps
<1>3. ASSUME tokenFile' = [tokenFile EXCEPT ![vol[p]] = tok[p]], pc' = [pc EXCEPT ![p] = "lock"],
             excused' = (excused \/ tok[p] < tokenFile[vol[p]]),
             UNCHANGED <<locals, locked, confirmed, events>>,
             UNCHANGED <<used, azure, ticket, mounted, cache, sha, foreign>>
      PROVE  IInv'
  <2>1. /\ tok[p] \in 0..token /\ tok[p] \in Nat /\ vol[p] \in Volumes
        /\ tokenFile \in [Volumes -> 0..token] /\ token \in Nat
    BY <1>1, CallFacts, NodeTypes
  <2>2. /\ tokenFile' \in [Volumes -> 0..token] /\ excused' \in BOOLEAN
        /\ \A v \in Volumes : tokenFile[v] \in Nat /\ tokenFile'[v] = IF v = vol[p] THEN tok[p] ELSE tokenFile[v]
        /\ excused \/ tok[p] < tokenFile[vol[p]] => excused'
    <3>1. excused' = (excused \/ tok[p] < tokenFile[vol[p]])
      BY <1>3
    <3>2. excused' \in BOOLEAN /\ (excused \/ tok[p] < tokenFile[vol[p]] => excused')
      BY <3>1, Zenon
    <3>3. /\ tokenFile' \in [Volumes -> 0..token]
          /\ \A v \in Volumes : tokenFile[v] \in Nat /\ tokenFile'[v] = IF v = vol[p] THEN tok[p] ELSE tokenFile[v]
      BY <1>3, <2>1
    <3> QED
      BY <3>2, <3>3
  <2>3. /\ UNCHANGED <<used, azure, mounted, cache, vol, key, acct, late, confirmed, foreign>>
        /\ path' = path /\ tok' = tok /\ sha' = sha /\ ticket' = ticket /\ locked' = locked /\ events' = events
    BY <1>3 DEF locals
  <2>4. OthersWait(p) /\ pc'[p] = "lock" /\ \A q \in Procs \ {p} : pc'[q] = pc[q]
    BY <1>3, <2>3, NodeTypes DEF OthersWait, NodePCs
  <2>5. ASSUME TypeOK', CallInv'
        PROVE  TicketInv'
    <3>1. ASSUME NEW n \in Nat, Covered(n)
          PROVE  Covered(n)'
      <4>1. ASSUME NEW q \in Procs, path[q], pc[q] \in {"lock", "ticket"}, n <= tokenFile[vol[q]]
            PROVE  excused' \/ n <= tokenFile'[vol[q]]
        <5>1. vol[q] \in Volumes
          BY <4>1, CallFacts
        <5> QED
          BY <2>1, <2>2, <4>1, <5>1
      <4> QED
        BY <1>1, <2>2, <2>3, <2>4, <3>1, <4>1 DEF Covered
    <3>2. Covered(tok[p])'
      BY <1>1, <2>1, <2>2, <2>3, <2>4 DEF Covered
    <3>3. /\ confirmed \in Nat /\ sha \in Nat /\ \A q \in Procs : tok[q] \in Nat
          /\ \A v \in Volumes : tokenFile[v] \in Nat
      BY DEF IInv, TypeOK
    <3>4. Covered(confirmed)' /\ Covered(sha)' /\ \A v \in Volumes \ {vol[p]} : Covered(tokenFile[v])'
      BY <2>3, <3>1, <3>3, <2>2 DEF IInv, TicketInv
    <3>5. ASSUME NEW q \in Procs, pc'[q] \in {"lock", "store", "mount"} \/ (path'[q] /\ pc'[q] = "ticket")
          PROVE  Covered(tok[q])'
      <4>1. CASE q = p
        BY <3>2, <4>1
      <4>2. CASE q # p
        BY <2>3, <2>4, <3>1, <3>3, <3>5, <4>2 DEF IInv, TicketInv
      <4> QED
        BY <4>1, <4>2
    <3> QED
      BY <2>2, <2>3, <3>2, <3>4, <3>5 DEF TicketInv
  <2> QED
    BY <1>1, <2>1, <2>2, <2>3, <2>4, <2>5, NodeTypes, NodeStepKeeps
<1> QED
  BY <1>2, <1>3 DEF WriteTokenFile, Goto, node

\* TryAcquire gives a lock nobody holds.
LEMMA TryAcquireKeeps ==
    ASSUME IInv, NEW p \in Procs, TryAcquire(p)
    PROVE  IInv'
<1>1. pc[p] = "lock" /\ pc[p] # "idle" /\ (path[p] => Auth[vol[p]] = "identity") /\ Covered(tok[p])
  BY DEF TryAcquire, IInv, CallInv, TicketInv
<1>2. CASE End(p, "err")
  <2>1. UNCHANGED <<used, azure, node, cache, sha, foreign>> /\ events' = events
    BY DEF TryAcquire
  <2> QED
    BY <1>1, <1>2, <2>1, FailureKeeps
<1>3. ASSUME \A q \in locked : vol[q] # vol[p], locked' = locked \cup {p},
             pc' = [pc EXCEPT ![p] = CASE Auth[vol[p]] = "oauth" -> "token"
                                       [] path[p] -> "ticket"
                                       [] OTHER -> "mount"],
             UNCHANGED <<locals, excused, confirmed>>,
             UNCHANGED <<used, azure, node, cache, sha, foreign, events>>
      PROVE  IInv'
  <2>1. /\ UNCHANGED <<used, azure, mounted, cache, vol, key, acct, late, confirmed, foreign>>
        /\ UNCHANGED <<vol, ticket, tokenFile, excused, confirmed>>
        /\ path' = path /\ tok' = tok /\ sha' = sha /\ events' = events
    BY <1>3 DEF locals, node
  <2>2. /\ pc'[p] \in {"token", "ticket", "mount"} /\ (pc'[p] = "token" => ~path[p])
        /\ (path[p] => pc'[p] = "ticket")
    <3>1. CASE path[p]
      BY <1>1, <1>3, <3>1, NodeTypes
    <3>2. CASE ~path[p]
      BY <1>1, <1>3, <3>2, NodeTypes
    <3> QED
      BY <3>1, <3>2
  <2>3. OthersWait(p)
    BY <1>3, <2>1, <2>2, NodeTypes DEF OthersWait, NodePCs
  <2>4. TypeOK' /\ CallInv' => TicketInv'
    BY <1>1, <2>1, <2>2, <2>3, NodeFacts, TicketStays
  <2> QED
    BY <1>1, <1>3, <2>1, <2>2, <2>3, <2>4, NodeTypes, CallFacts, NodeStepKeeps
<1> QED
  BY <1>2, <1>3 DEF TryAcquire, Goto

\* The token of the secret is not covered before it is compared.
LEMMA ReadTokenKeeps ==
    ASSUME IInv, NEW p \in Procs, ReadToken(p)
    PROVE  IInv'
<1>1. pc[p] = "token" /\ pc[p] # "idle" /\ ~path[p]
  BY DEF ReadToken, IInv, CallInv
<1>2. CASE Event /\ End(p, "err")
  <2>1. UNCHANGED <<used, azure, node, cache, sha, foreign>>
    BY DEF ReadToken
  <2> QED
    BY <1>1, <1>2, <2>1, FailureKeeps
<1>3. ASSUME tok' = [tok EXCEPT ![p] = token], pc' = [pc EXCEPT ![p] = "sha"],
             UNCHANGED <<vol, key, acct, path, late, locked, excused, confirmed, events>>,
             UNCHANGED <<used, azure, node, cache, sha, foreign>>
      PROVE  IInv'
  <2>1. /\ UNCHANGED <<used, azure, mounted, cache, vol, key, acct, late, confirmed, foreign>>
        /\ UNCHANGED <<vol, ticket, tokenFile, excused, confirmed>>
        /\ path' = path /\ sha' = sha /\ events' = events /\ locked' = locked
    BY <1>3 DEF node
  <2>2. OthersWait(p) /\ pc'[p] = "sha" /\ tok'[p] = token /\ tok' \in [Procs -> Nat]
    BY <1>3, <2>1, NodeTypes DEF OthersWait, NodePCs
  <2>3. TypeOK' /\ CallInv' => TicketInv'
    BY <1>1, <2>1, <2>2, NodeFacts, TicketStays
  <2> QED
    BY <1>1, <2>1, <2>2, <2>3, NodeTypes, NodeFacts, NodeStepKeeps
<1> QED
  BY <1>2, <1>3 DEF ReadToken, KeepToken, Goto

\* oauthTokenSHAMap holds a token that is covered, and so the mount needs no ticket.
LEMMA CompareSHAKeeps ==
    ASSUME IInv, NEW p \in Procs, CompareSHA(p)
    PROVE  IInv'
<1>1. /\ pc[p] = "sha" /\ pc[p] # "idle" /\ ~path[p] /\ Covered(sha)
      /\ pc' = [pc EXCEPT ![p] = IF sha = tok[p] THEN "mount" ELSE "ticket"]
      /\ UNCHANGED <<used, azure, node, memory, locals, hist, events>>
  BY DEF CompareSHA, Goto, IInv, CallInv, TicketInv
<1>2. /\ UNCHANGED <<used, azure, mounted, cache, vol, key, acct, late, confirmed, foreign>>
      /\ UNCHANGED <<vol, ticket, tokenFile, excused, confirmed>>
      /\ path' = path /\ tok' = tok /\ sha' = sha /\ events' = events /\ locked' = locked
  BY <1>1 DEF node, memory, locals, hist
<1>3. OthersWait(p) /\ pc'[p] \in {"mount", "ticket"} /\ (pc'[p] = "mount" => sha = tok[p])
  BY <1>1, <1>2, NodeTypes DEF OthersWait, NodePCs
<1>4. TypeOK' /\ CallInv' => TicketInv'
  BY <1>1, <1>2, <1>3, TicketStays
<1> QED
  BY <1>1, <1>2, <1>3, <1>4, NodeTypes, CallFacts, NodeStepKeeps

\* The SHA is stored of a token that is covered.
LEMMA StoreSHAKeeps ==
    ASSUME IInv, NEW p \in Procs, StoreSHA(p)
    PROVE  IInv'
<1>1. /\ pc[p] = "store" /\ pc[p] # "idle" /\ ~path[p] /\ Covered(tok[p]) /\ sha' = tok[p]
      /\ pc' = [pc EXCEPT ![p] = "mount"]
      /\ UNCHANGED <<used, azure, node, cache, locked, locals, hist, events>>
  BY DEF StoreSHA, Goto, IInv, CallInv, TicketInv
<1>2. /\ UNCHANGED <<used, azure, mounted, cache, vol, key, acct, late, confirmed, foreign>>
      /\ UNCHANGED <<vol, ticket, tokenFile, excused, confirmed>>
      /\ path' = path /\ tok' = tok /\ events' = events /\ locked' = locked
  BY <1>1 DEF node, locals, hist
<1>3. OthersWait(p) /\ pc'[p] = "mount"
  BY <1>1, <1>2, NodeTypes DEF OthersWait, NodePCs
<1>4. TypeOK' /\ CallInv' => TicketInv'
  BY <1>1, <1>2, <1>3, TicketStays
<1> QED
  BY <1>1, <1>2, <1>3, <1>4, NodeTypes, CallFacts, NodeStepKeeps

\* A volume is mounted from the account its call works on.
LEMMA MountKeeps ==
    ASSUME IInv, NEW p \in Procs, Mount(p)
    PROVE  IInv'
<1>1. /\ pc[p] = "mount" /\ pc[p] # "idle" /\ vol[p] \in Volumes /\ acct[p] \in Accounts
      /\ acct[p] = Account[vol[p]] \/ Account[vol[p]] \in foreign
  BY CallFacts DEF Mount
<1>2. /\ UNCHANGED <<used, azure, ticket, tokenFile, cache, sha, foreign>>
      /\ End(p, "ok") \/ End(p, "err")
      /\ Event \/ events' = events
      /\ mounted' = mounted \/ mounted' = [mounted EXCEPT ![vol[p]] = acct[p]]
  BY DEF Mount
<1>3. /\ UNCHANGED <<used, keyNow, token, ticket, tokenFile, cache, sha>>
      /\ used' = used /\ foreign' = foreign /\ secret' = secret /\ created' = created
  BY <1>2 DEF azure
<1>4. /\ secret' \in [Secrets -> [account : Accounts, key : Keys] \cup {None}] /\ created' \subseteq used
      /\ mounted' \in [Volumes -> Accounts \cup {None}]
      /\ foreign \subseteq foreign' /\ foreign' \subseteq Accounts
  BY <1>1, <1>2, <1>3 DEF IInv, TypeOK
<1>5. KeysOfSecrets'
  BY <1>3, SameKeys
<1>6. MountedFromTheirs'
  BY <1>1, <1>2, <1>3, VolumeFacts DEF IInv, TypeOK, KeysOfTheirAccount, MountedFromTheirs
<1> QED
  BY <1>1, <1>2, <1>3, <1>4, <1>5, <1>6, EndKeeps

\* Setting the ticket with the latest token covers every token, and with an older one than
\* the ticket excuses it.
LEMMA SetCredentialCacheKeeps ==
    ASSUME IInv, NEW p \in Procs, SetCredentialCache(p)
    PROVE  IInv'
<1> DEFINE new == IF path[p] THEN tokenFile[vol[p]] ELSE tok[p]
<1>1. pc[p] = "ticket" /\ pc[p] # "idle"
  BY DEF SetCredentialCache
<1>2. CASE End(p, "err") /\ (Event \/ events' = events) /\ ticket' = ticket
  <2>1. UNCHANGED <<used, azure, node, cache, sha, foreign>>
    BY <1>2 DEF SetCredentialCache, node
  <2> QED
    BY <1>1, <1>2, <2>1, FailureKeeps
<1>3. ASSUME ticket' = new, excused' = (new # token /\ (excused \/ new < ticket)),
             pc' = [pc EXCEPT ![p] = IF path[p] THEN "mount" ELSE "store"],
             UNCHANGED <<locals, locked, confirmed, events>>,
             UNCHANGED <<used, azure, tokenFile, mounted, cache, sha, foreign>>
      PROVE  IInv'
  <2>1. /\ UNCHANGED <<used, azure, mounted, cache, vol, key, acct, late, confirmed, foreign>>
        /\ path' = path /\ tok' = tok /\ sha' = sha /\ events' = events /\ locked' = locked
        /\ tokenFile' = tokenFile /\ vol' = vol /\ confirmed' = confirmed
    BY <1>3 DEF locals
  <2>2. /\ new \in 0..token /\ new \in Nat /\ tok[p] \in 0..token
        /\ path[p] => new = tokenFile[vol[p]]
        /\ ~path[p] => new = tok[p]
    BY <1>1, CallFacts, NodeTypes
  <2>3. /\ OthersWait(p) /\ pc'[p] \in {"mount", "store"} /\ (pc'[p] = "store" <=> ~path[p])
        /\ \A q \in Procs \ {p} : pc'[q] = pc[q]
    <3>1. CASE path[p]
      BY <1>3, <2>1, <3>1, NodeTypes DEF OthersWait, NodePCs
    <3>2. CASE ~path[p]
      BY <1>3, <2>1, <3>2, NodeTypes DEF OthersWait, NodePCs
    <3> QED
      BY <3>1, <3>2
  <2> HIDE DEF new
  <2>4. /\ excused' \in BOOLEAN /\ (new # token /\ excused => excused')
        /\ (new # token /\ new < ticket => excused')
    <3>1. excused' = (new # token /\ (excused \/ new < ticket))
      BY <1>3
    <3> QED
      BY <3>1, Zenon
  <2>5. ASSUME TypeOK', CallInv'
        PROVE  TicketInv'
    <3>1. /\ confirmed \in Nat /\ sha \in Nat /\ token \in Nat /\ ticket \in Nat
          /\ \A q \in Procs : tok[q] \in Nat
          /\ \A v \in Volumes : tokenFile[v] \in Nat
      BY DEF IInv, TypeOK
    <3>2. CASE new = token
      <4>1. confirmed <= ticket' /\ sha <= ticket' /\ (\A v \in Volumes : tokenFile[v] <= ticket')
            /\ \A q \in Procs : tok[q] <= ticket'
        BY <1>3, <3>2 DEF IInv, BoundInv
      <4> QED
        BY <2>1, <4>1 DEF TicketInv, Covered
    <3>3. CASE new # token
      <4>1. (ticket <= ticket' \/ excused') /\ (excused => excused')
        BY <1>3, <2>2, <2>4, <3>1, <3>3
      <4>2. Covered(confirmed') /\ Covered(sha') /\ \A v \in Volumes : Covered(tokenFile'[v])
        BY <2>1 DEF IInv, TicketInv
      <4>3. \A q \in Procs \ {p} : (pc'[q] \in {"lock", "store", "mount"} \/ (path'[q] /\ pc'[q] = "ticket"))
                                       => Covered(tok'[q])
        BY <2>1, <2>3 DEF IInv, TicketInv
      <4>4. \A q \in Procs : path[q] /\ pc[q] \in {"lock", "ticket"} =>
               \/ excused' \/ tokenFile[vol[q]] <= ticket'
               \/ /\ path'[q] /\ pc'[q] \in {"lock", "ticket"}
                  /\ tokenFile[vol[q]] <= tokenFile'[vol'[q]]
        <5>1. \A v \in Volumes : tokenFile[v] <= tokenFile[v]
          BY <3>1
        <5>2. \A q \in Procs : pc[q] # "idle" => vol[q] \in Volumes
          BY VolumeFacts DEF IInv, CallInv
        <5> QED
          BY <1>3, <2>1, <2>2, <2>3, <5>1, <5>2
      <4>5. CASE path[p]
        <5>1. Covered(tok'[p])
          BY <1>1, <2>1, <4>5 DEF IInv, TicketInv
        <5>2. \A q \in Procs : (pc'[q] \in {"lock", "store", "mount"} \/ (path'[q] /\ pc'[q] = "ticket"))
                                   => Covered(tok'[q])
          BY <4>3, <5>1
        <5> QED
          BY <2>5, <4>1, <4>2, <4>4, <5>2, TicketKeeps
      <4>6. CASE ~path[p]
        <5>1. tok[p] <= ticket'
          BY <1>3, <2>2, <4>6
        <5>2. ASSUME NEW n \in Nat, Covered(n)
              PROVE  Covered(n)'
          <6>1. CASE n <= ticket \/ excused
            BY <1>3, <2>2, <3>1, <4>1, <6>1 DEF Covered
          <6>2. ASSUME NEW q \in Procs, path[q], pc[q] \in {"lock", "ticket"}, n <= tokenFile[vol[q]]
                PROVE  Covered(n)'
            BY <2>1, <2>3, <4>6, <6>2 DEF Covered
          <6> QED
            BY <5>2, <6>1, <6>2 DEF Covered
        <5>3. Covered(confirmed)' /\ Covered(sha)' /\ \A v \in Volumes : Covered(tokenFile[v])'
          BY <2>1, <3>1, <5>2 DEF IInv, TicketInv
        <5>4. \A q \in Procs \ {p} : (pc'[q] \in {"lock", "store", "mount"} \/ (path'[q] /\ pc'[q] = "ticket"))
                                         => Covered(tok[q])'
          BY <2>1, <3>1, <4>3, <5>2
        <5>5. Covered(tok[p])'
          BY <2>1, <5>1 DEF Covered
        <5> QED
          BY <5>3, <5>4, <5>5 DEF TicketInv
      <4> QED
        BY <4>5, <4>6
    <3> QED
      BY <3>2, <3>3
  <2> QED
    BY <1>1, <1>3, <2>1, <2>2, <2>3, <2>4, <2>5, NodeTypes, CallFacts, NodeFacts, NodeStepKeeps
<1> QED
  BY <1>2, <1>3 DEF SetCredentialCache, Goto

\* A call that begins has no key, no token that is not covered and no lock.
LEMMA BeginKeeps ==
    ASSUME IInv, NEW p \in Procs, NEW v \in used,
           NEW first \in {"ctlCache", "cache", "lock", "token", "readFile"},
           Begin(p, v, first), tok' = tok \/ (first = "readFile" /\ KeepToken(p, token)),
           first = "readFile" => Auth[v] = "identity"
    PROVE  IInv'
<1>1. /\ pc[p] = "idle" /\ tok[p] = 0 /\ key[p] = None /\ ~path[p] /\ p \notin locked
      /\ v \in Volumes /\ Account[v] \in Accounts
  BY VolumeFacts DEF Begin, IInv, TypeOK, CallInv
<1>2. /\ pc' = [pc EXCEPT ![p] = first] /\ vol' = [vol EXCEPT ![p] = v]
      /\ acct' = [acct EXCEPT ![p] = Account[v]]
      /\ UNCHANGED <<used, keyNow, secret, token, created, ticket, tokenFile, mounted, cache, sha, locked>>
      /\ UNCHANGED <<key, path, late, foreign, confirmed, excused, events>>
  BY DEF Begin, Goto, azure, node, memory, hist
<1>3. /\ tok' \in [Procs -> 0..(MaxEvents + 1)] /\ \A q \in Procs \ {p} : tok'[q] = tok[q]
      /\ tok'[p] \in 0..token /\ (first # "readFile" => tok'[p] = 0)
  BY <1>1, NodeFacts DEF IInv, TypeOK, KeepToken
<1>4. /\ \A q \in Procs \ {p} : pc'[q] = pc[q] /\ vol'[q] = vol[q] /\ acct'[q] = acct[q]
      /\ pc'[p] = first /\ vol'[p] = v /\ acct'[p] = Account[v]
  BY <1>2 DEF IInv, TypeOK
<1>5. first \in ControllerPCs \cup NodePCs /\ (first \in ControllerPCs <=> first = "ctlCache")
  BY DEF ControllerPCs, NodePCs
<1>t. TypeOK'
  <2>1. /\ pc' \in [Procs -> {"idle"} \cup ControllerPCs \cup NodePCs]
        /\ vol' \in [Procs -> Volumes \cup {None}] /\ acct' \in [Procs -> Accounts \cup {None}]
    BY <1>1, <1>2, <1>5 DEF IInv, TypeOK
  <2>2. /\ \A q \in locked : q \in Procs /\ q # p /\ pc'[q] \in {"token", "sha", "ticket", "store", "mount"}
        /\ \A q, r \in locked : vol'[q] = vol'[r] => q = r
    BY <1>1, <1>4 DEF IInv, TypeOK
  <2> QED
    BY <1>2, <1>3, <2>1, <2>2 DEF IInv, TypeOK
<1>b. BoundInv'
  BY <1>2, <1>3, NodeFacts DEF IInv, BoundInv
<1>c. CallInv'
  <2> SUFFICES ASSUME NEW q \in Procs
               PROVE  /\ pc'[q] = "idle" => tok'[q] = 0 /\ ~path[q] /\ key[q] = None
                      /\ pc'[q] # "idle" => vol'[q] \in used /\ acct'[q] \in Accounts
                      /\ pc'[q] \in ControllerPCs => acct'[q] = Account[vol'[q]]
                      /\ pc'[q] \in ControllerPCs \cup {"cache", "secret", "keys"} => tok'[q] = 0
                      /\ pc'[q] = "ctlCreate" => key[q] # None
                      /\ path[q] => Auth[vol'[q]] = "identity"
                      /\ pc'[q] = "readFile" => Auth[vol'[q]] = "identity"
                      /\ pc'[q] = "writeFile" => path[q]
                      /\ pc'[q] \in {"token", "sha", "store"} => ~path[q]
    BY <1>2 DEF CallInv
  <2>1. CASE q = p
    BY <1>1, <1>3, <1>4, <1>5, <2>1
  <2>2. CASE q # p
    BY <1>3, <1>4, <2>2 DEF IInv, CallInv
  <2> QED
    BY <2>1, <2>2
<1>k. KeysInHand'
  BY <1>1, <1>2, <1>4 DEF IInv, KeysInHand
<1>s. KeysOfSecrets' /\ KeysOfCaches' /\ MountedFromTheirs'
  BY <1>2, SameKeys
<1>o. TicketInv'
  <2>1. Covered(confirmed') /\ Covered(sha') /\ \A w \in Volumes : Covered(tokenFile'[w])
    BY <1>2 DEF IInv, TicketInv
  <2>2. \A q \in Procs : (pc'[q] \in {"lock", "store", "mount"} \/ (path'[q] /\ pc'[q] = "ticket"))
                             => Covered(tok'[q])
    BY <1>2, <1>3, <1>4, NodeFacts DEF IInv, TicketInv
  <2>3. \A q \in Procs : path[q] /\ pc[q] \in {"lock", "ticket"} =>
            /\ path'[q] /\ pc'[q] \in {"lock", "ticket"}
            /\ tokenFile[vol[q]] <= tokenFile'[vol'[q]]
    <3>1. \A w \in Volumes : tokenFile[w] <= tokenFile[w]
      BY DEF IInv, TypeOK
    <3>2. \A q \in Procs : pc[q] # "idle" => vol[q] \in Volumes
      BY VolumeFacts DEF IInv, CallInv
    <3> QED
      BY <1>1, <1>2, <1>4, <3>1, <3>2
  <2>4. ticket <= ticket'
    BY <1>2, NodeTypes
  <2> QED
    BY <1>t, <1>c, <1>2, <2>1, <2>2, <2>3, <2>4, TicketKeeps
<1> QED
  BY <1>t, <1>b, <1>c, <1>k, <1>s, <1>o, Parts

\* CreateVolume, NodeStageVolume and NodePublishVolume are called.
LEMMA CallKeeps ==
    ASSUME IInv, NEW v \in Volumes, Call(v)
    PROVE  IInv'
<1>1. ASSUME NEW p \in Procs, CallCreate(p, v)
      PROVE  IInv'
  BY <1>1, BeginKeeps DEF CallCreate
<1>2. ASSUME NEW p \in Procs, CallNode(p, v)
      PROVE  IInv'
  <2>1. v \in used
    BY <1>2 DEF CallNode, IInv, TypeOK
  <2>2. CASE Auth[v] = "key"
    BY <1>2, <2>1, <2>2, BeginKeeps DEF CallNode
  <2>3. CASE Auth[v] = "oauth"
    <3>1. /\ Begin(p, v, IF mounted[v] = None THEN "lock" ELSE "token") /\ UNCHANGED tok
      BY <1>2, <2>3 DEF CallNode
    <3>2. CASE mounted[v] = None
      BY <2>1, <3>1, <3>2, BeginKeeps
    <3>3. CASE mounted[v] # None
      BY <2>1, <3>1, <3>3, BeginKeeps
    <3> QED
      BY <3>2, <3>3
  <2>4. CASE Auth[v] \notin {"key", "oauth"}
    <3>1. Auth[v] = "identity" /\ Begin(p, v, "readFile") /\ KeepToken(p, token)
      BY <1>2, <2>4, CredentialsAssumption DEF CallNode
    <3> QED
      BY <2>1, <3>1, BeginKeeps
  <2> QED
    BY <2>2, <2>3, <2>4
<1> QED
  BY <1>1, <1>2 DEF Call

\* What leaves the calls and the tickets alone.
LEMMA OutsideKeeps ==
    ASSUME IInv, TypeOK', BoundInv', KeysOfSecrets', KeysOfCaches', MountedFromTheirs',
           UNCHANGED <<used, ticket, tokenFile, sha, pc, vol, key, tok, acct, path, hist>>
    PROVE  IInv'
<1>1. CallInv' /\ KeysInHand'
  BY DEF IInv, CallInv, KeysInHand, hist
<1>2. TicketInv'
  BY DEF IInv, TicketInv, Covered, hist
<1> QED
  BY <1>1, <1>2, Parts

\* The CO gives up on a call, which goes on.
LEMMA GiveUpKeeps ==
    ASSUME IInv, NEW p \in Procs, GiveUp(p)
    PROVE  IInv'
<1>1. /\ UNCHANGED <<used, azure, node, memory, pc, vol, key, tok, acct, path, hist>>
      /\ late' = late \cup {p} /\ events' \in 0..MaxEvents /\ events' <= Bound[used] /\ events <= events' /\ events \in Nat
  BY EventFacts DEF GiveUp
<1>2. TypeOK'
  BY <1>1 DEF IInv, TypeOK, azure, node, memory, hist
<1>3. BoundInv'
  BY <1>1 DEF IInv, TypeOK, BoundInv, Generations, azure, node, memory, hist
<1>4. KeysOfSecrets' /\ KeysOfCaches' /\ MountedFromTheirs'
  BY <1>1, SameKeys DEF azure, node, memory, hist
<1> QED
  BY <1>1, <1>2, <1>3, <1>4, OutsideKeeps DEF node, memory

\* A key is rotated: the keys there are stay keys of their account.
LEMMA RotateKeyKeeps ==
    ASSUME IInv, NEW a \in Accounts, RotateKey(a)
    PROVE  IInv'
<1>1. /\ UNCHANGED <<used, secret, token, created, node, memory, pc, locals, hist>>
      /\ keyNow' = [keyNow EXCEPT ![a] = @ + 1] /\ events' = events + 1
      /\ events' \in 0..MaxEvents /\ events' <= Bound[used] /\ events \in Nat
  BY EventFacts DEF RotateKey, Event
<1>2. \A b \in Accounts : keyNow'[b] \in Generations /\ keyNow'[b] <= events' + 1
  <2>1. \A b \in Accounts : keyNow[b] \in Nat /\ keyNow[b] >= 1 /\ keyNow[b] <= events + 1
    BY DEF IInv, TypeOK, BoundInv, Generations
  <2> QED
    BY <1>1, <2>1, VolumeFacts DEF IInv, TypeOK, Generations
<1>3. keyNow' \in [Accounts -> Generations]
  BY <1>1, <1>2 DEF IInv, TypeOK
<1>4. TypeOK'
  BY <1>1, <1>3 DEF IInv, TypeOK, node, memory, locals, hist
<1>5. BoundInv'
  BY <1>1, <1>2 DEF IInv, TypeOK, BoundInv, node, memory, locals, hist
<1>6. KeysOfSecrets' /\ KeysOfCaches' /\ MountedFromTheirs'
  BY <1>1, SameKeys DEF node, memory, hist
<1> QED
  BY <1>1, <1>4, <1>5, <1>6, OutsideKeeps DEF node, memory, locals

\* A token is rotated: no token is later than the latest.
LEMMA RotateTokenKeeps ==
    ASSUME IInv, RotateToken
    PROVE  IInv'
<1>1. /\ UNCHANGED <<used, keyNow, secret, created, node, memory, pc, locals, hist>>
      /\ token' = token + 1 /\ events' = events + 1 /\ events \in Nat /\ token \in Nat
      /\ events' \in 0..MaxEvents /\ events' <= Bound[used] /\ token <= events + 1
  BY EventFacts, NodeTypes DEF RotateToken, Event, IInv, BoundInv
<1>2. token' \in 0..(MaxEvents + 1)
  BY <1>1, VolumeFacts DEF IInv
<1>3. TypeOK'
  BY <1>1, <1>2 DEF IInv, TypeOK, node, memory, locals, hist
<1>4. BoundInv'
  BY <1>1 DEF IInv, TypeOK, BoundInv, Generations, node, memory, locals, hist
<1>5. KeysOfSecrets' /\ KeysOfCaches' /\ MountedFromTheirs'
  BY <1>1, SameKeys DEF node, memory, hist
<1> QED
  BY <1>1, <1>3, <1>4, <1>5, OutsideKeeps DEF node, memory, locals

\* A secret is updated with a key of the account it is made for.
LEMMA UpdateSecretKeeps ==
    ASSUME IInv, NEW s \in Secrets, UpdateSecret(s)
    PROVE  IInv'
<1>1. /\ UNCHANGED <<used, keyNow, token, created, node, memory, pc, locals, hist, events>>
      /\ secret' = [secret EXCEPT ![s].key = Key(secret[s].account)] /\ secret[s] # None
  BY DEF UpdateSecret
<1>2. /\ secret[s] \in [account : Accounts, key : Keys]
      /\ Key(secret[s].account) \in Keys /\ Key(secret[s].account)[1] = secret[s].account
  BY <1>1 DEF IInv, TypeOK, Key, Keys
<1>3. /\ secret' \in [Secrets -> [account : Accounts, key : Keys] \cup {None}]
      /\ secret'[s].account = secret[s].account /\ secret'[s].key = Key(secret[s].account)
      /\ \A t \in Secrets \ {s} : secret'[t] = secret[t]
  BY <1>1, <1>2 DEF IInv, TypeOK
<1>4. TypeOK'
  BY <1>1, <1>3 DEF IInv, TypeOK, node, memory, locals, hist
<1>5. BoundInv'
  BY <1>1 DEF IInv, BoundInv, node, memory, locals, hist
<1>6. KeysOfSecrets'
  <2> SUFFICES ASSUME NEW t \in Secrets, secret'[t] # None
               PROVE  /\ secret'[t].key[1] = secret'[t].account \/ secret'[t].account \in foreign
                      /\ \A v \in used : SecretOf(v) = t =>
                             Account[v] = secret'[t].account \/ Account[v] \in foreign
    BY <1>1 DEF KeysOfSecrets, SecretOf, hist
  <2>1. CASE t = s
    BY <1>1, <1>2, <1>3, <2>1 DEF IInv, KeysOfSecrets
  <2>2. CASE t # s
    BY <1>3, <2>2 DEF IInv, KeysOfSecrets
  <2> QED
    BY <2>1, <2>2
<1>7. KeysOfCaches' /\ MountedFromTheirs'
  BY <1>1, SameKeys DEF node, memory, hist
<1> QED
  BY <1>1, <1>4, <1>5, <1>6, <1>7, OutsideKeeps DEF node, memory, locals

\* An entry grows old and goes.
LEMMA TickKeeps ==
    ASSUME IInv, NEW side \in Sides, NEW a \in Accounts, Tick(side, a)
    PROVE  IInv'
<1> DEFINE c == cache[side][a]
           new == IF c.age = "new" THEN [c EXCEPT !.age = "old"] ELSE None
<1>1. /\ UNCHANGED <<used, azure, node, sha, locked, pc, locals, hist, events>>
      /\ c # None /\ cache' = [cache EXCEPT ![side][a] = new]
  BY DEF Tick
<1>2. c \in [key : Keys, age : {"new", "old"}]
  BY <1>1 DEF IInv, TypeOK
<1>3. new \in [key : Keys, age : {"new", "old"}] \cup {None} /\ (new # None => new.key = c.key)
  BY <1>2
<1> HIDE DEF new
<1>4. cache' \in [Sides -> [Accounts -> [key : Keys, age : {"new", "old"}] \cup {None}]]
  BY <1>1, <1>3 DEF IInv, TypeOK
<1>5. TypeOK'
  BY <1>1, <1>4 DEF IInv, TypeOK, azure, node, locals, hist
<1>6. BoundInv'
  BY <1>1 DEF IInv, BoundInv, azure, node, locals, hist
<1>7. KeysOfCaches'
  <2> SUFFICES ASSUME NEW b \in Accounts \ foreign, NEW t \in Sides, cache'[t][b] # None
               PROVE  cache'[t][b].key[1] = b
    BY <1>1 DEF KeysOfCaches, hist
  <2>1. CASE t = side /\ b = a
    <3>1. cache'[t][b] = new /\ c.key[1] = a
      BY <1>1, <2>1 DEF IInv, TypeOK, KeysOfTheirAccount
    <3> QED
      BY <1>3, <2>1, <3>1
  <2>2. CASE ~(t = side /\ b = a)
    <3>1. cache'[t][b] = cache[t][b]
      BY <1>1, <2>2 DEF IInv, TypeOK
    <3> QED
      BY <3>1 DEF IInv, KeysOfTheirAccount
  <2> QED
    BY <2>1, <2>2
<1>8. KeysOfSecrets' /\ MountedFromTheirs'
  BY <1>1, SameKeys DEF azure, node, hist
<1> QED
  BY <1>1, <1>5, <1>6, <1>7, <1>8, OutsideKeeps DEF node, locals

\* A volume leaves the node; whoever was to set the ticket with its file is excused.
LEMMA NodeUnstageVolumeKeeps ==
    ASSUME IInv, NEW v \in Volumes, NodeUnstageVolume(v)
    PROVE  IInv'
<1>1. /\ UNCHANGED <<used, azure, ticket, memory, pc, locals, foreign, confirmed>>
      /\ UNCHANGED <<cache, secret, foreign, sha, confirmed, tok, path, vol>>
      /\ used' = used /\ secret' = secret /\ cache' = cache /\ foreign' = foreign
      /\ mounted' = [mounted EXCEPT ![v] = None] /\ Event
      /\ \/ UNCHANGED <<tokenFile, excused>>
         \/ /\ tokenFile' = [tokenFile EXCEPT ![v] = 0]
            /\ excused' = (excused \/ \E p \in Procs : vol[p] = v /\ LeavesTicketBehind(p))
  BY DEF NodeUnstageVolume, azure, memory, locals
<1>2. /\ events \in Nat /\ events' \in 0..MaxEvents /\ events' <= Bound[used] /\ events <= events'
  BY <1>1, EventFacts
<1>3. /\ excused' \in BOOLEAN /\ (excused => excused')
      /\ \A p \in Procs : tokenFile' # tokenFile /\ vol[p] = v /\ LeavesTicketBehind(p) => excused'
  <2>1. CASE UNCHANGED <<tokenFile, excused>>
    BY <2>1, NodeTypes
  <2>2. CASE excused' = (excused \/ \E p \in Procs : vol[p] = v /\ LeavesTicketBehind(p))
    BY <2>2, Zenon
  <2> QED
    BY <1>1, <2>1, <2>2
<1>4. /\ tokenFile' \in [Volumes -> 0..(MaxEvents + 1)]
      /\ \A w \in Volumes : tokenFile'[w] \in {tokenFile[w], 0} /\ (tokenFile' = tokenFile \/ w = v \/ tokenFile'[w] = tokenFile[w])
  BY <1>1, VolumeFacts DEF IInv, TypeOK
<1>5. TypeOK'
  <2>1. mounted' \in [Volumes -> Accounts \cup {None}]
    BY <1>1 DEF IInv, TypeOK
  <2> QED
    BY <1>1, <1>2, <1>3, <1>4, <2>1 DEF IInv, TypeOK, azure, memory, locals
<1>6. BoundInv'
  <2>1. \A w \in Volumes : tokenFile'[w] <= token
    BY <1>4, NodeTypes DEF IInv, BoundInv
  <2>2. token <= events' + 1 /\ \A a \in Accounts : keyNow[a] <= events' + 1
    BY <1>2, NodeTypes DEF IInv, TypeOK, BoundInv, Generations
  <2> QED
    BY <1>1, <1>2, <2>1, <2>2 DEF IInv, BoundInv, azure, locals
<1>7. CallInv' /\ KeysInHand'
  BY <1>1 DEF IInv, CallInv, KeysInHand, locals
<1>8. KeysOfSecrets' /\ KeysOfCaches'
  BY <1>1, SameKeys
<1>9. MountedFromTheirs'
  BY <1>1 DEF IInv, TypeOK, KeysOfTheirAccount, MountedFromTheirs
<1>10. TicketInv'
  <2>1. Covered(confirmed') /\ Covered(sha') /\ \A w \in Volumes : Covered(tokenFile'[w])
    BY <1>1, <1>4, NodeFacts DEF IInv, TicketInv
  <2>2. \A q \in Procs : (pc'[q] \in {"lock", "store", "mount"} \/ (path'[q] /\ pc'[q] = "ticket"))
                             => Covered(tok'[q])
    BY <1>1 DEF IInv, TicketInv
  <2>3. ASSUME NEW q \in Procs, path[q], pc[q] \in {"lock", "ticket"}
        PROVE  \/ excused'
               \/ /\ path'[q] /\ pc'[q] \in {"lock", "ticket"}
                  /\ tokenFile[vol[q]] <= tokenFile'[vol'[q]]
    <3>1. vol[q] \in Volumes /\ LeavesTicketBehind(q) /\ tokenFile[vol[q]] <= tokenFile[vol[q]]
      BY <2>3, CallFacts DEF IInv, TypeOK, LeavesTicketBehind
    <3>2. excused' \/ tokenFile'[vol[q]] = tokenFile[vol[q]]
      BY <1>3, <1>4, <3>1
    <3> QED
      BY <1>1, <2>3, <3>1, <3>2
  <2>4. ticket <= ticket'
    BY <1>1, NodeTypes
  <2> QED
    BY <1>3, <1>5, <1>7, <2>1, <2>2, <2>3, <2>4, TicketKeeps
<1> QED
  BY <1>5, <1>6, <1>7, <1>8, <1>9, <1>10, Parts

\* A process restarts, and its calls are gone with its memory.
LEMMA RestartKeeps ==
    ASSUME IInv, NEW side \in Sides, Restart(side)
    PROVE  IInv'
<1> DEFINE dead == {p \in Procs : pc[p] # "idle" /\ Side(p) = side}
<1>1. /\ Event /\ UNCHANGED <<used, azure, node, foreign, confirmed>>
      /\ cache' = [cache EXCEPT ![side] = [a \in Accounts |-> None]]
      /\ sha' \in {sha, 0} /\ locked' = locked \ dead /\ late' = late \ dead
      /\ pc' = [p \in Procs |-> IF p \in dead THEN "idle" ELSE pc[p]]
      /\ vol' = [p \in Procs |-> IF p \in dead THEN None ELSE vol[p]]
      /\ key' = [p \in Procs |-> IF p \in dead THEN None ELSE key[p]]
      /\ tok' = [p \in Procs |-> IF p \in dead THEN 0 ELSE tok[p]]
      /\ acct' = [p \in Procs |-> IF p \in dead THEN None ELSE acct[p]]
      /\ path' = [p \in Procs |-> IF p \in dead THEN FALSE ELSE path[p]]
      /\ excused' = (excused \/ \E p \in dead : LeavesTicketBehind(p))
  BY DEF Restart
<1> HIDE DEF dead
<1>2. /\ events \in Nat /\ events' \in 0..MaxEvents /\ events' <= Bound[used] /\ events <= events'
  BY <1>1, EventFacts
<1>3. /\ \A p \in Procs : p \in dead => /\ pc'[p] = "idle" /\ vol'[p] = None /\ key'[p] = None /\ tok'[p] = 0
                                        /\ acct'[p] = None /\ ~path'[p]
      /\ \A p \in Procs : p \notin dead => /\ pc'[p] = pc[p] /\ vol'[p] = vol[p] /\ key'[p] = key[p]
                                           /\ tok'[p] = tok[p] /\ acct'[p] = acct[p] /\ path'[p] = path[p]
  BY <1>1 DEF IInv, TypeOK
<1>4. excused' \in BOOLEAN /\ (excused => excused') /\ \A p \in dead : LeavesTicketBehind(p) => excused'
  <2>1. excused' = (excused \/ \E p \in dead : LeavesTicketBehind(p))
    BY <1>1
  <2> QED
    BY <2>1, Zenon
<1>5. cache' \in [Sides -> [Accounts -> [key : Keys, age : {"new", "old"}] \cup {None}]]
  <2>1. [a \in Accounts |-> None] \in [Accounts -> [key : Keys, age : {"new", "old"}] \cup {None}]
    OBVIOUS
  <2> QED
    BY <1>1, <2>1 DEF IInv, TypeOK
<1>t. TypeOK'
  <2>1. /\ pc' \in [Procs -> {"idle"} \cup ControllerPCs \cup NodePCs] /\ vol' \in [Procs -> Volumes \cup {None}]
        /\ key' \in [Procs -> Keys \cup {None}] /\ acct' \in [Procs -> Accounts \cup {None}]
    BY <1>1 DEF IInv, TypeOK
  <2>2. path' \in [Procs -> BOOLEAN] /\ tok' \in [Procs -> 0..(MaxEvents + 1)] /\ sha' \in 0..(MaxEvents + 1)
    <3>1. \A p \in Procs : path[p] \in BOOLEAN
      BY NodeTypes
    <3>2. path' \in [Procs -> BOOLEAN]
      BY <1>1, <3>1, Zenon
    <3>3. MaxEvents \in Nat /\ tok \in [Procs -> 0..(MaxEvents + 1)] /\ sha \in 0..(MaxEvents + 1)
      BY VolumeFacts DEF IInv, TypeOK
    <3>4. tok' \in [Procs -> 0..(MaxEvents + 1)] /\ sha' \in 0..(MaxEvents + 1)
      BY <1>1, <3>3
    <3> QED
      BY <3>2, <3>4
  <2>3. /\ \A q \in locked' : q \in Procs /\ pc'[q] \in {"token", "sha", "ticket", "store", "mount"}
        /\ \A q, r \in locked' : vol'[q] = vol'[r] => q = r
    BY <1>1, <1>3 DEF IInv, TypeOK
  <2>4. late' \subseteq Procs
    BY <1>1 DEF IInv, TypeOK
  <2> QED
    BY <1>1, <1>2, <1>4, <1>5, <2>1, <2>2, <2>3, <2>4 DEF IInv, TypeOK, azure, node
<1>b. BoundInv'
  <2>1. sha' <= token /\ \A p \in Procs : tok'[p] <= token
    BY <1>1, <1>3, NodeTypes DEF IInv, BoundInv
  <2>2. token <= events' + 1 /\ \A a \in Accounts : keyNow[a] <= events' + 1
    BY <1>2, NodeTypes DEF IInv, TypeOK, BoundInv, Generations
  <2> QED
    BY <1>1, <1>2, <2>1, <2>2 DEF IInv, BoundInv, azure, node
<1>c. CallInv' /\ KeysInHand'
  <2>1. CallInv'
    BY <1>1, <1>3 DEF IInv, CallInv, ControllerPCs
  <2>2. KeysInHand'
    BY <1>1, <1>3 DEF IInv, KeysInHand
  <2> QED
    BY <2>1, <2>2
<1>s. KeysOfSecrets' /\ MountedFromTheirs'
  BY <1>1, SameKeys DEF azure, node
<1>a. KeysOfCaches'
  BY <1>1 DEF IInv, TypeOK, KeysOfTheirAccount, KeysOfCaches
<1>o. TicketInv'
  <2>1. Covered(confirmed') /\ Covered(sha') /\ \A w \in Volumes : Covered(tokenFile'[w])
    BY <1>1, NodeFacts DEF IInv, TicketInv, node
  <2>2. \A q \in Procs : (pc'[q] \in {"lock", "store", "mount"} \/ (path'[q] /\ pc'[q] = "ticket"))
                             => Covered(tok'[q])
    BY <1>3 DEF IInv, TicketInv
  <2>3. ASSUME NEW q \in Procs, path[q], pc[q] \in {"lock", "ticket"}
        PROVE  \/ excused'
               \/ /\ path'[q] /\ pc'[q] \in {"lock", "ticket"}
                  /\ tokenFile[vol[q]] <= tokenFile'[vol'[q]]
    <3>1. LeavesTicketBehind(q) /\ tokenFile[vol[q]] <= tokenFile[vol[q]] /\ tokenFile' = tokenFile
      BY <1>1, <2>3, CallFacts DEF IInv, TypeOK, LeavesTicketBehind, node
    <3> QED
      BY <1>3, <1>4, <2>3, <3>1
  <2>4. ticket <= ticket'
    BY <1>1, NodeTypes DEF node
  <2> QED
    BY <1>t, <1>c, <1>4, <2>1, <2>2, <2>3, <2>4, TicketKeeps
<1> QED
  BY <1>t, <1>b, <1>c, <1>s, <1>a, <1>o, Parts

\* No call runs at the start, and nothing is stored.
LEMMA InitInv == Init => IInv
<1> SUFFICES ASSUME Init PROVE IInv
  OBVIOUS
<1>1. MaxEvents \in Nat /\ Bound[used] \in 0..MaxEvents /\ 1 \in Generations /\ 1 \in 0..(MaxEvents + 1)
  BY CredentialsAssumption DEF Init, Generations
<1>2. TypeOK
  <2>1. cache \in [Sides -> [Accounts -> [key : Keys, age : {"new", "old"}] \cup {None}]]
    BY DEF Init
  <2>2. /\ {token, confirmed, ticket, sha} \subseteq 0..(MaxEvents + 1)
        /\ keyNow \in [Accounts -> Generations] /\ tokenFile \in [Volumes -> 0..(MaxEvents + 1)]
        /\ tok \in [Procs -> 0..(MaxEvents + 1)] /\ events \in 0..MaxEvents
    BY <1>1 DEF Init
  <2> QED
    BY <2>1, <2>2 DEF Init, TypeOK
<1>3. BoundInv
  BY <1>1 DEF Init, BoundInv
<1>4. CallInv /\ KeysInHand /\ KeysOfSecrets
  <2>1. "idle" \notin ControllerPCs
    BY DEF ControllerPCs
  <2> QED
    BY <2>1 DEF Init, CallInv, KeysInHand, KeysOfSecrets
<1>5. KeysOfTheirAccount
  <2>1. \A v \in used : v \in Volumes /\ SecretOf(v) \in Secrets
    BY <1>2, VolumeFacts
  <2> QED
    BY <2>1 DEF Init, KeysOfTheirAccount, Sides
<1>6. TicketInv
  BY <1>1 DEF Init, TicketInv, Covered
<1> QED
  BY <1>2, <1>3, <1>4, <1>5, <1>6 DEF IInv

\* Nothing changes when nothing happens.
LEMMA StutterKeeps == IInv /\ UNCHANGED vars => IInv'
<1> SUFFICES ASSUME IInv, UNCHANGED vars PROVE IInv'
  OBVIOUS
<1>1. TypeOK' /\ BoundInv'
  BY DEF IInv, TypeOK, BoundInv, vars, azure, node, memory, locals, hist
<1>2. KeysOfSecrets' /\ KeysOfCaches' /\ MountedFromTheirs'
  BY SameKeys DEF vars, azure, node, memory, hist
<1> QED
  BY <1>1, <1>2, OutsideKeeps DEF vars, node, memory, locals

\* Each action of Next keeps the invariant.
LEMMA StepInv == IInv /\ [Next]_vars => IInv'
<1> SUFFICES ASSUME IInv, [Next]_vars PROVE IInv'
  OBVIOUS
<1>1. ASSUME NEW p \in Procs, Step(p) PROVE IInv'
  BY <1>1, ReadCacheKeeps, GetStorageAccountFromSecretKeeps, GetStorageAccesskeyKeeps,
     SetAzureCredentialsKeeps, ReadTokenFileKeeps, WriteTokenFileKeeps, TryAcquireKeeps,
     ReadTokenKeeps, CompareSHAKeeps, SetCredentialCacheKeeps, StoreSHAKeeps, MountKeeps DEF Step
<1>2. ASSUME NEW p \in Procs, GiveUp(p) PROVE IInv'
  BY <1>2, GiveUpKeeps
<1>3. ASSUME NEW v \in Volumes, Call(v) \/ NodeUnstageVolume(v) PROVE IInv'
  BY <1>3, CallKeeps, NodeUnstageVolumeKeeps
<1>4. ASSUME NEW a \in Accounts, RotateKey(a) \/ \E side \in Sides : Tick(side, a) PROVE IInv'
  BY <1>4, RotateKeyKeeps, TickKeeps
<1>5. ASSUME NEW s \in Secrets, UpdateSecret(s) PROVE IInv'
  BY <1>5, UpdateSecretKeeps
<1>6. ASSUME NEW side \in Sides, Restart(side) PROVE IInv'
  BY <1>6, RestartKeeps
<1>7. CASE RotateToken
  BY <1>7, RotateTokenKeeps
<1>8. CASE UNCHANGED vars
  BY <1>8, StutterKeeps
<1> QED
  BY <1>1, <1>2, <1>3, <1>4, <1>5, <1>6, <1>7, <1>8 DEF Next

\* The invariant holds in every state: GetAccountInfo, GetStorageAccesskey and
\* setCredentialCacheWithOAuthToken keep it, in any interleaving and across restarts.
THEOREM Invariance == Spec => []IInv
<1>1. Init => IInv
  BY InitInv
<1>2. IInv /\ [Next]_vars => IInv'
  BY StepInv
<1> QED
  BY <1>1, <1>2, PTL DEF Spec

\* The variables of Credentials have their types, and of the calls of one volume one holds
\* its lock.
THEOREM TypeCorrect == Spec => []TypeOK
<1>1. IInv => TypeOK
  BY DEF IInv
<1> QED
  BY <1>1, Invariance, PTL

\* The keys of accountCacheMap, of the secrets and behind the mounts are those of the
\* account they are for, but where a storage class names a secret of another account.
THEOREM KeysStayWithTheirAccount == Spec => []KeysOfTheirAccount
<1>1. IInv => KeysOfTheirAccount
  BY DEF IInv
<1> QED
  BY <1>1, Invariance, PTL

\* The ticket that setCredentialCache leaves is as new as the token of every call that was
\* answered OK, but for the causes that are recorded.
THEOREM TicketsAreCurrent == Spec => []TicketIsCurrent
<1>1. IInv => TicketIsCurrent
  <2> SUFFICES ASSUME IInv, ticket < confirmed, ~excused
               PROVE  \E p \in Procs : LeavesTicketBehind(p)
    BY DEF TicketIsCurrent
  <2>1. Covered(confirmed) /\ ticket \in Nat /\ confirmed \in Nat
    BY DEF IInv, TypeOK, TicketInv
  <2> QED
    BY <2>1 DEF Covered, LeavesTicketBehind
<1> QED
  BY <1>1, Invariance, PTL
============================================================================
