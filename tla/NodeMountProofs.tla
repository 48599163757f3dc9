--------------------------- MODULE NodeMountProofs --------------------------
(***************************************************************************)
(* Proofs about NodeMount, for any number of RPCs, pods, calls and faults, *)
(* and for every kind of volume.                                           *)
(***************************************************************************)
EXTENDS NodeMount, TLAPS

\* The paths of the node, and who is None.
LEMMA PathFacts ==
    /\ Stage \in Paths /\ Proxy \in Paths /\ Pods \subseteq Paths /\ None \notin Paths
    /\ Stage # Proxy /\ Stage \notin Pods /\ Proxy \notin Pods
    /\ Kinds \subseteq {"smb", "nfs", "disk", "inline", "token"}
BY NodeAssumption DEF Paths, Stage, Proxy

\* The types of the node, and of what belongs to the calls.
NodeType ==
    /\ dir \subseteq Paths
    /\ mounts \in [Paths -> Nat]
    /\ stale \subseteq Paths
    /\ late \in [Paths -> Nat]
    /\ localBind \subseteq Pods

\* What a step of the driver leaves alone, when it is no step of the lock and no
\* answer. It may find that a token is missing.
Same ==
    /\ UNCHANGED <<kind, volumeLocks, op, target, locked, kube, overtaken, abandoned, broke, calls,
                   faults>>
    /\ tokenless \subseteq tokenless' /\ tokenless' \subseteq Pods

\* Such a step for p.
Work(p) ==
    /\ pc[p] # "idle" /\ pc'[p] # "idle"
    /\ pc' \in [Procs -> PCs] /\ path' \in [Procs -> Paths \cup {None}] /\ path'[p] \in Paths
    /\ reply' \in [Procs -> {"none", "ok", "err"}]
    /\ \A q \in Procs \ {p} : pc'[q] = pc[q] /\ path'[q] = path[q] /\ reply'[q] = reply[q]
    /\ Same

\* What it may do to the node: only an unmount takes the last mount off, and only
\* of the path of p; only p's directories are made; only a bind mount of an
\* unmounted staging path is a local one.
Effect(p) ==
    /\ NodeType'
    /\ \A x \in Paths : Mounted(x) /\ ~Mounted(x)' =>
           x = path[p] /\ pc[p] \in {"unmount", "unmountStale", "unmountStaleDisk"}
    /\ \A x \in dir' \ dir : \/ x = target[p] /\ pc[p] = "mkdirAll"
                             \/ x = path[p] /\ pc[p] \in {"makeDir", "makeDiskDir", "makeTarget"}
    /\ \A x \in localBind' \ localBind : x = path[p] /\ pc[p] = "bind" /\ ~Mounted(Stage)
    /\ OnTarget => stale' \subseteq stale
    /\ kind = "token" => ~Mounted(Stage)' /\ late'[Stage] = 0
    /\ \A x \in Paths : Mounted(x)' => x \in dir'

\* The type of the state after such a step.
LEMMA WorkType ==
    ASSUME IInv, NEW p \in Procs, Work(p), NodeType'
    PROVE  TypeOK'
<1>1. \A q \in Procs : pc'[q] # "idle" =>
          target'[q] \in Paths /\ path'[q] \in Paths /\ op'[q] \in Ops
  BY DEF IInv, TypeOK, Work, Same
<1> QED
  BY <1>1 DEF IInv, TypeOK, Work, Same, NodeType, kube, hist

\* Where a call is when it makes directories or unmounts, and what it then owns.
LEMMA Owns ==
    ASSUME IInv, NEW p \in Procs, pc[p] # "idle"
    PROVE  /\ pc[p] \in {"mkdirAll", "makeDir", "makeDiskDir", "unmountStale", "unmountStaleDisk"}
              => locked[p]
           /\ pc[p] \in {"unmount", "unmountStale", "unmountStaleDisk"} /\ path[p] \in {Stage, Proxy}
              => locked[p] /\ target[p] = Stage
           /\ pc[p] \in {"makeDir", "makeDiskDir", "makeTarget"} /\ path[p] \in {Stage, Proxy}
              => locked[p] /\ target[p] = Stage
           /\ path[p] \in Pods => target[p] = path[p]
           /\ target[p] \in Paths /\ path[p] \in Paths
<1>1. CallOK(p) /\ PathOK(p) /\ target[p] \in Paths /\ path[p] \in Paths
  BY DEF IInv, TypeOK
<1>2. pc[p] \in {"mkdirAll", "makeDir", "makeDiskDir", "unmountStale", "unmountStaleDisk"}
      => locked[p]
  BY <1>1 DEF CallOK, HeldPCs, StagePCs
<1>3. path[p] \in {Stage, Proxy} => target[p] = Stage \/ path[p] = target[p]
  BY <1>1, PathFacts DEF PathOK
<1>4. path[p] \in Pods => target[p] = path[p]
  BY <1>1, PathFacts DEF PathOK
<1>5. path[p] \in {Stage, Proxy} /\ pc[p] \in {"unmount", "unmountStale", "unmountStaleDisk",
         "makeDir", "makeDiskDir", "makeTarget"} => locked[p] /\ target[p] = Stage
  BY <1>1, <1>3, PathFacts DEF CallOK, HeldPCs, StagePCs
<1> QED
  BY <1>1, <1>2, <1>4, <1>5

\* Only the owner of the staging path makes its directories or unmounts it.
LEMMA StageOwned ==
    ASSUME IInv, NEW p \in Procs, Work(p), Effect(p), ~(locked[p] /\ target[p] = Stage)
    PROVE  /\ Mounted(Stage) => Mounted(Stage)'
           /\ Stage \notin dir => Stage \notin dir'
           /\ Proxy \notin dir => Proxy \notin dir'
<1>1. pc[p] # "idle"
  BY DEF Work
<1>2. Mounted(Stage) => Mounted(Stage)'
  BY <1>1, Owns, PathFacts DEF Effect
<1>3. ASSUME NEW x \in {Stage, Proxy}, x \in dir' \ dir
      PROVE  FALSE
  <2>1. CASE x = target[p] /\ pc[p] = "mkdirAll"
    <3>1. CallOK(p)
      BY DEF IInv
    <3>2. target[p] = Stage
      BY <2>1, <3>1, PathFacts DEF CallOK
    <3> QED
      BY <1>1, <2>1, <3>2, Owns
  <2>2. CASE x = path[p] /\ pc[p] \in {"makeDir", "makeDiskDir", "makeTarget"}
    BY <1>1, <2>2, Owns
  <2> QED
    BY <1>3, <2>1, <2>2 DEF Effect
<1> QED
  BY <1>2, <1>3

\* Only NodePublishVolume of a pod makes the directory of its target; only its
\* NodeUnpublishVolume unmounts the target, or the NodeStageVolume of a volume that
\* is staged there when the mount broke.
LEMMA PodOwned ==
    ASSUME IInv, NEW p \in Procs, Work(p), Effect(p), NEW x \in Pods
    PROVE  /\ x \notin dir /\ x \in dir' => target[p] = x /\ op[p] = "publish"
           /\ Mounted(x) /\ ~Mounted(x)' =>
                /\ target[p] = x
                /\ op[p] = "unpublish" \/ (op[p] = "publish" /\ ~Intact(x))
<1>1. pc[p] # "idle" /\ CallOK(p) /\ PathOK(p) /\ x \in Paths
  BY PathFacts DEF Work, IInv
<1>2. x \notin dir /\ x \in dir' => target[p] = x
  BY <1>1, Owns DEF Effect
<1>3. x \notin dir /\ x \in dir' => op[p] = "publish"
  BY <1>1, <1>2, PathFacts DEF Effect, CallOK
<1>4. Mounted(x) /\ ~Mounted(x)' =>
         target[p] = x /\ path[p] = x /\ pc[p] \in {"unmount", "unmountStale", "unmountStaleDisk"}
  BY <1>1, Owns DEF Effect
<1>5. Mounted(x) /\ ~Mounted(x)' /\ op[p] # "unpublish" =>
         op[p] = "publish" /\ OnTarget /\ pc[p] \in {"unmountStale", "unmountStaleDisk"}
  BY <1>1, <1>4, PathFacts DEF CallOK, StagePCs
<1>6. Mounted(x) /\ ~Mounted(x)' /\ op[p] # "unpublish" => ~Intact(x)
  BY <1>1, <1>4, <1>5 DEF PathOK, Intact, OnTarget
<1> QED
  BY <1>2, <1>3, <1>4, <1>5, <1>6

\* The other calls do not notice such a step.
LEMMA OthersKeep ==
    ASSUME IInv, NEW p \in Procs, Work(p), Effect(p), NEW q \in Procs, q # p
    PROVE  CallOK(q)' /\ PathOK(q)' /\ AnswerOK(q)'
<1>1. /\ pc'[q] = pc[q] /\ path'[q] = path[q] /\ reply'[q] = reply[q]
      /\ UNCHANGED <<kind, op, target, locked, cancelled, staged, pod, overtaken, abandoned, broke>>
      /\ tokenless \subseteq tokenless'
  BY DEF Work, Same, kube
<1>2. CallOK(q) /\ PathOK(q) /\ AnswerOK(q) /\ CallOK(p) /\ pc[p] # "idle"
  BY DEF IInv, Work
<1>3. locked[p] /\ locked[q] => target[p] # target[q]
  BY DEF IInv, LocksOK
<1>4. CallOK(q)'
  BY <1>1, <1>2 DEF CallOK, OnTarget
<1>5. locked[q] /\ target[q] = Stage => /\ Mounted(Stage) => Mounted(Stage)'
                                        /\ Stage \notin dir => Stage \notin dir'
                                        /\ Proxy \notin dir => Proxy \notin dir'
  BY <1>3, StageOwned
<1>6. PathOK(q)'
  <2>1. op[q] = "unstage" /\ path[q] = Proxy /\ locked[q] /\ q \notin cancelled => Stage \notin dir'
    <3> SUFFICES ASSUME op[q] = "unstage", path[q] = Proxy, locked[q], q \notin cancelled
                 PROVE  Stage \notin dir'
      OBVIOUS
    <3>1. target[q] = Stage
      BY <1>2 DEF CallOK
    <3> QED
      BY <1>2, <1>5, <3>1 DEF PathOK
  <2>2. pc[q] = "chmod" => kind = "nfs" /\ Mounted(path[q])'
    <3> SUFFICES ASSUME pc[q] = "chmod"
                 PROVE  kind = "nfs" /\ Mounted(path[q])'
      OBVIOUS
    <3>1. kind = "nfs" /\ Mounted(path[q]) /\ locked[q]
      BY <1>2 DEF PathOK, CallOK, HeldPCs, StagePCs
    <3>2. target[q] = Stage /\ path[q] = Stage
      BY <1>2, <3>1 DEF PathOK, CallOK, OnTarget
    <3> QED
      BY <1>1, <1>5, <3>1, <3>2
  <2> QED
    BY <1>1, <1>2, <2>1, <2>2 DEF PathOK, OnTarget
<1>7. ASSUME pc[q] = "return", reply[q] = "ok"
      PROVE  AnswerOK(q)'
  <2>1. ASSUME op[q] = "unstage" \/ (op[q] = "stage" /\ kind # "token"),
               locked[q] \/ (q \notin cancelled /\ ~overtaken)
        PROVE  /\ locked[q] \/ Nobody(Stage)
               /\ op[q] = "stage" => Mounted(Stage)'
               /\ op[q] = "unstage" /\ q \notin cancelled => Gone'
    <3>1. /\ locked[q] \/ Nobody(Stage)
          /\ op[q] = "stage" => Mounted(Stage)
          /\ op[q] = "unstage" /\ q \notin cancelled => Gone
      BY <1>2, <1>7, <2>1 DEF AnswerOK
    <3>2. target[q] = Stage
      BY <1>2, <1>7, <2>1 DEF CallOK
    <3>3. ~(locked[p] /\ target[p] = Stage)
      BY <1>3, <3>1, <3>2 DEF Nobody
    <3> QED
      BY <3>1, <3>3, StageOwned DEF Gone
  <2>2. ASSUME op[q] = "publish", Intact(target[q])
        PROVE  Mounted(target[q])'
    <3>1. Mounted(target[q]) /\ target[q] \in Pods
      BY <1>2, <1>7, <2>2 DEF AnswerOK, CallOK
    <3>2. SentOK(q) /\ SentOK(p)
      BY <1>2, <1>7 DEF IInv, KubeletOK
    <3>3. ~(target[p] = target[q] /\ op[p] = "unpublish")
      BY <2>2, <3>2 DEF SentOK, Intact
    <3> QED
      BY <1>1, <2>2, <3>1, <3>3, PodOwned DEF Mounted
  <2>3. ASSUME op[q] = "unpublish", target[q] \notin abandoned
        PROVE  target[q] \notin dir'
    <3>1. target[q] \notin dir /\ target[q] \in Pods
      BY <1>2, <1>7, <2>3 DEF AnswerOK, CallOK
    <3>2. SentOK(q) /\ SentOK(p)
      BY <1>2, <1>7 DEF IInv, KubeletOK
    <3>3. ~(target[p] = target[q] /\ op[p] = "publish")
      BY <2>3, <3>2 DEF SentOK
    <3> QED
      BY <3>1, <3>3, PodOwned
  <2>4. (Nobody(Stage))' = Nobody(Stage) /\ (Intact(target[q])' => Intact(target[q]))
    BY <1>1 DEF Nobody, Intact, OnTarget
  <2> QED
    BY <1>1, <2>1, <2>2, <2>3, <2>4 DEF AnswerOK
<1>8. AnswerOK(q)'
  BY <1>1, <1>7 DEF AnswerOK
<1> QED
  BY <1>4, <1>6, <1>8

\* A step of the driver keeps the invariant if what it says of its own call is kept.
LEMMA WorkKeeps ==
    ASSUME IInv, NEW p \in Procs, Work(p), Effect(p), CallOK(p)', PathOK(p)', AnswerOK(p)'
    PROVE  IInv'
<1>1. TypeOK'
  BY WorkType DEF Effect
<1>2. \A q \in Procs : CallOK(q)' /\ PathOK(q)' /\ AnswerOK(q)'
  BY OthersKeep
<1>3. /\ \A q \in Procs : pc'[q] = "idle" <=> pc[q] = "idle"
      /\ UNCHANGED <<kind, volumeLocks, op, target, locked, cancelled, staged, pod, overtaken,
                     abandoned, broke>>
      /\ tokenless \subseteq tokenless'
  BY DEF Work, Same, kube
<1>4. LocksOK'
  BY <1>3 DEF IInv, LocksOK
<1>5. KubeletOK'
  <2>1. \A q \in Procs : SentOK(q)' <=> SentOK(q)
    BY <1>3 DEF SentOK
  <2> QED
    BY <1>3, <2>1 DEF IInv, KubeletOK
<1>6. ToldOK'
  <2>1. ASSUME staged = "no" \/ (staged = "yes" /\ kind # "token"), ~overtaken
        PROVE  Nobody(Stage) /\ (staged = "yes" => Mounted(Stage)') /\ (staged = "no" => Gone')
    <3>1. Nobody(Stage) /\ (staged = "yes" => Mounted(Stage)) /\ (staged = "no" => Gone)
      BY <2>1 DEF IInv, ToldOK
    <3>2. ~(locked[p] /\ target[p] = Stage)
      BY <3>1 DEF Nobody
    <3> QED
      BY <3>1, <3>2, StageOwned DEF Gone
  <2>2. pc[p] # "idle" /\ SentOK(p)
    BY DEF IInv, KubeletOK, Work
  <2>3. ASSUME NEW x \in Pods, pod[x] = "running", Intact(x)
        PROVE  Mounted(x)'
    <3>1. Mounted(x)
      BY <2>3 DEF IInv, ToldOK
    <3>2. ~(target[p] = x /\ op[p] = "unpublish")
      BY <2>2, <2>3 DEF SentOK
    <3> QED
      BY <2>3, <3>1, <3>2, PodOwned
  <2>4. ASSUME NEW x \in Pods \ abandoned, pod[x] = "gone"
        PROVE  x \notin dir'
    <3>1. x \notin dir
      BY <2>4 DEF IInv, ToldOK
    <3>2. ~(target[p] = x /\ op[p] = "publish")
      BY <2>2, <2>4 DEF SentOK
    <3> QED
      BY <3>1, <3>2, PodOwned
  <2>5. (Nobody(Stage))' = Nobody(Stage) /\ \A x \in Pods : Intact(x)' => Intact(x)
    BY <1>3 DEF Nobody, Intact, OnTarget
  <2> QED
    BY <1>3, <2>1, <2>3, <2>4, <2>5 DEF ToldOK
<1>7. NodeOK'
  <2>1. \A x \in Paths : Mounted(x)' => x \in dir'
    BY DEF Effect
  <2>2. ASSUME NEW x \in localBind' \ localBind
        PROVE  kind # "inline"
               /\ (~overtaken => x \in abandoned \/ (kind = "token" /\ x \in tokenless))
    <3>1. x = path[p] /\ pc[p] = "bind" /\ ~Mounted(Stage) /\ x \in Pods
      BY <2>2 DEF Effect, NodeType
    <3>2. CallOK(p) /\ PathOK(p) /\ SentOK(p) /\ target[p] = x
      BY <3>1, Owns DEF IInv, KubeletOK, Work
    <3>3. kind # "inline" /\ op[p] = "publish"
      BY <3>1, <3>2 DEF CallOK, StagePCs
    <3>4. x \in abandoned \/ staged = "yes"
      BY <3>1, <3>2, <3>3 DEF SentOK, IInv, KubeletOK
    <3>5. kind = "token" => x \in tokenless
      BY <3>1, <3>2 DEF PathOK
    <3> QED
      BY <3>1, <3>3, <3>4, <3>5 DEF IInv, ToldOK
  <2>3. (OnTarget => stale' \subseteq broke) /\ (kind = "inline" => localBind' = {})
    BY <2>2 DEF IInv, NodeOK, Effect
  <2>4. ~overtaken => localBind' \subseteq abandoned \cup IF kind = "token" THEN tokenless' ELSE {}
    BY <1>3, <2>2 DEF IInv, NodeOK
  <2>5. kind = "token" => ~Mounted(Stage)' /\ late'[Stage] = 0 /\ Stage \notin stale'
    BY DEF IInv, NodeOK, Effect, OnTarget
  <2> QED
    BY <1>3, <2>1, <2>3, <2>4, <2>5 DEF NodeOK, OnTarget
<1> QED
  BY <1>1, <1>2, <1>4, <1>5, <1>6, <1>7 DEF IInv

-----------------------------------------------------------------------------
(***************************************************************************)
(* The steps of the driver                                                 *)
(***************************************************************************)

\* A step that goes from one point of a call to another.
LEMMA GoesOn ==
    ASSUME IInv, NEW p \in Procs, NEW from, NEW to \in PCs \ {"idle"}, from # "idle",
           Goto(p, from, to), Same, path' \in [Procs -> Paths \cup {None}], path'[p] \in Paths,
           \A q \in Procs \ {p} : path'[q] = path[q] /\ reply'[q] = reply[q],
           reply' \in [Procs -> {"none", "ok", "err"}]
    PROVE  Work(p) /\ pc[p] = from /\ pc'[p] = to
BY DEF IInv, TypeOK, Work, Goto

\* It may stay on its path.
LEMMA StaysOn ==
    ASSUME IInv, NEW p \in Procs, pc[p] # "idle", path' = path
    PROVE  path' \in [Procs -> Paths \cup {None}] /\ path'[p] \in Paths
           /\ \A q \in Procs \ {p} : path'[q] = path[q]
BY DEF IInv, TypeOK

\* It may go to another.
LEMMA TurnsTo ==
    ASSUME IInv, NEW p \in Procs, NEW x \in Paths, path' = [path EXCEPT ![p] = x]
    PROVE  path' \in [Procs -> Paths \cup {None}] /\ path'[p] = x
           /\ \A q \in Procs \ {p} : path'[q] = path[q]
BY DEF IInv, TypeOK

\* It goes on, and says nothing.
LEMMA MovesOn ==
    ASSUME IInv, NEW p \in Procs, NEW from, NEW to \in PCs \ {"idle"}, from # "idle",
           Goto(p, from, to), Same, path' = path, reply' = reply
    PROVE  Work(p) /\ pc[p] = from /\ pc'[p] = to
<1>1. pc[p] # "idle"
  BY DEF Goto
<1>2. path' \in [Procs -> Paths \cup {None}] /\ path'[p] \in Paths
      /\ \A q \in Procs \ {p} : path'[q] = path[q]
  BY <1>1, StaysOn
<1>3. reply' \in [Procs -> {"none", "ok", "err"}] /\ \A q \in Procs \ {p} : reply'[q] = reply[q]
  BY DEF IInv, TypeOK
<1> QED
  BY <1>2, <1>3, GoesOn

\* It returns.
LEMMA Returns ==
    ASSUME IInv, NEW p \in Procs, NEW from, NEW r \in {"ok", "err"}, from # "idle",
           Return(p, from, r), Same, path' \in [Procs -> Paths \cup {None}], path'[p] \in Paths,
           \A q \in Procs \ {p} : path'[q] = path[q]
    PROVE  Work(p) /\ pc[p] = from /\ pc'[p] = "return" /\ reply'[p] = r
<1>1. /\ reply' \in [Procs -> {"none", "ok", "err"}] /\ reply'[p] = r
      /\ \A q \in Procs \ {p} : reply'[q] = reply[q]
  BY DEF IInv, TypeOK, Return
<1>2. Goto(p, from, "return") /\ "return" \in PCs \ {"idle"}
  BY DEF Return, PCs
<1> QED
  BY <1>1, <1>2, GoesOn

\* Where a call that returns with an error stands.
LEMMA Fails ==
    ASSUME IInv, NEW p \in Procs, NEW from, from # "idle", Return(p, from, "err"), Same,
           path' = path, Effect(p), dir' \subseteq dir
    PROVE  IInv'
<1>1. pc[p] # "idle"
  BY DEF Return, Goto
<1>2. path' \in [Procs -> Paths \cup {None}] /\ path'[p] \in Paths
      /\ \A q \in Procs \ {p} : path'[q] = path[q]
  BY <1>1, StaysOn
<1>3. Work(p) /\ pc'[p] = "return" /\ reply'[p] = "err"
  BY <1>2, Returns
<1>4. CallOK(p) /\ PathOK(p)
  BY DEF IInv
<1>5. CallOK(p)'
  BY <1>1, <1>3, <1>4 DEF CallOK, HeldPCs, StagePCs, Same, kube, OnTarget
<1>6. PathOK(p)'
  BY <1>1, <1>3, <1>4 DEF PathOK, Same, kube, hist, OnTarget
<1>7. AnswerOK(p)'
  BY <1>3 DEF AnswerOK
<1> QED
  BY <1>3, <1>5, <1>6, <1>7, WorkKeeps

\* The staging path of a volume that uses a token is nobody's to mount.
LEMMA TokenPath ==
    ASSUME IInv, NEW p \in Procs, kind = "token",
           pc[p] \in HeldPCs \cup {"ensureTarget", "makeTarget", "bind"}
    PROVE  path[p] # Stage
<1>1. CallOK(p) /\ PathOK(p)
  BY DEF IInv
<1>2. target[p] \in Pods
  BY <1>1 DEF CallOK, HeldPCs, StagePCs
<1> QED
  BY <1>1, <1>2, PathFacts DEF PathOK, HeldPCs, StagePCs

\* Nothing happens to the node.
LEMMA NodeSame ==
    ASSUME IInv, NEW p \in Procs, UNCHANGED node
    PROVE  Effect(p) /\ dir' \subseteq dir
BY DEF IInv, TypeOK, NodeOK, Effect, NodeType, node, Mounted

\* Only the helpers that outlived their call change.
LEMMA LateEffect ==
    ASSUME IInv, NEW p \in Procs, UNCHANGED <<dir, mounts, stale, localBind>>,
           late' \in [Paths -> Nat], kind = "token" => late'[Stage] = late[Stage]
    PROVE  Effect(p) /\ dir' \subseteq dir
BY DEF IInv, TypeOK, NodeOK, Effect, NodeType, Mounted

\* A mount on a path that has its directory.
LEMMA PushEffect ==
    ASSUME IInv, NEW p \in Procs, NEW x \in Paths, x \in dir, Push(x),
           UNCHANGED <<dir, late, localBind>>, kind = "token" => x # Stage
    PROVE  Effect(p) /\ dir' \subseteq dir /\ Mounted(x)'
<1>1. mounts' \in [Paths -> Nat] /\ mounts'[x] > 0 /\ \A y \in Paths \ {x} : mounts'[y] = mounts[y]
  BY DEF IInv, TypeOK, Push
<1> QED
  BY <1>1, PathFacts DEF IInv, TypeOK, NodeOK, Effect, NodeType, Mounted, Push

\* An unmount of the path of p, or none.
LEMMA PopEffect ==
    ASSUME IInv, NEW p \in Procs, pc[p] \in {"unmount", "unmountStale", "unmountStaleDisk"},
           Pop(path[p]) \/ UNCHANGED <<mounts, stale, localBind>>, UNCHANGED <<dir, late>>
    PROVE  Effect(p) /\ dir' \subseteq dir
<1>1. CASE UNCHANGED <<mounts, stale, localBind>>
  BY <1>1, NodeSame DEF node
<1>2. CASE Pop(path[p])
  <2>1. path[p] \in Paths
    BY DEF IInv, TypeOK
  <2>2. /\ mounts' \in [Paths -> Nat] /\ mounts'[path[p]] <= mounts[path[p]]
        /\ \A y \in Paths \ {path[p]} : mounts'[y] = mounts[y]
    BY <1>2, <2>1 DEF IInv, TypeOK, Pop
  <2>3. mounts \in [Paths -> Nat] /\ stale' \subseteq stale /\ localBind' \subseteq localBind
    BY <1>2 DEF IInv, TypeOK, Pop
  <2>4. kind = "token" => mounts'[Stage] = 0
    BY <2>1, <2>2, <2>3, PathFacts DEF IInv, NodeOK, Mounted, TypeOK
  <2> QED
    BY <2>1, <2>2, <2>3, <2>4 DEF IInv, TypeOK, NodeOK, Effect, NodeType, Mounted
<1> QED
  BY <1>1, <1>2

\* A directory is made at the path of p.
LEMMA DirEffect ==
    ASSUME IInv, NEW p \in Procs, pc[p] \in {"makeDir", "makeDiskDir", "makeTarget"},
           dir' = dir \cup {path[p]}, UNCHANGED <<mounts, stale, late, localBind>>
    PROVE  Effect(p)
<1>1. path[p] \in Paths
  BY DEF IInv, TypeOK
<1> QED
  BY <1>1 DEF IInv, TypeOK, NodeOK, Effect, NodeType, Mounted

\* A directory on which nothing is mounted is removed.
LEMMA RemoveEffect ==
    ASSUME IInv, NEW p \in Procs, NEW x, ~Mounted(x), dir' = dir \ {x},
           UNCHANGED <<mounts, stale, late, localBind>>
    PROVE  Effect(p) /\ dir' \subseteq dir
BY DEF IInv, TypeOK, NodeOK, Effect, NodeType, Mounted

\* Where a call that goes on and changes neither its path nor the node stands.
LEMMA QuietMove ==
    ASSUME IInv, NEW p \in Procs, NEW from, NEW to \in PCs \ {"idle", "return"}, from # "idle",
           Goto(p, from, to), Same, UNCHANGED <<node, path, reply>>, CallOK(p)', PathOK(p)'
    PROVE  IInv'
<1>1. Work(p) /\ pc'[p] = to
  BY MovesOn
<1>2. AnswerOK(p)'
  BY <1>1 DEF AnswerOK
<1> QED
  BY <1>1, <1>2, NodeSame, WorkKeeps

\* NodeStageVolume reads the account.
LEMMA GetAccountInfoKeeps ==
    ASSUME IInv, NEW p \in Procs, GetAccountInfo(p)
    PROVE  IInv'
<1>1. Same /\ path' = path /\ UNCHANGED node
  BY DEF GetAccountInfo, Same, rpc, hist, IInv, TypeOK
<1>2. CallOK(p) /\ PathOK(p)
  BY DEF IInv
<1>3. CASE Goto(p, "account", "acquire") /\ UNCHANGED reply
  <2>1. "acquire" \in PCs \ {"idle", "return"}
    BY DEF PCs
  <2>2. pc[p] = "account" /\ pc'[p] = "acquire"
    BY <1>1, <1>3, <2>1, MovesOn
  <2>3. CallOK(p)'
    BY <1>1, <1>2, <2>2 DEF GetAccountInfo, CallOK, HeldPCs, StagePCs, Same, kube, OnTarget
  <2>4. PathOK(p)'
    <3>1. op[p] # "unstage"
      BY <1>2, <2>2 DEF CallOK
    <3> QED
      BY <1>1, <1>2, <2>2, <3>1 DEF PathOK, Same, hist, node
  <2> QED
    BY <1>1, <1>3, <2>1, <2>3, <2>4, QuietMove
<1>4. CASE Return(p, "account", "err")
  BY <1>1, <1>4, NodeSame, Fails
<1> QED
  BY <1>3, <1>4 DEF GetAccountInfo

\* NodeStageVolume finds no token.
LEMMA StageSkippedKeeps ==
    ASSUME IInv, NEW p \in Procs, StageSkipped(p)
    PROVE  IInv'
<1>1. UNCHANGED <<kind, volumeLocks, node, rpc, kube, overtaken, abandoned, broke, calls, faults>>
      /\ Return(p, "account", "ok") /\ pc[p] = "account" /\ CallOK(p) /\ PathOK(p)
  BY DEF StageSkipped, Return, Goto, IInv
<1>2. CASE kind = "token" /\ op[p] = "stage" /\ UNCHANGED tokenless
  <2>1. Same /\ path' = path
    BY <1>1, <1>2 DEF Same, rpc, IInv, TypeOK
  <2>2. path' \in [Procs -> Paths \cup {None}] /\ path'[p] \in Paths
        /\ \A q \in Procs \ {p} : path'[q] = path[q]
    BY <1>1, <2>1, StaysOn
  <2>3. Work(p) /\ pc'[p] = "return"
    BY <1>1, <2>1, <2>2, Returns
  <2>4. CallOK(p)' /\ PathOK(p)' /\ AnswerOK(p)'
    BY <1>1, <1>2, <2>1, <2>3 DEF CallOK, PathOK, AnswerOK, HeldPCs, StagePCs, Same, kube, OnTarget
  <2> QED
    BY <1>1, <2>3, <2>4, NodeSame, WorkKeeps
<1>3. CASE kind = "inline" /\ tokenless' = tokenless \cup {target[p]}
  <2>1. op[p] = "publish" /\ target[p] \in Pods
    BY <1>1, <1>3 DEF CallOK, StagePCs
  <2>2. Same /\ path' = path
    BY <1>1, <1>3, <2>1 DEF Same, rpc, IInv, TypeOK
  <2>3. path' \in [Procs -> Paths \cup {None}] /\ path'[p] \in Paths
        /\ \A q \in Procs \ {p} : path'[q] = path[q]
    BY <1>1, <2>2, StaysOn
  <2>4. Work(p) /\ pc'[p] = "return"
    BY <1>1, <2>2, <2>3, Returns
  <2>5. CallOK(p)' /\ PathOK(p)'
    BY <1>1, <1>3, <2>1, <2>2, <2>4 DEF CallOK, PathOK, HeldPCs, StagePCs, Same, kube, OnTarget
  <2>6. AnswerOK(p)'
    BY <1>3, <2>1, <2>2 DEF AnswerOK, Intact, Same
  <2> QED
    BY <1>1, <2>4, <2>5, <2>6, NodeSame, WorkKeeps
<1> QED
  BY <1>2, <1>3 DEF StageSkipped

\* The lock is taken.
LEMMA AbortedKeeps ==
    ASSUME IInv, NEW p \in Procs, Aborted(p)
    PROVE  IInv'
<1>1. Same /\ path' = path /\ UNCHANGED node /\ Return(p, "acquire", "err")
  BY DEF Aborted, Same, rpc, hist, IInv, TypeOK
<1> QED
  BY <1>1, NodeSame, Fails

\* NodeStageVolume makes the target and turns to the share.
LEMMA MkdirAllKeeps ==
    ASSUME IInv, NEW p \in Procs, MkdirAll(p)
    PROVE  IInv'
<1>1. Same /\ UNCHANGED <<mounts, stale, late, localBind>>
  BY DEF MkdirAll, Same, hist, IInv, TypeOK
<1>2. CallOK(p) /\ PathOK(p) /\ pc[p] = "mkdirAll"
  BY DEF IInv, MkdirAll, Goto, Return
<1>3. CASE Return(p, "mkdirAll", "err") /\ UNCHANGED <<dir, path>>
  BY <1>1, <1>3, NodeSame, Fails DEF node
<1>4. CASE /\ Goto(p, "mkdirAll", "ensure") /\ dir' \in {dir, dir \cup {target[p]}}
           /\ path' = [path EXCEPT ![p] = IF kind = "disk" THEN Proxy ELSE target[p]]
           /\ UNCHANGED reply
  <2> DEFINE x == IF kind = "disk" THEN Proxy ELSE target[p]
  <2>1. x \in Paths /\ target[p] \in Paths
    BY <1>2, PathFacts DEF IInv, TypeOK
  <2>2. path' \in [Procs -> Paths \cup {None}] /\ path'[p] = x
        /\ \A q \in Procs \ {p} : path'[q] = path[q]
    BY <1>4, <2>1, TurnsTo
  <2>3. "ensure" \in PCs \ {"idle"} /\ reply' \in [Procs -> {"none", "ok", "err"}]
        /\ \A q \in Procs \ {p} : reply'[q] = reply[q]
    BY <1>4 DEF PCs, IInv, TypeOK
  <2>4. Work(p) /\ pc'[p] = "ensure"
    BY <1>1, <1>4, <2>1, <2>2, <2>3, GoesOn
  <2>5. Effect(p)
    BY <1>1, <1>2, <1>4, <2>1 DEF IInv, TypeOK, NodeOK, Effect, NodeType, Mounted
  <2>6. CallOK(p)'
    BY <1>1, <1>2, <2>4 DEF CallOK, HeldPCs, StagePCs, Same, kube, OnTarget
  <2>7. kind = "disk" => target[p] = Stage
    BY <1>2, <2>1 DEF CallOK, OnTarget
  <2>8. PathOK(p)'
    <3>1. op[p] # "unstage"
      BY <1>2 DEF CallOK
    <3> QED
      BY <1>1, <1>2, <2>2, <2>4, <2>7, <3>1 DEF PathOK, Same, hist
  <2>9. AnswerOK(p)'
    BY <2>4 DEF AnswerOK
  <2> QED
    BY <2>4, <2>5, <2>6, <2>8, <2>9, WorkKeeps
<1> QED
  BY <1>3, <1>4 DEF MkdirAll

\* A path that is a mount point of the target is one of the answer of NodeStageVolume.
LEMMA StageAnswer ==
    ASSUME IInv, NEW p \in Procs, Work(p), Effect(p), pc[p] \in StagePCs \ {"account"},
           pc[p] # "acquire", pc'[p] = "return", path[p] = target[p], path' = path,
           dir' \subseteq dir, Mounted(path[p])'
    PROVE  IInv'
<1>1. CallOK(p) /\ PathOK(p)
  BY DEF IInv
<1>2. UNCHANGED <<kind, op, target, locked, cancelled, abandoned, broke, overtaken>> /\ locked[p]
  BY <1>1 DEF Work, Same, kube, hist, CallOK, HeldPCs
<1>3. CallOK(p)'
  BY <1>1, <1>2 DEF CallOK, HeldPCs, StagePCs, OnTarget
<1>4. PathOK(p)'
  BY <1>1, <1>2 DEF PathOK, OnTarget
<1>5. op[p] \in {"stage", "publish"} /\ (op[p] = "stage" => target[p] = Stage)
  BY <1>1 DEF CallOK, StagePCs
<1>6. AnswerOK(p)'
  BY <1>2, <1>5 DEF AnswerOK, Mounted
<1> QED
  BY <1>3, <1>4, <1>6, WorkKeeps

\* The share is mounted: what follows.
LEMMA AfterShareKeeps ==
    ASSUME IInv, NEW p \in Procs, NEW from \in {"ensure", "mounting", "chmod"}, AfterShare(p, from),
           Same, Effect(p), dir' \subseteq dir, mounts'[path[p]] > 0
    PROVE  IInv'
<1>1. CallOK(p) /\ PathOK(p) /\ pc[p] = from /\ target[p] \in Paths /\ path[p] \in Paths
  BY DEF IInv, TypeOK, AfterShare, Goto, Return
<1>2. CASE kind = "disk" /\ Goto(p, from, "ensureDisk") /\ path' = [path EXCEPT ![p] = target[p]]
           /\ UNCHANGED reply
  <2>1. path' \in [Procs -> Paths \cup {None}] /\ path'[p] = target[p]
        /\ \A q \in Procs \ {p} : path'[q] = path[q]
    BY <1>1, <1>2, TurnsTo
  <2>2. "ensureDisk" \in PCs \ {"idle"} /\ reply' \in [Procs -> {"none", "ok", "err"}]
        /\ \A q \in Procs \ {p} : reply'[q] = reply[q]
    BY <1>2 DEF PCs, IInv, TypeOK
  <2>3. Work(p) /\ pc'[p] = "ensureDisk"
    BY <1>1, <1>2, <2>1, <2>2, GoesOn
  <2>4. CallOK(p)'
    BY <1>1, <2>3 DEF CallOK, HeldPCs, StagePCs, Same, kube, OnTarget
  <2>5. PathOK(p)'
    <3>1. op[p] # "unstage"
      BY <1>1 DEF CallOK
    <3> QED
      BY <1>1, <1>2, <2>1, <2>3, <3>1 DEF PathOK, Same, hist
  <2>6. AnswerOK(p)'
    BY <2>3 DEF AnswerOK
  <2> QED
    BY <2>3, <2>4, <2>5, <2>6, WorkKeeps
<1>3. CASE kind # "disk" /\ Return(p, from, "ok") /\ UNCHANGED path
  <2>1. path' \in [Procs -> Paths \cup {None}] /\ path'[p] \in Paths
        /\ \A q \in Procs \ {p} : path'[q] = path[q]
    BY <1>1, <1>3, StaysOn
  <2>2. Work(p) /\ pc'[p] = "return"
    BY <1>3, <2>1, Returns
  <2>3. path[p] = target[p]
    BY <1>1, <1>3 DEF PathOK, CallOK
  <2>4. pc[p] \in StagePCs \ {"account"} /\ pc[p] # "acquire"
    BY <1>1 DEF StagePCs
  <2> QED
    BY <1>3, <2>2, <2>3, <2>4, StageAnswer DEF Mounted
<1>4. CASE Return(p, from, "err") /\ UNCHANGED path
  BY <1>4, Fails
<1> QED
  BY <1>2, <1>3, <1>4 DEF AfterShare

\* The path is no mount point or a broken one: where NodeStageVolume goes.
LEMMA NotUsableKeeps ==
    ASSUME IInv, NEW p \in Procs, Same, UNCHANGED node,
           \/ NotUsable(p, "ensure", "makeDir", "unmountStale")
           \/ NotUsable(p, "ensureDisk", "makeDiskDir", "unmountStaleDisk")
    PROVE  IInv'
<1>1. path' = path /\ CallOK(p) /\ PathOK(p)
  BY DEF IInv, NotUsable
<1>2. ASSUME NEW from \in {"ensure", "ensureDisk"},
             NEW to \in {"makeDir", "unmountStale", "makeDiskDir", "unmountStaleDisk"},
             Goto(p, from, to), UNCHANGED reply,
             from = "ensure" => to \in {"makeDir", "unmountStale"},
             from = "ensureDisk" => to \in {"makeDiskDir", "unmountStaleDisk"},
             to = "unmountStale" => path[p] \in stale
      PROVE  IInv'
  <2>1. to \in PCs \ {"idle", "return"} /\ from # "idle"
    BY <1>2 DEF PCs
  <2>2. pc[p] = from /\ pc'[p] = to
    BY <1>1, <1>2, <2>1, MovesOn
  <2>3. CallOK(p)'
    BY <1>1, <1>2, <2>2 DEF CallOK, HeldPCs, StagePCs, Same, kube, OnTarget
  <2>4. OnTarget /\ to = "unmountStale" => path[p] \in broke
    BY <1>2 DEF IInv, NodeOK
  <2>5. from = "ensureDisk" => kind = "disk" /\ path[p] = target[p]
    BY <1>1, <2>2 DEF PathOK
  <2>6. PathOK(p)'
    BY <1>1, <1>2, <2>2, <2>4, <2>5 DEF PathOK, Same, kube, node, OnTarget
  <2> QED
    BY <1>1, <1>2, <2>1, <2>3, <2>6, QuietMove
<1>3. ASSUME NEW from \in {"ensure", "ensureDisk"}, Return(p, from, "err")
      PROVE  IInv'
  BY <1>1, <1>3, NodeSame, Fails
<1> QED
  BY <1>2, <1>3 DEF NotUsable

\* NodeStageVolume looks for the share.
LEMMA EnsureShareKeeps ==
    ASSUME IInv, NEW p \in Procs, EnsureShare(p)
    PROVE  IInv'
<1>1. Same /\ UNCHANGED node
  BY DEF EnsureShare, Same, hist, IInv, TypeOK
<1>2. CASE Usable(path[p]) /\ AfterShare(p, "ensure")
  <2>1. mounts'[path[p]] > 0
    BY <1>1, <1>2 DEF Usable, Mounted, node
  <2> QED
    BY <1>1, <1>2, <2>1, NodeSame, AfterShareKeeps
<1>3. CASE NotUsable(p, "ensure", "makeDir", "unmountStale")
  BY <1>1, <1>3, NotUsableKeeps
<1> QED
  BY <1>2, <1>3 DEF EnsureShare

\* ensureMountPoint makes the directory.
LEMMA MakesDir ==
    ASSUME IInv, NEW p \in Procs, NEW from, NEW to, MakeDir(p, from, to),
           \/ from = "makeDir" /\ to = "mount"
           \/ from = "makeDiskDir" /\ to = "format"
           \/ from = "makeTarget" /\ to = "bind"
    PROVE  IInv'
<1>1. Same /\ UNCHANGED <<mounts, stale, late, localBind, path, reply>> /\ dir' = dir \cup {path[p]}
  BY DEF MakeDir, Same, rpc, hist, IInv, TypeOK
<1>2. Goto(p, from, to) /\ from # "idle" /\ to \in PCs \ {"idle", "return"}
  BY DEF MakeDir, PCs
<1>3. Work(p) /\ pc[p] = from /\ pc'[p] = to
  BY <1>1, <1>2, MovesOn
<1>4. Effect(p)
  BY <1>1, <1>3, DirEffect
<1>5. CallOK(p) /\ PathOK(p)
  BY DEF IInv
<1>6. CallOK(p)'
  BY <1>1, <1>3, <1>5 DEF CallOK, HeldPCs, StagePCs, Same, kube, OnTarget
<1>7. op[p] # "unstage"
  BY <1>3, <1>5 DEF CallOK
<1>8. PathOK(p)'
  BY <1>1, <1>3, <1>5, <1>7 DEF PathOK, Same, OnTarget
<1>9. AnswerOK(p)'
  BY <1>2, <1>3 DEF AnswerOK
<1> QED
  BY <1>3, <1>4, <1>6, <1>8, <1>9, WorkKeeps

\* ensureMountPoint takes the broken mount off.
LEMMA UnmountStaleKeeps ==
    ASSUME IInv, NEW p \in Procs,
           UnmountStale(p, "unmountStale") \/ UnmountStale(p, "unmountStaleDisk")
    PROVE  IInv'
<1>1. ASSUME NEW from \in {"unmountStale", "unmountStaleDisk"}, UnmountStale(p, from)
      PROVE  IInv'
  <2>1. Same /\ UNCHANGED <<dir, late>> /\ path' = path /\ Return(p, from, "err")
    BY <1>1 DEF UnmountStale, Same, rpc, hist, IInv, TypeOK
  <2>2. pc[p] = from /\ (Pop(path[p]) \/ UNCHANGED <<mounts, stale, localBind>>)
    BY <1>1 DEF UnmountStale, Return, Goto
  <2>3. Effect(p) /\ dir' \subseteq dir
    BY <2>1, <2>2, PopEffect
  <2> QED
    BY <2>1, <2>3, Fails
<1> QED
  BY <1>1

\* The mount helper starts.
LEMMA StartMountKeeps ==
    ASSUME IInv, NEW p \in Procs, StartMount(p)
    PROVE  IInv'
<1>1. Same /\ UNCHANGED <<node, path, reply>> /\ Goto(p, "mount", "mounting")
  BY DEF StartMount, Same, rpc, hist, IInv, TypeOK
<1>2. "mounting" \in PCs \ {"idle", "return"}
  BY DEF PCs
<1>3. pc[p] = "mount" /\ pc'[p] = "mounting" /\ CallOK(p) /\ PathOK(p)
  BY <1>1, <1>2, MovesOn DEF IInv
<1>4. CallOK(p)'
  BY <1>1, <1>3 DEF CallOK, HeldPCs, StagePCs, Same, kube, OnTarget
<1>5. PathOK(p)'
  BY <1>1, <1>3 DEF PathOK, Same, kube, hist, node, OnTarget
<1> QED
  BY <1>1, <1>2, <1>4, <1>5, QuietMove

\* It answers.
LEMMA MountDoneKeeps ==
    ASSUME IInv, NEW p \in Procs, MountDone(p)
    PROVE  IInv'
<1>1. Same /\ UNCHANGED <<dir, late, localBind>>
      /\ Push(path[p]) /\ path[p] \in dir /\ pc[p] = "mounting"
  BY DEF MountDone, Same, hist, IInv, TypeOK
<1>2. path[p] \in Paths /\ CallOK(p) /\ PathOK(p)
  BY <1>1 DEF IInv, TypeOK
<1>3. Effect(p) /\ dir' \subseteq dir /\ mounts'[path[p]] > 0
  BY <1>1, <1>2, TokenPath, PushEffect DEF Mounted, HeldPCs, StagePCs
<1>4. CASE kind = "nfs" /\ Goto(p, "mounting", "chmod") /\ UNCHANGED <<path, reply>>
  <2>1. "chmod" \in PCs \ {"idle", "return"}
    BY DEF PCs
  <2>2. Work(p) /\ pc'[p] = "chmod"
    BY <1>1, <1>4, <2>1, MovesOn
  <2>3. CallOK(p)'
    BY <1>1, <1>2, <2>2 DEF CallOK, HeldPCs, StagePCs, Same, kube, OnTarget
  <2>4. PathOK(p)'
    BY <1>1, <1>2, <1>3, <1>4, <2>2 DEF PathOK, Same, kube, Mounted, OnTarget
  <2>5. AnswerOK(p)'
    BY <2>2 DEF AnswerOK
  <2> QED
    BY <1>3, <2>2, <2>3, <2>4, <2>5, WorkKeeps
<1>5. CASE AfterShare(p, "mounting")
  BY <1>1, <1>3, <1>5, AfterShareKeeps
<1> QED
  BY <1>4, <1>5 DEF MountDone

\* It fails, ...
LEMMA MountFailsKeeps ==
    ASSUME IInv, NEW p \in Procs, MountFails(p)
    PROVE  IInv'
<1>1. Same /\ path' = path /\ UNCHANGED node /\ Return(p, "mounting", "err")
  BY DEF MountFails, Same, rpc, hist, IInv, TypeOK
<1> QED
  BY <1>1, NodeSame, Fails

\* ... or is waited for no longer.
LEMMA MountTimesOutKeeps ==
    ASSUME IInv, NEW p \in Procs, MountTimesOut(p)
    PROVE  IInv'
<1>1. Same /\ path' = path /\ UNCHANGED <<dir, mounts, stale, localBind>>
      /\ Return(p, "mounting", "err")
  BY DEF MountTimesOut, Same, rpc, hist, IInv, TypeOK
<1>2. pc[p] # "idle"
  BY <1>1 DEF Return, Goto
<1>3. late' \in [Paths -> Nat]
  BY <1>2 DEF IInv, TypeOK, MountTimesOut
<1>4. kind = "token" => late'[Stage] = late[Stage]
  <2>1. pc[p] \in HeldPCs
    BY <1>1 DEF Return, Goto, HeldPCs, StagePCs
  <2> QED
    BY <2>1, TokenPath, PathFacts DEF IInv, TypeOK, MountTimesOut
<1> QED
  BY <1>1, <1>3, <1>4, LateEffect, Fails

\* The mode of an NFS share
LEMMA ChmodKeeps ==
    ASSUME IInv, NEW p \in Procs, Chmod(p)
    PROVE  IInv'
<1>1. Same /\ UNCHANGED node
  BY DEF Chmod, Same, node, hist, IInv, TypeOK
<1>2. Effect(p) /\ dir' \subseteq dir
  BY <1>1, NodeSame
<1>3. CASE AfterShare(p, "chmod")
  <2>1. pc[p] = "chmod" /\ PathOK(p)
    BY <1>3 DEF AfterShare, Goto, Return, IInv
  <2>2. mounts'[path[p]] > 0
    BY <1>1, <2>1 DEF PathOK, Mounted, node
  <2> QED
    BY <1>1, <1>2, <1>3, <2>2, AfterShareKeeps
<1>4. CASE Return(p, "chmod", "err") /\ UNCHANGED path
  BY <1>1, <1>2, <1>4, Fails
<1> QED
  BY <1>3, <1>4 DEF Chmod

\* A call answers that what is on its target is mounted.
LEMMA StageReturns ==
    ASSUME IInv, NEW p \in Procs, NEW from \in {"ensureDisk", "format"}, Return(p, from, "ok"),
           Same, path' = path, Effect(p), dir' \subseteq dir, Mounted(path[p])'
    PROVE  IInv'
<1>1. pc[p] = from /\ CallOK(p) /\ PathOK(p)
  BY DEF IInv, Return, Goto
<1>2. path' \in [Procs -> Paths \cup {None}] /\ path'[p] \in Paths
      /\ \A q \in Procs \ {p} : path'[q] = path[q]
  BY <1>1, StaysOn
<1>3. Work(p) /\ pc'[p] = "return"
  BY <1>2, Returns
<1>4. pc[p] \in StagePCs \ {"account"} /\ pc[p] # "acquire" /\ path[p] = target[p]
  BY <1>1 DEF StagePCs, PathOK
<1> QED
  BY <1>3, <1>4, StageAnswer

\* NodeStageVolume looks for the disk.
LEMMA EnsureDiskKeeps ==
    ASSUME IInv, NEW p \in Procs, EnsureDisk(p)
    PROVE  IInv'
<1>1. Same /\ UNCHANGED node
  BY DEF EnsureDisk, Same, hist, IInv, TypeOK
<1>2. CASE Usable(path[p]) /\ Return(p, "ensureDisk", "ok") /\ UNCHANGED path
  <2>1. Mounted(path[p])'
    BY <1>1, <1>2 DEF Usable, Mounted, node
  <2> QED
    BY <1>1, <1>2, <2>1, NodeSame, StageReturns
<1>3. CASE NotUsable(p, "ensureDisk", "makeDiskDir", "unmountStaleDisk")
  BY <1>1, <1>3, NotUsableKeeps
<1> QED
  BY <1>2, <1>3 DEF EnsureDisk

\* The disk is mounted on the staging path.
LEMMA FormatAndMountKeeps ==
    ASSUME IInv, NEW p \in Procs, FormatAndMount(p)
    PROVE  IInv'
<1>1. Same /\ path' = path /\ UNCHANGED <<dir, late, localBind>> /\ pc[p] = "format"
  BY DEF FormatAndMount, Same, rpc, Return, Goto, hist, IInv, TypeOK
<1>2. path[p] \in Paths
  BY <1>1 DEF IInv, TypeOK
<1>3. CASE path[p] \in dir /\ Push(path[p])
  <2>1. Effect(p) /\ dir' \subseteq dir /\ Mounted(path[p])'
    BY <1>1, <1>2, <1>3, TokenPath, PushEffect DEF Mounted, HeldPCs, StagePCs
  <2>2. CASE Return(p, "format", "ok")
    BY <1>1, <2>1, <2>2, StageReturns
  <2>3. CASE Return(p, "format", "err")
    BY <1>1, <2>1, <2>3, Fails
  <2> QED
    BY <2>2, <2>3 DEF FormatAndMount
<1>4. CASE Return(p, "format", "err") /\ UNCHANGED <<mounts, stale>>
  BY <1>1, <1>4, NodeSame, Fails DEF node
<1> QED
  BY <1>3, <1>4 DEF FormatAndMount

\* A call answers that what is on the target of the pod is mounted.
LEMMA PublishReturns ==
    ASSUME IInv, NEW p \in Procs, NEW from \in {"inline", "ensureTarget", "bind"},
           Return(p, from, "ok"), Same, path' = path, Effect(p), dir' = dir, mounts'[target[p]] > 0
    PROVE  IInv'
<1>1. pc[p] = from /\ CallOK(p) /\ PathOK(p)
  BY DEF IInv, Return, Goto
<1>2. path' \in [Procs -> Paths \cup {None}] /\ path'[p] \in Paths
      /\ \A q \in Procs \ {p} : path'[q] = path[q]
  BY <1>1, StaysOn
<1>3. Work(p) /\ pc'[p] = "return"
  BY <1>2, Returns
<1>4. op[p] = "publish"
  BY <1>1 DEF CallOK, StagePCs
<1>5. CallOK(p)'
  BY <1>1, <1>3 DEF CallOK, HeldPCs, StagePCs, Same, kube, OnTarget
<1>6. PathOK(p)'
  BY <1>1, <1>3 DEF PathOK, Same, kube, OnTarget
<1>7. AnswerOK(p)'
  BY <1>4 DEF AnswerOK, Mounted, Same
<1> QED
  BY <1>3, <1>5, <1>6, <1>7, WorkKeeps

\* NodePublishVolume of a volume that is staged on the target of the pod
LEMMA PublishOnTargetKeeps ==
    ASSUME IInv, NEW p \in Procs, PublishOnTarget(p)
    PROVE  IInv'
<1>1. UNCHANGED <<kind, volumeLocks, node, rpc, kube, overtaken, abandoned, broke, calls, faults>>
      /\ path' = path /\ pc[p] = "inline" /\ CallOK(p) /\ PathOK(p)
  BY DEF PublishOnTarget, Return, Goto, rpc, IInv
<1>2. target[p] \in Pods
  BY <1>1 DEF CallOK, StagePCs
<1>3. Effect(p) /\ dir' = dir
  BY <1>1, NodeSame DEF node
<1>4. tokenless' = tokenless => Same
  BY <1>1 DEF Same, rpc, IInv, TypeOK
<1>5. CASE Goto(p, "inline", "account") /\ UNCHANGED <<reply, tokenless>>
  <2>1. "account" \in PCs \ {"idle", "return"}
    BY DEF PCs
  <2>2. pc'[p] = "account"
    BY <1>1, <1>4, <1>5, <2>1, MovesOn
  <2>3. CallOK(p)'
    BY <1>1, <1>4, <1>5, <2>2 DEF CallOK, HeldPCs, StagePCs, Same, kube, OnTarget
  <2>4. PathOK(p)'
    BY <1>1, <1>4, <1>5, <2>2 DEF PathOK, Same, kube, node, OnTarget
  <2> QED
    BY <1>1, <1>4, <1>5, <2>1, <2>3, <2>4, QuietMove
<1>6. CASE Mounted(target[p]) /\ Return(p, "inline", "ok") /\ UNCHANGED tokenless
  <2>1. mounts'[target[p]] > 0
    BY <1>1, <1>6 DEF Mounted, node
  <2> QED
    BY <1>1, <1>3, <1>4, <1>6, <2>1, PublishReturns
<1>7. CASE Return(p, "inline", "err") /\ UNCHANGED tokenless
  BY <1>1, <1>3, <1>4, <1>7, Fails
<1>8. CASE /\ kind = "token" /\ tokenless' = tokenless \cup {target[p]}
           /\ Goto(p, "inline", "ensureTarget") /\ UNCHANGED reply
  <2>1. "ensureTarget" \in PCs \ {"idle", "return"}
    BY DEF PCs
  <2>2. Same
    BY <1>1, <1>2, <1>8 DEF Same, rpc, IInv, TypeOK
  <2>3. pc'[p] = "ensureTarget"
    BY <1>1, <1>8, <2>1, <2>2, MovesOn
  <2>4. CallOK(p)'
    BY <1>1, <1>8, <2>2, <2>3 DEF CallOK, HeldPCs, StagePCs, Same, kube, OnTarget
  <2>5. PathOK(p)'
    BY <1>1, <1>8, <2>2, <2>3 DEF PathOK, Same, kube, node, OnTarget
  <2> QED
    BY <1>1, <1>8, <2>1, <2>2, <2>4, <2>5, QuietMove
<1> QED
  BY <1>5, <1>6, <1>7, <1>8 DEF PublishOnTarget

\* NodePublishVolume looks for the mount on its target.
LEMMA EnsureTargetKeeps ==
    ASSUME IInv, NEW p \in Procs, EnsureTarget(p)
    PROVE  IInv'
<1>1. Same /\ UNCHANGED <<node, path>> /\ pc[p] = "ensureTarget"
  BY DEF EnsureTarget, Same, rpc, hist, IInv, TypeOK
<1>2. CallOK(p) /\ PathOK(p) /\ Effect(p) /\ dir' = dir
  BY <1>1, NodeSame DEF IInv, node
<1>3. CASE ~Mounted(path[p]) /\ Goto(p, "ensureTarget", "makeTarget") /\ UNCHANGED reply
  <2>1. "makeTarget" \in PCs \ {"idle", "return"}
    BY DEF PCs
  <2>2. pc'[p] = "makeTarget"
    BY <1>1, <1>3, <2>1, MovesOn
  <2>3. CallOK(p)'
    BY <1>1, <1>2, <2>2 DEF CallOK, HeldPCs, StagePCs, Same, kube, OnTarget
  <2>4. PathOK(p)'
    BY <1>1, <1>2, <2>2 DEF PathOK, Same, kube, node, OnTarget
  <2> QED
    BY <1>1, <1>3, <2>1, <2>3, <2>4, QuietMove
<1>4. CASE Usable(path[p]) /\ Return(p, "ensureTarget", "ok")
  <2>1. path[p] = target[p]
    BY <1>1, <1>2, PathFacts DEF PathOK, CallOK, StagePCs
  <2>2. mounts'[target[p]] > 0
    BY <1>1, <1>4, <2>1 DEF Mounted, Usable, node
  <2> QED
    BY <1>1, <1>2, <1>4, <2>2, PublishReturns
<1>5. CASE Return(p, "ensureTarget", "err")
  BY <1>1, <1>2, <1>5, Fails
<1> QED
  BY <1>3, <1>4, <1>5 DEF EnsureTarget

\* The staging path is bound to the target.
LEMMA BindMountKeeps ==
    ASSUME IInv, NEW p \in Procs, BindMount(p)
    PROVE  IInv'
<1>1. Same /\ UNCHANGED <<dir, late, path>> /\ pc[p] = "bind"
  BY DEF BindMount, Same, rpc, Return, Goto, hist, IInv, TypeOK
<1>2. CallOK(p) /\ PathOK(p)
  BY DEF IInv
<1>3. target[p] \in Pods /\ path[p] = target[p] /\ kind # "inline"
  BY <1>1, <1>2, PathFacts DEF PathOK, CallOK, StagePCs
<1>4. CASE /\ path[p] \in dir /\ mounts' = [mounts EXCEPT ![path[p]] = @ + 1]
           /\ stale' = IF Stage \in stale THEN stale \cup {path[p]} ELSE stale \ {path[p]}
           /\ localBind' = IF Mounted(Stage) THEN localBind ELSE localBind \cup {path[p]}
           /\ Return(p, "bind", "ok")
  <2>1. path[p] \in Paths /\ dir' = dir
    BY <1>1, <1>3, PathFacts
  <2>2. /\ mounts' \in [Paths -> Nat] /\ mounts'[path[p]] > 0
        /\ \A x \in Paths \ {path[p]} : mounts'[x] = mounts[x]
    BY <1>4, <2>1 DEF IInv, TypeOK
  <2>3. NodeType'
    BY <1>1, <1>3, <1>4, <2>1, <2>2 DEF IInv, TypeOK, NodeType
  <2>4. kind = "token" => Stage \notin stale /\ mounts'[Stage] = mounts[Stage]
    BY <1>1, <1>3, <2>2, PathFacts DEF IInv, NodeOK
  <2>5. Effect(p)
    BY <1>1, <1>3, <1>4, <2>1, <2>2, <2>3, <2>4 DEF IInv, NodeOK, Effect, Mounted, OnTarget
  <2> QED
    BY <1>1, <1>3, <1>4, <2>1, <2>2, <2>5, PublishReturns
<1>5. CASE Goto(p, "bind", "removeTarget") /\ UNCHANGED <<mounts, stale, localBind, reply>>
  <2>1. "removeTarget" \in PCs \ {"idle", "return"}
    BY DEF PCs
  <2>2. pc'[p] = "removeTarget"
    BY <1>1, <1>5, <2>1, MovesOn
  <2>3. CallOK(p)'
    BY <1>1, <1>2, <2>2 DEF CallOK, HeldPCs, StagePCs, Same, kube, OnTarget
  <2>4. PathOK(p)'
    BY <1>1, <1>2, <2>2 DEF PathOK, Same, kube, OnTarget
  <2> QED
    BY <1>1, <1>5, <2>1, <2>3, <2>4, QuietMove DEF node
<1> QED
  BY <1>4, <1>5 DEF BindMount

\* It is not, and the target is removed.
LEMMA RemoveTargetKeeps ==
    ASSUME IInv, NEW p \in Procs, RemoveTarget(p)
    PROVE  IInv'
<1>1. Same /\ path' = path /\ UNCHANGED <<mounts, stale, late, localBind>>
      /\ Return(p, "removeTarget", "err")
  BY DEF RemoveTarget, Same, rpc, hist, IInv, TypeOK
<1>2. Effect(p) /\ dir' \subseteq dir
  <2>1. CASE Mounted(path[p])
    BY <1>1, <2>1, NodeSame DEF RemoveTarget, node
  <2>2. CASE ~Mounted(path[p])
    BY <1>1, <2>2, RemoveEffect DEF RemoveTarget
  <2> QED
    BY <2>1, <2>2
<1> QED
  BY <1>1, <1>2, Fails

\* A path is cleaned up: NodeUnstageVolume turns to proxy-mount, or the call returns.
LEMMA NextCleanupKeeps ==
    ASSUME IInv, NEW p \in Procs, NEW from \in {"unmount", "remove"}, NextCleanup(p, from), Same,
           Effect(p), path[p] \notin dir', dir' \subseteq dir
    PROVE  IInv'
<1>1. pc[p] = from /\ CallOK(p) /\ PathOK(p) /\ path[p] \in Paths
  BY DEF IInv, TypeOK, NextCleanup, Return, Goto
<1>2. CASE op[p] = "unstage" /\ path[p] = Stage
  <2>1. Goto(p, from, "unmount") /\ path' = [path EXCEPT ![p] = Proxy] /\ reply' = reply
    BY <1>2 DEF NextCleanup
  <2>2. path' \in [Procs -> Paths \cup {None}] /\ path'[p] = Proxy
        /\ \A q \in Procs \ {p} : path'[q] = path[q]
    BY <2>1, PathFacts, TurnsTo
  <2>3. "unmount" \in PCs \ {"idle"} /\ reply' \in [Procs -> {"none", "ok", "err"}]
        /\ \A q \in Procs \ {p} : reply'[q] = reply[q]
    BY <2>1 DEF PCs, IInv, TypeOK
  <2>4. Work(p) /\ pc'[p] = "unmount"
    BY <2>1, <2>2, <2>3, PathFacts, GoesOn
  <2>5. CallOK(p)'
    BY <1>1, <1>2, <2>4 DEF CallOK, HeldPCs, StagePCs, Same, kube, OnTarget
  <2>6. PathOK(p)'
    BY <1>1, <1>2, <2>2, <2>4, PathFacts DEF PathOK, CallOK, Same, OnTarget
  <2>7. AnswerOK(p)'
    BY <2>4 DEF AnswerOK
  <2> QED
    BY <2>4, <2>5, <2>6, <2>7, WorkKeeps
<1>3. CASE ~(op[p] = "unstage" /\ path[p] = Stage)
  <2>1. Return(p, from, "ok") /\ path' = path
    BY <1>3 DEF NextCleanup
  <2>2. path' \in [Procs -> Paths \cup {None}] /\ path'[p] \in Paths
        /\ \A q \in Procs \ {p} : path'[q] = path[q]
    BY <1>1, <2>1, StaysOn
  <2>3. Work(p) /\ pc'[p] = "return"
    BY <2>1, <2>2, Returns
  <2>4. CallOK(p)'
    BY <1>1, <2>3 DEF CallOK, HeldPCs, StagePCs, Same, kube, OnTarget
  <2>5. PathOK(p)'
    BY <1>1, <2>1, <2>3 DEF PathOK, CallOK, Same, kube, OnTarget
  <2>6. AnswerOK(p)'
    <3>1. op[p] = "unpublish" \/ op[p] = "unstage"
      BY <1>1 DEF CallOK, StagePCs
    <3>2. ASSUME op[p] = "unstage"
          PROVE  locked[p] /\ (p \notin cancelled => Stage \notin dir' /\ Proxy \notin dir')
      <4>1. locked[p] /\ path[p] = Proxy
        BY <1>1, <1>3, <3>2 DEF CallOK, PathOK
      <4> QED
        BY <1>1, <3>2, <4>1 DEF PathOK
    <3>3. ASSUME op[p] = "unpublish"
          PROVE  target[p] \notin dir'
      BY <1>1, <3>3, PathFacts DEF CallOK, PathOK
    <3> QED
      BY <3>1, <3>2, <3>3 DEF AnswerOK, Same, kube, Gone
  <2> QED
    BY <2>3, <2>4, <2>5, <2>6, WorkKeeps
<1> QED
  BY <1>2, <1>3

\* CleanupMountPoint unmounts.
LEMMA CleanupUnmountKeeps ==
    ASSUME IInv, NEW p \in Procs, CleanupUnmount(p)
    PROVE  IInv'
<1>1. Same /\ UNCHANGED <<dir, late>> /\ pc[p] = "unmount" /\ CallOK(p) /\ PathOK(p)
  BY DEF CleanupUnmount, Same, IInv, hist, TypeOK
<1>2. CASE path[p] \notin dir /\ NextCleanup(p, "unmount") /\ UNCHANGED <<mounts, stale, localBind>>
  BY <1>1, <1>2, NodeSame, NextCleanupKeeps DEF node
<1>3. CASE /\ path[p] \in dir /\ Goto(p, "unmount", "remove") /\ Pop(path[p])
           /\ UNCHANGED <<path, reply>>
  <2>1. "remove" \in PCs \ {"idle", "return"}
    BY DEF PCs
  <2>2. Work(p) /\ pc'[p] = "remove"
    BY <1>1, <1>3, <2>1, MovesOn
  <2>3. Effect(p)
    BY <1>1, <1>3, PopEffect
  <2>4. CallOK(p)'
    BY <1>1, <2>2 DEF CallOK, HeldPCs, StagePCs, Same, kube, OnTarget
  <2>5. PathOK(p)'
    BY <1>1, <1>3, <2>2 DEF PathOK, Same, kube, OnTarget
  <2>6. AnswerOK(p)'
    BY <2>2 DEF AnswerOK
  <2> QED
    BY <2>2, <2>3, <2>4, <2>5, <2>6, WorkKeeps
<1>4. CASE Return(p, "unmount", "err") /\ UNCHANGED <<mounts, stale, localBind, path>>
  BY <1>1, <1>4, NodeSame, Fails DEF node
<1> QED
  BY <1>2, <1>3, <1>4 DEF CleanupUnmount

\* CleanupMountPoint removes the directory.
LEMMA CleanupRemoveKeeps ==
    ASSUME IInv, NEW p \in Procs, CleanupRemove(p)
    PROVE  IInv'
<1>1. Same /\ UNCHANGED <<mounts, stale, late, localBind>>
  BY DEF CleanupRemove, Same, hist, IInv, TypeOK
<1>2. CASE ~Mounted(path[p]) /\ NextCleanup(p, "remove") /\ dir' = dir \ {path[p]}
  BY <1>1, <1>2, RemoveEffect, NextCleanupKeeps
<1>3. CASE Return(p, "remove", "err") /\ UNCHANGED <<dir, path>>
  BY <1>1, <1>3, NodeSame, Fails DEF node
<1> QED
  BY <1>2, <1>3 DEF CleanupRemove

-----------------------------------------------------------------------------
(***************************************************************************)
(* The lock and the answer                                                 *)
(***************************************************************************)

\* The lock is taken by who finds it free.
LEMMA TryAcquireKeeps ==
    ASSUME IInv, NEW p \in Procs, NEW first, TryAcquire(p, first),
           IF op[p] = "unstage" THEN first = "unmount" ELSE first = "mkdirAll"
    PROVE  IInv'
<1>1. /\ pc[p] = "acquire" /\ target[p] \notin volumeLocks /\ pc' = [pc EXCEPT ![p] = first]
      /\ volumeLocks' = volumeLocks \cup {target[p]} /\ locked' = [locked EXCEPT ![p] = TRUE]
      /\ overtaken' = (overtaken \/ p \in cancelled)
      /\ UNCHANGED <<kind, op, target, path, reply, cancelled, staged, pod, abandoned, broke,
                     tokenless, calls, faults, dir, mounts, stale, late, localBind>>
  BY DEF TryAcquire, Goto, kube, node
<1>2. /\ CallOK(p) /\ PathOK(p) /\ target[p] \in Paths /\ path[p] \in Paths /\ op[p] \in Ops
      /\ first \in PCs /\ first \notin {"idle", "return"}
  BY <1>1 DEF IInv, TypeOK, PCs
<1>3. pc' \in [Procs -> PCs] /\ pc'[p] = first /\ \A q \in Procs \ {p} : pc'[q] = pc[q]
  BY <1>1, <1>2 DEF IInv, TypeOK
<1>4. locked' \in [Procs -> BOOLEAN] /\ locked'[p] /\ \A q \in Procs \ {p} : locked'[q] = locked[q]
  BY <1>1 DEF IInv, TypeOK
<1>5. overtaken' \in BOOLEAN /\ (~overtaken' => ~overtaken /\ p \notin cancelled)
  BY <1>1 DEF IInv, TypeOK
<1>6. TypeOK'
  <2>1. \A q \in Procs : pc'[q] # "idle" =>
            target'[q] \in Paths /\ path'[q] \in Paths /\ op'[q] \in Ops
    BY <1>1, <1>2, <1>3 DEF IInv, TypeOK
  <2> QED
    BY <1>1, <1>2, <1>3, <1>4, <1>5, <2>1 DEF IInv, TypeOK
<1>7. CallOK(p)'
  BY <1>1, <1>2, <1>3, <1>4 DEF CallOK, HeldPCs, StagePCs, OnTarget
<1>8. PathOK(p)' /\ AnswerOK(p)'
  BY <1>1, <1>2, <1>3, PathFacts DEF PathOK, AnswerOK, CallOK, StagePCs, Mounted, OnTarget
<1>9. ASSUME NEW q \in Procs, q # p
      PROVE  CallOK(q)' /\ PathOK(q)' /\ AnswerOK(q)'
  <2>1. CallOK(q) /\ PathOK(q) /\ AnswerOK(q)
    BY DEF IInv
  <2>2. CallOK(q)'
    BY <1>1, <1>3, <1>4, <1>9, <2>1 DEF CallOK, OnTarget
  <2>3. PathOK(q)'
    BY <1>1, <1>3, <1>4, <1>9, <2>1 DEF PathOK, Mounted, OnTarget
  <2>4. ASSUME pc[q] = "return", op[q] \in {"stage", "unstage"}, q \notin cancelled, ~overtaken',
               Nobody(Stage)
        PROVE  Nobody(Stage)'
    <3>1. target[q] = Stage
      BY <2>1, <2>4 DEF CallOK
    <3>2. target[p] # Stage
      BY <1>1, <1>5, <1>9, <2>4, <3>1 DEF IInv, KubeletOK
    <3> QED
      BY <1>1, <1>4, <2>4, <3>2 DEF Nobody
  <2>5. AnswerOK(q)'
    BY <1>1, <1>3, <1>4, <1>5, <1>9, <2>1, <2>4 DEF AnswerOK, Mounted, Gone, Intact, OnTarget
  <2> QED
    BY <2>2, <2>3, <2>5
<1>10. LocksOK'
  BY <1>1, <1>4 DEF IInv, LocksOK
<1>11. KubeletOK'
  <2>1. \A q \in Procs : pc'[q] = "idle" <=> pc[q] = "idle"
    BY <1>1, <1>2, <1>3
  <2>2. \A q \in Procs : SentOK(q)' <=> SentOK(q)
    BY <1>1 DEF SentOK
  <2> QED
    BY <1>1, <2>1, <2>2 DEF IInv, KubeletOK
<1>12. ToldOK'
  <2>1. ASSUME staged = "no" \/ (staged = "yes" /\ kind # "token"), ~overtaken'
        PROVE  Nobody(Stage)' /\ (staged = "yes" => Mounted(Stage)) /\ (staged = "no" => Gone)
    <3>1. target[p] # Stage
      BY <1>1, <1>5, <2>1 DEF IInv, KubeletOK, SentOK
    <3> QED
      BY <1>1, <1>4, <1>5, <2>1, <3>1 DEF IInv, ToldOK, Nobody
  <2> QED
    BY <1>1, <2>1 DEF IInv, ToldOK, Mounted, Gone, Intact, OnTarget
<1>13. NodeOK'
  BY <1>1, <1>5 DEF IInv, NodeOK, Mounted, OnTarget
<1> QED
  BY <1>6, <1>7, <1>8, <1>9, <1>10, <1>11, <1>12, <1>13 DEF IInv

\* The lock is given back.
LEMMA ReleaseKeeps ==
    ASSUME IInv, NEW p \in Procs, Release(p)
    PROVE  IInv'
<1>1. /\ pc[p] = "return" /\ locked[p]
      /\ volumeLocks' = volumeLocks \ {target[p]} /\ locked' = [locked EXCEPT ![p] = FALSE]
      /\ UNCHANGED <<kind, pc, op, target, path, reply, cancelled, staged, pod, overtaken,
                     abandoned, broke, tokenless, calls, faults, dir, mounts, stale, late, localBind>>
  BY DEF Release, kube, node, hist
<1>2. locked' \in [Procs -> BOOLEAN] /\ ~locked'[p] /\ \A q \in Procs \ {p} : locked'[q] = locked[q]
  BY <1>1 DEF IInv, TypeOK
<1>3. \A q \in Procs : locked'[q] => locked[q] /\ q # p /\ target[q] # target[p]
  BY <1>1, <1>2 DEF IInv, LocksOK
<1>4. TypeOK'
  BY <1>1, <1>2 DEF IInv, TypeOK
<1>5. ASSUME NEW q \in Procs
      PROVE  CallOK(q)' /\ PathOK(q)' /\ AnswerOK(q)'
  <2>1. CallOK(q) /\ PathOK(q) /\ AnswerOK(q) /\ CallOK(p)
    BY DEF IInv
  <2>2. CallOK(q)'
    BY <1>1, <1>2, <2>1 DEF CallOK, HeldPCs, StagePCs, OnTarget
  <2>3. PathOK(q)'
    BY <1>1, <1>3, <2>1 DEF PathOK, Mounted, OnTarget
  <2>4. Nobody(Stage) => Nobody(Stage)'
    BY <1>1, <1>3 DEF Nobody
  <2> DEFINE Device == op[q] = "unstage" \/ (op[q] = "stage" /\ kind # "token")
             Mount == /\ op[q] = "stage" /\ kind # "token" => Mounted(Stage)
                      /\ op[q] = "unstage" /\ q \notin cancelled => Gone
             Pod   == /\ op[q] = "publish" /\ Intact(target[q]) => Mounted(target[q])
                      /\ op[q] = "unpublish" /\ target[q] \notin abandoned => target[q] \notin dir
  <2>5. Mount' = Mount /\ Pod' = Pod /\ Device' = Device
    BY <1>1 DEF Mounted, Gone, Intact, OnTarget
  <2>12. Device => op[q] \in {"stage", "unstage"}
    OBVIOUS
  <2>13. AnswerOK(q) <=>
           (pc[q] = "return" /\ reply[q] = "ok" =>
              /\ (locked[q] \/ (q \notin cancelled /\ ~overtaken))
                 => (Device => locked[q] \/ Nobody(Stage)) /\ Mount
              /\ Pod)
    BY DEF AnswerOK
  <2>14. AnswerOK(q)' <=>
           (pc'[q] = "return" /\ reply'[q] = "ok" =>
              /\ (locked'[q] \/ (q \notin cancelled' /\ ~overtaken'))
                 => (Device' => locked'[q] \/ Nobody(Stage)') /\ Mount'
              /\ Pod')
    BY DEF AnswerOK
  <2> HIDE DEF Device, Mount, Pod
  <2>6. (locked[q]' => locked[q]) /\ (q # p => locked[q]' = locked[q])
    BY <1>2, <1>3
  <2>7. UNCHANGED <<pc, reply, op, cancelled, overtaken>>
    BY <1>1
  <2>9. op[p] \in {"stage", "unstage"} => Nobody(Stage)'
    BY <1>1, <1>3, <2>1 DEF CallOK, Nobody
  <2>11. AnswerOK(q)'
    BY <2>1, <2>4, <2>5, <2>6, <2>7, <2>9, <2>12, <2>13, <2>14
  <2> QED
    BY <2>2, <2>3, <2>11
<1>6. LocksOK'
  BY <1>1, <1>3 DEF IInv, LocksOK
<1>7. KubeletOK'
  BY <1>1 DEF IInv, KubeletOK, SentOK
<1>8. ToldOK'
  <2>1. Nobody(Stage) => Nobody(Stage)'
    BY <1>1, <1>3 DEF Nobody
  <2> QED
    BY <1>1, <2>1 DEF IInv, ToldOK, Mounted, Gone, Intact, OnTarget
<1>9. NodeOK'
  BY <1>1 DEF IInv, NodeOK, Mounted, OnTarget
<1> QED
  BY <1>4, <1>5, <1>6, <1>7, <1>8, <1>9 DEF IInv

\* Kubelet gets the answer.
LEMMA ReplyKeeps ==
    ASSUME IInv, NEW p \in Procs, Reply(p)
    PROVE  IInv'
<1>1. /\ pc[p] = "return" /\ ~locked[p] /\ pc' = [pc EXCEPT ![p] = "idle"]
      /\ cancelled' = cancelled \ {p}
      /\ op' = [op EXCEPT ![p] = "none"] /\ target' = [target EXCEPT ![p] = None]
      /\ path' = [path EXCEPT ![p] = None] /\ reply' = [reply EXCEPT ![p] = "none"]
      /\ UNCHANGED <<kind, volumeLocks, locked, overtaken, abandoned, broke, tokenless,
                     calls, faults, dir, mounts, stale, late, localBind>>
  BY DEF Reply, Goto, node, hist
<1>2. CallOK(p) /\ PathOK(p) /\ AnswerOK(p) /\ SentOK(p)
  BY <1>1 DEF IInv, KubeletOK
<1>3. \A q \in Procs \ {p} : /\ pc'[q] = pc[q] /\ op'[q] = op[q] /\ target'[q] = target[q]
                             /\ path'[q] = path[q] /\ reply'[q] = reply[q]
                             /\ q \in cancelled' <=> q \in cancelled
  BY <1>1 DEF IInv, TypeOK
<1>4. pc'[p] = "idle" /\ p \notin cancelled'
  BY <1>1 DEF IInv, TypeOK
<1>5. \/ staged' = staged /\ ~(Succeeded(p) /\ op[p] \in {"stage", "unstage"})
      \/ staged' = "yes" /\ op[p] = "stage" /\ Succeeded(p)
      \/ staged' = "no" /\ op[p] = "unstage" /\ Succeeded(p)
  BY DEF Reply
<1>6. \/ pod' = pod
      \/ /\ op[p] = "publish" /\ Succeeded(p) /\ pod' = [pod EXCEPT ![target[p]] = "running"]
         /\ target[p] \in Pods
      \/ /\ op[p] = "unpublish" /\ Succeeded(p) /\ pod' = [pod EXCEPT ![target[p]] = "gone"]
         /\ target[p] \in Pods
  BY <1>1, <1>2 DEF Reply, CallOK
<1>7. \A x \in Pods :
         \/ pod'[x] = pod[x]
         \/ pod'[x] = "running" /\ op[p] = "publish" /\ Succeeded(p) /\ target[p] = x
         \/ pod'[x] = "gone" /\ op[p] = "unpublish" /\ Succeeded(p) /\ target[p] = x
  BY <1>6 DEF IInv, TypeOK
<1>8. TypeOK'
  <2>1. \A q \in Procs : pc'[q] # "idle" =>
            target'[q] \in Paths /\ path'[q] \in Paths /\ op'[q] \in Ops
    BY <1>3, <1>4 DEF IInv, TypeOK
  <2>2. pod' \in [Pods -> {"new", "maybe", "running", "leaving", "gone"}]
    BY <1>6 DEF IInv, TypeOK
  <2>3. staged' \in {"no", "maybe", "yes"}
    BY <1>5 DEF IInv, TypeOK
  <2>4. "idle" \in PCs
    BY DEF PCs
  <2> QED
    BY <1>1, <2>1, <2>2, <2>3, <2>4 DEF IInv, TypeOK
<1>9. Nobody(Stage) => Nobody(Stage)'
  BY <1>1, <1>3 DEF Nobody
<1>10. ASSUME NEW q \in Procs
       PROVE  CallOK(q)' /\ PathOK(q)' /\ AnswerOK(q)'
  <2>1. CallOK(q) /\ PathOK(q) /\ AnswerOK(q)
    BY DEF IInv
  <2>2. CASE q # p
    <3>1. CallOK(q)'
      BY <1>1, <1>3, <2>1, <2>2 DEF CallOK, OnTarget
    <3>2. PathOK(q)'
      BY <1>1, <1>3, <2>1, <2>2 DEF PathOK, Mounted, OnTarget
    <3>3. AnswerOK(q)'
      BY <1>1, <1>3, <1>9, <2>1, <2>2 DEF AnswerOK, Mounted, Gone, Intact, OnTarget
    <3> QED
      BY <3>1, <3>2, <3>3
  <2>3. CASE q = p
    <3>1. op'[p] = "none" /\ pc'[p] = "idle" /\ ~locked'[p]
      BY <1>1, <1>4 DEF IInv, TypeOK
    <3> QED
      BY <1>4, <2>3, <3>1 DEF CallOK, HeldPCs, StagePCs, PathOK, AnswerOK
  <2> QED
    BY <2>2, <2>3
<1>11. LocksOK'
  <2>1. \A q \in Procs : locked'[q] => locked[q] /\ q # p
    BY <1>1
  <2> QED
    BY <1>1, <1>3, <2>1 DEF IInv, LocksOK
<1>12. \A q \in Procs \ {p} :
          Succeeded(p) /\ pc[q] # "idle" /\ q \notin cancelled => target[q] # target[p]
  BY <1>1 DEF IInv, KubeletOK, Succeeded
<1>13. op[p] \in {"stage", "unstage"} => target[p] = Stage
  BY <1>1, <1>2 DEF CallOK
<1>14. Succeeded(p) /\ op[p] \in {"stage", "unstage"} => staged = "maybe"
  BY <1>2, <1>13 DEF SentOK, Succeeded
<1>15. KubeletOK'
  <2>1. ASSUME NEW q \in Procs, pc'[q] # "idle"
        PROVE  SentOK(q)'
    <3>1. q # p /\ pc[q] # "idle" /\ SentOK(q) /\ CallOK(q)
      BY <1>3, <1>4, <2>1 DEF IInv, KubeletOK
    <3>2. q \notin cancelled /\ target[q] = Stage => staged' = "maybe"
      BY <1>5, <1>12, <1>13, <3>1 DEF SentOK
    <3>3. op[q] \in {"publish", "unpublish"} => target[q] \in Pods
      BY <3>1 DEF CallOK
    <3>4. op[q] = "publish" /\ q \notin cancelled => pod'[target[q]] \in {"maybe", "running"}
      BY <1>7, <1>12, <3>1, <3>3 DEF SentOK
    <3>5. op[q] = "unpublish" => pod'[target[q]] \in {"leaving", "gone"}
      BY <1>2, <1>7, <3>1, <3>3 DEF SentOK, Succeeded
    <3> QED
      BY <1>1, <1>3, <3>1, <3>2, <3>4, <3>5 DEF SentOK
  <2>2. \A q, r \in Procs \ cancelled' :
            pc'[q] # "idle" /\ pc'[r] # "idle" /\ target'[q] = target'[r] => q = r
    BY <1>3, <1>4 DEF IInv, KubeletOK
  <2>3. ASSUME kind # "inline", NEW x \in Pods, pod'[x] \notin {"new", "gone"}
        PROVE  staged' = "yes"
    <3>1. pod[x] \notin {"new", "gone"}
      BY <1>2, <1>7, <2>3 DEF SentOK, Succeeded
    <3>2. staged = "yes"
      BY <2>3, <3>1 DEF IInv, KubeletOK
    <3> QED
      BY <1>5, <1>14, <3>2
  <2> QED
    BY <1>1, <2>1, <2>2, <2>3 DEF KubeletOK
<1>16. ToldOK'
  <2>1. ASSUME staged' = "no" \/ (staged' = "yes" /\ kind # "token"), ~overtaken
        PROVE  Nobody(Stage)' /\ (staged' = "yes" => Mounted(Stage)) /\ (staged' = "no" => Gone)
    <3>1. CASE staged' = staged
      BY <1>9, <2>1, <3>1 DEF IInv, ToldOK
    <3>2. CASE staged' = "yes" /\ op[p] = "stage" /\ Succeeded(p)
      BY <1>1, <1>2, <1>9, <2>1, <3>2 DEF AnswerOK, Succeeded
    <3>3. CASE staged' = "no" /\ op[p] = "unstage" /\ Succeeded(p)
      BY <1>1, <1>2, <1>9, <2>1, <3>3 DEF AnswerOK, Succeeded
    <3> QED
      BY <1>5, <3>1, <3>2, <3>3
  <2>2. ASSUME NEW x \in Pods, pod'[x] = "running", Intact(x)
        PROVE  Mounted(x)
    BY <1>1, <1>2, <1>7, <2>2 DEF IInv, ToldOK, AnswerOK, Succeeded
  <2>3. ASSUME NEW x \in Pods \ abandoned, pod'[x] = "gone"
        PROVE  x \notin dir
    BY <1>1, <1>2, <1>7, <2>3 DEF IInv, ToldOK, AnswerOK, Succeeded
  <2> QED
    BY <1>1, <2>1, <2>2, <2>3 DEF ToldOK, Mounted, Gone, Intact, OnTarget
<1>17. NodeOK'
  BY <1>1 DEF IInv, NodeOK, Mounted, OnTarget
<1> QED
  BY <1>8, <1>10, <1>11, <1>15, <1>16, <1>17 DEF IInv

-----------------------------------------------------------------------------
(***************************************************************************)
(* Kubelet, the kernel and restarts                                        *)
(***************************************************************************)

\* What a call that is sent leaves of the invariant; kubelet's part is left to the caller.
LEMMA CallKeeps ==
    ASSUME IInv, NEW p \in Procs, NEW o \in Ops, NEW x \in Paths, NEW first,
           Call(p, o, x, first), staged' \in {"no", "maybe", "yes"},
           pod' \in [Pods -> {"new", "maybe", "running", "leaving", "gone"}],
           \/ o = "stage" /\ x = Stage /\ first = "account" /\ kind # "inline"
           \/ o = "unstage" /\ x = Stage /\ first = "acquire"
           \/ o = "publish" /\ x \in Pods /\ first = IF OnTarget THEN "inline" ELSE "ensureTarget"
           \/ o = "unpublish" /\ x \in Pods /\ first = "unmount",
           dir' = dir \/ (o = "stage" /\ dir' = dir \cup {Stage}),
           \A q \in Procs : pc[q] # "idle" => SentOK(q)',
           SentOK(p)', ToldOK',
           kind # "inline" => \A y \in Pods : pod'[y] \notin {"new", "gone"} => staged' = "yes"
    PROVE  IInv'
<1>1. /\ pc[p] = "idle" /\ calls < MaxCalls /\ calls' = calls + 1
      /\ pc' = [pc EXCEPT ![p] = first] /\ op' = [op EXCEPT ![p] = o]
      /\ target' = [target EXCEPT ![p] = x] /\ path' = [path EXCEPT ![p] = x]
      /\ UNCHANGED <<kind, volumeLocks, locked, reply, cancelled, overtaken, abandoned,
                     broke, tokenless, faults, mounts, stale, late, localBind>>
      /\ \A q \in Procs \ cancelled : pc[q] # "idle" => target[q] # x
  BY DEF Call, node, Outstanding
<1>2. first \in PCs /\ first \notin {"idle", "return"} \cup HeldPCs
  BY DEF PCs, HeldPCs, StagePCs
<1>3. /\ pc'[p] = first /\ op'[p] = o /\ target'[p] = x /\ path'[p] = x
      /\ \A q \in Procs \ {p} : pc'[q] = pc[q] /\ op'[q] = op[q] /\ target'[q] = target[q]
                                /\ path'[q] = path[q]
  BY <1>1 DEF IInv, TypeOK
<1>4. CallOK(p)
  BY DEF IInv
<1>5. ~locked[p] /\ p \notin cancelled
  BY <1>1, <1>4, <1>2 DEF CallOK, StagePCs
<1>6. TypeOK'
  <2>1. \A q \in Procs : pc'[q] # "idle" =>
            target'[q] \in Paths /\ path'[q] \in Paths /\ op'[q] \in Ops
    BY <1>3 DEF IInv, TypeOK
  <2>2. /\ pc' \in [Procs -> PCs] /\ op' \in [Procs -> Ops \cup {"none"}]
        /\ target' \in [Procs -> Paths \cup {None}] /\ path' \in [Procs -> Paths \cup {None}]
    BY <1>1, <1>2 DEF IInv, TypeOK
  <2>3. calls' \in Nat
    BY <1>1 DEF IInv, TypeOK
  <2> QED
    BY <1>1, <2>1, <2>2, <2>3 DEF IInv, TypeOK
<1>7. ASSUME NEW q \in Procs
      PROVE  CallOK(q)' /\ PathOK(q)' /\ AnswerOK(q)'
  <2>1. CallOK(q) /\ PathOK(q) /\ AnswerOK(q)
    BY DEF IInv
  <2>2. CASE q # p
    <3>1. Nobody(Stage) => Nobody(Stage)'
      BY <1>1, <1>3, <1>5 DEF Nobody
    <3>2. CallOK(q)'
      BY <1>1, <1>3, <2>1, <2>2 DEF CallOK, OnTarget
    <3>3. PathOK(q)'
      BY <1>1, <1>3, <1>5, <2>1, <2>2, PathFacts DEF PathOK, CallOK, Mounted, OnTarget
    <3>4. AnswerOK(q)'
      <4>1. pc[q] # "idle" /\ target[q] = Stage /\ q \notin cancelled => dir' = dir
        BY <1>1
      <4>2. pc[q] # "idle" /\ target[q] \in Pods /\ target[q] \notin dir => target[q] \notin dir'
        BY PathFacts
      <4>3. pc[q] = "return" => (op[q] = "unstage" => target[q] = Stage)
                               /\ (op[q] = "unpublish" => target[q] \in Pods)
        BY <2>1 DEF CallOK
      <4> QED
        BY <1>1, <1>3, <2>1, <2>2, <3>1, <4>1, <4>2, <4>3
        DEF AnswerOK, Mounted, Gone, Intact, OnTarget
    <3> QED
      BY <3>2, <3>3, <3>4
  <2>3. CASE q = p
    <3>1. CallOK(p)'
      BY <1>1, <1>2, <1>3, <1>5 DEF CallOK, HeldPCs, StagePCs, OnTarget
    <3>2. PathOK(p)' /\ AnswerOK(p)'
      BY <1>1, <1>2, <1>3, <1>5, PathFacts DEF PathOK, AnswerOK, HeldPCs, StagePCs, OnTarget
    <3> QED
      BY <2>3, <3>1, <3>2
  <2> QED
    BY <2>2, <2>3
<1>8. LocksOK'
  <2>1. \A q \in Procs : locked'[q] => locked[q] /\ q # p
    BY <1>1, <1>5
  <2> QED
    BY <1>1, <1>3, <2>1 DEF IInv, LocksOK
<1>9. KubeletOK'
  <2>1. \A q \in Procs : pc'[q] # "idle" => SentOK(q)'
    BY <1>3
  <2>2. \A q, r \in Procs \ cancelled' :
            pc'[q] # "idle" /\ pc'[r] # "idle" /\ target'[q] = target'[r] => q = r
    BY <1>1, <1>3 DEF IInv, KubeletOK
  <2> QED
    BY <1>1, <2>1, <2>2 DEF KubeletOK
<1>10. NodeOK'
  BY <1>1 DEF IInv, NodeOK, Mounted, OnTarget
<1> QED
  BY <1>6, <1>7, <1>8, <1>9, <1>10 DEF IInv

\* What a call changes for the calls that are there: nothing.
LEMMA CallOthers ==
    ASSUME IInv, NEW p \in Procs, NEW o \in Ops, NEW x \in Paths, NEW first, Call(p, o, x, first)
    PROVE  /\ p \notin cancelled /\ cancelled' = cancelled /\ abandoned' = abandoned
           /\ op'[p] = o /\ target'[p] = x
           /\ \A q \in Procs : pc[q] # "idle" =>
                 /\ op'[q] = op[q] /\ target'[q] = target[q]
                 /\ q \notin cancelled => target[q] # x
           /\ UNCHANGED <<kind, mounts, overtaken, broke, tokenless>>
           /\ Nobody(Stage) => Nobody(Stage)'
<1>1. /\ pc[p] = "idle" /\ op' = [op EXCEPT ![p] = o] /\ target' = [target EXCEPT ![p] = x]
      /\ UNCHANGED <<kind, locked, cancelled, overtaken, abandoned, broke, tokenless, mounts>>
      /\ \A q \in Procs \ cancelled : pc[q] # "idle" => target[q] # x
  BY DEF Call, node, Outstanding
<1>2. CallOK(p)
  BY DEF IInv
<1>3. ~locked[p] /\ p \notin cancelled
  BY <1>1, <1>2 DEF CallOK, StagePCs
<1>4. op'[p] = o /\ target'[p] = x /\ \A q \in Procs \ {p} : op'[q] = op[q] /\ target'[q] = target[q]
  BY <1>1 DEF IInv, TypeOK
<1>5. Nobody(Stage) => Nobody(Stage)'
  BY <1>1, <1>3, <1>4 DEF Nobody
<1> QED
  BY <1>1, <1>3, <1>4, <1>5

\* NodeStageVolume and NodeUnstageVolume are sent.
LEMMA CallDeviceKeeps ==
    ASSUME IInv, NEW p \in Procs, CallStage(p) \/ CallUnstage(p)
    PROVE  IInv'
<1>1. ASSUME NEW o \in {"stage", "unstage"}, NEW first, Call(p, o, Stage, first),
             staged' = "maybe", pod' = pod,
             kind # "inline" => \A x \in Pods : pod[x] \in {"new", "gone"},
             \/ o = "stage" /\ first = "account" /\ kind # "inline"
             \/ o = "unstage" /\ first = "acquire",
             dir' = dir \/ (o = "stage" /\ dir' = dir \cup {Stage})
      PROVE  IInv'
  <2>1. o \in Ops /\ Stage \in Paths /\ staged' \in {"no", "maybe", "yes"}
        /\ pod' \in [Pods -> {"new", "maybe", "running", "leaving", "gone"}]
    BY <1>1, PathFacts DEF Ops, IInv, TypeOK
  <2>2. /\ p \notin cancelled /\ cancelled' = cancelled /\ abandoned' = abandoned
        /\ op'[p] = o /\ target'[p] = Stage
        /\ \A q \in Procs : pc[q] # "idle" =>
              /\ op'[q] = op[q] /\ target'[q] = target[q]
              /\ q \notin cancelled => target[q] # Stage
        /\ UNCHANGED <<kind, mounts, overtaken, broke, tokenless>>
    BY <1>1, <2>1, CallOthers
  <2>3. \A q \in Procs : pc[q] # "idle" => SentOK(q)'
    BY <1>1, <2>2 DEF IInv, KubeletOK, SentOK
  <2>4. SentOK(p)'
    BY <1>1, <2>2 DEF SentOK
  <2>5. ToldOK'
    BY <1>1, <2>2, PathFacts DEF IInv, ToldOK, Mounted, Intact, OnTarget
  <2>6. kind # "inline" => \A y \in Pods : pod'[y] \notin {"new", "gone"} => staged' = "yes"
    BY <1>1
  <2> QED
    BY <1>1, <2>1, <2>3, <2>4, <2>5, <2>6, CallKeeps
<1>2. CASE CallStage(p)
  <2>1. staged # "yes" /\ staged' = "maybe" /\ kind # "inline" /\ pod' = pod
        /\ Call(p, "stage", Stage, "account") /\ dir' = dir \cup {Stage}
    BY <1>2 DEF CallStage
  <2>2. \A x \in Pods : pod[x] \in {"new", "gone"}
    BY <2>1 DEF IInv, KubeletOK
  <2> QED
    BY <1>1, <2>1, <2>2
<1>3. CASE CallUnstage(p)
  BY <1>1, <1>3 DEF CallUnstage
<1> QED
  BY <1>2, <1>3

\* NodePublishVolume is sent.
LEMMA CallPublishKeeps ==
    ASSUME IInv, NEW p \in Procs, NEW x \in Pods, CallPublish(p, x)
    PROVE  IInv'
<1> DEFINE first == IF OnTarget THEN "inline" ELSE "ensureTarget"
<1>1. /\ kind = "inline" \/ staged = "yes"
      /\ pod[x] \in {"new", "maybe", "running"}
      /\ pod' = [pod EXCEPT ![x] = IF @ = "running" THEN @ ELSE "maybe"]
      /\ Call(p, "publish", x, first) /\ staged' = staged /\ dir' = dir
  BY DEF CallPublish
<1>2. x \in Paths /\ x # Stage /\ "publish" \in Ops /\ staged' \in {"no", "maybe", "yes"}
  BY <1>1, PathFacts DEF Ops, IInv, TypeOK
<1>3. /\ pod' \in [Pods -> {"new", "maybe", "running", "leaving", "gone"}]
      /\ pod'[x] \in {"maybe", "running"} /\ (pod'[x] = "running" => pod[x] = "running")
      /\ \A y \in Pods \ {x} : pod'[y] = pod[y]
  BY <1>1 DEF IInv, TypeOK
<1> HIDE DEF first
<1>4. /\ p \notin cancelled /\ cancelled' = cancelled /\ abandoned' = abandoned
      /\ op'[p] = "publish" /\ target'[p] = x
      /\ \A q \in Procs : pc[q] # "idle" =>
            /\ op'[q] = op[q] /\ target'[q] = target[q]
            /\ q \notin cancelled => target[q] # x
      /\ UNCHANGED <<kind, mounts, overtaken, broke, tokenless>>
      /\ Nobody(Stage) => Nobody(Stage)'
  BY <1>1, <1>2, CallOthers
<1>5. ASSUME NEW q \in Procs, pc[q] # "idle"
      PROVE  SentOK(q)'
  <2>1. SentOK(q) /\ CallOK(q)
    BY <1>5 DEF IInv, KubeletOK
  <2>2. op[q] \in {"publish", "unpublish"} => target[q] \in Pods
    BY <1>5, <2>1 DEF CallOK
  <2>3. op[q] = "unpublish" => target[q] # x
    BY <1>1, <2>1 DEF SentOK
  <2> QED
    BY <1>1, <1>3, <1>4, <1>5, <2>1, <2>2, <2>3 DEF SentOK
<1>6. SentOK(p)'
  BY <1>2, <1>3, <1>4 DEF SentOK
<1>7. ToldOK'
  BY <1>1, <1>3, <1>4 DEF IInv, ToldOK, Mounted, Gone, Intact, OnTarget
<1>8. kind # "inline" => \A y \in Pods : pod'[y] \notin {"new", "gone"} => staged' = "yes"
  BY <1>1
<1>9. first = IF OnTarget THEN "inline" ELSE "ensureTarget"
  BY DEF first
<1> QED
  BY <1>1, <1>2, <1>3, <1>5, <1>6, <1>7, <1>8, <1>9, CallKeeps

\* NodeUnpublishVolume is sent.
LEMMA CallUnpublishKeeps ==
    ASSUME IInv, NEW p \in Procs, NEW x \in Pods, CallUnpublish(p, x)
    PROVE  IInv'
<1>1. /\ pod[x] \in {"maybe", "running", "leaving"} /\ pod' = [pod EXCEPT ![x] = "leaving"]
      /\ Call(p, "unpublish", x, "unmount") /\ staged' = staged /\ dir' = dir
  BY DEF CallUnpublish
<1>2. x \in Paths /\ x # Stage /\ "unpublish" \in Ops /\ staged' \in {"no", "maybe", "yes"}
  BY <1>1, PathFacts DEF Ops, IInv, TypeOK
<1>3. /\ pod' \in [Pods -> {"new", "maybe", "running", "leaving", "gone"}]
      /\ pod'[x] = "leaving" /\ \A y \in Pods \ {x} : pod'[y] = pod[y]
  BY <1>1 DEF IInv, TypeOK
<1>4. /\ p \notin cancelled /\ cancelled' = cancelled /\ abandoned' = abandoned
      /\ op'[p] = "unpublish" /\ target'[p] = x
      /\ \A q \in Procs : pc[q] # "idle" =>
            /\ op'[q] = op[q] /\ target'[q] = target[q]
            /\ q \notin cancelled => target[q] # x
      /\ UNCHANGED <<kind, mounts, overtaken, broke, tokenless>>
      /\ Nobody(Stage) => Nobody(Stage)'
  BY <1>1, <1>2, CallOthers
<1>5. ASSUME NEW q \in Procs, pc[q] # "idle"
      PROVE  SentOK(q)'
  <2>1. SentOK(q) /\ CallOK(q)
    BY <1>5 DEF IInv, KubeletOK
  <2>2. op[q] \in {"publish", "unpublish"} => target[q] \in Pods
    BY <1>5, <2>1 DEF CallOK
  <2> QED
    BY <1>1, <1>3, <1>4, <1>5, <2>1, <2>2 DEF SentOK
<1>6. SentOK(p)'
  BY <1>2, <1>3, <1>4 DEF SentOK
<1>7. ToldOK'
  BY <1>1, <1>3, <1>4 DEF IInv, ToldOK, Mounted, Gone, Intact, OnTarget
<1>8. kind # "inline" => \A y \in Pods : pod'[y] \notin {"new", "gone"} => staged' = "yes"
  BY <1>1, <1>3 DEF IInv, KubeletOK
<1> QED
  BY <1>1, <1>2, <1>3, <1>5, <1>6, <1>7, <1>8, CallKeeps

\* Kubelet gives up on a call.
LEMMA GiveUpKeeps ==
    ASSUME IInv, NEW p \in Procs, GiveUp(p)
    PROVE  IInv'
<1>1. /\ pc[p] # "idle" /\ p \notin cancelled /\ cancelled' = cancelled \cup {p}
      /\ faults' = faults + 1
      /\ abandoned' = IF op[p] = "publish" THEN abandoned \cup {target[p]} ELSE abandoned
      /\ UNCHANGED <<kind, volumeLocks, pc, op, target, path, locked, reply, staged, pod, overtaken,
                     broke, tokenless, calls, dir, mounts, stale, late, localBind>>
  BY DEF GiveUp, node, rpc
<1>2. CallOK(p) /\ SentOK(p)
  BY <1>1 DEF IInv, KubeletOK
<1>3. abandoned \subseteq abandoned' /\ abandoned' \subseteq Pods
      /\ (op[p] = "publish" => target[p] \in abandoned')
  BY <1>1, <1>2 DEF CallOK, IInv, TypeOK
<1>4. TypeOK'
  BY <1>1, <1>3 DEF IInv, TypeOK
<1>5. \A x \in Paths : Intact(x)' => Intact(x)
  BY <1>1, <1>3 DEF Intact, OnTarget
<1>6. ASSUME NEW q \in Procs
      PROVE  CallOK(q)' /\ PathOK(q)' /\ AnswerOK(q)'
  <2>1. CallOK(q) /\ PathOK(q) /\ AnswerOK(q)
    BY DEF IInv
  <2>2. CallOK(q)' /\ PathOK(q)'
    BY <1>1, <2>1 DEF CallOK, PathOK, Mounted, OnTarget
  <2>3. Nobody(Stage)' <=> Nobody(Stage)
    BY <1>1 DEF Nobody
  <2>4. AnswerOK(q)'
    BY <1>1, <1>3, <2>1, <2>3 DEF AnswerOK, Mounted, Gone, Intact, OnTarget
  <2> QED
    BY <2>2, <2>4
<1>7. LocksOK'
  BY <1>1 DEF IInv, LocksOK
<1>8. KubeletOK'
  BY <1>1, <1>3 DEF IInv, KubeletOK, SentOK
<1>9. ToldOK'
  BY <1>1, <1>3 DEF IInv, ToldOK, Mounted, Gone, Intact, OnTarget, Nobody
<1>10. NodeOK'
  BY <1>1, <1>3 DEF IInv, NodeOK, Mounted, OnTarget
<1> QED
  BY <1>4, <1>6, <1>7, <1>8, <1>9, <1>10 DEF IInv

\* A mount appears or breaks; no directory goes, and no mount.
LEMMA MountsGrow ==
    ASSUME IInv, TypeOK',
           UNCHANGED <<kind, volumeLocks, dir, localBind, pc, rpc, reply, kube, overtaken,
                       abandoned, tokenless>>,
           \A x \in Paths : Mounted(x) => Mounted(x)',
           \A x \in Paths : Mounted(x)' => x \in dir,
           broke \subseteq broke', OnTarget => stale' \subseteq broke',
           kind = "token" => ~Mounted(Stage)' /\ late'[Stage] = 0 /\ Stage \notin stale'
    PROVE  IInv'
<1>1. UNCHANGED <<op, target, path, locked, cancelled, staged, pod>>
  BY DEF rpc, kube
<1>2. /\ Nobody(Stage)' <=> Nobody(Stage)
      /\ Gone' <=> Gone
      /\ \A x \in Paths : Intact(x)' => Intact(x)
      /\ Stage \in Paths /\ Pods \subseteq Paths
  BY <1>1, PathFacts DEF Nobody, Gone, Intact, OnTarget
<1>3. ASSUME NEW p \in Procs
      PROVE  CallOK(p)' /\ PathOK(p)' /\ AnswerOK(p)'
  <2>1. CallOK(p) /\ PathOK(p) /\ AnswerOK(p)
    BY DEF IInv
  <2>2. CallOK(p)'
    BY <1>1, <2>1 DEF CallOK, OnTarget
  <2>3. pc[p] # "idle" => target[p] \in Paths /\ path[p] \in Paths
    BY DEF IInv, TypeOK
  <2>4. pc[p] = "chmod" => Mounted(path[p])'
    BY <1>1, <2>1, <2>3 DEF PathOK, Mounted, OnTarget
  <2>5. PathOK(p)'
    BY <1>1, <2>1, <2>4 DEF PathOK, OnTarget
  <2>6. pc[p] = "return" /\ reply[p] = "ok" /\ op[p] = "publish" /\ Intact(target[p])'
        => Mounted(target[p])'
    BY <1>1, <1>2, <2>1, <2>3 DEF AnswerOK, Mounted
  <2>7. AnswerOK(p)'
    BY <1>1, <1>2, <2>1, <2>6 DEF AnswerOK
  <2> QED
    BY <2>2, <2>5, <2>7
<1>4. LocksOK' /\ KubeletOK'
  BY <1>1 DEF IInv, LocksOK, KubeletOK, SentOK
<1>5. ToldOK'
  BY <1>1, <1>2 DEF IInv, ToldOK
<1>6. NodeOK'
  BY DEF IInv, NodeOK, OnTarget
<1> QED
  BY <1>3, <1>4, <1>5, <1>6 DEF IInv

\* A mount helper answers after its call has returned.
LEMMA LateMountKeeps ==
    ASSUME IInv, NEW x \in Paths, LateMount(x)
    PROVE  IInv'
<1>1. /\ late[x] > 0 /\ late' = [late EXCEPT ![x] = @ - 1]
      /\ UNCHANGED <<kind, volumeLocks, dir, localBind, pc, rpc, reply, kube, hist>>
  BY DEF LateMount
<1>2. late' \in [Paths -> Nat]
  BY <1>1 DEF IInv, TypeOK
<1>3. /\ mounts' \in [Paths -> Nat] /\ stale' \subseteq stale
      /\ \A y \in Paths : mounts'[y] >= mounts[y] /\ (mounts'[y] # mounts[y] => y \in dir)
  BY DEF LateMount, Push, IInv, TypeOK
<1>4. TypeOK'
  BY <1>1, <1>2, <1>3 DEF IInv, TypeOK, rpc, kube, hist
<1>5. \A y \in Paths : (Mounted(y) => Mounted(y)') /\ (Mounted(y)' => y \in dir)
  BY <1>3 DEF Mounted, IInv, TypeOK, NodeOK
<1>6. broke' = broke /\ UNCHANGED <<overtaken, abandoned, tokenless>>
      /\ (OnTarget => stale' \subseteq broke')
  BY <1>1, <1>3 DEF IInv, NodeOK, hist
<1>7. kind = "token" => ~Mounted(Stage)' /\ late'[Stage] = 0 /\ Stage \notin stale'
  <2>1. kind = "token" => x # Stage
    BY <1>1 DEF IInv, NodeOK
  <2>2. x # Stage => mounts'[Stage] = mounts[Stage] /\ late'[Stage] = late[Stage]
    BY <1>1, PathFacts DEF LateMount, Push, IInv, TypeOK
  <2> QED
    BY <1>3, <2>1, <2>2 DEF IInv, NodeOK, Mounted
<1> QED
  BY <1>1, <1>4, <1>5, <1>6, <1>7, MountsGrow

\* The connection to a share is lost.
LEMMA BreakKeeps ==
    ASSUME IInv, NEW x \in Paths, Break(x)
    PROVE  IInv'
<1>1. /\ faults' = faults + 1 /\ stale' = stale \cup {x} /\ broke' = broke \cup {x}
      /\ UNCHANGED <<kind, volumeLocks, dir, mounts, late, localBind, pc, rpc, reply, kube,
                     overtaken, abandoned, tokenless, calls>>
      /\ Mounted(x)
  BY DEF Break
<1>2. TypeOK'
  BY <1>1 DEF IInv, TypeOK, rpc, kube
<1>3. \A y \in Paths : (Mounted(y) => Mounted(y)') /\ (Mounted(y)' => y \in dir)
  BY <1>1 DEF Mounted, IInv, NodeOK
<1>4. broke \subseteq broke' /\ (OnTarget => stale' \subseteq broke')
  BY <1>1 DEF IInv, NodeOK
<1>5. kind = "token" => ~Mounted(Stage)' /\ late'[Stage] = 0 /\ Stage \notin stale'
  BY <1>1 DEF IInv, NodeOK, Mounted
<1> QED
  BY <1>1, <1>2, <1>3, <1>4, <1>5, MountsGrow

\* The node plugin restarts.
LEMMA CrashKeeps ==
    ASSUME IInv, Crash
    PROVE  IInv'
<1>1. /\ faults' = faults + 1 /\ volumeLocks' = {} /\ late' = [x \in Paths |-> 0]
      /\ pc' = [p \in Procs |-> "idle"] /\ op' = [p \in Procs |-> "none"]
      /\ target' = [p \in Procs |-> None] /\ path' = [p \in Procs |-> None]
      /\ locked' = [p \in Procs |-> FALSE] /\ reply' = [p \in Procs |-> "none"] /\ cancelled' = {}
      /\ UNCHANGED <<kind, dir, mounts, stale, localBind, staged, pod, overtaken, abandoned,
                     broke, tokenless, calls>>
  BY DEF Crash
<1>2. TypeOK'
  BY <1>1 DEF IInv, TypeOK, PCs
<1>3. \A p \in Procs : pc'[p] = "idle" /\ ~locked'[p] /\ op'[p] = "none"
  BY <1>1
<1>4. \A p \in Procs : CallOK(p)' /\ PathOK(p)' /\ AnswerOK(p)'
  BY <1>1, <1>3 DEF CallOK, PathOK, AnswerOK, HeldPCs, StagePCs, OnTarget
<1>5. LocksOK'
  BY <1>3 DEF LocksOK
<1>6. KubeletOK'
  BY <1>1, <1>3 DEF IInv, KubeletOK
<1>7. Nobody(Stage)'
  BY <1>3 DEF Nobody
<1>8. ToldOK'
  BY <1>1, <1>7 DEF IInv, ToldOK, Mounted, Gone, Intact, OnTarget
<1>9. NodeOK'
  BY <1>1, PathFacts DEF IInv, NodeOK, Mounted, OnTarget
<1> QED
  BY <1>2, <1>4, <1>5, <1>6, <1>8, <1>9 DEF IInv

\* Nothing happens.
LEMMA StutterKeeps ==
    ASSUME IInv, UNCHANGED vars
    PROVE  IInv'
<1>1. UNCHANGED <<kind, volumeLocks, dir, mounts, stale, late, localBind, pc, op, target,
                  path, locked, reply, cancelled, staged, pod, overtaken, abandoned, broke,
                  tokenless, calls, faults>>
  BY DEF vars, node, rpc, kube, hist
<1>2. TypeOK'
  BY <1>1 DEF IInv, TypeOK
<1>3. \A x \in Paths : (Mounted(x) => Mounted(x)') /\ (Mounted(x)' => x \in dir)
  BY <1>1 DEF Mounted, IInv, NodeOK
<1>4. broke \subseteq broke' /\ (OnTarget => stale' \subseteq broke')
  BY <1>1 DEF IInv, NodeOK
<1>5. kind = "token" => ~Mounted(Stage)' /\ late'[Stage] = 0 /\ Stage \notin stale'
  BY <1>1 DEF IInv, NodeOK, Mounted
<1> QED
  BY <1>1, <1>2, <1>3, <1>4, <1>5, MountsGrow DEF rpc, kube

-----------------------------------------------------------------------------
(***************************************************************************)
(* The theorems                                                            *)
(***************************************************************************)

\* Nothing is staged, published or mounted at first.
LEMMA InitInv == Init => IInv
<1> SUFFICES ASSUME Init PROVE IInv
  OBVIOUS
<1>1. TypeOK
  BY NodeAssumption DEF Init, TypeOK, PCs
<1>2. \A p \in Procs : CallOK(p) /\ PathOK(p) /\ AnswerOK(p)
  BY DEF Init, CallOK, PathOK, AnswerOK, HeldPCs, StagePCs
<1>3. LocksOK /\ KubeletOK
  BY DEF Init, LocksOK, KubeletOK
<1>4. ToldOK /\ NodeOK
  BY PathFacts DEF Init, ToldOK, NodeOK, Nobody, Gone, Mounted
<1> QED
  BY <1>1, <1>2, <1>3, <1>4 DEF IInv

\* Every step keeps the invariant.
LEMMA NextInv == IInv /\ [Next]_vars => IInv'
<1> SUFFICES ASSUME IInv, [Next]_vars PROVE IInv'
  OBVIOUS
<1>1. ASSUME NEW p \in Procs, StageStep(p)
      PROVE  IInv'
  <2>1. CASE StageAcquire(p)
    BY <2>1, TryAcquireKeeps DEF StageAcquire
  <2>2. CASE MakeShareDir(p)
    BY <2>2, MakesDir DEF MakeShareDir
  <2>3. CASE MakeDiskDir(p)
    BY <2>3, MakesDir DEF MakeDiskDir
  <2>4. CASE UnmountStaleShare(p) \/ UnmountStaleDisk(p)
    BY <2>4, UnmountStaleKeeps DEF UnmountStaleShare, UnmountStaleDisk
  <2> QED
    BY <1>1, <2>1, <2>2, <2>3, <2>4, StageSkippedKeeps, GetAccountInfoKeeps, AbortedKeeps, MkdirAllKeeps,
       EnsureShareKeeps, StartMountKeeps, MountTimesOutKeeps, ChmodKeeps, EnsureDiskKeeps
       DEF StageStep
<1>2. ASSUME NEW p \in Procs, Step(p)
      PROVE  IInv'
  <2>1. CASE MakeTarget(p)
    BY <2>1, MakesDir DEF MakeTarget
  <2>2. CASE UnstageAcquire(p)
    BY <2>2, TryAcquireKeeps DEF UnstageAcquire
  <2> QED
    BY <1>1, <1>2, <2>1, <2>2, PublishOnTargetKeeps, EnsureTargetKeeps, BindMountKeeps,
       RemoveTargetKeeps, CleanupUnmountKeeps, CleanupRemoveKeeps, ReleaseKeeps, ReplyKeeps
       DEF Step
<1>3. ASSUME NEW p \in Procs,
             \/ MountDone(p) \/ MountFails(p) \/ FormatAndMount(p)
             \/ GiveUp(p) \/ CallStage(p) \/ CallUnstage(p)
      PROVE  IInv'
  BY <1>3, MountDoneKeeps, MountFailsKeeps, FormatAndMountKeeps, GiveUpKeeps, CallDeviceKeeps
<1>4. ASSUME NEW p \in Procs, NEW x \in Pods, CallPublish(p, x) \/ CallUnpublish(p, x)
      PROVE  IInv'
  BY <1>4, CallPublishKeeps, CallUnpublishKeeps
<1>5. ASSUME NEW x \in Paths, LateMount(x) \/ Break(x)
      PROVE  IInv'
  BY <1>5, LateMountKeeps, BreakKeeps
<1> QED
  BY <1>2, <1>3, <1>4, <1>5, CrashKeeps, StutterKeeps DEF Next

\* The four RPCs keep the invariant, whatever kubelet gives up on, whenever mounts
\* break and however often the plugin restarts.
THEOREM Invariance == Spec => []IInv
BY InitInv, NextInv, PTL DEF Spec

\* Every variable keeps its type.
THEOREM TypeCorrect == Spec => []TypeOK
<1>1. IInv => TypeOK
  BY DEF IInv
<1> QED
  BY <1>1, Invariance, PTL

\* After NodeUnstageVolume nothing of the volume is mounted on the staging path or
\* on proxy-mount, and no mount helper that is late brings it back.
THEOREM UnstagedStaysClean == Spec => []UnstagedIsClean
<1>1. IInv => UnstagedIsClean
  BY PathFacts DEF IInv, ToldOK, NodeOK, UnstagedIsClean, Gone
<1> QED
  BY <1>1, Invariance, PTL

\* After NodeStageVolume the staging path stays a mount point until
\* NodeUnstageVolume is called, unless the volume uses the token of the pod.
THEOREM StagedStaysMounted == Spec => []StagedIsMounted
<1>1. IInv => StagedIsMounted
  BY DEF IInv, ToldOK, StagedIsMounted
<1> QED
  BY <1>1, Invariance, PTL

\* A running pod keeps its mount, and never that of the bare staging directory,
\* unless its volume is staged on its target and the mount broke, or no token came.
THEOREM RunningStaysMounted == Spec => []RunningIsMounted
<1>1. IInv => RunningIsMounted
  BY DEF IInv, ToldOK, NodeOK, Intact, RunningIsMounted, OnTarget
<1> QED
  BY <1>1, Invariance, PTL

\* After NodeUnpublishVolume the target of the pod is no mount point again.
THEOREM GonePodStaysClean == Spec => []GonePodIsClean
<1>1. IInv => GonePodIsClean
  BY PathFacts DEF IInv, ToldOK, NodeOK, GonePodIsClean
<1> QED
  BY <1>1, Invariance, PTL
=============================================================================
