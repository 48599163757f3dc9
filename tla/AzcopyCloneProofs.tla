-------------------------- MODULE AzcopyCloneProofs --------------------------
(***************************************************************************)
(* Proofs about AzcopyClone, for any number of volumes and copies.         *)
(***************************************************************************)
EXTENDS AzcopyClone, TLAPS

\* parseAzcopyJobList, in terms of the jobs in the list.
LEMMA JobStateFacts ==
    ASSUME NEW v \in Vols
    PROVE  /\ "Running" \in JobState(v) => \E c \in Jobs(v) : status[c] = "InProgress"
           /\ "Running" \notin JobState(v) /\ (\E c \in Jobs(v) : status[c] = "InProgress") =>
                  \E c \in Jobs(v) : status[c] \in {"Completed", "CompletedWithErrors"}
           /\ "NotFound" \in JobState(v) =>
                  \A c \in Jobs(v) : status[c] \notin {"Completed", "CompletedWithErrors", "InProgress"}
           /\ "Completed" \in JobState(v) => \E c \in Jobs(v) : status[c] = "Completed"
           /\ "CompletedWithErrors" \in JobState(v) =>
                  \E c \in Jobs(v) : status[c] = "CompletedWithErrors"
           /\ "Completed" \notin JobState(v) => \A c \in Jobs(v) : status[c] # "Completed"
           /\ JobState(v) \subseteq {"Running", "NotFound", "Completed", "CompletedWithErrors"}
BY DEF JobState

\* A share that lost nothing has no job that ended early.
LEMMA IntactFacts ==
    ASSUME NEW v \in Vols, Intact(v)
    PROVE  ~Lost("ended", v) /\ ~Lost("cleaned", v) /\ ~Lost("unread", v)
BY DEF Intact, Lost, Losses

\* Nothing is copied at the start.
LEMMA InitInv == Init => IInv
<1> SUFFICES ASSUME Init PROVE IInv
  OBVIOUS
<1>1. TypeOK
  <2>1. 0 \in 0..MaxFaults
    BY CloneAssumption
  <2> QED
    BY <2>1 DEF Init, TypeOK, PCs
<1>2. LocalsInv /\ AliveInv /\ EndedInv /\ OneJobCounts /\ CopyKeepsItsShare
  BY DEF Init, LocalsInv, AliveInv, EndedInv, OneJobCounts, CopyKeepsItsShare
<1>3. JobsInv /\ FullInv
  BY CloneAssumption DEF Init, JobsInv, FullInv, Jobs
<1> QED
  BY <1>1, <1>2, <1>3 DEF IInv

\* A step of an RPC that changes no job and empties no share: it is enough that what it
\* knows at its next step is so.
LEMMA LocalStepKeeps ==
    ASSUME IInv, NEW v \in Vols, NEW to \in PCs, pc' = [pc EXCEPT ![v] = to],
           UNCHANGED azcopy, faults' \in 0..MaxFaults,
           share' \in [Vols -> {"none", "partial", "full"}],
           \A w \in Vols : share'[w] = "full" <=> share[w] = "full",
           lost' = lost \/ lost' = lost \cup {<<"unread", v>>},
           identity' \subseteq Vols,
           to # "wait", mine' = [mine EXCEPT ![v] = None],
           reply' \in {reply, [reply EXCEPT ![v] = "none"], [reply EXCEPT ![v] = "err"], [reply EXCEPT ![v] = "ok"]},
           reply'[v] = "ok" => to = "return",
           created' = created \/ (to = "idle" /\ created' = created \cup {v}),
           v \in created' => to = "idle",
           to = "exec" => \A c \in Jobs(v) : status[c] = "Failed",
           to = "clean" => \A c \in alive : dst[c] = v => Lost("cleaned", v),
           to = "delete" =>
               \/ <<"unread", v>> \in lost' \/ Lost("cleaned", v)
               \/ \A c \in Jobs(v) : status[c] \notin {"InProgress", "Completed"},
           Intact(v) /\ to = "poll" => share[v] = "full" \/ \E c \in Jobs(v) : status[c] = "InProgress",
           Intact(v) /\ (to = "clean" \/ reply'[v] = "ok" \/ v \in created') => share[v] = "full"
    PROVE  IInv'
<1>1. /\ \A w \in Vols : pc'[w] = IF w = v THEN to ELSE pc[w]
      /\ \A w \in Vols \ {v} : mine'[w] = mine[w] /\ reply'[w] = reply[w] /\ (w \in created' <=> w \in created)
      /\ mine'[v] = None
  BY DEF IInv, TypeOK
<1>l. lost \subseteq lost' /\ lost' \subseteq Losses \cup Killed
  BY DEF IInv, TypeOK, Losses
<1>2. TypeOK'
  <2>1. pc' \in [Vols -> PCs] /\ reply' \in [Vols -> {"none", "ok", "err"}] /\ created' \subseteq Vols
    BY DEF IInv, TypeOK
  <2>2. mine' \in [Vols -> Copies \cup {None}]
    BY DEF IInv, TypeOK
  <2>3. \A w \in Vols : pc'[w] = "wait" => mine'[w] \in Copies /\ dst'[mine'[w]] = w
    BY <1>1 DEF IInv, TypeOK, azcopy
  <2> QED
    BY <1>l, <2>1, <2>2, <2>3 DEF IInv, TypeOK, azcopy
<1>3. LocalsInv'
  BY <1>1 DEF IInv, LocalsInv
<1>4. AliveInv' /\ EndedInv' /\ OneJobCounts' /\ CopyKeepsItsShare'
  BY <1>l DEF IInv, AliveInv, EndedInv, OneJobCounts, CopyKeepsItsShare, Lost, azcopy
<1>5. JobsInv'
  <2> SUFFICES ASSUME NEW w \in Vols
               PROVE  /\ pc'[w] = "exec" => \A c \in Jobs(w) : status[c] = "Failed"
                      /\ pc'[w] = "wait" =>
                             \A c \in alive : dst[c] = w => c = mine'[w] \/ <<"cleaned", w>> \in lost'
                      /\ pc'[w] = "clean" => \A c \in alive : dst[c] = w => <<"cleaned", w>> \in lost'
                      /\ pc'[w] = "delete" =>
                             \/ <<"unread", w>> \in lost' \/ <<"cleaned", w>> \in lost'
                             \/ \A c \in Jobs(w) : status[c] \notin {"InProgress", "Completed"}
    BY DEF JobsInv, Jobs, Lost, azcopy
  <2>1. CASE w = v
    BY <1>1, <1>l, <2>1 DEF Lost
  <2>2. CASE w # v
    BY <1>1, <1>l, <2>2 DEF IInv, JobsInv, Lost
  <2> QED
    BY <2>1, <2>2
<1>6. FullInv'
  <2> SUFFICES ASSUME NEW w \in Vols, Intact(w), share[w] # "full"
               PROVE  /\ \A c \in Copies : dst[c] = w /\ (c \in listed \/ c = mine'[w]) => status[c] # "Completed"
                      /\ pc'[w] = "poll" => \E c \in Jobs(w) : status[c] = "InProgress"
                      /\ pc'[w] # "clean" /\ reply'[w] # "ok" /\ w \notin created'
    BY <1>l DEF FullInv, Intact, Jobs, azcopy
  <2>1. CASE w = v
    BY <1>1, <2>1, CloneAssumption DEF IInv, FullInv
  <2>2. CASE w # v
    BY <1>1, <2>2 DEF IInv, FullInv
  <2> QED
    BY <2>1, <2>2
<1> QED
  BY <1>2, <1>3, <1>4, <1>5, <1>6 DEF IInv

\* What is not changed is no share emptied.
LEMMA SameShares ==
    ASSUME IInv, share' = share
    PROVE  /\ share' \in [Vols -> {"none", "partial", "full"}]
           /\ \A w \in Vols : share'[w] = "full" <=> share[w] = "full"
BY DEF IInv, TypeOK

\* A fault, if there is one, is within the bound.
LEMMA FaultBound ==
    ASSUME IInv, Fault \/ faults' = faults
    PROVE  faults' \in 0..MaxFaults
BY CloneAssumption DEF IInv, TypeOK, Fault

\* The CO calls for a volume it does not know to be created.
LEMMA CallCreateKeeps ==
    ASSUME IInv, NEW v \in Vols, CallCreate(v)
    PROVE  IInv'
<1>1. /\ pc' = [pc EXCEPT ![v] = "createShare"] /\ "createShare" \in PCs /\ v \notin created /\ pc[v] = "idle"
      /\ UNCHANGED <<share, azcopy, identity, mine, reply, created, lost, faults>>
  BY DEF CallCreate, Goto, PCs
<1>2. mine[v] = None /\ mine = [mine EXCEPT ![v] = None] /\ reply[v] # "ok"
  BY <1>1 DEF IInv, TypeOK, LocalsInv
<1> QED
  BY <1>1, <1>2, LocalStepKeeps, SameShares, FaultBound DEF IInv, TypeOK

\* Authorization changes nothing the invariant speaks of.
LEMMA GetAzcopyAuthKeeps ==
    ASSUME IInv, NEW v \in Vols, GetAzcopyAuth(v)
    PROVE  IInv'
<1>1. PICK to \in {"job", "cleanup"} : pc' = [pc EXCEPT ![v] = to]
  BY DEF GetAzcopyAuth, Goto
<1>2. /\ to \in PCs /\ pc[v] = "auth" /\ (Fault \/ faults' = faults) /\ identity' \subseteq Vols
      /\ UNCHANGED <<share, azcopy, mine, reply, created, lost>>
  BY DEF GetAzcopyAuth, Goto, PCs, IInv, TypeOK
<1>3. mine = [mine EXCEPT ![v] = None] /\ reply[v] # "ok" /\ v \notin created
  BY <1>2 DEF IInv, TypeOK, LocalsInv
<1> QED
  BY <1>1, <1>2, <1>3, LocalStepKeeps, SameShares, FaultBound

\* A job that is over ends the call, one in progress is polled, and only when none counts
\* a copy is started.
LEMMA LookUpJobKeeps ==
    ASSUME IInv, NEW v \in Vols, LookUpJob(v)
    PROVE  IInv'
<1>0. /\ pc[v] = "job" /\ UNCHANGED <<share, azcopy, identity, mine, created, lost>>
      /\ (Fault \/ faults' = faults) /\ {"return", "poll", "exec", "cleanup"} \subseteq PCs
  BY DEF LookUpJob, Goto, Return, PCs
<1>m. /\ mine = [mine EXCEPT ![v] = None] /\ reply[v] # "ok" /\ v \notin created
      /\ identity' \subseteq Vols /\ faults' \in 0..MaxFaults
  BY <1>0, FaultBound DEF IInv, TypeOK, LocalsInv
<1>1. CASE JobState(v) \cap {"Completed", "CompletedWithErrors"} # {} /\ Return(v, "job", "ok")
  <2>1. Intact(v) => share[v] = "full"
    <3>1. \E c \in Jobs(v) : status[c] \in {"Completed", "CompletedWithErrors"}
      BY <1>1, JobStateFacts
    <3> QED
      BY <3>1, IntactFacts DEF Jobs, IInv, TypeOK, EndedInv, FullInv
  <2>2. pc' = [pc EXCEPT ![v] = "return"] /\ reply' = [reply EXCEPT ![v] = "ok"]
    BY <1>1 DEF Return, Goto
  <2> QED
    BY <1>0, <1>m, <2>1, <2>2, LocalStepKeeps, SameShares
<1>2. CASE "Running" \in JobState(v) /\ Goto(v, "job", "poll") /\ reply' = reply
  BY <1>0, <1>m, <1>2, JobStateFacts, LocalStepKeeps, SameShares DEF Goto
<1>3. CASE "NotFound" \in JobState(v) /\ Goto(v, "job", "exec") /\ reply' = reply
  <2>1. \A c \in Jobs(v) : status[c] = "Failed"
    BY <1>3, JobStateFacts DEF Jobs, IInv, TypeOK, Ends
  <2> QED
    BY <1>0, <1>m, <1>3, <2>1, LocalStepKeeps, SameShares DEF Goto
<1>4. CASE Goto(v, "job", "cleanup") /\ reply' = reply
  BY <1>0, <1>m, <1>4, LocalStepKeeps, SameShares DEF Goto
<1> QED
  BY <1>1, <1>2, <1>3, <1>4 DEF LookUpJob

\* The job that has ended was the only one, and has filled the share if it says so.
LEMMA CopyReturnsKeeps ==
    ASSUME IInv, NEW v \in Vols, CopyReturns(v)
    PROVE  IInv'
<1>0. /\ pc[v] = "wait" /\ mine[v] \notin alive /\ mine' = [mine EXCEPT ![v] = None]
      /\ UNCHANGED <<share, azcopy, reply, created, lost, faults>>
      /\ identity' \subseteq Vols /\ {"clean", "cleanup", "job"} \subseteq PCs
  BY DEF CopyReturns, PCs, IInv, TypeOK
<1>1. reply[v] # "ok" /\ v \notin created /\ faults' \in 0..MaxFaults /\ mine[v] \in Copies /\ dst[mine[v]] = v
  BY <1>0, FaultBound DEF IInv, TypeOK, LocalsInv
<1>2. CASE status[mine[v]] = "Completed" /\ Goto(v, "wait", "clean")
  <2>1. \A c \in alive : dst[c] = v => Lost("cleaned", v)
    BY <1>0 DEF IInv, JobsInv
  <2>2. Intact(v) => share[v] = "full"
    BY <1>1, <1>2 DEF IInv, FullInv
  <2> QED
    BY <1>0, <1>1, <1>2, <2>1, <2>2, LocalStepKeeps, SameShares DEF Goto
<1>3. CASE \E to \in {"cleanup", "job"} : Goto(v, "wait", to)
  BY <1>0, <1>1, <1>3, LocalStepKeeps, SameShares DEF Goto
<1> QED
  BY <1>2, <1>3 DEF CopyReturns

\* A call that gives up waiting leaves everything to the next one.
LEMMA TimesOutKeeps ==
    ASSUME IInv, NEW v \in Vols, CopyTimesOut(v) \/ PollTimesOut(v)
    PROVE  IInv'
<1>1. /\ pc' = [pc EXCEPT ![v] = "cleanup"] /\ pc[v] \in {"wait", "poll"} /\ "cleanup" \in PCs
      /\ UNCHANGED <<share, azcopy, identity, reply, created, lost, faults>>
      /\ mine' = [mine EXCEPT ![v] = None]
  BY DEF CopyTimesOut, PollTimesOut, Goto, PCs, IInv, TypeOK, LocalsInv
<1>2. reply[v] # "ok" /\ v \notin created /\ identity' \subseteq Vols
  BY <1>1 DEF IInv, TypeOK, LocalsInv
<1> QED
  BY <1>1, <1>2, LocalStepKeeps, SameShares, FaultBound

\* A job that is no longer in progress while it is polled was the only one that counts.
LEMMA PollKeeps ==
    ASSUME IInv, NEW v \in Vols, Poll(v)
    PROVE  IInv'
<1>0. /\ pc[v] = "poll" /\ UNCHANGED <<share, azcopy, identity, mine, reply, created, lost>>
      /\ (Fault \/ faults' = faults) /\ {"clean", "cleanup"} \subseteq PCs
  BY DEF Poll, Goto, PCs
<1>m. /\ mine = [mine EXCEPT ![v] = None] /\ reply[v] # "ok" /\ v \notin created
      /\ identity' \subseteq Vols /\ faults' \in 0..MaxFaults
  BY <1>0, FaultBound DEF IInv, TypeOK, LocalsInv
<1>1. CASE "Running" \notin JobState(v) /\ Goto(v, "poll", "clean")
  <2>1. (\E c \in Jobs(v) : status[c] = "InProgress")
        => \E c \in Jobs(v) : status[c] \in {"Completed", "CompletedWithErrors"}
    BY <1>1, JobStateFacts
  <2>2. \A c \in alive : dst[c] = v => Lost("cleaned", v)
    <3> SUFFICES ASSUME NEW c \in alive, dst[c] = v, ~Lost("cleaned", v) PROVE FALSE
      OBVIOUS
    <3>1. c \in Jobs(v) /\ status[c] = "InProgress"
      BY DEF IInv, AliveInv, Jobs
    <3>2. PICK d \in Jobs(v) : status[d] \in {"Completed", "CompletedWithErrors"}
      BY <2>1, <3>1
    <3> QED
      BY <3>1, <3>2 DEF IInv, OneJobCounts, Jobs
  <2>3. Intact(v) => share[v] = "full"
    <3> SUFFICES ASSUME Intact(v), share[v] # "full" PROVE FALSE
      OBVIOUS
    <3>1. PICK c \in Jobs(v) : status[c] \in {"Completed", "CompletedWithErrors"}
      BY <1>0, <2>1 DEF IInv, FullInv
    <3> QED
      BY <3>1, IntactFacts DEF IInv, TypeOK, EndedInv, FullInv, Jobs
  <2> QED
    BY <1>0, <1>m, <1>1, <2>2, <2>3, LocalStepKeeps, SameShares DEF Goto
<1>2. CASE Goto(v, "poll", "cleanup")
  BY <1>0, <1>m, <1>2, LocalStepKeeps, SameShares DEF Goto
<1> QED
  BY <1>1, <1>2 DEF Poll

\* The CO learns that a volume is created when its share is full.
LEMMA ReplyKeeps ==
    ASSUME IInv, NEW v \in Vols, Reply(v)
    PROVE  IInv'
<1>1. /\ pc[v] = "return" /\ pc' = [pc EXCEPT ![v] = "idle"] /\ "idle" \in PCs
      /\ created' = IF reply[v] = "ok" THEN created \cup {v} ELSE created
      /\ reply' = [reply EXCEPT ![v] = "none"] /\ identity' = identity \ {v}
      /\ UNCHANGED <<share, azcopy, mine, lost, faults>>
  BY DEF Reply, Goto, PCs
<1>2. mine = [mine EXCEPT ![v] = None] /\ v \notin created /\ identity' \subseteq Vols /\ reply'[v] = "none"
  BY <1>1 DEF IInv, TypeOK, LocalsInv
<1>3. Intact(v) /\ v \in created' => share[v] = "full"
  BY <1>1, <1>2 DEF IInv, FullInv
<1>4. created' = created \/ created' = created \cup {v}
  BY <1>1
<1> QED
  BY <1>1, <1>2, <1>3, <1>4, LocalStepKeeps, SameShares, FaultBound

\* A share that is there stays as it is.
LEMMA CreateFileShareKeeps ==
    ASSUME IInv, NEW v \in Vols, CreateFileShare(v)
    PROVE  IInv'
<1>0. /\ pc[v] = "createShare" /\ UNCHANGED <<azcopy, identity, mine, created, lost>>
      /\ {"auth", "return"} \subseteq PCs
  BY DEF CreateFileShare, Goto, Return, PCs
<1>m. mine = [mine EXCEPT ![v] = None] /\ reply[v] # "ok" /\ v \notin created /\ identity' \subseteq Vols
  BY <1>0 DEF IInv, TypeOK, LocalsInv
<1>1. CASE /\ Goto(v, "createShare", "auth") /\ UNCHANGED <<reply, faults>>
           /\ share' = [share EXCEPT ![v] = IF @ = "none" THEN "partial" ELSE @]
  <2>1. /\ share' \in [Vols -> {"none", "partial", "full"}]
        /\ \A w \in Vols : share'[w] = "full" <=> share[w] = "full"
    BY <1>1 DEF IInv, TypeOK
  <2> QED
    BY <1>0, <1>m, <1>1, <2>1, LocalStepKeeps, FaultBound DEF Goto
<1>2. CASE Fault /\ Return(v, "createShare", "err") /\ UNCHANGED share
  <2>1. pc' = [pc EXCEPT ![v] = "return"] /\ reply' = [reply EXCEPT ![v] = "err"] /\ reply'[v] # "ok"
    BY <1>2 DEF Return, Goto, IInv, TypeOK
  <2> QED
    BY <1>0, <1>m, <1>2, <2>1, LocalStepKeeps, SameShares, FaultBound
<1> QED
  BY <1>1, <1>2 DEF CreateFileShare

\* The share is deleted only when no job of it counts, or the list could not be read.
LEMMA CleanupShareOnFailureKeeps ==
    ASSUME IInv, NEW v \in Vols, CleanupShareOnFailure(v)
    PROVE  IInv'
<1>0. /\ pc[v] = "cleanup" /\ UNCHANGED <<share, azcopy, identity, mine, created>>
      /\ {"delete", "return"} \subseteq PCs
  BY DEF CleanupShareOnFailure, Goto, Return, PCs
<1>m. mine = [mine EXCEPT ![v] = None] /\ reply[v] # "ok" /\ v \notin created /\ identity' \subseteq Vols
  BY <1>0 DEF IInv, TypeOK, LocalsInv
<1>1. CASE Return(v, "cleanup", "err") /\ UNCHANGED <<lost, faults>>
  <2>1. pc' = [pc EXCEPT ![v] = "return"] /\ reply' = [reply EXCEPT ![v] = "err"] /\ reply'[v] # "ok"
    BY <1>1 DEF Return, Goto, IInv, TypeOK
  <2> QED
    BY <1>0, <1>m, <1>1, <2>1, LocalStepKeeps, SameShares, FaultBound
<1>2. CASE /\ JobState(v) \ {"Running", "Completed"} # {} /\ UNCHANGED <<lost, faults>>
           /\ Goto(v, "cleanup", "delete") /\ UNCHANGED reply
  <2>1. Lost("cleaned", v) \/ \A c \in Jobs(v) : status[c] \notin {"InProgress", "Completed"}
    <3>1. CASE "NotFound" \in JobState(v)
      BY <3>1, JobStateFacts
    <3>2. CASE "CompletedWithErrors" \in JobState(v)
      BY <3>2, JobStateFacts DEF IInv, OneJobCounts, Jobs
    <3> QED
      BY <1>2, <3>1, <3>2, JobStateFacts
  <2> QED
    BY <1>0, <1>m, <1>2, <2>1, LocalStepKeeps, SameShares, FaultBound DEF Goto
<1>3. CASE /\ Fault /\ lost' = lost \cup {<<"unread", v>>}
           /\ Goto(v, "cleanup", "delete") /\ UNCHANGED reply
  BY <1>0, <1>m, <1>3, LocalStepKeeps, SameShares, FaultBound DEF Goto
<1> QED
  BY <1>1, <1>2, <1>3 DEF CleanupShareOnFailure

\* An end of a copy is an end of a job in progress.
LEMMA AzcopyEndsKeeps ==
    ASSUME IInv, NEW c \in Copies, AzcopyEnds(c)
    PROVE  IInv'
<1> PICK s \in Ends :
        /\ IF c \in broken THEN s = "Failed" /\ UNCHANGED faults
           ELSE (s = "Completed" /\ UNCHANGED faults) \/ (s # "Completed" /\ Fault)
        /\ status' = [status EXCEPT ![c] = s]
        /\ share' = IF s = "Completed" THEN [share EXCEPT ![dst[c]] = "full"] ELSE share
        /\ lost' = IF s = "Completed" THEN lost ELSE lost \cup {<<"ended", dst[c]>>}
  BY DEF AzcopyEnds
<1>0. /\ c \in alive /\ alive' = alive \ {c} /\ UNCHANGED <<dst, listed, broken, rpc, created>>
      /\ dst[c] \in Vols /\ status[c] = "InProgress" /\ (c \in listed \/ Lost("cleaned", dst[c]))
  BY DEF AzcopyEnds, IInv, TypeOK, AliveInv
<1>1. /\ \A d \in Copies : status'[d] = IF d = c THEN s ELSE status[d]
      /\ \A v \in Vols : share[v] = "full" => share'[v] = "full"
      /\ lost \subseteq lost' /\ s \in {"Completed", "CompletedWithErrors", "Failed"}
      /\ s = "Completed" => share'[dst[c]] = "full"
      /\ s # "Completed" => <<"ended", dst[c]>> \in lost'
  BY <1>0 DEF IInv, TypeOK, Ends
<1>2. TypeOK'
  <2>1. lost' \subseteq Losses \cup Killed
    BY <1>0 DEF IInv, TypeOK, Losses
  <2>2. faults' \in 0..MaxFaults
    BY FaultBound
  <2> QED
    BY <1>0, <2>1, <2>2 DEF IInv, TypeOK, rpc
<1>3. LocalsInv'
  BY <1>0 DEF IInv, LocalsInv, rpc
<1>4. AliveInv' /\ EndedInv' /\ OneJobCounts' /\ CopyKeepsItsShare'
  <2>1. AliveInv'
    BY <1>0, <1>1 DEF IInv, TypeOK, AliveInv, Lost
  <2>2. EndedInv'
    BY <1>0, <1>1 DEF IInv, TypeOK, EndedInv, Lost
  <2>3. OneJobCounts'
    BY <1>0, <1>1 DEF IInv, TypeOK, OneJobCounts, Lost
  <2>4. CopyKeepsItsShare'
    BY <1>0, <1>1 DEF IInv, CopyKeepsItsShare
  <2> QED
    BY <2>1, <2>2, <2>3, <2>4
<1>5. JobsInv'
  <2> SUFFICES ASSUME NEW v \in Vols
               PROVE  /\ pc[v] = "exec" => \A d \in Jobs(v) : status'[d] = "Failed"
                      /\ pc[v] = "wait" =>
                             \A d \in alive' : dst[d] = v => d = mine[v] \/ <<"cleaned", v>> \in lost'
                      /\ pc[v] = "clean" => \A d \in alive' : dst[d] = v => <<"cleaned", v>> \in lost'
                      /\ pc[v] = "delete" =>
                             \/ <<"unread", v>> \in lost' \/ <<"cleaned", v>> \in lost'
                             \/ \A d \in Jobs(v) : status'[d] \notin {"InProgress", "Completed"}
    BY <1>0 DEF JobsInv, Jobs, Lost, rpc
  <2>1. c \in Jobs(v) => pc[v] # "exec" /\ (pc[v] = "delete" => Lost("unread", v) \/ Lost("cleaned", v))
    BY <1>0 DEF IInv, JobsInv
  <2>2. \A d \in Jobs(v) : d \in Copies
    BY DEF Jobs, IInv, TypeOK
  <2> QED
    BY <1>0, <1>1, <2>1, <2>2 DEF IInv, JobsInv, Lost
<1>6. FullInv'
  <2> SUFFICES ASSUME NEW v \in Vols, \A w \in Losses : w[2] = v => w \notin lost', share'[v] # "full"
               PROVE  /\ \A d \in Copies : dst[d] = v /\ (d \in listed \/ d = mine[v]) => status'[d] # "Completed"
                      /\ pc[v] = "poll" => \E d \in Jobs(v) : status'[d] = "InProgress"
                      /\ pc[v] # "clean" /\ reply[v] # "ok" /\ v \notin created
    BY <1>0 DEF FullInv, Intact, Jobs, rpc
  <2>1. Intact(v) /\ share[v] # "full" /\ dst[c] # v
    BY <1>0, <1>1 DEF Intact, Losses
  <2>2. \A d \in Jobs(v) : d \in Copies /\ d # c
    BY <2>1 DEF Jobs, IInv, TypeOK
  <2> QED
    BY <1>1, <2>1, <2>2 DEF IInv, FullInv
<1> QED
  BY <1>2, <1>3, <1>4, <1>5, <1>6 DEF IInv

\* A copy takes the number of a job nobody needs, and is the only one of its share.
LEMMA ExecAzcopyCopyKeeps ==
    ASSUME IInv, NEW v \in Vols, ExecAzcopyCopy(v)
    PROVE  IInv'
<1> PICK c \in Copies :
        /\ Free(c)
        /\ status' = [status EXCEPT ![c] = "InProgress"]
        /\ broken' = broken \ {c}
        /\ dst' = [dst EXCEPT ![c] = v]
        /\ alive' = alive \cup {c}
        /\ listed' = listed \cup {c}
        /\ mine' = [mine EXCEPT ![v] = c]
  BY DEF ExecAzcopyCopy
<1>0. /\ pc[v] = "exec" /\ pc' = [pc EXCEPT ![v] = "wait"]
      /\ UNCHANGED <<share, identity, reply, created, lost, faults>>
  BY DEF ExecAzcopyCopy, Goto
<1>1. /\ \A d \in Copies : /\ status'[d] = IF d = c THEN "InProgress" ELSE status[d]
                           /\ dst'[d] = IF d = c THEN v ELSE dst[d]
      /\ \A w \in Vols : /\ pc'[w] = IF w = v THEN "wait" ELSE pc[w]
                         /\ mine'[w] = IF w = v THEN c ELSE mine[w]
      /\ c \notin alive /\ (c \in listed => status[c] = "Failed") /\ \A w \in Vols : mine[w] # c
  BY <1>0 DEF Free, IInv, TypeOK
<1>2. \A d \in listed : d # c /\ dst[d] = v => status[d] = "Failed"
  BY <1>0 DEF IInv, JobsInv, Jobs
<1>3. TypeOK'
  <2>1. pc' \in [Vols -> PCs] /\ mine' \in [Vols -> Copies \cup {None}]
    BY <1>0 DEF IInv, TypeOK, PCs
  <2>2. \A d \in alive' \cup listed' : dst'[d] # None
    BY <1>1, CloneAssumption DEF IInv, TypeOK
  <2>3. \A w \in Vols : pc'[w] = "wait" => mine'[w] \in Copies /\ dst'[mine'[w]] = w
    BY <1>1 DEF IInv, TypeOK
  <2> QED
    BY <1>0, <2>1, <2>2, <2>3 DEF IInv, TypeOK
<1>4. LocalsInv'
  BY <1>0, <1>1 DEF IInv, LocalsInv
<1>5. AliveInv' /\ EndedInv' /\ OneJobCounts' /\ CopyKeepsItsShare'
  <2>0. alive \subseteq Copies /\ listed \subseteq Copies /\ lost' = lost
    BY <1>0 DEF IInv, TypeOK
  <2>1. AliveInv'
    BY <1>1, <2>0 DEF IInv, AliveInv, Lost
  <2>2. EndedInv'
    BY <1>1, <2>0 DEF IInv, EndedInv, Lost
  <2>3. OneJobCounts'
    BY <1>1, <1>2, <2>0 DEF IInv, OneJobCounts, Lost
  <2>4. CopyKeepsItsShare'
    BY <1>1, <2>0 DEF IInv, CopyKeepsItsShare
  <2> QED
    BY <2>1, <2>2, <2>3, <2>4
<1>6. JobsInv'
  <2> SUFFICES ASSUME NEW w \in Vols
               PROVE  /\ pc'[w] = "exec" => \A d \in listed' : dst'[d] = w => status'[d] = "Failed"
                      /\ pc'[w] = "wait" =>
                             \A d \in alive' : dst'[d] = w => d = mine'[w] \/ <<"cleaned", w>> \in lost
                      /\ pc'[w] = "clean" => \A d \in alive' : dst'[d] = w => <<"cleaned", w>> \in lost
                      /\ pc'[w] = "delete" =>
                             \/ <<"unread", w>> \in lost \/ <<"cleaned", w>> \in lost
                             \/ \A d \in listed' : dst'[d] = w => status'[d] \notin {"InProgress", "Completed"}
    BY <1>0 DEF JobsInv, Jobs, Lost
  <2>1. alive \subseteq Copies /\ listed \subseteq Copies
    BY DEF IInv, TypeOK
  <2>2. CASE w = v
    <3>1. \A d \in alive : dst[d] = v => Lost("cleaned", v)
      BY <1>1, <1>2 DEF IInv, AliveInv
    <3> QED
      BY <1>1, <2>1, <2>2, <3>1 DEF Lost
  <2>3. CASE w # v
    BY <1>1, <2>1, <2>3 DEF IInv, JobsInv, Jobs, Lost
  <2> QED
    BY <2>2, <2>3
<1>7. FullInv'
  <2> SUFFICES ASSUME NEW w \in Vols, Intact(w), share[w] # "full"
               PROVE  /\ \A d \in Copies : dst'[d] = w /\ (d \in listed' \/ d = mine'[w]) => status'[d] # "Completed"
                      /\ pc'[w] = "poll" => \E d \in listed' : dst'[d] = w /\ status'[d] = "InProgress"
                      /\ pc'[w] # "clean" /\ reply[w] # "ok" /\ w \notin created
    BY <1>0 DEF FullInv, Intact, Jobs
  <2>1. \A d \in Copies : dst[d] = w /\ (d \in listed \/ d = mine[w]) => status[d] # "Completed"
    BY DEF IInv, FullInv
  <2>2. pc[w] = "poll" => \E d \in listed \cap Copies : d # c /\ dst[d] = w /\ status[d] = "InProgress"
    BY <1>1 DEF IInv, TypeOK, FullInv, Jobs
  <2>3. pc[w] # "clean" /\ reply[w] # "ok" /\ w \notin created
    BY DEF IInv, FullInv
  <2> QED
    BY <1>1, <2>1, <2>2, <2>3
<1> QED
  BY <1>3, <1>4, <1>5, <1>6, <1>7 DEF IInv

\* The jobs that go are over, or count as lost.
LEMMA CleanJobsKeeps ==
    ASSUME IInv, NEW v \in Vols, CleanJobs(v)
    PROVE  IInv'
<1>0. /\ pc[v] = "clean" /\ pc' = [pc EXCEPT ![v] = "return"] /\ reply' = [reply EXCEPT ![v] = "ok"]
      /\ listed' \in {{}, listed} /\ lost \subseteq lost'
      /\ \A c \in listed \ listed' : dst[c] # v /\ status[c] = "InProgress" => <<"cleaned", dst[c]>> \in lost'
      /\ UNCHANGED <<share, dst, alive, status, broken, identity, mine, created, faults>>
  BY DEF CleanJobs, Return, Goto
<1>1. /\ \A w \in Vols : /\ pc'[w] = IF w = v THEN "return" ELSE pc[w]
                         /\ reply'[w] = IF w = v THEN "ok" ELSE reply[w]
      /\ v \notin created /\ mine[v] = None /\ listed' \subseteq listed
  BY <1>0 DEF IInv, TypeOK, LocalsInv
<1>2. TypeOK'
  <2>1. lost' \subseteq Losses \cup Killed
    BY DEF CleanJobs, IInv, TypeOK, Losses
  <2>2. pc' \in [Vols -> PCs] /\ reply' \in [Vols -> {"none", "ok", "err"}]
    BY <1>0 DEF IInv, TypeOK, PCs
  <2>3. \A w \in Vols : pc'[w] = "wait" => mine'[w] \in Copies /\ dst'[mine'[w]] = w
    BY <1>0, <1>1 DEF IInv, TypeOK
  <2> QED
    BY <1>0, <1>1, <2>1, <2>2, <2>3 DEF IInv, TypeOK
<1>3. LocalsInv'
  BY <1>0, <1>1 DEF IInv, LocalsInv
<1>4. AliveInv'
  <2> SUFFICES ASSUME NEW c \in alive
               PROVE  status[c] = "InProgress" /\ (c \in listed' \/ <<"cleaned", dst[c]>> \in lost')
    BY <1>0 DEF AliveInv, Lost
  <2>1. status[c] = "InProgress" /\ (c \in listed \/ <<"cleaned", dst[c]>> \in lost)
    BY DEF IInv, AliveInv, Lost
  <2>2. dst[c] = v => <<"cleaned", dst[c]>> \in lost
    BY <1>0 DEF IInv, JobsInv, Lost
  <2> QED
    BY <1>0, <2>1, <2>2
<1>5. EndedInv' /\ OneJobCounts' /\ CopyKeepsItsShare'
  BY <1>0, <1>1 DEF IInv, EndedInv, OneJobCounts, CopyKeepsItsShare, Lost
<1>6. JobsInv'
  <2> SUFFICES ASSUME NEW w \in Vols
               PROVE  /\ pc'[w] = "exec" => \A c \in (Jobs(w))' : status[c] = "Failed"
                      /\ pc'[w] = "wait" =>
                             \A c \in alive : dst[c] = w => c = mine[w] \/ <<"cleaned", w>> \in lost'
                      /\ pc'[w] = "clean" => \A c \in alive : dst[c] = w => <<"cleaned", w>> \in lost'
                      /\ pc'[w] = "delete" =>
                             \/ <<"unread", w>> \in lost' \/ <<"cleaned", w>> \in lost'
                             \/ \A c \in (Jobs(w))' : status[c] \notin {"InProgress", "Completed"}
    BY <1>0 DEF JobsInv, Lost
  <2>1. (Jobs(w))' \subseteq Jobs(w)
    BY <1>0, <1>1 DEF Jobs
  <2>2. CASE w = v
    BY <1>1, <2>2
  <2>3. CASE w # v
    BY <1>0, <1>1, <2>1, <2>3 DEF IInv, JobsInv, Lost
  <2> QED
    BY <2>2, <2>3
<1>7. FullInv'
  <2> SUFFICES ASSUME NEW w \in Vols, \A x \in Losses : x[2] = w => x \notin lost', share[w] # "full"
               PROVE  /\ \A d \in Copies : dst[d] = w /\ (d \in listed' \/ d = mine[w]) => status[d] # "Completed"
                      /\ pc'[w] = "poll" => \E d \in listed' : dst[d] = w /\ status[d] = "InProgress"
                      /\ pc'[w] # "clean" /\ reply'[w] # "ok" /\ w \notin created
    BY <1>0 DEF FullInv, Intact, Jobs
  <2>1. Intact(w) /\ <<"cleaned", w>> \notin lost'
    BY <1>0 DEF Intact, Losses
  <2>2. w # v
    BY <1>0, <2>1 DEF IInv, FullInv
  <2>3. pc[w] = "poll" => \E d \in listed : dst[d] = w /\ status[d] = "InProgress"
    BY <2>1 DEF IInv, FullInv, Jobs
  <2> QED
    BY <1>0, <1>1, <2>1, <2>2, <2>3 DEF IInv, FullInv
<1> QED
  BY <1>2, <1>3, <1>4, <1>5, <1>6, <1>7 DEF IInv

\* Where the share is deleted no process copies to it and no job says it is complete,
\* unless the list could not be read or did not tell.
LEMMA DeleteFileShareKeeps ==
    ASSUME IInv, NEW v \in Vols, DeleteFileShare(v)
    PROVE  IInv'
<1>0. /\ pc[v] = "delete" /\ pc' = [pc EXCEPT ![v] = "return"] /\ reply' = [reply EXCEPT ![v] = "err"]
      /\ (Fault \/ faults' = faults)
      /\ share' \in {share, [share EXCEPT ![v] = "none"]}
      /\ broken' \in {broken, broken \cup {c \in alive : dst[c] = v}}
      /\ UNCHANGED <<dst, alive, listed, status, identity, mine, created, lost>>
  BY DEF DeleteFileShare, Return, Goto
<1>1. /\ \A w \in Vols : /\ pc'[w] = IF w = v THEN "return" ELSE pc[w]
                         /\ reply'[w] = IF w = v THEN "err" ELSE reply[w]
      /\ \A w \in Vols \ {v} : share'[w] = share[w]
      /\ v \notin created /\ mine[v] = None
  BY <1>0 DEF IInv, TypeOK, LocalsInv
<1>2. TypeOK'
  <2>1. share' \in [Vols -> {"none", "partial", "full"}] /\ broken' \subseteq Copies
    BY <1>0 DEF IInv, TypeOK
  <2>2. pc' \in [Vols -> PCs] /\ reply' \in [Vols -> {"none", "ok", "err"}]
    BY <1>0 DEF IInv, TypeOK, PCs
  <2>3. \A w \in Vols : pc'[w] = "wait" => mine'[w] \in Copies /\ dst'[mine'[w]] = w
    BY <1>0, <1>1 DEF IInv, TypeOK
  <2> QED
    BY <1>0, <2>1, <2>2, <2>3, FaultBound DEF IInv, TypeOK
<1>3. LocalsInv' /\ AliveInv' /\ EndedInv' /\ OneJobCounts'
  BY <1>0, <1>1 DEF IInv, LocalsInv, AliveInv, EndedInv, OneJobCounts, Lost
<1>4. CopyKeepsItsShare'
  <2> SUFFICES ASSUME NEW c \in alive, c \in broken'
               PROVE  Lost("cleaned", dst[c]) \/ Lost("unread", dst[c])
    BY <1>0 DEF CopyKeepsItsShare, Lost
  <2>1. CASE c \in broken
    BY <2>1 DEF IInv, CopyKeepsItsShare, Lost
  <2>2. CASE dst[c] = v
    BY <1>0, <2>2 DEF IInv, AliveInv, JobsInv, Jobs
  <2> QED
    BY <1>0, <2>1, <2>2
<1>5. JobsInv'
  <2> SUFFICES ASSUME NEW w \in Vols
               PROVE  /\ pc'[w] = "exec" => \A c \in (Jobs(w))' : status[c] = "Failed"
                      /\ pc'[w] = "wait" =>
                             \A c \in alive : dst[c] = w => c = mine[w] \/ <<"cleaned", w>> \in lost'
                      /\ pc'[w] = "clean" => \A c \in alive : dst[c] = w => <<"cleaned", w>> \in lost'
                      /\ pc'[w] = "delete" =>
                             \/ <<"unread", w>> \in lost' \/ <<"cleaned", w>> \in lost'
                             \/ \A c \in (Jobs(w))' : status[c] \notin {"InProgress", "Completed"}
    BY <1>0 DEF JobsInv, Lost
  <2>1. (Jobs(w))' \subseteq Jobs(w)
    BY <1>0, <1>1 DEF Jobs
  <2>2. CASE w = v
    BY <1>1, <2>2
  <2>3. CASE w # v
    BY <1>0, <1>1, <2>1, <2>3 DEF IInv, JobsInv, Lost
  <2> QED
    BY <2>2, <2>3
<1>6. FullInv'
  <2> SUFFICES ASSUME NEW w \in Vols, Intact(w), share'[w] # "full"
               PROVE  /\ \A d \in Copies : dst[d] = w /\ (d \in listed \/ d = mine[w]) => status[d] # "Completed"
                      /\ pc'[w] = "poll" => \E d \in Jobs(w) : status[d] = "InProgress"
                      /\ pc'[w] # "clean" /\ reply'[w] # "ok" /\ w \notin created
    BY <1>0 DEF FullInv, Intact, Jobs
  <2>1. CASE w = v
    <3>1. \A d \in Jobs(v) : status[d] # "Completed"
      BY <1>0, <2>1, IntactFacts DEF IInv, JobsInv
    <3> QED
      BY <1>1, <2>1, <3>1, CloneAssumption DEF Jobs
  <2>2. CASE w # v
    BY <1>1, <2>2 DEF IInv, FullInv
  <2> QED
    BY <2>1, <2>2
<1> QED
  BY <1>2, <1>3, <1>4, <1>5, <1>6 DEF IInv

\* A restart ends the processes and leaves the list as it is.
LEMMA CrashKeeps ==
    ASSUME IInv, Crash
    PROVE  IInv'
<1>0. /\ alive' = {} /\ lost \subseteq lost' /\ UNCHANGED <<share, dst, listed, status, broken, created>>
      /\ \A v \in Vols : pc'[v] = "idle" /\ mine'[v] = None /\ reply'[v] = "none"
  BY DEF Crash
<1>1. TypeOK'
  <2>1. lost' \subseteq Losses \cup Killed
    BY DEF Crash, IInv, TypeOK, Killed
  <2>2. faults' \in 0..MaxFaults
    BY FaultBound DEF Crash
  <2>3. pc' \in [Vols -> PCs]
    BY DEF Crash, PCs
  <2> QED
    BY <1>0, <2>1, <2>2, <2>3 DEF Crash, IInv, TypeOK
<1>2. LocalsInv' /\ AliveInv' /\ CopyKeepsItsShare' /\ JobsInv'
  BY <1>0 DEF LocalsInv, AliveInv, CopyKeepsItsShare, JobsInv
<1>3. EndedInv' /\ OneJobCounts'
  BY <1>0 DEF IInv, EndedInv, OneJobCounts, Lost
<1>4. FullInv'
  <2> SUFFICES ASSUME NEW v \in Vols, \A x \in Losses : x[2] = v => x \notin lost', share[v] # "full"
               PROVE  /\ \A d \in Copies : dst[d] = v /\ d \in listed => status[d] # "Completed"
                      /\ v \notin created
    BY <1>0, CloneAssumption DEF FullInv, Intact
  <2>1. Intact(v)
    BY <1>0 DEF Intact
  <2> QED
    BY <2>1 DEF IInv, FullInv
<1> QED
  BY <1>1, <1>2, <1>3, <1>4 DEF IInv

\* A step that changes nothing.
LEMMA StutterKeeps ==
    ASSUME IInv, UNCHANGED vars
    PROVE  IInv'
<1>1. TypeOK' /\ LocalsInv' /\ AliveInv' /\ EndedInv' /\ OneJobCounts' /\ CopyKeepsItsShare'
  BY DEF IInv, TypeOK, LocalsInv, AliveInv, EndedInv, OneJobCounts, CopyKeepsItsShare, Lost, vars, azcopy, rpc
<1>2. JobsInv' /\ FullInv'
  BY DEF IInv, JobsInv, FullInv, Intact, Jobs, Lost, vars, azcopy, rpc
<1> QED
  BY <1>1, <1>2 DEF IInv

\* Every step keeps the invariant.
LEMMA StepInv == IInv /\ [Next]_vars => IInv'
<1> SUFFICES ASSUME IInv, [Next]_vars PROVE IInv'
  OBVIOUS
<1>1. ASSUME NEW v \in Vols, CallCreate(v) \/ Step(v) \/ CopyTimesOut(v) \/ PollTimesOut(v) PROVE IInv'
  BY <1>1, CallCreateKeeps, CreateFileShareKeeps, GetAzcopyAuthKeeps, LookUpJobKeeps, ExecAzcopyCopyKeeps,
     CopyReturnsKeeps, PollKeeps, CleanJobsKeeps, CleanupShareOnFailureKeeps, DeleteFileShareKeeps,
     ReplyKeeps, TimesOutKeeps DEF Step
<1>2. ASSUME NEW c \in Copies, AzcopyEnds(c) PROVE IInv'
  BY <1>2, AzcopyEndsKeeps
<1> QED
  BY <1>1, <1>2, CrashKeeps, StutterKeeps DEF Next

\* What CreateVolume knows of the copy of its volume, at every step and after every
\* failure.
THEOREM Invariance == Spec => []IInv
<1>1. Init => IInv
  BY InitInv
<1>2. IInv /\ [Next]_vars => IInv'
  BY StepInv
<1> QED
  BY <1>1, <1>2, PTL DEF Spec

\* The variables of AzcopyClone have their types, and a call that waits has a copy of its volume.
THEOREM TypeCorrect == Spec => []TypeOK
<1>1. IInv => TypeOK
  BY DEF IInv
<1> QED
  BY <1>1, Invariance, PTL

\* CreateVolume answers for complete copies, but for the three recorded causes.
THEOREM CopiesAreComplete == Spec => []CompleteUnlessLost
<1>1. IInv => CompleteUnlessLost
  <2> SUFFICES ASSUME IInv, NEW v \in created, \A w \in Losses : w[2] = v => w \notin lost
               PROVE  share[v] = "full"
    BY DEF CompleteUnlessLost
  <2> QED
    BY DEF IInv, TypeOK, FullInv, Intact
<1> QED
  BY <1>1, Invariance, PTL

\* copyFileShareByAzcopy does not start a second copy beside the first.
THEOREM NoSecondCopy == Spec => []OneCopyPerShare
<1>1. IInv => OneCopyPerShare
  BY DEF IInv, OneCopyPerShare, AliveInv, OneJobCounts, Lost
<1> QED
  BY <1>1, Invariance, PTL

\* cleanupShareOnFailure does not delete a share under its copy.
THEOREM CopiesKeepTheirShare == Spec => []CopyKeepsItsShare
<1>1. IInv => CopyKeepsItsShare
  BY DEF IInv
<1> QED
  BY <1>1, Invariance, PTL
==============================================================================
