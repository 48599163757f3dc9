----------------------------- MODULE AzcopyClone ----------------------------
(***************************************************************************)
(* CreateVolume from a snapshot or a volume, from the moment its account   *)
(* is chosen (controllerserver.go): the share is created and filled by an  *)
(* azcopy process, which outlives the call that started it, and whose job  *)
(* later calls look up in the list azcopy keeps on disk.                   *)
(*                                                                         *)
(* One RPC per volume: volumeLocks turns the others away (Provisioning).   *)
(* The volume is not deleted meanwhile; its source is not changed. The     *)
(* code looks for the name of the share anywhere in the list of jobs: here *)
(* no name is part of another's, and no volume being created is a source.  *)
(***************************************************************************)
EXTENDS Naturals, FiniteSets

CONSTANTS
    Vols,         \* volumes being created, and their shares
    None,
    OwnShare,     \* the driver made up the share name: shouldCleanupShare
    MaxCopies,    \* bound: azcopy jobs that run or count
    MaxFaults     \* bound: requests to Azure, readings of the job list and copies that
                  \* fail, restarts of the controller plugin

Copies == 1..MaxCopies
Ends == {"Completed", "CompletedWithErrors", "Failed"}

ASSUME CloneAssumption ==
    /\ OwnShare \in BOOLEAN
    /\ MaxCopies \in Nat /\ MaxFaults \in Nat
    /\ None \notin Vols /\ None \notin Copies

VARIABLES
    share,        \* volume -> "none", "partial" (or empty) or "full"
    \* an azcopy job: its share, its process, its line in the list of jobs
    dst,          \* copy -> volume, or None before it starts
    alive,        \* copies whose process runs
    listed,       \* copies whose plan file is there
    status,       \* copy -> "InProgress" or how it ended
    broken,       \* copies whose share was deleted under them
    \* an RPC
    pc, identity, \* volumes whose copy is authorized without a SAS token
    mine,         \* volume -> the copy its RPC waits for
    reply,
    created,      \* volumes the CO knows to be created
    \* history and bounds: what has gone wrong with the copy of which volume
    lost,
    faults

azcopy == <<dst, alive, listed, status, broken>>
rpc    == <<pc, identity, mine, reply>>
vars   == <<share, azcopy, rpc, created, lost, faults>>

\* An azcopy process that ended without having copied everything; a job that was
\* in progress and removed from the list by the call of another volume; a list
\* that could not be read when the share was about to be deleted.
Losses == {"ended", "cleaned", "unread"} \X Vols

\* A copy that a restart has ended while the list goes on to show it.
Killed == {"killed"} \X Vols

PCs == {"idle", "createShare", "auth", "job", "exec", "wait", "poll", "clean", "cleanup",
        "delete", "return"}

TypeOK ==
    /\ share \in [Vols -> {"none", "partial", "full"}]
    /\ dst \in [Copies -> Vols \cup {None}]
    /\ alive \subseteq Copies /\ listed \subseteq Copies /\ broken \subseteq Copies
    /\ status \in [Copies -> Ends \cup {"InProgress"}]
    /\ \A c \in alive \cup listed : dst[c] # None
    /\ pc \in [Vols -> PCs]
    /\ identity \subseteq Vols
    /\ mine \in [Vols -> Copies \cup {None}]
    /\ \A v \in Vols : pc[v] = "wait" => mine[v] \in Copies /\ dst[mine[v]] = v
    /\ reply \in [Vols -> {"none", "ok", "err"}]
    /\ created \subseteq Vols
    /\ lost \subseteq Losses \cup Killed
    /\ faults \in 0..MaxFaults

Init ==
    /\ share = [v \in Vols |-> "none"]
    /\ dst = [c \in Copies |-> None]
    /\ alive = {} /\ listed = {} /\ broken = {}
    /\ status = [c \in Copies |-> "InProgress"]
    /\ pc = [v \in Vols |-> "idle"]
    /\ identity = {}
    /\ mine = [v \in Vols |-> None]
    /\ reply = [v \in Vols |-> "none"]
    /\ created = {}
    /\ lost = {}
    /\ faults = 0

Goto(v, from, to) == pc[v] = from /\ pc' = [pc EXCEPT ![v] = to]

Return(v, from, r) == Goto(v, from, "return") /\ reply' = [reply EXCEPT ![v] = r]

Fault == faults < MaxFaults /\ faults' = faults + 1

-----------------------------------------------------------------------------
(***************************************************************************)
(* azcopy                                                                  *)
(***************************************************************************)
Jobs(v) == {c \in listed : dst[c] = v}

\* Mutant: a job in progress is not known.
JobStateOver(v) ==
    LET over == {status[c] : c \in Jobs(v)} \cap {"Completed", "CompletedWithErrors"}
    IN IF over = {} THEN {"NotFound"} ELSE over

\* Mutant: a job that is over is not known.
JobStateRunning(v) ==
    IF \E c \in Jobs(v) : status[c] = "InProgress" THEN {"Running"} ELSE {"NotFound"}

\* parseAzcopyJobList: a completed job counts before one in progress, a failed
\* one does not count at all.
JobState(v) ==
    LET statuses == {status[c] : c \in Jobs(v)}
    IN IF \E s \in statuses : s \in {"Completed", "CompletedWithErrors"}
       THEN statuses \cap {"Completed", "CompletedWithErrors"}
       ELSE IF "InProgress" \in statuses THEN {"Running"} ELSE {"NotFound"}

\* A copy that runs to its end has copied everything when it says so, or the
\* source held nothing it could not copy; one whose share was deleted fails.
AzcopyEnds(c) ==
    /\ c \in alive
    /\ alive' = alive \ {c}
    /\ \E s \in Ends :
        /\ IF c \in broken THEN s = "Failed" /\ UNCHANGED faults
           ELSE (s = "Completed" /\ UNCHANGED faults) \/ (s # "Completed" /\ Fault)
        /\ status' = [status EXCEPT ![c] = s]
        /\ share' = IF s = "Completed" THEN [share EXCEPT ![dst[c]] = "full"] ELSE share
        /\ lost' = IF s = "Completed" THEN lost ELSE lost \cup {<<"ended", dst[c]>>}
    /\ UNCHANGED <<dst, listed, broken, rpc, created>>

-----------------------------------------------------------------------------
(***************************************************************************)
(* CreateVolume                                                            *)
(***************************************************************************)
CallCreate(v) ==
    /\ v \notin created
    /\ Goto(v, "idle", "createShare")
    /\ UNCHANGED <<share, azcopy, identity, mine, reply, created, lost, faults>>

\* With a content source a share that is there already is no error.
CreateFileShare(v) ==
    /\ \/ /\ Goto(v, "createShare", "auth")
          /\ share' = [share EXCEPT ![v] = IF @ = "none" THEN "partial" ELSE @]
          /\ UNCHANGED <<reply, faults>>
       \/ Fault /\ Return(v, "createShare", "err") /\ UNCHANGED share
    /\ UNCHANGED <<azcopy, identity, mine, created, lost>>

\* getAzcopyAuth, then the authorization for the source in restoreSnapshot
GetAzcopyAuth(v) ==
    /\ \/ /\ Goto(v, "auth", "job")
          /\ identity' \in {identity, identity \cup {v}}
          /\ UNCHANGED faults
       \/ Fault /\ Goto(v, "auth", "cleanup") /\ UNCHANGED identity
    /\ UNCHANGED <<share, azcopy, mine, reply, created, lost>>

\* The head of copyFileShareByAzcopy: what an earlier call has left
LookUpJob(v) ==
    /\ \/ /\ JobState(v) \cap {"Completed", "CompletedWithErrors"} # {}
          /\ Return(v, "job", "ok")
          /\ UNCHANGED faults
       \/ "Running" \in JobState(v) /\ Goto(v, "job", "poll") /\ UNCHANGED <<reply, faults>>
       \/ "NotFound" \in JobState(v) /\ Goto(v, "job", "exec") /\ UNCHANGED <<reply, faults>>
       \/ Fault /\ Goto(v, "job", "cleanup") /\ UNCHANGED reply
    /\ UNCHANGED <<share, azcopy, identity, mine, created, lost>>

\* A job that is over and no longer counts may give its number to a new one.
Free(c) ==
    /\ c \notin alive
    /\ c \notin listed \/ status[c] = "Failed"
    /\ \A v \in Vols : mine[v] # c

\* Mutant: the call does not remember the copy it waits for.
ExecAzcopyDetached(v) ==
    /\ \E c \in Copies :
        /\ Free(c)
        /\ dst' = [dst EXCEPT ![c] = v]
        /\ alive' = alive \cup {c}
        /\ listed' = listed \cup {c}
    /\ Goto(v, "exec", "wait")
    /\ UNCHANGED <<share, status, broken, mine, identity, reply, created, lost, faults>>

\* WaitUntilTimeout: azcopy copy is started in a goroutine of its own...
ExecAzcopyCopy(v) ==
    /\ \E c \in Copies :
        /\ Free(c) /\ \A b \in Copies : b < c => ~Free(b)
        /\ status' = [status EXCEPT ![c] = "InProgress"]
        /\ broken' = broken \ {c}
        /\ dst' = [dst EXCEPT ![c] = v]
        /\ alive' = alive \cup {c}
        /\ listed' = listed \cup {c}
        /\ mine' = [mine EXCEPT ![v] = c]
    /\ Goto(v, "exec", "wait")
    /\ UNCHANGED <<share, identity, reply, created, lost, faults>>

\* ... and has ended, with an error unless it copied everything. An error of
\* authorization is tried again with a SAS token.
CopyReturns(v) ==
    /\ pc[v] = "wait"
    /\ mine[v] \notin alive
    /\ mine' = [mine EXCEPT ![v] = None]
    /\ IF status[mine[v]] = "Completed"
       THEN Goto(v, "wait", "clean") /\ UNCHANGED identity
       ELSE \/ Goto(v, "wait", "cleanup") /\ UNCHANGED identity
            \/ v \in identity /\ Goto(v, "wait", "job") /\ identity' = identity \ {v}
    /\ UNCHANGED <<share, azcopy, reply, created, lost, faults>>

\* Mutant: the call that timed out has succeeded.
CopyTimesOutOk(v) ==
    /\ Return(v, "wait", "ok")
    /\ mine' = [mine EXCEPT ![v] = None]
    /\ UNCHANGED <<share, azcopy, identity, created, lost, faults>>

CopyTimesOut(v) ==
    /\ Goto(v, "wait", "cleanup")
    /\ mine' = [mine EXCEPT ![v] = None]
    /\ UNCHANGED <<share, azcopy, identity, reply, created, lost, faults>>

\* PollUntilContextTimeout: any state but Running ends it without an error.
Poll(v) ==
    /\ \/ "Running" \notin JobState(v) /\ Goto(v, "poll", "clean") /\ UNCHANGED faults
       \/ Fault /\ Goto(v, "poll", "cleanup")
    /\ UNCHANGED <<share, azcopy, identity, mine, reply, created, lost>>

PollTimesOut(v) ==
    /\ Goto(v, "poll", "cleanup")
    /\ UNCHANGED <<share, azcopy, identity, mine, reply, created, lost, faults>>

\* azcopy jobs clean removes the plan files of all jobs; it may fail.
CleanJobs(v) ==
    /\ Return(v, "clean", "ok")
    /\ listed' \in {{}, listed}
    /\ lost' = lost \cup {<<"cleaned", dst[c]>> :
                           c \in {b \in listed \ listed' : dst[b] # v /\ status[b] = "InProgress"}}
    /\ UNCHANGED <<share, dst, alive, status, broken, identity, mine, created, faults>>

\* cleanupShareOnFailure. Mutant: a running job does not keep the share.
CleanupAnyway(v) ==
    /\ Goto(v, "cleanup", "delete")
    /\ UNCHANGED <<share, azcopy, identity, mine, reply, created, lost, faults>>

CleanupShareOnFailure(v) ==
    /\ \/ /\ ~OwnShare \/ JobState(v) \cap {"Running", "Completed"} # {}
          /\ Return(v, "cleanup", "err")
          /\ UNCHANGED <<lost, faults>>
       \/ /\ OwnShare
          /\ \/ JobState(v) \ {"Running", "Completed"} # {} /\ UNCHANGED <<lost, faults>>
             \/ Fault /\ lost' = lost \cup {<<"unread", v>>}
          /\ Goto(v, "cleanup", "delete")
          /\ UNCHANGED reply
    /\ UNCHANGED <<share, azcopy, identity, mine, created>>

DeleteFileShare(v) ==
    /\ Return(v, "delete", "err")
    /\ \/ /\ share' = [share EXCEPT ![v] = "none"]
          /\ broken' = broken \cup {c \in alive : dst[c] = v}
          /\ UNCHANGED faults
       \/ Fault /\ UNCHANGED <<share, broken>>
    /\ UNCHANGED <<dst, alive, listed, status, identity, mine, created, lost>>

Reply(v) ==
    /\ Goto(v, "return", "idle")
    /\ created' = IF reply[v] = "ok" THEN created \cup {v} ELSE created
    /\ reply' = [reply EXCEPT ![v] = "none"]
    /\ identity' = identity \ {v}
    /\ UNCHANGED <<share, azcopy, mine, lost, faults>>

\* The container restarts. Its processes are gone; the list of jobs is on a
\* volume of the pod and says what it said.
Crash ==
    /\ Fault
    /\ alive' = {}
    /\ lost' = lost \cup {<<"killed", dst[c]>> : c \in alive}
    /\ pc' = [v \in Vols |-> "idle"]
    /\ identity' = {}
    /\ mine' = [v \in Vols |-> None]
    /\ reply' = [v \in Vols |-> "none"]
    /\ UNCHANGED <<share, dst, listed, status, broken, created>>

Step(v) ==
    \/ CreateFileShare(v) \/ GetAzcopyAuth(v) \/ LookUpJob(v) \/ ExecAzcopyCopy(v)
    \/ CopyReturns(v) \/ Poll(v) \/ CleanJobs(v) \/ CleanupShareOnFailure(v)
    \/ DeleteFileShare(v) \/ Reply(v)

Next ==
    \/ \E v \in Vols : CallCreate(v) \/ Step(v) \/ CopyTimesOut(v) \/ PollTimesOut(v)
    \/ \E c \in Copies : AzcopyEnds(c)
    \/ Crash

Spec == Init /\ [][Next]_vars

\* The driver takes its steps, a copy ends, and the CO calls again as long as
\* it has no answer.
FairSpec ==
    /\ Spec
    /\ \A v \in Vols : WF_vars(Step(v)) /\ WF_vars(CallCreate(v))
    /\ \A c \in Copies : WF_vars(AzcopyEnds(c))

-----------------------------------------------------------------------------
(***************************************************************************)
(* Properties                                                              *)
(***************************************************************************)

\* A volume whose CreateVolume succeeded holds all the data of its source: the
\* call that ran the copy, or one that found its job, waited for its end.
CreatedIsComplete == \A v \in created : share[v] = "full"

\* It does, unless azcopy ended without having copied everything, CleanJobs of
\* another volume removed the job in progress, or the share was deleted although
\* the list of jobs could not be read: nothing else, no timeout, failed request
\* or restart, makes CreateVolume answer for a share that is not complete.
CompleteUnlessLost ==
    \A v \in created : share[v] = "full" \/ \E w \in Losses : w[2] = v /\ w \in lost

\* Two azcopy processes never copy to one share: a call that comes back after a
\* timeout finds the job of the first one (copyFileShareByAzcopy), unless
\* CleanJobs of another volume removed it.
OneCopyPerShare ==
    \A c, d \in alive : dst[c] = dst[d] /\ <<"cleaned", dst[c]>> \notin lost => c = d

\* cleanupShareOnFailure never deletes a share an azcopy process copies to,
\* unless the job is not in the list or the list cannot be read.
CopyKeepsItsShare ==
    \A c \in alive \cap broken : {<<"cleaned", dst[c]>>, <<"unread", dst[c]>>} \cap lost # {}

\* Every call that gives up waiting leaves a copy the next call can pick up: with
\* a CO that calls again, a volume is created however often calls time out, unless
\* azcopy ends without having copied everything or is killed by a restart.
EventuallyCreated ==
    \A v \in Vols : <>(v \in created \/ {<<"ended", v>>, <<"killed", v>>} \cap lost # {})

-----------------------------------------------------------------------------
(***************************************************************************)
(* The inductive invariant behind the safety properties.                   *)
(***************************************************************************)
Lost(kind, v) == <<kind, v>> \in lost
Intact(v) == \A w \in Losses : w[2] = v => w \notin lost

LocalsInv ==
    \A v \in Vols :
        /\ pc[v] # "wait" => mine[v] = None
        /\ reply[v] = "ok" => pc[v] = "return"
        /\ v \in created => pc[v] = "idle"

\* A process is in the list as in progress, and what is over there says so.
AliveInv ==
    \A c \in alive : status[c] = "InProgress" /\ (c \in listed \/ Lost("cleaned", dst[c]))
EndedInv ==
    \A c \in listed : status[c] \in {"CompletedWithErrors", "Failed"} => Lost("ended", dst[c])

\* A share has one job that counts.
OneJobCounts ==
    \A c, d \in listed : dst[c] = dst[d] /\ status[c] # "Failed" /\ status[d] # "Failed" =>
        c = d \/ Lost("cleaned", dst[c])

\* What a step of the RPC knows of the jobs of its share.
JobsInv ==
    \A v \in Vols :
        /\ pc[v] = "exec" => \A c \in Jobs(v) : status[c] = "Failed"
        /\ pc[v] = "wait" => \A c \in alive : dst[c] = v => c = mine[v] \/ Lost("cleaned", v)
        /\ pc[v] = "clean" => \A c \in alive : dst[c] = v => Lost("cleaned", v)
        /\ pc[v] = "delete" =>
               \/ Lost("unread", v) \/ Lost("cleaned", v)
               \/ \A c \in Jobs(v) : status[c] \notin {"InProgress", "Completed"}

\* Where CreateVolume relies on a complete copy, there is one.
FullInv ==
    \A v \in Vols : Intact(v) /\ share[v] # "full" =>
        /\ \A c \in Copies : dst[c] = v /\ (c \in listed \/ c = mine[v]) => status[c] # "Completed"
        /\ pc[v] = "poll" => \E c \in Jobs(v) : status[c] = "InProgress"
        /\ pc[v] # "clean" /\ reply[v] # "ok" /\ v \notin created

IInv ==
    /\ TypeOK /\ LocalsInv /\ AliveInv /\ EndedInv /\ OneJobCounts /\ JobsInv /\ FullInv
    /\ CopyKeepsItsShare
=============================================================================
