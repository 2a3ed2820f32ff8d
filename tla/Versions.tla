------------------------------ MODULE Versions ------------------------------
(***************************************************************************)
(* The llama.cpp version library of internal/llamacpp: version rows with   *)
(* the is_active and previous_active flags, the directories under          *)
(* versions/, the two symlinks, the build lease, the install, delete and   *)
(* activate workers with their canary roll, the launcher that executes out *)
(* of versions/active, and what a boot makes of a daemon that died between *)
(* two steps.                                                              *)
(*                                                                         *)
(* One action is one transaction, or one step on the file system or of an  *)
(* instance. A version is a job subject, so it has at most one live job    *)
(* and job[v] is its latest one; how the queue leases and closes jobs is   *)
(* JobQueue's matter, and so is a write that fails twice in a row.         *)
(***************************************************************************)
EXTENDS Naturals, FiniteSets

CONSTANTS
    Versions,      \* the ids that may be installed
    Ready,         \* those installed before the behaviour begins
    Replacement,   \* the source build of a prebuilt that may not run here
    Instances,     \* the llama-server units
    NoVersion,     \* no flag holder, no link target, no directory executed
    NoInstance,    \* no instance in a roll's hands
    Keeps,         \* the values llamacpp.keep_previous takes
    Liberties,     \* what else may happen: see Overlaps and Heartbeat
    MaxBoots,      \* bound: daemon starts
    MaxFaults,     \* bound: failed writes, links and removals
    MaxClicks      \* bound: requests accepted

ASSUME VersionsAssumption ==
    /\ NoVersion \notin Versions /\ NoInstance \notin Instances
    /\ Ready \subseteq Versions
    /\ DOMAIN Replacement \subseteq Versions
    /\ \A v \in DOMAIN Replacement : Replacement[v] \in Versions \ {v}
    /\ Keeps \subseteq BOOLEAN
    /\ Liberties \subseteq {"overlap", "late_cancel"}

ASSUME VersionsBounds == MaxBoots \in Nat \ {0} /\ MaxFaults \in Nat /\ MaxClicks \in Nat

VARIABLES
    row,     \* llamacpp_versions.state; resolving to verifying are "building"
    flags,   \* the holders of is_active and previous_active (unique indexes)
    job,     \* the latest job of each version with its params (was: for the properties,
             \* the flags and links an activation found when it was asked for)
    lease,   \* the build_lease row: the install that holds it, and its boot
    tree,    \* versions/<id>: whole while its bin/llama-server runs, partial, gone
    hollow,  \* for the properties: the versions without a whole directory on which a
             \* delete began (its refusal makes the row ready without a look)
    link,    \* versions/active and versions/previous
    work,    \* the worker of each version's job: where it stands, what it holds
    asked,   \* requests between their checks and their transaction
    inst,    \* wanted state, process and executed directory of each unit
    phase,   \* the daemon: up, draining, down, or at a step of Reconcile
    boot,    \* the number of this boot
    faults, clicks

rowVars == <<row, flags, job, lease>>
diskVars == <<tree, link, hollow>>
envVars == <<phase, boot>>
vars == <<row, flags, job, lease, tree, link, hollow, work, asked, inst, phase, boot, faults, clicks>>

-----------------------------------------------------------------------------
Slots == {"active", "previous"}
Live(v) == job[v].state \in {"queued", "running", "interrupted"}
Activating(v) == job[v].kind = "activate" /\ Live(v)
Flagged(v) == \E s \in Slots : flags[s] = v
NoFlags == [s \in Slots |-> NoVersion]

\* D25's guard: some process executes out of the directory of v.
InUse(v) == \E i \in Instances : inst[i].proc = "serving" /\ inst[i].dir = v

NoJob == [kind |-> "none", state |-> "none", roll |-> FALSE, keep |-> FALSE,
          candidate |-> NoVersion, was |-> [flags |-> NoFlags, link |-> NoFlags], cancel |-> FALSE]

Idle == [pc |-> "idle", out |-> "none", seen |-> FALSE, before |-> NoFlags,
         old |-> "gone", todo |-> {}, at |-> NoInstance, canary |-> TRUE, back |-> FALSE]

At(v, pc) == work[v].pc = pc
Goto(v, pc) == work' = [work EXCEPT ![v].pc = pc]
Close(v, out) == work' = [work EXCEPT ![v].pc = "closing", ![v].out = out]
SetRow(v, state) == row' = [row EXCEPT ![v] = state]
Fault == faults < MaxFaults /\ faults' = faults + 1
Click == phase = "up" /\ clicks < MaxClicks /\ clicks' = clicks + 1
\* The context of a worker is cut by a cancel its heartbeat read, or by shutdown.
Cut(v) == work[v].seen \/ phase = "draining"

Init ==
    /\ row = [v \in Versions |-> IF v \in Ready THEN "ready" ELSE "absent"]
    /\ tree = [v \in Versions |-> IF v \in Ready THEN "whole" ELSE "gone"]
    /\ flags \in [Slots -> Ready \cup {NoVersion}]
    /\ flags["previous"] # NoVersion => flags["active"] \notin {NoVersion, flags["previous"]}
    /\ link = flags /\ hollow = {}
    /\ job = [v \in Versions |-> NoJob]
    /\ lease = [job |-> NoVersion, owner |-> 0, expired |-> FALSE]
    /\ work = [v \in Versions |-> Idle]
    /\ asked = {}
    /\ inst = [i \in Instances |-> [want |-> "running", proc |-> "down", dir |-> NoVersion]]
    /\ phase = "up" /\ boot = 1
    /\ faults = 0 /\ clicks = 0

-----------------------------------------------------------------------------
(* The build lease.                                                        *)

NoLease == [job |-> NoVersion, owner |-> 0, expired |-> FALSE]

\* ReleaseBuildLease names the job: another one's lease stays.
Released(v) == IF lease.job = v THEN NoLease ELSE lease

\* AcquireBuildLease: free, this boot's own, or past expires_at.
MayAcquire == lease.job = NoVersion \/ lease.owner = boot \/ lease.expired

\* Nobody touches the lease of a boot that is gone. (This boot's own may run out
\* too, between two progress writes, but its owner is admitted anyway.)
LeaseExpires ==
    /\ lease.job # NoVersion /\ lease.owner # boot /\ ~lease.expired
    /\ lease' = [lease EXCEPT !.expired = TRUE]
    /\ UNCHANGED <<row, flags, job, diskVars, work, asked, inst, envVars, faults, clicks>>

-----------------------------------------------------------------------------
(* Requests.                                                               *)

\* A delete that is being asked for, or that waits for a version to lose its flag.
Pending(v) == <<v, "delete">> \in asked \/ (Flagged(v) /\ Live(v) /\ job[v].kind = "delete")
\* Unless users take the liberty, nobody activates beside such a delete, nor asks for
\* a delete beside an activation.
Overlaps == "overlap" \in Liberties
Quiet == \A v \in Versions : ~Activating(v)

Enqueued(v, kind) ==
    [job EXCEPT ![v] = [NoJob EXCEPT !.kind = kind, !.state = "queued"]]

\* Activate and Rollback, which is the activation of the rollback target: ready,
\* no live activation, no live job of the version.
Activate(v) ==
    /\ Click
    /\ row[v] = "ready" /\ Quiet /\ ~Live(v)
    /\ Overlaps \/ \A u \in Versions : ~Pending(u)
    /\ \E keep \in Keeps, roll \in BOOLEAN :
         job' = [Enqueued(v, "activate") EXCEPT ![v].keep = keep, ![v].roll = roll,
                                    ![v].was = [flags |-> flags, link |-> link]]
    /\ UNCHANGED <<row, flags, lease, diskVars, work, asked, inst, envVars, faults>>

\* Delete and a forced rebuild look at the row and at /proc first ...
AskDelete(v) ==
    /\ Click
    /\ row[v] # "absent" /\ ~Flagged(v) /\ ~InUse(v)
    /\ Overlaps \/ Quiet
    /\ asked' = asked \cup {<<v, "delete">>}
    /\ UNCHANGED <<rowVars, diskVars, work, inst, envVars, faults>>

AskRebuild(v) ==
    /\ Click
    /\ row[v] = "ready" /\ ~InUse(v)
    /\ asked' = asked \cup {<<v, "rebuild">>}
    /\ UNCHANGED <<rowVars, diskVars, work, inst, envVars, faults>>

\* ... and enqueue in a later transaction, which refuses a version with a live job.
Refuse(v) ==
    /\ \E what \in {"delete", "rebuild"} :
         /\ <<v, what>> \in asked /\ Live(v)
         /\ asked' = asked \ {<<v, what>>}
    /\ UNCHANGED <<rowVars, diskVars, work, inst, envVars, faults, clicks>>

Delete(v) ==
    /\ <<v, "delete">> \in asked /\ ~Live(v)
    /\ asked' = asked \ {<<v, "delete">>}
    /\ job' = Enqueued(v, "delete")
    /\ UNCHANGED <<row, flags, lease, diskVars, work, inst, envVars, faults, clicks>>

\* installReset, the row back to pending.
Rebuild(v) ==
    /\ <<v, "rebuild">> \in asked /\ ~Live(v)
    /\ asked' = asked \ {<<v, "rebuild">>}
    /\ job' = Enqueued(v, "install") /\ SetRow(v, "pending")
    /\ UNCHANGED <<flags, lease, diskVars, work, inst, envVars, faults, clicks>>

\* installFresh, or installReset of a row that failed, was canceled or deleted.
Install(v) ==
    /\ Click
    /\ row[v] \in {"absent", "failed", "canceled", "deleted"} /\ ~Live(v)
    /\ job' = Enqueued(v, "install") /\ SetRow(v, "pending")
    /\ UNCHANGED <<flags, lease, diskVars, work, asked, inst, envVars, faults>>

\* Retry of the install that is the version's latest job.
Retry(v) ==
    /\ Click
    /\ job[v].kind = "install" /\ job[v].state \in {"failed", "canceled", "interrupted"}
    /\ job' = [job EXCEPT ![v].state = "queued", ![v].cancel = FALSE] /\ SetRow(v, "pending")
    /\ UNCHANGED <<flags, lease, diskVars, work, asked, inst, envVars, faults>>

-----------------------------------------------------------------------------
(* Jobs: start, cancel, close, as the queue does it for these three kinds.  *)

\* DeleteWorker.resolveAfterFailure: ready when the tree still runs, else failed.
Resolved(v) == IF tree[v] = "whole" THEN "ready" ELSE "failed"

\* The Starter of the kind, in the transaction that makes the job running.
Start(v, pc) ==
    /\ phase = "up" /\ job[v].state = "queued"
    /\ job' = [job EXCEPT ![v].state = "running"]
    /\ work' = [work EXCEPT ![v] = [Idle EXCEPT !.pc = pc]]
    /\ UNCHANGED <<flags, tree, link, asked, inst, envVars, faults, clicks>>

StartInstall(v) ==
    /\ job[v].kind = "install" /\ MayAcquire
    /\ Start(v, "building")
    /\ lease' = [job |-> v, owner |-> boot, expired |-> FALSE]
    /\ SetRow(v, "building") /\ UNCHANGED hollow

StartDelete(v) ==
    /\ job[v].kind = "delete"
    /\ Start(v, "reading")
    /\ SetRow(v, "deleting") /\ UNCHANGED lease
    /\ hollow' = IF tree[v] = "whole" THEN hollow ELSE hollow \cup {v}

StartActivate(v) ==
    /\ job[v].kind = "activate"
    /\ Start(v, "flipping")
    /\ UNCHANGED <<row, lease, hollow>>

\* ActivateWorker.CheckCancel refuses once the target is active.
MayCancel(v) == job[v].kind = "activate" => flags["active"] # v

\* A running job is asked, by way of its heartbeat; the queue closes any other.
CancelRunning(v) ==
    /\ Click
    /\ job[v].state = "running" /\ ~job[v].cancel /\ MayCancel(v)
    /\ job' = [job EXCEPT ![v].cancel = TRUE]
    /\ UNCHANGED <<row, flags, lease, diskVars, work, asked, inst, envVars, faults>>

CancelWaiting(v) ==
    /\ Click
    /\ job[v].state \in {"queued", "interrupted"} /\ MayCancel(v)
    /\ job' = [job EXCEPT ![v].state = "canceled"]
    /\ CASE job[v].kind = "install" -> SetRow(v, "canceled") /\ lease' = Released(v)
         [] job[v].kind = "delete" -> SetRow(v, Resolved(v)) /\ UNCHANGED lease
         [] OTHER -> UNCHANGED <<row, lease>>
    /\ UNCHANGED <<flags, diskVars, work, asked, inst, envVars, faults>>

\* (The liberty: one accepted before the flip is read between the flip and the links.)
Heartbeat(v) ==
    /\ ~At(v, "idle") /\ job[v].cancel /\ ~work[v].seen
    /\ At(v, "linking") => "late_cancel" \in Liberties
    /\ work' = [work EXCEPT ![v].seen = TRUE]
    /\ UNCHANGED <<rowVars, diskVars, asked, inst, envVars, faults, clicks>>

Closing(v, kind) == At(v, "closing") /\ job[v].kind = kind
Ended(v) == [job EXCEPT ![v].state = work[v].out]
Rest(v) ==
    /\ work' = [work EXCEPT ![v] = Idle]
    /\ UNCHANGED <<flags, diskVars, asked, inst, envVars, faults, clicks>>

CloseInstall(v) ==
    /\ Closing(v, "install") /\ work[v].out # "fallback"
    /\ job' = Ended(v) /\ lease' = Released(v)
    /\ SetRow(v, IF work[v].out = "succeeded" THEN "ready" ELSE work[v].out)
    /\ Rest(v)

\* fallbackToSource: the rejected prebuilt fails and its source build is enqueued,
\* the row of the latter fresh or reset.
CloseFallback(v) ==
    /\ Closing(v, "install") /\ work[v].out = "fallback"
    /\ ~Live(Replacement[v])
    /\ job' = [Enqueued(Replacement[v], "install") EXCEPT ![v].state = "failed"]
    /\ row' = [row EXCEPT ![v] = "failed", ![Replacement[v]] = "pending"]
    /\ lease' = Released(v)
    /\ Rest(v)

CloseDelete(v) ==
    /\ Closing(v, "delete")
    /\ job' = [job EXCEPT ![v].state = IF work[v].out \in {"succeeded", "canceled"}
                                       THEN work[v].out ELSE "failed"]
    /\ SetRow(v, CASE work[v].out = "succeeded" -> "deleted"
                   [] work[v].out = "refused" -> "ready"
                   [] OTHER -> Resolved(v))
    /\ UNCHANGED lease
    /\ Rest(v)

\* What an activation that succeeded owes: the delete of its candidate, unless the
\* candidate has a live job.
Owing(v) ==
    LET loser == job[v].candidate
    IN  IF loser = NoVersion \/ Live(loser) THEN job ELSE Enqueued(loser, "delete")

CloseActivate(v) ==
    /\ Closing(v, "activate")
    /\ job' = [(IF work[v].out = "succeeded" THEN Owing(v) ELSE job)
                 EXCEPT ![v].state = work[v].out]
    /\ UNCHANGED <<row, lease>>
    /\ Rest(v)

\* The closing transaction fails, for its own reasons or because the replacement of
\* a prebuilt has a live job, and recoverUnclosed applies the boot triage: a delete
\* failed, the others interrupted.
Triaged(v) == IF job[v].kind = "delete" THEN "failed" ELSE "interrupted"

CloseFails(v) ==
    /\ At(v, "closing")
    /\ IF work[v].out = "fallback" /\ Live(Replacement[v]) THEN UNCHANGED faults ELSE Fault
    /\ job' = [job EXCEPT ![v].state = Triaged(v)]
    /\ IF job[v].kind = "delete" THEN SetRow(v, Resolved(v)) ELSE UNCHANGED row
    /\ work' = [work EXCEPT ![v] = Idle]
    /\ UNCHANGED <<flags, lease, diskVars, asked, inst, envVars, clicks>>

\* Shutdown cut the context: the row stays running for the next boot.
LeaveRunning(v) ==
    /\ phase = "draining" /\ ~work[v].seen
    /\ work[v].pc \in {"linking", "reading"}
    /\ work' = [work EXCEPT ![v] = Idle]
    /\ UNCHANGED <<rowVars, diskVars, asked, inst, envVars, faults, clicks>>

-----------------------------------------------------------------------------
(* Install: build in staging, then publish.                                *)

\* The build or its verification fails, or the context was cut.
BuildFails(v) ==
    /\ At(v, "building")
    /\ Close(v, IF work[v].seen THEN "canceled" ELSE "failed")
    /\ UNCHANGED <<rowVars, diskVars, asked, inst, envVars, faults, clicks>>

\* D18: the prebuilt does not execute on this host.
WillNotRun(v) ==
    /\ At(v, "building") /\ v \in DOMAIN Replacement /\ ~work[v].seen
    /\ Close(v, "fallback")
    /\ UNCHANGED <<rowVars, diskVars, asked, inst, envVars, faults, clicks>>

\* One rename into a free name.
PublishFresh(v) ==
    /\ At(v, "building") /\ tree[v] = "gone"
    /\ tree' = [tree EXCEPT ![v] = "whole"] /\ hollow' = hollow \ {v}
    /\ Close(v, "succeeded")
    /\ UNCHANGED <<rowVars, link, asked, inst, envVars, faults, clicks>>

\* Or the guard, the old tree moved aside ...
Displace(v) ==
    /\ At(v, "building") /\ tree[v] # "gone" /\ ~InUse(v) /\ ~Cut(v)
    /\ work' = [work EXCEPT ![v].pc = "swapping", ![v].old = tree[v]]
    /\ tree' = [tree EXCEPT ![v] = "gone"]
    /\ UNCHANGED <<rowVars, link, hollow, asked, inst, envVars, faults, clicks>>

\* ... and the new one moved in,
Swap(v) ==
    /\ At(v, "swapping")
    /\ tree' = [tree EXCEPT ![v] = "whole"] /\ hollow' = hollow \ {v}
    /\ Close(v, "succeeded")
    /\ UNCHANGED <<rowVars, link, asked, inst, envVars, faults, clicks>>

\* or, when that fails, the old one back.
SwapFails(v) ==
    /\ At(v, "swapping") /\ Fault
    /\ tree' = [tree EXCEPT ![v] = work[v].old]
    /\ Close(v, "failed")
    /\ UNCHANGED <<rowVars, link, hollow, asked, inst, envVars, clicks>>

-----------------------------------------------------------------------------
(* Delete: the flags again, the guard again, then the removal.             *)

\* Mutant of ReadFlags: the request's own check is trusted.
ReadFlagsTrusting(v) ==
    /\ At(v, "reading") /\ ~Cut(v)
    /\ Goto(v, "checking")
    /\ UNCHANGED <<rowVars, diskVars, asked, inst, envVars, faults, clicks>>

ReadFlags(v) ==
    /\ At(v, "reading") /\ ~Cut(v)
    /\ IF Flagged(v) THEN Close(v, "refused") ELSE Goto(v, "checking")
    /\ UNCHANGED <<rowVars, diskVars, asked, inst, envVars, faults, clicks>>

ReadCut(v) ==
    /\ At(v, "reading") /\ work[v].seen
    /\ Close(v, "canceled")
    /\ UNCHANGED <<rowVars, diskVars, asked, inst, envVars, faults, clicks>>

\* Mutant of CheckUse: the look the request took at /proc is trusted.
CheckUseTrusting(v) ==
    /\ At(v, "checking")
    /\ Goto(v, "removing")
    /\ UNCHANGED <<rowVars, diskVars, asked, inst, envVars, faults, clicks>>

\* A guard that cannot look, a cut context included, refuses as well; of a missing
\* directory it says that nobody uses it.
CheckUse(v) ==
    /\ At(v, "checking")
    /\ IF tree[v] = "gone" \/ (~InUse(v) /\ ~Cut(v)) THEN Goto(v, "removing")
                                                      ELSE Close(v, "refused")
    /\ UNCHANGED <<rowVars, diskVars, asked, inst, envVars, faults, clicks>>

CheckFails(v) ==
    /\ At(v, "checking") /\ tree[v] # "gone" /\ Fault
    /\ Close(v, "refused")
    /\ UNCHANGED <<rowVars, diskVars, asked, inst, envVars, clicks>>

\* RemoveAll goes file by file; no context stops it.
RemoveSome(v) ==
    /\ At(v, "removing") /\ tree[v] = "whole"
    /\ tree' = [tree EXCEPT ![v] = "partial"]
    /\ UNCHANGED <<rowVars, link, hollow, work, asked, inst, envVars, faults, clicks>>

Remove(v) ==
    /\ At(v, "removing")
    /\ tree' = [tree EXCEPT ![v] = "gone"]
    /\ Close(v, "succeeded")
    /\ UNCHANGED <<rowVars, link, hollow, asked, inst, envVars, faults, clicks>>

RemovalFails(v) ==
    /\ At(v, "removing") /\ Fault
    /\ Close(v, "incomplete")
    /\ UNCHANGED <<rowVars, diskVars, asked, inst, envVars, clicks>>

-----------------------------------------------------------------------------
(* Activate: flip the rows, repair the links, roll the fleet.              *)

Outgoing(v) == IF flags["active"] = v THEN NoVersion ELSE flags["active"]

\* ActivateLlamacppVersion: who goes once the activation has succeeded.
Candidate(v) ==
    IF ~job[v].keep THEN Outgoing(v)
    ELSE IF flags["previous"] \in {v, Outgoing(v)} THEN NoVersion ELSE flags["previous"]

\* Mutant of Flip: the candidate stays in the worker's memory.
FlipUnrecorded(v) ==
    /\ At(v, "flipping") /\ ~Cut(v) /\ row[v] = "ready"
    /\ flags' = [active |-> v,
                 previous |-> IF job[v].keep THEN Outgoing(v) ELSE NoVersion]
    /\ work' = [work EXCEPT ![v].pc = "linking", ![v].before = flags]
    /\ UNCHANGED <<row, job, lease, diskVars, asked, inst, envVars, faults, clicks>>

\* The flags move and the candidate is written into the job's params, in one
\* transaction.
Flip(v) ==
    /\ At(v, "flipping") /\ ~Cut(v) /\ row[v] = "ready"
    /\ flags' = [active |-> v,
                 previous |-> IF job[v].keep THEN Outgoing(v) ELSE NoVersion]
    /\ job' = [job EXCEPT ![v].candidate = Candidate(v)]
    /\ work' = [work EXCEPT ![v].pc = "linking", ![v].before = flags]
    /\ UNCHANGED <<row, lease, diskVars, asked, inst, envVars, faults, clicks>>

\* activationFailed: nothing was committed.
FlipFails(v) ==
    /\ At(v, "flipping")
    /\ IF Cut(v) \/ row[v] # "ready" THEN UNCHANGED faults ELSE Fault
    /\ Close(v, "failed")
    /\ UNCHANGED <<rowVars, diskVars, asked, inst, envVars, clicks>>

\* Mutant of Repair: versions/previous is left as it is.
RepairActive == link' = [link EXCEPT !["active"] = flags["active"]]

\* RepairLinks points active, then previous, at what the rows say.
Repair == link' = flags
RepairFails == Fault /\ link' \in {link, [link EXCEPT !["active"] = flags["active"]]}

Link(v) ==
    /\ At(v, "linking") /\ ~Cut(v)
    /\ Repair
    /\ IF job[v].roll THEN Goto(v, "choosing") ELSE Close(v, "succeeded")
    /\ UNCHANGED <<rowVars, tree, hollow, asked, inst, envVars, faults, clicks>>

\* Run returns the error, of a link or of a cut context, and the job ends with the
\* rows flipped; finish takes the error of an accepted cancel for a completed one.
LinkFails(v) ==
    /\ At(v, "linking")
    /\ IF work[v].seen THEN UNCHANGED <<link, faults>> ELSE RepairFails
    /\ Close(v, IF work[v].seen THEN "canceled" ELSE "failed")
    /\ UNCHANGED <<rowVars, tree, hollow, asked, inst, envVars, clicks>>

\* Targets: every instance that has a process.
ChooseTargets(v) ==
    /\ At(v, "choosing") /\ ~Cut(v)
    /\ LET up == {i \in Instances : inst[i].proc # "down"}
       IN  IF up = {} THEN Close(v, "succeeded")
                      ELSE work' = [work EXCEPT ![v].pc = "stopping", ![v].todo = up]
    /\ UNCHANGED <<rowVars, diskVars, asked, inst, envVars, faults, clicks>>

ChooseFails(v) ==
    /\ At(v, "choosing")
    /\ IF Cut(v) THEN UNCHANGED faults ELSE Fault
    /\ Goto(v, "reverting")
    /\ UNCHANGED <<rowVars, diskVars, asked, inst, envVars, clicks>>

\* Restart: want it stopped, see it stopped, want it running, see it serving. The
\* restart of the canary after a revert ignores a cut context.
Want(v, state) == inst' = [inst EXCEPT ![work[v].at].want = state]

RollStop(v) ==
    /\ At(v, "stopping") /\ (work[v].back \/ ~Cut(v))
    /\ \E i \in work[v].todo :
         /\ work' = [work EXCEPT ![v].pc = "settling", ![v].at = i]
         /\ inst' = [inst EXCEPT ![i].want = "stopped"]
    /\ UNCHANGED <<rowVars, diskVars, asked, envVars, faults, clicks>>

RollStart(v) ==
    /\ At(v, "settling") /\ (work[v].back \/ ~Cut(v))
    /\ inst[work[v].at].proc = "down"
    /\ Want(v, "running")
    /\ Goto(v, "awaiting")
    /\ UNCHANGED <<rowVars, diskVars, asked, envVars, faults, clicks>>

\* The last instance, or the canary back on its old build, ends the roll.
RollHealthy(v) ==
    /\ At(v, "awaiting") /\ (work[v].back \/ ~Cut(v))
    /\ inst[work[v].at].proc = "serving"
    /\ LET left == work[v].todo \ {work[v].at}
       IN  IF work[v].back THEN Close(v, "failed")
           ELSE IF left = {} THEN Close(v, "succeeded")
           ELSE work' = [work EXCEPT ![v].pc = "stopping", ![v].todo = left,
                                     ![v].canary = FALSE]
    /\ UNCHANGED <<rowVars, diskVars, asked, inst, envVars, faults, clicks>>

\* A timeout, a failed start or a cut context. The canary's failure reverts, a later
\* one stops the roll, and one after a revert is only logged.
RollFails(v) ==
    /\ \/ work[v].pc \in {"settling", "awaiting"} /\ UNCHANGED faults
       \/ At(v, "stopping") /\ Cut(v) /\ ~work[v].back /\ UNCHANGED faults
       \/ At(v, "stopping") /\ Fault
    /\ IF work[v].back THEN Close(v, "failed")
       ELSE IF ~work[v].canary THEN Close(v, "succeeded")
       ELSE work' = [work EXCEPT ![v].pc = "reverting",
                                 ![v].todo = IF At(v, "stopping") THEN @ ELSE {work[v].at}]
    /\ UNCHANGED <<rowVars, diskVars, asked, inst, envVars, clicks>>

\* RestoreLlamacppFlags: every flag the flip touched, whatever became of its row.
Revert(v) ==
    /\ At(v, "reverting")
    /\ flags' = work[v].before
    /\ Goto(v, "relinking")
    /\ UNCHANGED <<row, job, lease, diskVars, asked, inst, envVars, faults, clicks>>

RevertFails(v) ==
    /\ At(v, "reverting") /\ Fault
    /\ Close(v, "failed")
    /\ UNCHANGED <<rowVars, diskVars, asked, inst, envVars, clicks>>

\* A failed repair is logged here. Then the canary, if there was one.
Restored(v) ==
    IF work[v].todo = {} THEN Close(v, "failed")
    ELSE work' = [work EXCEPT ![v].pc = "stopping", ![v].back = TRUE]

Relink(v) ==
    /\ At(v, "relinking")
    /\ \/ Repair /\ UNCHANGED faults
       \/ RepairFails
    /\ Restored(v)
    /\ UNCHANGED <<rowVars, tree, hollow, asked, inst, envVars, clicks>>

-----------------------------------------------------------------------------
(* Instances: the unit does what is wanted, or crashes; the launcher reads *)
(* the active row, then executes what versions/active names.               *)

Launch(i) ==
    /\ inst[i].want = "running" /\ inst[i].proc = "down"
    /\ flags["active"] # NoVersion /\ row[flags["active"]] = "ready"
    /\ inst' = [inst EXCEPT ![i].proc = "launching"]
    /\ UNCHANGED <<rowVars, diskVars, work, asked, envVars, faults, clicks>>

Execute(i) ==
    /\ inst[i].proc = "launching"
    /\ LET dir == link["active"]
       IN  inst' = [inst EXCEPT
             ![i] = IF dir # NoVersion /\ tree[dir] = "whole"
                    THEN [@ EXCEPT !.proc = "serving", !.dir = dir]
                    ELSE [@ EXCEPT !.proc = "down"]]
    /\ UNCHANGED <<rowVars, diskVars, work, asked, envVars, faults, clicks>>

\* Stopped by the supervisor, or on its own.
Down(i) ==
    /\ inst[i].proc # "down"
    /\ inst' = [inst EXCEPT ![i].proc = "down", ![i].dir = NoVersion]
    /\ UNCHANGED <<rowVars, diskVars, work, asked, envVars, faults, clicks>>

-----------------------------------------------------------------------------
(* The daemon.                                                             *)

Shutdown ==
    /\ phase = "up" /\ boot < MaxBoots
    /\ phase' = "draining"
    /\ UNCHANGED <<rowVars, diskVars, work, asked, inst, boot, faults, clicks>>

\* A crash, or the end of a shutdown.
Exit ==
    /\ phase # "down" /\ boot < MaxBoots
    /\ phase' = "down"
    /\ work' = [v \in Versions |-> Idle] /\ asked' = {}
    /\ UNCHANGED <<rowVars, diskVars, inst, boot, faults, clicks>>

\* RecoverOrphans, with the domain rows of the jobs it triages.
Boot ==
    /\ phase = "down"
    /\ phase' = "releasing" /\ boot' = boot + 1
    /\ LET orphan(v) == job[v].state = "running"
       IN  /\ job' = [v \in Versions |->
                        IF orphan(v) THEN [job[v] EXCEPT !.state = Triaged(v)] ELSE job[v]]
           /\ row' = [v \in Versions |->
                        IF orphan(v) /\ job[v].kind = "delete" THEN Resolved(v) ELSE row[v]]
    /\ UNCHANGED <<flags, lease, diskVars, work, asked, inst, faults, clicks>>

\* Reconcile: the lease of a dead boot, the links, the interrupted activations.
ReleaseForeignLease ==
    /\ phase = "releasing" /\ phase' = "repairing"
    /\ lease' = IF lease.owner # boot THEN NoLease ELSE lease
    /\ UNCHANGED <<row, flags, job, diskVars, work, asked, inst, boot, faults, clicks>>

RepairAtBoot ==
    /\ phase = "repairing" /\ phase' = "settling"
    /\ Repair
    /\ UNCHANGED <<rowVars, tree, hollow, work, asked, inst, boot, faults, clicks>>

Unsettled(v) == job[v].kind = "activate" /\ job[v].state = "interrupted"

\* Mutant of SettleActivation: a boot fails whatever it finds interrupted.
SettleActivationBlindly(v) ==
    /\ phase = "settling" /\ Unsettled(v)
    /\ job' = [job EXCEPT ![v].state = "failed"]
    /\ UNCHANGED <<row, flags, lease, diskVars, work, asked, inst, envVars, faults, clicks>>

\* closeInterruptedActivation: the row decides.
SettleActivation(v) ==
    /\ phase = "settling" /\ Unsettled(v)
    /\ job' = IF flags["active"] = v THEN [Owing(v) EXCEPT ![v].state = "succeeded"]
                                     ELSE [job EXCEPT ![v].state = "failed"]
    /\ UNCHANGED <<row, flags, lease, diskVars, work, asked, inst, envVars, faults, clicks>>

\* An error anywhere ends Reconcile; serve logs it and goes on.
ReconcileFails ==
    /\ \/ phase = "repairing" /\ RepairFails
       \/ phase = "releasing" /\ Fault /\ UNCHANGED link
       \/ phase = "settling" /\ (\E v \in Versions : Unsettled(v)) /\ Fault /\ UNCHANGED link
    /\ phase' = "up"
    /\ UNCHANGED <<rowVars, tree, hollow, work, asked, inst, boot, clicks>>

Open ==
    /\ phase = "settling" /\ \A v \in Versions : ~Unsettled(v)
    /\ phase' = "up"
    /\ UNCHANGED <<rowVars, diskVars, work, asked, inst, boot, faults, clicks>>

Request(v) ==
    \/ Activate(v) \/ AskDelete(v) \/ AskRebuild(v) \/ Refuse(v) \/ Delete(v) \/ Rebuild(v)
    \/ Install(v) \/ Retry(v) \/ CancelRunning(v) \/ CancelWaiting(v)

WorkerStep(v) ==
    \/ StartInstall(v) \/ StartDelete(v) \/ StartActivate(v) \/ Heartbeat(v)
    \/ CloseInstall(v) \/ CloseFallback(v) \/ CloseDelete(v) \/ CloseActivate(v)
    \/ CloseFails(v) \/ LeaveRunning(v)
    \/ BuildFails(v) \/ WillNotRun(v) \/ PublishFresh(v) \/ Displace(v)
    \/ Swap(v) \/ SwapFails(v)
    \/ ReadFlags(v) \/ ReadCut(v) \/ CheckUse(v) \/ CheckFails(v)
    \/ RemoveSome(v) \/ Remove(v) \/ RemovalFails(v)
    \/ Flip(v) \/ FlipFails(v) \/ Link(v) \/ LinkFails(v)
    \/ ChooseTargets(v) \/ ChooseFails(v)
    \/ RollStop(v) \/ RollStart(v) \/ RollHealthy(v) \/ RollFails(v)
    \/ Revert(v) \/ RevertFails(v) \/ Relink(v)

Next ==
    \/ \E v \in Versions : Request(v) \/ WorkerStep(v) \/ SettleActivation(v)
    \/ \E i \in Instances : Launch(i) \/ Execute(i) \/ Down(i)
    \/ LeaseExpires \/ Shutdown \/ Exit \/ Boot
    \/ ReleaseForeignLease \/ RepairAtBoot \/ ReconcileFails \/ Open

Spec == Init /\ [][Next]_vars

-----------------------------------------------------------------------------
(* What the version library promises.                                      *)

Flags == [Slots -> Versions \cup {NoVersion}]
JobRows == [kind : {"none", "install", "delete", "activate"},
            state : {"none", "queued", "running", "interrupted", "succeeded", "failed", "canceled"},
            roll : BOOLEAN, keep : BOOLEAN, candidate : Versions \cup {NoVersion},
            was : [flags : Flags, link : Flags], cancel : BOOLEAN]
Workers == [pc : {"idle", "closing", "building", "swapping", "reading", "checking", "removing",
                  "flipping", "linking", "choosing", "stopping", "settling", "awaiting",
                  "reverting", "relinking"},
            out : {"none", "succeeded", "failed", "canceled", "fallback", "refused", "incomplete"},
            seen : BOOLEAN, before : Flags, old : {"gone", "partial", "whole"},
            todo : SUBSET Instances, at : Instances \cup {NoInstance},
            canary : BOOLEAN, back : BOOLEAN]

\* The types of the variables; a worker acts for a running job, and only a serving
\* process executes out of a directory.
TypeOK ==
    /\ row \in [Versions -> {"absent", "pending", "building", "ready", "failed", "canceled",
                             "deleting", "deleted"}]
    /\ flags \in Flags /\ link \in Flags
    /\ job \in [Versions -> JobRows]
    /\ lease \in [job : Versions \cup {NoVersion}, owner : Nat, expired : BOOLEAN]
    /\ tree \in [Versions -> {"gone", "partial", "whole"}] /\ hollow \subseteq Versions
    /\ work \in [Versions -> Workers]
    /\ \A v \in Versions : ~At(v, "idle") => job[v].state = "running"
    /\ asked \subseteq Versions \X {"delete", "rebuild"}
    /\ inst \in [Instances -> [want : {"running", "stopped"},
                               proc : {"down", "launching", "serving"},
                               dir : Versions \cup {NoVersion}]]
    /\ \A i \in Instances : inst[i].dir # NoVersion <=> inst[i].proc = "serving"
    /\ phase \in {"up", "draining", "down", "releasing", "repairing", "settling"}
    /\ boot \in Nat /\ faults \in Nat /\ clicks \in Nat

\* The job and the row it is about tell one story (DESIGN 2.3a), whoever wrote last:
\* the request, the worker, a cancel, the replacement of a prebuilt, or a boot.
RowFollowsJob ==
    \A v \in Versions :
      LET state == job[v].state
      IN  CASE job[v].kind = "install" ->
                 row[v] = (CASE state = "queued" -> "pending"
                             [] state \in {"running", "interrupted"} -> "building"
                             [] state = "succeeded" -> "ready"
                             [] OTHER -> state)
            [] job[v].kind = "delete" ->
                 (CASE state = "running" -> row[v] = "deleting"
                    [] state = "succeeded" -> row[v] = "deleted"
                    [] OTHER -> row[v] \notin {"pending", "building", "deleting"})
            [] job[v].kind = "activate" -> row[v] = "ready"
            [] OTHER -> row[v] \in {"absent", "ready"}

\* A ready version, and one that holds a flag and is not being rebuilt, has its
\* directory: what an instance starts from, and what a rollback or a revert goes
\* back to, is never a build that was removed. The delete of a build that was already
\* incomplete is excepted, and what users do by hand beside an activation: findings.
TreeBehindRow ==
    \A v \in Versions \ hollow :
      \/ tree[v] = "whole"
      \/ row[v] # "ready" /\ ~Flagged(v)
      \/ row[v] \in {"pending", "building", "failed", "canceled"}

\* versions/active and versions/previous point at the flagged rows ("the row wins")
\* whenever the daemon serves and no activation is live, whichever of them a crash,
\* a shutdown or a reverted roll interrupted, as long as no write or link failed.
LinksFollowRows == phase = "up" /\ faults = 0 /\ Quiet => link = flags

\* No directory is taken from under a process: not by a delete whose guard looked
\* before, and not by the swap of a rebuild.
SparesProcesses ==
    [][\A v \in Versions : faults = 0 /\ InUse(v) => tree'[v] = tree[v]]_vars

EndsAs(v, state) == Activating(v) /\ job'[v].kind = "activate" /\ job'[v].state = state

\* The verdict of an activation tells the truth about the build (DESIGN 2.3a): after
\* a success the target is active and linked; after a failure rows and links are as
\* they were when it was asked for, or the links have caught up with the rows. That
\* holds across a crash at any step, whoever closes the job.
VerdictTellsBuild ==
    [][\A v \in Versions : faults = 0 =>
         /\ EndsAs(v, "succeeded") => flags'["active"] = v /\ link' = flags'
         /\ EndsAs(v, "failed") => /\ flags' = job[v].was.flags
                                   /\ link' \in {job[v].was.link, flags'}]_vars

\* The build that loses its slot to an activation that succeeds, the outgoing one or
\* the rollback target before it, has a job from that step on: its delete, or one that
\* was there already. No crash in between forgets it. (An activation that keeps nothing
\* does forget the rollback target it clears: no code ever queues that one.)
LostSlotIsRetired ==
    [][\A v \in Versions : EndsAs(v, "succeeded") =>
         LET loser == job[v].was.flags[IF job[v].keep THEN "previous" ELSE "active"]
         IN  loser # NoVersion => \/ \E s \in Slots : flags'[s] = loser
                                  \/ job'[loser].state \in {"queued", "running", "interrupted"}]_vars

\* The build lease is never held by an install that is over.
LeaseHeldByLiveBuild ==
    lease.job # NoVersion => job[lease.job].kind = "install" /\ Live(lease.job)

-----------------------------------------------------------------------------
(* What the documents say besides, and the code does not do.               *)

\* "exactly one running build" (DESIGN, build lease, D70): one install runs at a time.
BuildAlone ==
    LET building == {v \in Versions : job[v].kind = "install" /\ job[v].state = "running"}
    IN  Cardinality(building) <= 1

\* "cannot revert a version directory that a delete worker has already removed"
\* (DESIGN 6.6): a revert gives the flags back to versions that are still there.
RevertFindsBuilds ==
    [][\A v \in Versions : Revert(v) =>
         \A s \in Slots : work[v].before[s] # NoVersion => row[work[v].before[s]] # "deleted"]_vars

\* "a cancel is only accepted before the step-3 transaction commits" (DESIGN 2.3a): an
\* activation that ends canceled leaves the flags as it found them.
CanceledKeepsFlags ==
    [][\A v \in Versions : EndsAs(v, "canceled") => flags' = job[v].was.flags]_vars

=============================================================================
