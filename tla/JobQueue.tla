------------------------------ MODULE JobQueue ------------------------------
(***************************************************************************)
(* The persistent job queue of internal/jobs over the jobs table of        *)
(* internal/store: rows that outlive the daemon, runners (goroutines) that *)
(* claim and run them under a lease named after the boot, heartbeats that  *)
(* carry a cancel to the worker, users who cancel, retry, pause and        *)
(* resume, and boots that triage what a dead daemon left behind.           *)
(*                                                                         *)
(* One action is one write transaction of store.Write, or one step of a    *)
(* runner between two of them. Time is reduced to "run_after has passed"   *)
(* (due) and to the order of the run_after values (older).                 *)
(***************************************************************************)
EXTENDS Naturals, FiniteSets

CONSTANTS
    Jobs,        \* the rows that may ever be inserted
    Runners,     \* the concurrency slots of Queue.Run
    KindOf,      \* the kind of each job
    SubjectOf,   \* the (subject_type, subject_id) of each job
    Priority,    \* jobs.priority, lower runs first
    Budget,      \* jobs.max_attempts at insertion
    MayPause,    \* the downloads somebody may pause and resume
    NoJob,       \* the job of an idle runner
    MaxBoots,    \* bound: daemon starts
    MaxFaults,   \* bound: write transactions that fail
    MaxClicks    \* bound: cancels, retries, pauses and resumes

Kinds == {"model_download", "cache_scan", "toolchain_probe",
          "llamacpp_install", "llamacpp_activate", "bench_run", "self_update",
          "llamacpp_delete", "model_verify", "model_delete", "maintenance"}

ASSUME JobsAssumption ==
    /\ IsFiniteSet(Jobs)
    /\ NoJob \notin Jobs
    /\ KindOf \in [Jobs -> Kinds]
    /\ Priority \in [Jobs -> Nat]
    /\ Budget \in [Jobs -> Nat \ {0}]
    /\ MayPause \subseteq {j \in Jobs : KindOf[j] = "model_download"}

ASSUME SubjectAssumption == DOMAIN SubjectOf = Jobs

ASSUME BoundsAssumption ==
    MaxBoots \in Nat \ {0} /\ MaxFaults \in Nat /\ MaxClicks \in Nat

VARIABLES
    job,       \* the jobs table: one row per id, "absent" before its INSERT
    domain,    \* the state the last transaction handed to the kind's own row
    due,       \* the ids whose run_after is not in the future
    older,     \* pairs of due ids, the first with the earlier run_after
    runner,    \* per slot: where it stands and the Task it holds
    phase,     \* the daemon: down, booting, up, draining
    boot,      \* the number of this boot, the lease owner
    stranded,  \* ids this boot gave up on: the closing AND the recovery write failed
    faults,    \* failed writes so far
    clicks     \* user requests so far

rowVars  == <<job, domain>>
timeVars == <<due, older>>
envVars  == <<phase, boot>>
vars == <<job, domain, due, older, runner, phase, boot, stranded, faults, clicks>>

-----------------------------------------------------------------------------
(* The states of a row.                                                    *)

Terminal == {"succeeded", "failed", "canceled"}
Live     == {"queued", "leased", "running", "paused", "interrupted"}
Held     == {"leased", "running"}
NoBoot   == 0

\* Mutant of JobBootTriage: a kind missing from the switch, which then answers "".
TriageMissingKind(kind) ==
    IF kind \in {"cache_scan", "toolchain_probe"} THEN "queued"
    ELSE IF kind = "model_download" THEN ""
    ELSE IF kind \in {"llamacpp_install", "llamacpp_activate", "bench_run", "self_update"}
         THEN "interrupted" ELSE "failed"

\* What boot triage, and recovery of a failed close, makes of a held row.
JobBootTriage(kind) ==
    IF kind \in {"model_download", "cache_scan", "toolchain_probe"} THEN "queued"
    ELSE IF kind \in {"llamacpp_install", "llamacpp_activate", "bench_run", "self_update"}
         THEN "interrupted"
         ELSE "failed"

\* The kinds whose Starter waits for a singleton lease (build_lease, bench_lease).
Deferrable(j) == KindOf[j] \in {"llamacpp_install", "bench_run"}
\* The kinds a finalizer closes at boot, and what it may close them as.
Verdicts(j) ==
    CASE KindOf[j] = "bench_run" -> {"failed"}
      [] KindOf[j] \in {"llamacpp_activate", "self_update"} -> {"succeeded", "failed"}
      [] OTHER -> {}

LiveRow(j) == job[j].state \in Live
HeldHere(j) == job[j].state \in Held /\ job[j].owner = boot
SubjectBusy(j) == \E k \in Jobs \ {j} : SubjectOf[k] = SubjectOf[j] /\ LiveRow(k)

\* What the queue hands to a kind's DomainWriter or Commit with a job state: open
\* until the job ends, except that a pause is visible in both tables. What the
\* kind's own row makes of it is the kind's (Download).
DomainOf(state) ==
    IF state \in Terminal \cup {"paused", "absent"} THEN state ELSE "open"

-----------------------------------------------------------------------------
(* The UPDATE statements, as functions of the row.                         *)

LeaseNextJob(row) == [row EXCEPT !.state = "leased", !.owner = boot, !.attempts = @ + 1]
StartJob(row)     == [row EXCEPT !.state = "running"]
RequeueJob(row)   == [row EXCEPT !.state = "queued", !.owner = NoBoot]
DeferJob(row)     == [row EXCEPT !.state = "queued", !.owner = NoBoot,
                                 !.attempts = IF @ > 0 THEN @ - 1 ELSE 0]
FinishJob(row, state)   == [row EXCEPT !.state = state, !.owner = NoBoot]
SetJobState(row, state) == [row EXCEPT !.state = state, !.owner = NoBoot]
RetryJob(row) == [row EXCEPT !.state = "queued", !.owner = NoBoot, !.cancel = FALSE,
                             !.max = IF @ > row.attempts THEN @ ELSE row.attempts + 1]
RequestJobCancel(row) == [row EXCEPT !.cancel = TRUE]

\* Mutant of TriageOrphanedJob: every orphan is run again from the top.
TriageRerunsAll(row, state) == DeferJob(row)

TriageOrphanedJob(row, state) ==
    IF state = "queued" THEN DeferJob(row) ELSE SetJobState(row, state)

\* run_after := now puts the row behind every row already due; a run_after in
\* the future takes it out of the order until the instant passes.
Without(j) == {p \in older : p[1] # j /\ p[2] # j}
RunAt(now) ==
    /\ due' = due \cup now
    /\ older' = {p \in older : p[1] \notin now /\ p[2] \notin now}
                  \cup ((due \ now) \X now)
RunNow(j)   == RunAt({j})
RunLater(j) == due' = due \ {j} /\ older' = Without(j)

SetRow(j, row)         == job' = [job EXCEPT ![j] = row]
CommitDomain(j, state) == domain' = [domain EXCEPT ![j] = DomainOf(state)]

-----------------------------------------------------------------------------
(* Runners.                                                                *)

Idle == [pc |-> "idle", job |-> NoJob, attempts |-> 0, max |-> 0,
         out |-> "none", seen |-> FALSE, lost |-> FALSE]

At(r, pc) == runner[r].pc = pc
JobOf(r)  == runner[r].job
RowOf(r)  == job[JobOf(r)]
Release(r) == runner' = [runner EXCEPT ![r] = Idle]
Goto(r, pc) == runner' = [runner EXCEPT ![r].pc = pc]
\* The runner goes on to finish with the given Outcome.
ToFinish(r, out) == runner' = [runner EXCEPT ![r].pc = "closing", ![r].out = out]
Fault == faults < MaxFaults /\ faults' = faults + 1

Init ==
    /\ job = [j \in Jobs |-> [state |-> "absent", attempts |-> 0, max |-> Budget[j],
                              owner |-> NoBoot, cancel |-> FALSE]]
    /\ domain = [j \in Jobs |-> "absent"]
    /\ due = {} /\ older = {}
    /\ runner = [r \in Runners |-> Idle]
    /\ phase = "booting" /\ boot = 1
    /\ stranded = {}
    /\ faults = 0 /\ clicks = 0

Ready == {j \in due : job[j].state = "queued"}
\* Mutant of NextReady: ORDER BY priority alone.
NextReadyUnordered(j) == j \in Ready /\ \A k \in Ready : Priority[j] <= Priority[k]

\* ORDER BY priority, run_after: nothing ready sorts before j.
NextReady(j) ==
    /\ j \in Ready
    /\ \A k \in Ready : \/ Priority[j] < Priority[k]
                        \/ Priority[j] = Priority[k] /\ <<k, j>> \notin older

\* claim: lease the first ready row and take a copy of it.
Claim(r) ==
    /\ phase = "up" /\ At(r, "idle")
    /\ \E j \in Jobs :
         /\ NextReady(j)
         /\ SetRow(j, LeaseNextJob(job[j]))
         /\ runner' = [runner EXCEPT ![r] = [Idle EXCEPT !.pc = "claimed", !.job = j,
                          !.attempts = job[j].attempts + 1, !.max = job[j].max]]
         /\ stranded' = stranded \ {j}
    /\ UNCHANGED <<domain, due, older, phase, boot, faults, clicks>>

Leased(r) == RowOf(r).state = "leased" /\ RowOf(r).owner = boot

\* start: somebody else moved the row since the claim.
StartDropped(r) ==
    /\ At(r, "claimed") /\ ~Leased(r)
    /\ Release(r)
    /\ UNCHANGED <<rowVars, timeVars, envVars, stranded, faults, clicks>>

\* start: a cancel landed between the claim and the start.
StartCanceled(r) ==
    /\ At(r, "claimed") /\ Leased(r) /\ RowOf(r).cancel
    /\ SetRow(JobOf(r), FinishJob(RowOf(r), "canceled"))
    /\ CommitDomain(JobOf(r), "canceled")
    /\ Release(r)
    /\ UNCHANGED <<timeVars, envVars, stranded, faults, clicks>>

\* Mutant of MayStart: start does not re-read cancel_requested.
MayStartUnchecked(r) == At(r, "claimed") /\ Leased(r)

MayStart(r) == At(r, "claimed") /\ Leased(r) /\ ~RowOf(r).cancel

\* start: the row runs; the Task takes a fresh copy of it.
StartRunning(r) ==
    /\ MayStart(r)
    /\ SetRow(JobOf(r), StartJob(RowOf(r)))
    /\ CommitDomain(JobOf(r), "running")
    /\ runner' = [runner EXCEPT ![r].pc = "working", ![r].attempts = RowOf(r).attempts,
                                ![r].max = RowOf(r).max]
    /\ UNCHANGED <<timeVars, envVars, stranded, faults, clicks>>

\* start: the Starter found its singleton lease taken; the transaction rolls
\* back and the row is deferred by another one.
StartDeferred(r) ==
    /\ MayStart(r) /\ Deferrable(JobOf(r))
    /\ Goto(r, "deferring")
    /\ UNCHANGED <<rowVars, timeVars, envVars, stranded, faults, clicks>>

DeferClaimed(r) ==
    /\ At(r, "deferring")
    /\ SetRow(JobOf(r), DeferJob(RowOf(r)))
    /\ RunLater(JobOf(r))
    /\ Release(r)
    /\ UNCHANGED <<domain, envVars, stranded, faults, clicks>>

\* Mutant of StartFails: execute logs the error and returns.
StartFailsQuietly(r) ==
    /\ At(r, "claimed") \/ At(r, "deferring")
    /\ Fault
    /\ Release(r)
    /\ UNCHANGED <<rowVars, timeVars, envVars, stranded, clicks>>

\* The start transaction, or the deferral after it, fails: execute hands the
\* error to finish, where it is an ordinary failed attempt.
StartFails(r) ==
    /\ At(r, "claimed") \/ At(r, "deferring")
    /\ Fault
    /\ ToFinish(r, "retry")
    /\ UNCHANGED <<rowVars, timeVars, envVars, stranded, clicks>>

\* Mutant of Heartbeat: the lease is touched but the cancel is not read.
HeartbeatDeaf(r) ==
    /\ phase = "up" /\ At(r, "working") /\ ~runner[r].lost /\ ~HeldHere(JobOf(r))
    /\ runner' = [runner EXCEPT ![r].lost = TRUE]
    /\ UNCHANGED <<rowVars, timeVars, envVars, stranded, faults, clicks>>

\* heartbeat: the lease is extended and cancel_requested read in one statement;
\* a row no longer held by this boot means the lease was lost. It stops with the
\* daemon's context.
Heartbeat(r) ==
    /\ phase = "up" /\ At(r, "working") /\ ~runner[r].lost
    /\ IF HeldHere(JobOf(r))
       THEN /\ RowOf(r).cancel /\ ~runner[r].seen
            /\ runner' = [runner EXCEPT ![r].seen = TRUE]
       ELSE runner' = [runner EXCEPT ![r].lost = TRUE]
    /\ UNCHANGED <<rowVars, timeVars, envVars, stranded, faults, clicks>>

\* What Worker.Run may answer. A worker whose context was cut returns Canceled
\* or the context's error, which finish reads as Canceled if a cancel was seen.
Outcomes(r) == {"succeeded", "failed", "retry"}
                 \cup (IF runner[r].seen THEN {"canceled"} ELSE {})
                 \cup (IF Deferrable(JobOf(r)) THEN {"deferred"} ELSE {})

WorkerReturns(r) ==
    /\ At(r, "working")
    /\ \E out \in Outcomes(r) : ToFinish(r, out)
    /\ UNCHANGED <<rowVars, timeVars, envVars, stranded, faults, clicks>>

\* Shutdown cut the context: the row stays as it is for the next boot to triage.
LeaveRunning(r) ==
    /\ phase = "draining"
    /\ At(r, "claimed") \/ At(r, "deferring") \/ (At(r, "working") /\ ~runner[r].seen)
    /\ Release(r)
    /\ UNCHANGED <<rowVars, timeVars, envVars, stranded, faults, clicks>>

-----------------------------------------------------------------------------
(* finish: the outcome and its domain write in one transaction.            *)

Closing(r, out) == At(r, "closing") /\ ~runner[r].lost /\ runner[r].out = out
\* Mutant of Retryable: attempts <= max_attempts.
RetryableOnceMore(r) == Closing(r, "retry") /\ runner[r].attempts <= runner[r].max

\* The budget is that of the Task's copy of the row.
Retryable(r) == Closing(r, "retry") /\ runner[r].attempts < runner[r].max
Verdict(r) == IF runner[r].out = "retry" THEN "failed" ELSE runner[r].out

CloseDropped(r) ==
    /\ At(r, "closing") /\ runner[r].lost
    /\ Release(r)
    /\ UNCHANGED <<rowVars, timeVars, envVars, stranded, faults, clicks>>

CloseDeferred(r) ==
    /\ Closing(r, "deferred")
    /\ SetRow(JobOf(r), DeferJob(RowOf(r)))
    /\ RunLater(JobOf(r))
    /\ Release(r)
    /\ UNCHANGED <<domain, envVars, stranded, faults, clicks>>

CloseRequeued(r) ==
    /\ Retryable(r)
    /\ SetRow(JobOf(r), RequeueJob(RowOf(r)))
    /\ CommitDomain(JobOf(r), "queued")
    /\ RunLater(JobOf(r))
    /\ Release(r)
    /\ UNCHANGED <<envVars, stranded, faults, clicks>>

CloseFinished(r) ==
    /\ At(r, "closing") /\ ~runner[r].lost
    /\ runner[r].out # "deferred" /\ ~Retryable(r)
    /\ SetRow(JobOf(r), FinishJob(RowOf(r), Verdict(r)))
    /\ CommitDomain(JobOf(r), Verdict(r))
    /\ Release(r)
    /\ UNCHANGED <<timeVars, envVars, stranded, faults, clicks>>

\* The closing write fails; recoverUnclosed is next.
CloseFails(r) ==
    /\ At(r, "closing") /\ ~runner[r].lost
    /\ Fault
    /\ Goto(r, "recovering")
    /\ UNCHANGED <<rowVars, timeVars, envVars, stranded, clicks>>

\* Mutant of Recover: the domain row is forgotten.
RecoverJobOnly(r) ==
    /\ At(r, "recovering")
    /\ LET j == JobOf(r)
           state == JobBootTriage(KindOf[j])
       IN  /\ SetRow(j, TriageOrphanedJob(job[j], state))
           /\ IF state = "queued" THEN RunNow(j) ELSE UNCHANGED timeVars
    /\ Release(r)
    /\ UNCHANGED <<domain, envVars, stranded, faults, clicks>>

\* recoverUnclosed: the boot-triage outcome of the kind, applied by the daemon
\* that still owns the lease.
Recover(r) ==
    /\ At(r, "recovering")
    /\ LET j == JobOf(r)
           state == JobBootTriage(KindOf[j])
       IN  /\ SetRow(j, TriageOrphanedJob(job[j], state))
           /\ CommitDomain(j, state)
           /\ IF state = "queued" THEN RunNow(j) ELSE UNCHANGED timeVars
    /\ Release(r)
    /\ UNCHANGED <<envVars, stranded, faults, clicks>>

\* That write fails too: the error is logged and the row is left behind.
RecoverFails(r) ==
    /\ At(r, "recovering")
    /\ Fault
    /\ stranded' = stranded \cup {JobOf(r)}
    /\ Release(r)
    /\ UNCHANGED <<rowVars, timeVars, envVars, clicks>>

-----------------------------------------------------------------------------
(* Requests, each one transaction.                                         *)

Serving == phase \in {"up", "draining"}
Click == clicks < MaxClicks /\ clicks' = clicks + 1

\* The partial unique index refuses a second live row for the subject (409).
Enqueue(j) ==
    /\ Serving
    /\ job[j].state = "absent" /\ ~SubjectBusy(j)
    /\ SetRow(j, [job[j] EXCEPT !.state = "queued"])
    /\ CommitDomain(j, "queued")
    /\ RunNow(j)
    /\ UNCHANGED <<runner, envVars, stranded, faults, clicks>>

\* Held by this boot: only the request is recorded, the worker closes the row. A
\* kind's CancelGuard may refuse a cancel altogether, which changes nothing: here
\* every kind accepts one.
CancelHeld(j) ==
    /\ Serving /\ Click
    /\ HeldHere(j)
    /\ SetRow(j, RequestJobCancel(job[j]))
    /\ UNCHANGED <<domain, timeVars, runner, envVars, stranded, faults>>

\* Held by nobody: the queue closes the row itself.
CancelWaiting(j) ==
    /\ Serving /\ Click
    /\ LiveRow(j) /\ ~HeldHere(j)
    /\ SetRow(j, FinishJob(RequestJobCancel(job[j]), "canceled"))
    /\ CommitDomain(j, "canceled")
    /\ UNCHANGED <<timeVars, runner, envVars, stranded, faults>>

\* Mutant of Retry: no unique index over the live states.
RetryUnindexed(j) ==
    /\ Serving /\ Click
    /\ job[j].state \in {"failed", "canceled", "interrupted"}
    /\ SetRow(j, RetryJob(job[j]))
    /\ CommitDomain(j, "queued")
    /\ RunNow(j)
    /\ UNCHANGED <<runner, envVars, stranded, faults>>

\* The unique index also refuses to make a second row of the subject live again.
Retry(j) ==
    /\ Serving /\ Click
    /\ job[j].state \in {"failed", "canceled", "interrupted"} /\ ~SubjectBusy(j)
    /\ SetRow(j, RetryJob(job[j]))
    /\ CommitDomain(j, "queued")
    /\ RunNow(j)
    /\ UNCHANGED <<runner, envVars, stranded, faults>>

\* setLiveState asks for a row that has not ended. The download service checks in
\* an earlier transaction that the download is not paused, or is; here the check
\* still holds (Download lets it go stale). Neither changes run_after.
Pause(j) ==
    /\ Serving /\ Click
    /\ j \in MayPause /\ LiveRow(j) /\ domain[j] = "open"
    /\ SetRow(j, SetJobState(job[j], "paused"))
    /\ CommitDomain(j, "paused")
    /\ UNCHANGED <<timeVars, runner, envVars, stranded, faults>>

Resume(j) ==
    /\ Serving /\ Click
    /\ j \in MayPause /\ LiveRow(j) /\ domain[j] = "paused"
    /\ SetRow(j, SetJobState(job[j], "queued"))
    /\ CommitDomain(j, "queued")
    /\ UNCHANGED <<timeVars, runner, envVars, stranded, faults>>

\* run_after is reached.
BackoffElapses(j) ==
    /\ phase # "down"
    /\ job[j].state = "queued" /\ j \notin due
    /\ RunNow(j)
    /\ UNCHANGED <<rowVars, runner, envVars, stranded, faults, clicks>>

-----------------------------------------------------------------------------
(* The daemon.                                                             *)

Shutdown ==
    /\ phase = "up" /\ boot < MaxBoots
    /\ phase' = "draining"
    /\ UNCHANGED <<rowVars, timeVars, runner, boot, stranded, faults, clicks>>

\* A crash, or the end of a shutdown: every goroutine is gone, the rows stay.
Exit ==
    /\ phase # "down" /\ boot < MaxBoots
    /\ phase' = "down"
    /\ runner' = [r \in Runners |-> Idle]
    /\ UNCHANGED <<rowVars, timeVars, boot, stranded, faults, clicks>>

\* Mutant of Orphaned: rows that were claimed and not started are overlooked.
OrphanedRunning(j) == job[j].state = "running" /\ job[j].owner # boot'

Orphaned(j) == job[j].state \in Held /\ job[j].owner # boot'

\* RecoverOrphans: one transaction over every row a dead boot held.
Boot ==
    /\ phase = "down"
    /\ phase' = "booting" /\ boot' = boot + 1
    /\ stranded' = {}
    /\ LET state(j) == JobBootTriage(KindOf[j])
       IN  /\ job' = [j \in Jobs |-> IF Orphaned(j) THEN TriageOrphanedJob(job[j], state(j))
                                     ELSE job[j]]
           /\ domain' = [j \in Jobs |-> IF Orphaned(j) THEN DomainOf(state(j)) ELSE domain[j]]
           /\ RunAt({j \in Jobs : Orphaned(j) /\ state(j) = "queued"})
    /\ UNCHANGED <<runner, faults, clicks>>

\* A finalizer closes an interrupted job and its domain row before serving.
Settle(j) ==
    /\ phase = "booting" /\ job[j].state = "interrupted"
    /\ \E verdict \in Verdicts(j) :
         /\ SetRow(j, FinishJob(job[j], verdict))
         /\ CommitDomain(j, verdict)
    /\ UNCHANGED <<timeVars, runner, envVars, stranded, faults, clicks>>

Open ==
    /\ phase = "booting"
    /\ phase' = "up"
    /\ UNCHANGED <<rowVars, timeVars, runner, boot, stranded, faults, clicks>>

RunnerStep(r) ==
    \/ Claim(r) \/ StartDropped(r) \/ StartCanceled(r) \/ StartRunning(r)
    \/ StartDeferred(r) \/ DeferClaimed(r) \/ StartFails(r)
    \/ Heartbeat(r) \/ WorkerReturns(r) \/ LeaveRunning(r)
    \/ CloseDropped(r) \/ CloseDeferred(r) \/ CloseRequeued(r) \/ CloseFinished(r)
    \/ CloseFails(r) \/ Recover(r) \/ RecoverFails(r)

JobStep(j) ==
    \/ Enqueue(j) \/ CancelHeld(j) \/ CancelWaiting(j) \/ Retry(j)
    \/ Pause(j) \/ Resume(j) \/ BackoffElapses(j) \/ Settle(j)

Next ==
    \/ \E r \in Runners : RunnerStep(r)
    \/ \E j \in Jobs : JobStep(j)
    \/ Shutdown \/ Exit \/ Boot \/ Open

Spec == Init /\ [][Next]_vars

(***************************************************************************)
(* Fairness. Every runner loops, its ticker ticks, a write is eventually   *)
(* made, a backoff passes, systemd starts the daemon again and a boot that *)
(* began goes on to serve. A worker owes a return only once its context is *)
(* cut. Nobody owes a request, a crash, a failed write or a shutdown.      *)
(***************************************************************************)
Cut(r) == runner[r].seen \/ runner[r].lost

Fairness ==
    /\ \A r \in Runners :
         /\ WF_vars(Claim(r))
         /\ WF_vars(StartDropped(r) \/ StartCanceled(r) \/ StartRunning(r) \/ StartDeferred(r))
         /\ WF_vars(DeferClaimed(r))
         /\ WF_vars(Heartbeat(r))
         /\ WF_vars(Cut(r) /\ WorkerReturns(r))
         /\ WF_vars(CloseDropped(r) \/ CloseDeferred(r) \/ CloseRequeued(r) \/ CloseFinished(r))
         /\ WF_vars(Recover(r))
    /\ \A j \in Jobs : WF_vars(BackoffElapses(j))
    /\ WF_vars(Boot) /\ WF_vars(Open)
    /\ WF_vars(phase = "draining" /\ Exit)

\* A worker that nobody cuts short ends its work some day.
WorkersReturn == \A r \in Runners : WF_vars(WorkerReturns(r))

FairSpec == Spec /\ Fairness

-----------------------------------------------------------------------------
(* What the queue promises.                                                *)

Rows == [state : Live \cup Terminal \cup {"absent"}, attempts : Nat, max : Nat,
         owner : Nat, cancel : BOOLEAN]
Tasks == [pc : {"idle", "claimed", "deferring", "working", "closing", "recovering"},
          job : Jobs \cup {NoJob}, attempts : Nat, max : Nat,
          out : {"none", "succeeded", "failed", "retry", "canceled", "deferred"},
          seen : BOOLEAN, lost : BOOLEAN]

\* The types of the variables; a busy runner names a job, and one that closes it
\* has an outcome.
TypeOK ==
    /\ job \in [Jobs -> Rows]
    /\ domain \in [Jobs -> Terminal \cup {"absent", "open", "paused"}]
    /\ due \subseteq Jobs
    /\ older \subseteq Jobs \X Jobs
    /\ runner \in [Runners -> Tasks]
    /\ \A r \in Runners : /\ ~At(r, "idle") => JobOf(r) \in Jobs
                          /\ At(r, "closing") => runner[r].out # "none"
    /\ phase \in {"down", "booting", "up", "draining"}
    /\ boot \in Nat \ {0}
    /\ stranded \subseteq Jobs
    /\ faults \in Nat /\ clicks \in Nat

Busy(r) == ~At(r, "idle")

\* Two runners never act for the same subject: neither on one row, nor on two
\* rows of one subject (jobs queue, "at most one live job per subject", D39).
\* It holds as long as no download is paused: see OutcomeFromOwner.
ExclusiveWorker ==
    \A r, s \in Runners : r # s /\ Busy(r) /\ Busy(s)
                            => SubjectOf[JobOf(r)] # SubjectOf[JobOf(s)]

\* While the daemon is up, a row leased or running under its own boot id has a
\* runner that still owns it and will write it; otherwise nothing in the process
\* would ever look at it again and its subject would stay blocked. The only
\* exception is a row whose closing write and recovery write both failed.
NoStrandedLease ==
    phase = "up" => \A j \in Jobs \ stranded : HeldHere(j) =>
        \E r \in Runners : Busy(r) /\ JobOf(r) = j /\ ~runner[r].lost

\* Once the boot triage is over no row is held by a boot that is gone.
NoForeignLease ==
    phase # "down" => \A j \in Jobs : job[j].state \in Held => HeldHere(j)

\* The job row and the activity's own row end, pause and reopen together: every
\* transition of one is handed to the other's writer in the same transaction,
\* whoever makes it (DESIGN 2.3a).
DomainInStep == \A j \in Jobs : domain[j] = DomainOf(job[j].state)

\* A claim is only ever made within the attempt budget: deferrals, crashes and
\* recoveries give their attempt back exactly once, and a retry raises the
\* budget by what it needs. A pause gives nothing back, so nobody pauses here.
AttemptsWithinBudget ==
    \A j \in Jobs : /\ job[j].attempts <= job[j].max
                    /\ job[j].state = "queued" => job[j].attempts < job[j].max

\* A job whose cancel was accepted is never given to a worker again, however
\* long it waits in a backoff, a pause or a restart, until a retry clears the
\* request.
CancelNeverRestarts ==
    [][\A j \in Jobs : job[j].cancel /\ job[j].state # "running" /\ job'[j].cancel
                         => job'[j].state # "running"]_vars

\* "Writing to a job somebody else now owns is the one thing this must never do"
\* (runner.go, finish): a runner writes an outcome only while no other runner has
\* taken the job over.
OutcomeFromOwner ==
    [][\A r \in Runners : CloseRequeued(r) \/ CloseFinished(r) =>
         \A s \in Runners \ {r} : Busy(s) => JobOf(s) # JobOf(r)]_vars

\* A cancel reaches a worker that would otherwise run forever: the running row of
\* an accepted cancel stops running, by the heartbeat that carries the request.
CancelReachesWorker ==
    \A j \in Jobs : job[j].cancel /\ job[j].state = "running" ~> job[j].state # "running"

\* An accepted cancel takes effect wherever it found the job, a backoff and a
\* restart included: the job ends, or waits for the user.
CancelTakesEffect ==
    WorkersReturn =>
      \A j \in Jobs : job[j].cancel /\ LiveRow(j)
                        ~> job[j].state \in Terminal \cup {"paused", "interrupted"}

\* A queued job is eventually claimed or withdrawn, whatever the jobs of its
\* priority do: a deferred or requeued job goes behind it.
NoStarvation ==
    WorkersReturn =>
      \A j \in Jobs : job[j].state = "queued" ~> job[j].state # "queued"

=============================================================================
