------------------------------ MODULE Download ------------------------------
(***************************************************************************)
(* One download of internal/hf/download: its file tasks, the stored fold   *)
(* of them in downloads.state, its jobs row, the worker that moves the     *)
(* files through the pool, and the users who pause, resume, retry and      *)
(* cancel it. Each of the three layers is written by several actors; one   *)
(* action is one transaction, or one decision between two of them.         *)
(*                                                                         *)
(* The jobs row is that of JobQueue at the grain this worker sees: claim   *)
(* and start are one step, a backoff may pass at any time. Bytes, partial  *)
(* files, etags and locks are not modelled: a transfer lands, fails or is  *)
(* cut.                                                                    *)
(***************************************************************************)
EXTENDS Naturals, FiniteSets

CONSTANTS
    Files,       \* the files of the download, by shard index
    Slots,       \* the queue's runners that may run its job
    Width,       \* hf.download_concurrency: files in flight over all runs
    MaxAttempts, \* jobs.max_attempts at insertion (3)
    MaxAsks,     \* bound: requests that passed their check
    MaxFaults,   \* bound: write transactions that fail
    MaxRestarts  \* bound: restarts of the daemon

ASSUME FilesAssumption == IsFiniteSet(Files) /\ Files \subseteq Nat /\ Files # {}
ASSUME WidthAssumption == Width \in Nat \ {0} /\ MaxAttempts \in Nat \ {0}
ASSUME BoundsAssumption == MaxAsks \in Nat /\ MaxFaults \in Nat /\ MaxRestarts \in Nat

VARIABLES
    job,      \* the jobs row: state, cancel_requested, attempts, max_attempts
    task,     \* download_tasks.state per file
    stored,   \* downloads.state
    landed,   \* the files whose model_files row is present
    ready,    \* every model of the download is ready
    run,      \* per slot: where Worker.Run stands
    asks,     \* requests between their check and their write
    asked,    \* requests so far, and whether one paused or resumed
    faults,   \* failed writes so far
    restarts  \* restarts so far

rows == <<job, task, stored, landed, ready>>
vars == <<rows, run, asks, asked, faults, restarts>>

-----------------------------------------------------------------------------
(* The fold.                                                               *)

TaskStates == {"queued", "running", "paused", "verifying", "succeeded", "failed", "canceled"}
Final == {"succeeded", "failed", "canceled"}
Some(tasks, state) == \E f \in Files : tasks[f] = state

\* The order of the tests is the precedence of the states.
Fold(tasks) ==
    IF Some(tasks, "canceled") THEN "canceled"
    ELSE IF Some(tasks, "paused") THEN "paused"
    ELSE IF Some(tasks, "running") THEN "running"
    ELSE IF Some(tasks, "failed") THEN "failed"
    ELSE IF Some(tasks, "verifying") THEN "verifying"
    ELSE IF Some(tasks, "queued") THEN "queued"
    ELSE "verifying"

\* Mutant of WriteState: any write that finds every file landed promotes the fold.
WriteStatePromotes(tasks, verified) ==
    /\ task' = tasks
    /\ stored' = IF Fold(tasks) = "verifying" THEN "succeeded" ELSE Fold(tasks)

\* writeState: the tasks as this transaction leaves them, and their fold, which
\* only the worker's last commit may promote.
WriteState(tasks, verified) ==
    /\ task' = tasks
    /\ stored' = IF verified /\ Fold(tasks) = "verifying" THEN "succeeded" ELSE Fold(tasks)

\* Mutant of AllTasks: landed files are moved too.
AllTasksMoved(state) == [f \in Files |-> IF task[f] = "canceled" THEN "canceled" ELSE state]

\* SetDownloadTasksState: a landed or canceled file keeps its state.
AllTasks(state) ==
    [f \in Files |-> IF task[f] \in {"succeeded", "canceled"} THEN task[f] ELSE state]
OneTask(f, state) == [task EXCEPT ![f] = state]

\* SetDomainState, the DomainWriter of the kind.
TaskOf(jobState) == IF jobState \in Final \cup {"queued", "paused"} THEN jobState ELSE "none"
DomainWriter(jobState) == WriteState(AllTasks(TaskOf(jobState)), jobState = "succeeded")

-----------------------------------------------------------------------------

Idle == [pc |-> "idle", todo |-> {}, moving |-> {}, errs |-> FALSE, seen |-> FALSE,
         lost |-> FALSE, attempts |-> 0, max |-> 0, out |-> "none"]

At(w, pc)   == run[w].pc = pc
Cut(w)      == run[w].seen \/ run[w].lost
Goto(w, pc) == run' = [run EXCEPT ![w].pc = pc]
Release(w)  == run' = [run EXCEPT ![w] = Idle]
\* Worker.Run returns this outcome to the queue's finish.
Return(w, out) == run' = [run EXCEPT ![w].pc = "closing", ![w].out = out]
InFlight == UNION {{<<w, f>> : f \in run[w].moving} : w \in Slots}
Live == job.state \in {"queued", "running", "paused"}
Fault == faults < MaxFaults /\ faults' = faults + 1

Verbs == {"pause", "resume", "retry", "cancel", "close"}

\* One transaction inserts the job, the download and its tasks.
Init ==
    /\ job = [state |-> "queued", cancel |-> FALSE, attempts |-> 0, max |-> MaxAttempts]
    /\ task = [f \in Files |-> "queued"]
    /\ stored = "queued"
    /\ landed = {} /\ ready = FALSE
    /\ run = [w \in Slots |-> Idle]
    /\ asks = [v \in Verbs |-> 0]
    /\ asked = [count |-> 0, paused |-> FALSE]
    /\ faults = 0 /\ restarts = 0

\* The queue claims and starts the job. Starting writes no domain row.
Begin(w) ==
    /\ At(w, "idle") /\ job.state = "queued" /\ ~job.cancel
    /\ job' = [job EXCEPT !.state = "running", !.attempts = @ + 1]
    /\ run' = [run EXCEPT ![w] = [Idle EXCEPT !.pc = "loading",
                   !.attempts = job.attempts + 1, !.max = job.max]]
    /\ UNCHANGED <<task, stored, landed, ready, asks, asked, faults, restarts>>

\* A cancel arrived while the job waited: the start closes it.
BeginCanceled(w) ==
    /\ At(w, "idle") /\ job.state = "queued" /\ job.cancel
    /\ job' = [job EXCEPT !.state = "canceled", !.attempts = @ + 1]
    /\ DomainWriter("canceled")
    /\ UNCHANGED <<landed, ready, run, asks, asked, faults, restarts>>

\* loadRun: the tasks that still have work to do, as of now.
Load(w) ==
    /\ At(w, "loading") /\ ~Cut(w)
    /\ LET todo == {f \in Files : task[f] # "succeeded"}
       IN  run' = [run EXCEPT ![w].todo = todo,
                              ![w].pc = IF todo = {} THEN "completing" ELSE "opening"]
    /\ UNCHANGED <<rows, asks, asked, faults, restarts>>

\* The run's first write stamps started_at and folds again.
Open(w) ==
    /\ At(w, "opening") /\ ~Cut(w)
    /\ WriteState(task, FALSE)
    /\ Goto(w, "transferring")
    /\ UNCHANGED <<job, landed, ready, asks, asked, faults, restarts>>

-----------------------------------------------------------------------------
(* runTasks: files start in shard order as the pool has room, then each    *)
(* goes its own way.                                                       *)

NextFile(w, f) == f \in run[w].todo /\ \A g \in run[w].todo : f <= g

StartTask(w, f) ==
    /\ At(w, "transferring") /\ ~Cut(w) /\ NextFile(w, f)
    /\ Cardinality(InFlight) < Width
    /\ WriteState(OneTask(f, "running"), FALSE)
    /\ run' = [run EXCEPT ![w].todo = @ \ {f}, ![w].moving = @ \cup {f}]
    /\ UNCHANGED <<job, landed, ready, asks, asked, faults, restarts>>

StartTaskFails(w, f) ==
    /\ At(w, "transferring") /\ NextFile(w, f)
    /\ Cardinality(InFlight) < Width
    /\ Fault
    /\ run' = [run EXCEPT ![w].todo = @ \ {f}, ![w].errs = TRUE]
    /\ UNCHANGED <<rows, asks, asked, restarts>>

\* Mutant of StopLaunching: the launch loop watches its lease and not its context.
StopLaunchingWhenLost(w) ==
    /\ At(w, "transferring") /\ run[w].lost /\ run[w].todo # {}
    /\ run' = [run EXCEPT ![w].todo = {}]
    /\ UNCHANGED <<rows, asks, asked, faults, restarts>>

\* The context was cut: no further file is started.
StopLaunching(w) ==
    /\ At(w, "transferring") /\ Cut(w) /\ run[w].todo # {}
    /\ run' = [run EXCEPT ![w].todo = {}]
    /\ UNCHANGED <<rows, asks, asked, faults, restarts>>

\* recordTaskError and clearTaskError: a transfer that waits for a lock, takes
\* it, or is tried again writes the task's state as running, and does not fold.
Reassert(w, f) ==
    /\ f \in run[w].moving /\ ~Cut(w)
    /\ task' = OneTask(f, "running")
    /\ UNCHANGED <<job, stored, landed, ready, run, asks, asked, faults, restarts>>

\* Mutant of MarkFilePresent: the fold is left to the end of the run.
MarkFilePresentUnfolded(w, f) ==
    /\ f \in run[w].moving /\ ~Cut(w)
    /\ task' = OneTask(f, "succeeded")
    /\ landed' = landed \cup {f}
    /\ run' = [run EXCEPT ![w].moving = @ \ {f}]
    /\ UNCHANGED <<job, stored, ready, asks, asked, faults, restarts>>

\* The file is on disk, verified and linked.
MarkFilePresent(w, f) ==
    /\ f \in run[w].moving /\ ~Cut(w)
    /\ WriteState(OneTask(f, "succeeded"), FALSE)
    /\ landed' = landed \cup {f}
    /\ run' = [run EXCEPT ![w].moving = @ \ {f}]
    /\ UNCHANGED <<job, ready, asks, asked, faults, restarts>>

\* The transfer's attempts are spent, or its failure is not worth another.
FailTask(w, f) ==
    /\ f \in run[w].moving /\ ~Cut(w)
    /\ WriteState(OneTask(f, "failed"), FALSE)
    /\ run' = [run EXCEPT ![w].moving = @ \ {f}, ![w].errs = TRUE]
    /\ UNCHANGED <<job, landed, ready, asks, asked, faults, restarts>>

\* A cut transfer writes nothing.
Abandon(w, f) ==
    /\ f \in run[w].moving /\ Cut(w)
    /\ run' = [run EXCEPT ![w].moving = @ \ {f}, ![w].errs = TRUE]
    /\ UNCHANGED <<rows, asks, asked, faults, restarts>>

\* Every file has come to its end: what the run was cut by, or failed by, decides.
EndTransfers(w) ==
    /\ At(w, "transferring") /\ run[w].todo = {} /\ run[w].moving = {}
    /\ IF run[w].seen THEN Return(w, "canceled")
       ELSE IF run[w].lost THEN Return(w, "error")
       ELSE IF run[w].errs THEN Return(w, "failed")
       ELSE Goto(w, "completing")
    /\ UNCHANGED <<rows, asks, asked, faults, restarts>>

-----------------------------------------------------------------------------
(* complete, and the ways out of a run.                                    *)

Complete(w) ==
    /\ At(w, "completing") /\ ~Cut(w)
    /\ WriteState(task, FALSE)
    /\ Goto(w, "verifying")
    /\ UNCHANGED <<job, landed, ready, asks, asked, faults, restarts>>

\* verifyModels, and the outcome that carries the promoting commit.
VerifyModels(w) ==
    /\ At(w, "verifying") /\ ~Cut(w)
    /\ IF landed = Files
       THEN ready' = TRUE /\ Return(w, "succeeded")
       ELSE ready' = ready /\ Return(w, "failed")
    /\ UNCHANGED <<job, task, stored, landed, asks, asked, faults, restarts>>

\* The transaction fails, or its context is cut: a failure like any other.
VerifyModelsFails(w) ==
    /\ At(w, "verifying")
    /\ \/ Cut(w) /\ faults' = faults
       \/ Fault
    /\ Return(w, "failed")
    /\ UNCHANGED <<rows, asks, asked, restarts>>

Transaction == {"loading", "opening", "completing"}

\* Between the files a cut context surfaces as an error: the context's own,
\* which a seen cancel turns into Canceled, or the driver's.
CutShort(w) ==
    /\ run[w].pc \in Transaction /\ Cut(w)
    /\ \E out \in {"error"} \cup (IF run[w].seen THEN {"canceled"} ELSE {}) : Return(w, out)
    /\ UNCHANGED <<rows, asks, asked, faults, restarts>>

WriteFails(w) ==
    /\ run[w].pc \in Transaction
    /\ Fault
    /\ Return(w, "error")
    /\ UNCHANGED <<rows, asks, asked, restarts>>

\* jobs.heartbeat: a row that is not running any more was paused or taken away.
Heartbeat(w) ==
    /\ run[w].pc \notin {"idle", "closing"} /\ ~run[w].lost
    /\ IF job.state = "running"
       THEN job.cancel /\ ~run[w].seen /\ run' = [run EXCEPT ![w].seen = TRUE]
       ELSE run' = [run EXCEPT ![w].lost = TRUE]
    /\ UNCHANGED <<rows, asks, asked, faults, restarts>>

-----------------------------------------------------------------------------
(* jobs.finish with the worker's commits.                                  *)

\* What finish makes of the outcome, and what the outcome's Commit makes of the
\* tasks: a failure's Commit says failed even when the job is queued again, and
\* an error has none, so the DomainWriter follows the job.
ClosedState(w) ==
    IF run[w].out \in {"succeeded", "canceled"} THEN run[w].out
    ELSE IF run[w].attempts < run[w].max THEN "queued" ELSE "failed"

ClosedTask(w) == IF run[w].out = "failed" THEN "failed" ELSE ClosedState(w)

CloseDropped(w) ==
    /\ At(w, "closing") /\ run[w].lost
    /\ Release(w)
    /\ UNCHANGED <<rows, asks, asked, faults, restarts>>

Close(w) ==
    /\ At(w, "closing") /\ ~run[w].lost
    /\ job' = [job EXCEPT !.state = ClosedState(w)]
    /\ WriteState(AllTasks(ClosedTask(w)), run[w].out = "succeeded")
    /\ Release(w)
    /\ UNCHANGED <<landed, ready, asks, asked, faults, restarts>>

Returned == IF job.attempts > 0 THEN job.attempts - 1 ELSE 0

\* The closing write fails and recoverUnclosed gives the job its boot triage.
CloseFails(w) ==
    /\ At(w, "closing") /\ ~run[w].lost
    /\ Fault
    /\ job' = [job EXCEPT !.state = "queued", !.attempts = Returned]
    /\ DomainWriter("queued")
    /\ Release(w)
    /\ UNCHANGED <<landed, ready, asks, asked, restarts>>

\* The daemon dies and the next boot triages the row if it was held.
Restart ==
    /\ restarts < MaxRestarts /\ restarts' = restarts + 1
    /\ run' = [w \in Slots |-> Idle]
    /\ asks' = [v \in Verbs |-> 0]
    /\ IF job.state = "running"
       THEN /\ job' = [job EXCEPT !.state = "queued", !.attempts = Returned]
            /\ DomainWriter("queued")
       ELSE UNCHANGED <<job, task, stored>>
    /\ UNCHANGED <<landed, ready, asked, faults>>

-----------------------------------------------------------------------------
(* Requests: the download is read in one transaction, the job and the      *)
(* tasks are written in a later one.                                       *)

\* What the service checks: the stored state, and whether a live job exists.
Offered(verb) ==
    CASE verb = "pause"  -> Live /\ stored \in {"queued", "running"}
      [] verb = "resume" -> Live /\ stored = "paused"
      [] verb = "retry"  -> stored \in {"failed", "canceled"}
      [] verb = "cancel" -> Live /\ stored \notin Final
      [] verb = "close"  -> ~Live /\ stored \notin Final

Ask(verb) ==
    /\ Offered(verb)
    /\ asked.count < MaxAsks
    /\ asks' = [asks EXCEPT ![verb] = @ + 1]
    /\ asked' = [count |-> asked.count + 1,
                 paused |-> asked.paused \/ verb \in {"pause", "resume"}]
    /\ UNCHANGED <<rows, run, faults, restarts>>

Answer(verb) == asks[verb] > 0 /\ asks' = [asks EXCEPT ![verb] = @ - 1]

\* What the queue refuses when the write's turn comes.
Refused(verb) ==
    CASE verb \in {"pause", "resume", "cancel"} -> ~Live
      [] verb = "retry" -> job.state \notin {"failed", "canceled"}
      [] verb = "close" -> FALSE

Refuse(verb) ==
    /\ Answer(verb) /\ Refused(verb)
    /\ UNCHANGED <<rows, run, asked, faults, restarts>>

\* setLiveState: any row that has not ended, a running one included, moves.
Pause ==
    /\ Answer("pause") /\ ~Refused("pause")
    /\ job' = [job EXCEPT !.state = "paused"]
    /\ WriteState(AllTasks("paused"), FALSE)
    /\ UNCHANGED <<landed, ready, run, asked, faults, restarts>>

Resume ==
    /\ Answer("resume") /\ ~Refused("resume")
    /\ job' = [job EXCEPT !.state = "queued"]
    /\ WriteState(AllTasks("queued"), FALSE)
    /\ UNCHANGED <<landed, ready, run, asked, faults, restarts>>

Retry ==
    /\ Answer("retry") /\ ~Refused("retry")
    /\ job' = [job EXCEPT !.state = "queued", !.cancel = FALSE,
                          !.max = IF @ > job.attempts THEN @ ELSE job.attempts + 1]
    /\ DomainWriter("queued")
    /\ UNCHANGED <<landed, ready, run, asked, faults, restarts>>

\* A held row only records the request; the worker closes it.
Cancel ==
    /\ Answer("cancel") /\ ~Refused("cancel")
    /\ IF job.state = "running"
       THEN job' = [job EXCEPT !.cancel = TRUE] /\ UNCHANGED <<task, stored>>
       ELSE /\ job' = [job EXCEPT !.cancel = TRUE, !.state = "canceled"]
            /\ DomainWriter("canceled")
    /\ UNCHANGED <<landed, ready, run, asked, faults, restarts>>

\* The download has no live job: the service moves the tasks itself.
CloseUnheld ==
    /\ Answer("close")
    /\ WriteState(AllTasks("canceled"), FALSE)
    /\ UNCHANGED <<job, landed, ready, run, asked, faults, restarts>>

TransferStep(w, f) ==
    StartTask(w, f) \/ MarkFilePresent(w, f) \/ FailTask(w, f) \/ Abandon(w, f)

WorkerStep(w) ==
    \/ Load(w) \/ Open(w) \/ StopLaunching(w) \/ EndTransfers(w)
    \/ Complete(w) \/ VerifyModels(w) \/ CutShort(w) \/ CloseDropped(w) \/ Close(w)

FaultStep(w) ==
    \/ VerifyModelsFails(w) \/ WriteFails(w) \/ CloseFails(w)
    \/ \E f \in Files : StartTaskFails(w, f)

Next ==
    \/ \E w \in Slots : \/ Begin(w) \/ BeginCanceled(w) \/ Heartbeat(w)
                        \/ WorkerStep(w) \/ FaultStep(w)
                        \/ \E f \in Files : TransferStep(w, f) \/ Reassert(w, f)
    \/ \E v \in Verbs : Ask(v) \/ Refuse(v)
    \/ Pause \/ Resume \/ Retry \/ Cancel \/ CloseUnheld
    \/ Restart

Spec == Init /\ [][Next]_vars

\* Fairness: runners claim and loop, heartbeats tick, requests are written, and
\* a transfer lands, fails or is cut some day. Nobody owes a request, a failed
\* write or a restart.
Fairness ==
    /\ \A w \in Slots :
         /\ WF_vars(Begin(w) \/ BeginCanceled(w))
         /\ WF_vars(Heartbeat(w))
         /\ WF_vars(WorkerStep(w))
         /\ WF_vars(Cut(w) /\ VerifyModelsFails(w))
         /\ WF_vars(\E f \in Files : TransferStep(w, f))
    /\ \A v \in Verbs : WF_vars(Refuse(v))
    /\ WF_vars(Pause) /\ WF_vars(Resume) /\ WF_vars(Retry) /\ WF_vars(Cancel)

FairSpec == Spec /\ Fairness

-----------------------------------------------------------------------------
(* What a download promises. Two runs may overlap once somebody pauses and *)
(* resumes (JobQueue, OutcomeFromOwner); what needs a single writer says   *)
(* so with ~asked.paused.                                                  *)

Run == [pc : {"idle", "loading", "opening", "transferring", "completing",
              "verifying", "closing"},
        todo : SUBSET Files, moving : SUBSET Files, errs : BOOLEAN,
        seen : BOOLEAN, lost : BOOLEAN, attempts : Nat, max : Nat,
        out : {"none", "succeeded", "failed", "error", "canceled"}]

TypeOK ==
    /\ job \in [state : Final \cup {"queued", "running", "paused"}, cancel : BOOLEAN,
                attempts : Nat, max : Nat]
    /\ task \in [Files -> TaskStates \ {"verifying"}]
    /\ stored \in TaskStates
    /\ landed \subseteq Files /\ ready \in BOOLEAN
    /\ run \in [Slots -> Run]
    /\ \A w \in Slots : At(w, "closing") => run[w].out # "none"
    /\ asks \in [Verbs -> Nat]
    /\ asked \in [count : Nat, paused : BOOLEAN]
    /\ faults \in Nat /\ restarts \in Nat

\* downloads.state always equals the fold of the task rows, whoever wrote last
\* (DESIGN 2.7), but for the one promotion that ends a download.
StoredIsFold ==
    ~asked.paused => stored \in {Fold(task)} \cup (IF Fold(task) = "verifying"
                                                   THEN {"succeeded"} ELSE {})

\* A download shown as succeeded has every file on disk, its models ready and its
\* job closed, even when two runs of it overlapped.
SucceededIsWhole ==
    stored = "succeeded" => job.state = "succeeded" /\ ready /\ landed = Files

\* A file that landed is never moved back and transferred again, by a failure,
\* a cancel, a retry, a recovery or a restart.
LandedStays ==
    [][\A f \in Files : task[f] = "succeeded" /\ ~asked'.paused => task'[f] = "succeeded"]_vars

\* Files only move while the job row says that it runs.
QuietUnlessRunning ==
    ~asked.paused /\ job.state # "running" => \A w \in Slots : At(w, "idle")

\* The jobs row and the downloads row end alike, unless the end found nothing left
\* to move: every file had landed (the fold stays verifying), or an earlier cancel
\* had already marked files (the fold stays canceled).
VerdictReaches ==
    ~asked.paused /\ job.state \in Final =>
        \/ stored \in {job.state, "canceled"}
        \/ stored = "verifying" /\ landed = Files

\* Whatever fails, is cut or restarts, the download's job ends or waits for the
\* user; no slot of the pool is lost on the way.
ComesToRest ==
    job.state \in {"queued", "running"} ~> job.state \notin {"queued", "running"}

\* DESIGN 2.3a, the table of the two rows: paused with paused, succeeded with
\* succeeded, failed with failed, canceled with canceled, once no worker runs.
RestAgrees ==
    (\A w \in Slots : At(w, "idle")) /\ job.state \in Final \cup {"paused"}
        => stored = job.state

\* jobs.Retry: "the domain row moves back to `queued` in the same transaction".
RetryRequeues == [][Retry => stored' = "queued"]_vars

=============================================================================
