--------------------------------- MODULE Bench ---------------------------------
(***************************************************************************)
(* Benchmark sweeps with stop-and-restore, internal/bench: the bench_runs  *)
(* rows, their jobs, the singleton bench_lease, the worker of each sweep,  *)
(* the finalizer it ends with, and the boot reconciliation that runs the   *)
(* finalizer for a daemon that died.                                       *)
(*                                                                         *)
(* Two runs of one host meet in the lease and in the instances they stop.  *)
(* An instance is its desired state and whether it is loaded; that the     *)
(* supervisor makes the second follow the first is Supervisor's subject.   *)
(* One action is one transaction.  Every instance is on the GPUs a run     *)
(* needs.  A point is one llama-bench process, done or failed.             *)
(*                                                                         *)
(* Time: a dead boot's lease may have expired at any moment, and so may a  *)
(* live one whose heartbeat fell behind; the grace for a stop may pass     *)
(* before the instance is down.                                            *)
(***************************************************************************)
EXTENDS Naturals, FiniteSets

CONSTANTS
    Runs,        \* the benchmark runs, each with its job
    Instances,   \* the instances of the host
    NoRun,       \* nobody
    Points,      \* points of a sweep
    Policies,    \* what the runs do on a conflict: functions to choose among
    MaxClicks,   \* bound: requests
    MaxFaults    \* bound: failed writes and crashes

ASSUME BenchAssumption ==
    /\ NoRun \notin Runs /\ Points \in Nat \ {0}
    /\ Policies \subseteq [Runs -> {"abort", "stop"}]
    /\ MaxClicks \in Nat /\ MaxFaults \in Nat

VARIABLES
    run,      \* the bench_runs rows
    job,      \* the state of each run's job, and its cancel request
    lease,    \* the bench_lease row: whose, and the boot that owns it
    worker,   \* the sweep, or the finalizer, that goes on for a run
    inst,     \* the instances, and who wrote their desired state last
    daemon,   \* "down", the steps of bench.Reconcile, "up"; the boot; what it has tried
    gaveUp,   \* where a restoration of the run failed in this boot
    clicks, faults

vars == <<run, job, lease, worker, inst, daemon, gaveUp, clicks, faults>>

Owes(r) == run[r].listed /\ ~run[r].restored

\* "pc" is the step that comes next, "end" the outcome the sweep is heading for.
Idle == [pc |-> "none", todo |-> {}, end |-> "none"]
Free == [run |-> NoRun, boot |-> 0]
Sweeping(r) == worker[r].pc # "none" /\ worker[r].end # "boot"

Fault == faults < MaxFaults /\ faults' = faults + 1
Calm == UNCHANGED faults
Click == daemon.step = "up" /\ clicks < MaxClicks /\ clicks' = clicks + 1 /\ Calm

Init ==
    /\ \E policy \in Policies :
          run = [r \in Runs |-> [state |-> "queued", policy |-> policy[r], left |-> Points,
                                ok |-> 0, listed |-> FALSE, stopped |-> {}, restored |-> FALSE]]
    /\ job = [r \in Runs |-> [state |-> "queued", cancel |-> FALSE]]
    /\ lease = Free
    /\ worker = [r \in Runs |-> Idle]
    /\ inst = [i \in Instances |-> [desired |-> "running", loaded |-> TRUE, deleted |-> FALSE,
                                    by |-> "user"]]
    /\ daemon = [step |-> "up", boot |-> 1, tried |-> {}]
    /\ gaveUp = [r \in Runs |-> "no"] /\ clicks = 0 /\ faults = 0

-----------------------------------------------------------------------------
(* The lease.                                                                *)

\* Mutant: an expired horizon is enough, whoever holds the lease.
MayTakeExpired(r) == TRUE

\* Start: a live sibling's lease is never taken, a dead boot's once it has expired; what
\* the job holds itself it takes again.
MayTake(r) == lease.run \in {NoRun, r} \/ lease.boot # daemon.boot

\* Mutant: the lease goes with the job, whatever is owed.
ReleasedAnyway(r) == IF lease.run = r THEN Free ELSE lease

\* Mutant: the release is forgotten when a sweep ends well.
ReleasedLate(r) == IF lease.run = r /\ ~Owes(r) /\ worker[r].end # "succeeded" THEN Free ELSE lease

\* ReleaseBenchLease, after the write that closes r: not while its run owes a restore.
Released(r) == IF lease.run = r /\ ~Owes(r) THEN Free ELSE lease

-----------------------------------------------------------------------------
(* The sweep.                                                                *)

Steps(r) == UNCHANGED <<daemon, clicks>>
At(r, pc) == worker[r].pc = pc
Goto(r, pc) == worker' = [worker EXCEPT ![r].pc = pc]
Undo(r, end) == worker' = [worker EXCEPT ![r] = [pc |-> "undo", todo |-> {}, end |-> end]]
SetRun(r, s) == run' = [run EXCEPT ![r].state = s]

\* Start: the lease and "preflight" commit with the move to running; else it is deferred.
Start(r) ==
    /\ daemon.step = "up" /\ job[r].state = "queued" /\ MayTake(r)
    /\ lease' = [run |-> r, boot |-> daemon.boot]
    /\ job' = [job EXCEPT ![r].state = "running"]
    /\ SetRun(r, "preflight")
    /\ worker' = [worker EXCEPT ![r] = [Idle EXCEPT !.pc = "preflight"]]
    /\ Calm /\ Steps(r) /\ UNCHANGED <<inst, gaveUp>>

Conflicts == {i \in Instances : inst[i].loaded /\ ~inst[i].deleted}

Preflight(r) ==
    /\ At(r, "preflight")
    /\ \/ Conflicts = {} /\ Goto(r, "begin")
       \/ Conflicts # {} /\ run[r].policy = "abort" /\ Undo(r, "failed")
       \/ /\ Conflicts # {} /\ run[r].policy = "stop"
          /\ worker' = [worker EXCEPT ![r].pc = "list", ![r].todo = Conflicts]
    /\ Calm /\ Steps(r) /\ UNCHANGED <<run, job, lease, inst, gaveUp>>

\* Mutant: the instances are stopped first and the list is not written.
ListNothing(r) ==
    /\ At(r, "list") /\ Goto(r, "stop")
    /\ Calm /\ Steps(r) /\ UNCHANGED <<run, job, lease, inst, gaveUp>>

\* The list is written before anything is stopped; it replaces an earlier one, and what
\* only that one named is lost.
List(r) ==
    /\ At(r, "list")
    /\ run' = [run EXCEPT ![r].listed = TRUE, ![r].stopped = worker[r].todo,
                          ![r].restored = FALSE]
    /\ inst' = [i \in Instances |->
                  IF Owes(r) /\ i \in run[r].stopped \ worker[r].todo /\ inst[i].by = "bench"
                  THEN [inst[i] EXCEPT !.by = "lost"] ELSE inst[i]]
    /\ Goto(r, "stop")
    /\ Calm /\ Steps(r) /\ UNCHANGED <<job, lease, gaveUp>>

SetDesired(i, s) ==
    IF inst[i].deleted THEN inst ELSE [inst EXCEPT ![i].desired = s, ![i].by = "bench"]

\* An instance deleted meanwhile is passed over; the grace after the last stop is not
\* waited for.
StopInstance(r) ==
    /\ At(r, "stop")
    /\ \/ \E i \in worker[r].todo :
            /\ inst' = SetDesired(i, "stopped")
            /\ worker' = [worker EXCEPT ![r].todo = @ \ {i}]
       \/ worker[r].todo = {} /\ Goto(r, "begin") /\ UNCHANGED inst
    /\ Calm /\ Steps(r) /\ UNCHANGED <<run, job, lease, gaveUp>>

Begin(r) ==
    /\ At(r, "begin") /\ SetRun(r, "running") /\ Goto(r, "points")
    /\ Calm /\ Steps(r) /\ UNCHANGED <<job, lease, inst, gaveUp>>

\* A write of the steps before the points fails, or a stop does: Worker.fail.
PrepareFails(r) ==
    /\ worker[r].pc \in {"list", "stop", "begin"}
    /\ Undo(r, "failed") /\ Fault /\ Steps(r)
    /\ UNCHANGED <<run, job, lease, inst, gaveUp>>

\* A failed point is isolated.
RunPoint(r) ==
    /\ At(r, "points") /\ run[r].left > 0 /\ ~job[r].cancel
    /\ \E ok \in {0, 1} : run' = [run EXCEPT ![r].left = @ - 1, ![r].ok = @ + ok]
    /\ Calm /\ Steps(r) /\ UNCHANGED <<job, lease, worker, inst, gaveUp>>

LeavePoints(r) ==
    /\ At(r, "points")
    /\ \/ run[r].left > 0 /\ job[r].cancel /\ Undo(r, "canceled")
       \/ run[r].left = 0 /\ Undo(r, IF run[r].ok = 0 THEN "failed" ELSE "succeeded")
    /\ Calm /\ Steps(r) /\ UNCHANGED <<run, job, lease, inst, gaveUp>>

-----------------------------------------------------------------------------
(* The finalizer.                                                            *)

ReadOwed(r) ==
    /\ At(r, "undo")
    /\ worker' = [worker EXCEPT ![r].pc = IF Owes(r) THEN "restore" ELSE "close",
                                ![r].todo = IF Owes(r) THEN run[r].stopped ELSE {}]
    /\ Calm /\ Steps(r) /\ UNCHANGED <<run, job, lease, inst, gaveUp>>

\* SetDesiredState running for every id on the list, a deleted one passed over.
RestoreInstance(r) ==
    /\ At(r, "restore")
    /\ \/ \E i \in worker[r].todo :
            /\ inst' = SetDesired(i, "running")
            /\ worker' = [worker EXCEPT ![r].todo = @ \ {i}]
       \/ worker[r].todo = {} /\ Goto(r, "mark") /\ UNCHANGED inst
    /\ Calm /\ Steps(r) /\ UNCHANGED <<run, job, lease, gaveUp>>

MarkRestored(r) ==
    /\ At(r, "mark") /\ run' = [run EXCEPT ![r].restored = TRUE] /\ Goto(r, "close")
    /\ Calm /\ Steps(r) /\ UNCHANGED <<job, lease, inst, gaveUp>>

\* The first error ends the restoration; it is logged and the sweep is closed.
RestoreFails(r) ==
    /\ worker[r].pc \in {"undo", "restore", "mark"} /\ Owes(r)
    /\ worker' = [worker EXCEPT ![r].pc = "close", ![r].todo = {}]
    /\ gaveUp' = [gaveUp EXCEPT ![r] = IF worker[r].end = "boot" THEN "boot" ELSE "sweep"]
    /\ Fault /\ Steps(r) /\ UNCHANGED <<run, job, lease, inst>>

\* The queue's closing transaction commits the run's end and the release.
Close(r) ==
    /\ At(r, "close") /\ worker[r].end # "boot"
    /\ LET end == worker[r].end IN
        /\ job' = [job EXCEPT ![r] = [state |-> end, cancel |-> FALSE]]
        /\ run' = [run EXCEPT ![r].state =
                     IF end = "succeeded" /\ run[r].ok < Points THEN "partial" ELSE end,
                     ![r].left = IF end = "succeeded" THEN @ ELSE 0]
    /\ lease' = Released(r)
    /\ worker' = [worker EXCEPT ![r] = Idle]
    /\ Calm /\ Steps(r) /\ UNCHANGED <<inst, gaveUp>>

\* It fails, and the queue's recovery fails the job and its run.
CloseFails(r) ==
    /\ At(r, "close") /\ worker[r].end # "boot"
    /\ job' = [job EXCEPT ![r] = [state |-> "failed", cancel |-> FALSE]]
    /\ SetRun(r, "failed")
    /\ lease' = Released(r)
    /\ worker' = [worker EXCEPT ![r] = Idle]
    /\ Fault /\ Steps(r) /\ UNCHANGED <<inst, gaveUp>>

-----------------------------------------------------------------------------
(* Requests, and the supervisor.                                             *)

Cancel(r) ==
    /\ Click
    /\ \/ /\ job[r].state = "queued"
          /\ job' = [job EXCEPT ![r].state = "canceled"]
          /\ run' = [run EXCEPT ![r].state = "canceled", ![r].left = 0]
          /\ lease' = Released(r)
       \/ job[r].state = "running" /\ job' = [job EXCEPT ![r].cancel = TRUE]
          /\ UNCHANGED <<run, lease>>
    /\ UNCHANGED <<worker, inst, daemon, gaveUp>>

\* The points that are still pending are what a retry runs.
Retry(r) ==
    /\ Click /\ job[r].state \in {"failed", "canceled"}
    /\ job' = [job EXCEPT ![r].state = "queued"] /\ SetRun(r, "queued")
    /\ UNCHANGED <<lease, worker, inst, daemon, gaveUp>>

AskInstance(i) ==
    /\ Click /\ ~inst[i].deleted
    /\ \/ \E s \in {"running", "stopped"} :
            inst' = [inst EXCEPT ![i].desired = s, ![i].by = "user"]
       \/ inst' = [inst EXCEPT ![i].desired = "stopped", ![i].deleted = TRUE, ![i].by = "user"]
    /\ UNCHANGED <<run, job, lease, worker, daemon, gaveUp>>

Follow(i) ==
    /\ inst[i].loaded # (inst[i].desired = "running")
    /\ inst' = [inst EXCEPT ![i].loaded = (inst[i].desired = "running")]
    /\ Calm /\ UNCHANGED <<run, job, lease, worker, daemon, gaveUp, clicks>>

-----------------------------------------------------------------------------
(* The daemon dies and the next one reconciles.                              *)

BootOnly == UNCHANGED <<inst, clicks>>

Crash ==
    /\ daemon' = [step |-> "down", boot |-> daemon.boot, tried |-> {}]
    /\ worker' = [r \in Runs |-> Idle] /\ gaveUp' = [r \in Runs |-> "no"]
    /\ Fault /\ BootOnly /\ UNCHANGED <<run, job, lease>>

\* The queue's triage interrupts what was running; SetDomainState leaves the run alone.
Triage ==
    /\ daemon.step = "down"
    /\ daemon' = [step |-> "restore", boot |-> daemon.boot + 1, tried |-> {}]
    /\ job' = [r \in Runs |-> IF job[r].state = "running"
                              THEN [state |-> "interrupted", cancel |-> FALSE] ELSE job[r]]
    /\ Calm /\ BootOnly /\ UNCHANGED <<run, lease, worker, gaveUp>>

\* Step 1: every run that owes, in any state, one after the other.
BootRestore(r) ==
    /\ daemon.step = "restore" /\ Owes(r) /\ r \notin daemon.tried
    /\ \A q \in Runs : worker[q] = Idle
    /\ worker' = [worker EXCEPT ![r] = [pc |-> "undo", todo |-> {}, end |-> "boot"]]
    /\ daemon' = [daemon EXCEPT !.tried = @ \cup {r}]
    /\ Calm /\ BootOnly /\ UNCHANGED <<run, job, lease, gaveUp>>

BootRestored(r) ==
    /\ At(r, "close") /\ worker[r].end = "boot" /\ worker' = [worker EXCEPT ![r] = Idle]
    /\ Calm /\ BootOnly /\ UNCHANGED <<run, job, lease, daemon, gaveUp>>

\* Mutant: a boot restores for the runs it finds running.
NextStepRunning ==
    \/ /\ daemon.step = "restore" /\ \A r \in Runs : worker[r] = Idle
       /\ \A r \in Runs : Owes(r) /\ run[r].state = "running" => r \in daemon.tried
       /\ daemon' = [daemon EXCEPT !.step = "resolve", !.tried = {}]
    \/ /\ daemon.step = "resolve"
       /\ \A r \in Runs : job[r].state = "interrupted" => r \in daemon.tried
       /\ daemon' = [daemon EXCEPT !.step = "release", !.tried = {}]

NextStep ==
    \/ /\ daemon.step = "restore" /\ \A r \in Runs : worker[r] = Idle
       /\ \A r \in Runs : Owes(r) => r \in daemon.tried
       /\ daemon' = [daemon EXCEPT !.step = "resolve", !.tried = {}]
    \/ /\ daemon.step = "resolve"
       /\ \A r \in Runs : job[r].state = "interrupted" => r \in daemon.tried
       /\ daemon' = [daemon EXCEPT !.step = "release", !.tried = {}]

BootStep ==
    NextStep /\ Calm /\ BootOnly /\ UNCHANGED <<run, job, lease, worker, gaveUp>>

\* Step 2: an interrupted job becomes failed and its run failed or partial, in one
\* transaction; a failed transaction leaves the job for the next boot.
ResolveInterrupted(r) ==
    /\ daemon.step = "resolve" /\ job[r].state = "interrupted" /\ r \notin daemon.tried
    /\ \/ /\ job' = [job EXCEPT ![r].state = "failed"]
          /\ run' = [run EXCEPT ![r].state = IF run[r].ok > 0 THEN "partial" ELSE "failed",
                                ![r].left = 0]
          /\ lease' = Released(r)
          /\ Calm
       \/ Fault /\ UNCHANGED <<run, job, lease>>
    /\ daemon' = [daemon EXCEPT !.tried = @ \cup {r}]
    /\ BootOnly /\ UNCHANGED <<worker, gaveUp>>

\* Step 3: a lease of another boot, unless its run still owes; then the daemon serves.
ReleaseForeignLease ==
    /\ daemon.step = "release"
    /\ \/ /\ lease' = IF lease.run # NoRun /\ lease.boot # daemon.boot
                      THEN Released(lease.run) ELSE lease
          /\ Calm
       \/ Fault /\ UNCHANGED lease
    /\ daemon' = [daemon EXCEPT !.step = "up"]
    /\ BootOnly /\ UNCHANGED <<run, job, worker, gaveUp>>

-----------------------------------------------------------------------------
Sweep(r) == Preflight(r) \/ List(r) \/ StopInstance(r) \/ Begin(r) \/ RunPoint(r)
            \/ LeavePoints(r) \/ Close(r)
Restore(r) == ReadOwed(r) \/ RestoreInstance(r) \/ MarkRestored(r)
Boot == Triage \/ BootStep \/ ReleaseForeignLease
        \/ \E r \in Runs : BootRestore(r) \/ BootRestored(r) \/ ResolveInterrupted(r)

Next ==
    \/ \E r \in Runs : \/ Start(r) \/ Sweep(r) \/ Restore(r)
                       \/ PrepareFails(r) \/ RestoreFails(r) \/ CloseFails(r)
                       \/ Cancel(r) \/ Retry(r)
    \/ \E i \in Instances : AskInstance(i) \/ Follow(i)
    \/ Crash \/ Boot

Spec == Init /\ [][Next]_vars

\* The queue tries again, a worker goes on, a dead daemon is restarted.
FairSpec ==
    /\ Spec
    /\ \A r \in Runs : SF_vars(Start(r)) /\ WF_vars(Sweep(r)) /\ WF_vars(Restore(r))
    /\ WF_vars(Boot)
    /\ \A i \in Instances : WF_vars(Follow(i))

-----------------------------------------------------------------------------
(* What should hold.                                                         *)

\* The type invariant.
TypeOK ==
    /\ \A r \in Runs :
        /\ run[r].state \in {"queued", "preflight", "running", "succeeded", "partial", "failed",
                             "canceled"}
        /\ run[r].left + run[r].ok <= Points /\ run[r].stopped \subseteq Instances
        /\ job[r].state \in {"queued", "running", "succeeded", "failed", "canceled",
                             "interrupted"}
        /\ worker[r].todo \subseteq Instances
        /\ Sweeping(r) => job[r].state = "running"
    /\ lease.run \in Runs \cup {NoRun}

\* D75: one sweep at a time on the GPUs, whatever heartbeats, retries and boots do.
OneSweep == \A q, r \in Runs : Sweeping(q) /\ Sweeping(r) => q = r

\* An instance a benchmark stopped, and nobody asked about since, is on the list of a run
\* that still owes it a restart: whatever dies, the next boot finds it.
StoppedAreOwed ==
    \A i \in Instances : inst[i].by = "bench" /\ inst[i].desired = "stopped"
        => \E r \in Runs : Owes(r) /\ i \in run[r].stopped

\* No sweep starts into a half-restored fleet: while one goes on, the others owe nothing,
\* but for one whose restoration failed at boot and whose lease then expired.
SweepsApart ==
    \A r, q \in Runs : Sweeping(r) /\ Owes(q) => q = r \/ gaveUp[q] = "boot"

\* What is stopped for a benchmark is restored, however the sweep ends, unless the
\* restoration itself fails; then the next boot tries again.
StoppedIsRestored == \A r \in Runs : Owes(r) ~> ~Owes(r) \/ gaveUp[r] # "no"

\* A waiting sweep is not forgotten, however often it is deferred: it starts or is
\* canceled, unless it waits behind a run whose restoration failed.
WaitingGoes ==
    \A r \in Runs : job[r].state = "queued"
        ~> job[r].state # "queued" \/ \E q \in Runs : gaveUp[q] # "no"

=============================================================================
