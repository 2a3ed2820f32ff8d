# A verification of llamaman

llamaman is a daemon that manages llama.cpp on one machine: it installs and
activates llama.cpp builds, downloads models from Hugging Face, runs
`llama-server` instances under systemd, proxies them behind an OpenAI-compatible
gateway, benchmarks them and updates itself. Almost everything it does that
takes longer than a request is a row of its job queue, and almost every hard
question about it is one of these: which of several actors may write a row, what
survives a crash, what a late answer overwrites, and whether something that was
accepted ever happens.

This directory holds TLA+ modules translated from the source, the TLC
configurations that check them on small instances, and TLAPS proofs of what
matters most for every instance. `PROJECT.json` maps each definition to the lines
it stands for. Paths below are relative to `src/internal/`.

## 1. Inventory

| component | state it keeps | operations | talks to | module |
|---|---|---|---|---|
| `jobs` | the `jobs` table; one goroutine per concurrency slot with its Task | enqueue, claim, start, heartbeat, finish, recover, cancel, retry, pause, resume, boot triage | every kind's Worker, DomainWriter, Starter and CancelGuard; finalizers at boot | `JobQueue` |
| `hf/download` | `downloads`, `download_tasks`, `model_files`; partial files; the file pool | create, run, transfer, complete, pause, resume, retry, cancel, sweep | `jobs`, `hf/cache`, the Hub | `Download` |
| `llamacpp` | `llamacpp_versions` with its active/previous flags, the build lease, `versions/<id>`, two symlinks | install, build, activate, roll, revert, delete, reconcile | `jobs`, instances through systemd | `Versions` |
| `selfupdate` | `self_updates`, the marker file, the retained binary, what systemd makes of the unit | apply, download, verify, stage, swap, confirm, roll back | `jobs`, systemd, two privileged units, the next process | `SelfUpdate` |
| `supervisor` | instance statuses, the start ledger, its memory of timeouts | reconcile, start, stop, inhibit, reassign a port, boot | systemd, `instances`, the launcher | `Supervisor` |
| `instances` | the configuration rows and their hash | create, edit, validate, start, stop, safe start, delete | `supervisor`, `models` | part of `Supervisor`, the hash in `Library` |
| `bench` | `bench_runs`, the bench lease, the list of stopped instances | start, stop instances, run, restore, reconcile | `jobs`, `supervisor` | `Bench` |
| `gateway` | the routing table, listeners, usage counters | route, reconcile, drain, hand off, flush | `tokens`, instances, systemd's descriptor store | `Gateway` |
| `tokens` | tokens, the verification cache and its epoch, rate buckets, last-used times | create, verify, revoke, limit, flush | `gateway` | part of `Gateway` |
| `auth` | the administrator, sessions, the lockout, the setup token | claim, log in, log out | `api` | |
| `hf/cache` | blobs, snapshots and refs on disk, lock files | lock, link, delete, walk | other programs that share the cache | `Library` |
| `models` | `models`, `model_files`, scans | scan, verify, delete | `jobs`, `hf/cache`, `instances` | `Library` |
| `events`, `sse` | subscribers, the event log | publish, replay | `ui` | |
| `store` | SQLite, migrations | one writer at a time | everybody | one transaction is one action everywhere |
| `app`, `cli` | the process's phases, the launcher | startup, shutdown, exec | all of them | phases of `JobQueue`, `SelfUpdate`, `Gateway`; the launcher in `Supervisor` and `Versions` |
| `api`, `systemd`, `settings`, `setup`, `diagnostics` | wiring, settings | requests | all of them | |
| `gguf`, `fit`, `hw`, `toolchain`, `procx`, `netutil`, `secrets`, `logx`, `mdrender`, `buildinfo`, `web` | none, or caches | parsing, arithmetic, probes | | |
| `ui`, `installer`, `packaging` | none | | `api`, the operating system | |

What is hard in each, and what makes it correct:

* **jobs** - the queue's statements are atomic, but between them a runner holds a
  copy of the row. Cancels, pauses, crashes and failed writes fall in every gap.
  Correct: one worker per subject, no lease that nobody will ever close, a job and
  its activity move together, budgets hold, an accepted cancel works, nothing
  starves.
* **hf/download** - the same fact is stored three times (tasks, fold, job) and
  written by a worker, the queue and the user. Correct: the fold is right
  whoever writes, success means every file, a late request damages nothing.
* **llamacpp** - rows, links, directories and running instances change one after
  the other and a crash may fall between any two. Correct: the active build exists
  and is the one the links name, one build at a time, an owed delete happens.
* **selfupdate** - two processes that never run together hand a marker to each
  other, and two privileged units act on it while systemd restarts the daemon.
  Correct: a binary that cannot boot is replaced by the old one, a binary that
  cannot read the database never comes back, every marker is resolved.
* **supervisor, instances** - decisions are taken on snapshots of two systems that
  move, by several passes at once. Correct: no process without its ledger row, a
  crash loop ends, what the user wants is what comes about.
* **bench** - instances that were stopped must come back whatever happens to the
  run, and two sweeps never share the GPUs.
* **gateway, tokens** - counters and caches beside concurrent requests, and sockets
  that outlive the process. Correct: nothing counted twice or lost by a failed
  flush, a revoked token stays revoked, a restart loses nothing.
* **auth** - counting failures and claiming a token exactly once.
* **hf/cache, models** - a directory tree shared with programs that do not know
  about us, and rows that downloads, deletions, verifications and overlapping scans
  write from what they saw minutes ago. Correct: no entry leads to a blob that is gone,
  nobody's model is deleted, what an instance was rendered from is what its hash says.
* **events, sse** - bounded queues, replay against live.

## 2. Plan

1. `JobQueue`, its abstract specification `JobLifecycle`, the refinement
   `JobQueueImplements`. **Done**: safety, liveness and refinement checked; every
   safety property and the refinement proved (`JobQueueProofs`).
2. `Download`. **Done**, checked; every safety property proved (`DownloadProofs`).
3. `Versions`: build lease, activation, canary roll, revert, owed delete, links,
   boot reconciliation. **Done**, checked and proved (`VersionsProofs`).
4. `SelfUpdate`: marker, gate, judge, actor; a crash at every step. **Done**, checked;
   every safety property proved (`SelfUpdateProofs`).
5. `Supervisor`: derived state, policy, backoff, inhibition, ports. **Done**, checked;
   its ledger proved (`SupervisorProofs`).
6. `Bench`: lease, stop list, restoration, finalizer. **Done**, checked; every safety
   property proved (`BenchProofs`).
7. `Gateway` with the tokens: accounting with flush and restore, revocation
   cache, drain and hand-off. **Done**, checked; every safety property proved
   (`GatewayProofs`).
8. `Library`: the cache's blobs, entries and locks, the model rows, the hash of the
   instances. **Done**, checked; every safety property proved (`LibraryProofs`).

Next, in this order:

* `Auth`: login failures and the lockout window, the claim of the setup token.
* The event stream, settings, and the migration planner as a pure algorithm.

## 3. Modules

| module | models | role |
|---|---|---|
| `JobQueue` | `jobs/*.go`, the jobs statements of `store` | the queue in detail |
| `JobLifecycle` | what a job is to everyone else | abstract specification |
| `JobQueueImplements` | | refinement mapping between the two |
| `JobQueueProofs` | | theorems about `JobQueue` for every instance, the refinement among them |
| `Download` | `hf/download`, the downloads statements of `store` | one download |
| `Versions` | `llamacpp`, its statements in `store`, the launcher's `resolveRuntime` | the version library |
| `SelfUpdate` | `selfupdate`, its part of `app`, the units of `packaging` | the update across processes |
| `Supervisor` | `supervisor`, the control requests of `instances`, the launcher of `cli` | one instance |
| `Bench` | `bench`, its statements in `store` | the sweeps of one host |
| `Library` | `hf/cache`, `models`, the publication in `hf/download`, the hash in `instances` | two models, the disk and who uses them |
| `Gateway` | `gateway`, `tokens`, the stop and the adoption in `app` | the gateway of one process after another |
| `DownloadProofs`, `VersionsProofs`, `SelfUpdateProofs`, `SupervisorProofs`, `BenchProofs`, `LibraryProofs`, `GatewayProofs` | | theorems about the module each is named for |
| `JobQueueMC`, `VersionsMC`, `SelfUpdateMC`, `SupervisorMC`, `BenchMC`, `GatewayMC`, `LibraryMC` | | the instances TLC checks |

The components meet in the database and in systemd. Each module keeps the other
side of a meeting at the grain its own code sees: `Download`, `Versions`,
`SelfUpdate` and `Bench` see of the queue the state of their job and the moments at
which a worker is started, told to stop and closed (what `JobQueue` establishes
about leases is what makes that grain sound); `Bench` sees of the supervisor that a
desired state comes about (`Supervisor`'s `StopSettles` and `WantedSettles`);
`Gateway` sees rows of instances and not who writes them; `Library` sees a download
from its first look at the blob to the catalog's row, and leaves its rows to `Download`.

### JobQueue

One action is one `store.Write` transaction, or one step of a runner between two.
SQLite has one writer, so a transaction is atomic; everything between two
transactions interleaves.

| variable | code |
|---|---|
| `job` | the row: `state`, `attempts`, `max_attempts`, `lease_owner`, `cancel_requested` |
| `domain` | the state the last transaction handed to the kind's DomainWriter or Commit |
| `due`, `older` | `run_after`: who is due, and in which order they became so |
| `runner` | per goroutine, where it stands in `RunOnce` and the Task it holds (its copy of the budget, `cancelRequested`, `leaseLost`) |
| `phase`, `boot` | the process, and `runtime_info.boot_id`, the lease owner |
| `stranded`, `faults`, `clicks` | rows given up with a log line; counters of the bounds |

`Claim` is `claim`; `Start...` are the branches of `start`; `Close...` those of
`finish`; `Recover...` is `recoverUnclosed`; `Boot` is `RecoverOrphans`; `Settle`
stands for the finalizers of `bench`, `llamacpp` and `selfupdate`, which close an
interrupted job before the daemon serves. `StartFails` may fail *before* the write
is made; a commit that succeeds and reports an error is not modelled. A lease's
expiry time is left out because no statement reads it as a guard: a lease ends when
its row is written, or when another boot id comes.

### Download

`task` is the state of each `download_tasks` row, `stored` is `downloads.state`,
`job` the jobs row at the grain the worker sees, `run` the position of
`Worker.Run` in each slot that runs the job with the files left to start (`todo`)
and in flight (`moving`), `asks` the requests whose check has been made and whose
write has not. `Fold` is the code's fold with its precedence, `WriteState` is
`writeState`, `AllTasks` the bulk UPDATE with its exception for landed and canceled
tasks. Transfers land, fail, are cut, or are tried again (`Reassert`); what they do
byte by byte is not modelled.

### Versions

| variable | code |
|---|---|
| `row`, `flags` | `llamacpp_versions.state`; who holds `is_active` and `previous_active` |
| `job` | the latest job of each version with the params that matter: the roll, `keep_previous`, the deletion candidate |
| `lease` | the `build_lease` row |
| `tree`, `link` | `versions/<id>` (whole, partial, gone); `versions/active` and `versions/previous` |
| `work` | per job, the position of its worker and what it remembers: the flags before the flip, the instances left to roll |
| `asked` | requests whose look at the row and at `/proc` is past and whose transaction is not |
| `inst` | per unit: the desired state, the process, the directory it executes out of |
| `phase`, `boot` | the daemon: up, draining, down, or at a step of `Reconcile` |

A transaction, a rename, one link pair, or one step of a roll is an action. The queue
appears at the grain its three kinds see: `Start...` are the Starters, `Close...` the
closing transactions with the DomainWriters, `CloseFails` is `recoverUnclosed`,
`Boot` is `RecoverOrphans`. `Install` stands for `installFresh` and `installReset`,
`Displace`, `Swap` and `SwapFails` for the publication over an existing directory,
`RemoveSome` and `Remove` for `os.RemoveAll`, `RollStop` to `RollFails` for
`Restart` of one instance after the other, `Revert` and `Relink` for `revert`,
`Launch` and `Execute` for the two looks the launcher takes (the active row, then
the link). `ReleaseForeignLease`, `RepairAtBoot` and `SettleActivation` are
`Reconcile`, which an error may end at any step (`ReconcileFails`) without stopping
the daemon.

The constant `Liberties` names two behaviours that the code permits, and that break
what the run checks: a delete by hand beside an activation ("overlap"), and a cancel
that a worker reads just after its flip ("late_cancel"). The run leaves them out, so
that its properties speak of everything else; section 5 says what each of them does.
`hollow` is a history variable: the versions without a whole directory on which a
delete has begun, which `TreeBehindRow` excepts (section 5, again).

### SelfUpdate

| variable | code |
|---|---|
| `row`, `job`, `work` | `self_updates`, the job, and the worker's position in its pipeline |
| `scratch`, `pending`, `memo` | the verified tarball under `update/`, the marker `update/pending`, the copy of it in the memory of a boot that removed it before migrating |
| `disk` | the installed binary, `llamaman.prev`, and whether that was retained for the marker written last |
| `schema`, `release` | the schema version of the database; what each release needs and where it dies |
| `proc`, `starts` | `llamaman.service`: the step of the daemon, its release, the starts that count against `StartLimitBurst=` |
| `actor`, `judge` | the swap unit and the revert unit `OnFailure=` starts, at their steps |
| `call` | the three callers of `ResolveUpdateMarkers`: before READY=1, on the ticker, and inside Apply |

The boot is `OpenDatabase`, `DisarmBeforeMigration`, `Migrate`, `Triage`, the gate
and `SignalReady`; the gate is `TakeMarker`, `AskActors`, one of its outcomes,
`CloseOrphans`, `Unlink`. The actor's steps are the ones of the swap script
(`Preflight`, `Retain`, `ExtractBinary`, `Install`, `RestartDaemon`). A new release
may always die at the opening of the database, in the migration or in the gate, or
work; a crash of the daemon, of an actor or of the host may fall anywhere.

### Supervisor

| variable | code |
|---|---|
| `inst`, `status`, `starts` | the rows of `instances` (the columns that matter here), `instance_status`, `instance_starts` in the order of `at` |
| `unit` | ActiveState, the exit seen last, and the step the process is at: the launcher's transaction, its preflight, loading, serving, hung |
| `pass` | each call of `Reconcile` in flight with the rows and the observation it has read, and the action it decided |
| `memory` | the maps `timedOut` and `synthesized` |
| `daemon`, `host`, `request` | the boot reconciliation, a new host boot, a control request between its transaction and its call |

A pass goes `Subjects`, `ReadRows`, `Observe`, `Record` (the transaction that closes
a row, or writes one for a run nobody wrote down), `Evaluate` (the policy, a pure
function of what was read) and then its action: `StampStart` and `CallStart`,
`CallStop`, `Inhibit`, `ReassignInternalPort`, `MarkPortPoolExhausted`. Nothing
locks passes out of each other, as in the code. The launcher is `OpenStart` (its
transaction, with the gate on the desired state), `Exec`, `FailStart`. A backoff may
last as long as it likes; the restart window is longer than a behaviour.

### Bench

`run` and `job` are the two rows of each sweep, `lease` the `bench_lease` row,
`worker` the sweep or the finalizer that goes on for a run (`Preflight`, `List`,
`StopInstance`, `Begin`, `RunPoint`, `Close`, then `ReadOwed`, `RestoreInstance`,
`MarkRestored`), `inst` each instance with who wrote its desired state last, and
`daemon` the step of `bench.Reconcile`: `BootRestore` for every run that owes,
`ResolveInterrupted`, `ReleaseForeignLease`. `Follow` is the supervisor.

### Gateway

`door` is the listener of each instance, `adopted` the sockets of `LISTEN_FDS`,
`fdstore` systemd's store of descriptors; `cache` is the verification cache's entry
of the one token with the epoch it carries; `counted`, `flush` and `stored` are the
counters in memory, what the two flushers (Run's loop and the denials endpoint)
have taken, and the tables. `ReadRows`, `ReconcileRow`, `EndReconcile` are one pass
over the instances; `Accept`, `ReadToken`, `StoreEntry`, `Finish` one request;
`Drain`, `WriteUsage`, `WriteFails`, `TouchTokens` one flush; `BeginStop`,
`EndDrain`, `HandOff`, `StopServer`, `Exit` the ordered stop. The history variables
`booked` and `lost` say what was ever counted and what died in memory.

### Library

| variable | code |
|---|---|
| `row`, `file` | `models.state`; `model_files.state` (one file a model) |
| `link`, `blob` | the entries under `snapshots/`, the files under `blobs/` |
| `lock` | the flock of a blob's lock file, held by a transfer or a deletion |
| `load` | the step of each model's download: asked for, `transferOnce`, landed, verified |
| `ask`, `job` | delete requests whose first guard is past; the live `model_delete` or `model_verify` with the plan or the row it read |
| `due`, `scan` | queued scans; those that go on, with what their walk saw |
| `serve`, `hash` | the model each instance serves; whether its `config_hash` was computed with a path |
| `bare`, `late` | history: entries made without the lock; instances configured for a model on its way out |

`Stat`, `TakeLock`, `Publish`, `Link`, `Landed` are the steps of `transferOnce` and
`link`; `VerifyLoaded` and `CompleteLoad` the two transactions after them;
`AskDelete` and `MarkDeleting` the two phases of `Delete`, `PlanDelete` to `Deleted`
what `ExecuteDelete` does; `ReadVerify`, `LookAtFile`, `Verified` the verification;
`LeaseScan`, `WalkSnapshot`, `Upsert`, `MarkMissing` a scan, one snapshot and one row
at a time. `Recompute` stands for `recomputeFor`; a hash is "path" or "pending", the
two values of the placeholder, since nothing else in it moves here.

## 4. Runs

| run | question | result |
|---|---|---|
| `jobs_exclusive` | Do crashes, failed writes, cancels and retries leave one worker per subject, no lease of a dead boot, budgets kept? Is the queue a job lifecycle? | holds |
| `jobs_fair` | With pauses: is a held row ever forgotten, do the rows move together, is a cancelled job ever started, does a cancel arrive, does nothing starve? | holds |
| `jobs_owner` | Does a runner write only what it owns? | **violated** |
| `download` | Fold, success, landed files, coming to rest | holds |
| `versions` | Has every ready or flagged build its directory, do the links follow the rows, does the verdict of an activation tell which build is active and linked, is the build that loses its slot retired, is a process's directory left alone? | holds |
| `update` | One update in flight; is a binary that cannot boot rolled back, never onto a database it cannot read, is every marker resolved? | holds |
| `supervisor` | With two passes at once and every policy: has every process its ledger row, does a crash loop end, is a refusal written once? | holds |
| `supervisor_fair` | With faults anywhere: does a stop come to rest, does a wanted instance serve or be refused for a reason? | holds |
| `library` | Does an entry made under the lock always lead to its blob, is a model deleted from nobody but a latecomer, do scans and deletions leave hashes current? | holds |
| `library_hash` | Is the hash of an instance that of its model's path when nothing is left to do? | **violated** |
| `bench` | One sweep at a time; is what was stopped owed by a run, restored, and before the next sweep? Does a waiting sweep go? | holds |
| `gateway` | Is nothing counted twice or forgotten, a revoked token refused, nothing lost by a restart, does every count arrive? | holds |

**The bounds.** Each run has the smallest set in which everything that can collide
does; the counters (`MaxBoots`, `MaxFaults`, `MaxClicks`, `MaxAsks`, `MaxRestarts`,
`MaxServed`) limit the environment only, and none of the program's own steps is
bounded.

* `jobs_exclusive`: two jobs of one subject (an activation and an install of one
  version) beside a job of another kind of triage with a budget of two, two runners,
  two boots, two failed writes (for the closing and the recovery of one row), one
  cancel or retry.
* `jobs_fair`: a deferring install and a download that is paused; two runners, so that
  a paused job is claimed again beside its first worker; two requests, a pause and a
  resume or a cancel; one failed write, two boots.
* `download`: two files (one can land while the other moves), two slots (two runs may
  overlap), a pool of one (so files compete), two requests (a pause and a resume, a
  cancel and a retry), a failed write and a restart.
* `versions`: two installed builds, one active and the other the rollback target, and
  a third to install, a prebuilt whose fallback is one of the two; two requests, one
  that makes a job and one that collides with it; one failed write, link or removal;
  one restart. There is one instance, the canary of every roll: what a roll does with
  the instances after the canary (the branches of `RollStop` and `RollFails` for a
  second one) is in the module, and is not reached by this run, which with two
  instances and both values of `keep_previous` takes longer than the five minutes a
  run may take.
* `update`: two updates, so that a marker, a retained binary or a call of one meets
  the other; a release that works or dies in its gate, with and without a migration;
  two starts before the limit, the least with which a restart may succeed before it;
  one fault, two requests.
* `supervisor`: two passes, all policies, a setup that can start or is broken, a
  second program that holds no port, the first or both. `RestartMax` is 1: one
  automatic restart, then the latch. Faults belong to `supervisor_fair`, with one pass
  and one policy, where a fault may be a death of the process, the daemon or the host,
  or a failed write or call.
* `bench`: two sweeps, one that stops what is in its way and one that gives up; one
  instance both want; one point, done or failed; one request and two faults, for a
  sweep that dies and a restoration that fails.
* `gateway`: one instance with two ports to move between, one request at a time, twice;
  two requests of a user (a stop and an edit, a revocation and a restart), one fault.
  With one instance no bind is ever blocked by the socket of another instance; that
  branch of `Reconcile`, a log line and a retry at the next pass, is not reached.

* `library`: two models of one blob, which is what sharing takes; one instance; two
  scans, which may overlap with everything and each other; three requests (a deletion,
  the download that meets it, the instance or scan that meets both) and two faults.
  `library_hash` needs two requests and no fault.

`CHECK_DEADLOCK FALSE` is set because each of these systems, without work and at the
end of its bounds, rests.

**Fairness.** Assumed is what the code's own goroutines, and systemd, do by
themselves: a runner claims what is ready and goes on from where it is, its heartbeat
ticks; the supervisor's loop ticks and a pass that began goes on; Run's loop of the
gateway turns; the ticker of the update's gate fires; a backoff passes; systemd
restarts the daemon and starts the units it owes; a boot that started serves. Nobody
owes a crash, a failed write, a request or a shutdown. Workers are not assumed to
return before their context is cut. Weak fairness is enough but for these, which
others disable again and again while they wait, and each of which retries on a timer:
`Evaluate` of a pass (a backoff or another pass may be in the way), `WriteMarker` of a
worker (it waits for a gate call to be over, and the ticker begins another every
20 s), `Start` of a sweep (deferred while the lease is held), `Drain` of Run's flush
(the other flusher holds the lock). `Versions` claims no liveness: a build, a health
check and a user owe no answer.

**Mutants.** Each property of a passing run is paired with a mutant of one
definition - a forgotten kind in the triage, a Retry without the unique index, an
off-by-one in the budget, a worker deaf to its heartbeat, a fold left to the end,
a delete that trusts the request's look, a lease released whoever owes, a deletion that trusts the count of its plan, a gate that
confirms while the actor works, a launcher that opens a second row, a flush that
forgets what it could not write - under which TLC finds it violated.

## 5. What the runs found

* **A pause breaks the exclusive lease** (`jobs_owner`). Pause sets a *running* row
  to `paused` and drops its owner; resume makes it ready; a runner of the same boot
  claims it. The first runner learns at its next heartbeat, up to 15 s later - and
  not even then, since the row is again held by its boot id. If its worker returns,
  `finish` closes a job that another runner is working on. The comment in `finish`
  calls this the one thing that must never happen.
* **A landed download leaves every hash as it was** (`library_hash`). `recompute` of
  `hf/download` passes the ids of models to `instances.RecomputeConfigHash`, which
  selects instances by id (`hf/download/service.go:1116`, `instances/service.go:873`,
  wired at `app/catalog.go:71`); `models` translates first (`models/service.go:455`).
  No row matches. An instance configured while its model downloads keeps the hash of
  a model without a path, though D69 says it is recomputed in the same transaction; the
  scan after the download sees a row that is ready already and recomputes nothing.

**Further disagreements** between the code and its comments or design, met while
modelling. Where a module states the broken property, its name is given: added to the
configuration of that module's run, TLC shows the behaviour (for those of `Versions`
with the liberty named).

`jobs`, `hf/download`
: * `RestAgrees`: a cancel that is seen after the last file landed cancels the job and
    leaves the download `verifying`, in which no verb but cancel is offered
    (`hf/download/service.go:1038`, DESIGN 2.3a).
  * `RetryRequeues`: a retried canceled download stays canceled until a file starts:
    the tasks keep `canceled`, so the fold does (`store/downloads.go:440`).
    `LiveDownloadForModel` then does not see it either.
  * `recordTaskError` (`hf/download/transfer.go:648`) sets a task to `running` without
    folding; after a pause the stored state is no longer the fold. `StoredIsFold` is
    stated for downloads that nobody paused.
  * After a failed attempt the job is `queued` for its backoff while the download is
    `failed`: Cancel refuses it as ended and Retry refuses it as not ended.
  * `verifyModels` (`hf/download/worker.go:680`) marks the model incomplete in the
    transaction its own error rolls back.
  * `ReleaseLeases` (`jobs/queue.go:226`) has no caller.

`llamacpp`
: * `BuildAlone`: the build lease admits its own owner, and the owner is the boot, not
    the job (`store/llamacpp.go:593`, `jobs/queue.go:36`): the second install of a boot
    takes the lease over, and frees it at its end while the first still builds.
  * `RevertFindsBuilds` (liberty "overlap"): while the canary rolls, the outgoing build
    of an activation that keeps nothing holds no flag; a delete by hand removes it, and
    the failed canary makes the deleted row active (`llamacpp/service.go:796`).
  * `CanceledKeepsFlags` (liberty "late_cancel"): a cancel accepted before the flip and
    read after it ends the job canceled with the flags moved (`llamacpp/activate.go:137`).
  * A delete that is refused sets the row to `ready` without a look at the directory
    (`llamacpp/delete.go:160`): where an earlier delete was incomplete, a partial tree
    becomes `ready`. The proof of `TreeBehindRow` met a second way there, beyond the
    bounds of the run: a rebuild of the rollback target dies between setting the old
    directory aside and publishing the new one, and is canceled; an activation of the
    version already active flips, fails its roll and crashes; the boot queues the delete
    of the target, which holds its flag again by the time the worker looks; the refusal
    declares it `ready`. `TreeBehindRow` excepts the versions of `hollow` for both.
  * When `repairLinks` fails after the flip, the activation ends `failed` with the flags
    moved (`llamacpp/activate.go:138`), hence `faults = 0` in `LinksFollowRows`.
  * A shutdown, a crash or a failed restart inside a roll leaves an instance with its
    desired state `stopped` (`llamacpp/roll.go:188`), which nothing takes back.
  * An activation that keeps no rollback target clears the old one and never queues its
    delete; one of the version already active gives the rollback target away.
  * A prebuilt whose source replacement has a live job cannot close: it ends
    `interrupted` and keeps the build lease.

`selfupdate`
: * `RevertOpens`: the preflight of the second update writes a new marker while
    `llamaman.prev` is still the first one's, and a judge that comes in between
    restores a binary older than the database (`selfupdate/worker.go:141`,
    `selfupdate/gate.go:247`). `OwnRevertOpens` speaks of the binary retained for the
    marker at hand.
  * A marker may be judged across the swap of the daemon that judges it (`crossed`),
    and the judge then misses the marker it needs. The gate takes branch 3, "never
    applied", when systemd does not answer while the actor works. Or, with no fault
    at all and found while the proof of `FreshIsArmed` was sought: the actor outlasts
    the 120 s of the daemon that waits for it, the old release boots beneath it,
    retries, cancels, and accepts an update to its own version; the actor installs the
    first one; the ticker takes the new marker for an update that took and unlinks it;
    and the binary on disk spends its start limit without a marker. The comment at
    `selfupdate/service.go:287` has the guard prove `pending` absent, which it is not
    when the gate deferred to the actor. A swap across a swap may also retain a binary
    that no daemon ever ran.
  * A gate call that errs before READY=1 is logged and the daemon signals READY=1 all
    the same; a late cancel ends an update whose marker is written; a generic retry of
    an ended `self_update` job passes by the guard of Apply; a reinstallation of the
    installed version is confirmed before the actor has run; the copy of a marker in
    the memory of a boot that disarmed it dies with that boot.

`supervisor`, `instances`
: * `OverrideKept`, a safe start starts unsafely: the request stamps trigger and
    override on the row and kicks a pass; the pass finds an instance that is wanted and
    down, and stamps its own start over both, before any launcher has read them
    (`supervisor/act.go:164`, against `instances/control.go:42`).
  * `reconcileOpenRows` closes by instance what it decided on an observation, while
    systemd starts units beside it: the row of a live run may be closed as failed.
    `RunIsLedgered` makes that its only exception.
  * A launcher that cannot write its closure with exit 78 leaves a lost port unnamed:
    every pass moves the port and none starts the instance (`Untold`), against the
    comment at `supervisor/act.go:270`.
  * Two passes on one stale count each start a failing run, one more than D64 allows;
    `CrashLoopBounded` counts them.
  * A stale pass writes the whole status row and undoes `ClearCrashLoopLatch`; an
    instance observed `unknown` in between is restarted after a clean exit; a unit that
    hangs in its stop is never stopped again, and `loading` has no timeout (DESIGN 1298).
  * A boot closes a stop that was asked for as failed, and counts it; a synthesis is
    remembered in memory though its transaction rolled back; the triggers `user` and
    `bench_restore` are overwritten by the pass's own stamp, like the safe start's.

`bench`
: * After a boot whose restoration failed, an expired lease lets a second sweep start
    into the half-restored fleet (`store/bench.go:614`, against
    `bench/restore.go:33`): the exception in `SweepsApart`.
  * A retry after a failed restoration overwrites the list of the first one.
  * A restoration starts an instance its user has stopped meanwhile.

`hf/cache`, `models`
: * The short-circuit of `transferOnce` links a blob that is there without the lock
    (`hf/download/transfer.go:168`); a deletion between its last count and its removal
    then leaves an entry that leads nowhere, against `hf/cache/delete.go:182`.
    `NoDanglingLink` excepts the entries of the history variable `bare`; the transfer
    itself notices and is tried again.
  * A download that fails or is cancelled leaves its model `downloading` or `planned`,
    which `guardDelete` refuses because "a download owns those rows"
    (`models/delete.go:266`); no code writes the `incomplete` of DESIGN 2.6.
  * A scan that walked before a deletion makes the row `ready` again, whether it is
    `deleting` or `deleted`; a scan that walked before a download landed, and ends after
    the scan that follows it, leaves the model `missing` until another one.
  * A verification commits the verdict over whatever the row has become, and recomputes
    only if the row it read differed (`models/verify.go:157`); a deletion that waits in
    the queue runs on a row that a new download has planned again.
  * An instance may be pointed at a model that is being deleted: `Create` and `Patch`
    take any row. `OnlyLatecomersLose` excuses those.

`gateway`, `tokens`
: * `DELETE ?purge=true` removes the row of an instance (`instances/service.go:754`); a
    count for it in memory then makes every later flush fail (`store/usage.go:48`),
    and the tokens' flush with it, against `gateway/accounting.go:23`. `CountsArrive`
    excuses a purge.
  * On SIGTERM Run's context ends at once, so its last flush runs before the drain, and
    what requests count during the drain is lost, against `serve.go:219`.
    `RestartLosesNothing` speaks of the other path.
  * Nothing removes a stored descriptor: the port of a deleted or moved instance stays
    bound until a full stop, and after a move two descriptors have one name.
  * `tokens.Invalidate` is not called by the deletion of an instance, though
    `tokens/service.go:161` says it must be; a listener opened by `Reconcile` during the
    drain is handed off undrained, and one it closes is not waited for; `ui` is never
    stored, although DESIGN 4606 says so; `notify.go:155` says that nothing calls it.

## 6. Proofs

TLC checks the instances of section 4; the theorems hold for every value of the
constants that the named assumptions of a module admit, and TLC evaluates those
assumptions in every run. Where a theorem has a hypothesis of its own, it says that
something the code permits is not done, and section 5 tells what happens otherwise.

**`JobQueueProofs`**, for any jobs, runners, kinds, subjects, budgets and bounds.
Without a hypothesis: `TypeCorrect`, `RunnersOwn`, `LeasesAreOurs` (`NoForeignLease`),
`NoneStranded` (`NoStrandedLease`), `TablesInStep` (`DomainInStep`) and `CanceledStays`
(`CancelNeverRestarts`). If nobody may pause (`MayPause = {}`, which `jobs_owner` shows
to be necessary): `Exclusion` (`ExclusiveWorker`), `OwnersWrite` (`OutcomeFromOwner`)
and `WithinBudget` (`AttemptsWithinBudget`).

`ExclusiveWorker` is not inductive: nothing in it says that the row of a busy runner
is still the row it claimed. `Ownership` is, and it is stated of the jobs that may not
be paused, so that it holds with pauses too: a busy runner's row is held by this boot
and fits its position (`Owns`); no two runners have the same row (`Apart`); two rows of
one subject are never both unended (`OneLive`); no runner is busy in a daemon that is
down or booting (`Quiet`). A claim needs `OneLive` to preserve `Apart` over subjects; a
retry and an enqueue preserve `OneLive` by the unique index; a crash empties the
runners, so that the triage of the next boot disturbs nobody. `Leases` says of every
held row who will close it, which a pause does not disturb; `Deferring` and `Budgets`
follow an attempt from the claim to the copy the runner holds and back.

`Refinement`: if nobody may pause, the queue implements `JobLifecycle`, with the mapping
TLC checks: each of the steps of a row, a runner or the daemon is a step of the
lifecycle, or leaves it as it is. Its invariant `Tracked` is `Ownership` and `Leases`
together; `OnePerSubject` of the lifecycle is `OneLive`.

**`DownloadProofs`**, for any files, slots, pool width and bounds: `TypeCorrect`,
`SuccessIsWhole` (`SucceededIsWhole`), and, of downloads that nobody paused,
`StoredFolds` (`StoredIsFold`), `LandedIsFinal` (`LandedStays`), `QuietOtherwise`
(`QuietUnlessRunning`) and `VerdictsAgree` (`VerdictReaches`). Success holds even where
two runs overlap, because a run verifies before it closes and neither a landed file nor
a ready model is ever taken back (`Verified`, `Present`). The others rest on `Settled`:
one run at a time, under a row that says running; its files still to start have not
landed and those in flight are shown as running (`Working`), so that the write of
`Reassert`, which does not fold, changes nothing; tasks end like their job (`EndsAlike`);
and the close of an unheld download, checked in one transaction and written in another,
was offered because everything had landed (`NothingToClose`), which no retry in between
undoes.

**`VersionsProofs`**, for any versions, replacements, instances and bounds:

| theorem | property | hypothesis | invariant |
|---|---|---|---|
| `TypeCorrect` | the types | | `Shaped`: where a worker stands fits its job, and nobody works at a boot |
| `LeaseIsLive` | `LeaseHeldByLiveBuild` (no run checks it) | | the install that holds the lease is live |
| `LoserHasJob` | `LostSlotIsRetired` | | `OneActivation`, `FlagsFollow` |
| `OneStory` | `RowFollowsJob` (no run checks it) | | itself, with `Shaped` |
| `LinksCatchUp` | `LinksFollowRows` | no late cancel | `LinksLag` |
| `VerdictIsTrue` | `VerdictTellsBuild` | | `FlagsFollow`, `Answers` |
| `ProcessesSpared` | `SparesProcesses` | no liberty | `Spared`, `LinksKept`, `Aside`, `Unharmed` |
| `FlaggedIsThere` | `TreeBehindRow` | no overlap | `Spared`, `Trees` |

They rest on one another in this order. `OneActivation` is the index on live
activations. `FlagsFollow` says of the one activation at each of its steps whether the
flags are those it found or those of its flip: it is what lets a worker that crashes, a
boot and a revert agree on who was put out. `LinksLag` names every reason for which the
links may differ from the flags. `Answers` says of the one activation which links it
may be closed on, as long as no write of a link failed: from its request to its flip
those the request found, or the flags if a repair caught up meanwhile; from the end of
its relinking to its close, and at every boot that settles it, the flags. So a success
and a failure say the same of rows and links whoever closes the job, the worker after
the flip, the roll or the revert, or a boot after a crash between any two of them. A version is `Kept` if it holds a flag or may get one
when the activation goes on or turns back; `Spared` says that nobody who is past the
guards of a delete holds one of those; `LinksKept` that no link leads to another one
than those, so that a launcher, which starts from a link, executes out of a directory
that no delete is at; `Trees` ties the state of a row, and what a worker is about to
write of it, to the directory. The proof of `FlaggedIsThere` failed at first, for the
reason section 5 gives, and `hollow` is the exception it found.

**`SupervisorProofs`**, for any passes, ports, setups and bounds: `TypeCorrect`,
`ProcessHasRow` (`RunIsLedgered`), `OneRefusalEach` (`OneRefusal`) and
`OutcomesAreFinal` (a row of the ledger is closed once). A pass evaluates an observation
and a row that may be old; `Ledgered` says in what sense they are never wrong
(`Sound`): the run it took for the last one is over, and once it saw the unit down the
run it took for open is not the unit's any more. That the lowest free port exists is
proved by well-founded induction over the naturals.

**`BenchProofs`**, for any runs, instances and policies: `TypeCorrect`, `OneAtATime`
(`OneSweep`), `FleetRestored` (`SweepsApart`) and `NothingForgotten` (`StoppedAreOwed`).
`Leased` has it that a sweep holds the lease of the running boot until it closes;
`Debts` that a run that owes a restart gave up at a boot, will be tried by this one, or
holds the lease; `OnTheList` that the list is written before the first stop.

**`GatewayProofs`**, for any instances, ports and requests: `NothingTwice`
(`CountedOnce`), from a balance of amounts over memory, flushers and tables that each
write and each failure keeps (`Balanced`); `RevocationHolds` (`RevokedIsRefused`), from
what an entry of the cache and a read that is under way may say (`Refused`);
`RestartKeepsCounts` (`RestartLosesNothing`), from the order of the stop (`Orderly`).

**`LibraryProofs`**, for any models, blobs, scanners and instances (finitely many
scanners, which the queue's one live scan provides): `TypeCorrect`, `EntriesLead`
(`NoDanglingLink`), `LatecomersLose` (`OnlyLatecomersLose`) and `HashFollows`
(`HashFollowsWriters`). `Guarded` follows the lock of a blob: a transfer holds it from
its first byte to its entry, a deletion from its count to its removal, so that no entry
appears in between.

**`SelfUpdateProofs`**, for any updates, releases and bounds: `OneAtATime`
(`OneInFlight`), because a row that is not over keeps a live job (`Carried`), of which
the index admits one; `TypeCorrect`; and, as long as no marker crossed a swap and fewer
crashes fell than systemd's burst limit admits starts, which both properties say of
themselves, `FreshIsReverted` (`FreshIsArmed`) and `RevertedOpens` (`OwnRevertOpens`).
The invariant behind the last two is `Held`. It counts: every start that the limit
holds was spent by a crash, by the daemon that is up, or by a release that cannot boot,
so that the unit rests failed only with such a release installed. It follows the
retained binary from the moment the actor makes it: it opens the database until the
release on trial disarms the marker, and a judge that looks already looks beneath a
release that ends before it migrates. `Ordered` adds what a stopped daemon leaves
behind: nobody calls the gate, and a boot goes through it once.

**Only model-checked:** liveness under fairness, which is out of the prover's reach,
and `CrashLoopBounded` of `Supervisor`, because it is a count and does not hold for
every value of the constants. With `RestartMax = 0`, one pass and two requests TLC
violates it, 3 runs against a bound of 2: the pass stamps a start on a count of none; a
restart is requested and systemd has yet to answer it; a start by hand launches first
and fails, then the one of the pass, and then the one of the restart, which nobody
counts before. Stale status rows add to that: `Record` writes the row a pass read long
ago, and with it the time from which failures are counted, so that with many slow passes
the number of passes need not bound the count at all. Within the bounds of the run,
`RestartMax = 1`, two passes and one request, it holds exhaustively.
The properties of section 5 that the code breaks are stated, and no passing run checks
them.
No module uses a RECURSIVE operator.

## 7. Not modelled, and why

* **JobQueue.** `lease_expires_at`, `SetProgress`, notifications and the wake channel:
  no guard reads them, and a wake only shortens a poll that fairness already grants.
  Idempotency keys (D65): a request repeated under one key is answered from a table of
  its own, before anything here happens. `CancelGuard`: it may refuse a cancel, which
  is a stutter; every kind accepts here.
* **Download.** Create, bytes, partial files, etags, ranges, disk space.
* **Library.** Models of several files and their grouping, projectors, parsed geometry,
  strays, refs, copy mode, roots other than one; a removal that fails for one entry
  and goes on with the next; the generations of an instance.
* **Versions.** How a release is found and built, the intermediate build states (one
  state, "building"), logs, `config_hash`, staging trees; a write that fails twice in
  a row; the older jobs of a version, of which only the latest matters to a guard.
* **SelfUpdate.** The check for releases and its cache, the rootless scope (which swaps
  in process), snapshots for a downgrade. Three orders are taken from the timing of
  systemd's delays, and named in the module's header.
* **Supervisor.** Instances meet only in the port pool, so there is one. Displayed
  properties, fit observations and autostart symlinks decide nothing.
* **Bench.** The expansion of a sweep, the llama-bench process and its results, which
  GPUs an instance occupies (all of them here).
* **Gateway.** The proxying of bytes, token counts of a response, rate limits, expiry
  and scopes of tokens, the denial watch. `Accept` merges the load of the epoch and
  `StoreEntry` the judgement; the two tables of the last flush are written as one; a
  flush that finds nothing is left out; the grace periods of the stop may end at any
  time.
* **`gguf`, `fit`** are sequential arithmetic over bytes and reals; **`ui`, `installer`,
  `packaging`**, **`api`** and the small packages have no state of their own that a
  model could relate. `PROJECT.json` gives the reason for each component.
