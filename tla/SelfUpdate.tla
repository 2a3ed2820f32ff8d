------------------------------ MODULE SelfUpdate ------------------------------
(***************************************************************************)
(* Replacing the running binary, internal/selfupdate in system scope: the  *)
(* update rows and their jobs, the marker update/pending, the installed    *)
(* binary and llamaman.prev, the confirmation gate with its three callers, *)
(* the privileged swap actor, the judge that OnFailure= starts, and what   *)
(* systemd makes of llamaman.service (restarts, the start limit).          *)
(*                                                                         *)
(* One action is one transaction, one rename or unlink, or one decision of *)
(* systemd.  How the queue leases a job is JobQueue's matter: here a job   *)
(* that runs is the running boot's.  The actors' units are taken to be     *)
(* installed, and ExecStopPost= of the swap unit to end before a daemon it *)
(* restarted can have spent its start limit (five starts, 2 s apart), a    *)
(* judge that found the unit failed to have renamed before a unit revived  *)
(* meanwhile opens the database, and a gate call to be over before another *)
(* update can have been downloaded, or this one drained.                   *)
(***************************************************************************)
EXTENDS Naturals, FiniteSets

CONSTANTS
    Updates,      \* the self_updates ids there will be
    Versions,     \* releases
    First,        \* the release installed before the behaviour begins
    NoUpdate, NoVersion, NoMarker,
    Schemas,      \* the functions from release to schema version to choose among
    Flaws,        \* where a boot of a release other than First may always die
    Burst,        \* StartLimitBurst=
    MaxFaults,    \* bound: crashes, failed writes, calls and renames
    MaxClicks     \* bound: updates, cancels and retries asked for

ASSUME SelfUpdateAssumption ==
    /\ First \in Versions /\ NoVersion \notin Versions /\ NoUpdate \notin Updates
    /\ NoMarker \notin [id : Updates \cup {NoUpdate}, to : Versions \cup {NoVersion}]
    /\ Schemas \subseteq [Versions -> Nat] /\ Schemas # {}
    /\ Flaws \subseteq {"none", "open", "migrate", "gate"} /\ Flaws # {}
    /\ Burst \in Nat \ {0} /\ MaxFaults \in Nat /\ MaxClicks \in Nat

VARIABLES
    row,      \* self_updates.state and to_version
    job,      \* the self_update jobs with cancel_requested
    work,     \* the worker of each job: where it stands, and what stopped it
    scratch,  \* the release whose verified tarball is under update/
    pending,  \* update/pending
    memo,     \* the gate's copy of a marker this boot unlinked before migrating
    disk,     \* <prefix>/llamaman, llamaman.prev, and whether it was retained for the
              \* marker written last
    schema,   \* MAX(schema_migrations.version)
    release,  \* what the releases are like: schemas needed, flaw; never changes
    proc,     \* llamaman.service: step of the daemon, and the release it runs
    starts,   \* starts of the unit that count against Burst
    actor,    \* the swap actor and the marker it read
    judge,    \* the revert actor
    call,     \* the callers of ResolveUpdateMarkers
    trial,    \* the installed binary: fresh, disarmed (its boot tried a migration),
              \* resolved (it unlinked the marker), or proven (it also signalled READY=1)
    crossed,  \* a marker was written, confirmed or refused by a daemon that an actor was
              \* replacing, or had replaced on disk
    faults, clicks

dbVars == <<row, job, schema>>
fileVars == <<scratch, pending, disk>>
daemonVars == <<work, memo, call>>
unitVars == <<proc, starts, actor, judge>>
ghostVars == <<release, trial, crossed, faults, clicks>>
vars == <<row, job, work, scratch, pending, memo, disk, schema, release, proc, starts,
          actor, judge, call, trial, crossed, faults, clicks>>

-----------------------------------------------------------------------------
Callers == {"boot", "ticker", "apply"}
Over == {"succeeded", "failed", "canceled"}
Cancelable == {"planned", "downloading", "verifying"}
Open(u) == row[u].state \notin Over \cup {"none"}
LiveJob(u) == job[u].state \in {"queued", "running", "interrupted"}

Marker(u) == [id |-> u, to |-> row[u].to]
Wreck == [id |-> NoUpdate, to |-> NoVersion]
NoCall == [pc |-> "idle", marker |-> NoMarker, id |-> NoUpdate, to |-> NoVersion]
Idle == [pc |-> "idle", stop |-> "no"]

Serving == proc.pc \in {"gate", "ready", "drain"}
Working == proc.pc \in {"ready", "drain", "wait"}
Fault == faults < MaxFaults /\ faults' = faults + 1
FaultOnly == Fault /\ UNCHANGED <<release, trial, crossed, clicks>>
Click == clicks < MaxClicks /\ clicks' = clicks + 1 /\ UNCHANGED <<release, trial, crossed, faults>>

Init ==
    /\ row = [u \in Updates |-> [state |-> "none", to |-> NoVersion]]
    /\ job = [u \in Updates |-> [state |-> "none", cancel |-> FALSE]]
    /\ work = [u \in Updates |-> Idle]
    /\ scratch = NoVersion /\ pending = NoMarker /\ memo = NoMarker
    /\ disk = [installed |-> First, prev |-> NoVersion, own |-> FALSE]
    /\ release \in [needs : Schemas, flaw : Flaws]
    /\ schema = release.needs[First]
    /\ proc = [pc |-> "off", exe |-> First] /\ starts = 0
    /\ actor = [pc |-> "idle", marker |-> NoMarker] /\ judge = "idle"
    /\ call = [c \in Callers |-> NoCall]
    /\ trial = "proven"
    /\ crossed = FALSE /\ faults = 0 /\ clicks = 0

Flawed(where) == release.flaw = where /\ proc.exe # First

-----------------------------------------------------------------------------
(* llamaman.service.  Restart=always brings an exited daemon back until the  *)
(* start limit; then the unit is failed and OnFailure= starts the judge,     *)
(* which systemd skips unless llamaman.prev and update/pending both exist.   *)

Gone == /\ work' = [u \in Updates |-> Idle]
        /\ memo' = NoMarker /\ call' = [c \in Callers |-> NoCall]
Exit == proc' = [proc EXCEPT !.pc = "off"] /\ Gone
Step(pc) == proc' = [proc EXCEPT !.pc = pc]

StartUnit ==
    /\ proc.pc = "off" /\ starts < Burst /\ judge # "rename"
    /\ proc' = [pc |-> "open", exe |-> disk.installed] /\ starts' = starts + 1
    /\ UNCHANGED <<dbVars, fileVars, daemonVars, actor, judge, ghostVars>>

LimitHit ==
    /\ proc.pc = "off" /\ starts >= Burst /\ actor.pc # "post"
    /\ Step("failed")
    /\ judge' = IF judge = "idle" /\ disk.prev # NoVersion /\ pending # NoMarker
                THEN "check" ELSE judge
    /\ UNCHANGED <<dbVars, fileVars, daemonVars, starts, actor, ghostVars>>

Crash ==
    /\ proc.pc \notin {"off", "failed"}
    /\ Exit /\ FaultOnly
    /\ UNCHANGED <<dbVars, fileVars, starts, actor, judge>>

PowerLoss ==
    /\ FaultOnly /\ Exit
    /\ starts' = 0 /\ judge' = "idle" /\ actor' = [actor EXCEPT !.pc = "idle"]
    /\ UNCHANGED <<dbVars, fileVars>>

\* systemctl reset-failed followed by start --no-block.
Revive ==
    /\ starts' = 0
    /\ proc' = IF proc.pc = "failed" THEN [proc EXCEPT !.pc = "off"] ELSE proc

\* The command every row of the stop-point table ends with.
Operator ==
    /\ proc.pc = "failed" /\ judge = "idle" /\ actor.pc = "idle"
    /\ Revive
    /\ UNCHANGED <<dbVars, fileVars, daemonVars, actor, judge, ghostVars>>

-----------------------------------------------------------------------------
(* Boot, up to READY=1.                                                      *)

\* Mutant: the marker is left in place while the schema moves.
OpenDatabaseArmed ==
    /\ proc.pc = "open"
    /\ IF Flawed("open") \/ schema > release.needs[proc.exe] THEN Exit
       ELSE /\ Step(IF schema < release.needs[proc.exe] THEN "migrate" ELSE "triage")
            /\ UNCHANGED daemonVars
    /\ UNCHANGED <<dbVars, fileVars, starts, actor, judge, ghostVars>>

OpenDatabase ==
    /\ proc.pc = "open"
    /\ IF Flawed("open") \/ schema > release.needs[proc.exe] THEN Exit
       ELSE /\ Step(IF schema < release.needs[proc.exe] THEN "disarm" ELSE "triage")
            /\ UNCHANGED daemonVars
    /\ UNCHANGED <<dbVars, fileVars, starts, actor, judge, ghostVars>>

DisarmBeforeMigration ==
    /\ proc.pc = "disarm"
    /\ memo' = pending /\ pending' = NoMarker
    /\ trial' = IF trial = "fresh" THEN "disarmed" ELSE trial
    /\ Step("migrate")
    /\ UNCHANGED <<dbVars, scratch, disk, work, call, starts, actor, judge,
                   release, crossed, faults, clicks>>

Migrate ==
    /\ proc.pc = "migrate"
    /\ IF Flawed("migrate") THEN Exit /\ UNCHANGED schema
       ELSE Step("triage") /\ schema' = release.needs[proc.exe] /\ UNCHANGED daemonVars
    /\ UNCHANGED <<row, job, fileVars, starts, actor, judge, ghostVars>>

Triage ==
    /\ proc.pc = "triage"
    /\ job' = [u \in Updates |-> IF job[u].state # "running" THEN job[u]
                                 ELSE [job[u] EXCEPT !.state = "interrupted"]]
    /\ IF Flawed("gate") THEN Exit
       ELSE /\ Step("gate") /\ call' = [call EXCEPT !["boot"].pc = "take"]
            /\ UNCHANGED <<work, memo>>
    /\ UNCHANGED <<row, schema, fileVars, starts, actor, judge, ghostVars>>

\* An error of the gate is only logged: the daemon signals readiness all the same.
SignalReady ==
    /\ proc.pc = "gate" /\ call["boot"].pc \in {"idle", "erred"}
    /\ Step("ready") /\ call' = [call EXCEPT !["boot"] = NoCall]
    /\ trial' = IF call["boot"].pc = "idle" /\ proc.exe = disk.installed THEN "proven" ELSE trial
    /\ UNCHANGED <<dbVars, fileVars, work, memo, starts, actor, judge, release, crossed, faults, clicks>>

\* Sixty seconds of readiness clear the start limit.
ClearStartLimit ==
    /\ proc.pc = "ready" /\ starts > 0
    /\ starts' = 0
    /\ UNCHANGED <<dbVars, fileVars, daemonVars, proc, actor, judge, ghostVars>>

-----------------------------------------------------------------------------
(* ResolveUpdateMarkers: read the marker, ask whether an actor works on it,  *)
(* write one transaction, then unlink the marker and empty update/.          *)

SetCall(c, pc) == call' = [call EXCEPT ![c].pc = pc]

\* The pc a call moves to when its resolution is over, well or badly.
After(c) == IF c = "apply" THEN "guard" ELSE "idle"
Failed(c) == IF c = "boot" THEN "erred" ELSE "idle"

TickerFires ==
    /\ proc.pc = "ready" /\ pending # NoMarker /\ call["ticker"].pc = "idle"
    /\ SetCall("ticker", "take")
    /\ UNCHANGED <<dbVars, fileVars, work, memo, unitVars, ghostVars>>

\* A marker that cannot be read, whatever the reason, is wreckage to be swept.
TakeMarker(c) ==
    /\ call[c].pc = "take"
    /\ \/ LET m == IF memo # NoMarker THEN memo ELSE pending IN
          /\ call' = [call EXCEPT ![c].marker = m,
                        ![c].pc = IF m = NoMarker THEN "orphans"
                                  ELSE IF m.to = proc.exe THEN "confirm" ELSE "ask"]
          /\ memo' = NoMarker /\ UNCHANGED ghostVars
       \/ /\ memo = NoMarker /\ pending # NoMarker /\ FaultOnly
          /\ call' = [call EXCEPT ![c].marker = Wreck, ![c].pc = "refuse"]
          /\ UNCHANGED memo
    /\ UNCHANGED <<dbVars, fileVars, work, unitVars>>

\* Mutant: a job the triage has put down still counts.
SelfIsApplyingStill(m) == job[m.id].state \in {"running", "interrupted"}
SelfIsApplying(m) == job[m.id].state = "running"
\* Mutant: a unit that is about to put the binary in place no longer counts.
UnitActorActiveEarly == actor.pc \in {"preflight", "retain", "extract"}
UnitActorActive == actor.pc \in {"preflight", "retain", "extract", "install", "restart"}
Crossing == UnitActorActive \/ disk.installed # proc.exe

AskActors(c) ==
    /\ call[c].pc = "ask"
    /\ \/ /\ SetCall(c, IF SelfIsApplying(call[c].marker) \/ UnitActorActive
                        THEN "orphans" ELSE "refuse")
          /\ UNCHANGED ghostVars
       \/ FaultOnly /\ SetCall(c, "refuse")
    /\ UNCHANGED <<dbVars, fileVars, work, memo, unitVars>>

\* finishRow for the update the marker names, then the closing pass for the others.
Resolve(m, out) ==
    LET named(u) == m # NoMarker /\ m.id = u /\ out # "none" /\ Open(u)
        spared(u) == m # NoMarker /\ m.id = u
        orphan(u) == ~spared(u) /\ Open(u) /\ job[u].state = "interrupted"
    IN /\ row' = [u \in Updates |-> IF named(u) THEN [row[u] EXCEPT !.state = out]
                                    ELSE IF orphan(u) THEN [row[u] EXCEPT !.state = "failed"]
                                    ELSE row[u]]
       /\ job' = [u \in Updates |-> IF named(u) /\ LiveJob(u) THEN [job[u] EXCEPT !.state = out]
                                    ELSE IF orphan(u) THEN [job[u] EXCEPT !.state = "failed"]
                                    ELSE job[u]]

Commits(c, pc, out, next) ==
    /\ call[c].pc = pc
    /\ \/ /\ Resolve(call[c].marker, out) /\ SetCall(c, next)
          /\ crossed' = (crossed \/ (pc \in {"confirm", "refuse"} /\ Crossing))
          /\ UNCHANGED <<release, trial, faults, clicks>>
       \/ FaultOnly /\ SetCall(c, Failed(c)) /\ UNCHANGED <<row, job>>
    /\ UNCHANGED <<schema, fileVars, work, memo, unitVars>>

Confirmed(c) == Commits(c, "confirm", "succeeded", "unlink")
NotApplied(c) == Commits(c, "refuse", "failed", "unlink")
CloseOrphans(c) == Commits(c, "orphans", "none", After(c))

Unlink(c) ==
    /\ call[c].pc = "unlink"
    /\ pending' = NoMarker /\ scratch' = NoVersion
    /\ SetCall(c, After(c))
    /\ trial' = IF trial = "fresh" /\ proc.exe = disk.installed THEN "resolved" ELSE trial
    /\ UNCHANGED <<dbVars, disk, work, memo, unitVars, release, crossed, faults, clicks>>

-----------------------------------------------------------------------------
(* POST /update/apply, and what the queue does for an update.                *)

\* Ids are drawn in one order, whichever update takes them.
Unused == {u \in Updates : row[u].state = "none"}
Apply(v) ==
    /\ Serving /\ call["apply"].pc = "idle" /\ Unused # {}
    /\ call' = [call EXCEPT !["apply"] = [NoCall EXCEPT !.pc = "take", !.to = v,
                                            !.id = CHOOSE u \in Unused : TRUE]]
    /\ Click
    /\ UNCHANGED <<dbVars, fileVars, work, memo, unitVars>>

\* Mutant: only an update whose job has started counts.
InFlightStarted == \E u \in Updates : Open(u) /\ job[u].state = "running"
InFlight == \E u \in Updates : Open(u) /\ LiveJob(u)

\* D97: the guard and the insert are one transaction.
GuardAndInsert ==
    LET u == call["apply"].id IN
    /\ call["apply"].pc = "guard"
    /\ \/ /\ ~InFlight
          /\ row' = [row EXCEPT ![u] = [state |-> "planned", to |-> call["apply"].to]]
          /\ job' = [job EXCEPT ![u] = [state |-> "queued", cancel |-> FALSE]]
          /\ SetCall("apply", "clear")
       \/ /\ InFlight
          /\ call' = [call EXCEPT !["apply"] = NoCall]
          /\ UNCHANGED <<row, job>>
    /\ UNCHANGED <<schema, fileVars, work, memo, unitVars, ghostVars>>

ClearScratch ==
    /\ call["apply"].pc = "clear"
    /\ scratch' = NoVersion /\ call' = [call EXCEPT !["apply"] = NoCall]
    /\ UNCHANGED <<dbVars, pending, disk, work, memo, unitVars, ghostVars>>

\* The job, the row unless it is over already, and the scratch of a canceled update.
Finish(u, out) ==
    /\ job' = [job EXCEPT ![u].state = out]
    /\ row' = IF Open(u) THEN [row EXCEPT ![u].state = out] ELSE row
    /\ scratch' = IF out = "canceled" THEN NoVersion ELSE scratch
    /\ work' = [work EXCEPT ![u] = Idle]
    /\ UNCHANGED <<schema, pending, disk>>

\* A held job only learns of the cancel at its next heartbeat.
Cancel(u) ==
    /\ Serving /\ LiveJob(u) /\ row[u].state \in Cancelable
    /\ IF job[u].state = "running"
       THEN job' = [job EXCEPT ![u].cancel = TRUE] /\ UNCHANGED <<row, schema, fileVars, work>>
       ELSE Finish(u, "canceled")
    /\ Click
    /\ UNCHANGED <<memo, call, unitVars>>

\* A row that is over keeps its state: SetSelfUpdateState moves only open ones.
Retry(u) ==
    /\ Serving /\ job[u].state \in {"failed", "canceled", "interrupted"}
    /\ Click
    /\ job' = [job EXCEPT ![u] = [state |-> "queued", cancel |-> FALSE]]
    /\ row' = IF Open(u) THEN [row EXCEPT ![u].state = "planned"] ELSE row
    /\ UNCHANGED <<schema, fileVars, daemonVars, unitVars>>

Claim(u) ==
    /\ Working /\ job[u].state = "queued" /\ work[u] = Idle
    /\ job' = [job EXCEPT ![u].state = "running"]
    /\ work' = [work EXCEPT ![u].pc = "download"]
    /\ UNCHANGED <<row, schema, fileVars, memo, call, unitVars, ghostVars>>

Heartbeat(u) ==
    /\ work[u].pc # "idle" /\ work[u].stop = "no"
    /\ \/ job[u].state # "running" /\ work' = [work EXCEPT ![u].stop = "lost"]
       \/ /\ job[u].state = "running" /\ job[u].cancel
          /\ work' = [work EXCEPT ![u].stop = "cancel"]
    /\ UNCHANGED <<dbVars, fileVars, memo, call, unitVars, ghostVars>>

\* The context is cut: the outcome is a cancel, or dropped with the lease.
Stopped(u) ==
    /\ \/ work[u].stop = "cancel" /\ Finish(u, "canceled")
       \/ /\ work[u].stop = "lost" /\ work' = [work EXCEPT ![u] = Idle]
          /\ UNCHANGED <<dbVars, fileVars>>
    /\ UNCHANGED <<memo, call, unitVars, ghostVars>>

-----------------------------------------------------------------------------
(* The pipeline of the worker.                                               *)

At(u, pc) == Working /\ work[u].pc = pc /\ work[u].stop = "no"
Goto(u, pc) == work' = [work EXCEPT ![u].pc = pc]
SetState(u, state) == row' = IF Open(u) THEN [row EXCEPT ![u].state = state] ELSE row

StageFails(u) ==
    /\ \E pc \in {"download", "verify", "stage", "mark", "hand"} : At(u, pc)
    /\ FaultOnly /\ Finish(u, "failed")
    /\ UNCHANGED <<memo, call, unitVars>>

Download(u) ==
    /\ At(u, "download")
    /\ SetState(u, "downloading") /\ scratch' = row[u].to /\ Goto(u, "verify")
    /\ UNCHANGED <<job, schema, pending, disk, memo, call, unitVars, ghostVars>>

VerifyStaged(u) ==
    /\ At(u, "verify")
    /\ IF scratch = row[u].to
       THEN SetState(u, "verifying") /\ Goto(u, "stage") /\ UNCHANGED <<job, schema, fileVars>>
       ELSE Finish(u, "failed")
    /\ UNCHANGED <<memo, call, unitVars, ghostVars>>

\* D96's cut-off.
Stage(u) ==
    /\ At(u, "stage")
    /\ SetState(u, "staged") /\ Goto(u, "mark")
    /\ UNCHANGED <<job, schema, fileVars, memo, call, unitVars, ghostVars>>

WriteMarker(u) ==
    /\ At(u, "mark") /\ \A c \in Callers : call[c].marker = NoMarker \/ call[c].pc = "idle"
    /\ pending' = Marker(u) /\ disk' = [disk EXCEPT !.own = FALSE] /\ Goto(u, "hand")
    /\ crossed' = (crossed \/ Crossing)
    /\ UNCHANGED <<dbVars, scratch, memo, call, unitVars, release, trial, faults, clicks>>

\* The serve loop stops the ticker first; a call of it that has not written yet fails.
BeginSwap(u) ==
    /\ At(u, "hand")
    /\ SetState(u, "swapping") /\ Goto(u, "await")
    /\ IF proc.pc = "ready"
       THEN /\ Step("drain")
            /\ call' = [call EXCEPT !["ticker"] = IF @.pc = "unlink" THEN @ ELSE NoCall]
       ELSE UNCHANGED <<proc, call>>
    /\ UNCHANGED <<job, schema, fileVars, memo, starts, actor, judge, ghostVars>>

-----------------------------------------------------------------------------
(* The hand-over, the swap actor and the judge.                              *)

\* systemd skips the swap unit unless update/pending exists.
Summon ==
    /\ proc.pc = "drain" /\ \A c \in Callers : call[c].pc = "idle"
    /\ Step("wait") /\ starts' = 0
    /\ \/ /\ actor' = IF actor.pc = "idle" /\ pending # NoMarker
                      THEN [actor EXCEPT !.pc = "preflight"] ELSE actor
          /\ UNCHANGED ghostVars
       \/ FaultOnly /\ UNCHANGED actor
    /\ UNCHANGED <<dbVars, fileVars, daemonVars, judge>>

\* The restart the actor asked for, or 120 s without one.
Failsafe ==
    /\ proc.pc = "wait"
    /\ Exit
    /\ UNCHANGED <<dbVars, fileVars, starts, actor, judge, ghostVars>>

ActorGoes(pc) == actor' = [actor EXCEPT !.pc = pc]
ActorLeaves == <<dbVars, scratch, pending, daemonVars, starts, judge>>

Preflight ==
    /\ actor.pc = "preflight"
    /\ actor' = IF pending # NoMarker /\ scratch = pending.to
                THEN [pc |-> "retain", marker |-> pending] ELSE [actor EXCEPT !.pc = "post"]
    /\ UNCHANGED <<ActorLeaves, disk, proc, ghostVars>>

Retain ==
    /\ actor.pc = "retain"
    /\ disk' = [disk EXCEPT !.prev = disk.installed, !.own = TRUE]
    /\ ActorGoes("extract")
    /\ UNCHANGED <<ActorLeaves, proc, ghostVars>>

ExtractBinary ==
    /\ actor.pc = "extract"
    /\ ActorGoes(IF scratch = actor.marker.to THEN "install" ELSE "post")
    /\ UNCHANGED <<ActorLeaves, disk, proc, ghostVars>>

Install ==
    /\ actor.pc = "install"
    /\ disk' = [disk EXCEPT !.installed = actor.marker.to]
    /\ trial' = IF actor.marker.to = disk.installed THEN trial ELSE "fresh"
    /\ ActorGoes("restart")
    /\ UNCHANGED <<ActorLeaves, proc, release, crossed, faults, clicks>>

RestartDaemon ==
    /\ actor.pc = "restart"
    /\ IF proc.pc = "failed" THEN UNCHANGED <<proc, daemonVars>> ELSE Exit
    /\ ActorGoes("post")
    /\ UNCHANGED <<dbVars, fileVars, starts, judge, ghostVars>>

\* A refusal, an error, a kill, or TimeoutStartSec= of the unit.
ActorFails ==
    /\ UnitActorActive
    /\ FaultOnly /\ ActorGoes("post")
    /\ UNCHANGED <<ActorLeaves, disk, proc>>

ActorStopPost ==
    /\ actor.pc = "post"
    /\ Revive /\ ActorGoes("idle")
    /\ UNCHANGED <<dbVars, fileVars, daemonVars, judge, ghostVars>>

JudgeChecks ==
    /\ judge = "check"
    /\ judge' = IF proc.pc = "failed" THEN "rename" ELSE "post"
    /\ UNCHANGED <<dbVars, fileVars, daemonVars, proc, starts, actor, ghostVars>>

Revert ==
    /\ judge = "rename"
    /\ disk' = [disk EXCEPT !.installed = disk.prev, !.prev = NoVersion]
    /\ trial' = "proven" /\ judge' = "post"
    /\ UNCHANGED <<dbVars, scratch, pending, daemonVars, proc, starts, actor,
                   release, crossed, faults, clicks>>

JudgeFails ==
    /\ judge \in {"check", "rename"}
    /\ FaultOnly /\ judge' = "post"
    /\ UNCHANGED <<dbVars, fileVars, daemonVars, proc, starts, actor>>

JudgeStopPost ==
    /\ judge = "post"
    /\ judge' = "idle" /\ Revive
    /\ UNCHANGED <<dbVars, fileVars, daemonVars, actor, ghostVars>>

-----------------------------------------------------------------------------
Boot == OpenDatabase \/ DisarmBeforeMigration \/ Migrate \/ Triage \/ SignalReady

Gate(c) == TakeMarker(c) \/ AskActors(c) \/ Confirmed(c) \/ NotApplied(c)
               \/ CloseOrphans(c) \/ Unlink(c)

Pipeline(u) == Download(u) \/ VerifyStaged(u) \/ Stage(u) \/ WriteMarker(u) \/ BeginSwap(u)
Worker(u) == Claim(u) \/ Heartbeat(u) \/ Stopped(u) \/ Pipeline(u)

Swap == Preflight \/ Retain \/ ExtractBinary \/ Install \/ RestartDaemon \/ ActorStopPost
Judge == JudgeChecks \/ Revert \/ JudgeStopPost
Manager == StartUnit \/ LimitHit

Next ==
    \/ Boot \/ Manager \/ ClearStartLimit \/ TickerFires
    \/ \E c \in Callers : Gate(c)
    \/ GuardAndInsert \/ ClearScratch
    \/ \E u \in Updates : Worker(u) \/ StageFails(u) \/ Cancel(u) \/ Retry(u)
    \/ \E v \in Versions : Apply(v)
    \/ Summon \/ Failsafe \/ Swap \/ ActorFails
    \/ Judge \/ JudgeFails
    \/ Crash \/ PowerLoss \/ Operator

\* The daemon's goroutines and systemd's jobs run on; requests, faults and the
\* operator are under no obligation.  The ticker fires every 20 s and a call takes
\* far less, so a worker that waits for the call to end finds it over again and again.
Fairness ==
    /\ WF_vars(Boot) /\ WF_vars(Manager) /\ WF_vars(TickerFires)
    /\ \A c \in Callers : WF_vars(Gate(c))
    /\ WF_vars(GuardAndInsert) /\ WF_vars(ClearScratch)
    /\ \A u \in Updates : WF_vars(Worker(u)) /\ SF_vars(WriteMarker(u))
    /\ WF_vars(Summon) /\ WF_vars(Failsafe) /\ WF_vars(Swap) /\ WF_vars(Judge)

Spec == Init /\ [][Next]_vars
FairSpec == Spec /\ Fairness

-----------------------------------------------------------------------------
MarkerType == {NoMarker} \cup [id : Updates, to : Versions]
TypeOK ==
    /\ row \in [Updates -> [state : {"none", "staged", "swapping"} \cup Cancelable \cup Over,
                            to : Versions \cup {NoVersion}]]
    /\ job \in [Updates -> [state : {"none", "queued", "running", "interrupted"} \cup Over,
                            cancel : BOOLEAN]]
    /\ work \in [Updates -> [pc : {"idle", "download", "verify", "stage", "mark", "hand", "await"},
                             stop : {"no", "cancel", "lost"}]]
    /\ scratch \in Versions \cup {NoVersion}
    /\ pending \in MarkerType /\ memo \in MarkerType
    /\ disk \in [installed : Versions, prev : Versions \cup {NoVersion}, own : BOOLEAN]
    /\ schema \in Nat
    /\ release \in [needs : Schemas, flaw : Flaws]
    /\ proc \in [pc : {"off", "failed", "open", "disarm", "migrate", "triage", "gate",
                       "ready", "drain", "wait"}, exe : Versions]
    /\ starts \in 0 .. Burst
    /\ actor \in [pc : {"idle", "preflight", "retain", "extract", "install", "restart", "post"},
                  marker : MarkerType]
    /\ judge \in {"idle", "check", "rename", "post"}
    /\ \A c \in Callers :
         /\ call[c].pc \in {"idle", "erred", "take", "ask", "confirm", "refuse", "orphans",
                            "unlink", "guard", "clear"}
         /\ call[c].marker \in MarkerType \cup {Wreck}
    /\ trial \in {"fresh", "disarmed", "resolved", "proven"}
    /\ faults \in 0 .. MaxFaults /\ clicks \in 0 .. MaxClicks

Stranded == proc.pc = "failed" /\ judge = "idle" /\ actor.pc = "idle"
Reverts == judge = "rename" /\ judge' = "post" /\ disk'.installed # disk.installed
RevertsThisUpdate == Reverts /\ disk.own

(* At most one update that is not over has a live job, however the applies,    *)
(* retries, cancels and gate calls interleave (D97: the guard of Apply and the *)
(* insert are one transaction, and a retry does not reopen a row).             *)
OneInFlight == Cardinality({u \in Updates : Open(u) /\ LiveJob(u)}) <= 1

(* When the unit rests failed, the binary it failed on is one the judge cannot *)
(* help with: it resolved its marker, or its boot had begun to migrate.  An    *)
(* installed binary that never got that far is rolled back.  Excluded are a    *)
(* marker that a daemon wrote or removed across a swap of itself, and a daemon *)
(* that crashes its start limit through while the actor still works.           *)
FreshIsArmed == Stranded /\ ~crossed /\ faults < Burst => trial # "fresh"

(* The judge restores the binary an update retained only while that binary can *)
(* open the database: the marker goes before the first migration runs, and a   *)
(* judge that could still be looking takes a start limit spent on crashes.  A  *)
(* swap across a swap may retain a binary that no daemon ever ran.             *)
OwnRevertOpens ==
    [][RevertsThisUpdate /\ ~crossed /\ faults < Burst
         => release.needs[disk'.installed] >= schema]_vars

(* The same of every revert, as the comments of DisarmBeforeMigration claim.   *)
RevertOpens == [][Reverts => release.needs[disk'.installed] >= schema]_vars

(* A marker on disk is resolved by the worker, by a boot or by the ticker,     *)
(* unless the unit rests failed, where it waits for the operator.              *)
MarkerResolved == pending # NoMarker ~> (pending = NoMarker \/ Stranded)
=============================================================================
