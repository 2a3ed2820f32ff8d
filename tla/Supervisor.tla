------------------------------ MODULE Supervisor ------------------------------
(***************************************************************************)
(* One instance and its supervisor, internal/supervisor: the instance row  *)
(* (desired state, pending start, internal port), the observed status row, *)
(* the ledger instance_starts, the unit llamaman-instance@, the launcher   *)
(* instance-exec it runs, the reconcile passes, the boot reconciliation    *)
(* and the requests of internal/instances.                                 *)
(*                                                                         *)
(* Reconcile is called by the loop and, with no lock between them, after   *)
(* every control request and by a benchmark, so several passes are in      *)
(* flight at once.  One action is one transaction, one observation or one  *)
(* call to the manager.  Instances meet only in the port pool, whose ports *)
(* other programs hold here.                                               *)
(*                                                                         *)
(* Time: a position in the ledger is a row's "at"; a backoff lasts as long *)
(* as it likes; the restart window is longer than the behaviour; serials   *)
(* of the unit's runs order the ends of runs.  The active llama.cpp        *)
(* version is ready throughout; a unit is never seen "activating"          *)
(* (Type=exec).                                                            *)
(***************************************************************************)
EXTENDS Naturals, Sequences, FiniteSets

CONSTANTS
    Passes,       \* the calls of Reconcile there may be at once
    Loop,         \* the one the supervisor's own loop makes
    Setups,       \* the instances to choose among: policy, whether it can start, ports held
    Ports,        \* the internal port pool, an interval
    RestartMax,   \* instances.restart_max
    MaxAsks,      \* bound: requests and starts by hand
    MaxFaults     \* bound: failed writes and calls, broken runs, crashes

ASSUME SupervisorAssumption ==
    /\ Loop \in Passes
    /\ Ports \subseteq Nat \ {0} /\ Ports # {}
    /\ Setups \subseteq [policy : {"always", "on-failure", "never"}, broken : BOOLEAN,
                        held : SUBSET Ports]
    /\ RestartMax \in Nat /\ MaxAsks \in Nat /\ MaxFaults \in Nat

VARIABLES
    inst,      \* the instances row
    status,    \* the instance_status row
    starts,    \* the instance_starts rows, by "at"
    unit,      \* the unit and the process it runs
    pass,      \* the passes in flight and what each has read
    daemon,    \* where the daemon is in its boot reconciliation
    memory,    \* the supervisor's maps timedOut and synthesized
    request,   \* a control request between its transaction and its call, or back
    host,      \* a new host boot, and a start systemd still owes for it
    setup,     \* the instance chosen; never changes
    asked,     \* length of the ledger when somebody last asked for something
    asks, faults

dbVars == <<inst, status, starts>>
vars == <<inst, status, starts, unit, pass, daemon, memory, request, host, setup,
          asked, asks, faults>>

-----------------------------------------------------------------------------
(* The ledger. *)

Open == LET s == {k \in DOMAIN starts : starts[k].outcome = "open"}
        IN IF s = {} THEN 0 ELSE CHOOSE k \in s : TRUE

NoRun == [at |-> 0, outcome |-> "none", lost |-> {}, ended |-> 0]
Run(k) == [at |-> k, outcome |-> starts[k].outcome, lost |-> starts[k].lost,
           ended |-> starts[k].ended]

\* LAST_CLOSED: the completed run with the greatest "at"; a refusal is none.
LastClosed ==
    LET s == {k \in DOMAIN starts : starts[k].outcome \in {"stopped", "failed"}}
    IN IF s = {} THEN NoRun ELSE Run(CHOOSE k \in s : \A j \in s : j <= k)

Excluded == {"schema", "superseded"}

Failures(from) == {k \in DOMAIN starts : /\ k > from /\ starts[k].outcome = "failed"
                                         /\ starts[k].code \notin Excluded}

Refusals(reason, after) ==
    {k \in DOMAIN starts : k > after /\ starts[k].outcome = "inhibited" /\ starts[k].code = reason}

\* "lost": the port an exit 78 names as taken, any port when it names none.
Row(outcome, code, ended) ==
    [outcome |-> outcome, code |-> code, lost |-> {}, ready |-> "no", override |-> FALSE,
     ended |-> ended]

\* Both closing statements are guarded on the outcome being unwritten.  When a run
\* ended is kept of the last one only.
CloseStart(rows, k, outcome, code, ended, lost) ==
    IF k # 0 /\ rows[k].outcome = "open"
    THEN [j \in DOMAIN rows |-> IF j = k
                               THEN [Row(outcome, code, ended) EXCEPT !.lost = lost]
                               ELSE [rows[j] EXCEPT !.ended = 0]]
    ELSE rows

-----------------------------------------------------------------------------
(* The unit.  Restart=no: only a start job brings it back. *)

Down(u) == u.active \in {"inactive", "failed"}
Launch(u) == [u EXCEPT !.active = "active", !.proc = "gate", !.exit = "none", !.row = 0,
                       !.port = 0, !.serial = @ + 1, !.restart = FALSE]
Started(u) == CASE Down(u) -> Launch(u)
                [] u.active = "deactivating" -> [u EXCEPT !.restart = TRUE]
                [] OTHER -> u
Stopped(u) == IF u.active = "active" THEN [u EXCEPT !.active = "deactivating"]
              ELSE [u EXCEPT !.restart = FALSE]
Restarted(u) == IF u.active = "active"
                THEN [u EXCEPT !.active = "deactivating", !.restart = TRUE] ELSE Started(u)
Ended(exit) == unit' = [unit EXCEPT !.active = IF exit = "ok" THEN "inactive" ELSE "failed",
                                    !.proc = "none", !.exit = exit, !.row = 0]

NoPass == [pc |-> "idle", want |-> "stopped", gone |-> FALSE, port |-> 0,
           st |-> [state |-> "stopped", reset |-> 0],
           open |-> 0, ready |-> "no", last |-> NoRun,
           obs |-> [active |-> "unknown", exit |-> "none", serial |-> 0, health |-> "none"],
           say |-> "none"]
Blank == [timedOut |-> {}, synthesized |-> 0]

Fault == faults < MaxFaults /\ faults' = faults + 1
Calm == UNCHANGED faults

Init ==
    /\ inst = [desired |-> "running", deleted |-> FALSE, trigger |-> "user",
               override |-> FALSE, port |-> CHOOSE q \in Ports : \A r \in Ports : q <= r]
    /\ status = NoPass.st
    /\ starts = <<>>
    /\ unit = [active |-> "inactive", proc |-> "none", exit |-> "none", row |-> 0, port |-> 0,
               serial |-> 0, restart |-> FALSE]
    /\ pass = [p \in Passes |-> NoPass]
    /\ daemon = "up" /\ memory = Blank /\ request = "none"
    /\ host = [new |-> FALSE, start |-> FALSE]
    /\ setup \in Setups
    /\ asked = 0 /\ asks = 0 /\ faults = 0

-----------------------------------------------------------------------------
(* The launcher, then llama-server. *)

Alive(step) == unit.active = "active" /\ unit.proc = step
UnitOnly == UNCHANGED <<pass, daemon, memory, request, host, setup, asked, asks>>

\* Mutant: the row a previous run left is not closed first.
OpenStartOver ==
    /\ Alive("gate") /\ ~inst.deleted
    /\ starts' = Append(starts, [Row("open", "none", 0) EXCEPT !.override = inst.override])
    /\ inst' = [inst EXCEPT !.trigger = "none", !.override = FALSE]
    /\ unit' = [unit EXCEPT !.proc = "preflight", !.row = Len(starts'), !.port = inst.port]
    /\ Calm /\ UnitOnly /\ UNCHANGED status

\* Step 3's transaction.
OpenStart ==
    /\ Alive("gate") /\ ~inst.deleted
    /\ starts' = Append(CloseStart(starts, Open, "failed", "superseded", unit.serial - 1, {}),
                        [Row("open", "none", 0) EXCEPT !.override = inst.override])
    /\ inst' = [inst EXCEPT !.trigger = "none", !.override = FALSE]
    /\ unit' = [unit EXCEPT !.proc = "preflight", !.row = Len(starts) + 1, !.port = inst.port]
    /\ Calm /\ UnitOnly /\ UNCHANGED status

\* Exits 64, 70 and 75 come before the row.
AbortStart ==
    /\ Alive("gate")
    /\ \/ inst.deleted /\ Ended("gone") /\ Calm
       \/ \E code \in {"db", "schema"} : Ended(code) /\ Fault
    /\ UnitOnly /\ UNCHANGED dbVars

CanRun == ~setup.broken /\ unit.port \notin setup.held

Exec ==
    /\ Alive("preflight") /\ CanRun
    /\ unit' = [unit EXCEPT !.proc = "load"]
    /\ Calm /\ UnitOnly /\ UNCHANGED dbVars

\* A preflight failure closes its own row, naming the port it could not have.
FailStart ==
    /\ Alive("preflight") /\ ~CanRun
    /\ LET code == IF setup.broken THEN "model" ELSE "port"
           lost == IF code = "port" THEN {unit.port} ELSE {}
       IN /\ \/ /\ starts' = CloseStart(starts, unit.row, "failed", code, unit.serial - 1, lost)
                /\ Calm
             \/ Fault /\ UNCHANGED starts
          /\ Ended(code)
    /\ UnitOnly /\ UNCHANGED <<inst, status>>

Serve ==
    /\ Alive("load") /\ unit' = [unit EXCEPT !.proc = "serve"]
    /\ Calm /\ UnitOnly /\ UNCHANGED dbVars

Hang ==
    /\ Alive("load") /\ unit' = [unit EXCEPT !.proc = "hung"]
    /\ Fault /\ UnitOnly /\ UNCHANGED dbVars

Die ==
    /\ unit.active = "active" /\ unit.proc \in {"load", "serve", "hung"}
    /\ \E exit \in {"ok", "unit"} : Ended(exit)
    /\ Fault /\ UnitOnly /\ UNCHANGED dbVars

\* A run has been ready for ReadySettleSec.
Settle ==
    /\ Alive("serve") /\ unit.row # 0 /\ starts[unit.row].ready = "yes"
    /\ starts' = [starts EXCEPT ![unit.row].ready = "settled"]
    /\ Calm /\ UnitOnly /\ UNCHANGED <<inst, status, unit>>

StopDone ==
    /\ unit.active = "deactivating"
    /\ \E exit \in {"ok", "unit"} : Ended(exit)
    /\ Calm /\ UnitOnly /\ UNCHANGED dbVars

RestartGoes ==
    /\ Down(unit) /\ unit.restart /\ unit' = Launch(unit)
    /\ Calm /\ UnitOnly /\ UNCHANGED dbVars

-----------------------------------------------------------------------------
(* A pass of one instance: subjects, read, observe, record, act.             *)

Rest == UNCHANGED <<daemon, request, host, setup, asked, asks>>
Goto(p, pc) == pass' = [pass EXCEPT ![p].pc = pc]
Kicked == pass' = [p \in Passes |-> IF p # Loop /\ pass[p].pc = "idle"
                                   THEN [pass[p] EXCEPT !.pc = "kicked"] ELSE pass[p]]
Over(p) == pass' = [pass EXCEPT ![p] = NoPass]

Subjects(p) ==
    /\ daemon = "up" /\ pass[p].pc = (IF p = Loop THEN "idle" ELSE "kicked")
    /\ ~inst.deleted \/ Open # 0
    /\ pass' = [pass EXCEPT ![p].pc = "read", ![p].want = inst.desired,
                            ![p].gone = inst.deleted, ![p].port = inst.port]
    /\ Calm /\ Rest /\ UNCHANGED <<dbVars, unit, memory>>

ReadRows(p) ==
    /\ pass[p].pc = "read"
    /\ pass' = [pass EXCEPT ![p].pc = "observe", ![p].st = status, ![p].open = Open,
                            ![p].ready = IF Open = 0 THEN "no" ELSE starts[Open].ready,
                            ![p].last = LastClosed]
    /\ Calm /\ Rest /\ UNCHANGED <<dbVars, unit, memory>>

Health == CASE unit.proc = "serve" -> "ok" [] unit.proc = "load" -> "loading"
            [] unit.proc = "hung" -> "hung" [] OTHER -> "none"

Observe(p) ==
    /\ pass[p].pc = "observe"
    /\ \/ pass' = [pass EXCEPT ![p].pc = "record",
                     ![p].obs = [active |-> unit.active, exit |-> unit.exit,
                                 serial |-> unit.serial, health |-> Health]]
          /\ Calm
       \/ Goto(p, "record") /\ Fault
    /\ Rest /\ UNCHANGED <<dbVars, unit, memory>>

\* section 2.8's table; start_timeout_sec may have passed for a run that hangs.
Derived(x) ==
    LET coming == IF x.st.state = "loading" THEN "loading" ELSE "starting"
    IN CASE x.obs.active = "unknown" -> {"unknown"}
         [] x.obs.active = "deactivating" -> {"stopping"}
         [] Down(x.obs) /\ x.want = "stopped" -> {"stopped"}
         [] Down(x.obs) /\ x.want # "stopped" ->
                {IF x.st.state \in {"failed", "crash-looping"} THEN x.st.state
                 ELSE IF x.obs.active = "failed" \/ x.open # 0 THEN "failed" ELSE "stopped"}
         [] x.obs.health = "ok" -> {"ready"}
         [] x.obs.health = "loading" -> {"loading"}
         [] x.obs.health \in {"none", "hung"} /\ x.st.state \in {"ready", "degraded"} ->
                {x.st.state, "degraded"}
         [] OTHER -> {coming} \cup (IF x.obs.health = "hung" /\ x.open # 0 /\ x.ready = "no"
                                    THEN {"failed"} ELSE {})

\* Mutant: a stop that was asked for closes nothing.
ClosesExits(x) == x.open # 0 /\ Down(x.obs) /\ x.want # "stopped"

Closes(x) == x.open # 0 /\ Down(x.obs)

\* ledgerClosure: a requested stop wins, then a timed-out start, then the exit.
Closure(x) ==
    CASE x.want = "stopped" -> [outcome |-> "stopped", code |-> "none"]
      [] x.want # "stopped" /\ x.open \in memory.timedOut ->
             [outcome |-> "failed", code |-> "timeout"]
      [] OTHER -> IF x.obs.exit \in {"ok", "none"} THEN [outcome |-> "stopped", code |-> "none"]
                  ELSE [outcome |-> "failed", code |-> x.obs.exit]

Lost(x) == IF x.obs.exit = "port" THEN Ports ELSE {}

\* synthesizeIfOwed, and its memory of the exit it last answered for.
Owes(x) == /\ x.obs.active = "failed" /\ x.open = 0 /\ x.obs.exit \in {"db", "schema"}
           /\ memory.synthesized # x.obs.serial
Synthesized(x) ==
    IF x.obs.active # "failed" \/ x.open # 0 THEN 0
    ELSE IF Owes(x) THEN x.obs.serial ELSE memory.synthesized

\* The settled run moves the window to its own ready_at.
NextStatus(x, s) ==
    [state |-> s,
     reset |-> IF x.open # 0 /\ x.ready = "settled" /\ x.st.reset < x.open
               THEN x.open ELSE x.st.reset]

\* Mutant: only a failed instance is started.
ActsOnFailures(x, s) ==
    IF x.gone \/ x.want = "stopped"
    THEN IF x.obs.active = "active" THEN "stop" ELSE "over"
    ELSE IF s = "failed" THEN "count" ELSE "over"

\* Which one action the pass goes on to.
Acts(x, s) ==
    CASE x.obs.active = "unknown" -> "over"
      [] x.obs.active # "unknown" /\ (x.gone \/ x.want = "stopped") ->
             IF x.obs.active = "active" THEN "stop" ELSE "over"
      [] OTHER -> IF s \in {"stopped", "failed", "crash-looping"} THEN "count" ELSE "over"

Recorded(x, s, rows) ==
    LET closed == IF Closes(x)
                  THEN CloseStart(rows, x.open, Closure(x).outcome, Closure(x).code, x.obs.serial,
                                  Lost(x))
                  ELSE rows
        ready == IF x.obs.health = "ok" /\ x.open # 0 /\ x.ready = "no" /\
                    closed[x.open].outcome = "open" /\ closed[x.open].ready = "no"
                 THEN [closed EXCEPT ![x.open].ready = "yes"] ELSE closed
    IN IF Owes(x) /\ x.last.ended < x.obs.serial
       THEN Append(ready, Row("failed", x.obs.exit, x.obs.serial)) ELSE ready

Record(p) ==
    /\ pass[p].pc = "record"
    /\ LET x == pass[p] IN \E s \in Derived(x) :
        /\ starts' = Recorded(x, s, starts)
        /\ status' = NextStatus(x, s)
        /\ memory' = [timedOut |-> IF Closes(x) THEN memory.timedOut \ {x.open}
                                   ELSE IF x.obs.active = "active" /\ s = "failed"
                                   THEN memory.timedOut \cup {x.open} ELSE memory.timedOut,
                      synthesized |-> Synthesized(x)]
        /\ IF Acts(x, s) = "over" THEN Over(p)
           ELSE pass' = [pass EXCEPT ![p] =
                   [NoPass EXCEPT !.pc = Acts(x, s), !.port = x.port, !.st = NextStatus(x, s),
                      !.last = IF Closes(x) THEN [NoRun EXCEPT !.at = x.open,
                                                    !.outcome = Closure(x).outcome,
                                                    !.lost = Lost(x)]
                               ELSE [x.last EXCEPT !.ended = 0]]]
    /\ Calm /\ Rest /\ UNCHANGED <<inst, unit>>

\* The transaction fails; what the pass noted in memory stays.
RecordFails(p) ==
    /\ pass[p].pc = "record"
    /\ memory' = [memory EXCEPT !.synthesized = Synthesized(pass[p])]
    /\ Over(p) /\ Fault /\ Rest /\ UNCHANGED <<dbVars, unit>>

CallStop(p) ==
    /\ pass[p].pc = "stop" /\ unit' = Stopped(unit) /\ Over(p)
    /\ Calm /\ Rest /\ UNCHANGED <<dbVars, memory>>

Free(x) == {q \in Ports \ {x.port} : q \notin setup.held}
NeedsPort(x) == x.port \in x.last.lost

\* Mutant: the latch is not looked at.
VerdictUnlatched(x) ==
    IF x.st.state = "failed" /\ setup.policy = "never" THEN "policy_never" ELSE "stamp"

\* EvaluateStart over the recorded status and the ledger's count, then F5.
Verdict(x) ==
    LET looping == Cardinality(Failures(x.st.reset)) > RestartMax
        failed == x.st.state = "failed"
    IN CASE x.st.state = "crash-looping" \/ (failed /\ looping) -> "crash_loop"
         [] failed /\ ~looping /\ setup.policy = "never" -> "policy_never"
         [] failed /\ ~looping /\ setup.policy = "on-failure" /\ x.last.outcome = "stopped"
              -> "clean_exit"
         [] OTHER -> IF ~NeedsPort(x) THEN "stamp" ELSE IF Free(x) = {} THEN "exhaust" ELSE "move"

Reasons == {"crash_loop", "policy_never", "clean_exit"}

\* The backoff of the last start has not run out.
BackoffHolds(p) ==
    /\ pass[p].pc = "count" /\ starts # <<>> /\ Over(p)
    /\ Calm /\ Rest /\ UNCHANGED <<dbVars, unit, memory>>

Evaluate(p) ==
    /\ pass[p].pc = "count"
    /\ LET v == Verdict(pass[p]) IN
        IF v \in Reasons THEN pass' = [pass EXCEPT ![p].pc = "inhibit", ![p].say = v]
        ELSE Goto(p, v)
    /\ Calm /\ Rest /\ UNCHANGED <<dbVars, unit, memory>>

\* Mutant: the guard against a second refusal row was evaluated outside the transaction.
InhibitAgain(p) ==
    /\ pass[p].pc = "inhibit"
    /\ status' = [pass[p].st EXCEPT !.state = IF pass[p].say = "crash_loop" THEN "crash-looping"
                                              ELSE @]
    /\ starts' = IF Refusals(pass[p].say, pass[p].last.at) = {} \/ pass[p].last.at = 0
                    \/ \E q \in Passes \ {p} : pass[q].pc = "inhibit"
                 THEN Append(starts, Row("inhibited", pass[p].say, unit.serial)) ELSE starts
    /\ Over(p) /\ Calm /\ Rest /\ UNCHANGED <<inst, unit, memory>>

\* A crash loop is latched with the status the pass recorded.
Inhibit(p) ==
    /\ pass[p].pc = "inhibit"
    /\ LET x == pass[p]
           latches == x.say = "crash_loop" /\ x.st.state # "crash-looping"
       IN /\ status' = IF latches THEN [x.st EXCEPT !.state = "crash-looping"] ELSE status
          /\ starts' = IF Refusals(x.say, x.last.at) = {}
                       THEN Append(starts, Row("inhibited", x.say, 0)) ELSE starts
    /\ Over(p) /\ Calm /\ Rest /\ UNCHANGED <<inst, unit, memory>>

ReassignInternalPort(p) ==
    /\ pass[p].pc = "move"
    /\ LET free == Free(pass[p]) IN
        inst' = IF inst.deleted THEN inst
                ELSE [inst EXCEPT !.port = CHOOSE q \in free : \A r \in free : q <= r]
    /\ Over(p) /\ Calm /\ Rest /\ UNCHANGED <<status, starts, unit, memory>>

MarkPortPoolExhausted(p) ==
    /\ pass[p].pc = "exhaust"
    /\ status' = [pass[p].st EXCEPT !.state = "failed"]
    /\ Over(p) /\ Calm /\ Rest /\ UNCHANGED <<inst, starts, unit, memory>>

StampStart(p) ==
    /\ pass[p].pc = "stamp"
    /\ inst' = [inst EXCEPT !.trigger = "supervisor_restart", !.override = FALSE]
    /\ status' = pass[p].st
    /\ Goto(p, "call") /\ Calm /\ Rest /\ UNCHANGED <<starts, unit, memory>>

CallStart(p) ==
    /\ pass[p].pc = "call" /\ unit' = Started(unit) /\ Over(p)
    /\ Calm /\ Rest /\ UNCHANGED <<dbVars, memory>>

\* A write or a call of the act phase fails.
ActFails(p) ==
    /\ pass[p].pc \in {"stop", "inhibit", "move", "exhaust", "stamp", "call"}
    /\ Over(p) /\ Fault /\ Rest /\ UNCHANGED <<dbVars, unit, memory>>

-----------------------------------------------------------------------------
(* Requests: each is one transaction; a restart, a reset and a delete also   *)
(* call the manager, the delete before its transaction.                      *)

Ask == /\ daemon = "up" /\ asks < MaxAsks /\ asks' = asks + 1 /\ asked' = Len(starts)
       /\ ~inst.deleted /\ Calm
       /\ UNCHANGED <<starts, daemon, memory, host, setup>>
Cleared == [state |-> IF status.state = "crash-looping" THEN "stopped" ELSE status.state,
            reset |-> Len(starts)]
Wanted(trigger, override) ==
    inst' = [inst EXCEPT !.desired = "running", !.trigger = trigger, !.override = override]

AskStart == /\ Ask /\ Wanted("user", FALSE) /\ Kicked /\ UNCHANGED <<status, unit, request>>
AskStop == /\ Ask /\ inst' = [inst EXCEPT !.desired = "stopped"] /\ Kicked
           /\ UNCHANGED <<status, unit, request>>
SafeStart == /\ Ask /\ Wanted("safe_start", TRUE) /\ status' = Cleared /\ Kicked
             /\ UNCHANGED <<unit, request>>
AskRestart == /\ Ask /\ request = "none" /\ Wanted("user", FALSE) /\ request' = "restart"
              /\ UNCHANGED <<status, unit, pass>>
ResetFailed == /\ Ask /\ request = "none" /\ request' = "reset" /\ status' = Cleared
               /\ UNCHANGED <<inst, unit, pass>>
AskDelete == /\ Ask /\ request = "none" /\ request' = "delete" /\ unit' = Stopped(unit)
             /\ UNCHANGED <<inst, status, pass>>
StartByHand == /\ Ask /\ unit' = Started(unit) /\ UNCHANGED <<inst, status, request, pass>>

Answer ==
    /\ request # "none" /\ request' = "none"
    /\ inst' = IF request # "delete" THEN inst
               ELSE [inst EXCEPT !.desired = "stopped", !.deleted = TRUE]
    /\ unit' = CASE request = "restart" -> Restarted(unit)
                 [] request = "reset" /\ unit.active = "failed" ->
                        [unit EXCEPT !.active = "inactive"]
                 [] OTHER -> unit
    /\ IF request = "reset" THEN Kicked ELSE UNCHANGED pass
    /\ Calm /\ UNCHANGED <<status, starts, daemon, memory, host, setup, asked, asks>>

-----------------------------------------------------------------------------
(* The daemon and the host.                                                  *)

Gone == /\ pass' = [p \in Passes |-> NoPass] /\ memory' = Blank /\ request' = "none"
        /\ daemon' = "down"

DaemonDies ==
    /\ daemon # "down" /\ Gone /\ Fault
    /\ UNCHANGED <<dbVars, unit, host, setup, asked, asks>>

HostDies ==
    /\ Gone /\ Fault
    /\ unit' = [unit EXCEPT !.active = "inactive", !.proc = "none", !.exit = "none", !.row = 0,
                            !.restart = FALSE]
    /\ \E autostart \in BOOLEAN : host' = [new |-> TRUE, start |-> autostart]
    /\ asked' = Len(starts)
    /\ UNCHANGED <<dbVars, setup, asks>>

\* hostBootDecision: on a new host boot every desired state follows autostart.
HostBootDecision ==
    /\ daemon = "down" /\ daemon' = "list"
    /\ inst' = IF ~host.new \/ inst.deleted THEN inst
               ELSE [inst EXCEPT !.desired = IF host.start THEN "running" ELSE "stopped"]
    /\ host' = [host EXCEPT !.new = FALSE]
    /\ Calm /\ UNCHANGED <<status, starts, unit, pass, memory, request, setup, asked, asks>>

\* llamaman-instances.target, ordered After=llamaman.service.
TargetStarts ==
    /\ host.start /\ daemon # "down" /\ unit' = Started(unit)
    /\ host' = [host EXCEPT !.start = FALSE] /\ Calm
    /\ UNCHANGED <<dbVars, pass, daemon, memory, request, setup, asked, asks>>

\* reconcileOpenRows: the instances with an open row are listed and observed ...
ListOpenRows ==
    /\ daemon = "list"
    /\ daemon' = IF Open # 0 /\ unit.active # "active" THEN "close" ELSE "up"
    /\ Calm /\ UNCHANGED <<dbVars, unit, pass, memory, request, host, setup, asked, asks>>

\* ... and the row is closed by instance, not by id.
CloseOpenRow ==
    /\ daemon = "close" /\ daemon' = "up"
    /\ starts' = CloseStart(starts, Open, "failed", "restarted", unit.serial, {})
    /\ Calm
    /\ UNCHANGED <<inst, status, unit, pass, memory, request, host, setup, asked, asks>>

-----------------------------------------------------------------------------
Pass(p) == \/ ReadRows(p) \/ Observe(p) \/ Record(p) \/ CallStop(p) \/ Inhibit(p)
           \/ ReassignInternalPort(p) \/ MarkPortPoolExhausted(p) \/ StampStart(p)
           \/ CallStart(p)
Unit == OpenStart \/ AbortStart \/ Exec \/ FailStart \/ Serve \/ StopDone \/ RestartGoes
Boot == HostBootDecision \/ ListOpenRows \/ CloseOpenRow

Next ==
    \/ \E p \in Passes : \/ Subjects(p) \/ Pass(p) \/ Evaluate(p) \/ BackoffHolds(p)
                         \/ RecordFails(p) \/ ActFails(p)
    \/ Unit \/ Hang \/ Die \/ Settle
    \/ AskStart \/ AskStop \/ SafeStart \/ AskRestart \/ ResetFailed \/ AskDelete \/ StartByHand
    \/ Answer
    \/ Boot \/ DaemonDies \/ HostDies \/ TargetStarts

Spec == Init /\ [][Next]_vars

\* The loop ticks, a pass once begun goes on, processes and the manager act, a backoff
\* ends, a dead daemon is restarted.  Nobody has to ask, and nothing has to fail.
FairSpec ==
    /\ Spec
    /\ WF_vars(Subjects(Loop)) /\ \A p \in Passes : WF_vars(Pass(p)) /\ SF_vars(Evaluate(p))
    /\ WF_vars(OpenStart) /\ WF_vars(Exec) /\ WF_vars(FailStart) /\ WF_vars(Serve)
    /\ WF_vars(inst.deleted /\ AbortStart)
    /\ WF_vars(StopDone) /\ WF_vars(RestartGoes)
    /\ WF_vars(Boot) /\ WF_vars(TargetStarts) /\ WF_vars(Answer)

-----------------------------------------------------------------------------
(* What should hold.                                                         *)

Codes == {"none", "superseded", "restarted", "timeout", "model", "port", "unit", "db",
          "schema", "gone"} \cup Reasons
States == {"stopped", "starting", "loading", "ready", "degraded", "failed",
           "crash-looping", "stopping", "unknown"}

\* The type invariant; at most one row of the ledger is open.
TypeOK ==
    /\ inst \in [desired : {"running", "stopped"}, deleted : BOOLEAN, override : BOOLEAN,
                 trigger : {"none", "user", "safe_start", "supervisor_restart"}, port : Ports]
    /\ status.state \in States /\ status.reset <= Len(starts)
    /\ \A k \in DOMAIN starts :
          /\ starts[k].outcome \in {"open", "stopped", "failed", "inhibited"}
          /\ starts[k].code \in Codes
    /\ Cardinality({k \in DOMAIN starts : starts[k].outcome = "open"}) <= 1
    /\ unit.active \in {"active", "deactivating", "inactive", "failed"}
    /\ unit.proc \in {"none", "gate", "preflight", "load", "serve", "hung"}
    /\ \A p \in Passes : pass[p].st.state \in States

\* A process past its gate is the one the open row is about, whatever passes,
\* requests and starts by hand came in between (D54: "no run without its row").  Only
\* the boot reconciliation may have closed the row of a live run.
RunIsLedgered ==
    unit.row # 0 => \/ Open = unit.row
                    \/ starts[unit.row].outcome = "failed" /\ starts[unit.row].code = "restarted"

\* D64: since anybody last asked for anything, RestartMax + 1 runs fail before the latch;
\* the request may have started one itself, and every other pass in flight may start one
\* more on a count it read before.  No further automatic start follows.  With
\* more requests, or a RestartMax of 0, starts asked for at once may add to the count.
CrashLoopBounded == Cardinality(Failures(asked)) <= RestartMax + 1 + Cardinality(Passes)

\* A refusal is written once an episode, however many passes refuse: two rows of one
\* reason have a finished run between them.
OneRefusal ==
    \A j, k \in DOMAIN starts :
        j < k /\ starts[j].outcome = "inhibited" /\ starts[k].outcome = "inhibited"
              /\ starts[j].code = starts[k].code
        => \E m \in j + 1 .. k - 1 : starts[m].outcome \in {"stopped", "failed"}

\* section 3.10b: a safe start's override reaches the launcher that opens the next
\* run; until then only another request takes it away.
OverrideKept ==
    [][inst.override /\ ~inst'.override
         => asks' # asks \/ Len(starts') > Len(starts)]_vars

\* An instance wanted stopped for good ends down, with every run in its ledger closed.
StopSettles ==
    <>[](inst.desired = "stopped") => <>[](Down(unit) /\ Open = 0)

\* The last run lost its port without naming it: the port is moved pass after pass and
\* the instance is not started.
Untold == inst.port \in LastClosed.lost /\ Cardinality(LastClosed.lost) > 1

\* Refused: the policy has said no since the last finished run, or there is no port.
Refused == \/ status.state = "crash-looping"
           \/ \E k \in DOMAIN starts : k > LastClosed.at /\ starts[k].outcome = "inhibited"
           \/ Ports \subseteq setup.held \/ Untold

\* An instance wanted running for good ends serving, or refused for a recorded reason,
\* or with a server that answers nothing.
WantedSettles ==
    <>[](inst.desired = "running" /\ ~inst.deleted)
        => <>[](unit.proc \in {"serve", "hung"} \/ Refused)

=============================================================================
