-------------------------- MODULE SelfUpdateProofs --------------------------
(***************************************************************************)
(* What holds of self-updates for any updates, releases and bounds: at     *)
(* most one is in flight, because a row that is not over keeps a live job; *)
(* a binary that never got as far as its marker is found by the judge with *)
(* the marker in place; and the judge restores one that opens the database.*)
(***************************************************************************)
EXTENDS SelfUpdate, FiniteSetTheorems, TLAPS

RowStates == {"none", "staged", "swapping"} \cup Cancelable \cup Over
JobStates == {"none", "queued", "running", "interrupted"} \cup Over

RowsOK ==
    /\ row \in [Updates -> [state : RowStates, to : Versions \cup {NoVersion}]]
    /\ job \in [Updates -> [state : JobStates, cancel : BOOLEAN]]

\* A row that is not over has a job that is not over.
Carried == \A u \in Updates : Open(u) => LiveJob(u)

\* Two such rows are one.
Single == \A u, w \in Updates : Open(u) /\ Open(w) => u = w

Alone == RowsOK /\ Carried /\ Single

\* Markers as they are read, wreckage included, and the calls of the gate.
Markers == {NoMarker} \cup [id : Updates \cup {NoUpdate}, to : Versions \cup {NoVersion}]
CallSteps == {"idle", "erred", "take", "ask", "confirm", "refuse", "orphans", "unlink", "guard",
              "clear"}
Calls == [pc : CallSteps, marker : Markers, id : Updates \cup {NoUpdate},
          to : Versions \cup {NoVersion}]
CallsOK == call \in [Callers -> Calls] /\ pending \in Markers /\ memo \in Markers

-----------------------------------------------------------------------------
(* Operators that write rows and jobs.                                      *)

\* What a step does to one update, whatever it does to the others: it leaves it as it
\* is, ends it, or moves it on together with its job.
Moves(u) ==
    \/ Open(u)' => Open(u) /\ LiveJob(u)'
    \/ UNCHANGED <<row[u], job[u]>>

LEMMA MovesKeep ==
    ASSUME Alone, RowsOK', \A u \in Updates : Moves(u)
    PROVE  Alone'
BY DEF Alone, Carried, Single, Moves, Open, LiveJob

LEMMA StateType ==
    ASSUME RowsOK, NEW u \in Updates, NEW s \in RowStates
    PROVE  [row EXCEPT ![u].state = s] \in [Updates -> [state : RowStates, to : Versions \cup {NoVersion}]]
BY DEF RowsOK

LEMMA FinishMoves ==
    ASSUME Alone, NEW u \in Updates, NEW out \in Over, Finish(u, out)
    PROVE  Alone'
<1>1. RowsOK'
  BY StateType DEF Alone, RowsOK, Finish, RowStates, JobStates, Over
<1>2. \A w \in Updates : Moves(w)
  BY DEF Alone, RowsOK, Finish, Moves, Open, LiveJob, Over, Carried
<1> QED BY <1>1, <1>2, MovesKeep

LEMMA ResolveMoves ==
    ASSUME Alone, NEW m, NEW out \in {"none"} \cup Over, Resolve(m, out)
    PROVE  Alone'
<1> DEFINE named(u) == m # NoMarker /\ m.id = u /\ out # "none" /\ Open(u)
           spared(u) == m # NoMarker /\ m.id = u
           orphan(u) == ~spared(u) /\ Open(u) /\ job[u].state = "interrupted"
<1>1. /\ row' = [u \in Updates |-> IF named(u) THEN [row[u] EXCEPT !.state = out]
                                   ELSE IF orphan(u) THEN [row[u] EXCEPT !.state = "failed"]
                                   ELSE row[u]]
      /\ job' = [u \in Updates |-> IF named(u) /\ LiveJob(u) THEN [job[u] EXCEPT !.state = out]
                                   ELSE IF orphan(u) THEN [job[u] EXCEPT !.state = "failed"]
                                   ELSE job[u]]
  BY DEF Resolve
<1>2. ASSUME NEW u \in Updates
      PROVE  /\ row'[u] \in [state : RowStates, to : Versions \cup {NoVersion}]
             /\ job'[u] \in [state : JobStates, cancel : BOOLEAN]
             /\ Moves(u)
  <2>0. /\ row[u] \in [state : RowStates, to : Versions \cup {NoVersion}]
        /\ job[u] \in [state : JobStates, cancel : BOOLEAN]
    BY DEF Alone, RowsOK
  <2>1. CASE named(u)
    <3>1. row'[u] = [row[u] EXCEPT !.state = out] /\ out \in Over
          /\ job'[u] = (IF LiveJob(u) THEN [job[u] EXCEPT !.state = out] ELSE IF orphan(u)
                        THEN [job[u] EXCEPT !.state = "failed"] ELSE job[u])
      BY <1>1, <2>1
    <3> HIDE DEF orphan
    <3> QED BY <2>0, <3>1 DEF Moves, Open, RowStates, JobStates, Over
  <2>2. CASE ~named(u) /\ orphan(u)
    <3>1. row'[u] = [row[u] EXCEPT !.state = "failed"] /\ job'[u] = [job[u] EXCEPT !.state = "failed"]
      BY <1>1, <2>2
    <3> QED BY <2>0, <3>1 DEF Moves, Open, RowStates, JobStates, Over
  <2>3. CASE ~named(u) /\ ~orphan(u)
    <3>1. row'[u] = row[u] /\ job'[u] = job[u]
      BY <1>1, <2>3
    <3> QED BY <2>0, <3>1 DEF Moves
  <2> QED BY <2>1, <2>2, <2>3
<1>3. RowsOK'
  <2> HIDE DEF named, spared, orphan
  <2> QED BY <1>1, <1>2 DEF Alone, RowsOK
<1> QED BY <1>2, <1>3, MovesKeep

\* SetState moves a row that is open, and no other.
LEMMA SetStateMoves ==
    ASSUME Alone, NEW u \in Updates, NEW s \in RowStates \ ({"none"} \cup Over), SetState(u, s),
           job' = job
    PROVE  Alone'
<1>1. RowsOK'
  BY StateType DEF Alone, RowsOK, SetState
<1>2. \A w \in Updates : Moves(w)
  BY DEF Alone, RowsOK, SetState, Moves, Open, LiveJob, Carried
<1> QED BY <1>1, <1>2, MovesKeep

\* A step that writes no row and ends no job.
LEMMA QuietMoves ==
    ASSUME Alone, row' = row,
           job' \in [Updates -> [state : JobStates, cancel : BOOLEAN]],
           \A u \in Updates : LiveJob(u) => LiveJob(u)'
    PROVE  Alone'
BY DEF Alone, RowsOK, Carried, Single, Open

-----------------------------------------------------------------------------
(* The calls of the gate keep their type.                                   *)

LEMMA NoCallType == NoCall \in Calls
BY DEF NoCall, Calls, CallSteps, Markers

LEMMA SetCallType ==
    ASSUME CallsOK, NEW c \in Callers, NEW pc \in CallSteps, SetCall(c, pc)
    PROVE  call' \in [Callers -> Calls]
BY DEF CallsOK, SetCall, Calls

LEMMA GateCalls ==
    ASSUME CallsOK, NEW c \in Callers, Gate(c)
    PROVE  CallsOK'
<1> USE DEF CallsOK
<1>0. After(c) \in CallSteps /\ Failed(c) \in CallSteps /\ {"orphans", "refuse", "unlink"} \subseteq CallSteps
  BY DEF After, Failed, CallSteps
<1>1. CASE TakeMarker(c)
  <2>1. CASE memo = NoMarker /\ call' = [call EXCEPT ![c].marker = Wreck, ![c].pc = "refuse"]
    <3>1. Wreck \in Markers
      BY DEF Wreck, Markers
    <3>2. call' \in [Callers -> Calls]
      BY <2>1, <3>1 DEF Calls, CallSteps
    <3> QED BY <1>1, <3>2 DEF TakeMarker, Markers, fileVars
  <2>2. CASE \E m \in Markers, pc \in CallSteps :
               call' = [call EXCEPT ![c].marker = m, ![c].pc = pc]
    <3>1. call' \in [Callers -> Calls]
      BY <2>2 DEF Calls
    <3> QED BY <1>1, <3>1 DEF TakeMarker, Markers, fileVars
  <2>3. ASSUME NEW m, m = IF memo # NoMarker THEN memo ELSE pending,
               call' = [call EXCEPT ![c].marker = m,
                          ![c].pc = IF m = NoMarker THEN "orphans"
                                    ELSE IF m.to = proc.exe THEN "confirm" ELSE "ask"]
        PROVE  \E k \in Markers, pc \in CallSteps :
                 call' = [call EXCEPT ![c].marker = k, ![c].pc = pc]
    <3> DEFINE pc == IF m = NoMarker THEN "orphans"
                     ELSE IF m.to = proc.exe THEN "confirm" ELSE "ask"
    <3>1. m \in Markers /\ pc \in CallSteps
      BY <2>3 DEF CallSteps
    <3>2. call' = [call EXCEPT ![c].marker = m, ![c].pc = pc]
      BY <2>3
    <3> HIDE DEF pc
    <3> QED BY <3>1, <3>2
  <2> QED BY <1>1, <2>1, <2>2, <2>3 DEF TakeMarker
<1>2. CASE AskActors(c)
  <2>1. \E pc \in CallSteps : SetCall(c, pc)
    BY <1>0, <1>2 DEF AskActors
  <2> QED BY <1>2, <2>1, SetCallType DEF AskActors, fileVars
<1>3. CASE Confirmed(c) \/ NotApplied(c) \/ CloseOrphans(c)
  <2>1. \E pc \in CallSteps : SetCall(c, pc)
    BY <1>0, <1>3 DEF Confirmed, NotApplied, CloseOrphans, Commits
  <2> QED BY <1>3, <2>1, SetCallType DEF Confirmed, NotApplied, CloseOrphans, Commits, fileVars
<1>4. CASE Unlink(c)
  BY <1>0, <1>4, SetCallType DEF Unlink, Markers
<1> QED BY <1>1, <1>2, <1>3, <1>4 DEF Gate

LEMMA OtherCalls ==
    ASSUME Alone, CallsOK, Next, \A c \in Callers : ~Gate(c)
    PROVE  CallsOK'
<1> USE DEF CallsOK, dbVars, fileVars, daemonVars, unitVars, ghostVars, ActorLeaves
<1>0. NoMarker \in Markers
  BY DEF Markers
<1>g. ASSUME Gone, pending' = pending PROVE CallsOK'
  BY <1>0, <1>g, NoCallType DEF Gone
<1>s. ASSUME UNCHANGED <<call, pending, memo>> PROVE CallsOK'
  BY <1>s
<1>1. CASE Boot
  <2>1. CASE OpenDatabase \/ Migrate
    BY <1>g, <1>s, <2>1 DEF OpenDatabase, Migrate, Exit
  <2>2. CASE DisarmBeforeMigration
    BY <1>0, <2>2 DEF DisarmBeforeMigration
  <2>3. CASE Triage
    <3>1. CASE Exit
      BY <1>g, <2>3, <3>1 DEF Triage, Exit
    <3>2. CASE call' = [call EXCEPT !["boot"].pc = "take"] /\ memo' = memo
      <4>1. call' \in [Callers -> Calls]
        BY <3>2 DEF Calls, CallSteps
      <4> QED BY <2>3, <3>2, <4>1 DEF Triage
    <3> QED BY <2>3, <3>1, <3>2 DEF Triage
  <2>4. CASE SignalReady
    BY <2>4, NoCallType DEF SignalReady
  <2> QED BY <1>1, <2>1, <2>2, <2>3, <2>4 DEF Boot
<1>2. CASE Manager \/ ClearStartLimit \/ JudgeFails \/ Judge \/ Operator
  BY <1>2, <1>s DEF Manager, StartUnit, LimitHit, ClearStartLimit, JudgeFails, Judge, JudgeChecks,
                    Revert, JudgeStopPost, Operator
<1>3. CASE Crash \/ PowerLoss \/ Failsafe
  BY <1>3, <1>g DEF Crash, PowerLoss, Failsafe, Exit
<1>4. CASE Swap \/ ActorFails \/ Summon
  BY <1>4, <1>g, <1>s DEF Swap, Preflight, Retain, ExtractBinary, Install, RestartDaemon,
                          ActorStopPost, ActorFails, Summon, Exit
<1>5. CASE TickerFires
  BY <1>5, SetCallType DEF TickerFires, CallSteps, Callers
<1>6. ASSUME NEW v \in Versions, Apply(v) PROVE CallsOK'
  <2> DEFINE u == CHOOSE u \in Unused : TRUE
             k == [NoCall EXCEPT !.pc = "take", !.to = v, !.id = u]
  <2>1. u \in Updates
    BY <1>6 DEF Apply, Unused
  <2>2. call' = [call EXCEPT !["apply"] = k] /\ pending' = pending /\ memo' = memo
    BY <1>6 DEF Apply
  <2> HIDE DEF u
  <2>3. k \in Calls
    BY <2>1, NoCallType DEF Calls, CallSteps
  <2> HIDE DEF k
  <2> QED BY <2>2, <2>3
<1>7. CASE GuardAndInsert
  BY <1>7, NoCallType, SetCallType DEF GuardAndInsert, CallSteps, Callers
<1>8. CASE ClearScratch
  BY <1>8, NoCallType DEF ClearScratch
<1>9. ASSUME NEW u \in Updates, Worker(u) \/ StageFails(u) \/ Cancel(u) \/ Retry(u) PROVE CallsOK'
  <2>1. CASE WriteMarker(u)
    <3>1. Marker(u) \in Markers
      BY DEF Marker, Markers, Alone, RowsOK
    <3> QED BY <2>1, <3>1 DEF WriteMarker
  <2>2. CASE BeginSwap(u)
    BY <2>2, NoCallType DEF BeginSwap
  <2>3. CASE ~WriteMarker(u) /\ ~BeginSwap(u)
    BY <1>9, <1>s, <2>3 DEF Worker, Pipeline, Claim, Heartbeat, Stopped, Download, VerifyStaged,
                            Stage, StageFails, Cancel, Retry, Finish
  <2> QED BY <2>1, <2>2, <2>3
<1> QED BY <1>1, <1>2, <1>3, <1>4, <1>5, <1>6, <1>7, <1>8, <1>9 DEF Next

-----------------------------------------------------------------------------
(* Steps on rows and jobs.                                                  *)

LEMMA InsertAlone == ASSUME Alone, CallsOK, GuardAndInsert PROVE Alone'
<1> DEFINE u == call["apply"].id
           r == [state |-> "planned", to |-> call["apply"].to]
           j == [state |-> "queued", cancel |-> FALSE]
<1>1. CASE InFlight
  <2>1. row' = row /\ job' = job
    BY <1>1 DEF GuardAndInsert
  <2> QED BY <2>1, QuietMoves DEF Alone, RowsOK, LiveJob
<1>2. CASE ~InFlight
  <2>1. row' = [row EXCEPT ![u] = r] /\ job' = [job EXCEPT ![u] = j]
    BY <1>2 DEF GuardAndInsert
  <2>2. \A w \in Updates : ~Open(w)
    BY <1>2 DEF InFlight, Alone, Carried
  <2>3. r \in [state : RowStates, to : Versions \cup {NoVersion}]
    BY DEF CallsOK, Calls, Callers, RowStates, Cancelable
  <2>4. j \in [state : JobStates, cancel : BOOLEAN] /\ j.state = "queued"
    BY DEF JobStates
  <2> HIDE DEF u, r, j
  <2>5. RowsOK'
    BY <2>1, <2>3, <2>4 DEF Alone, RowsOK
  <2>6. \A w \in Updates : Open(w)' => w = u
    BY <2>1, <2>2 DEF Alone, RowsOK, Open
  <2>7. \A w \in Updates : w = u => LiveJob(w)'
    BY <2>1, <2>4 DEF Alone, RowsOK, LiveJob
  <2> QED BY <2>5, <2>6, <2>7 DEF Alone, Carried, Single
<1> QED BY <1>1, <1>2

LEMMA GateAlone == ASSUME Alone, NEW c \in Callers, Gate(c) PROVE Alone'
<1>1. CASE row' = row /\ job' = job
  BY <1>1, QuietMoves DEF Alone, RowsOK, LiveJob
<1>2. ASSUME NEW out \in {"none", "succeeded", "failed"}, Resolve(call[c].marker, out) PROVE Alone'
  BY <1>2, ResolveMoves DEF Over
<1>3. CASE Confirmed(c) \/ NotApplied(c) \/ CloseOrphans(c)
  BY <1>1, <1>2, <1>3 DEF Confirmed, NotApplied, CloseOrphans, Commits
<1>4. CASE TakeMarker(c) \/ AskActors(c) \/ Unlink(c)
  BY <1>1, <1>4 DEF TakeMarker, AskActors, Unlink, dbVars
<1> QED BY <1>3, <1>4 DEF Gate

LEMMA WorkerAlone ==
    ASSUME Alone, NEW u \in Updates, Worker(u) \/ StageFails(u) \/ Cancel(u) \/ Retry(u)
    PROVE  Alone'
<1>q. ASSUME row' = row, job' = job PROVE Alone'
  BY <1>q, QuietMoves DEF Alone, RowsOK, LiveJob
<1>1. CASE Claim(u)
  <2>1. row' = row /\ job[u].state = "queued" /\ job' = [job EXCEPT ![u].state = "running"]
    BY <1>1 DEF Claim
  <2> QED BY <2>1, QuietMoves DEF Alone, RowsOK, LiveJob, JobStates
<1>2. CASE Heartbeat(u) \/ WriteMarker(u)
  BY <1>2, <1>q DEF Heartbeat, WriteMarker, dbVars
<1>3. CASE Stopped(u) \/ StageFails(u)
  BY <1>3, <1>q, FinishMoves DEF Stopped, StageFails, dbVars, Over
<1>4. CASE Download(u) \/ Stage(u) \/ BeginSwap(u)
  BY <1>4, SetStateMoves DEF Download, Stage, BeginSwap, RowStates, Cancelable, Over
<1>5. CASE VerifyStaged(u)
  BY <1>5, SetStateMoves, FinishMoves DEF VerifyStaged, RowStates, Cancelable, Over
<1>6. CASE Cancel(u)
  <2>1. CASE job[u].state = "running"
    <3>1. row' = row /\ job' = [job EXCEPT ![u].cancel = TRUE]
      BY <1>6, <2>1 DEF Cancel
    <3> QED BY <3>1, QuietMoves DEF Alone, RowsOK, LiveJob
  <2>2. CASE job[u].state # "running"
    BY <1>6, <2>2, FinishMoves DEF Cancel, Over
  <2> QED BY <2>1, <2>2
<1>7. CASE Retry(u)
  <2>1. RowsOK'
    BY <1>7, StateType DEF Retry, Alone, RowsOK, RowStates, JobStates, Cancelable
  <2>2. \A w \in Updates : Moves(w)
    BY <1>7 DEF Retry, Alone, RowsOK, Carried, Moves, Open, LiveJob
  <2> QED BY <2>1, <2>2, MovesKeep
<1> QED BY <1>1, <1>2, <1>3, <1>4, <1>5, <1>6, <1>7 DEF Worker, Pipeline

LEMMA OtherAlone ==
    ASSUME Alone, \/ Boot \/ Manager \/ ClearStartLimit \/ TickerFires \/ ClearScratch
                  \/ (\E v \in Versions : Apply(v)) \/ Summon \/ Failsafe \/ Swap \/ ActorFails
                  \/ Judge \/ JudgeFails \/ Crash \/ PowerLoss \/ Operator
    PROVE  Alone'
<1>1. CASE Triage
  <2>1. row' = row /\ \A u \in Updates : \/ job'[u] = job[u]
                                        \/ job'[u] = [job[u] EXCEPT !.state = "interrupted"]
    BY <1>1 DEF Triage
  <2>2. job' \in [Updates -> [state : JobStates, cancel : BOOLEAN]]
    BY <1>1 DEF Triage, Alone, RowsOK, JobStates
  <2>3. \A u \in Updates : LiveJob(u) => LiveJob(u)'
    BY <2>1 DEF Alone, RowsOK, LiveJob
  <2> QED BY <2>1, <2>2, <2>3, QuietMoves
<1>2. CASE ~Triage
  <2>1. row' = row /\ job' = job
    BY <1>2 DEF Boot, OpenDatabase, DisarmBeforeMigration, Migrate, SignalReady, Manager, StartUnit,
       LimitHit, ClearStartLimit, TickerFires, ClearScratch, Apply, Summon, Failsafe, Swap,
       Preflight, Retain, ExtractBinary, Install, RestartDaemon, ActorStopPost, ActorFails, Judge,
       JudgeChecks, Revert, JudgeStopPost, JudgeFails, Crash, PowerLoss, Operator, dbVars, ActorLeaves
  <2> QED BY <2>1, QuietMoves DEF Alone, RowsOK, LiveJob
<1> QED BY <1>1, <1>2

LEMMA NextAlone == Alone /\ CallsOK /\ [Next]_vars => Alone' /\ CallsOK'
<1>1. ASSUME Alone, CallsOK, UNCHANGED vars PROVE Alone' /\ CallsOK'
  BY <1>1 DEF vars, Alone, RowsOK, Carried, Single, Open, LiveJob, CallsOK
<1>2. ASSUME Alone, CallsOK, Next PROVE Alone'
  BY <1>2, InsertAlone, GateAlone, WorkerAlone, OtherAlone DEF Next
<1>3. ASSUME Alone, CallsOK, Next PROVE CallsOK'
  BY <1>3, GateCalls, OtherCalls
<1> QED BY <1>1, <1>2, <1>3

LEMMA InitAlone == Init => Alone /\ CallsOK
<1> SUFFICES ASSUME Init PROVE Alone /\ CallsOK
  OBVIOUS
<1>1. RowsOK
  BY DEF Init, RowsOK, RowStates, JobStates
<1>2. \A u \in Updates : ~Open(u)
  BY DEF Init, Open
<1>3. CallsOK
  BY NoCallType DEF Init, CallsOK, Markers
<1> QED BY <1>1, <1>2, <1>3 DEF Alone, Carried, Single

-----------------------------------------------------------------------------
(* The theorem.                                                             *)

LEMMA AtMostOne ==
    ASSUME NEW S, \A a, b \in S : a = b
    PROVE  Cardinality(S) <= 1
<1>1. CASE S = {}
  BY <1>1, FS_EmptySet
<1>2. ASSUME NEW a \in S PROVE Cardinality(S) <= 1
  <2>1. S = {a}
    BY <1>2
  <2> QED BY <2>1, FS_Singleton
<1> QED BY <1>1, <1>2

\* D97: at most one update that is not over has a live job, whatever applies, retries,
\* cancels, gate calls, crashes and swaps interleave: guardAndInsert looks and writes in
\* one transaction, and nothing that revives a job reopens its row.
THEOREM OneAtATime == Spec => []OneInFlight
<1>1. Alone => OneInFlight
  <2>1. ASSUME Alone PROVE OneInFlight
    <3> DEFINE S == {u \in Updates : Open(u) /\ LiveJob(u)}
    <3>1. \A a, b \in S : a = b
      BY <2>1 DEF Alone, Single
    <3> HIDE DEF S
    <3>2. Cardinality(S) <= 1
      BY <3>1, AtMostOne
    <3> QED BY <3>2 DEF OneInFlight, S
  <2> QED BY <2>1
<1> QED BY <1>1, InitAlone, NextAlone, PTL DEF Spec

-----------------------------------------------------------------------------
(* Types.                                                                   *)

WorkSteps == {"idle", "download", "verify", "stage", "mark", "hand", "await"}
DaemonSteps == {"off", "failed", "open", "disarm", "migrate", "triage", "gate", "ready", "drain",
                "wait"}
ActorSteps == {"idle", "preflight", "retain", "extract", "install", "restart", "post"}
Trials == {"fresh", "disarmed", "resolved", "proven"}

\* What the rows, the jobs and the calls leave of TypeOK.
PartsOK ==
    /\ work \in [Updates -> [pc : WorkSteps, stop : {"no", "cancel", "lost"}]]
    /\ scratch \in Versions \cup {NoVersion}
    /\ pending \in MarkerType /\ memo \in MarkerType
    /\ disk \in [installed : Versions, prev : Versions \cup {NoVersion}, own : BOOLEAN]
    /\ schema \in Nat /\ release \in [needs : Schemas, flaw : Flaws]
    /\ proc \in [pc : DaemonSteps, exe : Versions]
    /\ starts \in 0 .. Burst
    /\ actor \in [pc : ActorSteps, marker : MarkerType]
    /\ judge \in {"idle", "check", "rename", "post"}
    /\ \A c \in Callers : call[c].marker \in MarkerType \cup {Wreck}
    /\ trial \in Trials /\ crossed \in BOOLEAN
    /\ faults \in 0 .. MaxFaults /\ clicks \in 0 .. MaxClicks

\* Whatever names a release on its way to the disk names one.
Named ==
    /\ \A u \in Updates : row[u].state # "none" => row[u].to \in Versions
    /\ \A u \in Updates : job[u].state # "none" => row[u].state # "none"
    /\ \A u \in Updates : work[u] # Idle => row[u].state # "none"
    /\ call["apply"].pc # "idle" => call["apply"].to \in Versions /\ call["apply"].id \in Updates
    /\ actor.pc \in {"retain", "extract", "install"} => actor.marker # NoMarker
    /\ judge \in {"check", "rename"} => disk.prev # NoVersion

Typed == Alone /\ CallsOK /\ PartsOK /\ Named


LEMMA TypedInit == Init => PartsOK /\ Named
<1> SUFFICES ASSUME Init PROVE PartsOK /\ Named
  OBVIOUS
<1>1. NoMarker \in MarkerType
  BY DEF MarkerType
<1>2. release \in [needs : Schemas, flaw : Flaws] /\ schema = release.needs[First]
  BY DEF Init
<1>3. schema \in Nat
  BY <1>2, SelfUpdateAssumption
<1>4. PartsOK
  <2>1. work \in [Updates -> [pc : WorkSteps, stop : {"no", "cancel", "lost"}]]
    BY DEF Init, WorkSteps, Idle
  <2>2. disk \in [installed : Versions, prev : Versions \cup {NoVersion}, own : BOOLEAN]
    BY SelfUpdateAssumption DEF Init
  <2>3. proc \in [pc : DaemonSteps, exe : Versions] /\ actor \in [pc : ActorSteps, marker : MarkerType]
    BY <1>1, SelfUpdateAssumption DEF Init, DaemonSteps, ActorSteps
  <2>4. \A c \in Callers : call[c].marker \in MarkerType \cup {Wreck}
    BY <1>1 DEF Init, NoCall
  <2>5. /\ scratch = NoVersion /\ pending = NoMarker /\ memo = NoMarker /\ starts = 0 /\ judge = "idle"
        /\ trial = "proven" /\ crossed = FALSE /\ faults = 0 /\ clicks = 0
    BY DEF Init
  <2>6. 0 \in 0 .. Burst /\ 0 \in 0 .. MaxFaults /\ 0 \in 0 .. MaxClicks /\ FALSE \in BOOLEAN
    BY SelfUpdateAssumption
  <2> QED BY <1>1, <1>2, <1>3, <2>1, <2>2, <2>3, <2>4, <2>5, <2>6 DEF PartsOK, Trials
<1>5. Named
  BY DEF Init, Named, Idle, NoCall, Callers
<1> QED BY <1>4, <1>5

\* Any work that ends is typed, and any call that ends names nothing.
LEMMA GoneTyped ==
    ASSUME Typed, Gone
    PROVE  /\ work' \in [Updates -> [pc : WorkSteps, stop : {"no", "cancel", "lost"}]]
           /\ memo' \in MarkerType
           /\ \A c \in Callers : call'[c].marker \in MarkerType \cup {Wreck}
           /\ \A u \in Updates : work'[u] = Idle
           /\ call'["apply"].pc = "idle"
BY DEF Gone, Idle, NoCall, MarkerType, WorkSteps, Callers

LEMMA BootTyped == ASSUME Typed, Boot PROVE PartsOK' /\ Named'
<1> USE DEF Typed, PartsOK, DaemonSteps, dbVars, fileVars, daemonVars, unitVars, ghostVars, Step
<1>n. NoMarker \in MarkerType
  BY DEF MarkerType
<1>1. CASE OpenDatabase
  <2>1. CASE Exit
    BY <1>1, <2>1, GoneTyped DEF OpenDatabase, Exit, Named
  <2>2. CASE UNCHANGED daemonVars /\ \E pc \in DaemonSteps : Step(pc)
    BY <1>1, <2>2 DEF OpenDatabase, Named
  <2> QED BY <1>1, <2>1, <2>2 DEF OpenDatabase
<1>2. CASE DisarmBeforeMigration
  BY <1>2, <1>n DEF DisarmBeforeMigration, Named, Trials
<1>3. CASE Migrate
  <2>1. CASE Exit /\ UNCHANGED schema
    BY <1>3, <2>1, GoneTyped DEF Migrate, Exit, Named
  <2>2. CASE Step("triage") /\ schema' = release.needs[proc.exe] /\ UNCHANGED daemonVars
    <3>1. release.needs[proc.exe] \in Nat
      BY SelfUpdateAssumption
    <3> QED BY <1>3, <2>2, <3>1 DEF Migrate, Named
  <2> QED BY <1>3, <2>1, <2>2 DEF Migrate
<1>4. CASE Triage
  <2>0. \A u \in Updates : job'[u].state # "none" => job[u].state # "none"
    BY <1>4 DEF Triage, Alone, RowsOK
  <2>1. CASE Exit
    BY <1>4, <2>0, <2>1, GoneTyped DEF Triage, Exit, Named
  <2>2. CASE Step("gate") /\ call' = [call EXCEPT !["boot"].pc = "take"] /\ UNCHANGED <<work, memo>>
    <3>1. call'["apply"] = call["apply"] /\ \A c \in Callers : call'[c].marker = call[c].marker
      BY <2>2 DEF CallsOK, Calls, Callers
    <3> QED BY <1>4, <2>0, <2>2, <3>1 DEF Triage, Named
  <2> QED BY <1>4, <2>1, <2>2 DEF Triage
<1>5. CASE SignalReady
  <2>1. call'["apply"] = call["apply"] /\ \A c \in Callers : call'[c].marker \in MarkerType \cup {Wreck}
    BY <1>5, <1>n DEF SignalReady, CallsOK, Calls, Callers, NoCall
  <2> QED BY <1>5, <2>1 DEF SignalReady, Named, Trials
<1> QED BY <1>1, <1>2, <1>3, <1>4, <1>5 DEF Boot

LEMMA UnitTyped ==
    ASSUME Typed, \/ Manager \/ ClearStartLimit \/ Judge \/ JudgeFails \/ Crash \/ PowerLoss
                  \/ Operator \/ Failsafe
    PROVE  PartsOK' /\ Named'
<1> USE SelfUpdateAssumption
    DEF Typed, PartsOK, DaemonSteps, dbVars, fileVars, daemonVars, unitVars, ghostVars, Step
<1>1. CASE Manager
  <2>1. CASE StartUnit
    BY <1>1, <2>1 DEF StartUnit, Named
  <2>2. CASE LimitHit
    BY <1>1, <2>2 DEF LimitHit, Named
  <2> QED BY <1>1, <2>1, <2>2 DEF Manager
<1>2. CASE ClearStartLimit
  BY <1>2 DEF ClearStartLimit, Named
<1>3. CASE JudgeChecks
  BY <1>3 DEF JudgeChecks, Named
<1>4. CASE Revert
  BY <1>4 DEF Revert, Named, Trials
<1>5. CASE JudgeStopPost
  BY <1>5 DEF JudgeStopPost, Named, Revive
<1>6. CASE JudgeFails
  BY <1>6 DEF JudgeFails, FaultOnly, Fault, Named
<1>7. CASE Crash
  BY <1>7, GoneTyped DEF Crash, Exit, FaultOnly, Fault, Named
<1>8. CASE PowerLoss
  BY <1>8, GoneTyped DEF PowerLoss, Exit, FaultOnly, Fault, Named, ActorSteps
<1>9. CASE Operator
  BY <1>9 DEF Operator, Revive, Named
<1>10. CASE Failsafe
  BY <1>10, GoneTyped DEF Failsafe, Exit, Named
<1> QED BY <1>1, <1>2, <1>3, <1>4, <1>5, <1>6, <1>7, <1>8, <1>9, <1>10 DEF Judge

LEMMA GateTyped == ASSUME Typed, NEW c \in Callers, Gate(c) PROVE PartsOK' /\ Named'
<1> USE DEF Typed, PartsOK, dbVars, fileVars, daemonVars, unitVars, ghostVars
<1>n. NoMarker \in MarkerType
  BY DEF MarkerType
<1>c. /\ call \in [Callers -> Calls]
      /\ \A k \in Callers : call[k] \in [pc : CallSteps, marker : Markers,
                                         id : Updates \cup {NoUpdate}, to : Versions \cup {NoVersion}]
  BY DEF CallsOK, Calls
\* A call that goes on keeps what it asks for, and its marker.
<1>k. ASSUME NEW pc, SetCall(c, pc), call[c].pc # "idle"
      PROVE  /\ \A k \in Callers : call'[k].marker \in MarkerType \cup {Wreck}
             /\ call'["apply"].pc # "idle" => call'["apply"].to \in Versions /\ call'["apply"].id \in Updates
  BY <1>c, <1>k DEF SetCall, Named, Callers
<1>1. CASE TakeMarker(c)
  <2>1. ASSUME NEW m \in MarkerType \cup {Wreck}, NEW pc,
               call' = [call EXCEPT ![c].marker = m, ![c].pc = pc], memo' = NoMarker \/ memo' = memo,
               UNCHANGED <<release, trial, crossed, clicks>>, faults' \in 0 .. MaxFaults
        PROVE  PartsOK' /\ Named'
    <3>1. \A k \in Callers : call'[k].marker \in MarkerType \cup {Wreck}
      BY <1>c, <2>1
    <3>2. call'["apply"].to = call["apply"].to /\ call'["apply"].id = call["apply"].id
      BY <1>c, <2>1 DEF Callers
    <3>3. call'["apply"].pc # "idle" => call["apply"].pc # "idle"
      BY <1>c, <1>1, <2>1 DEF Callers, TakeMarker
    <3>4. /\ UNCHANGED <<row, job, schema, scratch, pending, disk, work, proc, starts, actor, judge>>
          /\ UNCHANGED <<release, trial, crossed, clicks>>
          /\ memo' \in MarkerType
      BY <1>1, <1>n, <2>1 DEF TakeMarker
    <3> QED BY <2>1, <3>1, <3>2, <3>3, <3>4 DEF Named
  <2>2. (IF memo # NoMarker THEN memo ELSE pending) \in MarkerType
    OBVIOUS
  <2>3. CASE memo = NoMarker /\ FaultOnly /\ UNCHANGED memo
             /\ call' = [call EXCEPT ![c].marker = Wreck, ![c].pc = "refuse"]
    <3>1. Wreck \in MarkerType \cup {Wreck} /\ faults' \in 0 .. MaxFaults
      BY <2>3, SelfUpdateAssumption DEF FaultOnly, Fault
    <3>2. UNCHANGED <<release, trial, crossed, clicks>>
      BY <2>3 DEF FaultOnly
    <3> QED BY <2>1, <2>3, <3>1, <3>2
  <2>4. CASE ~(memo = NoMarker /\ FaultOnly /\ UNCHANGED memo
             /\ call' = [call EXCEPT ![c].marker = Wreck, ![c].pc = "refuse"])
    <3> DEFINE m == IF memo # NoMarker THEN memo ELSE pending
               pc == IF m = NoMarker THEN "orphans" ELSE IF m.to = proc.exe THEN "confirm" ELSE "ask"
    <3>1. /\ call' = [call EXCEPT ![c].marker = m, ![c].pc = pc]
          /\ memo' = NoMarker /\ UNCHANGED <<release, trial, crossed, faults, clicks>>
      BY <1>1, <2>4 DEF TakeMarker
    <3>2. m \in MarkerType
      BY <2>2
    <3> HIDE DEF m, pc
    <3> QED BY <2>1, <3>1, <3>2
  <2> QED BY <2>3, <2>4
<1>2. CASE AskActors(c)
  <2>1. \E pc : SetCall(c, pc)
    BY <1>2 DEF AskActors
  <2>2. faults' \in 0 .. MaxFaults /\ UNCHANGED <<release, trial, crossed, clicks>>
    BY <1>2, SelfUpdateAssumption DEF AskActors, FaultOnly, Fault
  <2> QED BY <1>2, <1>k, <2>1, <2>2 DEF AskActors, Named
<1>3. CASE Confirmed(c) \/ NotApplied(c) \/ CloseOrphans(c)
  <2>1. (\E pc : SetCall(c, pc)) /\ call[c].pc # "idle"
    BY <1>3 DEF Confirmed, NotApplied, CloseOrphans, Commits
  <2>2. /\ faults' \in 0 .. MaxFaults /\ crossed' \in BOOLEAN /\ UNCHANGED <<release, trial, clicks>>
        /\ UNCHANGED <<schema, scratch, pending, disk, work, memo, proc, starts, actor, judge>>
    <3>1. ASSUME NEW pc, NEW out, NEW next, Commits(c, pc, out, next)
          PROVE  /\ faults' = faults \/ (faults < MaxFaults /\ faults' = faults + 1)
                 /\ UNCHANGED <<release, trial, clicks>>
                 /\ UNCHANGED <<schema, scratch, pending, disk, work, memo, proc, starts, actor, judge>>
                 /\ \/ crossed' = crossed
                    \/ crossed' = (crossed \/ (pc \in {"confirm", "refuse"} /\ Crossing))
      BY <3>1 DEF Commits, FaultOnly, Fault
    <3>2. crossed' \in BOOLEAN
      BY <1>3, <3>1, Zenon DEF Confirmed, NotApplied, CloseOrphans
    <3> QED BY <1>3, <3>1, <3>2, SelfUpdateAssumption DEF Confirmed, NotApplied, CloseOrphans
  <2>3. \A u \in Updates : /\ row'[u].state # "none" => row[u].state # "none"
                           /\ row[u].state # "none" => row'[u].state # "none"
                           /\ row'[u].to = row[u].to
                           /\ job'[u].state # "none" => row[u].state # "none"
    <3>1. ASSUME NEW m, NEW out \in {"none"} \cup Over, Resolve(m, out), NEW u \in Updates
          PROVE  /\ row'[u].state # "none" => row[u].state # "none"
                 /\ row[u].state # "none" => row'[u].state # "none"
                 /\ row'[u].to = row[u].to
                 /\ job'[u].state # "none" => row[u].state # "none"
      <4>1. \/ row'[u] = row[u] /\ job'[u] = job[u]
            \/ /\ Open(u)
               /\ \E s \in Over : row'[u] = [row[u] EXCEPT !.state = s]
        BY <3>1 DEF Resolve, Over
      <4> QED BY <4>1 DEF Named, Alone, RowsOK, Over, Open
    <3>2. CASE row' = row /\ job' = job
      BY <3>2 DEF Named
    <3> QED BY <1>3, <3>1, <3>2 DEF Confirmed, NotApplied, CloseOrphans, Commits, Over
  <2> QED BY <1>k, <2>1, <2>2, <2>3 DEF Named
<1>4. CASE Unlink(c)
  <2>1. SetCall(c, After(c)) /\ call[c].pc # "idle"
    BY <1>4 DEF Unlink
  <2>2. trial' \in Trials
    BY <1>4 DEF Unlink, Trials
  <2> QED BY <1>4, <1>k, <1>n, <2>1, <2>2 DEF Unlink, Named
<1> QED BY <1>1, <1>2, <1>3, <1>4 DEF Gate

LEMMA SwapTyped ==
    ASSUME Typed, Swap \/ ActorFails \/ Summon
    PROVE  PartsOK' /\ Named'
<1> USE SelfUpdateAssumption
    DEF Typed, PartsOK, DaemonSteps, dbVars, fileVars, daemonVars, unitVars, ghostVars, ActorLeaves,
        ActorGoes, ActorSteps
<1>1. CASE Preflight
  BY <1>1 DEF Preflight, Named
<1>2. CASE Retain
  BY <1>2 DEF Retain, Named
<1>3. CASE ExtractBinary
  BY <1>3 DEF ExtractBinary, Named
<1>4. CASE Install
  <2>1. actor.marker.to \in Versions
    BY <1>4 DEF Install, Named, MarkerType
  <2> QED BY <1>4, <2>1 DEF Install, Named, Trials
<1>5. CASE RestartDaemon
  <2>1. CASE Exit
    BY <1>5, <2>1, GoneTyped DEF RestartDaemon, Exit, Named
  <2>2. CASE UNCHANGED <<proc, daemonVars>>
    BY <1>5, <2>2 DEF RestartDaemon, Named
  <2> QED BY <1>5, <2>1, <2>2 DEF RestartDaemon
<1>6. CASE ActorStopPost
  BY <1>6 DEF ActorStopPost, Revive, Named
<1>7. CASE ActorFails
  BY <1>7 DEF ActorFails, FaultOnly, Fault, Named
<1>8. CASE Summon
  <2>1. actor' \in [pc : ActorSteps, marker : MarkerType] /\ (actor'.pc = actor.pc \/ actor'.pc = "preflight")
        /\ actor'.marker = actor.marker
    BY <1>8 DEF Summon
  <2>2. faults' \in 0 .. MaxFaults /\ UNCHANGED <<release, trial, crossed, clicks>>
    BY <1>8 DEF Summon, FaultOnly, Fault
  <2> QED BY <1>8, <2>1, <2>2 DEF Summon, Step, Named
<1> QED BY <1>1, <1>2, <1>3, <1>4, <1>5, <1>6, <1>7, <1>8 DEF Swap

LEMMA ApplyTyped ==
    ASSUME Typed, TickerFires \/ (\E v \in Versions : Apply(v)) \/ GuardAndInsert \/ ClearScratch
    PROVE  PartsOK' /\ Named'
<1> USE SelfUpdateAssumption
    DEF Typed, PartsOK, dbVars, fileVars, daemonVars, unitVars, ghostVars
<1>n. NoMarker \in MarkerType
  BY DEF MarkerType
<1>c. \A k \in Callers : call[k] \in [pc : CallSteps, marker : Markers,
                                      id : Updates \cup {NoUpdate}, to : Versions \cup {NoVersion}]
  BY DEF CallsOK, Calls
<1>1. CASE TickerFires
  <2>1. call'["apply"] = call["apply"] /\ \A c \in Callers : call'[c].marker = call[c].marker
    BY <1>1, <1>c DEF TickerFires, SetCall, CallsOK, Callers
  <2> QED BY <1>1, <2>1 DEF TickerFires, Named
<1>2. ASSUME NEW v \in Versions, Apply(v) PROVE PartsOK' /\ Named'
  <2> DEFINE u == CHOOSE u \in Unused : TRUE
             k == [NoCall EXCEPT !.pc = "take", !.to = v, !.id = u]
  <2>1. u \in Updates
    BY <1>2 DEF Apply, Unused
  <2>2. call' = [call EXCEPT !["apply"] = k]
    BY <1>2 DEF Apply
  <2>5. clicks' \in 0 .. MaxClicks
        /\ UNCHANGED <<dbVars, fileVars, work, memo, unitVars, release, trial, crossed, faults>>
    <3>1. Click /\ UNCHANGED <<dbVars, fileVars, work, memo, unitVars>>
      BY <1>2 DEF Apply
    <3> QED BY <3>1 DEF Click
  <2> HIDE DEF u
  <2>3. k.to = v /\ k.id = u /\ k.marker = NoMarker
    BY DEF NoCall
  <2> HIDE DEF k
  <2>4. call'["apply"] = k /\ \A c \in Callers : call'[c].marker \in MarkerType \cup {Wreck}
    BY <1>n, <2>2, <2>3 DEF CallsOK, Callers
  <2> QED BY <2>1, <2>3, <2>4, <2>5 DEF Named
<1>3. CASE GuardAndInsert
  <2> DEFINE u == call["apply"].id
  <2>1. u \in Updates /\ call["apply"].to \in Versions
    BY <1>3 DEF GuardAndInsert, Named
  <2>2. /\ \A c \in Callers : call'[c].marker \in MarkerType \cup {Wreck}
        /\ call'["apply"].pc # "idle" => call'["apply"].to \in Versions /\ call'["apply"].id \in Updates
    BY <1>3, <1>c, <1>n, <2>1 DEF GuardAndInsert, CallsOK, Callers, SetCall, NoCall
  <2>3. \A w \in Updates : /\ row'[w].state # "none" => row'[w].to \in Versions
                           /\ job'[w].state # "none" => row'[w].state # "none"
                           /\ row[w].state # "none" => row'[w].state # "none"
    BY <1>3, <2>1 DEF GuardAndInsert, Named, Alone, RowsOK
  <2> QED BY <1>3, <2>2, <2>3 DEF GuardAndInsert, Named
<1>4. CASE ClearScratch
  <2>1. call'["apply"].pc = "idle" /\ \A c \in Callers : call'[c].marker \in MarkerType \cup {Wreck}
    BY <1>4, <1>n DEF ClearScratch, CallsOK, Callers, NoCall
  <2> QED BY <1>4, <2>1 DEF ClearScratch, Named
<1> QED BY <1>1, <1>2, <1>3, <1>4

\* A row that is there stays there, and keeps its release.
LEMMA WorkerTyped ==
    ASSUME Typed, NEW u \in Updates, Worker(u) \/ StageFails(u) \/ Cancel(u) \/ Retry(u)
    PROVE  PartsOK' /\ Named'
<1> USE SelfUpdateAssumption
    DEF Typed, PartsOK, dbVars, fileVars, daemonVars, unitVars, ghostVars, WorkSteps
<1>r. /\ \A w \in Updates : row[w] \in [state : RowStates, to : Versions \cup {NoVersion}]
      /\ \A w \in Updates : job[w] \in [state : JobStates, cancel : BOOLEAN]
  BY DEF Alone, RowsOK
<1>f. ASSUME NEW out \in Over, Finish(u, out), row[u].state # "none"
      PROVE  /\ work' \in [Updates -> [pc : WorkSteps, stop : {"no", "cancel", "lost"}]]
             /\ scratch' \in Versions \cup {NoVersion} /\ UNCHANGED <<schema, pending, disk>>
             /\ \A w \in Updates : /\ row'[w].state # "none" => row'[w].to \in Versions
                                   /\ job'[w].state # "none" => row'[w].state # "none"
                                   /\ work'[w] # Idle => row'[w].state # "none"
  <2>1. \A w \in Updates : row'[w] = row[w] \/ (row'[w] = [row[w] EXCEPT !.state = out] /\ Open(w))
    BY <1>f, <1>r DEF Finish, Alone, RowsOK
  <2>2. \A w \in Updates : job'[w].state # "none" => row[w].state # "none"
    BY <1>f, <1>r DEF Finish, Alone, RowsOK, Named
  <2>3. \A w \in Updates : work'[w] # Idle => work[w] # Idle
    BY <1>f DEF Finish
  <2> QED BY <1>f, <1>r, <2>1, <2>2, <2>3 DEF Finish, Named, Open, Over, Idle
<1>s. ASSUME NEW s \in RowStates, SetState(u, s), s # "none"
      PROVE  \A w \in Updates : /\ row'[w].state # "none" => row'[w].to \in Versions
                                /\ row[w].state # "none" => row'[w].state # "none"
  <2>1. \A w \in Updates : row'[w] = row[w] \/ (row'[w] = [row[w] EXCEPT !.state = s] /\ Open(w))
    BY <1>s, <1>r DEF SetState, Alone, RowsOK
  <2>2. ASSUME NEW w \in Updates
        PROVE  /\ row'[w].state # "none" => row'[w].to \in Versions
               /\ row[w].state # "none" => row'[w].state # "none"
    <3>1. CASE row'[w] = row[w]
      BY <3>1 DEF Named
    <3>2. CASE row'[w] = [row[w] EXCEPT !.state = s] /\ Open(w)
      <4>1. row'[w].to = row[w].to /\ row'[w].state = s /\ row[w].state # "none"
        BY <1>r, <3>2 DEF Open
      <4> QED BY <1>s, <4>1 DEF Named
    <3> QED BY <2>1, <3>1, <3>2
  <2> QED BY <2>2
<1>v. {"downloading", "verifying", "staged", "swapping", "planned"} \subseteq RowStates
  BY DEF RowStates, Cancelable
<1>1. CASE Claim(u)
  <2>1. row[u].state # "none" /\ row' = row
    BY <1>1 DEF Claim, Named
  <2>2. \A w \in Updates : job'[w].state # "none" => row[w].state # "none"
    BY <1>1, <2>1 DEF Claim, Named, Alone, RowsOK
  <2>3. work' \in [Updates -> [pc : WorkSteps, stop : {"no", "cancel", "lost"}]]
        /\ \A w \in Updates : work'[w] # Idle => row[w].state # "none"
    BY <1>1, <2>1 DEF Claim, Named
  <2>4. UNCHANGED <<schema, fileVars, memo, call, unitVars, ghostVars>>
    BY <1>1 DEF Claim
  <2> QED BY <2>1, <2>2, <2>3, <2>4 DEF Named
<1>2. CASE Heartbeat(u)
  <2>1. row[u].state # "none"
    BY <1>2 DEF Heartbeat, Named, Idle
  <2>2. work' = [work EXCEPT ![u].stop = "lost"] \/ work' = [work EXCEPT ![u].stop = "cancel"]
    BY <1>2 DEF Heartbeat
  <2>3. work' \in [Updates -> [pc : WorkSteps, stop : {"no", "cancel", "lost"}]]
    BY <2>2
  <2>4. \A w \in Updates : work'[w] # Idle => row[w].state # "none"
    BY <2>1, <2>2 DEF Named
  <2>5. UNCHANGED <<dbVars, fileVars, memo, call, unitVars, ghostVars>>
    BY <1>2 DEF Heartbeat
  <2> QED BY <2>3, <2>4, <2>5 DEF Named
<1>3. CASE Stopped(u)
  <2>1. CASE Finish(u, "canceled") /\ work[u].stop = "cancel"
    <3>1. row[u].state # "none"
      BY <2>1 DEF Named, Idle
    <3> QED BY <1>3, <1>f, <2>1, <3>1 DEF Stopped, Named, Over
  <2>2. CASE work' = [work EXCEPT ![u] = Idle] /\ UNCHANGED <<dbVars, fileVars>>
    BY <1>3, <2>2 DEF Stopped, Named, Idle
  <2> QED BY <1>3, <2>1, <2>2 DEF Stopped
<1>4. CASE Download(u)
  <2>1. row[u].state # "none" /\ row[u].to \in Versions
    BY <1>4 DEF Download, At, Named, Idle
  <2> QED BY <1>4, <1>s, <1>v, <2>1 DEF Download, Goto, Named
<1>5. CASE VerifyStaged(u)
  <2>1. row[u].state # "none"
    BY <1>5 DEF VerifyStaged, At, Named, Idle
  <2>2. CASE Finish(u, "failed")
    BY <1>5, <1>f, <2>1, <2>2 DEF VerifyStaged, Named, Over
  <2>3. CASE SetState(u, "verifying") /\ Goto(u, "stage") /\ UNCHANGED <<job, schema, fileVars>>
    BY <1>5, <1>s, <1>v, <2>1, <2>3 DEF VerifyStaged, Goto, Named
  <2> QED BY <1>5, <2>2, <2>3 DEF VerifyStaged
<1>6. CASE Stage(u)
  <2>1. row[u].state # "none"
    BY <1>6 DEF Stage, At, Named, Idle
  <2> QED BY <1>6, <1>s, <1>v, <2>1 DEF Stage, Goto, Named
<1>7. CASE WriteMarker(u)
  <2>1. row[u].state # "none" /\ row[u].to \in Versions
    BY <1>7 DEF WriteMarker, At, Named, Idle
  <2>2. pending' = Marker(u) /\ Marker(u) \in MarkerType
    BY <1>7, <2>1 DEF WriteMarker, Marker, MarkerType
  <2>3. crossed' = (crossed \/ Crossing)
    BY <1>7 DEF WriteMarker
  <2>4. crossed' \in BOOLEAN
    BY <2>3, Zenon
  <2>5. /\ UNCHANGED <<row, job, schema, scratch, memo, call, proc, starts, actor, judge, release, trial>>
        /\ UNCHANGED <<faults, clicks>>
        /\ disk' = [disk EXCEPT !.own = FALSE] /\ work' = [work EXCEPT ![u].pc = "hand"]
    BY <1>7 DEF WriteMarker, Goto
  <2>6. \A w \in Updates : work'[w] # Idle => row[w].state # "none"
    BY <2>1, <2>5 DEF Named
  <2>7. work' \in [Updates -> [pc : WorkSteps, stop : {"no", "cancel", "lost"}]]
    BY <2>5
  <2>8. disk' \in [installed : Versions, prev : Versions \cup {NoVersion}, own : BOOLEAN]
        /\ disk'.prev = disk.prev
    BY <2>5
  <2> QED BY <2>2, <2>4, <2>5, <2>6, <2>7, <2>8 DEF Named
<1>8. CASE BeginSwap(u)
  <2>1. row[u].state # "none"
    BY <1>8 DEF BeginSwap, At, Named, Idle
  <2>2. /\ \A c \in Callers : call'[c].marker \in MarkerType \cup {Wreck}
        /\ call'["apply"] = call["apply"]
    BY <1>8 DEF BeginSwap, CallsOK, Callers, NoCall, MarkerType
  <2>3. proc' \in [pc : DaemonSteps, exe : Versions]
    BY <1>8 DEF BeginSwap, Step, DaemonSteps
  <2> QED BY <1>8, <1>s, <1>v, <2>1, <2>2, <2>3 DEF BeginSwap, Goto, Named
<1>9. CASE StageFails(u)
  <2>1. row[u].state # "none"
    BY <1>9 DEF StageFails, At, Named, Idle
  <2> QED BY <1>9, <1>f, <2>1 DEF StageFails, FaultOnly, Fault, Named, Over
<1>10. CASE Cancel(u)
  <2>1. row[u].state # "none"
    BY <1>10 DEF Cancel, LiveJob, Named
  <2>2. clicks' \in 0 .. MaxClicks /\ UNCHANGED <<release, trial, crossed, faults>>
    BY <1>10 DEF Cancel, Click
  <2>3. CASE Finish(u, "canceled")
    BY <1>10, <1>f, <2>1, <2>2, <2>3 DEF Cancel, Named, Over
  <2>4. CASE job' = [job EXCEPT ![u].cancel = TRUE] /\ UNCHANGED <<row, schema, fileVars, work>>
    <3>1. \A w \in Updates : job'[w].state = job[w].state
      BY <2>4 DEF Alone, RowsOK
    <3> QED BY <1>10, <2>2, <2>4, <3>1 DEF Cancel, Named
  <2> QED BY <1>10, <2>3, <2>4 DEF Cancel
<1>11. CASE Retry(u)
  <2>1. row[u].state # "none" /\ clicks' \in 0 .. MaxClicks /\ UNCHANGED <<release, trial, crossed, faults>>
    BY <1>11 DEF Retry, Click, Named
  <2>2. SetState(u, "planned") /\ \A w \in Updates : job'[w].state # "none" => row[w].state # "none"
    BY <1>11, <2>1 DEF Retry, SetState, Named, Alone, RowsOK
  <2> QED BY <1>11, <1>s, <1>v, <2>1, <2>2 DEF Retry, Named
<1> QED BY <1>1, <1>2, <1>3, <1>4, <1>5, <1>6, <1>7, <1>8, <1>9, <1>10, <1>11 DEF Worker, Pipeline

LEMMA NextTyped == Typed /\ [Next]_vars => Typed'
<1>1. ASSUME Typed, UNCHANGED vars PROVE PartsOK' /\ Named'
  BY <1>1 DEF vars, Typed, PartsOK, Named
<1>2. ASSUME Typed, Next PROVE PartsOK' /\ Named'
  BY <1>2, BootTyped, UnitTyped, GateTyped, SwapTyped, ApplyTyped, WorkerTyped DEF Next
<1> QED BY <1>1, <1>2, NextAlone DEF Typed

LEMMA TypedAlways == Spec => []Typed
<1>1. Init => Typed
  BY InitAlone, TypedInit DEF Typed
<1> QED BY <1>1, NextTyped, PTL DEF Spec

\* Every variable keeps its type, whatever crashes, requests and swaps interleave; in
\* particular no marker, and no actor that has read one, names anything but a release.
THEOREM TypeCorrect == Spec => []TypeOK
<1>1. Typed => TypeOK
  <2>1. ASSUME Typed PROVE \A c \in Callers : call[c].pc \in CallSteps
    BY <2>1 DEF Typed, CallsOK, Calls
  <2> QED BY <2>1 DEF Typed, PartsOK, Alone, RowsOK, TypeOK, RowStates, JobStates, WorkSteps,
                      DaemonSteps, ActorSteps, CallSteps, Trials
<1> QED BY <1>1, TypedAlways, PTL

-----------------------------------------------------------------------------
(* Where a boot stands, and what it shows of the release that boots.        *)

FlawIn(where, v) == release.flaw = where /\ v # First
Opens(v) == ~FlawIn("open", v) /\ schema <= release.needs[v]
Disarms(v) == Opens(v) /\ schema < release.needs[v]
\* A release that has booted, and boots again unless it is killed.
Serves(v) == Opens(v) /\ ~FlawIn("gate", v) /\ schema = release.needs[v]

BootOrder ==
    /\ proc.pc \in {"disarm", "migrate"} => Disarms(proc.exe)
    /\ proc.pc = "migrate" => pending = NoMarker
    /\ proc.pc = "triage" => Opens(proc.exe) /\ schema = release.needs[proc.exe]
    /\ proc.pc \in {"gate", "ready", "drain", "wait"} => Serves(proc.exe)
    /\ proc.pc = "wait" => starts = 0

\* Calls and workers live in a daemon, and the judge renames beneath none.
Quiet ==
    /\ proc.pc \in {"off", "failed"} => \A c \in Callers : call[c].pc = "idle"
    /\ proc.pc \notin {"ready", "drain", "wait"} => \A u \in Updates : work[u] = Idle
    /\ judge = "rename" => proc.pc = "failed" \/ (proc.pc = "off" /\ starts = 0)

Ordered == BootOrder /\ Quiet

LEMMA InitOrdered == Init => Ordered
BY DEF Init, Ordered, BootOrder, Quiet, NoCall, Idle

LEMMA NeedsNat == ASSUME Typed PROVE \A v \in Versions : release.needs[v] \in Nat
BY SelfUpdateAssumption DEF Typed, PartsOK

LEMMA GoneOrdered ==
    ASSUME Typed, Ordered, Exit, judge' # "rename"
    PROVE  Ordered'
<1>1. proc'.pc = "off" /\ Gone
  BY DEF Exit, Typed, PartsOK
<1> QED BY <1>1 DEF Ordered, BootOrder, Quiet, Gone, NoCall, Callers, Typed, PartsOK

LEMMA BootOrdered == ASSUME Typed, Ordered, Boot PROVE Ordered'
<1> USE DEF Typed, PartsOK, dbVars, fileVars, daemonVars, unitVars, ghostVars, Step
<1>n. release.needs[proc.exe] \in Nat
  BY NeedsNat
<1>j. proc.pc \notin {"off", "failed"} => judge # "rename"
  BY DEF Ordered, Quiet
<1>1. CASE OpenDatabase
  <2>1. CASE Exit
    BY <1>1, <1>j, <2>1, GoneOrdered DEF OpenDatabase
  <2>2. CASE ~Exit
    BY <1>1, <1>n, <1>j, <2>2
       DEF OpenDatabase, Ordered, BootOrder, Quiet, Opens, Disarms, Serves, Flawed, FlawIn
  <2> QED BY <2>1, <2>2
<1>2. CASE DisarmBeforeMigration
  BY <1>2, <1>j DEF DisarmBeforeMigration, Ordered, BootOrder, Quiet, Opens, Disarms, Serves, FlawIn
<1>3. CASE Migrate
  <2>1. CASE Exit
    BY <1>3, <1>j, <2>1, GoneOrdered DEF Migrate
  <2>2. CASE ~Exit
    <3>1. /\ proc'.pc = "triage" /\ proc'.exe = proc.exe /\ schema' = release.needs[proc.exe]
          /\ UNCHANGED <<release, judge, work>>
      BY <1>3, <2>2 DEF Migrate
    <3>2. ~FlawIn("open", proc.exe) /\ \A u \in Updates : work[u] = Idle
      BY <1>3 DEF Migrate, Ordered, BootOrder, Quiet, Disarms, Opens
    <3> QED BY <1>n, <1>j, <1>3, <3>1, <3>2 DEF Migrate, Ordered, BootOrder, Quiet, Opens, FlawIn
  <2> QED BY <2>1, <2>2
<1>4. CASE Triage
  <2>1. CASE Exit
    BY <1>4, <1>j, <2>1, GoneOrdered DEF Triage
  <2>2. CASE ~Exit
    BY <1>4, <1>n, <1>j, <2>2
       DEF Triage, Ordered, BootOrder, Quiet, Opens, Disarms, Serves, Flawed, FlawIn
  <2> QED BY <2>1, <2>2
<1>5. CASE SignalReady
  BY <1>5, <1>j DEF SignalReady, Ordered, BootOrder, Quiet, Opens, Serves, FlawIn
<1> QED BY <1>1, <1>2, <1>3, <1>4, <1>5 DEF Boot

\* A step that leaves the daemon where it is.
LEMMA PutOrdered ==
    ASSUME Typed, Ordered, UNCHANGED <<proc, schema, release>>,
           starts' = starts \/ starts' = 0,
           judge' = "rename" => judge = "rename" \/ proc.pc = "failed",
           proc.pc = "migrate" => pending' = NoMarker,
           proc.pc \in {"off", "failed"} => call' = call,
           proc.pc \notin {"ready", "drain", "wait"} => work' = work
    PROVE  Ordered'
BY DEF Ordered, BootOrder, Quiet, Opens, Disarms, Serves, FlawIn

LEMMA UnitOrdered ==
    ASSUME Typed, Ordered, \/ Manager \/ ClearStartLimit \/ Judge \/ JudgeFails \/ Crash \/ PowerLoss
                           \/ Operator \/ Failsafe
    PROVE  Ordered'
<1> USE DEF Typed, PartsOK, dbVars, fileVars, daemonVars, unitVars, ghostVars, Step
<1>j. proc.pc \notin {"off", "failed"} => judge # "rename"
  BY DEF Ordered, Quiet
<1>m. proc.pc = "migrate" => pending = NoMarker
  BY DEF Ordered, BootOrder
<1>1. CASE StartUnit
  BY <1>1 DEF StartUnit, Ordered, BootOrder, Quiet
<1>2. CASE LimitHit
  BY <1>2 DEF LimitHit, Ordered, BootOrder, Quiet
<1>3. CASE ClearStartLimit
  BY <1>3, PutOrdered DEF ClearStartLimit
<1>4. CASE JudgeChecks \/ JudgeFails
  <2>1. /\ UNCHANGED <<proc, schema, release, starts, pending, call, work>>
        /\ judge' = "rename" => proc.pc = "failed"
    BY <1>4 DEF JudgeChecks, JudgeFails, FaultOnly
  <2> QED BY <1>m, <2>1, PutOrdered
<1>5. CASE Revert
  BY <1>5, <1>m, PutOrdered DEF Revert
<1>6. CASE JudgeStopPost \/ Operator
  BY <1>6 DEF JudgeStopPost, Operator, Revive, Ordered, BootOrder, Quiet, Opens, Disarms, Serves, FlawIn
<1>7. CASE Crash \/ PowerLoss \/ Failsafe
  <2>1. Exit /\ judge' # "rename"
    BY <1>7, <1>j DEF Crash, PowerLoss, Failsafe
  <2> QED BY <2>1, GoneOrdered
<1> QED BY <1>1, <1>2, <1>3, <1>4, <1>5, <1>6, <1>7 DEF Judge, Manager

LEMMA SwapOrdered == ASSUME Typed, Ordered, Swap \/ ActorFails \/ Summon PROVE Ordered'
<1> USE DEF Typed, PartsOK, dbVars, fileVars, daemonVars, unitVars, ghostVars, ActorLeaves, Step
<1>j. proc.pc \notin {"off", "failed"} => judge # "rename"
  BY DEF Ordered, Quiet
<1>1. CASE Preflight \/ Retain \/ ExtractBinary \/ Install \/ ActorFails
  BY <1>1, PutOrdered DEF Preflight, Retain, ExtractBinary, Install, ActorFails, FaultOnly, Ordered, BootOrder
<1>2. CASE RestartDaemon
  <2>1. CASE proc.pc = "failed"
    BY <1>2, <2>1, PutOrdered DEF RestartDaemon
  <2>2. CASE proc.pc = "off"
    BY <1>2, <2>2 DEF RestartDaemon, Exit, Gone, Ordered, BootOrder, Quiet, NoCall, Callers
  <2>3. CASE proc.pc \notin {"off", "failed"}
    BY <1>2, <1>j, <2>3, GoneOrdered DEF RestartDaemon
  <2> QED BY <2>1, <2>2, <2>3
<1>3. CASE ActorStopPost
  BY <1>3 DEF ActorStopPost, Revive, Ordered, BootOrder, Quiet, Opens, Disarms, Serves, FlawIn
<1>4. CASE Summon
  <2>1. /\ proc.pc = "drain" /\ proc'.pc = "wait" /\ proc'.exe = proc.exe /\ starts' = 0
        /\ UNCHANGED <<schema, release, judge, work, call>>
    BY <1>4 DEF Summon, FaultOnly
  <2> QED BY <1>j, <2>1 DEF Ordered, BootOrder, Quiet, Opens, Disarms, Serves, FlawIn
<1> QED BY <1>1, <1>2, <1>3, <1>4 DEF Swap

LEMMA CallOrdered ==
    ASSUME Typed, Ordered, \/ TickerFires \/ (\E v \in Versions : Apply(v)) \/ GuardAndInsert
                           \/ ClearScratch \/ \E c \in Callers : Gate(c)
    PROVE  Ordered'
<1> USE DEF dbVars, fileVars, daemonVars, unitVars, ghostVars
<1>1. ASSUME NEW c \in Callers, Gate(c) PROVE Ordered'
  <2>1. call[c].pc # "idle" /\ (pending' = pending \/ pending' = NoMarker)
    BY <1>1 DEF Gate, TakeMarker, AskActors, Confirmed, NotApplied, CloseOrphans, Commits, Unlink
  <2>2. UNCHANGED <<proc, schema, release, starts, judge, work>>
    BY <1>1 DEF Gate, TakeMarker, AskActors, Confirmed, NotApplied, CloseOrphans, Commits, Unlink,
                FaultOnly
  <2>3. proc.pc \notin {"off", "failed"} /\ (proc.pc = "migrate" => pending = NoMarker)
    BY <2>1 DEF Ordered, Quiet, BootOrder
  <2> QED BY <2>1, <2>2, <2>3, PutOrdered
<1>2. CASE TickerFires
  BY <1>2, PutOrdered DEF TickerFires, Ordered, BootOrder
<1>3. ASSUME NEW v \in Versions, Apply(v) PROVE Ordered'
  <2>1. Serving /\ UNCHANGED <<proc, schema, release, starts, judge, work, pending>>
    BY <1>3 DEF Apply, Click
  <2>2. proc.pc \notin {"off", "failed", "migrate"}
    BY <2>1 DEF Serving
  <2> QED BY <2>1, <2>2, PutOrdered
<1>4. CASE GuardAndInsert \/ ClearScratch
  <2>1. call["apply"].pc # "idle" /\ UNCHANGED <<proc, schema, release, starts, judge, work, pending>>
    BY <1>4 DEF GuardAndInsert, ClearScratch
  <2>2. proc.pc \notin {"off", "failed"} /\ (proc.pc = "migrate" => pending = NoMarker)
    BY <2>1 DEF Ordered, Quiet, BootOrder, Callers
  <2> QED BY <2>1, <2>2, PutOrdered
<1> QED BY <1>1, <1>2, <1>3, <1>4

LEMMA WorkerOrdered ==
    ASSUME Typed, Ordered, NEW u \in Updates, Worker(u) \/ StageFails(u) \/ Cancel(u) \/ Retry(u)
    PROVE  Ordered'
<1> USE DEF dbVars, fileVars, daemonVars, unitVars, ghostVars
<1>w. work[u] # Idle => proc.pc \in {"ready", "drain", "wait"}
  BY DEF Ordered, Quiet
<1>m. proc.pc = "migrate" => pending = NoMarker
  BY DEF Ordered, BootOrder
<1>1. CASE Claim(u)
  BY <1>1, PutOrdered DEF Claim, Working
<1>2. CASE Heartbeat(u) \/ Stopped(u) \/ StageFails(u) \/ Download(u) \/ VerifyStaged(u) \/ Stage(u)
           \/ WriteMarker(u)
  <2>1. work[u] # Idle
    BY <1>2 DEF Heartbeat, Stopped, StageFails, Download, VerifyStaged, Stage, WriteMarker, At, Idle
  <2>2. UNCHANGED <<proc, schema, release, starts, judge, call>>
    BY <1>2 DEF Heartbeat, Stopped, StageFails, Download, VerifyStaged, Stage, WriteMarker, Finish,
                FaultOnly
  <2> QED BY <1>w, <2>1, <2>2, PutOrdered
<1>3. CASE BeginSwap(u)
  <2>1. work[u] # Idle
    BY <1>3 DEF BeginSwap, At, Idle
  <2>2. UNCHANGED <<schema, release, starts, judge>>
    BY <1>3 DEF BeginSwap
  <2>3. CASE proc.pc = "ready"
    <3>1. proc'.pc = "drain" /\ proc'.exe = proc.exe
      BY <1>3, <2>3 DEF BeginSwap, Step, Typed, PartsOK
    <3> QED BY <2>2, <2>3, <3>1 DEF Ordered, BootOrder, Quiet, Opens, Disarms, Serves, FlawIn
  <2>4. CASE proc.pc # "ready"
    BY <1>3, <1>w, <2>1, <2>2, <2>4, PutOrdered DEF BeginSwap
  <2> QED BY <2>3, <2>4
<1>4. CASE Cancel(u) \/ Retry(u)
  <2>1. UNCHANGED <<proc, schema, release, starts, judge, call, pending>>
    BY <1>4 DEF Cancel, Retry, Finish, Click
  <2>2. CASE work' = work
    BY <1>m, <2>1, <2>2, PutOrdered
  <2>3. CASE work' # work
    <3>1. work' = [work EXCEPT ![u] = Idle]
      BY <1>4, <2>3 DEF Cancel, Retry, Finish
    <3>2. work[u] # Idle
      BY <2>3, <3>1 DEF Typed, PartsOK
    <3> QED BY <1>w, <2>1, <3>2, PutOrdered
  <2> QED BY <2>2, <2>3
<1> QED BY <1>1, <1>2, <1>3, <1>4 DEF Worker, Pipeline

LEMMA NextOrdered == Typed /\ Ordered /\ [Next]_vars => Ordered'
<1>1. ASSUME Typed, Ordered, UNCHANGED vars PROVE Ordered'
  BY <1>1 DEF vars, Ordered, BootOrder, Quiet, Opens, Disarms, Serves, FlawIn
<1>2. ASSUME Typed, Ordered, Next PROVE Ordered'
  BY <1>2, BootOrdered, UnitOrdered, SwapOrdered, CallOrdered, WorkerOrdered DEF Next
<1> QED BY <1>1, <1>2

-----------------------------------------------------------------------------
(* The revert.  What follows holds until a marker is written or removed     *)
(* across a swap, or as many faults have fallen as the start limit admits.  *)

Clean == ~crossed /\ faults < Burst
Early == {"preflight", "retain", "extract", "install"}

\* A release whose boots, unless they are killed, become ready.
Settles(v) == Opens(v) /\ ~FlawIn("gate", v) /\ (FlawIn("migrate", v) => schema = release.needs[v])
\* The installed release can only spend its start limit by being killed, as long as the
\* marker is there.
Hopeful == Settles(disk.installed) \/ (Disarms(disk.installed) /\ pending # NoMarker)
\* The starts that the faults so far account for: a daemon that waits for its swap ends
\* without one, and Summon has set the count back.
Spent == faults + (IF proc.pc \in {"off", "wait"} THEN 0 ELSE 1)

Held ==
    \* A daemon runs what is installed, or was replaced while it served.
    /\ proc.pc \notin {"off", "failed"} =>
         proc.exe = disk.installed \/ (Serves(proc.exe) /\ proc.pc \notin {"disarm", "migrate"})
    \* Before it installs, an actor works beneath a release that serves, with the marker there.
    /\ actor.pc \in Early =>
         /\ Serves(disk.installed) /\ proc.pc # "failed" /\ pending # NoMarker
         /\ proc.pc # "off" => proc.exe = disk.installed
         /\ actor.pc \in {"extract", "install"} => disk.prev # NoVersion
    \* Nobody hands over across a swap, nor unlinks.
    /\ proc.pc = "drain" => ~Crossing
    /\ proc.pc = "ready" /\ (\E u \in Updates : work[u].pc = "hand") => ~Crossing
    /\ \A c \in Callers : call[c].pc = "unlink" => ~Crossing
    \* Starts are paid for in faults, so the judge only sees releases without a future.
    /\ actor.pc # "post" /\ proc.pc # "failed" /\ Hopeful => starts <= Spent
    /\ judge \in {"check", "rename"} => ~Settles(disk.installed) /\ ~Disarms(disk.installed)
    \* The marker and the retained binary outlive the first boots of what was installed.
    /\ trial = "fresh" => pending # NoMarker /\ disk.prev # NoVersion
    /\ trial = "fresh" /\ proc.pc = "failed" => judge # "idle" \/ actor.pc # "idle"
    \* While a judge may restore it, the binary retained for the marker reads the schema.
    /\ disk.own /\ disk.prev # NoVersion /\ (pending # NoMarker \/ judge \in {"check", "rename"})
         => release.needs[disk.prev] >= schema

Sane == Typed /\ Ordered /\ (Clean => Held)

LEMMA InitHeld == Init => Held
BY DEF Init, Held, Hopeful, Spent, Early, Idle, NoCall, Crossing

LEMMA StillClean == ASSUME Typed, [Next]_vars, Clean' PROVE Clean
<1>1. CASE UNCHANGED vars
  BY <1>1 DEF vars, Clean
<1>2. ASSUME crossed => crossed', faults' \in Nat, faults <= faults' PROVE Clean
  BY <1>2, SelfUpdateAssumption DEF Clean, Typed, PartsOK
<1>g. ASSUME UNCHANGED <<crossed, faults>> PROVE Clean
  BY <1>g DEF Clean
<1>f. ASSUME FaultOnly PROVE Clean
  BY <1>f, <1>2, SelfUpdateAssumption DEF FaultOnly, Fault, Typed, PartsOK
<1>3. ASSUME NEW c \in Callers, Gate(c) PROVE Clean
  <2>1. ASSUME NEW pc, NEW out, NEW next, Commits(c, pc, out, next) PROVE Clean
    BY <2>1, <1>2, <1>f, SelfUpdateAssumption DEF Commits, Typed, PartsOK
  <2> QED BY <1>3, <1>g, <1>f, <2>1 DEF Gate, TakeMarker, AskActors, Confirmed, NotApplied,
                                      CloseOrphans, Unlink, ghostVars
<1>4. ASSUME NEW u \in Updates, Worker(u) \/ StageFails(u) \/ Cancel(u) \/ Retry(u) PROVE Clean
  <2>1. CASE WriteMarker(u)
    <3>1. crossed' = (crossed \/ Crossing) /\ faults' = faults
      BY <2>1 DEF WriteMarker
    <3> QED BY <3>1, <1>2, SelfUpdateAssumption DEF Typed, PartsOK
  <2>2. CASE ~WriteMarker(u)
    BY <1>4, <1>f, <1>g, <2>2 DEF Worker, Pipeline, Claim, Heartbeat, Stopped, Download,
       VerifyStaged, Stage, BeginSwap, StageFails, Cancel, Retry, Click, ghostVars
  <2> QED BY <2>1, <2>2
<1>5. CASE Boot \/ Manager \/ ClearStartLimit \/ TickerFires \/ GuardAndInsert \/ ClearScratch
  BY <1>5, <1>g DEF Boot, OpenDatabase, DisarmBeforeMigration, Migrate, Triage, SignalReady, Manager,
     StartUnit, LimitHit, ClearStartLimit, TickerFires, GuardAndInsert, ClearScratch, ghostVars
<1>6. CASE (\E v \in Versions : Apply(v)) \/ Summon \/ Failsafe \/ Swap \/ ActorFails
  BY <1>6, <1>f, <1>g DEF Apply, Click, Summon, Failsafe, Swap, Preflight, Retain, ExtractBinary,
     Install, RestartDaemon, ActorStopPost, ActorFails, ghostVars
<1>7. CASE Judge \/ JudgeFails \/ Crash \/ PowerLoss \/ Operator
  BY <1>7, <1>f, <1>g DEF Judge, JudgeChecks, Revert, JudgeStopPost, JudgeFails, Crash, PowerLoss,
     Operator, ghostVars
<1> QED BY <1>1, <1>3, <1>4, <1>5, <1>6, <1>7 DEF Next

LEMMA Numbers ==
    ASSUME Typed
    PROVE  /\ starts \in Nat /\ faults \in Nat /\ schema \in Nat /\ Burst \in Nat \ {0}
           /\ \A v \in Versions : release.needs[v] \in Nat
           /\ disk.installed \in Versions /\ proc.exe \in Versions
           /\ disk.prev \in Versions \cup {NoVersion}
BY NeedsNat, SelfUpdateAssumption DEF Typed, PartsOK

\* A step beside the boots, the swap and the judge.
LEMMA FrameHeld ==
    ASSUME Typed, Typed', Held,
           UNCHANGED <<proc, starts, actor, judge, disk, pending, schema, release, trial>>,
           faults <= faults',
           proc.pc = "ready" => \A u \in Updates : work'[u].pc = "hand" => work[u].pc = "hand",
           \A c \in Callers : call'[c].pc = "unlink" => call[c].pc = "unlink" \/ ~Crossing
    PROVE  Held'
<1>1. Crossing' = Crossing /\ Hopeful' = Hopeful /\ \A v : Settles(v)' = Settles(v) /\ Disarms(v)' = Disarms(v)
                                                      /\ Serves(v)' = Serves(v)
  BY DEF Crossing, UnitActorActive, Hopeful, Settles, Disarms, Serves, Opens, FlawIn
<1>2. starts <= Spent => starts' <= Spent'
  <2>1. faults' \in Nat /\ starts' = starts /\ proc' = proc
    BY SelfUpdateAssumption DEF Typed, PartsOK
  <2> QED BY <2>1, Numbers DEF Spent
<1> QED BY <1>1, <1>2 DEF Held

LEMMA BootHeld == ASSUME Typed, Typed', Ordered, Ordered', Held, Clean, Boot PROVE Held'
<1> USE DEF dbVars, fileVars, daemonVars, unitVars, ghostVars, Step
<1>t. proc \in [pc : DaemonSteps, exe : Versions]
  BY DEF Typed, PartsOK
\* A boot that dies runs what is installed, and that one cannot do better.
<1>x. ASSUME Exit, proc.pc \notin {"off", "failed", "wait"}, UNCHANGED <<starts, actor, judge, disk,
             pending, schema, release, trial, faults>>, disk.installed = proc.exe, ~Hopeful
      PROVE  Held'
  <2>1. proc'.pc = "off" /\ (\A c \in Callers : call'[c].pc = "idle")
    BY <1>x, <1>t DEF Exit, Gone, NoCall, Callers
  <2>2. ~Hopeful' /\ ~Serves(disk.installed)
    BY <1>x DEF Hopeful, Settles, Disarms, Serves, Opens, FlawIn
  <2>3. /\ \A v : Settles(v)' = Settles(v) /\ Disarms(v)' = Disarms(v)
    BY <1>x DEF Settles, Disarms, Opens, FlawIn
  <2> QED BY <1>x, <2>1, <2>2, <2>3 DEF Held
<1>1. CASE OpenDatabase
  <2>1. CASE Exit /\ (Flawed("open") \/ schema > release.needs[proc.exe])
    <3>1. ~Opens(proc.exe)
      BY <2>1, Numbers DEF Opens, Flawed, FlawIn
    <3>2. disk.installed = proc.exe
      BY <1>1, <3>1 DEF OpenDatabase, Held, Serves
    <3>3. ~Hopeful
      BY <3>1, <3>2 DEF Hopeful, Settles, Disarms
    <3> QED BY <1>1, <1>x, <2>1, <3>2, <3>3 DEF OpenDatabase
  <2>2. CASE ~(Flawed("open") \/ schema > release.needs[proc.exe])
    <3>1. /\ proc.pc = "open" /\ proc'.exe = proc.exe /\ proc'.pc \in {"disarm", "triage"}
          /\ proc'.pc = "disarm" => schema < release.needs[proc.exe]
          /\ UNCHANGED <<starts, actor, judge, disk, pending, schema, release, trial, faults, call>>
      BY <1>1, <1>t, <2>2 DEF OpenDatabase
    <3>2. /\ \A v : Settles(v)' = Settles(v) /\ Disarms(v)' = Disarms(v) /\ Serves(v)' = Serves(v)
          /\ Hopeful' = Hopeful /\ Spent' = Spent /\ Crossing' = Crossing
      BY <3>1 DEF Settles, Disarms, Serves, Opens, FlawIn, Hopeful, Spent, Crossing, UnitActorActive
    <3>3. Serves(proc.exe) => proc'.pc = "triage"
      BY <3>1, Numbers DEF Serves
    <3> QED BY <3>1, <3>2, <3>3 DEF Held
  <2> QED BY <1>1, <2>1, <2>2 DEF OpenDatabase
<1>2. CASE DisarmBeforeMigration
  <2>1. /\ proc.pc = "disarm" /\ proc'.pc = "migrate" /\ proc'.exe = proc.exe /\ pending' = NoMarker
        /\ UNCHANGED <<starts, actor, judge, disk, schema, release, faults, call>>
        /\ trial' = IF trial = "fresh" THEN "disarmed" ELSE trial
    BY <1>2, <1>t DEF DisarmBeforeMigration
  <2>2. proc.exe = disk.installed /\ Disarms(disk.installed)
    BY <2>1 DEF Held, Ordered, BootOrder
  <2>3. actor.pc \notin Early
    BY <2>2, Numbers DEF Held, Disarms, Serves
  <2>4. /\ \A v : Settles(v)' = Settles(v) /\ Disarms(v)' = Disarms(v) /\ Serves(v)' = Serves(v)
        /\ Hopeful' => Hopeful
        /\ Spent' = Spent /\ Crossing' = Crossing
    BY <2>1 DEF Settles, Disarms, Serves, Opens, FlawIn, Hopeful, Spent, Crossing, UnitActorActive
  <2> QED BY <2>1, <2>2, <2>3, <2>4 DEF Held
<1>3. CASE Migrate
  <2>1. proc.pc = "migrate" /\ pending = NoMarker /\ Disarms(proc.exe) /\ proc.exe = disk.installed
        /\ actor.pc \notin Early /\ judge \notin {"check", "rename"} /\ trial # "fresh"
    BY <1>3, Numbers DEF Migrate, Held, Ordered, BootOrder, Disarms, Serves
  <2>2. CASE Exit /\ Flawed("migrate")
    <3>1. ~Hopeful
      BY <2>1, <2>2, Numbers DEF Hopeful, Settles, Disarms, Flawed, FlawIn
    <3> QED BY <1>3, <1>x, <2>1, <2>2, <3>1 DEF Migrate
  <2>3. CASE ~Flawed("migrate")
    <3>1. /\ proc'.pc = "triage" /\ proc'.exe = proc.exe /\ schema' = release.needs[proc.exe]
          /\ UNCHANGED <<starts, actor, judge, disk, pending, release, trial, faults, call>>
      BY <1>3, <1>t, <2>3 DEF Migrate
    <3>2. Hopeful' => Hopeful
      BY <2>1, <2>3, <3>1 DEF Hopeful, Settles, Disarms, Opens, Flawed, FlawIn
    <3>3. Spent' = Spent /\ Crossing' = Crossing
      BY <2>1, <3>1 DEF Spent, Crossing, UnitActorActive
    <3> QED BY <2>1, <3>1, <3>2, <3>3 DEF Held
  <2> QED BY <1>3, <2>2, <2>3 DEF Migrate
<1>4. CASE Triage
  <2>1. proc.pc = "triage" /\ Opens(proc.exe) /\ schema = release.needs[proc.exe]
    BY <1>4 DEF Triage, Ordered, BootOrder
  <2>2. CASE Exit /\ Flawed("gate")
    <3>1. disk.installed = proc.exe
      BY <2>1, <2>2 DEF Held, Serves, Flawed, FlawIn
    <3>2. ~Hopeful
      BY <2>1, <2>2, <3>1, Numbers DEF Hopeful, Settles, Disarms, Flawed, FlawIn
    <3> QED BY <1>4, <1>x, <2>1, <2>2, <3>1, <3>2 DEF Triage
  <2>3. CASE ~Flawed("gate")
    <3>1. /\ proc'.pc = "gate" /\ proc'.exe = proc.exe /\ call' = [call EXCEPT !["boot"].pc = "take"]
          /\ UNCHANGED <<starts, actor, judge, disk, pending, schema, release, trial, faults, work>>
      BY <1>4, <1>t, <2>3 DEF Triage
    <3>2. \A c \in Callers : call'[c].pc = "unlink" => call[c].pc = "unlink"
      BY <3>1 DEF Typed, CallsOK, Calls
    <3>3. /\ \A v : Settles(v)' = Settles(v) /\ Disarms(v)' = Disarms(v) /\ Serves(v)' = Serves(v)
          /\ Hopeful' = Hopeful /\ Spent' = Spent /\ Crossing' = Crossing
      BY <2>1, <3>1 DEF Settles, Disarms, Serves, Opens, FlawIn, Hopeful, Spent, Crossing, UnitActorActive
    <3> QED BY <2>1, <3>1, <3>2, <3>3 DEF Held
  <2> QED BY <1>4, <2>2, <2>3 DEF Triage
<1>5. CASE SignalReady
  <2>1. /\ proc.pc = "gate" /\ proc'.pc = "ready" /\ proc'.exe = proc.exe
        /\ UNCHANGED <<starts, actor, judge, disk, pending, schema, release, faults, work>>
        /\ trial' = "proven" \/ trial' = trial
        /\ call' = [call EXCEPT !["boot"] = NoCall]
    BY <1>5, <1>t DEF SignalReady
  <2>2. (\A u \in Updates : work[u].pc = "idle")
        /\ \A c \in Callers : call'[c].pc = "unlink" => call[c].pc = "unlink"
    BY <2>1 DEF Ordered, Quiet, Idle, NoCall, Typed, CallsOK
  <2>3. /\ \A v : Settles(v)' = Settles(v) /\ Disarms(v)' = Disarms(v) /\ Serves(v)' = Serves(v)
        /\ Hopeful' = Hopeful /\ Spent' = Spent /\ Crossing' = Crossing
    BY <2>1 DEF Settles, Disarms, Serves, Opens, FlawIn, Hopeful, Spent, Crossing, UnitActorActive
  <2> QED BY <2>1, <2>2, <2>3 DEF Held
<1> QED BY <1>1, <1>2, <1>3, <1>4, <1>5 DEF Boot

LEMMA RestSpendsNothing ==
    ASSUME faults' \in Nat, proc'.pc = "off"
    PROVE  Spent' \in Nat
<1>1. Spent' = faults' + (IF proc'.pc \in {"off", "wait"} THEN 0 ELSE 1)
  BY DEF Spent
<1>2. (IF proc'.pc \in {"off", "wait"} THEN 0 ELSE 1) = 0
  OBVIOUS
<1>3. Spent' = faults' + 0
  BY <1>1, <1>2
<1>4. \A n \in Nat : n + 0 \in Nat
  OBVIOUS
<1> QED BY <1>3, <1>4

LEMMA UnitHeld ==
    ASSUME Typed, Typed', Ordered, Ordered', Held, Clean, Clean',
           \/ Manager \/ ClearStartLimit \/ Judge \/ JudgeFails \/ Crash \/ PowerLoss
           \/ Operator \/ Failsafe
    PROVE  Held'
<1> USE DEF dbVars, fileVars, daemonVars, unitVars, ghostVars, Step
<1>t. proc \in [pc : DaemonSteps, exe : Versions]
  BY DEF Typed, PartsOK
<1>v. ASSUME UNCHANGED <<schema, release>>
      PROVE  \A v : Settles(v)' = Settles(v) /\ Disarms(v)' = Disarms(v) /\ Serves(v)' = Serves(v)
  BY <1>v DEF Settles, Disarms, Serves, Opens, FlawIn
<1>1. CASE StartUnit
  <2>1. /\ proc.pc = "off" /\ proc'.pc = "open" /\ proc'.exe = disk.installed /\ starts' = starts + 1
        /\ UNCHANGED <<actor, judge, disk, pending, schema, release, trial, faults, call, work>>
    BY <1>1 DEF StartUnit
  <2>2. Spent' = Spent + 1 /\ Hopeful' = Hopeful /\ \A c \in Callers : call[c].pc # "unlink"
    BY <1>v, <2>1, Numbers DEF Spent, Hopeful, Ordered, Quiet
  <2>3. starts <= Spent => starts' <= Spent'
    BY <2>1, <2>2, Numbers DEF Spent
  <2> QED BY <1>v, <2>1, <2>2, <2>3 DEF Held
<1>2. CASE LimitHit
  <2>1. /\ proc.pc = "off" /\ starts >= Burst /\ actor.pc # "post" /\ proc'.pc = "failed"
        /\ UNCHANGED <<starts, actor, disk, pending, schema, release, trial, faults, call, work>>
        /\ judge' = IF judge = "idle" /\ disk.prev # NoVersion /\ pending # NoMarker THEN "check" ELSE judge
    BY <1>2, <1>t DEF LimitHit
  <2>2. ~(starts <= Spent)
    BY <2>1, Numbers DEF Spent, Clean
  <2>3. ~Hopeful
    BY <2>1, <2>2 DEF Held
  <2>4. actor.pc \notin Early
    BY <2>1, <2>3 DEF Held, Hopeful, Settles, Serves
  <2>5. \A c \in Callers : call[c].pc # "unlink"
    BY <2>1 DEF Ordered, Quiet
  <2>6. judge' \in {"check", "rename"} => ~Settles(disk.installed) /\ ~Disarms(disk.installed)
    BY <2>1, <2>3 DEF Held, Hopeful
  <2>7. trial = "fresh" => judge' # "idle" \/ actor.pc # "idle"
    BY <2>1 DEF Held
  <2>8. disk.own /\ disk.prev # NoVersion /\ (pending # NoMarker \/ judge' \in {"check", "rename"})
          => release.needs[disk.prev] >= schema
    BY <2>1 DEF Held
  <2> QED BY <1>v, <2>1, <2>4, <2>5, <2>6, <2>7, <2>8 DEF Held
<1>3. CASE ClearStartLimit
  <2>1. /\ starts' = 0
        /\ UNCHANGED <<proc, actor, judge, disk, pending, schema, release, trial, faults, call, work>>
    BY <1>3 DEF ClearStartLimit
  <2>2. starts' <= Spent' /\ Crossing' = Crossing
    BY <2>1, Numbers DEF Spent, Crossing, UnitActorActive
  <2> QED BY <1>v, <2>1, <2>2 DEF Held
<1>4. CASE JudgeChecks
  <2>1. /\ judge = "check" /\ judge' = IF proc.pc = "failed" THEN "rename" ELSE "post"
        /\ UNCHANGED <<proc, starts, actor, disk, pending, schema, release, trial, faults, call, work>>
    BY <1>4 DEF JudgeChecks
  <2>2. Hopeful' = Hopeful /\ Spent' = Spent /\ Crossing' = Crossing
    BY <1>v, <2>1 DEF Hopeful, Spent, Crossing, UnitActorActive
  <2> QED BY <1>v, <2>1, <2>2 DEF Held
<1>5. CASE JudgeFails
  <2>1. /\ judge' = "post" /\ faults' = faults + 1
        /\ UNCHANGED <<proc, starts, actor, disk, pending, schema, release, trial, call, work>>
    BY <1>5 DEF JudgeFails, FaultOnly, Fault
  <2>2. Hopeful' = Hopeful /\ (starts <= Spent => starts' <= Spent') /\ Crossing' = Crossing
    BY <1>v, <2>1, Numbers DEF Hopeful, Spent, Crossing, UnitActorActive
  <2> QED BY <1>v, <2>1, <2>2 DEF Held
<1>6. CASE Revert
  <2>1. /\ judge = "rename" /\ judge' = "post" /\ trial' = "proven"
        /\ disk' = [disk EXCEPT !.installed = disk.prev, !.prev = NoVersion]
        /\ UNCHANGED <<proc, starts, actor, pending, schema, release, faults, call, work>>
    BY <1>6 DEF Revert
  <2>2. proc.pc = "failed" \/ (proc.pc = "off" /\ starts = 0)
    BY <2>1 DEF Ordered, Quiet
  <2>3. actor.pc \notin Early
    BY <2>1 DEF Held, Settles, Serves
  <2>4. disk'.prev = NoVersion /\ \A c \in Callers : call[c].pc # "unlink"
    BY <2>1, <2>2 DEF Ordered, Quiet, Typed, PartsOK
  <2>5. proc.pc = "off" => starts' <= Spent'
    BY <2>1, <2>2, Numbers DEF Spent
  <2> QED BY <2>1, <2>2, <2>3, <2>4, <2>5 DEF Held
<1>7. CASE JudgeStopPost \/ Operator
  <2>1. /\ starts' = 0 /\ judge' = "idle" /\ proc'.pc \in {proc.pc, "off"} \ {"failed"}
        /\ proc'.exe = proc.exe /\ (proc.pc # "failed" => proc' = proc)
        /\ UNCHANGED <<actor, disk, pending, schema, release, trial, faults, call, work>>
    BY <1>7, <1>t DEF JudgeStopPost, Operator, Revive
  <2>2. starts' <= Spent' /\ Crossing' = Crossing
    BY <2>1, Numbers DEF Spent, Crossing, UnitActorActive
  <2>3. proc.pc = "failed" => \A c \in Callers : call[c].pc # "unlink"
    BY DEF Ordered, Quiet
  <2> QED BY <1>v, <2>1, <2>2, <2>3 DEF Held
<1>8. CASE Crash \/ PowerLoss \/ Failsafe
  <2>1. /\ proc'.pc = "off" /\ \A c \in Callers : call'[c].pc = "idle"
        /\ UNCHANGED <<disk, pending, schema, release, trial>>
    BY <1>8, <1>t DEF Crash, PowerLoss, Failsafe, Exit, Gone, NoCall, FaultOnly
  <2>2. CASE Crash
    <3>1. starts' = starts /\ actor' = actor /\ judge' = judge /\ faults' = faults + 1
          /\ proc.pc \notin {"off", "failed"}
      BY <2>2 DEF Crash, FaultOnly, Fault
    <3>2. Hopeful' = Hopeful /\ (starts <= Spent => starts' <= Spent')
      BY <1>v, <2>1, <3>1, Numbers DEF Hopeful, Spent
    <3> QED BY <1>v, <2>1, <3>1, <3>2 DEF Held
  <2>3. CASE PowerLoss
    <3>1. starts' = 0 /\ actor'.pc = "idle" /\ judge' = "idle"
      BY <2>3 DEF PowerLoss, Typed, PartsOK
    <3>2. starts' <= Spent'
      <4>1. faults' \in Nat
        BY SelfUpdateAssumption DEF Typed, PartsOK
      <4>2. Spent' \in Nat
        BY <2>1, <4>1, RestSpendsNothing
      <4> QED BY <3>1, <4>2
    <3> QED BY <1>v, <2>1, <3>1, <3>2 DEF Held, Early
  <2>4. CASE Failsafe
    <3>1. starts = 0 /\ starts' = starts /\ actor' = actor /\ judge' = judge /\ proc.pc = "wait"
      BY <2>4 DEF Failsafe, Ordered, BootOrder
    <3>2. starts' <= Spent'
      <4>1. faults' \in Nat
        BY SelfUpdateAssumption DEF Typed, PartsOK
      <4>2. Spent' \in Nat
        BY <2>1, <4>1, RestSpendsNothing
      <4> QED BY <3>1, <4>2
    <3> QED BY <1>v, <2>1, <3>1, <3>2 DEF Held
  <2> QED BY <1>8, <2>2, <2>3, <2>4
<1> QED BY <1>1, <1>2, <1>3, <1>4, <1>5, <1>6, <1>7, <1>8 DEF Manager, Judge

LEMMA SwapHeld ==
    ASSUME Typed, Typed', Ordered, Ordered', Held, Clean, Clean', Swap \/ ActorFails \/ Summon
    PROVE  Held'
<1> USE DEF dbVars, fileVars, daemonVars, unitVars, ghostVars, ActorLeaves, ActorGoes, Step
<1>t. /\ proc \in [pc : DaemonSteps, exe : Versions]
      /\ actor \in [pc : ActorSteps, marker : MarkerType]
      /\ disk \in [installed : Versions, prev : Versions \cup {NoVersion}, own : BOOLEAN]
  BY DEF Typed, PartsOK
<1>v. ASSUME UNCHANGED <<schema, release>>
      PROVE  \A v : Settles(v)' = Settles(v) /\ Disarms(v)' = Disarms(v) /\ Serves(v)' = Serves(v)
  BY <1>v DEF Settles, Disarms, Serves, Opens, FlawIn
<1>p. NoVersion \notin Versions
  BY SelfUpdateAssumption
\* An actor that is at work makes a crossing of everything it steps beneath.
<1>c. UnitActorActive => /\ proc.pc # "drain" /\ \A c \in Callers : call[c].pc # "unlink"
                         /\ proc.pc = "ready" => \A u \in Updates : work[u].pc # "hand"
  BY DEF Held, Crossing
<1>1. CASE Preflight
  <2>1. /\ actor.pc = "preflight" /\ actor'.pc \in {"retain", "post"}
        /\ UNCHANGED <<proc, starts, judge, disk, pending, schema, release, trial, faults, call, work>>
    BY <1>1, <1>t DEF Preflight
  <2>2. Hopeful' = Hopeful /\ Spent' = Spent
    BY <1>v, <2>1 DEF Hopeful, Spent
  <2> QED BY <1>v, <1>c, <2>1, <2>2 DEF Held, Early, UnitActorActive
<1>2. CASE Retain
  <2>1. /\ actor.pc = "retain" /\ actor'.pc = "extract"
        /\ disk' = [disk EXCEPT !.prev = disk.installed, !.own = TRUE]
        /\ UNCHANGED <<proc, starts, judge, pending, schema, release, trial, faults, call, work>>
    BY <1>2, <1>t DEF Retain
  <2>2. disk'.installed = disk.installed /\ disk'.prev = disk.installed /\ disk'.prev # NoVersion
    BY <1>p, <1>t, <2>1
  <2>3. Hopeful' = Hopeful /\ Spent' = Spent
    BY <1>v, <2>1, <2>2 DEF Hopeful, Spent
  <2>4. Serves(disk.installed) /\ release.needs[disk.installed] >= schema
    BY <2>1, Numbers DEF Held, Early, Serves
  <2> QED BY <1>v, <1>c, <2>1, <2>2, <2>3, <2>4 DEF Held, Early, UnitActorActive
<1>3. CASE ExtractBinary
  <2>1. /\ actor.pc = "extract" /\ actor'.pc \in {"install", "post"}
        /\ UNCHANGED <<proc, starts, judge, disk, pending, schema, release, trial, faults, call, work>>
    BY <1>3, <1>t DEF ExtractBinary
  <2>2. Hopeful' = Hopeful /\ Spent' = Spent
    BY <1>v, <2>1 DEF Hopeful, Spent
  <2> QED BY <1>v, <1>c, <2>1, <2>2 DEF Held, Early, UnitActorActive
<1>4. CASE Install
  <2>1. /\ actor.pc = "install" /\ actor'.pc = "restart"
        /\ disk' = [disk EXCEPT !.installed = actor.marker.to]
        /\ UNCHANGED <<proc, starts, judge, pending, schema, release, faults, call, work>>
        /\ trial' = "fresh" \/ trial' = trial
    BY <1>4, <1>t DEF Install
  <2>2. /\ Serves(disk.installed) /\ proc.pc # "failed" /\ pending # NoMarker /\ disk.prev # NoVersion
        /\ proc.pc # "off" => proc.exe = disk.installed
    BY <2>1 DEF Held, Early
  <2>3. proc.pc \notin {"disarm", "migrate"}
    BY <2>2, Numbers DEF Ordered, BootOrder, Disarms, Serves
  <2>4. Settles(disk.installed)
    BY <2>2 DEF Settles, Serves
  <2>5. starts' <= Spent' /\ judge \notin {"check", "rename"}
    BY <2>1, <2>2, <2>4 DEF Held, Hopeful, Spent
  <2>6. disk'.prev = disk.prev /\ disk'.own = disk.own
    BY <1>t, <2>1
  <2>7. proc'.pc \notin {"off", "failed"} => Serves(proc.exe)'
    BY <1>v, <2>1, <2>2
  <2> QED BY <1>v, <1>c, <2>1, <2>2, <2>3, <2>5, <2>6, <2>7 DEF Held, Early, UnitActorActive
<1>5. CASE RestartDaemon
  <2>1. /\ actor.pc = "restart" /\ actor'.pc = "post"
        /\ UNCHANGED <<starts, judge, disk, pending, schema, release, trial, faults>>
    BY <1>5, <1>t DEF RestartDaemon
  <2>2. CASE proc.pc = "failed"
    BY <1>5, <1>v, <1>c, <2>1, <2>2 DEF RestartDaemon, Held, Early, UnitActorActive
  <2>3. CASE proc.pc # "failed"
    <3>1. proc'.pc = "off" /\ \A c \in Callers : call'[c].pc = "idle"
      BY <1>5, <1>t, <2>3 DEF RestartDaemon, Exit, Gone, NoCall
    <3> QED BY <1>v, <2>1, <3>1 DEF Held, Early
  <2> QED BY <2>2, <2>3
<1>6. CASE ActorStopPost
  <2>1. /\ actor.pc = "post" /\ actor'.pc = "idle" /\ starts' = 0
        /\ proc'.pc \in {proc.pc, "off"} \ {"failed"}
        /\ proc'.exe = proc.exe /\ (proc.pc # "failed" => proc' = proc)
        /\ UNCHANGED <<judge, disk, pending, schema, release, trial, faults, call, work>>
    BY <1>6, <1>t DEF ActorStopPost, Revive
  <2>2. starts' <= Spent'
    BY <2>1, Numbers DEF Spent
  <2>3. proc.pc = "failed" => \A c \in Callers : call[c].pc # "unlink"
    BY DEF Ordered, Quiet
  <2>4. UnitActorActive' = FALSE /\ UnitActorActive = FALSE
    BY <2>1 DEF UnitActorActive
  <2>5. proc' = proc => Crossing' = Crossing
    BY <2>1, <2>4 DEF Crossing
  <2> QED BY <1>v, <2>1, <2>2, <2>3, <2>5 DEF Held, Early
<1>7. CASE ActorFails
  <2>1. /\ UnitActorActive /\ actor'.pc = "post"
        /\ UNCHANGED <<proc, starts, judge, disk, pending, schema, release, trial, call, work>>
    BY <1>7, <1>t DEF ActorFails, FaultOnly
  <2> QED BY <1>v, <1>c, <2>1 DEF Held, Early
<1>8. CASE Summon
  <2>1. /\ proc.pc = "drain" /\ proc'.pc = "wait" /\ proc'.exe = proc.exe /\ starts' = 0
        /\ \A c \in Callers : call[c].pc = "idle"
        /\ actor' = actor \/ (actor'.pc = "preflight" /\ pending # NoMarker)
        /\ UNCHANGED <<judge, disk, pending, schema, release, trial, call, work>>
    BY <1>8, <1>t DEF Summon, FaultOnly
  <2>2. proc.exe = disk.installed /\ ~UnitActorActive
    BY <2>1 DEF Held, Crossing
  <2>3. Serves(disk.installed)
    BY <2>1, <2>2 DEF Ordered, BootOrder
  <2>4. starts' <= Spent'
    <3>1. faults' \in Nat
      BY SelfUpdateAssumption DEF Typed, PartsOK
    <3> QED BY <2>1, <3>1 DEF Spent
  <2>5. actor' = actor => actor.pc \notin Early
    BY <2>2 DEF UnitActorActive, Early
  <2> QED BY <1>v, <2>1, <2>2, <2>3, <2>4, <2>5 DEF Held, Early
<1> QED BY <1>1, <1>2, <1>3, <1>4, <1>5, <1>6, <1>7, <1>8 DEF Swap

LEMMA CallHeld ==
    ASSUME Typed, Typed', Ordered, Held, Clean, Clean',
           \/ TickerFires \/ (\E v \in Versions : Apply(v)) \/ GuardAndInsert
           \/ ClearScratch \/ \E c \in Callers : Gate(c)
    PROVE  Held'
<1> USE DEF dbVars, fileVars, daemonVars, unitVars, ghostVars
<1>k. \A c \in Callers : call[c] \in Calls
  BY DEF Typed, CallsOK
<1>n. faults \in Nat
  BY Numbers
<1>s. ASSUME NEW c \in Callers, NEW pc, SetCall(c, pc)
      PROVE  \A k \in Callers : call'[k].pc = "unlink" => call[k].pc = "unlink" \/ (k = c /\ pc = "unlink")
  BY <1>s, <1>k DEF SetCall, Typed, CallsOK, Calls
<1>f. ASSUME FaultOnly PROVE faults <= faults' /\ trial' = trial /\ release' = release
  BY <1>f, <1>n DEF FaultOnly, Fault
<1>1. ASSUME NEW c \in Callers, TakeMarker(c) PROVE Held'
  <2>1. \A k \in Callers : call'[k].pc = "unlink" => call[k].pc = "unlink"
    <3>1. \E m, pc : pc # "unlink" /\ call' = [call EXCEPT ![c].marker = m, ![c].pc = pc]
      BY <1>1 DEF TakeMarker
    <3> QED BY <3>1, <1>k DEF Typed, CallsOK, Calls
  <2>2. faults <= faults' /\ trial' = trial /\ release' = release
    BY <1>1, <1>f, <1>n DEF TakeMarker
  <2> QED BY <1>1, <2>1, <2>2, FrameHeld DEF TakeMarker
<1>2. ASSUME NEW c \in Callers, AskActors(c) PROVE Held'
  <2>1. \E pc : pc # "unlink" /\ SetCall(c, pc)
    BY <1>2 DEF AskActors
  <2>2. \A k \in Callers : call'[k].pc = "unlink" => call[k].pc = "unlink"
    BY <1>s, <2>1
  <2>3. faults <= faults' /\ trial' = trial /\ release' = release
    BY <1>2, <1>f, <1>n DEF AskActors
  <2> QED BY <1>2, <2>2, <2>3, FrameHeld DEF AskActors
\* A resolution that goes on to unlink was not reached across a swap.
<1>3. ASSUME NEW c \in Callers, NEW pc, NEW out, NEW next, Commits(c, pc, out, next),
             next # "unlink" \/ pc \in {"confirm", "refuse"}
      PROVE  Held'
  <2>1. SetCall(c, next) \/ SetCall(c, Failed(c))
    BY <1>3 DEF Commits
  <2>2. faults <= faults' /\ trial' = trial /\ release' = release
    BY <1>3, <1>f, <1>n DEF Commits
  <2>3. CASE SetCall(c, Failed(c))
    <3>1. \A k \in Callers : call'[k].pc = "unlink" => call[k].pc = "unlink"
      BY <1>s, <2>3 DEF Failed
    <3> QED BY <1>3, <2>2, <3>1, FrameHeld DEF Commits
  <2>4. CASE ~SetCall(c, Failed(c))
    <3>1. SetCall(c, next) /\ crossed' = (crossed \/ (pc \in {"confirm", "refuse"} /\ Crossing))
      BY <1>3, <2>4 DEF Commits
    <3>2. next = "unlink" => ~Crossing
      BY <1>3, <3>1 DEF Clean
    <3>3. \A k \in Callers : call'[k].pc = "unlink" => call[k].pc = "unlink" \/ ~Crossing
      BY <1>s, <3>1, <3>2
    <3> QED BY <1>3, <2>2, <3>3, FrameHeld DEF Commits
  <2> QED BY <2>3, <2>4
<1>4. ASSUME NEW c \in Callers, Unlink(c) PROVE Held'
  <2>1. /\ call[c].pc = "unlink" /\ pending' = NoMarker /\ SetCall(c, After(c))
        /\ UNCHANGED <<proc, starts, actor, judge, disk, schema, release, faults, work>>
        /\ trial' = IF trial = "fresh" /\ proc.exe = disk.installed THEN "resolved" ELSE trial
    BY <1>4 DEF Unlink
  <2>2. ~Crossing /\ actor.pc \notin Early /\ trial' # "fresh"
    BY <2>1 DEF Held, Crossing, UnitActorActive, Early
  <2>3. \A k \in Callers : call'[k].pc = "unlink" => call[k].pc = "unlink"
    BY <1>s, <2>1 DEF After
  <2>4. /\ \A v : Settles(v)' = Settles(v) /\ Disarms(v)' = Disarms(v) /\ Serves(v)' = Serves(v)
        /\ (Hopeful' => Hopeful) /\ Spent' = Spent /\ Crossing' = Crossing
    BY <2>1 DEF Settles, Disarms, Serves, Opens, FlawIn, Hopeful, Spent, Crossing, UnitActorActive
  <2> QED BY <2>1, <2>2, <2>3, <2>4 DEF Held
<1>5. ASSUME NEW c \in Callers, Gate(c) PROVE Held'
  <2>1. CASE Confirmed(c) \/ NotApplied(c)
    BY <1>3, <2>1 DEF Confirmed, NotApplied
  <2>2. CASE CloseOrphans(c)
    BY <1>3, <2>2 DEF CloseOrphans, After
  <2> QED BY <1>1, <1>2, <1>4, <1>5, <2>1, <2>2 DEF Gate
<1>6. CASE TickerFires
  <2>1. \A k \in Callers : call'[k].pc = "unlink" => call[k].pc = "unlink"
    BY <1>6, <1>s DEF TickerFires, Callers
  <2> QED BY <1>6, <1>n, <2>1, FrameHeld DEF TickerFires
<1>7. ASSUME NEW v \in Versions, Apply(v) PROVE Held'
  <2> DEFINE u == CHOOSE u \in Unused : TRUE
             k == [NoCall EXCEPT !.pc = "take", !.to = v, !.id = u]
  <2>1. call' = [call EXCEPT !["apply"] = k] /\ k.pc = "take"
    BY <1>7 DEF Apply, NoCall
  <2>2. /\ UNCHANGED <<proc, starts, actor, judge, disk, pending, schema, release, trial, faults, work>>
    BY <1>7 DEF Apply, Click
  <2> HIDE DEF k
  <2>3. \A c \in Callers : call'[c].pc = "unlink" => call[c].pc = "unlink"
    BY <2>1 DEF Typed, CallsOK
  <2> QED BY <1>n, <2>2, <2>3, FrameHeld
<1>8. CASE GuardAndInsert \/ ClearScratch
  <2>1. SetCall("apply", "clear") \/ call' = [call EXCEPT !["apply"] = NoCall]
    BY <1>8 DEF GuardAndInsert, ClearScratch
  <2>2. \A c \in Callers : call'[c].pc = "unlink" => call[c].pc = "unlink"
    BY <1>s, <2>1 DEF Typed, CallsOK, NoCall, Callers
  <2> QED BY <1>8, <1>n, <2>2, FrameHeld DEF GuardAndInsert, ClearScratch
<1> QED BY <1>5, <1>6, <1>7, <1>8

LEMMA WorkerHeld ==
    ASSUME Typed, Typed', Ordered, Held, Clean, Clean', NEW u \in Updates,
           Worker(u) \/ StageFails(u) \/ Cancel(u) \/ Retry(u)
    PROVE  Held'
<1> USE DEF dbVars, fileVars, daemonVars, unitVars, ghostVars
<1>n. faults \in Nat
  BY Numbers
<1>f. ASSUME FaultOnly PROVE faults <= faults' /\ trial' = trial /\ release' = release
  BY <1>f, <1>n DEF FaultOnly, Fault
\* Work that begins, ends, or goes on to another step than the hand-over.
<1>w. ASSUME NEW k, work' = [work EXCEPT ![u] = k], k.pc # "hand" \/ k.pc = work[u].pc
      PROVE  \A w \in Updates : work'[w].pc = "hand" => work[w].pc = "hand"
  BY <1>w DEF Typed, PartsOK
<1>1. CASE Claim(u) \/ Download(u) \/ VerifyStaged(u) \/ Stage(u) \/ Heartbeat(u) \/ Stopped(u)
           \/ StageFails(u) \/ Cancel(u) \/ Retry(u)
  <2>1. \A w \in Updates : work'[w].pc = "hand" => work[w].pc = "hand"
    BY <1>1 DEF Claim, Download, VerifyStaged, Stage, Heartbeat, Stopped, StageFails, Cancel, Retry,
                Finish, Goto, Idle, Typed, PartsOK
  <2>2. /\ faults <= faults' /\ trial' = trial /\ release' = release
        /\ UNCHANGED <<proc, starts, actor, judge, disk, pending, schema, call>>
    BY <1>1, <1>n, <1>f DEF Claim, Download, VerifyStaged, Stage, Heartbeat, Stopped, StageFails,
                            Cancel, Retry, Finish, Click
  <2> QED BY <2>1, <2>2, FrameHeld
<1>2. CASE WriteMarker(u)
  <2>1. /\ At(u, "mark") /\ pending' = Marker(u) /\ disk' = [disk EXCEPT !.own = FALSE]
        /\ UNCHANGED <<proc, starts, actor, judge, schema, release, trial, faults, call>>
        /\ crossed' = (crossed \/ Crossing)
    BY <1>2 DEF WriteMarker
  <2>2. ~Crossing /\ proc.exe = disk.installed
    BY <2>1 DEF Clean, Crossing
  <2>3. proc.pc \in {"ready", "drain", "wait"} /\ Serves(disk.installed)
    BY <2>1, <2>2 DEF At, Working, Ordered, BootOrder
  <2>4. disk'.installed = disk.installed /\ disk'.prev = disk.prev /\ disk'.own = FALSE
    BY <2>1 DEF Typed, PartsOK
  <2>5. pending' # NoMarker
    <3>1. Marker(u) \in [id : Updates \cup {NoUpdate}, to : Versions \cup {NoVersion}]
      BY DEF Marker, Typed, Alone, RowsOK
    <3> QED BY <2>1, <3>1, SelfUpdateAssumption
  <2>6. /\ \A v : Settles(v)' = Settles(v) /\ Disarms(v)' = Disarms(v) /\ Serves(v)' = Serves(v)
        /\ Spent' = Spent /\ Crossing' = Crossing
    BY <2>1, <2>4 DEF Settles, Disarms, Serves, Opens, FlawIn, Spent, Crossing, UnitActorActive
  <2>7. Hopeful
    BY <2>3 DEF Hopeful, Settles, Serves
  <2> QED BY <2>1, <2>2, <2>3, <2>4, <2>5, <2>6, <2>7 DEF Held
<1>3. CASE BeginSwap(u)
  <2>1. /\ At(u, "hand") /\ work[u].pc = "hand" /\ work' = [work EXCEPT ![u].pc = "await"]
        /\ UNCHANGED <<starts, actor, judge, disk, pending, schema, release, trial, faults>>
    BY <1>3 DEF BeginSwap, At, Goto
  <2>2. \A w \in Updates : work'[w].pc = "hand" => work[w].pc = "hand"
    BY <2>1 DEF Typed, PartsOK
  <2>3. \A c \in Callers : call'[c].pc = "unlink" => call[c].pc = "unlink"
    BY <1>3 DEF BeginSwap, NoCall, Typed, CallsOK
  <2>4. CASE proc.pc = "ready"
    <3>1. proc'.pc = "drain" /\ proc'.exe = proc.exe
      BY <1>3, <2>4 DEF BeginSwap, Step, Typed, PartsOK
    <3>2. ~Crossing
      BY <2>1, <2>4 DEF Held
    <3>3. /\ \A v : Settles(v)' = Settles(v) /\ Disarms(v)' = Disarms(v) /\ Serves(v)' = Serves(v)
          /\ Hopeful' = Hopeful /\ Spent' = Spent /\ Crossing' = Crossing
      BY <2>1, <2>4, <3>1 DEF Settles, Disarms, Serves, Opens, FlawIn, Hopeful, Spent, Crossing,
                              UnitActorActive
    <3> QED BY <2>1, <2>2, <2>3, <2>4, <3>1, <3>2, <3>3 DEF Held
  <2>5. CASE proc.pc # "ready"
    <3>1. proc' = proc
      BY <1>3, <2>5 DEF BeginSwap
    <3> QED BY <1>n, <2>1, <2>2, <2>3, <3>1, FrameHeld
  <2> QED BY <2>4, <2>5
<1> QED BY <1>1, <1>2, <1>3 DEF Worker, Pipeline

LEMMA SaneAlways == Spec => []Sane
<1>1. Init => Sane
  BY InitAlone, TypedInit, InitOrdered, InitHeld DEF Sane, Typed
<1>2. Sane /\ [Next]_vars => Sane'
  <2> SUFFICES ASSUME Sane, [Next]_vars PROVE Sane'
    OBVIOUS
  <2>1. Typed /\ Typed' /\ Ordered /\ Ordered'
    BY NextTyped, NextOrdered DEF Sane
  <2>2. ASSUME Clean' PROVE Held'
    <3>1. Clean /\ Held
      BY <2>1, <2>2, StillClean DEF Sane
    <3>2. CASE UNCHANGED vars
      BY <2>1, <3>1, <3>2, FrameHeld, Numbers DEF vars
    <3>3. CASE Next
      BY <2>1, <2>2, <3>1, <3>3, BootHeld, UnitHeld, SwapHeld, CallHeld, WorkerHeld DEF Next
    <3> QED BY <3>2, <3>3
  <2> QED BY <2>1, <2>2 DEF Sane
<1> QED BY <1>1, <1>2, PTL DEF Spec

\* When the unit rests failed, the installed binary is one that resolved its marker or
\* began to migrate: one that never got that far is found by the judge with its marker and
\* the retained binary in place.  The start limit counts, and only faults or a release that
\* cannot boot spend it (selfupdate/gate.go, judge.go and the units' start limits).
THEOREM FreshIsReverted == Spec => []FreshIsArmed
<1>1. Sane => FreshIsArmed
  BY DEF Sane, Held, Clean, FreshIsArmed, Stranded
<1> QED BY <1>1, SaneAlways, PTL

\* A judge that finishes its rename and leaves another binary installed has reverted.
LEMMA OnlyRevertRestores ==
    ASSUME Next, judge = "rename", judge' = "post", disk'.installed # disk.installed
    PROVE  Revert
<1> USE DEF dbVars, fileVars, daemonVars, unitVars, ghostVars
<1>1. CASE Judge
  BY <1>1 DEF Judge, JudgeChecks, JudgeStopPost
<1>2. CASE JudgeFails
  BY <1>2 DEF JudgeFails
<1>3. CASE Boot \/ ClearStartLimit \/ TickerFires
  BY <1>3 DEF Boot, OpenDatabase, DisarmBeforeMigration, Migrate, Triage, SignalReady,
              ClearStartLimit, TickerFires
<1>4. CASE Manager
  BY <1>4 DEF Manager, StartUnit, LimitHit
<1>5. CASE \E c \in Callers : Gate(c)
  BY <1>5 DEF Gate, TakeMarker, AskActors, Commits, Confirmed, NotApplied, CloseOrphans, Unlink
<1>6. CASE GuardAndInsert \/ ClearScratch
  BY <1>6 DEF GuardAndInsert, ClearScratch
<1>7. ASSUME NEW u \in Updates, Worker(u) \/ StageFails(u) \/ Cancel(u) \/ Retry(u)
      PROVE  judge' = judge
  BY <1>7 DEF Worker, Claim, Heartbeat, Stopped, Pipeline, Download, VerifyStaged, Stage,
              WriteMarker, BeginSwap, StageFails, Cancel, Retry
<1>8. ASSUME NEW v \in Versions, Apply(v) PROVE judge' = judge
  BY <1>8 DEF Apply
<1>9. CASE Summon \/ Failsafe \/ Swap \/ ActorFails
  BY <1>9 DEF Summon, Failsafe, Swap, Preflight, Retain, ExtractBinary, Install, RestartDaemon,
              ActorStopPost, ActorLeaves, ActorFails
<1>10. CASE Crash \/ PowerLoss \/ Operator
  BY <1>10 DEF Crash, PowerLoss, Operator
<1> QED BY <1>1, <1>2, <1>3, <1>4, <1>5, <1>6, <1>7, <1>8, <1>9, <1>10 DEF Next

\* The judge restores a binary that reads the database: DisarmBeforeMigration takes the
\* marker away before the schema moves, and a judge that was started before then looks at
\* a release that will never migrate.
THEOREM RevertedOpens == Spec => OwnRevertOpens
<1>1. Sane /\ [Next]_vars
        => (RevertsThisUpdate /\ ~crossed /\ faults < Burst
              => release.needs[disk'.installed] >= schema) \/ UNCHANGED vars
  <2> SUFFICES ASSUME Sane, Next, RevertsThisUpdate, Clean
               PROVE  release.needs[disk'.installed] >= schema
    BY DEF Clean, Reverts, RevertsThisUpdate, vars
  <2>1. judge = "rename" /\ judge' = "post" /\ disk.own /\ disk'.installed # disk.installed
    BY DEF RevertsThisUpdate, Reverts
  <2>2. disk'.installed = disk.prev
    <3>1. disk \in [installed : Versions, prev : Versions \cup {NoVersion}, own : BOOLEAN]
      BY DEF Sane, Typed, PartsOK
    <3>2. Revert
      BY <2>1, OnlyRevertRestores
    <3> QED BY <3>1, <3>2 DEF Revert
  <2> QED BY <2>1, <2>2 DEF Sane, Typed, Named, Held
<1> QED BY <1>1, SaneAlways, PTL DEF Spec, OwnRevertOpens
=============================================================================
