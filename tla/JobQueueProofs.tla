--------------------------- MODULE JobQueueProofs ---------------------------
(***************************************************************************)
(* Theorems about JobQueue for any set of jobs and runners, any budgets    *)
(* and any bounds.                                                         *)
(***************************************************************************)
EXTENDS JobQueueImplements, TLAPS

USE DEF Terminal, Live, Held, NoBoot

\* Every UPDATE statement leaves a row of the right type.
LEMMA RowOperations ==
    ASSUME boot \in Nat, NEW row \in Rows,
           NEW state \in Live \cup Terminal
    PROVE  /\ LeaseNextJob(row) \in Rows
           /\ StartJob(row) \in Rows
           /\ RequeueJob(row) \in Rows
           /\ DeferJob(row) \in Rows
           /\ FinishJob(row, state) \in Rows
           /\ SetJobState(row, state) \in Rows
           /\ RetryJob(row) \in Rows
           /\ RequestJobCancel(row) \in Rows
           /\ TriageOrphanedJob(row, state) \in Rows
<1>1. row.attempts \in Nat /\ row.max \in Nat
  BY DEF Rows
<1>2. LeaseNextJob(row) \in Rows
  <2>1. row.attempts + 1 \in Nat
    BY <1>1
  <2>2. \A n \in Nat :
          [row EXCEPT !.state = "leased", !.owner = boot, !.attempts = n] \in Rows
    BY DEF Rows
  <2> QED BY <2>1, <2>2 DEF LeaseNextJob
<1>3. StartJob(row) \in Rows /\ RequeueJob(row) \in Rows
  BY DEF StartJob, RequeueJob, Rows
<1>4. DeferJob(row) \in Rows
  <2>1. (IF row.attempts > 0 THEN row.attempts - 1 ELSE 0) \in Nat
    BY <1>1
  <2>2. \A n \in Nat :
          [row EXCEPT !.state = "queued", !.owner = NoBoot, !.attempts = n] \in Rows
    BY DEF Rows
  <2> QED BY <2>1, <2>2 DEF DeferJob
<1>5. FinishJob(row, state) \in Rows /\ SetJobState(row, state) \in Rows
  BY DEF FinishJob, SetJobState, Rows
<1>6. RetryJob(row) \in Rows
  <2>1. (IF row.max > row.attempts THEN row.max ELSE row.attempts + 1) \in Nat
    BY <1>1
  <2>2. \A n \in Nat : [row EXCEPT !.state = "queued", !.owner = NoBoot,
                                    !.cancel = FALSE, !.max = n] \in Rows
    BY DEF Rows
  <2> QED BY <2>1, <2>2 DEF RetryJob
<1>7. RequestJobCancel(row) \in Rows
  BY DEF RequestJobCancel, Rows
<1> QED
  BY <1>2, <1>3, <1>4, <1>5, <1>6, <1>7 DEF TriageOrphanedJob

\* The states a commit writes are states of the domain row.
LEMMA DomainStates ==
    ASSUME NEW state \in Live \cup Terminal \cup {"absent"}
    PROVE  DomainOf(state) \in Terminal \cup {"absent", "open", "paused"}
BY DEF DomainOf

LEMMA TriageStates ==
    ASSUME NEW kind
    PROVE  JobBootTriage(kind) \in {"queued", "interrupted", "failed"}
BY DEF JobBootTriage

-----------------------------------------------------------------------------
(* Type correctness. Each helper that assigns a variable keeps its type.   *)

RunnerOK == /\ runner \in [Runners -> Tasks]
            /\ \A r \in Runners : /\ ~At(r, "idle") => JobOf(r) \in Jobs
                                  /\ At(r, "closing") => runner[r].out # "none"

LEMMA SetRowType ==
    ASSUME TypeOK, NEW j \in Jobs, NEW row \in Rows, SetRow(j, row)
    PROVE  job' \in [Jobs -> Rows]
BY DEF TypeOK, SetRow

LEMMA CommitDomainType ==
    ASSUME TypeOK, NEW j \in Jobs, NEW state \in Live \cup Terminal, CommitDomain(j, state)
    PROVE  domain' \in [Jobs -> Terminal \cup {"absent", "open", "paused"}]
<1>1. DomainOf(state) \in Terminal \cup {"absent", "open", "paused"}
  BY DomainStates
<1> QED BY <1>1 DEF TypeOK, CommitDomain

LEMMA TimeType ==
    ASSUME TypeOK
    PROVE  /\ \A now \in SUBSET Jobs : RunAt(now) => due' \subseteq Jobs
                                                     /\ older' \subseteq Jobs \X Jobs
           /\ \A j \in Jobs : RunNow(j) => due' \subseteq Jobs /\ older' \subseteq Jobs \X Jobs
           /\ \A j \in Jobs : RunLater(j) => due' \subseteq Jobs /\ older' \subseteq Jobs \X Jobs
<1>1. \A now \in SUBSET Jobs : RunAt(now) => due' \subseteq Jobs /\ older' \subseteq Jobs \X Jobs
  BY DEF TypeOK, RunAt
<1>2. \A j \in Jobs : RunNow(j) => due' \subseteq Jobs /\ older' \subseteq Jobs \X Jobs
  BY <1>1 DEF RunNow
<1>3. \A j \in Jobs : RunLater(j) => due' \subseteq Jobs /\ older' \subseteq Jobs \X Jobs
  BY DEF TypeOK, RunLater, Without
<1> QED BY <1>1, <1>2, <1>3

LEMMA IdleTask == Idle \in Tasks /\ Idle.pc = "idle"
BY DEF Idle, Tasks

LEMMA RunnerType ==
    ASSUME TypeOK, NEW r \in Runners
    PROVE  /\ Release(r) => RunnerOK'
           /\ ~At(r, "idle") => \A pc \in {"deferring", "recovering"} : Goto(r, pc) => RunnerOK'
           /\ ~At(r, "idle") => \A out \in {"succeeded", "failed", "retry", "canceled", "deferred"} :
                ToFinish(r, out) => RunnerOK'
<1>1. Release(r) => RunnerOK'
  BY IdleTask DEF Release, RunnerOK, TypeOK, At, JobOf
<1>2. ASSUME ~At(r, "idle"), NEW pc \in {"deferring", "recovering"}, Goto(r, pc)
      PROVE  RunnerOK'
  <2>1. [runner[r] EXCEPT !.pc = pc] \in Tasks
    BY <1>2 DEF TypeOK, Tasks
  <2>2. runner' = [runner EXCEPT ![r] = [runner[r] EXCEPT !.pc = pc]]
    BY <1>2 DEF Goto, TypeOK
  <2>3. [runner[r] EXCEPT !.pc = pc].job \in Jobs /\ [runner[r] EXCEPT !.pc = pc].pc # "closing"
    BY <1>2 DEF TypeOK, At, JobOf, Tasks
  <2> QED BY <2>1, <2>2, <2>3 DEF RunnerOK, TypeOK, At, JobOf
<1>3. ASSUME ~At(r, "idle"), NEW out \in {"succeeded", "failed", "retry", "canceled", "deferred"},
             ToFinish(r, out)
      PROVE  RunnerOK'
  <2> DEFINE task == [runner[r] EXCEPT !.pc = "closing", !.out = out]
  <2>1. task \in Tasks
    BY <1>3 DEF TypeOK, Tasks
  <2>2. runner' = [runner EXCEPT ![r] = task]
    BY <1>3 DEF ToFinish, TypeOK
  <2>3. task.job \in Jobs /\ task.out # "none"
    BY <1>3 DEF TypeOK, At, JobOf, Tasks
  <2> QED BY <2>1, <2>2, <2>3 DEF RunnerOK, TypeOK, At, JobOf
<1> QED BY <1>1, <1>2, <1>3

LEMMA BusyRunner ==
    ASSUME TypeOK, NEW r \in Runners, ~At(r, "idle")
    PROVE  JobOf(r) \in Jobs /\ RowOf(r) \in Rows /\ boot \in Nat
BY DEF TypeOK, RowOf

LEMMA RunnerStepType ==
    ASSUME TypeOK, NEW r \in Runners, RunnerStep(r)
    PROVE  TypeOK'
<1> USE DEF rowVars, timeVars, envVars
<1>1. CASE Claim(r)
  <2>1. PICK j \in Jobs : /\ SetRow(j, LeaseNextJob(job[j]))
                          /\ runner' = [runner EXCEPT ![r] =
                               [Idle EXCEPT !.pc = "claimed", !.job = j,
                                  !.attempts = job[j].attempts + 1, !.max = job[j].max]]
                          /\ stranded' = stranded \ {j}
    BY <1>1 DEF Claim
  <2>2. job[j] \in Rows /\ boot \in Nat
    BY DEF TypeOK
  <2>3. LeaseNextJob(job[j]) \in Rows
    BY <2>2, RowOperations
  <2>4. job' \in [Jobs -> Rows]
    BY <2>1, <2>3, SetRowType
  <2>5. job[j].attempts + 1 \in Nat /\ job[j].max \in Nat
    BY <2>2 DEF Rows
  <2>6. \A m, n \in Nat : [Idle EXCEPT !.pc = "claimed", !.job = j,
                                       !.attempts = n, !.max = m] \in Tasks
    BY DEF Idle, Tasks
  <2> DEFINE task == [Idle EXCEPT !.pc = "claimed", !.job = j,
                                  !.attempts = job[j].attempts + 1, !.max = job[j].max]
  <2>7. task \in Tasks /\ task.job \in Jobs /\ task.pc = "claimed"
    BY <2>5, <2>6 DEF Idle
  <2>8. RunnerOK'
    <3> HIDE DEF task
    <3> QED BY <2>1, <2>7 DEF RunnerOK, TypeOK, At, JobOf, task
  <2> QED BY <1>1, <2>1, <2>4, <2>8 DEF Claim, TypeOK, RunnerOK
<1>2. CASE StartDropped(r)
  BY <1>2, RunnerType DEF StartDropped, TypeOK, RunnerOK, At, JobOf
<1>3. CASE StartCanceled(r)
  <2>1. JobOf(r) \in Jobs /\ FinishJob(RowOf(r), "canceled") \in Rows
    BY <1>3, BusyRunner, RowOperations DEF StartCanceled, At
  <2> QED BY <1>3, <2>1, SetRowType, CommitDomainType, RunnerType
          DEF StartCanceled, TypeOK, RunnerOK
<1>4. CASE StartRunning(r)
  <2>1. JobOf(r) \in Jobs /\ RowOf(r) \in Rows /\ StartJob(RowOf(r)) \in Rows
    BY <1>4, BusyRunner, RowOperations DEF StartRunning, MayStart, At
  <2> DEFINE task == [runner[r] EXCEPT !.pc = "working", !.attempts = RowOf(r).attempts,
                                       !.max = RowOf(r).max]
  <2>2. RowOf(r).attempts \in Nat /\ RowOf(r).max \in Nat
    BY <2>1 DEF Rows
  <2>3. \A m, n \in Nat : [runner[r] EXCEPT !.pc = "working", !.attempts = n,
                                             !.max = m] \in Tasks
    BY DEF TypeOK, Tasks
  <2>4. task \in Tasks
    BY <2>2, <2>3
  <2>5. task.job \in Jobs /\ task.pc = "working"
    <3>1. runner[r] \in Tasks
      BY DEF TypeOK
    <3>2. task.job = runner[r].job /\ task.pc = "working"
      BY <3>1 DEF Tasks
    <3> QED BY <3>2, <2>1 DEF JobOf
  <2>6. runner' = [runner EXCEPT ![r] = task]
    BY <1>4 DEF StartRunning, TypeOK
  <2>7. RunnerOK'
    <3> HIDE DEF task
    <3> QED BY <2>4, <2>5, <2>6 DEF RunnerOK, TypeOK, At, JobOf
  <2> QED BY <1>4, <2>1, <2>7, SetRowType, CommitDomainType
          DEF StartRunning, TypeOK, RunnerOK
<1>5. CASE StartDeferred(r)
  BY <1>5, RunnerType DEF StartDeferred, MayStart, TypeOK, RunnerOK, At, JobOf
<1>6. CASE DeferClaimed(r)
  <2>1. JobOf(r) \in Jobs /\ DeferJob(RowOf(r)) \in Rows
    BY <1>6, BusyRunner, RowOperations DEF DeferClaimed, At
  <2> QED BY <1>6, <2>1, SetRowType, TimeType, RunnerType DEF DeferClaimed, TypeOK, RunnerOK
<1>7. CASE StartFails(r)
  BY <1>7, RunnerType DEF StartFails, Fault, TypeOK, RunnerOK, At, JobOf
<1>8. CASE Heartbeat(r)
  <2>1. \A b \in BOOLEAN : /\ [runner[r] EXCEPT !.seen = b] \in Tasks
                           /\ [runner[r] EXCEPT !.lost = b] \in Tasks
                           /\ [runner[r] EXCEPT !.seen = b].job = runner[r].job
                           /\ [runner[r] EXCEPT !.lost = b].job = runner[r].job
                           /\ [runner[r] EXCEPT !.seen = b].pc = runner[r].pc
                           /\ [runner[r] EXCEPT !.lost = b].pc = runner[r].pc
    BY DEF TypeOK, Tasks
  <2>2. JobOf(r) \in Jobs /\ runner[r].pc = "working"
    BY <1>8, BusyRunner DEF Heartbeat, At
  <2>3. \/ runner' = [runner EXCEPT ![r] = [runner[r] EXCEPT !.seen = TRUE]]
        \/ runner' = [runner EXCEPT ![r] = [runner[r] EXCEPT !.lost = TRUE]]
    BY <1>8 DEF Heartbeat, TypeOK
  <2>4. RunnerOK'
    BY <2>1, <2>2, <2>3 DEF RunnerOK, TypeOK, At, JobOf
  <2> QED BY <1>8, <2>4 DEF Heartbeat, TypeOK, RunnerOK
<1>9. CASE WorkerReturns(r)
  <2>1. PICK out \in Outcomes(r) : ToFinish(r, out)
    BY <1>9 DEF WorkerReturns
  <2>2. out \in {"succeeded", "failed", "retry", "canceled", "deferred"}
    BY DEF Outcomes
  <2>3. RunnerOK'
    BY <1>9, <2>1, <2>2, RunnerType DEF WorkerReturns, At
  <2> QED BY <1>9, <2>3 DEF WorkerReturns, TypeOK, RunnerOK
<1>10. CASE LeaveRunning(r)
  BY <1>10, RunnerType DEF LeaveRunning, TypeOK, RunnerOK
<1>11. CASE CloseDropped(r)
  BY <1>11, RunnerType DEF CloseDropped, TypeOK, RunnerOK
<1>12. CASE CloseDeferred(r)
  <2>1. JobOf(r) \in Jobs /\ DeferJob(RowOf(r)) \in Rows
    BY <1>12, BusyRunner, RowOperations DEF CloseDeferred, Closing, At
  <2> QED BY <1>12, <2>1, SetRowType, TimeType, RunnerType DEF CloseDeferred, TypeOK, RunnerOK
<1>13. CASE CloseRequeued(r)
  <2>1. JobOf(r) \in Jobs /\ RequeueJob(RowOf(r)) \in Rows
    BY <1>13, BusyRunner, RowOperations DEF CloseRequeued, Retryable, Closing, At
  <2> QED BY <1>13, <2>1, SetRowType, CommitDomainType, TimeType, RunnerType
          DEF CloseRequeued, TypeOK, RunnerOK
<1>14. CASE CloseFinished(r)
  <2>1. JobOf(r) \in Jobs /\ RowOf(r) \in Rows
    BY <1>14, BusyRunner DEF CloseFinished, At
  <2>2. Verdict(r) \in Live \cup Terminal
    BY <1>14 DEF CloseFinished, Verdict, TypeOK, Tasks, At
  <2>3. FinishJob(RowOf(r), Verdict(r)) \in Rows
    BY <2>1, <2>2, RowOperations DEF TypeOK
  <2> QED BY <1>14, <2>1, <2>2, <2>3, SetRowType, CommitDomainType, RunnerType
          DEF CloseFinished, TypeOK, RunnerOK
<1>15. CASE CloseFails(r)
  BY <1>15, RunnerType DEF CloseFails, Fault, TypeOK, RunnerOK, At, JobOf
<1>16. CASE Recover(r)
  <2> DEFINE state == JobBootTriage(KindOf[JobOf(r)])
  <2>1. JobOf(r) \in Jobs /\ RowOf(r) \in Rows
    BY <1>16, BusyRunner DEF Recover, At
  <2>2. state \in Live \cup Terminal
    BY TriageStates
  <2>3. TriageOrphanedJob(RowOf(r), state) \in Rows
    BY <2>1, <2>2, RowOperations DEF TypeOK
  <2>4. SetRow(JobOf(r), TriageOrphanedJob(RowOf(r), state)) /\ CommitDomain(JobOf(r), state)
    BY <1>16 DEF Recover, RowOf
  <2>5. job' \in [Jobs -> Rows]
    BY <2>1, <2>3, <2>4, SetRowType
  <2>6. domain' \in [Jobs -> Terminal \cup {"absent", "open", "paused"}]
    BY <2>1, <2>2, <2>4, CommitDomainType
  <2>7. due' \subseteq Jobs /\ older' \subseteq Jobs \X Jobs
    BY <1>16, <2>1, TimeType DEF Recover, TypeOK
  <2> QED BY <1>16, <2>5, <2>6, <2>7, RunnerType DEF Recover, TypeOK, RunnerOK
<1>17. CASE RecoverFails(r)
  BY <1>17, BusyRunner, RunnerType DEF RecoverFails, Fault, TypeOK, RunnerOK, At
<1> QED
  BY <1>1, <1>2, <1>3, <1>4, <1>5, <1>6, <1>7, <1>8, <1>9, <1>10, <1>11, <1>12, <1>13,
     <1>14, <1>15, <1>16, <1>17 DEF RunnerStep

LEMMA JobStepType ==
    ASSUME TypeOK, NEW j \in Jobs, JobStep(j)
    PROVE  TypeOK'
<1> USE DEF rowVars, timeVars, envVars
<1>0. job[j] \in Rows /\ boot \in Nat
  BY DEF TypeOK
<1>a. RunnerOK /\ (UNCHANGED runner => RunnerOK')
  BY DEF TypeOK, RunnerOK, At, JobOf
<1>1. CASE Enqueue(j)
  <2>1. [job[j] EXCEPT !.state = "queued"] \in Rows
    BY <1>0 DEF Rows
  <2> QED BY <1>1, <1>a, <2>1, SetRowType, CommitDomainType, TimeType
          DEF Enqueue, TypeOK, RunnerOK
<1>2. CASE CancelHeld(j)
  BY <1>2, <1>0, <1>a, RowOperations, SetRowType DEF CancelHeld, Click, TypeOK, RunnerOK
<1>3. CASE CancelWaiting(j)
  <2>1. RequestJobCancel(job[j]) \in Rows
    BY <1>0, RowOperations
  <2>2. FinishJob(RequestJobCancel(job[j]), "canceled") \in Rows
    BY <1>0, <2>1, RowOperations
  <2> QED BY <1>3, <1>a, <2>2, SetRowType, CommitDomainType
          DEF CancelWaiting, Click, TypeOK, RunnerOK
<1>4. CASE Retry(j)
  BY <1>4, <1>0, <1>a, RowOperations, SetRowType, CommitDomainType, TimeType
     DEF Retry, Click, TypeOK, RunnerOK
<1>5. CASE Pause(j)
  BY <1>5, <1>0, <1>a, RowOperations, SetRowType, CommitDomainType
     DEF Pause, Click, TypeOK, RunnerOK
<1>6. CASE Resume(j)
  BY <1>6, <1>0, <1>a, RowOperations, SetRowType, CommitDomainType
     DEF Resume, Click, TypeOK, RunnerOK
<1>7. CASE BackoffElapses(j)
  BY <1>7, <1>a, TimeType DEF BackoffElapses, TypeOK, RunnerOK
<1>8. CASE Settle(j)
  <2>1. PICK verdict \in Verdicts(j) : /\ SetRow(j, FinishJob(job[j], verdict))
                                       /\ CommitDomain(j, verdict)
    BY <1>8 DEF Settle
  <2>2. verdict \in Terminal
    BY DEF Verdicts
  <2>3. FinishJob(job[j], verdict) \in Rows
    BY <1>0, <2>2, RowOperations
  <2> QED BY <1>8, <1>a, <2>1, <2>2, <2>3, SetRowType, CommitDomainType
          DEF Settle, TypeOK, RunnerOK
<1> QED
  BY <1>1, <1>2, <1>3, <1>4, <1>5, <1>6, <1>7, <1>8 DEF JobStep

LEMMA DaemonStepType ==
    ASSUME TypeOK, Shutdown \/ Exit \/ Boot \/ Open
    PROVE  TypeOK'
<1> USE DEF rowVars, timeVars, envVars
<1>a. RunnerOK /\ (UNCHANGED runner => RunnerOK')
  BY DEF TypeOK, RunnerOK, At, JobOf
<1>1. CASE Shutdown
  BY <1>1, <1>a DEF Shutdown, TypeOK, RunnerOK
<1>2. CASE Exit
  BY <1>2, IdleTask DEF Exit, TypeOK, At, JobOf
<1>3. CASE Boot
  <2> DEFINE state(j) == JobBootTriage(KindOf[j])
             requeued == {j \in Jobs : Orphaned(j) /\ state(j) = "queued"}
  <2>1. \A j \in Jobs : state(j) \in Live \cup Terminal
    BY TriageStates
  <2>2. \A j \in Jobs : TriageOrphanedJob(job[j], state(j)) \in Rows
    <3> TAKE j \in Jobs
    <3> job[j] \in Rows /\ boot \in Nat /\ state(j) \in Live \cup Terminal
      BY <2>1 DEF TypeOK
    <3> QED BY RowOperations
  <2>3. \A j \in Jobs : DomainOf(state(j)) \in Terminal \cup {"absent", "open", "paused"}
    BY <2>1, DomainStates
  <2>4. job' \in [Jobs -> Rows]
    <3>1. job' = [j \in Jobs |-> IF Orphaned(j) THEN TriageOrphanedJob(job[j], state(j))
                                 ELSE job[j]]
      BY <1>3 DEF Boot
    <3> HIDE DEF state
    <3> QED BY <3>1, <2>2 DEF TypeOK
  <2>5. domain' \in [Jobs -> Terminal \cup {"absent", "open", "paused"}]
    <3>1. domain' = [j \in Jobs |-> IF Orphaned(j) THEN DomainOf(state(j)) ELSE domain[j]]
      BY <1>3 DEF Boot
    <3> HIDE DEF state
    <3> QED BY <3>1, <2>3 DEF TypeOK
  <2>6. RunAt(requeued)
    BY <1>3 DEF Boot
  <2>7. requeued \in SUBSET Jobs
    OBVIOUS
  <2>8. due' \subseteq Jobs /\ older' \subseteq Jobs \X Jobs
    <3> HIDE DEF requeued
    <3> QED BY <2>6, <2>7, TimeType
  <2>9. boot' \in Nat \ {0} /\ stranded' = {} /\ phase' = "booting"
    BY <1>3 DEF Boot, TypeOK
  <2> QED BY <1>3, <1>a, <2>4, <2>5, <2>8, <2>9 DEF Boot, TypeOK, RunnerOK
<1>4. CASE Open
  BY <1>4, <1>a DEF Open, TypeOK, RunnerOK
<1> QED BY <1>1, <1>2, <1>3, <1>4

LEMMA InitType == Init => TypeOK
<1> SUFFICES ASSUME Init PROVE TypeOK
  OBVIOUS
<1>1. job \in [Jobs -> Rows]
  BY JobsAssumption DEF Init, Rows
<1>2. /\ runner \in [Runners -> Tasks]
      /\ \A r \in Runners : runner[r].pc = "idle"
  BY IdleTask DEF Init
<1>3. domain \in [Jobs -> Terminal \cup {"absent", "open", "paused"}]
  BY DEF Init
<1> QED BY <1>1, <1>2, <1>3 DEF Init, TypeOK, At

LEMMA StutterType == ASSUME TypeOK, UNCHANGED vars PROVE TypeOK'
BY DEF TypeOK, vars, At, JobOf

LEMMA NextType == TypeOK /\ [Next]_vars => TypeOK'
BY RunnerStepType, JobStepType, DaemonStepType, StutterType DEF Next

\* The type invariant holds in every reachable state.
THEOREM TypeCorrect == Spec => []TypeOK
BY InitType, NextType, PTL DEF Spec

-----------------------------------------------------------------------------
(* Exclusion. A runner owns its row: nobody can take away a row held by    *)
(* this boot but by a pause, so the row of a busy runner is still held,    *)
(* and two busy runners have two rows, unless the row is one that may be   *)
(* paused. The unique index gives the rest: both rows are live, so their   *)
(* subjects differ.                                                        *)

Firm(j) == j \notin MayPause

Owns    == \A r \in Runners : Busy(r) /\ Firm(JobOf(r)) => HeldHere(JobOf(r)) /\ ~runner[r].lost
Apart   == \A r, s \in Runners : r # s /\ Busy(r) /\ Busy(s) /\ Firm(JobOf(r))
                                   => JobOf(r) # JobOf(s)
OneLive == \A j, k \in Jobs : j # k /\ SubjectOf[j] = SubjectOf[k] /\ Firm(j) /\ Firm(k)
                              /\ LiveRow(j) => ~LiveRow(k)
Quiet   == phase \in {"down", "booting"} => \A r \in Runners : ~Busy(r)

Ownership == Owns /\ Apart /\ OneLive /\ Quiet

\* A step of a busy runner that touches its own row only, and then either lets
\* go of the row or, if it may not be paused, keeps holding it.
LEMMA TendingStep ==
    ASSUME TypeOK, Ownership, NEW r \in Runners, Busy(r), TypeOK',
           \A k \in Jobs \ {JobOf(r)} : job'[k] = job[k],
           \A s \in Runners \ {r} : runner'[s] = runner[s],
           boot' = boot, phase' = phase,
           \/ runner'[r].pc = "idle"
           \/ /\ runner'[r].job = runner[r].job
              /\ Firm(JobOf(r)) => /\ ~runner'[r].lost
                                   /\ job'[JobOf(r)].state \in Held
                                   /\ job'[JobOf(r)].owner = boot
    PROVE  Ownership'
<1>0. JobOf(r) \in Jobs /\ (Firm(JobOf(r)) => LiveRow(JobOf(r)))
  BY DEF TypeOK, Busy, Ownership, Owns, HeldHere, LiveRow
<1>1. \A s \in Runners \ {r} : Busy(s)' => /\ Busy(s) /\ JobOf(s)' = JobOf(s) /\ JobOf(s) \in Jobs
                                           /\ Firm(JobOf(s)) => JobOf(s) # JobOf(r)
  BY DEF Busy, At, JobOf, Ownership, Apart, TypeOK
<1>2. Owns'
  <2> SUFFICES ASSUME NEW s \in Runners, Busy(s)', Firm(JobOf(s))'
               PROVE  HeldHere(JobOf(s))' /\ ~runner'[s].lost
    BY DEF Owns
  <2>1. CASE s = r
    BY <2>1 DEF Busy, At, JobOf, HeldHere, Firm
  <2>2. CASE s # r
    <3>1. HeldHere(JobOf(s)) /\ ~runner[s].lost
      BY <1>1, <2>2 DEF Ownership, Owns, Firm
    <3> QED BY <1>1, <2>2, <3>1 DEF HeldHere, JobOf, Firm
  <2> QED BY <2>1, <2>2
<1>3. Apart'
  BY <1>1 DEF Ownership, Apart, Busy, At, JobOf, Firm
<1>4. OneLive'
  BY <1>0 DEF Ownership, OneLive, LiveRow, Firm
<1>5. Quiet'
  BY DEF Ownership, Quiet
<1> QED BY <1>2, <1>3, <1>4, <1>5 DEF Ownership

\* A step that touches one row, which no runner tends unless it may be paused,
\* and makes it live only if its subject is free.
LEMMA UntendedStep ==
    ASSUME TypeOK, Ownership, NEW j \in Jobs, TypeOK',
           \A k \in Jobs \ {j} : job'[k] = job[k],
           UNCHANGED <<runner, boot>>, phase \in {"down", "booting"} <=> phase' \in {"down", "booting"},
           Firm(j) => ~HeldHere(j) /\ (LiveRow(j)' => LiveRow(j) \/ ~SubjectBusy(j))
    PROVE  Ownership'
<1>1. \A r \in Runners : Busy(r) /\ Firm(JobOf(r)) => JobOf(r) \in Jobs \ {j}
  BY DEF TypeOK, Busy, Ownership, Owns
<1>2. Owns'
  BY <1>1 DEF Ownership, Owns, Busy, At, JobOf, HeldHere, Firm
<1>3. Apart' /\ Quiet'
  BY DEF Ownership, Apart, Quiet, Busy, At, JobOf, Firm
<1>4. OneLive'
  BY DEF Ownership, OneLive, LiveRow, SubjectBusy, Firm
<1> QED BY <1>2, <1>3, <1>4 DEF Ownership

LEMMA RunnerStepOwnership ==
    ASSUME TypeOK, Ownership, NEW r \in Runners, RunnerStep(r)
    PROVE  Ownership'
<1> USE DEF rowVars, timeVars, envVars
<1>0. TypeOK'
  BY RunnerStepType
<1>a. Release(r) => /\ runner'[r].pc = "idle"
                    /\ \A s \in Runners \ {r} : runner'[s] = runner[s]
  BY DEF Release, TypeOK, Idle
<1>b. ASSUME NEW row, SetRow(JobOf(r), row), JobOf(r) \in Jobs
      PROVE  /\ \A k \in Jobs \ {JobOf(r)} : job'[k] = job[k]
             /\ job'[JobOf(r)] = row
  BY <1>b DEF SetRow, TypeOK
<1>c. Busy(r) => /\ JobOf(r) \in Jobs /\ RowOf(r) \in Rows
                 /\ Firm(JobOf(r)) => HeldHere(JobOf(r)) /\ ~runner[r].lost
  BY BusyRunner DEF Ownership, Owns, Busy
<1>1. CASE Claim(r)
  <2>1. PICK j \in Jobs : /\ NextReady(j)
                          /\ SetRow(j, LeaseNextJob(job[j]))
                          /\ runner' = [runner EXCEPT ![r] =
                               [Idle EXCEPT !.pc = "claimed", !.job = j,
                                  !.attempts = job[j].attempts + 1, !.max = job[j].max]]
    BY <1>1 DEF Claim
  <2>2. job[j].state = "queued" /\ job[j] \in Rows
    BY <2>1 DEF NextReady, Ready, TypeOK
  <2>3. job'[j].state = "leased" /\ job'[j].owner = boot
    BY <2>1, <2>2 DEF SetRow, LeaseNextJob, TypeOK, Rows
  <2>4. \A k \in Jobs \ {j} : job'[k] = job[k]
    BY <2>1 DEF SetRow, TypeOK
  <2>5. runner'[r].job = j /\ ~runner'[r].lost
    BY <2>1 DEF TypeOK, Idle
  <2>6. \A s \in Runners \ {r} : runner'[s] = runner[s]
    BY <2>1 DEF TypeOK
  <2>7. boot' = boot /\ phase' = phase /\ phase = "up"
    BY <1>1 DEF Claim
  <2>8. \A s \in Runners : Busy(s) => JobOf(s) \in Jobs /\ (Firm(JobOf(s)) => JobOf(s) # j)
    BY <2>2 DEF Ownership, Owns, HeldHere, TypeOK, Busy
  <2>9. Owns'
    BY <2>3, <2>4, <2>5, <2>6, <2>7, <2>8 DEF Ownership, Owns, Busy, At, JobOf, HeldHere, Firm
  <2>10. Apart'
    BY <2>5, <2>6, <2>8 DEF Ownership, Apart, Busy, At, JobOf, Firm
  <2>11. OneLive'
    BY <2>2, <2>4 DEF Ownership, OneLive, LiveRow, Firm
  <2> QED BY <2>7, <2>9, <2>10, <2>11 DEF Ownership, Quiet
<1>2. CASE StartDropped(r)
  BY <1>2, <1>0, <1>a, TendingStep DEF StartDropped, Busy, At
<1>3. CASE StartCanceled(r)
  BY <1>3, <1>0, <1>a, <1>b, <1>c, TendingStep DEF StartCanceled, Busy, At
<1>4. CASE StartRunning(r)
  <2>1. Busy(r)
    BY <1>4 DEF StartRunning, MayStart, Busy, At
  <2>2. job'[JobOf(r)] = StartJob(RowOf(r))
    BY <1>4, <1>b, <1>c, <2>1 DEF StartRunning
  <2>3. job'[JobOf(r)].state \in Held /\ job'[JobOf(r)].owner = boot
    BY <1>4, <1>c, <2>1, <2>2 DEF StartRunning, MayStart, Leased, StartJob, Rows
  <2>4. runner'[r].job = runner[r].job /\ (Firm(JobOf(r)) => ~runner'[r].lost)
    BY <1>4, <1>c, <2>1 DEF StartRunning, TypeOK, Tasks
  <2>5. \A s \in Runners \ {r} : runner'[s] = runner[s]
    BY <1>4 DEF StartRunning, TypeOK
  <2>6. \A k \in Jobs \ {JobOf(r)} : job'[k] = job[k]
    BY <1>4, <1>b, <1>c, <2>1 DEF StartRunning
  <2> QED BY <1>4, <1>0, <2>1, <2>3, <2>4, <2>5, <2>6, TendingStep DEF StartRunning
<1>d. ASSUME Busy(r), UNCHANGED <<job, boot, phase>>,
             \/ \E pc \in {"deferring", "recovering"} : Goto(r, pc)
             \/ \E out \in Outcomes(r) : ToFinish(r, out)
             \/ ToFinish(r, "retry")
      PROVE  Ownership'
  <2>1. /\ runner'[r].job = runner[r].job /\ runner'[r].lost = runner[r].lost
        /\ \A s \in Runners \ {r} : runner'[s] = runner[s]
    BY <1>d DEF Goto, ToFinish, TypeOK, Tasks
  <2> QED BY <1>0, <1>c, <1>d, <2>1, TendingStep DEF HeldHere
<1>5. CASE StartDeferred(r)
  BY <1>5, <1>d DEF StartDeferred, MayStart, Busy, At
<1>6. CASE DeferClaimed(r)
  BY <1>6, <1>0, <1>a, <1>b, <1>c, TendingStep DEF DeferClaimed, Busy, At
<1>7. CASE StartFails(r)
  BY <1>7, <1>d DEF StartFails, Busy, At
<1>8. CASE Heartbeat(r)
  <2>1. Busy(r) /\ (Firm(JobOf(r)) => HeldHere(JobOf(r)) /\ ~runner[r].lost)
    BY <1>8, <1>c DEF Heartbeat, Busy, At
  <2>2. \/ runner' = [runner EXCEPT ![r].seen = TRUE]
        \/ runner' = [runner EXCEPT ![r].lost = TRUE] /\ ~HeldHere(JobOf(r))
    BY <1>8, <2>1 DEF Heartbeat
  <2>3. /\ runner'[r].job = runner[r].job
        /\ HeldHere(JobOf(r)) => runner'[r].lost = runner[r].lost
        /\ \A s \in Runners \ {r} : runner'[s] = runner[s]
    BY <2>2 DEF TypeOK, Tasks
  <2> QED BY <1>8, <1>0, <1>c, <2>1, <2>3, TendingStep DEF Heartbeat, HeldHere
<1>9. CASE WorkerReturns(r)
  BY <1>9, <1>d DEF WorkerReturns, Busy, At
<1>10. CASE LeaveRunning(r)
  BY <1>10, <1>0, <1>a, TendingStep DEF LeaveRunning, Busy, At
<1>11. CASE CloseDropped(r)
  BY <1>11, <1>0, <1>a, TendingStep DEF CloseDropped, Busy, At
<1>12. CASE CloseDeferred(r)
  BY <1>12, <1>0, <1>a, <1>b, <1>c, TendingStep DEF CloseDeferred, Closing, Busy, At
<1>13. CASE CloseRequeued(r)
  BY <1>13, <1>0, <1>a, <1>b, <1>c, TendingStep DEF CloseRequeued, Retryable, Closing, Busy, At
<1>14. CASE CloseFinished(r)
  BY <1>14, <1>0, <1>a, <1>b, <1>c, TendingStep DEF CloseFinished, Busy, At
<1>15. CASE CloseFails(r)
  BY <1>15, <1>d DEF CloseFails, Busy, At
<1>16. CASE Recover(r)
  BY <1>16, <1>0, <1>a, <1>b, <1>c, TendingStep DEF Recover, Busy, At
<1>17. CASE RecoverFails(r)
  BY <1>17, <1>0, <1>a, TendingStep DEF RecoverFails, Busy, At
<1> QED
  BY <1>1, <1>2, <1>3, <1>4, <1>5, <1>6, <1>7, <1>8, <1>9, <1>10, <1>11, <1>12, <1>13,
     <1>14, <1>15, <1>16, <1>17 DEF RunnerStep

LEMMA JobStepOwnership ==
    ASSUME TypeOK, Ownership, NEW j \in Jobs, JobStep(j)
    PROVE  Ownership'
<1> USE DEF rowVars, timeVars, envVars
<1>0. TypeOK' /\ job[j] \in Rows
  BY JobStepType DEF TypeOK
<1>b. ASSUME NEW row, SetRow(j, row)
      PROVE  job'[j] = row /\ \A k \in Jobs \ {j} : job'[k] = job[k]
  BY <1>b DEF SetRow, TypeOK
<1>1. CASE Enqueue(j)
  BY <1>1, <1>0, <1>b, UntendedStep DEF Enqueue, HeldHere
<1>2. CASE CancelHeld(j)
  <2>1. job'[j].state = job[j].state /\ job'[j].owner = job[j].owner
    BY <1>2, <1>0, <1>b DEF CancelHeld, RequestJobCancel, Rows
  <2>2. \A k \in Jobs : job'[k].state = job[k].state /\ job'[k].owner = job[k].owner
    BY <1>2, <1>b, <2>1 DEF CancelHeld
  <2>3. \A r \in Runners : Busy(r) => JobOf(r) \in Jobs
    BY DEF TypeOK, Busy
  <2> QED BY <1>2, <2>2, <2>3
          DEF CancelHeld, Ownership, Owns, Apart, OneLive, Quiet, Busy, At, JobOf, HeldHere,
              LiveRow, Firm
<1>3. CASE CancelWaiting(j)
  BY <1>3, <1>0, <1>b, UntendedStep DEF CancelWaiting, LiveRow
<1>4. CASE Retry(j)
  BY <1>4, <1>0, <1>b, UntendedStep DEF Retry, HeldHere
<1>5. CASE Pause(j)
  BY <1>5, <1>0, <1>b, UntendedStep DEF Pause, Firm
<1>6. CASE Resume(j)
  BY <1>6, <1>0, <1>b, UntendedStep DEF Resume, Firm
<1>7. CASE BackoffElapses(j)
  BY <1>7, <1>0, UntendedStep DEF BackoffElapses, HeldHere, LiveRow
<1>8. CASE Settle(j)
  <2>1. PICK verdict \in Verdicts(j) : SetRow(j, FinishJob(job[j], verdict))
    BY <1>8 DEF Settle
  <2> QED BY <1>8, <1>0, <1>b, <2>1, UntendedStep DEF Settle, HeldHere, LiveRow
<1> QED
  BY <1>1, <1>2, <1>3, <1>4, <1>5, <1>6, <1>7, <1>8 DEF JobStep

\* What the triage of a boot leaves in each row.
LEMMA BootRows ==
    ASSUME TypeOK, Boot, NEW j \in Jobs
    PROVE  /\ job'[j] = IF Orphaned(j) THEN TriageOrphanedJob(job[j], JobBootTriage(KindOf[j]))
                        ELSE job[j]
           /\ domain'[j] = IF Orphaned(j) THEN DomainOf(JobBootTriage(KindOf[j])) ELSE domain[j]
           /\ Orphaned(j) => /\ job'[j].state = JobBootTriage(KindOf[j])
                             /\ job'[j].state \notin Held
                             /\ job[j].state \in Held
                             /\ job'[j].cancel = job[j].cancel
<1>1. /\ job'[j] = IF Orphaned(j) THEN TriageOrphanedJob(job[j], JobBootTriage(KindOf[j]))
                   ELSE job[j]
      /\ domain'[j] = IF Orphaned(j) THEN DomainOf(JobBootTriage(KindOf[j])) ELSE domain[j]
  BY DEF Boot
<1>2. ASSUME NEW row \in Rows, NEW s \in {"queued", "interrupted", "failed"}
      PROVE  /\ TriageOrphanedJob(row, s).state = s
             /\ TriageOrphanedJob(row, s).cancel = row.cancel
  BY DEF TriageOrphanedJob, DeferJob, SetJobState, Rows
<1>3. job[j] \in Rows
  BY DEF TypeOK
<1> QED BY <1>1, <1>2, <1>3, TriageStates DEF Orphaned

LEMMA DaemonStepOwnership ==
    ASSUME TypeOK, Ownership, Shutdown \/ Exit \/ Boot \/ Open
    PROVE  Ownership'
<1> USE DEF rowVars, timeVars, envVars, Owns, Apart, OneLive, Quiet, Busy, At, JobOf,
            HeldHere, LiveRow, Firm
<1>1. CASE Shutdown \/ Open
  BY <1>1 DEF Shutdown, Open, Ownership
<1>2. CASE Exit
  BY <1>2, IdleTask DEF Exit, Ownership
<1>3. CASE Boot
  <2>1. \A r \in Runners : ~Busy(r)'
    BY <1>3 DEF Boot, Ownership
  <2>2. \A j \in Jobs : LiveRow(j)' => LiveRow(j)
    BY <1>3, BootRows
  <2> QED BY <1>3, <2>1, <2>2 DEF Boot, Ownership
<1> QED BY <1>1, <1>2, <1>3

LEMMA InitOwnership == Init => Ownership
<1> SUFFICES ASSUME Init PROVE Ownership
  OBVIOUS
<1>1. \A r \in Runners : ~Busy(r)
  BY IdleTask DEF Init, Busy, At
<1>2. \A j \in Jobs : ~LiveRow(j)
  BY DEF Init, LiveRow
<1>3. Owns /\ Apart
  BY <1>1 DEF Owns, Apart
<1>4. OneLive
  BY <1>2 DEF OneLive
<1>5. Quiet
  BY <1>1 DEF Quiet
<1> QED BY <1>3, <1>4, <1>5 DEF Ownership

LEMMA NextOwnership == TypeOK /\ Ownership /\ [Next]_vars => Ownership'
<1>1. ASSUME Ownership, UNCHANGED vars PROVE Ownership'
  BY <1>1 DEF vars, Ownership, Owns, Apart, OneLive, Quiet, Busy, At, JobOf, HeldHere, LiveRow,
              Firm
<1> QED BY <1>1, RunnerStepOwnership, JobStepOwnership, DaemonStepOwnership DEF Next

\* Every runner of a job that may not be paused owns its row, in every reachable state.
THEOREM RunnersOwn == Spec => []Ownership
<1>1. TypeOK /\ Ownership /\ [Next]_vars => (TypeOK /\ Ownership)'
  BY NextType, NextOwnership
<1> QED BY <1>1, InitType, InitOwnership, PTL DEF Spec

LEMMA OwnershipExcludes ==
    ASSUME MayPause = {}
    PROVE  TypeOK /\ Ownership => ExclusiveWorker
BY DEF TypeOK, Ownership, Owns, Apart, OneLive, ExclusiveWorker, Busy, HeldHere, LiveRow, Firm

\* As long as nobody pauses a download, two runners never act for one subject.
THEOREM Exclusion ==
    ASSUME MayPause = {}
    PROVE  Spec => []ExclusiveWorker
<1>1. TypeOK /\ Ownership => ExclusiveWorker
  BY OwnershipExcludes
<1> QED BY <1>1, TypeCorrect, RunnersOwn, PTL

\* An outcome is written only by the runner that owns the row, for every job that
\* may not be paused.
THEOREM OwnersWrite ==
    ASSUME MayPause = {}
    PROVE  Spec => OutcomeFromOwner
<1>1. TypeOK /\ Ownership /\ [Next]_vars => (TypeOK /\ Ownership)'
  BY NextType, NextOwnership
<1>2. TypeOK /\ Ownership /\ [Next]_vars =>
        [\A r \in Runners : CloseRequeued(r) \/ CloseFinished(r) =>
           \A s \in Runners \ {r} : Busy(s) => JobOf(s) # JobOf(r)]_vars
  BY DEF Ownership, Apart, CloseRequeued, CloseFinished, Retryable, Closing, Busy, At, Firm
<1> QED BY <1>1, <1>2, InitType, InitOwnership, PTL DEF Spec, OutcomeFromOwner

-----------------------------------------------------------------------------
(* Effects. What the invariants below need to know of a step: which row it *)
(* writes, and what that row becomes.                                      *)

\* The state, owner and cancel request each UPDATE statement leaves.
LEMMA RowEffects ==
    ASSUME NEW row \in Rows, NEW state \in Live \cup Terminal
    PROVE  /\ LeaseNextJob(row).state = "leased" /\ LeaseNextJob(row).owner = boot
           /\ LeaseNextJob(row).attempts = row.attempts + 1 /\ LeaseNextJob(row).max = row.max
           /\ StartJob(row).state = "running" /\ StartJob(row).owner = row.owner
           /\ StartJob(row).attempts = row.attempts /\ StartJob(row).max = row.max
           /\ RequeueJob(row).state = "queued"
           /\ RequeueJob(row).attempts = row.attempts /\ RequeueJob(row).max = row.max
           /\ DeferJob(row).state = "queued" /\ DeferJob(row).max = row.max
           /\ DeferJob(row).attempts = IF row.attempts > 0 THEN row.attempts - 1 ELSE 0
           /\ FinishJob(row, state).state = state
           /\ FinishJob(row, state).attempts = row.attempts
           /\ FinishJob(row, state).max = row.max
           /\ SetJobState(row, state).state = state
           /\ SetJobState(row, state).attempts = row.attempts
           /\ SetJobState(row, state).max = row.max
           /\ RetryJob(row).state = "queued" /\ RetryJob(row).attempts = row.attempts
           /\ RetryJob(row).max = IF row.max > row.attempts THEN row.max ELSE row.attempts + 1
           /\ RequestJobCancel(row).state = row.state /\ RequestJobCancel(row).owner = row.owner
           /\ RequestJobCancel(row).attempts = row.attempts
           /\ RequestJobCancel(row).max = row.max
<1> DEFINE less == IF row.attempts > 0 THEN row.attempts - 1 ELSE 0
           more == IF row.max > row.attempts THEN row.max ELSE row.attempts + 1
           next == row.attempts + 1
<1>1. /\ LeaseNextJob(row) = [row EXCEPT !.state = "leased", !.owner = boot, !.attempts = next]
      /\ DeferJob(row) = [row EXCEPT !.state = "queued", !.owner = NoBoot, !.attempts = less]
      /\ RetryJob(row) = [row EXCEPT !.state = "queued", !.owner = NoBoot, !.cancel = FALSE,
                                     !.max = more]
  BY DEF LeaseNextJob, DeferJob, RetryJob, Rows
<1>2. \A n : LET to == [row EXCEPT !.state = "leased", !.owner = boot, !.attempts = n]
             IN  to.state = "leased" /\ to.owner = boot /\ to.attempts = n /\ to.max = row.max
  BY DEF Rows
<1>3. \A n : LET to == [row EXCEPT !.state = "queued", !.owner = NoBoot, !.attempts = n]
             IN  to.state = "queued" /\ to.attempts = n /\ to.max = row.max
  BY DEF Rows
<1>4. \A n : LET to == [row EXCEPT !.state = "queued", !.owner = NoBoot, !.cancel = FALSE,
                                   !.max = n]
             IN  to.state = "queued" /\ to.attempts = row.attempts /\ to.max = n
  BY DEF Rows
<1>5. /\ StartJob(row).state = "running" /\ StartJob(row).owner = row.owner
      /\ StartJob(row).attempts = row.attempts /\ StartJob(row).max = row.max
      /\ RequeueJob(row).state = "queued"
      /\ RequeueJob(row).attempts = row.attempts /\ RequeueJob(row).max = row.max
      /\ FinishJob(row, state).state = state
      /\ FinishJob(row, state).attempts = row.attempts
      /\ FinishJob(row, state).max = row.max
      /\ SetJobState(row, state).state = state
      /\ SetJobState(row, state).attempts = row.attempts
      /\ SetJobState(row, state).max = row.max
      /\ RequestJobCancel(row).state = row.state /\ RequestJobCancel(row).owner = row.owner
      /\ RequestJobCancel(row).attempts = row.attempts
      /\ RequestJobCancel(row).max = row.max
  BY DEF StartJob, RequeueJob, FinishJob, SetJobState, RequestJobCancel, Rows
<1> HIDE DEF less, more, next
<1>6. /\ LeaseNextJob(row).state = "leased" /\ LeaseNextJob(row).owner = boot
      /\ LeaseNextJob(row).attempts = next /\ LeaseNextJob(row).max = row.max
  BY <1>1, <1>2
<1>7. /\ DeferJob(row).state = "queued" /\ DeferJob(row).max = row.max
      /\ DeferJob(row).attempts = less
  BY <1>1, <1>3
<1>8. /\ RetryJob(row).state = "queued" /\ RetryJob(row).attempts = row.attempts
      /\ RetryJob(row).max = more
  BY <1>1, <1>4
<1> QED BY <1>5, <1>6, <1>7, <1>8 DEF less, more, next

\* The same of a triage.
LEMMA TriageEffects ==
    ASSUME NEW row \in Rows, NEW state \in {"queued", "interrupted", "failed"}
    PROVE  LET to == TriageOrphanedJob(row, state)
           IN  /\ to.state = state /\ to.max = row.max
               /\ to.attempts = row.attempts \/ to.attempts = DeferJob(row).attempts
               /\ state = "queued" => to.attempts = DeferJob(row).attempts
<1>1. state \in Live \cup Terminal
  OBVIOUS
<1> QED BY <1>1, RowEffects DEF TriageOrphanedJob

\* The rows of a step: a runner writes its own, and either keeps it as it is,
\* starts it, or lets go of it in a state that no boot holds.
RowKept      == job' = job /\ domain' = domain
RowStarted(r) == /\ MayStart(r) /\ runner'[r].pc = "working"
                 /\ job'[JobOf(r)] = StartJob(RowOf(r)) /\ domain'[JobOf(r)] = "open"
                 /\ runner'[r].job = runner[r].job /\ runner'[r].lost = runner[r].lost
                 /\ runner'[r].attempts = RowOf(r).attempts /\ runner'[r].max = RowOf(r).max
                 /\ stranded' = stranded
RowLeft(r)   == /\ runner'[r].pc = "idle" /\ job'[JobOf(r)].state \notin Held
                /\ job'[JobOf(r)].state \in Live \cup Terminal
                /\ stranded' = stranded

\* The steps that end a runner's work on its row with a write of it.
Ends(r) == \/ StartCanceled(r) \/ DeferClaimed(r) \/ CloseDeferred(r) \/ CloseRequeued(r)
           \/ CloseFinished(r) \/ Recover(r)

LEMMA RunnerStepEffect ==
    ASSUME TypeOK, NEW r \in Runners, RunnerStep(r), ~Claim(r)
    PROVE  /\ Busy(r) /\ JobOf(r) \in Jobs
           /\ boot' = boot /\ phase' = phase
           /\ \A k \in Jobs \ {JobOf(r)} : job'[k] = job[k] /\ domain'[k] = domain[k]
           /\ \A s \in Runners \ {r} : runner'[s] = runner[s]
           /\ RowKept \/ RowStarted(r) \/ RowLeft(r)
           /\ ~Ends(r) /\ ~StartRunning(r) => RowKept
           /\ Ends(r) => RowLeft(r)
           /\ StartRunning(r) => RowStarted(r)
<1> USE DEF rowVars, timeVars, envVars
<1>1. Busy(r) /\ JobOf(r) \in Jobs /\ RowOf(r) \in Rows
  <2>1. Busy(r)
    BY DEF RunnerStep, StartDropped, StartCanceled, StartRunning, StartDeferred, DeferClaimed,
           StartFails, Heartbeat, WorkerReturns, LeaveRunning, CloseDropped, CloseDeferred,
           CloseRequeued, CloseFinished, CloseFails, Recover, RecoverFails, MayStart, Closing,
           Retryable, Busy, At
  <2> QED BY <2>1, BusyRunner DEF Busy
<1>2. boot' = boot /\ phase' = phase
  BY DEF RunnerStep, StartDropped, StartCanceled, StartRunning, StartDeferred, DeferClaimed,
         StartFails, Heartbeat, WorkerReturns, LeaveRunning, CloseDropped, CloseDeferred,
         CloseRequeued, CloseFinished, CloseFails, Recover, RecoverFails
<1>a. ASSUME NEW row, SetRow(JobOf(r), row)
      PROVE  /\ \A k \in Jobs \ {JobOf(r)} : job'[k] = job[k]
             /\ job'[JobOf(r)] = row
  BY <1>1, <1>a DEF SetRow, TypeOK
<1>b. ASSUME NEW state, CommitDomain(JobOf(r), state)
      PROVE  /\ \A k \in Jobs \ {JobOf(r)} : domain'[k] = domain[k]
             /\ domain'[JobOf(r)] = DomainOf(state)
  BY <1>1, <1>b DEF CommitDomain, TypeOK
<1>c. Release(r) => runner'[r].pc = "idle" /\ \A s \in Runners \ {r} : runner'[s] = runner[s]
  BY DEF Release, TypeOK, Idle
<1>d. \A pc : Goto(r, pc) => \A s \in Runners \ {r} : runner'[s] = runner[s]
  BY DEF Goto, TypeOK
<1>e. \A out : ToFinish(r, out) => \A s \in Runners \ {r} : runner'[s] = runner[s]
  BY DEF ToFinish, TypeOK
<1>f. \A s \in Live \cup Terminal : FinishJob(RowOf(r), s).state = s
  BY <1>1, RowEffects
<1>g. /\ DeferJob(RowOf(r)).state = "queued" /\ RequeueJob(RowOf(r)).state = "queued"
  <2>1. "queued" \in Live \cup Terminal
    OBVIOUS
  <2> QED BY <1>1, <2>1, RowEffects
<1> DEFINE Others == /\ \A k \in Jobs \ {JobOf(r)} : job'[k] = job[k] /\ domain'[k] = domain[k]
                     /\ \A s \in Runners \ {r} : runner'[s] = runner[s]
<1>3. ASSUME ~Ends(r), ~StartRunning(r)
      PROVE  Others /\ RowKept
  <2>1. CASE StartDropped(r) \/ LeaveRunning(r) \/ CloseDropped(r) \/ RecoverFails(r)
    BY <2>1, <1>c DEF StartDropped, LeaveRunning, CloseDropped, RecoverFails, RowKept
  <2>2. CASE StartDeferred(r) \/ CloseFails(r)
    BY <2>2, <1>d DEF StartDeferred, CloseFails, RowKept
  <2>3. CASE StartFails(r) \/ WorkerReturns(r)
    BY <2>3, <1>e DEF StartFails, WorkerReturns, RowKept
  <2>4. CASE Heartbeat(r)
    <3>1. \A s \in Runners \ {r} : runner'[s] = runner[s]
      BY <2>4 DEF Heartbeat, TypeOK
    <3> QED BY <2>4, <3>1 DEF Heartbeat, RowKept
  <2> QED BY <1>3, <2>1, <2>2, <2>3, <2>4 DEF RunnerStep, Ends
<1>4. ASSUME Ends(r)
      PROVE  Others /\ RowLeft(r)
  <2>1. CASE StartCanceled(r)
    <3>1. "canceled" \in Live \cup Terminal
      OBVIOUS
    <3> QED BY <2>1, <3>1, <1>a, <1>b, <1>c, <1>f DEF StartCanceled, RowLeft
  <2>2. CASE DeferClaimed(r) \/ CloseDeferred(r)
    BY <2>2, <1>a, <1>c, <1>g DEF DeferClaimed, CloseDeferred, RowLeft
  <2>3. CASE CloseRequeued(r)
    BY <2>3, <1>a, <1>b, <1>c, <1>g DEF CloseRequeued, RowLeft
  <2>4. CASE CloseFinished(r)
    <3>1. Verdict(r) \in Terminal
      BY <2>4 DEF CloseFinished, Verdict, TypeOK, Tasks, At
    <3>2. FinishJob(RowOf(r), Verdict(r)).state \in Terminal
      BY <3>1, <1>f
    <3>3. job'[JobOf(r)].state \in Terminal
      BY <2>4, <3>2, <1>a DEF CloseFinished
    <3> QED BY <2>4, <3>3, <1>a, <1>b, <1>c DEF CloseFinished, RowLeft
  <2>5. CASE Recover(r)
    <3> DEFINE state == JobBootTriage(KindOf[JobOf(r)])
    <3>1. SetRow(JobOf(r), TriageOrphanedJob(RowOf(r), state)) /\ CommitDomain(JobOf(r), state)
      BY <2>5 DEF Recover, RowOf
    <3>2. state \in {"queued", "interrupted", "failed"}
      BY TriageStates
    <3>3. TriageOrphanedJob(RowOf(r), state).state = state
      BY <1>1, <3>2, TriageEffects
    <3> QED BY <2>5, <3>1, <3>2, <3>3, <1>a, <1>b, <1>c DEF Recover, RowLeft
  <2> QED BY <1>4, <2>1, <2>2, <2>3, <2>4, <2>5 DEF Ends
<1>5. ASSUME StartRunning(r)
      PROVE  Others /\ RowStarted(r)
  <2>1. /\ job'[JobOf(r)] = StartJob(RowOf(r)) /\ domain'[JobOf(r)] = "open"
        /\ \A k \in Jobs \ {JobOf(r)} : job'[k] = job[k] /\ domain'[k] = domain[k]
    BY <1>5, <1>a, <1>b DEF StartRunning, DomainOf
  <2>2. /\ runner'[r].job = runner[r].job /\ runner'[r].lost = runner[r].lost
        /\ runner'[r].attempts = RowOf(r).attempts /\ runner'[r].max = RowOf(r).max
        /\ runner'[r].pc = "working"
        /\ \A s \in Runners \ {r} : runner'[s] = runner[s]
    BY <1>5 DEF StartRunning, TypeOK, Tasks
  <2> QED BY <1>5, <2>1, <2>2 DEF StartRunning, RowStarted
<1> QED BY <1>1, <1>2, <1>3, <1>4, <1>5

\* A request, or a finalizer, writes one row and no runner: it leaves the row's
\* state and owner alone, or the row is held by nobody.
LEMMA JobStepEffect ==
    ASSUME TypeOK, NEW j \in Jobs, JobStep(j)
    PROVE  /\ UNCHANGED <<runner, phase, boot, stranded>>
           /\ \A k \in Jobs \ {j} : job'[k] = job[k] /\ domain'[k] = domain[k]
           /\ \/ /\ job'[j].state = job[j].state /\ job'[j].owner = job[j].owner
                 /\ domain'[j] = domain[j]
              \/ job'[j].state \notin Held /\ domain'[j] = DomainOf(job'[j].state)
<1> USE DEF rowVars, timeVars, envVars
<1>0. job[j] \in Rows /\ RequestJobCancel(job[j]) \in Rows
  <2>1. "queued" \in Live \cup Terminal /\ boot \in Nat /\ job[j] \in Rows
    BY DEF TypeOK
  <2> QED BY <2>1, RowOperations
<1>a. ASSUME NEW row, SetRow(j, row)
      PROVE  /\ \A k \in Jobs \ {j} : job'[k] = job[k]
             /\ job'[j] = row
  BY <1>a DEF SetRow, TypeOK
<1>b. ASSUME NEW state, CommitDomain(j, state)
      PROVE  /\ \A k \in Jobs \ {j} : domain'[k] = domain[k]
             /\ domain'[j] = DomainOf(state)
  BY <1>b DEF CommitDomain, TypeOK
<1>c. \A s \in Live \cup Terminal : /\ FinishJob(job[j], s).state = s
                                    /\ FinishJob(RequestJobCancel(job[j]), s).state = s
                                    /\ SetJobState(job[j], s).state = s
                                    /\ RetryJob(job[j]).state = "queued"
                                    /\ RequestJobCancel(job[j]).state = job[j].state
                                    /\ RequestJobCancel(job[j]).owner = job[j].owner
  BY <1>0, RowEffects
<1>d. {"queued", "paused", "canceled"} \subseteq Live \cup Terminal
  OBVIOUS
<1>1. CASE Enqueue(j)
  <2> DEFINE row == [job[j] EXCEPT !.state = "queued"]
  <2>1. row.state = "queued"
    BY <1>0 DEF Rows
  <2>2. SetRow(j, row) /\ CommitDomain(j, "queued")
    BY <1>1 DEF Enqueue
  <2> HIDE DEF row
  <2>3. job'[j].state = "queued" /\ \A k \in Jobs \ {j} : job'[k] = job[k]
    BY <2>1, <2>2, <1>a
  <2>4. domain'[j] = DomainOf("queued") /\ \A k \in Jobs \ {j} : domain'[k] = domain[k]
    BY <2>2, <1>b
  <2> QED BY <1>1, <2>3, <2>4 DEF Enqueue
<1>2. CASE CancelHeld(j)
  BY <1>2, <1>a, <1>c, <1>d DEF CancelHeld
<1>3. CASE CancelWaiting(j)
  BY <1>3, <1>a, <1>b, <1>c, <1>d DEF CancelWaiting
<1>4. CASE Retry(j)
  BY <1>4, <1>a, <1>b, <1>c, <1>d DEF Retry
<1>5. CASE Pause(j) \/ Resume(j)
  BY <1>5, <1>a, <1>b, <1>c, <1>d DEF Pause, Resume
<1>6. CASE BackoffElapses(j)
  BY <1>6 DEF BackoffElapses
<1>7. CASE Settle(j)
  <2>1. PICK verdict \in Verdicts(j) : /\ SetRow(j, FinishJob(job[j], verdict))
                                       /\ CommitDomain(j, verdict)
    BY <1>7 DEF Settle
  <2>2. verdict \in Terminal
    BY DEF Verdicts
  <2> QED BY <1>7, <2>1, <2>2, <1>a, <1>b, <1>c DEF Settle
<1> QED BY <1>1, <1>2, <1>3, <1>4, <1>5, <1>6, <1>7 DEF JobStep

\* A claim leases a queued row and gives it to the runner.
LEMMA ClaimEffect ==
    ASSUME TypeOK, NEW r \in Runners, Claim(r)
    PROVE  \E j \in Jobs :
             /\ job[j].state = "queued" /\ NextReady(j) /\ At(r, "idle")
             /\ job'[j] = LeaseNextJob(job[j])
             /\ job'[j].state = "leased" /\ job'[j].owner = boot
             /\ job'[j].attempts = job[j].attempts + 1 /\ job'[j].max = job[j].max
             /\ \A k \in Jobs \ {j} : job'[k] = job[k]
             /\ runner'[r].pc = "claimed" /\ runner'[r].job = j /\ ~runner'[r].lost
             /\ runner'[r].attempts = job[j].attempts + 1 /\ runner'[r].max = job[j].max
             /\ \A s \in Runners \ {r} : runner'[s] = runner[s]
             /\ stranded' = stranded \ {j}
             /\ domain' = domain /\ boot' = boot /\ phase' = phase /\ phase = "up"
<1> USE DEF rowVars, timeVars, envVars
<1>1. PICK j \in Jobs : /\ NextReady(j)
                        /\ SetRow(j, LeaseNextJob(job[j]))
                        /\ runner' = [runner EXCEPT ![r] =
                             [Idle EXCEPT !.pc = "claimed", !.job = j,
                                !.attempts = job[j].attempts + 1, !.max = job[j].max]]
                        /\ stranded' = stranded \ {j}
  BY DEF Claim
<1>2. job[j].state = "queued" /\ job[j] \in Rows /\ "queued" \in Live
  BY <1>1 DEF NextReady, Ready, TypeOK
<1>3. job'[j] = LeaseNextJob(job[j]) /\ \A k \in Jobs \ {j} : job'[k] = job[k]
  BY <1>1 DEF SetRow, TypeOK
<1>4. /\ job'[j].state = "leased" /\ job'[j].owner = boot
      /\ job'[j].attempts = job[j].attempts + 1 /\ job'[j].max = job[j].max
  BY <1>2, <1>3, RowEffects
<1>5. /\ runner'[r].pc = "claimed" /\ runner'[r].job = j /\ ~runner'[r].lost
      /\ runner'[r].attempts = job[j].attempts + 1 /\ runner'[r].max = job[j].max
      /\ \A s \in Runners \ {r} : runner'[s] = runner[s]
  <2> DEFINE n == job[j].attempts + 1
             m == job[j].max
  <2>1. runner' = [runner EXCEPT ![r] = [Idle EXCEPT !.pc = "claimed", !.job = j,
                                                     !.attempts = n, !.max = m]]
    BY <1>1
  <2> HIDE DEF n, m
  <2>2. /\ runner'[r].pc = "claimed" /\ runner'[r].job = j /\ ~runner'[r].lost
        /\ runner'[r].attempts = n /\ runner'[r].max = m
        /\ \A s \in Runners \ {r} : runner'[s] = runner[s]
    BY <2>1 DEF TypeOK, Idle
  <2> QED BY <2>2 DEF n, m
<1> QED BY <1>1, <1>2, <1>3, <1>4, <1>5 DEF Claim

-----------------------------------------------------------------------------
(* Leases. Only a claim takes a lease, and it takes it for this boot; only *)
(* a boot changes the boot, and its triage lets go of everything held.     *)

LEMMA NextNoForeignLease == TypeOK /\ NoForeignLease /\ [Next]_vars => NoForeignLease'
<1> SUFFICES ASSUME TypeOK, NoForeignLease, [Next]_vars
             PROVE  NoForeignLease'
  OBVIOUS
<1> USE DEF NoForeignLease, HeldHere
<1>1. ASSUME NEW r \in Runners, Claim(r) PROVE NoForeignLease'
  BY <1>1, ClaimEffect
<1>2. ASSUME NEW r \in Runners, RunnerStep(r), ~Claim(r) PROVE NoForeignLease'
  <2>1. RowOf(r) \in Rows /\ JobOf(r) \in Jobs
    BY <1>2, RunnerStepEffect, BusyRunner DEF Busy
  <2>2. StartJob(RowOf(r)).owner = RowOf(r).owner
    BY <2>1, RowEffects
  <2> QED BY <1>2, <2>1, <2>2, RunnerStepEffect
          DEF RowKept, RowStarted, RowLeft, MayStart, Leased
<1>3. ASSUME NEW j \in Jobs, JobStep(j) PROVE NoForeignLease'
  BY <1>3, JobStepEffect
<1>4. CASE Shutdown \/ Exit \/ Open
  BY <1>4 DEF Shutdown, Exit, Open, rowVars
<1>5. CASE Boot
  BY <1>5, BootRows DEF Orphaned, Boot
<1>6. CASE UNCHANGED vars
  BY <1>6 DEF vars
<1> QED BY <1>1, <1>2, <1>3, <1>4, <1>5, <1>6 DEF Next

LEMMA InitNoForeignLease == Init => NoForeignLease
BY DEF Init, NoForeignLease

\* In a daemon that is not down, every leased or running row is held by this boot.
THEOREM LeasesAreOurs == Spec => []NoForeignLease
BY InitType, NextType, InitNoForeignLease, NextNoForeignLease, PTL DEF Spec

(* Every lease has its keeper: a runner that still owns the row and stands *)
(* where it can start it, if it is leased, or end it, if it runs. A stale  *)
(* runner of a row that was paused and claimed again may hold it too; it   *)
(* takes nothing away from the keeper until it closes the row for good.    *)

Places(state) == {"closing", "recovering"}
                   \cup (IF state = "leased" THEN {"claimed", "deferring"} ELSE {"working"})
Keeps(r, j) == JobOf(r) = j /\ ~runner[r].lost /\ runner[r].pc \in Places(job[j].state)

Kept   == phase = "up" => \A j \in Jobs \ stranded : HeldHere(j) => \E r \in Runners : Keeps(r, j)
Fresh  == phase = "booting" => \A j \in Jobs : job[j].state \notin Held
Past   == \A j \in Jobs : job[j].state \in Held => job[j].owner <= boot
Unlost == \A r \in Runners : runner[r].pc \in {"claimed", "deferring"} => ~runner[r].lost
Leases == Kept /\ Fresh /\ Past /\ Unlost

\* A runner that keeps a row and leaves it as it is still keeps it after its step.
LEMMA KeeperStays ==
    ASSUME TypeOK, NEW r \in Runners, RunnerStep(r), ~Claim(r), phase = "up", RowKept,
           NEW j \in Jobs \ stranded', HeldHere(j), Keeps(r, j)
    PROVE  Keeps(r, j)'
<1> USE DEF Keeps, Places, JobOf, RowKept
<1>0. runner[r] \in Tasks /\ job' = job
  BY DEF TypeOK
<1>1. CASE StartDropped(r) \/ LeaveRunning(r) \/ CloseDropped(r) \/ RecoverFails(r)
  BY <1>1 DEF StartDropped, LeaveRunning, CloseDropped, RecoverFails, Leased, RowOf, HeldHere, At
<1>2. CASE StartDeferred(r)
  BY <1>0, <1>2 DEF StartDeferred, Goto, MayStart, Leased, RowOf, TypeOK, Tasks
<1>3. CASE StartFails(r)
  BY <1>0, <1>3 DEF StartFails, ToFinish, TypeOK, Tasks
<1>4. CASE WorkerReturns(r)
  <2>1. PICK out \in Outcomes(r) : ToFinish(r, out)
    BY <1>4 DEF WorkerReturns
  <2> QED BY <1>0, <2>1 DEF ToFinish, TypeOK, Tasks
<1>5. CASE CloseFails(r)
  BY <1>0, <1>5 DEF CloseFails, Goto, TypeOK, Tasks
<1>6. CASE Heartbeat(r)
  <2>1. runner' = [runner EXCEPT ![r].seen = TRUE]
    BY <1>6 DEF Heartbeat
  <2> QED BY <1>0, <2>1 DEF TypeOK, Tasks
<1>7. CASE StartCanceled(r) \/ StartRunning(r)
  <2>1. RowOf(r) \in Rows /\ j = JobOf(r) /\ job[j].state = "leased"
    BY <1>7 DEF StartCanceled, StartRunning, MayStart, Leased, RowOf, TypeOK
  <2>2. job'[j].state # "leased"
    <3>1. CASE StartCanceled(r)
      <4>1. FinishJob(RowOf(r), "canceled").state = "canceled"
        BY <2>1, RowEffects
      <4> QED BY <3>1, <2>1, <4>1 DEF StartCanceled, SetRow, TypeOK
    <3>2. CASE StartRunning(r)
      <4>1. StartJob(RowOf(r)).state = "running"
        BY <2>1 DEF StartJob, Rows
      <4> QED BY <3>2, <2>1, <4>1 DEF StartRunning, SetRow, TypeOK
    <3> QED BY <1>7, <3>1, <3>2
  <2> QED BY <1>0, <2>1, <2>2
<1>8. CASE DeferClaimed(r) \/ CloseDeferred(r) \/ CloseRequeued(r) \/ CloseFinished(r) \/ Recover(r)
  <2>1. RowLeft(r)
    BY <1>8, RunnerStepEffect DEF Ends
  <2> QED BY <1>0, <2>1 DEF RowLeft, HeldHere
<1> QED BY <1>1, <1>2, <1>3, <1>4, <1>5, <1>6, <1>7, <1>8 DEF RunnerStep

LEMMA RunnerStepKept ==
    ASSUME TypeOK, Leases, NEW r \in Runners, RunnerStep(r), ~Claim(r)
    PROVE  Kept'
<1> SUFFICES ASSUME phase = "up", NEW j \in Jobs \ stranded', HeldHere(j)'
             PROVE  \E s \in Runners : Keeps(s, j)'
  BY RunnerStepEffect DEF Kept
<1>1. /\ JobOf(r) \in Jobs /\ boot' = boot
      /\ \A k \in Jobs \ {JobOf(r)} : job'[k] = job[k]
      /\ \A s \in Runners \ {r} : runner'[s] = runner[s]
      /\ RowKept \/ RowStarted(r) \/ RowLeft(r)
  BY RunnerStepEffect
<1>2. j \notin stranded
  BY DEF RunnerStep, StartDropped, StartCanceled, StartRunning, StartDeferred, DeferClaimed,
         StartFails, Heartbeat, WorkerReturns, LeaveRunning, CloseDropped, CloseDeferred,
         CloseRequeued, CloseFinished, CloseFails, Recover, RecoverFails
<1>3. CASE RowKept
  <2>1. HeldHere(j)
    BY <1>1, <1>3 DEF RowKept, HeldHere
  <2>2. PICK s \in Runners : Keeps(s, j)
    BY <1>2, <2>1 DEF Leases, Kept
  <2>3. CASE s = r
    BY <1>3, <2>1, <2>2, <2>3, KeeperStays
  <2>4. CASE s # r
    BY <1>1, <1>3, <2>2, <2>4 DEF RowKept, Keeps, JobOf
  <2> QED BY <2>3, <2>4
<1>4. CASE j # JobOf(r)
  <2>1. HeldHere(j)
    BY <1>1, <1>4 DEF HeldHere
  <2>2. PICK s \in Runners : Keeps(s, j)
    BY <1>2, <2>1 DEF Leases, Kept
  <2>3. s # r
    BY <1>4, <2>2 DEF Keeps
  <2> QED BY <1>1, <1>4, <2>2, <2>3 DEF Keeps, JobOf
<1>5. CASE RowStarted(r) /\ j = JobOf(r)
  <2>1. runner'[r].job = j /\ ~runner'[r].lost /\ runner'[r].pc = "working"
    BY <1>5 DEF RowStarted, Leases, Unlost, MayStart, At, JobOf
  <2>2. job'[j].state = "running"
    <3>1. RowOf(r) \in Rows
      BY <1>1 DEF TypeOK, RowOf
    <3>2. StartJob(RowOf(r)).state = "running"
      BY <3>1, RowEffects
    <3> QED BY <1>5, <3>2 DEF RowStarted
  <2> QED BY <2>1, <2>2 DEF Keeps, Places, JobOf
<1>6. CASE RowLeft(r) /\ j = JobOf(r)
  BY <1>6 DEF RowLeft, HeldHere
<1> QED BY <1>1, <1>3, <1>4, <1>5, <1>6

LEMMA RunnerStepLeases ==
    ASSUME TypeOK, Ownership, Leases, NEW r \in Runners, RunnerStep(r), ~Claim(r)
    PROVE  Leases'
<1>1. /\ Busy(r) /\ JobOf(r) \in Jobs /\ boot' = boot /\ phase' = phase
      /\ \A k \in Jobs \ {JobOf(r)} : job'[k] = job[k]
      /\ \A s \in Runners \ {r} : runner'[s] = runner[s]
      /\ RowKept \/ RowStarted(r) \/ RowLeft(r)
  BY RunnerStepEffect
<1>2. Fresh'
  BY <1>1 DEF Ownership, Quiet, Fresh
<1>3. Past'
  <2>1. RowStarted(r) => job'[JobOf(r)].owner = boot
    <3>1. RowOf(r) \in Rows
      BY <1>1 DEF TypeOK, RowOf
    <3> QED BY <3>1, RowEffects DEF RowStarted, MayStart, Leased
  <2> QED BY <1>1, <2>1 DEF Leases, Past, RowKept, RowLeft, TypeOK
<1>4. Unlost'
  <2>1. runner'[r].pc \in {"claimed", "deferring"} => ~runner'[r].lost
    BY <1>1 DEF RunnerStep, StartDropped, StartCanceled, StartRunning, StartDeferred,
            DeferClaimed, StartFails, Heartbeat, WorkerReturns, LeaveRunning, CloseDropped,
            CloseDeferred, CloseRequeued, CloseFinished, CloseFails, Recover, RecoverFails,
            Release, Goto, ToFinish, MayStart, At, Idle, TypeOK, Tasks, Leases, Unlost
  <2> QED BY <1>1, <2>1 DEF Leases, Unlost
<1> QED BY <1>2, <1>3, <1>4, RunnerStepKept DEF Leases

LEMMA ClaimLeases ==
    ASSUME TypeOK, Leases, NEW r \in Runners, Claim(r)
    PROVE  Leases'
<1>1. PICK j \in Jobs :
        /\ job[j].state = "queued" /\ At(r, "idle")
        /\ job'[j].state = "leased" /\ job'[j].owner = boot
        /\ \A k \in Jobs \ {j} : job'[k] = job[k]
        /\ runner'[r].pc = "claimed" /\ runner'[r].job = j /\ ~runner'[r].lost
        /\ \A s \in Runners \ {r} : runner'[s] = runner[s]
        /\ stranded' = stranded \ {j}
        /\ boot' = boot /\ phase' = phase /\ phase = "up"
  BY ClaimEffect
<1>2. Kept'
  <2> SUFFICES ASSUME NEW k \in Jobs \ stranded', HeldHere(k)'
               PROVE  \E s \in Runners : Keeps(s, k)'
    BY DEF Kept
  <2>1. CASE k = j
    BY <1>1, <2>1 DEF Keeps, Places, JobOf
  <2>2. CASE k # j
    <3>1. HeldHere(k) /\ k \notin stranded
      BY <1>1, <2>2 DEF HeldHere
    <3>2. PICK s \in Runners : Keeps(s, k)
      BY <1>1, <3>1 DEF Leases, Kept
    <3>3. s # r
      BY <1>1, <3>2 DEF Keeps, Places, At
    <3> QED BY <1>1, <2>2, <3>2, <3>3 DEF Keeps, JobOf
  <2> QED BY <2>1, <2>2
<1>3. Fresh' /\ Past' /\ Unlost'
  BY <1>1 DEF Leases, Fresh, Past, Unlost, TypeOK
<1> QED BY <1>2, <1>3 DEF Leases

LEMMA JobStepLeases ==
    ASSUME TypeOK, Leases, NEW j \in Jobs, JobStep(j)
    PROVE  Leases'
<1>1. /\ UNCHANGED <<runner, phase, boot, stranded>>
      /\ \A k \in Jobs : \/ job'[k].state = job[k].state /\ job'[k].owner = job[k].owner
                         \/ job'[k].state \notin Held
  BY JobStepEffect
<1> QED BY <1>1 DEF Leases, Kept, Fresh, Past, Unlost, Keeps, JobOf, HeldHere, Places

LEMMA DaemonStepLeases ==
    ASSUME TypeOK, Ownership, Leases, Shutdown \/ Exit \/ Boot \/ Open
    PROVE  Leases'
<1> USE DEF rowVars, timeVars, envVars
<1>1. CASE Shutdown
  BY <1>1 DEF Shutdown, Leases, Kept, Fresh, Past, Unlost
<1>2. CASE Exit
  BY <1>2, IdleTask DEF Exit, Leases, Kept, Fresh, Past, Unlost, Idle
<1>3. CASE Open
  BY <1>3 DEF Open, Leases, Kept, Fresh, Past, Unlost, HeldHere
<1>4. CASE Boot
  <2>1. /\ phase' = "booting" /\ boot' = boot + 1 /\ UNCHANGED runner /\ boot \in Nat
    BY <1>4 DEF Boot, TypeOK
  <2>2. \A j \in Jobs : job'[j].state \notin Held
    <3> TAKE j \in Jobs
    <3>1. CASE Orphaned(j)
      BY <1>4, <3>1, BootRows
    <3>2. CASE ~Orphaned(j)
      <4>1. job'[j] = job[j]
        BY <1>4, <3>2, BootRows
      <4>2. job[j].state \in Held => job[j].owner <= boot /\ job[j].owner \in Nat
        BY DEF Leases, Past, TypeOK, Rows
      <4> QED BY <2>1, <3>2, <4>1, <4>2 DEF Orphaned
    <3> QED BY <3>1, <3>2
  <2> QED BY <2>1, <2>2 DEF Leases, Kept, Fresh, Past, Unlost
<1> QED BY <1>1, <1>2, <1>3, <1>4

LEMMA NextLeases == TypeOK /\ Ownership /\ Leases /\ [Next]_vars => Leases'
<1>1. ASSUME Leases, UNCHANGED vars PROVE Leases'
  BY <1>1 DEF vars, Leases, Kept, Fresh, Past, Unlost, Keeps, JobOf, HeldHere, Places
<1> QED BY <1>1, RunnerStepLeases, ClaimLeases, JobStepLeases, DaemonStepLeases DEF Next

LEMMA InitLeases == Init => Leases
<1> SUFFICES ASSUME Init PROVE Leases
  OBVIOUS
<1>1. \A j \in Jobs : job[j].state \notin Held
  BY DEF Init
<1>2. \A r \in Runners : runner[r].pc = "idle"
  BY IdleTask DEF Init
<1>3. Kept /\ Fresh
  BY <1>1 DEF Init, Kept, Fresh
<1>4. Past
  BY <1>1 DEF Past
<1>5. Unlost
  BY <1>2 DEF Unlost
<1> QED BY <1>3, <1>4, <1>5 DEF Leases

\* While the daemon is up a row held by this boot has a runner that owns it, unless
\* its closing write and its recovery write both failed; pauses included.
THEOREM NoneStranded == Spec => []NoStrandedLease
<1>1. TypeOK /\ Ownership /\ Leases /\ [Next]_vars => (TypeOK /\ Ownership /\ Leases)'
  BY NextType, NextOwnership, NextLeases
<1>2. Leases => NoStrandedLease
  BY DEF Leases, Kept, Keeps, Places, NoStrandedLease, Busy, At
<1> QED BY <1>1, <1>2, InitType, InitOwnership, InitLeases, PTL DEF Spec

-----------------------------------------------------------------------------
(* The two tables. Every action that writes the state of a row hands it to *)
(* the domain writer, but three: a claim and a deferral, which move a row  *)
(* between states that are all open, and the request of a cancel. For the  *)
(* deferral that needs the row to be open still: only the kinds that wait  *)
(* for a lease are deferred, no one can pause these, so the runner owns    *)
(* the row.                                                                *)

Deferring == \A r \in Runners :
    At(r, "deferring") \/ (At(r, "closing") /\ runner[r].out = "deferred") => Deferrable(JobOf(r))

LEMMA DeferrableFirm ==
    ASSUME NEW j \in Jobs, Deferrable(j)
    PROVE  Firm(j)
BY JobsAssumption DEF Deferrable, Firm

LEMMA RunnerStepDeferring ==
    ASSUME TypeOK, Deferring, NEW r \in Runners, RunnerStep(r)
    PROVE  Deferring'
<1> USE DEF rowVars, timeVars, envVars
<1>1. \A s \in Runners \ {r} : runner'[s] = runner[s]
  BY RunnerStepEffect, ClaimEffect
<1>2. runner'[r].pc = "deferring" \/ (runner'[r].pc = "closing" /\ runner'[r].out = "deferred")
        => Deferrable(runner'[r].job)
  <2>1. CASE StartDeferred(r)
    BY <2>1 DEF StartDeferred, Goto, JobOf, TypeOK, Tasks
  <2>2. CASE StartFails(r)
    BY <2>2 DEF StartFails, ToFinish, TypeOK, Tasks
  <2>3. CASE WorkerReturns(r)
    <3>1. PICK out \in Outcomes(r) : ToFinish(r, out)
      BY <2>3 DEF WorkerReturns
    <3>2. out = "deferred" => Deferrable(JobOf(r))
      BY DEF Outcomes
    <3>3. runner'[r].job = runner[r].job /\ runner'[r].out = out /\ runner'[r].pc = "closing"
      BY <3>1 DEF ToFinish, TypeOK, Tasks
    <3> QED BY <3>2, <3>3 DEF JobOf
  <2>4. CASE CloseFails(r) \/ Heartbeat(r) \/ StartRunning(r)
    BY <2>4 DEF CloseFails, Heartbeat, StartRunning, Goto, At, TypeOK, Tasks
  <2>5. CASE Claim(r)
    BY <2>5, ClaimEffect
  <2>6. CASE \/ StartDropped(r) \/ LeaveRunning(r) \/ CloseDropped(r) \/ RecoverFails(r)
             \/ StartCanceled(r) \/ DeferClaimed(r) \/ CloseDeferred(r) \/ CloseRequeued(r)
             \/ CloseFinished(r) \/ Recover(r)
    <3>1. Release(r)
      BY <2>6 DEF StartDropped, LeaveRunning, CloseDropped, RecoverFails, StartCanceled,
              DeferClaimed, CloseDeferred, CloseRequeued, CloseFinished, Recover
    <3> QED BY <3>1 DEF Release, Idle, TypeOK
  <2> QED BY <2>1, <2>2, <2>3, <2>4, <2>5, <2>6 DEF RunnerStep
<1> QED BY <1>1, <1>2 DEF Deferring, At, JobOf, Deferrable

LEMMA NextDeferring == TypeOK /\ Deferring /\ [Next]_vars => Deferring'
<1> SUFFICES ASSUME TypeOK, Deferring, [Next]_vars PROVE Deferring'
  OBVIOUS
<1>1. UNCHANGED runner => Deferring'
  BY DEF Deferring, At, JobOf, Deferrable
<1>2. CASE Exit
  BY <1>2, IdleTask DEF Exit, Deferring, At
<1>3. ASSUME NEW j \in Jobs, JobStep(j) PROVE Deferring'
  BY <1>1, <1>3, JobStepEffect
<1> QED BY <1>1, <1>2, <1>3, RunnerStepDeferring DEF Next, vars, Shutdown, Boot, Open

\* A runner's step leaves the two tables in step.
LEMMA RunnerStepDomain ==
    ASSUME TypeOK, Ownership, Deferring, DomainInStep, NEW r \in Runners, RunnerStep(r), ~Claim(r)
    PROVE  DomainInStep'
<1>1. /\ Busy(r) /\ JobOf(r) \in Jobs
      /\ \A k \in Jobs \ {JobOf(r)} : job'[k] = job[k] /\ domain'[k] = domain[k]
      /\ ~Ends(r) /\ ~StartRunning(r) => RowKept
      /\ StartRunning(r) => RowStarted(r)
  BY RunnerStepEffect
<1>2. RowOf(r) \in Rows /\ RowOf(r) = job[JobOf(r)]
  BY <1>1, BusyRunner DEF Busy, RowOf
<1>a. ASSUME NEW row, SetRow(JobOf(r), row)
      PROVE  job'[JobOf(r)] = row
  BY <1>1, <1>a DEF SetRow, TypeOK
<1>b. ASSUME NEW state, CommitDomain(JobOf(r), state)
      PROVE  domain'[JobOf(r)] = DomainOf(state)
  BY <1>1, <1>b DEF CommitDomain, TypeOK
<1>c. \A s \in Live \cup Terminal : FinishJob(RowOf(r), s).state = s
  BY <1>2, RowEffects
<1>d. "queued" \in Live \cup Terminal /\ "canceled" \in Live \cup Terminal
  OBVIOUS
<1>3. domain'[JobOf(r)] = DomainOf(job'[JobOf(r)].state)
  <2>1. CASE ~Ends(r) /\ ~StartRunning(r)
    BY <1>1, <2>1 DEF RowKept, DomainInStep
  <2>2. CASE StartRunning(r)
    BY <1>1, <1>2, <2>2, <1>d, RowEffects DEF RowStarted, DomainOf
  <2>3. CASE StartCanceled(r)
    BY <2>3, <1>a, <1>b, <1>c, <1>d DEF StartCanceled
  <2>4. CASE CloseRequeued(r)
    BY <2>4, <1>2, <1>a, <1>b, <1>d, RowEffects DEF CloseRequeued
  <2>5. CASE CloseFinished(r)
    <3>1. Verdict(r) \in Live \cup Terminal
      BY <2>5 DEF CloseFinished, Verdict, TypeOK, Tasks, At
    <3> QED BY <2>5, <3>1, <1>a, <1>b, <1>c DEF CloseFinished
  <2>6. CASE Recover(r)
    <3> DEFINE state == JobBootTriage(KindOf[JobOf(r)])
    <3>1. SetRow(JobOf(r), TriageOrphanedJob(RowOf(r), state)) /\ CommitDomain(JobOf(r), state)
      BY <2>6 DEF Recover, RowOf
    <3>2. TriageOrphanedJob(RowOf(r), state).state = state
      BY <1>2, TriageStates, TriageEffects
    <3> QED BY <3>1, <3>2, <1>a, <1>b
  <2>7. CASE DeferClaimed(r) \/ CloseDeferred(r)
    <3>1. Deferrable(JobOf(r))
      BY <2>7 DEF DeferClaimed, CloseDeferred, Closing, Deferring
    <3>2. job[JobOf(r)].state \in Held
      BY <1>1, <3>1, DeferrableFirm DEF Ownership, Owns, HeldHere
    <3>3. domain[JobOf(r)] = "open"
      BY <1>1, <3>2 DEF DomainInStep, DomainOf
    <3>4. domain' = domain /\ job'[JobOf(r)] = DeferJob(RowOf(r))
      BY <2>7, <1>a DEF DeferClaimed, CloseDeferred
    <3>5. DeferJob(RowOf(r)).state = "queued"
      BY <1>2, <1>d, RowEffects
    <3> QED BY <3>3, <3>4, <3>5 DEF DomainOf
  <2> QED BY <2>1, <2>2, <2>3, <2>4, <2>5, <2>6, <2>7 DEF Ends
<1> QED BY <1>1, <1>3 DEF DomainInStep, DomainOf

LEMMA NextDomain == TypeOK /\ Ownership /\ Deferring /\ DomainInStep /\ [Next]_vars => DomainInStep'
<1> SUFFICES ASSUME TypeOK, Ownership, Deferring, DomainInStep, [Next]_vars
             PROVE  DomainInStep'
  OBVIOUS
<1>1. ASSUME NEW r \in Runners, Claim(r) PROVE DomainInStep'
  BY <1>1, ClaimEffect DEF DomainInStep, DomainOf
<1>2. ASSUME NEW j \in Jobs, JobStep(j) PROVE DomainInStep'
  BY <1>2, JobStepEffect DEF DomainInStep, DomainOf
<1>3. CASE Boot
  <2>1. \A j \in Jobs : domain'[j] = DomainOf(job'[j].state)
    BY <1>3, BootRows DEF DomainInStep
  <2> QED BY <2>1 DEF DomainInStep, DomainOf
<1>4. CASE UNCHANGED rowVars
  BY <1>4 DEF rowVars, DomainInStep, DomainOf
<1> QED BY <1>1, <1>2, <1>3, <1>4, RunnerStepDomain
        DEF Next, vars, rowVars, Shutdown, Exit, Open

LEMMA InitDomain == Init => Deferring /\ DomainInStep
<1> SUFFICES ASSUME Init PROVE Deferring /\ DomainInStep
  OBVIOUS
<1>1. Deferring
  BY IdleTask DEF Init, Deferring, At
<1>2. DomainInStep
  BY DEF Init, DomainInStep, DomainOf
<1> QED BY <1>1, <1>2

\* The job row and the activity's own row end, pause and reopen together, whoever
\* moves them and whatever fails.
THEOREM TablesInStep == Spec => []DomainInStep
<1>1. TypeOK /\ Ownership /\ Deferring /\ DomainInStep /\ [Next]_vars
        => (TypeOK /\ Ownership /\ Deferring /\ DomainInStep)'
  BY NextType, NextOwnership, NextDeferring, NextDomain
<1> QED BY <1>1, InitType, InitOwnership, InitDomain, PTL DEF Spec

-----------------------------------------------------------------------------
(* The budget. A runner judges by its copy of the row; for a row that may  *)
(* not be paused the copy is the row, as nobody else writes it meanwhile.  *)

Copies == \A r \in Runners : Busy(r) /\ Firm(JobOf(r)) =>
             runner[r].attempts = RowOf(r).attempts /\ runner[r].max = RowOf(r).max
Afford == \A j \in Jobs : Firm(j) =>
             /\ job[j].attempts <= job[j].max /\ job[j].max > 0
             /\ job[j].state \in {"queued", "absent"} => job[j].attempts < job[j].max
Budgets == Copies /\ Afford

\* What a write of a row that fits its budget leaves fits it too.
LEMMA WritesAfford ==
    ASSUME NEW row \in Rows, row.attempts <= row.max, row.max > 0,
           NEW state \in Live \cup Terminal
    PROVE  /\ DeferJob(row).attempts < DeferJob(row).max /\ DeferJob(row).max > 0
           /\ RetryJob(row).attempts < RetryJob(row).max /\ RetryJob(row).max > 0
           /\ FinishJob(row, state).attempts <= FinishJob(row, state).max
           /\ FinishJob(row, state).max > 0
           /\ SetJobState(row, state).attempts <= SetJobState(row, state).max
           /\ SetJobState(row, state).max > 0
<1>1. row.attempts \in Nat /\ row.max \in Nat
  BY DEF Rows
<1> QED BY <1>1, RowEffects

LEMMA RunnerStepBudget ==
    ASSUME TypeOK, Ownership, Budgets, NEW r \in Runners, RunnerStep(r), ~Claim(r)
    PROVE  Budgets'
<1>1. /\ Busy(r) /\ JobOf(r) \in Jobs
      /\ \A k \in Jobs \ {JobOf(r)} : job'[k] = job[k]
      /\ \A s \in Runners \ {r} : runner'[s] = runner[s]
      /\ RowKept \/ RowStarted(r) \/ RowLeft(r)
      /\ ~Ends(r) /\ ~StartRunning(r) => RowKept
      /\ StartRunning(r) => RowStarted(r)
      /\ Ends(r) => RowLeft(r)
  BY RunnerStepEffect
<1>2. RowOf(r) \in Rows /\ RowOf(r) = job[JobOf(r)]
  BY <1>1, BusyRunner DEF Busy, RowOf
<1>3. ASSUME NEW row, SetRow(JobOf(r), row)
      PROVE  job'[JobOf(r)] = row
  BY <1>1, <1>3 DEF SetRow, TypeOK
<1>4. RowStarted(r) => /\ job'[JobOf(r)].attempts = RowOf(r).attempts
                       /\ job'[JobOf(r)].max = RowOf(r).max
                       /\ job'[JobOf(r)].state = "running"
  BY <1>2, RowEffects DEF RowStarted
<1>5. Firm(JobOf(r)) => /\ job'[JobOf(r)].attempts <= job'[JobOf(r)].max
                        /\ job'[JobOf(r)].max > 0
                        /\ job'[JobOf(r)].state \in {"queued", "absent"} =>
                             job'[JobOf(r)].attempts < job'[JobOf(r)].max
  <2> SUFFICES ASSUME Firm(JobOf(r))
               PROVE  /\ job'[JobOf(r)].attempts <= job'[JobOf(r)].max
                      /\ job'[JobOf(r)].max > 0
                      /\ job'[JobOf(r)].state \in {"queued", "absent"} =>
                           job'[JobOf(r)].attempts < job'[JobOf(r)].max
    OBVIOUS
  <2>1. /\ RowOf(r).attempts <= RowOf(r).max /\ RowOf(r).max > 0
        /\ RowOf(r).state \in {"queued", "absent"} => RowOf(r).attempts < RowOf(r).max
        /\ RowOf(r).attempts \in Nat /\ RowOf(r).max \in Nat
    BY <1>1, <1>2 DEF Budgets, Afford, Rows
  <2>2. CASE ~Ends(r) /\ ~StartRunning(r)
    BY <1>1, <1>2, <2>1, <2>2 DEF RowKept
  <2>3. CASE StartRunning(r)
    BY <1>1, <1>4, <2>1, <2>3
  <2>4. CASE StartCanceled(r)
    <3>1. "canceled" \in Live \cup Terminal /\ job'[JobOf(r)] = FinishJob(RowOf(r), "canceled")
      BY <2>4, <1>3 DEF StartCanceled
    <3> QED BY <1>2, <2>1, <3>1, RowEffects
  <2>5. CASE CloseFinished(r)
    <3>1. Verdict(r) \in Terminal /\ job'[JobOf(r)] = FinishJob(RowOf(r), Verdict(r))
      BY <2>5, <1>3 DEF CloseFinished, Verdict, TypeOK, Tasks, At
    <3>2. job'[JobOf(r)].state = Verdict(r)
      BY <1>2, <3>1, RowEffects
    <3> QED BY <1>2, <2>1, <3>1, <3>2, WritesAfford
  <2>6. CASE CloseRequeued(r)
    <3>1. job'[JobOf(r)] = RequeueJob(RowOf(r))
      BY <2>6, <1>3 DEF CloseRequeued
    <3>2. runner[r].attempts < runner[r].max
      BY <2>6 DEF CloseRequeued, Retryable
    <3>3. RowOf(r).attempts < RowOf(r).max
      BY <1>1, <3>2 DEF Budgets, Copies
    <3>4. /\ RequeueJob(RowOf(r)).attempts = RowOf(r).attempts
          /\ RequeueJob(RowOf(r)).max = RowOf(r).max
      BY <1>2, RowEffects DEF Rows
    <3> QED BY <2>1, <3>1, <3>3, <3>4
  <2>7. CASE DeferClaimed(r) \/ CloseDeferred(r)
    <3>1. job'[JobOf(r)] = DeferJob(RowOf(r)) /\ DeferJob(RowOf(r)) \in Rows
      BY <2>7, <1>2, <1>3, RowOperations DEF DeferClaimed, CloseDeferred, TypeOK
    <3>2. DeferJob(RowOf(r)).attempts < DeferJob(RowOf(r)).max /\ DeferJob(RowOf(r)).max > 0
      BY <1>2, <2>1, WritesAfford
    <3> QED BY <3>1, <3>2 DEF Rows
  <2>8. CASE Recover(r)
    <3> DEFINE state == JobBootTriage(KindOf[JobOf(r)])
    <3>1. SetRow(JobOf(r), TriageOrphanedJob(RowOf(r), state))
      BY <2>8 DEF Recover, RowOf
    <3>2. job'[JobOf(r)] = TriageOrphanedJob(RowOf(r), state)
      BY <1>3, <3>1
    <3>3. state \in {"queued", "interrupted", "failed"}
      BY TriageStates
    <3>4. /\ DeferJob(RowOf(r)).attempts < RowOf(r).max /\ DeferJob(RowOf(r)).attempts \in Nat
      BY <1>2, <2>1, RowEffects
    <3>5. TriageOrphanedJob(RowOf(r), state).state = state
      BY <1>2, <3>3, TriageEffects
    <3> QED BY <1>2, <2>1, <3>2, <3>3, <3>4, <3>5, TriageEffects
  <2> QED BY <2>2, <2>3, <2>4, <2>5, <2>6, <2>7, <2>8 DEF Ends
<1>6. Busy(r)' /\ Firm(JobOf(r))' => /\ runner'[r].attempts = job'[JobOf(r)'].attempts
                                     /\ runner'[r].max = job'[JobOf(r)'].max
  <2>1. CASE ~Ends(r) /\ ~StartRunning(r)
    <3>1. \/ runner'[r].pc = "idle"
          \/ /\ runner'[r].job = runner[r].job /\ runner'[r].attempts = runner[r].attempts
             /\ runner'[r].max = runner[r].max
      BY <2>1 DEF RunnerStep, Ends, StartDropped, StartDeferred, StartFails, Heartbeat,
              WorkerReturns, LeaveRunning, CloseDropped, CloseFails, RecoverFails, Release, Goto,
              ToFinish, Idle, TypeOK, Tasks
    <3> QED BY <1>1, <2>1, <3>1 DEF RowKept, Budgets, Copies, Busy, At, JobOf, RowOf, Firm
  <2>2. CASE StartRunning(r)
    BY <1>1, <1>4, <2>2 DEF RowStarted, JobOf
  <2>3. CASE Ends(r)
    BY <1>1, <2>3 DEF RowLeft, Busy, At
  <2> QED BY <2>1, <2>2, <2>3
<1>7. Copies'
  <2>1. \A s \in Runners \ {r} : Busy(s)' /\ Firm(JobOf(s))' =>
          /\ Busy(s) /\ JobOf(s) \in Jobs \ {JobOf(r)} /\ Firm(JobOf(s)) /\ JobOf(s)' = JobOf(s)
    BY <1>1 DEF Ownership, Apart, Busy, At, JobOf, Firm, TypeOK
  <2> QED BY <1>1, <1>6, <2>1 DEF Budgets, Copies, RowOf, JobOf
<1>8. Afford'
  BY <1>1, <1>5 DEF Budgets, Afford, Firm
<1> QED BY <1>7, <1>8 DEF Budgets

LEMMA ClaimBudget ==
    ASSUME TypeOK, Ownership, Budgets, NEW r \in Runners, Claim(r)
    PROVE  Budgets'
<1>1. PICK j \in Jobs :
        /\ job[j].state = "queued" /\ job'[j].state = "leased"
        /\ job'[j].attempts = job[j].attempts + 1 /\ job'[j].max = job[j].max
        /\ \A k \in Jobs \ {j} : job'[k] = job[k]
        /\ runner'[r].job = j
        /\ runner'[r].attempts = job[j].attempts + 1 /\ runner'[r].max = job[j].max
        /\ \A s \in Runners \ {r} : runner'[s] = runner[s]
  BY ClaimEffect
<1>2. \A s \in Runners \ {r} : Busy(s) /\ Firm(JobOf(s)) => JobOf(s) \in Jobs \ {j}
  BY <1>1 DEF Ownership, Owns, HeldHere, TypeOK, Busy
<1>3. Copies'
  BY <1>1, <1>2 DEF Budgets, Copies, Busy, At, JobOf, RowOf, Firm
<1>4. job[j].attempts \in Nat /\ job[j].max \in Nat
  BY DEF TypeOK, Rows
<1>5. Afford'
  BY <1>1, <1>4 DEF Budgets, Afford, Firm
<1> QED BY <1>3, <1>5 DEF Budgets

LEMMA JobStepBudget ==
    ASSUME TypeOK, Ownership, Budgets, NEW j \in Jobs, JobStep(j)
    PROVE  Budgets'
<1> USE DEF rowVars, timeVars, envVars
<1>1. /\ UNCHANGED runner /\ \A k \in Jobs \ {j} : job'[k] = job[k]
  BY JobStepEffect
<1>2. job[j] \in Rows /\ RequestJobCancel(job[j]) \in Rows
      /\ job[j].attempts \in Nat /\ job[j].max \in Nat
  <2>1. "queued" \in Live \cup Terminal /\ boot \in Nat /\ job[j] \in Rows
    BY DEF TypeOK
  <2> QED BY <2>1, RowOperations DEF Rows
<1>3. ASSUME NEW row, SetRow(j, row) PROVE job'[j] = row
  BY <1>3 DEF SetRow, TypeOK
<1>4. ASSUME Firm(j)
      PROVE  \/ /\ job'[j].attempts = job[j].attempts /\ job'[j].max = job[j].max
                /\ job'[j].state = "queued" => job[j].state \in {"queued", "absent"}
                /\ job'[j].state = "absent" => job[j].state = "absent"
             \/ /\ ~HeldHere(j) /\ job'[j].attempts < job'[j].max /\ job'[j].max > 0
                /\ job'[j].attempts \in Nat /\ job'[j].max \in Nat
  <2>a. \A s \in Live \cup Terminal :
          /\ FinishJob(job[j], s).state = s
          /\ FinishJob(job[j], s).attempts = job[j].attempts /\ FinishJob(job[j], s).max = job[j].max
          /\ FinishJob(RequestJobCancel(job[j]), s).state = s
          /\ FinishJob(RequestJobCancel(job[j]), s).attempts = job[j].attempts
          /\ FinishJob(RequestJobCancel(job[j]), s).max = job[j].max
    BY <1>2, RowEffects
  <2>1. CASE Enqueue(j)
    <3> DEFINE row == [job[j] EXCEPT !.state = "queued"]
    <3>1. row.attempts = job[j].attempts /\ row.max = job[j].max /\ row.state = "queued"
      BY <1>2 DEF Rows
    <3>2. SetRow(j, row) /\ job[j].state = "absent"
      BY <2>1 DEF Enqueue
    <3> HIDE DEF row
    <3> QED BY <3>1, <3>2, <1>3
  <2>2. CASE CancelHeld(j)
    <3>1. job'[j] = RequestJobCancel(job[j]) /\ "queued" \in Live \cup Terminal
      BY <2>2, <1>3 DEF CancelHeld
    <3> QED BY <1>2, <3>1, RowEffects DEF Rows
  <2>3. CASE CancelWaiting(j)
    BY <2>3, <1>3, <2>a DEF CancelWaiting
  <2>4. CASE Retry(j)
    <3>1. job'[j] = RetryJob(job[j]) /\ ~HeldHere(j) /\ "queued" \in Live \cup Terminal
      BY <2>4, <1>3 DEF Retry, HeldHere
    <3>2. job[j].attempts <= job[j].max /\ job[j].max > 0
      BY <1>4 DEF Budgets, Afford
    <3>3. RetryJob(job[j]) \in Rows
      BY <1>2, <3>1, RowOperations DEF TypeOK
    <3> QED BY <1>2, <3>1, <3>2, <3>3, WritesAfford DEF Rows
  <2>5. CASE Pause(j) \/ Resume(j)
    BY <1>4, <2>5 DEF Pause, Resume, Firm
  <2>6. CASE BackoffElapses(j)
    BY <2>6 DEF BackoffElapses
  <2>7. CASE Settle(j)
    <3>1. PICK verdict \in Verdicts(j) : SetRow(j, FinishJob(job[j], verdict))
      BY <2>7 DEF Settle
    <3>2. verdict \in Terminal
      BY DEF Verdicts
    <3> QED BY <3>1, <3>2, <1>3, <2>a
  <2> QED BY <2>1, <2>2, <2>3, <2>4, <2>5, <2>6, <2>7 DEF JobStep
<1>5. Copies'
  <2>1. \A r \in Runners : Busy(r) /\ Firm(JobOf(r)) => JobOf(r) \in Jobs /\ HeldHere(JobOf(r))
    BY DEF Ownership, Owns, TypeOK, Busy
  <2> QED BY <1>1, <1>4, <2>1 DEF Budgets, Copies, Busy, At, JobOf, RowOf, Firm
<1>6. Afford'
  BY <1>1, <1>2, <1>4 DEF Budgets, Afford, Firm
<1> QED BY <1>5, <1>6 DEF Budgets

LEMMA DaemonStepBudget ==
    ASSUME TypeOK, Ownership, Budgets, Shutdown \/ Exit \/ Boot \/ Open
    PROVE  Budgets'
<1> USE DEF rowVars, timeVars, envVars
<1>1. CASE Shutdown \/ Open
  BY <1>1 DEF Shutdown, Open, Budgets, Copies, Afford, Busy, At, JobOf, RowOf, Firm
<1>2. CASE Exit
  BY <1>2, IdleTask DEF Exit, Budgets, Copies, Afford, Busy, At, Firm
<1>3. CASE Boot
  <2>1. Copies'
    BY <1>3 DEF Boot, Ownership, Quiet, Copies, Busy, At
  <2>2. Afford'
    <3> SUFFICES ASSUME NEW j \in Jobs, Firm(j)
                 PROVE  /\ job'[j].attempts <= job'[j].max
                        /\ job'[j].max > 0
                        /\ job'[j].state \in {"queued", "absent"} =>
                             job'[j].attempts < job'[j].max
      BY DEF Afford, Firm
    <3>1. /\ job[j] \in Rows
          /\ job[j].attempts <= job[j].max
          /\ job[j].max > 0
          /\ job[j].state \in {"queued", "absent"} => job[j].attempts < job[j].max
      BY DEF Budgets, Afford, TypeOK
    <3>2. CASE ~Orphaned(j)
      BY <1>3, <3>1, <3>2, BootRows
    <3>3. CASE Orphaned(j)
      <4> DEFINE state == JobBootTriage(KindOf[j])
      <4>1. job'[j] = TriageOrphanedJob(job[j], state) /\ job'[j].state = state
        BY <1>3, <3>3, BootRows
      <4>2. state \in {"queued", "interrupted", "failed"}
        BY TriageStates
      <4>3. job[j].attempts \in Nat /\ job[j].max \in Nat /\ "queued" \in Live \cup Terminal
        BY <3>1 DEF Rows
      <4>4. DeferJob(job[j]).attempts < job[j].max /\ DeferJob(job[j]).attempts \in Nat
        BY <3>1, <4>3, RowEffects
      <4> QED BY <3>1, <4>1, <4>2, <4>3, <4>4, TriageEffects
    <3> QED BY <3>2, <3>3
  <2> QED BY <2>1, <2>2 DEF Budgets
<1> QED BY <1>1, <1>2, <1>3

LEMMA NextBudget == TypeOK /\ Ownership /\ Budgets /\ [Next]_vars => Budgets'
<1>1. ASSUME Budgets, UNCHANGED vars PROVE Budgets'
  BY <1>1 DEF vars, Budgets, Copies, Afford, Busy, At, JobOf, RowOf, Firm
<1> QED BY <1>1, RunnerStepBudget, ClaimBudget, JobStepBudget, DaemonStepBudget DEF Next

LEMMA InitBudget == Init => Budgets
<1> SUFFICES ASSUME Init PROVE Budgets
  OBVIOUS
<1>1. Copies
  BY IdleTask DEF Init, Copies, Busy, At
<1>2. \A j \in Jobs : job[j].attempts = 0 /\ job[j].max = Budget[j] /\ Budget[j] \in Nat \ {0}
  BY JobsAssumption DEF Init
<1>3. Afford
  BY <1>2 DEF Afford
<1> QED BY <1>1, <1>3 DEF Budgets

\* A job that nobody may pause is claimed within its attempt budget only, whatever
\* deferrals, crashes, recoveries and retries do to its row.
THEOREM BudgetsHold == Spec => []Budgets
<1>1. TypeOK /\ Ownership /\ Budgets /\ [Next]_vars => (TypeOK /\ Ownership /\ Budgets)'
  BY NextType, NextOwnership, NextBudget
<1> QED BY <1>1, InitType, InitOwnership, InitBudget, PTL DEF Spec

\* As long as nobody pauses a download, every claim is within its job's budget.
THEOREM WithinBudget ==
    ASSUME MayPause = {}
    PROVE  Spec => []AttemptsWithinBudget
<1>1. Budgets => AttemptsWithinBudget
  BY DEF Budgets, Afford, AttemptsWithinBudget, Firm
<1> QED BY <1>1, BudgetsHold, PTL

-----------------------------------------------------------------------------
(* An accepted cancel. Only a start makes a row run, and it reads the      *)
(* request in the transaction that does.                                   *)

\* A canceled job is never given to a worker again before a retry clears the request.
THEOREM CanceledStays == Spec => CancelNeverRestarts
<1>1. TypeOK /\ [Next]_vars =>
        [\A j \in Jobs : job[j].cancel /\ job[j].state # "running" /\ job'[j].cancel
                           => job'[j].state # "running"]_vars
  <2> SUFFICES ASSUME TypeOK, Next, NEW j \in Jobs, job[j].cancel, job[j].state # "running"
               PROVE  job'[j].state # "running"
    OBVIOUS
  <2>1. ASSUME NEW r \in Runners, Claim(r) PROVE job'[j].state # "running"
    BY <2>1, ClaimEffect
  <2>2. ASSUME NEW r \in Runners, RunnerStep(r), ~Claim(r) PROVE job'[j].state # "running"
    BY <2>2, RunnerStepEffect DEF RowKept, RowStarted, RowLeft, MayStart, RowOf
  <2>3. ASSUME NEW k \in Jobs, JobStep(k) PROVE job'[j].state # "running"
    BY <2>3, JobStepEffect
  <2>4. CASE Boot
    BY <2>4, BootRows
  <2>5. CASE Shutdown \/ Exit \/ Open
    BY <2>5 DEF Shutdown, Exit, Open, rowVars
  <2> QED BY <2>1, <2>2, <2>3, <2>4, <2>5 DEF Next
<1> QED BY <1>1, TypeCorrect, PTL DEF Spec, CancelNeverRestarts

-----------------------------------------------------------------------------
(* Refinement. JobQueue implements JobLifecycle as long as nobody pauses a *)
(* download: each step of a row, a runner or the daemon is a step of the   *)
(* lifecycle, or changes nothing of it.                                    *)

\* The status of a job, by the state of its row and whether a runner has it.
LEMMA StatusCases ==
    /\ DOMAIN Status = Jobs /\ DOMAIN Status' = Jobs
    /\ \A j \in Jobs :
         /\ job[j].state = "queued" => Status[j] = "waiting"
         /\ job[j].state \in Held /\ Tended(j) => Status[j] = "active"
         /\ job[j].state \in Held /\ ~Tended(j) => Status[j] = "adrift"
         /\ job[j].state \notin Held \cup {"queued"} => Status[j] = job[j].state
    /\ \A j \in Jobs :
         /\ job'[j].state = "queued" => Status'[j] = "waiting"
         /\ job'[j].state \in Held /\ Tended(j)' => Status'[j] = "active"
         /\ job'[j].state \in Held /\ ~Tended(j)' => Status'[j] = "adrift"
         /\ job'[j].state \notin Held \cup {"queued"} => Status'[j] = job'[j].state
<1>1. DOMAIN Status = Jobs /\ DOMAIN Status' = Jobs
  BY DEF Status
<1>2. ASSUME NEW j \in Jobs
      PROVE  /\ job[j].state = "queued" => Status[j] = "waiting"
             /\ job[j].state \in Held /\ Tended(j) => Status[j] = "active"
             /\ job[j].state \in Held /\ ~Tended(j) => Status[j] = "adrift"
             /\ job[j].state \notin Held \cup {"queued"} => Status[j] = job[j].state
  BY DEF Status, Held
<1>3. ASSUME NEW j \in Jobs
      PROVE  /\ job'[j].state = "queued" => Status'[j] = "waiting"
             /\ job'[j].state \in Held /\ Tended(j)' => Status'[j] = "active"
             /\ job'[j].state \in Held /\ ~Tended(j)' => Status'[j] = "adrift"
             /\ job'[j].state \notin Held \cup {"queued"} => Status'[j] = job'[j].state
  BY DEF Status, Held
<1> QED BY <1>1, <1>2, <1>3

\* Two functions that agree everywhere, and everywhere but at one point.
LEMMA Agree ==
    ASSUME NEW S, NEW f, NEW g, f = [x \in S |-> f[x]], g = [x \in S |-> g[x]]
    PROVE  /\ (\A x \in S : g[x] = f[x]) => g = f
           /\ \A y \in S : (\A x \in S \ {y} : g[x] = f[x]) => g = [f EXCEPT ![y] = g[y]]
<1>1. ASSUME \A x \in S : g[x] = f[x] PROVE g = f
  <2>1. [x \in S |-> f[x]] = [x \in S |-> g[x]]
    BY <1>1
  <2> QED BY <2>1
<1>2. ASSUME NEW y \in S, \A x \in S \ {y} : g[x] = f[x] PROVE g = [f EXCEPT ![y] = g[y]]
  <2> DEFINE h == [f EXCEPT ![y] = g[y]]
  <2>1. h = [x \in S |-> IF x = y THEN g[y] ELSE f[x]]
    OBVIOUS
  <2>2. [x \in S |-> IF x = y THEN g[y] ELSE f[x]] = [x \in S |-> g[x]]
    BY <1>2
  <2> QED BY <2>1, <2>2
<1> QED BY <1>1, <1>2

\* A step that changes the status of no job, and one that changes it of one.
LEMMA Moves ==
    /\ (\A k \in Jobs : Status'[k] = Status[k]) => Status' = Status
    /\ \A j \in Jobs : \A s : (\A k \in Jobs \ {j} : Status'[k] = Status[k]) /\ Status'[j] = s
                            => Abstract!Move(j, s)
<1>1. Status = [j \in Jobs |-> Status[j]] /\ Status' = [j \in Jobs |-> Status'[j]]
  BY DEF Status
<1> QED BY <1>1, Agree DEF Abstract!Move

-----------------------------------------------------------------------------
(* The states a step leaves, finer than the effects of JobQueueProofs.     *)

\* A runner that writes its row and is done with it.
LEMMA EndStates ==
    ASSUME TypeOK, NEW r \in Runners, RunnerStep(r), ~Claim(r)
    PROVE  /\ Ends(r) /\ ~Recover(r) => job'[JobOf(r)].state \in Terminal \cup {"queued"}
           /\ Recover(r) => job'[JobOf(r)].state = JobBootTriage(KindOf[JobOf(r)])
<1>1. JobOf(r) \in Jobs /\ RowOf(r) \in Rows
  BY RunnerStepEffect, BusyRunner DEF Busy
<1>2. \A row : SetRow(JobOf(r), row) => job'[JobOf(r)] = row
  BY <1>1 DEF SetRow, TypeOK
<1>3. \A s \in Terminal : FinishJob(RowOf(r), s).state = s
  BY <1>1, RowEffects
<1>4. CASE StartCanceled(r)
  BY <1>2, <1>3, <1>4 DEF StartCanceled, Terminal, Recover, At
<1>5. CASE DeferClaimed(r) \/ CloseDeferred(r) \/ CloseRequeued(r)
  <2>1. "queued" \in Live \cup Terminal
    BY DEF Live
  <2>2. DeferJob(RowOf(r)).state = "queued" /\ RequeueJob(RowOf(r)).state = "queued"
    BY <1>1, <2>1, RowEffects
  <2> QED BY <1>2, <1>5, <2>2
          DEF DeferClaimed, CloseDeferred, CloseRequeued, Recover, Closing, Retryable, At
<1>6. CASE CloseFinished(r)
  <2>1. Verdict(r) \in Terminal
    BY <1>6 DEF CloseFinished, Verdict, TypeOK, Tasks, At, Terminal
  <2> QED BY <1>2, <1>3, <1>6, <2>1 DEF CloseFinished, Recover, At
<1>7. CASE Recover(r)
  <2> DEFINE state == JobBootTriage(KindOf[JobOf(r)])
  <2>1. SetRow(JobOf(r), TriageOrphanedJob(RowOf(r), state))
    BY <1>7 DEF Recover, RowOf
  <2>2. TriageOrphanedJob(RowOf(r), state).state = state
    BY <1>1, TriageStates, TriageEffects
  <2> QED BY <1>2, <1>7, <2>1, <2>2
<1> QED BY <1>4, <1>5, <1>6, <1>7 DEF Ends

\* A runner keeps its job until it lets go of it.
LEMMA TaskStays ==
    ASSUME TypeOK, NEW r \in Runners, RunnerStep(r), ~Claim(r)
    PROVE  Busy(r)' => runner'[r].job = runner[r].job
<1> USE DEF Busy, At
<1>1. runner[r] \in Tasks
  BY DEF TypeOK
<1>2. CASE Ends(r) \/ StartRunning(r)
  BY <1>2, RunnerStepEffect DEF RowLeft, RowStarted
<1>3. CASE StartDropped(r) \/ LeaveRunning(r) \/ CloseDropped(r) \/ RecoverFails(r)
  BY <1>3 DEF StartDropped, LeaveRunning, CloseDropped, RecoverFails, Release, TypeOK, Idle
<1>4. CASE StartDeferred(r) \/ CloseFails(r)
  BY <1>1, <1>4 DEF StartDeferred, CloseFails, Goto, TypeOK, Tasks
<1>5. CASE StartFails(r) \/ WorkerReturns(r)
  BY <1>1, <1>5 DEF StartFails, WorkerReturns, ToFinish, TypeOK, Tasks
<1>6. CASE Heartbeat(r)
  BY <1>1, <1>6 DEF Heartbeat, TypeOK, Tasks
<1> QED BY <1>2, <1>3, <1>4, <1>5, <1>6 DEF RunnerStep, Ends

\* A request or a finalizer, while nobody may pause.
LEMMA RequestStates ==
    ASSUME TypeOK, MayPause = {}, NEW j \in Jobs, JobStep(j)
    PROVE  \/ job'[j].state = job[j].state
           \/ job[j].state = "absent" /\ ~SubjectBusy(j) /\ job'[j].state = "queued"
           \/ Serving /\ LiveRow(j) /\ ~HeldHere(j) /\ job'[j].state = "canceled"
           \/ /\ job[j].state \in {"failed", "canceled", "interrupted"}
              /\ ~SubjectBusy(j) /\ job'[j].state = "queued"
           \/ job[j].state = "interrupted" /\ job'[j].state \in {"succeeded", "failed"}
<1>1. job[j] \in Rows /\ RequestJobCancel(job[j]) \in Rows
  <2>1. "queued" \in Live \cup Terminal /\ boot \in Nat /\ job[j] \in Rows
    BY DEF TypeOK, Live
  <2> QED BY <2>1, RowOperations
<1>2. \A row : SetRow(j, row) => job'[j] = row
  BY DEF SetRow, TypeOK
<1>3. \A s \in Terminal : /\ FinishJob(job[j], s).state = s
                          /\ FinishJob(RequestJobCancel(job[j]), s).state = s
                          /\ RetryJob(job[j]).state = "queued"
                          /\ RequestJobCancel(job[j]).state = job[j].state
  BY <1>1, RowEffects
<1>4. CASE Enqueue(j)
  <2>1. [job[j] EXCEPT !.state = "queued"].state = "queued"
    BY <1>1 DEF Rows
  <2> QED BY <1>2, <1>4, <2>1 DEF Enqueue
<1>5. CASE CancelHeld(j) \/ BackoffElapses(j)
  BY <1>2, <1>3, <1>5 DEF CancelHeld, BackoffElapses, rowVars, Terminal
<1>6. CASE CancelWaiting(j)
  BY <1>2, <1>3, <1>6 DEF CancelWaiting, Terminal
<1>7. CASE Retry(j)
  BY <1>2, <1>3, <1>7 DEF Retry, Terminal
<1>8. CASE Settle(j)
  <2>1. PICK verdict \in Verdicts(j) : SetRow(j, FinishJob(job[j], verdict))
    BY <1>8 DEF Settle
  <2>2. verdict \in {"succeeded", "failed"} /\ verdict \in Terminal
    BY DEF Verdicts, Terminal
  <2> QED BY <1>2, <1>3, <1>8, <2>1, <2>2 DEF Settle
<1> QED BY <1>4, <1>5, <1>6, <1>7, <1>8 DEF JobStep, Pause, Resume

-----------------------------------------------------------------------------
(* The invariant under which every step is one of the lifecycle.           *)

Unpaused == \A j \in Jobs : job[j].state # "paused"

Tracked == TypeOK /\ Ownership /\ NoForeignLease /\ Leases /\ Unpaused

LEMMA NextUnpaused ==
    ASSUME MayPause = {}, TypeOK, Unpaused, Next
    PROVE  Unpaused'
<1> USE DEF Unpaused
<1>1. ASSUME NEW r \in Runners, Claim(r) PROVE Unpaused'
  BY <1>1, ClaimEffect
<1>2. ASSUME NEW r \in Runners, RunnerStep(r), ~Claim(r) PROVE Unpaused'
  <2>1. RowOf(r) \in Rows
    BY <1>2, RunnerStepEffect, BusyRunner DEF Busy
  <2>2. StartJob(RowOf(r)).state = "running"
    BY <2>1 DEF StartJob, Rows
  <2>3. CASE Ends(r)
    BY <1>2, <2>3, RunnerStepEffect, EndStates, TriageStates DEF Terminal
  <2>4. CASE ~Ends(r)
    BY <1>2, <2>2, <2>4, RunnerStepEffect DEF RowKept, RowStarted
  <2> QED BY <2>3, <2>4
<1>3. ASSUME NEW j \in Jobs, JobStep(j) PROVE Unpaused'
  BY <1>3, JobStepEffect, RequestStates
<1>4. CASE Shutdown \/ Exit \/ Open
  BY <1>4 DEF Shutdown, Exit, Open, rowVars
<1>5. CASE Boot
  <2> SUFFICES ASSUME NEW j \in Jobs PROVE job'[j].state # "paused"
    OBVIOUS
  <2>1. JobBootTriage(KindOf[j]) # "paused"
    BY TriageStates
  <2> QED BY <1>5, <2>1, BootRows
<1> QED BY <1>1, <1>2, <1>3, <1>4, <1>5 DEF Next

-----------------------------------------------------------------------------
(* The steps.                                                              *)

\* A runner that leases a job begins it.
LEMMA ClaimBegins ==
    ASSUME Tracked, NEW r \in Runners, Claim(r)
    PROVE  \E j \in Jobs : Abstract!Begin(j)
<1>1. PICK j \in Jobs :
        /\ job[j].state = "queued" /\ At(r, "idle")
        /\ job'[j].state = "leased"
        /\ \A k \in Jobs \ {j} : job'[k] = job[k]
        /\ runner'[r].pc = "claimed" /\ runner'[r].job = j
        /\ \A s \in Runners \ {r} : runner'[s] = runner[s]
  BY ClaimEffect DEF Tracked
<1>2. Tended(j)'
  BY <1>1 DEF Tended, Busy, At, JobOf
<1>3. \A k \in Jobs \ {j} : Tended(k)' <=> Tended(k)
  BY <1>1 DEF Tended, Busy, At, JobOf
<1>4. Status[j] = "waiting" /\ Status'[j] = "active"
  BY <1>1, <1>2, StatusCases DEF Held
<1>5. \A k \in Jobs \ {j} : Status'[k] = Status[k]
  BY <1>1, <1>3, StatusCases
<1> QED BY <1>4, <1>5, Moves DEF Abstract!Begin

\* Whatever else a runner does, it does to the one active job it has.
LEMMA RunnerStepMoves ==
    ASSUME MayPause = {}, Tracked, NEW r \in Runners, RunnerStep(r), ~Claim(r)
    PROVE  Abstract!Next \/ Status' = Status
<1>a. PICK j \in Jobs : j = JobOf(r)
  BY RunnerStepEffect DEF Tracked
<1>0. /\ Busy(r) /\ j = JobOf(r) /\ HeldHere(j) /\ RowOf(r) \in Rows
      /\ \A s \in Runners \ {r} : Busy(s) => JobOf(s) # j
  BY <1>a, RunnerStepEffect, BusyRunner DEF Tracked, Ownership, Owns, Apart, Firm, Busy
<1>1. /\ \A k \in Jobs \ {j} : job'[k] = job[k]
      /\ \A s \in Runners \ {r} : runner'[s] = runner[s]
      /\ Busy(r)' => JobOf(r)' = j
  BY <1>a, RunnerStepEffect, TaskStays DEF Tracked, JobOf
<1>2. Tended(j)' <=> Busy(r)'
  BY <1>0, <1>1 DEF Tended, Busy, At, JobOf
<1>3. \A k \in Jobs \ {j} : Tended(k)' <=> Tended(k)
  BY <1>0, <1>1 DEF Tended, Busy, At, JobOf
<1>4. \A k \in Jobs \ {j} : Status'[k] = Status[k]
  BY <1>1, <1>3, StatusCases
<1>5. Status[j] = "active"
  BY <1>0, StatusCases DEF Tended, HeldHere
<1>6. \A s : Status'[j] = s => Abstract!Move(j, s)
  BY <1>0, <1>4, Moves
<1>7. CASE RowKept
  <2>1. job'[j].state \in Held
    BY <1>0, <1>7 DEF RowKept, HeldHere
  <2>2. CASE Busy(r)'
    BY <1>0, <1>2, <1>4, <1>5, <2>1, <2>2, Moves, StatusCases
  <2>3. CASE ~Busy(r)'
    <3>1. Status'[j] = "adrift"
      BY <1>0, <1>2, <2>1, <2>3, StatusCases
    <3>2. Status' = [k \in Jobs |-> IF k \in {j} THEN "adrift" ELSE Status[k]]
      <4>1. Status' = [k \in Jobs |-> Status'[k]]
        BY DEF Status
      <4> QED BY <1>4, <3>1, <4>1
    <3>3. Abstract!Drift({j})
      BY <1>5, <3>2 DEF Abstract!Drift
    <3> QED BY <1>0, <3>3 DEF Abstract!Next
  <2> QED BY <2>2, <2>3
<1>8. CASE StartRunning(r)
  <2>1. RowStarted(r)
    BY <1>8, RunnerStepEffect DEF Tracked
  <2>2. job'[j].state = "running" /\ Busy(r)'
    BY <1>0, <2>1 DEF RowStarted, StartJob, Rows, Busy, At
  <2> QED BY <1>0, <1>2, <1>4, <1>5, <2>2, Moves, StatusCases DEF Held
<1>9. CASE Ends(r) /\ ~Recover(r)
  <2>1. Status'[j] \in Abstract!Ended \cup {"waiting"}
    BY <1>0, <1>9, EndStates, StatusCases DEF Tracked, Abstract!Ended, Terminal, Held
  <2>2. Abstract!Yield(j)
    BY <1>5, <1>6, <2>1 DEF Abstract!Yield
  <2> QED BY <1>0, <2>2 DEF Abstract!Next
<1>10. CASE Recover(r)
  <2>1. Status'[j] = Fate[j]
    BY <1>0, <1>10, EndStates, TriageStates, StatusCases DEF Tracked, Fate, Held
  <2>2. Abstract!GiveUp(j)
    BY <1>5, <1>6, <2>1 DEF Abstract!GiveUp
  <2> QED BY <1>0, <2>2 DEF Abstract!Next
<1> QED BY <1>7, <1>8, <1>9, <1>10, RunnerStepEffect DEF Tracked

\* A request or a finalizer: it never touches a job that a runner has.
LEMMA JobStepMoves ==
    ASSUME MayPause = {}, Tracked, NEW j \in Jobs, JobStep(j)
    PROVE  Abstract!Next \/ Status' = Status
<1>1. /\ runner' = runner
      /\ \A k \in Jobs \ {j} : job'[k] = job[k]
  BY JobStepEffect DEF Tracked
<1>2. \A k \in Jobs : Tended(k)' <=> Tended(k)
  BY <1>1 DEF Tended, Busy, At, JobOf
<1>3. \A k \in Jobs \ {j} : Status'[k] = Status[k]
  BY <1>1, <1>2, StatusCases
<1>4. \A s : Status'[j] = s => Abstract!Move(j, s)
  BY <1>3, Moves
<1>5. ~SubjectBusy(j) => Abstract!SubjectFree(j)
  <2> SUFFICES ASSUME ~SubjectBusy(j), NEW k \in Jobs \ {j}, SubjectOf[k] = SubjectOf[j]
               PROVE  Status[k] \notin Abstract!Unended
    BY DEF Abstract!SubjectFree
  <2>1. job[k].state \in Terminal \cup {"absent"}
    BY DEF SubjectBusy, LiveRow, Tracked, TypeOK, Rows
  <2> QED BY <2>1, StatusCases DEF Abstract!Unended, Held, Terminal
<1>6. CASE job'[j].state = job[j].state
  BY <1>2, <1>3, <1>6, Moves, StatusCases
<1>7. CASE job[j].state = "absent" /\ ~SubjectBusy(j) /\ job'[j].state = "queued"
  <2>1. Abstract!Submit(j)
    BY <1>4, <1>5, <1>7, StatusCases DEF Abstract!Submit, Held
  <2> QED BY <2>1 DEF Abstract!Next
<1>8. CASE Serving /\ LiveRow(j) /\ ~HeldHere(j) /\ job'[j].state = "canceled"
  <2>1. job[j].state \in {"queued", "interrupted"}
    BY <1>8 DEF Serving, LiveRow, Live, Held, Tracked, NoForeignLease, Unpaused
  <2>2. Abstract!Withdraw(j)
    BY <1>4, <1>8, <2>1, StatusCases DEF Abstract!Withdraw, Held
  <2> QED BY <2>2 DEF Abstract!Next
<1>9. CASE /\ job[j].state \in {"failed", "canceled", "interrupted"}
           /\ ~SubjectBusy(j) /\ job'[j].state = "queued"
  <2>1. Abstract!Reopen(j)
    BY <1>4, <1>5, <1>9, StatusCases DEF Abstract!Reopen, Abstract!Reopening, Held
  <2> QED BY <2>1 DEF Abstract!Next
<1>10. CASE job[j].state = "interrupted" /\ job'[j].state \in {"succeeded", "failed"}
  <2>1. Abstract!Settle(j)
    BY <1>4, <1>10, StatusCases DEF Abstract!Settle, Held
  <2> QED BY <2>1 DEF Abstract!Next
<1> QED BY <1>6, <1>7, <1>8, <1>9, <1>10, RequestStates DEF Tracked

\* The end of the daemon sets every active job adrift at once.
LEMMA ExitDrifts ==
    ASSUME Tracked, Exit
    PROVE  Abstract!Next
<1> DEFINE lost == {j \in Jobs : Status[j] = "active"}
<1>1. job' = job /\ \A r \in Runners : ~Busy(r)'
  BY IdleTask DEF Exit, rowVars, Busy, At
<1>2. \A j \in Jobs : ~Tended(j)'
  BY <1>1 DEF Tended
<1>3. \A j \in Jobs : Status'[j] = IF j \in lost THEN "adrift" ELSE Status[j]
  <2> SUFFICES ASSUME NEW j \in Jobs
               PROVE  Status'[j] = IF j \in lost THEN "adrift" ELSE Status[j]
    OBVIOUS
  <2>1. job[j].state # "active"
    BY DEF Tracked, TypeOK, Rows, Live, Terminal
  <2> QED BY <1>1, <1>2, <2>1, StatusCases DEF Held
<1>4. Abstract!Drift(lost)
  <2>1. Status' = [j \in Jobs |-> Status'[j]]
    BY DEF Status
  <2> QED BY <1>3, <2>1 DEF Abstract!Drift
<1> QED BY <1>4 DEF Abstract!Next

\* The next boot finds every held job adrift, and decides about all of them.
LEMMA BootTriages ==
    ASSUME Tracked, Boot
    PROVE  Abstract!Next
<1>1. runner' = runner /\ boot' = boot + 1 /\ boot \in Nat /\ \A r \in Runners : ~Busy(r)
  BY DEF Boot, Tracked, TypeOK, Ownership, Quiet
<1>2. \A j \in Jobs : ~Tended(j) /\ ~Tended(j)'
  BY <1>1 DEF Tended, Busy, At, JobOf
<1>3. \A j \in Jobs : Orphaned(j) <=> job[j].state \in Held
  BY <1>1 DEF Orphaned, Tracked, Leases, Past, TypeOK, Rows
<1>4. ASSUME NEW j \in Jobs
      PROVE  Status'[j] = IF Status[j] = "adrift" THEN Fate[j] ELSE Status[j]
  <2>1. job[j].state # "adrift" /\ TypeOK
    BY DEF Tracked, TypeOK, Rows, Live, Terminal
  <2>2. CASE Orphaned(j)
    BY <1>2, <1>3, <2>1, <2>2, BootRows, TriageStates, StatusCases DEF Fate, Held
  <2>3. CASE ~Orphaned(j)
    BY <1>2, <1>3, <2>1, <2>3, BootRows, StatusCases
  <2> QED BY <2>2, <2>3
<1>5. Abstract!Triage
  <2>1. Status' = [j \in Jobs |-> Status'[j]]
    BY DEF Status
  <2> QED BY <1>4, <2>1 DEF Abstract!Triage
<1> QED BY <1>5 DEF Abstract!Next

\* Every step of the queue is a step of the lifecycle, or a stutter.
LEMMA StepSimulation ==
    ASSUME MayPause = {}, Tracked, [Next]_vars
    PROVE  [Abstract!Next]_Status
<1>1. ASSUME NEW r \in Runners, Claim(r) PROVE Abstract!Next
  BY <1>1, ClaimBegins DEF Abstract!Next
<1>2. CASE Shutdown \/ Open \/ UNCHANGED vars
  <2>1. UNCHANGED <<job, runner>>
    BY <1>2 DEF Shutdown, Open, rowVars, vars
  <2> QED BY <2>1 DEF Status, Tended, Busy, At, JobOf
<1> QED BY <1>1, <1>2, RunnerStepMoves, JobStepMoves, ExitDrifts, BootTriages DEF Next

LEMMA InitSimulation == Init => Abstract!Init /\ Unpaused
<1> SUFFICES ASSUME Init PROVE Abstract!Init /\ Unpaused
  OBVIOUS
<1>1. \A j \in Jobs : job[j].state = "absent"
  BY DEF Init
<1>2. \A j \in Jobs : Status[j] = "absent"
  BY <1>1, StatusCases DEF Held
<1>3. Status = [j \in Jobs |-> Status[j]]
  BY DEF Status
<1> QED BY <1>1, <1>2, <1>3 DEF Abstract!Init, Unpaused

\* As long as nobody pauses a download, the queue is a faithful job lifecycle:
\* whatever crashes, failed writes, cancels and retries do, a job moves only as
\* JobLifecycle lets it move.
THEOREM Refinement ==
    ASSUME MayPause = {}
    PROVE  Spec => Lifecycle
<1>1. Init => Tracked
  BY InitType, InitOwnership, InitNoForeignLease, InitLeases, InitSimulation DEF Tracked
<1>2. Tracked /\ [Next]_vars => Tracked'
  <2> SUFFICES ASSUME Tracked, [Next]_vars PROVE Tracked'
    OBVIOUS
  <2>1. Unpaused'
    BY NextUnpaused DEF Tracked, Unpaused, vars
  <2> QED BY <2>1, NextType, NextOwnership, NextNoForeignLease, NextLeases DEF Tracked
<1>3. Tracked /\ [Next]_vars => [Abstract!Next]_Status
  BY StepSimulation
<1>4. Init => Abstract!Init
  BY InitSimulation
<1> QED BY <1>1, <1>2, <1>3, <1>4, PTL DEF Spec, Lifecycle, Abstract!Spec

=============================================================================
