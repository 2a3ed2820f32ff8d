--------------------------- MODULE DownloadProofs ---------------------------
(***************************************************************************)
(* What holds of a download for any files, slots and bounds: the stored    *)
(* state is the fold of its tasks, success is told only of whole downloads *)
(* and a file that landed stays.                                           *)
(***************************************************************************)
EXTENDS Download, TLAPS

USE DEF Final

Pcs == {"idle", "loading", "opening", "transferring", "completing", "verifying", "closing"}
Outs == {"none", "succeeded", "failed", "error", "canceled"}
Tasks == [Files -> TaskStates \ {"verifying"}]
JobStates == Final \cup {"queued", "running", "paused"}

-----------------------------------------------------------------------------
(* The fold and the writes that keep it.                                   *)

\* The fold says verifying when nothing is left to move, and never says succeeded.
LEMMA FoldSays ==
    ASSUME NEW tasks \in Tasks
    PROVE  /\ Fold(tasks) \in TaskStates \ {"succeeded"}
           /\ Fold(tasks) = "verifying" => \A f \in Files : tasks[f] = "succeeded"
           /\ Fold(tasks) \in {"canceled", "paused", "running", "failed", "queued"} => Some(tasks, Fold(tasks))
<1>1. Fold(tasks) \in TaskStates \ {"succeeded"}
  BY DEF Fold, TaskStates
<1>2. ASSUME Fold(tasks) = "verifying", NEW f \in Files PROVE tasks[f] = "succeeded"
  <2>1. ~Some(tasks, "verifying") /\ tasks[f] \in TaskStates \ {"verifying"}
    BY DEF Tasks, Some
  <2>2. \A state \in {"canceled", "paused", "running", "failed", "queued"} : ~Some(tasks, state)
    BY <1>2, <2>1 DEF Fold
  <2> QED BY <2>1, <2>2 DEF Some, TaskStates
<1>3. Fold(tasks) \in {"canceled", "paused", "running", "failed", "queued"} => Some(tasks, Fold(tasks))
  BY DEF Fold
<1> QED BY <1>1, <1>2, <1>3

\* What a write of the tasks stores: their fold, or the promotion of it.
Folded == stored \in {Fold(task)} \cup (IF Fold(task) = "verifying" THEN {"succeeded"} ELSE {})

LEMMA Writes ==
    ASSUME NEW tasks \in Tasks, NEW verified \in BOOLEAN, WriteState(tasks, verified)
    PROVE  /\ task' \in Tasks /\ task' = tasks /\ stored' \in TaskStates /\ Folded'
           /\ stored' = "succeeded" => verified
<1>1. Fold(tasks) \in TaskStates \ {"succeeded"}
  BY FoldSays
<1>2. task' = tasks /\ Fold(task)' = Fold(tasks)
  BY DEF WriteState, Fold, Some
<1> QED BY <1>1, <1>2 DEF WriteState, Folded, TaskStates

\* The bulk UPDATE and the single one.
LEMMA Moves ==
    ASSUME TypeOK, NEW state \in TaskStates \ {"verifying"}
    PROVE  /\ AllTasks(state) \in Tasks
           /\ \A f \in Files : /\ task[f] \in {"succeeded", "canceled"} => AllTasks(state)[f] = task[f]
                               /\ task[f] \notin {"succeeded", "canceled"} => AllTasks(state)[f] = state
           /\ \A f \in Files : /\ OneTask(f, state) \in Tasks /\ OneTask(f, state)[f] = state
                               /\ \A g \in Files \ {f} : OneTask(f, state)[g] = task[g]
<1>1. task \in Tasks
  BY DEF TypeOK, Tasks
<1> QED BY <1>1 DEF AllTasks, OneTask, Tasks

\* The DomainWriter, called for the states that have tasks.
LEMMA DomainWrites ==
    ASSUME TypeOK, NEW state \in {"canceled", "queued"}, DomainWriter(state)
    PROVE  /\ task' \in Tasks /\ task' = AllTasks(state) /\ stored' \in TaskStates \ {"succeeded"} /\ Folded'
<1>1. TaskOf(state) = state /\ state \in TaskStates \ {"verifying"} /\ (state = "succeeded") = FALSE
  BY DEF TaskOf, TaskStates
<1>2. WriteState(AllTasks(state), FALSE)
  BY <1>1 DEF DomainWriter
<1> QED BY <1>1, <1>2, Moves, Writes

-----------------------------------------------------------------------------
(* What a step does to the run of a slot.                                  *)

\* The run of w moves to pc, with these files and this outcome; no other run moves.
Moved(w, pc, out, todo, moving) ==
    /\ run' \in [Slots -> Run]
    /\ \A u \in Slots \ {w} : run'[u] = run[u]
    /\ run'[w].pc = pc /\ run'[w].out = out /\ run'[w].todo = todo /\ run'[w].moving = moving

LEMMA Runs ==
    ASSUME TypeOK, NEW w \in Slots
    PROVE  /\ run[w] \in Run /\ run[w].pc \in Pcs /\ run[w].out \in Outs
           /\ run[w].todo \subseteq Files /\ run[w].moving \subseteq Files
           /\ At(w, "closing") => run[w].out # "none"
BY DEF TypeOK, Run, Pcs, Outs

LEMMA SetMoves ==
    ASSUME TypeOK, NEW w \in Slots, NEW r \in Run, run' = [run EXCEPT ![w] = r]
    PROVE  Moved(w, r.pc, r.out, r.todo, r.moving)
BY DEF TypeOK, Moved

LEMMA GotoMoves ==
    ASSUME TypeOK, NEW w \in Slots, NEW pc \in Pcs, Goto(w, pc)
    PROVE  Moved(w, pc, run[w].out, run[w].todo, run[w].moving)
BY Runs DEF TypeOK, Goto, Moved, Run, Pcs

LEMMA ReturnMoves ==
    ASSUME TypeOK, NEW w \in Slots, NEW out \in Outs, Return(w, out)
    PROVE  Moved(w, "closing", out, run[w].todo, run[w].moving)
<1>1. run' = [run EXCEPT ![w] = [run[w] EXCEPT !.pc = "closing", !.out = out]]
  BY DEF TypeOK, Return
<1>2. [run[w] EXCEPT !.pc = "closing", !.out = out] \in Run
  BY Runs DEF Run, Outs
<1> QED BY <1>1, <1>2, Runs DEF TypeOK, Moved, Run

LEMMA ReleaseMoves ==
    ASSUME TypeOK, NEW w \in Slots, Release(w)
    PROVE  Moved(w, "idle", "none", {}, {})
BY DEF TypeOK, Release, Moved, Run, Idle

\* Tasks written with their fold, which a FALSE keeps from the promotion.
Folds(tasks) == task' = tasks /\ task' \in Tasks /\ stored' \in TaskStates \ {"succeeded"} /\ Folded'

LEMMA Stores ==
    ASSUME NEW tasks \in Tasks, WriteState(tasks, FALSE)
    PROVE  Folds(tasks)
BY Writes DEF Folds

\* The files of a run that move.
LEMMA Transfers ==
    ASSUME TypeOK, NEW w \in Slots, NEW f \in Files
    PROVE  /\ StartTask(w, f) =>
                /\ At(w, "transferring") /\ f \in run[w].todo
                /\ Moved(w, "transferring", run[w].out, run[w].todo \ {f}, run[w].moving \cup {f})
                /\ Folds(OneTask(f, "running"))
           /\ MarkFilePresent(w, f) =>
                /\ f \in run[w].moving
                /\ Moved(w, run[w].pc, run[w].out, run[w].todo, run[w].moving \ {f})
                /\ Folds(OneTask(f, "succeeded"))
           /\ FailTask(w, f) =>
                /\ f \in run[w].moving
                /\ Moved(w, run[w].pc, run[w].out, run[w].todo, run[w].moving \ {f})
                /\ Folds(OneTask(f, "failed"))
           /\ Abandon(w, f) =>
                /\ f \in run[w].moving
                /\ Moved(w, run[w].pc, run[w].out, run[w].todo, run[w].moving \ {f})
           /\ StartTaskFails(w, f) =>
                /\ At(w, "transferring")
                /\ Moved(w, run[w].pc, run[w].out, run[w].todo \ {f}, run[w].moving)
<1>1. \A state \in {"running", "succeeded", "failed"} : OneTask(f, state) \in Tasks
  BY Moves DEF TaskStates
<1>2. run[w] \in Run /\ run[w].todo \ {f} \in SUBSET Files /\ run[w].moving \cup {f} \in SUBSET Files
      /\ run[w].moving \ {f} \in SUBSET Files
  BY Runs
<1>3. ASSUME NEW todo \in SUBSET Files, NEW moving \in SUBSET Files, NEW errs \in BOOLEAN,
             run' = [run EXCEPT ![w] = [run[w] EXCEPT !.todo = todo, !.moving = moving, !.errs = errs]]
      PROVE  Moved(w, run[w].pc, run[w].out, todo, moving)
  <2> DEFINE r == [run[w] EXCEPT !.todo = todo, !.moving = moving, !.errs = errs]
  <2>1. r \in Run /\ r.pc = run[w].pc /\ r.out = run[w].out /\ r.todo = todo /\ r.moving = moving
    BY <1>2 DEF Run
  <2>2. run' = [run EXCEPT ![w] = r]
    BY <1>3
  <2> HIDE DEF r
  <2> QED BY <2>1, <2>2, SetMoves
<1>4. run[w].errs \in BOOLEAN
  BY <1>2 DEF Run
<1>7. ASSUME StartTask(w, f)
      PROVE  /\ At(w, "transferring") /\ f \in run[w].todo
             /\ Moved(w, "transferring", run[w].out, run[w].todo \ {f}, run[w].moving \cup {f})
             /\ Folds(OneTask(f, "running"))
  <2>1. run' = [run EXCEPT ![w] = [run[w] EXCEPT !.todo = run[w].todo \ {f}, !.moving = run[w].moving \cup {f},
                                                 !.errs = run[w].errs]]
    BY <1>2, <1>7 DEF StartTask, TypeOK, Run
  <2>3. Moved(w, run[w].pc, run[w].out, run[w].todo \ {f}, run[w].moving \cup {f})
    BY <1>2, <1>3, <1>4, <2>1
  <2>4. At(w, "transferring") /\ f \in run[w].todo
    BY <1>7 DEF StartTask, NextFile
  <2> QED BY <1>1, <1>7, <2>3, <2>4, Stores DEF StartTask, At
<1>8. ASSUME run' = [run EXCEPT ![w].moving = run[w].moving \ {f}]
      PROVE  Moved(w, run[w].pc, run[w].out, run[w].todo, run[w].moving \ {f})
  <2>1. run' = [run EXCEPT ![w] = [run[w] EXCEPT !.todo = run[w].todo, !.moving = run[w].moving \ {f}, !.errs = run[w].errs]]
    BY <1>2, <1>8 DEF TypeOK, Run
  <2> QED BY <1>2, <1>3, <1>4, <2>1
<1>9. ASSUME run' = [run EXCEPT ![w].moving = run[w].moving \ {f}, ![w].errs = TRUE]
      PROVE  Moved(w, run[w].pc, run[w].out, run[w].todo, run[w].moving \ {f})
  <2>1. run' = [run EXCEPT ![w] = [run[w] EXCEPT !.todo = run[w].todo, !.moving = run[w].moving \ {f}, !.errs = TRUE]]
    BY <1>2, <1>9 DEF TypeOK, Run
  <2> QED BY <1>2, <1>3, <1>4, <2>1
<1>10. ASSUME run' = [run EXCEPT ![w].todo = run[w].todo \ {f}, ![w].errs = TRUE]
      PROVE  Moved(w, run[w].pc, run[w].out, run[w].todo \ {f}, run[w].moving)
  <2>1. run' = [run EXCEPT ![w] = [run[w] EXCEPT !.todo = run[w].todo \ {f}, !.moving = run[w].moving, !.errs = TRUE]]
    BY <1>2, <1>10 DEF TypeOK, Run
  <2> QED BY <1>2, <1>3, <1>4, <2>1
<1>11. MarkFilePresent(w, f) => /\ f \in run[w].moving
                                /\ Moved(w, run[w].pc, run[w].out, run[w].todo, run[w].moving \ {f})
                                /\ Folds(OneTask(f, "succeeded"))
  BY <1>1, <1>8, Stores DEF MarkFilePresent
<1>12. FailTask(w, f) => /\ f \in run[w].moving
                         /\ Moved(w, run[w].pc, run[w].out, run[w].todo, run[w].moving \ {f})
                         /\ Folds(OneTask(f, "failed"))
  BY <1>1, <1>9, Stores DEF FailTask
<1>13. Abandon(w, f) => f \in run[w].moving /\ Moved(w, run[w].pc, run[w].out, run[w].todo, run[w].moving \ {f})
  BY <1>9 DEF Abandon
<1>14. StartTaskFails(w, f) => /\ At(w, "transferring")
                               /\ Moved(w, run[w].pc, run[w].out, run[w].todo \ {f}, run[w].moving)
  BY <1>10 DEF StartTaskFails
<1> QED BY <1>7, <1>11, <1>12, <1>13, <1>14

\* The steps of a run between its files, none of which writes another task.
LEMMA RunSteps ==
    ASSUME TypeOK, NEW w \in Slots
    PROVE  /\ Load(w) => \E pc \in {"opening", "completing"} :
                /\ At(w, "loading")
                /\ Moved(w, pc, run[w].out, {f \in Files : task[f] # "succeeded"}, run[w].moving)
           /\ Open(w) => /\ At(w, "opening") /\ Folds(task)
                         /\ Moved(w, "transferring", run[w].out, run[w].todo, run[w].moving)
           /\ StopLaunching(w) => /\ At(w, "transferring")
                                  /\ Moved(w, "transferring", run[w].out, {}, run[w].moving)
           /\ EndTransfers(w) => /\ At(w, "transferring") /\ run[w].todo = {} /\ run[w].moving = {}
                                 /\ \/ Moved(w, "completing", run[w].out, {}, {})
                                    \/ \E out \in {"canceled", "error", "failed"} : Moved(w, "closing", out, {}, {})
           /\ Complete(w) => /\ At(w, "completing") /\ Folds(task)
                             /\ Moved(w, "verifying", run[w].out, run[w].todo, run[w].moving)
           /\ VerifyModels(w) => /\ At(w, "verifying")
                                 /\ \/ /\ Moved(w, "closing", "succeeded", run[w].todo, run[w].moving)
                                       /\ landed = Files /\ ready'
                                    \/ /\ Moved(w, "closing", "failed", run[w].todo, run[w].moving)
                                       /\ ready' = ready
           /\ VerifyModelsFails(w) \/ CutShort(w) \/ WriteFails(w) =>
                /\ run[w].pc \in {"loading", "opening", "completing", "verifying"}
                /\ \E out \in {"canceled", "error", "failed"} :
                     Moved(w, "closing", out, run[w].todo, run[w].moving)
           /\ Heartbeat(w) => /\ run[w].pc \notin {"idle", "closing"}
                              /\ Moved(w, run[w].pc, run[w].out, run[w].todo, run[w].moving)
<1>1. task \in Tasks /\ run[w] \in Run
  BY Runs DEF TypeOK, Tasks
<1>2. ASSUME Load(w)
      PROVE  \E pc \in {"opening", "completing"} :
                /\ At(w, "loading")
                /\ Moved(w, pc, run[w].out, {f \in Files : task[f] # "succeeded"}, run[w].moving)
  <2> DEFINE todo == {f \in Files : task[f] # "succeeded"}
             pc == IF todo = {} THEN "completing" ELSE "opening"
             r == [run[w] EXCEPT !.todo = todo, !.pc = pc]
  <2>1. r \in Run /\ r.pc = pc /\ r.out = run[w].out /\ r.todo = todo /\ r.moving = run[w].moving
    BY <1>1 DEF Run
  <2>2. run' = [run EXCEPT ![w] = r]
    BY <1>1, <1>2 DEF Load, TypeOK, Run
  <2> HIDE DEF r
  <2>3. Moved(w, pc, run[w].out, todo, run[w].moving)
    BY <2>1, <2>2, SetMoves
  <2> QED BY <1>2, <2>3 DEF Load
<1>3. Open(w) => /\ At(w, "opening") /\ Folds(task)
                 /\ Moved(w, "transferring", run[w].out, run[w].todo, run[w].moving)
  BY <1>1, GotoMoves, Stores DEF Open, Pcs
<1>4. ASSUME StopLaunching(w)
      PROVE  At(w, "transferring") /\ Moved(w, "transferring", run[w].out, {}, run[w].moving)
  <2> DEFINE r == [run[w] EXCEPT !.todo = {}]
  <2>1. r \in Run /\ r.pc = run[w].pc /\ r.out = run[w].out /\ r.todo = {} /\ r.moving = run[w].moving
    BY <1>1 DEF Run
  <2>2. run' = [run EXCEPT ![w] = r]
    BY <1>1, <1>4 DEF StopLaunching, TypeOK, Run
  <2> HIDE DEF r
  <2> QED BY <1>4, <2>1, <2>2, SetMoves DEF StopLaunching, At
<1>5. EndTransfers(w) => /\ At(w, "transferring") /\ run[w].todo = {} /\ run[w].moving = {}
                         /\ \/ Moved(w, "completing", run[w].out, {}, {})
                            \/ \E out \in {"canceled", "error", "failed"} : Moved(w, "closing", out, {}, {})
  BY GotoMoves, ReturnMoves DEF EndTransfers, Pcs, Outs
<1>6. Complete(w) => /\ At(w, "completing") /\ Folds(task)
                     /\ Moved(w, "verifying", run[w].out, run[w].todo, run[w].moving)
  BY <1>1, GotoMoves, Stores DEF Complete, Pcs
<1>7. VerifyModels(w) => /\ At(w, "verifying")
                         /\ \/ /\ Moved(w, "closing", "succeeded", run[w].todo, run[w].moving)
                               /\ landed = Files /\ ready'
                            \/ /\ Moved(w, "closing", "failed", run[w].todo, run[w].moving)
                               /\ ready' = ready
  BY ReturnMoves DEF VerifyModels, Outs
<1>8. VerifyModelsFails(w) \/ CutShort(w) \/ WriteFails(w) =>
        /\ run[w].pc \in {"loading", "opening", "completing", "verifying"}
        /\ \E out \in {"canceled", "error", "failed"} :
             Moved(w, "closing", out, run[w].todo, run[w].moving)
  BY ReturnMoves DEF VerifyModelsFails, CutShort, WriteFails, Transaction, At, Outs
<1>9. ASSUME Heartbeat(w)
      PROVE  /\ run[w].pc \notin {"idle", "closing"}
             /\ Moved(w, run[w].pc, run[w].out, run[w].todo, run[w].moving)
  <2>1. ASSUME NEW r \in {[run[w] EXCEPT !.seen = TRUE], [run[w] EXCEPT !.lost = TRUE]}
        PROVE  r \in Run /\ r.pc = run[w].pc /\ r.out = run[w].out /\ r.todo = run[w].todo
               /\ r.moving = run[w].moving
    BY <1>1, <2>1 DEF Run
  <2>2. \E r \in {[run[w] EXCEPT !.seen = TRUE], [run[w] EXCEPT !.lost = TRUE]} : run' = [run EXCEPT ![w] = r]
    BY <1>9 DEF Heartbeat
  <2> QED BY <1>9, <2>1, <2>2, SetMoves DEF Heartbeat
<1> QED BY <1>2, <1>3, <1>4, <1>5, <1>6, <1>7, <1>8, <1>9

\* How a run begins and ends. What its last commit leaves of the tasks fits the job.
LEMMA RunEnds ==
    ASSUME TypeOK, NEW w \in Slots
    PROVE  /\ Begin(w) => /\ At(w, "idle") /\ job.state = "queued" /\ job'.state = "running"
                          /\ Moved(w, "loading", "none", {}, {})
           /\ BeginCanceled(w) => /\ job.state = "queued" /\ job'.state = "canceled"
                                  /\ Folds(AllTasks("canceled"))
           /\ CloseDropped(w) => At(w, "closing") /\ Moved(w, "idle", "none", {}, {})
           /\ Close(w) => /\ At(w, "closing") /\ Moved(w, "idle", "none", {}, {})
                          /\ \E state \in Final \cup {"queued"} :
                               /\ task' = AllTasks(state) /\ task' \in Tasks
                               /\ stored' \in TaskStates /\ Folded'
                               /\ job'.state \in Final \cup {"queued"}
                               /\ job'.state = "queued" \/ job'.state = state
                               /\ stored' = "succeeded" => run[w].out = "succeeded"
                               /\ run[w].out = "succeeded" <=> job'.state = "succeeded"
                               /\ state = "succeeded" => run[w].out = "succeeded"
           /\ CloseFails(w) => /\ At(w, "closing") /\ Moved(w, "idle", "none", {}, {})
                               /\ job'.state = "queued" /\ Folds(AllTasks("queued"))
<1>1. job.state \in JobStates /\ run[w] \in Run /\ job.attempts \in Nat /\ job.max \in Nat
  BY Runs DEF TypeOK, JobStates
<1>2. ASSUME Begin(w)
      PROVE  /\ At(w, "idle") /\ job.state = "queued" /\ job'.state = "running"
             /\ Moved(w, "loading", "none", {}, {})
  <2> DEFINE r == [Idle EXCEPT !.pc = "loading", !.attempts = job.attempts + 1, !.max = job.max]
  <2>1. r \in Run /\ r.pc = "loading" /\ r.out = "none" /\ r.todo = {} /\ r.moving = {}
    <3>1. job.attempts + 1 \in Nat
      BY <1>1
    <3> HIDE DEF r
    <3>2. r = [Idle EXCEPT !.pc = "loading", !.attempts = job.attempts + 1, !.max = job.max]
      BY DEF r
    <3> QED BY <1>1, <3>1, <3>2 DEF Run, Idle
  <2>2. run' = [run EXCEPT ![w] = r]
    BY <1>2 DEF Begin
  <2> HIDE DEF r
  <2>3. Moved(w, "loading", "none", {}, {})
    BY <2>1, <2>2, SetMoves
  <2> QED BY <1>2, <2>3 DEF Begin, TypeOK
<1>3. BeginCanceled(w) => /\ job.state = "queued" /\ job'.state = "canceled"
                          /\ Folds(AllTasks("canceled"))
  BY DomainWrites DEF BeginCanceled, TypeOK, Folds
<1>4. CloseDropped(w) => At(w, "closing") /\ Moved(w, "idle", "none", {}, {})
  BY ReleaseMoves DEF CloseDropped
<1>5. ASSUME Close(w)
      PROVE  /\ At(w, "closing") /\ Moved(w, "idle", "none", {}, {})
             /\ \E state \in Final \cup {"queued"} :
                  /\ task' = AllTasks(state) /\ task' \in Tasks
                  /\ stored' \in TaskStates /\ Folded'
                  /\ job'.state \in Final \cup {"queued"}
                  /\ job'.state = "queued" \/ job'.state = state
                  /\ stored' = "succeeded" => run[w].out = "succeeded"
                  /\ run[w].out = "succeeded" <=> job'.state = "succeeded"
                  /\ state = "succeeded" => run[w].out = "succeeded"
  <2>1. ClosedTask(w) \in Final \cup {"queued"} /\ ClosedTask(w) \in TaskStates \ {"verifying"}
    BY DEF ClosedTask, ClosedState, TaskStates
  <2>2. job'.state = ClosedState(w)
    BY <1>5 DEF Close, TypeOK
  <2>3. /\ ClosedState(w) \in Final \cup {"queued"}
        /\ ClosedState(w) = "queued" \/ ClosedState(w) = ClosedTask(w)
        /\ run[w].out = "succeeded" <=> ClosedState(w) = "succeeded"
        /\ ClosedTask(w) = "succeeded" => run[w].out = "succeeded"
    BY DEF ClosedTask, ClosedState
  <2>4. AllTasks(ClosedTask(w)) \in Tasks
    BY <2>1, Moves
  <2>5. (run[w].out = "succeeded") \in BOOLEAN
    OBVIOUS
  <2>6. WriteState(AllTasks(ClosedTask(w)), run[w].out = "succeeded")
    BY <1>5 DEF Close
  <2>7. /\ task' = AllTasks(ClosedTask(w)) /\ task' \in Tasks
        /\ stored' \in TaskStates /\ Folded'
        /\ stored' = "succeeded" => run[w].out = "succeeded"
    BY <2>4, <2>5, <2>6, Writes
  <2>8. At(w, "closing") /\ Moved(w, "idle", "none", {}, {})
    BY <1>5, ReleaseMoves DEF Close
  <2> QED BY <2>1, <2>2, <2>3, <2>7, <2>8
<1>6. CloseFails(w) => /\ At(w, "closing") /\ Moved(w, "idle", "none", {}, {})
                       /\ job'.state = "queued" /\ Folds(AllTasks("queued"))
  BY ReleaseMoves, DomainWrites DEF CloseFails, TypeOK, Folds
<1> QED BY <1>2, <1>3, <1>4, <1>5, <1>6

\* A request that was counted is answered; the transaction of one that is refused
\* writes nothing.
LEMMA Answers ==
    ASSUME TypeOK, NEW verb \in Verbs, Answer(verb)
    PROVE  /\ asks[verb] > 0 /\ asks' \in [Verbs -> Nat]
           /\ \A v \in Verbs : asks'[v] <= asks[v] /\ asks[v] \in Nat
BY DEF TypeOK, Answer

LEMMA Requests ==
    ASSUME TypeOK
    PROVE  /\ Pause => /\ asks["pause"] > 0 /\ job'.state = "paused" /\ Folds(AllTasks("paused"))
                       /\ job.state \in {"queued", "running", "paused"}
           /\ Resume => /\ asks["resume"] > 0 /\ job'.state = "queued" /\ Folds(AllTasks("queued"))
                        /\ job.state \in {"queued", "running", "paused"}
           /\ Retry => /\ job.state \in {"failed", "canceled"} /\ job'.state = "queued"
                       /\ Folds(AllTasks("queued"))
           /\ Cancel => \/ /\ job.state = "running" /\ job'.state = "running"
                           /\ UNCHANGED <<task, stored>>
                        \/ /\ job.state \in {"queued", "paused"} /\ job'.state = "canceled"
                           /\ Folds(AllTasks("canceled"))
           /\ CloseUnheld => asks["close"] > 0 /\ Folds(AllTasks("canceled"))
           /\ Restart => \/ job.state = "running" /\ job'.state = "queued" /\ Folds(AllTasks("queued"))
                         \/ job.state # "running" /\ UNCHANGED <<job, task, stored>>
<1>1. \A state \in {"paused", "queued", "canceled"} : AllTasks(state) \in Tasks
  BY Moves DEF TaskStates
<1>2. Pause => /\ asks["pause"] > 0 /\ job'.state = "paused" /\ Folds(AllTasks("paused"))
               /\ job.state \in {"queued", "running", "paused"}
  BY <1>1, Stores DEF Pause, Refused, Live, Answer, TypeOK
<1>3. Resume => /\ asks["resume"] > 0 /\ job'.state = "queued" /\ Folds(AllTasks("queued"))
                /\ job.state \in {"queued", "running", "paused"}
  BY <1>1, Stores DEF Resume, Refused, Live, Answer, TypeOK
<1>4. ASSUME Retry
      PROVE  job.state \in {"failed", "canceled"} /\ job'.state = "queued" /\ Folds(AllTasks("queued"))
  BY <1>4, DomainWrites DEF Retry, Refused, TypeOK, Folds
<1>5. ASSUME Cancel
      PROVE  \/ /\ job.state = "running" /\ job'.state = "running" /\ UNCHANGED <<task, stored>>
             \/ /\ job.state \in {"queued", "paused"} /\ job'.state = "canceled"
                /\ Folds(AllTasks("canceled"))
  BY <1>5, DomainWrites DEF Cancel, Refused, Live, TypeOK, Folds
<1>6. CloseUnheld => asks["close"] > 0 /\ Folds(AllTasks("canceled"))
  BY <1>1, Stores DEF CloseUnheld, Answer
<1>7. Restart => \/ job.state = "running" /\ job'.state = "queued" /\ Folds(AllTasks("queued"))
                 \/ job.state # "running" /\ UNCHANGED <<job, task, stored>>
  BY DomainWrites DEF Restart, TypeOK, Folds
<1> QED BY <1>2, <1>3, <1>4, <1>5, <1>6, <1>7

-----------------------------------------------------------------------------
(* Types.                                                                  *)

Jobs == [state : JobStates, cancel : BOOLEAN, attempts : Nat, max : Nat]
RunsOK == run \in [Slots -> Run] /\ \A w \in Slots : At(w, "closing") => run[w].out # "none"
RowsOK == task \in Tasks /\ stored \in TaskStates /\ landed \subseteq Files /\ ready \in BOOLEAN
CountersOK == /\ asks \in [Verbs -> Nat] /\ asked \in [count : Nat, paused : BOOLEAN]
              /\ faults \in Nat /\ restarts \in Nat

LEMMA TypeParts == TypeOK <=> job \in Jobs /\ RowsOK /\ RunsOK /\ CountersOK
BY DEF TypeOK, Jobs, JobStates, RowsOK, RunsOK, CountersOK, Tasks

LEMMA MovedType ==
    ASSUME TypeOK, NEW w \in Slots, NEW pc, NEW out, NEW todo, NEW moving,
           Moved(w, pc, out, todo, moving), pc = "closing" => out # "none"
    PROVE  RunsOK'
BY DEF TypeOK, Moved, RunsOK, At

LEMMA JobType ==
    ASSUME job \in Jobs, NEW state \in JobStates, NEW cancel \in BOOLEAN, NEW attempts \in Nat, NEW max \in Nat
    PROVE  /\ [job EXCEPT !.state = state] \in Jobs
           /\ [job EXCEPT !.cancel = cancel] \in Jobs
           /\ [job EXCEPT !.cancel = cancel, !.state = state] \in Jobs
           /\ [job EXCEPT !.state = state, !.attempts = attempts] \in Jobs
           /\ [job EXCEPT !.state = state, !.cancel = cancel, !.max = max] \in Jobs
BY DEF Jobs

LEMMA NextJob ==
    ASSUME TypeOK, [Next]_vars
    PROVE  job' \in Jobs
<1>1. job \in Jobs /\ job.attempts + 1 \in Nat /\ Returned \in Nat
      /\ (IF job.max > job.attempts THEN job.max ELSE job.attempts + 1) \in Nat
  BY TypeParts DEF Jobs, Returned
<1>2. \A w \in Slots : ClosedState(w) \in JobStates
  BY DEF ClosedState, JobStates
<1>3. {"queued", "running", "paused", "canceled"} \subseteq JobStates
  BY DEF JobStates
<1>4. ASSUME NEW w \in Slots, Begin(w) \/ BeginCanceled(w) \/ Close(w) \/ CloseFails(w) PROVE job' \in Jobs
  <2>1. CASE Begin(w)
    BY <1>1, <1>3, <2>1, JobType DEF Begin, Jobs
  <2>2. CASE BeginCanceled(w)
    BY <1>1, <1>3, <2>2, JobType DEF BeginCanceled, Jobs
  <2>3. CASE Close(w)
    BY <1>1, <1>2, <2>3, JobType DEF Close
  <2>4. CASE CloseFails(w)
    BY <1>1, <1>3, <2>4, JobType DEF CloseFails
  <2> QED BY <1>4, <2>1, <2>2, <2>3, <2>4
<1>5. CASE Pause \/ Resume \/ Cancel
  BY <1>1, <1>3, <1>5, JobType DEF Pause, Resume, Cancel
<1>6. CASE Retry
  BY <1>1, <1>3, <1>6, JobType DEF Retry, Jobs
<1>7. CASE Restart
  <2>1. \/ job' = [job EXCEPT !.state = "queued", !.attempts = Returned]
        \/ job' = job
    BY <1>7 DEF Restart
  <2>2. [job EXCEPT !.state = "queued", !.attempts = Returned] \in Jobs
    BY <1>1, <1>3 DEF Jobs
  <2> QED BY <1>1, <2>1, <2>2
<1>8. CASE \E w \in Slots : \/ Heartbeat(w) \/ Load(w) \/ Open(w) \/ StopLaunching(w) \/ EndTransfers(w)
                            \/ Complete(w) \/ VerifyModels(w) \/ CutShort(w) \/ CloseDropped(w)
                            \/ VerifyModelsFails(w) \/ WriteFails(w)
  <2>1. UNCHANGED job
    BY <1>8, ZenonT(60) DEF Heartbeat, Load, Open, StopLaunching, EndTransfers, Complete, VerifyModels,
         CutShort, CloseDropped, VerifyModelsFails, WriteFails, rows
  <2> QED BY <1>1, <2>1
<1>9. CASE \E w \in Slots, f \in Files : StartTaskFails(w, f) \/ TransferStep(w, f) \/ Reassert(w, f)
  <2>1. UNCHANGED job
    BY <1>9 DEF StartTaskFails, TransferStep, StartTask, MarkFilePresent, FailTask, Abandon, Reassert, rows
  <2> QED BY <1>1, <2>1
<1>10. CASE \/ \E v \in Verbs : Ask(v) \/ Refuse(v)
            \/ CloseUnheld \/ UNCHANGED vars
  BY <1>1, <1>10 DEF Ask, Refuse, CloseUnheld, rows, vars
<1> QED BY <1>4, <1>5, <1>6, <1>7, <1>8, <1>9, <1>10 DEF Next, WorkerStep, FaultStep

\* Which steps write tasks, and which leave them and their fold as they are.
LEMMA NextRows ==
    ASSUME TypeOK, [Next]_vars
    PROVE  RowsOK'
<1>1. task \in Tasks /\ stored \in TaskStates /\ landed \subseteq Files /\ ready \in BOOLEAN
  BY TypeParts DEF RowsOK
<1>2. \A tasks : Folds(tasks) => task' \in Tasks /\ stored' \in TaskStates
  BY DEF Folds
<1>3. ASSUME NEW w \in Slots, BeginCanceled(w) \/ Close(w) \/ CloseFails(w) PROVE RowsOK'
  BY <1>1, <1>2, <1>3, RunEnds DEF BeginCanceled, Close, CloseFails, RowsOK
<1>4. CASE Pause \/ Resume \/ Retry \/ CloseUnheld
  BY <1>1, <1>2, <1>4, Requests DEF Pause, Resume, Retry, CloseUnheld, RowsOK
<1>5. CASE Cancel \/ Restart
  BY <1>1, <1>2, <1>5, Requests DEF Cancel, Restart, RowsOK
<1>6. ASSUME NEW w \in Slots, Open(w) \/ Complete(w) PROVE RowsOK'
  BY <1>1, <1>2, <1>6, RunSteps DEF Open, Complete, RowsOK
<1>7. ASSUME NEW w \in Slots, VerifyModels(w) PROVE RowsOK'
  BY <1>1, <1>7 DEF VerifyModels, RowsOK
<1>8. ASSUME NEW w \in Slots, NEW f \in Files, StartTask(w, f) \/ MarkFilePresent(w, f) \/ FailTask(w, f)
      PROVE  RowsOK'
  BY <1>1, <1>2, <1>8, Transfers DEF StartTask, MarkFilePresent, FailTask, RowsOK
<1>9. ASSUME NEW w \in Slots, NEW f \in Files, Reassert(w, f) PROVE RowsOK'
  BY <1>1, <1>9, Moves DEF Reassert, RowsOK, TaskStates
<1>10. CASE \E w \in Slots : \/ Begin(w) \/ Heartbeat(w) \/ Load(w) \/ StopLaunching(w) \/ EndTransfers(w)
                             \/ CutShort(w) \/ CloseDropped(w) \/ VerifyModelsFails(w) \/ WriteFails(w)
                             \/ \E f \in Files : StartTaskFails(w, f) \/ Abandon(w, f)
  BY <1>1, <1>10 DEF Begin, Heartbeat, Load, StopLaunching, EndTransfers, CutShort,
       CloseDropped, VerifyModelsFails, WriteFails, StartTaskFails, Abandon, rows, RowsOK
<1>11. CASE (\E v \in Verbs : Ask(v) \/ Refuse(v)) \/ UNCHANGED vars
  BY <1>1, <1>11 DEF Ask, Refuse, rows, vars, RowsOK
<1> QED BY <1>3, <1>4, <1>5, <1>6, <1>7, <1>8, <1>9, <1>10, <1>11
        DEF Next, WorkerStep, FaultStep, TransferStep

LEMMA NextRuns ==
    ASSUME TypeOK, [Next]_vars
    PROVE  RunsOK'
<1>1. RunsOK
  BY TypeParts
<1>2. \A w \in Slots : run[w].pc = "closing" => run[w].out # "none"
  BY <1>1 DEF RunsOK, At
<1>3. ASSUME NEW w \in Slots, Begin(w) \/ CloseDropped(w) \/ Close(w) \/ CloseFails(w) PROVE RunsOK'
  BY <1>3, RunEnds, MovedType
<1>4. ASSUME NEW w \in Slots, Load(w) \/ Open(w) \/ StopLaunching(w) \/ Complete(w) \/ Heartbeat(w)
      PROVE  RunsOK'
  BY <1>2, <1>4, RunSteps, MovedType
<1>5. ASSUME NEW w \in Slots,
             EndTransfers(w) \/ VerifyModels(w) \/ VerifyModelsFails(w) \/ CutShort(w) \/ WriteFails(w)
      PROVE  RunsOK'
  BY <1>2, <1>5, RunSteps, MovedType
<1>6. ASSUME NEW w \in Slots, NEW f \in Files, TransferStep(w, f) \/ StartTaskFails(w, f) PROVE RunsOK'
  <2>1. \E todo, moving : Moved(w, run[w].pc, run[w].out, todo, moving)
    <3>1. \/ Moved(w, "transferring", run[w].out, run[w].todo \ {f}, run[w].moving \cup {f}) /\ At(w, "transferring")
          \/ Moved(w, run[w].pc, run[w].out, run[w].todo, run[w].moving \ {f})
          \/ Moved(w, run[w].pc, run[w].out, run[w].todo \ {f}, run[w].moving)
      BY <1>6, Transfers DEF TransferStep
    <3> QED BY <3>1 DEF At
  <2> QED BY <1>2, <2>1, MovedType
<1>7. CASE Restart
  BY <1>7 DEF Restart, RunsOK, Idle, Run, At
<1>8. CASE \/ \E w \in Slots : BeginCanceled(w) \/ \E f \in Files : Reassert(w, f)
           \/ \E v \in Verbs : Ask(v) \/ Refuse(v)
           \/ Pause \/ Resume \/ Retry \/ Cancel \/ CloseUnheld \/ UNCHANGED vars
  <2>1. run' = run
    BY <1>8 DEF BeginCanceled, Reassert, Ask, Refuse, Pause, Resume, Retry, Cancel, CloseUnheld, vars
  <2> QED BY <1>1, <2>1 DEF RunsOK, At
<1> QED BY <1>3, <1>4, <1>5, <1>6, <1>7, <1>8 DEF Next, WorkerStep, FaultStep

LEMMA NextCounters ==
    ASSUME TypeOK, [Next]_vars
    PROVE  CountersOK'
<1>1. /\ asks \in [Verbs -> Nat] /\ asked \in [count : Nat, paused : BOOLEAN]
      /\ faults \in Nat /\ restarts \in Nat
  BY TypeParts DEF CountersOK
<1>2. \A verb \in Verbs : Answer(verb) => asks' \in [Verbs -> Nat]
  BY Answers
<1>3. {"pause", "resume", "retry", "cancel", "close"} \subseteq Verbs
  BY DEF Verbs
<1>4. CASE Pause \/ Resume \/ Retry \/ Cancel \/ CloseUnheld \/ \E v \in Verbs : Refuse(v)
  BY <1>1, <1>2, <1>3, <1>4 DEF Pause, Resume, Retry, Cancel, CloseUnheld, Refuse, CountersOK
<1>5. ASSUME NEW v \in Verbs, Ask(v) PROVE CountersOK'
  BY <1>1, <1>5 DEF Ask, CountersOK
<1>6. CASE Restart
  BY <1>1, <1>6 DEF Restart, CountersOK
<1>7. ASSUME NEW w \in Slots, VerifyModelsFails(w) \/ WriteFails(w) \/ CloseFails(w)
                              \/ \E f \in Files : StartTaskFails(w, f)
      PROVE  CountersOK'
  <2>1. faults' \in Nat
    <3>1. faults' = faults \/ faults' = faults + 1
      BY <1>7, Zenon DEF VerifyModelsFails, WriteFails, CloseFails, StartTaskFails, Fault
    <3> QED BY <1>1, <3>1
  <2>2. UNCHANGED <<asks, asked, restarts>>
    BY <1>7 DEF VerifyModelsFails, WriteFails, CloseFails, StartTaskFails
  <2> QED BY <1>1, <2>1, <2>2 DEF CountersOK
<1>8. CASE \E w \in Slots : \/ Begin(w) \/ BeginCanceled(w) \/ Heartbeat(w) \/ WorkerStep(w)
                            \/ \E f \in Files : TransferStep(w, f) \/ Reassert(w, f)
  <2>1. UNCHANGED <<asks, asked, faults, restarts>>
    BY <1>8, ZenonT(60) DEF Begin, BeginCanceled, Heartbeat, WorkerStep, Load, Open, StopLaunching,
         EndTransfers, Complete, VerifyModels, CutShort, CloseDropped, Close, TransferStep, StartTask,
         MarkFilePresent, FailTask, Abandon, Reassert
  <2> QED BY <1>1, <2>1 DEF CountersOK
<1>9. CASE UNCHANGED vars
  BY <1>1, <1>9 DEF vars, CountersOK
<1> QED BY <1>4, <1>5, <1>6, <1>7, <1>8, <1>9 DEF Next, FaultStep

\* Every variable keeps its type, and a run that closes has an outcome to close with.
THEOREM TypeCorrect == Spec => []TypeOK
<1>1. Init => TypeOK
  <2> SUFFICES ASSUME Init PROVE TypeOK
    OBVIOUS
  <2>1. job \in Jobs
    BY WidthAssumption DEF Init, Jobs, JobStates
  <2>2. RowsOK /\ RunsOK /\ CountersOK
    BY DEF Init, RowsOK, RunsOK, CountersOK, Tasks, TaskStates, Run, Idle, At
  <2> QED BY <2>1, <2>2, TypeParts
<1>2. TypeOK /\ [Next]_vars => TypeOK'
  <2> SUFFICES ASSUME TypeOK, [Next]_vars PROVE TypeOK'
    OBVIOUS
  <2>1. job' \in Jobs /\ RowsOK' /\ RunsOK' /\ CountersOK'
    BY NextJob, NextRows, NextRuns, NextCounters
  <2> QED BY <2>1, TypeParts DEF TypeOK, Jobs, JobStates, RowsOK, RunsOK, CountersOK, Tasks, At
<1> QED BY <1>1, <1>2, PTL DEF Spec

-----------------------------------------------------------------------------
(* Success. It is told by the closing of a run that found every file       *)
(* landed, and nothing that comes later takes a file or a model back.      *)

\* A run verified what it is about to close as succeeded.
Verified == \A w \in Slots : At(w, "closing") /\ run[w].out = "succeeded" => ready /\ landed = Files
Present == \A f \in Files : task[f] = "succeeded" => f \in landed
Whole == SucceededIsWhole /\ Verified /\ Present

LEMMA Grows ==
    ASSUME TypeOK, [Next]_vars
    PROVE  landed \subseteq landed' /\ (ready => ready') /\ landed' \subseteq Files
<1>1. landed \subseteq Files /\ landed' \subseteq Files
  BY NextRows, TypeParts DEF RowsOK
<1>2. ASSUME NEW w \in Slots, NEW f \in Files, TransferStep(w, f) \/ Reassert(w, f) \/ StartTaskFails(w, f)
      PROVE  landed \subseteq landed' /\ ready' = ready
  <2>1. CASE MarkFilePresent(w, f)
    BY <2>1 DEF MarkFilePresent
  <2>2. CASE ~MarkFilePresent(w, f)
    BY <1>2, <2>2 DEF TransferStep, StartTask, FailTask, Abandon, Reassert, StartTaskFails, rows
  <2> QED BY <2>1, <2>2
<1>3. ASSUME NEW w \in Slots, WorkerStep(w) PROVE landed' = landed /\ (ready => ready')
  <2>1. CASE VerifyModels(w)
    BY <2>1 DEF VerifyModels
  <2>2. CASE ~VerifyModels(w)
    <3>1. CASE Load(w) \/ StopLaunching(w) \/ EndTransfers(w) \/ CutShort(w) \/ CloseDropped(w)
      BY <3>1 DEF Load, StopLaunching, EndTransfers, CutShort, CloseDropped, rows
    <3>2. CASE Open(w) \/ Complete(w) \/ Close(w)
      <4>1. UNCHANGED <<landed, ready>>
        BY <3>2 DEF Open, Complete, Close
      <4> QED BY <4>1
    <3> QED BY <1>3, <2>2, <3>1, <3>2 DEF WorkerStep
  <2> QED BY <2>1, <2>2
<1>4. ASSUME NEW w \in Slots, Begin(w) \/ BeginCanceled(w) \/ Heartbeat(w) \/ VerifyModelsFails(w)
                              \/ WriteFails(w) \/ CloseFails(w)
      PROVE  UNCHANGED <<landed, ready>>
  BY <1>4 DEF Begin, BeginCanceled, Heartbeat, VerifyModelsFails, WriteFails, CloseFails, rows
<1>5. CASE (\E v \in Verbs : Ask(v) \/ Refuse(v)) \/ Pause \/ Resume \/ Retry \/ Cancel \/ CloseUnheld
           \/ Restart \/ UNCHANGED vars
  <2>1. CASE (\E v \in Verbs : Ask(v) \/ Refuse(v)) \/ UNCHANGED vars
    BY <1>1, <2>1 DEF Ask, Refuse, vars, rows
  <2>2. CASE Pause \/ Resume \/ Retry \/ Cancel \/ CloseUnheld \/ Restart
    <3>1. UNCHANGED <<landed, ready>>
      BY <2>2 DEF Pause, Resume, Retry, Cancel, CloseUnheld, Restart
    <3> QED BY <1>1, <3>1
  <2> QED BY <1>5, <2>1, <2>2
<1> QED BY <1>1, <1>2, <1>3, <1>4, <1>5 DEF Next, FaultStep

\* A step that closes no run as succeeded keeps who verified.
LEMMA VerifiedStays ==
    ASSUME TypeOK, Verified, [Next]_vars, NEW w \in Slots, NEW pc, NEW out,
           \E todo, moving : Moved(w, pc, out, todo, moving),
           pc = "closing" /\ out = "succeeded" => ready' /\ landed' = Files
    PROVE  Verified'
BY Grows DEF Verified, Moved, At

\* The tasks that a write leaves as they are, or moves from another state, need no file.
LEMMA PresentStays ==
    ASSUME TypeOK, Present, [Next]_vars,
           \A f \in Files : task'[f] = "succeeded" => task[f] = "succeeded" \/ f \in landed'
    PROVE  Present'
BY Grows DEF Present

LEMMA BulkKeepsPresent ==
    ASSUME TypeOK, NEW state \in {"queued", "paused", "canceled", "failed"}, task' = AllTasks(state)
    PROVE  \A f \in Files : (task'[f] = "succeeded") <=> (task[f] = "succeeded")
<1>1. task \in Tasks /\ state \in TaskStates \ {"verifying"}
  BY DEF TypeOK, Tasks, TaskStates
<1> QED BY <1>1, Moves

LEMMA NextWhole ==
    ASSUME TypeOK, Whole, [Next]_vars
    PROVE  Whole'
<1>1. /\ SucceededIsWhole /\ Verified /\ Present
      /\ landed \subseteq landed' /\ (ready => ready') /\ landed' \subseteq Files
      /\ job.state \in JobStates /\ ready' \in BOOLEAN
  BY Grows, TypeParts, NextRows DEF Whole, Jobs, RowsOK
<1>2. ASSUME NEW tasks, Folds(tasks) PROVE SucceededIsWhole'
  BY <1>2 DEF Folds, SucceededIsWhole
<1>3. ASSUME stored' = stored, job'.state = job.state \/ job.state # "succeeded" PROVE SucceededIsWhole'
  BY <1>1, <1>3 DEF SucceededIsWhole
<1>4. ASSUME run' = run PROVE Verified'
  BY <1>1, <1>4 DEF Verified, At
<1>5. ASSUME task' = task PROVE Present'
  BY <1>1, <1>5 DEF Present
<1>6. ASSUME NEW w \in Slots, Begin(w) PROVE Whole'
  BY <1>1, <1>3, <1>5, <1>6, RunEnds, VerifiedStays DEF Begin, Whole
<1>7. ASSUME NEW w \in Slots, BeginCanceled(w) PROVE Whole'
  BY <1>1, <1>2, <1>4, <1>7, RunEnds, BulkKeepsPresent, PresentStays DEF BeginCanceled, Whole, Folds
<1>8. ASSUME NEW w \in Slots, Load(w) \/ StopLaunching(w) \/ EndTransfers(w) \/ CutShort(w) \/ Heartbeat(w)
                              \/ CloseDropped(w) \/ VerifyModelsFails(w) \/ WriteFails(w)
      PROVE  Whole'
  <2>1. UNCHANGED rows
    BY <1>8 DEF Load, StopLaunching, EndTransfers, CutShort, Heartbeat, CloseDropped, VerifyModelsFails, WriteFails
  <2>2. SucceededIsWhole' /\ Present'
    BY <1>1, <1>3, <1>5, <2>1 DEF rows
  <2>3. \E pc, out, todo, moving :
           /\ Moved(w, pc, out, todo, moving)
           /\ pc # "closing" \/ out # "succeeded"
    <3>1. CASE Load(w)
      BY <3>1, RunSteps
    <3>2. CASE StopLaunching(w)
      BY <3>2, RunSteps
    <3>3. CASE EndTransfers(w)
      BY <3>3, RunSteps
    <3>4. CASE CutShort(w) \/ VerifyModelsFails(w) \/ WriteFails(w)
      BY <3>4, RunSteps
    <3>5. CASE Heartbeat(w)
      BY <3>5, RunSteps
    <3>6. CASE CloseDropped(w)
      BY <3>6, RunEnds
    <3> QED BY <1>8, <3>1, <3>2, <3>3, <3>4, <3>5, <3>6
  <2>4. Verified'
    BY <1>1, <2>3, VerifiedStays
  <2> QED BY <2>2, <2>4 DEF Whole
<1>9. ASSUME NEW w \in Slots, Open(w) \/ Complete(w) PROVE Whole'
  <2>1. Folds(task) /\ job' = job
    BY <1>9, RunSteps DEF Open, Complete
  <2>2. Verified'
    BY <1>1, <1>9, RunSteps, VerifiedStays
  <2> QED BY <1>2, <1>5, <2>1, <2>2 DEF Whole, Folds
<1>10. ASSUME NEW w \in Slots, VerifyModels(w) PROVE Whole'
  <2>1. UNCHANGED <<job, task, stored>> /\ landed' = landed
    BY <1>10 DEF VerifyModels
  <2>2. Verified'
    BY <1>1, <1>10, <2>1, RunSteps, VerifiedStays
  <2> QED BY <1>1, <1>3, <1>5, <2>1, <2>2 DEF Whole
<1>11. ASSUME NEW w \in Slots, Close(w) PROVE Whole'
  <2>1. Verified'
    BY <1>1, <1>11, RunEnds, VerifiedStays
  <2>2. At(w, "closing") /\ (run[w].out = "succeeded" => ready' /\ landed' = Files)
    BY <1>1, <1>11, RunEnds DEF Verified
  <2>3. PICK state \in Final \cup {"queued"} :
           /\ task' = AllTasks(state)
           /\ stored' = "succeeded" => run[w].out = "succeeded"
           /\ run[w].out = "succeeded" <=> job'.state = "succeeded"
           /\ state = "succeeded" => run[w].out = "succeeded"
    BY <1>11, RunEnds
  <2>4. SucceededIsWhole'
    <3>1. stored' = "succeeded" => job'.state = "succeeded"
      BY <2>3
    <3>2. stored' = "succeeded" => ready' /\ landed' = Files
      BY <2>2, <2>3
    <3> QED BY <3>1, <3>2 DEF SucceededIsWhole
  <2>5. Present'
    <3>1. CASE state = "succeeded"
      BY <1>1, <2>2, <2>3, <3>1 DEF Present
    <3>2. CASE state # "succeeded"
      <4>1. state \in {"queued", "paused", "canceled", "failed"}
        BY <3>2
      <4>2. \A f \in Files : (task'[f] = "succeeded") <=> (task[f] = "succeeded")
        BY <2>3, <4>1, BulkKeepsPresent
      <4> QED BY <1>1, <4>2, PresentStays
    <3> QED BY <3>1, <3>2
  <2> QED BY <2>1, <2>4, <2>5 DEF Whole
<1>12. ASSUME NEW w \in Slots, CloseFails(w) PROVE Whole'
  <2>1. Folds(AllTasks("queued"))
    BY <1>12, RunEnds
  <2>2. Verified'
    BY <1>1, <1>12, RunEnds, VerifiedStays
  <2>3. Present'
    BY <1>1, <2>1, BulkKeepsPresent, PresentStays DEF Folds
  <2> QED BY <1>2, <2>1, <2>2, <2>3 DEF Whole
<1>13. ASSUME NEW w \in Slots, NEW f \in Files, TransferStep(w, f) \/ Reassert(w, f) \/ StartTaskFails(w, f)
       PROVE  Whole'
  <2>1. task \in Tasks /\ \A state \in {"running", "succeeded", "failed"} : \A g \in Files :
           OneTask(f, state)[g] = IF g = f THEN state ELSE task[g]
    BY DEF OneTask, TypeOK, Tasks
  <2>2. CASE StartTask(w, f)
    <3>1. Folds(OneTask(f, "running"))
      BY <2>2, Transfers
    <3>2. \E pc, out, todo, moving : Moved(w, pc, out, todo, moving) /\ pc # "closing"
      <4>1. Moved(w, "transferring", run[w].out, run[w].todo \ {f}, run[w].moving \cup {f})
        BY <2>2, Transfers
      <4> QED BY <4>1
    <3>3. Present'
      BY <1>1, <2>1, <3>1, PresentStays DEF Folds
    <3> QED BY <1>1, <1>2, <3>1, <3>2, <3>3, VerifiedStays DEF Whole
  <2>3. CASE MarkFilePresent(w, f) \/ FailTask(w, f)
    <3>1. PICK state \in {"succeeded", "failed"} :
             Folds(OneTask(f, state)) /\ (state = "succeeded" => f \in landed')
      BY <2>3, Transfers DEF MarkFilePresent
    <3>2. \E todo, moving : Moved(w, run[w].pc, run[w].out, todo, moving)
      BY <2>3, Transfers
    <3>3. Present'
      BY <1>1, <2>1, <3>1, PresentStays DEF Folds
    <3>4. Verified'
      BY <1>1, <3>2, VerifiedStays DEF Verified, At
    <3> QED BY <1>2, <3>1, <3>3, <3>4 DEF Whole
  <2>4. CASE Abandon(w, f) \/ StartTaskFails(w, f)
    <3>1. UNCHANGED rows
      BY <2>4 DEF Abandon, StartTaskFails
    <3>2. \E todo, moving : Moved(w, run[w].pc, run[w].out, todo, moving)
      BY <2>4, Transfers
    <3>3. Verified'
      BY <1>1, <3>2, VerifiedStays DEF Verified, At
    <3> QED BY <1>3, <1>5, <3>1, <3>3 DEF Whole, rows
  <2>5. CASE Reassert(w, f)
    <3>1. task' = OneTask(f, "running") /\ UNCHANGED <<job, stored, run>>
      BY <2>5 DEF Reassert
    <3>2. Present'
      BY <1>1, <2>1, <3>1, PresentStays
    <3> QED BY <1>3, <1>4, <3>1, <3>2 DEF Whole
  <2> QED BY <1>13, <2>2, <2>3, <2>4, <2>5 DEF TransferStep
<1>14. CASE Pause \/ Resume \/ Retry \/ CloseUnheld
  <2>1. PICK state \in {"queued", "paused", "canceled"} : Folds(AllTasks(state))
    BY <1>14, Requests
  <2>2. run' = run
    BY <1>14 DEF Pause, Resume, Retry, CloseUnheld
  <2>3. Present'
    BY <1>1, <2>1, BulkKeepsPresent, PresentStays DEF Folds
  <2> QED BY <1>2, <1>4, <2>1, <2>2, <2>3 DEF Whole
<1>15. CASE Cancel
  <2>1. run' = run
    BY <1>15 DEF Cancel
  <2>2. CASE UNCHANGED <<task, stored>> /\ job'.state = job.state
    BY <1>3, <1>4, <1>5, <2>1, <2>2 DEF Whole
  <2>3. CASE Folds(AllTasks("canceled"))
    <3>1. Present'
      BY <1>1, <2>3, BulkKeepsPresent, PresentStays DEF Folds
    <3> QED BY <1>2, <1>4, <2>1, <2>3, <3>1 DEF Whole
  <2> QED BY <1>15, <2>2, <2>3, Requests
<1>16. CASE Restart
  <2>1. Verified'
    BY <1>16 DEF Restart, Verified, At, Idle
  <2>2. CASE Folds(AllTasks("queued"))
    <3>1. Present'
      BY <1>1, <2>2, BulkKeepsPresent, PresentStays DEF Folds
    <3> QED BY <1>2, <2>1, <2>2, <3>1 DEF Whole
  <2>3. CASE UNCHANGED <<job, task, stored>>
    BY <1>3, <1>5, <2>1, <2>3 DEF Whole
  <2> QED BY <1>16, <2>2, <2>3, Requests
<1>17. CASE (\E v \in Verbs : Ask(v) \/ Refuse(v)) \/ UNCHANGED vars
  <2>1. UNCHANGED <<rows, run>>
    BY <1>17 DEF Ask, Refuse, vars
  <2> QED BY <1>3, <1>4, <1>5, <2>1 DEF Whole, rows
<1> QED BY <1>6, <1>7, <1>8, <1>9, <1>10, <1>11, <1>12, <1>13, <1>14, <1>15, <1>16, <1>17
        DEF Next, WorkerStep, FaultStep

\* A download is shown as succeeded only when every file is on disk, the models are
\* ready and the job is closed, whichever run closes it, and whoever pauses, resumes,
\* cancels or retries beside two runs that overlap.
THEOREM SuccessIsWhole == Spec => []SucceededIsWhole
<1>1. Init => Whole
  BY DEF Init, Whole, SucceededIsWhole, Verified, Present, At, Idle
<1>2. TypeOK /\ Whole /\ [Next]_vars => Whole'
  BY NextWhole
<1>3. Whole => SucceededIsWhole
  BY DEF Whole
<1> QED BY <1>1, <1>2, <1>3, TypeCorrect, PTL DEF Spec

-----------------------------------------------------------------------------
(* One run at a time, as long as nobody pauses: the row says running while *)
(* it works, so nothing else claims the job or moves its tasks.            *)

Alone == \A u, w \in Slots : ~At(u, "idle") /\ ~At(w, "idle") => u = w
Held  == \A w \in Slots : ~At(w, "idle") => job.state = "running"

\* The files still to start have not landed, those in flight are shown as running.
Working(w) ==
    /\ \A f \in run[w].todo : task[f] # "succeeded"
    /\ \A f \in run[w].moving : task[f] = "running" /\ f \notin run[w].todo
    /\ run[w].moving # {} => At(w, "transferring")
    /\ At(w, "idle") => run[w].todo = {}

Runners == Alone /\ Held /\ \A w \in Slots : Working(w)

\* Tasks end like their job, but for those that landed or were canceled before.
EndsAlike == job.state \in Final => \A f \in Files : task[f] \in {"succeeded", "canceled", job.state}

AllLanded == \A f \in Files : task[f] = "succeeded"
\* A close of an unheld download was offered because nothing was left to move.
NothingToClose == asks["close"] > 0 => AllLanded

Undisturbed == asks["pause"] = 0 /\ asks["resume"] = 0

Settled == Runners /\ EndsAlike /\ NothingToClose /\ Undisturbed /\ Folded

\* One run moves, that of the job's one worker or the one that begins ...
LEMMA RunMoves ==
    ASSUME TypeOK, Runners, NEW w \in Slots, NEW pc, NEW out, NEW todo, NEW moving,
           Moved(w, pc, out, todo, moving),
           ~At(w, "idle") \/ job.state # "running",
           pc # "idle" => job'.state = "running",
           \A f \in todo : task'[f] # "succeeded",
           \A f \in moving : task'[f] = "running" /\ f \notin todo,
           moving # {} => pc = "transferring",
           pc = "idle" => todo = {}
    PROVE  Runners'
<1>1. \A u \in Slots \ {w} : At(u, "idle") /\ run'[u] = run[u]
  BY DEF Runners, Alone, Held, Moved
<1>2. \A u \in Slots \ {w} : run[u].todo = {} /\ run[u].moving = {}
  BY <1>1 DEF Runners, Working, At
<1>3. Alone' /\ Held'
  BY <1>1 DEF Alone, Held, Moved, At
<1>4. \A u \in Slots \ {w} : Working(u)'
  BY <1>1, <1>2 DEF Working, At
<1>5. Working(w)'
  BY DEF Working, Moved, At
<1> QED BY <1>3, <1>4, <1>5 DEF Runners

\* ... or none does: then the tasks stay, or nobody works on them.
LEMMA RunsRest ==
    ASSUME TypeOK, Runners, run' = run,
           job.state # "running" \/ (job'.state = "running" /\ task' = task)
    PROVE  Runners'
<1>1. CASE job.state # "running"
  <2>1. \A w \in Slots : At(w, "idle") /\ run[w].todo = {} /\ run[w].moving = {}
    BY <1>1 DEF Runners, Held, Working, At
  <2> QED BY <2>1 DEF Runners, Alone, Held, Working, At
<1>2. CASE job'.state = "running" /\ task' = task
  BY <1>2 DEF Runners, Alone, Held, Working, At
<1> QED BY <1>1, <1>2

\* The bulk UPDATE moves no landed file, and moves nothing once all landed.
LEMMA BulkLeaves ==
    ASSUME TypeOK, NEW state \in TaskStates \ {"verifying"}, task' = AllTasks(state)
    PROVE  /\ \A f \in Files : task[f] = "succeeded" => task'[f] = "succeeded"
           /\ AllLanded => task' = task
           /\ \A f \in Files : task'[f] \in {"succeeded", "canceled", state}
BY Moves DEF AllLanded, TypeOK, AllTasks

\* A step of a transfer moves a file that has not landed; writing again that it runs
\* moves nothing.
LEMMA OneMoves ==
    ASSUME TypeOK, Runners, NEW w \in Slots, NEW f \in Files,
           TransferStep(w, f) \/ StartTaskFails(w, f) \/ Reassert(w, f)
    PROVE  /\ Runners'
           /\ \A g \in Files : task[g] = "succeeded" => task'[g] = "succeeded"
           /\ ~At(w, "idle") /\ job' = job
           /\ (task' = task /\ stored' = stored) \/ Folded'
<1>1. /\ Working(w) /\ run[w] \in Run /\ task \in Tasks
      /\ \A g \in run[w].todo \cup run[w].moving : task[g] # "succeeded"
      /\ \A state \in {"running", "succeeded", "failed"} : \A g \in Files :
           OneTask(f, state)[g] = IF g = f THEN state ELSE task[g]
  BY Runs DEF Runners, Working, TypeOK, Tasks, OneTask
<1>2. job' = job
  BY DEF TransferStep, StartTask, MarkFilePresent, FailTask, Abandon, StartTaskFails, Reassert, rows
<1>3. ~At(w, "idle") => job.state = "running"
  BY DEF Runners, Held
<1>4. CASE StartTask(w, f)
  <2>1. /\ At(w, "transferring") /\ f \in run[w].todo /\ task' = OneTask(f, "running") /\ Folded'
        /\ Moved(w, "transferring", run[w].out, run[w].todo \ {f}, run[w].moving \cup {f})
    BY <1>4, Transfers DEF Folds
  <2>2. ~At(w, "idle") /\ job'.state = "running"
    BY <1>2, <1>3, <2>1 DEF At
  <2>3. /\ \A g \in run[w].todo \ {f} : task'[g] # "succeeded"
        /\ \A g \in run[w].moving \cup {f} : task'[g] = "running" /\ g \notin run[w].todo \ {f}
    BY <1>1, <2>1, Runs DEF Working
  <2>4. Runners'
    BY <2>1, <2>2, <2>3, RunMoves
  <2> QED BY <1>1, <1>2, <2>1, <2>2, <2>4
<1>5. CASE MarkFilePresent(w, f) \/ FailTask(w, f)
  <2>1. PICK state \in {"succeeded", "failed"} :
          /\ f \in run[w].moving /\ task' = OneTask(f, state) /\ Folded'
          /\ Moved(w, run[w].pc, run[w].out, run[w].todo, run[w].moving \ {f})
    BY <1>5, Transfers DEF Folds
  <2>2. At(w, "transferring") /\ ~At(w, "idle") /\ job'.state = "running"
    BY <1>1, <1>2, <1>3, <2>1 DEF Working, At
  <2>3. /\ \A g \in run[w].todo : task'[g] # "succeeded"
        /\ \A g \in run[w].moving \ {f} : task'[g] = "running" /\ g \notin run[w].todo
    BY <1>1, <2>1, Runs DEF Working
  <2>4. Runners'
    BY <2>1, <2>2, <2>3, RunMoves DEF At
  <2> QED BY <1>1, <1>2, <2>1, <2>2, <2>4
<1>6. CASE Abandon(w, f) \/ StartTaskFails(w, f)
  <2>1. task' = task /\ stored' = stored
    BY <1>6 DEF Abandon, StartTaskFails, rows
  <2>2. /\ At(w, "transferring") \/ f \in run[w].moving
        /\ \/ Moved(w, run[w].pc, run[w].out, run[w].todo, run[w].moving \ {f})
           \/ Moved(w, run[w].pc, run[w].out, run[w].todo \ {f}, run[w].moving)
    BY <1>6, Transfers
  <2>3. At(w, "transferring") /\ ~At(w, "idle") /\ job'.state = "running"
    BY <1>1, <1>2, <1>3, <2>2 DEF Working, At
  <2>4. /\ \A g \in run[w].todo : task'[g] # "succeeded"
        /\ \A g \in run[w].moving : task'[g] = "running" /\ g \notin run[w].todo
        /\ run[w].pc = "transferring"
    BY <1>1, <2>1, <2>3 DEF Working, At
  <2>5. ASSUME NEW todo \in SUBSET run[w].todo, NEW moving \in SUBSET run[w].moving,
               Moved(w, "transferring", run[w].out, todo, moving)
        PROVE  Runners'
    BY <2>3, <2>4, <2>5, RunMoves
  <2>6. Runners'
    BY <2>2, <2>4, <2>5
  <2> QED BY <1>2, <2>1, <2>3, <2>6
<1>7. CASE Reassert(w, f)
  <2>1. f \in run[w].moving /\ task' = OneTask(f, "running") /\ run' = run /\ stored' = stored
    BY <1>7 DEF Reassert
  <2>2. task[f] = "running" /\ At(w, "transferring")
    BY <1>1, <2>1 DEF Working
  <2>3. task' = task
    BY <1>1, <2>1, <2>2 DEF OneTask, Tasks
  <2>4. ~At(w, "idle") /\ job'.state = "running"
    BY <1>2, <1>3, <2>2 DEF At
  <2> QED BY <1>2, <2>1, <2>3, <2>4, RunsRest
<1> QED BY <1>4, <1>5, <1>6, <1>7 DEF TransferStep

\* A landed file is not moved again, and once all have landed no task moves.
LEMMA LandedStay ==
    ASSUME TypeOK, Runners, [Next]_vars
    PROVE  \A f \in Files : task[f] = "succeeded" => task'[f] = "succeeded"
<1>1. ASSUME NEW state \in TaskStates \ {"verifying"}, task' = AllTasks(state)
      PROVE  \A f \in Files : task[f] = "succeeded" => task'[f] = "succeeded"
  BY <1>1, BulkLeaves
<1>2. Final \cup {"queued", "paused"} \subseteq TaskStates \ {"verifying"}
  BY DEF TaskStates
<1>3. ASSUME NEW w \in Slots, BeginCanceled(w) \/ Close(w) \/ CloseFails(w)
      PROVE  \E state \in Final \cup {"queued", "paused"} : task' = AllTasks(state)
  BY <1>3, RunEnds DEF Folds
<1>4. CASE Pause \/ Resume \/ Retry \/ CloseUnheld
  BY <1>1, <1>2, <1>4, Requests DEF Folds
<1>5. CASE Cancel \/ Restart
  BY <1>1, <1>2, <1>5, Requests DEF Folds
<1>6. ASSUME NEW w \in Slots, NEW f \in Files, TransferStep(w, f) \/ StartTaskFails(w, f) \/ Reassert(w, f)
      PROVE  \A g \in Files : task[g] = "succeeded" => task'[g] = "succeeded"
  BY <1>6, OneMoves
<1>7. CASE \E w \in Slots : \/ Begin(w) \/ Heartbeat(w) \/ Load(w) \/ Open(w) \/ StopLaunching(w)
                            \/ EndTransfers(w) \/ Complete(w) \/ VerifyModels(w) \/ CutShort(w)
                            \/ CloseDropped(w) \/ VerifyModelsFails(w) \/ WriteFails(w)
  <2>1. task' = task
    BY <1>7 DEF Begin, Heartbeat, Load, Open, StopLaunching, EndTransfers, Complete, VerifyModels,
         CutShort, CloseDropped, VerifyModelsFails, WriteFails, WriteState, rows
  <2> QED BY <2>1
<1>8. CASE (\E v \in Verbs : Ask(v) \/ Refuse(v)) \/ UNCHANGED vars
  BY <1>8 DEF Ask, Refuse, vars, rows
<1> QED BY <1>1, <1>2, <1>3, <1>4, <1>5, <1>6, <1>7, <1>8 DEF Next, WorkerStep, FaultStep

\* Requests are counted when they are made and taken off when they are answered.
LEMMA AsksMove ==
    ASSUME TypeOK, [Next]_vars, NEW verb \in Verbs
    PROVE  asks[verb] \in Nat /\ asks'[verb] \in Nat /\ (asks'[verb] <= asks[verb] \/ Ask(verb))
<1>1. asks \in [Verbs -> Nat] /\ asks' \in [Verbs -> Nat]
  BY NextCounters, TypeParts DEF CountersOK
<1>2. CASE UNCHANGED asks
  BY <1>1, <1>2
<1>3. ASSUME NEW v \in Verbs, Ask(v) PROVE asks'[verb] <= asks[verb] \/ Ask(verb)
  <2>1. asks' = [asks EXCEPT ![v] = asks[v] + 1]
    BY <1>3 DEF Ask
  <2>2. CASE v = verb
    BY <1>3, <2>2
  <2>3. CASE v # verb
    BY <1>1, <2>1, <2>3
  <2> QED BY <2>2, <2>3
<1>4. ASSUME NEW v \in Verbs, Answer(v) PROVE asks'[verb] <= asks[verb]
  BY <1>1, <1>4, Answers
<1>5. CASE Pause \/ Resume \/ Retry \/ Cancel \/ CloseUnheld \/ \E v \in Verbs : Refuse(v)
  BY <1>4, <1>5, <1>1 DEF Pause, Resume, Retry, Cancel, CloseUnheld, Refuse, Verbs
<1>6. CASE Restart
  BY <1>1, <1>6 DEF Restart
<1>7. CASE \E w \in Slots : \/ Begin(w) \/ BeginCanceled(w) \/ Heartbeat(w) \/ WorkerStep(w) \/ FaultStep(w)
                            \/ \E f \in Files : TransferStep(w, f) \/ Reassert(w, f)
  <2>1. UNCHANGED asks
    BY <1>7, ZenonT(60) DEF Begin, BeginCanceled, Heartbeat, WorkerStep, Load, Open, StopLaunching,
         EndTransfers, Complete, VerifyModels, CutShort, CloseDropped, Close, FaultStep, VerifyModelsFails,
         WriteFails, CloseFails, StartTaskFails, TransferStep, StartTask, MarkFilePresent, FailTask, Abandon,
         Reassert
  <2> QED BY <1>2, <2>1
<1>8. CASE UNCHANGED vars
  BY <1>2, <1>8 DEF vars
<1> QED BY <1>1, <1>3, <1>5, <1>6, <1>7, <1>8 DEF Next

\* What a close was offered on: the job is over, and the stored state is not.
LEMMA OfferedClose ==
    ASSUME TypeOK, EndsAlike, Folded, Offered("close")
    PROVE  AllLanded
<1>1. task \in Tasks /\ job.state \in JobStates
  BY TypeParts DEF RowsOK, Jobs
<1>2. job.state \in Final /\ stored \notin Final
  BY <1>1 DEF Offered, Live, JobStates
<1>3. stored = Fold(task) /\ Fold(task) \in TaskStates \ Final
  BY <1>1, <1>2, FoldSays DEF Folded
<1>4. \A f \in Files : task[f] \in Final
  BY <1>2 DEF EndsAlike
<1>5. Fold(task) \notin {"paused", "running", "queued"}
  BY <1>1, <1>4, FoldSays DEF Some
<1> QED BY <1>1, <1>3, <1>5, FoldSays DEF AllLanded, TaskStates

LEMMA RequestsSettle ==
    ASSUME TypeOK, Settled, ~asked'.paused, [Next]_vars
    PROVE  NothingToClose' /\ Undisturbed'
<1>1. \A f \in Files : task[f] = "succeeded" => task'[f] = "succeeded"
  BY LandedStay DEF Settled
<1>2. ASSUME asks'["close"] > 0 PROVE AllLanded'
  <2>1. asks["close"] \in Nat /\ asks'["close"] \in Nat /\ (asks'["close"] <= asks["close"] \/ Ask("close"))
    BY AsksMove DEF Verbs
  <2>2. CASE asks["close"] > 0
    BY <1>1, <2>2 DEF Settled, NothingToClose, AllLanded
  <2>3. CASE Ask("close")
    BY <1>1, <2>3, OfferedClose DEF Ask, Settled, AllLanded
  <2> QED BY <1>2, <2>1, <2>2, <2>3
<1>3. ASSUME NEW verb \in {"pause", "resume"} PROVE asks'[verb] = 0
  <2>1. asks[verb] \in Nat /\ asks'[verb] \in Nat /\ (asks'[verb] <= asks[verb] \/ Ask(verb))
    BY AsksMove DEF Verbs
  <2>2. ~Ask(verb)
    <3>1. Ask(verb) => asked'.paused = (asked.paused \/ verb \in {"pause", "resume"})
      BY DEF Ask
    <3> QED BY <3>1
  <2>3. asks[verb] = 0
    BY DEF Settled, Undisturbed
  <2> QED BY <2>1, <2>2, <2>3
<1> QED BY <1>2, <1>3 DEF NothingToClose, Undisturbed

\* While the job is not over, nothing is said of how the tasks end.
LEMMA NotOver ==
    ASSUME job'.state \in {"queued", "running", "paused"}
    PROVE  EndsAlike'
BY DEF EndsAlike

\* A step of a run that is under way and moves no task.
LEMMA RunStepsSettle ==
    ASSUME TypeOK, Runners, Folded, NEW w \in Slots,
           \/ Load(w) \/ Open(w) \/ StopLaunching(w) \/ EndTransfers(w) \/ Complete(w) \/ VerifyModels(w)
           \/ CutShort(w) \/ VerifyModelsFails(w) \/ WriteFails(w) \/ Heartbeat(w)
    PROVE  Runners' /\ EndsAlike' /\ Folded'
<1>1. Working(w) /\ (~At(w, "idle") => job.state = "running")
  BY DEF Runners, Held
<1>2. job' = job /\ task' = task /\ (stored' = stored \/ Folds(task))
  BY RunSteps DEF Load, Open, StopLaunching, EndTransfers, Complete, VerifyModels, CutShort,
     VerifyModelsFails, WriteFails, Heartbeat, rows, WriteState
<1>3. Folded'
  BY <1>2 DEF Folds, Folded, Fold, Some
<1>4. /\ \A f \in run[w].todo : task'[f] # "succeeded"
      /\ \A f \in run[w].moving : task'[f] = "running" /\ f \notin run[w].todo
      /\ run[w].moving # {} => run[w].pc = "transferring"
  BY <1>1, <1>2 DEF Working, At
<1>5. ASSUME ~At(w, "idle"), NEW pc \in Pcs \ {"idle"}, NEW out, NEW todo,
             Moved(w, pc, out, todo, run[w].moving), run[w].moving = {} \/ pc = "transferring",
             \A f \in todo : task[f] # "succeeded" /\ f \notin run[w].moving
      PROVE  Runners' /\ EndsAlike'
  <2>1. job'.state = "running"
    BY <1>1, <1>2, <1>5
  <2>2. /\ \A f \in todo : task'[f] # "succeeded"
        /\ \A f \in run[w].moving : task'[f] = "running" /\ f \notin todo
    BY <1>2, <1>4, <1>5
  <2>3. Runners'
    BY <1>5, <2>1, <2>2, RunMoves DEF Pcs
  <2> QED BY <2>1, <2>3, NotOver
<1>6. \A f \in run[w].todo : task[f] # "succeeded" /\ f \notin run[w].moving
  BY <1>2, <1>4
<1>7. ASSUME ~At(w, "idle"), NEW pc \in Pcs \ {"idle"}, NEW out,
              Moved(w, pc, out, run[w].todo, run[w].moving), run[w].moving = {} \/ pc = "transferring"
       PROVE  Runners' /\ EndsAlike'
  BY <1>5, <1>6, <1>7
<1>8. \A pc \in Pcs \ {"transferring"} : At(w, pc) => run[w].moving = {}
  BY <1>4 DEF At
<1>9. CASE Load(w)
  <2>1. At(w, "loading") /\ run[w].moving = {}
    BY <1>8, <1>9, RunSteps DEF Pcs
  <2>2. PICK pc \in {"opening", "completing"} :
           Moved(w, pc, run[w].out, {f \in Files : task[f] # "succeeded"}, run[w].moving)
    BY <1>9, RunSteps
  <2>3. Runners' /\ EndsAlike'
    BY <1>5, <2>1, <2>2 DEF Pcs, At
  <2> QED BY <1>3, <2>3
<1>10. CASE Open(w) \/ StopLaunching(w)
  <2>1. \/ Moved(w, "transferring", run[w].out, {}, run[w].moving)
        \/ Moved(w, "transferring", run[w].out, run[w].todo, run[w].moving)
    BY <1>10, RunSteps
  <2>2. ~At(w, "idle")
    BY <1>10, RunSteps DEF At
  <2>3. Runners' /\ EndsAlike'
    BY <1>5, <1>7, <2>1, <2>2 DEF Pcs
  <2> QED BY <1>3, <2>3
<1>11. CASE EndTransfers(w)
  <2>1. /\ ~At(w, "idle") /\ run[w].moving = {}
        /\ \E pc \in {"completing", "closing"} : \E out : Moved(w, pc, out, {}, {})
    BY <1>11, RunSteps DEF At
  <2>2. Runners' /\ EndsAlike'
    BY <1>5, <2>1 DEF Pcs
  <2> QED BY <1>3, <2>2
<1>12. CASE Complete(w) \/ VerifyModels(w) \/ CutShort(w) \/ VerifyModelsFails(w) \/ WriteFails(w)
  <2>1. run[w].pc \in {"loading", "opening", "completing", "verifying"}
    BY <1>12, RunSteps DEF At
  <2>2. \E pc \in {"verifying", "closing"} : \E out : Moved(w, pc, out, run[w].todo, run[w].moving)
    BY <1>12, RunSteps
  <2>3. run[w].moving = {} /\ ~At(w, "idle")
    BY <1>4, <2>1 DEF At
  <2>4. Runners' /\ EndsAlike'
    BY <1>7, <2>2, <2>3 DEF Pcs
  <2> QED BY <1>3, <2>4
<1>13. CASE Heartbeat(w)
  <2>1. run[w].pc \in Pcs \ {"idle"} /\ ~At(w, "idle") /\ Moved(w, run[w].pc, run[w].out, run[w].todo, run[w].moving)
    BY <1>13, RunSteps, Runs DEF At
  <2>2. Runners' /\ EndsAlike'
    BY <1>4, <1>7, <2>1
  <2> QED BY <1>3, <2>2
<1> QED BY <1>9, <1>10, <1>11, <1>12, <1>13

LEMMA NextSettled ==
    ASSUME TypeOK, Settled, ~asked'.paused, [Next]_vars
    PROVE  Settled'
<1>1. /\ Runners /\ EndsAlike /\ NothingToClose /\ Undisturbed /\ Folded
      /\ NothingToClose' /\ Undisturbed'
  BY RequestsSettle DEF Settled
<1>2. \A w \in Slots : ~At(w, "idle") => job.state = "running"
  BY <1>1 DEF Runners, Held
<1>3. \A tasks : Folds(tasks) => Folded'
  BY DEF Folds
<1>4. ASSUME task' = task, stored' = stored PROVE Folded'
  BY <1>1, <1>4 DEF Folded, Fold, Some
<1>5. ASSUME task' = task, job'.state = job.state PROVE EndsAlike'
  BY <1>1, <1>5 DEF EndsAlike
<1>6. ASSUME NEW w \in Slots, Begin(w) PROVE Runners' /\ EndsAlike' /\ Folded'
  <2>1. /\ At(w, "idle") /\ job.state = "queued" /\ job'.state = "running"
        /\ Moved(w, "loading", "none", {}, {})
    BY <1>6, RunEnds
  <2>2. task' = task /\ stored' = stored
    BY <1>6 DEF Begin
  <2>3. Runners'
    BY <1>1, <2>1, RunMoves
  <2> QED BY <1>4, <2>1, <2>2, <2>3, NotOver
<1>7. ASSUME NEW w \in Slots, BeginCanceled(w) PROVE Runners' /\ EndsAlike' /\ Folded'
  <2>1. job.state = "queued" /\ job'.state = "canceled" /\ Folds(AllTasks("canceled")) /\ run' = run
    BY <1>7, RunEnds DEF BeginCanceled
  <2>2. EndsAlike'
    BY <2>1, BulkLeaves DEF EndsAlike, Folds, TaskStates
  <2> QED BY <1>1, <1>3, <2>1, <2>2, RunsRest
<1>8. ASSUME NEW w \in Slots,
             \/ Load(w) \/ Open(w) \/ StopLaunching(w) \/ EndTransfers(w) \/ Complete(w) \/ VerifyModels(w)
             \/ CutShort(w) \/ VerifyModelsFails(w) \/ WriteFails(w) \/ Heartbeat(w)
      PROVE  Runners' /\ EndsAlike' /\ Folded'
  BY <1>1, <1>8, RunStepsSettle
<1>9. ASSUME NEW w \in Slots, CloseDropped(w) PROVE Runners' /\ EndsAlike' /\ Folded'
  <2>1. ~At(w, "idle") /\ Moved(w, "idle", "none", {}, {})
    BY <1>9, RunEnds DEF At
  <2>2. Runners'
    BY <1>1, <2>1, RunMoves
  <2> QED BY <1>4, <1>5, <1>9, <2>2 DEF CloseDropped, rows
<1>10. ASSUME NEW w \in Slots, Close(w) PROVE Runners' /\ EndsAlike' /\ Folded'
  <2>1. ~At(w, "idle") /\ Moved(w, "idle", "none", {}, {})
    BY <1>10, RunEnds DEF At
  <2>2. Runners'
    BY <1>1, <2>1, RunMoves
  <2>3. PICK state \in Final \cup {"queued"} :
           /\ task' = AllTasks(state) /\ Folded'
           /\ job'.state = "queued" \/ job'.state = state
    BY <1>10, RunEnds
  <2>4. \A f \in Files : task'[f] \in {"succeeded", "canceled", state}
    BY <2>3, BulkLeaves DEF TaskStates
  <2> QED BY <2>2, <2>3, <2>4 DEF EndsAlike
<1>11. ASSUME NEW w \in Slots, CloseFails(w) PROVE Runners' /\ EndsAlike' /\ Folded'
  <2>1. ~At(w, "idle") /\ Moved(w, "idle", "none", {}, {}) /\ job'.state = "queued" /\ Folds(AllTasks("queued"))
    BY <1>11, RunEnds DEF At
  <2>2. Runners'
    BY <1>1, <2>1, RunMoves
  <2> QED BY <1>3, <2>1, <2>2, NotOver
<1>12. ASSUME NEW w \in Slots, NEW f \in Files, TransferStep(w, f) \/ StartTaskFails(w, f) \/ Reassert(w, f)
       PROVE  Runners' /\ EndsAlike' /\ Folded'
  <2>1. Runners' /\ ~At(w, "idle") /\ job' = job /\ ((task' = task /\ stored' = stored) \/ Folded')
    BY <1>1, <1>12, OneMoves
  <2> QED BY <1>2, <1>4, <2>1, NotOver
<1>13. ASSUME Retry PROVE Runners' /\ EndsAlike' /\ Folded'
  <2>1. job.state # "running" /\ job'.state = "queued" /\ Folds(AllTasks("queued")) /\ run' = run
    BY <1>13, Requests DEF Retry
  <2> QED BY <1>1, <1>3, <2>1, RunsRest, NotOver
<1>14. ASSUME Cancel PROVE Runners' /\ EndsAlike' /\ Folded'
  <2>1. run' = run
    BY <1>14 DEF Cancel
  <2>2. CASE job'.state = "running" /\ UNCHANGED <<task, stored>>
    BY <1>1, <1>4, <2>1, <2>2, RunsRest, NotOver
  <2>3. CASE job.state # "running" /\ job'.state = "canceled" /\ Folds(AllTasks("canceled"))
    <3>1. EndsAlike'
      BY <2>3, BulkLeaves DEF EndsAlike, Folds, TaskStates
    <3> QED BY <1>1, <1>3, <2>1, <2>3, <3>1, RunsRest
  <2> QED BY <1>14, <2>2, <2>3, Requests
<1>15. ASSUME CloseUnheld PROVE Runners' /\ EndsAlike' /\ Folded'
  <2>1. Folds(AllTasks("canceled")) /\ AllLanded /\ job' = job /\ run' = run
    BY <1>1, <1>15, Requests DEF NothingToClose, CloseUnheld
  <2>2. task' = task
    BY <2>1, BulkLeaves DEF Folds, TaskStates
  <2> QED BY <1>1, <1>3, <1>5, <2>1, <2>2, RunsRest
<1>16. ASSUME Restart PROVE Runners' /\ EndsAlike' /\ Folded'
  <2>1. Runners'
    BY <1>16 DEF Restart, Runners, Alone, Held, Working, At, Idle
  <2>2. CASE job'.state = "queued" /\ Folds(AllTasks("queued"))
    BY <1>3, <2>1, <2>2, NotOver
  <2>3. CASE UNCHANGED <<job, task, stored>>
    BY <1>4, <1>5, <2>1, <2>3
  <2> QED BY <1>16, <2>2, <2>3, Requests
<1>17. ASSUME (\E v \in Verbs : Ask(v) \/ Refuse(v)) \/ UNCHANGED vars
       PROVE  Runners' /\ EndsAlike' /\ Folded'
  <2>1. UNCHANGED <<job, task, stored, run>>
    BY <1>17 DEF Ask, Refuse, vars, rows
  <2>2. Runners'
    BY <1>1, <2>1 DEF Runners, Alone, Held, Working, At
  <2> QED BY <1>4, <1>5, <2>1, <2>2
<1>18. ~Pause /\ ~Resume
  BY <1>1, Requests DEF Undisturbed
<1> QED BY <1>1, <1>6, <1>7, <1>8, <1>9, <1>10, <1>11, <1>12, <1>13, <1>14, <1>15, <1>16, <1>17, <1>18
        DEF Next, WorkerStep, FaultStep, Settled

\* Once somebody pauses or resumes, that is remembered.
LEMMA PauseIsKept ==
    ASSUME TypeOK, [Next]_vars, asked.paused
    PROVE  asked'.paused
<1>1. CASE UNCHANGED asked
  BY <1>1
<1>2. ASSUME NEW v \in Verbs, Ask(v) PROVE asked'.paused
  BY <1>2 DEF Ask
<1>3. CASE Next /\ ~(\E v \in Verbs : Ask(v))
  <2>1. UNCHANGED asked
    BY <1>3, ZenonT(60) DEF Next, Begin, BeginCanceled, Heartbeat, WorkerStep, Load, Open, StopLaunching, EndTransfers,
       Complete, VerifyModels, CutShort, CloseDropped, Close, FaultStep, VerifyModelsFails, WriteFails,
       CloseFails, StartTaskFails, TransferStep, StartTask, MarkFilePresent, FailTask, Abandon, Reassert,
       Refuse, Pause, Resume, Retry, Cancel, CloseUnheld, Restart
  <2> QED BY <2>1
<1> QED BY <1>1, <1>2, <1>3 DEF vars

Sole == ~asked.paused => Settled

LEMMA SoleHolds == Spec => []Sole
<1>1. Init => Sole
  <2> SUFFICES ASSUME Init PROVE Settled
    BY DEF Sole
  <2>1. Runners
    BY DEF Init, Runners, Alone, Held, Working, At, Idle
  <2>2. EndsAlike /\ NothingToClose /\ Undisturbed
    BY DEF Init, EndsAlike, NothingToClose, Undisturbed, Verbs
  <2>3. Folded
    BY FilesAssumption DEF Init, Folded, Fold, Some
  <2> QED BY <2>1, <2>2, <2>3 DEF Settled
<1>2. TypeOK /\ Sole /\ [Next]_vars => Sole'
  BY PauseIsKept, NextSettled DEF Sole
<1> QED BY <1>1, <1>2, TypeCorrect, PTL DEF Spec

\* The stored state is the fold of the tasks after every write of either, whichever
\* transaction fails, is cut or is repeated, as long as nobody pauses: then a run that
\* was taken over may still write.
THEOREM StoredFolds == Spec => []StoredIsFold
<1>1. Sole => StoredIsFold
  BY DEF Sole, Settled, Folded, StoredIsFold
<1> QED BY <1>1, SoleHolds, PTL

\* A file that landed is never transferred again, by a failure, a cancel, a retry, a
\* recovery or a restart.
THEOREM LandedIsFinal == Spec => LandedStays
<1>1. TypeOK /\ Sole /\ [Next]_vars =>
        [\A f \in Files : task[f] = "succeeded" /\ ~asked'.paused => task'[f] = "succeeded"]_vars
  BY PauseIsKept, LandedStay DEF Sole, Settled
<1> QED BY <1>1, SoleHolds, TypeCorrect, PTL DEF Spec, LandedStays

\* Files move only while the job says that it runs.
THEOREM QuietOtherwise == Spec => []QuietUnlessRunning
<1>1. Sole => QuietUnlessRunning
  BY DEF Sole, Settled, Runners, Held, QuietUnlessRunning
<1> QED BY <1>1, SoleHolds, PTL

\* The download ends like its job, but for what landed or was canceled before.
THEOREM VerdictsAgree == Spec => []VerdictReaches
<1>1. TypeOK /\ Sole /\ Whole => VerdictReaches
  <2> SUFFICES ASSUME TypeOK, Settled, Whole, job.state \in Final
               PROVE  \/ stored \in {job.state, "canceled"}
                      \/ stored = "verifying" /\ landed = Files
    BY DEF Sole, VerdictReaches
  <2>1. task \in Tasks /\ landed \subseteq Files
    BY TypeParts DEF RowsOK
  <2>2. \A f \in Files : task[f] \in {"succeeded", "canceled", job.state}
    BY DEF Settled, EndsAlike
  <2>3. Fold(task) \in {"canceled", job.state, "verifying"}
    BY <2>1, <2>2, FoldSays DEF Some, TaskStates
  <2>4. Fold(task) = "verifying" => landed = Files
    BY <2>1, FoldSays DEF Whole, Present
  <2>5. stored = "succeeded" => job.state = "succeeded"
    BY DEF Whole, SucceededIsWhole
  <2> QED BY <2>3, <2>4, <2>5 DEF Settled, Folded
<1>2. Init => Whole
  BY DEF Init, Whole, SucceededIsWhole, Verified, Present, At, Idle
<1>3. TypeOK /\ Whole /\ [Next]_vars => Whole'
  BY NextWhole
<1> QED BY <1>1, <1>2, <1>3, SoleHolds, TypeCorrect, PTL DEF Spec
=============================================================================
