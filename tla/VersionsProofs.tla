--------------------------- MODULE VersionsProofs ---------------------------
(***************************************************************************)
(* Theorems about Versions: for any versions, replacements and instances,  *)
(* and whatever the bounds on boots, faults and requests.                  *)
(***************************************************************************)
EXTENDS Versions, TLAPS

-----------------------------------------------------------------------------
(* The types.                                                              *)

LEMMA JobTypes ==
    ASSUME job \in [Versions -> JobRows], NEW v \in Versions, NEW kind \in {"install", "delete", "activate"}
    PROVE  /\ Enqueued(v, kind) \in [Versions -> JobRows]
           /\ Enqueued(v, kind)[v] = [NoJob EXCEPT !.kind = kind, !.state = "queued"]
           /\ Enqueued(v, kind)[v].kind = kind /\ Enqueued(v, kind)[v].state = "queued"
           /\ \A u \in Versions \ {v} : Enqueued(v, kind)[u] = job[u]
<1>1. NoFlags \in Flags
  BY DEF NoFlags, Flags
<1> DEFINE one == [NoJob EXCEPT !.kind = kind, !.state = "queued"]
<1>2. one \in JobRows /\ one.kind = kind /\ one.state = "queued"
  BY <1>1 DEF NoJob, JobRows
<1>3. Enqueued(v, kind) = [job EXCEPT ![v] = one]
  BY DEF Enqueued
<1> HIDE DEF one
<1>4. /\ Enqueued(v, kind)[v] = one /\ Enqueued(v, kind) \in [Versions -> JobRows]
      /\ \A u \in Versions \ {v} : Enqueued(v, kind)[u] = job[u]
  BY <1>2, <1>3
<1> QED BY <1>2, <1>4 DEF one

JobStates == {"none", "queued", "running", "interrupted", "succeeded", "failed", "canceled"}

LEMMA StateTypes ==
    ASSUME NEW jobs \in [Versions -> JobRows], NEW v \in Versions, NEW s \in JobStates
    PROVE  [jobs EXCEPT ![v].state = s] \in [Versions -> JobRows]
<1>1. [jobs[v] EXCEPT !.state = s] \in JobRows
  BY DEF JobRows, JobStates
<1> QED BY <1>1

Pcs == {"idle", "closing", "building", "swapping", "reading", "checking", "removing", "flipping",
        "linking", "choosing", "stopping", "settling", "awaiting", "reverting", "relinking"}
Outs == {"none", "succeeded", "failed", "canceled", "fallback", "refused", "incomplete"}

LEMMA WorkTypes ==
    ASSUME NEW w \in [Versions -> Workers], NEW v \in Versions
    PROVE  /\ Idle \in Workers
           /\ \A pc \in Pcs : [w EXCEPT ![v].pc = pc] \in [Versions -> Workers]
           /\ \A pc \in Pcs : [w EXCEPT ![v] = [Idle EXCEPT !.pc = pc]] \in [Versions -> Workers]
           /\ \A pc \in Pcs, out \in Outs : [w EXCEPT ![v].pc = pc, ![v].out = out] \in [Versions -> Workers]
<1>0. NoFlags \in Flags
  BY DEF NoFlags, Flags
<1>1. Idle \in Workers
  BY <1>0 DEF Idle, Workers
<1>2. ASSUME NEW pc \in Pcs PROVE [w[v] EXCEPT !.pc = pc] \in Workers
  BY DEF Workers, Pcs
<1>3. ASSUME NEW pc \in Pcs PROVE [Idle EXCEPT !.pc = pc] \in Workers
  BY <1>1 DEF Workers, Pcs
<1>4. ASSUME NEW pc \in Pcs, NEW out \in Outs PROVE [w[v] EXCEPT !.pc = pc, !.out = out] \in Workers
  <2>1. w[v] \in Workers
    OBVIOUS
  <2> QED BY <2>1, ZenonT(60) DEF Workers, Pcs, Outs
<1>5. \A pc \in Pcs : [w EXCEPT ![v].pc = pc] = [w EXCEPT ![v] = [w[v] EXCEPT !.pc = pc]]
  OBVIOUS
<1>6. \A pc \in Pcs, out \in Outs : [w EXCEPT ![v].pc = pc, ![v].out = out]
                                      = [w EXCEPT ![v] = [w[v] EXCEPT !.pc = pc, !.out = out]]
  OBVIOUS
<1> QED BY <1>1, <1>2, <1>3, <1>4, <1>5, <1>6

-----------------------------------------------------------------------------
(* What each step does to the jobs.                                        *)

Same(v) ==
    /\ job'[v].kind = job[v].kind /\ job'[v].was = job[v].was
    /\ job'[v].keep = job[v].keep /\ job'[v].candidate = job[v].candidate

Others(v) == \A u \in Versions \ {v} : job'[u] = job[u]

\* The job of v is a new one.
New(v, kind) == job' \in [Versions -> JobRows] /\ Others(v) /\ job'[v].kind = kind /\ job'[v].state = "queued"

\* The job of v takes a state.
Takes(v, s) == job' \in [Versions -> JobRows] /\ Others(v) /\ Same(v) /\ job'[v].state = s

LEMMA StateTaken ==
    ASSUME TypeOK, NEW v \in Versions, NEW s \in JobStates, job' = [job EXCEPT ![v].state = s]
    PROVE  Takes(v, s)
BY StateTypes DEF TypeOK, Takes, Others, Same, JobRows

LEMMA ActivateJob ==
    ASSUME TypeOK, NEW v \in Versions, Activate(v)
    PROVE  /\ New(v, "activate") /\ job'[v].candidate = NoVersion
           /\ job'[v].was.flags = flags /\ job'[v].was.link = link
<1>1. PICK keep \in Keeps, roll \in BOOLEAN :
          job' = [Enqueued(v, "activate") EXCEPT ![v].keep = keep, ![v].roll = roll,
                                     ![v].was = [flags |-> flags, link |-> link]]
  BY DEF Activate
<1> DEFINE jobs == Enqueued(v, "activate")
           one == [jobs[v] EXCEPT !.keep = keep, !.roll = roll, !.was = [flags |-> flags, link |-> link]]
<1>2. /\ jobs \in [Versions -> JobRows] /\ jobs[v] = [NoJob EXCEPT !.kind = "activate", !.state = "queued"]
      /\ \A u \in Versions \ {v} : jobs[u] = job[u]
  BY JobTypes DEF TypeOK
<1>3. keep \in BOOLEAN /\ [flags |-> flags, link |-> link] \in [flags : Flags, link : Flags]
  BY VersionsAssumption DEF TypeOK
<1>4. job' = [jobs EXCEPT ![v] = one]
  BY <1>1, <1>2
<1>5. /\ one \in JobRows /\ one.kind = "activate" /\ one.state = "queued"
      /\ one.candidate = NoVersion /\ one.was = [flags |-> flags, link |-> link]
  BY <1>2, <1>3 DEF JobRows, NoJob
<1> HIDE DEF jobs, one
<1> QED BY <1>2, <1>4, <1>5 DEF New, Others

LEMMA EnqueueJob ==
    ASSUME TypeOK, NEW v \in Versions
    PROVE  /\ Delete(v) => New(v, "delete")
           /\ Rebuild(v) \/ Install(v) => New(v, "install")
<1>1. \A kind \in {"install", "delete", "activate"} : job' = Enqueued(v, kind) => New(v, kind)
  BY JobTypes DEF TypeOK, New, Others
<1> QED BY <1>1 DEF Delete, Rebuild, Install

LEMMA RetryJob ==
    ASSUME TypeOK, NEW v \in Versions, Retry(v)
    PROVE  New(v, "install")
<1> DEFINE one == [job[v] EXCEPT !.state = "queued", !.cancel = FALSE]
<1>1. one \in JobRows /\ one.kind = "install" /\ one.state = "queued"
  <2>1. job[v] \in JobRows /\ job[v].kind = "install"
    BY DEF Retry, TypeOK
  <2> QED BY <2>1 DEF JobRows
<1>2. job' = [job EXCEPT ![v] = one]
  BY DEF Retry, TypeOK
<1> HIDE DEF one
<1> QED BY <1>1, <1>2 DEF New, Others, TypeOK

LEMMA CancelJob ==
    ASSUME TypeOK, NEW v \in Versions
    PROVE  /\ CancelRunning(v) => Takes(v, "running") /\ job[v].state = "running"
           /\ CancelWaiting(v) => Takes(v, "canceled")
<1>1. ASSUME CancelRunning(v) PROVE Takes(v, "running") /\ job[v].state = "running"
  <2> DEFINE one == [job[v] EXCEPT !.cancel = TRUE]
  <2>1. /\ one \in JobRows /\ one.kind = job[v].kind /\ one.was = job[v].was /\ one.keep = job[v].keep
        /\ one.candidate = job[v].candidate /\ one.state = "running"
    <3>1. job[v] \in JobRows /\ job[v].state = "running"
      BY <1>1 DEF CancelRunning, TypeOK
    <3> QED BY <3>1 DEF JobRows
  <2>2. job' = [job EXCEPT ![v] = one]
    BY <1>1 DEF CancelRunning, TypeOK
  <2> HIDE DEF one
  <2>3. job' \in [Versions -> JobRows] /\ job'[v] = one /\ Others(v)
    BY <2>1, <2>2 DEF Others, TypeOK
  <2> QED BY <1>1, <2>1, <2>3 DEF Takes, Same, CancelRunning
<1> QED BY <1>1, StateTaken DEF CancelWaiting, JobStates

LEMMA StartJob ==
    ASSUME TypeOK, NEW v \in Versions, StartInstall(v) \/ StartDelete(v) \/ StartActivate(v)
    PROVE  Takes(v, "running") /\ job[v].state = "queued"
BY StateTaken DEF StartInstall, StartDelete, StartActivate, Start, JobStates

LEMMA FlipJob ==
    ASSUME TypeOK, NEW v \in Versions, Flip(v)
    PROVE  /\ job' \in [Versions -> JobRows] /\ Others(v)
           /\ job'[v].kind = job[v].kind /\ job'[v].was = job[v].was /\ job'[v].keep = job[v].keep
           /\ job'[v].state = job[v].state /\ job'[v].candidate = Candidate(v)
<1> DEFINE one == [job[v] EXCEPT !.candidate = Candidate(v)]
<1>0. Candidate(v) \in Versions \cup {NoVersion}
  BY DEF Candidate, Outgoing, TypeOK, Flags, Slots
<1>1. /\ one \in JobRows /\ one.kind = job[v].kind /\ one.was = job[v].was /\ one.keep = job[v].keep
      /\ one.candidate = Candidate(v) /\ one.state = job[v].state
  BY <1>0 DEF TypeOK, JobRows
<1>2. job' = [job EXCEPT ![v] = one]
  BY DEF Flip, TypeOK
<1> HIDE DEF one
<1> QED BY <1>1, <1>2 DEF Others, TypeOK

\* Whose delete an activation that succeeded queues.
Owed(v) == LET loser == job[v].candidate IN IF loser = NoVersion \/ Live(loser) THEN {} ELSE {loser}

LEMMA OwingJobs ==
    ASSUME TypeOK, NEW v \in Versions
    PROVE  /\ Owing(v) \in [Versions -> JobRows] /\ Owed(v) \subseteq Versions
           /\ \A u \in Versions \ Owed(v) : Owing(v)[u] = job[u]
           /\ \A u \in Owed(v) : Owing(v)[u].kind = "delete" /\ Owing(v)[u].state = "queued" /\ ~Live(u)
<1>1. job[v].candidate \in Versions \cup {NoVersion}
  BY DEF TypeOK, JobRows
<1>2. CASE Owed(v) = {}
  BY <1>1, <1>2, VersionsAssumption DEF Owed, Owing, TypeOK
<1>3. CASE Owed(v) # {}
  <2>1. /\ job[v].candidate \in Versions /\ ~Live(job[v].candidate) /\ Owed(v) = {job[v].candidate}
        /\ Owing(v) = Enqueued(job[v].candidate, "delete")
    BY <1>1, <1>3 DEF Owed, Owing
  <2> QED BY <2>1, JobTypes DEF TypeOK
<1> QED BY <1>2, <1>3

\* The ends of jobs: a state for v, and for nobody else, or a job queued for another.
Ends(v, s, u, kind) ==
    /\ job' \in [Versions -> JobRows] /\ Same(v) /\ job'[v].state = s
    /\ u \in Versions \ {v} /\ ~Live(u) /\ job'[u].kind = kind /\ job'[u].state = "queued"
    /\ \A w \in Versions \ {u, v} : job'[w] = job[w]

LEMMA CloseJob ==
    ASSUME TypeOK, NEW v \in Versions
    PROVE  /\ CloseInstall(v) /\ work[v].out \in JobStates => Takes(v, work[v].out)
           /\ CloseDelete(v) => Takes(v, IF work[v].out \in {"succeeded", "canceled"} THEN work[v].out ELSE "failed")
           /\ CloseFails(v) => Takes(v, Triaged(v))
           /\ CloseFallback(v) /\ v \in DOMAIN Replacement => Ends(v, "failed", Replacement[v], "install")
<1>1. CloseInstall(v) /\ work[v].out \in JobStates => Takes(v, work[v].out)
  BY StateTaken DEF CloseInstall, Ended
<1>2. ASSUME CloseDelete(v)
      PROVE  Takes(v, IF work[v].out \in {"succeeded", "canceled"} THEN work[v].out ELSE "failed")
  <2> DEFINE s == IF work[v].out \in {"succeeded", "canceled"} THEN work[v].out ELSE "failed"
  <2>1. s \in JobStates
    BY DEF JobStates
  <2>2. job' = [job EXCEPT ![v].state = s]
    BY <1>2 DEF CloseDelete
  <2> HIDE DEF s
  <2>3. Takes(v, s)
    BY <2>1, <2>2, StateTaken
  <2> QED BY <2>3 DEF s
<1>3. ASSUME CloseFails(v) PROVE Takes(v, Triaged(v))
  <2>1. Triaged(v) \in JobStates /\ job' = [job EXCEPT ![v].state = Triaged(v)]
    BY <1>3 DEF CloseFails, Triaged, JobStates
  <2> QED BY <2>1, StateTaken
<1>4. ASSUME CloseFallback(v), v \in DOMAIN Replacement
      PROVE  Ends(v, "failed", Replacement[v], "install")
  <2> DEFINE u == Replacement[v]
             jobs == Enqueued(u, "install")
             one == [jobs[v] EXCEPT !.state = "failed"]
  <2>1. u \in Versions \ {v}
    BY <1>4, VersionsAssumption
  <2>2. /\ jobs \in [Versions -> JobRows] /\ jobs[u].kind = "install" /\ jobs[u].state = "queued"
        /\ \A w \in Versions \ {u} : jobs[w] = job[w]
    BY <2>1, JobTypes DEF TypeOK
  <2>3. job' = [jobs EXCEPT ![v] = one] /\ ~Live(u)
    BY <1>4, <2>2 DEF CloseFallback
  <2>4. /\ one \in JobRows /\ one.state = "failed" /\ one.kind = job[v].kind /\ one.was = job[v].was
        /\ one.keep = job[v].keep /\ one.candidate = job[v].candidate
    BY <2>1, <2>2 DEF JobRows
  <2> HIDE DEF u, jobs, one
  <2>5. Ends(v, "failed", u, "install")
    BY <2>1, <2>2, <2>3, <2>4 DEF Ends, Same
  <2> QED BY <2>5 DEF u
<1> QED BY <1>1, <1>2, <1>3, <1>4

\* An activation ends: s is its state, and a delete is queued for whom it owes.
Settles(v, s) ==
    \/ Takes(v, s) /\ (s = "succeeded" => Owed(v) = {})
    \/ s = "succeeded" /\ \E u \in Owed(v) : Ends(v, s, u, "delete")

LEMMA OwingEnds ==
    ASSUME TypeOK, NEW v \in Versions, Live(v), job' = [Owing(v) EXCEPT ![v].state = "succeeded"]
    PROVE  Settles(v, "succeeded")
<1> DEFINE jobs == Owing(v)
           one == [jobs[v] EXCEPT !.state = "succeeded"]
<1>1. v \notin Owed(v) /\ Owed(v) \subseteq {job[v].candidate}
  BY DEF Owed
<1>2. /\ jobs \in [Versions -> JobRows] /\ \A u \in Versions \ Owed(v) : jobs[u] = job[u]
      /\ \A u \in Owed(v) : jobs[u].kind = "delete" /\ jobs[u].state = "queued" /\ ~Live(u)
      /\ Owed(v) \subseteq Versions
  BY OwingJobs
<1>3. job' = [jobs EXCEPT ![v] = one]
  BY <1>2
<1>4. /\ one \in JobRows /\ one.state = "succeeded" /\ one.kind = job[v].kind /\ one.was = job[v].was
      /\ one.keep = job[v].keep /\ one.candidate = job[v].candidate
  BY <1>1, <1>2 DEF JobRows
<1> HIDE DEF jobs, one
<1>5. CASE Owed(v) = {}
  <2>1. Takes(v, "succeeded")
    BY <1>2, <1>3, <1>4, <1>5 DEF Takes, Others, Same
  <2> QED BY <1>5, <2>1 DEF Settles
<1>6. ASSUME NEW u \in Owed(v) PROVE Settles(v, "succeeded")
  <2>1. Owed(v) = {u}
    BY <1>1, <1>6
  <2>2. Ends(v, "succeeded", u, "delete")
    BY <1>1, <1>2, <1>3, <1>4, <2>1 DEF Ends, Same
  <2> QED BY <1>6, <2>2 DEF Settles
<1> QED BY <1>5, <1>6

LEMMA ActivationEnds ==
    ASSUME TypeOK, NEW v \in Versions
    PROVE  /\ CloseActivate(v) /\ work[v].out \in {"succeeded", "failed", "canceled"} => Settles(v, work[v].out)
           /\ SettleActivation(v) /\ flags["active"] = v => Settles(v, "succeeded")
           /\ SettleActivation(v) /\ flags["active"] # v => Settles(v, "failed")
<1>1. ASSUME CloseActivate(v), work[v].out \in {"succeeded", "failed", "canceled"}
      PROVE  Settles(v, work[v].out)
  <2>1. CASE work[v].out = "succeeded"
    <3>1. job' = [Owing(v) EXCEPT ![v].state = "succeeded"] /\ Live(v)
      BY <1>1, <2>1 DEF CloseActivate, Closing, At, TypeOK, Live
    <3> QED BY <2>1, <3>1, OwingEnds
  <2>2. CASE work[v].out # "succeeded"
    <3>1. job' = [job EXCEPT ![v].state = work[v].out] /\ work[v].out \in JobStates
      BY <1>1, <2>2 DEF CloseActivate, JobStates
    <3> QED BY <2>2, <3>1, StateTaken DEF Settles
  <2> QED BY <2>1, <2>2
<1>2. ASSUME SettleActivation(v), flags["active"] = v PROVE Settles(v, "succeeded")
  BY <1>2, OwingEnds DEF SettleActivation, Unsettled, Live
<1>3. ASSUME SettleActivation(v), flags["active"] # v PROVE Settles(v, "failed")
  BY <1>3, StateTaken DEF SettleActivation, JobStates, Settles
<1> QED BY <1>1, <1>2, <1>3

LEMMA BootJobs ==
    ASSUME TypeOK, Boot
    PROVE  /\ job' \in [Versions -> JobRows] /\ \A v \in Versions : Same(v)
           /\ \A v \in Versions : job[v].state # "running" => job'[v] = job[v]
           /\ \A v \in Versions : job[v].state = "running" =>
                job'[v].state = IF job[v].kind = "delete" THEN "failed" ELSE "interrupted"
<1> DEFINE one(v) == [job[v] EXCEPT !.state = Triaged(v)]
<1>1. \A v \in Versions : /\ one(v) \in JobRows /\ one(v).kind = job[v].kind /\ one(v).was = job[v].was
                          /\ one(v).keep = job[v].keep /\ one(v).candidate = job[v].candidate
                          /\ one(v).state = IF job[v].kind = "delete" THEN "failed" ELSE "interrupted"
  BY DEF TypeOK, JobRows, Triaged
<1>2. job' = [v \in Versions |-> IF job[v].state = "running" THEN one(v) ELSE job[v]]
  BY DEF Boot
<1> HIDE DEF one
<1> QED BY <1>1, <1>2 DEF Same, TypeOK

-----------------------------------------------------------------------------
(* What each step does to the workers.                                     *)

\* An instance that a roll waits for is one.
Seated(v) == work[v].pc \in {"settling", "awaiting"} => work[v].at \in Instances
Typed == TypeOK /\ \A v \in Versions : Seated(v)

Elsewhere(v) == work' \in [Versions -> Workers] /\ \A u \in Versions \ {v} : work'[u] = work[u]

\* The worker of v goes on, with the flags it remembers and the cancel it has read.
Moved(v, pc, out) ==
    /\ Elsewhere(v) /\ work'[v].pc = pc /\ work'[v].out = out
    /\ work'[v].seen = work[v].seen /\ work'[v].before = work[v].before /\ work'[v].back = work[v].back

LEMMA WorkerMoved ==
    ASSUME TypeOK, NEW v \in Versions
    PROVE  /\ \A pc \in Pcs : Goto(v, pc) => Moved(v, pc, work[v].out)
           /\ \A out \in Outs : Close(v, out) => Moved(v, "closing", out)
<1>1. ASSUME NEW pc \in Pcs, Goto(v, pc) PROVE Moved(v, pc, work[v].out)
  <2>0. work[v] \in Workers
    BY DEF TypeOK
  <2> DEFINE one == [work[v] EXCEPT !.pc = pc]
  <2>1. /\ one \in Workers /\ one.pc = pc /\ one.out = work[v].out /\ one.seen = work[v].seen
        /\ one.before = work[v].before /\ one.back = work[v].back
    BY <2>0 DEF Workers, Pcs
  <2>2. work' = [work EXCEPT ![v] = one]
    BY <1>1 DEF Goto, TypeOK
  <2> HIDE DEF one
  <2> QED BY <2>1, <2>2 DEF Moved, Elsewhere, TypeOK
<1>2. ASSUME NEW out \in Outs, Close(v, out) PROVE Moved(v, "closing", out)
  <2>0. work[v] \in Workers
    BY DEF TypeOK
  <2> DEFINE one == [work[v] EXCEPT !.pc = "closing", !.out = out]
  <2>1. /\ one \in Workers /\ one.pc = "closing" /\ one.out = out /\ one.seen = work[v].seen
        /\ one.before = work[v].before /\ one.back = work[v].back
    BY <2>0 DEF Workers, Outs
  <2>2. work' = [work EXCEPT ![v] = one]
    BY <1>2 DEF Close, TypeOK
  <2> HIDE DEF one
  <2> QED BY <2>1, <2>2 DEF Moved, Elsewhere, TypeOK
<1> QED BY <1>1, <1>2

LEMMA WorkerRests ==
    ASSUME TypeOK, NEW v \in Versions, work' = [work EXCEPT ![v] = Idle]
    PROVE  Elsewhere(v) /\ work'[v].pc = "idle"
<1>1. Idle \in Workers /\ Idle.pc = "idle"
  BY WorkTypes DEF Idle, TypeOK
<1> QED BY <1>1 DEF Elsewhere, TypeOK

LEMMA WorkerStarts ==
    ASSUME TypeOK, NEW v \in Versions, NEW pc \in Pcs, Start(v, pc)
    PROVE  Elsewhere(v) /\ work'[v].pc = pc /\ ~work'[v].back
<1> DEFINE one == [Idle EXCEPT !.pc = pc]
<1>1. one \in Workers /\ one.pc = pc /\ ~one.back
  <2>1. Idle \in Workers /\ ~Idle.back
    BY WorkTypes DEF TypeOK, Idle
  <2> QED BY <2>1 DEF Workers, Pcs
<1>2. work' = [work EXCEPT ![v] = one]
  BY DEF Start
<1> HIDE DEF one
<1> QED BY <1>1, <1>2 DEF Elsewhere, TypeOK

LEMMA HeartbeatWork ==
    ASSUME TypeOK, NEW v \in Versions, Heartbeat(v)
    PROVE  /\ Elsewhere(v) /\ work'[v].pc = work[v].pc /\ work'[v].out = work[v].out
           /\ work'[v].before = work[v].before /\ work'[v].back = work[v].back
           /\ work'[v].seen /\ work'[v].at = work[v].at
<1>0. work[v] \in Workers /\ flags \in Flags /\ tree[v] \in {"gone", "partial", "whole"}
  BY DEF TypeOK
<1> DEFINE one == [work[v] EXCEPT !.seen = TRUE]
<1>1. /\ one \in Workers /\ one.pc = work[v].pc /\ one.out = work[v].out /\ one.seen /\ one.at = work[v].at
      /\ one.before = work[v].before /\ one.back = work[v].back
  BY <1>0 DEF Workers
<1>2. work' = [work EXCEPT ![v] = one]
  BY DEF Heartbeat, TypeOK
<1> HIDE DEF one
<1> QED BY <1>1, <1>2 DEF Elsewhere, TypeOK

LEMMA FlipWork ==
    ASSUME TypeOK, NEW v \in Versions, Flip(v)
    PROVE  /\ Elsewhere(v) /\ work'[v].pc = "linking" /\ work'[v].before = flags
           /\ work'[v].seen = work[v].seen /\ work'[v].back = work[v].back
<1>0. work[v] \in Workers /\ flags \in Flags /\ tree[v] \in {"gone", "partial", "whole"}
  BY DEF TypeOK
<1> DEFINE one == [work[v] EXCEPT !.pc = "linking", !.before = flags]
<1>1. /\ one \in Workers /\ one.pc = "linking" /\ one.before = flags /\ one.back = work[v].back
      /\ one.seen = work[v].seen
  BY <1>0 DEF Workers
<1>2. work' = [work EXCEPT ![v] = one]
  BY DEF Flip, TypeOK
<1> HIDE DEF one
<1> QED BY <1>1, <1>2 DEF Elsewhere, TypeOK

LEMMA DisplaceWork ==
    ASSUME TypeOK, NEW v \in Versions, Displace(v)
    PROVE  Moved(v, "swapping", work[v].out)
<1>0. work[v] \in Workers /\ flags \in Flags /\ tree[v] \in {"gone", "partial", "whole"}
  BY DEF TypeOK
<1> DEFINE one == [work[v] EXCEPT !.pc = "swapping", !.old = tree[v]]
<1>1. /\ one \in Workers /\ one.pc = "swapping" /\ one.out = work[v].out /\ one.seen = work[v].seen
      /\ one.before = work[v].before /\ one.back = work[v].back
  BY <1>0 DEF Workers
<1>2. work' = [work EXCEPT ![v] = one]
  BY DEF Displace, TypeOK
<1> HIDE DEF one
<1> QED BY <1>1, <1>2 DEF Moved, Elsewhere, TypeOK

\* The steps of a roll choose instances, which no invariant below looks at.
LEMMA RollWork ==
    ASSUME TypeOK, NEW v \in Versions, NEW pc \in Pcs, NEW todo \in SUBSET Instances,
           NEW at \in Instances \cup {NoInstance}, NEW canary \in BOOLEAN, NEW back \in BOOLEAN,
           work' = [work EXCEPT ![v] = [work[v] EXCEPT !.pc = pc, !.todo = todo, !.at = at,
                                                       !.canary = canary, !.back = back]]
    PROVE  /\ Elsewhere(v) /\ work'[v].pc = pc /\ work'[v].back = back /\ work'[v].out = work[v].out
           /\ work'[v].seen = work[v].seen /\ work'[v].before = work[v].before
<1>0. work[v] \in Workers /\ flags \in Flags /\ tree[v] \in {"gone", "partial", "whole"}
  BY DEF TypeOK
<1> DEFINE one == [work[v] EXCEPT !.pc = pc, !.todo = todo, !.at = at, !.canary = canary, !.back = back]
<1>1. /\ one \in Workers /\ one.pc = pc /\ one.out = work[v].out /\ one.seen = work[v].seen
      /\ one.before = work[v].before /\ one.back = back
  BY <1>0, ZenonT(60) DEF Workers, Pcs
<1>2. work' = [work EXCEPT ![v] = one]
  OBVIOUS
<1> HIDE DEF one
<1> QED BY <1>1, <1>2 DEF Elsewhere, TypeOK

LEMMA RollStopWork ==
    ASSUME TypeOK, NEW v \in Versions, RollStop(v)
    PROVE  Moved(v, "settling", work[v].out) /\ work'[v].at \in Instances
<1>0. work[v] \in Workers
  BY DEF TypeOK
<1>1. PICK i \in work[v].todo : work' = [work EXCEPT ![v].pc = "settling", ![v].at = i]
  BY DEF RollStop
<1>2. i \in Instances
  BY <1>0 DEF Workers
<1>3. work' = [work EXCEPT ![v] = [work[v] EXCEPT !.pc = "settling", !.at = i]]
  BY <1>1 DEF TypeOK
<1>4. [work[v] EXCEPT !.pc = "settling", !.at = i]
         = [work[v] EXCEPT !.pc = "settling", !.todo = work[v].todo, !.at = i,
                           !.canary = work[v].canary, !.back = work[v].back]
  BY <1>0 DEF Workers
<1>5. /\ work[v].todo \in SUBSET Instances /\ work[v].canary \in BOOLEAN /\ work[v].back \in BOOLEAN
      /\ "settling" \in Pcs
  BY <1>0 DEF Workers, Pcs
<1>6. work' = [work EXCEPT ![v] = [work[v] EXCEPT !.pc = "settling", !.todo = work[v].todo, !.at = i,
                           !.canary = work[v].canary, !.back = work[v].back]]
  BY <1>3, <1>4
<1>7. work'[v].at = i
  <2>1. work'[v] = [work[v] EXCEPT !.pc = "settling", !.at = i]
    BY <1>3 DEF TypeOK
  <2> QED BY <1>0, <2>1, SMTT(30) DEF Workers
<1> QED BY <1>2, <1>5, <1>6, <1>7, RollWork, ZenonT(60) DEF Moved

\* Where an activation stands between its flip and its closing.
Rolling == {"linking", "choosing", "stopping", "settling", "awaiting", "reverting", "relinking"}

\* What the worker of a version may be at is a matter of the kind of its job.
Placed(v) ==
    /\ work[v].pc \in {"building", "swapping"} => job[v].kind = "install"
    /\ work[v].pc \in {"reading", "checking", "removing"} => job[v].kind = "delete"
    /\ work[v].pc \in Rolling \cup {"flipping"} => job[v].kind = "activate"
    /\ Closing(v, "install") => work[v].out \in {"succeeded", "failed", "canceled", "fallback"}
    /\ Closing(v, "delete") => work[v].out \in {"succeeded", "canceled", "refused", "incomplete"}
    /\ Closing(v, "activate") => work[v].out \in {"succeeded", "failed", "canceled"}
    /\ At(v, "closing") => job[v].kind # "none"
    /\ At(v, "closing") /\ work[v].out = "fallback" => v \in DOMAIN Replacement

\* Workers belong to a process, and so do the requests it has begun.
Resting == phase \notin {"up", "draining"} => asked = {} /\ \A v \in Versions : At(v, "idle")

\* The steps of an install: what its worker comes to, and where it stood.
LEMMA InstallMoves ==
    ASSUME TypeOK, NEW v \in Versions
    PROVE  /\ BuildFails(v) => /\ At(v, "building")
                               /\ Moved(v, "closing", "canceled") \/ Moved(v, "closing", "failed")
           /\ WillNotRun(v) => At(v, "building") /\ Moved(v, "closing", "fallback")
           /\ PublishFresh(v) => At(v, "building") /\ Moved(v, "closing", "succeeded")
           /\ Displace(v) => At(v, "building") /\ Moved(v, "swapping", work[v].out)
           /\ Swap(v) => At(v, "swapping") /\ Moved(v, "closing", "succeeded")
           /\ SwapFails(v) => At(v, "swapping") /\ Moved(v, "closing", "failed")
<1>1. \A out \in Outs : Close(v, out) => Moved(v, "closing", out)
  BY WorkerMoved
<1>2. BuildFails(v) => Moved(v, "closing", "canceled") \/ Moved(v, "closing", "failed")
  BY <1>1 DEF BuildFails, Outs
<1> QED BY <1>1, <1>2, DisplaceWork DEF BuildFails, WillNotRun, PublishFresh, Displace, Swap, SwapFails, Outs

LEMMA DeleteMoves ==
    ASSUME TypeOK, NEW v \in Versions
    PROVE  /\ ReadFlags(v) => /\ At(v, "reading")
                              /\ IF Flagged(v) THEN Moved(v, "closing", "refused")
                                               ELSE Moved(v, "checking", work[v].out)
           /\ ReadCut(v) => At(v, "reading") /\ Moved(v, "closing", "canceled")
           /\ CheckUse(v) => /\ At(v, "checking")
                             /\ \/ Moved(v, "closing", "refused")
                                \/ (tree[v] = "gone" \/ ~InUse(v)) /\ Moved(v, "removing", work[v].out)
           /\ CheckFails(v) => At(v, "checking") /\ Moved(v, "closing", "refused")
           /\ Remove(v) => At(v, "removing") /\ Moved(v, "closing", "succeeded")
           /\ RemovalFails(v) => At(v, "removing") /\ Moved(v, "closing", "incomplete")
<1>1. \A out \in Outs : Close(v, out) => Moved(v, "closing", out)
  BY WorkerMoved
<1>2. \A pc \in Pcs : Goto(v, pc) => Moved(v, pc, work[v].out)
  BY WorkerMoved
<1>3. {"refused", "canceled", "succeeded", "incomplete"} \subseteq Outs /\ {"checking", "removing"} \subseteq Pcs
  BY DEF Outs, Pcs
<1>4. ReadFlags(v) => /\ At(v, "reading")
                      /\ IF Flagged(v) THEN Moved(v, "closing", "refused")
                                       ELSE Moved(v, "checking", work[v].out)
  BY <1>1, <1>2, <1>3 DEF ReadFlags
<1>5. CheckUse(v) => /\ At(v, "checking")
                     /\ \/ Moved(v, "closing", "refused")
                        \/ (tree[v] = "gone" \/ ~InUse(v)) /\ Moved(v, "removing", work[v].out)
  BY <1>1, <1>2, <1>3 DEF CheckUse
<1> QED BY <1>1, <1>3, <1>4, <1>5 DEF ReadCut, CheckFails, Remove, RemovalFails

\* The steps of an activation; fresh says that it has not turned back.
LEMMA ActivateMoves ==
    ASSUME TypeOK, NEW v \in Versions
    PROVE  /\ FlipFails(v) => At(v, "flipping") /\ Moved(v, "closing", "failed")
           /\ Link(v) => /\ At(v, "linking")
                         /\ Moved(v, "choosing", work[v].out) \/ Moved(v, "closing", "succeeded")
           /\ LinkFails(v) => /\ At(v, "linking")
                              /\ \/ work[v].seen /\ Moved(v, "closing", "canceled")
                                 \/ ~work[v].seen /\ RepairFails /\ Moved(v, "closing", "failed")
           /\ ChooseTargets(v) => /\ At(v, "choosing")
                                  /\ \/ Moved(v, "closing", "succeeded")
                                     \/ Moved(v, "stopping", work[v].out)
           /\ ChooseFails(v) => At(v, "choosing") /\ Moved(v, "reverting", work[v].out)
           /\ RollStop(v) => At(v, "stopping") /\ Moved(v, "settling", work[v].out) /\ work'[v].at \in Instances
           /\ RollStart(v) => At(v, "settling") /\ Moved(v, "awaiting", work[v].out) /\ work'[v].at = work[v].at
           /\ Revert(v) => At(v, "reverting") /\ Moved(v, "relinking", work[v].out)
           /\ RevertFails(v) => At(v, "reverting") /\ Moved(v, "closing", "failed")
<1>1. \A out \in Outs : Close(v, out) => Moved(v, "closing", out)
  BY WorkerMoved
<1>2. \A pc \in Pcs : Goto(v, pc) => Moved(v, pc, work[v].out)
  BY WorkerMoved
<1>3. /\ {"failed", "canceled", "succeeded"} \subseteq Outs
      /\ {"choosing", "reverting", "stopping", "awaiting", "relinking"} \subseteq Pcs
  BY DEF Outs, Pcs
<1>4. Link(v) => /\ At(v, "linking")
                 /\ Moved(v, "choosing", work[v].out) \/ Moved(v, "closing", "succeeded")
  BY <1>1, <1>2, <1>3 DEF Link
<1>5. LinkFails(v) => /\ At(v, "linking")
                      /\ \/ work[v].seen /\ Moved(v, "closing", "canceled")
                         \/ ~work[v].seen /\ RepairFails /\ Moved(v, "closing", "failed")
  BY <1>1, <1>3 DEF LinkFails
<1>6. ASSUME ChooseTargets(v)
      PROVE  Moved(v, "closing", "succeeded") \/ Moved(v, "stopping", work[v].out)
  <2>1. CASE Close(v, "succeeded")
    BY <1>1, <1>3, <2>1
  <2>2. ASSUME work' = [work EXCEPT ![v].pc = "stopping",
                                    ![v].todo = {i \in Instances : inst[i].proc # "down"}]
        PROVE  Moved(v, "stopping", work[v].out)
    <3> DEFINE up == {i \in Instances : inst[i].proc # "down"}
    <3>1. work[v] \in Workers /\ up \in SUBSET Instances
      BY DEF TypeOK
    <3> HIDE DEF up
    <3>2. /\ work[v].at \in Instances \cup {NoInstance} /\ work[v].canary \in BOOLEAN
          /\ work[v].back \in BOOLEAN
      BY <3>1 DEF Workers
    <3>3. [work[v] EXCEPT !.pc = "stopping", !.todo = up]
             = [work[v] EXCEPT !.pc = "stopping", !.todo = up, !.at = work[v].at,
                               !.canary = work[v].canary, !.back = work[v].back]
      BY <3>1 DEF Workers
    <3>4. work' = [work EXCEPT ![v] = [work[v] EXCEPT !.pc = "stopping", !.todo = up]]
      BY <2>2 DEF TypeOK, up
    <3>5. work' = [work EXCEPT ![v] = [work[v] EXCEPT !.pc = "stopping", !.todo = up, !.at = work[v].at,
                               !.canary = work[v].canary, !.back = work[v].back]]
      BY <3>3, <3>4, Zenon
    <3> QED BY <1>3, <3>1, <3>2, <3>5, RollWork, ZenonT(60) DEF Moved
  <2> QED BY <1>6, <2>1, <2>2 DEF ChooseTargets
<1>7. RollStart(v) => work'[v].at = work[v].at
  BY DEF RollStart, Goto, TypeOK, Workers
<1> QED BY <1>1, <1>2, <1>3, <1>4, <1>5, <1>6, <1>7, RollStopWork
        DEF FlipFails, ChooseTargets, ChooseFails, RollStop, RollStart, Revert, RevertFails

\* A roll that got one instance through goes on, ends, or was on its way back.
LEMMA HealthyMoves ==
    ASSUME TypeOK, NEW v \in Versions, RollHealthy(v)
    PROVE  /\ At(v, "awaiting")
           /\ \/ work[v].back /\ Moved(v, "closing", "failed")
              \/ ~work[v].back /\ Moved(v, "closing", "succeeded")
              \/ ~work[v].back /\ Moved(v, "stopping", work[v].out)
<1>0. At(v, "awaiting") /\ work[v] \in Workers
  BY DEF RollHealthy, TypeOK
<1>1. \A out \in {"failed", "succeeded"} : Close(v, out) => Moved(v, "closing", out)
  BY WorkerMoved DEF Outs
<1> DEFINE left == work[v].todo \ {work[v].at}
<1>2. ASSUME work' = [work EXCEPT ![v].pc = "stopping", ![v].todo = left, ![v].canary = FALSE]
      PROVE  Moved(v, "stopping", work[v].out)
  <2>1. /\ work[v].at \in Instances \cup {NoInstance} /\ left \in SUBSET Instances
        /\ work[v].back \in BOOLEAN /\ "stopping" \in Pcs
    BY <1>0 DEF Workers, Pcs
  <2> HIDE DEF left
  <2>2. [work[v] EXCEPT !.pc = "stopping", !.todo = left, !.canary = FALSE]
           = [work[v] EXCEPT !.pc = "stopping", !.todo = left, !.at = work[v].at,
                             !.canary = FALSE, !.back = work[v].back]
    BY <1>0 DEF Workers
  <2>3. work' = [work EXCEPT ![v] = [work[v] EXCEPT !.pc = "stopping", !.todo = left, !.canary = FALSE]]
    BY <1>2 DEF TypeOK, left
  <2>4. work' = [work EXCEPT ![v] = [work[v] EXCEPT !.pc = "stopping", !.todo = left, !.at = work[v].at,
                             !.canary = FALSE, !.back = work[v].back]]
    BY <2>2, <2>3
  <2>5. FALSE \in BOOLEAN
    OBVIOUS
  <2> QED BY <2>1, <2>4, <2>5, RollWork DEF Moved
<1> QED BY <1>0, <1>1, <1>2 DEF RollHealthy

LEMMA FailureMoves ==
    ASSUME Typed, NEW v \in Versions, RollFails(v)
    PROVE  /\ work[v].pc \in {"stopping", "settling", "awaiting"}
           /\ \/ work[v].back /\ Moved(v, "closing", "failed")
              \/ ~work[v].back /\ Moved(v, "closing", "succeeded")
              \/ ~work[v].back /\ Moved(v, "reverting", work[v].out)
<1>0. work[v].pc \in {"stopping", "settling", "awaiting"} /\ work[v] \in Workers /\ TypeOK
  <2>1. TypeOK
    BY DEF Typed
  <2>2. work[v] \in Workers
    BY <2>1 DEF TypeOK
  <2> QED BY <2>1, <2>2 DEF RollFails, At
<1>1. \A out \in {"failed", "succeeded"} : Close(v, out) => Moved(v, "closing", out)
  BY <1>0, WorkerMoved DEF Outs
<1>2. ASSUME ~work[v].back, work[v].canary,
             work' = [work EXCEPT ![v].pc = "reverting",
                                  ![v].todo = IF At(v, "stopping") THEN @ ELSE {work[v].at}]
      PROVE  Moved(v, "reverting", work[v].out)
  <2> DEFINE todo == IF At(v, "stopping") THEN work[v].todo ELSE {work[v].at}
  <2>1. /\ work[v].at \in Instances \cup {NoInstance} /\ work[v].back \in BOOLEAN
        /\ work[v].canary \in BOOLEAN /\ "reverting" \in Pcs
        /\ todo \in SUBSET Instances
    BY <1>0 DEF Workers, Pcs, Typed, Seated, At
  <2>3. work' = [work EXCEPT ![v] = [work[v] EXCEPT !.pc = "reverting", !.todo = todo]]
    BY <1>2 DEF TypeOK
  <2> HIDE DEF todo
  <2>2. [work[v] EXCEPT !.pc = "reverting", !.todo = todo]
           = [work[v] EXCEPT !.pc = "reverting", !.todo = todo, !.at = work[v].at,
                             !.canary = work[v].canary, !.back = work[v].back]
    BY <1>0 DEF Workers
  <2>4. work' = [work EXCEPT ![v] = [work[v] EXCEPT !.pc = "reverting", !.todo = todo, !.at = work[v].at,
                             !.canary = work[v].canary, !.back = work[v].back]]
    BY <2>2, <2>3
  <2> QED BY <1>0, <2>1, <2>4, RollWork, ZenonT(60) DEF Moved
<1> QED BY <1>0, <1>1, <1>2 DEF RollFails, At

LEMMA RelinkMoves ==
    ASSUME TypeOK, NEW v \in Versions, Relink(v)
    PROVE  /\ At(v, "relinking")
           /\ \/ Moved(v, "closing", "failed")
              \/ Elsewhere(v) /\ work'[v].pc = "stopping" /\ work'[v].back
<1>0. At(v, "relinking") /\ work[v] \in Workers /\ Restored(v)
  BY DEF Relink, TypeOK
<1>1. Close(v, "failed") => Moved(v, "closing", "failed")
  BY WorkerMoved DEF Outs
<1>2. ASSUME work' = [work EXCEPT ![v].pc = "stopping", ![v].back = TRUE]
      PROVE  Elsewhere(v) /\ work'[v].pc = "stopping" /\ work'[v].back
  <2>1. /\ work[v].at \in Instances \cup {NoInstance} /\ work[v].canary \in BOOLEAN
        /\ work[v].todo \in SUBSET Instances /\ "stopping" \in Pcs /\ TRUE \in BOOLEAN
    BY <1>0 DEF Workers, Pcs
  <2>2. work' = [work EXCEPT ![v] = [work[v] EXCEPT !.pc = "stopping", !.back = TRUE]]
    BY <1>2 DEF TypeOK
  <2>3. [work[v] EXCEPT !.pc = "stopping", !.back = TRUE]
           = [work[v] EXCEPT !.pc = "stopping", !.todo = work[v].todo, !.at = work[v].at,
                             !.canary = work[v].canary, !.back = TRUE]
    BY <1>0, ZenonT(60) DEF Workers
  <2>4. work' = [work EXCEPT ![v] = [work[v] EXCEPT !.pc = "stopping", !.todo = work[v].todo, !.at = work[v].at,
                             !.canary = work[v].canary, !.back = TRUE]]
    BY <2>2, <2>3
  <2> QED BY <2>1, <2>4, RollWork, ZenonT(60)
<1> QED BY <1>0, <1>1, <1>2 DEF Restored

-----------------------------------------------------------------------------
(* The types hold.                                                         *)

Rows == {"absent", "pending", "building", "ready", "failed", "canceled", "deleting", "deleted"}
Leases == [job : Versions \cup {NoVersion}, owner : Nat, expired : BOOLEAN]

\* The parts of TypeOK by themselves.
LEMMA Types ==
    ASSUME TypeOK
    PROVE  /\ row \in [Versions -> Rows] /\ lease \in Leases /\ NoLease \in Leases
           /\ asked \subseteq Versions \X {"delete", "rebuild"}
           /\ boot \in Nat /\ faults \in Nat /\ clicks \in Nat /\ hollow \subseteq Versions
           /\ tree \in [Versions -> {"gone", "partial", "whole"}]
<1>1. NoLease \in Leases
  BY DEF NoLease, Leases
<1> QED BY <1>1 DEF TypeOK, Rows, Leases

LEMMA InitTyped ==
    ASSUME Init PROVE Typed
<1>1. /\ NoFlags \in Flags /\ flags \in Flags
  BY VersionsAssumption DEF NoFlags, Flags, Init
<1>2. NoJob \in JobRows /\ Idle \in Workers
  BY <1>1 DEF NoJob, JobRows, Idle, Workers
<1>3. job \in [Versions -> JobRows] /\ work \in [Versions -> Workers]
      /\ \A v \in Versions : work[v].pc = "idle"
  BY <1>2 DEF Init, Idle
<1>4. TypeOK
  BY <1>1, <1>3 DEF Init, TypeOK, At
<1> QED BY <1>3, <1>4 DEF Typed, Seated

LEMMA RequestTyped ==
    ASSUME Typed, NEW v \in Versions, Request(v)
    PROVE  Typed'
<1>0. TypeOK
  BY DEF Typed
<1>1. /\ job' \in [Versions -> JobRows]
      /\ \A u \in Versions : job[u].state = "running" => job'[u].state = "running"
  <2>1. CASE job' = job
    BY <1>0, <2>1 DEF TypeOK
  <2>2. CASE Activate(v) \/ Delete(v) \/ Rebuild(v) \/ Install(v) \/ Retry(v)
    <3>1. (\E kind \in {"activate", "delete", "install"} : New(v, kind)) /\ job[v].state # "running"
      BY <1>0, <2>2, ActivateJob, EnqueueJob, RetryJob
         DEF Activate, Delete, Rebuild, Install, Retry, Live
    <3> QED BY <3>1 DEF New, Others
  <2>3. CASE CancelRunning(v) \/ CancelWaiting(v)
    <3>1. Takes(v, "running") \/ (Takes(v, "canceled") /\ job[v].state # "running")
      BY <1>0, <2>3, CancelJob DEF CancelWaiting
    <3> QED BY <3>1 DEF Takes, Others
  <2> QED BY <2>1, <2>2, <2>3 DEF Request, AskDelete, AskRebuild, Refuse, rowVars
<1>2. row' \in [Versions -> Rows]
  <2>1. \/ row' = row
        \/ \E s \in {"pending", "ready", "failed", "canceled"} : row' = [row EXCEPT ![v] = s]
    <3>1. CASE Rebuild(v) \/ Install(v) \/ Retry(v)
      BY <3>1 DEF Rebuild, Install, Retry, SetRow
    <3>2. CASE CancelRunning(v) \/ CancelWaiting(v)
      BY <3>2 DEF CancelRunning, CancelWaiting, SetRow, Resolved
    <3>3. CASE Activate(v) \/ AskDelete(v) \/ AskRebuild(v) \/ Refuse(v) \/ Delete(v)
      BY <3>3 DEF Activate, AskDelete, AskRebuild, Refuse, Delete, rowVars
    <3> QED BY <3>1, <3>2, <3>3 DEF Request
  <2>2. row \in [Versions -> Rows]
    BY <1>0 DEF TypeOK, Rows
  <2> QED BY <2>1, <2>2 DEF Rows
<1>3. lease' \in Leases
  <2>1. lease' = lease \/ lease' = NoLease
    BY DEF Request, Activate, AskDelete, AskRebuild, Refuse, Delete, Rebuild, Install, Retry,
         CancelRunning, CancelWaiting, rowVars, Released
  <2> QED BY <1>0, <2>1, Types
<1>4. asked' \subseteq Versions \X {"delete", "rebuild"}
  <2>1. \/ asked' = asked
        \/ \E what \in {"delete", "rebuild"} : \/ asked' = asked \cup {<<v, what>>}
                                              \/ asked' = asked \ {<<v, what>>}
    BY DEF Request, Activate, AskDelete, AskRebuild, Refuse, Delete, Rebuild, Install, Retry,
         CancelRunning, CancelWaiting
  <2> QED BY <1>0, <2>1, Types
<1>5. UNCHANGED <<flags, tree, link, hollow, work, inst, phase, boot, faults>> /\ clicks' \in Nat
  <2>1. clicks' = clicks \/ clicks' = clicks + 1
    BY DEF Request, Activate, AskDelete, AskRebuild, Refuse, Delete, Rebuild, Install, Retry,
         CancelRunning, CancelWaiting, Click
  <2>2. UNCHANGED <<flags, tree, link, hollow, work, inst, phase, boot, faults>>
    BY DEF Request, Activate, AskDelete, AskRebuild, Refuse, Delete, Rebuild, Install, Retry,
         CancelRunning, CancelWaiting, diskVars, envVars, rowVars
  <2> QED BY <1>0, <2>1, <2>2, Types
<1>6. TypeOK'
  BY <1>0, <1>1, <1>2, <1>3, <1>4, <1>5 DEF TypeOK, At, Rows, Leases
<1> QED BY <1>5, <1>6 DEF Typed, Seated

\* What most steps of a worker change: its own place, and nothing of the jobs.
LEMMA PlaceTyped ==
    ASSUME Typed, NEW v \in Versions, ~At(v, "idle"), job' = job, Elsewhere(v),
           work'[v].pc \in {"settling", "awaiting"} => work'[v].at \in Instances,
           UNCHANGED <<row, lease, asked, phase, boot, clicks>>,
           flags' \in Flags, link' \in Flags, tree' \in [Versions -> {"gone", "partial", "whole"}],
           hollow' \subseteq Versions, faults' \in Nat,
           inst' \in [Instances -> [want : {"running", "stopped"}, proc : {"down", "launching", "serving"},
                                    dir : Versions \cup {NoVersion}]],
           \A i \in Instances : inst'[i].dir # NoVersion <=> inst'[i].proc = "serving"
    PROVE  Typed'
<1>1. TypeOK'
  BY DEF Typed, TypeOK, At, Elsewhere
<1> QED BY <1>1 DEF Typed, Seated, Elsewhere

LEMMA StartTyped ==
    ASSUME Typed, NEW v \in Versions, StartInstall(v) \/ StartDelete(v) \/ StartActivate(v)
    PROVE  Typed'
<1>0. TypeOK
  BY DEF Typed
<1>1. Takes(v, "running")
  BY <1>0, StartJob
<1>2. Elsewhere(v) /\ work'[v].pc \in {"building", "reading", "flipping"}
  BY <1>0, WorkerStarts DEF StartInstall, StartDelete, StartActivate, Pcs
<1>3. row' \in [Versions -> Rows] /\ hollow' \subseteq Versions
  BY <1>0 DEF StartInstall, StartDelete, StartActivate, SetRow, TypeOK, Rows
<1>4. lease' \in Leases
  <2>1. lease' = lease \/ lease' = [job |-> v, owner |-> boot, expired |-> FALSE]
    BY DEF StartInstall, StartDelete, StartActivate
  <2>2. [job |-> v, owner |-> boot, expired |-> FALSE] \in Leases
    BY <1>0, Types DEF Leases
  <2> QED BY <1>0, <2>1, <2>2, Types
<1>5. UNCHANGED <<flags, tree, link, asked, inst, phase, boot, faults, clicks>>
  BY DEF StartInstall, StartDelete, StartActivate, Start, envVars
<1>6. TypeOK'
  BY <1>0, <1>1, <1>2, <1>3, <1>4, <1>5 DEF TypeOK, At, Rows, Leases, Takes, Others, Elsewhere
<1> QED BY <1>2, <1>6 DEF Typed, Seated, Elsewhere

\* A worker that is done with its job.
Closes(v) == CloseInstall(v) \/ CloseFallback(v) \/ CloseDelete(v) \/ CloseActivate(v) \/ CloseFails(v)

LEMMA ClosesRests ==
    ASSUME TypeOK, NEW v \in Versions, Closes(v)
    PROVE  /\ At(v, "closing") /\ job[v].state = "running" /\ Elsewhere(v) /\ work'[v].pc = "idle"
           /\ UNCHANGED <<flags, diskVars, asked, inst, phase, boot, clicks>> /\ faults' \in Nat
<1>1. At(v, "closing") /\ work' = [work EXCEPT ![v] = Idle]
  BY DEF Closes, CloseInstall, CloseFallback, CloseDelete, CloseActivate, CloseFails, Rest, Closing
<1>2. UNCHANGED <<flags, diskVars, asked, inst, phase, boot, clicks>> /\ faults' \in Nat
  BY DEF Closes, CloseInstall, CloseFallback, CloseDelete, CloseActivate, CloseFails, Rest, Fault,
         TypeOK, envVars
<1>3. job[v].state = "running"
  BY <1>1 DEF TypeOK, At
<1> QED BY <1>1, <1>2, <1>3, WorkerRests

LEMMA CloseTyped ==
    ASSUME Typed, NEW v \in Versions, Closes(v), Placed(v)
    PROVE  Typed'
<1>0. TypeOK
  BY DEF Typed
<1>1. /\ job' \in [Versions -> JobRows]
      /\ \A u \in Versions \ {v} : job[u].state = "running" => job'[u].state = "running"
  <2>1. CASE CloseInstall(v) /\ work[v].out # "fallback"
    <3>1. work[v].out \in JobStates
      BY <2>1 DEF CloseInstall, Closing, Placed, JobStates
    <3> QED BY <1>0, <2>1, <3>1, CloseJob DEF Takes, Others
  <2>2. CASE CloseDelete(v)
    BY <1>0, <2>2, CloseJob DEF Takes, Others
  <2>3. CASE CloseFails(v)
    BY <1>0, <2>3, CloseJob DEF Takes, Others
  <2>4. CASE CloseFallback(v)
    <3>1. v \in DOMAIN Replacement
      BY <2>4 DEF CloseFallback, Closing, Placed
    <3> QED BY <1>0, <2>4, <3>1, CloseJob DEF Ends, Live
  <2>5. CASE CloseActivate(v)
    <3>1. work[v].out \in {"succeeded", "failed", "canceled"}
      BY <2>5 DEF CloseActivate, Closing, Placed
    <3>2. Settles(v, work[v].out)
      BY <1>0, <2>5, <3>1, ActivationEnds
    <3> QED BY <3>2 DEF Settles, Takes, Others, Ends, Live
  <2> QED BY <2>1, <2>2, <2>3, <2>4, <2>5 DEF Closes, CloseInstall
<1>2. row' \in [Versions -> Rows]
  <2>1. CASE CloseInstall(v)
    <3>1. row' = [row EXCEPT ![v] = IF work[v].out = "succeeded" THEN "ready" ELSE work[v].out]
      BY <2>1 DEF CloseInstall, SetRow
    <3>2. (IF work[v].out = "succeeded" THEN "ready" ELSE work[v].out) \in Rows
      BY <2>1 DEF CloseInstall, Closing, Placed, Rows
    <3> QED BY <1>0, <3>1, <3>2, Types
  <2>2. CASE CloseFallback(v) \/ CloseDelete(v) \/ CloseActivate(v) \/ CloseFails(v)
    BY <1>0, <2>2, Types DEF CloseFallback, CloseDelete, CloseActivate, CloseFails, SetRow, Resolved, Rows
  <2> QED BY <2>1, <2>2 DEF Closes
<1>3. lease' \in Leases
  <2>1. lease' = lease \/ lease' = NoLease
    BY DEF Closes, CloseInstall, CloseFallback, CloseDelete, CloseActivate, CloseFails, Released
  <2> QED BY <1>0, <2>1, Types
<1>4. /\ Elsewhere(v) /\ work'[v].pc = "idle" /\ faults' \in Nat
      /\ UNCHANGED <<flags, tree, link, hollow, asked, inst, phase, boot, clicks>>
  BY <1>0, ClosesRests DEF diskVars
<1>5. TypeOK'
  BY <1>0, <1>1, <1>2, <1>3, <1>4 DEF TypeOK, At, Rows, Leases, Elsewhere
<1> QED BY <1>4, <1>5 DEF Typed, Seated, Elsewhere

\* The steps of the workers at work.
Builds(v) == BuildFails(v) \/ WillNotRun(v) \/ PublishFresh(v) \/ Displace(v) \/ Swap(v) \/ SwapFails(v)
Removes(v) ==
    \/ ReadFlags(v) \/ ReadCut(v) \/ CheckUse(v) \/ CheckFails(v)
    \/ RemoveSome(v) \/ Remove(v) \/ RemovalFails(v)
Turns(v) ==
    \/ FlipFails(v) \/ Link(v) \/ LinkFails(v) \/ ChooseTargets(v) \/ ChooseFails(v)
    \/ RollStop(v) \/ RollStart(v) \/ RollHealthy(v) \/ RollFails(v)
    \/ Revert(v) \/ RevertFails(v) \/ Relink(v)

LEMMA BuildsTyped ==
    ASSUME Typed, NEW v \in Versions, Builds(v)
    PROVE  Typed'
<1>0. TypeOK
  BY DEF Typed
<1>1. \E pc \in {"closing", "swapping"}, out \in Outs \cup {work[v].out} : Moved(v, pc, out)
  BY <1>0, InstallMoves DEF Builds, Outs
<1>2. ~At(v, "idle")
  BY <1>0, InstallMoves DEF Builds, At
<1>3. tree' \in [Versions -> {"gone", "partial", "whole"}] /\ hollow' \subseteq Versions /\ faults' \in Nat
  <2>1. work[v] \in Workers
    BY <1>0 DEF TypeOK
  <2>2. work[v].old \in {"gone", "partial", "whole"}
    BY <2>1 DEF Workers
  <2> QED BY <1>0, <2>2, Types DEF Builds, BuildFails, WillNotRun, PublishFresh, Displace, Swap, SwapFails,
                                   diskVars, Fault
<1>4. /\ job' = job /\ UNCHANGED <<row, lease, asked, phase, boot, clicks, inst, flags, link>>
  BY DEF Builds, BuildFails, WillNotRun, PublishFresh, Displace, Swap, SwapFails, diskVars, rowVars, envVars
<1>5. Elsewhere(v) /\ work'[v].pc \in {"closing", "swapping"}
  BY <1>1 DEF Moved
<1> QED BY <1>0, <1>2, <1>3, <1>4, <1>5, PlaceTyped DEF TypeOK

LEMMA RemovesTyped ==
    ASSUME Typed, NEW v \in Versions, Removes(v)
    PROVE  Typed'
<1>0. TypeOK
  BY DEF Typed
<1>1. ~At(v, "idle") /\ Elsewhere(v) /\ work'[v].pc \in {"closing", "checking", "removing"}
  <2>1. CASE RemoveSome(v)
    BY <1>0, <2>1 DEF RemoveSome, At, Elsewhere, TypeOK
  <2>2. CASE ~RemoveSome(v)
    BY <1>0, <2>2, DeleteMoves DEF Removes, At, Moved
  <2> QED BY <2>1, <2>2
<1>2. tree' \in [Versions -> {"gone", "partial", "whole"}] /\ hollow' \subseteq Versions /\ faults' \in Nat
  BY <1>0, Types DEF Removes, ReadFlags, ReadCut, CheckUse, CheckFails, RemoveSome, Remove, RemovalFails,
         diskVars, Fault
<1>3. /\ job' = job /\ UNCHANGED <<row, lease, asked, phase, boot, clicks, inst, flags, link>>
  BY DEF Removes, ReadFlags, ReadCut, CheckUse, CheckFails, RemoveSome, Remove, RemovalFails,
         diskVars, rowVars, envVars
<1> QED BY <1>0, <1>1, <1>2, <1>3, PlaceTyped DEF TypeOK

Units == [Instances -> [want : {"running", "stopped"}, proc : {"down", "launching", "serving"},
                        dir : Versions \cup {NoVersion}]]
Housed == \A i \in Instances : inst[i].dir # NoVersion <=> inst[i].proc = "serving"

\* What is wanted of a unit changes neither its process nor its directory.
LEMMA WantTyped ==
    ASSUME TypeOK, NEW i \in Instances, NEW state \in {"running", "stopped"},
           inst' = [inst EXCEPT ![i].want = state]
    PROVE  inst' \in Units /\ Housed' /\ \A j \in Instances : inst'[j].proc = inst[j].proc /\ inst'[j].dir = inst[j].dir
<1>0. inst \in Units /\ Housed
  BY DEF TypeOK, Units, Housed
<1> DEFINE one == [inst[i] EXCEPT !.want = state]
<1>1. /\ one \in [want : {"running", "stopped"}, proc : {"down", "launching", "serving"},
                  dir : Versions \cup {NoVersion}]
      /\ one.proc = inst[i].proc /\ one.dir = inst[i].dir
  BY <1>0 DEF Units
<1>2. inst' = [inst EXCEPT ![i] = one]
  BY <1>0 DEF Units
<1> HIDE DEF one
<1> QED BY <1>0, <1>1, <1>2 DEF Units, Housed

LEMMA TurnsInst ==
    ASSUME Typed, NEW v \in Versions, Turns(v)
    PROVE  /\ inst' \in Units /\ Housed'
           /\ \A j \in Instances : inst'[j].proc = inst[j].proc /\ inst'[j].dir = inst[j].dir
<1>0. TypeOK
  BY DEF Typed
<1>1. CASE inst' = inst
  BY <1>0, <1>1 DEF TypeOK, Units, Housed
<1>2. CASE RollStop(v)
  <2>1. PICK i \in work[v].todo : inst' = [inst EXCEPT ![i].want = "stopped"]
    BY <1>2 DEF RollStop
  <2>2. work[v] \in Workers
    BY <1>0 DEF TypeOK
  <2>3. i \in Instances
    BY <2>2 DEF Workers
  <2> QED BY <1>0, <2>1, <2>3, WantTyped
<1>3. CASE RollStart(v)
  <2>1. inst' = [inst EXCEPT ![work[v].at].want = "running"] /\ work[v].at \in Instances
    BY <1>3 DEF RollStart, Want, Typed, Seated, At
  <2> QED BY <1>0, <2>1, WantTyped
<1> QED BY <1>1, <1>2, <1>3 DEF Turns, FlipFails, Link, LinkFails, ChooseTargets, ChooseFails, RollHealthy,
                                RollFails, Revert, RevertFails, Relink

LEMMA TurnsTyped ==
    ASSUME Typed, NEW v \in Versions, Turns(v)
    PROVE  Typed'
<1>0. TypeOK
  BY DEF Typed
<1>1. /\ ~At(v, "idle") /\ Elsewhere(v)
      /\ work'[v].pc \in {"settling", "awaiting"} => work'[v].at \in Instances
  <2>1. CASE RollStop(v) \/ RollStart(v)
    BY <1>0, <2>1, ActivateMoves DEF At, Moved, Typed, Seated
  <2>2. CASE RollHealthy(v) \/ RollFails(v) \/ Relink(v)
    BY <1>0, <2>2, HealthyMoves, FailureMoves, RelinkMoves DEF At, Moved
  <2>3. CASE FlipFails(v) \/ Link(v) \/ LinkFails(v)
    BY <1>0, <2>3, ActivateMoves DEF At, Moved
  <2>4. CASE ChooseTargets(v) \/ ChooseFails(v) \/ Revert(v) \/ RevertFails(v)
    BY <1>0, <2>4, ActivateMoves DEF At, Moved
  <2> QED BY <2>1, <2>2, <2>3, <2>4 DEF Turns
<1>2. link' \in Flags /\ flags' \in Flags
  <2>1. flags \in Flags /\ link \in Flags /\ work[v] \in Workers
    BY <1>0 DEF TypeOK
  <2>2. link' \in {link, flags, [link EXCEPT !["active"] = flags["active"]]}
    BY DEF Turns, FlipFails, Link, LinkFails, ChooseTargets, ChooseFails, RollStop, RollStart, RollHealthy,
           RollFails, Revert, RevertFails, Relink, diskVars, Repair, RepairFails
  <2>3. flags' \in {flags, work[v].before}
    BY DEF Turns, FlipFails, Link, LinkFails, ChooseTargets, ChooseFails, RollStop, RollStart, RollHealthy,
           RollFails, Revert, RevertFails, Relink, rowVars
  <2>4. [link EXCEPT !["active"] = flags["active"]] \in Flags /\ work[v].before \in Flags
    BY <2>1 DEF Flags, Slots, Workers
  <2> QED BY <2>1, <2>2, <2>3, <2>4
<1>3. faults' \in Nat
  <2>1. faults' = faults \/ faults' = faults + 1
    BY DEF Turns, FlipFails, Link, LinkFails, ChooseTargets, ChooseFails, RollStop, RollStart, RollHealthy,
           RollFails, Revert, RevertFails, Relink, Fault, RepairFails
  <2> QED BY <1>0, <2>1, Types
<1>4. /\ job' = job /\ UNCHANGED <<row, lease, asked, phase, boot, clicks, tree, hollow>>
  BY DEF Turns, FlipFails, Link, LinkFails, ChooseTargets, ChooseFails, RollStop, RollStart, RollHealthy,
         RollFails, Revert, RevertFails, Relink, diskVars, rowVars, envVars
<1>5. inst' \in Units /\ Housed'
  BY TurnsInst
<1> QED BY <1>0, <1>1, <1>2, <1>3, <1>4, <1>5, Types, PlaceTyped DEF Units, Housed

LEMMA FlipTyped ==
    ASSUME Typed, NEW v \in Versions, Flip(v)
    PROVE  Typed'
<1>0. TypeOK
  BY DEF Typed
<1>1. /\ job' \in [Versions -> JobRows] /\ \A u \in Versions : job'[u].state = job[u].state
  BY <1>0, FlipJob DEF Others
<1>2. Elsewhere(v) /\ work'[v].pc = "linking" /\ At(v, "flipping")
  BY <1>0, FlipWork DEF Flip
<1>3. flags' \in Flags
  <2>1. Outgoing(v) \in Versions \cup {NoVersion}
    BY <1>0 DEF TypeOK, Outgoing, Flags, Slots
  <2>2. flags' = [active |-> v, previous |-> IF job[v].keep THEN Outgoing(v) ELSE NoVersion]
    BY DEF Flip
  <2>3. flags' = [s \in Slots |-> IF s = "active" THEN v ELSE IF job[v].keep THEN Outgoing(v) ELSE NoVersion]
    BY <2>2 DEF Slots
  <2> QED BY <2>1, <2>3 DEF Flags
<1>4. UNCHANGED <<row, lease, tree, link, hollow, asked, inst, phase, boot, faults, clicks>>
  BY DEF Flip, diskVars, envVars
<1>5. \A u \in Versions : ~At(u, "idle")' => ~At(u, "idle")
  BY <1>2 DEF Elsewhere, At
<1>6. TypeOK'
  BY <1>0, <1>1, <1>2, <1>3, <1>4, <1>5 DEF TypeOK, Elsewhere
<1> QED BY <1>2, <1>6 DEF Typed, Seated, Elsewhere

LEMMA RestTyped ==
    ASSUME Typed, NEW v \in Versions, Heartbeat(v) \/ LeaveRunning(v)
    PROVE  Typed'
<1>0. TypeOK
  BY DEF Typed
<1>1. ~At(v, "idle") /\ Elsewhere(v) /\ (work'[v].pc \in {"settling", "awaiting"} => work'[v].at \in Instances)
  <2>1. CASE Heartbeat(v)
    BY <1>0, <2>1, HeartbeatWork DEF Heartbeat, Typed, Seated, At
  <2>2. CASE LeaveRunning(v)
    BY <1>0, <2>2, WorkerRests DEF LeaveRunning, At
  <2> QED BY <2>1, <2>2
<1>2. UNCHANGED <<job, row, lease, asked, phase, boot, clicks, flags, link, tree, hollow, faults, inst>>
  BY DEF Heartbeat, LeaveRunning, rowVars, diskVars, envVars
<1> QED BY <1>0, <1>1, <1>2, Types, PlaceTyped DEF TypeOK

\* A unit's process, as the unit and the launcher move it.
UnitStep(i) == Launch(i) \/ Execute(i) \/ Down(i)

LEMMA UnitMoves ==
    ASSUME TypeOK, NEW i \in Instances, UnitStep(i)
    PROVE  /\ inst' \in Units /\ Housed' /\ \A j \in Instances \ {i} : inst'[j] = inst[j]
           /\ \/ inst'[i].proc # "serving"
              \/ /\ link["active"] # NoVersion /\ tree[link["active"]] = "whole"
                 /\ inst'[i].dir = link["active"]
<1>0. inst \in Units /\ Housed /\ link["active"] \in Versions \cup {NoVersion}
  BY DEF TypeOK, Units, Housed, Flags, Slots
<1>1. ASSUME NEW one, inst' = [inst EXCEPT ![i] = one],
             one \in [want : {"running", "stopped"}, proc : {"down", "launching", "serving"},
                      dir : Versions \cup {NoVersion}],
             one.dir # NoVersion <=> one.proc = "serving"
      PROVE  /\ inst' \in Units /\ Housed' /\ \A j \in Instances \ {i} : inst'[j] = inst[j]
             /\ inst'[i] = one
  BY <1>0, <1>1 DEF Units, Housed
<1>2. inst[i] \in [want : {"running", "stopped"}, proc : {"down", "launching", "serving"},
                   dir : Versions \cup {NoVersion}]
  BY <1>0 DEF Units
<1>3. CASE Launch(i)
  <2> DEFINE one == [inst[i] EXCEPT !.proc = "launching"]
  <2>1. inst' = [inst EXCEPT ![i] = one] /\ inst[i].proc = "down"
    BY <1>0, <1>3 DEF Launch, Units
  <2>2. /\ one \in [want : {"running", "stopped"}, proc : {"down", "launching", "serving"},
                    dir : Versions \cup {NoVersion}]
        /\ one.proc = "launching" /\ one.dir = inst[i].dir
    BY <1>2
  <2>3. one.dir = NoVersion
    BY <1>0, <2>1, <2>2 DEF Housed
  <2> HIDE DEF one
  <2> QED BY <1>1, <2>1, <2>2, <2>3
<1>4. CASE Down(i)
  <2> DEFINE one == [inst[i] EXCEPT !.proc = "down", !.dir = NoVersion]
  <2>1. inst' = [inst EXCEPT ![i] = one]
    BY <1>0, <1>4 DEF Down, Units
  <2>2. /\ one \in [want : {"running", "stopped"}, proc : {"down", "launching", "serving"},
                    dir : Versions \cup {NoVersion}]
        /\ one.proc = "down" /\ one.dir = NoVersion
    BY <1>2
  <2> HIDE DEF one
  <2> QED BY <1>1, <2>1, <2>2
<1>5. CASE Execute(i) /\ link["active"] # NoVersion /\ tree[link["active"]] = "whole"
  <2> DEFINE one == [inst[i] EXCEPT !.proc = "serving", !.dir = link["active"]]
  <2>1. inst' = [inst EXCEPT ![i] = one]
    BY <1>0, <1>5 DEF Execute, Units
  <2>2. /\ one \in [want : {"running", "stopped"}, proc : {"down", "launching", "serving"},
                    dir : Versions \cup {NoVersion}]
        /\ one.proc = "serving" /\ one.dir = link["active"]
    BY <1>0, <1>2
  <2> HIDE DEF one
  <2> QED BY <1>1, <1>5, <2>1, <2>2
<1>6. CASE Execute(i) /\ ~(link["active"] # NoVersion /\ tree[link["active"]] = "whole")
  <2> DEFINE one == [inst[i] EXCEPT !.proc = "down"]
  <2>1. inst' = [inst EXCEPT ![i] = one] /\ inst[i].proc = "launching"
    BY <1>0, <1>6 DEF Execute, Units
  <2>2. /\ one \in [want : {"running", "stopped"}, proc : {"down", "launching", "serving"},
                    dir : Versions \cup {NoVersion}]
        /\ one.proc = "down" /\ one.dir = inst[i].dir
    BY <1>2
  <2>3. one.dir = NoVersion
    BY <1>0, <2>1, <2>2 DEF Housed
  <2> HIDE DEF one
  <2> QED BY <1>1, <2>1, <2>2, <2>3
<1> QED BY <1>3, <1>4, <1>5, <1>6 DEF UnitStep

LEMMA UnitFrame ==
    ASSUME NEW i \in Instances, UnitStep(i)
    PROVE  UNCHANGED <<row, flags, job, lease, tree, link, hollow, work, asked, phase, boot, faults, clicks>>
BY DEF UnitStep, Launch, Execute, Down, rowVars, diskVars, envVars

LEMMA UnitTyped ==
    ASSUME Typed, NEW i \in Instances, UnitStep(i)
    PROVE  Typed'
<1>1. inst' \in Units /\ Housed'
  BY UnitMoves DEF Typed
<1>2. UNCHANGED <<row, flags, job, lease, tree, link, hollow, work, asked, phase, boot, faults, clicks>>
  BY UnitFrame
<1>3. TypeOK'
  BY <1>1, <1>2 DEF Typed, TypeOK, Units, Housed, At
<1> QED BY <1>2, <1>3 DEF Typed, Seated

\* The daemon's own steps.
DaemonStep ==
    \/ LeaseExpires \/ Shutdown \/ Exit \/ Boot
    \/ ReleaseForeignLease \/ RepairAtBoot \/ ReconcileFails \/ Open
    \/ \E v \in Versions : SettleActivation(v)

LEMMA Rested ==
    ASSUME Exit
    PROVE  work' \in [Versions -> Workers] /\ \A v \in Versions : work'[v].pc = "idle"
<1>1. NoFlags \in Flags
  BY DEF NoFlags, Flags
<1>2. Idle \in Workers /\ Idle.pc = "idle"
  BY <1>1 DEF Idle, Workers
<1> QED BY <1>2 DEF Exit

LEMMA DaemonTyped ==
    ASSUME Typed, Resting, DaemonStep
    PROVE  Typed'
<1>0. TypeOK
  BY DEF Typed
<1>1. CASE LeaseExpires
  <2> DEFINE one == [lease EXCEPT !.expired = TRUE]
  <2>1. one \in Leases
    BY <1>0, Types DEF Leases
  <2> HIDE DEF one
  <2>2. lease' = one /\ UNCHANGED <<row, flags, job, tree, link, hollow, work, asked, inst, phase, boot, faults, clicks>>
    BY <1>1 DEF LeaseExpires, one, diskVars, envVars
  <2>3. TypeOK'
    BY <1>0, <2>1, <2>2 DEF TypeOK, Leases, At
  <2> QED BY <2>2, <2>3 DEF Typed, Seated
<1>2. CASE Shutdown
  <2>1. TypeOK'
    BY <1>0, <1>2 DEF TypeOK, At, Shutdown, rowVars, diskVars
  <2> QED BY <1>2, <2>1 DEF Typed, Seated, Shutdown
<1>3. CASE Exit
  <2>1. work' \in [Versions -> Workers] /\ \A v \in Versions : work'[v].pc = "idle"
    BY <1>3, Rested
  <2>2. TypeOK'
    BY <1>0, <1>3, <2>1 DEF TypeOK, At, Exit, rowVars, diskVars
  <2> QED BY <2>1, <2>2 DEF Typed, Seated
<1>4. CASE Boot
  <2>1. job' \in [Versions -> JobRows] /\ \A v \in Versions : work[v].pc = "idle"
    BY <1>0, <1>4, BootJobs DEF Resting, Boot, At
  <2>2. row' \in [Versions -> Rows]
    BY <1>0, <1>4, Types DEF Boot, Resolved, Rows
  <2>3. boot' \in Nat
    BY <1>0, <1>4, Types DEF Boot
  <2>4. TypeOK'
    BY <1>0, <1>4, <2>1, <2>2, <2>3 DEF TypeOK, Rows, At, Boot, diskVars
  <2> QED BY <1>4, <2>1, <2>4 DEF Typed, Seated, Boot
<1>5. CASE ReleaseForeignLease
  <2>1. lease' \in Leases
    BY <1>0, <1>5, Types DEF ReleaseForeignLease
  <2>2. TypeOK'
    BY <1>0, <1>5, <2>1 DEF TypeOK, Leases, At, ReleaseForeignLease, diskVars
  <2> QED BY <1>5, <2>2 DEF Typed, Seated, ReleaseForeignLease
<1>6. CASE RepairAtBoot \/ ReconcileFails \/ Open
  <2>1. link' \in Flags
    <3>1. link' \in {link, flags, [link EXCEPT !["active"] = flags["active"]]}
      BY <1>6 DEF RepairAtBoot, ReconcileFails, Open, diskVars, Repair, RepairFails
    <3>2. flags \in Flags /\ link \in Flags
      BY <1>0 DEF TypeOK
    <3>3. [link EXCEPT !["active"] = flags["active"]] \in Flags
      BY <3>2 DEF Flags, Slots
    <3> QED BY <3>1, <3>2, <3>3
  <2>2. faults' \in Nat
    <3>1. faults' = faults \/ faults' = faults + 1
      BY <1>6 DEF RepairAtBoot, ReconcileFails, Open, RepairFails, Fault
    <3> QED BY <1>0, <3>1, Types
  <2>3. /\ UNCHANGED <<row, flags, job, lease, tree, hollow, work, asked, inst, boot, clicks>>
        /\ phase' \in {"settling", "up"}
    BY <1>6 DEF RepairAtBoot, ReconcileFails, Open, rowVars, diskVars
  <2>4. TypeOK'
    BY <1>0, <2>1, <2>2, <2>3 DEF TypeOK, At
  <2> QED BY <2>3, <2>4 DEF Typed, Seated
<1>7. ASSUME NEW v \in Versions, SettleActivation(v) PROVE Typed'
  <2>1. Settles(v, "succeeded") \/ Settles(v, "failed")
    BY <1>0, <1>7, ActivationEnds
  <2>2. job' \in [Versions -> JobRows]
    BY <2>1 DEF Settles, Takes, Ends
  <2>3. UNCHANGED <<row, flags, lease, tree, link, hollow, work, asked, inst, phase, boot, faults, clicks>>
    BY <1>7 DEF SettleActivation, diskVars, envVars
  <2>4. \A u \in Versions : At(u, "idle")
    BY <1>7 DEF SettleActivation, Resting
  <2>5. TypeOK'
    BY <1>0, <2>2, <2>3, <2>4 DEF TypeOK, At
  <2> QED BY <2>3, <2>5 DEF Typed, Seated
<1> QED BY <1>1, <1>2, <1>3, <1>4, <1>5, <1>6, <1>7 DEF DaemonStep

LEMMA Steps ==
    ASSUME Next
    PROVE  \/ \E v \in Versions :
                \/ Request(v) \/ StartInstall(v) \/ StartDelete(v) \/ StartActivate(v) \/ Closes(v)
                \/ Builds(v) \/ Removes(v) \/ Turns(v) \/ Flip(v) \/ Heartbeat(v) \/ LeaveRunning(v)
           \/ \E i \in Instances : UnitStep(i)
           \/ DaemonStep
BY DEF Next, WorkerStep, Closes, Builds, Removes, Turns, UnitStep, DaemonStep

-----------------------------------------------------------------------------
(* Workers stand where the kind of their job has a place for them.         *)

AllPlaced == \A v \in Versions : Placed(v)

\* A worker that stays where it is, for a job that stays what it is.
LEMMA PlacedStays ==
    ASSUME NEW v \in Versions, Placed(v), work'[v].pc = work[v].pc, work'[v].out = work[v].out,
           job'[v].kind = job[v].kind
    PROVE  Placed(v)'
BY DEF Placed, Closing, At

LEMMA PlacedIdle ==
    ASSUME NEW v \in Versions, work'[v].pc = "idle"
    PROVE  Placed(v)'
BY DEF Placed, Closing, At, Rolling

LEMMA PlacedMoved ==
    ASSUME AllPlaced, NEW v \in Versions, Elsewhere(v), job' = job, Placed(v)'
    PROVE  AllPlaced'
BY PlacedStays DEF AllPlaced, Elsewhere

\* A request leaves the kind of a job that has a worker alone.
LEMMA RequestKinds ==
    ASSUME TypeOK, NEW v \in Versions, Request(v)
    PROVE  /\ work' = work
           /\ \A u \in Versions : ~At(u, "idle") => job'[u].kind = job[u].kind
<1>1. work' = work
  BY DEF Request, Activate, AskDelete, AskRebuild, Refuse, Delete, Rebuild, Install, Retry,
         CancelRunning, CancelWaiting
<1>2. CASE Activate(v) \/ Delete(v) \/ Rebuild(v) \/ Install(v) \/ Retry(v)
  <2>1. (\E kind \in {"activate", "delete", "install"} : New(v, kind)) /\ job[v].state # "running"
    BY <1>2, ActivateJob, EnqueueJob, RetryJob
       DEF Activate, Delete, Rebuild, Install, Retry, Live
  <2>2. At(v, "idle")
    BY <2>1 DEF TypeOK
  <2> QED BY <1>1, <2>1, <2>2 DEF New, Others
<1>3. CASE CancelRunning(v) \/ CancelWaiting(v)
  BY <1>1, <1>3, CancelJob DEF Takes, Others, Same
<1>4. CASE job' = job
  BY <1>1, <1>4
<1> QED BY <1>2, <1>3, <1>4 DEF Request, AskDelete, AskRebuild, Refuse, rowVars

LEMMA BuildsPlaced ==
    ASSUME Typed, AllPlaced, NEW v \in Versions, Builds(v)
    PROVE  AllPlaced'
<1>0. TypeOK /\ Placed(v)
  BY DEF Typed, AllPlaced
<1>1. job' = job /\ (WillNotRun(v) => v \in DOMAIN Replacement)
  BY DEF Builds, BuildFails, WillNotRun, PublishFresh, Displace, Swap, SwapFails, rowVars
<1>2. work[v].pc \in {"building", "swapping"}
  BY <1>0, InstallMoves DEF Builds, At
<1>3. job[v].kind = "install"
  BY <1>0, <1>2 DEF Placed
<1>4. /\ Elsewhere(v) /\ work'[v].pc \in {"closing", "swapping"}
      /\ At(v, "closing")' => \/ work'[v].out \in {"succeeded", "failed", "canceled"}
                              \/ work'[v].out = "fallback" /\ v \in DOMAIN Replacement
  BY <1>0, <1>1, InstallMoves DEF Builds, Moved, At
<1>5. Placed(v)'
  BY <1>1, <1>3, <1>4 DEF Placed, Closing, At, Rolling
<1> QED BY <1>1, <1>4, <1>5, PlacedMoved

LEMMA RemovesPlaced ==
    ASSUME Typed, AllPlaced, NEW v \in Versions, Removes(v)
    PROVE  AllPlaced'
<1>0. TypeOK /\ Placed(v)
  BY DEF Typed, AllPlaced
<1>1. job' = job
  BY DEF Removes, ReadFlags, ReadCut, CheckUse, CheckFails, RemoveSome, Remove, RemovalFails, rowVars
<1>2. CASE RemoveSome(v)
  BY <1>1, <1>2, PlacedStays DEF RemoveSome, AllPlaced
<1>3. CASE ~RemoveSome(v)
  <2>2. work[v].pc \in {"reading", "checking", "removing"}
    BY <1>0, <1>3, DeleteMoves DEF Removes, At
  <2>3. job[v].kind = "delete"
    BY <1>0, <2>2 DEF Placed
  <2>4. /\ Elsewhere(v) /\ work'[v].pc \in {"closing", "checking", "removing"}
        /\ At(v, "closing")' => work'[v].out \in {"succeeded", "canceled", "refused", "incomplete"}
    BY <1>0, <1>3, DeleteMoves DEF Removes, Moved, At
  <2>5. Placed(v)'
    BY <1>1, <2>3, <2>4 DEF Placed, Closing, At, Rolling
  <2> QED BY <1>1, <2>4, <2>5, PlacedMoved
<1> QED BY <1>2, <1>3

\* What the worker of an activation comes to.
LEMMA TurnsMoves ==
    ASSUME Typed, NEW v \in Versions, Turns(v)
    PROVE  /\ work[v].pc \in Rolling \cup {"flipping"} /\ Elsewhere(v) /\ job' = job
           /\ work'[v].pc \in (Rolling \ {"linking"}) \cup {"closing"}
           /\ At(v, "closing")' => work'[v].out \in {"succeeded", "failed", "canceled"}
<1>0. TypeOK
  BY DEF Typed
<1>1. job' = job
  BY DEF Turns, FlipFails, Link, LinkFails, ChooseTargets, ChooseFails, RollStop, RollStart, RollHealthy,
         RollFails, Revert, RevertFails, Relink, rowVars
<1>2. CASE RollHealthy(v) \/ RollFails(v) \/ Relink(v)
  BY <1>0, <1>1, <1>2, HealthyMoves, FailureMoves, RelinkMoves DEF At, Moved, Rolling
<1>3. CASE FlipFails(v) \/ Link(v) \/ LinkFails(v)
  BY <1>0, <1>1, <1>3, ActivateMoves DEF At, Moved, Rolling
<1>4. CASE ChooseTargets(v) \/ ChooseFails(v) \/ Revert(v) \/ RevertFails(v) \/ RollStop(v) \/ RollStart(v)
  BY <1>0, <1>1, <1>4, ActivateMoves DEF At, Moved, Rolling
<1> QED BY <1>2, <1>3, <1>4 DEF Turns

LEMMA TurnsPlaced ==
    ASSUME Typed, AllPlaced, NEW v \in Versions, Turns(v)
    PROVE  AllPlaced'
<1>1. /\ work[v].pc \in Rolling \cup {"flipping"} /\ Elsewhere(v) /\ job' = job
      /\ work'[v].pc \in Rolling \cup {"closing"}
      /\ At(v, "closing")' => work'[v].out \in {"succeeded", "failed", "canceled"}
  BY TurnsMoves
<1>2. job[v].kind = "activate"
  BY <1>1 DEF AllPlaced, Placed
<1>3. Placed(v)'
  BY <1>1, <1>2 DEF Placed, Closing, At, Rolling
<1> QED BY <1>1, <1>3, PlacedMoved

LEMMA StartPlaced ==
    ASSUME Typed, AllPlaced, NEW v \in Versions, StartInstall(v) \/ StartDelete(v) \/ StartActivate(v)
    PROVE  AllPlaced'
<1>0. TypeOK
  BY DEF Typed
<1>1. Takes(v, "running")
  BY <1>0, StartJob
<1>2. /\ Elsewhere(v)
      /\ \/ job[v].kind = "install" /\ work'[v].pc = "building"
         \/ job[v].kind = "delete" /\ work'[v].pc = "reading"
         \/ job[v].kind = "activate" /\ work'[v].pc = "flipping"
  BY <1>0, WorkerStarts DEF StartInstall, StartDelete, StartActivate, Pcs
<1>3. Placed(v)'
  BY <1>1, <1>2 DEF Placed, Closing, At, Rolling, Takes, Same
<1>4. \A u \in Versions \ {v} : Placed(u)'
  BY <1>1, <1>2, PlacedStays DEF AllPlaced, Takes, Others, Elsewhere
<1> QED BY <1>3, <1>4 DEF AllPlaced

\* A closing touches the job of nobody else who has a worker.
LEMMA ClosesOthers ==
    ASSUME TypeOK, AllPlaced, NEW v \in Versions, Closes(v)
    PROVE  \A u \in Versions \ {v} : job'[u] = job[u] \/ ~Live(u)
<1>1. CASE CloseInstall(v) /\ work[v].out # "fallback"
  <2>1. work[v].out \in JobStates
    BY <1>1 DEF CloseInstall, Closing, AllPlaced, Placed, JobStates
  <2> QED BY <1>1, <2>1, CloseJob DEF Takes, Others
<1>2. CASE CloseDelete(v) \/ CloseFails(v)
  BY <1>2, CloseJob DEF Takes, Others
<1>3. CASE CloseFallback(v)
  <2>1. v \in DOMAIN Replacement
    BY <1>3 DEF CloseFallback, Closing, AllPlaced, Placed
  <2> QED BY <1>3, <2>1, CloseJob DEF Ends
<1>4. CASE CloseActivate(v)
  <2>1. Settles(v, work[v].out)
    BY <1>4, ActivationEnds DEF CloseActivate, Closing, AllPlaced, Placed
  <2> QED BY <2>1 DEF Settles, Takes, Others, Ends
<1> QED BY <1>1, <1>2, <1>3, <1>4 DEF Closes, CloseInstall

LEMMA PlacedHolds ==
    ASSUME Typed, AllPlaced, Resting, [Next]_vars
    PROVE  AllPlaced'
<1>0. TypeOK
  BY DEF Typed
<1>1. ASSUME NEW v \in Versions, Request(v) PROVE AllPlaced'
  <2>1. work' = work /\ \A u \in Versions : ~At(u, "idle") => job'[u].kind = job[u].kind
    BY <1>0, <1>1, RequestKinds
  <2> QED BY <2>1, PlacedStays, PlacedIdle DEF AllPlaced, At
<1>2. ASSUME NEW v \in Versions, Closes(v) PROVE AllPlaced'
  <2>1. Elsewhere(v) /\ work'[v].pc = "idle" /\ \A u \in Versions \ {v} : job'[u] = job[u] \/ ~Live(u)
    BY <1>0, <1>2, ClosesRests, ClosesOthers
  <2>2. \A u \in Versions : ~Live(u) => At(u, "idle")
    BY <1>0 DEF TypeOK, Live
  <2> QED BY <2>1, <2>2, PlacedStays, PlacedIdle DEF AllPlaced, Elsewhere, At
<1>3. ASSUME NEW v \in Versions, Flip(v) PROVE AllPlaced'
  <2>1. /\ Elsewhere(v) /\ work'[v].pc = "linking" /\ At(v, "flipping")
        /\ Others(v) /\ job'[v].kind = job[v].kind
    BY <1>0, <1>3, FlipWork, FlipJob DEF Flip
  <2>2. Placed(v)'
    BY <2>1 DEF AllPlaced, Placed, Closing, At, Rolling
  <2> QED BY <2>1, <2>2, PlacedStays DEF AllPlaced, Elsewhere, Others
<1>4. ASSUME NEW v \in Versions, Heartbeat(v) \/ LeaveRunning(v) PROVE AllPlaced'
  <2>1. Elsewhere(v) /\ job' = job /\ Placed(v)'
    BY <1>0, <1>4, HeartbeatWork, WorkerRests, PlacedIdle, PlacedStays
       DEF AllPlaced, Heartbeat, LeaveRunning, rowVars
  <2> QED BY <2>1, PlacedMoved
<1>5. ASSUME NEW i \in Instances, UnitStep(i) PROVE AllPlaced'
  BY <1>5, UnitFrame, PlacedStays DEF AllPlaced
<1>6. CASE DaemonStep
  <2>1. CASE Exit
    BY <2>1, Rested, PlacedIdle DEF AllPlaced
  <2>2. CASE Boot \/ \E v \in Versions : SettleActivation(v)
    <3>1. work' = work /\ \A v \in Versions : At(v, "idle")
      BY <2>2 DEF Boot, SettleActivation, Resting
    <3> QED BY <3>1, PlacedIdle DEF AllPlaced, At
  <2>3. CASE LeaseExpires \/ Shutdown \/ ReleaseForeignLease \/ RepairAtBoot \/ ReconcileFails \/ Open
    <3>1. UNCHANGED <<work, job>>
      BY <2>3 DEF LeaseExpires, Shutdown, ReleaseForeignLease, RepairAtBoot, ReconcileFails, Open, rowVars
    <3> QED BY <3>1, PlacedStays DEF AllPlaced
  <2> QED BY <1>6, <2>1, <2>2, <2>3 DEF DaemonStep
<1>7. CASE UNCHANGED vars
  BY <1>7, PlacedStays DEF AllPlaced, vars
<1> QED BY <1>1, <1>2, <1>3, <1>4, <1>5, <1>6, <1>7, Steps, StartPlaced, BuildsPlaced, RemovesPlaced, TurnsPlaced

LEMMA RestingHolds ==
    ASSUME Typed, Resting, [Next]_vars
    PROVE  Resting'
<1>0. TypeOK
  BY DEF Typed
<1>1. ASSUME NEW v \in Versions, Request(v) PROVE Resting'
  <2>1. UNCHANGED <<phase, work>>
    BY <1>1 DEF Request, Activate, AskDelete, AskRebuild, Refuse, Delete, Rebuild, Install, Retry,
         CancelRunning, CancelWaiting, envVars
  <2>2. asked' \subseteq asked \/ phase = "up"
    BY <1>1 DEF Request, Activate, AskDelete, AskRebuild, Refuse, Delete, Rebuild, Install, Retry,
         CancelRunning, CancelWaiting, Click
  <2> QED BY <2>1, <2>2 DEF Resting, At
<1>2. ASSUME NEW v \in Versions, StartInstall(v) \/ StartDelete(v) \/ StartActivate(v) PROVE Resting'
  BY <1>2 DEF StartInstall, StartDelete, StartActivate, Start, envVars, Resting
<1>3. ASSUME NEW v \in Versions, ~At(v, "idle"), phase' = phase PROVE Resting'
  BY <1>3 DEF Resting
<1>4. ASSUME NEW v \in Versions, Closes(v) PROVE Resting'
  <2>1. ~At(v, "idle") /\ phase' = phase
    BY <1>0, <1>4, ClosesRests DEF At
  <2> QED BY <2>1, <1>3
<1>5. ASSUME NEW v \in Versions, Builds(v) PROVE Resting'
  <2>1. phase' = phase
    BY <1>5 DEF Builds, BuildFails, WillNotRun, PublishFresh, Displace, Swap, SwapFails, envVars
  <2>2. ~At(v, "idle")
    BY <1>0, <1>5, InstallMoves DEF Builds, At
  <2> QED BY <2>1, <2>2, <1>3
<1>6. ASSUME NEW v \in Versions, Removes(v) PROVE Resting'
  <2>1. phase' = phase
    BY <1>6 DEF Removes, ReadFlags, ReadCut, CheckUse, CheckFails, RemoveSome, Remove, RemovalFails, envVars
  <2>2. ~At(v, "idle")
    BY <1>6 DEF Removes, ReadFlags, ReadCut, CheckUse, CheckFails, RemoveSome, Remove, RemovalFails, At
  <2> QED BY <2>1, <2>2, <1>3
<1>7. ASSUME NEW v \in Versions, Turns(v) PROVE Resting'
  <2>1. phase' = phase
    BY <1>7 DEF Turns, FlipFails, Link, LinkFails, ChooseTargets, ChooseFails, RollStop, RollStart, RollHealthy,
           RollFails, Revert, RevertFails, Relink, envVars
  <2>2. ~At(v, "idle")
    BY <1>7, TurnsMoves DEF At, Rolling
  <2> QED BY <2>1, <2>2, <1>3
<1>8. ASSUME NEW v \in Versions, Flip(v) \/ Heartbeat(v) \/ LeaveRunning(v) PROVE Resting'
  BY <1>8, <1>3 DEF Flip, Heartbeat, LeaveRunning, envVars, At
<1>9. ASSUME NEW i \in Instances, UnitStep(i) PROVE Resting'
  BY <1>9, UnitFrame DEF Resting, At
<1>10. CASE DaemonStep
  <2>1. CASE Exit
    BY <2>1, Rested DEF Exit, Resting, At
  <2>2. CASE Boot \/ (\E v \in Versions : SettleActivation(v)) \/ LeaseExpires \/ Shutdown
    BY <2>2 DEF Boot, SettleActivation, LeaseExpires, Shutdown, Resting, At, envVars
  <2>3. CASE ReleaseForeignLease \/ RepairAtBoot \/ ReconcileFails \/ Open
    BY <2>3 DEF ReleaseForeignLease, RepairAtBoot, ReconcileFails, Open, Resting, At
  <2> QED BY <1>10, <2>1, <2>2, <2>3 DEF DaemonStep
<1>11. CASE UNCHANGED vars
  BY <1>11 DEF Resting, vars, At
<1> QED BY <1>1, <1>2, <1>4, <1>5, <1>6, <1>7, <1>8, <1>9, <1>10, <1>11, Steps

LEMMA TypedHolds ==
    ASSUME Typed, AllPlaced, Resting, [Next]_vars
    PROVE  Typed'
<1>1. CASE UNCHANGED vars
  BY <1>1 DEF Typed, TypeOK, Seated, At, vars
<1>2. CASE Next
  BY <1>2, Steps, RequestTyped, StartTyped, CloseTyped, BuildsTyped, RemovesTyped, TurnsTyped, FlipTyped,
     RestTyped, UnitTyped, DaemonTyped DEF AllPlaced
<1> QED BY <1>1, <1>2

\* The types, and where workers may stand.
Shaped == Typed /\ AllPlaced /\ Resting

LEMMA ShapedHolds == Spec => []Shaped
<1>1. Init => Shaped
  <2>1. Init => AllPlaced /\ Resting
    BY PlacedIdle DEF Init, AllPlaced, Resting, Placed, Closing, At, Rolling, Idle
  <2> QED BY <2>1, InitTyped DEF Shaped
<1>2. Shaped /\ [Next]_vars => Shaped'
  BY TypedHolds, PlacedHolds, RestingHolds DEF Shaped
<1> QED BY <1>1, <1>2, PTL DEF Spec

\* Every variable keeps its type, a worker acts for a running job, and only a serving
\* process executes out of a directory.
THEOREM TypeCorrect == Spec => []TypeOK
BY ShapedHolds, PTL DEF Shaped, Typed

-----------------------------------------------------------------------------
(* One activation at a time.                                               *)

OneActivation == \A u, v \in Versions : Activating(u) /\ Activating(v) => u = v

\* An activation under way goes back to the same request.
Continued(u) == Activating(u)' => Activating(u) /\ job'[u].was = job[u].was /\ job'[u].keep = job[u].keep

LEMMA ContinuedTakes ==
    ASSUME NEW v \in Versions, NEW s, Takes(v, s), s \in {"queued", "running", "interrupted"} => Live(v)
    PROVE  \A u \in Versions : Continued(u)
BY DEF Takes, Others, Same, Continued, Activating, Live

LEMMA ContinuedEnds ==
    ASSUME NEW v \in Versions, NEW s \in {"succeeded", "failed", "canceled"}, NEW u \in Versions,
           NEW kind \in {"install", "delete"}, Ends(v, s, u, kind)
    PROVE  \A w \in Versions : Continued(w)
BY DEF Ends, Same, Continued, Activating, Live

LEMMA ContinuedSettles ==
    ASSUME TypeOK, NEW v \in Versions, NEW s \in {"succeeded", "failed", "canceled"}, Settles(v, s)
    PROVE  \A w \in Versions : Continued(w)
<1>1. Owed(v) \subseteq Versions
  BY OwingJobs
<1> QED BY <1>1, ContinuedTakes, ContinuedEnds DEF Settles

\* Only Activate begins one.
LEMMA ActivationsContinue ==
    ASSUME Shaped, [Next]_vars
    PROVE  \/ \E v \in Versions : Activate(v)
           \/ \A u \in Versions : Continued(u)
<1>0. TypeOK
  BY DEF Shaped, Typed
<1>1. CASE job' = job
  BY <1>1 DEF Continued, Activating, Live
<1>2. ASSUME NEW v \in Versions, Request(v), ~Activate(v), job' # job PROVE \A u \in Versions : Continued(u)
  <2>1. CASE Delete(v) \/ Rebuild(v) \/ Install(v) \/ Retry(v)
    <3>1. \E kind \in {"delete", "install"} : New(v, kind)
      BY <1>0, <2>1, EnqueueJob, RetryJob
    <3> QED BY <3>1 DEF New, Others, Continued, Activating, Live
  <2>2. CASE CancelRunning(v) \/ CancelWaiting(v)
    BY <1>0, <2>2, CancelJob, ContinuedTakes DEF Live
  <2> QED BY <1>2, <2>1, <2>2 DEF Request, AskDelete, AskRebuild, Refuse, rowVars
<1>3. ASSUME NEW v \in Versions, StartInstall(v) \/ StartDelete(v) \/ StartActivate(v)
      PROVE  \A u \in Versions : Continued(u)
  BY <1>0, <1>3, StartJob, ContinuedTakes DEF Live
<1>4. ASSUME NEW v \in Versions, Closes(v) PROVE \A u \in Versions : Continued(u)
  <2>0. Live(v) /\ Placed(v)
    BY <1>0, <1>4, ClosesRests DEF Live, Shaped, AllPlaced
  <2>1. CASE CloseInstall(v) /\ work[v].out # "fallback"
    <3>1. Takes(v, work[v].out)
      BY <1>0, <2>0, <2>1, CloseJob DEF CloseInstall, Closing, Placed, JobStates
    <3> QED BY <2>0, <3>1, ContinuedTakes
  <2>2. CASE CloseDelete(v)
    <3>1. Takes(v, IF work[v].out \in {"succeeded", "canceled"} THEN work[v].out ELSE "failed")
      BY <1>0, <2>2, CloseJob
    <3> QED BY <2>0, <3>1, ContinuedTakes
  <2>3. CASE CloseFails(v)
    <3>1. Takes(v, Triaged(v))
      BY <1>0, <2>3, CloseJob
    <3> QED BY <2>0, <3>1, ContinuedTakes
  <2>4. CASE CloseFallback(v)
    <3>1. v \in DOMAIN Replacement
      BY <2>0, <2>4 DEF CloseFallback, Closing, Placed
    <3>2. Ends(v, "failed", Replacement[v], "install") /\ Replacement[v] \in Versions
      BY <1>0, <2>4, <3>1, CloseJob, VersionsAssumption
    <3> QED BY <3>2, ContinuedEnds
  <2>5. CASE CloseActivate(v)
    <3>1. work[v].out \in {"succeeded", "failed", "canceled"}
      BY <2>0, <2>5 DEF CloseActivate, Closing, Placed
    <3>2. Settles(v, work[v].out)
      BY <1>0, <2>5, <3>1, ActivationEnds
    <3> QED BY <1>0, <3>1, <3>2, ContinuedSettles
  <2> QED BY <1>4, <2>1, <2>2, <2>3, <2>4, <2>5 DEF Closes, CloseInstall
<1>5. ASSUME NEW v \in Versions, Flip(v) PROVE \A u \in Versions : Continued(u)
  BY <1>0, <1>5, FlipJob DEF Others, Continued, Activating, Live
<1>6. CASE Boot
  BY <1>0, <1>6, BootJobs DEF Same, Continued, Activating, Live
<1>7. ASSUME NEW v \in Versions, SettleActivation(v) PROVE \A u \in Versions : Continued(u)
  <2>1. Settles(v, "succeeded") \/ Settles(v, "failed")
    BY <1>0, <1>7, ActivationEnds
  <2> QED BY <1>0, <2>1, ContinuedSettles
<1>8. ASSUME NEW v \in Versions, Builds(v) \/ Removes(v) \/ Turns(v) \/ Heartbeat(v) \/ LeaveRunning(v)
      PROVE  job' = job
  <2>1. CASE Builds(v)
    BY <2>1 DEF Builds, BuildFails, WillNotRun, PublishFresh, Displace, Swap, SwapFails, rowVars
  <2>2. CASE Removes(v)
    BY <2>2 DEF Removes, ReadFlags, ReadCut, CheckUse, CheckFails, RemoveSome, Remove, RemovalFails, rowVars
  <2>3. CASE Turns(v)
    BY <2>3, TurnsMoves DEF Shaped
  <2> QED BY <1>8, <2>1, <2>2, <2>3 DEF Heartbeat, LeaveRunning, rowVars
<1>9. ASSUME DaemonStep, ~Boot, ~\E v \in Versions : SettleActivation(v) PROVE job' = job
  BY <1>9 DEF DaemonStep, LeaseExpires, Shutdown, Exit, ReleaseForeignLease, RepairAtBoot, ReconcileFails,
              Open, rowVars
<1>10. ASSUME NEW i \in Instances, UnitStep(i) PROVE job' = job
  BY <1>10, UnitFrame
<1>11. UNCHANGED vars => job' = job
  BY DEF vars
<1> QED BY <1>1, <1>2, <1>3, <1>4, <1>5, <1>6, <1>7, <1>8, <1>9, <1>10, <1>11, Steps DEF Request

LEMMA OneActivationHolds ==
    ASSUME Shaped, OneActivation, [Next]_vars
    PROVE  OneActivation'
<1>1. ASSUME NEW v \in Versions, Activate(v) PROVE OneActivation'
  <2>1. Quiet /\ New(v, "activate")
    BY <1>1, ActivateJob DEF Activate, Shaped, Typed
  <2> QED BY <2>1 DEF New, Others, OneActivation, Quiet, Activating, Live
<1>2. CASE \A u \in Versions : Continued(u)
  BY <1>2 DEF Continued, OneActivation
<1> QED BY <1>1, <1>2, ActivationsContinue

-----------------------------------------------------------------------------
(* The build lease.                                                        *)

LiveStates == {"queued", "running", "interrupted"}

LEMMA LeaseStays ==
    ASSUME LeaseHeldByLiveBuild, lease'.job = lease.job \/ lease'.job = NoVersion,
           lease.job # NoVersion => job'[lease.job].kind = job[lease.job].kind /\ job'[lease.job].state \in LiveStates
    PROVE  LeaseHeldByLiveBuild'
<1>1. CASE lease'.job = NoVersion
  BY <1>1 DEF LeaseHeldByLiveBuild
<1>2. CASE lease'.job = lease.job
  BY <1>2 DEF LeaseHeldByLiveBuild, Live, LiveStates
<1> QED BY <1>1, <1>2

LEMMA LeaseHolds ==
    ASSUME Shaped, LeaseHeldByLiveBuild, [Next]_vars
    PROVE  LeaseHeldByLiveBuild'
<1>0. /\ TypeOK /\ AllPlaced /\ lease \in Leases
      /\ lease.job \in Versions \cup {NoVersion} /\ NoLease.job = NoVersion
      /\ lease.job # NoVersion => lease.job \in Versions /\ job[lease.job].kind = "install" /\ Live(lease.job)
  BY Types DEF Shaped, Typed, Leases, NoLease, LeaseHeldByLiveBuild
<1>1. ASSUME NEW v \in Versions, Request(v) PROVE LeaseHeldByLiveBuild'
  <2>1. CASE Activate(v) \/ Delete(v) \/ Rebuild(v) \/ Install(v)
    <3>1. (\E kind \in {"activate", "delete", "install"} : New(v, kind)) /\ ~Live(v) /\ lease' = lease
      BY <1>0, <2>1, ActivateJob, EnqueueJob DEF Activate, Delete, Rebuild, Install
    <3>2. lease.job # NoVersion => job'[lease.job] = job[lease.job]
      BY <1>0, <3>1 DEF New, Others
    <3> QED BY <1>0, <3>1, <3>2, LeaseStays DEF Live, LiveStates
  <2>2. CASE Retry(v)
    <3>1. New(v, "install") /\ lease' = lease
      BY <1>0, <2>2, RetryJob DEF Retry
    <3>2. lease.job # NoVersion => job'[lease.job].kind = "install" /\ job'[lease.job].state \in LiveStates
      BY <1>0, <3>1 DEF New, Others, Live, LiveStates
    <3> QED BY <1>0, <3>1, <3>2, LeaseStays
  <2>3. CASE CancelRunning(v)
    <3>1. Takes(v, "running") /\ lease' = lease
      BY <1>0, <2>3, CancelJob DEF CancelRunning
    <3>2. lease.job # NoVersion => job'[lease.job].kind = "install" /\ job'[lease.job].state \in LiveStates
      BY <1>0, <3>1 DEF Takes, Others, Same, Live, LiveStates
    <3> QED BY <1>0, <3>1, <3>2, LeaseStays
  <2>4. CASE CancelWaiting(v)
    <3>1. Takes(v, "canceled")
      BY <1>0, <2>4, CancelJob
    <3>2. IF lease.job = v THEN lease' = NoLease ELSE lease' = lease
      <4>1. lease.job = v => job[v].kind = "install"
        BY <1>0, VersionsAssumption
      <4>2. lease' = Released(v) \/ (lease' = lease /\ job[v].kind # "install")
        BY <2>4 DEF CancelWaiting
      <4> QED BY <4>1, <4>2 DEF Released
    <3>3. lease.job # v /\ lease.job # NoVersion => job'[lease.job] = job[lease.job]
      BY <1>0, <3>1 DEF Takes, Others
    <3>4. CASE lease.job = v
      BY <1>0, <3>2, <3>4 DEF LeaseHeldByLiveBuild
    <3>5. CASE lease.job # v
      BY <1>0, <3>2, <3>3, <3>5, LeaseStays DEF Live, LiveStates
    <3> QED BY <3>4, <3>5
  <2>5. CASE job' = job /\ lease' = lease
    BY <1>0, <2>5, LeaseStays DEF Live, LiveStates
  <2> QED BY <1>1, <2>1, <2>2, <2>3, <2>4, <2>5 DEF Request, AskDelete, AskRebuild, Refuse, rowVars
<1>2. ASSUME NEW v \in Versions, StartInstall(v) PROVE LeaseHeldByLiveBuild'
  <2>1. Takes(v, "running") /\ job[v].kind = "install" /\ lease'.job = v
    BY <1>0, <1>2, StartJob DEF StartInstall
  <2> QED BY <2>1 DEF LeaseHeldByLiveBuild, Takes, Same, Live
<1>3. ASSUME NEW v \in Versions, StartDelete(v) \/ StartActivate(v) PROVE LeaseHeldByLiveBuild'
  <2>1. Takes(v, "running") /\ lease' = lease
    BY <1>0, <1>3, StartJob DEF StartDelete, StartActivate
  <2>2. lease.job # NoVersion => job'[lease.job].kind = "install" /\ job'[lease.job].state \in LiveStates
    BY <1>0, <2>1 DEF Takes, Others, Same, Live, LiveStates
  <2> QED BY <1>0, <2>1, <2>2, LeaseStays
<1>4. ASSUME NEW v \in Versions, Closes(v) PROVE LeaseHeldByLiveBuild'
  <2>1. \A u \in Versions \ {v} : Live(u) => job'[u] = job[u]
    BY <1>0, <1>4, ClosesOthers
  <2>2. CASE lease.job # v
    <3>1. lease' = lease
      BY <1>4, <2>2 DEF Closes, CloseInstall, CloseFallback, CloseDelete, CloseActivate, CloseFails, Released
    <3>2. lease.job # NoVersion => job'[lease.job] = job[lease.job]
      BY <1>0, <2>1, <2>2
    <3> QED BY <1>0, <3>1, <3>2, LeaseStays DEF Live, LiveStates
  <2>3. CASE lease.job = v
    <3>1. job[v].kind = "install"
      BY <1>0, <2>3, VersionsAssumption
    <3>2. CASE CloseInstall(v) \/ CloseFallback(v)
      <4>1. lease' = NoLease
        BY <2>3, <3>2 DEF CloseInstall, CloseFallback, Released
      <4> QED BY <1>0, <4>1 DEF LeaseHeldByLiveBuild
    <3>3. CASE CloseFails(v)
      <4>1. Takes(v, "interrupted") /\ lease' = lease
        BY <1>0, <3>1, <3>3, CloseJob DEF Triaged, CloseFails
      <4>2. job'[v].kind = "install" /\ job'[v].state \in LiveStates
        BY <3>1, <4>1 DEF Takes, Same, LiveStates
      <4> QED BY <2>3, <4>1, <4>2, <3>1, LeaseStays
    <3> QED BY <1>4, <3>1, <3>2, <3>3 DEF Closes, CloseDelete, CloseActivate, Closing
  <2> QED BY <2>2, <2>3
<1>5. ASSUME NEW v \in Versions, Flip(v) PROVE LeaseHeldByLiveBuild'
  <2>1. lease' = lease /\ \A u \in Versions : job'[u].kind = job[u].kind /\ job'[u].state = job[u].state
    BY <1>0, <1>5, FlipJob DEF Flip, Others
  <2> QED BY <1>0, <2>1, LeaseStays DEF Live, LiveStates
<1>6. CASE Boot
  <2>1. lease' = lease /\ (lease.job # NoVersion => job'[lease.job].kind = "install" /\ job'[lease.job].state \in LiveStates)
    BY <1>0, <1>6, BootJobs DEF Boot, Same, Live, LiveStates
  <2> QED BY <1>0, <2>1, LeaseStays
<1>7. ASSUME NEW v \in Versions, SettleActivation(v) PROVE LeaseHeldByLiveBuild'
  <2>1. Settles(v, "succeeded") \/ Settles(v, "failed")
    BY <1>0, <1>7, ActivationEnds
  <2>2. job[v].kind = "activate" /\ lease' = lease
    BY <1>7 DEF SettleActivation, Unsettled
  <2>3. lease.job # NoVersion => job'[lease.job] = job[lease.job]
    BY <1>0, <2>1, <2>2 DEF Settles, Takes, Others, Ends
  <2> QED BY <1>0, <2>2, <2>3, LeaseStays DEF Live, LiveStates
<1>8. ASSUME NEW v \in Versions, Builds(v) \/ Removes(v) \/ Turns(v) \/ Heartbeat(v) \/ LeaveRunning(v)
      PROVE  job' = job /\ lease' = lease
  <2>1. CASE Builds(v)
    BY <2>1 DEF Builds, BuildFails, WillNotRun, PublishFresh, Displace, Swap, SwapFails, rowVars
  <2>2. CASE Removes(v)
    BY <2>2 DEF Removes, ReadFlags, ReadCut, CheckUse, CheckFails, RemoveSome, Remove, RemovalFails, rowVars
  <2>3. CASE Turns(v)
    BY <2>3 DEF Turns, FlipFails, Link, LinkFails, ChooseTargets, ChooseFails, RollStop, RollStart, RollHealthy,
           RollFails, Revert, RevertFails, Relink, rowVars
  <2> QED BY <1>8, <2>1, <2>2, <2>3 DEF Heartbeat, LeaveRunning, rowVars
<1>9. ASSUME DaemonStep, ~Boot, ~\E v \in Versions : SettleActivation(v)
      PROVE  job' = job /\ (lease'.job = lease.job \/ lease'.job = NoVersion)
  <2>1. CASE LeaseExpires
    BY <1>0, <2>1 DEF LeaseExpires, Leases
  <2>2. CASE Shutdown \/ Exit \/ ReleaseForeignLease \/ RepairAtBoot \/ ReconcileFails \/ Open
    BY <1>0, <2>2 DEF Shutdown, Exit, ReleaseForeignLease, RepairAtBoot, ReconcileFails, Open, rowVars
  <2> QED BY <1>9, <2>1, <2>2 DEF DaemonStep
<1>10. ASSUME NEW i \in Instances, UnitStep(i) PROVE job' = job /\ lease' = lease
  BY <1>10, UnitFrame
<1>11. UNCHANGED vars => job' = job /\ lease' = lease
  BY DEF vars
<1>12. job' = job /\ (lease'.job = lease.job \/ lease'.job = NoVersion) => LeaseHeldByLiveBuild'
  <2> HAVE job' = job /\ (lease'.job = lease.job \/ lease'.job = NoVersion)
  <2>1. lease.job # NoVersion => job'[lease.job].kind = job[lease.job].kind /\ job'[lease.job].state \in LiveStates
    BY <1>0 DEF Live, LiveStates
  <2> QED BY <2>1, LeaseStays
<1> QED BY <1>1, <1>2, <1>3, <1>4, <1>5, <1>6, <1>7, <1>8, <1>9, <1>10, <1>11, <1>12, Steps

\* Whatever ends an install gives its build lease back, and a boot that finds one
\* interrupted leaves it with it: the lease is never held by an install that is over.
THEOREM LeaseIsLive == Spec => []LeaseHeldByLiveBuild
<1>1. Init => LeaseHeldByLiveBuild
  BY DEF Init, LeaseHeldByLiveBuild
<1>2. Shaped /\ LeaseHeldByLiveBuild /\ [Next]_vars => LeaseHeldByLiveBuild'
  BY LeaseHolds
<1> QED BY <1>1, <1>2, ShapedHolds, PTL DEF Spec

-----------------------------------------------------------------------------
(* Where the flags stand is a matter of how far the one activation has come. *)

\* Two slots never name one version.
Apart(f) == f["previous"] # NoVersion => f["active"] # f["previous"]

Was(v) == job[v].was.flags
Outgone(v) == IF Was(v)["active"] = v THEN NoVersion ELSE Was(v)["active"]
\* The flags after the flip of v, and the candidate it writes down.
Turned(v) == [active |-> v, previous |-> IF job[v].keep THEN Outgone(v) ELSE NoVersion]
Loser(v) ==
    IF ~job[v].keep THEN Outgone(v)
    ELSE IF Was(v)["previous"] \in {v, Outgone(v)} THEN NoVersion ELSE Was(v)["previous"]

Before(v) == flags = Was(v)
Flipped(v) == flags = Turned(v) /\ job[v].candidate = Loser(v)

Standing(v) ==
    /\ Apart(Was(v))
    /\ Before(v) \/ Flipped(v)
    /\ job[v].state = "queued" \/ At(v, "flipping") => Before(v)
    /\ work[v].pc \in {"linking", "choosing", "reverting"} => Flipped(v) /\ ~work[v].back
    /\ work[v].pc \in {"stopping", "settling", "awaiting"} =>
         IF work[v].back THEN Before(v) ELSE Flipped(v)
    /\ At(v, "relinking") => Before(v)
    /\ work[v].pc \in Rolling /\ ~work[v].back => work[v].before = Was(v)
    /\ At(v, "flipping") => ~work[v].back
    /\ Closing(v, "activate") => /\ work[v].out = "succeeded" => Flipped(v)
                                 /\ work[v].out = "failed" /\ faults = 0 => Before(v)

FlagsFollow == Apart(flags) /\ \A v \in Versions : Activating(v) => Standing(v)

\* An activation whose flags, request and worker stay as they are ...
LEMMA StandingStays ==
    ASSUME TypeOK, NEW v \in Versions, Standing(v), job'[v].was = job[v].was, job'[v].keep = job[v].keep,
           job'[v].candidate = job[v].candidate, flags' = flags,
           work'[v].pc = work[v].pc, work'[v].out = work[v].out, work'[v].back = work[v].back,
           work'[v].before = work[v].before, job'[v].kind = job[v].kind,
           job'[v].state = "queued" => job[v].state = "queued", faults' = 0 => faults = 0
    PROVE  Standing(v)'
<1>1. /\ Was(v)' = Was(v) /\ Before(v)' = Before(v) /\ Flipped(v)' = Flipped(v)
      /\ Apart(Was(v))' = Apart(Was(v))
  BY DEF Was, Before, Flipped, Turned, Loser, Outgone, Apart
<1> QED BY <1>1 DEF Standing, At, Closing

\* ... or whose worker is gone.
LEMMA StandingIdle ==
    ASSUME TypeOK, NEW v \in Versions, Standing(v), job'[v].was = job[v].was, job'[v].keep = job[v].keep,
           job'[v].candidate = job[v].candidate, flags' = flags, work'[v].pc = "idle",
           job'[v].state = "queued" => job[v].state = "queued"
    PROVE  Standing(v)'
<1>1. /\ Was(v)' = Was(v) /\ Before(v)' = Before(v) /\ Flipped(v)' = Flipped(v)
      /\ Apart(Was(v))' = Apart(Was(v))
  BY DEF Was, Before, Flipped, Turned, Loser, Outgone, Apart
<1> QED BY <1>1 DEF Standing, At, Closing, Rolling

\* A step that moves no flag and no activation: the others are left to the step.
LEMMA FollowFrame ==
    ASSUME TypeOK, FlagsFollow, flags' = flags, \A u \in Versions : Continued(u),
           faults' = 0 => faults = 0, NEW v \in Versions, Activating(v)' => Standing(v)',
           \A u \in Versions \ {v} : \/ ~Activating(u)'
                                     \/ job'[u] = job[u] /\ (work'[u] = work[u] \/ work'[u].pc = "idle")
    PROVE  FlagsFollow'
<1>1. ASSUME NEW u \in Versions \ {v}, Activating(u)' PROVE Standing(u)'
  <2>1. job'[u] = job[u] /\ Activating(u) /\ (work'[u] = work[u] \/ work'[u].pc = "idle")
    BY <1>1 DEF Continued
  <2>2. Standing(u)
    BY <2>1 DEF FlagsFollow
  <2> QED BY <2>1, <2>2, StandingStays, StandingIdle
<1>2. Apart(flags)'
  BY DEF FlagsFollow, Apart
<1> QED BY <1>1, <1>2 DEF FlagsFollow

LEMMA Nonzero == ASSUME faults \in Nat, faults' = faults \/ faults' = faults + 1
                 PROVE  (faults' = 0 => faults = 0) /\ (faults' = faults + 1 => faults' # 0)
OBVIOUS

\* The steps of a worker at work change no job and raise no flag but the restored ones.
LEMMA TurnsStanding ==
    ASSUME Shaped, NEW v \in Versions, Turns(v), Standing(v)
    PROVE  Standing(v)' /\ (flags' = flags \/ flags' = Was(v)) /\ (faults' = 0 => faults = 0)
<1>0. TypeOK /\ Typed /\ faults \in Nat
  BY DEF Shaped, Typed, TypeOK
<1>1. faults' = faults \/ faults' = faults + 1
  BY DEF Turns, FlipFails, Link, LinkFails, ChooseTargets, ChooseFails, RollStop, RollStart, RollHealthy,
         RollFails, Revert, RevertFails, Relink, Fault, RepairFails
<1>2. (faults' = 0 => faults = 0) /\ (faults' = faults + 1 => faults' # 0)
  BY <1>0, <1>1
<1>3. job' = job
  BY TurnsMoves, <1>0
<1>4. Was(v)' = Was(v) /\ Apart(Was(v))' /\ Turned(v)' = Turned(v) /\ Loser(v)' = Loser(v)
  BY <1>3 DEF Was, Apart, Standing, Turned, Loser, Outgone
<1>5. CASE flags' = flags /\ ~Revert(v)
  <2>0. Before(v)' = Before(v) /\ Flipped(v)' = Flipped(v)
    BY <1>3, <1>4, <1>5 DEF Before, Flipped
  <2>q. ~(job[v].state = "queued") \/ Before(v)
    BY DEF Standing
  <2>1. CASE FlipFails(v)
    <3>1. At(v, "flipping") /\ Moved(v, "closing", "failed")
      BY <1>0, <2>1, ActivateMoves
    <3> QED BY <1>2, <1>3, <1>4, <1>5, <2>0, <3>1 DEF Moved, Standing, At, Closing, Rolling
  <2>2. CASE Link(v)
    <3>1. At(v, "linking") /\ (Moved(v, "choosing", work[v].out) \/ Moved(v, "closing", "succeeded"))
      BY <1>0, <2>2, ActivateMoves
    <3> QED BY <1>2, <1>3, <1>4, <1>5, <2>0, <3>1 DEF Moved, Standing, At, Closing, Rolling
  <2>3. CASE LinkFails(v)
    <3>1. /\ At(v, "linking")
          /\ Moved(v, "closing", "canceled") \/ (faults' # 0 /\ Moved(v, "closing", "failed"))
      BY <1>0, <1>2, <2>3, ActivateMoves DEF RepairFails, Fault
    <3> QED BY <1>2, <1>3, <1>4, <1>5, <2>0, <3>1 DEF Moved, Standing, At, Closing, Rolling
  <2>4. CASE ChooseTargets(v)
    <3>1. At(v, "choosing") /\ (Moved(v, "stopping", work[v].out) \/ Moved(v, "closing", "succeeded"))
      BY <1>0, <2>4, ActivateMoves
    <3> QED BY <1>2, <1>3, <1>4, <1>5, <2>0, <3>1 DEF Moved, Standing, At, Closing, Rolling
  <2>5. CASE ChooseFails(v)
    <3>1. At(v, "choosing") /\ Moved(v, "reverting", work[v].out)
      BY <1>0, <2>5, ActivateMoves
    <3> QED BY <1>2, <1>3, <1>4, <1>5, <2>0, <3>1 DEF Moved, Standing, At, Closing, Rolling
  <2>6. CASE RollStop(v) \/ RollStart(v)
    <3>1. /\ work[v].pc \in {"stopping", "settling"}
          /\ Moved(v, "settling", work[v].out) \/ Moved(v, "awaiting", work[v].out)
      BY <1>0, <2>6, ActivateMoves DEF At
    <3> QED BY <1>2, <1>3, <1>4, <1>5, <2>0, <3>1 DEF Moved, Standing, At, Closing, Rolling
  <2>7. CASE RollHealthy(v) \/ RollFails(v)
    <3>1. /\ work[v].pc \in {"stopping", "settling", "awaiting"}
          /\ \/ work[v].back /\ Moved(v, "closing", "failed")
             \/ ~work[v].back /\ Moved(v, "closing", "succeeded")
             \/ ~work[v].back /\ Moved(v, "stopping", work[v].out)
             \/ ~work[v].back /\ Moved(v, "reverting", work[v].out)
      BY <1>0, <2>7, HealthyMoves, FailureMoves DEF At
    <3> QED BY <1>2, <1>3, <1>4, <1>5, <2>0, <3>1 DEF Moved, Standing, At, Closing, Rolling
  <2>8. CASE RevertFails(v)
    <3>1. At(v, "reverting") /\ Moved(v, "closing", "failed") /\ faults' # 0
      BY <1>0, <1>2, <2>8, ActivateMoves DEF RevertFails, Fault
    <3> QED BY <1>2, <1>3, <1>4, <1>5, <2>0, <3>1 DEF Moved, Standing, At, Closing, Rolling
  <2>9. CASE Relink(v)
    <3>1. /\ At(v, "relinking")
          /\ \/ Moved(v, "closing", "failed")
             \/ Elsewhere(v) /\ work'[v].pc = "stopping" /\ work'[v].back
      BY <1>0, <2>9, RelinkMoves
    <3> QED BY <1>2, <1>3, <1>4, <1>5, <2>0, <3>1 DEF Moved, Standing, At, Closing, Rolling
  <2> QED BY <1>5, <2>1, <2>2, <2>3, <2>4, <2>5, <2>6, <2>7, <2>8, <2>9 DEF Turns
<1>6. CASE Revert(v)
  <2>1. At(v, "reverting") /\ Moved(v, "relinking", work[v].out) /\ flags' = work[v].before
    BY <1>0, <1>6, ActivateMoves DEF Revert
  <2>2. work[v].before = Was(v) /\ ~work[v].back
    BY <2>1 DEF Standing, At, Rolling
  <2>3. Before(v)'
    BY <1>4, <2>1, <2>2 DEF Before
  <2> QED BY <1>2, <1>3, <1>4, <2>1, <2>2, <2>3 DEF Moved, Standing, At, Closing, Rolling
<1> QED BY <1>2, <1>5, <1>6 DEF Turns, FlipFails, Link, LinkFails, ChooseTargets, ChooseFails, RollStop,
                                RollStart, RollHealthy, RollFails, RevertFails, Relink, rowVars

LEMMA FlipStanding ==
    ASSUME Shaped, NEW v \in Versions, Flip(v), FlagsFollow, Activating(v)
    PROVE  Standing(v)' /\ Apart(flags)' /\ flags = Was(v) /\ flags' = Turned(v)
<1>0. TypeOK /\ At(v, "flipping") /\ Standing(v) /\ flags \in Flags
  BY DEF Shaped, Typed, TypeOK, Flip, FlagsFollow
<1>1. /\ job'[v].was = job[v].was /\ job'[v].keep = job[v].keep /\ job'[v].candidate = Candidate(v)
      /\ job'[v].kind = job[v].kind /\ job'[v].state = job[v].state
  BY <1>0, FlipJob
<1>2. /\ work'[v].pc = "linking" /\ work'[v].before = flags /\ work'[v].back = work[v].back
  BY <1>0, FlipWork
<1>3. Before(v) /\ ~work[v].back /\ Apart(Was(v))
  BY <1>0 DEF Standing
<1>4. Outgoing(v) = Outgone(v) /\ Candidate(v) = Loser(v)
  BY <1>3 DEF Before, Outgoing, Outgone, Candidate, Loser
<1>5. flags' = Turned(v)
  BY <1>4 DEF Flip, Turned
<1>6. Was(v)' = Was(v) /\ Apart(Was(v))' /\ Turned(v)' = Turned(v) /\ Loser(v)' = Loser(v)
  BY <1>1, <1>3 DEF Was, Apart, Turned, Loser, Outgone
<1>7. Flipped(v)'
  BY <1>1, <1>4, <1>5, <1>6 DEF Flipped
<1>8. Apart(flags)'
  <2>1. Outgone(v) # v
    BY VersionsAssumption DEF Outgone
  <2> QED BY <1>5, <2>1, VersionsAssumption DEF Apart, Turned
<1>9. job'[v].state = "running"
  BY <1>0, <1>1 DEF TypeOK, At
<1> QED BY <1>2, <1>3, <1>5, <1>6, <1>7, <1>8, <1>9 DEF Standing, At, Closing, Rolling, Before

LEMMA FlagsFollowHolds ==
    ASSUME Shaped, OneActivation, FlagsFollow, [Next]_vars
    PROVE  FlagsFollow'
<1>0. TypeOK /\ Typed /\ AllPlaced /\ Resting /\ faults \in Nat
  BY DEF Shaped, Typed, TypeOK
<1>1. ASSUME NEW v \in Versions, Activate(v) PROVE FlagsFollow'
  <2>1. /\ New(v, "activate") /\ job'[v].was.flags = flags /\ Quiet /\ flags' = flags /\ work' = work
        /\ job[v].state # "running"
    BY <1>0, <1>1, ActivateJob DEF Activate, Live
  <2>2. \A u \in Versions \ {v} : ~Activating(u)'
    BY <2>1 DEF New, Others, Quiet, Activating, Live
  <2>3. work'[v].pc = "idle"
    BY <1>0, <2>1 DEF TypeOK, At
  <2>4. Apart(flags)' /\ Apart(Was(v))' /\ Before(v)'
    BY <2>1 DEF FlagsFollow, Apart, Was, Before
  <2>5. Standing(v)'
    BY <2>3, <2>4 DEF Standing, At, Closing, Rolling
  <2> QED BY <2>2, <2>4, <2>5 DEF FlagsFollow
<1> SUFFICES ASSUME \A u \in Versions : Continued(u) PROVE FlagsFollow'
  BY <1>1, ActivationsContinue
<1>2. ASSUME job' = job, flags' = flags, faults' = faults,
             \A u \in Versions : work'[u] = work[u] \/ work'[u].pc = "idle"
      PROVE  FlagsFollow'
  <2>1. ASSUME NEW u \in Versions, Activating(u)' PROVE Standing(u)'
    <3>1. Standing(u)
      BY <2>1 DEF Continued, FlagsFollow
    <3> QED BY <1>0, <1>2, <3>1, StandingStays, StandingIdle
  <2>2. Apart(flags)'
    BY <1>2 DEF FlagsFollow, Apart
  <2> QED BY <2>1, <2>2 DEF FlagsFollow
<1>3. ASSUME NEW v \in Versions, Request(v) PROVE FlagsFollow'
  <2>1. UNCHANGED <<flags, work, faults>>
    BY <1>3 DEF Request, Activate, AskDelete, AskRebuild, Refuse, Delete, Rebuild, Install, Retry,
         CancelRunning, CancelWaiting, rowVars
  <2>2. CASE Delete(v) \/ Rebuild(v) \/ Install(v) \/ Retry(v)
    <3>1. \E kind \in {"delete", "install"} : New(v, kind)
      BY <1>0, <2>2, EnqueueJob, RetryJob
    <3> QED BY <1>0, <2>1, <3>1, FollowFrame DEF New, Others, Activating
  <2>3. CASE CancelRunning(v) \/ CancelWaiting(v)
    <3>1. Takes(v, "running") \/ Takes(v, "canceled")
      BY <1>0, <2>3, CancelJob
    <3>2. ASSUME Activating(v)' PROVE Standing(v)'
      <4>1. Standing(v)
        BY <3>2 DEF Continued, FlagsFollow
      <4> QED BY <1>0, <2>1, <3>1, <4>1, StandingStays DEF Takes, Same
    <3> QED BY <1>0, <2>1, <3>1, <3>2, FollowFrame DEF Takes, Others
  <2>4. CASE job' = job
    BY <2>1, <2>4, <1>2
  <2> QED BY <1>1, <1>3, <2>2, <2>3, <2>4 DEF Request, AskDelete, AskRebuild, Refuse, rowVars
<1>4. ASSUME NEW v \in Versions, StartInstall(v) \/ StartDelete(v) \/ StartActivate(v) PROVE FlagsFollow'
  <2>1. Takes(v, "running") /\ job[v].state = "queued" /\ UNCHANGED <<flags, faults>>
    BY <1>0, <1>4, StartJob DEF StartInstall, StartDelete, StartActivate, Start
  <2>2. /\ Elsewhere(v) /\ ~work'[v].back
        /\ job[v].kind = "activate" => work'[v].pc = "flipping"
    BY <1>0, <1>4, WorkerStarts DEF StartInstall, StartDelete, StartActivate, Pcs
  <2>3. ASSUME Activating(v)' PROVE Standing(v)'
    <3>1. Standing(v) /\ Before(v) /\ work'[v].pc = "flipping"
      BY <2>1, <2>2, <2>3 DEF Continued, FlagsFollow, Standing, Activating
    <3>2. Apart(Was(v))' /\ Before(v)'
      BY <2>1, <3>1 DEF Standing, Apart, Was, Before, Takes, Same
    <3> QED BY <2>1, <2>2, <3>1, <3>2 DEF Standing, At, Closing, Rolling, Takes
  <2> QED BY <1>0, <2>1, <2>2, <2>3, FollowFrame DEF Takes, Others, Elsewhere
<1>5. ASSUME NEW v \in Versions, Closes(v) PROVE FlagsFollow'
  <2>1. /\ At(v, "closing") /\ Elsewhere(v) /\ work'[v].pc = "idle" /\ flags' = flags
        /\ \A u \in Versions \ {v} : job'[u] = job[u] \/ ~Live(u)
    BY <1>0, <1>5, ClosesRests, ClosesOthers
  <2>2. faults' = faults \/ faults' = faults + 1
    BY <1>5 DEF Closes, CloseInstall, CloseFallback, CloseDelete, CloseActivate, CloseFails, Rest, Fault
  <2>3. ASSUME Activating(v)' PROVE Standing(v)'
    <3>1. Standing(v) /\ job'[v].was = job[v].was /\ job'[v].keep = job[v].keep
      BY <2>3 DEF Continued, FlagsFollow
    <3>2. job'[v].candidate = job[v].candidate /\ job'[v].state # "queued"
      <4>1. CASE CloseFails(v)
        BY <1>0, <4>1, CloseJob DEF Takes, Same, Triaged
      <4>2. CASE CloseActivate(v)
        <5>1. Settles(v, work[v].out) /\ work[v].out \in {"succeeded", "failed", "canceled"}
          BY <1>0, <4>2, ActivationEnds DEF CloseActivate, Closing, AllPlaced, Placed
        <5> QED BY <5>1 DEF Settles, Takes, Ends, Same
      <4>3. CASE CloseInstall(v) \/ CloseFallback(v) \/ CloseDelete(v)
        BY <2>3, <4>3 DEF CloseInstall, CloseFallback, CloseDelete, Closing, Continued, Activating
      <4> QED BY <1>5, <4>1, <4>2, <4>3 DEF Closes
    <3> QED BY <1>0, <2>1, <3>1, <3>2, StandingIdle
  <2>4. ASSUME NEW u \in Versions \ {v}, Activating(u)' PROVE job'[u] = job[u] /\ work'[u] = work[u]
    BY <2>1, <2>4 DEF Continued, Activating, Elsewhere
  <2> QED BY <1>0, <2>1, <2>2, <2>3, <2>4, FollowFrame
<1>6. ASSUME NEW v \in Versions, Builds(v) \/ Removes(v) PROVE FlagsFollow'
  <2>1. job' = job /\ flags' = flags
    BY <1>6 DEF Builds, BuildFails, WillNotRun, PublishFresh, Displace, Swap, SwapFails,
                Removes, ReadFlags, ReadCut, CheckUse, CheckFails, RemoveSome, Remove, RemovalFails, rowVars
  <2>2. faults' = faults \/ faults' = faults + 1
    BY <1>6 DEF Builds, BuildFails, WillNotRun, PublishFresh, Displace, Swap, SwapFails,
                Removes, ReadFlags, ReadCut, CheckUse, CheckFails, RemoveSome, Remove, RemovalFails, Fault
  <2>3. work[v].pc \in {"building", "swapping", "reading", "checking", "removing"}
    BY <1>6 DEF Builds, BuildFails, WillNotRun, PublishFresh, Displace, Swap, SwapFails,
                Removes, ReadFlags, ReadCut, CheckUse, CheckFails, RemoveSome, Remove, RemovalFails, At
  <2>4. ~Activating(v)'
    BY <1>0, <2>1, <2>3 DEF AllPlaced, Placed, Activating
  <2>5. \A u \in Versions \ {v} : work'[u] = work[u]
    <3>1. CASE Builds(v)
      BY <1>0, <3>1, InstallMoves DEF Builds, Moved, Elsewhere
    <3>2. CASE Removes(v)
      BY <1>0, <3>2, DeleteMoves DEF Removes, Moved, Elsewhere, RemoveSome
    <3> QED BY <1>6, <3>1, <3>2
  <2> QED BY <1>0, <2>1, <2>2, <2>4, <2>5, FollowFrame
<1>7. ASSUME NEW v \in Versions, Turns(v) PROVE FlagsFollow'
  <2>1. Elsewhere(v) /\ job' = job /\ At(v, "idle") = FALSE /\ work[v].pc \in Rolling \cup {"flipping"}
    BY <1>0, <1>7, TurnsMoves DEF At, Rolling
  <2>2. Activating(v)
    BY <1>0, <2>1 DEF AllPlaced, Placed, Activating, Live, TypeOK, At, Rolling
  <2>3. Standing(v)' /\ (flags' = flags \/ flags' = Was(v)) /\ Apart(Was(v))
    BY <1>7, <2>2, TurnsStanding DEF FlagsFollow, Standing
  <2>4. Apart(flags)'
    BY <2>3 DEF FlagsFollow, Apart
  <2>5. \A u \in Versions : Activating(u)' => u = v
    BY <2>2 DEF Continued, OneActivation
  <2> QED BY <2>3, <2>4, <2>5 DEF FlagsFollow
<1>8. ASSUME NEW v \in Versions, Flip(v) PROVE FlagsFollow'
  <2>1. Activating(v)
    BY <1>0, <1>8 DEF AllPlaced, Placed, Activating, Live, TypeOK, At, Rolling, Flip
  <2>2. Standing(v)' /\ Apart(flags)'
    BY <1>8, <2>1, FlipStanding
  <2>3. \A u \in Versions : Activating(u)' => u = v
    BY <2>1 DEF Continued, OneActivation
  <2> QED BY <2>2, <2>3 DEF FlagsFollow
<1>9. ASSUME NEW v \in Versions, Heartbeat(v) PROVE FlagsFollow'
  <2>1. /\ Elsewhere(v) /\ work'[v].pc = work[v].pc /\ work'[v].out = work[v].out
        /\ work'[v].before = work[v].before /\ work'[v].back = work[v].back
        /\ UNCHANGED <<job, flags, faults>>
    BY <1>0, <1>9, HeartbeatWork DEF Heartbeat, rowVars
  <2>2. ASSUME Activating(v)' PROVE Standing(v)'
    <3>1. Standing(v)
      BY <2>2 DEF Continued, FlagsFollow
    <3> QED BY <1>0, <2>1, <3>1, StandingStays
  <2> QED BY <1>0, <2>1, <2>2, FollowFrame DEF Elsewhere
<1>10. ASSUME NEW v \in Versions, LeaveRunning(v) PROVE FlagsFollow'
  <2>1. UNCHANGED <<job, flags, faults>> /\ Elsewhere(v) /\ work'[v].pc = "idle"
    BY <1>0, <1>10, WorkerRests DEF LeaveRunning, rowVars
  <2> QED BY <1>2, <2>1 DEF Elsewhere
<1>11. ASSUME NEW i \in Instances, UnitStep(i) PROVE FlagsFollow'
  BY <1>2, <1>11, UnitFrame
<1>12. CASE Boot
  <2>1. UNCHANGED <<flags, work, faults>>
    BY <1>12 DEF Boot
  <2>2. \A u \in Versions : /\ Same(u) /\ (job'[u].state = "queued" => job[u].state = "queued")
    BY <1>0, <1>12, BootJobs DEF Same
  <2>3. ASSUME NEW u \in Versions, Activating(u)' PROVE Standing(u)'
    <3>1. Standing(u)
      BY <2>3 DEF Continued, FlagsFollow
    <3> QED BY <1>0, <2>1, <2>2, <3>1, StandingStays DEF Same
  <2>4. Apart(flags)'
    BY <2>1 DEF FlagsFollow, Apart
  <2> QED BY <2>3, <2>4 DEF FlagsFollow
<1>13. ASSUME NEW v \in Versions, SettleActivation(v) PROVE FlagsFollow'
  <2>1. UNCHANGED <<flags, work, faults>> /\ Activating(v)
    BY <1>13 DEF SettleActivation, Unsettled, Activating, Live
  <2>2. Settles(v, "succeeded") \/ Settles(v, "failed")
    BY <1>0, <1>13, ActivationEnds
  <2>3. \A u \in Versions : ~Activating(u)'
    <3>1. ~Activating(v)'
      BY <2>2 DEF Settles, Takes, Ends, Activating, Live
    <3> QED BY <2>1, <3>1 DEF Continued, OneActivation
  <2> QED BY <2>1, <2>3 DEF FlagsFollow, Apart
<1>14. ASSUME DaemonStep, ~Boot, ~\E v \in Versions : SettleActivation(v) PROVE FlagsFollow'
  <2>1. job' = job /\ flags' = flags
    BY <1>14 DEF DaemonStep, LeaseExpires, Shutdown, Exit, ReleaseForeignLease, RepairAtBoot, ReconcileFails,
              Open, rowVars
  <2>2. faults' = faults \/ faults' = faults + 1
    BY <1>14 DEF DaemonStep, LeaseExpires, Shutdown, Exit, ReleaseForeignLease, RepairAtBoot, ReconcileFails,
              Open, Fault, RepairFails
  <2>3. work' = work \/ \A u \in Versions : work'[u].pc = "idle"
    BY <1>14, Rested DEF DaemonStep, LeaseExpires, Shutdown, ReleaseForeignLease, RepairAtBoot,
              ReconcileFails, Open
  <2>4. ASSUME NEW u \in Versions, Activating(u)' PROVE Standing(u)'
    <3>1. Standing(u)
      BY <2>4 DEF Continued, FlagsFollow
    <3> QED BY <1>0, <2>1, <2>2, <2>3, <3>1, StandingStays, StandingIdle
  <2>5. Apart(flags)'
    BY <2>1 DEF FlagsFollow, Apart
  <2> QED BY <2>4, <2>5 DEF FlagsFollow
<1>15. CASE UNCHANGED vars
  BY <1>2, <1>15 DEF vars
<1> QED BY <1>3, <1>4, <1>5, <1>6, <1>7, <1>8, <1>9, <1>10, <1>11, <1>12, <1>13, <1>14, <1>15, Steps

-----------------------------------------------------------------------------
(* The build that loses its slot.                                          *)

\* Only the closing of an activation, by its worker or at a boot, gives its verdict.
LEMMA VerdictSettles ==
    ASSUME Shaped, [Next]_vars, NEW v \in Versions, NEW s \in {"succeeded", "failed"}, EndsAs(v, s)
    PROVE  /\ flags' = flags /\ link' = link /\ Settles(v, s)
           /\ \/ Closing(v, "activate") /\ work[v].out = s /\ phase \in {"up", "draining"}
              \/ phase = "settling" /\ (flags["active"] = v <=> s = "succeeded")
<1>0. /\ TypeOK /\ AllPlaced /\ Resting /\ job'[v].kind = "activate" /\ job'[v].state = s
      /\ job[v].kind = "activate" /\ job[v].state \in LiveStates /\ s \notin LiveStates
  BY DEF Shaped, Typed, EndsAs, Activating, Live, LiveStates
<1>1. ASSUME NEW u \in Versions, Request(u) PROVE FALSE
  <2>1. CASE Activate(u)
    BY <1>0, <2>1, ActivateJob DEF New, Others
  <2>2. CASE Delete(u) \/ Rebuild(u) \/ Install(u) \/ Retry(u)
    BY <1>0, <2>2, EnqueueJob, RetryJob DEF New, Others
  <2>3. CASE CancelRunning(u) \/ CancelWaiting(u)
    BY <1>0, <2>3, CancelJob DEF Takes, Others
  <2>4. CASE job' = job
    BY <1>0, <2>4
  <2> QED BY <1>1, <2>1, <2>2, <2>3, <2>4 DEF Request, AskDelete, AskRebuild, Refuse, rowVars
<1>2. ASSUME NEW u \in Versions, StartInstall(u) \/ StartDelete(u) \/ StartActivate(u) PROVE FALSE
  BY <1>0, <1>2, StartJob DEF Takes, Others
<1>3. ASSUME NEW u \in Versions, Closes(u)
      PROVE  CloseActivate(v) /\ Closing(v, "activate") /\ work[v].out = s
  <2>1. u = v
    BY <1>0, <1>3, ClosesOthers DEF EndsAs, Activating
  <2>2. CloseActivate(v) \/ CloseFails(v)
    BY <1>0, <1>3, <2>1 DEF Closes, CloseInstall, CloseFallback, CloseDelete, Closing
  <2>3. ~CloseFails(v)
    BY <1>0, CloseJob DEF Takes, Triaged
  <2>4. Closing(v, "activate") /\ work[v].out \in {"succeeded", "failed", "canceled"}
    BY <1>0, <2>2, <2>3 DEF CloseActivate, Closing, AllPlaced, Placed
  <2>5. work[v].out = s
    <3>1. Settles(v, work[v].out)
      BY <1>0, <2>2, <2>3, <2>4, ActivationEnds
    <3>2. job'[v].state = work[v].out
      BY <3>1 DEF Settles, Takes, Ends
    <3> QED BY <1>0, <3>2
  <2> QED BY <2>2, <2>3, <2>4, <2>5
<1>4. ASSUME NEW u \in Versions, Flip(u) PROVE FALSE
  BY <1>0, <1>4, FlipJob DEF Others
<1>5. ~Boot
  BY <1>0, BootJobs
<1>6. ASSUME NEW u \in Versions, SettleActivation(u) PROVE u = v /\ (flags["active"] = v <=> s = "succeeded")
  <2>1. Settles(u, "succeeded") \/ Settles(u, "failed")
    BY <1>0, <1>6, ActivationEnds
  <2>2. u = v
    BY <1>0, <2>1 DEF Settles, Takes, Others, Ends
  <2>3. Settles(v, IF flags["active"] = v THEN "succeeded" ELSE "failed")
    BY <1>0, <1>6, <2>2, ActivationEnds
  <2> QED BY <1>0, <2>2, <2>3 DEF Settles, Takes, Ends
<1>7. ASSUME NEW u \in Versions, Builds(u) \/ Removes(u) \/ Turns(u) \/ Heartbeat(u) \/ LeaveRunning(u)
      PROVE  job' = job
  <2>1. CASE Builds(u)
    BY <2>1 DEF Builds, BuildFails, WillNotRun, PublishFresh, Displace, Swap, SwapFails, rowVars
  <2>2. CASE Removes(u)
    BY <2>2 DEF Removes, ReadFlags, ReadCut, CheckUse, CheckFails, RemoveSome, Remove, RemovalFails, rowVars
  <2>3. CASE Turns(u)
    BY <2>3, TurnsMoves DEF Shaped
  <2> QED BY <1>7, <2>1, <2>2, <2>3 DEF Heartbeat, LeaveRunning, rowVars
<1>8. ASSUME DaemonStep, ~Boot, ~\E u \in Versions : SettleActivation(u) PROVE job' = job
  BY <1>8 DEF DaemonStep, LeaseExpires, Shutdown, Exit, ReleaseForeignLease, RepairAtBoot, ReconcileFails,
              Open, rowVars
<1>9. ASSUME NEW i \in Instances, UnitStep(i) PROVE job' = job
  BY <1>9, UnitFrame
<1>10. job' # job
  BY <1>0
<1>11. \/ CloseActivate(v) /\ Closing(v, "activate") /\ work[v].out = s
       \/ SettleActivation(v) /\ (flags["active"] = v <=> s = "succeeded")
  BY <1>1, <1>2, <1>3, <1>4, <1>5, <1>6, <1>7, <1>8, <1>9, <1>10, Steps DEF vars
<1>12. CASE CloseActivate(v) /\ Closing(v, "activate") /\ work[v].out = s
  <2>1. Settles(v, s)
    BY <1>0, <1>12, ActivationEnds
  <2>2. phase \in {"up", "draining"}
    BY <1>0, <1>12 DEF Resting, Closing, At
  <2> QED BY <1>12, <2>1, <2>2 DEF CloseActivate, Rest, diskVars
<1>13. CASE SettleActivation(v) /\ (flags["active"] = v <=> s = "succeeded")
  <2>1. Settles(v, s)
    BY <1>0, <1>13, ActivationEnds
  <2> QED BY <1>13, <2>1 DEF SettleActivation, diskVars
<1> QED BY <1>11, <1>12, <1>13

LEMMA LoserRetired ==
    ASSUME Shaped, FlagsFollow, [Next]_vars, NEW v \in Versions, EndsAs(v, "succeeded"),
           NEW loser \in Versions, loser = Was(v)[IF job[v].keep THEN "previous" ELSE "active"]
    PROVE  (\E s \in Slots : flags'[s] = loser) \/ job'[loser].state \in LiveStates
<1>0. TypeOK /\ Activating(v) /\ Standing(v) /\ loser # NoVersion
  BY VersionsAssumption DEF Shaped, Typed, EndsAs, FlagsFollow
<1>1. /\ flags' = flags /\ Settles(v, "succeeded")
      /\ \/ Closing(v, "activate") /\ work[v].out = "succeeded"
         \/ flags["active"] = v
  BY VerdictSettles
<1>2. CASE Before(v) /\ flags["active"] = v
  <2>1. flags'[IF job[v].keep THEN "previous" ELSE "active"] = loser
    BY <1>1, <1>2 DEF Before
  <2> QED BY <2>1 DEF Slots
<1>3. CASE Flipped(v)
  <2>1. flags'["active"] = v /\ flags'["previous"] = IF job[v].keep THEN Outgone(v) ELSE NoVersion
    BY <1>1, <1>3 DEF Flipped, Turned
  <2>2. CASE loser = v \/ (job[v].keep /\ loser = Outgone(v))
    BY <2>1, <2>2 DEF Slots
  <2>3. CASE loser # v /\ ~(job[v].keep /\ loser = Outgone(v))
    <3>1. job[v].candidate = loser
      BY <1>3, <2>3 DEF Flipped, Loser, Outgone
    <3>2. CASE Live(loser)
      <4>1. Owed(v) = {}
        BY <3>1, <3>2 DEF Owed
      <4>2. job'[loser] = job[loser]
        BY <1>1, <2>3, <4>1 DEF Settles, Takes, Others
      <4> QED BY <3>2, <4>2 DEF Live, LiveStates
    <3>3. CASE ~Live(loser)
      <4>1. Owed(v) = {loser}
        BY <1>0, <3>1, <3>3 DEF Owed
      <4>2. job'[loser].state = "queued"
        BY <1>1, <4>1 DEF Settles, Ends
      <4> QED BY <4>2 DEF LiveStates
    <3> QED BY <3>2, <3>3
  <2> QED BY <2>2, <2>3
<1> QED BY <1>0, <1>1, <1>2, <1>3 DEF Standing

LEMMA Standings == Spec => [](Shaped /\ OneActivation /\ FlagsFollow)
<1>1. Init => OneActivation /\ FlagsFollow
  BY VersionsAssumption DEF Init, OneActivation, FlagsFollow, Apart, Activating, NoJob, Live
<1>2. Shaped /\ OneActivation /\ FlagsFollow /\ [Next]_vars => OneActivation' /\ FlagsFollow'
  BY OneActivationHolds, FlagsFollowHolds
<1> QED BY <1>1, <1>2, ShapedHolds, PTL DEF Spec

\* The build that loses its slot to an activation that succeeds has a job from that
\* step on, whoever closes the activation: the worker, or the boot after a crash, which
\* finds in the params of the job whom the flip put out.
THEOREM LoserHasJob == Spec => LostSlotIsRetired
<1> DEFINE Retires(v) ==
      EndsAs(v, "succeeded") =>
         LET loser == job[v].was.flags[IF job[v].keep THEN "previous" ELSE "active"]
         IN  loser # NoVersion => \/ \E s \in Slots : flags'[s] = loser
                                  \/ job'[loser].state \in {"queued", "running", "interrupted"}
<1>1. ASSUME Shaped, FlagsFollow, [Next]_vars, NEW v \in Versions PROVE Retires(v)
  <2> SUFFICES ASSUME EndsAs(v, "succeeded"),
                      Was(v)[IF job[v].keep THEN "previous" ELSE "active"] # NoVersion
               PROVE  \/ \E s \in Slots : flags'[s] = Was(v)[IF job[v].keep THEN "previous" ELSE "active"]
                      \/ job'[Was(v)[IF job[v].keep THEN "previous" ELSE "active"]].state \in LiveStates
    BY DEF Was, LiveStates
  <2>0. job[v] \in JobRows
    BY <1>1 DEF Shaped, Typed, TypeOK
  <2>1. Was(v) \in Flags
    BY <2>0 DEF JobRows, Was
  <2>2. Was(v)[IF job[v].keep THEN "previous" ELSE "active"] \in Versions
    BY <2>1 DEF Flags, Slots
  <2> QED BY <1>1, <2>2, LoserRetired
<1>2. Shaped /\ FlagsFollow /\ [Next]_vars => [\A v \in Versions : Retires(v)]_vars
  BY <1>1
<1>3. Spec => [][\A v \in Versions : Retires(v)]_vars
  BY <1>2, Standings, PTL DEF Spec
<1> QED BY <1>3 DEF LostSlotIsRetired

-----------------------------------------------------------------------------
(* The row of a version and its latest job tell one story.                 *)

Told(kind, state, r) ==
    CASE kind = "install" ->
           r = (CASE state = "queued" -> "pending"
                  [] state \in {"running", "interrupted"} -> "building"
                  [] state = "succeeded" -> "ready"
                  [] OTHER -> state)
      [] kind = "delete" ->
           (CASE state = "running" -> r = "deleting"
              [] state = "succeeded" -> r = "deleted"
              [] OTHER -> r \notin {"pending", "building", "deleting"})
      [] kind = "activate" -> r = "ready"
      [] OTHER -> r \in {"absent", "ready"}

LEMMA ToldAll ==
    RowFollowsJob <=> \A v \in Versions : Told(job[v].kind, job[v].state, row[v])
BY DEF RowFollowsJob, Told

Retold(v) == Told(job'[v].kind, job'[v].state, row'[v])
LEMMA RetoldAll ==
    RowFollowsJob' <=> \A v \in Versions : Retold(v)
BY DEF RowFollowsJob, Told, Retold

\* What no step touches tells what it told.
LEMMA RetoldFrame ==
    ASSUME RowFollowsJob, NEW v \in Versions, job'[v].kind = job[v].kind, job'[v].state = job[v].state,
           row'[v] = row[v]
    PROVE  Retold(v)
BY ToldAll DEF Retold

LEMMA RowsSet ==
    ASSUME TypeOK, NEW v \in Versions, NEW s, SetRow(v, s)
    PROVE  row'[v] = s /\ \A u \in Versions \ {v} : row'[u] = row[u]
BY Types DEF SetRow

\* Without a live job a version has a row that may be deleted.
LEMMA IdleRow ==
    ASSUME RowFollowsJob, TypeOK, NEW v \in Versions, ~Live(v)
    PROVE  row[v] \notin {"pending", "building", "deleting"}
<1>1. Told(job[v].kind, job[v].state, row[v])
  BY ToldAll
<1>2. job[v].kind \in {"none", "install", "delete", "activate"} /\ job[v].state \in JobStates
  BY DEF TypeOK, JobRows, JobStates
<1> QED BY <1>1, <1>2 DEF Told, Live, JobStates

LEMMA ResolvedRow ==
    ASSUME NEW v \in Versions
    PROVE  Resolved(v) \in {"ready", "failed"}
BY DEF Resolved

LEMMA RequestTold ==
    ASSUME TypeOK, RowFollowsJob, NEW v \in Versions, Request(v)
    PROVE  RowFollowsJob'
<1>0. Told(job[v].kind, job[v].state, row[v])
  BY ToldAll
<1>1. CASE Activate(v)
  <2>1. New(v, "activate") /\ row' = row /\ row[v] = "ready"
    BY <1>1, ActivateJob DEF Activate
  <2>2. Retold(v)
    BY <2>1 DEF New, Retold, Told
  <2> QED BY <2>1, <2>2, RetoldAll, RetoldFrame DEF New, Others
<1>2. CASE Delete(v)
  <2>1. New(v, "delete") /\ row' = row /\ row[v] \notin {"pending", "building", "deleting"}
    BY <1>2, EnqueueJob, IdleRow DEF Delete
  <2>2. Retold(v)
    BY <2>1 DEF New, Retold, Told
  <2> QED BY <2>1, <2>2, RetoldAll, RetoldFrame DEF New, Others
<1>3. CASE Rebuild(v) \/ Install(v) \/ Retry(v)
  <2>1. New(v, "install") /\ SetRow(v, "pending")
    BY <1>3, EnqueueJob, RetryJob DEF Rebuild, Install, Retry
  <2>2. row'[v] = "pending" /\ \A u \in Versions \ {v} : row'[u] = row[u]
    BY <2>1, RowsSet
  <2>3. Retold(v)
    BY <2>1, <2>2 DEF New, Retold, Told
  <2> QED BY <2>1, <2>2, <2>3, RetoldAll, RetoldFrame DEF New, Others
<1>4. CASE CancelRunning(v)
  <2>1. Takes(v, "running") /\ job[v].state = "running" /\ row' = row
    BY <1>4, CancelJob DEF CancelRunning
  <2> QED BY <2>1, RetoldAll, RetoldFrame DEF Takes, Same, Others
<1>5. CASE CancelWaiting(v)
  <2>1. Takes(v, "canceled") /\ job[v].state \in {"queued", "interrupted"}
    BY <1>5, CancelJob DEF CancelWaiting
  <2>2. CASE job[v].kind = "install"
    <3>1. row'[v] = "canceled" /\ \A u \in Versions \ {v} : row'[u] = row[u]
      BY <1>5, <2>2, RowsSet DEF CancelWaiting
    <3>2. Retold(v)
      BY <2>1, <2>2, <3>1 DEF Takes, Same, Retold, Told
    <3> QED BY <2>1, <3>1, <3>2, RetoldAll, RetoldFrame DEF Takes, Others
  <2>3. CASE job[v].kind = "delete"
    <3>1. row'[v] = Resolved(v) /\ \A u \in Versions \ {v} : row'[u] = row[u]
      BY <1>5, <2>3, RowsSet DEF CancelWaiting
    <3>2. Retold(v)
      BY <2>1, <2>3, <3>1, ResolvedRow DEF Takes, Same, Retold, Told
    <3> QED BY <2>1, <3>1, <3>2, RetoldAll, RetoldFrame DEF Takes, Others
  <2>4. CASE job[v].kind \notin {"install", "delete"}
    <3>1. row' = row
      BY <1>5, <2>4 DEF CancelWaiting
    <3>2. Retold(v)
      BY <1>0, <2>1, <2>4, <3>1 DEF Takes, Same, Retold, Told
    <3> QED BY <2>1, <3>1, <3>2, RetoldAll, RetoldFrame DEF Takes, Others
  <2> QED BY <2>2, <2>3, <2>4
<1>6. CASE job' = job /\ row' = row
  BY <1>6, RetoldAll, RetoldFrame
<1> QED BY <1>1, <1>2, <1>3, <1>4, <1>5, <1>6 DEF Request, AskDelete, AskRebuild, Refuse, rowVars

LEMMA StartTold ==
    ASSUME TypeOK, RowFollowsJob, NEW v \in Versions, StartInstall(v) \/ StartDelete(v) \/ StartActivate(v)
    PROVE  RowFollowsJob'
<1>0. Takes(v, "running") /\ Told(job[v].kind, job[v].state, row[v])
  BY StartJob, ToldAll
<1>1. ASSUME NEW s, SetRow(v, s), \/ s = "building" /\ job[v].kind = "install"
                                  \/ s = "deleting" /\ job[v].kind = "delete"
      PROVE  RowFollowsJob'
  <2>1. row'[v] = s /\ \A u \in Versions \ {v} : row'[u] = row[u]
    BY <1>1, RowsSet
  <2>2. Retold(v)
    BY <1>0, <1>1, <2>1 DEF Takes, Same, Retold, Told
  <2> QED BY <1>0, <2>1, <2>2, RetoldAll, RetoldFrame DEF Takes, Others
<1>2. CASE StartActivate(v)
  <2>1. row' = row /\ job[v].kind = "activate"
    BY <1>2 DEF StartActivate
  <2>2. Retold(v)
    BY <1>0, <2>1 DEF Takes, Same, Retold, Told
  <2> QED BY <1>0, <2>1, <2>2, RetoldAll, RetoldFrame DEF Takes, Others
<1> QED BY <1>1, <1>2 DEF StartInstall, StartDelete

LEMMA CloseTold ==
    ASSUME TypeOK, AllPlaced, RowFollowsJob, NEW v \in Versions, Closes(v)
    PROVE  RowFollowsJob'
<1>0. At(v, "closing") /\ job[v].state = "running" /\ Placed(v) /\ Told(job[v].kind, job[v].state, row[v])
  BY ClosesRests, ToldAll DEF AllPlaced
<1>1. CASE CloseInstall(v)
  <2>1. work[v].out \in {"succeeded", "failed", "canceled"} /\ job[v].kind = "install"
    BY <1>0, <1>1 DEF CloseInstall, Closing, Placed
  <2>2. Takes(v, work[v].out)
    BY <1>1, <2>1, CloseJob DEF JobStates
  <2>3. /\ row'[v] = IF work[v].out = "succeeded" THEN "ready" ELSE work[v].out
        /\ \A u \in Versions \ {v} : row'[u] = row[u]
    BY <1>1, RowsSet DEF CloseInstall
  <2>4. Retold(v)
    BY <2>1, <2>2, <2>3 DEF Takes, Same, Retold, Told
  <2> QED BY <2>2, <2>3, <2>4, RetoldAll, RetoldFrame DEF Takes, Others
<1>2. CASE CloseFallback(v)
  <2>1. v \in DOMAIN Replacement /\ job[v].kind = "install"
    BY <1>0, <1>2 DEF CloseFallback, Closing, Placed
  <2>2. Ends(v, "failed", Replacement[v], "install") /\ Replacement[v] \in Versions \ {v}
    BY <1>2, <2>1, CloseJob, VersionsAssumption
  <2>3. /\ row'[v] = "failed" /\ row'[Replacement[v]] = "pending"
        /\ \A u \in Versions \ {v, Replacement[v]} : row'[u] = row[u]
    BY <1>2, <2>2, Types DEF CloseFallback
  <2>4. Retold(v) /\ Retold(Replacement[v])
    BY <2>1, <2>2, <2>3 DEF Ends, Same, Retold, Told
  <2> QED BY <2>2, <2>3, <2>4, RetoldAll, RetoldFrame DEF Ends
<1>3. CASE CloseDelete(v)
  <2> DEFINE s == IF work[v].out \in {"succeeded", "canceled"} THEN work[v].out ELSE "failed"
  <2>1. Takes(v, s) /\ job[v].kind = "delete"
    BY <1>3, CloseJob DEF CloseDelete, Closing
  <2>2. PICK r \in Rows : SetRow(v, r) /\ IF work[v].out = "succeeded" THEN r = "deleted"
                                                                     ELSE r \in {"ready", "failed"}
    BY <1>3, ResolvedRow DEF CloseDelete, Rows
  <2>3. row'[v] = r /\ \A u \in Versions \ {v} : row'[u] = row[u]
    BY <2>2, RowsSet
  <2>4. Retold(v)
    BY <2>1, <2>2, <2>3 DEF Takes, Same, Retold, Told
  <2> QED BY <2>1, <2>3, <2>4, RetoldAll, RetoldFrame DEF Takes, Others
<1>4. CASE CloseActivate(v)
  <2>1. job[v].kind = "activate" /\ work[v].out \in {"succeeded", "failed", "canceled"} /\ row' = row
    BY <1>0, <1>4 DEF CloseActivate, Closing, Placed
  <2>2. Settles(v, work[v].out)
    BY <1>4, <2>1, ActivationEnds
  <2>3. Retold(v)
    BY <1>0, <2>1, <2>2 DEF Settles, Takes, Ends, Same, Retold, Told
  <2>4. ASSUME NEW u \in Versions \ {v} PROVE Retold(u)
    <3>1. CASE job'[u] = job[u]
      BY <2>1, <3>1, RetoldFrame
    <3>2. CASE job'[u] # job[u]
      <4>1. ~Live(u) /\ job'[u].kind = "delete" /\ job'[u].state = "queued"
        BY <2>2, <3>2 DEF Settles, Takes, Others, Ends
      <4> QED BY <2>1, <4>1, IdleRow DEF Retold, Told
    <3> QED BY <3>1, <3>2
  <2> QED BY <2>3, <2>4, RetoldAll
<1>5. CASE CloseFails(v)
  <2>1. Takes(v, Triaged(v))
    BY <1>5, CloseJob
  <2>2. CASE job[v].kind = "delete"
    <3>1. row'[v] = Resolved(v) /\ \A u \in Versions \ {v} : row'[u] = row[u]
      BY <1>5, <2>2, RowsSet DEF CloseFails
    <3>2. Retold(v)
      BY <2>1, <2>2, <3>1, ResolvedRow DEF Takes, Same, Retold, Told, Triaged
    <3> QED BY <2>1, <3>1, <3>2, RetoldAll, RetoldFrame DEF Takes, Others
  <2>3. CASE job[v].kind # "delete"
    <3>1. row' = row
      BY <1>5, <2>3 DEF CloseFails
    <3>2. Retold(v)
      BY <1>0, <2>1, <2>3, <3>1 DEF Takes, Same, Retold, Told, Triaged
    <3> QED BY <2>1, <3>1, <3>2, RetoldAll, RetoldFrame DEF Takes, Others
  <2> QED BY <2>2, <2>3
<1> QED BY <1>1, <1>2, <1>3, <1>4, <1>5 DEF Closes

\* The steps that touch neither jobs nor rows.
LEMMA RowFrame ==
    ASSUME Shaped, NEW v \in Versions, Builds(v) \/ Removes(v) \/ Turns(v) \/ Heartbeat(v) \/ LeaveRunning(v)
    PROVE  UNCHANGED <<row, job, phase>>
<1>1. CASE Builds(v)
  BY <1>1 DEF Builds, BuildFails, WillNotRun, PublishFresh, Displace, Swap, SwapFails, rowVars, envVars
<1>2. CASE Removes(v)
  BY <1>2 DEF Removes, ReadFlags, ReadCut, CheckUse, CheckFails, RemoveSome, Remove, RemovalFails, rowVars, envVars
<1>3. CASE Turns(v)
  BY <1>3 DEF Turns, FlipFails, Link, LinkFails, ChooseTargets, ChooseFails, RollStop, RollStart,
       RollHealthy, RollFails, Revert, RevertFails, Relink, rowVars, envVars
<1>4. CASE Heartbeat(v) \/ LeaveRunning(v)
  BY <1>4 DEF Heartbeat, LeaveRunning, rowVars, envVars
<1> QED BY <1>1, <1>2, <1>3, <1>4

LEMMA StoryHolds ==
    ASSUME Shaped, RowFollowsJob, [Next]_vars
    PROVE  RowFollowsJob'
<1>0. TypeOK /\ AllPlaced
  BY DEF Shaped, Typed
<1>1. CASE job' = job /\ row' = row
  BY <1>1, RetoldAll, RetoldFrame
<1>2. ASSUME NEW v \in Versions, Flip(v) PROVE RowFollowsJob'
  BY <1>0, <1>2, FlipJob, RetoldAll, RetoldFrame DEF Flip, Others
<1>3. CASE Boot
  <2>1. ASSUME NEW v \in Versions, job[v].state = "running" PROVE Retold(v)
    <3>1. Told(job[v].kind, "running", row[v])
      BY <2>1, ToldAll
    <3>2. row'[v] = IF job[v].kind = "delete" THEN Resolved(v) ELSE row[v]
      BY <1>3, <2>1 DEF Boot
    <3>3. job'[v].kind = job[v].kind /\ job'[v].state = IF job[v].kind = "delete" THEN "failed" ELSE "interrupted"
      BY <1>0, <1>3, <2>1, BootJobs DEF Same
    <3> QED BY <3>1, <3>2, <3>3, ResolvedRow DEF Retold, Told
  <2>2. ASSUME NEW v \in Versions, job[v].state # "running" PROVE Retold(v)
    BY <1>0, <1>3, <2>2, BootJobs, RetoldFrame DEF Boot
  <2> QED BY <2>1, <2>2, RetoldAll
<1>4. ASSUME NEW v \in Versions, SettleActivation(v) PROVE RowFollowsJob'
  <2>1. Settles(v, "succeeded") \/ Settles(v, "failed")
    BY <1>0, <1>4, ActivationEnds
  <2>2. row' = row /\ job[v].kind = "activate" /\ Told(job[v].kind, job[v].state, row[v])
    BY <1>4, ToldAll DEF SettleActivation, Unsettled
  <2>3. Retold(v)
    BY <2>1, <2>2 DEF Settles, Takes, Ends, Same, Retold, Told
  <2>4. ASSUME NEW u \in Versions \ {v} PROVE Retold(u)
    <3>1. CASE job'[u] = job[u]
      BY <2>2, <3>1, RetoldFrame
    <3>2. CASE job'[u] # job[u]
      <4>1. ~Live(u) /\ job'[u].kind = "delete" /\ job'[u].state = "queued"
        BY <2>1, <3>2 DEF Settles, Takes, Others, Ends
      <4> QED BY <1>0, <2>2, <4>1, IdleRow DEF Retold, Told
    <3> QED BY <3>1, <3>2
  <2> QED BY <2>3, <2>4, RetoldAll
<1>5. ASSUME DaemonStep, ~Boot, ~\E v \in Versions : SettleActivation(v) PROVE job' = job /\ row' = row
  BY <1>5 DEF DaemonStep, LeaseExpires, Shutdown, Exit, ReleaseForeignLease, RepairAtBoot, ReconcileFails,
              Open, rowVars
<1>6. ASSUME NEW i \in Instances, UnitStep(i) PROVE job' = job /\ row' = row
  BY <1>6, UnitFrame
<1>7. CASE UNCHANGED vars
  BY <1>1, <1>7 DEF vars
<1> QED BY <1>0, <1>1, <1>2, <1>3, <1>4, <1>5, <1>6, <1>7, Steps, RequestTold, StartTold, CloseTold, RowFrame

\* The latest job of a version and its row tell one story, whoever wrote last: a
\* request, a worker, a cancel, the replacement of a prebuilt, or a boot.
THEOREM OneStory == Spec => []RowFollowsJob
<1>1. Init => RowFollowsJob
  <2>1. Init => \A v \in Versions : job[v].kind = "none" /\ row[v] \in {"absent", "ready"}
    BY DEF Init, NoJob
  <2>2. \A v \in Versions : job[v].kind = "none" /\ row[v] \in {"absent", "ready"}
                              => Told(job[v].kind, job[v].state, row[v])
    BY DEF Told
  <2> QED BY <2>1, <2>2, ToldAll
<1>2. Shaped /\ RowFollowsJob /\ [Next]_vars => RowFollowsJob'
  BY StoryHolds
<1> QED BY <1>1, <1>2, ShapedHolds, PTL DEF Spec

-----------------------------------------------------------------------------
(* The links lag behind the rows only on the account of an activation.     *)

LEMMA FaultsGrow ==
    ASSUME TypeOK, [Next]_vars
    PROVE  faults' = faults \/ (Fault /\ faults' = faults + 1)
<1>1. ASSUME NEW v \in Versions, Request(v) PROVE faults' = faults
  BY <1>1 DEF Request, Activate, AskDelete, AskRebuild, Refuse, Delete, Rebuild, Install, Retry,
         CancelRunning, CancelWaiting
<1>2. ASSUME NEW v \in Versions, StartInstall(v) \/ StartDelete(v) \/ StartActivate(v) PROVE faults' = faults
  BY <1>2 DEF StartInstall, StartDelete, StartActivate, Start
<1>3. ASSUME NEW v \in Versions, Closes(v) PROVE faults' = faults \/ Fault
  BY <1>3 DEF Closes, CloseInstall, CloseFallback, CloseDelete, CloseActivate, CloseFails, Rest
<1>4. ASSUME NEW v \in Versions, Builds(v) PROVE faults' = faults \/ Fault
  BY <1>4 DEF Builds, BuildFails, WillNotRun, PublishFresh, Displace, Swap, SwapFails
<1>5. ASSUME NEW v \in Versions, Removes(v) PROVE faults' = faults \/ Fault
  BY <1>5 DEF Removes, ReadFlags, ReadCut, CheckUse, CheckFails, RemoveSome, Remove, RemovalFails
<1>6. ASSUME NEW v \in Versions, Turns(v) PROVE faults' = faults \/ Fault
  BY <1>6 DEF Turns, FlipFails, Link, LinkFails, ChooseTargets, ChooseFails, RollStop, RollStart,
       RollHealthy, RollFails, Revert, RevertFails, Relink, RepairFails
<1>7. ASSUME NEW v \in Versions, Flip(v) \/ Heartbeat(v) \/ LeaveRunning(v) PROVE faults' = faults
  BY <1>7 DEF Flip, Heartbeat, LeaveRunning
<1>8. ASSUME NEW i \in Instances, UnitStep(i) PROVE faults' = faults
  BY <1>8, UnitFrame
<1>9. DaemonStep => faults' = faults \/ Fault
  BY DEF DaemonStep, LeaseExpires, Shutdown, Exit, Boot, ReleaseForeignLease, RepairAtBoot, ReconcileFails,
              Open, SettleActivation, RepairFails
<1>10. faults' = faults \/ Fault
  BY <1>1, <1>2, <1>3, <1>4, <1>5, <1>6, <1>7, <1>8, <1>9, Steps DEF vars
<1> QED BY <1>10 DEF Fault

\* Nothing has failed so far: then this step did not fail either.
LEMMA StillFine ==
    ASSUME TypeOK, [Next]_vars, faults' = 0
    PROVE  faults = 0 /\ ~Fault
<1>1. faults \in Nat
  BY DEF TypeOK
<1> QED BY <1>1, FaultsGrow DEF Fault

\* A cancel read after the flip is a liberty: without it a worker that is about to
\* link has not read one.
Unread == \A v \in Versions : At(v, "linking") => ~work[v].seen

LEMMA UnreadHolds ==
    ASSUME "late_cancel" \notin Liberties, Shaped, Unread, [Next]_vars
    PROVE  Unread'
<1>0. TypeOK /\ Typed
  BY DEF Shaped, Typed
<1>1. ASSUME NEW v \in Versions, Elsewhere(v), work'[v].pc = "linking" => ~work'[v].seen PROVE Unread'
  BY <1>1 DEF Unread, At, Elsewhere
<1>2. ASSUME NEW v \in Versions, StartInstall(v) \/ StartDelete(v) \/ StartActivate(v) PROVE Unread'
  <2>1. Elsewhere(v) /\ work'[v].pc # "linking"
    BY <1>0, <1>2, WorkerStarts DEF StartInstall, StartDelete, StartActivate, Pcs
  <2> QED BY <1>1, <2>1
<1>3. ASSUME NEW v \in Versions, Closes(v) PROVE Unread'
  <2>1. Elsewhere(v) /\ work'[v].pc = "idle"
    BY <1>0, <1>3, ClosesRests
  <2> QED BY <1>1, <2>1
<1>4. ASSUME NEW v \in Versions, Builds(v) PROVE Unread'
  <2>1. Elsewhere(v) /\ work'[v].pc # "linking"
    BY <1>0, <1>4, InstallMoves DEF Builds, Moved
  <2> QED BY <1>1, <2>1
<1>5. ASSUME NEW v \in Versions, Removes(v) PROVE Unread'
  <2>1. CASE RemoveSome(v)
    BY <2>1 DEF RemoveSome, Unread, At
  <2>2. CASE ~RemoveSome(v)
    <3>1. Elsewhere(v) /\ work'[v].pc # "linking"
      BY <1>0, <1>5, <2>2, DeleteMoves DEF Removes, Moved
    <3> QED BY <1>1, <3>1
  <2> QED BY <2>1, <2>2
<1>6. ASSUME NEW v \in Versions, Turns(v) PROVE Unread'
  <2>1. Elsewhere(v) /\ work'[v].pc # "linking"
    BY <1>0, <1>6, TurnsMoves DEF Rolling
  <2> QED BY <1>1, <2>1
<1>7. ASSUME NEW v \in Versions, Flip(v) PROVE Unread'
  <2>1. Elsewhere(v) /\ ~work'[v].seen
    BY <1>0, <1>7, FlipWork DEF Flip, Cut
  <2> QED BY <1>1, <2>1
<1>8. ASSUME NEW v \in Versions, Heartbeat(v) PROVE Unread'
  <2>1. Elsewhere(v) /\ work'[v].pc # "linking"
    BY <1>0, <1>8, HeartbeatWork DEF Heartbeat, At
  <2> QED BY <1>1, <2>1
<1>9. ASSUME NEW v \in Versions, LeaveRunning(v) PROVE Unread'
  <2>1. Elsewhere(v) /\ work'[v].pc = "idle"
    BY <1>0, <1>9, WorkerRests DEF LeaveRunning
  <2> QED BY <1>1, <2>1
<1>10. CASE Exit
  BY <1>10, Rested DEF Unread, At
<1>11. CASE work' = work
  BY <1>11 DEF Unread, At
<1>12. ASSUME DaemonStep, ~Exit PROVE work' = work
  BY <1>12 DEF DaemonStep, LeaseExpires, Shutdown, Boot, ReleaseForeignLease, RepairAtBoot, ReconcileFails,
              Open, SettleActivation
<1> QED BY <1>0, <1>2, <1>3, <1>4, <1>5, <1>6, <1>7, <1>8, <1>9, <1>10, <1>11, <1>12, Steps, RequestKinds,
           UnitFrame DEF vars

Lagging(v) == Activating(v) /\ \/ phase \in {"down", "releasing", "repairing"}
                               \/ At(v, "linking") /\ ~work[v].seen
                               \/ At(v, "relinking")
                               \/ phase = "draining" /\ At(v, "idle")

LinksLag == faults = 0 => link = flags \/ \E v \in Versions : Lagging(v)

\* A step of another job, and a request, leave a lagging activation behind.
LEMMA LagStays ==
    ASSUME TypeOK, NEW v \in Versions, Lagging(v), phase' = phase, work'[v] = work[v],
           job'[v].kind = job[v].kind, job'[v].state \in LiveStates
    PROVE  Lagging(v)'
BY DEF Lagging, At, Activating, Live, LiveStates

LEMMA RequestLag ==
    ASSUME Shaped, NEW v \in Versions, Request(v), NEW u \in Versions, Lagging(u)
    PROVE  Lagging(u)'
<1>0. TypeOK /\ Activating(u) /\ Resting
  BY DEF Shaped, Typed, Lagging
<1>1. work' = work /\ phase' = phase
  BY <1>0, RequestKinds DEF Request, Activate, AskDelete, AskRebuild, Refuse, Delete, Rebuild, Install, Retry,
         CancelRunning, CancelWaiting, envVars
<1>2. CASE Activate(v) \/ Delete(v) \/ Rebuild(v) \/ Install(v) \/ Retry(v)
  <2>1. (\E kind \in {"activate", "delete", "install"} : New(v, kind)) /\ u # v
    BY <1>0, <1>2, ActivateJob, EnqueueJob, RetryJob
       DEF Activate, Delete, Rebuild, Install, Retry, Activating
  <2> QED BY <1>0, <1>1, <2>1, LagStays DEF New, Others, Activating, Live, LiveStates
<1>3. CASE CancelRunning(v)
  <2>1. Takes(v, "running")
    BY <1>0, <1>3, CancelJob
  <2> QED BY <1>0, <1>1, <2>1, LagStays DEF Takes, Same, Others, Activating, Live, LiveStates
<1>4. CASE CancelWaiting(v)
  <2>1. Takes(v, "canceled") /\ phase = "up" /\ job[v].state # "running"
    BY <1>0, <1>4, CancelJob DEF CancelWaiting, Click
  <2>2. job[u].state = "running"
    BY <1>0, <2>1 DEF Lagging, At, TypeOK
  <2> QED BY <1>0, <1>1, <2>1, <2>2, LagStays DEF Takes, Others, LiveStates
<1>5. CASE job' = job
  BY <1>0, <1>1, <1>5, LagStays DEF Activating, Live, LiveStates
<1> QED BY <1>2, <1>3, <1>4, <1>5 DEF Request, AskDelete, AskRebuild, Refuse, rowVars

\* A worker that does not stand where its activation lags leaves the lagging ones alone.
LEMMA WorkLag ==
    ASSUME Shaped, NEW v \in Versions, work[v].pc \notin {"idle", "linking", "relinking"}, Elsewhere(v),
           phase' = phase, \A u \in Versions \ {v} : job'[u] = job[u] \/ ~Live(u),
           NEW u \in Versions, Lagging(u)
    PROVE  Lagging(u)'
<1>0. TypeOK /\ Resting /\ Live(u)
  BY DEF Shaped, Typed, Lagging, Activating
<1>1. u # v
  BY <1>0 DEF Lagging, Resting, At
<1> QED BY <1>0, <1>1, LagStays DEF Elsewhere, Live, LiveStates

LEMMA LinksLagHolds ==
    ASSUME "late_cancel" \notin Liberties, Shaped, OneActivation, Unread, LinksLag, [Next]_vars
    PROVE  LinksLag'
<1> SUFFICES ASSUME faults' = 0 PROVE link' = flags' \/ \E v \in Versions : Lagging(v)'
  BY DEF LinksLag
<1>0. /\ TypeOK /\ Typed /\ AllPlaced /\ Resting /\ faults = 0 /\ ~Fault
      /\ link = flags \/ \E v \in Versions : Lagging(v)
  BY StillFine DEF Shaped, Typed, LinksLag
<1>1. ASSUME link' = link, flags' = flags, \A u \in Versions : Lagging(u) => Lagging(u)'
      PROVE  link' = flags' \/ \E v \in Versions : Lagging(v)'
  BY <1>0, <1>1
<1>2. ASSUME NEW v \in Versions, Request(v) PROVE link' = flags' \/ \E u \in Versions : Lagging(u)'
  <2>1. link' = link /\ flags' = flags
    BY <1>2 DEF Request, Activate, AskDelete, AskRebuild, Refuse, Delete, Rebuild, Install, Retry,
         CancelRunning, CancelWaiting, rowVars, diskVars
  <2> QED BY <1>1, <1>2, <2>1, RequestLag
<1>3. ASSUME NEW v \in Versions, StartInstall(v) \/ StartDelete(v) \/ StartActivate(v)
      PROVE  link' = flags' \/ \E u \in Versions : Lagging(u)'
  <2>1. /\ Takes(v, "running") /\ job[v].state = "queued" /\ phase = "up"
        /\ UNCHANGED <<flags, link, phase>> /\ Elsewhere(v)
    BY <1>0, <1>3, StartJob, WorkerStarts DEF StartInstall, StartDelete, StartActivate, Start, Pcs, envVars
  <2>2. ASSUME NEW u \in Versions, Lagging(u) PROVE Lagging(u)'
    <3>1. u # v /\ Live(u)
      BY <1>0, <2>1, <2>2 DEF Lagging, Activating, At, TypeOK
    <3> QED BY <1>0, <2>1, <2>2, <3>1, LagStays DEF Takes, Others, Elsewhere, Live, LiveStates
  <2> QED BY <1>1, <2>1, <2>2
<1>4. ASSUME NEW v \in Versions, Closes(v) PROVE link' = flags' \/ \E u \in Versions : Lagging(u)'
  <2>1. /\ At(v, "closing") /\ Elsewhere(v) /\ UNCHANGED <<flags, link, phase>>
        /\ \A u \in Versions \ {v} : job'[u] = job[u] \/ ~Live(u)
    BY <1>0, <1>4, ClosesRests, ClosesOthers DEF diskVars
  <2> QED BY <1>1, <2>1, WorkLag DEF At
<1>5. ASSUME NEW v \in Versions, Builds(v) PROVE link' = flags' \/ \E u \in Versions : Lagging(u)'
  <2>1. UNCHANGED <<flags, link, phase, job>>
    BY <1>5 DEF Builds, BuildFails, WillNotRun, PublishFresh, Displace, Swap, SwapFails, rowVars, diskVars, envVars
  <2>2. Elsewhere(v) /\ work[v].pc \in {"building", "swapping"}
    BY <1>0, <1>5, InstallMoves DEF Builds, Moved, At
  <2> QED BY <1>1, <2>1, <2>2, WorkLag
<1>6. ASSUME NEW v \in Versions, Removes(v) PROVE link' = flags' \/ \E u \in Versions : Lagging(u)'
  <2>1. UNCHANGED <<flags, link, phase, job>>
    BY <1>6 DEF Removes, ReadFlags, ReadCut, CheckUse, CheckFails, RemoveSome, Remove, RemovalFails,
                rowVars, diskVars, envVars
  <2>2. work[v].pc \in {"reading", "checking", "removing"}
    BY <1>6 DEF Removes, ReadFlags, ReadCut, CheckUse, CheckFails, RemoveSome, Remove, RemovalFails, At
  <2>3. Elsewhere(v)
    <3>1. CASE RemoveSome(v)
      BY <1>0, <3>1 DEF RemoveSome, Elsewhere, TypeOK
    <3>2. CASE ~RemoveSome(v)
      BY <1>0, <1>6, <3>2, DeleteMoves DEF Removes, Moved
    <3> QED BY <3>1, <3>2
  <2> QED BY <1>1, <2>1, <2>2, <2>3, WorkLag
<1>7. ASSUME NEW v \in Versions, Turns(v) PROVE link' = flags' \/ \E u \in Versions : Lagging(u)'
  <2>1. Elsewhere(v) /\ job' = job /\ work[v].pc \in Rolling \cup {"flipping"}
    BY <1>0, <1>7, TurnsMoves
  <2>2. CASE Link(v)
    BY <2>2 DEF Link, Repair, rowVars
  <2>3. CASE LinkFails(v)
    BY <1>0, <2>3 DEF LinkFails, Unread, RepairFails, At
  <2>4. CASE Revert(v)
    <3>1. Moved(v, "relinking", work[v].out) /\ At(v, "reverting")
      BY <1>0, <2>4, ActivateMoves
    <3>2. Activating(v)'
      BY <1>0, <2>1, <3>1 DEF Activating, Live, AllPlaced, Placed, Rolling, At, TypeOK
    <3> QED BY <3>1, <3>2 DEF Moved, Lagging, At
  <2>5. CASE Relink(v)
    BY <1>0, <2>5 DEF Relink, Repair, RepairFails, rowVars
  <2>6. CASE \/ FlipFails(v) \/ ChooseTargets(v) \/ ChooseFails(v) \/ RollStop(v) \/ RollStart(v)
             \/ RollHealthy(v) \/ RollFails(v) \/ RevertFails(v)
    <3>1. UNCHANGED <<flags, link, phase>> /\ work[v].pc \notin {"idle", "linking", "relinking"}
      BY <2>6 DEF FlipFails, ChooseTargets, ChooseFails, RollStop, RollStart, RollHealthy, RollFails,
                  RevertFails, rowVars, diskVars, envVars, At
    <3> QED BY <1>1, <2>1, <3>1, WorkLag
  <2> QED BY <1>7, <2>2, <2>3, <2>4, <2>5, <2>6 DEF Turns
<1>8. ASSUME NEW v \in Versions, Flip(v) PROVE link' = flags' \/ \E u \in Versions : Lagging(u)'
  <2>1. work'[v].pc = "linking" /\ ~work'[v].seen
    BY <1>0, <1>8, FlipWork DEF Flip, Cut
  <2>2. Activating(v)
    <3>1. work[v].pc = "flipping"
      BY <1>8 DEF Flip, At
    <3>2. job[v].kind = "activate"
      BY <1>0, <3>1 DEF AllPlaced, Placed
    <3>3. job[v].state = "running"
      BY <1>0, <3>1 DEF TypeOK, At
    <3> QED BY <3>2, <3>3 DEF Activating, Live
  <2>3. Activating(v)'
    BY <1>0, <1>8, <2>2, FlipJob DEF Activating, Live
  <2> QED BY <2>1, <2>3 DEF Lagging, At
<1>9. ASSUME NEW v \in Versions, Heartbeat(v)
      PROVE  link' = flags' \/ \E u \in Versions : Lagging(u)'
  <2>1. /\ Elsewhere(v) /\ work'[v].pc = work[v].pc /\ work[v].pc \notin {"idle", "linking"}
        /\ UNCHANGED <<flags, link, phase, job>>
    BY <1>0, <1>9, HeartbeatWork DEF Heartbeat, At, rowVars, diskVars, envVars
  <2>2. ASSUME NEW u \in Versions, Lagging(u) PROVE Lagging(u)'
    BY <2>1, <2>2 DEF Lagging, Elsewhere, At, Activating, Live
  <2> QED BY <1>1, <2>1, <2>2
<1>10. ASSUME NEW v \in Versions, LeaveRunning(v) PROVE link' = flags' \/ \E u \in Versions : Lagging(u)'
  <2>1. /\ Elsewhere(v) /\ work'[v].pc = "idle" /\ phase = "draining"
        /\ UNCHANGED <<flags, link, phase, job>>
    BY <1>0, <1>10, WorkerRests DEF LeaveRunning, rowVars, diskVars, envVars
  <2>2. ASSUME NEW u \in Versions, Lagging(u) PROVE Lagging(u)'
    BY <2>1, <2>2 DEF Lagging, Elsewhere, At, Activating, Live
  <2> QED BY <1>1, <2>1, <2>2
<1>11. ASSUME NEW i \in Instances, UnitStep(i) PROVE link' = flags' \/ \E v \in Versions : Lagging(v)'
  <2>1. ASSUME NEW u \in Versions, Lagging(u) PROVE Lagging(u)'
    BY <1>11, <2>1, UnitFrame DEF Lagging, At, Activating, Live
  <2> QED BY <1>1, <1>11, <2>1, UnitFrame
<1>12. ASSUME DaemonStep PROVE link' = flags' \/ \E v \in Versions : Lagging(v)'
  <2>1. CASE LeaseExpires
    BY <1>1, <2>1 DEF LeaseExpires, diskVars, envVars, Lagging, At, Activating, Live
  <2>2. CASE Shutdown
    BY <1>1, <2>2 DEF Shutdown, rowVars, diskVars, Lagging, At, Activating, Live
  <2>3. CASE Exit
    BY <1>1, <2>3 DEF Exit, rowVars, diskVars, Lagging, Activating, Live
  <2>4. CASE Boot
    <3>1. \A u \in Versions : Activating(u) => Activating(u)'
      BY <1>0, <2>4, BootJobs DEF Same, Activating, Live
    <3> QED BY <1>1, <2>4, <3>1 DEF Boot, diskVars, Lagging
  <2>5. CASE ReleaseForeignLease
    BY <1>1, <2>5 DEF ReleaseForeignLease, diskVars, Lagging, At, Activating, Live
  <2>6. CASE RepairAtBoot
    BY <2>6 DEF RepairAtBoot, Repair, rowVars
  <2>7. CASE ReconcileFails
    BY <1>0, <2>7 DEF ReconcileFails, RepairFails
  <2>8. CASE Open \/ \E v \in Versions : SettleActivation(v)
    <3>1. phase = "settling" /\ UNCHANGED <<flags, link>>
      BY <2>8 DEF Open, SettleActivation, rowVars, diskVars
    <3>2. \A u \in Versions : ~Lagging(u)
      BY <1>0, <3>1 DEF Resting, Lagging, At
    <3> QED BY <1>0, <3>1, <3>2
  <2> QED BY <1>12, <2>1, <2>2, <2>3, <2>4, <2>5, <2>6, <2>7, <2>8 DEF DaemonStep
<1>13. CASE UNCHANGED vars
  BY <1>1, <1>13 DEF vars, Lagging, At, Activating, Live
<1> QED BY <1>2, <1>3, <1>4, <1>5, <1>6, <1>7, <1>8, <1>9, <1>10, <1>11, <1>12, <1>13, Steps

\* When the daemon serves, no activation is live and nothing has failed, the links
\* point at the flagged rows, whatever a crash, a shutdown or a reverted roll cut
\* short. A cancel that is accepted before the flip and read after it is left out:
\* with it the worker ends between the flip and the links (findings).
THEOREM LinksCatchUp ==
    ASSUME "late_cancel" \notin Liberties
    PROVE  Spec => []LinksFollowRows
<1>1. Init => Unread /\ LinksLag
  BY DEF Init, Unread, LinksLag, Idle, At
<1>2. Shaped /\ OneActivation /\ Unread /\ LinksLag /\ [Next]_vars => (Unread /\ LinksLag)'
  BY UnreadHolds, LinksLagHolds
<1>3. LinksLag => LinksFollowRows
  BY DEF LinksLag, Lagging, LinksFollowRows, Quiet
<1> QED BY <1>1, <1>2, <1>3, Standings, PTL DEF Spec

-----------------------------------------------------------------------------
(* What the links are when an activation gets its verdict.                 *)

\* Between the repair after the flip and a revert, and once a boot has repaired them,
\* the links are what the flags say; a request finds links that are those of old flags.
Linked == {"choosing", "stopping", "settling", "awaiting", "reverting"}
Answered(v) ==
    /\ phase = "settling" => link = flags
    /\ phase \in {"up", "draining"} =>
         /\ Before(v) /\ ~At(v, "relinking") => link \in {job[v].was.link, flags}
         /\ work[v].pc \in Linked => link = flags
         /\ Closing(v, "activate") /\ work[v].out = "succeeded" => link = flags

Answers == faults = 0 => \A v \in Versions : Activating(v) => Answered(v)

\* A step that moves neither flags nor links, and a worker that stays or is gone.
LEMMA AnsweredStays ==
    ASSUME NEW v \in Versions, Answered(v), UNCHANGED <<flags, link>>,
           phase' = phase \/ (phase = "up" /\ phase' = "draining"),
           job'[v].was = job[v].was, job'[v].kind = job[v].kind,
           \/ work'[v].pc = work[v].pc /\ work'[v].out = work[v].out
           \/ work'[v].pc \in {"idle", "flipping"} /\ ~At(v, "relinking")
    PROVE  Answered(v)'
<1>1. Before(v)' = Before(v)
  BY DEF Before, Was
<1>2. CASE work'[v].pc = work[v].pc /\ work'[v].out = work[v].out
  BY <1>1, <1>2 DEF Answered, At, Closing
<1>3. CASE work'[v].pc \in {"idle", "flipping"} /\ ~At(v, "relinking")
  BY <1>1, <1>3 DEF Answered, At, Closing, Linked
<1> QED BY <1>2, <1>3

LEMMA AnsweredAligned == ASSUME NEW v \in Versions, link' = flags' PROVE Answered(v)'
BY DEF Answered

\* The steps of the worker itself.
LEMMA TurnsAnswered ==
    ASSUME Shaped, NEW v \in Versions, Turns(v), Standing(v), Answered(v), ~Fault
    PROVE  Answered(v)'
<1>0. TypeOK /\ Typed /\ Resting
  BY DEF Shaped, Typed
<1>1. /\ work[v].pc \in Rolling \cup {"flipping"} /\ Elsewhere(v) /\ job' = job
  BY <1>0, TurnsMoves
<1>2. phase \in {"up", "draining"} /\ phase' = phase
  <2>1. phase \in {"up", "draining"}
    BY <1>0, <1>1 DEF Resting, At, Rolling
  <2> QED BY <2>1 DEF Turns, FlipFails, Link, LinkFails, ChooseTargets, ChooseFails, RollStop, RollStart,
                      RollHealthy, RollFails, Revert, RevertFails, Relink, envVars
<1>3. CASE FlipFails(v) \/ LinkFails(v)
  <2>1. UNCHANGED <<flags, link>>
    BY <1>3 DEF FlipFails, LinkFails, RepairFails, rowVars, diskVars
  <2>2. /\ work[v].pc \in {"flipping", "linking"} /\ work'[v].pc = "closing"
        /\ work'[v].out \in {"failed", "canceled"}
    BY <1>0, <1>3, ActivateMoves DEF At, Moved
  <2>3. Before(v)' = Before(v)
    BY <1>1, <2>1 DEF Before, Was
  <2> QED BY <1>1, <1>2, <2>1, <2>2, <2>3 DEF Answered, At, Closing, Linked
<1>4. CASE Link(v)
  BY <1>4, AnsweredAligned DEF Link, Repair, rowVars
<1>5. CASE \/ ChooseTargets(v) \/ ChooseFails(v) \/ RollStop(v) \/ RollStart(v)
           \/ RollHealthy(v) \/ RollFails(v)
  <2>1. UNCHANGED <<flags, link>>
    BY <1>5 DEF ChooseTargets, ChooseFails, RollStop, RollStart, RollHealthy, RollFails, rowVars, diskVars
  <2>2. work[v].pc \in Linked
    BY <1>5 DEF ChooseTargets, ChooseFails, RollStop, RollStart, RollHealthy, RollFails, At, Linked
  <2> QED BY <1>2, <2>1, <2>2, AnsweredAligned DEF Answered
<1>6. CASE Revert(v)
  <2>1. work'[v].pc = "relinking"
    BY <1>0, <1>6, ActivateMoves DEF Moved
  <2> QED BY <1>2, <2>1 DEF Answered, At, Closing, Linked
<1>7. ~RevertFails(v)
  BY DEF RevertFails
<1>8. CASE Relink(v)
  BY <1>8, AnsweredAligned DEF Relink, Repair, RepairFails, rowVars
<1> QED BY <1>3, <1>4, <1>5, <1>6, <1>7, <1>8 DEF Turns

LEMMA FlipAnswered ==
    ASSUME Shaped, FlagsFollow, NEW v \in Versions, Flip(v), Activating(v), Answered(v)
    PROVE  Answered(v)'
<1>0. TypeOK /\ Resting
  BY DEF Shaped, Typed
<1>1. /\ At(v, "flipping") /\ UNCHANGED <<link, phase>>
  BY DEF Flip, diskVars, envVars
<1>2. phase \in {"up", "draining"}
  BY <1>0, <1>1 DEF Resting, At
<1>3. job'[v].was = job[v].was /\ work'[v].pc = "linking"
  BY <1>0, FlipJob, FlipWork
<1>4. flags = Was(v)
  BY FlipStanding
<1>5. link \in {job[v].was.link, flags}
  BY <1>1, <1>2, <1>4 DEF Answered, Before, At
<1>6. Before(v)' => flags' = flags
  BY <1>3, <1>4 DEF Before, Was
<1>7. phase' # "settling"
  BY <1>1, <1>2
<1> QED BY <1>1, <1>3, <1>5, <1>6, <1>7 DEF Answered, At, Closing, Linked

LEMMA AnswersHold ==
    ASSUME Shaped, OneActivation, FlagsFollow, Answers, [Next]_vars
    PROVE  Answers'
<1> SUFFICES ASSUME faults' = 0, NEW v \in Versions, Activating(v)' PROVE Answered(v)'
  BY DEF Answers
<1>0. TypeOK /\ Typed /\ AllPlaced /\ Resting /\ faults = 0 /\ ~Fault
  BY StillFine DEF Shaped, Typed
<1>1. ASSUME NEW u \in Versions, Activate(u), u = v PROVE Answered(v)'
  <2>1. job'[v].was.link = link /\ UNCHANGED <<link, work, phase>> /\ phase = "up" /\ ~Live(v)
    BY <1>0, <1>1, ActivateJob DEF Activate, diskVars, envVars, Click
  <2>2. At(v, "idle")
    BY <1>0, <2>1 DEF TypeOK, Live
  <2> QED BY <2>1, <2>2 DEF Answered, At, Closing, Linked
<1>2. ASSUME NEW u \in Versions, Activate(u), u # v PROVE FALSE
  <2>1. job'[v] = job[v] /\ Quiet
    BY <1>0, <1>2, ActivateJob DEF New, Others, Activate
  <2> QED BY <2>1 DEF Quiet, Activating, Live
<1> SUFFICES ASSUME \A u \in Versions : Continued(u) PROVE Answered(v)'
  BY <1>1, <1>2, ActivationsContinue
<1>3. /\ Activating(v) /\ Answered(v) /\ Standing(v) /\ job'[v].was = job[v].was
      /\ job'[v].kind = job[v].kind
  BY <1>0 DEF Continued, Answers, FlagsFollow, Activating
<1>4. ASSUME UNCHANGED <<flags, link>>, phase' = phase \/ (phase = "up" /\ phase' = "draining"),
             work'[v] = work[v]
      PROVE  Answered(v)'
  BY <1>3, <1>4, AnsweredStays
<1>5. ASSUME NEW u \in Versions, Request(u) PROVE Answered(v)'
  <2>1. UNCHANGED <<flags, link, phase, work>>
    BY <1>5 DEF Request, Activate, AskDelete, AskRebuild, Refuse, Delete, Rebuild, Install, Retry,
         CancelRunning, CancelWaiting, rowVars, diskVars, envVars
  <2> QED BY <1>4, <2>1
<1>6. ASSUME NEW u \in Versions, StartInstall(u) \/ StartDelete(u) \/ StartActivate(u) PROVE Answered(v)'
  <2>1. UNCHANGED <<flags, link, phase>> /\ job[u].state = "queued" /\ Elsewhere(u)
    BY <1>0, <1>6, WorkerStarts DEF StartInstall, StartDelete, StartActivate, Start, Pcs, envVars
  <2>2. CASE u # v
    BY <1>4, <2>1, <2>2 DEF Elsewhere
  <2>3. CASE u = v
    <3>1. StartActivate(v)
      BY <1>3, <1>6, <2>3 DEF StartInstall, StartDelete, Activating
    <3>2. work'[v].pc = "flipping" /\ At(v, "idle")
      BY <1>0, <2>1, <2>3, <3>1, WorkerStarts DEF StartActivate, Pcs, TypeOK
    <3> QED BY <1>3, <2>1, <3>2, AnsweredStays DEF At
  <2> QED BY <2>2, <2>3
<1>7. ASSUME NEW u \in Versions, Closes(u) \/ LeaveRunning(u) PROVE Answered(v)'
  <2>1. /\ UNCHANGED <<flags, link, phase>> /\ Elsewhere(u) /\ work'[u].pc = "idle"
        /\ work[u].pc # "relinking"
    BY <1>0, <1>7, ClosesRests, WorkerRests DEF LeaveRunning, rowVars, diskVars, envVars, At
  <2> QED BY <1>3, <1>4, <2>1, AnsweredStays DEF Elsewhere, At
<1>8. ASSUME NEW u \in Versions, Builds(u) \/ Removes(u) PROVE Answered(v)'
  <2>1. UNCHANGED <<flags, link, phase>>
    BY <1>8 DEF Builds, BuildFails, WillNotRun, PublishFresh, Displace, Swap, SwapFails,
                Removes, ReadFlags, ReadCut, CheckUse, CheckFails, RemoveSome, Remove, RemovalFails,
                rowVars, diskVars, envVars
  <2>2. work[u].pc \in {"building", "swapping", "reading", "checking", "removing"}
    BY <1>8 DEF Builds, BuildFails, WillNotRun, PublishFresh, Displace, Swap, SwapFails,
                Removes, ReadFlags, ReadCut, CheckUse, CheckFails, RemoveSome, Remove, RemovalFails, At
  <2>3. u # v
    BY <1>0, <1>3, <2>2 DEF AllPlaced, Placed, Activating
  <2>4. work'[v] = work[v]
    <3>1. CASE Builds(u)
      BY <1>0, <2>3, <3>1, InstallMoves DEF Builds, Moved, Elsewhere
    <3>2. CASE Removes(u)
      BY <1>0, <2>3, <3>2, DeleteMoves DEF Removes, Moved, Elsewhere, RemoveSome
    <3> QED BY <1>8, <3>1, <3>2
  <2> QED BY <1>4, <2>1, <2>4
<1>9. ASSUME NEW u \in Versions, Turns(u) \/ Flip(u) PROVE Answered(v)'
  <2>1. work[u].pc \in Rolling \cup {"flipping"}
    BY <1>0, <1>9, TurnsMoves DEF Flip, At
  <2>2. Activating(u)
    BY <1>0, <2>1 DEF AllPlaced, Placed, Activating, Live, TypeOK, At, Rolling
  <2>3. u = v
    BY <1>3, <2>2 DEF OneActivation
  <2> QED BY <1>0, <1>3, <1>9, <2>3, TurnsAnswered, FlipAnswered
<1>10. ASSUME NEW u \in Versions, Heartbeat(u) PROVE Answered(v)'
  <2>1. /\ Elsewhere(u) /\ work'[u].pc = work[u].pc /\ work'[u].out = work[u].out
        /\ UNCHANGED <<flags, link, phase>>
    BY <1>0, <1>10, HeartbeatWork DEF Heartbeat, rowVars, diskVars, envVars
  <2> QED BY <1>3, <1>4, <2>1, AnsweredStays DEF Elsewhere
<1>11. ASSUME NEW i \in Instances, UnitStep(i) PROVE Answered(v)'
  BY <1>4, <1>11, UnitFrame
<1>12. CASE DaemonStep
  <2>1. CASE LeaseExpires \/ Shutdown
    BY <1>4, <2>1 DEF LeaseExpires, Shutdown, rowVars, diskVars, envVars
  <2>2. CASE Exit \/ Boot \/ ReleaseForeignLease
    <3>1. phase' \in {"down", "releasing", "repairing"}
      BY <2>2 DEF Exit, Boot, ReleaseForeignLease
    <3> QED BY <3>1 DEF Answered
  <2>3. CASE RepairAtBoot
    BY <2>3, AnsweredAligned DEF RepairAtBoot, Repair, rowVars
  <2>4. ~ReconcileFails
    BY <1>0 DEF ReconcileFails, RepairFails
  <2>5. CASE Open \/ \E u \in Versions : SettleActivation(u)
    <3>1. phase = "settling" /\ UNCHANGED <<flags, link>>
      BY <2>5 DEF Open, SettleActivation, rowVars, diskVars
    <3> QED BY <1>3, <3>1, AnsweredAligned DEF Answered
  <2> QED BY <1>12, <2>1, <2>2, <2>3, <2>4, <2>5 DEF DaemonStep
<1>13. CASE UNCHANGED vars
  BY <1>4, <1>13 DEF vars
<1> QED BY <1>5, <1>6, <1>7, <1>8, <1>9, <1>10, <1>11, <1>12, <1>13, Steps

\* The verdict of an activation tells the truth about the build, as long as no write and
\* no link has failed: after a success the target is active and linked, after a failure
\* the rows are those the request found and the links are theirs or caught up with them.
\* Whoever closes the job: the worker after its flip, its roll or its revert, or the
\* boot after a crash between any two of those steps. No liberty is excluded.
THEOREM VerdictIsTrue == Spec => VerdictTellsBuild
<1> DEFINE Tells(v) == faults = 0 =>
             /\ EndsAs(v, "succeeded") => flags'["active"] = v /\ link' = flags'
             /\ EndsAs(v, "failed") => /\ flags' = job[v].was.flags
                                       /\ link' \in {job[v].was.link, flags'}
<1>1. ASSUME Shaped, FlagsFollow, Answers, [Next]_vars, NEW v \in Versions PROVE Tells(v)
  <2>1. ASSUME faults = 0, EndsAs(v, "succeeded") PROVE flags'["active"] = v /\ link' = flags'
    <3>1. Standing(v) /\ Answered(v)
      BY <1>1, <2>1 DEF EndsAs, FlagsFollow, Answers
    <3>2. /\ flags' = flags /\ link' = link
          /\ \/ Closing(v, "activate") /\ work[v].out = "succeeded" /\ phase \in {"up", "draining"}
             \/ phase = "settling" /\ flags["active"] = v
      BY <1>1, <2>1, VerdictSettles
    <3> QED BY <3>1, <3>2 DEF Standing, Answered, Flipped, Turned
  <2>2. ASSUME faults = 0, EndsAs(v, "failed")
        PROVE  flags' = job[v].was.flags /\ link' \in {job[v].was.link, flags'}
    <3>1. Standing(v) /\ Answered(v)
      BY <1>1, <2>2 DEF EndsAs, FlagsFollow, Answers
    <3>2. /\ flags' = flags /\ link' = link
          /\ \/ Closing(v, "activate") /\ work[v].out = "failed" /\ phase \in {"up", "draining"}
             \/ phase = "settling" /\ flags["active"] # v
      BY <1>1, <2>2, VerdictSettles
    <3>3. Before(v)
      BY <2>2, <3>1, <3>2 DEF Standing, Flipped, Turned
    <3> QED BY <3>1, <3>2, <3>3 DEF Answered, Before, Was, Closing, At
  <2> QED BY <2>1, <2>2
<1>2. Shaped /\ FlagsFollow /\ Answers /\ [Next]_vars => [\A v \in Versions : Tells(v)]_vars
  BY <1>1
<1>3. Init => Answers
  BY DEF Init, Answers, Activating, NoJob
<1>4. Shaped /\ OneActivation /\ FlagsFollow /\ Answers /\ [Next]_vars => Answers'
  BY AnswersHold
<1>5. Spec => [][\A v \in Versions : Tells(v)]_vars
  BY <1>2, <1>3, <1>4, Standings, PTL DEF Spec
<1> QED BY <1>5 DEF VerdictTellsBuild

-----------------------------------------------------------------------------
(* No delete of what an activation may come back to.                       *)

Deleting(x) == job[x].kind = "delete" /\ Live(x)

\* A version that holds a flag, or may get one when the activation under way goes on
\* or turns back.
Kept(x) == \/ Flagged(x) \/ Activating(x)
           \/ \E u \in Versions : Activating(u) /\ \E s \in Slots : Was(u)[s] = x

\* A delete whose worker has found no flag.
Doomed(x) == \/ work[x].pc \in {"checking", "removing"}
             \/ Closing(x, "delete") /\ work[x].out \in {"succeeded", "incomplete"}

Spared ==
    /\ ~Quiet => \A x \in Versions : Kept(x) => ~Deleting(x)
    /\ ~Quiet => \A x \in Versions : <<x, "delete">> \notin asked
    /\ \A x \in Versions : Doomed(x) => ~Kept(x)

\* The flags go to the target of the one activation, and back.
LEMMA FlagsMove ==
    ASSUME Shaped, FlagsFollow, [Next]_vars
    PROVE  \/ flags' = flags
           \/ \E v \in Versions : Activating(v) /\ job'[v].was = job[v].was /\ flags' \in {Turned(v), Was(v)}
<1>0. TypeOK /\ Typed /\ AllPlaced
  BY DEF Shaped, Typed
<1>1. ASSUME NEW v \in Versions, Flip(v) \/ Turns(v) PROVE Activating(v)
  <2>1. work[v].pc \in Rolling \cup {"flipping"}
    BY <1>0, <1>1, TurnsMoves DEF Flip, At
  <2> QED BY <1>0, <2>1 DEF AllPlaced, Placed, Activating, Live, TypeOK, At, Rolling
<1>2. ASSUME NEW v \in Versions, Flip(v) PROVE flags' = Turned(v) /\ job'[v].was = job[v].was
  BY <1>0, <1>1, <1>2, FlipStanding, FlipJob
<1>3. ASSUME NEW v \in Versions, Turns(v) PROVE (flags' = flags \/ flags' = Was(v)) /\ job' = job
  BY <1>0, <1>1, <1>3, TurnsStanding, TurnsMoves DEF FlagsFollow
<1>4. ASSUME NEW v \in Versions, Request(v) \/ StartInstall(v) \/ StartDelete(v) \/ StartActivate(v)
      PROVE  flags' = flags
  BY <1>4 DEF Request, Activate, AskDelete, AskRebuild, Refuse, Delete, Rebuild, Install, Retry, CancelRunning,
              CancelWaiting, StartInstall, StartDelete, StartActivate, Start, rowVars
<1>5. ASSUME NEW v \in Versions, Builds(v) \/ Removes(v) \/ Heartbeat(v) \/ LeaveRunning(v)
      PROVE  flags' = flags
  BY <1>5 DEF Builds, BuildFails, WillNotRun, PublishFresh, Displace, Swap, SwapFails, Removes, ReadFlags,
              ReadCut, CheckUse, CheckFails, RemoveSome, Remove, RemovalFails, Heartbeat, LeaveRunning, rowVars
<1>6. DaemonStep => flags' = flags
  BY DEF DaemonStep, LeaseExpires, Shutdown, Exit, Boot, ReleaseForeignLease, RepairAtBoot, ReconcileFails,
              Open, SettleActivation, rowVars
<1> QED BY <1>0, <1>1, <1>2, <1>3, <1>4, <1>5, <1>6, Steps, ClosesRests, UnitFrame DEF vars

\* The target and what it found are all that may hold a flag meanwhile.
LEMMA KeptByActivation ==
    ASSUME NEW v \in Versions, Activating(v), NEW x \in Versions, NEW f \in {Turned(v), Was(v)},
           NEW s \in Slots, f[s] = x
    PROVE  x = v \/ \E r \in Slots : Was(v)[r] = x
<1>1. CASE f = Was(v)
  BY <1>1
<1>2. CASE f = Turned(v)
  BY <1>2, VersionsAssumption DEF Turned, Outgone, Slots
<1> QED BY <1>1, <1>2

LEMMA KeptShrinks ==
    ASSUME Shaped, FlagsFollow, [Next]_vars, \A u \in Versions : Continued(u),
           NEW x \in Versions, Kept(x)'
    PROVE  Kept(x)
<1>1. CASE Activating(x)'
  BY <1>1 DEF Continued, Kept
<1>2. ASSUME NEW u \in Versions, Activating(u)', NEW s \in Slots, Was(u)'[s] = x PROVE Kept(x)
  BY <1>2 DEF Continued, Kept, Was
<1>3. ASSUME NEW s \in Slots, flags'[s] = x PROVE Kept(x)
  <2>1. CASE flags' = flags
    BY <1>3, <2>1 DEF Kept, Flagged
  <2>2. ASSUME NEW v \in Versions, Activating(v), flags' \in {Turned(v), Was(v)} PROVE Kept(x)
    <3>1. x = v \/ \E r \in Slots : Was(v)[r] = x
      BY <1>3, <2>2, KeptByActivation
    <3> QED BY <2>2, <3>1 DEF Kept
  <2> QED BY <2>1, <2>2, FlagsMove
<1>4. Flagged(x)' => \E s \in Slots : flags'[s] = x
  BY DEF Flagged
<1>5. Kept(x)' => \/ Flagged(x)' \/ Activating(x)'
                  \/ \E u \in Versions : Activating(u)' /\ \E s \in Slots : Was(u)'[s] = x
  BY DEF Kept
<1> QED BY <1>1, <1>2, <1>3, <1>4, <1>5

\* Enough for a step that begins no activation: it dooms nothing that is kept, and
\* queues or asks for a delete only when no activation is live after it.
LEMMA SpareFrame ==
    ASSUME Shaped, FlagsFollow, Spared, [Next]_vars, \A u \in Versions : Continued(u),
           \A x \in Versions : Doomed(x)' => Doomed(x) \/ ~Kept(x),
           \/ Quiet'
           \/ /\ \A x \in Versions : Deleting(x)' => Deleting(x)
              /\ \A x \in Versions : <<x, "delete">> \in asked' => <<x, "delete">> \in asked
    PROVE  Spared'
<1>1. \A x \in Versions : Doomed(x)' => ~Kept(x)'
  BY KeptShrinks DEF Spared
<1>2. CASE Quiet'
  BY <1>1, <1>2 DEF Spared
<1>3. CASE ~Quiet'
  <2>1. ~Quiet
    BY <1>3 DEF Quiet, Continued
  <2>2. \A x \in Versions : Kept(x)' => ~Deleting(x)'
    BY <1>3, <2>1, KeptShrinks DEF Spared
  <2>3. \A x \in Versions : <<x, "delete">> \notin asked'
    BY <1>3, <2>1 DEF Spared
  <2> QED BY <1>1, <2>2, <2>3 DEF Spared
<1> QED BY <1>2, <1>3

\* Whoever has no worker, or one that stays where it is, is doomed no more than before.
LEMMA DoomStays ==
    ASSUME NEW x \in Versions, Doomed(x)',
           \/ work'[x].pc = "idle"
           \/ work'[x].pc = work[x].pc /\ work'[x].out = work[x].out /\ job'[x].kind = job[x].kind
    PROVE  Doomed(x)
BY DEF Doomed, Closing, At

LEMMA RequestSpares ==
    ASSUME "overlap" \notin Liberties, Shaped, FlagsFollow, Spared, NEW v \in Versions, Request(v)
    PROVE  Spared'
<1>0. TypeOK /\ work' = work /\ [Next]_vars /\ flags' = flags
  <2>1. TypeOK /\ [Next]_vars
    BY DEF Shaped, Typed, Next
  <2>2. flags' = flags
    BY DEF Request, Activate, AskDelete, AskRebuild, Refuse, Delete, Rebuild, Install, Retry, CancelRunning,
              CancelWaiting, rowVars
  <2> QED BY <2>1, <2>2, RequestKinds
<1>1. \A x \in Versions : Doomed(x)' => Doomed(x)
  BY <1>0, RequestKinds, DoomStays DEF At
<1>2. CASE Activate(v)
  <2>1. /\ New(v, "activate") /\ job'[v].was.flags = flags /\ asked' = asked /\ Quiet
        /\ \A u \in Versions : ~Pending(u)
    BY <1>0, <1>2, ActivateJob DEF Activate, Overlaps
  <2>2. \A u \in Versions \ {v} : ~Activating(u)' /\ job'[u] = job[u]
    BY <2>1 DEF New, Others, Quiet, Activating, Live
  <2>3. ASSUME NEW x \in Versions, Kept(x)' PROVE x = v \/ Flagged(x)
    <3>1. Flagged(x)' => Flagged(x)
      BY <1>0 DEF Flagged
    <3>2. Was(v)' = flags
      BY <2>1 DEF Was
    <3>3. (\E u \in Versions : Activating(u)' /\ \E s \in Slots : Was(u)'[s] = x) => Flagged(x)
      BY <2>2, <3>2 DEF Flagged
    <3> QED BY <2>2, <2>3, <3>1, <3>3 DEF Kept
  <2>4. \A x \in Versions : Flagged(x) => ~Deleting(x)
    BY <2>1 DEF Pending, Deleting
  <2>5. \A x \in Versions : Kept(x)' => ~Deleting(x)'
    BY <2>1, <2>2, <2>3, <2>4 DEF New, Deleting, Live
  <2>6. \A x \in Versions : <<x, "delete">> \notin asked'
    BY <2>1 DEF Pending
  <2>7. \A x \in Versions : Doomed(x)' => ~Kept(x)'
    <3>1. ~Doomed(v)
      <4>1. At(v, "idle")
        BY <1>0, <1>2 DEF Activate, Live, TypeOK
      <4> QED BY <4>1 DEF Doomed, Closing, At
    <3> QED BY <1>1, <2>3, <3>1 DEF Spared, Kept
  <2> QED BY <2>5, <2>6, <2>7 DEF Spared
<1>3. ASSUME ~Activate(v) PROVE Spared'
  <2>1. \A u \in Versions : Continued(u)
    <3>1. CASE Delete(v) \/ Rebuild(v) \/ Install(v) \/ Retry(v)
      <4>1. \E kind \in {"delete", "install"} : New(v, kind)
        BY <1>0, <3>1, EnqueueJob, RetryJob
      <4> QED BY <4>1 DEF New, Others, Continued, Activating, Live
    <3>2. CASE CancelRunning(v) \/ CancelWaiting(v)
      BY <1>0, <3>2, CancelJob, ContinuedTakes DEF Live
    <3>3. CASE job' = job
      BY <3>3 DEF Continued, Activating, Live
    <3> QED BY <1>3, <3>1, <3>2, <3>3 DEF Request, AskDelete, AskRebuild, Refuse, rowVars
  <2>2. CASE AskDelete(v)
    <3>1. Quiet'
      BY <2>1, <2>2 DEF AskDelete, Overlaps, Quiet, Continued
    <3> QED BY <1>0, <1>1, <2>1, <3>1, SpareFrame
  <2>3. CASE Delete(v)
    <3>1. Quiet
      BY <2>3 DEF Delete, Spared
    <3>2. Quiet'
      BY <2>1, <3>1 DEF Quiet, Continued
    <3> QED BY <1>0, <1>1, <2>1, <3>2, SpareFrame
  <2>4. CASE Rebuild(v) \/ Install(v) \/ Retry(v)
    <3>1. New(v, "install") /\ asked' \subseteq asked
      BY <1>0, <2>4, EnqueueJob, RetryJob DEF Rebuild, Install, Retry
    <3>2. \A x \in Versions : Deleting(x)' => Deleting(x)
      BY <3>1 DEF New, Others, Deleting, Live
    <3> QED BY <1>0, <1>1, <2>1, <3>1, <3>2, SpareFrame
  <2>5. CASE CancelRunning(v) \/ CancelWaiting(v)
    <3>1. (Takes(v, "running") /\ job[v].state = "running") \/ Takes(v, "canceled")
      BY <1>0, <2>5, CancelJob
    <3>2. asked' = asked
      BY <2>5 DEF CancelRunning, CancelWaiting
    <3>3. \A x \in Versions : Deleting(x)' => Deleting(x)
      BY <3>1 DEF Takes, Same, Others, Deleting, Live
    <3> QED BY <1>0, <1>1, <2>1, <3>2, <3>3, SpareFrame
  <2>6. CASE AskRebuild(v) \/ Refuse(v)
    <3>1. job' = job /\ \A x \in Versions : <<x, "delete">> \in asked' => <<x, "delete">> \in asked
      BY <2>6 DEF AskRebuild, Refuse, rowVars
    <3>2. \A x \in Versions : Deleting(x)' => Deleting(x)
      BY <3>1 DEF Deleting, Live
    <3> QED BY <1>0, <1>1, <2>1, <3>1, <3>2, SpareFrame
  <2> QED BY <1>3, <2>2, <2>3, <2>4, <2>5, <2>6 DEF Request
<1> QED BY <1>2, <1>3

\* An activation that ends leaves no other.
LEMMA SettledQuiet ==
    ASSUME TypeOK, OneActivation, NEW v \in Versions, Activating(v), \A u \in Versions : Continued(u),
           NEW s \in {"succeeded", "failed", "canceled"}, Settles(v, s)
    PROVE  /\ Quiet' /\ \A x \in Versions : ~At(x, "idle") => job'[x].kind = job[x].kind
           /\ \A x \in Versions : Deleting(x)' => Deleting(x) \/ ~Live(x)
<1>1. ~Activating(v)'
  BY DEF Settles, Takes, Ends, Activating, Live
<1>2. Quiet'
  BY <1>1 DEF Quiet, Continued, OneActivation
<1>3. ASSUME NEW x \in Versions PROVE job'[x] = job[x] \/ Same(x) \/ ~Live(x)
  BY <1>3 DEF Settles, Takes, Others, Ends
<1>4. \A x \in Versions : ~At(x, "idle") => Live(x)
  BY DEF TypeOK, Live
<1> QED BY <1>2, <1>3, <1>4 DEF Same, Deleting

LEMMA CloseSpares ==
    ASSUME Shaped, OneActivation, FlagsFollow, Spared, NEW v \in Versions, Closes(v),
           \A u \in Versions : Continued(u)
    PROVE  Spared'
<1>0. /\ TypeOK /\ AllPlaced /\ [Next]_vars /\ job[v].state = "running" /\ At(v, "closing") /\ Elsewhere(v)
      /\ work'[v].pc = "idle" /\ asked' = asked /\ Placed(v) /\ Live(v)
  BY ClosesRests DEF Shaped, Typed, Next, WorkerStep, Closes, AllPlaced, Live
<1>1. ASSUME \A x \in Versions \ {v} : ~At(x, "idle") => job'[x].kind = job[x].kind
      PROVE  \A x \in Versions : Doomed(x)' => Doomed(x)
  <2>1. ASSUME NEW x \in Versions \ {v}, Doomed(x)' PROVE Doomed(x)
    <3>1. work'[x] = work[x]
      BY <1>0 DEF Elsewhere
    <3> QED BY <1>1, <2>1, <3>1, DoomStays DEF At
  <2> QED BY <1>0, <2>1, DoomStays
<1>2. CASE CloseActivate(v)
  <2>1. work[v].out \in {"succeeded", "failed", "canceled"} /\ Activating(v)
    BY <1>0, <1>2 DEF CloseActivate, Closing, Placed, Activating, Live
  <2>2. Settles(v, work[v].out)
    BY <1>0, <1>2, <2>1, ActivationEnds
  <2> QED BY <1>0, <1>1, <2>1, <2>2, SettledQuiet, SpareFrame
<1>3. ASSUME NEW s, Takes(v, s) PROVE Spared'
  <2>1. \A x \in Versions : Deleting(x)' => Deleting(x)
    BY <1>0, <1>3 DEF Takes, Same, Others, Deleting, Live
  <2>2. \A x \in Versions : job'[x].kind = job[x].kind
    BY <1>3 DEF Takes, Same, Others
  <2> QED BY <1>0, <1>1, <2>1, <2>2, SpareFrame
<1>4. CASE CloseFallback(v)
  <2>1. v \in DOMAIN Replacement
    BY <1>0, <1>4 DEF CloseFallback, Closing, Placed
  <2>2. Ends(v, "failed", Replacement[v], "install")
    BY <1>0, <1>4, <2>1, CloseJob
  <2>3. \A x \in Versions : Deleting(x)' => Deleting(x)
    BY <2>2 DEF Ends, Same, Deleting, Live
  <2>4. \A x \in Versions : ~At(x, "idle") => job'[x].kind = job[x].kind
    <3>1. At(Replacement[v], "idle")
      BY <1>0, <2>2 DEF Ends, Live, TypeOK
    <3> QED BY <2>2, <3>1 DEF Ends, Same
  <2> QED BY <1>0, <1>1, <2>3, <2>4, SpareFrame
<1>5. CASE CloseInstall(v) /\ work[v].out # "fallback"
  BY <1>0, <1>3, <1>5, CloseJob DEF CloseInstall, Closing, Placed, JobStates
<1> QED BY <1>0, <1>2, <1>3, <1>4, <1>5, CloseJob DEF Closes, CloseInstall

LEMMA RemoveSpares ==
    ASSUME Shaped, FlagsFollow, Spared, NEW v \in Versions, Removes(v)
    PROVE  Spared'
<1>0. /\ TypeOK /\ Placed(v) /\ [Next]_vars /\ UNCHANGED <<job, flags, asked>>
      /\ work[v].pc \in {"reading", "checking", "removing"}
  <2>1. TypeOK /\ Placed(v) /\ [Next]_vars
    BY DEF Shaped, Typed, AllPlaced, Next, WorkerStep, Removes
  <2>2. /\ UNCHANGED <<job, flags, asked>>
        /\ work[v].pc \in {"reading", "checking", "removing"}
    BY DEF Removes, ReadFlags, ReadCut, CheckUse, CheckFails, RemoveSome, Remove, RemovalFails, rowVars, At
  <2> QED BY <2>1, <2>2
<1>1. Deleting(v) /\ ~Activating(v)
  BY <1>0 DEF Deleting, Activating, Live, TypeOK, At, Placed
<1>2. \A u \in Versions : Continued(u)
  BY <1>0 DEF Continued, Activating, Live
<1>3. \A x \in Versions : Deleting(x)' => Deleting(x)
  BY <1>0 DEF Deleting, Live
<1>4. Flagged(v) \/ ~Kept(v)
  <2>1. CASE Quiet
    BY <1>1, <2>1 DEF Kept, Quiet
  <2>2. CASE ~Quiet
    BY <1>1, <2>2 DEF Spared
  <2> QED BY <2>1, <2>2
<1>5. Doomed(v)' => Doomed(v) \/ ~Kept(v)
  <2>1. CASE ReadFlags(v)
    BY <1>0, <1>4, <2>1, DeleteMoves DEF Moved, Doomed, Closing, At
  <2>2. CASE ReadCut(v)
    BY <1>0, <2>2, DeleteMoves DEF Moved, Doomed, Closing, At
  <2>3. CASE ~ReadFlags(v) /\ ~ReadCut(v)
    BY <2>3 DEF Removes, CheckUse, CheckFails, RemoveSome, Remove, RemovalFails, Doomed, At
  <2> QED BY <2>1, <2>2, <2>3
<1>6. ASSUME NEW x \in Versions \ {v}, Doomed(x)' PROVE Doomed(x)
  <2>1. work'[x] = work[x]
    <3>1. CASE RemoveSome(v)
      BY <3>1 DEF RemoveSome
    <3>2. CASE ~RemoveSome(v)
      BY <1>0, <3>2, DeleteMoves DEF Removes, Moved, Elsewhere
    <3> QED BY <3>1, <3>2
  <2> QED BY <1>0, <1>6, <2>1, DoomStays
<1>7. \A x \in Versions : Doomed(x)' => Doomed(x) \/ ~Kept(x)
  BY <1>5, <1>6
<1> QED BY <1>0, <1>2, <1>3, <1>7, SpareFrame

LEMMA SparedHolds ==
    ASSUME "overlap" \notin Liberties, Shaped, OneActivation, FlagsFollow, Spared, [Next]_vars
    PROVE  Spared'
<1>0. TypeOK /\ Typed /\ AllPlaced /\ Resting
  BY DEF Shaped, Typed
<1> SUFFICES ASSUME \A u \in Versions : Continued(u) PROVE Spared'
  BY RequestSpares, ActivationsContinue DEF Request
<1>1. ASSUME NEW v \in Versions, job' = job, asked' = asked, Elsewhere(v), Doomed(v)' => Doomed(v)
      PROVE  Spared'
  <2>1. \A x \in Versions : Deleting(x)' => Deleting(x)
    BY <1>1 DEF Deleting, Live
  <2>2. ASSUME NEW x \in Versions \ {v}, Doomed(x)' PROVE Doomed(x)
    BY <1>1, <2>2, DoomStays DEF Elsewhere
  <2> QED BY <1>1, <2>1, <2>2, SpareFrame
<1>2. ASSUME NEW v \in Versions, StartInstall(v) \/ StartDelete(v) \/ StartActivate(v) PROVE Spared'
  <2>1. /\ Takes(v, "running") /\ job[v].state = "queued" /\ asked' = asked /\ Elsewhere(v)
        /\ work'[v].pc \in {"building", "reading", "flipping"}
    BY <1>0, <1>2, StartJob, WorkerStarts DEF StartInstall, StartDelete, StartActivate, Start, Pcs
  <2>2. \A x \in Versions : Deleting(x)' => Deleting(x)
    BY <2>1 DEF Takes, Same, Others, Deleting, Live
  <2>3. ASSUME NEW x \in Versions, Doomed(x)' PROVE Doomed(x)
    <3>1. CASE x = v
      BY <2>1, <2>3, <3>1 DEF Doomed, Closing, At
    <3>2. CASE x # v
      BY <2>1, <2>3, <3>2, DoomStays DEF Takes, Others, Elsewhere
    <3> QED BY <3>1, <3>2
  <2> QED BY <2>1, <2>2, <2>3, SpareFrame
<1>3. ASSUME NEW v \in Versions, Builds(v) PROVE Spared'
  <2>1. job' = job /\ asked' = asked
    BY <1>3 DEF Builds, BuildFails, WillNotRun, PublishFresh, Displace, Swap, SwapFails, rowVars
  <2>2. Elsewhere(v) /\ work'[v].pc \in {"swapping", "closing"} /\ work[v].pc \in {"building", "swapping"}
    BY <1>0, <1>3, InstallMoves DEF Builds, Moved, At
  <2>3. job[v].kind = "install"
    BY <1>0, <2>2 DEF AllPlaced, Placed
  <2> QED BY <1>1, <2>1, <2>2, <2>3 DEF Doomed, Closing
<1>4. ASSUME NEW v \in Versions, Turns(v) PROVE Spared'
  <2>1. asked' = asked
    BY <1>4 DEF Turns, FlipFails, Link, LinkFails, ChooseTargets, ChooseFails, RollStop, RollStart,
       RollHealthy, RollFails, Revert, RevertFails, Relink
  <2>2. /\ work[v].pc \in Rolling \cup {"flipping"} /\ Elsewhere(v) /\ job' = job
        /\ work'[v].pc \in (Rolling \ {"linking"}) \cup {"closing"}
    BY <1>0, <1>4, TurnsMoves
  <2>3. job[v].kind = "activate"
    BY <1>0, <2>2 DEF AllPlaced, Placed
  <2> QED BY <1>1, <2>1, <2>2, <2>3 DEF Doomed, Closing, Rolling
<1>5. ASSUME NEW v \in Versions, Flip(v) PROVE Spared'
  <2>1. /\ Elsewhere(v) /\ work'[v].pc = "linking" /\ asked' = asked
        /\ \A u \in Versions : job'[u].kind = job[u].kind /\ job'[u].state = job[u].state
    BY <1>0, <1>5, FlipWork, FlipJob DEF Flip, Others
  <2>2. \A x \in Versions : Deleting(x)' => Deleting(x)
    BY <2>1 DEF Deleting, Live
  <2>3. ASSUME NEW x \in Versions, Doomed(x)' PROVE Doomed(x)
    <3>1. CASE x = v
      BY <2>1, <2>3, <3>1 DEF Doomed, Closing, At
    <3>2. CASE x # v
      BY <2>1, <2>3, <3>2, DoomStays DEF Elsewhere
    <3> QED BY <3>1, <3>2
  <2> QED BY <2>1, <2>2, <2>3, SpareFrame
<1>6. ASSUME NEW v \in Versions, Heartbeat(v) \/ LeaveRunning(v) PROVE Spared'
  <2>1. job' = job /\ asked' = asked
    BY <1>6 DEF Heartbeat, LeaveRunning, rowVars
  <2>2. Elsewhere(v) /\ (work'[v].pc = "idle" \/ (work'[v].pc = work[v].pc /\ work'[v].out = work[v].out))
    BY <1>0, <1>6, HeartbeatWork, WorkerRests DEF LeaveRunning
  <2>3. Doomed(v)' => Doomed(v)
    BY <2>1, <2>2, DoomStays
  <2> QED BY <1>1, <2>1, <2>2, <2>3
<1>7. CASE UNCHANGED <<job, work, asked>>
  <2>1. \A x \in Versions : Deleting(x)' => Deleting(x)
    BY <1>7 DEF Deleting, Live
  <2>2. \A x \in Versions : Doomed(x)' => Doomed(x)
    BY <1>7, DoomStays
  <2> QED BY <1>7, <2>1, <2>2, SpareFrame
<1>8. CASE Exit
  <2>1. job' = job /\ asked' = {} /\ \A x \in Versions : work'[x].pc = "idle"
    BY <1>8, Rested DEF Exit, rowVars
  <2>2. \A x \in Versions : Deleting(x)' => Deleting(x)
    BY <2>1 DEF Deleting, Live
  <2>3. \A x \in Versions : Doomed(x)' => Doomed(x)
    BY <2>1, DoomStays
  <2> QED BY <2>1, <2>2, <2>3, SpareFrame
<1>9. CASE Boot
  <2>1. work' = work /\ asked' = asked
    BY <1>9 DEF Boot
  <2>2. \A x \in Versions : job'[x].kind = job[x].kind /\ (Live(x)' => Live(x))
    BY <1>0, <1>9, BootJobs DEF Same, Live
  <2>3. \A x \in Versions : Deleting(x)' => Deleting(x)
    BY <2>2 DEF Deleting
  <2>4. \A x \in Versions : Doomed(x)' => Doomed(x)
    BY <2>1, <2>2, DoomStays
  <2> QED BY <2>1, <2>3, <2>4, SpareFrame
<1>10. ASSUME NEW v \in Versions, SettleActivation(v) PROVE Spared'
  <2>1. Settles(v, "succeeded") \/ Settles(v, "failed")
    BY <1>0, <1>10, ActivationEnds
  <2>2. Activating(v) /\ work' = work
    BY <1>10 DEF SettleActivation, Unsettled, Activating, Live
  <2>3. Quiet' /\ \A x \in Versions : ~At(x, "idle") => job'[x].kind = job[x].kind
    BY <1>0, <2>1, <2>2, SettledQuiet
  <2>4. \A x \in Versions : Doomed(x)' => Doomed(x)
    BY <2>2, <2>3, DoomStays DEF At
  <2> QED BY <2>3, <2>4, SpareFrame
<1>11. ASSUME DaemonStep, ~Exit, ~Boot, ~\E v \in Versions : SettleActivation(v)
       PROVE  UNCHANGED <<job, work, asked>>
  BY <1>11 DEF DaemonStep, LeaseExpires, Shutdown, ReleaseForeignLease, RepairAtBoot, ReconcileFails, Open, rowVars
<1>12. ASSUME NEW i \in Instances, UnitStep(i) PROVE UNCHANGED <<job, work, asked>>
  BY <1>12, UnitFrame
<1>13. UNCHANGED vars => UNCHANGED <<job, work, asked>>
  BY DEF vars
<1> QED BY <1>2, <1>3, <1>4, <1>5, <1>6, <1>7, <1>8, <1>9, <1>10, <1>11, <1>12, <1>13, Steps, RequestSpares,
           CloseSpares, RemoveSpares

-----------------------------------------------------------------------------
(* No directory is taken from under a process.                             *)

\* What a link names is kept: it may not be removed.
LinksKept == faults = 0 => \A s \in Slots : link[s] # NoVersion => Kept(link[s])

LEMMA LinkMoves ==
    ASSUME Shaped, Unread, [Next]_vars, ~Fault
    PROVE  link' = link \/ link' = flags
<1>1. ASSUME NEW v \in Versions, Request(v) \/ StartInstall(v) \/ StartDelete(v) \/ StartActivate(v)
      PROVE  link' = link
  BY <1>1 DEF Request, Activate, AskDelete, AskRebuild, Refuse, Delete, Rebuild, Install, Retry, CancelRunning,
              CancelWaiting, StartInstall, StartDelete, StartActivate, Start, diskVars
<1>2. ASSUME NEW v \in Versions, Builds(v) \/ Removes(v) \/ Flip(v) \/ Heartbeat(v) \/ LeaveRunning(v)
      PROVE  link' = link
  BY <1>2 DEF Builds, BuildFails, WillNotRun, PublishFresh, Displace, Swap, SwapFails, Removes, ReadFlags,
              ReadCut, CheckUse, CheckFails, RemoveSome, Remove, RemovalFails, Flip, Heartbeat, LeaveRunning,
              diskVars
<1>3. ASSUME NEW v \in Versions, Turns(v) PROVE link' = link \/ link' = flags
  <2>1. CASE Link(v) \/ LinkFails(v) \/ Relink(v)
    BY <2>1 DEF Link, LinkFails, Relink, Repair, RepairFails, Unread
  <2>2. CASE ~Link(v) /\ ~LinkFails(v) /\ ~Relink(v)
    BY <1>3, <2>2 DEF Turns, FlipFails, ChooseTargets, ChooseFails, RollStop, RollStart, RollHealthy, RollFails,
                      Revert, RevertFails, diskVars
  <2> QED BY <2>1, <2>2
<1>4. DaemonStep => link' = link \/ link' = flags
  BY DEF DaemonStep, LeaseExpires, Shutdown, Exit, Boot, ReleaseForeignLease, RepairAtBoot, ReconcileFails,
              Open, SettleActivation, diskVars, Repair, RepairFails
<1>5. ASSUME NEW v \in Versions, Closes(v) PROVE link' = link
  BY <1>5, ClosesRests DEF Shaped, Typed, diskVars
<1> QED BY <1>1, <1>2, <1>3, <1>4, <1>5, Steps, UnitFrame DEF vars

\* While the activation stays, so does what it keeps.
LEMMA KeptStays ==
    ASSUME Shaped, OneActivation, FlagsFollow, NEW v \in Versions, Activating(v), Activating(v)',
           job'[v].was = job[v].was, NEW x \in Versions, Kept(x)
    PROVE  Kept(x)'
<1>1. x = v \/ \E s \in Slots : Was(v)[s] = x
  <2>1. CASE Flagged(x)
    <3>1. flags \in {Turned(v), Was(v)}
      BY DEF FlagsFollow, Standing, Before, Flipped
    <3> QED BY <2>1, <3>1, KeptByActivation DEF Flagged
  <2>2. CASE ~Flagged(x)
    BY <2>2 DEF Kept, OneActivation
  <2> QED BY <2>1, <2>2
<1>2. Was(v)' = Was(v)
  BY DEF Was
<1>3. x = v => Kept(x)'
  BY DEF Kept
<1>4. (\E s \in Slots : Was(v)[s] = x) => Kept(x)'
  BY <1>2 DEF Kept
<1> QED BY <1>1, <1>3, <1>4

LEMMA LinksKeptHolds ==
    ASSUME "late_cancel" \notin Liberties, Shaped, OneActivation, FlagsFollow, Unread, LinksLag, LinksKept,
           [Next]_vars
    PROVE  LinksKept'
<1> SUFFICES ASSUME faults' = 0, NEW s \in Slots, NEW x \in Versions, link'[s] = x PROVE Kept(x)'
  <2>1. TypeOK'
    BY TypedHolds DEF Shaped, Typed
  <2>2. \A s \in Slots : link'[s] \in Versions \cup {NoVersion}
    BY <2>1 DEF TypeOK, Flags
  <2> QED BY <2>2 DEF LinksKept
<1>0. /\ TypeOK /\ faults = 0 /\ ~Fault
      /\ link' = flags' \/ \E v \in Versions : Lagging(v)'
  BY StillFine, LinksLagHolds DEF Shaped, Typed, LinksLag
<1>1. CASE link' = flags'
  <2>1. flags'[s] = x
    BY <1>1
  <2> QED BY <2>1 DEF Kept, Flagged
<1>2. ASSUME NEW v \in Versions, Lagging(v)' PROVE Kept(x)'
  <2>1. Kept(x)
    <3>1. CASE link' = link
      <4>1. x # NoVersion
        BY VersionsAssumption
      <4> QED BY <1>0, <3>1, <4>1 DEF LinksKept
    <3>2. CASE link' = flags
      BY <3>2 DEF Kept, Flagged
    <3> QED BY <1>0, <3>1, <3>2, LinkMoves
  <2>2. Activating(v)'
    BY <1>2 DEF Lagging
  <2>3. CASE Continued(v)
    <3>1. Activating(v) /\ job'[v].was = job[v].was
      BY <2>2, <2>3 DEF Continued
    <3> QED BY <2>1, <2>2, <3>1, KeptStays
  <2>4. ASSUME NEW u \in Versions, Activate(u) PROVE Kept(x)'
    <3>1. flags' = flags /\ Quiet
      BY <2>4 DEF Activate
    <3>2. Flagged(x)
      BY <2>1, <3>1 DEF Kept, Quiet
    <3>3. Flagged(x)'
      BY <3>1, <3>2 DEF Flagged
    <3> QED BY <3>3 DEF Kept
  <2> QED BY <2>3, <2>4, ActivationsContinue
<1> QED BY <1>0, <1>1, <1>2

\* Between the two renames of a swap there is no directory.
Aside == \A v \in Versions : At(v, "swapping") => tree[v] = "gone"

\* A directory that a process executes out of is whole, and no removal is under way.
Unharmed == faults = 0 => \A v \in Versions : InUse(v) => tree[v] = "whole" /\ ~At(v, "removing")

\* What the steps do to the directories.
LEMMA TreeMoves ==
    ASSUME Shaped, [Next]_vars
    PROVE  \/ UNCHANGED <<tree, hollow>>
           \/ \E v \in Versions :
                /\ PublishFresh(v) \/ Displace(v) \/ Swap(v) \/ SwapFails(v) \/ RemoveSome(v) \/ Remove(v)
                /\ \A u \in Versions \ {v} : tree'[u] = tree[u] /\ (u \in hollow' <=> u \in hollow)
                /\ hollow' \in {hollow, hollow \ {v}}
           \/ \E v \in Versions : StartDelete(v) /\ tree' = tree
<1>0. TypeOK /\ tree \in [Versions -> {"gone", "partial", "whole"}]
  BY Types DEF Shaped, Typed
<1>1. ASSUME NEW v \in Versions, Request(v) \/ StartInstall(v) \/ StartActivate(v)
      PROVE  UNCHANGED <<tree, hollow>>
  BY <1>1 DEF Request, Activate, AskDelete, AskRebuild, Refuse, Delete, Rebuild, Install, Retry, CancelRunning,
              CancelWaiting, StartInstall, StartActivate, Start, diskVars
<1>2. ASSUME NEW v \in Versions, StartDelete(v) PROVE tree' = tree
  BY <1>2 DEF StartDelete, Start
<1>3. ASSUME NEW v \in Versions,
             PublishFresh(v) \/ Displace(v) \/ Swap(v) \/ SwapFails(v) \/ RemoveSome(v) \/ Remove(v)
      PROVE  /\ \A u \in Versions \ {v} : tree'[u] = tree[u] /\ (u \in hollow' <=> u \in hollow)
             /\ hollow' \in {hollow, hollow \ {v}}
  BY <1>0, <1>3 DEF PublishFresh, Displace, Swap, SwapFails, RemoveSome, Remove
<1>4. ASSUME NEW v \in Versions, \/ BuildFails(v) \/ WillNotRun(v) \/ ReadFlags(v) \/ ReadCut(v) \/ CheckUse(v)
                                 \/ CheckFails(v) \/ RemovalFails(v) \/ Heartbeat(v) \/ LeaveRunning(v) \/ Flip(v)
      PROVE  UNCHANGED <<tree, hollow>>
  BY <1>4 DEF BuildFails, WillNotRun, ReadFlags, ReadCut, CheckUse, CheckFails, RemovalFails, Heartbeat,
              LeaveRunning, Flip, diskVars
<1>5. ASSUME NEW v \in Versions, Turns(v) PROVE UNCHANGED <<tree, hollow>>
  BY <1>5 DEF Turns, FlipFails, Link, LinkFails, ChooseTargets, ChooseFails, RollStop, RollStart, RollHealthy,
              RollFails, Revert, RevertFails, Relink, diskVars
<1>6. ASSUME NEW v \in Versions, Closes(v) PROVE UNCHANGED <<tree, hollow>>
  BY <1>0, <1>6, ClosesRests DEF diskVars
<1>7. DaemonStep => UNCHANGED <<tree, hollow>>
  BY DEF DaemonStep, LeaseExpires, Shutdown, Exit, Boot, ReleaseForeignLease, RepairAtBoot, ReconcileFails,
              Open, SettleActivation, diskVars
<1>8. ASSUME NEW v \in Versions, Builds(v) \/ Removes(v)
      PROVE  \/ UNCHANGED <<tree, hollow>>
             \/ PublishFresh(v) \/ Displace(v) \/ Swap(v) \/ SwapFails(v) \/ RemoveSome(v) \/ Remove(v)
  BY <1>4, <1>8 DEF Builds, Removes
<1> QED BY <1>1, <1>2, <1>3, <1>4, <1>5, <1>6, <1>7, <1>8, Steps, UnitFrame DEF vars

\* Who gets where: to the swap by Displace, to the removal by the guard.
LEMMA WhoStands ==
    ASSUME Shaped, [Next]_vars, NEW v \in Versions
    PROVE  /\ At(v, "swapping")' => Displace(v) \/ At(v, "swapping")
           /\ At(v, "removing")' => \/ At(v, "removing")
                                    \/ CheckUse(v) /\ (tree[v] = "gone" \/ ~InUse(v))
<1> DEFINE Goal == /\ At(v, "swapping")' => Displace(v) \/ At(v, "swapping")
                   /\ At(v, "removing")' => \/ At(v, "removing")
                                            \/ CheckUse(v) /\ (tree[v] = "gone" \/ ~InUse(v))
<1>0. TypeOK /\ Typed
  BY DEF Shaped, Typed
<1>1. work'[v] = work[v] \/ work'[v].pc \notin {"swapping", "removing"} => Goal
  BY DEF At
<1>2. ASSUME NEW u \in Versions, StartInstall(u) \/ StartDelete(u) \/ StartActivate(u) PROVE Goal
  <2>1. Elsewhere(u) /\ work'[u].pc \in {"building", "reading", "flipping"}
    BY <1>0, <1>2, WorkerStarts DEF StartInstall, StartDelete, StartActivate, Pcs
  <2> QED BY <1>1, <2>1 DEF Elsewhere
<1>3. ASSUME NEW u \in Versions, Closes(u) PROVE Goal
  <2>1. Elsewhere(u) /\ work'[u].pc = "idle"
    BY <1>0, <1>3, ClosesRests
  <2> QED BY <1>1, <2>1 DEF Elsewhere
<1>4. ASSUME NEW u \in Versions, Builds(u) PROVE Goal
  <2>1. Elsewhere(u) /\ (Displace(u) \/ work'[u].pc = "closing") /\ work'[u].pc # "removing"
    BY <1>0, <1>4, InstallMoves DEF Builds, Moved
  <2> QED BY <1>1, <2>1 DEF Elsewhere, At
<1>5. ASSUME NEW u \in Versions, Removes(u) PROVE Goal
  <2>1. CASE RemoveSome(u)
    BY <1>1, <2>1 DEF RemoveSome
  <2>2. CASE CheckUse(u)
    <3>1. Elsewhere(u) /\ \/ work'[u].pc = "closing"
                          \/ work'[u].pc = "removing" /\ (tree[u] = "gone" \/ ~InUse(u))
      BY <1>0, <2>2, DeleteMoves DEF Moved
    <3> QED BY <1>1, <2>2, <3>1 DEF Elsewhere, At
  <2>3. CASE ~RemoveSome(u) /\ ~CheckUse(u)
    <3>1. Elsewhere(u) /\ work'[u].pc \in {"closing", "checking"}
      BY <1>0, <1>5, <2>3, DeleteMoves DEF Moved, Removes
    <3> QED BY <1>1, <3>1 DEF Elsewhere
  <2> QED BY <2>1, <2>2, <2>3
<1>6. ASSUME NEW u \in Versions, Turns(u) PROVE Goal
  <2>1. Elsewhere(u) /\ work'[u].pc \notin {"swapping", "removing"}
    BY <1>0, <1>6, TurnsMoves DEF Rolling
  <2> QED BY <1>1, <2>1 DEF Elsewhere
<1>7. ASSUME NEW u \in Versions, Flip(u) PROVE Goal
  <2>1. Elsewhere(u) /\ work'[u].pc = "linking"
    BY <1>0, <1>7, FlipWork
  <2> QED BY <1>1, <2>1 DEF Elsewhere
<1>8. ASSUME NEW u \in Versions, Heartbeat(u) \/ LeaveRunning(u) PROVE Goal
  <2>1. Elsewhere(u) /\ (work'[u].pc = "idle" \/ work'[u].pc = work[u].pc)
    BY <1>0, <1>8, HeartbeatWork, WorkerRests DEF LeaveRunning
  <2> QED BY <1>1, <2>1 DEF Elsewhere, At
<1>9. DaemonStep => Goal
  <2>1. CASE Exit
    BY <1>1, <2>1, Rested
  <2>2. DaemonStep /\ ~Exit => work' = work
    BY DEF DaemonStep, LeaseExpires, Shutdown, Boot, ReleaseForeignLease, RepairAtBoot, ReconcileFails,
              Open, SettleActivation
  <2> QED BY <1>1, <2>1, <2>2
<1> QED BY <1>0, <1>1, <1>2, <1>3, <1>4, <1>5, <1>6, <1>7, <1>8, <1>9, Steps, RequestKinds, UnitFrame DEF vars

\* A process that executes out of a directory did so before, or was just launched there.
LEMMA WhoUses ==
    ASSUME Shaped, [Next]_vars, NEW v \in Versions, InUse(v)'
    PROVE  \/ InUse(v)
           \/ /\ UNCHANGED <<tree, work, faults, job>>
              /\ tree[v] = "whole" /\ link["active"] = v
<1>0. TypeOK /\ Typed
  BY DEF Shaped, Typed
<1>1. PICK i \in Instances : inst'[i].proc = "serving" /\ inst'[i].dir = v
  BY DEF InUse
<1>2. ASSUME inst'[i].proc = inst[i].proc, inst'[i].dir = inst[i].dir PROVE InUse(v)
  BY <1>1, <1>2 DEF InUse
<1>3. ASSUME NEW j \in Instances, UnitStep(j)
      PROVE  \/ InUse(v)
             \/ /\ UNCHANGED <<tree, work, faults, job>>
                /\ tree[v] = "whole" /\ link["active"] = v
  <2>1. CASE i = j
    BY <1>0, <1>1, <1>3, <2>1, UnitMoves, UnitFrame
  <2>2. CASE i # j
    BY <1>0, <1>2, <1>3, <2>2, UnitMoves
  <2> QED BY <2>1, <2>2
<1>4. ASSUME NEW u \in Versions, Turns(u) PROVE InUse(v)
  BY <1>0, <1>2, <1>4, TurnsInst
<1>5. ASSUME NEW u \in Versions, Request(u) \/ StartInstall(u) \/ StartDelete(u) \/ StartActivate(u)
      PROVE  inst' = inst
  BY <1>5 DEF Request, Activate, AskDelete, AskRebuild, Refuse, Delete, Rebuild, Install, Retry, CancelRunning,
              CancelWaiting, StartInstall, StartDelete, StartActivate, Start
<1>6. ASSUME NEW u \in Versions, Builds(u) \/ Removes(u) \/ Flip(u) \/ Heartbeat(u) \/ LeaveRunning(u)
      PROVE  inst' = inst
  BY <1>6 DEF Builds, BuildFails, WillNotRun, PublishFresh, Displace, Swap, SwapFails, Removes, ReadFlags,
              ReadCut, CheckUse, CheckFails, RemoveSome, Remove, RemovalFails, Flip, Heartbeat, LeaveRunning
<1>7. ASSUME NEW u \in Versions, Closes(u) PROVE inst' = inst
  BY <1>0, <1>7, ClosesRests
<1>8. DaemonStep => inst' = inst
  BY DEF DaemonStep, LeaseExpires, Shutdown, Exit, Boot, ReleaseForeignLease, RepairAtBoot, ReconcileFails,
              Open, SettleActivation
<1>9. inst' = inst => InUse(v)
  BY <1>2
<1> QED BY <1>3, <1>4, <1>5, <1>6, <1>7, <1>8, <1>9, Steps DEF vars

LEMMA AsideHolds ==
    ASSUME Shaped, Aside, [Next]_vars
    PROVE  Aside'
<1>0. TypeOK /\ Typed /\ tree \in [Versions -> {"gone", "partial", "whole"}]
  BY Types DEF Shaped, Typed
<1> SUFFICES ASSUME NEW v \in Versions, At(v, "swapping")' PROVE tree'[v] = "gone"
  BY DEF Aside
<1>1. CASE Displace(v)
  BY <1>0, <1>1 DEF Displace
<1>2. CASE At(v, "swapping")
  <2>1. ASSUME PublishFresh(v) \/ Displace(v) \/ Swap(v) \/ SwapFails(v) \/ RemoveSome(v) \/ Remove(v)
        PROVE  FALSE
    <3>1. Swap(v) \/ SwapFails(v)
      BY <1>2, <2>1 DEF PublishFresh, Displace, RemoveSome, Remove, At
    <3> QED BY <1>0, <3>1, InstallMoves DEF Moved, At
  <2>2. tree'[v] = tree[v]
    BY <2>1, TreeMoves
  <2> QED BY <1>2, <2>2 DEF Aside
<1> QED BY <1>1, <1>2, WhoStands

LEMMA UnharmedHolds ==
    ASSUME Shaped, Spared, LinksKept, Aside, Unharmed, [Next]_vars
    PROVE  Unharmed'
<1>0. TypeOK /\ Typed /\ tree \in [Versions -> {"gone", "partial", "whole"}]
  BY Types DEF Shaped, Typed
<1> SUFFICES ASSUME faults' = 0, NEW v \in Versions, InUse(v)'
             PROVE  tree'[v] = "whole" /\ ~At(v, "removing")'
  BY DEF Unharmed
<1>1. faults = 0 /\ ~Fault
  BY <1>0, StillFine
<1>2. CASE InUse(v)
  <2>1. tree[v] = "whole" /\ ~At(v, "removing") /\ ~At(v, "swapping")
    BY <1>1, <1>2 DEF Unharmed, Aside
  <2>2. ~At(v, "removing")'
    BY <1>2, <2>1, WhoStands
  <2>3. ASSUME PublishFresh(v) \/ Displace(v) \/ Swap(v) \/ SwapFails(v) \/ RemoveSome(v) \/ Remove(v)
        PROVE  FALSE
    BY <1>2, <2>1, <2>3 DEF PublishFresh, Displace, Swap, SwapFails, RemoveSome, Remove
  <2> QED BY <2>1, <2>2, <2>3, TreeMoves
<1>3. CASE tree[v] = "whole" /\ link["active"] = v /\ UNCHANGED <<tree, work, faults, job>>
  <2>1. Kept(v)
    <3>1. v # NoVersion /\ "active" \in Slots
      BY VersionsAssumption DEF Slots
    <3> QED BY <1>1, <1>3, <3>1 DEF LinksKept
  <2>2. ~At(v, "removing")
    BY <2>1 DEF Spared, Doomed, At
  <2> QED BY <1>3, <2>2 DEF At
<1> QED BY <1>2, <1>3, WhoUses

Undisturbed == Shaped /\ OneActivation /\ FlagsFollow /\ Unread /\ LinksLag
Untouched == Spared /\ LinksKept /\ Aside /\ Unharmed

\* No directory is taken from under a process, neither by the delete whose guard looked
\* before nor by the swap of a rebuild, as long as nothing fails. What users do by hand
\* beside an activation, and a cancel that is read late, are left out (findings).
THEOREM ProcessesSpared ==
    ASSUME Liberties = {}
    PROVE  Spec => SparesProcesses
<1>1. Init => Undisturbed /\ Untouched
  <2>1. ASSUME Init PROVE Undisturbed
    <3>1. Init => Shaped
      BY PlacedIdle, InitTyped DEF Init, Shaped, AllPlaced, Resting, Placed, Closing, At, Rolling, Idle
    <3>2. Init => OneActivation /\ FlagsFollow
      BY VersionsAssumption DEF Init, OneActivation, FlagsFollow, Apart, Activating, NoJob, Live
    <3>3. Init => Unread /\ LinksLag
      BY DEF Init, Unread, LinksLag, Idle, At
    <3> QED BY <2>1, <3>1, <3>2, <3>3 DEF Undisturbed
  <2>2. ASSUME Init PROVE Quiet /\ asked = {} /\ \A v \in Versions : At(v, "idle") /\ ~InUse(v)
    BY <2>2 DEF Init, Quiet, Activating, Live, NoJob, At, Idle, InUse
  <2>3. ASSUME Init PROVE LinksKept
    BY <2>3 DEF Init, LinksKept, Kept, Flagged, Slots
  <2>4. ASSUME Init PROVE Spared /\ Aside /\ Unharmed
    BY <2>2, <2>4 DEF Spared, Doomed, Closing, At, Aside, Unharmed
  <2> QED BY <2>1, <2>3, <2>4 DEF Untouched
<1>2. Undisturbed /\ Untouched /\ [Next]_vars => (Undisturbed /\ Untouched)'
  <2> SUFFICES ASSUME Undisturbed, Untouched, [Next]_vars PROVE (Undisturbed /\ Untouched)'
    OBVIOUS
  <2>0. "late_cancel" \notin Liberties /\ "overlap" \notin Liberties
    OBVIOUS
  <2>1. Shaped'
    BY TypedHolds, PlacedHolds, RestingHolds DEF Undisturbed, Shaped
  <2>2. OneActivation' /\ FlagsFollow'
    BY OneActivationHolds, FlagsFollowHolds DEF Undisturbed
  <2>3. Unread' /\ LinksLag'
    BY <2>0, UnreadHolds, LinksLagHolds DEF Undisturbed
  <2>4. Spared'
    BY <2>0, SparedHolds DEF Undisturbed, Untouched
  <2>5. LinksKept'
    BY <2>0, LinksKeptHolds DEF Undisturbed, Untouched
  <2>6. Aside' /\ Unharmed'
    BY AsideHolds, UnharmedHolds DEF Undisturbed, Untouched
  <2> QED BY <2>1, <2>2, <2>3, <2>4, <2>5, <2>6 DEF Undisturbed, Untouched
<1>3. ASSUME Undisturbed, Untouched, [Next]_vars, NEW v \in Versions, faults = 0, InUse(v)
      PROVE  tree'[v] = tree[v]
  <2>1. Shaped /\ tree[v] = "whole" /\ ~At(v, "removing") /\ ~At(v, "swapping")
    BY <1>3 DEF Undisturbed, Untouched, Unharmed, Aside
  <2>2. ~(PublishFresh(v) \/ Displace(v) \/ Swap(v) \/ SwapFails(v) \/ RemoveSome(v) \/ Remove(v))
    BY <1>3, <2>1 DEF PublishFresh, Displace, Swap, SwapFails, RemoveSome, Remove
  <2> QED BY <1>3, <2>1, <2>2, TreeMoves
<1>4. Undisturbed /\ Untouched /\ [Next]_vars
        => [\A v \in Versions : faults = 0 /\ InUse(v) => tree'[v] = tree[v]]_vars
  BY <1>3
<1> QED BY <1>1, <1>2, <1>4, PTL DEF Spec, SparesProcesses

-----------------------------------------------------------------------------
(* A version that is ready, or holds a flag, has its directory.            *)

Stands(v) == v \in hollow \/ tree[v] = "whole"
Unfinished == {"pending", "building", "failed", "canceled"}
Sound(v) == Stands(v) \/ row[v] \in Unfinished \/ (row[v] # "ready" /\ ~Kept(v))

\* A worker that is about to make the row ready leaves a directory behind it.
Worked(v) ==
    /\ Closing(v, "install") /\ work[v].out = "succeeded" => tree[v] = "whole"
    /\ work[v].pc \in {"reading", "checking"} => Stands(v)
    /\ Closing(v, "delete") /\ work[v].out = "refused" => Stands(v)

Trees == \A v \in Versions : Sound(v) /\ Worked(v)

LEMMA SoundStays ==
    ASSUME NEW v \in Versions, Sound(v), row'[v] = row[v], tree'[v] = tree[v], v \in hollow => v \in hollow',
           Kept(v)' => Kept(v)
    PROVE  Sound(v)'
<1>1. Stands(v) => Stands(v)'
  BY DEF Stands
<1> QED BY <1>1 DEF Sound

LEMMA WorkedStays ==
    ASSUME NEW v \in Versions, Worked(v), tree'[v] = tree[v], v \in hollow => v \in hollow',
           work'[v].pc = work[v].pc, work'[v].out = work[v].out, job'[v].kind = job[v].kind
    PROVE  Worked(v)'
<1>1. Stands(v) => Stands(v)'
  BY DEF Stands
<1> QED BY <1>1 DEF Worked, Closing, At

LEMMA WorkedIdle ==
    ASSUME NEW v \in Versions, work'[v].pc = "idle" PROVE Worked(v)'
BY DEF Worked, Closing, At

\* A row that Resolved wrote.
LEMMA ResolvedSound ==
    ASSUME NEW v \in Versions, tree'[v] = tree[v], row'[v] = Resolved(v) PROVE Sound(v)'
<1>1. CASE tree[v] = "whole"
  BY <1>1 DEF Sound, Stands
<1>2. CASE tree[v] # "whole"
  BY <1>2 DEF Sound, Resolved, Unfinished
<1> QED BY <1>1, <1>2

LEMMA RequestTrees ==
    ASSUME Shaped, FlagsFollow, Trees, NEW v \in Versions, Request(v)
    PROVE  Trees'
<1>0. TypeOK /\ [Next]_vars /\ UNCHANGED <<tree, hollow, work, flags>>
  <2>1. TypeOK /\ [Next]_vars
    BY DEF Shaped, Typed, Next
  <2>2. UNCHANGED <<tree, hollow, work, flags>>
    BY DEF Request, Activate, AskDelete, AskRebuild, Refuse, Delete, Rebuild, Install, Retry, CancelRunning,
              CancelWaiting, rowVars, diskVars
  <2> QED BY <2>1, <2>2
<1>1. ASSUME NEW x \in Versions PROVE Worked(x)'
  <2>1. CASE At(x, "idle")
    BY <1>0, <2>1, WorkedIdle DEF At
  <2>2. CASE ~At(x, "idle")
    BY <1>0, <2>2, RequestKinds, WorkedStays DEF Trees
  <2> QED BY <2>1, <2>2
<1>2. CASE Activate(v)
  <2>1. row' = row /\ row[v] = "ready" /\ New(v, "activate") /\ job'[v].was.flags = flags
    BY <1>0, <1>2, ActivateJob DEF Activate
  <2>2. Stands(v)
    BY <2>1 DEF Trees, Sound, Unfinished
  <2>3. Stands(v)'
    BY <1>0, <2>2 DEF Stands
  <2>4. ASSUME NEW x \in Versions \ {v}, Kept(x)' PROVE Kept(x)
    <3>1. \A u \in Versions \ {v} : job'[u] = job[u]
      BY <2>1 DEF New, Others
    <3>2. Flagged(x)' => Flagged(x)
      BY <1>0 DEF Flagged
    <3>3. Activating(x)' => Activating(x)
      BY <3>1 DEF Activating, Live
    <3>4. ASSUME NEW u \in Versions, Activating(u)', NEW s \in Slots, Was(u)'[s] = x PROVE Kept(x)
      <4>1. CASE u = v
        BY <2>1, <3>4, <4>1 DEF Was, Kept, Flagged
      <4>2. CASE u # v
        BY <3>1, <3>4, <4>2 DEF Was, Kept, Activating, Live
      <4> QED BY <4>1, <4>2
    <3>5. Kept(x)' => \/ Flagged(x)' \/ Activating(x)'
                      \/ \E u \in Versions : Activating(u)' /\ \E s \in Slots : Was(u)'[s] = x
      BY DEF Kept
    <3> QED BY <2>4, <3>2, <3>3, <3>4, <3>5 DEF Kept
  <2>5. ASSUME NEW x \in Versions PROVE Sound(x)'
    <3>1. CASE x = v
      BY <2>3, <3>1 DEF Sound
    <3>2. CASE x # v
      BY <1>0, <2>1, <2>4, <3>2, SoundStays DEF Trees
    <3> QED BY <3>1, <3>2
  <2> QED BY <1>1, <2>5 DEF Trees
<1>3. CASE ~Activate(v)
  <2>1. \A u \in Versions : Continued(u)
    <3>1. CASE Delete(v) \/ Rebuild(v) \/ Install(v) \/ Retry(v)
      <4>1. \E kind \in {"delete", "install"} : New(v, kind)
        BY <1>0, <3>1, EnqueueJob, RetryJob
      <4> QED BY <4>1 DEF New, Others, Continued, Activating, Live
    <3>2. CASE CancelRunning(v) \/ CancelWaiting(v)
      BY <1>0, <3>2, CancelJob, ContinuedTakes DEF Live
    <3>3. CASE job' = job
      BY <3>3 DEF Continued, Activating, Live
    <3> QED BY <1>3, <3>1, <3>2, <3>3 DEF Request, AskDelete, AskRebuild, Refuse, rowVars
  <2>2. \A x \in Versions : row'[x] = row[x] => Sound(x)'
    BY <1>0, <2>1, KeptShrinks, SoundStays DEF Trees
  <2>3. CASE row' = row
    BY <1>1, <2>2, <2>3 DEF Trees
  <2>4. ASSUME NEW s \in Unfinished, SetRow(v, s) PROVE Trees'
    <3>1. row'[v] = s /\ \A u \in Versions \ {v} : row'[u] = row[u]
      BY <1>0, <2>4, RowsSet
    <3>2. Sound(v)'
      BY <3>1 DEF Sound
    <3> QED BY <1>1, <2>2, <3>1, <3>2 DEF Trees
  <2>5. CASE SetRow(v, Resolved(v))
    <3>1. row'[v] = Resolved(v) /\ \A u \in Versions \ {v} : row'[u] = row[u]
      BY <1>0, <2>5, RowsSet
    <3>2. Sound(v)'
      BY <1>0, <3>1, ResolvedSound
    <3> QED BY <1>1, <2>2, <3>1, <3>2 DEF Trees
  <2>6. {"pending", "canceled"} \subseteq Unfinished
    BY DEF Unfinished
  <2>7. CancelWaiting(v) => SetRow(v, "canceled") \/ SetRow(v, Resolved(v)) \/ row' = row
    BY DEF CancelWaiting
  <2> QED BY <1>3, <2>3, <2>4, <2>5, <2>6, <2>7 DEF Request, AskDelete, AskRebuild, Refuse, Delete, Rebuild,
                 Install, Retry, CancelRunning, rowVars
<1> QED BY <1>2, <1>3

\* The steps of one worker, when it leaves every other version alone.
LEMMA TreesFrame ==
    ASSUME Shaped, FlagsFollow, Trees, [Next]_vars, \A u \in Versions : Continued(u), NEW v \in Versions,
           Elsewhere(v), \A u \in Versions \ {v} : /\ row'[u] = row[u] /\ tree'[u] = tree[u]
                                                   /\ u \in hollow => u \in hollow'
                                                   /\ ~At(u, "idle") => job'[u].kind = job[u].kind,
           Sound(v)', Worked(v)'
    PROVE  Trees'
<1>1. ASSUME NEW u \in Versions \ {v} PROVE Sound(u)' /\ Worked(u)'
  <2>1. Sound(u)'
    BY KeptShrinks, SoundStays DEF Trees
  <2>2. CASE At(u, "idle")
    BY <2>1, <2>2, WorkedIdle DEF Elsewhere, At
  <2>3. CASE ~At(u, "idle")
    BY <2>1, <2>3, WorkedStays DEF Trees, Elsewhere
  <2> QED BY <2>2, <2>3
<1> QED BY <1>1 DEF Trees

LEMMA StartTrees ==
    ASSUME Shaped, FlagsFollow, Trees, NEW v \in Versions, StartInstall(v) \/ StartDelete(v) \/ StartActivate(v)
    PROVE  Trees'
<1>0. /\ TypeOK /\ [Next]_vars /\ Takes(v, "running") /\ job[v].state = "queued" /\ tree' = tree
      /\ hollow \in SUBSET Versions
  BY StartJob, Types DEF Shaped, Typed, Next, WorkerStep, StartInstall, StartDelete, StartActivate, Start
<1>1. \A u \in Versions : Continued(u)
  BY <1>0, ContinuedTakes DEF Live
<1>2. Kept(v)' => Kept(v)
  BY <1>0, <1>1, KeptShrinks
<1>3. CASE StartInstall(v)
  <2>1. row'[v] = "building" /\ hollow' = hollow /\ \A u \in Versions \ {v} : row'[u] = row[u]
    BY <1>0, <1>3, RowsSet DEF StartInstall
  <2>2. Elsewhere(v) /\ work'[v].pc = "building"
    BY <1>0, <1>3, WorkerStarts DEF StartInstall, Pcs
  <2>3. Sound(v)' /\ Worked(v)'
    BY <2>1, <2>2 DEF Sound, Unfinished, Worked, Closing, At
  <2> QED BY <1>0, <1>1, <2>1, <2>2, <2>3, TreesFrame DEF Takes, Others
<1>4. CASE StartDelete(v)
  <2>1. /\ row'[v] = "deleting" /\ \A u \in Versions \ {v} : row'[u] = row[u]
        /\ hollow' = IF tree[v] = "whole" THEN hollow ELSE hollow \cup {v}
    BY <1>0, <1>4, RowsSet DEF StartDelete
  <2>2. Elsewhere(v) /\ work'[v].pc = "reading"
    BY <1>0, <1>4, WorkerStarts DEF StartDelete, Pcs
  <2>3. Stands(v)'
    BY <1>0, <2>1 DEF Stands
  <2>4. Sound(v)' /\ Worked(v)'
    BY <2>2, <2>3 DEF Sound, Worked, Closing, At
  <2> QED BY <1>0, <1>1, <2>1, <2>2, <2>4, TreesFrame DEF Takes, Others
<1>5. CASE StartActivate(v)
  <2>1. row' = row /\ hollow' = hollow
    BY <1>5 DEF StartActivate
  <2>2. Elsewhere(v) /\ work'[v].pc = "flipping"
    BY <1>0, <1>5, WorkerStarts DEF StartActivate, Pcs
  <2>3. Sound(v)'
    BY <1>0, <1>2, <2>1, SoundStays DEF Trees
  <2>4. Worked(v)'
    BY <2>2 DEF Worked, Closing, At
  <2> QED BY <1>0, <1>1, <2>1, <2>2, <2>3, <2>4, TreesFrame DEF Takes, Others
<1> QED BY <1>3, <1>4, <1>5

LEMMA CloseTrees ==
    ASSUME Shaped, FlagsFollow, Spared, Trees, NEW v \in Versions, Closes(v), \A u \in Versions : Continued(u)
    PROVE  Trees'
<1>0. /\ TypeOK /\ AllPlaced /\ [Next]_vars /\ job[v].state = "running" /\ At(v, "closing") /\ Elsewhere(v)
      /\ work'[v].pc = "idle" /\ tree' = tree /\ hollow' = hollow /\ Placed(v) /\ Live(v)
  BY ClosesRests DEF Shaped, Typed, Next, WorkerStep, Closes, AllPlaced, Live, diskVars
<1>1. Worked(v)'
  BY <1>0, WorkedIdle
<1>2. Kept(v)' => Kept(v)
  BY <1>0, KeptShrinks
<1>3. \A u \in Versions \ {v} : ~At(u, "idle") => job'[u].kind = job[u].kind
  BY <1>0, ClosesOthers DEF TypeOK, Live
<1>4. row'[v] = row[v] => Sound(v)'
  BY <1>0, <1>2, SoundStays DEF Trees
<1>5. ASSUME NEW s, SetRow(v, s), \/ s \in Unfinished
                                  \/ s = "ready" /\ Stands(v)
                                  \/ s = "deleted" /\ ~Kept(v)
                                  \/ s = Resolved(v)
      PROVE  Trees'
  <2>1. row'[v] = s /\ \A u \in Versions \ {v} : row'[u] = row[u]
    BY <1>0, <1>5, RowsSet
  <2>2. Stands(v) => Stands(v)'
    BY <1>0 DEF Stands
  <2>3. Sound(v)'
    <3>1. s # Resolved(v) => Sound(v)'
      BY <1>2, <1>5, <2>1, <2>2 DEF Sound
    <3>2. s = Resolved(v) => Sound(v)'
      BY <1>0, <2>1, ResolvedSound
    <3> QED BY <3>1, <3>2
  <2> QED BY <1>0, <1>1, <1>3, <2>1, <2>3, TreesFrame
<1>6. CASE row' = row
  BY <1>0, <1>1, <1>3, <1>4, <1>6, TreesFrame
<1>7. CASE CloseInstall(v)
  <2>1. work[v].out = "succeeded" => Stands(v)
    BY <1>7 DEF CloseInstall, Trees, Worked, Stands
  <2>2. work[v].out \in {"succeeded", "failed", "canceled"}
    BY <1>0, <1>7 DEF CloseInstall, Closing, Placed
  <2>3. SetRow(v, IF work[v].out = "succeeded" THEN "ready" ELSE work[v].out)
    BY <1>7 DEF CloseInstall
  <2> QED BY <1>5, <2>1, <2>2, <2>3 DEF Unfinished
<1>8. CASE CloseDelete(v)
  <2>1. work[v].out = "succeeded" => ~Kept(v)
    BY <1>8 DEF CloseDelete, Spared, Doomed
  <2>2. work[v].out = "refused" => Stands(v)
    BY <1>8 DEF CloseDelete, Trees, Worked
  <2> QED BY <1>5, <1>8, <2>1, <2>2 DEF CloseDelete
<1>9. CASE CloseFallback(v)
  <2>1. v \in DOMAIN Replacement
    BY <1>0, <1>9 DEF CloseFallback, Closing, Placed
  <2> DEFINE u == Replacement[v]
  <2>2. u \in Versions \ {v}
    BY <2>1, VersionsAssumption
  <2>3. row'[v] = "failed" /\ row'[u] = "pending" /\ \A x \in Versions \ {u, v} : row'[x] = row[x]
    BY <1>0, <1>9, <2>2, Types DEF CloseFallback
  <2>4. \A x \in {u, v} : Sound(x)'
    BY <2>3 DEF Sound, Unfinished
  <2>5. ASSUME NEW x \in Versions PROVE Sound(x)'
    BY <1>0, <2>3, <2>4, KeptShrinks, SoundStays DEF Trees
  <2>6. ASSUME NEW x \in Versions PROVE Worked(x)'
    <3>1. CASE x = v
      BY <1>1, <3>1
    <3>2. CASE x # v /\ At(x, "idle")
      BY <1>0, <3>2, WorkedIdle DEF Elsewhere, At
    <3>3. CASE x # v /\ ~At(x, "idle")
      BY <1>0, <1>3, <3>3, WorkedStays DEF Trees, Elsewhere
    <3> QED BY <3>1, <3>2, <3>3
  <2> QED BY <2>5, <2>6 DEF Trees
<1>10. CloseActivate(v) => row' = row
  BY DEF CloseActivate
<1>11. CloseFails(v) => row' = row \/ SetRow(v, Resolved(v))
  BY DEF CloseFails
<1> QED BY <1>5, <1>6, <1>7, <1>8, <1>9, <1>10, <1>11 DEF Closes

LEMMA BuildTrees ==
    ASSUME Shaped, FlagsFollow, RowFollowsJob, Trees, NEW v \in Versions, Builds(v)
    PROVE  Trees'
<1>0. /\ TypeOK /\ Placed(v) /\ [Next]_vars /\ UNCHANGED <<row, job>> /\ Elsewhere(v)
      /\ work[v].pc \in {"building", "swapping"} /\ work'[v].pc \in {"closing", "swapping"}
      /\ tree \in [Versions -> {"gone", "partial", "whole"}]
  <2>1. TypeOK /\ Placed(v) /\ [Next]_vars
    BY DEF Shaped, Typed, AllPlaced, Next, WorkerStep, Builds
  <2>2. UNCHANGED <<row, job>>
    BY DEF Builds, BuildFails, WillNotRun, PublishFresh, Displace, Swap, SwapFails, rowVars
  <2> QED BY <2>1, <2>2, InstallMoves, Types DEF Builds, Moved, At
<1>1. job[v].kind = "install" /\ job[v].state = "running"
  BY <1>0 DEF Placed, TypeOK, At
<1>2. row[v] = "building"
  BY <1>1 DEF RowFollowsJob
<1>3. \A u \in Versions : Continued(u)
  BY <1>0 DEF Continued, Activating, Live
<1>4. Sound(v)'
  BY <1>0, <1>2 DEF Sound, Unfinished
<1>5. Worked(v)'
  <2>1. CASE PublishFresh(v) \/ Swap(v)
    <3>1. tree'[v] = "whole"
      BY <1>0, <2>1 DEF PublishFresh, Swap
    <3> QED BY <1>0, <1>1, <3>1 DEF Worked, Closing
  <2>2. CASE BuildFails(v) \/ WillNotRun(v) \/ SwapFails(v)
    <3>1. work'[v].out # "succeeded"
      BY <1>0, <2>2, InstallMoves DEF Moved
    <3> QED BY <1>0, <1>1, <3>1 DEF Worked, Closing
  <2>3. CASE Displace(v)
    BY <1>0, <2>3, InstallMoves DEF Moved, Worked, Closing, At
  <2> QED BY <2>1, <2>2, <2>3 DEF Builds
<1>6. ASSUME NEW u \in Versions \ {v} PROVE tree'[u] = tree[u] /\ (u \in hollow => u \in hollow')
  BY <1>0, <1>6 DEF Builds, BuildFails, WillNotRun, PublishFresh, Displace, Swap, SwapFails, diskVars
<1> QED BY <1>0, <1>3, <1>4, <1>5, <1>6, TreesFrame

LEMMA RemoveTrees ==
    ASSUME Shaped, FlagsFollow, RowFollowsJob, Spared, Trees, NEW v \in Versions, Removes(v)
    PROVE  Trees'
<1>0. /\ TypeOK /\ Placed(v) /\ [Next]_vars /\ UNCHANGED <<row, job, hollow>> /\ Elsewhere(v)
      /\ work[v].pc \in {"reading", "checking", "removing"}
      /\ tree \in [Versions -> {"gone", "partial", "whole"}]
  <2>1. TypeOK /\ Placed(v) /\ [Next]_vars
    BY DEF Shaped, Typed, AllPlaced, Next, WorkerStep, Removes
  <2>2. UNCHANGED <<row, job, hollow>> /\ work[v].pc \in {"reading", "checking", "removing"}
    BY DEF Removes, ReadFlags, ReadCut, CheckUse, CheckFails, RemoveSome, Remove, RemovalFails, rowVars,
           diskVars, At
  <2>3. Elsewhere(v)
    <3>1. CASE RemoveSome(v)
      BY <2>1, <3>1 DEF RemoveSome, Elsewhere, TypeOK
    <3>2. CASE ~RemoveSome(v)
      BY <2>1, <3>2, DeleteMoves DEF Removes, Moved
    <3> QED BY <3>1, <3>2
  <2> QED BY <2>1, <2>2, <2>3, Types
<1>1. job[v].kind = "delete" /\ job[v].state = "running"
  BY <1>0 DEF Placed, TypeOK, At
<1>2. row[v] = "deleting"
  BY <1>1 DEF RowFollowsJob
<1>3. \A u \in Versions : Continued(u)
  BY <1>0 DEF Continued, Activating, Live
<1>4. Kept(v)' => Kept(v)
  BY <1>0, <1>3, KeptShrinks
<1>5. CASE RemoveSome(v) \/ Remove(v)
  <2>1. At(v, "removing") /\ ~Kept(v)
    BY <1>5 DEF RemoveSome, Remove, Spared, Doomed, At
  <2>2. Sound(v)'
    BY <1>0, <1>2, <1>4, <2>1 DEF Sound
  <2>3. Worked(v)'
    <3>1. CASE RemoveSome(v)
      BY <2>1, <3>1 DEF RemoveSome, Worked, Closing, At
    <3>2. CASE Remove(v)
      BY <1>0, <1>1, <3>2, DeleteMoves DEF Moved, Worked, Closing
    <3> QED BY <1>5, <3>1, <3>2
  <2>4. \A u \in Versions \ {v} : tree'[u] = tree[u]
    BY <1>0, <1>5 DEF RemoveSome, Remove
  <2> QED BY <1>0, <1>3, <2>2, <2>3, <2>4, TreesFrame
<1>6. CASE ~RemoveSome(v) /\ ~Remove(v)
  <2>1. tree' = tree
    BY <1>6 DEF Removes, ReadFlags, ReadCut, CheckUse, CheckFails, RemovalFails, diskVars
  <2>2. Sound(v)'
    BY <1>0, <1>4, <2>1, SoundStays DEF Trees
  <2>3. Stands(v) => Stands(v)'
    BY <1>0, <2>1 DEF Stands
  <2>4. work[v].pc \in {"reading", "checking"} => Stands(v)
    BY DEF Trees, Worked
  <2>5. CASE ReadFlags(v) \/ CheckUse(v) \/ CheckFails(v)
    <3>1. Stands(v)' /\ (work'[v].pc \in {"checking", "removing"} \/ work'[v].pc = "closing")
      BY <1>0, <2>3, <2>4, <2>5, DeleteMoves DEF Moved, At
    <3>2. Worked(v)'
      BY <1>0, <1>1, <3>1 DEF Worked, Closing
    <3> QED BY <1>0, <1>3, <2>1, <2>2, <3>2, TreesFrame
  <2>6. CASE ReadCut(v) \/ RemovalFails(v)
    <3>1. work'[v].pc = "closing" /\ work'[v].out \in {"canceled", "incomplete"}
      BY <1>0, <2>6, DeleteMoves DEF Moved
    <3>2. Worked(v)'
      BY <1>0, <1>1, <3>1 DEF Worked, Closing
    <3> QED BY <1>0, <1>3, <2>1, <2>2, <3>2, TreesFrame
  <2> QED BY <1>6, <2>5, <2>6 DEF Removes
<1> QED BY <1>5, <1>6

LEMMA TreesHold ==
    ASSUME "overlap" \notin Liberties, Shaped, OneActivation, FlagsFollow, RowFollowsJob, Spared, Trees,
           [Next]_vars
    PROVE  Trees'
<1>0. TypeOK /\ Typed /\ AllPlaced /\ Resting
  BY DEF Shaped, Typed
<1> SUFFICES ASSUME \A u \in Versions : Continued(u) PROVE Trees'
  BY RequestTrees, ActivationsContinue DEF Request
<1>1. ASSUME NEW v \in Versions, Turns(v) \/ Flip(v) PROVE Trees'
  <2>1. CASE Turns(v)
    <3>1. UNCHANGED <<row, tree, hollow, job>>
      BY <2>1 DEF Turns, FlipFails, Link, LinkFails, ChooseTargets, ChooseFails, RollStop, RollStart,
         RollHealthy, RollFails, Revert, RevertFails, Relink, rowVars, diskVars
    <3>2. /\ work[v].pc \in Rolling \cup {"flipping"} /\ Elsewhere(v)
          /\ work'[v].pc \in (Rolling \ {"linking"}) \cup {"closing"}
      BY <1>0, <2>1, TurnsMoves
    <3>3. job'[v].kind = "activate"
      BY <1>0, <3>1, <3>2 DEF AllPlaced, Placed
    <3>4. Worked(v)'
      BY <3>2, <3>3 DEF Worked, Closing, Rolling
    <3>5. Sound(v)'
      BY <3>1, KeptShrinks, SoundStays DEF Trees
    <3> QED BY <3>1, <3>2, <3>4, <3>5, TreesFrame
  <2>2. CASE Flip(v)
    <3>1. /\ UNCHANGED <<row, tree, hollow>> /\ Elsewhere(v) /\ work'[v].pc = "linking"
          /\ \A u \in Versions : job'[u].kind = job[u].kind
      BY <1>0, <2>2, FlipWork, FlipJob DEF Flip, diskVars, Others
    <3>2. Worked(v)'
      BY <3>1 DEF Worked, Closing, At
    <3>3. Sound(v)'
      BY <3>1, KeptShrinks, SoundStays DEF Trees
    <3> QED BY <3>1, <3>2, <3>3, TreesFrame
  <2> QED BY <1>1, <2>1, <2>2
<1>2. ASSUME UNCHANGED <<tree, hollow>>, \A x \in Versions : row'[x] = row[x] \/ row'[x] = Resolved(x),
             \A x \in Versions : \/ work'[x].pc = "idle"
                                 \/ /\ work'[x].pc = work[x].pc /\ work'[x].out = work[x].out
                                    /\ job'[x].kind = job[x].kind
      PROVE  Trees'
  <2>1. ASSUME NEW x \in Versions PROVE Sound(x)'
    BY <1>2, KeptShrinks, SoundStays, ResolvedSound DEF Trees
  <2>2. ASSUME NEW x \in Versions PROVE Worked(x)'
    BY <1>2, WorkedStays, WorkedIdle DEF Trees
  <2> QED BY <2>1, <2>2 DEF Trees
<1>3. ASSUME NEW v \in Versions, Heartbeat(v) \/ LeaveRunning(v) PROVE Trees'
  <2>1. UNCHANGED <<row, tree, hollow, job>>
    BY <1>3 DEF Heartbeat, LeaveRunning, rowVars, diskVars
  <2>2. Elsewhere(v) /\ (work'[v].pc = "idle" \/ (work'[v].pc = work[v].pc /\ work'[v].out = work[v].out))
    BY <1>0, <1>3, HeartbeatWork, WorkerRests DEF LeaveRunning
  <2> QED BY <1>2, <2>1, <2>2 DEF Elsewhere
<1>4. CASE UNCHANGED <<row, tree, hollow, work, job>>
  BY <1>2, <1>4
<1>5. CASE Exit
  BY <1>2, <1>5, Rested DEF Exit, rowVars, diskVars
<1>6. CASE Boot
  <2>1. UNCHANGED <<tree, hollow, work>> /\ \A x \in Versions : job'[x].kind = job[x].kind
    BY <1>0, <1>6, BootJobs DEF Boot, diskVars, Same
  <2>2. \A x \in Versions : row'[x] = row[x] \/ row'[x] = Resolved(x)
    BY <1>6 DEF Boot
  <2> QED BY <1>2, <2>1, <2>2
<1>7. ASSUME NEW v \in Versions, SettleActivation(v) PROVE Trees'
  <2>1. UNCHANGED <<row, tree, hollow, work>> /\ phase = "settling"
    BY <1>7 DEF SettleActivation, diskVars
  <2>2. \A x \in Versions : work'[x].pc = "idle"
    BY <1>0, <2>1 DEF Resting, At
  <2> QED BY <1>2, <2>1, <2>2
<1>8. ASSUME DaemonStep, ~Exit, ~Boot, ~\E v \in Versions : SettleActivation(v)
      PROVE  UNCHANGED <<row, tree, hollow, work, job>>
  BY <1>8 DEF DaemonStep, LeaseExpires, Shutdown, ReleaseForeignLease, RepairAtBoot, ReconcileFails, Open,
              rowVars, diskVars
<1>9. ASSUME NEW i \in Instances, UnitStep(i) PROVE UNCHANGED <<row, tree, hollow, work, job>>
  BY <1>9, UnitFrame
<1>10. UNCHANGED vars => UNCHANGED <<row, tree, hollow, work, job>>
  BY DEF vars
<1> QED BY <1>1, <1>3, <1>4, <1>5, <1>6, <1>7, <1>8, <1>9, <1>10, Steps, RequestTrees, StartTrees, CloseTrees,
           BuildTrees, RemoveTrees

\* A version that is ready, or holds a flag and is not being rebuilt, has its directory:
\* no delete removes what an instance starts from or what a rollback or a revert goes
\* back to, through crashes, cancels and failed removals. What users do by hand beside
\* an activation is left out (findings).
THEOREM FlaggedIsThere ==
    ASSUME "overlap" \notin Liberties
    PROVE  Spec => []TreeBehindRow
<1>1. Init => Spared /\ Trees
  <2> SUFFICES ASSUME Init PROVE Spared /\ Trees
    OBVIOUS
  <2>1. Quiet /\ asked = {} /\ \A v \in Versions : At(v, "idle")
    BY DEF Init, Quiet, Activating, Live, NoJob, At, Idle
  <2>2. Spared
    BY <2>1 DEF Spared, Doomed, Closing, At
  <2>3. ASSUME NEW v \in Versions PROVE Sound(v) /\ Worked(v)
    <3>1. CASE v \in Ready
      BY <2>1, <3>1 DEF Init, Sound, Stands, Worked, Closing, At
    <3>2. CASE v \notin Ready
      <4>1. row[v] = "absent" /\ ~Flagged(v)
        BY <3>2, VersionsAssumption DEF Init, Flagged
      <4>2. ~Kept(v)
        BY <2>1, <4>1 DEF Kept, Quiet
      <4> QED BY <2>1, <4>1, <4>2 DEF Sound, Worked, Closing, At
    <3> QED BY <3>1, <3>2
  <2> QED BY <2>2, <2>3 DEF Trees
<1>2. /\ Shaped /\ OneActivation /\ FlagsFollow /\ RowFollowsJob /\ Spared /\ Trees /\ [Next]_vars
      => (Spared /\ Trees)'
  BY SparedHolds, TreesHold
<1>3. Trees => TreeBehindRow
  BY DEF Trees, Sound, Stands, Unfinished, Kept, TreeBehindRow
<1> QED BY <1>1, <1>2, <1>3, Standings, OneStory, PTL DEF Spec

=============================================================================
