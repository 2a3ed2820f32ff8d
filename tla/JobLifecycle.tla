---------------------------- MODULE JobLifecycle ----------------------------
(***************************************************************************)
(* What a job is to everyone but the queue: it waits, it is active, it     *)
(* ends, and a subject has at most one that has not ended. No runners,     *)
(* leases, boots, attempts or clocks. JobQueue implements this as long as  *)
(* nobody pauses a download (JobQueueImplements).                          *)
(***************************************************************************)
CONSTANTS
    Jobs,       \* the jobs that may be submitted
    SubjectOf,  \* what each job is about
    FateOf      \* what becomes of a job whose worker was lost: waiting,
                \* interrupted or failed

VARIABLE status

Ended     == {"succeeded", "failed", "canceled"}
Unended   == {"waiting", "active", "adrift", "interrupted"}
Reopening == {"failed", "canceled", "interrupted"}

SubjectFree(j) ==
    \A k \in Jobs \ {j} : SubjectOf[k] = SubjectOf[j] => status[k] \notin Unended

Move(j, s) == status' = [status EXCEPT ![j] = s]

Init == status = [j \in Jobs |-> "absent"]

Submit(j) == status[j] = "absent" /\ SubjectFree(j) /\ Move(j, "waiting")

Begin(j) == status[j] = "waiting" /\ Move(j, "active")

\* A retry, a deferral, or the end of the work.
Yield(j) == status[j] = "active" /\ \E s \in Ended \cup {"waiting"} : Move(j, s)

\* The outcome could not be recorded; the job's fate is decided at once.
GiveUp(j) == status[j] = "active" /\ Move(j, FateOf[j])

\* The workers of some jobs are gone and nobody has decided about these jobs.
Drift(lost) ==
    /\ \A j \in lost : status[j] = "active"
    /\ status' = [j \in Jobs |-> IF j \in lost THEN "adrift" ELSE status[j]]

\* The next boot decides about all of them at once.
Triage == status' = [j \in Jobs |-> IF status[j] = "adrift" THEN FateOf[j] ELSE status[j]]

Withdraw(j) == status[j] \in {"waiting", "interrupted"} /\ Move(j, "canceled")

Settle(j) == status[j] = "interrupted" /\ \E s \in {"succeeded", "failed"} : Move(j, s)

\* The user's retry; a job that succeeded is never reopened.
Reopen(j) == status[j] \in Reopening /\ SubjectFree(j) /\ Move(j, "waiting")

Next ==
    \/ \E j \in Jobs : \/ Submit(j) \/ Begin(j) \/ Yield(j) \/ GiveUp(j)
                       \/ Withdraw(j) \/ Settle(j) \/ Reopen(j)
    \/ \E lost \in SUBSET Jobs : Drift(lost)
    \/ Triage

Spec == Init /\ [][Next]_status

\* A subject has at most one job that has not ended (schema: the partial unique
\* index idx_jobs_one_live_per_subject, D39).
OnePerSubject ==
    \A j, k \in Jobs : j # k /\ SubjectOf[j] = SubjectOf[k]
                         => status[j] \notin Unended \/ status[k] \notin Unended

=============================================================================
