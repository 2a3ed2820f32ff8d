------------------------- MODULE JobQueueImplements -------------------------
(***************************************************************************)
(* JobQueue implements JobLifecycle: a row that is leased or running is    *)
(* active while a runner holds it and adrift once that runner is gone.     *)
(***************************************************************************)
EXTENDS JobQueue

Tended(j) == \E r \in Runners : Busy(r) /\ JobOf(r) = j

Status == [j \in Jobs |->
    CASE job[j].state = "queued" -> "waiting"
      [] job[j].state \in Held /\ Tended(j) -> "active"
      [] job[j].state \in Held /\ ~Tended(j) -> "adrift"
      [] OTHER -> job[j].state]

Fate == [j \in Jobs |-> LET state == JobBootTriage(KindOf[j])
                        IN  IF state = "queued" THEN "waiting" ELSE state]

Abstract == INSTANCE JobLifecycle WITH status <- Status, FateOf <- Fate

\* The queue is a faithful job lifecycle: one worker per subject, no way back
\* from succeeded, no blind re-run of a kind that owes durable work, whatever
\* crashes, failed writes, cancels and retries do.
Lifecycle == Abstract!Spec

=============================================================================
