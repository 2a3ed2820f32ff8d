-------------------------------- MODULE Library --------------------------------
(***************************************************************************)
(* The model library: the catalog rows of internal/models, the shared      *)
(* Hugging Face cache of internal/hf/cache they describe, and the hash of   *)
(* each instance's configuration that folds a model's path in.             *)
(*                                                                         *)
(* Four writers share rows and disk, and nothing but the transactions and  *)
(* the lock of a blob keeps them apart: downloads that publish, deletions, *)
(* verifications, and scans, of which several may go on at once.           *)
(*                                                                         *)
(* A model is one file of one snapshot; models of two revisions may share  *)
(* a blob.  One action is one transaction or one step on the disk.  What   *)
(* a download does before a blob is whole, and its rows, is Download's     *)
(* subject; jobs and leases are JobQueue's.                                *)
(***************************************************************************)
EXTENDS Naturals, FiniteSets

CONSTANTS
    Models,      \* the models, each a file in a snapshot
    Blobs,       \* the contents
    BlobOf,      \* the content of each model
    Instances,   \* instances that may serve one
    Scanners,    \* runners that may have a scan
    None,        \* no model
    MaxClicks,   \* bound: requests
    MaxFaults    \* bound: failed writes, crashes, and what others do to the cache

ASSUME LibraryAssumption ==
    /\ BlobOf \in [Models -> Blobs] /\ IsFiniteSet(Scanners)
    /\ None \notin Models \cup ({"load", "delete"} \X Models)
    /\ MaxClicks \in Nat /\ MaxFaults \in Nat

VARIABLES
    row,      \* models.state, or "absent"
    file,     \* model_files.state, or "none"
    link,     \* the snapshot entries on the disk
    blob,     \* the blobs on the disk
    lock,     \* who holds the interop lock of a blob: a transfer or a deletion
    load,     \* the step of each model's download
    ask,      \* delete requests between the look and the transaction
    job,      \* the verification or deletion of a model, one at a time
    due,      \* scans in the queue
    scan,     \* the scans that go on, and what their walk saw
    serve,    \* the model each instance serves
    hash,     \* what each instance's config_hash was computed from
    late,     \* history: the instances configured for a model on its way out
    bare,     \* history: the entries linked without the lock
    clicks, faults

disk == <<link, blob, bare>>
rows == <<row, file>>
users == <<serve, hash, late>>
work == <<load, ask, job, due, scan>>
vars == <<disk, rows, users, work, lock, clicks, faults>>

States == {"absent", "planned", "downloading", "ready", "incomplete", "missing", "corrupt",
           "deleting", "deleted"}

NoJob == [kind |-> "none", step |-> "none", link |-> FALSE, blob |-> FALSE, was |-> "absent",
          verdict |-> "missing"]
NoScan == [step |-> "none", todo |-> {}, saw |-> {}, broken |-> {}]

Fault == faults < MaxFaults /\ faults' = faults + 1 /\ UNCHANGED clicks
Click == clicks < MaxClicks /\ clicks' = clicks + 1 /\ UNCHANGED faults
Step == UNCHANGED <<clicks, faults>>

\* modelResolver.Models: a path is offered for a ready model only.
Path(state) == IF state = "ready" THEN "path" ELSE "pending"

\* recomputeFor: the instances that serve one of ms, from the rows as they are now.
Recompute(ms) == hash' = [i \in Instances |-> IF serve[i] \in ms THEN Path(row'[serve[i]]) ELSE hash[i]]

Init ==
    /\ \E here \in SUBSET Models :
          /\ link = here /\ blob = {BlobOf[m] : m \in here}
          /\ row = [m \in Models |-> IF m \in here THEN "ready" ELSE "absent"]
          /\ file = [m \in Models |-> IF m \in here THEN "present" ELSE "none"]
    /\ lock = [b \in Blobs |-> None]
    /\ load = [m \in Models |-> "none"] /\ ask = {} /\ job = [m \in Models |-> NoJob]
    /\ due = 0 /\ scan = [s \in Scanners |-> NoScan]
    /\ serve = [i \in Instances |-> None] /\ hash = [i \in Instances |-> "pending"]
    /\ late = {} /\ bare = {} /\ clicks = 0 /\ faults = 0

\* The lock of m's blob, in the hands of its transfer or of its deletion.
Holds(who, m) == lock[BlobOf[m]] = <<who, m>>
Locked(who, m) == [lock EXCEPT ![BlobOf[m]] = <<who, m>>]
Freed(who, m) == IF Holds(who, m) THEN [lock EXCEPT ![BlobOf[m]] = None] ELSE lock
Referred(b) == {m \in link : BlobOf[m] = b}

-----------------------------------------------------------------------------
(* A download, from the catalog's side.                                      *)

GotoLoad(m, s) == load' = [load EXCEPT ![m] = s] /\ UNCHANGED <<ask, job, due, scan>>

\* Create, upsertModel: whatever the row was, unless it is ready; one live download a model.
AskLoad(m) ==
    /\ Click /\ load[m] = "none" /\ GotoLoad(m, "queued")
    /\ row' = [row EXCEPT ![m] = IF @ = "ready" THEN @ ELSE "planned"]
    /\ file' = [file EXCEPT ![m] = IF @ = "present" THEN @ ELSE "planned"]
    /\ UNCHANGED <<disk, users, lock>>

\* markModelsDownloading.  The recompute that follows names the model where instances are
\* asked for, and finds none.
StartLoad(m) ==
    /\ load[m] = "queued" /\ GotoLoad(m, "stat")
    /\ row' = [row EXCEPT ![m] = IF @ = "ready" THEN @ ELSE "downloading"]
    /\ Step /\ UNCHANGED <<disk, file, users, lock>>

\* transferOnce, step 2: a blob that is there is linked as it is, without the lock.
Stat(m) ==
    /\ load[m] = "stat"
    /\ GotoLoad(m, IF BlobOf[m] \in blob THEN "link" ELSE "wait")
    /\ Step /\ UNCHANGED <<disk, rows, users, lock>>

\* Step 3, AcquireWait.
TakeLock(m) ==
    /\ load[m] = "wait" /\ lock[BlobOf[m]] = None
    /\ lock' = Locked("load", m) /\ GotoLoad(m, "stream")
    /\ Step /\ UNCHANGED <<disk, rows, users>>

\* The blob as another left it, or steps 4 to 6: stream, verify, rename.
Publish(m) ==
    /\ load[m] = "stream" /\ blob' = blob \cup {BlobOf[m]} /\ GotoLoad(m, "link")
    /\ Step /\ UNCHANGED <<link, bare, rows, users, lock>>

\* link: the entry is made, then the blob looked at.
Link(m) ==
    /\ load[m] = "link" /\ link' = link \cup {m} /\ GotoLoad(m, "check")
    /\ bare' = IF Holds("load", m) THEN bare \ {m} ELSE bare \cup {m}
    /\ Step /\ UNCHANGED <<blob, rows, users, lock>>

\* markFilePresent, or ErrLinkFailed and the next attempt.
Landed(m) ==
    /\ load[m] = "check" /\ lock' = Freed("load", m)
    /\ IF BlobOf[m] \in blob
       THEN file' = [file EXCEPT ![m] = "present"] /\ GotoLoad(m, "landed")
       ELSE UNCHANGED file /\ GotoLoad(m, "stat")
    /\ Step /\ UNCHANGED <<disk, row, users>>

\* verifyModels: by the file rows.  What it says of a model that misses files is rolled back.
VerifyLoaded(m) ==
    /\ load[m] = "landed"
    /\ IF file[m] = "present"
       THEN row' = [row EXCEPT ![m] = "ready"] /\ GotoLoad(m, "verified")
       ELSE UNCHANGED row /\ GotoLoad(m, "none")
    /\ Step /\ UNCHANGED <<disk, file, users, lock>>

\* complete: the scan is asked for, then the job closes.
CompleteLoad(m) ==
    /\ load[m] = "verified" /\ load' = [load EXCEPT ![m] = "none"] /\ due' = due + 1
    /\ Step /\ UNCHANGED <<disk, rows, users, lock, ask, job, scan>>

\* A cancel, or the last attempt failed.
LoadEnds(m) ==
    /\ load[m] \notin {"none", "verified"} /\ GotoLoad(m, "none") /\ lock' = Freed("load", m)
    /\ Fault /\ UNCHANGED <<disk, rows, users>>

Load(m) ==
    \/ StartLoad(m) \/ Stat(m) \/ TakeLock(m) \/ Publish(m) \/ Link(m) \/ Landed(m)
    \/ VerifyLoaded(m) \/ CompleteLoad(m)

-----------------------------------------------------------------------------
(* A deletion.                                                               *)

\* guardDelete.
Deletable(m) ==
    /\ \A i \in Instances : serve[i] # m
    /\ row[m] \in {"ready", "missing", "corrupt", "incomplete", "deleting"}

SetJob(m, j) == job' = [job EXCEPT ![m] = j] /\ UNCHANGED <<load, ask, due, scan>>
JobAt(m, kind, step) == job[m].kind = kind /\ job[m].step = step
GotoJob(m, step) == SetJob(m, [job[m] EXCEPT !.step = step])

\* Delete, first phase: the guard, before the walk.
AskDelete(m) ==
    /\ Click /\ m \notin ask /\ Deletable(m) /\ ask' = ask \cup {m}
    /\ UNCHANGED <<disk, rows, users, lock, load, job, due, scan>>

Enqueue(m) ==
    /\ row' = [row EXCEPT ![m] = "deleting"] /\ Recompute({m})
    /\ job' = [job EXCEPT ![m] = [NoJob EXCEPT !.kind = "delete", !.step = "queued"]]
    /\ UNCHANGED <<file, serve, late>>

\* Mutant: the guard before the walk is the only one.
MarkUnguarded(m) ==
    /\ m \in ask /\ ask' = ask \ {m} /\ job[m].kind = "none" /\ Enqueue(m)
    /\ Step /\ UNCHANGED <<disk, lock, load, due, scan>>

\* Second phase: the guard again, in the transaction; one live job a model.
MarkDeleting(m) ==
    /\ m \in ask /\ ask' = ask \ {m}
    /\ IF Deletable(m) /\ job[m].kind = "none" THEN Enqueue(m) ELSE UNCHANGED <<rows, users, job>>
    /\ Step /\ UNCHANGED <<disk, lock, load, due, scan>>

\* ExecuteDelete, PlanDelete: from the disk, whatever the row says by now.
PlanDelete(m) ==
    /\ JobAt(m, "delete", "queued")
    /\ SetJob(m, [job[m] EXCEPT !.step = "unlink", !.link = m \in link,
                                !.blob = Referred(BlobOf[m]) = {m}])
    /\ Step /\ UNCHANGED <<disk, rows, users, lock>>

\* Execute: the entries first.
Unlink(m) ==
    /\ JobAt(m, "delete", "unlink")
    /\ IF job[m].link THEN link' = link \ {m} /\ bare' = bare \ {m} ELSE UNCHANGED <<link, bare>>
    /\ GotoJob(m, IF job[m].blob THEN "lock" ELSE "commit")
    /\ Step /\ UNCHANGED <<blob, rows, users, lock>>

\* removeBlobs: a lock that is held is not waited for, its blob stays.
TryLock(m) ==
    /\ JobAt(m, "delete", "lock")
    /\ IF lock[BlobOf[m]] = None
       THEN lock' = Locked("delete", m) /\ GotoJob(m, "count")
       ELSE UNCHANGED lock /\ GotoJob(m, "commit")
    /\ Step /\ UNCHANGED <<disk, rows, users>>

\* Mutant: the plan's own count is trusted.
CountPlanned(m) ==
    /\ JobAt(m, "delete", "count") /\ GotoJob(m, "remove")
    /\ Step /\ UNCHANGED <<disk, rows, users, lock>>

\* The recount, with the lock held.
Recount(m) ==
    /\ JobAt(m, "delete", "count")
    /\ IF Referred(BlobOf[m]) = {}
       THEN UNCHANGED lock /\ GotoJob(m, "remove")
       ELSE lock' = Freed("delete", m) /\ GotoJob(m, "commit")
    /\ Step /\ UNCHANGED <<disk, rows, users>>

RemoveBlob(m) ==
    /\ JobAt(m, "delete", "remove") /\ blob' = blob \ {BlobOf[m]} /\ lock' = Freed("delete", m)
    /\ GotoJob(m, "commit")
    /\ Step /\ UNCHANGED <<link, bare, rows, users>>

\* Mutant: the hash is left to the next scan.
DeletedUnhashed(m) ==
    /\ JobAt(m, "delete", "commit") /\ SetJob(m, NoJob)
    /\ row' = [row EXCEPT ![m] = "deleted"] /\ file' = [file EXCEPT ![m] = "none"]
    /\ Step /\ UNCHANGED <<disk, lock, users>>

\* The commit of a deletion, which asks nothing of the row it closes.
Deleted(m) ==
    /\ JobAt(m, "delete", "commit") /\ SetJob(m, NoJob)
    /\ row' = [row EXCEPT ![m] = "deleted"] /\ file' = [file EXCEPT ![m] = "none"]
    /\ Recompute({m})
    /\ Step /\ UNCHANGED <<disk, lock, serve, late>>

\* delete_incomplete, or a cancel before it ran: the row stays as it is.
DeleteFails(m) ==
    /\ job[m].kind = "delete" /\ SetJob(m, NoJob) /\ lock' = Freed("delete", m)
    /\ Fault /\ UNCHANGED <<disk, rows, users>>

Delete(m) ==
    \/ MarkDeleting(m) \/ PlanDelete(m) \/ Unlink(m) \/ TryLock(m) \/ Recount(m)
    \/ RemoveBlob(m) \/ Deleted(m)

-----------------------------------------------------------------------------
(* A verification.                                                           *)

AskVerify(m) ==
    /\ Click /\ row[m] # "absent" /\ job[m].kind = "none"
    /\ SetJob(m, [NoJob EXCEPT !.kind = "verify", !.step = "queued"])
    /\ UNCHANGED <<disk, rows, users, lock>>

\* runFor reads the row and its files, then looks at the disk; no file is a missing model.
ReadVerify(m) ==
    /\ JobAt(m, "verify", "queued")
    /\ SetJob(m, [job[m] EXCEPT !.step = IF file[m] = "none" THEN "empty" ELSE "look",
                                !.was = row[m]])
    /\ Step /\ UNCHANGED <<disk, rows, users, lock>>

Whole(m) == m \in link /\ BlobOf[m] \in blob
Looked(m, v) == SetJob(m, [job[m] EXCEPT !.step = "commit", !.verdict = v])

\* verifyFile; that a file is damaged is the disk's fault.
LookAtFile(m) ==
    /\ JobAt(m, "verify", "look")
    /\ \/ Whole(m) /\ Looked(m, "ready") /\ Step
       \/ Whole(m) /\ Looked(m, "corrupt") /\ Fault
       \/ ~Whole(m) /\ Looked(m, "missing") /\ Step
    /\ UNCHANGED <<disk, rows, users, lock>>

FileVerdict(v) == CASE v = "ready" -> "present" [] v = "corrupt" -> "corrupt" [] OTHER -> "missing"

\* The commit writes the row it read back with its verdict, and recomputes if the two differ.
Verified(m) ==
    /\ JobAt(m, "verify", "commit") \/ JobAt(m, "verify", "empty")
    /\ SetJob(m, NoJob)
    /\ row' = [row EXCEPT ![m] = job[m].verdict]
    /\ file' = [file EXCEPT ![m] = IF job[m].step = "empty" THEN @ ELSE FileVerdict(job[m].verdict)]
    /\ IF job[m].was # job[m].verdict THEN Recompute({m}) ELSE UNCHANGED hash
    /\ Step /\ UNCHANGED <<disk, lock, serve, late>>

Verify(m) == ReadVerify(m) \/ LookAtFile(m) \/ Verified(m)

-----------------------------------------------------------------------------
(* A scan: the walk, snapshot by snapshot, then a transaction a model seen,  *)
(* then one for all that were not.                                           *)

SetScan(s, r) == scan' = [scan EXCEPT ![s] = r] /\ UNCHANGED <<load, ask, job, due>>

RequestScan ==
    /\ Click /\ due' = due + 1
    /\ UNCHANGED <<disk, rows, users, lock, load, ask, job, scan>>

LeaseScan(s) ==
    /\ due > 0 /\ scan[s].step = "none" /\ due' = due - 1
    /\ scan' = [scan EXCEPT ![s] = [NoScan EXCEPT !.step = "walk", !.todo = Models]]
    /\ Step /\ UNCHANGED <<disk, rows, users, lock, load, ask, job>>

\* scanSnapshot, buildRow: an entry that leads nowhere is a set that misses a member.
WalkSnapshot(s, m) ==
    /\ scan[s].step = "walk" /\ m \in scan[s].todo
    /\ LET todo == scan[s].todo \ {m}
           saw == IF m \in link THEN scan[s].saw \cup {m} ELSE scan[s].saw
       IN  SetScan(s, [step |-> IF todo = {} THEN "upsert" ELSE "walk",
                       todo |-> IF todo = {} THEN saw ELSE todo, saw |-> saw,
                       broken |-> scan[s].broken \cup {n \in {m} : m \in link /\ ~Whole(m)}])
    /\ Step /\ UNCHANGED <<disk, rows, users, lock>>

\* The directory is gone: an empty result, and no error.
Unmounted(s) ==
    /\ scan[s].step = "walk" /\ scan[s].todo = Models
    /\ SetScan(s, [NoScan EXCEPT !.step = "upsert"])
    /\ Fault /\ UNCHANGED <<disk, rows, users, lock>>

\* upsertGroup: whatever the row was.
Upsert(s, m) ==
    /\ scan[s].step = "upsert" /\ m \in scan[s].todo
    /\ SetScan(s, [scan[s] EXCEPT !.todo = @ \ {m}])
    /\ row' = [row EXCEPT ![m] = IF m \in scan[s].broken THEN "incomplete" ELSE "ready"]
    /\ file' = [file EXCEPT ![m] = IF m \in scan[s].broken THEN "missing" ELSE "present"]
    /\ IF row[m] \notin {"absent", row'[m]} THEN Recompute({m}) ELSE UNCHANGED hash
    /\ Step /\ UNCHANGED <<disk, lock, serve, late>>

Unseen(s) == {m \in Models : row[m] \in {"ready", "incomplete"} /\ m \notin scan[s].saw}

\* markMissing: what the walk did not see.
MarkMissing(s) ==
    /\ scan[s].step = "upsert" /\ scan[s].todo = {} /\ SetScan(s, NoScan)
    /\ row' = [m \in Models |-> IF m \in Unseen(s) THEN "missing" ELSE row[m]]
    /\ Recompute(Unseen(s))
    /\ Step /\ UNCHANGED <<disk, lock, file, serve, late>>

Scan(s) == LeaseScan(s) \/ (\E m \in Models : WalkSnapshot(s, m) \/ Upsert(s, m)) \/ MarkMissing(s)

-----------------------------------------------------------------------------
(* Instances, and what happens to the cache from outside.                    *)

Leaving(m) == row[m] \in {"deleting", "deleted"} \/ job[m].kind = "delete"

\* Create and Patch: any row there is, in whatever state.
Configure(i, m) ==
    /\ Click /\ row[m] # "absent" /\ serve[i] # m
    /\ serve' = [serve EXCEPT ![i] = m] /\ hash' = [hash EXCEPT ![i] = Path(row[m])]
    /\ late' = IF Leaving(m) THEN late \cup {i} ELSE late \ {i}
    /\ UNCHANGED <<disk, rows, lock, work>>

Drop(i) ==
    /\ Click /\ serve[i] # None /\ serve' = [serve EXCEPT ![i] = None] /\ late' = late \ {i}
    /\ UNCHANGED <<disk, rows, hash, lock, work>>

\* RecomputeAllConfigHashes, after a version is activated.
Activate ==
    /\ Click /\ UNCHANGED row /\ Recompute(Models)
    /\ UNCHANGED <<disk, file, serve, late, lock, work>>

\* Another tool takes an entry away.
ToolRemoves(m) ==
    /\ Fault /\ m \in link /\ link' = link \ {m} /\ bare' = bare \ {m}
    /\ UNCHANGED <<blob, rows, users, lock, work>>

\* A crash and the boot's triage: downloads and scans are queued again, the rest failed, and
\* the kernel frees the locks of the dead.
Crash ==
    /\ Fault /\ lock' = [b \in Blobs |-> None] /\ ask' = {} /\ job' = [m \in Models |-> NoJob]
    /\ load' = [m \in Models |-> CASE load[m] = "none" -> "none"
                                   [] load[m] \in {"landed", "verified"} -> "landed"
                                   [] OTHER -> "queued"]
    /\ due' = due + Cardinality({s \in Scanners : scan[s].step # "none"})
    /\ scan' = [s \in Scanners |-> NoScan]
    /\ UNCHANGED <<disk, rows, users>>

Request ==
    \/ \E m \in Models : AskLoad(m) \/ AskDelete(m) \/ AskVerify(m)
    \/ \E i \in Instances, m \in Models : Configure(i, m)
    \/ \E i \in Instances : Drop(i)
    \/ RequestScan \/ Activate

Misfortune ==
    \/ \E m \in Models : LoadEnds(m) \/ DeleteFails(m) \/ ToolRemoves(m)
    \/ \E s \in Scanners : Unmounted(s)
    \/ Crash

Next ==
    \/ \E m \in Models : Load(m) \/ Delete(m) \/ Verify(m)
    \/ \E s \in Scanners : Scan(s)
    \/ Request \/ Misfortune

Spec == Init /\ [][Next]_vars

-----------------------------------------------------------------------------
\* The state space.
TypeOK ==
    /\ row \in [Models -> States] /\ link \subseteq Models /\ blob \subseteq Blobs
    /\ file \in [Models -> {"none", "planned", "present", "missing", "corrupt"}]
    /\ lock \in [Blobs -> {"load", "delete"} \X Models \cup {None}] /\ bare \subseteq link /\ due \in Nat
    /\ serve \in [Instances -> Models \cup {None}] /\ hash \in [Instances -> {"path", "pending"}]

\* A deletion counts a blob's references again under the lock a transfer holds from its first
\* byte to its entry: an entry that was made under the lock never leads nowhere, whatever
\* deletions, other downloads, crashes and foreign tools do.  The entries made without it, by
\* the short-circuit of transferOnce, are the ones that may (hf/cache/delete.go:178-185).
NoDanglingLink == \A m \in link \ bare : BlobOf[m] \in blob

\* D69: a scan, a deletion or a request that changes whether a served model has a path leaves
\* the hash of its instances current in the same transaction, also when another scan, deletion
\* or download wrote the row in between.  (Downloads do not; nor a verification that read a
\* row which has changed since.)
Watched(m) == load'[m] = load[m] /\ ~(job[m].kind = "verify" /\ job'[m] = NoJob)
HashFollowsWriters ==
    [][\A i \in Instances : \A m \in Models :
          (serve'[i] = m /\ Path(row'[m]) # Path(row[m]) /\ Watched(m)) => hash'[i] = Path(row'[m])]_vars

\* guardDelete, twice: while a model is deleted, no instance serves it but one that was
\* configured to after the row said it was going (models/delete.go:184-190).
OnlyLatecomersLose ==
    \A i \in Instances, m \in Models : job[m].kind = "delete" /\ serve[i] = m => i \in late

\* What hf/download/service.go:136-144 says of every instance that is not deleted: its stored
\* hash is computed from the path its model has.  Asked only when no work is left to do it.
Quiet ==
    /\ \A m \in Models : load[m] = "none" /\ job[m].kind = "none"
    /\ due = 0 /\ \A s \in Scanners : scan[s].step = "none"
HashFollowsModel ==
    Quiet => \A i \in Instances : serve[i] # None => hash[i] = Path(row[serve[i]])

=============================================================================
