---------------------------- MODULE LibraryProofs ----------------------------
(***************************************************************************)
(* What holds of the model library for any models, blobs, instances and    *)
(* scanners: an entry made under its blob's lock never dangles, only late  *)
(* configurations lose their model, and who changes a path changes the     *)
(* hash.                                                                   *)
(***************************************************************************)
EXTENDS Library, FiniteSetTheorems, TLAPS

-----------------------------------------------------------------------------
(* Types, those of the work in progress included.                          *)

Jobs == [kind : {"none", "delete", "verify"},
         step : {"none", "queued", "unlink", "lock", "count", "remove", "commit", "look", "empty"},
         link : BOOLEAN, blob : BOOLEAN, was : States,
         verdict : {"ready", "missing", "corrupt"}]

Loads == {"none", "queued", "stat", "wait", "stream", "link", "check", "landed", "verified"}

Typed == TypeOK /\ load \in [Models -> Loads] /\ job \in [Models -> Jobs] /\ ask \subseteq Models

LEMMA NoJobType == NoJob \in Jobs /\ NoJob.kind = "none"
BY DEF NoJob, Jobs, States

LEMMA JobType ==
    ASSUME NEW j \in Jobs, NEW step \in {"none", "queued", "unlink", "lock", "count", "remove",
                                         "commit", "look", "empty"}
    PROVE  /\ [j EXCEPT !.step = step] \in Jobs
           /\ [j EXCEPT !.step = step].kind = j.kind
           /\ [j EXCEPT !.step = step].step = step
BY DEF Jobs

LEMMA HashType ==
    ASSUME hash \in [Instances -> {"path", "pending"}], NEW ms, Recompute(ms)
    PROVE  hash' \in [Instances -> {"path", "pending"}]
BY DEF Recompute, Path

LEMMA LockType ==
    ASSUME TypeOK, NEW m \in Models
    PROVE  LET locks == [Blobs -> {"load", "delete"} \X Models \cup {None}]
           IN  /\ Locked("load", m) \in locks /\ Locked("delete", m) \in locks
               /\ Freed("load", m) \in locks /\ Freed("delete", m) \in locks
BY LibraryAssumption DEF TypeOK, Locked, Freed

LEMMA LoadType ==
    ASSUME Typed, NEW m \in Models, AskLoad(m) \/ Load(m) \/ LoadEnds(m)
    PROVE  Typed'
<1> USE DEF Typed, TypeOK, Step, Fault, Click, disk, rows, users, work, GotoLoad
<1>0. BlobOf[m] \in Blobs
  BY LibraryAssumption
<1>1. CASE AskLoad(m)
  BY <1>1 DEF AskLoad, States, Loads
<1>2. CASE StartLoad(m)
  BY <1>2 DEF StartLoad, States, Loads
<1>3. CASE Stat(m)
  BY <1>3 DEF Stat, Loads
<1>4. CASE TakeLock(m)
  BY <1>4, LockType DEF TakeLock, Loads
<1>5. CASE Publish(m)
  BY <1>0, <1>5 DEF Publish, Loads
<1>6. CASE Link(m)
  BY <1>6 DEF Link, Loads
<1>7. CASE Landed(m)
  BY <1>7, LockType DEF Landed, Loads
<1>8. CASE VerifyLoaded(m)
  BY <1>8 DEF VerifyLoaded, Loads, States
<1>9. CASE CompleteLoad(m)
  BY <1>9 DEF CompleteLoad, Loads
<1>10. CASE LoadEnds(m)
  BY <1>10, LockType DEF LoadEnds, Loads
<1> QED BY <1>1, <1>2, <1>3, <1>4, <1>5, <1>6, <1>7, <1>8, <1>9, <1>10 DEF Load

LEMMA DeleteType ==
    ASSUME Typed, NEW m \in Models, AskDelete(m) \/ Delete(m) \/ DeleteFails(m)
    PROVE  Typed'
<1> USE DEF Typed, TypeOK, Step, Fault, Click, disk, rows, users, SetJob, GotoJob
<1>0. BlobOf[m] \in Blobs /\ job[m] \in Jobs
  BY LibraryAssumption
<1>1. CASE AskDelete(m)
  BY <1>1 DEF AskDelete
<1>2. CASE MarkDeleting(m)
  <2>1. [NoJob EXCEPT !.kind = "delete", !.step = "queued"] \in Jobs
    BY DEF NoJob, Jobs, States
  <2> QED BY <1>2, <2>1, HashType DEF MarkDeleting, Enqueue, States
<1>3. CASE PlanDelete(m)
  <2> DEFINE l == m \in link
             b == Referred(BlobOf[m]) = {m}
             j == [job[m] EXCEPT !.step = "unlink", !.link = l, !.blob = b]
  <2>1. l \in BOOLEAN /\ b \in BOOLEAN
    OBVIOUS
  <2>2. job' = [job EXCEPT ![m] = j]
    BY <1>3 DEF PlanDelete
  <2> HIDE DEF l, b
  <2>3. j \in Jobs
    BY <1>0, <2>1 DEF Jobs
  <2> HIDE DEF j
  <2> QED BY <1>3, <2>2, <2>3 DEF PlanDelete
<1>a. ASSUME NEW step \in {"lock", "count", "remove", "commit"}, GotoJob(m, step)
      PROVE  job' \in [Models -> Jobs] /\ UNCHANGED <<load, ask, due, scan>>
  <2> DEFINE j == [job[m] EXCEPT !.step = step]
  <2>1. j \in Jobs
    BY <1>0, JobType
  <2> HIDE DEF j
  <2>2. job' = [job EXCEPT ![m] = j] /\ UNCHANGED <<load, ask, due, scan>>
    BY <1>a DEF j
  <2> QED BY <2>1, <2>2
<1> HIDE DEF GotoJob
<1>4. CASE Unlink(m)
  BY <1>a, <1>4 DEF Unlink
<1>5. CASE TryLock(m)
  BY <1>a, <1>5, LockType DEF TryLock
<1>6. CASE Recount(m)
  BY <1>a, <1>6, LockType DEF Recount
<1>7. CASE RemoveBlob(m)
  BY <1>a, <1>7, LockType DEF RemoveBlob
<1>8. CASE Deleted(m)
  BY <1>8, NoJobType, HashType DEF Deleted, States
<1>9. CASE DeleteFails(m)
  BY <1>9, NoJobType, LockType DEF DeleteFails
<1> QED BY <1>1, <1>2, <1>3, <1>4, <1>5, <1>6, <1>7, <1>8, <1>9 DEF Delete

LEMMA VerifyType ==
    ASSUME Typed, NEW m \in Models, AskVerify(m) \/ Verify(m)
    PROVE  Typed'
<1> USE DEF Typed, TypeOK, Step, Fault, Click, disk, rows, users, SetJob
<1>0. job[m] \in Jobs
  OBVIOUS
<1>1. CASE AskVerify(m)
  <2>1. [NoJob EXCEPT !.kind = "verify", !.step = "queued"] \in Jobs
    BY DEF NoJob, Jobs, States
  <2> QED BY <1>1, <2>1 DEF AskVerify
<1>2. CASE ReadVerify(m)
  <2>1. \A step \in {"empty", "look"} : [job[m] EXCEPT !.step = step, !.was = row[m]] \in Jobs
    BY <1>0 DEF Jobs
  <2> QED BY <1>2, <2>1 DEF ReadVerify
<1>3. CASE LookAtFile(m)
  <2>1. \A v \in {"ready", "missing", "corrupt"} :
          [job[m] EXCEPT !.step = "commit", !.verdict = v] \in Jobs
    BY <1>0 DEF Jobs
  <2> QED BY <1>3, <2>1 DEF LookAtFile, Looked
<1>4. CASE Verified(m)
  <2>1. job[m].verdict \in States
    BY <1>0 DEF Jobs, States
  <2> QED BY <1>4, <2>1, NoJobType, HashType DEF Verified, FileVerdict
<1> QED BY <1>1, <1>2, <1>3, <1>4 DEF Verify

LEMMA ScanType ==
    ASSUME Typed, NEW s \in Scanners, Scan(s) \/ Unmounted(s)
    PROVE  Typed'
<1> USE DEF Typed, TypeOK, Step, Fault, disk, rows, users, SetScan
<1>1. CASE LeaseScan(s)
  BY <1>1 DEF LeaseScan
<1>2. ASSUME NEW m \in Models, WalkSnapshot(s, m) PROVE Typed'
  BY <1>2 DEF WalkSnapshot
<1>3. ASSUME NEW m \in Models, Upsert(s, m) PROVE Typed'
  BY <1>3, HashType DEF Upsert, States
<1>4. CASE MarkMissing(s)
  BY <1>4, HashType DEF MarkMissing, States
<1>5. CASE Unmounted(s)
  BY <1>5 DEF Unmounted
<1> QED BY <1>1, <1>2, <1>3, <1>4, <1>5 DEF Scan

\* Everything that is neither a step of a transfer, of a job nor of a scan.
Rest == \/ \E i \in Instances, m \in Models : Configure(i, m)
        \/ \E i \in Instances : Drop(i)
        \/ \E m \in Models : ToolRemoves(m)
        \/ RequestScan \/ Activate \/ Crash

LEMMA RestType ==
    ASSUME Typed, Rest
    PROVE  Typed'
<1> USE DEF Typed, TypeOK, Fault, Click, disk, rows, users, work
<1>1. ASSUME NEW i \in Instances, NEW m \in Models, Configure(i, m) PROVE Typed'
  BY <1>1 DEF Configure, Path
<1>2. ASSUME NEW i \in Instances, Drop(i) PROVE Typed'
  BY <1>2 DEF Drop
<1>3. ASSUME NEW m \in Models, ToolRemoves(m) PROVE Typed'
  BY <1>3 DEF ToolRemoves
<1>4. CASE RequestScan
  BY <1>4 DEF RequestScan
<1>5. CASE Activate
  BY <1>5, HashType DEF Activate
<1>6. CASE Crash
  <2> DEFINE cut == {s \in Scanners : scan[s].step # "none"}
  <2>1. Cardinality(cut) \in Nat
    BY LibraryAssumption, FS_Subset, FS_CardinalityType
  <2> HIDE DEF cut
  <2>2. due' = due + Cardinality(cut)
    BY <1>6 DEF Crash, cut
  <2>3. due' \in Nat
    BY <2>1, <2>2
  <2>4. lock' \in [Blobs -> {"load", "delete"} \X Models \cup {None}]
    BY <1>6 DEF Crash
  <2>5. load' \in [Models -> Loads] /\ job' \in [Models -> Jobs] /\ ask' \subseteq Models
    BY <1>6, NoJobType DEF Crash, Loads
  <2> QED BY <1>6, <2>3, <2>4, <2>5 DEF Crash
<1> QED BY <1>1, <1>2, <1>3, <1>4, <1>5, <1>6 DEF Rest

\* The actions by who takes them, one name for each group below.
LEMMA NextCases ==
    ASSUME Next
    PROVE  \/ \E m \in Models : AskLoad(m) \/ Load(m) \/ LoadEnds(m)
           \/ \E m \in Models : AskDelete(m) \/ Delete(m) \/ DeleteFails(m)
           \/ \E m \in Models : AskVerify(m) \/ Verify(m)
           \/ \E s \in Scanners : Scan(s) \/ Unmounted(s)
           \/ Rest
BY DEF Next, Request, Misfortune, Rest

LEMMA NextType == Typed /\ [Next]_vars => Typed'
<1>1. ASSUME Typed, UNCHANGED vars PROVE Typed'
  BY <1>1 DEF vars, disk, rows, users, work, Typed, TypeOK
<1> QED BY <1>1, NextCases, LoadType, DeleteType, VerifyType, ScanType, RestType

LEMMA InitType == Init => Typed
<1> SUFFICES ASSUME Init PROVE Typed
  OBVIOUS
<1>1. PICK here \in SUBSET Models :
        /\ link = here /\ blob = {BlobOf[m] : m \in here}
        /\ row = [m \in Models |-> IF m \in here THEN "ready" ELSE "absent"]
        /\ file = [m \in Models |-> IF m \in here THEN "present" ELSE "none"]
  BY DEF Init
<1>2. blob \subseteq Blobs /\ link \subseteq Models
  BY <1>1, LibraryAssumption
<1>3. row \in [Models -> States] /\ file \in [Models -> {"none", "planned", "present", "missing", "corrupt"}]
  BY <1>1 DEF States
<1> QED BY <1>2, <1>3, NoJobType DEF Init, Typed, TypeOK, Loads

\* The state of the library is well typed, and so is the work in progress.
THEOREM TypeCorrect == Spec => []TypeOK
<1>1. Typed => TypeOK
  BY DEF Typed
<1> QED BY <1>1, InitType, NextType, PTL DEF Spec

-----------------------------------------------------------------------------
(* The lock of a blob. A transfer holds it from its first byte to its      *)
(* entry, so the blob of an entry made under it is there; a deletion holds *)
(* it from its count to its removal, so no such entry appears in between.  *)

Transfers == \A m \in Models : Holds("load", m) =>
    load[m] \in {"stream", "link", "check"} /\ (load[m] = "link" => BlobOf[m] \in blob)
Counting  == \A m \in Models : JobAt(m, "delete", "count") \/ JobAt(m, "delete", "remove")
                                 => Holds("delete", m)
Unneeded  == \A m \in Models : JobAt(m, "delete", "remove")
                                 => \A n \in link \ bare : BlobOf[n] # BlobOf[m]

Guarded == Transfers /\ Counting /\ Unneeded /\ NoDanglingLink

\* What a release of a lock and a free lock's taking do to every holder.
LEMMA Releasing ==
    ASSUME Typed, NEW who \in {"load", "delete"}, NEW m \in Models, lock' = Freed(who, m)
    PROVE  \A w \in {"load", "delete"}, n \in Models :
             Holds(w, n)' <=> Holds(w, n) /\ ~(w = who /\ n = m)
BY LibraryAssumption DEF Freed, Holds, Typed, TypeOK

LEMMA Taking ==
    ASSUME Typed, NEW who \in {"load", "delete"}, NEW m \in Models,
           lock[BlobOf[m]] = None, lock' = Locked(who, m)
    PROVE  \A w \in {"load", "delete"}, n \in Models :
             Holds(w, n)' <=> Holds(w, n) \/ (w = who /\ n = m)
<1> SUFFICES ASSUME NEW w \in {"load", "delete"}, NEW n \in Models
             PROVE  Holds(w, n)' <=> Holds(w, n) \/ (w = who /\ n = m)
  OBVIOUS
<1>1. <<w, n>> # None /\ BlobOf[m] \in Blobs
  BY LibraryAssumption
<1>2. lock' = [lock EXCEPT ![BlobOf[m]] = <<who, m>>] /\ lock \in [Blobs -> {"load", "delete"} \X Models \cup {None}]
  BY DEF Locked, Typed, TypeOK
<1>3. CASE BlobOf[n] = BlobOf[m]
  BY <1>1, <1>2, <1>3 DEF Holds
<1>4. CASE BlobOf[n] # BlobOf[m]
  BY <1>2, <1>4 DEF Holds
<1> QED BY <1>3, <1>4

\* A step that touches neither the lock nor the disk, and no transfer or deletion
\* that holds a lock.
LEMMA ElsewhereGuarded ==
    ASSUME Guarded, lock' = lock, UNCHANGED disk,
           \A m \in Models : /\ Holds("load", m) => load'[m] = load[m]
                             /\ JobAt(m, "delete", "count")' => JobAt(m, "delete", "count")
                             /\ JobAt(m, "delete", "remove")' => JobAt(m, "delete", "remove")
    PROVE  Guarded'
BY DEF Guarded, Transfers, Counting, Unneeded, NoDanglingLink, Holds, disk

LEMMA LoadGuarded ==
    ASSUME Typed, Guarded, NEW m \in Models, AskLoad(m) \/ Load(m) \/ LoadEnds(m)
    PROVE  Guarded'
<1> USE DEF GotoLoad, disk, rows
<1>1. job' = job /\ \A n \in Models \ {m} : load'[n] = load[n]
  BY DEF Typed, AskLoad, Load, StartLoad, Stat, TakeLock, Publish, Link, Landed, VerifyLoaded,
         CompleteLoad, LoadEnds
<1>2. \A n \in Models : \A step : JobAt(n, "delete", step)' <=> JobAt(n, "delete", step)
  BY <1>1 DEF JobAt
<1>3. CASE AskLoad(m) \/ StartLoad(m) \/ Stat(m) \/ VerifyLoaded(m) \/ CompleteLoad(m)
  <2>1. load[m] \notin {"stream", "link", "check"} /\ lock' = lock /\ UNCHANGED disk
    BY <1>3 DEF AskLoad, StartLoad, Stat, VerifyLoaded, CompleteLoad
  <2>2. ~Holds("load", m)
    BY <2>1 DEF Guarded, Transfers
  <2> QED BY <1>1, <1>2, <2>1, <2>2, ElsewhereGuarded
<1>4. CASE TakeLock(m)
  <2>1. UNCHANGED disk /\ load'[m] = "stream"
    BY <1>4 DEF TakeLock, Typed
  <2>2. \A w \in {"load", "delete"}, n \in Models :
          Holds(w, n)' <=> Holds(w, n) \/ (w = "load" /\ n = m)
    BY <1>4, Taking DEF TakeLock
  <2> QED BY <1>1, <1>2, <2>1, <2>2 DEF Guarded, Transfers, Counting, Unneeded, NoDanglingLink
<1>5. CASE Publish(m)
  <2>1. UNCHANGED <<link, bare, lock>> /\ blob \subseteq blob' /\ BlobOf[m] \in blob' /\ load'[m] = "link"
    BY <1>5 DEF Publish, Typed
  <2> QED BY <1>1, <1>2, <2>1 DEF Guarded, Transfers, Counting, Unneeded, NoDanglingLink, Holds
<1>6. CASE Link(m)
  <2>1. /\ UNCHANGED <<blob, lock>> /\ link' = link \cup {m} /\ load[m] = "link" /\ load'[m] = "check"
        /\ bare' = IF Holds("load", m) THEN bare \ {m} ELSE bare \cup {m}
    BY <1>6 DEF Link, Typed
  <2>2. \A n \in link' \ bare' : n \in link \ bare \/ (n = m /\ Holds("load", m))
    BY <2>1
  <2>3. Unneeded'
    <3>1. \A n \in Models : JobAt(n, "delete", "remove") /\ Holds("load", m) => BlobOf[n] # BlobOf[m]
      BY DEF Guarded, Counting, Holds
    <3> QED BY <1>2, <2>2, <3>1 DEF Guarded, Unneeded
  <2>4. NoDanglingLink'
    BY <2>1, <2>2 DEF Guarded, NoDanglingLink, Transfers
  <2> QED BY <1>1, <1>2, <2>1, <2>3, <2>4 DEF Guarded, Transfers, Counting, Holds
<1>7. CASE Landed(m) \/ LoadEnds(m)
  <2>1. lock' = Freed("load", m) /\ UNCHANGED disk
    BY <1>7 DEF Landed, LoadEnds
  <2>2. \A w \in {"load", "delete"}, n \in Models :
          Holds(w, n)' <=> Holds(w, n) /\ ~(w = "load" /\ n = m)
    BY <2>1, Releasing
  <2> QED BY <1>1, <1>2, <2>1, <2>2 DEF Guarded, Transfers, Counting, Unneeded, NoDanglingLink
<1> QED BY <1>3, <1>4, <1>5, <1>6, <1>7 DEF Load

LEMMA DeleteGuarded ==
    ASSUME Typed, Guarded, NEW m \in Models, AskDelete(m) \/ Delete(m) \/ DeleteFails(m)
    PROVE  Guarded'
<1> USE DEF SetJob, disk, rows
<1>1. load' = load /\ \A n \in Models \ {m} : job'[n] = job[n]
  BY DEF Typed, AskDelete, Delete, MarkDeleting, Enqueue, PlanDelete, Unlink, TryLock, Recount,
         RemoveBlob, Deleted, DeleteFails, GotoJob
<1>2. \A n \in Models \ {m} : \A step : JobAt(n, "delete", step)' <=> JobAt(n, "delete", step)
  BY <1>1 DEF JobAt
<1>3. ASSUME NEW step \in {"lock", "count", "remove", "commit"}, GotoJob(m, step)
      PROVE  job'[m].step = step /\ job'[m].kind = job[m].kind
  <2> DEFINE j == [job[m] EXCEPT !.step = step]
  <2>1. j.step = step /\ j.kind = job[m].kind
    BY JobType DEF Typed
  <2> HIDE DEF j
  <2>2. job' = [job EXCEPT ![m] = j]
    BY <1>3 DEF GotoJob, j
  <2> QED BY <2>1, <2>2 DEF Typed
<1>4. CASE AskDelete(m)
  BY <1>1, <1>4, ElsewhereGuarded DEF AskDelete, JobAt
<1>5. CASE MarkDeleting(m)
  <2>1. job' = job \/ job'[m].step = "queued"
    BY <1>5 DEF MarkDeleting, Enqueue, Typed, NoJob
  <2> QED BY <1>1, <1>2, <1>5, <2>1, ElsewhereGuarded DEF MarkDeleting, JobAt
<1>6. CASE PlanDelete(m)
  <2>1. job'[m].step = "unlink"
    <3>1. \A l, b : [job[m] EXCEPT !.step = "unlink", !.link = l, !.blob = b].step = "unlink"
      BY DEF Typed, Jobs
    <3>2. \E l, b : job'[m] = [job[m] EXCEPT !.step = "unlink", !.link = l, !.blob = b]
      BY <1>6 DEF PlanDelete, Typed
    <3> QED BY <3>1, <3>2
  <2> QED BY <1>1, <1>2, <1>6, <2>1, ElsewhereGuarded DEF PlanDelete, JobAt
<1>7. CASE Unlink(m)
  <2>1. job'[m].step \in {"lock", "commit"}
    BY <1>3, <1>7 DEF Unlink
  <2>2. link' \subseteq link /\ link' \ bare' \subseteq link \ bare /\ UNCHANGED <<blob, lock>>
    BY <1>7 DEF Unlink
  <2> QED BY <1>1, <1>2, <2>1, <2>2
          DEF Guarded, Transfers, Counting, Unneeded, NoDanglingLink, Holds, JobAt
<1>8. CASE TryLock(m)
  <2>1. CASE lock[BlobOf[m]] = None
    <3>1. job'[m].step = "count" /\ lock' = Locked("delete", m) /\ UNCHANGED disk
      BY <1>3, <1>8, <2>1 DEF TryLock
    <3>2. \A w \in {"load", "delete"}, n \in Models :
            Holds(w, n)' <=> Holds(w, n) \/ (w = "delete" /\ n = m)
      BY <2>1, <3>1, Taking
    <3> QED BY <1>1, <1>2, <3>1, <3>2
            DEF Guarded, Transfers, Counting, Unneeded, NoDanglingLink, JobAt
  <2>2. CASE lock[BlobOf[m]] # None
    <3>1. job'[m].step = "commit" /\ lock' = lock /\ UNCHANGED disk
      BY <1>3, <1>8, <2>2 DEF TryLock
    <3> QED BY <1>1, <1>2, <3>1, ElsewhereGuarded DEF JobAt
  <2> QED BY <2>1, <2>2
<1>9. CASE Recount(m)
  <2>0. JobAt(m, "delete", "count") /\ UNCHANGED disk
    BY <1>9 DEF Recount
  <2>1. CASE Referred(BlobOf[m]) = {}
    <3>1. job'[m].step = "remove" /\ lock' = lock
      BY <1>3, <1>9, <2>1 DEF Recount
    <3>2. \A n \in link : BlobOf[n] # BlobOf[m]
      BY <2>1 DEF Referred
    <3> QED BY <1>1, <1>2, <2>0, <3>1, <3>2
            DEF Guarded, Transfers, Counting, Unneeded, NoDanglingLink, Holds, JobAt
  <2>2. CASE Referred(BlobOf[m]) # {}
    <3>1. job'[m].step = "commit" /\ lock' = Freed("delete", m)
      BY <1>3, <1>9, <2>2 DEF Recount
    <3>2. \A w \in {"load", "delete"}, n \in Models :
            Holds(w, n)' <=> Holds(w, n) /\ ~(w = "delete" /\ n = m)
      BY <3>1, Releasing
    <3> QED BY <1>1, <1>2, <2>0, <3>1, <3>2
            DEF Guarded, Transfers, Counting, Unneeded, NoDanglingLink, JobAt
  <2> QED BY <2>1, <2>2
<1>10. CASE RemoveBlob(m)
  <2>1. /\ JobAt(m, "delete", "remove") /\ job'[m].step = "commit" /\ lock' = Freed("delete", m)
        /\ blob' = blob \ {BlobOf[m]} /\ UNCHANGED <<link, bare>>
    BY <1>3, <1>10 DEF RemoveBlob
  <2>2. Holds("delete", m) /\ \A n \in link \ bare : BlobOf[n] # BlobOf[m]
    BY <2>1 DEF Guarded, Counting, Unneeded
  <2>3. \A w \in {"load", "delete"}, n \in Models :
          Holds(w, n)' <=> Holds(w, n) /\ ~(w = "delete" /\ n = m)
    BY <2>1, Releasing
  <2>4. \A n \in Models : Holds("load", n) => BlobOf[n] # BlobOf[m]
    BY <2>2 DEF Holds
  <2>5. \A n \in Models : BlobOf[n] # BlobOf[m] /\ BlobOf[n] \in blob => BlobOf[n] \in blob'
    BY <2>1
  <2>6. NoDanglingLink'
    BY <2>1, <2>2 DEF Guarded, NoDanglingLink
  <2> QED BY <1>1, <1>2, <2>1, <2>3, <2>4, <2>5, <2>6
          DEF Guarded, Transfers, Counting, Unneeded, JobAt
<1>11. CASE Deleted(m)
  BY <1>1, <1>2, <1>11, ElsewhereGuarded DEF Deleted, JobAt, NoJob, Typed
<1>12. CASE DeleteFails(m)
  <2>1. job'[m].kind = "none" /\ lock' = Freed("delete", m) /\ UNCHANGED disk
    BY <1>12, NoJobType DEF DeleteFails, Typed
  <2>2. \A w \in {"load", "delete"}, n \in Models :
          Holds(w, n)' <=> Holds(w, n) /\ ~(w = "delete" /\ n = m)
    BY <2>1, Releasing
  <2> QED BY <1>1, <1>2, <2>1, <2>2
          DEF Guarded, Transfers, Counting, Unneeded, NoDanglingLink, JobAt
<1> QED BY <1>4, <1>5, <1>6, <1>7, <1>8, <1>9, <1>10, <1>11, <1>12 DEF Delete

LEMMA OtherGuarded ==
    ASSUME Typed, Guarded,
           \/ \E m \in Models : AskVerify(m) \/ Verify(m)
           \/ \E s \in Scanners : Scan(s) \/ Unmounted(s)
           \/ Rest
    PROVE  Guarded'
<1> USE DEF disk, rows, users, work
<1>1. ASSUME NEW m \in Models, AskVerify(m) \/ Verify(m) PROVE Guarded'
  <2>1. /\ load' = load /\ lock' = lock /\ UNCHANGED disk
        /\ \A n \in Models \ {m} : job'[n] = job[n]
    BY <1>1 DEF AskVerify, Verify, ReadVerify, LookAtFile, Looked, Verified, SetJob, Typed
  <2>2. job'[m].kind # "delete"
    <3>1. \A step, s : [job[m] EXCEPT !.step = step, !.was = s].kind = job[m].kind
      BY DEF Typed, Jobs
    <3>2. \A step, v : [job[m] EXCEPT !.step = step, !.verdict = v].kind = job[m].kind
      BY DEF Typed, Jobs
    <3>3. CASE AskVerify(m) \/ Verified(m)
      <4>1. CASE AskVerify(m)
        BY <4>1 DEF AskVerify, SetJob, NoJob, Typed
      <4>2. CASE Verified(m)
        BY <4>2, NoJobType DEF Verified, SetJob, Typed
      <4> QED BY <3>3, <4>1, <4>2
    <3>4. CASE ReadVerify(m)
      <4>1. \E step, s : job'[m] = [job[m] EXCEPT !.step = step, !.was = s]
        BY <3>4 DEF ReadVerify, SetJob, Typed
      <4> QED BY <3>1, <3>4, <4>1 DEF ReadVerify, JobAt
    <3>5. CASE LookAtFile(m)
      <4>1. \E step, v : job'[m] = [job[m] EXCEPT !.step = step, !.verdict = v]
        BY <3>5 DEF LookAtFile, Looked, SetJob, Typed
      <4> QED BY <3>2, <3>5, <4>1 DEF LookAtFile, JobAt
    <3> QED BY <1>1, <3>3, <3>4, <3>5 DEF Verify
  <2> QED BY <2>1, <2>2, ElsewhereGuarded DEF JobAt
<1>2. ASSUME NEW s \in Scanners, Scan(s) \/ Unmounted(s) PROVE Guarded'
  <2>1. UNCHANGED <<load, job, lock, disk>>
    BY <1>2 DEF Scan, LeaseScan, WalkSnapshot, Upsert, MarkMissing, Unmounted, SetScan
  <2> QED BY <2>1, ElsewhereGuarded DEF JobAt
<1>3. CASE RequestScan \/ Activate \/ \E i \in Instances : Drop(i) \/ \E m \in Models : Configure(i, m)
  <2>1. UNCHANGED <<load, job, lock, disk>>
    BY <1>3 DEF RequestScan, Activate, Configure, Drop
  <2> QED BY <2>1, ElsewhereGuarded DEF JobAt
<1>4. ASSUME NEW m \in Models, ToolRemoves(m) PROVE Guarded'
  <2>1. link' \subseteq link /\ link' \ bare' \subseteq link \ bare /\ UNCHANGED <<blob, lock, load, job>>
    BY <1>4 DEF ToolRemoves
  <2> QED BY <2>1 DEF Guarded, Transfers, Counting, Unneeded, NoDanglingLink, Holds, JobAt
<1>5. CASE Crash
  <2>0. \A w \in {"load", "delete"}, m \in Models : <<w, m>> # None /\ BlobOf[m] \in Blobs
    BY LibraryAssumption
  <2>1. \A w \in {"load", "delete"}, m \in Models : ~Holds(w, m)'
    BY <1>5, <2>0 DEF Crash, Holds
  <2>2. \A m \in Models : job'[m].kind = "none"
    BY <1>5, NoJobType DEF Crash
  <2>3. UNCHANGED disk
    BY <1>5 DEF Crash
  <2> QED BY <2>1, <2>2, <2>3 DEF Guarded, Transfers, Counting, Unneeded, NoDanglingLink, JobAt
<1> QED BY <1>1, <1>2, <1>3, <1>4, <1>5 DEF Rest

LEMMA InitGuarded == Init => Guarded
<1> SUFFICES ASSUME Init PROVE Guarded
  OBVIOUS
<1>1. \A w \in {"load", "delete"}, m \in Models : ~Holds(w, m)
  BY LibraryAssumption DEF Init, Holds
<1>2. \A m \in Models : job[m].kind = "none"
  BY NoJobType DEF Init
<1>3. NoDanglingLink
  BY DEF Init, NoDanglingLink
<1> QED BY <1>1, <1>2, <1>3 DEF Guarded, Transfers, Counting, Unneeded, JobAt

LEMMA NextGuarded == Typed /\ Guarded /\ [Next]_vars => Guarded'
<1>1. ASSUME Guarded, UNCHANGED vars PROVE Guarded'
  BY <1>1 DEF vars, disk, work, Guarded, Transfers, Counting, Unneeded, NoDanglingLink, Holds, JobAt
<1> QED BY <1>1, NextCases, LoadGuarded, DeleteGuarded, OtherGuarded

\* An entry made under the lock of its blob never leads nowhere.
THEOREM EntriesLead == Spec => []NoDanglingLink
<1>1. Typed /\ Guarded /\ [Next]_vars => (Typed /\ Guarded)'
  BY NextType, NextGuarded
<1>2. Guarded => NoDanglingLink
  BY DEF Guarded
<1> QED BY <1>1, <1>2, InitType, InitGuarded, PTL DEF Spec

-----------------------------------------------------------------------------
(* The guard of a deletion. While the job is there, the row has been on    *)
(* its way out since the guard found nobody serving the model.             *)

\* The steps of a deletion or a verification that is under way keep its kind.
LEMMA KindStays ==
    ASSUME Typed, NEW m \in Models,
           AskVerify(m) \/ Verify(m) \/ AskDelete(m) \/ Delete(m) \/ DeleteFails(m)
    PROVE  /\ \A n \in Models \ {m} : job'[n] = job[n]
           /\ job'[m].kind = "delete" => job[m].kind = "delete" \/ MarkDeleting(m)
<1> USE DEF SetJob, GotoJob, Typed, rows
<1>0. job[m] \in Jobs /\ NoJob.kind = "none"
  BY NoJobType
<1>1. \A n \in Models \ {m} : job'[n] = job[n]
  BY DEF AskVerify, Verify, ReadVerify, LookAtFile, Looked, Verified, AskDelete, Delete,
         MarkDeleting, Enqueue, PlanDelete, Unlink, TryLock, Recount, RemoveBlob, Deleted, DeleteFails
<1>2. CASE PlanDelete(m) \/ Unlink(m) \/ TryLock(m) \/ Recount(m) \/ RemoveBlob(m)
  BY <1>1, <1>2 DEF PlanDelete, Unlink, TryLock, Recount, RemoveBlob, JobAt
<1>3. CASE Deleted(m) \/ DeleteFails(m) \/ Verified(m)
  BY <1>0, <1>1, <1>3 DEF Deleted, DeleteFails, Verified
<1>4. CASE AskVerify(m)
  BY <1>1, <1>4 DEF AskVerify, NoJob
<1>5. CASE AskDelete(m)
  BY <1>1, <1>5 DEF AskDelete
<1>6. CASE ReadVerify(m)
  <2>1. \A step, s : [job[m] EXCEPT !.step = step, !.was = s].kind = job[m].kind
    BY <1>0 DEF Jobs
  <2>2. \E step, s : job'[m] = [job[m] EXCEPT !.step = step, !.was = s]
    BY <1>6 DEF ReadVerify
  <2> QED BY <1>1, <1>6, <2>1, <2>2 DEF ReadVerify, JobAt
<1>7. CASE LookAtFile(m)
  <2>1. \A step, v : [job[m] EXCEPT !.step = step, !.verdict = v].kind = job[m].kind
    BY <1>0 DEF Jobs
  <2>2. \E step, v : job'[m] = [job[m] EXCEPT !.step = step, !.verdict = v]
    BY <1>7 DEF LookAtFile, Looked
  <2> QED BY <1>1, <1>7, <2>1, <2>2 DEF LookAtFile, JobAt
<1> QED BY <1>1, <1>2, <1>3, <1>4, <1>5, <1>6, <1>7 DEF Verify, Delete

LEMMA NextLate == Typed /\ OnlyLatecomersLose /\ [Next]_vars => OnlyLatecomersLose'
<1> SUFFICES ASSUME Typed, OnlyLatecomersLose, [Next]_vars PROVE OnlyLatecomersLose'
  OBVIOUS
<1> USE DEF OnlyLatecomersLose, users, work, disk, rows
<1>1. ASSUME NEW m \in Models,
             AskVerify(m) \/ Verify(m) \/ AskDelete(m) \/ Delete(m) \/ DeleteFails(m)
      PROVE  OnlyLatecomersLose'
  <2>1. UNCHANGED <<serve, late>>
    BY <1>1 DEF AskVerify, Verify, ReadVerify, LookAtFile, Verified, AskDelete, Delete,
                MarkDeleting, Enqueue, PlanDelete, Unlink, TryLock, Recount, RemoveBlob, Deleted,
                DeleteFails
  <2>2. MarkDeleting(m) => job' = job \/ \A i \in Instances : serve[i] # m
    BY DEF MarkDeleting, Deletable
  <2> QED BY <1>1, <2>1, <2>2, KindStays
<1>2. ASSUME NEW m \in Models, AskLoad(m) \/ Load(m) \/ LoadEnds(m) PROVE OnlyLatecomersLose'
  BY <1>2 DEF AskLoad, Load, StartLoad, Stat, TakeLock, Publish, Link, Landed, VerifyLoaded,
              CompleteLoad, LoadEnds, GotoLoad
<1>3. ASSUME NEW s \in Scanners, Scan(s) \/ Unmounted(s) PROVE OnlyLatecomersLose'
  BY <1>3 DEF Scan, LeaseScan, WalkSnapshot, Upsert, MarkMissing, Unmounted, SetScan
<1>4. ASSUME NEW i \in Instances, NEW m \in Models, Configure(i, m) PROVE OnlyLatecomersLose'
  BY <1>4 DEF Configure, Leaving, Typed, TypeOK
<1>5. ASSUME NEW i \in Instances, Drop(i) PROVE OnlyLatecomersLose'
  BY <1>5, LibraryAssumption DEF Drop, Typed, TypeOK
<1>6. CASE Crash
  BY <1>6, NoJobType DEF Crash
<1>7. CASE RequestScan \/ Activate \/ \E m \in Models : ToolRemoves(m)
  BY <1>7 DEF RequestScan, Activate, ToolRemoves
<1>8. CASE UNCHANGED vars
  BY <1>8 DEF vars
<1> QED BY <1>1, <1>2, <1>3, <1>4, <1>5, <1>6, <1>7, <1>8, NextCases DEF Rest

\* While a model is deleted, only an instance that was configured after its row said
\* it was going serves it.
THEOREM LatecomersLose == Spec => []OnlyLatecomersLose
<1>1. Init => OnlyLatecomersLose
  BY LibraryAssumption DEF Init, OnlyLatecomersLose
<1>2. Typed /\ OnlyLatecomersLose /\ [Next]_vars => (Typed /\ OnlyLatecomersLose)'
  BY NextType, NextLate
<1> QED BY <1>1, <1>2, InitType, PTL DEF Spec

-----------------------------------------------------------------------------
(* The hash. Every writer but a download and a stale verification computes *)
(* it for the models whose row it changes; a row that appears in a scan is *)
(* one that no instance can serve yet.                                     *)

Served == \A i \in Instances : serve[i] \in Models => row[serve[i]] # "absent"

\* A step that leaves the instances alone, and no row of the catalog absent.
LEMMA RowsServed ==
    ASSUME Served, serve' = serve, \A m \in Models : row'[m] = "absent" => row[m] = "absent"
    PROVE  Served'
BY DEF Served

LEMMA NextServed == Typed /\ Served /\ [Next]_vars => Served'
<1> SUFFICES ASSUME Typed, Served, [Next]_vars PROVE Served'
  OBVIOUS
<1> USE DEF Typed, TypeOK, users, work, disk, rows
<1>1. ASSUME NEW m \in Models, AskLoad(m) \/ Load(m) \/ LoadEnds(m) PROVE Served'
  BY <1>1, RowsServed
     DEF AskLoad, Load, StartLoad, Stat, TakeLock, Publish, Link, Landed, VerifyLoaded,
         CompleteLoad, LoadEnds
<1>2. ASSUME NEW m \in Models, AskDelete(m) \/ Delete(m) \/ DeleteFails(m) PROVE Served'
  BY <1>2, RowsServed
     DEF AskDelete, Delete, MarkDeleting, Enqueue, PlanDelete, Unlink, TryLock, Recount,
         RemoveBlob, Deleted, DeleteFails
<1>3. ASSUME NEW m \in Models, AskVerify(m) \/ Verify(m) PROVE Served'
  <2>1. job[m].verdict # "absent"
    BY DEF Jobs
  <2> QED BY <1>3, <2>1, RowsServed DEF AskVerify, Verify, ReadVerify, LookAtFile, Verified
<1>4. ASSUME NEW s \in Scanners, Scan(s) \/ Unmounted(s) PROVE Served'
  BY <1>4, RowsServed DEF Scan, LeaseScan, WalkSnapshot, Upsert, MarkMissing, Unmounted
<1>5. ASSUME NEW i \in Instances, NEW m \in Models, Configure(i, m) PROVE Served'
  BY <1>5 DEF Configure, Served
<1>6. ASSUME NEW i \in Instances, Drop(i) PROVE Served'
  BY <1>6, LibraryAssumption DEF Drop, Served
<1>7. CASE RequestScan \/ Activate \/ Crash \/ \E m \in Models : ToolRemoves(m)
  BY <1>7, RowsServed DEF RequestScan, Activate, Crash, ToolRemoves
<1>8. CASE UNCHANGED vars
  BY <1>8 DEF vars, Served
<1> QED BY <1>1, <1>2, <1>3, <1>4, <1>5, <1>6, <1>7, <1>8, NextCases DEF Rest

\* What HashFollowsWriters asks of a step.
Followed == \A i \in Instances : \A m \in Models :
    serve'[i] = m /\ Path(row'[m]) # Path(row[m]) /\ Watched(m) => hash'[i] = Path(row'[m])

\* A step that computes the hash for every model whose row it changes.
LEMMA Recomputed ==
    ASSUME NEW ms, Recompute(ms), serve' = serve,
           \A m \in Models \ ms : row'[m] = row[m]
    PROVE  Followed
BY DEF Recompute, Followed

LEMMA WritersFollow ==
    ASSUME Typed, Served, Next
    PROVE  Followed
<1> USE DEF Typed, TypeOK, users, work, disk, rows
<1>0. ASSUME row' = row PROVE Followed
  BY <1>0 DEF Followed
<1>1. ASSUME NEW m \in Models, AskLoad(m) \/ Load(m) \/ LoadEnds(m) PROVE Followed
  <2>1. CASE AskLoad(m) \/ StartLoad(m) \/ VerifyLoaded(m)
    <3>1. load'[m] # load[m] /\ \A n \in Models \ {m} : row'[n] = row[n]
      BY <2>1 DEF AskLoad, StartLoad, VerifyLoaded, GotoLoad
    <3> QED BY <3>1 DEF Followed, Watched
  <2>2. CASE ~(AskLoad(m) \/ StartLoad(m) \/ VerifyLoaded(m))
    BY <1>0, <1>1, <2>2 DEF Load, Stat, TakeLock, Publish, Link, Landed, CompleteLoad, LoadEnds
  <2> QED BY <2>1, <2>2
<1>2. ASSUME NEW m \in Models, AskDelete(m) \/ Delete(m) \/ DeleteFails(m) PROVE Followed
  <2>1. CASE MarkDeleting(m) /\ UNCHANGED row
    BY <1>0, <2>1
  <2>2. CASE Enqueue(m) \/ Deleted(m)
    BY <2>2, Recomputed DEF Enqueue, Deleted
  <2>3. CASE ~MarkDeleting(m) /\ ~Deleted(m)
    BY <1>0, <1>2, <2>3 DEF AskDelete, Delete, PlanDelete, Unlink, TryLock, Recount, RemoveBlob, DeleteFails
  <2> QED BY <2>1, <2>2, <2>3 DEF MarkDeleting
<1>3. ASSUME NEW m \in Models, AskVerify(m) \/ Verify(m) PROVE Followed
  <2>1. CASE Verified(m)
    <3>1. /\ job[m].kind = "verify" /\ job'[m] = NoJob
          /\ \A n \in Models \ {m} : row'[n] = row[n]
      BY <2>1 DEF Verified, JobAt, SetJob
    <3> QED BY <3>1 DEF Followed, Watched
  <2>2. CASE ~Verified(m)
    BY <1>0, <1>3, <2>2 DEF AskVerify, Verify, ReadVerify, LookAtFile
  <2> QED BY <2>1, <2>2
<1>4. ASSUME NEW s \in Scanners, Scan(s) \/ Unmounted(s) PROVE Followed
  <2>1. ASSUME NEW m \in Models, Upsert(s, m) PROVE Followed
    <3>1. /\ serve' = serve /\ \A n \in Models \ {m} : row'[n] = row[n]
          /\ \/ row[m] \in {"absent", row'[m]} \/ Recompute({m})
      BY <2>1 DEF Upsert
    <3>2. CASE row[m] \in {"absent", row'[m]}
      BY <3>1, <3>2 DEF Followed, Served
    <3> QED BY <3>1, <3>2, Recomputed
  <2>2. CASE MarkMissing(s)
    BY <2>2, Recomputed DEF MarkMissing
  <2>3. CASE row' = row
    BY <1>0, <2>3
  <2> QED BY <1>4, <2>1, <2>2, <2>3 DEF Scan, LeaseScan, WalkSnapshot, Unmounted
<1>5. CASE Rest
  BY <1>0, <1>5 DEF Rest, Configure, Drop, ToolRemoves, RequestScan, Activate, Crash
<1> QED BY <1>1, <1>2, <1>3, <1>4, <1>5, NextCases

\* A scan, a deletion or a request that changes whether a served model has a path leaves
\* the hash of its instances current, whatever the others wrote in between.
THEOREM HashFollows == Spec => HashFollowsWriters
<1>1. Init => Served
  BY LibraryAssumption DEF Init, Served
<1>2. Typed /\ Served /\ [Next]_vars => (Typed /\ Served)'
  BY NextType, NextServed
<1>3. Typed /\ Served /\ [Next]_vars
        => [\A i \in Instances : \A m \in Models :
              (serve'[i] = m /\ Path(row'[m]) # Path(row[m]) /\ Watched(m))
                => hash'[i] = Path(row'[m])]_vars
  BY WritersFollow DEF Followed
<1> QED BY <1>1, <1>2, <1>3, InitType, PTL DEF Spec, HashFollowsWriters

=============================================================================
