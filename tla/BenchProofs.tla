----------------------------- MODULE BenchProofs -----------------------------
(***************************************************************************)
(* What holds of benchmark sweeps for any runs, instances and policies:    *)
(* one sweep at a time, what a sweep stopped stays on the list of a run    *)
(* that owes the restart, and no sweep starts into a half-restored fleet.  *)
(***************************************************************************)
EXTENDS Bench, TLAPS

-----------------------------------------------------------------------------
(* Types, those of the rows and workers included.                           *)

Ends == {"succeeded", "failed", "canceled"}
Early == {"preflight", "list", "stop", "begin", "points"}
Late == {"undo", "restore", "mark", "close"}

RunRows == [state : {"queued", "preflight", "running", "partial"} \cup Ends,
            policy : {"abort", "stop"}, left : Nat, ok : Nat,
            listed : BOOLEAN, stopped : SUBSET Instances, restored : BOOLEAN]
Jobs == [state : {"queued", "running", "interrupted"} \cup Ends, cancel : BOOLEAN]
Leases == [run : Runs \cup {NoRun}, boot : Nat]
Workers == [pc : {"none"} \cup Early \cup Late, todo : SUBSET Instances,
            end : {"none", "boot"} \cup Ends]
Rows == [desired : {"running", "stopped"}, loaded : BOOLEAN, deleted : BOOLEAN,
         by : {"user", "bench", "lost"}]
Daemons == [step : {"down", "restore", "resolve", "release", "up"}, boot : Nat,
            tried : SUBSET Runs]

Typed ==
    /\ run \in [Runs -> RunRows] /\ \A r \in Runs : run[r].left + run[r].ok <= Points
    /\ job \in [Runs -> Jobs] /\ lease \in Leases /\ worker \in [Runs -> Workers]
    /\ inst \in [Instances -> Rows] /\ daemon \in Daemons
    /\ gaveUp \in [Runs -> {"no", "boot", "sweep"}]

-----------------------------------------------------------------------------
(* The invariants.                                                          *)

\* What a worker stands for: a sweep, its finalizer, or the finalizer of a boot.
Staged ==
    \A r \in Runs :
        /\ worker[r].pc = "none" => worker[r] = Idle
        /\ worker[r].pc \in Early => worker[r].end = "none"
        /\ worker[r].pc \in Late => worker[r].end # "none"
        /\ worker[r].pc # "none" /\ worker[r].end = "boot" =>
             daemon.step = "restore" /\ r \in daemon.tried

Holds(r) == lease.run = r /\ lease.boot = daemon.boot

\* A sweep has its job and the lease, as long as it goes on.
Leased == \A r \in Runs : Sweeping(r) => daemon.step = "up" /\ job[r].state = "running" /\ Holds(r)

Kept(i) == inst[i].by = "bench" /\ inst[i].desired = "stopped"

\* What is stopped was listed before; what the finalizer has been through is not kept.
OnTheList ==
    \A r \in Runs :
        /\ worker[r].pc = "stop" => Owes(r) /\ worker[r].todo \subseteq run[r].stopped
        /\ worker[r].pc \in {"restore", "mark"} =>
             \A i \in run[r].stopped \ worker[r].todo : ~Kept(i)
        /\ worker[r].pc = "mark" => worker[r].todo = {}

DeletedByUser == \A i \in Instances : inst[i].deleted => inst[i].by = "user"

\* A run that owes a restart has given up at boot, or will be tried in this boot before
\* the daemon serves, or holds the lease.
Debts ==
    \A r \in Runs : Owes(r) /\ gaveUp[r] # "boot" =>
        \/ daemon.step = "down"
        \/ daemon.step = "restore" /\ (r \in daemon.tried => worker[r].pc \in {"undo", "restore", "mark"})
        \/ daemon.step = "up" /\ Holds(r)

Promised == StoppedAreOwed /\ OnTheList /\ DeletedByUser

-----------------------------------------------------------------------------
(* Steps keep the types.                                                    *)

LEMMA IdleType == Idle \in Workers /\ Idle.pc = "none" /\ Idle.end = "none"
BY DEF Idle, Workers, Ends, Early, Late

LEMMA FreeType == Free \in Leases /\ Free.run = NoRun
BY DEF Free, Leases

LEMMA ReleasedType == ASSUME lease \in Leases, NEW r \in Runs PROVE Released(r) \in Leases
BY FreeType DEF Released

LEMMA DesiredType ==
    ASSUME inst \in [Instances -> Rows], NEW i \in Instances, NEW s \in {"running", "stopped"}
    PROVE  SetDesired(i, s) \in [Instances -> Rows]
BY DEF SetDesired, Rows

RunsOK == run \in [Runs -> RunRows] /\ \A r \in Runs : run[r].left + run[r].ok <= Points

LEMMA RowChange ==
    ASSUME Typed, NEW r \in Runs, NEW row \in RunRows, row.left + row.ok <= Points,
           run' = [run EXCEPT ![r] = row]
    PROVE  RunsOK'
BY DEF Typed, RunsOK

LEMMA StateChange ==
    ASSUME Typed, NEW r \in Runs, NEW s \in {"queued", "preflight", "running", "partial"} \cup Ends,
           \/ run' = [run EXCEPT ![r].state = s]
           \/ run' = [run EXCEPT ![r].state = s, ![r].left = 0]
    PROVE  RunsOK'
<1> DEFINE one == [run[r] EXCEPT !.state = s]
           two == [run[r] EXCEPT !.state = s, !.left = 0]
<1>1. one \in RunRows /\ one.left + one.ok <= Points
  BY DEF Typed, RunRows
<1>2. two \in RunRows /\ two.left = 0 /\ two.ok = run[r].ok
  <2>1. run[r] \in RunRows
    BY DEF Typed
  <2>2. \A n \in Nat : LET row == [run[r] EXCEPT !.state = s, !.left = n]
                       IN  row \in RunRows /\ row.left = n /\ row.ok = run[r].ok
    BY <2>1 DEF RunRows
  <2> QED BY <2>2
<1>3. two.left + two.ok <= Points
  <2>1. run[r].left \in Nat /\ run[r].ok \in Nat /\ run[r].left + run[r].ok <= Points
    BY DEF Typed, RunRows
  <2> QED BY <1>2, <2>1, BenchAssumption
<1>4. run' = [run EXCEPT ![r] = one] \/ run' = [run EXCEPT ![r] = two]
  OBVIOUS
<1> HIDE DEF one, two
<1> QED BY <1>1, <1>2, <1>3, <1>4, RowChange

LEMMA SweepType ==
    ASSUME Typed, Staged, NEW r \in Runs, Start(r) \/ Sweep(r) \/ Restore(r) \/ PrepareFails(r)
                                   \/ RestoreFails(r) \/ CloseFails(r)
    PROVE  Typed'
<1> USE DEF Typed, RunsOK, Steps, At, Goto, Undo, Calm, Fault
<1>0. run[r] \in RunRows /\ worker[r] \in Workers /\ run[r].left + run[r].ok <= Points
  OBVIOUS
<1>g. \A pc \in {"none"} \cup Early \cup Late : [worker[r] EXCEPT !.pc = pc] \in Workers
  BY <1>0 DEF Workers
<1>1. CASE Start(r)
  <2>1. RunsOK'
    BY <1>1, StateChange DEF Start, SetRun
  <2> QED BY <1>1, <2>1 DEF Start, Jobs, Leases, Workers, Daemons, Idle, Early, Ends
<1>2. CASE Preflight(r)
  <2> DEFINE c == Conflicts
  <2>1. c \subseteq Instances
    BY DEF Conflicts
  <2>2. \/ worker' = [worker EXCEPT ![r].pc = "begin"]
        \/ worker' = [worker EXCEPT ![r] = [pc |-> "undo", todo |-> {}, end |-> "failed"]]
        \/ worker' = [worker EXCEPT ![r].pc = "list", ![r].todo = c]
    BY <1>2 DEF Preflight
  <2> HIDE DEF c
  <2>3. worker' \in [Runs -> Workers]
    <3>1. \A pc \in {"begin", "list"} :
            worker[r] \in Workers /\ [worker[r] EXCEPT !.pc = pc] \in Workers
      BY DEF Workers, Early
    <3>2. [pc |-> "undo", todo |-> {}, end |-> "failed"] \in Workers
      BY DEF Workers, Late, Ends
    <3>3. [worker[r] EXCEPT !.pc = "list", !.todo = c] \in Workers
      BY <2>1, <3>1 DEF Workers, Early
    <3> QED BY <2>2, <3>1, <3>2, <3>3
  <2> QED BY <1>2, <2>3 DEF Preflight
<1>3. CASE List(r)
  <2> DEFINE t == worker[r].todo
             row == [run[r] EXCEPT !.listed = TRUE, !.stopped = t, !.restored = FALSE]
  <2>a. t \in SUBSET Instances
    BY DEF Workers
  <2>b. run' = [run EXCEPT ![r] = row]
    BY <1>3 DEF List
  <2> HIDE DEF t
  <2>c. row \in RunRows /\ row.left = run[r].left /\ row.ok = run[r].ok
    BY <1>0, <2>a DEF RunRows
  <2> HIDE DEF row
  <2>1. RunsOK'
    BY <1>0, <2>b, <2>c, RowChange
  <2>2. inst' \in [Instances -> Rows]
    BY <1>3 DEF List, Rows
  <2>3. worker' \in [Runs -> Workers]
    BY <1>3 DEF List, Workers, Early
  <2> QED BY <1>3, <2>1, <2>2, <2>3 DEF List
<1>4. CASE StopInstance(r)
  <2>1. inst' \in [Instances -> Rows]
    BY <1>4, DesiredType DEF StopInstance, Workers
  <2>2. worker' \in [Runs -> Workers]
    BY <1>4 DEF StopInstance, Workers, Early
  <2> QED BY <1>4, <2>1, <2>2 DEF StopInstance
<1>5. CASE Begin(r)
  <2>1. RunsOK'
    BY <1>5, StateChange DEF Begin, SetRun
  <2> QED BY <1>5, <2>1 DEF Begin, Workers, Early
<1>6. CASE RunPoint(r)
  <2>1. PICK ok \in {0, 1} : run' = [run EXCEPT ![r].left = @ - 1, ![r].ok = @ + ok]
    BY <1>6 DEF RunPoint
  <2> DEFINE m == run[r].left - 1
             n == run[r].ok + ok
  <2>2. m \in Nat /\ n \in Nat /\ m + n <= Points
    BY <1>0, <1>6, BenchAssumption DEF RunPoint, RunRows
  <2> DEFINE row == [run[r] EXCEPT !.left = m, !.ok = n]
  <2>3. run' = [run EXCEPT ![r] = row]
    BY <2>1
  <2> HIDE DEF m, n
  <2>a. row \in RunRows /\ row.left = m /\ row.ok = n
    BY <1>0, <2>2 DEF RunRows
  <2> HIDE DEF row
  <2>4. RunsOK'
    BY <2>2, <2>3, <2>a, RowChange
  <2> QED BY <1>6, <2>4 DEF RunPoint
<1>7. CASE LeavePoints(r)
  <2>1. \A s \in Ends : [worker EXCEPT ![r] = [pc |-> "undo", todo |-> {}, end |-> s]]
                          \in [Runs -> Workers]
    BY DEF Workers, Late
  <2>2. worker' \in [Runs -> Workers]
    BY <1>7, <2>1 DEF LeavePoints, Ends
  <2> QED BY <1>7, <2>2 DEF LeavePoints
<1>8. CASE Close(r)
  <2> DEFINE s == IF worker[r].end = "succeeded" /\ run[r].ok < Points THEN "partial"
                  ELSE worker[r].end
             n == IF worker[r].end = "succeeded" THEN run[r].left ELSE 0
             j == [state |-> worker[r].end, cancel |-> FALSE]
             row == [run[r] EXCEPT !.state = s, !.left = n]
  <2>1. run' = [run EXCEPT ![r] = row] /\ job' = [job EXCEPT ![r] = j]
    BY <1>8 DEF Close
  <2>2. n \in Nat /\ n + run[r].ok <= Points
    BY <1>0, BenchAssumption DEF RunRows
  <2>3. s \in {"partial"} \cup Ends /\ j \in Jobs
    BY <1>0, <1>8 DEF Close, Staged, Late, Workers, Jobs
  <2> HIDE DEF s, n, j
  <2>a. row \in RunRows /\ row.left = n /\ row.ok = run[r].ok
    BY <1>0, <2>2, <2>3 DEF RunRows, Ends
  <2> HIDE DEF row
  <2>4. RunsOK'
    BY <2>1, <2>2, <2>a, RowChange
  <2>5. job' \in [Runs -> Jobs]
    BY <2>1, <2>3
  <2>6. lease' \in Leases /\ worker' \in [Runs -> Workers]
    BY <1>8, IdleType, ReleasedType DEF Close
  <2> QED BY <1>8, <2>4, <2>5, <2>6 DEF Close
<1>9. CASE ReadOwed(r)
  <2>1. worker' \in [Runs -> Workers]
    BY <1>0, <1>9 DEF ReadOwed, Workers, RunRows, Late
  <2> QED BY <1>9, <2>1 DEF ReadOwed
<1>10. CASE RestoreInstance(r)
  <2>1. inst' \in [Instances -> Rows]
    BY <1>10, DesiredType DEF RestoreInstance, Workers
  <2>2. worker' \in [Runs -> Workers]
    <3>1. CASE worker' = [worker EXCEPT ![r].pc = "mark"]
      BY <3>1 DEF Workers, Late
    <3>2. CASE \E i \in worker[r].todo : worker' = [worker EXCEPT ![r].todo = @ \ {i}]
      BY <3>2 DEF Workers
    <3> QED BY <1>10, <3>1, <3>2 DEF RestoreInstance
  <2> QED BY <1>10, <2>1, <2>2 DEF RestoreInstance
<1>11. CASE MarkRestored(r)
  <2>1. RunsOK'
    BY <1>0, <1>11, RowChange DEF MarkRestored, RunRows
  <2> QED BY <1>11, <2>1 DEF MarkRestored, Workers, Late
<1>12. CASE PrepareFails(r)
  BY <1>12 DEF PrepareFails, Workers, Late, Ends
<1>13. CASE RestoreFails(r)
  <2>1. worker' \in [Runs -> Workers]
    BY <1>13 DEF RestoreFails, Workers, Late
  <2>2. gaveUp' \in [Runs -> {"no", "boot", "sweep"}]
    BY <1>13 DEF RestoreFails
  <2> QED BY <1>13, <2>1, <2>2 DEF RestoreFails
<1>14. CASE CloseFails(r)
  <2>1. [state |-> "failed", cancel |-> FALSE] \in Jobs
    BY DEF Jobs, Ends
  <2>2. RunsOK'
    BY <1>14, StateChange DEF CloseFails, SetRun, Ends
  <2> QED BY <1>14, <2>1, <2>2, IdleType, ReleasedType DEF CloseFails
<1> QED BY <1>1, <1>2, <1>3, <1>4, <1>5, <1>6, <1>7, <1>8, <1>9, <1>10, <1>11, <1>12, <1>13, <1>14
        DEF Sweep, Restore

LEMMA RequestType ==
    ASSUME Typed, NEW r \in Runs, Cancel(r) \/ Retry(r)
    PROVE  Typed'
<1> USE DEF Typed, RunsOK, Click, Calm
<1>0. run[r] \in RunRows /\ job[r] \in Jobs /\ run[r].left + run[r].ok <= Points
  OBVIOUS
<1>1. CASE Cancel(r)
  <2>1. job' \in [Runs -> Jobs]
    <3>1. CASE job' = [job EXCEPT ![r].state = "canceled"]
      BY <3>1 DEF Jobs, Ends
    <3>2. CASE job' = [job EXCEPT ![r].cancel = TRUE]
      BY <3>2 DEF Jobs
    <3> QED BY <1>1, <3>1, <3>2 DEF Cancel
  <2>2. RunsOK'
    <3>1. run' = run \/ run' = [run EXCEPT ![r].state = "canceled", ![r].left = 0]
      BY <1>1 DEF Cancel
    <3> QED BY <3>1, StateChange DEF Ends
  <2> QED BY <1>1, <2>1, <2>2, ReleasedType DEF Cancel
<1>2. CASE Retry(r)
  <2>1. RunsOK'
    BY <1>2, StateChange DEF Retry, SetRun
  <2> QED BY <1>2, <2>1 DEF Retry, Jobs
<1> QED BY <1>1, <1>2

LEMMA InstanceType == ASSUME Typed, NEW i \in Instances, AskInstance(i) \/ Follow(i) PROVE Typed'
<1> USE DEF Typed, RunsOK, Click, Calm
<1>1. CASE AskInstance(i)
  <2>1. inst' \in [Instances -> Rows]
    BY <1>1 DEF AskInstance, Rows
  <2> QED BY <1>1, <2>1 DEF AskInstance
<1>2. CASE Follow(i)
  <2> DEFINE b == inst[i].desired = "running"
  <2>1. inst' = [inst EXCEPT ![i].loaded = b] /\ b \in BOOLEAN
    BY <1>2 DEF Follow
  <2> HIDE DEF b
  <2>2. inst' \in [Instances -> Rows]
    BY <2>1 DEF Rows
  <2> QED BY <1>2, <2>2 DEF Follow
<1> QED BY <1>1, <1>2

LEMMA BootType == Typed /\ (Crash \/ Boot) => Typed'
<1> SUFFICES ASSUME Typed, Crash \/ Boot PROVE Typed'
  OBVIOUS
<1> USE DEF Typed, RunsOK, BootOnly, Calm, Fault
<1>1. CASE Crash
  <2>1. daemon' \in Daemons /\ worker' \in [Runs -> Workers]
    BY <1>1, IdleType DEF Crash, Daemons
  <2> QED BY <1>1, <2>1 DEF Crash
<1>2. CASE Triage
  <2> DEFINE b == daemon.boot + 1
  <2>1. daemon' = [step |-> "restore", boot |-> b, tried |-> {}] /\ b \in Nat
    BY <1>2 DEF Triage, Daemons
  <2> HIDE DEF b
  <2>2. daemon' \in Daemons
    BY <2>1 DEF Daemons
  <2>3. job' \in [Runs -> Jobs]
    BY <1>2 DEF Triage, Jobs
  <2> QED BY <1>2, <2>2, <2>3 DEF Triage
<1>3. CASE BootStep
  BY <1>3 DEF BootStep, NextStep, Daemons
<1>4. CASE ReleaseForeignLease
  <2>1. lease' \in Leases
    BY <1>4, ReleasedType DEF ReleaseForeignLease, Leases
  <2> QED BY <1>4, <2>1 DEF ReleaseForeignLease, Daemons
<1>5. ASSUME NEW r \in Runs, BootRestore(r) \/ BootRestored(r) \/ ResolveInterrupted(r)
      PROVE  Typed'
  <2>1. CASE BootRestore(r)
    <3>1. [pc |-> "undo", todo |-> {}, end |-> "boot"] \in Workers
      BY DEF Workers, Late
    <3> QED BY <2>1, <3>1 DEF BootRestore, Daemons
  <2>2. CASE BootRestored(r)
    BY <2>2, IdleType DEF BootRestored
  <2>3. CASE ResolveInterrupted(r)
    <3> DEFINE s == IF run[r].ok > 0 THEN "partial" ELSE "failed"
    <3>1. run' = [run EXCEPT ![r].state = s, ![r].left = 0] \/ run' = run
      BY <2>3 DEF ResolveInterrupted
    <3>2. s \in {"partial", "failed"}
      OBVIOUS
    <3> HIDE DEF s
    <3>3. RunsOK'
      BY <3>1, <3>2, StateChange DEF Ends
    <3>4. job' \in [Runs -> Jobs] /\ daemon' \in Daemons
      BY <2>3 DEF ResolveInterrupted, Jobs, Daemons, Ends
    <3>5. lease' \in Leases
      BY <2>3, ReleasedType DEF ResolveInterrupted
    <3> QED BY <2>3, <3>3, <3>4, <3>5 DEF ResolveInterrupted
  <2> QED BY <1>5, <2>1, <2>2, <2>3
<1> QED BY <1>1, <1>2, <1>3, <1>4, <1>5 DEF Boot

LEMMA NextTyped == Typed /\ Staged /\ [Next]_vars => Typed'
<1>1. ASSUME Typed, UNCHANGED vars PROVE Typed'
  BY <1>1 DEF vars, Typed
<1>2. ASSUME Typed, Staged, Next PROVE Typed'
  BY <1>2, SweepType, RequestType, InstanceType, BootType DEF Next
<1> QED BY <1>1, <1>2

LEMMA InitTyped == Init => Typed
<1> SUFFICES ASSUME Init PROVE Typed
  OBVIOUS
<1> USE DEF Init
<1>1. run \in [Runs -> RunRows] /\ \A r \in Runs : run[r].left + run[r].ok <= Points
  BY BenchAssumption DEF RunRows
<1>2. job \in [Runs -> Jobs] /\ lease \in Leases /\ worker \in [Runs -> Workers]
  BY FreeType, IdleType DEF Jobs
<1>3. inst \in [Instances -> Rows] /\ daemon \in Daemons
  BY DEF Rows, Daemons
<1>4. gaveUp \in [Runs -> {"no", "boot", "sweep"}]
  OBVIOUS
<1> QED BY <1>1, <1>2, <1>3, <1>4 DEF Typed

-----------------------------------------------------------------------------
(* Stages of a worker, and the lease a sweep holds.                         *)

Held == Staged /\ Leased

\* A release for r leaves the lease of every other run alone.
LEMMA ReleaseKeeps ==
    ASSUME NEW r \in Runs, NEW q \in Runs, Holds(q), q # r \/ Owes(r),
           lease' = Released(r), daemon'.boot = daemon.boot
    PROVE  Holds(q)'
BY DEF Released, Holds

LEMMA SweepHeld ==
    ASSUME Typed, Held, NEW r \in Runs, Start(r) \/ Sweep(r) \/ Restore(r) \/ PrepareFails(r)
                                        \/ RestoreFails(r) \/ CloseFails(r)
    PROVE  Held'
<1> USE DEF Typed, Held, Staged, Leased, Holds, Sweeping, Steps, At, Goto, Undo, Early, Late
<1>0. r # NoRun /\ worker[r] \in Workers
  BY BenchAssumption
<1>1. CASE Start(r)
  <2>1. /\ worker' = [worker EXCEPT ![r] = [Idle EXCEPT !.pc = "preflight"]]
        /\ [Idle EXCEPT !.pc = "preflight"].pc = "preflight"
        /\ [Idle EXCEPT !.pc = "preflight"].end = "none"
    BY <1>1 DEF Start, Idle
  <2>2. \A q \in Runs : worker'[q].pc # "none" /\ worker'[q].end # "boot" /\ q # r => Holds(q)
    BY <1>1, <2>1
  <2>3. \A q \in Runs : Sweeping(q) => q = r
    BY <1>1, BenchAssumption DEF Start, MayTake
  <2>4. lease'.run = r /\ lease'.boot = daemon'.boot /\ job'[r].state = "running"
        /\ daemon' = daemon /\ daemon.step = "up"
    BY <1>1 DEF Start
  <2> HIDE DEF Idle
  <2> QED BY <2>1, <2>3, <2>4
<1>2. CASE Preflight(r)
  BY <1>0, <1>2 DEF Preflight, Workers
<1>3. CASE List(r)
  BY <1>0, <1>3 DEF List, Workers
<1>4. CASE StopInstance(r)
  BY <1>0, <1>4, SMTT(30) DEF StopInstance, Workers
<1>5. CASE Begin(r)
  BY <1>0, <1>5 DEF Begin, Workers
<1>6. CASE RunPoint(r)
  BY <1>6 DEF RunPoint
<1>7. CASE LeavePoints(r)
  BY <1>0, <1>7 DEF LeavePoints, Workers
<1>8. CASE Close(r) \/ CloseFails(r)
  <2>1. /\ worker' = [worker EXCEPT ![r] = Idle] /\ lease' = Released(r)
        /\ daemon' = daemon /\ Sweeping(r)
        /\ \A q \in Runs : q # r => job'[q] = job[q]
    BY <1>8 DEF Close, CloseFails
  <2>2. \A q \in Runs : q # r => ~Sweeping(q)
    BY <2>1
  <2> QED BY <2>1, <2>2, IdleType
<1>9. CASE ReadOwed(r)
  BY <1>0, <1>9 DEF ReadOwed, Workers
<1>10. CASE RestoreInstance(r)
  BY <1>0, <1>10 DEF RestoreInstance, Workers
<1>11. CASE MarkRestored(r)
  BY <1>0, <1>11 DEF MarkRestored, Workers
<1>12. CASE PrepareFails(r)
  BY <1>0, <1>12 DEF PrepareFails, Workers
<1>13. CASE RestoreFails(r)
  BY <1>0, <1>13 DEF RestoreFails, Workers
<1> QED BY <1>1, <1>2, <1>3, <1>4, <1>5, <1>6, <1>7, <1>8, <1>9, <1>10, <1>11, <1>12, <1>13
        DEF Sweep, Restore

LEMMA OtherHeld ==
    ASSUME Typed, Held, \/ \E r \in Runs : Cancel(r) \/ Retry(r)
                        \/ \E i \in Instances : AskInstance(i) \/ Follow(i)
                        \/ Crash \/ Boot
    PROVE  Held'
<1> USE DEF Typed, Held, Staged, Leased, Holds, Sweeping
<1>1. ASSUME NEW r \in Runs, Cancel(r) PROVE Held'
  <2>1. /\ worker' = worker /\ daemon' = daemon
        /\ lease' = lease \/ (job[r].state = "queued" /\ lease' = Released(r))
    <3>1. worker' = worker /\ daemon' = daemon
      BY <1>1 DEF Cancel
    <3>2. lease' = lease \/ (job[r].state = "queued" /\ lease' = Released(r))
      BY <1>1, Zenon DEF Cancel
    <3> QED BY <3>1, <3>2
  <2>3. \A q \in Runs : job[q].state = "running" => job'[q].state = "running"
    <3>1. CASE job[r].state = "queued" /\ job' = [job EXCEPT ![r].state = "canceled"]
      BY <3>1
    <3>2. CASE job[r].state = "running" /\ job' = [job EXCEPT ![r].cancel = TRUE]
      BY <3>2 DEF Jobs
    <3> QED BY <1>1, <3>1, <3>2 DEF Cancel
  <2>2. \A q \in Runs : Sweeping(q) => lease' = lease
    BY <2>1 DEF Released
  <2> QED BY <2>1, <2>2, <2>3
<1>2. ASSUME NEW r \in Runs, Retry(r) PROVE Held'
  <2>1. /\ worker' = worker /\ daemon' = daemon /\ lease' = lease
        /\ \A q \in Runs : job[q].state = "running" => job'[q].state = "running"
    BY <1>2 DEF Retry, Jobs
  <2> QED BY <2>1
<1>3. ASSUME NEW i \in Instances, AskInstance(i) \/ Follow(i) PROVE Held'
  BY <1>3 DEF AskInstance, Follow
<1>4. CASE Crash
  <2>1. \A q \in Runs : worker'[q] = Idle
    BY <1>4 DEF Crash
  <2> QED BY <2>1, IdleType DEF Early, Late
<1>5. CASE Triage
  BY <1>5 DEF Triage
<1>6. CASE BootStep
  <2>1. /\ daemon'.boot = daemon.boot /\ daemon.step # "up" /\ worker' = worker
        /\ lease' = lease /\ job' = job
        /\ daemon.step = "restore" => \A q \in Runs : worker[q] = Idle
    BY <1>6 DEF BootStep, NextStep, Daemons
  <2>2. \A q \in Runs : worker[q].pc = "none"
    BY <2>1, IdleType
  <2> QED BY <2>1, <2>2 DEF Early, Late
<1>7. CASE ReleaseForeignLease
  BY <1>7 DEF ReleaseForeignLease, Daemons
<1>8. ASSUME NEW r \in Runs, BootRestore(r) PROVE Held'
  <2> DEFINE w == [pc |-> "undo", todo |-> {}, end |-> "boot"]
  <2>1. /\ worker' = [worker EXCEPT ![r] = w] /\ lease' = lease /\ job' = job
        /\ daemon.step = "restore" /\ daemon'.step = "restore" /\ daemon'.boot = daemon.boot
        /\ daemon'.tried = daemon.tried \cup {r}
    BY <1>8 DEF BootRestore, Daemons
  <2>2. w.pc = "undo" /\ w.end = "boot"
    OBVIOUS
  <2> HIDE DEF w
  <2> QED BY <2>1, <2>2 DEF Early, Late
<1>9. ASSUME NEW r \in Runs, BootRestored(r) PROVE Held'
  <2>1. /\ worker' = [worker EXCEPT ![r] = Idle] /\ UNCHANGED <<job, lease, daemon>>
    BY <1>9 DEF BootRestored
  <2> QED BY <2>1, IdleType DEF Early, Late
<1>10. ASSUME NEW r \in Runs, ResolveInterrupted(r) PROVE Held'
  <2>1. /\ daemon.step = "resolve" /\ daemon'.step = "resolve" /\ worker' = worker
    BY <1>10 DEF ResolveInterrupted, Daemons
  <2> QED BY <2>1
<1> QED BY <1>1, <1>2, <1>3, <1>4, <1>5, <1>6, <1>7, <1>8, <1>9, <1>10 DEF Boot

LEMMA NextHeld == Typed /\ Held /\ [Next]_vars => Held'
<1>1. ASSUME Held, UNCHANGED vars PROVE Held'
  BY <1>1 DEF vars, Held, Staged, Leased, Holds, Sweeping
<1>2. ASSUME Typed, Held, Next PROVE Held'
  BY <1>2, SweepHeld, OtherHeld DEF Next
<1> QED BY <1>1, <1>2

LEMMA InitHeld == Init => Held
BY IdleType DEF Init, Held, Staged, Leased, Sweeping, Early, Late

LEMMA HeldAlways == Spec => [](Typed /\ Held)
<1>1. Typed /\ Held /\ [Next]_vars => (Typed /\ Held)'
  BY NextTyped, NextHeld DEF Held
<1> QED BY <1>1, InitTyped, InitHeld, PTL DEF Spec

-----------------------------------------------------------------------------
(* Who owes a restart.                                                      *)

SameDebts ==
    \A q \in Runs : /\ run'[q].listed = run[q].listed /\ run'[q].stopped = run[q].stopped
                    /\ run'[q].restored = run[q].restored

\* Only List and MarkRestored change what a run owes.
LEMMA DebtsStay ==
    ASSUME Typed, NEW r \in Runs,
           \/ Start(r) \/ Preflight(r) \/ StopInstance(r) \/ Begin(r) \/ RunPoint(r)
           \/ LeavePoints(r) \/ Close(r) \/ ReadOwed(r) \/ RestoreInstance(r)
           \/ PrepareFails(r) \/ RestoreFails(r) \/ CloseFails(r) \/ Cancel(r) \/ Retry(r)
           \/ ResolveInterrupted(r)
    PROVE  SameDebts
<1>0. run \in [Runs -> RunRows]
  BY DEF Typed
<1>1. ASSUME run' = run PROVE SameDebts
  BY <1>1 DEF SameDebts
<1>2. ASSUME NEW s, NEW n, \/ run' = [run EXCEPT ![r].state = s]
                           \/ run' = [run EXCEPT ![r].state = s, ![r].left = n]
      PROVE  SameDebts
  BY <1>0, <1>2 DEF SameDebts, RunRows
<1>3. CASE Start(r) \/ Begin(r) \/ CloseFails(r) \/ Retry(r)
  BY <1>2, <1>3 DEF Start, Begin, CloseFails, Retry, SetRun
<1>4. CASE \/ Preflight(r) \/ StopInstance(r) \/ LeavePoints(r) \/ ReadOwed(r)
           \/ RestoreInstance(r) \/ PrepareFails(r) \/ RestoreFails(r)
  BY <1>1, <1>4 DEF Preflight, StopInstance, LeavePoints, ReadOwed, RestoreInstance,
                    PrepareFails, RestoreFails
<1>5. CASE RunPoint(r)
  <2>1. PICK ok \in {0, 1} : run' = [run EXCEPT ![r].left = @ - 1, ![r].ok = @ + ok]
    BY <1>5 DEF RunPoint
  <2> DEFINE m == run[r].left - 1
             n == run[r].ok + ok
  <2>2. run' = [run EXCEPT ![r].left = m, ![r].ok = n]
    BY <2>1
  <2> HIDE DEF m, n
  <2> QED BY <1>0, <2>2 DEF SameDebts, RunRows
<1>6. CASE Close(r)
  <2> DEFINE s == IF worker[r].end = "succeeded" /\ run[r].ok < Points THEN "partial"
                  ELSE worker[r].end
             n == IF worker[r].end = "succeeded" THEN run[r].left ELSE 0
  <2>1. run' = [run EXCEPT ![r].state = s, ![r].left = n]
    BY <1>6 DEF Close
  <2> HIDE DEF s, n
  <2> QED BY <1>2, <2>1
<1>7. CASE Cancel(r)
  <2>1. run' = run \/ run' = [run EXCEPT ![r].state = "canceled", ![r].left = 0]
    BY <1>7 DEF Cancel
  <2> QED BY <1>1, <1>2, <2>1
<1>8. CASE ResolveInterrupted(r)
  <2> DEFINE s == IF run[r].ok > 0 THEN "partial" ELSE "failed"
  <2>1. run' = run \/ run' = [run EXCEPT ![r].state = s, ![r].left = 0]
    BY <1>8 DEF ResolveInterrupted
  <2> HIDE DEF s
  <2> QED BY <1>1, <1>2, <2>1
<1> QED BY <1>3, <1>4, <1>5, <1>6, <1>7, <1>8

\* A step of a worker that keeps its lease.
LEMMA KeptLease ==
    ASSUME Typed, Held, Debts, NEW r \in Runs, daemon' = daemon, lease' = lease,
           \A q \in Runs \ {r} : worker'[q] = worker[q] /\ gaveUp'[q] = gaveUp[q],
           SameDebts \/ List(r) \/ MarkRestored(r), worker[r].pc # "none",
           \/ Sweeping(r) \/ ~Owes(r)' \/ gaveUp'[r] = "boot"
           \/ worker'[r].pc \in {"undo", "restore", "mark"} /\ gaveUp' = gaveUp
    PROVE  Debts'
<1>1. \A q \in Runs \ {r} : Owes(q)' <=> Owes(q)
  BY DEF SameDebts, List, MarkRestored, Owes, Typed
<1>2. \A q \in Runs : Holds(q)' <=> Holds(q)
  BY DEF Holds
<1>3. Sweeping(r) => daemon.step = "up" /\ Holds(r)
  BY DEF Held, Leased
<1>4. worker[r].pc # "none" /\ ~Sweeping(r) => daemon.step = "restore"
  BY DEF Held, Staged, Sweeping
<1>5. ASSUME NEW q \in Runs, Owes(q)', gaveUp'[q] # "boot"
      PROVE  \/ daemon'.step = "down"
             \/ /\ daemon'.step = "restore"
                /\ q \in daemon'.tried => worker'[q].pc \in {"undo", "restore", "mark"}
             \/ daemon'.step = "up" /\ Holds(q)'
  <2>1. CASE q # r
    BY <1>1, <1>2, <1>5, <2>1 DEF Debts
  <2>2. CASE q = r
    BY <1>2, <1>3, <1>4, <1>5, <2>2
  <2> QED BY <2>1, <2>2
<1> QED BY <1>5 DEF Debts

LEMMA SweepDebts ==
    ASSUME Typed, Held, Debts,
           NEW r \in Runs, Start(r) \/ Sweep(r) \/ Restore(r) \/ PrepareFails(r)
                            \/ RestoreFails(r) \/ CloseFails(r)
    PROVE  Debts'
<1> USE DEF Steps, At, Goto, Undo
<1>0. r # NoRun /\ worker[r] \in Workers /\ daemon' = daemon /\ run[r] \in RunRows
        /\ worker \in [Runs -> Workers] /\ run \in [Runs -> RunRows]
        /\ gaveUp \in [Runs -> {"no", "boot", "sweep"}]
  BY BenchAssumption DEF Typed, Start, Sweep, Preflight, List, StopInstance, Begin, RunPoint, LeavePoints,
     Close, Restore, ReadOwed, RestoreInstance, MarkRestored, PrepareFails, RestoreFails, CloseFails
<1>1. CASE Start(r)
  <2>1. SameDebts /\ gaveUp' = gaveUp /\ MayTake(r) /\ daemon.step = "up" /\ Holds(r)'
    BY <1>0, <1>1, DebtsStay DEF Start, Holds
  <2>2. \A q \in Runs : Holds(q) => q = r
    BY <2>1, BenchAssumption DEF MayTake, Holds
  <2> QED BY <1>0, <2>1, <2>2 DEF SameDebts, Debts, Owes
<1>2. CASE Close(r) \/ CloseFails(r)
  <2>1. /\ SameDebts /\ gaveUp' = gaveUp /\ daemon.step = "up" /\ lease' = Released(r)
    BY <1>0, <1>2, DebtsStay DEF Close, CloseFails, Held, Leased, Sweeping
  <2>2. \A q \in Runs : Holds(q) /\ Owes(q) => Holds(q)'
    BY <1>0, <2>1, ReleaseKeeps
  <2> QED BY <1>0, <2>1, <2>2 DEF SameDebts, Debts, Owes
<1>3. CASE Preflight(r) \/ StopInstance(r) \/ Begin(r) \/ RunPoint(r) \/ LeavePoints(r)
             \/ PrepareFails(r)
  <2>1. SameDebts /\ lease' = lease /\ worker[r].pc \in Early
    BY <1>0, <1>3, DebtsStay DEF Preflight, StopInstance, Begin, RunPoint, LeavePoints, PrepareFails, Early
  <2>2. Sweeping(r) /\ worker[r].pc # "none"
    BY <2>1 DEF Held, Staged, Sweeping, Early
  <2>3. \A q \in Runs \ {r} : worker'[q] = worker[q] /\ gaveUp'[q] = gaveUp[q]
    BY <1>0, <1>3 DEF Preflight, StopInstance, Begin, RunPoint, LeavePoints, PrepareFails
  <2> QED BY <1>0, KeptLease, <2>1, <2>2, <2>3
<1>4. CASE List(r)
  <2>1. lease' = lease /\ worker[r].pc = "list"
    BY <1>0, <1>4 DEF List
  <2>2. Sweeping(r)
    BY <2>1 DEF Held, Staged, Sweeping, Early
  <2>3. \A q \in Runs \ {r} : worker'[q] = worker[q] /\ gaveUp'[q] = gaveUp[q]
    BY <1>0, <1>4 DEF List
  <2> QED BY <1>0, <1>4, KeptLease, <2>1, <2>2, <2>3
<1>5. CASE ReadOwed(r) \/ RestoreInstance(r)
  <2>1. SameDebts /\ lease' = lease /\ gaveUp' = gaveUp /\ worker[r].pc # "none"
    BY <1>0, <1>5, DebtsStay DEF ReadOwed, RestoreInstance
  <2>2. ~Owes(r)' \/ worker'[r].pc \in {"restore", "mark"}
    BY <1>0, <1>5, <2>1 DEF ReadOwed, RestoreInstance, SameDebts, Owes, Workers
  <2>3. \A q \in Runs \ {r} : worker'[q] = worker[q] /\ gaveUp'[q] = gaveUp[q]
    BY <1>0, <1>5 DEF ReadOwed, RestoreInstance
  <2> QED BY <1>0, KeptLease, <2>1, <2>2, <2>3
<1>6. CASE MarkRestored(r)
  <2>1. lease' = lease /\ gaveUp' = gaveUp /\ worker[r].pc # "none"
    BY <1>0, <1>6 DEF MarkRestored
  <2>2. ~Owes(r)'
    BY <1>0, <1>6 DEF MarkRestored, Owes, RunRows
  <2>3. \A q \in Runs \ {r} : worker'[q] = worker[q]
    BY <1>0, <1>6 DEF MarkRestored
  <2> QED BY <1>0, <1>6, KeptLease, <2>1, <2>2, <2>3
<1>7. CASE RestoreFails(r)
  <2>1. SameDebts /\ lease' = lease /\ worker[r].pc # "none"
    BY <1>0, <1>7, DebtsStay DEF RestoreFails
  <2>2. Sweeping(r) \/ gaveUp'[r] = "boot"
    BY <1>0, <1>7, <2>1 DEF RestoreFails, Sweeping
  <2>3. \A q \in Runs \ {r} : worker'[q] = worker[q] /\ gaveUp'[q] = gaveUp[q]
    BY <1>0, <1>7 DEF RestoreFails
  <2> QED BY <1>0, KeptLease, <2>1, <2>2, <2>3
<1> QED BY <1>1, <1>2, <1>3, <1>4, <1>5, <1>6, <1>7 DEF Sweep, Restore

LEMMA OtherDebts ==
    ASSUME Typed, Held, Debts, \/ \E r \in Runs : Cancel(r) \/ Retry(r)
                               \/ \E i \in Instances : AskInstance(i) \/ Follow(i)
                               \/ Crash \/ Boot
    PROVE  Debts'
<1> USE DEF Typed, Debts, Owes
<1>1. ASSUME NEW r \in Runs, Cancel(r) \/ Retry(r) PROVE Debts'
  <2>1. SameDebts /\ worker' = worker /\ daemon' = daemon /\ gaveUp' = gaveUp
    BY <1>1, DebtsStay DEF Cancel, Retry
  <2>2. lease' = lease \/ lease' = Released(r)
    BY <1>1 DEF Cancel, Retry
  <2>3. \A q \in Runs : Holds(q) /\ Owes(q) => Holds(q)'
    BY <2>1, <2>2, ReleaseKeeps DEF Holds
  <2> QED BY <2>1, <2>3 DEF SameDebts
<1>2. ASSUME NEW i \in Instances, AskInstance(i) \/ Follow(i) PROVE Debts'
  BY <1>2 DEF AskInstance, Follow, Holds
<1>3. CASE Crash
  <2>1. daemon'.step = "down"
    BY <1>3 DEF Crash
  <2> QED BY <2>1
<1>4. CASE Triage
  <2>1. daemon'.step = "restore" /\ daemon'.tried = {}
    BY <1>4 DEF Triage
  <2> QED BY <2>1
<1>5. CASE BootStep
  <2>1. \/ daemon.step = "restore" /\ \A q \in Runs : worker[q] = Idle /\ (Owes(q) => q \in daemon.tried)
        \/ daemon.step = "resolve"
    BY <1>5 DEF BootStep, NextStep
  <2>2. \A q \in Runs : Owes(q) => gaveUp[q] = "boot"
    BY <2>1, IdleType
  <2>3. run' = run /\ gaveUp' = gaveUp
    BY <1>5 DEF BootStep
  <2> QED BY <2>2, <2>3
<1>6. CASE ReleaseForeignLease
  BY <1>6 DEF ReleaseForeignLease
<1>7. ASSUME NEW r \in Runs, BootRestore(r) PROVE Debts'
  <2> DEFINE w == [pc |-> "undo", todo |-> {}, end |-> "boot"]
  <2>1. /\ worker' = [worker EXCEPT ![r] = w] /\ run' = run /\ gaveUp' = gaveUp
        /\ daemon.step = "restore" /\ daemon'.step = "restore" /\ w.pc = "undo"
        /\ daemon'.tried = daemon.tried \cup {r}
    BY <1>7 DEF BootRestore, Daemons
  <2> HIDE DEF w
  <2> QED BY <2>1
<1>8. ASSUME NEW r \in Runs, BootRestored(r) PROVE Debts'
  <2>1. /\ worker' = [worker EXCEPT ![r] = Idle] /\ UNCHANGED <<run, lease, daemon, gaveUp>>
        /\ worker[r].pc = "close" /\ worker[r].end = "boot"
    BY <1>8 DEF BootRestored, At
  <2>2. daemon.step = "restore" /\ r \in daemon.tried
    BY <2>1 DEF Held, Staged
  <2>3. Owes(r) => gaveUp[r] = "boot"
    BY <2>1, <2>2
  <2> QED BY <2>1, <2>2, <2>3
<1>9. ASSUME NEW r \in Runs, ResolveInterrupted(r) PROVE Debts'
  <2>1. SameDebts /\ daemon.step = "resolve" /\ gaveUp' = gaveUp
    BY <1>9, DebtsStay DEF ResolveInterrupted
  <2> QED BY <2>1 DEF SameDebts
<1> QED BY <1>1, <1>2, <1>3, <1>4, <1>5, <1>6, <1>7, <1>8, <1>9 DEF Boot

LEMMA NextDebts == Typed /\ Held /\ Debts /\ [Next]_vars => Debts'
<1>1. ASSUME Debts, UNCHANGED vars PROVE Debts'
  BY <1>1 DEF vars, Debts, Owes, Holds
<1>2. ASSUME Typed, Held, Debts, Next PROVE Debts'
  BY <1>2, SweepDebts, OtherDebts DEF Next
<1> QED BY <1>1, <1>2

LEMMA InitDebts == Init => Debts
BY DEF Init, Debts, Owes

-----------------------------------------------------------------------------
(* What was stopped is owed.                                                *)

LEMMA DesiredStep ==
    ASSUME Typed, DeletedByUser, NEW i \in Instances, NEW s \in {"running", "stopped"},
           inst' = SetDesired(i, s)
    PROVE  /\ DeletedByUser' /\ \A j \in Instances \ {i} : Kept(j)' <=> Kept(j)
           /\ Kept(i)' => s = "stopped"
BY DEF Typed, DeletedByUser, SetDesired, Kept, Rows

\* A step that neither touches an instance nor what is owed.
LEMMA PromisedStay ==
    ASSUME Promised, SameDebts, inst' = inst,
           \A r \in Runs : worker'[r] = worker[r] \/ worker'[r].pc \notin {"stop", "restore", "mark"}
    PROVE  Promised'
BY DEF Promised, StoppedAreOwed, OnTheList, DeletedByUser, SameDebts, Owes, Kept

LEMMA SweepPromised ==
    ASSUME Typed, Held, Promised,
           NEW r \in Runs, Start(r) \/ Sweep(r) \/ Restore(r) \/ PrepareFails(r)
                            \/ RestoreFails(r) \/ CloseFails(r)
    PROVE  Promised'
<1> USE DEF At, Goto, Undo
<1>0. /\ worker[r] \in Workers /\ worker \in [Runs -> Workers] /\ run \in [Runs -> RunRows]
      /\ inst \in [Instances -> Rows] /\ worker[r].todo \subseteq Instances
  BY DEF Typed, Workers
<1>1. CASE \/ Start(r) \/ Preflight(r) \/ Begin(r) \/ RunPoint(r) \/ LeavePoints(r) \/ Close(r)
           \/ PrepareFails(r) \/ RestoreFails(r) \/ CloseFails(r)
  <2>1. SameDebts /\ inst' = inst
    BY <1>1, DebtsStay DEF Start, Preflight, Begin, RunPoint, LeavePoints, Close,
                           PrepareFails, RestoreFails, CloseFails
  <2>2. worker'[r] = worker[r] \/ worker'[r].pc \notin {"stop", "restore", "mark"}
    <3>1. [Idle EXCEPT !.pc = "preflight"].pc = "preflight"
      BY DEF Idle
    <3> QED BY <1>0, <1>1, <3>1, IdleType DEF Start, Preflight, Begin, RunPoint, LeavePoints, Close,
                               PrepareFails, RestoreFails, CloseFails, Workers
  <2>3. \A q \in Runs \ {r} : worker'[q] = worker[q]
    BY <1>0, <1>1 DEF Start, Preflight, Begin, RunPoint, LeavePoints, Close,
                      PrepareFails, RestoreFails, CloseFails
  <2> QED BY <2>1, <2>2, <2>3, PromisedStay
<1>2. CASE List(r)
  <2> DEFINE t == worker[r].todo
  <2>1. /\ worker[r].pc = "list" /\ worker'[r].pc = "stop" /\ worker'[r].todo = t
        /\ \A q \in Runs \ {r} : worker'[q] = worker[q]
    BY <1>0, <1>2 DEF List, Workers
  <2>2. /\ run'[r].listed /\ run'[r].stopped = t /\ ~run'[r].restored
        /\ \A q \in Runs \ {r} : run'[q] = run[q]
    BY <1>0, <1>2 DEF List, RunRows
  <2>3. \A i \in Instances :
          inst'[i] = IF Owes(r) /\ i \in run[r].stopped \ worker[r].todo /\ inst[i].by = "bench"
                     THEN [inst[i] EXCEPT !.by = "lost"] ELSE inst[i]
    BY <1>2 DEF List
  <2>4. \A i \in Instances : /\ Kept(i)' => Kept(i) /\ (Owes(r) /\ i \in run[r].stopped => i \in t)
                             /\ inst'[i].deleted => inst[i].deleted /\ inst'[i] = inst[i]
    BY <1>0, <2>3 DEF Kept, Rows, Promised, DeletedByUser
  <2>5. StoppedAreOwed'
    <3>1. ASSUME NEW i \in Instances, Kept(i)' PROVE \E q \in Runs : Owes(q)' /\ i \in run'[q].stopped
      <4>1. PICK q \in Runs : Owes(q) /\ i \in run[q].stopped
        BY <2>4, <3>1 DEF Promised, StoppedAreOwed, Kept
      <4>2. CASE q = r
        BY <2>2, <2>4, <3>1, <4>1, <4>2 DEF Owes
      <4>3. CASE q # r
        BY <2>2, <4>1, <4>3 DEF Owes
      <4> QED BY <4>2, <4>3
    <3> QED BY <3>1 DEF StoppedAreOwed, Kept
  <2>6. OnTheList'
    <3>1. Owes(r)' /\ worker'[r].todo \subseteq run'[r].stopped
      BY <2>1, <2>2 DEF Owes
    <3>2. run[r].stopped \in SUBSET Instances /\ \A q \in Runs : run[q].stopped \in SUBSET Instances
      BY <1>0 DEF RunRows
    <3> QED BY <2>1, <2>2, <2>4, <3>1, <3>2 DEF Promised, OnTheList, Owes
  <2> QED BY <2>4, <2>5, <2>6 DEF Promised, DeletedByUser
<1>3. CASE StopInstance(r)
  <2>1. SameDebts /\ worker[r].pc = "stop" /\ Owes(r) /\ worker[r].todo \subseteq run[r].stopped
    BY <1>3, DebtsStay DEF StopInstance, Promised, OnTheList
  <2>2. \A q \in Runs \ {r} : worker'[q] = worker[q]
    BY <1>0, <1>3 DEF StopInstance
  <2>3. CASE worker' = [worker EXCEPT ![r].pc = "begin"] /\ inst' = inst
    BY <1>0, <2>1, <2>2, <2>3, PromisedStay DEF Workers
  <2>4. ASSUME NEW i \in worker[r].todo, inst' = SetDesired(i, "stopped"),
               worker' = [worker EXCEPT ![r].todo = @ \ {i}]
        PROVE  Promised'
    <3>1. i \in Instances /\ i \in run[r].stopped
      BY <1>0, <2>1
    <3>2. DeletedByUser' /\ \A j \in Instances \ {i} : Kept(j)' <=> Kept(j)
      BY <2>4, <3>1, DesiredStep DEF Promised
    <3>3. worker'[r].pc = "stop" /\ worker'[r].todo \subseteq run[r].stopped
      BY <1>0, <2>1, <2>4 DEF Workers
    <3>4. \A q \in Runs \ {r} : worker[q].pc \notin {"restore", "mark"}
      <4>1. Sweeping(r)
        BY <2>1 DEF Held, Staged, Sweeping, Early
      <4> QED BY <4>1, BenchAssumption DEF Held, Staged, Leased, Holds, Sweeping, Late
    <3>5. StoppedAreOwed'
      BY <2>1, <3>1, <3>2 DEF Promised, StoppedAreOwed, SameDebts, Owes, Kept
    <3>6. OnTheList'
      BY <2>1, <2>2, <3>3, <3>4 DEF Promised, OnTheList, SameDebts, Owes
    <3> QED BY <3>2, <3>5, <3>6 DEF Promised
  <2> QED BY <1>3, <2>3, <2>4 DEF StopInstance
<1>4. CASE ReadOwed(r)
  <2>1. SameDebts /\ inst' = inst
    BY <1>4, DebtsStay DEF ReadOwed
  <2>2. \A q \in Runs \ {r} : worker'[q] = worker[q]
    BY <1>0, <1>4 DEF ReadOwed
  <2>3. \/ worker'[r].pc = "close"
        \/ worker'[r].pc = "restore" /\ worker'[r].todo = run[r].stopped
    BY <1>0, <1>4 DEF ReadOwed, Workers
  <2> QED BY <2>1, <2>2, <2>3
          DEF Promised, StoppedAreOwed, OnTheList, DeletedByUser, SameDebts, Owes, Kept
<1>5. CASE RestoreInstance(r)
  <2>1. SameDebts /\ worker[r].pc = "restore"
        /\ \A i \in run[r].stopped \ worker[r].todo : ~Kept(i)
    BY <1>5, DebtsStay DEF RestoreInstance, Promised, OnTheList
  <2>2. \A q \in Runs \ {r} : worker'[q] = worker[q]
    BY <1>0, <1>5 DEF RestoreInstance
  <2>3. CASE /\ worker[r].todo = {} /\ worker' = [worker EXCEPT ![r].pc = "mark"]
             /\ inst' = inst
    <3>1. worker'[r].pc = "mark" /\ worker'[r].todo = {}
      BY <1>0, <2>3 DEF Workers
    <3> QED BY <2>1, <2>2, <2>3, <3>1
            DEF Promised, StoppedAreOwed, OnTheList, DeletedByUser, SameDebts, Owes, Kept
  <2>4. ASSUME NEW i \in worker[r].todo, inst' = SetDesired(i, "running"),
               worker' = [worker EXCEPT ![r].todo = @ \ {i}]
        PROVE  Promised'
    <3>1. i \in Instances
      BY <1>0
    <3>2. DeletedByUser' /\ \A j \in Instances : Kept(j)' => Kept(j) /\ j # i
      BY <2>4, <3>1, DesiredStep DEF Promised
    <3>3. worker'[r].pc = "restore" /\ worker'[r].todo = worker[r].todo \ {i}
      BY <1>0, <2>1, <2>4 DEF Workers
    <3>4. StoppedAreOwed'
      BY <2>1, <3>2 DEF Promised, StoppedAreOwed, SameDebts, Owes, Kept
    <3>5. \A q \in Runs : run[q].stopped \in SUBSET Instances
      BY <1>0 DEF RunRows
    <3>6. OnTheList'
      BY <2>1, <2>2, <3>2, <3>3, <3>5 DEF Promised, OnTheList, SameDebts, Owes
    <3> QED BY <3>2, <3>4, <3>6 DEF Promised
  <2> QED BY <1>5, <2>3, <2>4 DEF RestoreInstance
<1>6. CASE MarkRestored(r)
  <2>1. /\ inst' = inst /\ worker[r].pc = "mark" /\ worker'[r].pc = "close"
        /\ \A q \in Runs \ {r} : worker'[q] = worker[q] /\ run'[q] = run[q]
    BY <1>0, <1>6 DEF MarkRestored, Workers
  <2>2. \A i \in run[r].stopped : ~Kept(i)
    BY <2>1 DEF Promised, OnTheList
  <2> QED BY <2>1, <2>2 DEF Promised, StoppedAreOwed, OnTheList, DeletedByUser, Owes, Kept
<1> QED BY <1>1, <1>2, <1>3, <1>4, <1>5, <1>6 DEF Sweep, Restore

LEMMA OtherPromised ==
    ASSUME Typed, Held, Promised, \/ \E r \in Runs : Cancel(r) \/ Retry(r)
                                  \/ \E i \in Instances : AskInstance(i) \/ Follow(i)
                                  \/ Crash \/ Boot
    PROVE  Promised'
<1>0. /\ run \in [Runs -> RunRows] /\ inst \in [Instances -> Rows] /\ worker \in [Runs -> Workers]
      /\ \A r \in Runs : run[r].stopped \in SUBSET Instances
  BY DEF Typed, RunRows
<1>1. ASSUME NEW r \in Runs, Cancel(r) \/ Retry(r) \/ ResolveInterrupted(r) PROVE Promised'
  <2>1. SameDebts /\ inst' = inst /\ worker' = worker
    BY <1>1, DebtsStay DEF Cancel, Retry, ResolveInterrupted, BootOnly
  <2> QED BY <2>1, PromisedStay
<1>2. ASSUME NEW i \in Instances, AskInstance(i) \/ Follow(i) PROVE Promised'
  <2>1. run' = run /\ worker' = worker
    BY <1>2 DEF AskInstance, Follow
  <2>2. \A j \in Instances : (Kept(j)' => Kept(j)) /\ (inst'[j].deleted => inst'[j].by = "user")
    <3>1. CASE AskInstance(i)
      <4>1. inst'[i].by = "user" /\ \A j \in Instances \ {i} : inst'[j] = inst[j]
        <5>1. CASE \E s \in {"running", "stopped"} :
                     inst' = [inst EXCEPT ![i].desired = s, ![i].by = "user"]
          BY <1>0, <5>1 DEF Rows
        <5>2. CASE inst' = [inst EXCEPT ![i].desired = "stopped", ![i].deleted = TRUE, ![i].by = "user"]
          BY <1>0, <5>2 DEF Rows
        <5> QED BY <3>1, <5>1, <5>2 DEF AskInstance
      <4> QED BY <4>1 DEF Kept, Promised, DeletedByUser
    <3>2. CASE Follow(i)
      <4> DEFINE b == inst[i].desired = "running"
      <4>1. inst' = [inst EXCEPT ![i].loaded = b]
        BY <3>2 DEF Follow
      <4> HIDE DEF b
      <4> QED BY <1>0, <4>1 DEF Kept, Promised, DeletedByUser, Rows
    <3> QED BY <1>2, <3>1, <3>2
  <2> QED BY <1>0, <2>1, <2>2 DEF Promised, StoppedAreOwed, OnTheList, DeletedByUser, Owes, Kept
<1>3. CASE Crash
  <2>1. run' = run /\ inst' = inst /\ \A r \in Runs : worker'[r].pc = "none"
    BY <1>3, IdleType DEF Crash, BootOnly
  <2> QED BY <2>1, PromisedStay DEF SameDebts
<1>4. CASE Triage \/ BootStep \/ ReleaseForeignLease
  <2>1. run' = run /\ inst' = inst /\ worker' = worker
    BY <1>4 DEF Triage, BootStep, ReleaseForeignLease, BootOnly
  <2> QED BY <2>1, PromisedStay DEF SameDebts
<1>5. ASSUME NEW r \in Runs, BootRestore(r) \/ BootRestored(r) PROVE Promised'
  <2>1. /\ run' = run /\ inst' = inst /\ \A q \in Runs \ {r} : worker'[q] = worker[q]
        /\ worker'[r].pc \in {"undo", "none"}
    BY <1>0, <1>5, IdleType DEF BootRestore, BootRestored, BootOnly
  <2> QED BY <2>1, PromisedStay DEF SameDebts
<1> QED BY <1>1, <1>2, <1>3, <1>4, <1>5 DEF Boot

LEMMA NextPromised == Typed /\ Held /\ Promised /\ [Next]_vars => Promised'
<1>1. ASSUME Promised, UNCHANGED vars PROVE Promised'
  BY <1>1, PromisedStay DEF vars, SameDebts
<1>2. ASSUME Typed, Held, Promised, Next PROVE Promised'
  BY <1>2, SweepPromised, OtherPromised DEF Next
<1> QED BY <1>1, <1>2

LEMMA InitPromised == Init => Promised
BY IdleType DEF Init, Promised, StoppedAreOwed, OnTheList, DeletedByUser, Owes

-----------------------------------------------------------------------------
(* The theorems.                                                            *)

\* Every row, lease and worker keeps its type, and a sweep goes on only for a job the
\* queue holds as running (Worker.Run is called between the claim and the close).
THEOREM TypeCorrect == Spec => []TypeOK
<1>1. Typed /\ Held => TypeOK
  <2> SUFFICES ASSUME Typed, Held PROVE TypeOK
    OBVIOUS
  <2>1. ASSUME NEW r \in Runs
        PROVE  /\ run[r] \in RunRows /\ job[r] \in Jobs /\ worker[r] \in Workers /\ lease \in Leases
               /\ run[r].left + run[r].ok <= Points /\ (Sweeping(r) => job[r].state = "running")
    BY DEF Typed, Held, Leased
  <2>2. lease.run \in Runs \cup {NoRun}
    BY DEF Typed, Leases
  <2> QED BY <2>1, <2>2 DEF TypeOK, RunRows, Jobs, Workers, Ends
<1> QED BY <1>1, HeldAlways, PTL

\* D75: two sweeps never go on at once, however claims, cancels, retries, crashes and
\* boots interleave: a sweep holds the lease of the running boot until it closes.
THEOREM OneAtATime == Spec => []OneSweep
<1>1. Held => OneSweep
  BY BenchAssumption DEF Held, Leased, Holds, OneSweep
<1> QED BY <1>1, HeldAlways, PTL

\* No sweep starts into a half-restored fleet: while one goes on, no other run owes a
\* restart, unless its restoration failed at boot.  A run that owes keeps the lease
\* (ReleaseBenchLease), or is tried before the daemon serves (bench.Reconcile).
THEOREM FleetRestored == Spec => []SweepsApart
<1>1. Typed /\ Held /\ Debts /\ [Next]_vars => Debts'
  BY NextDebts
<1>2. Held /\ Debts => SweepsApart
  BY DEF Held, Leased, Debts, Holds, SweepsApart
<1> QED BY <1>1, <1>2, InitDebts, HeldAlways, PTL DEF Spec

\* What a benchmark stopped, and nobody asked about since, is on the list of a run that
\* still owes the restart, whatever dies between the writes of the worker, the finalizer
\* and the boot: the list is written before the first stop and marked after the last start.
THEOREM NothingForgotten == Spec => []StoppedAreOwed
<1>1. Typed /\ Held /\ Promised /\ [Next]_vars => Promised'
  BY NextPromised
<1>2. Promised => StoppedAreOwed
  BY DEF Promised
<1> QED BY <1>1, <1>2, InitPromised, HeldAlways, PTL DEF Spec

=============================================================================
