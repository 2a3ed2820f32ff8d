-------------------------- MODULE SupervisorProofs --------------------------
(***************************************************************************)
(* What holds of an instance and its supervisor for any passes, setups,    *)
(* ports and bounds: a process past its gate is the one the open row is    *)
(* about, and a refusal is written once an episode.                        *)
(***************************************************************************)
EXTENDS Supervisor, Integers, SequenceTheorems, FiniteSetTheorems, WellFoundedInduction, TLAPS

-----------------------------------------------------------------------------
(* The two searches of the model: the lowest free port, the last finished   *)
(* run.                                                                     *)

\* A set of naturals has a least member: the intervals from 0 to its members have one
\* that is inside no other.
LEMMA Least ==
    ASSUME NEW T \in SUBSET Nat, T # {}
    PROVE  \E m \in T : \A k \in T : m <= k
<1> DEFINE Upto == {0 .. k : k \in T}
<1>1. Upto \subseteq FiniteSubsetsOf(Nat) /\ Upto # {}
  <2>1. ASSUME NEW k \in T PROVE IsFiniteSet(0 .. k) /\ 0 .. k \in SUBSET Nat
    <3>1. 0 \in Int /\ k \in Int
      OBVIOUS
    <3>2. IsFiniteSet(0 .. k)
      BY <3>1, FS_Interval
    <3> QED BY <3>2
  <2> QED BY <2>1 DEF FiniteSubsetsOf
<1>2. IsWellFoundedOn(StrictSubsetOrdering(Nat), FiniteSubsetsOf(Nat))
  BY FS_StrictSubsetOrderingWellFounded
<1>3. \E u \in Upto : \A w \in Upto : ~(<<w, u>> \in StrictSubsetOrdering(Nat))
  <2> HIDE DEF Upto
  <2> QED BY <1>1, <1>2, WFMin
<1>4. PICK m \in T : \A k \in T : ~(<<0 .. k, 0 .. m>> \in StrictSubsetOrdering(Nat))
  BY <1>3
<1>5. ASSUME NEW k \in T, ~(m <= k) PROVE FALSE
  <2>1. 0 .. k \subseteq 0 .. m /\ m \in 0 .. m /\ m \notin 0 .. k
    BY <1>5
  <2>2. <<0 .. k, 0 .. m>> \in StrictSubsetOrdering(Nat)
    BY <2>1 DEF StrictSubsetOrdering
  <2> QED BY <2>2, <1>4
<1> QED BY <1>5

\* ... and one below a bound has a greatest.
LEMMA Greatest ==
    ASSUME NEW n \in Nat, NEW T \in SUBSET (1 .. n), T # {}
    PROVE  \E m \in T : \A k \in T : k <= m
<1> DEFINE Gaps == {n - k : k \in T}
<1>1. Gaps \in SUBSET Nat /\ Gaps # {}
  OBVIOUS
<1>2. PICK g \in Gaps : \A h \in Gaps : g <= h
  <2> HIDE DEF Gaps
  <2> QED BY <1>1, Least
<1>3. PICK m \in T : g = n - m
  BY <1>2
<1>4. \A k \in T : n - m <= n - k
  BY <1>2, <1>3
<1> QED BY <1>4

-----------------------------------------------------------------------------
(* Types.                                                                   *)

Exits == {"none", "ok", "unit", "gone", "db", "schema", "model", "port"}
Actives == {"active", "deactivating", "inactive", "failed"}
Readies == {"no", "yes", "settled"}

LedgerRows == [outcome : {"open", "stopped", "failed", "inhibited"}, code : Codes,
               lost : SUBSET (Ports \cup {0}), ready : Readies, override : BOOLEAN, ended : Int]
Runs == [at : Nat, outcome : {"none", "stopped", "failed"}, lost : SUBSET (Ports \cup {0}),
         ended : Int]
Statuses == [state : States, reset : Nat]
PassRecords ==
    [pc : {"idle", "kicked", "read", "observe", "record", "stop", "count", "inhibit", "move",
           "exhaust", "stamp", "call"},
     want : {"running", "stopped"}, gone : BOOLEAN, port : Ports \cup {0}, st : Statuses,
     open : Nat, ready : Readies, last : Runs,
     obs : [active : Actives \cup {"unknown"}, exit : Exits, serial : Nat,
            health : {"ok", "loading", "hung", "none"}],
     say : Reasons \cup {"none"}]

Instances == [desired : {"running", "stopped"}, deleted : BOOLEAN, override : BOOLEAN,
              trigger : {"none", "user", "safe_start", "supervisor_restart"}, port : Ports]
Units == [active : Actives, proc : {"none", "gate", "preflight", "load", "serve", "hung"},
          exit : Exits, row : Nat, port : Ports \cup {0}, serial : Nat, restart : BOOLEAN]

\* A pass moves the port only when it found one free.
Movable == \A p \in Passes : pass[p].pc = "move" => Free(pass[p]) # {}

Typed ==
    /\ inst \in Instances
    /\ status \in Statuses
    /\ starts \in Seq(LedgerRows)
    /\ unit \in Units
    /\ pass \in [Passes -> PassRecords]
    /\ Movable

-----------------------------------------------------------------------------
(* The ledger's operators.                                                  *)

LEMMA RowType ==
    ASSUME NEW outcome \in {"open", "stopped", "failed", "inhibited"}, NEW code \in Codes,
           NEW ended \in Int
    PROVE  /\ Row(outcome, code, ended) \in LedgerRows
           /\ Row(outcome, code, ended).outcome = outcome
           /\ Row(outcome, code, ended).code = code
BY DEF Row, LedgerRows, Readies

LEMMA Appended ==
    ASSUME NEW s \in Seq(LedgerRows), NEW r \in LedgerRows
    PROVE  /\ Append(s, r) \in Seq(LedgerRows)
           /\ Len(s) \in Nat
           /\ Len(Append(s, r)) = Len(s) + 1
           /\ \A i \in 1 .. Len(s) : Append(s, r)[i] = s[i]
           /\ Append(s, r)[Len(s) + 1] = r
OBVIOUS

LEMMA Unended ==
    ASSUME NEW r \in LedgerRows
    PROVE  /\ [r EXCEPT !.ended = 0] \in LedgerRows
           /\ [r EXCEPT !.ended = 0].outcome = r.outcome
           /\ [r EXCEPT !.ended = 0].code = r.code
BY DEF LedgerRows

\* A row is closed once, and no other row is.
LEMMA Closed ==
    ASSUME NEW rows \in Seq(LedgerRows), NEW k \in Nat, NEW outcome \in {"stopped", "failed"},
           NEW code \in Codes, NEW ended \in Int, NEW lost \in SUBSET (Ports \cup {0}),
           NEW t, t = CloseStart(rows, k, outcome, code, ended, lost)
    PROVE  /\ t \in Seq(LedgerRows) /\ Len(t) = Len(rows)
           /\ \A i \in 1 .. Len(rows) :
                 IF i = k /\ rows[i].outcome = "open"
                 THEN t[i].outcome = outcome /\ t[i].code = code
                 ELSE t[i].outcome = rows[i].outcome /\ t[i].code = rows[i].code
<1> DEFINE r == [Row(outcome, code, ended) EXCEPT !.lost = lost]
<1> DEFINE f(i) == [rows[i] EXCEPT !.ended = 0]
<1>1. r \in LedgerRows /\ r.outcome = outcome /\ r.code = code
  BY DEF Row, LedgerRows, Readies
<1>2. \A i \in 1 .. Len(rows) : rows[i] \in LedgerRows
  OBVIOUS
<1>3. ASSUME NEW i \in 1 .. Len(rows)
      PROVE  /\ f(i) \in LedgerRows /\ f(i).outcome = rows[i].outcome
             /\ f(i).code = rows[i].code
  <2>1. rows[i] \in LedgerRows
    BY <1>2
  <2> QED BY <2>1, Unended
<1>4. CASE k # 0 /\ rows[k].outcome = "open"
  <2>1. t = [j \in DOMAIN rows |-> IF j = k THEN r ELSE f(j)]
    BY <1>4 DEF CloseStart
  <2> HIDE DEF r, f
  <2>2. DOMAIN rows = 1 .. Len(rows) /\ Len(rows) \in Nat
    OBVIOUS
  <2>3. t \in [1 .. Len(rows) -> LedgerRows]
    BY <2>1, <2>2, <1>1, <1>3
  <2>4. t \in Seq(LedgerRows)
    BY <2>2, <2>3, SeqDef
  <2>5. Len(t) = Len(rows)
    BY <2>2, <2>3, <2>4, LenProperties
  <2>6. ASSUME NEW i \in 1 .. Len(rows), i # k PROVE t[i] = f(i)
    BY <2>6, <2>1, <2>2
  <2>7. k \in 1 .. Len(rows) => t[k] = r
    BY <2>1, <2>2
  <2> QED BY <2>4, <2>5, <2>6, <2>7, <1>1, <1>3, <1>4
<1>5. CASE ~(k # 0 /\ rows[k].outcome = "open")
  <2>1. t = rows
    BY <1>5 DEF CloseStart
  <2> QED BY <2>1, <1>5
<1> QED BY <1>4, <1>5

LEMMA OpenIs ==
    ASSUME starts \in Seq(LedgerRows)
    PROVE  /\ Open \in 0 .. Len(starts)
           /\ Open # 0 => starts[Open].outcome = "open"
           /\ Open = 0 => \A k \in 1 .. Len(starts) : starts[k].outcome # "open"
<1> DEFINE S == {k \in 1 .. Len(starts) : starts[k].outcome = "open"}
<1>1. DOMAIN starts = 1 .. Len(starts) /\ Len(starts) \in Nat
  OBVIOUS
<1>2. Open = IF S = {} THEN 0 ELSE CHOOSE k \in S : TRUE
  BY <1>1 DEF Open
<1>3. S # {} => (CHOOSE k \in S : TRUE) \in S
  OBVIOUS
<1> QED BY <1>1, <1>2, <1>3

Finished(k) == k \in 1 .. Len(starts) /\ starts[k].outcome \in {"stopped", "failed"}

LEMMA LastClosedIs ==
    ASSUME starts \in Seq(LedgerRows)
    PROVE  /\ LastClosed \in Runs
           /\ LastClosed.at # 0 => Finished(LastClosed.at)
<1> DEFINE S == {k \in 1 .. Len(starts) : starts[k].outcome \in {"stopped", "failed"}}
<1> DEFINE m == CHOOSE k \in S : \A j \in S : j <= k
<1>1. DOMAIN starts = 1 .. Len(starts) /\ Len(starts) \in Nat
  OBVIOUS
<1>2. LastClosed = IF S = {} THEN NoRun ELSE Run(m)
  BY <1>1 DEF LastClosed
<1>3. NoRun \in Runs /\ NoRun.at = 0
  BY DEF NoRun, Runs
<1>4. CASE S # {}
  <2>1. \E k \in S : \A j \in S : j <= k
    <3>1. S \in SUBSET (1 .. Len(starts))
      OBVIOUS
    <3> HIDE DEF S
    <3> QED BY <3>1, <1>1, <1>4, Greatest
  <2>2. m \in S
    <3> HIDE DEF S
    <3> QED BY <2>1
  <2>3. m \in 1 .. Len(starts) /\ starts[m].outcome \in {"stopped", "failed"}
        /\ starts[m] \in LedgerRows
    <3> HIDE DEF m
    <3> QED BY <2>2
  <2> HIDE DEF m
  <2>4. Run(m) \in Runs /\ Run(m).at = m
    BY <2>3 DEF Run, Runs, LedgerRows
  <2> HIDE DEF S
  <2> QED BY <2>3, <2>4, <1>2, <1>4 DEF Finished
<1> HIDE DEF S, m
<1> QED BY <1>2, <1>3, <1>4

\* A row's readiness says nothing of how it ended.
LEMMA Marked ==
    ASSUME NEW rows \in Seq(LedgerRows), NEW k \in Nat, NEW v \in Readies
    PROVE  /\ [rows EXCEPT ![k].ready = v] \in Seq(LedgerRows)
           /\ Len([rows EXCEPT ![k].ready = v]) = Len(rows)
           /\ \A i \in 1 .. Len(rows) : /\ [rows EXCEPT ![k].ready = v][i].outcome = rows[i].outcome
                                        /\ [rows EXCEPT ![k].ready = v][i].code = rows[i].code
<1> DEFINE r == [rows[k] EXCEPT !.ready = v]
<1>1. [rows EXCEPT ![k].ready = v] = [rows EXCEPT ![k] = r]
  OBVIOUS
<1>2. Len(rows) \in Nat /\ DOMAIN rows = 1 .. Len(rows)
  OBVIOUS
<1>3. CASE k \in 1 .. Len(rows)
  <2>1. rows[k] \in LedgerRows
    BY <1>3
  <2>2. r \in LedgerRows /\ r.outcome = rows[k].outcome /\ r.code = rows[k].code
    BY <2>1 DEF LedgerRows
  <2> HIDE DEF r
  <2> QED BY <1>1, <1>3, <2>2, ExceptSeq
<1>4. CASE k \notin 1 .. Len(rows)
  <2> HIDE DEF r
  <2>1. [rows EXCEPT ![k] = r] = rows
    BY <1>2, <1>4
  <2> QED BY <2>1, <1>1
<1> QED BY <1>3, <1>4

LEMMA ClosureType ==
    ASSUME NEW x \in PassRecords
    PROVE  /\ Closure(x).outcome \in {"stopped", "failed"} /\ Closure(x).code \in Codes
           /\ Lost(x) \in SUBSET (Ports \cup {0})
<1>1. x.obs.exit \in Exits
  BY DEF PassRecords
<1>2. Lost(x) \in SUBSET (Ports \cup {0})
  BY DEF Lost
<1>3. CASE x.want = "stopped"
  <2>1. Closure(x) = [outcome |-> "stopped", code |-> "none"]
    BY <1>3 DEF Closure
  <2> QED BY <2>1, <1>2 DEF Codes
<1>4. CASE x.want # "stopped" /\ x.open \in memory.timedOut
  <2>1. Closure(x) = [outcome |-> "failed", code |-> "timeout"]
    BY <1>4 DEF Closure
  <2> QED BY <2>1, <1>2 DEF Codes
<1>5. CASE x.want # "stopped" /\ x.open \notin memory.timedOut
  <2>1. Closure(x) = IF x.obs.exit \in {"ok", "none"} THEN [outcome |-> "stopped", code |-> "none"]
                     ELSE [outcome |-> "failed", code |-> x.obs.exit]
    BY <1>5 DEF Closure
  <2> QED BY <2>1, <1>1, <1>2 DEF Codes, Exits
<1> QED BY <1>3, <1>4, <1>5

\* Only the row a pass took for open is closed, and only a failure is appended.
LEMMA RecordedIs ==
    ASSUME NEW x \in PassRecords, NEW s, NEW rows \in Seq(LedgerRows),
           NEW t, t = Recorded(x, s, rows)
    PROVE  /\ t \in Seq(LedgerRows)
           /\ Len(rows) \in Nat /\ Len(t) \in Nat /\ Len(t) >= Len(rows)
           /\ \A i \in 1 .. Len(rows) :
                 IF i = x.open /\ Closes(x) /\ rows[i].outcome = "open"
                 THEN t[i].outcome \in {"stopped", "failed"}
                 ELSE t[i].outcome = rows[i].outcome /\ t[i].code = rows[i].code
           /\ \A i \in Len(rows) + 1 .. Len(t) : t[i].outcome = "failed"
<1> DEFINE c == CloseStart(rows, x.open, Closure(x).outcome, Closure(x).code, x.obs.serial, Lost(x))
<1> DEFINE closed == IF Closes(x) THEN c ELSE rows
<1> DEFINE readied == [closed EXCEPT ![x.open].ready = "yes"]
<1> DEFINE ready == IF x.obs.health = "ok" /\ x.open # 0 /\ x.ready = "no" /\
                       closed[x.open].outcome = "open" /\ closed[x.open].ready = "no"
                    THEN readied ELSE closed
<1> DEFINE r == Row("failed", x.obs.exit, x.obs.serial)
<1>1. x.open \in Nat /\ x.obs.serial \in Nat
  BY DEF PassRecords
<1>2. /\ c \in Seq(LedgerRows) /\ Len(c) = Len(rows)
      /\ \A i \in 1 .. Len(rows) :
            IF i = x.open /\ rows[i].outcome = "open"
            THEN c[i].outcome = Closure(x).outcome /\ c[i].code = Closure(x).code
            ELSE c[i].outcome = rows[i].outcome /\ c[i].code = rows[i].code
  <2> HIDE DEF c
  <2>1. c = CloseStart(rows, x.open, Closure(x).outcome, Closure(x).code, x.obs.serial, Lost(x))
    BY DEF c
  <2>2. x.obs.serial \in Int
    BY <1>1
  <2> QED BY <2>1, <2>2, <1>1, ClosureType, Closed
<1>3. /\ closed \in Seq(LedgerRows) /\ Len(closed) = Len(rows)
      /\ \A i \in 1 .. Len(rows) :
            IF i = x.open /\ Closes(x) /\ rows[i].outcome = "open"
            THEN closed[i].outcome \in {"stopped", "failed"}
            ELSE closed[i].outcome = rows[i].outcome /\ closed[i].code = rows[i].code
  <2> HIDE DEF c
  <2>1. CASE Closes(x)
    BY <2>1, <1>2, ClosureType
  <2>2. CASE ~Closes(x)
    BY <2>2
  <2> QED BY <2>1, <2>2
<1> HIDE DEF closed
<1>4. /\ readied \in Seq(LedgerRows) /\ Len(readied) = Len(closed)
      /\ \A i \in 1 .. Len(closed) :
            readied[i].outcome = closed[i].outcome /\ readied[i].code = closed[i].code
  <2>1. "yes" \in Readies
    BY DEF Readies
  <2> QED BY <2>1, <1>1, <1>3, Marked
<1>5. /\ ready \in Seq(LedgerRows) /\ Len(ready) = Len(rows)
      /\ \A i \in 1 .. Len(rows) :
            ready[i].outcome = closed[i].outcome /\ ready[i].code = closed[i].code
  <2> HIDE DEF readied
  <2> QED BY <1>3, <1>4
<1>6. t = IF Owes(x) /\ x.last.ended < x.obs.serial THEN Append(ready, r) ELSE ready
  BY DEF Recorded, closed
<1> HIDE DEF ready, r
<1>7. CASE Owes(x) /\ x.last.ended < x.obs.serial
  <2>1. r \in LedgerRows /\ r.outcome = "failed"
    <3>1. x.obs.exit \in Codes /\ x.obs.serial \in Int
      BY <1>1, <1>7 DEF Owes, Codes
    <3> QED BY <3>1, RowType DEF r
  <2>2. t = Append(ready, r)
    BY <1>6, <1>7
  <2>3. /\ t \in Seq(LedgerRows) /\ Len(ready) \in Nat /\ Len(t) = Len(ready) + 1
        /\ \A i \in 1 .. Len(ready) : t[i] = ready[i]
        /\ t[Len(ready) + 1] = r
    BY <2>1, <2>2, <1>5, Appended
  <2>4. \A i \in 1 .. Len(rows) : t[i].outcome = closed[i].outcome /\ t[i].code = closed[i].code
    BY <2>3, <1>5
  <2>5. \A i \in Len(rows) + 1 .. Len(t) : t[i].outcome = "failed"
    BY <2>1, <2>3, <1>5
  <2> QED BY <2>3, <2>4, <2>5, <1>3, <1>5
<1>8. CASE ~(Owes(x) /\ x.last.ended < x.obs.serial)
  <2>1. t = ready /\ Len(rows) \in Nat
    BY <1>6, <1>8
  <2> QED BY <2>1, <1>3, <1>5
<1> QED BY <1>7, <1>8

-----------------------------------------------------------------------------
(* Types hold: the unit's operators, then the pass's, then the actions.     *)

LEMMA UnitTypes ==
    ASSUME NEW u \in Units
    PROVE  /\ Launch(u) \in Units /\ Launch(u).row = 0 /\ ~Down(Launch(u))
           /\ Started(u) \in Units /\ Stopped(u) \in Units /\ Restarted(u) \in Units
           /\ \A o \in {Started(u), Stopped(u), Restarted(u)} :
                 /\ Down(o) => Down(u) /\ o.row = u.row
                 /\ o.row = u.row \/ o.row = 0
<1>1. Launch(u) \in Units /\ Launch(u).row = 0 /\ Launch(u).active = "active"
  <2> DEFINE n == u.serial + 1
  <2>1. n \in Nat
    BY DEF Units
  <2>2. Launch(u) = [u EXCEPT !.active = "active", !.proc = "gate", !.exit = "none", !.row = 0,
                              !.port = 0, !.serial = n, !.restart = FALSE]
    BY DEF Launch, Units
  <2> HIDE DEF n
  <2>3. Launch(u) = [active |-> "active", proc |-> "gate", exit |-> "none", row |-> 0,
                     port |-> 0, serial |-> n, restart |-> FALSE]
    BY <2>2 DEF Units
  <2> QED BY <2>1, <2>3 DEF Units, Actives, Exits
<1>2. /\ [u EXCEPT !.restart = TRUE] \in Units /\ [u EXCEPT !.restart = FALSE] \in Units
      /\ [u EXCEPT !.active = "deactivating"] \in Units
      /\ [u EXCEPT !.active = "deactivating", !.restart = TRUE] \in Units
      /\ [u EXCEPT !.restart = TRUE].row = u.row /\ [u EXCEPT !.restart = FALSE].row = u.row
      /\ [u EXCEPT !.active = "deactivating"].row = u.row
      /\ [u EXCEPT !.active = "deactivating", !.restart = TRUE].row = u.row
      /\ [u EXCEPT !.restart = TRUE].active = u.active
      /\ [u EXCEPT !.restart = FALSE].active = u.active
      /\ [u EXCEPT !.active = "deactivating"].active = "deactivating"
      /\ [u EXCEPT !.active = "deactivating", !.restart = TRUE].active = "deactivating"
  BY DEF Units, Actives
<1> HIDE DEF Launch
<1>3. Started(u) \in {Launch(u), [u EXCEPT !.restart = TRUE], u}
  BY DEF Started
<1>4. Stopped(u) \in {[u EXCEPT !.active = "deactivating"], [u EXCEPT !.restart = FALSE]}
  BY DEF Stopped
<1>5. Restarted(u) \in {[u EXCEPT !.active = "deactivating", !.restart = TRUE], Started(u)}
  BY DEF Restarted
<1> DEFINE Good(o) == /\ o \in Units /\ (Down(o) => Down(u) /\ o.row = u.row)
                      /\ (o.row = u.row \/ o.row = 0)
<1>6. /\ Good(Launch(u)) /\ Good(u) /\ Good([u EXCEPT !.restart = TRUE])
      /\ Good([u EXCEPT !.restart = FALSE]) /\ Good([u EXCEPT !.active = "deactivating"])
      /\ Good([u EXCEPT !.active = "deactivating", !.restart = TRUE])
  BY <1>1, <1>2 DEF Down
<1>7. Good(Started(u)) /\ Good(Stopped(u))
  <2> HIDE DEF Good
  <2> QED BY <1>3, <1>4, <1>6
<1>8. Good(Restarted(u))
  <2> HIDE DEF Good
  <2> QED BY <1>5, <1>6, <1>7
<1>9. ~Down(Launch(u))
  BY <1>1 DEF Down
<1> QED BY <1>1, <1>7, <1>8, <1>9

LEMMA EndedType ==
    ASSUME unit \in Units, NEW exit \in Exits, Ended(exit)
    PROVE  unit' \in Units /\ unit'.row = 0
BY DEF Ended, Units, Actives, Exits

LEMMA NoPassType == NoPass \in PassRecords /\ NoPass.pc = "idle" /\ NoPass.obs.active = "unknown"
                    /\ NoPass.open = 0 /\ NoPass.last.at = 0 /\ NoPass.st.reset = 0
BY DEF NoPass, PassRecords, NoRun, Runs, Statuses, States, Readies, Exits, Actives

\* What a step does to one pass.
Replaced(p, x) == pass' = [pass EXCEPT ![p] = x]

LEMMA ReplacedType ==
    ASSUME Typed, NEW p \in Passes, NEW x \in PassRecords, Replaced(p, x), UNCHANGED setup,
           x.pc = "move" => Free(x) # {}
    PROVE  pass' \in [Passes -> PassRecords] /\ Movable' /\ pass'[p] = x
           /\ \A q \in Passes \ {p} : pass'[q] = pass[q]
<1>1. pass' \in [Passes -> PassRecords] /\ pass'[p] = x
      /\ \A q \in Passes \ {p} : pass'[q] = pass[q]
  BY DEF Typed, Replaced
<1>2. ASSUME NEW q \in Passes, pass'[q].pc = "move" PROVE Free(pass[q])' # {}
  <2>1. CASE q = p
    BY <2>1, <1>1, <1>2 DEF Free
  <2>2. CASE q # p
    BY <2>2, <1>1, <1>2 DEF Free, Typed, Movable
  <2> QED BY <2>1, <2>2
<1> QED BY <1>1, <1>2 DEF Movable

LEMMA OverType ==
    ASSUME Typed, NEW p \in Passes, Over(p), UNCHANGED setup
    PROVE  pass' \in [Passes -> PassRecords] /\ Movable' /\ pass'[p] = NoPass
           /\ \A q \in Passes \ {p} : pass'[q] = pass[q]
<1>1. Replaced(p, NoPass)
  BY DEF Over, Replaced
<1>2. NoPass \in PassRecords /\ NoPass.pc # "move"
  BY NoPassType
<1> QED BY <1>1, <1>2, ReplacedType

LEMMA GotoType ==
    ASSUME Typed, NEW p \in Passes, NEW pc \in {"record", "call", "count", "exhaust", "move", "stamp"},
           Goto(p, pc), UNCHANGED setup, pc = "move" => Free(pass[p]) # {}
    PROVE  pass' \in [Passes -> PassRecords] /\ Movable' /\ pass'[p] = [pass[p] EXCEPT !.pc = pc]
           /\ \A q \in Passes \ {p} : pass'[q] = pass[q]
<1> DEFINE x == [pass[p] EXCEPT !.pc = pc]
<1>1. Replaced(p, x)
  BY DEF Goto, Replaced
<1>2. pass[p] \in PassRecords
  BY DEF Typed
<1>3. x \in PassRecords /\ x.pc = pc /\ x.port = pass[p].port
  BY <1>2 DEF PassRecords
<1>4. x.pc = "move" => Free(x) # {}
  BY <1>3 DEF Free
<1> HIDE DEF x
<1>5. x = [pass[p] EXCEPT !.pc = pc]
  BY DEF x
<1> QED BY <1>1, <1>3, <1>4, <1>5, ReplacedType

\* Idle passes only are kicked, and nothing they hold changes.
LEMMA KickedType ==
    ASSUME Typed, Kicked, UNCHANGED setup
    PROVE  /\ pass' \in [Passes -> PassRecords] /\ Movable'
           /\ \A p \in Passes :
                 \/ pass'[p] = pass[p]
                 \/ pass[p].pc = "idle" /\ pass'[p] = [pass[p] EXCEPT !.pc = "kicked"]
<1>1. ASSUME NEW p \in Passes
      PROVE  /\ pass[p] \in PassRecords /\ [pass[p] EXCEPT !.pc = "kicked"] \in PassRecords
             /\ [pass[p] EXCEPT !.pc = "kicked"].pc # "move"
  <2>1. pass[p] \in PassRecords
    BY DEF Typed
  <2> QED BY <2>1 DEF PassRecords
<1>2. pass' \in [Passes -> PassRecords]
  BY <1>1 DEF Kicked
<1>3. \A p \in Passes :
         \/ pass'[p] = pass[p]
         \/ pass[p].pc = "idle" /\ pass'[p] = [pass[p] EXCEPT !.pc = "kicked"]
  BY DEF Kicked
<1>4. ASSUME NEW p \in Passes, pass'[p].pc = "move" PROVE Free(pass[p])' # {}
  <2>1. pass'[p] = pass[p]
    BY <1>1, <1>3, <1>4
  <2> QED BY <2>1, <1>4 DEF Typed, Movable, Free
<1> QED BY <1>2, <1>3, <1>4 DEF Movable

\* The launcher closes whatever row was left open and appends the one it opens.
LEMMA OpenStartRows ==
    ASSUME starts \in Seq(LedgerRows), unit \in Units, inst.override \in BOOLEAN, OpenStart
    PROVE  /\ starts' \in Seq(LedgerRows) /\ Len(starts) \in Nat /\ Len(starts') = Len(starts) + 1
           /\ \A i \in 1 .. Len(starts) :
                 IF starts[i].outcome = "open" /\ i = Open
                 THEN starts'[i].outcome = "failed"
                 ELSE starts'[i].outcome = starts[i].outcome /\ starts'[i].code = starts[i].code
           /\ starts'[Len(starts) + 1].outcome = "open"
<1> DEFINE n == unit.serial - 1
<1> DEFINE c == CloseStart(starts, Open, "failed", "superseded", n, {})
<1> DEFINE r == [Row("open", "none", 0) EXCEPT !.override = inst.override]
<1>1. n \in Int
  BY DEF Units
<1>2. Open \in Nat /\ Len(starts) \in Nat
  BY OpenIs
<1> HIDE DEF n
<1>3. /\ c \in Seq(LedgerRows) /\ Len(c) = Len(starts)
      /\ \A i \in 1 .. Len(starts) :
            IF i = Open /\ starts[i].outcome = "open"
            THEN c[i].outcome = "failed" /\ c[i].code = "superseded"
            ELSE c[i].outcome = starts[i].outcome /\ c[i].code = starts[i].code
  <2>1. "failed" \in {"stopped", "failed"} /\ "superseded" \in Codes
        /\ {} \in SUBSET (Ports \cup {0})
    BY DEF Codes
  <2> HIDE DEF c
  <2>2. c = CloseStart(starts, Open, "failed", "superseded", n, {})
    BY DEF c
  <2> QED BY <2>1, <2>2, <1>1, <1>2, Closed
<1>4. r \in LedgerRows /\ r.outcome = "open"
  BY DEF Row, LedgerRows, Codes, Readies
<1>5. starts' = Append(c, r)
  BY DEF OpenStart, n
<1> HIDE DEF c, r
<1> QED BY <1>2, <1>3, <1>4, <1>5, Appended

\* A failed preflight closes its own row, or, when the write fails, nothing.
LEMMA FailStartRows ==
    ASSUME starts \in Seq(LedgerRows), unit \in Units, FailStart
    PROVE  /\ starts' \in Seq(LedgerRows) /\ Len(starts) \in Nat /\ Len(starts') = Len(starts)
           /\ \A i \in 1 .. Len(starts) :
                 \/ starts[i].outcome = "open" /\ i = unit.row /\ starts'[i].outcome = "failed"
                 \/ starts'[i].outcome = starts[i].outcome /\ starts'[i].code = starts[i].code
<1> DEFINE code == IF setup.broken THEN "model" ELSE "port"
<1> DEFINE lost == IF code = "port" THEN {unit.port} ELSE {}
<1> DEFINE n == unit.serial - 1
<1>1. code \in Codes /\ lost \in SUBSET (Ports \cup {0}) /\ n \in Int /\ unit.row \in Nat
      /\ Len(starts) \in Nat /\ "failed" \in {"stopped", "failed"}
  BY DEF Units, Codes
<1>2. starts' = CloseStart(starts, unit.row, "failed", code, n, lost) \/ starts' = starts
  BY Zenon DEF FailStart
<1> HIDE DEF code, lost, n
<1>3. CASE starts' = CloseStart(starts, unit.row, "failed", code, n, lost)
  <2>1. /\ starts' \in Seq(LedgerRows) /\ Len(starts') = Len(starts)
        /\ \A i \in 1 .. Len(starts) :
              IF i = unit.row /\ starts[i].outcome = "open"
              THEN starts'[i].outcome = "failed" /\ starts'[i].code = code
              ELSE starts'[i].outcome = starts[i].outcome /\ starts'[i].code = starts[i].code
    BY <1>1, <1>3, Closed
  <2> QED BY <2>1, <1>1
<1>4. CASE starts' = starts
  BY <1>1, <1>4
<1> QED BY <1>2, <1>3, <1>4

LEMMA StillType ==
    ASSUME Typed, UNCHANGED <<pass, setup>>
    PROVE  pass' \in [Passes -> PassRecords] /\ Movable'
BY DEF Typed, Movable, Free

LEMMA LaunchTypes ==
    ASSUME Typed, OpenStart \/ AbortStart \/ Exec \/ FailStart \/ Serve \/ Hang \/ Die \/ Settle
                  \/ StopDone \/ RestartGoes
    PROVE  Typed'
<1>1. /\ inst \in Instances /\ status \in Statuses /\ starts \in Seq(LedgerRows) /\ unit \in Units
      /\ Len(starts) \in Nat
  BY DEF Typed
<1>2. UNCHANGED <<pass, setup>>
  BY DEF OpenStart, AbortStart, Exec, FailStart, Serve, Hang, Die, Settle, StopDone, RestartGoes,
         UnitOnly
<1>3. pass' \in [Passes -> PassRecords] /\ Movable'
  BY <1>2, StillType
<1>4. \A s \in {"load", "serve", "hung"} : [unit EXCEPT !.proc = s] \in Units
  BY <1>1 DEF Units
<1>5. UNCHANGED status
  BY DEF OpenStart, AbortStart, Exec, FailStart, Serve, Hang, Die, Settle, StopDone, RestartGoes,
         dbVars
<1>6. CASE OpenStart
  <2>1. inst' \in Instances
    BY <1>1, <1>6 DEF OpenStart, Instances
  <2>2. unit' \in Units
    <3> DEFINE n == Len(starts) + 1
    <3>1. n \in Nat
      BY <1>1
    <3>2. unit' = [unit EXCEPT !.proc = "preflight", !.row = n, !.port = inst.port]
      BY <1>6 DEF OpenStart
    <3> HIDE DEF n
    <3>3. inst.port \in Ports \cup {0}
      BY <1>1 DEF Instances
    <3> QED BY <3>1, <3>2, <3>3, <1>1 DEF Units
  <2>3. starts' \in Seq(LedgerRows)
    BY <1>1, <1>6, OpenStartRows DEF OpenStart, Instances
  <2> QED BY <2>1, <2>2, <2>3, <1>1, <1>3, <1>5 DEF Typed
<1>7. CASE FailStart
  <2>1. unit' \in Units
    <3>1. PICK code \in {"model", "port"} : Ended(code)
      BY <1>7, Zenon DEF FailStart
    <3> QED BY <3>1, <1>1, EndedType DEF Exits
  <2>2. starts' \in Seq(LedgerRows)
    BY <1>1, <1>7, FailStartRows
  <2>3. UNCHANGED inst
    BY <1>7 DEF FailStart
  <2> QED BY <2>1, <2>2, <2>3, <1>1, <1>3, <1>5 DEF Typed
<1>8. CASE Settle
  <2>1. starts' \in Seq(LedgerRows)
    <3>1. "settled" \in Readies /\ unit.row \in Nat
      BY <1>1 DEF Readies, Units
    <3> QED BY <1>1, <1>8, <3>1, Marked DEF Settle
  <2> QED BY <2>1, <1>1, <1>3, <1>8 DEF Typed, Settle
<1>9. CASE AbortStart \/ Die \/ StopDone
  <2>1. PICK exit \in Exits : Ended(exit)
    BY <1>9 DEF AbortStart, Die, StopDone, Exits
  <2>2. unit' \in Units
    BY <1>1, <2>1, EndedType
  <2> QED BY <2>2, <1>1, <1>3, <1>9 DEF Typed, AbortStart, Die, StopDone, dbVars
<1>10. CASE Exec \/ Serve \/ Hang \/ RestartGoes
  <2>1. unit' \in Units
    BY <1>1, <1>4, <1>10, UnitTypes DEF Exec, Serve, Hang, RestartGoes
  <2> QED BY <2>1, <1>1, <1>3, <1>10 DEF Typed, Exec, Serve, Hang, RestartGoes, dbVars
<1> QED BY <1>6, <1>7, <1>8, <1>9, <1>10

\* What a pass read is of the types of what it read from.
LEMMA StatusOf ==
    ASSUME Typed, NEW x \in PassRecords, NEW s \in States
    PROVE  /\ NextStatus(x, s) \in Statuses /\ [x.st EXCEPT !.state = s] \in Statuses
           /\ x.st \in Statuses /\ x.port \in Ports \cup {0} /\ x.last \in Runs
           /\ NextStatus(x, s).reset \in {x.st.reset, x.open}
           /\ [x.st EXCEPT !.state = s].reset = x.st.reset
<1>1. x.st \in Statuses /\ x.open \in Nat /\ x.port \in Ports \cup {0} /\ x.last \in Runs
  BY DEF PassRecords
<1>2. NextStatus(x, s) \in Statuses
  BY <1>1 DEF NextStatus, Statuses
<1>3. NextStatus(x, s).reset \in {x.st.reset, x.open}
  BY <1>1 DEF NextStatus
<1> QED BY <1>1, <1>2, <1>3 DEF Statuses

LEMMA DerivedStates ==
    ASSUME NEW x \in PassRecords, NEW s \in Derived(x)
    PROVE  s \in States
<1>1. x.st.state \in States
  BY DEF PassRecords, Statuses
<1> QED BY <1>1 DEF Derived, States

\* Reading: what it will do next, and the rows it goes by.
LEMMA SubjectsIs ==
    ASSUME Typed, NEW p \in Passes, Subjects(p)
    PROVE  /\ Typed'
           /\ \A q \in Passes \ {p} : pass'[q] = pass[q]
           /\ pass'[p].pc = "read" /\ pass'[p].last = pass[p].last /\ pass'[p].open = pass[p].open
           /\ pass'[p].obs = pass[p].obs /\ pass'[p].st = pass[p].st
<1> DEFINE x == [pass[p] EXCEPT !.pc = "read", !.want = inst.desired, !.gone = inst.deleted,
                                !.port = inst.port]
<1>1. pass[p] \in PassRecords /\ inst \in Instances
  BY DEF Typed
<1>2. x \in PassRecords /\ x.pc = "read" /\ x.last = pass[p].last /\ x.open = pass[p].open
      /\ x.obs = pass[p].obs /\ x.st = pass[p].st
  BY <1>1 DEF PassRecords, Instances
<1>3. Replaced(p, x) /\ UNCHANGED <<setup, inst, status, starts, unit>>
  BY DEF Subjects, Replaced, Rest, dbVars
<1> HIDE DEF x
<1>4. pass' \in [Passes -> PassRecords] /\ Movable' /\ pass'[p] = x
      /\ \A q \in Passes \ {p} : pass'[q] = pass[q]
  BY <1>2, <1>3, ReplacedType
<1> QED BY <1>2, <1>3, <1>4 DEF Typed

LEMMA ReadRowsIs ==
    ASSUME Typed, NEW p \in Passes, ReadRows(p)
    PROVE  /\ Typed'
           /\ \A q \in Passes \ {p} : pass'[q] = pass[q]
           /\ pass'[p].pc = "observe" /\ pass'[p].last = LastClosed /\ pass'[p].open = Open
           /\ pass'[p].obs = pass[p].obs /\ pass'[p].st = status
<1> DEFINE rd == IF Open = 0 THEN "no" ELSE starts[Open].ready
<1> DEFINE x == [pass[p] EXCEPT !.pc = "observe", !.st = status, !.open = Open, !.ready = rd,
                                !.last = LastClosed]
<1>1. pass[p] \in PassRecords /\ status \in Statuses /\ starts \in Seq(LedgerRows)
  BY DEF Typed
<1>2. Open \in 0 .. Len(starts) /\ Len(starts) \in Nat /\ LastClosed \in Runs
  BY <1>1, OpenIs, LastClosedIs
<1>3. rd \in Readies
  <2>1. Open # 0 => starts[Open] \in LedgerRows
    BY <1>1, <1>2
  <2> QED BY <2>1 DEF LedgerRows, Readies
<1>4. Replaced(p, x) /\ UNCHANGED <<setup, inst, status, starts, unit>>
  BY DEF ReadRows, Replaced, Rest, dbVars
<1>5. /\ x \in PassRecords /\ x.pc = "observe" /\ x.last = LastClosed /\ x.open = Open
      /\ x.obs = pass[p].obs /\ x.st = status
  <2> HIDE DEF rd
  <2> DEFINE w == [pass[p] EXCEPT !.pc = "observe", !.st = status]
  <2>1. w \in PassRecords /\ w.pc = "observe" /\ w.st = status /\ w.obs = pass[p].obs
    BY <1>1 DEF PassRecords
  <2>2. x = [w EXCEPT !.open = Open, !.ready = rd, !.last = LastClosed]
    BY <1>1 DEF PassRecords
  <2>3. Open \in Nat
    BY <1>2
  <2> HIDE DEF w, x
  <2> QED BY <1>2, <1>3, <2>1, <2>2, <2>3 DEF PassRecords
<1> HIDE DEF x
<1>6. pass' \in [Passes -> PassRecords] /\ Movable' /\ pass'[p] = x
      /\ \A q \in Passes \ {p} : pass'[q] = pass[q]
  BY <1>4, <1>5, ReplacedType
<1> QED BY <1>4, <1>5, <1>6 DEF Typed

\* Observing: the unit as it is, or nothing when the call fails.
LEMMA ObserveIs ==
    ASSUME Typed, NEW p \in Passes, Observe(p)
    PROVE  /\ Typed'
           /\ \A q \in Passes \ {p} : pass'[q] = pass[q]
           /\ pass'[p].pc = "record" /\ pass'[p].last = pass[p].last
           /\ pass'[p].open = pass[p].open /\ pass'[p].st = pass[p].st
           /\ pass'[p].obs = pass[p].obs \/ pass'[p].obs.active = unit.active
<1> DEFINE o == [active |-> unit.active, exit |-> unit.exit, serial |-> unit.serial,
                 health |-> Health]
<1> DEFINE x == [pass[p] EXCEPT !.pc = "record", !.obs = o]
<1> DEFINE y == [pass[p] EXCEPT !.pc = "record"]
<1>1. pass[p] \in PassRecords /\ unit \in Units
  BY DEF Typed
<1>2. Health \in {"ok", "loading", "hung", "none"}
  BY DEF Health
<1>3. o \in [active : Actives \cup {"unknown"}, exit : Exits, serial : Nat,
             health : {"ok", "loading", "hung", "none"}]
      /\ o.active = unit.active
  BY <1>1, <1>2 DEF Units
<1>4. Replaced(p, x) \/ Replaced(p, y)
  BY DEF Observe, Goto, Replaced
<1>5. UNCHANGED <<setup, inst, status, starts, unit>>
  BY DEF Observe, Rest, dbVars
<1> HIDE DEF o
<1>6. /\ x \in PassRecords /\ x.pc = "record" /\ x.last = pass[p].last /\ x.open = pass[p].open
      /\ x.st = pass[p].st /\ x.obs = o
  BY <1>1, <1>3 DEF PassRecords
<1>7. /\ y \in PassRecords /\ y.pc = "record" /\ y.last = pass[p].last /\ y.open = pass[p].open
      /\ y.st = pass[p].st /\ y.obs = pass[p].obs
  BY <1>1 DEF PassRecords
<1> HIDE DEF x, y
<1>8. PICK z \in {x, y} : Replaced(p, z)
  BY <1>4
<1>9. pass' \in [Passes -> PassRecords] /\ Movable' /\ pass'[p] = z
      /\ \A q \in Passes \ {p} : pass'[q] = pass[q]
  BY <1>5, <1>6, <1>7, <1>8, ReplacedType
<1>10. Typed'
  BY <1>5, <1>9 DEF Typed
<1> QED BY <1>3, <1>6, <1>7, <1>8, <1>9, <1>10

\* Recording: the pass goes on with the run it closed, or with the one it had read.
LEMMA RecordIs ==
    ASSUME Typed, NEW p \in Passes, Record(p)
    PROVE  /\ Typed'
           /\ \A q \in Passes \ {p} : pass'[q] = pass[q]
           /\ pass'[p].pc # "record" /\ pass'[p].open = 0 /\ pass'[p].obs.active = "unknown"
           /\ \/ pass'[p].last.at \in {0, pass[p].last.at}
              \/ Closes(pass[p]) /\ pass'[p].last.at = pass[p].open
           /\ pass'[p].st.reset \in {0, pass[p].st.reset, pass[p].open}
           /\ status'.reset \in {pass[p].st.reset, pass[p].open}
           /\ \E s : starts' = Recorded(pass[p], s, starts)
<1> DEFINE x == pass[p]
<1>1. x \in PassRecords /\ status \in Statuses /\ starts \in Seq(LedgerRows) /\ unit \in Units
      /\ inst \in Instances
  BY DEF Typed
<1>2. PICK s \in Derived(x) :
         /\ starts' = Recorded(x, s, starts)
         /\ status' = NextStatus(x, s)
         /\ IF Acts(x, s) = "over" THEN Over(p)
            ELSE pass' = [pass EXCEPT ![p] =
                    [NoPass EXCEPT !.pc = Acts(x, s), !.port = x.port, !.st = NextStatus(x, s),
                       !.last = IF Closes(x) THEN [NoRun EXCEPT !.at = x.open,
                                                     !.outcome = Closure(x).outcome,
                                                     !.lost = Lost(x)]
                                ELSE [x.last EXCEPT !.ended = 0]]]
  BY DEF Record
<1>3. UNCHANGED <<setup, inst, unit>>
  BY DEF Record, Rest
<1> DEFINE closing == [NoRun EXCEPT !.at = x.open, !.outcome = Closure(x).outcome, !.lost = Lost(x)]
<1> DEFINE kept == [x.last EXCEPT !.ended = 0]
<1> DEFINE last == IF Closes(x) THEN closing ELSE kept
<1> DEFINE st == NextStatus(x, s)
<1> DEFINE pc == Acts(x, s)
<1> DEFINE y == [NoPass EXCEPT !.pc = pc, !.port = x.port, !.st = st, !.last = last]
<1>4. s \in States
  BY <1>1, DerivedStates
<1>5. st \in Statuses /\ st.reset \in {x.st.reset, x.open} /\ x.port \in Ports \cup {0}
      /\ x.last \in Runs /\ x.open \in Nat
  <2>1. x.open \in Nat
    BY <1>1 DEF PassRecords
  <2> QED BY <1>1, <1>4, <2>1, StatusOf
<1>6. closing \in Runs /\ closing.at = x.open
  <2> DEFINE o == Closure(x).outcome
  <2> DEFINE l == Lost(x)
  <2>1. o \in {"stopped", "failed"} /\ l \in SUBSET (Ports \cup {0}) /\ x.open \in Nat
    BY <1>1, <1>5, ClosureType
  <2> DEFINE n == x.open
  <2>2. closing = [NoRun EXCEPT !.at = n, !.outcome = o, !.lost = l]
    OBVIOUS
  <2> HIDE DEF o, l, n, closing
  <2>3. closing = [at |-> n, outcome |-> o, lost |-> l, ended |-> 0]
    BY <2>2 DEF NoRun
  <2>4. closing \in Runs /\ closing.at = n
    BY <2>1, <2>3 DEF Runs, n
  <2> QED BY <2>4 DEF n
<1>7. kept \in Runs /\ kept.at = x.last.at
  BY <1>5 DEF Runs
<1>8. last \in Runs /\ (last.at = x.last.at \/ (Closes(x) /\ last.at = x.open))
  <2> HIDE DEF closing, kept
  <2> QED BY <1>6, <1>7
<1>9. pc \in {"over", "stop", "count"}
  BY DEF Acts
<1> HIDE DEF closing, kept, last, st, pc
<1>10. CASE pc = "over"
  <2>1. Over(p)
    BY <1>2, <1>10 DEF pc
  <2>2. pass' \in [Passes -> PassRecords] /\ Movable' /\ pass'[p] = NoPass
        /\ \A q \in Passes \ {p} : pass'[q] = pass[q]
    BY <1>3, <2>1, OverType
  <2>3. pass'[p].pc # "record" /\ pass'[p].open = 0 /\ pass'[p].obs.active = "unknown"
        /\ pass'[p].last.at = 0 /\ pass'[p].st.reset = 0
    BY <2>2, NoPassType
  <2>4. starts' \in Seq(LedgerRows)
    BY <1>1, <1>2, RecordedIs
  <2>5. status' = st
    BY <1>2 DEF st
  <2>6. Typed'
    BY <1>1, <1>3, <1>5, <2>2, <2>4, <2>5 DEF Typed
  <2> QED BY <1>2, <1>5, <2>2, <2>3, <2>5, <2>6
<1>11. CASE pc # "over"
  <2>1. pass' = [pass EXCEPT ![p] = y]
    BY <1>2, <1>11 DEF pc, st, last, closing, kept
  <2>2. /\ y \in PassRecords /\ y.pc = pc /\ y.open = 0 /\ y.obs.active = "unknown"
        /\ y.st = st /\ y.last = last
    BY <1>5, <1>8, <1>9, <1>11, NoPassType DEF PassRecords
  <2> HIDE DEF y
  <2>3. pass' \in [Passes -> PassRecords] /\ Movable' /\ pass'[p] = y
        /\ \A q \in Passes \ {p} : pass'[q] = pass[q]
    <3>1. Replaced(p, y)
      BY <2>1 DEF Replaced
    <3>2. y.pc # "move"
      BY <2>2, <1>9
    <3> QED BY <1>3, <2>2, <3>1, <3>2, ReplacedType
  <2>4. starts' \in Seq(LedgerRows)
    BY <1>1, <1>2, RecordedIs
  <2>5. status' = st
    BY <1>2 DEF st
  <2>6. Typed'
    BY <1>1, <1>3, <1>5, <2>3, <2>4, <2>5 DEF Typed
  <2>7. pass'[p].pc # "record" /\ pass'[p].open = 0 /\ pass'[p].obs.active = "unknown"
        /\ pass'[p].st = st /\ pass'[p].last = last
    BY <2>2, <2>3, <1>9
  <2> QED BY <1>2, <1>5, <1>8, <2>3, <2>5, <2>6, <2>7
<1> QED BY <1>10, <1>11

\* A step on the unit: it puts no run back, and gives none another row.
UnitKeeps ==
    /\ Down(unit)' => unit'.row = 0 \/ (Down(unit) /\ unit'.row = unit.row)
    /\ unit'.row \in {unit.row, 0}

LEMMA VerdictIs ==
    ASSUME NEW x \in PassRecords
    PROVE  /\ Verdict(x) \in Reasons \cup {"stamp", "exhaust", "move"}
           /\ Verdict(x) = "move" => Free(x) # {}
<1> DEFINE looping == Cardinality(Failures(x.st.reset)) > RestartMax
<1> DEFINE failed == x.st.state = "failed"
<1>1. CASE x.st.state = "crash-looping" \/ (failed /\ looping)
  BY <1>1 DEF Verdict, Reasons
<1>2. CASE ~(x.st.state = "crash-looping" \/ (failed /\ looping))
  <2>1. Verdict(x) \in {"policy_never", "clean_exit"}
        \/ Verdict(x) = IF ~NeedsPort(x) THEN "stamp" ELSE IF Free(x) = {} THEN "exhaust" ELSE "move"
    BY <1>2, Zenon DEF Verdict
  <2> QED BY <2>1 DEF Reasons
<1> QED BY <1>1, <1>2

LEMMA EvaluateIs ==
    ASSUME Typed, NEW p \in Passes, Evaluate(p)
    PROVE  /\ Typed'
           /\ \A q \in Passes \ {p} : pass'[q] = pass[q]
           /\ pass[p].pc = "count" /\ pass'[p].pc # "record" /\ pass'[p].open = pass[p].open
           /\ pass'[p].last = pass[p].last /\ pass'[p].st = pass[p].st
           /\ pass'[p].obs = pass[p].obs
<1> DEFINE v == Verdict(pass[p])
<1> DEFINE x == IF v \in Reasons THEN [pass[p] EXCEPT !.pc = "inhibit", !.say = v]
                ELSE [pass[p] EXCEPT !.pc = v]
<1>1. pass[p] \in PassRecords
  BY DEF Typed
<1>2. v \in Reasons \cup {"stamp", "exhaust", "move"} /\ (v = "move" => Free(pass[p]) # {})
  BY <1>1, VerdictIs
<1>3. Replaced(p, x)
  BY DEF Evaluate, Replaced, Goto
<1> HIDE DEF v
<1>4. CASE v \in Reasons
  <2>1. x = [pass[p] EXCEPT !.pc = "inhibit", !.say = v]
    BY <1>4
  <2> HIDE DEF x
  <2>2. /\ x \in PassRecords /\ x.pc = "inhibit" /\ x.open = pass[p].open
        /\ x.last = pass[p].last /\ x.st = pass[p].st /\ x.obs = pass[p].obs
    BY <2>1, <1>1, <1>4 DEF PassRecords
  <2> QED BY <2>2, <1>3, ReplacedType DEF Evaluate, Rest, dbVars, Typed
<1>5. CASE v \notin Reasons
  <2>1. x = [pass[p] EXCEPT !.pc = v]
    BY <1>5
  <2> HIDE DEF x
  <2>2. v \in {"stamp", "exhaust", "move"}
    BY <1>2, <1>5
  <2>3. /\ x \in PassRecords /\ x.pc = v /\ x.open = pass[p].open /\ x.port = pass[p].port
        /\ x.last = pass[p].last /\ x.st = pass[p].st /\ x.obs = pass[p].obs
    BY <2>1, <2>2, <1>1 DEF PassRecords
  <2>4. x.pc = "move" => Free(x) # {}
    BY <2>3, <1>2 DEF Free
  <2> QED BY <2>2, <2>3, <2>4, <1>3, ReplacedType DEF Evaluate, Rest, dbVars, Typed
<1> QED BY <1>4, <1>5

LEMMA InhibitRows ==
    ASSUME Typed, NEW p \in Passes, Inhibit(p)
    PROVE  /\ starts' \in Seq(LedgerRows) /\ Len(starts) \in Nat
           /\ \/ starts' = starts
              \/ /\ Refusals(pass[p].say, pass[p].last.at) = {}
                 /\ Len(starts') = Len(starts) + 1
                 /\ \A i \in 1 .. Len(starts) : starts'[i] = starts[i]
                 /\ starts'[Len(starts) + 1].outcome = "inhibited"
                 /\ starts'[Len(starts) + 1].code = pass[p].say
<1>1. pass[p] \in PassRecords /\ starts \in Seq(LedgerRows)
  BY DEF Typed
<1>2. pass[p].say \in Codes
  BY <1>1 DEF PassRecords, Codes
<1> DEFINE r == Row("inhibited", pass[p].say, 0)
<1>3. r \in LedgerRows /\ r.outcome = "inhibited" /\ r.code = pass[p].say
  BY <1>2, RowType
<1>4. \/ starts' = starts
      \/ Refusals(pass[p].say, pass[p].last.at) = {} /\ starts' = Append(starts, r)
  BY DEF Inhibit
<1> HIDE DEF r
<1> QED BY <1>1, <1>3, <1>4, Appended

LEMMA EndIs ==
    ASSUME Typed, NEW p \in Passes,
           RecordFails(p) \/ CallStop(p) \/ Inhibit(p) \/ ReassignInternalPort(p)
           \/ MarkPortPoolExhausted(p) \/ CallStart(p) \/ ActFails(p) \/ BackoffHolds(p)
    PROVE  /\ Typed'
           /\ \A q \in Passes \ {p} : pass'[q] = pass[q]
           /\ pass'[p] = NoPass
           /\ UnitKeeps
           /\ status'.reset \in {status.reset, pass[p].st.reset}
           /\ Inhibit(p) \/ UNCHANGED starts
<1>1. pass[p] \in PassRecords /\ status \in Statuses /\ inst \in Instances /\ unit \in Units
      /\ starts \in Seq(LedgerRows)
  BY DEF Typed
<1>2. Over(p) /\ UNCHANGED setup
  BY DEF RecordFails, CallStop, Inhibit, ReassignInternalPort, MarkPortPoolExhausted, CallStart,
         ActFails, BackoffHolds, Rest
<1>3. /\ pass' \in [Passes -> PassRecords] /\ Movable' /\ pass'[p] = NoPass
      /\ \A q \in Passes \ {p} : pass'[q] = pass[q]
  BY <1>2, OverType
<1>4. unit' \in Units /\ UnitKeeps
  <2>1. unit' \in {unit, Stopped(unit), Started(unit)}
    BY DEF RecordFails, CallStop, Inhibit, ReassignInternalPort, MarkPortPoolExhausted,
           CallStart, ActFails, BackoffHolds
  <2>2. CASE unit' = unit
    BY <2>2, <1>1 DEF UnitKeeps, Down
  <2>3. CASE unit' \in {Stopped(unit), Started(unit)}
    <3>1. unit' \in Units /\ (Down(unit') => Down(unit) /\ unit'.row = unit.row)
          /\ (unit'.row = unit.row \/ unit'.row = 0)
      BY <2>3, <1>1, UnitTypes
    <3> QED BY <3>1 DEF UnitKeeps, Down
  <2> QED BY <2>1, <2>2, <2>3
<1>5. status' \in Statuses /\ status'.reset \in {status.reset, pass[p].st.reset}
  <2>1. /\ [pass[p].st EXCEPT !.state = "crash-looping"] \in Statuses
        /\ [pass[p].st EXCEPT !.state = "failed"] \in Statuses
        /\ [pass[p].st EXCEPT !.state = "crash-looping"].reset = pass[p].st.reset
        /\ [pass[p].st EXCEPT !.state = "failed"].reset = pass[p].st.reset
    BY <1>1, StatusOf DEF States
  <2>2. status' \in {status, [pass[p].st EXCEPT !.state = "crash-looping"],
                     [pass[p].st EXCEPT !.state = "failed"]}
    BY DEF RecordFails, CallStop, Inhibit, ReassignInternalPort, MarkPortPoolExhausted,
           CallStart, ActFails, BackoffHolds, dbVars
  <2> QED BY <2>1, <2>2, <1>1
<1>6. inst' \in Instances
  <2>1. CASE ReassignInternalPort(p)
    <3> DEFINE free == Free(pass[p])
    <3> DEFINE port == CHOOSE q \in free : \A r \in free : q <= r
    <3>1. free # {} /\ free \subseteq Ports
      BY <2>1 DEF Typed, Movable, ReassignInternalPort, Free
    <3>2. port \in Ports
      <4>1. free \in SUBSET Nat
        BY <3>1, SupervisorAssumption
      <4> HIDE DEF free
      <4>2. \E q \in free : \A r \in free : q <= r
        BY <4>1, <3>1, Least
      <4> QED BY <4>2, <3>1
    <3>3. inst' \in {inst, [inst EXCEPT !.port = port]}
      BY <2>1 DEF ReassignInternalPort
    <3> HIDE DEF port
    <3> QED BY <3>2, <3>3, <1>1 DEF Instances
  <2>2. CASE ~ReassignInternalPort(p)
    <3>1. UNCHANGED inst
      BY <2>2 DEF RecordFails, CallStop, Inhibit, MarkPortPoolExhausted, CallStart, ActFails,
             BackoffHolds, dbVars
    <3> QED BY <3>1, <1>1
  <2> QED BY <2>1, <2>2
<1>7. Inhibit(p) \/ UNCHANGED starts
  BY DEF RecordFails, CallStop, ReassignInternalPort, MarkPortPoolExhausted, CallStart,
         ActFails, BackoffHolds, dbVars
<1>8. starts' \in Seq(LedgerRows)
  BY <1>1, <1>7, InhibitRows
<1>9. Typed'
  BY <1>3, <1>4, <1>5, <1>6, <1>8 DEF Typed
<1> QED BY <1>3, <1>4, <1>5, <1>7, <1>9

LEMMA StampIs ==
    ASSUME Typed, NEW p \in Passes, StampStart(p)
    PROVE  /\ Typed'
           /\ \A q \in Passes \ {p} : pass'[q] = pass[q]
           /\ pass'[p] = [pass[p] EXCEPT !.pc = "call"] /\ pass[p].pc = "stamp"
           /\ UNCHANGED <<starts, unit>>
           /\ status'.reset = pass[p].st.reset
<1>1. pass[p] \in PassRecords /\ status \in Statuses /\ inst \in Instances /\ unit \in Units
      /\ starts \in Seq(LedgerRows)
  BY DEF Typed
<1>2. /\ pass' \in [Passes -> PassRecords] /\ Movable' /\ pass'[p] = [pass[p] EXCEPT !.pc = "call"]
      /\ \A q \in Passes \ {p} : pass'[q] = pass[q]
  BY GotoType DEF StampStart, Rest
<1>3. inst' \in Instances
  BY <1>1 DEF StampStart, Instances
<1>4. pass[p].st \in Statuses
  BY <1>1 DEF PassRecords
<1> QED BY <1>1, <1>2, <1>3, <1>4 DEF StampStart, Typed

\* The requests, the deaths and the boot: passes are kicked or forgotten, no row is touched.
PassesKeep ==
    \A p \in Passes : \/ pass'[p] = pass[p]
                      \/ pass[p].pc = "idle" /\ pass'[p] = [pass[p] EXCEPT !.pc = "kicked"]
                      \/ pass'[p] = NoPass

Requests == AskStart \/ AskStop \/ SafeStart \/ AskRestart \/ ResetFailed \/ AskDelete
            \/ StartByHand \/ Answer

LEMMA RequestIs ==
    ASSUME Typed, Requests
    PROVE  /\ Typed' /\ PassesKeep /\ UnitKeeps /\ UNCHANGED starts
           /\ status'.reset \in {status.reset, Len(starts)}
<1>1. status \in Statuses /\ inst \in Instances /\ unit \in Units /\ starts \in Seq(LedgerRows)
      /\ Len(starts) \in Nat
  BY DEF Typed
<1>2. UNCHANGED <<starts, setup>> /\ (Kicked \/ UNCHANGED pass)
  BY DEF Requests, AskStart, AskStop, SafeStart, AskRestart, ResetFailed, AskDelete, StartByHand,
         Answer, Ask
<1>3. pass' \in [Passes -> PassRecords] /\ Movable' /\ PassesKeep
  BY <1>2, KickedType, StillType DEF PassesKeep
<1>4. inst' \in Instances
  <2>1. /\ [inst EXCEPT !.desired = "stopped"] \in Instances
        /\ [inst EXCEPT !.desired = "stopped", !.deleted = TRUE] \in Instances
        /\ [inst EXCEPT !.desired = "running", !.trigger = "user", !.override = FALSE] \in Instances
        /\ [inst EXCEPT !.desired = "running", !.trigger = "safe_start", !.override = TRUE]
              \in Instances
    BY <1>1 DEF Instances
  <2>2. inst' \in {inst, [inst EXCEPT !.desired = "stopped"],
                   [inst EXCEPT !.desired = "stopped", !.deleted = TRUE],
                   [inst EXCEPT !.desired = "running", !.trigger = "user", !.override = FALSE],
                   [inst EXCEPT !.desired = "running", !.trigger = "safe_start", !.override = TRUE]}
    BY DEF Requests, AskStart, AskStop, SafeStart, AskRestart, ResetFailed, AskDelete,
           StartByHand, Answer, Wanted
  <2> QED BY <2>1, <2>2, <1>1
<1>5. status' \in Statuses /\ status'.reset \in {status.reset, Len(starts)}
  <2>1. Cleared \in Statuses /\ Cleared.reset = Len(starts)
    BY <1>1 DEF Cleared, Statuses, States
  <2>2. status' \in {status, Cleared}
    BY DEF Requests, AskStart, AskStop, SafeStart, AskRestart, ResetFailed, AskDelete,
           StartByHand, Answer
  <2> QED BY <2>1, <2>2, <1>1
<1>6. unit' \in Units /\ UnitKeeps
  <2>1. \/ unit' \in {unit, Stopped(unit), Started(unit), Restarted(unit)}
        \/ unit.active = "failed" /\ unit' = [unit EXCEPT !.active = "inactive"]
    <3>1. CASE Answer
      <4>1. CASE request = "restart"
        BY <3>1, <4>1 DEF Answer
      <4>2. CASE request = "reset" /\ unit.active = "failed"
        BY <3>1, <4>2 DEF Answer
      <4>3. CASE request # "restart" /\ ~(request = "reset" /\ unit.active = "failed")
        BY <3>1, <4>3 DEF Answer
      <4> QED BY <4>1, <4>2, <4>3
    <3>2. CASE ~Answer
      BY <3>2 DEF Requests, AskStart, AskStop, SafeStart, AskRestart, ResetFailed, AskDelete,
                  StartByHand
    <3> QED BY <3>1, <3>2
  <2>2. CASE unit' = unit
    BY <2>2, <1>1 DEF UnitKeeps, Down
  <2>3. CASE unit' \in {Stopped(unit), Started(unit), Restarted(unit)}
    <3>1. unit' \in Units /\ (Down(unit') => Down(unit) /\ unit'.row = unit.row)
          /\ (unit'.row = unit.row \/ unit'.row = 0)
      BY <2>3, <1>1, UnitTypes
    <3> QED BY <3>1 DEF UnitKeeps, Down
  <2>4. CASE unit.active = "failed" /\ unit' = [unit EXCEPT !.active = "inactive"]
    BY <2>4, <1>1 DEF UnitKeeps, Down, Units, Actives
  <2> QED BY <2>1, <2>2, <2>3, <2>4
<1> QED BY <1>1, <1>2, <1>3, <1>4, <1>5, <1>6 DEF Typed

Hostly == DaemonDies \/ HostDies \/ HostBootDecision \/ TargetStarts \/ ListOpenRows

LEMMA HostIs ==
    ASSUME Typed, Hostly
    PROVE  /\ Typed' /\ PassesKeep /\ UnitKeeps /\ UNCHANGED <<starts, status>>
<1>1. status \in Statuses /\ inst \in Instances /\ unit \in Units /\ starts \in Seq(LedgerRows)
  BY DEF Typed
<1>2. UNCHANGED <<starts, status, setup>>
  BY DEF Hostly, DaemonDies, HostDies, HostBootDecision, TargetStarts, ListOpenRows, dbVars
<1>3. pass' \in [Passes -> PassRecords] /\ Movable' /\ PassesKeep
  <2>1. CASE DaemonDies \/ HostDies
    <3>1. pass' = [p \in Passes |-> NoPass]
      BY <2>1 DEF DaemonDies, HostDies, Gone
    <3> QED BY <3>1, NoPassType DEF Movable, PassesKeep
  <2>2. CASE HostBootDecision \/ TargetStarts \/ ListOpenRows
    <3>1. UNCHANGED pass
      BY <2>2 DEF HostBootDecision, TargetStarts, ListOpenRows
    <3> QED BY <3>1, <1>2, StillType DEF PassesKeep
  <2> QED BY <2>1, <2>2 DEF Hostly
<1>4. inst' \in Instances
  <2>1. inst' \in {inst, [inst EXCEPT !.desired = "running"], [inst EXCEPT !.desired = "stopped"]}
    BY DEF Hostly, DaemonDies, HostDies, HostBootDecision, TargetStarts, ListOpenRows, dbVars
  <2> QED BY <2>1, <1>1 DEF Instances
<1>5. unit' \in Units /\ UnitKeeps
  <2>1. \/ unit' \in {unit, Started(unit)}
        \/ unit' = [unit EXCEPT !.active = "inactive", !.proc = "none", !.exit = "none", !.row = 0,
                                !.restart = FALSE]
    BY DEF Hostly, DaemonDies, HostDies, HostBootDecision, TargetStarts, ListOpenRows
  <2>2. CASE unit' = unit
    BY <2>2, <1>1 DEF UnitKeeps, Down
  <2>3. CASE unit' = Started(unit)
    <3>1. unit' \in Units /\ (Down(unit') => Down(unit) /\ unit'.row = unit.row)
          /\ (unit'.row = unit.row \/ unit'.row = 0)
      BY <2>3, <1>1, UnitTypes
    <3> QED BY <3>1 DEF UnitKeeps, Down
  <2>4. CASE unit' = [unit EXCEPT !.active = "inactive", !.proc = "none", !.exit = "none",
                                  !.row = 0, !.restart = FALSE]
    BY <2>4, <1>1 DEF UnitKeeps, Units, Actives, Exits
  <2> QED BY <2>1, <2>2, <2>3, <2>4
<1> QED BY <1>1, <1>2, <1>3, <1>4, <1>5 DEF Typed

LEMMA CloseOpenIs ==
    ASSUME Typed, CloseOpenRow
    PROVE  /\ Typed' /\ UNCHANGED <<unit, pass, status>>
           /\ Len(starts) \in Nat /\ Len(starts') = Len(starts)
           /\ \A i \in 1 .. Len(starts) :
                 IF i = Open /\ starts[i].outcome = "open"
                 THEN starts'[i].outcome = "failed" /\ starts'[i].code = "restarted"
                 ELSE starts'[i].outcome = starts[i].outcome /\ starts'[i].code = starts[i].code
<1>1. starts \in Seq(LedgerRows) /\ Len(starts) \in Nat /\ unit \in Units
  BY DEF Typed
<1>2. /\ starts' \in Seq(LedgerRows) /\ Len(starts') = Len(starts)
      /\ \A i \in 1 .. Len(starts) :
            IF i = Open /\ starts[i].outcome = "open"
            THEN starts'[i].outcome = "failed" /\ starts'[i].code = "restarted"
            ELSE starts'[i].outcome = starts[i].outcome /\ starts'[i].code = starts[i].code
  <2>1. Open \in Nat /\ "failed" \in {"stopped", "failed"} /\ "restarted" \in Codes
        /\ {} \in SUBSET (Ports \cup {0}) /\ unit.serial \in Int
    BY <1>1, OpenIs DEF Codes, Units
  <2>2. starts' = CloseStart(starts, Open, "failed", "restarted", unit.serial, {})
    BY DEF CloseOpenRow
  <2> QED BY <2>1, <2>2, <1>1, Closed
<1>3. UNCHANGED <<inst, status, unit, pass, setup>>
  BY DEF CloseOpenRow
<1>4. Typed'
  BY <1>2, <1>3, StillType DEF Typed
<1> QED BY <1>1, <1>2, <1>3, <1>4

\* Types hold in every reachable state, and a port is moved only to one found free.
THEOREM TypesHold == Spec => []Typed
<1>1. Init => Typed
  <2> SUFFICES ASSUME Init PROVE Typed
    OBVIOUS
  <2> DEFINE port == CHOOSE q \in Ports : \A r \in Ports : q <= r
  <2>1. port \in Ports
    <3>1. Ports \in SUBSET Nat /\ Ports # {}
      BY SupervisorAssumption
    <3>2. \E q \in Ports : \A r \in Ports : q <= r
      BY <3>1, Least
    <3> QED BY <3>2
  <2>2. inst = [desired |-> "running", deleted |-> FALSE, trigger |-> "user", override |-> FALSE,
                port |-> port]
    BY DEF Init
  <2> HIDE DEF port
  <2>3. inst \in Instances
    BY <2>1, <2>2 DEF Instances
  <2>4. status \in Statuses /\ pass \in [Passes -> PassRecords] /\ Movable
    BY NoPassType DEF Init, PassRecords, Movable
  <2>5. unit \in Units /\ starts \in Seq(LedgerRows)
    BY DEF Init, Units, Actives, Exits
  <2> QED BY <2>3, <2>4, <2>5 DEF Typed
<1>2. Typed /\ [Next]_vars => Typed'
  <2> SUFFICES ASSUME Typed, [Next]_vars PROVE Typed'
    OBVIOUS
  <2>1. ASSUME NEW p \in Passes, Subjects(p) \/ Pass(p) \/ Evaluate(p) \/ BackoffHolds(p)
                                 \/ RecordFails(p) \/ ActFails(p)
        PROVE  Typed'
    BY <2>1, SubjectsIs, ReadRowsIs, ObserveIs, RecordIs, EvaluateIs, EndIs, StampIs DEF Pass
  <2>2. CASE Unit \/ Hang \/ Die \/ Settle
    BY <2>2, LaunchTypes DEF Unit
  <2>3. CASE Requests
    BY <2>3, RequestIs
  <2>4. CASE Boot \/ DaemonDies \/ HostDies \/ TargetStarts
    BY <2>4, HostIs, CloseOpenIs DEF Boot, Hostly
  <2>5. CASE UNCHANGED vars
    BY <2>5 DEF vars, dbVars, Typed, Movable, Free
  <2> QED BY <2>1, <2>2, <2>3, <2>4, <2>5, Zenon DEF Next, Requests
<1> QED BY <1>1, <1>2, PTL DEF Spec

-----------------------------------------------------------------------------
(* The invariants of the ledger.                                            *)

OneOpen == \A j, k \in 1 .. Len(starts) :
              starts[j].outcome = "open" /\ starts[k].outcome = "open" => j = k

\* The row of the process, by its number.
RowIsItsOwn ==
    /\ Down(unit) => unit.row = 0
    /\ unit.row # 0 => /\ unit.row \in 1 .. Len(starts)
                       /\ \/ starts[unit.row].outcome = "open"
                          \/ starts[unit.row].outcome = "failed" /\ starts[unit.row].code = "restarted"

\* What a pass has read may be old, never wrong: the run it took for the last one is over,
\* the one it took for open was, its window began in the ledger, and once it saw the unit
\* down the run it took for open is not the unit's any more.
Sound(p) ==
    LET x == pass[p] IN
        /\ x.last.at # 0 => Finished(x.last.at)
        /\ x.open # 0 => /\ x.open \in 1 .. Len(starts)
                         /\ starts[x.open].outcome \in {"open", "stopped", "failed"}
        /\ x.pc # "record" => ~Down(x.obs)
        /\ Down(x.obs) /\ x.open # 0 => unit.row # x.open
        /\ x.st.reset <= Len(starts)

Ledgered ==
    /\ OneOpen
    /\ RowIsItsOwn
    /\ \A p \in Passes : Sound(p)
    /\ status.reset <= Len(starts)
    /\ OneRefusal

\* A ledger step: rows are closed or appended, never rewritten.
Keeps ==
    /\ Len(starts) \in Nat /\ Len(starts') \in Nat /\ Len(starts) <= Len(starts')
    /\ \A i \in 1 .. Len(starts) :
          \/ starts'[i].outcome = starts[i].outcome /\ starts'[i].code = starts[i].code
          \/ starts[i].outcome = "open" /\ starts'[i].outcome \in {"stopped", "failed"}

LEMMA StillKeeps ==
    ASSUME Typed, UNCHANGED starts
    PROVE  Keeps
BY DEF Keeps, Typed

LEMMA SoundStays ==
    ASSUME Typed, Keeps, NEW q \in Passes, Sound(q), pass'[q] = pass[q],
           unit'.row \in {unit.row, 0, Len(starts) + 1}
    PROVE  Sound(q)'
<1>1. pass[q] \in PassRecords
  BY DEF Typed
<1>2. pass[q].open \in Nat /\ pass[q].last.at \in Nat /\ pass[q].st.reset \in Nat
  BY <1>1 DEF PassRecords, Runs, Statuses
<1>3. pass[q].last.at # 0 => Finished(pass[q].last.at)'
  BY <1>2 DEF Sound, Keeps, Finished
<1>4. pass[q].open # 0 => /\ pass[q].open \in 1 .. Len(starts')
                          /\ starts'[pass[q].open].outcome \in {"open", "stopped", "failed"}
                          /\ (Down(pass[q].obs) => unit'.row # pass[q].open)
  BY <1>2 DEF Sound, Keeps
<1>5. pass[q].st.reset <= Len(starts')
  BY <1>2 DEF Sound, Keeps
<1>6. pass[q].pc # "record" => ~Down(pass[q].obs)
  BY DEF Sound
<1> QED BY <1>3, <1>4, <1>5, <1>6 DEF Sound, Down, Finished

LEMMA NoPassSound ==
    ASSUME Typed', NEW q \in Passes, pass'[q] = NoPass
    PROVE  Sound(q)'
<1>1. Len(starts') \in Nat
  BY DEF Typed
<1> QED BY <1>1, NoPassType DEF Sound, Down

LEMMA OneOpenStays ==
    ASSUME Keeps, OneOpen, \A i \in Len(starts) + 1 .. Len(starts') : starts'[i].outcome # "open"
    PROVE  OneOpen'
<1>1. ASSUME NEW i \in 1 .. Len(starts'), starts'[i].outcome = "open"
      PROVE  i \in 1 .. Len(starts) /\ starts[i].outcome = "open"
  BY <1>1 DEF Keeps
<1> QED BY <1>1 DEF OneOpen

\* A step that appends no refusal lets none stand without a run between.
LEMMA OneRefusalStays ==
    ASSUME Typed, Typed', Keeps, OneRefusal,
           \A i \in Len(starts) + 1 .. Len(starts') : starts'[i].outcome # "inhibited"
    PROVE  OneRefusal'
<1>1. DOMAIN starts = 1 .. Len(starts) /\ DOMAIN starts' = 1 .. Len(starts')
      /\ Len(starts) \in Nat /\ Len(starts') \in Nat
  BY DEF Typed
<1>2. ASSUME NEW i \in 1 .. Len(starts'), starts'[i].outcome = "inhibited"
      PROVE  i \in 1 .. Len(starts) /\ starts[i].outcome = "inhibited"
             /\ starts'[i].code = starts[i].code
  BY <1>2 DEF Keeps
<1>3. ASSUME NEW m \in 1 .. Len(starts), starts[m].outcome \in {"stopped", "failed"}
      PROVE  starts'[m].outcome \in {"stopped", "failed"}
  BY <1>3 DEF Keeps
<1> SUFFICES ASSUME NEW j \in 1 .. Len(starts'), NEW k \in 1 .. Len(starts'), j < k,
                    starts'[j].outcome = "inhibited", starts'[k].outcome = "inhibited",
                    starts'[j].code = starts'[k].code
             PROVE  \E m \in j + 1 .. k - 1 : starts'[m].outcome \in {"stopped", "failed"}
  BY <1>1, Zenon DEF OneRefusal
<1>4. \E m \in j + 1 .. k - 1 : starts[m].outcome \in {"stopped", "failed"}
  BY <1>1, <1>2 DEF OneRefusal
<1>5. k \in 1 .. Len(starts)
  BY <1>2
<1> QED BY <1>3, <1>4, <1>5

\* A step that appends nothing and lets go of its row, or keeps it with its row kept.
LEMMA ClosingStep ==
    ASSUME Typed, Typed', Ledgered, Keeps, UNCHANGED <<pass, status>>, Len(starts') = Len(starts),
           \/ unit'.row = 0
           \/ /\ UNCHANGED unit
              /\ unit.row # 0 =>
                    \/ /\ starts'[unit.row].outcome = starts[unit.row].outcome
                       /\ starts'[unit.row].code = starts[unit.row].code
                    \/ starts'[unit.row].outcome = "failed" /\ starts'[unit.row].code = "restarted"
    PROVE  Ledgered'
<1>1. Len(starts) \in Nat
  BY DEF Typed
<1>2. \A q \in Passes : Sound(q)'
  BY SoundStays DEF Ledgered
<1>3. Len(starts) + 1 .. Len(starts') = {}
  BY <1>1
<1>4. OneOpen' /\ OneRefusal'
  BY <1>3, OneOpenStays, OneRefusalStays DEF Ledgered
<1>5. RowIsItsOwn'
  BY <1>1 DEF Ledgered, RowIsItsOwn, Down
<1> QED BY <1>2, <1>4, <1>5 DEF Ledgered

\* A step that leaves the ledger alone.
LEMMA QuietStep ==
    ASSUME Typed, Typed', Ledgered, UNCHANGED starts, UnitKeeps, status'.reset <= Len(starts),
           \A q \in Passes : pass'[q] = pass[q] \/ Sound(q)'
    PROVE  Ledgered'
<1>1. Keeps
  BY StillKeeps
<1>2. \A q \in Passes : Sound(q)'
  BY <1>1, SoundStays DEF Ledgered, UnitKeeps
<1>3. RowIsItsOwn'
  BY DEF Ledgered, RowIsItsOwn, UnitKeeps
<1>4. OneOpen' /\ OneRefusal'
  BY DEF Ledgered, OneOpen, OneRefusal
<1> QED BY <1>2, <1>3, <1>4 DEF Ledgered

LEMMA LaunchStep ==
    ASSUME Typed, Typed', Ledgered,
           OpenStart \/ AbortStart \/ Exec \/ FailStart \/ Serve \/ Hang \/ Die \/ Settle
           \/ StopDone \/ RestartGoes
    PROVE  Ledgered'
<1>1. unit \in Units /\ starts \in Seq(LedgerRows) /\ status \in Statuses /\ inst \in Instances
      /\ Len(starts) \in Nat
  BY DEF Typed
<1>2. UNCHANGED <<pass, status>>
  BY DEF OpenStart, AbortStart, Exec, FailStart, Serve, Hang, Die, Settle, StopDone, RestartGoes,
         UnitOnly, dbVars
<1>3. CASE OpenStart
  <2>1. inst.override \in BOOLEAN
    BY <1>1 DEF Instances
  <2>2. /\ Len(starts') = Len(starts) + 1
        /\ \A i \in 1 .. Len(starts) :
              IF starts[i].outcome = "open" /\ i = Open
              THEN starts'[i].outcome = "failed"
              ELSE starts'[i].outcome = starts[i].outcome /\ starts'[i].code = starts[i].code
        /\ starts'[Len(starts) + 1].outcome = "open"
    BY <1>1, <1>3, <2>1, OpenStartRows
  <2>3. Keeps
    BY <2>2, <1>1 DEF Keeps
  <2>4. unit'.row = Len(starts) + 1 /\ ~Down(unit')
    <3> DEFINE n == Len(starts) + 1
    <3>1. unit' = [unit EXCEPT !.proc = "preflight", !.row = n, !.port = inst.port]
          /\ unit.active = "active"
      BY <1>3 DEF OpenStart, Alive
    <3> HIDE DEF n
    <3>2. unit'.row = n /\ unit'.active = "active"
      BY <3>1, <1>1 DEF Units
    <3> QED BY <3>2 DEF Down, n
  <2>5. \A q \in Passes : Sound(q)'
    BY <1>2, <2>3, <2>4, SoundStays DEF Ledgered
  <2>6. \A i \in 1 .. Len(starts) : starts'[i].outcome # "open"
    <3>1. \A i \in 1 .. Len(starts) : starts[i].outcome = "open" => i = Open
      BY <1>1, OpenIs DEF Ledgered, OneOpen
    <3> QED BY <3>1, <2>2
  <2>7. OneOpen'
    BY <2>2, <2>6, <1>1 DEF OneOpen
  <2>8. RowIsItsOwn'
    BY <2>2, <2>4, <1>1 DEF RowIsItsOwn, Down
  <2>9. OneRefusal'
    <3>1. \A i \in Len(starts) + 1 .. Len(starts') : starts'[i].outcome # "inhibited"
      BY <2>2, <1>1
    <3> QED BY <3>1, <2>3, OneRefusalStays DEF Ledgered
  <2>10. status'.reset <= Len(starts')
    BY <1>1, <1>2, <2>2 DEF Ledgered, Statuses
  <2> QED BY <2>5, <2>7, <2>8, <2>9, <2>10 DEF Ledgered
<1>4. CASE FailStart
  <2>1. /\ Len(starts') = Len(starts)
        /\ \A i \in 1 .. Len(starts) :
              \/ starts[i].outcome = "open" /\ i = unit.row /\ starts'[i].outcome = "failed"
              \/ starts'[i].outcome = starts[i].outcome /\ starts'[i].code = starts[i].code
    BY <1>1, <1>4, FailStartRows
  <2>2. Keeps
    BY <2>1, <1>1 DEF Keeps
  <2>3. unit'.row = 0
    <3>1. PICK code \in {"model", "port"} : Ended(code)
      BY <1>4, Zenon DEF FailStart
    <3> QED BY <3>1, <1>1, EndedType DEF Exits
  <2> QED BY <1>1, <1>2, <2>1, <2>2, <2>3, ClosingStep
<1>5. CASE Settle
  <2>1. Len(starts') = Len(starts) /\ \A i \in 1 .. Len(starts) :
           starts'[i].outcome = starts[i].outcome /\ starts'[i].code = starts[i].code
    <3>1. "settled" \in Readies /\ unit.row \in Nat
      BY <1>1 DEF Readies, Units
    <3> QED BY <1>1, <1>5, <3>1, Marked DEF Settle
  <2>2. Keeps
    BY <2>1, <1>1 DEF Keeps
  <2>3. UNCHANGED unit
    BY <1>5 DEF Settle
  <2>4. unit.row # 0 => unit.row \in 1 .. Len(starts)
    BY DEF Ledgered, RowIsItsOwn
  <2> QED BY <1>2, <2>1, <2>2, <2>3, <2>4, ClosingStep
<1>6. CASE AbortStart \/ Die \/ StopDone
  <2>1. PICK exit \in Exits : Ended(exit)
    BY <1>6 DEF AbortStart, Die, StopDone, Exits
  <2>2. unit'.row = 0 /\ UNCHANGED starts
    BY <1>1, <1>6, <2>1, EndedType DEF AbortStart, Die, StopDone, dbVars
  <2> QED BY <1>2, <2>2, QuietStep DEF UnitKeeps, Ledgered
<1>7. CASE Exec \/ Serve \/ Hang \/ RestartGoes
  <2>1. UNCHANGED starts
    BY <1>7 DEF Exec, Serve, Hang, RestartGoes, dbVars
  <2>2. UnitKeeps
    <3>1. CASE RestartGoes
      BY <3>1, <1>1, UnitTypes DEF RestartGoes, UnitKeeps
    <3>2. CASE Exec \/ Serve \/ Hang
      <4>1. unit'.row = unit.row /\ unit'.active = unit.active
        BY <3>2, <1>1 DEF Exec, Serve, Hang, Units
      <4> QED BY <4>1 DEF UnitKeeps, Down
    <3> QED BY <1>7, <3>1, <3>2
  <2> QED BY <1>2, <2>1, <2>2, QuietStep DEF Ledgered
<1> QED BY <1>3, <1>4, <1>5, <1>6, <1>7

\* A step of one pass that leaves the ledger and the unit alone.
LEMMA ReadStep ==
    ASSUME Typed, Typed', Ledgered, UNCHANGED <<starts, unit>>, status'.reset <= Len(starts),
           NEW p \in Passes, \A q \in Passes \ {p} : pass'[q] = pass[q], Sound(p)'
    PROVE  Ledgered'
BY QuietStep DEF UnitKeeps, Down

LEMMA SubjectsStep ==
    ASSUME Typed, Ledgered, NEW p \in Passes, Subjects(p)
    PROVE  Ledgered'
<1>1. Typed' /\ UNCHANGED <<starts, unit, status>>
  BY SubjectsIs DEF Subjects, dbVars
<1>2. pass[p].pc # "record"
  BY DEF Subjects
<1>3. Sound(p)'
  BY <1>1, <1>2, SubjectsIs DEF Ledgered, Sound, Finished, Down
<1> QED BY <1>1, <1>3, SubjectsIs, ReadStep DEF Ledgered

LEMMA ReadRowsStep ==
    ASSUME Typed, Ledgered, NEW p \in Passes, ReadRows(p)
    PROVE  Ledgered'
<1>1. Typed' /\ UNCHANGED <<starts, unit, status>>
  BY ReadRowsIs DEF ReadRows, dbVars
<1>2. starts \in Seq(LedgerRows)
  BY DEF Typed
<1>3. pass[p].pc = "read" /\ ~Down(pass[p].obs)
  BY DEF ReadRows, Ledgered, Sound
<1>4. /\ Open # 0 => Open \in 1 .. Len(starts) /\ starts[Open].outcome = "open"
      /\ LastClosed.at # 0 => Finished(LastClosed.at)
      /\ status.reset <= Len(starts)
  BY <1>2, OpenIs, LastClosedIs DEF Ledgered
<1>5. /\ pass'[p].last = LastClosed /\ pass'[p].open = Open /\ pass'[p].obs = pass[p].obs
      /\ pass'[p].st = status
  BY ReadRowsIs
<1>6. Sound(p)'
  BY <1>1, <1>3, <1>4, <1>5 DEF Sound, Finished, Down
<1> QED BY <1>1, <1>6, ReadRowsIs, ReadStep DEF Ledgered

\* A unit seen down runs no row.
LEMMA ObserveStep ==
    ASSUME Typed, Ledgered, NEW p \in Passes, Observe(p)
    PROVE  Ledgered'
<1>1. Typed' /\ UNCHANGED <<starts, unit, status>>
  BY ObserveIs DEF Observe, dbVars
<1>2. pass[p].pc = "observe" /\ ~Down(pass[p].obs)
  BY DEF Observe, Ledgered, Sound
<1>3. Down(unit) => unit.row = 0
  BY DEF Ledgered, RowIsItsOwn
<1>4. Sound(p)'
  BY <1>1, <1>2, <1>3, ObserveIs DEF Ledgered, Sound, Finished, Down
<1> QED BY <1>1, <1>4, ObserveIs, ReadStep DEF Ledgered

LEMMA DecideStep ==
    ASSUME Typed, Ledgered, NEW p \in Passes, Evaluate(p) \/ StampStart(p)
    PROVE  Ledgered'
<1>1. pass[p] \in PassRecords
  BY DEF Typed
<1>2. /\ Typed' /\ UNCHANGED <<starts, unit>>
      /\ status'.reset \in {status.reset, pass[p].st.reset}
      /\ \A q \in Passes \ {p} : pass'[q] = pass[q]
      /\ pass[p].pc # "record"
      /\ pass'[p].open = pass[p].open /\ pass'[p].last = pass[p].last
      /\ pass'[p].st = pass[p].st /\ pass'[p].obs = pass[p].obs
  <2>1. CASE Evaluate(p)
    BY <2>1, EvaluateIs DEF Evaluate, dbVars
  <2>2. CASE StampStart(p)
    <3>1. pass'[p] = [pass[p] EXCEPT !.pc = "call"]
      BY <2>2, StampIs
    <3>2. /\ pass'[p].open = pass[p].open /\ pass'[p].last = pass[p].last
          /\ pass'[p].st = pass[p].st /\ pass'[p].obs = pass[p].obs
      BY <3>1, <1>1 DEF PassRecords
    <3> QED BY <2>2, <3>2, StampIs
  <2> QED BY <2>1, <2>2
<1>3. Sound(p)'
  BY <1>2 DEF Ledgered, Sound, Finished, Down
<1>4. status'.reset <= Len(starts)
  BY <1>2 DEF Ledgered, Sound
<1> QED BY <1>2, <1>3, <1>4, ReadStep

\* The pass closes the row it took for open only after it saw the unit down, so never
\* the row of a process that has been started since.
LEMMA RecordStep ==
    ASSUME Typed, Ledgered, NEW p \in Passes, Record(p)
    PROVE  Ledgered'
<1> DEFINE x == pass[p]
<1>1. Typed' /\ UNCHANGED unit /\ \A q \in Passes \ {p} : pass'[q] = pass[q]
  BY RecordIs DEF Record
<1>2. x \in PassRecords /\ starts \in Seq(LedgerRows) /\ x.open \in Nat /\ x.last.at \in Nat
      /\ x.st.reset \in Nat
  BY DEF Typed, PassRecords, Runs, Statuses
<1>3. PICK s : starts' = Recorded(x, s, starts)
  BY RecordIs
<1>4. /\ Len(starts) \in Nat /\ Len(starts') \in Nat /\ Len(starts') >= Len(starts)
      /\ \A i \in 1 .. Len(starts) :
            IF i = x.open /\ Closes(x) /\ starts[i].outcome = "open"
            THEN starts'[i].outcome \in {"stopped", "failed"}
            ELSE starts'[i].outcome = starts[i].outcome /\ starts'[i].code = starts[i].code
      /\ \A i \in Len(starts) + 1 .. Len(starts') : starts'[i].outcome = "failed"
  BY <1>2, <1>3, RecordedIs
<1>5. Keeps
  BY <1>4 DEF Keeps
<1>6. Sound(p)
  BY DEF Ledgered
<1>7. Closes(x) => /\ x.open \in 1 .. Len(starts) /\ unit.row # x.open
                   /\ starts'[x.open].outcome \in {"stopped", "failed"}
  BY <1>4, <1>6 DEF Closes, Sound
<1>8. Sound(p)'
  <2>1. /\ pass'[p].open = 0 /\ pass'[p].obs.active = "unknown"
        /\ \/ pass'[p].last.at \in {0, x.last.at}
           \/ Closes(x) /\ pass'[p].last.at = x.open
        /\ pass'[p].st.reset \in {0, x.st.reset, x.open}
    BY RecordIs
  <2> DEFINE OverNow(k) == k \in 1 .. Len(starts') /\ starts'[k].outcome \in {"stopped", "failed"}
  <2>2. x.last.at # 0 => OverNow(x.last.at)
    BY <1>2, <1>5, <1>6 DEF Sound, Keeps, Finished
  <2>3. Closes(x) => OverNow(x.open)
    BY <1>2, <1>4, <1>7
  <2>4. pass'[p].last.at # 0 => OverNow(pass'[p].last.at)
    <3> HIDE DEF OverNow, x
    <3> QED BY <2>1, <2>2, <2>3
  <2>5. pass'[p].st.reset <= Len(starts')
    BY <1>2, <1>4, <1>6, <2>1 DEF Sound
  <2> QED BY <2>1, <2>4, <2>5 DEF Sound, Finished, Down
<1>9. \A q \in Passes : Sound(q)'
  BY <1>1, <1>5, <1>8, SoundStays DEF Ledgered
<1>10. OneOpen' /\ OneRefusal'
  BY <1>1, <1>4, <1>5, OneOpenStays, OneRefusalStays DEF Ledgered
<1>11. RowIsItsOwn'
  <2>1. unit.row # 0 => /\ starts'[unit.row].outcome = starts[unit.row].outcome
                        /\ starts'[unit.row].code = starts[unit.row].code
    BY <1>4, <1>7 DEF Ledgered, RowIsItsOwn
  <2> QED BY <1>1, <1>4, <2>1 DEF Ledgered, RowIsItsOwn, Down
<1>12. status'.reset <= Len(starts')
  <2>1. status'.reset \in {x.st.reset, x.open}
    BY RecordIs
  <2> QED BY <2>1, <1>2, <1>4, <1>6 DEF Sound
<1> QED BY <1>9, <1>10, <1>11, <1>12 DEF Ledgered

\* Every earlier refusal for the same reason is at or before the run the pass read as the
\* last, which is over: that run is between the two.
LEMMA InhibitStep ==
    ASSUME Typed, Typed', Ledgered, NEW p \in Passes, Inhibit(p)
    PROVE  Keeps /\ OneOpen' /\ OneRefusal'
<1> DEFINE x == pass[p]
<1>1. starts \in Seq(LedgerRows) /\ starts' \in Seq(LedgerRows) /\ x \in PassRecords
  BY DEF Typed
<1>2. x.last.at \in Nat /\ DOMAIN starts = 1 .. Len(starts) /\ DOMAIN starts' = 1 .. Len(starts')
      /\ Len(starts) \in Nat
  BY <1>1 DEF PassRecords, Runs
<1>3. CASE starts' = starts
  BY <1>2, <1>3, OneOpenStays, OneRefusalStays DEF Ledgered, Keeps
<1>4. CASE /\ Refusals(x.say, x.last.at) = {}
           /\ Len(starts') = Len(starts) + 1
           /\ \A i \in 1 .. Len(starts) : starts'[i] = starts[i]
           /\ starts'[Len(starts) + 1].outcome = "inhibited"
           /\ starts'[Len(starts) + 1].code = x.say
  <2>1. Keeps
    BY <1>2, <1>4 DEF Keeps
  <2>2. OneOpen'
    <3>1. \A i \in Len(starts) + 1 .. Len(starts') : starts'[i].outcome # "open"
      BY <1>2, <1>4
    <3> QED BY <2>1, <3>1, OneOpenStays DEF Ledgered
  <2>3. ASSUME NEW j \in 1 .. Len(starts), starts[j].outcome = "inhibited", starts[j].code = x.say
        PROVE  \E m \in j + 1 .. Len(starts) : starts'[m].outcome \in {"stopped", "failed"}
    <3>1. ~(j > x.last.at)
      BY <1>2, <1>4, <2>3 DEF Refusals
    <3>2. x.last.at \in 1 .. Len(starts) /\ starts[x.last.at].outcome \in {"stopped", "failed"}
      BY <1>2, <3>1 DEF Ledgered, Sound, Finished
    <3>3. j # x.last.at
      BY <2>3, <3>2
    <3>4. x.last.at \in j + 1 .. Len(starts)
      BY <1>2, <3>1, <3>2, <3>3
    <3>5. starts'[x.last.at].outcome \in {"stopped", "failed"}
      BY <1>4, <3>2
    <3> QED BY <3>4, <3>5
  <2>4. OneRefusal'
    <3> SUFFICES ASSUME NEW j \in 1 .. Len(starts'), NEW k \in 1 .. Len(starts'), j < k,
                        starts'[j].outcome = "inhibited", starts'[k].outcome = "inhibited",
                        starts'[j].code = starts'[k].code
                 PROVE  \E m \in j + 1 .. k - 1 : starts'[m].outcome \in {"stopped", "failed"}
      BY <1>2, Zenon DEF OneRefusal
    <3>1. CASE k = Len(starts) + 1
      <4>1. j \in 1 .. Len(starts) /\ starts[j].outcome = "inhibited" /\ starts[j].code = x.say
        BY <1>2, <1>4, <3>1
      <4>2. k - 1 = Len(starts)
        BY <1>2, <3>1
      <4> QED BY <2>3, <4>1, <4>2
    <3>2. CASE k # Len(starts) + 1
      <4>1. k \in 1 .. Len(starts) /\ j \in 1 .. Len(starts)
        BY <1>2, <1>4, <3>2
      <4>2. \E m \in j + 1 .. k - 1 : starts[m].outcome \in {"stopped", "failed"}
        <5>1. starts[j] = starts'[j] /\ starts[k] = starts'[k]
          BY <1>4, <4>1
        <5> QED BY <4>1, <5>1, <1>2 DEF Ledgered, OneRefusal
      <4> QED BY <1>4, <4>1, <4>2
    <3> QED BY <3>1, <3>2
  <2> QED BY <2>1, <2>2, <2>4
<1> QED BY <1>3, <1>4, InhibitRows

LEMMA EndStep ==
    ASSUME Typed, Ledgered, NEW p \in Passes,
           RecordFails(p) \/ CallStop(p) \/ Inhibit(p) \/ ReassignInternalPort(p)
           \/ MarkPortPoolExhausted(p) \/ CallStart(p) \/ ActFails(p) \/ BackoffHolds(p)
    PROVE  Ledgered'
<1>1. /\ Typed' /\ UnitKeeps /\ pass'[p] = NoPass /\ \A q \in Passes \ {p} : pass'[q] = pass[q]
      /\ status'.reset \in {status.reset, pass[p].st.reset}
      /\ Inhibit(p) \/ UNCHANGED starts
  BY EndIs
<1>2. Sound(p)'
  BY <1>1, NoPassSound
<1>3. status'.reset \in Nat /\ status'.reset <= Len(starts) /\ Len(starts) \in Nat
  BY <1>1 DEF Ledgered, Sound, Typed, Statuses
<1>4. CASE UNCHANGED starts
  BY <1>1, <1>2, <1>3, <1>4, QuietStep
<1>5. CASE Inhibit(p)
  <2>1. Keeps /\ OneOpen' /\ OneRefusal'
    BY <1>1, <1>5, InhibitStep
  <2>2. UNCHANGED unit
    BY <1>5 DEF Inhibit
  <2>3. \A q \in Passes : Sound(q)'
    BY <1>1, <1>2, <2>1, <2>2, SoundStays DEF Ledgered
  <2>4. unit.row # 0 => starts'[unit.row] = starts[unit.row]
    <3>1. \A i \in 1 .. Len(starts) : starts'[i] = starts[i]
      BY <1>5, InhibitRows
    <3> QED BY <3>1 DEF Ledgered, RowIsItsOwn
  <2>5. RowIsItsOwn'
    BY <2>1, <2>2, <2>4 DEF Ledgered, RowIsItsOwn, Down, Keeps
  <2>6. status'.reset <= Len(starts')
    BY <1>3, <2>1 DEF Keeps
  <2> QED BY <2>1, <2>3, <2>5, <2>6 DEF Ledgered
<1> QED BY <1>1, <1>4, <1>5

LEMMA OutsideStep ==
    ASSUME Typed, Ledgered, Requests \/ Hostly
    PROVE  Ledgered'
<1>1. /\ Typed' /\ PassesKeep /\ UnitKeeps /\ UNCHANGED starts
      /\ status'.reset \in {status.reset, Len(starts)}
  BY RequestIs, HostIs
<1>2. ASSUME NEW q \in Passes PROVE Sound(q)'
  <2>1. pass[q] \in PassRecords
    BY DEF Typed
  <2>2. CASE pass'[q] = pass[q]
    BY <1>1, <2>2, StillKeeps, SoundStays DEF Ledgered, UnitKeeps
  <2>3. CASE pass'[q] = NoPass
    BY <1>1, <2>3, NoPassSound
  <2>4. CASE pass[q].pc = "idle" /\ pass'[q] = [pass[q] EXCEPT !.pc = "kicked"]
    <3>1. /\ pass'[q].open = pass[q].open /\ pass'[q].last = pass[q].last
          /\ pass'[q].st = pass[q].st /\ pass'[q].obs = pass[q].obs
      BY <2>1, <2>4 DEF PassRecords
    <3> QED BY <1>1, <2>4, <3>1 DEF Ledgered, Sound, Finished, Down, UnitKeeps
  <2> QED BY <1>1, <2>2, <2>3, <2>4 DEF PassesKeep
<1>3. status'.reset <= Len(starts)
  BY <1>1 DEF Ledgered, Typed
<1> QED BY <1>1, <1>2, <1>3, QuietStep

LEMMA CloseOpenStep ==
    ASSUME Typed, Ledgered, CloseOpenRow
    PROVE  Ledgered'
<1>1. /\ Typed' /\ UNCHANGED <<unit, pass, status>>
      /\ Len(starts) \in Nat /\ Len(starts') = Len(starts)
      /\ \A i \in 1 .. Len(starts) :
            IF i = Open /\ starts[i].outcome = "open"
            THEN starts'[i].outcome = "failed" /\ starts'[i].code = "restarted"
            ELSE starts'[i].outcome = starts[i].outcome /\ starts'[i].code = starts[i].code
  BY CloseOpenIs
<1>2. Keeps
  BY <1>1 DEF Keeps
<1>3. unit.row # 0 =>
         \/ /\ starts'[unit.row].outcome = starts[unit.row].outcome
            /\ starts'[unit.row].code = starts[unit.row].code
         \/ starts'[unit.row].outcome = "failed" /\ starts'[unit.row].code = "restarted"
  BY <1>1 DEF Ledgered, RowIsItsOwn
<1> QED BY <1>1, <1>2, <1>3, ClosingStep

\* The ledger's invariants hold in every reachable state: one row is open at most, the unit's
\* process has its own, passes hold old truths, refusals are apart.
THEOREM LedgerHolds == Spec => []Ledgered
<1>1. Init => Ledgered
  <2> SUFFICES ASSUME Init PROVE Ledgered
    OBVIOUS
  <2>1. Len(starts) = 0 /\ DOMAIN starts = 1 .. 0 /\ unit.row = 0
    BY DEF Init
  <2>2. \A q \in Passes : pass[q] = NoPass
    BY DEF Init
  <2>3. \A q \in Passes : Sound(q)
    BY <2>1, <2>2, NoPassType DEF Sound, Down
  <2>4. status.reset = 0
    BY NoPassType DEF Init
  <2> QED BY <2>1, <2>3, <2>4 DEF Ledgered, OneOpen, RowIsItsOwn, OneRefusal
<1>2. Typed /\ Typed' /\ Ledgered /\ [Next]_vars => Ledgered'
  <2> SUFFICES ASSUME Typed, Typed', Ledgered, [Next]_vars PROVE Ledgered'
    OBVIOUS
  <2>1. ASSUME NEW p \in Passes, Subjects(p) \/ Pass(p) \/ Evaluate(p) \/ BackoffHolds(p)
                                 \/ RecordFails(p) \/ ActFails(p)
        PROVE  Ledgered'
    BY <2>1, SubjectsStep, ReadRowsStep, ObserveStep, RecordStep, DecideStep, EndStep DEF Pass
  <2>2. CASE Unit \/ Hang \/ Die \/ Settle
    BY <2>2, LaunchStep DEF Unit
  <2>3. CASE Requests
    BY <2>3, OutsideStep
  <2>4. CASE Boot \/ DaemonDies \/ HostDies \/ TargetStarts
    BY <2>4, OutsideStep, CloseOpenStep DEF Boot, Hostly
  <2>5. CASE UNCHANGED vars
    <3>1. UnitKeeps /\ UNCHANGED <<starts, status, pass>> /\ status.reset <= Len(starts)
      BY <2>5 DEF vars, dbVars, UnitKeeps, Down, Ledgered
    <3> QED BY <3>1, QuietStep
  <2> QED BY <2>1, <2>2, <2>3, <2>4, <2>5, Zenon DEF Next, Requests
<1> QED BY <1>1, <1>2, TypesHold, PTL DEF Spec

-----------------------------------------------------------------------------
(* The properties.                                                          *)

\* Every reachable state is well typed, and at most one row of instance_starts is open: what
\* the launcher's "close the row left open, then insert" (step 3) is for.
THEOREM TypeCorrect == Spec => []TypeOK
<1>1. Typed /\ Ledgered => TypeOK
  <2> SUFFICES ASSUME Typed, Ledgered PROVE TypeOK
    OBVIOUS
  <2>1. inst \in Instances /\ status \in Statuses /\ starts \in Seq(LedgerRows) /\ unit \in Units
        /\ pass \in [Passes -> PassRecords] /\ DOMAIN starts = 1 .. Len(starts)
    BY DEF Typed
  <2>2. ASSUME NEW k \in DOMAIN starts
        PROVE  starts[k].outcome \in {"open", "stopped", "failed", "inhibited"}
               /\ starts[k].code \in Codes
    <3>1. starts[k] \in LedgerRows
      BY <2>1
    <3> QED BY <3>1 DEF LedgerRows
  <2>3. Cardinality({k \in DOMAIN starts : starts[k].outcome = "open"}) <= 1
    <3> DEFINE S == {k \in DOMAIN starts : starts[k].outcome = "open"}
    <3>1. \A j, k \in S : j = k
      BY <2>1 DEF Ledgered, OneOpen
    <3>2. S = {} \/ \E k \in S : S = {k}
      BY <3>1
    <3> HIDE DEF S
    <3>3. Cardinality(S) = 0 \/ Cardinality(S) = 1
      BY <3>2, FS_EmptySet, FS_Singleton
    <3> QED BY <3>3 DEF S
  <2>4. \A p \in Passes : pass[p].st.state \in States
    BY <2>1 DEF PassRecords, Statuses
  <2> QED BY <2>1, <2>2, <2>3, <2>4 DEF TypeOK, Instances, Statuses, Units, Actives, Ledgered
<1> QED BY <1>1, TypesHold, LedgerHolds, PTL

\* D54, no run without its row: a process past its gate is the one the open row is about,
\* however many passes of Reconcile read the ledger before it and record after it.  Only the
\* boot reconciliation may have closed the row of a live run.
THEOREM ProcessHasRow == Spec => []RunIsLedgered
<1>1. Typed /\ Ledgered => RunIsLedgered
  <2> SUFFICES ASSUME Typed, Ledgered, unit.row # 0
               PROVE  \/ Open = unit.row
                      \/ starts[unit.row].outcome = "failed" /\ starts[unit.row].code = "restarted"
    BY DEF RunIsLedgered
  <2>1. starts \in Seq(LedgerRows)
    BY DEF Typed
  <2>2. CASE starts[unit.row].outcome = "open"
    <3>1. unit.row \in 1 .. Len(starts)
      BY DEF Ledgered, RowIsItsOwn
    <3> QED BY <2>1, <2>2, <3>1, OpenIs DEF Ledgered, OneOpen
  <2> QED BY <2>2 DEF Ledgered, RowIsItsOwn
<1> QED BY <1>1, TypesHold, LedgerHolds, PTL

\* However many passes refuse at once, two refusals for one reason have a finished run
\* between them: the insert's own guard (recordInhibited) looks at the ledger it inserts into.
THEOREM OneRefusalEach == Spec => []OneRefusal
<1>1. Ledgered => OneRefusal
  BY DEF Ledgered
<1> QED BY <1>1, LedgerHolds, PTL

\* What one step may do to the ledger.
LEMMA LedgerStep ==
    ASSUME Typed, Ledgered, [Next]_vars
    PROVE  Keeps
<1>1. starts \in Seq(LedgerRows) /\ Len(starts) \in Nat /\ unit \in Units /\ inst \in Instances
  BY DEF Typed
<1>2. ASSUME NEW p \in Passes, Subjects(p) \/ Pass(p) \/ Evaluate(p) \/ BackoffHolds(p)
                               \/ RecordFails(p) \/ ActFails(p)
      PROVE  Keeps
  <2>1. CASE Record(p)
    <3>1. pass[p] \in PassRecords
      BY DEF Typed
    <3>2. PICK s : starts' = Recorded(pass[p], s, starts)
      BY <2>1, RecordIs
    <3> QED BY <1>1, <3>1, <3>2, RecordedIs DEF Keeps
  <2>2. CASE Inhibit(p)
    <3>1. Typed'
      BY <2>2, EndIs
    <3> QED BY <2>2, <3>1, InhibitStep
  <2>3. CASE ~Record(p) /\ ~Inhibit(p)
    <3>1. UNCHANGED starts
      BY <1>2, <2>3, EndIs, StampIs
         DEF Pass, Subjects, ReadRows, Observe, Evaluate, BackoffHolds, dbVars
    <3> QED BY <3>1, StillKeeps
  <2> QED BY <2>1, <2>2, <2>3
<1>3. CASE Unit \/ Hang \/ Die \/ Settle
  <2>1. CASE OpenStart
    <3>1. inst.override \in BOOLEAN
      BY <1>1 DEF Instances
    <3>2. \A i \in 1 .. Len(starts) : starts[i].outcome = "open" => i = Open
      BY <1>1, OpenIs DEF Ledgered, OneOpen
    <3> QED BY <1>1, <2>1, <3>1, <3>2, OpenStartRows DEF Keeps
  <2>2. CASE FailStart
    BY <1>1, <2>2, FailStartRows DEF Keeps
  <2>3. CASE Settle
    <3>1. "settled" \in Readies /\ unit.row \in Nat
      BY <1>1 DEF Readies, Units
    <3>2. Len(starts') = Len(starts) /\ \A i \in 1 .. Len(starts) :
             starts'[i].outcome = starts[i].outcome /\ starts'[i].code = starts[i].code
      BY <1>1, <2>3, <3>1, Marked DEF Settle
    <3> QED BY <1>1, <3>2 DEF Keeps
  <2>4. CASE UNCHANGED starts
    BY <2>4, StillKeeps
  <2> QED BY <1>3, <2>1, <2>2, <2>3, <2>4
          DEF Unit, AbortStart, Exec, Serve, StopDone, RestartGoes, Hang, Die, dbVars
<1>4. CASE Requests \/ Hostly
  BY <1>4, RequestIs, HostIs, StillKeeps
<1>5. CASE CloseOpenRow
  BY <1>5, CloseOpenIs DEF Keeps
<1>6. CASE UNCHANGED vars
  BY <1>6, StillKeeps DEF vars, dbVars
<1> QED BY <1>2, <1>3, <1>4, <1>5, <1>6, Zenon DEF Next, Requests, Hostly, Boot

OutcomesKept ==
    \A i \in 1 .. Len(starts) :
        starts[i].outcome # "open"
            => /\ i \in 1 .. Len(starts')
               /\ starts'[i].outcome = starts[i].outcome /\ starts'[i].code = starts[i].code

\* What a run ended with is written once: the closing statements are guarded on an
\* unwritten outcome, so a pass that read the row open, the launcher and the boot
\* reconciliation never rewrite one another's verdict.
THEOREM OutcomesAreFinal == Spec => [][OutcomesKept]_vars
<1>1. Typed /\ Ledgered /\ [Next]_vars => [OutcomesKept]_vars
  BY LedgerStep DEF Keeps, OutcomesKept
<1> QED BY <1>1, TypesHold, LedgerHolds, PTL DEF Spec

=============================================================================
