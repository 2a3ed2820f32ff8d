-------------------------------- MODULE Gateway --------------------------------
(***************************************************************************)
(* The inference gateway, internal/gateway, with the API tokens it asks,   *)
(* internal/tokens: the public listeners, the requests they take, the      *)
(* verification cache, the counters kept in memory between flushes, and    *)
(* the ordered stop that hands the sockets to systemd's descriptor store.  *)
(*                                                                         *)
(* The goroutines are Run's loop, which reconciles and flushes one at a    *)
(* time, a handler per request, the denials endpoint, which flushes too,   *)
(* and the stop.  One action is one transaction or one section under a     *)
(* lock.  There is one token, and every instance asks for it.              *)
(*                                                                         *)
(* Left out: expiry, scope and the rate limit of a token, the address of   *)
(* the caller and the denial watch, the body and its usage tap.            *)
(***************************************************************************)
EXTENDS Naturals

CONSTANTS
    Instances,   \* the ids of instances, used or not yet
    Ports,       \* the public ports
    Requests,    \* the requests there may be at once
    FirstPort,   \* the public_port each row begins with, 0 if the row is yet to come
    MaxServed,   \* bound: requests accepted
    MaxClicks,   \* bound: edits of instances and of the token, stops
    MaxFaults    \* bound: failed transactions, binds and stores, crashes

ASSUME GatewayAssumption ==
    /\ Ports \subseteq Nat \ {0} /\ Ports # {}
    /\ FirstPort \in [Instances -> Ports \cup {0}]
    /\ \A i, j \in Instances : FirstPort[i] = FirstPort[j] => i = j \/ FirstPort[i] = 0
    /\ MaxServed \in Nat /\ MaxClicks \in Nat /\ MaxFaults \in Nat

VARIABLES
    row,      \* public_port of each instances row, 0 if none; the ids deleted, and purged
    token,    \* the api_tokens row, the epoch, and whether an edit was answered
    cache,    \* the cached entry of the token, and the epoch it carries
    door,     \* the listener of each instance: its port and whether it accepts
    adopted,  \* sockets of LISTEN_FDS nobody claimed yet, by instance
    fdstore,  \* systemd's descriptor store
    request,  \* the requests
    counted,  \* the accountant and the tokens' uses, in memory
    flush,    \* the two flushers, and what each has taken
    stored,   \* the usage tables
    loop,     \* Run: the rows it read and those it has not come to
    daemon,   \* the process: its phase, how it stops, whether Run's context is done;
              \* history: a request the drain did not see off, faults at its boot
    booked, lost,   \* history: what was ever counted, and what died in memory
    served, clicks, faults

tokenVars == <<token, cache>>
socketVars == <<row, door, adopted, fdstore, loop>>
requestVars == <<request, served>>
countVars == <<counted, flush, stored, booked, lost>>
vars == <<row, token, cache, door, adopted, fdstore, request, counted, flush, stored, loop,
          daemon, booked, lost, served, clicks, faults>>

-----------------------------------------------------------------------------
Zero == [usage |-> [i \in Instances |-> 0], use |-> 0]
Plus(a, b) == [usage |-> [i \in Instances |-> a.usage[i] + b.usage[i]], use |-> a.use + b.use]
Usage(a) == [a EXCEPT !.use = 0]
Uses(a) == [Zero EXCEPT !.use = a.use]
OneOf(i) == [Zero EXCEPT !.usage[i] = 1]

Flushers == {"run", "denials"}
NoFlush == [pc |-> "idle", took |-> Zero, final |-> FALSE]
NoRequest == [pc |-> "idle", inst |-> "none", epoch |-> 0, state |-> "none", sure |-> FALSE]
Shut == [port |-> 0, mode |-> "none"]
Open(i) == door[i].mode # "none"

Live == {i \in Instances : row.port[i] # 0}
Up == daemon.phase \in {"up", "draining", "drained"}

Fault == faults < MaxFaults /\ faults' = faults + 1 /\ UNCHANGED clicks
Click == clicks < MaxClicks /\ clicks' = clicks + 1 /\ UNCHANGED faults
Calm == UNCHANGED <<clicks, faults>>

\* Of a process that has just begun; its first boot finds no descriptors.
Began == [phase |-> "boot", path |-> "none", done |-> FALSE, late |-> FALSE, since |-> 0]
NoLoop == [pc |-> "idle", rows |-> [i \in Instances |-> 0], todo |-> {}]

Init ==
    /\ row = [port |-> FirstPort, gone |-> {}, purged |-> {}]
    /\ token = [state |-> "active", epoch |-> 1, answered |-> TRUE]
    /\ cache = [epoch |-> 0, state |-> "none"]
    /\ door = [i \in Instances |-> Shut]
    /\ adopted = [i \in Instances |-> 0] /\ fdstore = {}
    /\ request = [q \in Requests |-> NoRequest]
    /\ counted = Zero /\ flush = [f \in Flushers |-> NoFlush] /\ stored = Zero
    /\ loop = NoLoop /\ daemon = Began
    /\ booked = Zero /\ lost = Zero
    /\ served = 0 /\ clicks = 0 /\ faults = 0

-----------------------------------------------------------------------------
(* The token, its cache, and the request path.                               *)

\* Patch and Revoke: the row is committed, then the epoch moves and the edit is
\* answered.  Revoked is terminal.
EditToken ==
    /\ Up /\ token.answered /\ token.state # "revoked"
    /\ \E s \in {"active", "disabled", "revoked"} \ {token.state} :
          /\ token' = [token EXCEPT !.state = s, !.answered = FALSE]
          /\ request' = IF s = "active"
                        THEN [q \in Requests |-> [request[q] EXCEPT !.sure = FALSE]] ELSE request
    /\ Click /\ UNCHANGED <<cache, socketVars, countVars, daemon, served>>

Invalidate ==
    /\ ~token.answered
    /\ token' = [token EXCEPT !.epoch = @ + 1, !.answered = TRUE]
    /\ Calm /\ UNCHANGED <<cache, socketVars, countVars, daemon, served, request>>

Step(q, r) == request' = [request EXCEPT ![q] = r]
At(q, pc) == request[q].pc = pc
OfRequest == Calm /\ UNCHANGED <<socketVars, daemon>>
Book(a) == counted' = Plus(counted, a) /\ booked' = Plus(booked, a)

\* A denial is counted and over; RecordUse is called for the others.
Judged(q, r, state) ==
    /\ \/ state # "active" /\ Book(OneOf(r.inst)) /\ Step(q, NoRequest)
       \/ /\ state = "active" /\ Book([Zero EXCEPT !.use = 1])
          /\ Step(q, [r EXCEPT !.pc = "proxy", !.epoch = 0, !.state = "none"])
    /\ UNCHANGED <<flush, stored, lost>>

\* Accept, and entryFor, which loads the epoch once, before anything is read.
\* "sure": the token was no longer active, and whoever ended it had been answered.
Accept(q, i) ==
    /\ At(q, "idle") /\ served < MaxServed /\ door[i].mode = "open"
    /\ LET r == [NoRequest EXCEPT !.inst = i, !.epoch = token.epoch,
                                  !.sure = token.state # "active" /\ token.answered]
       IN IF cache.epoch = token.epoch THEN Judged(q, r, cache.state)
          ELSE Step(q, [r EXCEPT !.pc = "read"]) /\ UNCHANGED countVars
    /\ served' = served + 1
    /\ daemon' = [daemon EXCEPT !.late = @ \/ daemon.phase # "up"]
    /\ Calm /\ UNCHANGED <<tokenVars, socketVars>>

\* An unreadable row is a 503, and is counted nowhere.
ReadToken(q) ==
    /\ At(q, "read")
    /\ \/ Step(q, [request[q] EXCEPT !.pc = "store", !.state = token.state]) /\ Calm
       \/ Step(q, NoRequest) /\ Fault
    /\ UNCHANGED <<tokenVars, socketVars, countVars, daemon, served>>

\* Mutant: the entry carries the epoch of the moment it is stored at.
StoreEntryLate(q) ==
    /\ At(q, "store")
    /\ cache' = [epoch |-> token.epoch, state |-> request[q].state]
    /\ Judged(q, request[q], request[q].state)
    /\ OfRequest /\ UNCHANGED <<token, served>>

StoreEntry(q) ==
    /\ At(q, "store")
    /\ cache' = [epoch |-> request[q].epoch, state |-> request[q].state]
    /\ Judged(q, request[q], request[q].state)
    /\ OfRequest /\ UNCHANGED <<token, served>>

\* The upstream answered, the client left, or the instance is not serving: counted.
Finish(q) ==
    /\ At(q, "proxy") /\ Book(OneOf(request[q].inst)) /\ Step(q, NoRequest)
    /\ OfRequest /\ UNCHANGED <<tokenVars, flush, stored, lost, served>>

-----------------------------------------------------------------------------
(* Flush.                                                                    *)

Phase(f, pc) == flush[f].pc = pc
FlushOnly == UNCHANGED <<tokenVars, socketVars, request, daemon, booked, lost, served>>

Over(final) == IF final THEN [NoFlush EXCEPT !.pc = "ended"] ELSE NoFlush

\* Mutant: Run flushes only when its context is done.
MayFlushLast(f) == IF f = "run" THEN daemon.done /\ loop.pc = "idle" ELSE Up

\* Run flushes between reconciles, for the last time once its context is done; the
\* endpoint as long as it is served.
MayFlush(f) == IF f = "run" THEN daemon.phase # "boot" /\ loop.pc = "idle" ELSE Up

\* tokens.Flush: it takes what is due, or everything when forced, out of memory.
AndUses(f, final, memory) ==
    \/ /\ memory.use > 0 /\ counted' = Usage(memory)
       /\ flush' = [flush EXCEPT ![f] = [pc |-> "touch", took |-> Uses(memory), final |-> final]]
    \/ /\ memory.use > 0 => ~final
       /\ counted' = memory
       /\ flush' = [flush EXCEPT ![f] = Over(final)]

\* pending and drain; with nothing to write only the tokens are flushed.  A flush that
\* finds nothing at all is left out, but for the last.
Drain(f) ==
    /\ Phase(f, "idle") /\ MayFlush(f)
    /\ LET final == f = "run" /\ daemon.done
       IN /\ counted = Zero => final
          /\ IF Usage(counted) = Zero THEN AndUses(f, final, counted)
             ELSE /\ counted' = Uses(counted)
                  /\ flush' = [flush EXCEPT ![f] =
                                 [pc |-> "write", took |-> Usage(counted), final |-> final]]
    /\ Calm /\ FlushOnly /\ UNCHANGED stored

\* A row of a purged instance breaks its foreign key, and with it the transaction.
Broken(f) == \E i \in row.purged : flush[f].took.usage[i] > 0

\* Run's context is cut under an ordinary flush.
CutOff(f) == f = "run" /\ daemon.done /\ ~flush[f].final

WriteUsage(f) ==
    /\ Phase(f, "write") /\ ~Broken(f) /\ ~CutOff(f)
    /\ stored' = Plus(stored, flush[f].took)
    /\ AndUses(f, flush[f].final, counted)
    /\ Calm /\ FlushOnly

\* Mutant: what was taken is dropped.
RestoreNothing(took) == counted

Restore(took) == Plus(counted, took)

\* The tokens are flushed by the last flush only then.
WriteFails(f) ==
    /\ Phase(f, "write")
    /\ IF Broken(f) \/ CutOff(f) THEN Calm ELSE Fault
    /\ LET memory == Restore(flush[f].took)
       IN IF flush[f].final THEN AndUses(f, TRUE, memory)
          ELSE counted' = memory /\ flush' = [flush EXCEPT ![f] = NoFlush]
    /\ FlushOnly /\ UNCHANGED stored

TouchTokens(f) ==
    /\ Phase(f, "touch") /\ flush' = [flush EXCEPT ![f] = Over(@.final)]
    /\ \/ ~CutOff(f) /\ stored' = Plus(stored, flush[f].took) /\ Calm /\ UNCHANGED counted
       \/ /\ IF CutOff(f) THEN Calm ELSE Fault
          /\ counted' = Restore(flush[f].took) /\ UNCHANGED stored
    /\ FlushOnly

-----------------------------------------------------------------------------
(* The instances rows.                                                       *)

FreePort(p) == \A j \in Instances : row.port[j] # p
RowOnly == UNCHANGED <<tokenVars, door, adopted, fdstore, loop, request, daemon, lost, served>>

\* Create, or a new public port.
SetPublicPort(i, p) ==
    /\ Up /\ Click /\ i \notin row.gone /\ FreePort(p) /\ row' = [row EXCEPT !.port[i] = p]
    /\ RowOnly /\ UNCHANGED <<counted, flush, stored, booked>>

\* A purge takes the usage rows along.
DeleteInstance(i) ==
    /\ Up /\ Click /\ i \in Live
    /\ \/ row' = [row EXCEPT !.port[i] = 0, !.gone = @ \cup {i}] /\ UNCHANGED stored
       \/ /\ row' = [row EXCEPT !.port[i] = 0, !.gone = @ \cup {i}, !.purged = @ \cup {i}]
          /\ stored' = [stored EXCEPT !.usage[i] = 0]
    /\ RowOnly /\ UNCHANGED <<counted, flush, booked>>

-----------------------------------------------------------------------------
(* Reconcile: the rows are read, then the listeners are moved under the lock. *)

Locked == loop.pc = "rows" /\ loop.todo # Instances
Reconciling == UNCHANGED <<row, fdstore, tokenVars, requestVars, countVars, daemon>>

ReadRows ==
    /\ daemon.phase # "boot" /\ ~daemon.done /\ loop.pc = "idle" /\ Phase("run", "idle")
    /\ loop' = [pc |-> "rows", rows |-> row.port, todo |-> Instances]
    /\ Calm /\ Reconciling /\ UNCHANGED <<door, adopted>>

\* No other socket is on the port: none of this process, none that systemd holds.
CanBind(i, p) == /\ \A j \in Instances \ {i} : door[j].port # p /\ adopted[j] # p
                 /\ \A j \in Instances : <<j, p>> \notin fdstore

\* A listener on the wrong port is closed and a new one bound, unless an adopted
\* socket is on the right one; a bind error leaves the instance without.
ReconcileRow(i) ==
    /\ loop.pc = "rows" /\ i \in loop.todo /\ loop.rows[i] # 0
    /\ loop' = [loop EXCEPT !.todo = @ \ {i}]
    /\ LET p == loop.rows[i]
           bound == [port |-> p, mode |-> "bound"]
       IN IF door[i].port = p THEN Calm /\ UNCHANGED <<door, adopted>>
          ELSE /\ adopted' = [adopted EXCEPT ![i] = 0]
               /\ \/ /\ adopted[i] = p \/ CanBind(i, p)
                     /\ door' = [door EXCEPT ![i] = bound] /\ Calm
                  \/ /\ adopted[i] # p /\ door' = [door EXCEPT ![i] = Shut]
                     /\ IF CanBind(i, p) THEN Fault ELSE Calm
    /\ Reconciling

\* What no row wants is closed, and the new listeners accept.
EndReconcile ==
    /\ loop.pc = "rows" /\ \A i \in loop.todo : loop.rows[i] = 0
    /\ door' = [i \in Instances |->
                  IF loop.rows[i] = 0 THEN Shut
                  ELSE IF door[i].mode = "bound" THEN [door[i] EXCEPT !.mode = "open"]
                  ELSE door[i]]
    /\ adopted' = [i \in Instances |-> 0]
    /\ loop' = NoLoop
    /\ Calm /\ Reconciling

-----------------------------------------------------------------------------
(* The ordered stop, and the boot.                                           *)

OfStop == UNCHANGED <<row, adopted, loop, tokenVars, requestVars, countVars>>
Paused == [i \in Instances |-> IF Open(i) THEN [door[i] EXCEPT !.mode = "paused"] ELSE Shut]

\* Mutant: Run's context ends with the request to restart.
BeginStopCutting(path) ==
    /\ daemon.phase = "up" /\ ~Locked /\ Click
    /\ daemon' = [daemon EXCEPT !.phase = "draining", !.path = path, !.done = TRUE]
    /\ door' = Paused
    /\ OfStop /\ UNCHANGED fdstore

\* Drain pauses every listener.  Run's context is a child of the one SIGTERM ends; an
\* update or a restart from the UI leaves it alone.
BeginStop(path) ==
    /\ daemon.phase = "up" /\ ~Locked /\ Click
    /\ daemon' = [daemon EXCEPT !.phase = "draining", !.path = path, !.done = path = "term"]
    /\ door' = Paused
    /\ OfStop /\ UNCHANGED fdstore

\* The requests of paused listeners are waited for, but gateway.drain_sec at most.
EndDrain ==
    /\ daemon.phase = "draining"
    /\ LET still == \E q \in Requests : ~At(q, "idle")
       IN daemon' = [daemon EXCEPT !.phase = "drained", !.late = @ \/ still]
    /\ Calm /\ OfStop /\ UNCHANGED <<door, fdstore>>

\* systemd keeps what it is given until the unit is stopped for good.
HandOff ==
    /\ daemon.phase = "drained" /\ ~Locked
    /\ LET doors == {i \in Instances : Open(i)}
       IN \E refused \in {{}} \cup {{i} : i \in doors} :
            /\ fdstore' = fdstore \cup {<<i, door[i].port>> : i \in doors \ refused}
            /\ IF refused = {} THEN Calm ELSE Fault
    /\ daemon' = [daemon EXCEPT !.phase = "handed"]
    /\ OfStop /\ UNCHANGED door

\* The management server has answered its last request; then Run is stopped.
StopServer ==
    /\ daemon.phase = "handed" /\ token.answered /\ Phase("denials", "idle")
    /\ daemon' = [daemon EXCEPT !.phase = "closed", !.done = TRUE]
    /\ Calm /\ OfStop /\ UNCHANGED <<door, fdstore>>

InMemory == Plus(counted, Plus(flush["run"].took, flush["denials"].took))

Ends ==
    /\ token' = [token EXCEPT !.epoch = 1, !.answered = TRUE]
    /\ cache' = [epoch |-> 0, state |-> "none"]
    /\ door' = [i \in Instances |-> Shut] /\ adopted' = [i \in Instances |-> 0]
    /\ request' = [q \in Requests |-> NoRequest]
    /\ counted' = Zero /\ flush' = [f \in Flushers |-> NoFlush]
    /\ lost' = Plus(lost, InMemory)
    /\ loop' = NoLoop /\ daemon' = [Began EXCEPT !.since = faults']
    /\ UNCHANGED <<row, stored, booked, served>>

\* After a SIGTERM the unit may have been stopped for good before it starts again.
Exit ==
    /\ daemon.phase = "closed" /\ Phase("run", "ended") /\ Calm /\ Ends
    /\ \/ UNCHANGED fdstore
       \/ daemon.path = "term" /\ fdstore' = {}

Crash == Fault /\ Ends /\ UNCHANGED fdstore

\* Of several descriptors under one name the last one counts.
Adopt ==
    /\ daemon.phase = "boot" /\ daemon' = [daemon EXCEPT !.phase = "up"]
    /\ LET held(i) == {p \in Ports : <<i, p>> \in fdstore}
       IN adopted' \in {a \in [Instances -> Ports \cup {0}] :
            \A i \in Instances : IF held(i) = {} THEN a[i] = 0 ELSE a[i] \in held(i)}
    /\ Calm /\ UNCHANGED <<row, fdstore, door, loop, tokenVars, requestVars, countVars>>

-----------------------------------------------------------------------------
Handle(q) == ReadToken(q) \/ StoreEntry(q) \/ Finish(q)
Flush(f) == Drain(f) \/ WriteUsage(f) \/ WriteFails(f) \/ TouchTokens(f)
Stop == EndDrain \/ HandOff \/ StopServer \/ Exit
Reconcile == ReadRows \/ EndReconcile \/ \E i \in Instances : ReconcileRow(i)

Next ==
    \/ EditToken \/ Invalidate
    \/ \E q \in Requests : Handle(q) \/ \E i \in Instances : Accept(q, i)
    \/ \E f \in Flushers : Flush(f)
    \/ \E i \in Instances : DeleteInstance(i) \/ \E p \in Ports : SetPublicPort(i, p)
    \/ Reconcile
    \/ \E path \in {"term", "restart"} : BeginStop(path)
    \/ Stop \/ Crash \/ Adopt

Spec == Init /\ [][Next]_vars

\* Run's loop turns, flushing as its ticker says, what began goes on, and a dead daemon
\* is started again.
FairSpec ==
    /\ Spec
    /\ SF_vars(Drain("run")) /\ \A f \in Flushers : WF_vars(Flush(f) /\ ~Phase(f, "idle"))
    /\ WF_vars(Reconcile) /\ WF_vars(Adopt \/ Stop) /\ WF_vars(Invalidate)

-----------------------------------------------------------------------------
(* What should hold.                                                         *)

\* No request is counted twice or dropped, whatever flushes fail, overlap or are cut
\* off: all that was ever counted is in the tables, in memory, or died with a process.
CountedOnce ==
    LET all == Plus(stored, Plus(InMemory, lost))
    IN /\ all.use = booked.use
       /\ \A i \in Instances \ row.purged : all.usage[i] = booked.usage[i]

\* A request that began after a revocation was answered is not let through, whoever
\* filled the cache meanwhile (section 2.9: "within one request").
RevokedIsRefused == \A q \in Requests : At(q, "proxy") => ~request[q].sure

\* A restart from the UI or for an update loses no count: unless a transaction failed, or
\* a request outlived the drain, be it that the window ran out or that its listener was
\* opened or closed apart from the ones that drain.
RestartLosesNothing ==
    [][Exit /\ daemon.path = "restart" /\ ~daemon.late /\ daemon.since = faults
            /\ row.purged = {} => lost' = lost]_vars

\* What is counted reaches the tables while the daemon runs, unless an instance was
\* purged under a count: then no flush ever succeeds again.
CountsArrive ==
    \A i \in Instances : \A n \in 1 .. MaxServed :
        booked.usage[i] >= n
            ~> stored.usage[i] + lost.usage[i] >= n \/ row.purged # {}

=============================================================================
