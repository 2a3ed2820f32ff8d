---------------------------- MODULE GatewayProofs ----------------------------
(***************************************************************************)
(* What holds of the gateway for any instances, ports and requests: no     *)
(* count is lost or doubled on its way to the tables, an answered          *)
(* revocation is final, and a restart from the UI flushes everything.      *)
(***************************************************************************)
EXTENDS Gateway, TLAPS

-----------------------------------------------------------------------------
(* Amounts: the usage of each instance, and the uses of the token.         *)

Amounts == [usage : [Instances -> Nat], use : Nat]

LEMMA ZeroAmount ==
    Zero \in Amounts /\ Zero.use = 0 /\ \A i \in Instances : Zero.usage[i] = 0
BY DEF Zero, Amounts

LEMMA SameAmount ==
    ASSUME NEW a \in Amounts, NEW b \in Amounts, a.use = b.use,
           \A i \in Instances : a.usage[i] = b.usage[i]
    PROVE  a = b
<1>1. a.usage = b.usage
  BY DEF Amounts
<1> QED BY <1>1 DEF Amounts

LEMMA PlusAmount ==
    ASSUME NEW a \in Amounts, NEW b \in Amounts
    PROVE  /\ Plus(a, b) \in Amounts
           /\ Plus(a, b).use = a.use + b.use
           /\ \A i \in Instances : Plus(a, b).usage[i] = a.usage[i] + b.usage[i]
<1>1. a.use \in Nat /\ b.use \in Nat /\ \A i \in Instances : a.usage[i] \in Nat /\ b.usage[i] \in Nat
  BY DEF Amounts
<1>2. Plus(a, b).use = a.use + b.use /\ Plus(a, b).usage = [i \in Instances |-> a.usage[i] + b.usage[i]]
  BY DEF Plus
<1>3. [i \in Instances |-> a.usage[i] + b.usage[i]] \in [Instances -> Nat]
  BY <1>1
<1>4. a.use + b.use \in Nat
  BY <1>1
<1>5. Plus(a, b) \in Amounts
  BY <1>3, <1>4 DEF Plus, Amounts
<1> QED BY <1>2, <1>5

LEMMA Halves ==
    ASSUME NEW a \in Amounts
    PROVE  /\ Usage(a) \in Amounts /\ Usage(a).use = 0 /\ Usage(a).usage = a.usage
           /\ Uses(a) \in Amounts /\ Uses(a).use = a.use
           /\ \A i \in Instances : Uses(a).usage[i] = 0
BY DEF Usage, Uses, Zero, Amounts

LEMMA OneAmount == \A i : OneOf(i) \in Amounts
<1> TAKE i
<1>1. [Zero.usage EXCEPT ![i] = 1] \in [Instances -> Nat]
  BY DEF Zero
<1> QED BY <1>1 DEF OneOf, Zero, Amounts

LEMMA OneUse == [Zero EXCEPT !.use = 1] \in Amounts
BY DEF Zero, Amounts

\* Two amounts that add up to a third, in each part.
Adds(a, b, c) == /\ a.use + b.use = c.use
                 /\ \A i \in Instances : a.usage[i] + b.usage[i] = c.usage[i]

LEMMA HalvesAdd ==
    ASSUME NEW a \in Amounts
    PROVE  Adds(Usage(a), Uses(a), a) /\ Adds(a, Zero, a)
<1>1. a.use \in Nat /\ \A i \in Instances : a.usage[i] \in Nat
  BY DEF Amounts
<1> QED BY <1>1, Halves, ZeroAmount DEF Adds

-----------------------------------------------------------------------------
(* Types of what is counted.                                               *)

Flushes == [pc : {"idle", "write", "touch", "ended"}, took : Amounts, final : BOOLEAN]

CountsOK ==
    /\ counted \in Amounts /\ stored \in Amounts /\ booked \in Amounts /\ lost \in Amounts
    /\ flush \in [Flushers -> Flushes]
    /\ \A f \in Flushers : flush[f].pc \in {"idle", "ended"} => flush[f].took = Zero
    /\ row \in [port : [Instances -> Nat], gone : SUBSET Instances, purged : SUBSET Instances]

LEMMA FlushStates ==
    ASSUME NEW final \in BOOLEAN
    PROVE  /\ NoFlush \in Flushes /\ NoFlush.pc = "idle" /\ NoFlush.took = Zero
           /\ ~NoFlush.final
           /\ Over(final) \in Flushes /\ Over(final).took = Zero
           /\ Over(final).pc = (IF final THEN "ended" ELSE "idle")
BY ZeroAmount DEF NoFlush, Over, Flushes

\* What AndUses leaves in memory and in the hands of the flusher is the memory it
\* was given.
LEMMA UsesTaken ==
    ASSUME NEW f \in Flushers, NEW final \in BOOLEAN, NEW memory \in Amounts,
           flush \in [Flushers -> Flushes], AndUses(f, final, memory)
    PROVE  /\ counted' \in Amounts
           /\ flush' \in [Flushers -> Flushes]
           /\ flush'[f].pc \in {"idle", "ended"} => flush'[f].took = Zero
           /\ \A g \in Flushers \ {f} : flush'[g] = flush[g]
           /\ Adds(counted', flush'[f].took, memory)
<1>1. CASE /\ counted' = Usage(memory)
           /\ flush' = [flush EXCEPT ![f] = [pc |-> "touch", took |-> Uses(memory), final |-> final]]
  BY <1>1, Halves, HalvesAdd DEF Flushes
<1>2. CASE counted' = memory /\ flush' = [flush EXCEPT ![f] = Over(final)]
  BY <1>2, FlushStates, HalvesAdd
<1> QED BY <1>1, <1>2 DEF AndUses

-----------------------------------------------------------------------------
(* Every count is in one place. Whatever moves one, moves it whole.        *)

Balanced ==
    /\ stored.use + counted.use + flush["run"].took.use + flush["denials"].took.use + lost.use
         = booked.use
    /\ \A i \in Instances \ row.purged :
         stored.usage[i] + counted.usage[i] + flush["run"].took.usage[i]
           + flush["denials"].took.usage[i] + lost.usage[i] = booked.usage[i]

Counts == CountsOK /\ Balanced

LEMMA AmountParts ==
    ASSUME NEW a \in Amounts
    PROVE  a.use \in Nat /\ \A i \in Instances : a.usage[i] \in Nat
BY DEF Amounts

LEMMA InMemoryParts ==
    ASSUME CountsOK
    PROVE  /\ InMemory \in Amounts
           /\ InMemory.use = counted.use + (flush["run"].took.use + flush["denials"].took.use)
           /\ \A i \in Instances : InMemory.usage[i] =
                counted.usage[i] + (flush["run"].took.usage[i] + flush["denials"].took.usage[i])
<1> DEFINE took == Plus(flush["run"].took, flush["denials"].took)
<1>1. flush["run"].took \in Amounts /\ flush["denials"].took \in Amounts /\ counted \in Amounts
  BY DEF CountsOK, Flushers, Flushes
<1>2. /\ took \in Amounts /\ took.use = flush["run"].took.use + flush["denials"].took.use
      /\ \A i \in Instances : took.usage[i] = flush["run"].took.usage[i] + flush["denials"].took.usage[i]
  BY <1>1, PlusAmount
<1> HIDE DEF took
<1>3. InMemory = Plus(counted, took)
  BY DEF InMemory, took
<1> QED BY <1>1, <1>2, <1>3, PlusAmount

LEMMA CountsMeanOnce == Counts => CountedOnce
<1> SUFFICES ASSUME Counts PROVE CountedOnce
  OBVIOUS
<1> DEFINE rest == Plus(InMemory, lost)
           all == Plus(stored, rest)
<1>1. /\ stored \in Amounts /\ lost \in Amounts /\ InMemory \in Amounts /\ counted \in Amounts
      /\ flush["run"].took \in Amounts /\ flush["denials"].took \in Amounts
  BY InMemoryParts DEF Counts, CountsOK, Flushers, Flushes
<1>2. /\ rest \in Amounts /\ rest.use = InMemory.use + lost.use
      /\ \A i \in Instances : rest.usage[i] = InMemory.usage[i] + lost.usage[i]
  BY <1>1, PlusAmount
<1> HIDE DEF rest
<1>3. /\ all.use = stored.use + rest.use
      /\ \A i \in Instances : all.usage[i] = stored.usage[i] + rest.usage[i]
  BY <1>1, <1>2, PlusAmount
<1> HIDE DEF all
<1>4. all.use = booked.use
  BY <1>1, <1>2, <1>3, InMemoryParts, AmountParts DEF Counts, Balanced
<1>5. ASSUME NEW i \in Instances \ row.purged PROVE all.usage[i] = booked.usage[i]
  <2>1. /\ stored.usage[i] \in Nat /\ lost.usage[i] \in Nat /\ counted.usage[i] \in Nat
        /\ flush["run"].took.usage[i] \in Nat /\ flush["denials"].took.usage[i] \in Nat
    BY <1>1, AmountParts
  <2>2. /\ all.usage[i] = stored.usage[i] + (InMemory.usage[i] + lost.usage[i])
        /\ InMemory.usage[i] = counted.usage[i]
             + (flush["run"].took.usage[i] + flush["denials"].took.usage[i])
    BY <1>2, <1>3, InMemoryParts DEF Counts
  <2>3. stored.usage[i] + counted.usage[i] + flush["run"].took.usage[i]
           + flush["denials"].took.usage[i] + lost.usage[i] = booked.usage[i]
    BY DEF Counts, Balanced
  <2> QED BY <2>1, <2>2, <2>3
<1> QED BY <1>4, <1>5 DEF CountedOnce, all, rest

LEMMA BookCounts ==
    ASSUME Counts, UNCHANGED <<flush, stored, lost, row>>,
           \/ counted' = counted /\ booked' = booked
           \/ \E a \in Amounts : Book(a)
    PROVE  Counts'
<1>1. CASE counted' = counted /\ booked' = booked
  BY <1>1 DEF Counts, CountsOK, Balanced
<1>2. ASSUME NEW a \in Amounts, Book(a) PROVE Counts'
  <2>1. /\ counted' \in Amounts /\ counted'.use = counted.use + a.use
        /\ \A i \in Instances : counted'.usage[i] = counted.usage[i] + a.usage[i]
        /\ booked' \in Amounts /\ booked'.use = booked.use + a.use
        /\ \A i \in Instances : booked'.usage[i] = booked.usage[i] + a.usage[i]
    BY <1>2, PlusAmount DEF Book, Counts, CountsOK
  <2>2. CountsOK'
    BY <2>1 DEF Counts, CountsOK
  <2>3. /\ flush["run"].took \in Amounts /\ flush["denials"].took \in Amounts
        /\ stored \in Amounts /\ lost \in Amounts /\ counted \in Amounts /\ booked \in Amounts
    BY DEF Counts, CountsOK, Flushers, Flushes
  <2>4. Balanced'
    BY <2>1, <2>3, AmountParts DEF Counts, Balanced
  <2> QED BY <2>2, <2>4 DEF Counts
<1> QED BY <1>1, <1>2

LEMMA JudgedBooks ==
    ASSUME NEW q \in Requests, NEW r, NEW state, Judged(q, r, state)
    PROVE  UNCHANGED <<flush, stored, lost>> /\ \E a \in Amounts : Book(a)
BY OneAmount, OneUse DEF Judged

LEMMA RequestCounts ==
    ASSUME Counts, NEW q \in Requests,
           Handle(q) \/ \E i \in Instances : Accept(q, i)
    PROVE  Counts'
<1> USE DEF countVars, socketVars, OfRequest
<1>1. ASSUME NEW i \in Instances, Accept(q, i) PROVE Counts'
  <2> DEFINE r == [NoRequest EXCEPT !.inst = i, !.epoch = token.epoch,
                                    !.sure = token.state # "active" /\ token.answered]
  <2>1. Judged(q, r, cache.state) \/ UNCHANGED countVars
    BY <1>1 DEF Accept
  <2>2. UNCHANGED row
    BY <1>1 DEF Accept
  <2> HIDE DEF r
  <2> QED BY <2>1, <2>2, BookCounts, JudgedBooks
<1>2. CASE ReadToken(q)
  BY <1>2, BookCounts DEF ReadToken
<1>3. CASE StoreEntry(q)
  BY <1>3, BookCounts, JudgedBooks DEF StoreEntry
<1>4. CASE Finish(q)
  BY <1>4, BookCounts, OneAmount DEF Finish
<1> QED BY <1>1, <1>2, <1>3, <1>4 DEF Handle

\* A flusher moves counts between the tables, the memory and its own hands.
LEMMA FlushMoves ==
    ASSUME CountsOK, NEW f \in Flushers, Flush(f)
    PROVE  /\ counted' \in Amounts /\ stored' \in Amounts /\ flush' \in [Flushers -> Flushes]
           /\ flush'[f].pc \in {"idle", "ended"} => flush'[f].took = Zero
           /\ \A g \in Flushers \ {f} : flush'[g] = flush[g]
           /\ UNCHANGED <<row, lost, booked>>
           /\ stored'.use + counted'.use + flush'[f].took.use
                = stored.use + counted.use + flush[f].took.use
           /\ \A i \in Instances :
                stored'.usage[i] + counted'.usage[i] + flush'[f].took.usage[i]
                  = stored.usage[i] + counted.usage[i] + flush[f].took.usage[i]
<1>1. /\ counted \in Amounts /\ stored \in Amounts /\ flush[f] \in Flushes
      /\ flush[f].took \in Amounts /\ flush[f].final \in BOOLEAN
      /\ flush \in [Flushers -> Flushes]
      /\ flush[f].pc \in {"idle", "ended"} => flush[f].took = Zero
  BY DEF CountsOK, Flushes
<1>2. UNCHANGED <<row, lost, booked>>
  BY DEF Flush, Drain, WriteUsage, WriteFails, TouchTokens, FlushOnly, socketVars
<1>a. ASSUME NEW memory \in Amounts, NEW final \in BOOLEAN, AndUses(f, final, memory)
      PROVE  /\ counted' \in Amounts /\ flush' \in [Flushers -> Flushes] /\ flush'[f].took \in Amounts
             /\ flush'[f].pc \in {"idle", "ended"} => flush'[f].took = Zero
             /\ \A g \in Flushers \ {f} : flush'[g] = flush[g]
             /\ Adds(counted', flush'[f].took, memory)
  BY <1>1, <1>a, UsesTaken DEF Flushes
<1>b. ASSUME NEW final \in BOOLEAN, flush' = [flush EXCEPT ![f] = Over(final)]
      PROVE  /\ flush' \in [Flushers -> Flushes] /\ flush'[f].took = Zero
             /\ \A g \in Flushers \ {f} : flush'[g] = flush[g]
  BY <1>1, <1>b, FlushStates
<1>3. CASE Drain(f)
  <2>1. PICK final \in BOOLEAN :
          \/ AndUses(f, final, counted)
          \/ /\ counted' = Uses(counted)
             /\ flush' = [flush EXCEPT ![f] = [pc |-> "write", took |-> Usage(counted), final |-> final]]
    <3>1. (f = "run" /\ daemon.done) \in BOOLEAN
      OBVIOUS
    <3> QED BY <1>3, <3>1 DEF Drain
  <2>2. stored' = stored /\ flush[f].took = Zero
    BY <1>1, <1>3 DEF Drain, Phase
  <2>3. CASE AndUses(f, final, counted)
    BY <1>1, <1>2, <1>a, <2>2, <2>3, ZeroAmount, AmountParts DEF Adds
  <2>4. CASE /\ counted' = Uses(counted)
             /\ flush' = [flush EXCEPT ![f] = [pc |-> "write", took |-> Usage(counted), final |-> final]]
    <3>1. [pc |-> "write", took |-> Usage(counted), final |-> final] \in Flushes
      BY <1>1, Halves DEF Flushes
    <3>2. /\ flush' \in [Flushers -> Flushes] /\ flush'[f].took = Usage(counted)
          /\ flush'[f].pc = "write" /\ \A g \in Flushers \ {f} : flush'[g] = flush[g]
      BY <1>1, <2>4, <3>1
    <3> QED BY <1>1, <1>2, <2>2, <2>4, <3>2, Halves, HalvesAdd, ZeroAmount, AmountParts DEF Adds
  <2> QED BY <2>1, <2>3, <2>4
<1>4. CASE WriteUsage(f)
  <2>1. stored' = Plus(stored, flush[f].took) /\ AndUses(f, flush[f].final, counted)
    BY <1>4 DEF WriteUsage
  <2> QED BY <1>1, <1>2, <1>a, <2>1, PlusAmount, AmountParts DEF Adds
<1>5. CASE WriteFails(f)
  <2> DEFINE memory == Restore(flush[f].took)
  <2>1. /\ memory \in Amounts /\ memory.use = counted.use + flush[f].took.use
        /\ \A i \in Instances : memory.usage[i] = counted.usage[i] + flush[f].took.usage[i]
    BY <1>1, PlusAmount DEF Restore
  <2>2. /\ stored' = stored
        /\ \/ AndUses(f, TRUE, memory)
           \/ counted' = memory /\ flush' = [flush EXCEPT ![f] = NoFlush]
    BY <1>5 DEF WriteFails
  <2> HIDE DEF memory
  <2>3. CASE AndUses(f, TRUE, memory)
    <3>1. /\ counted' \in Amounts /\ flush' \in [Flushers -> Flushes]
          /\ flush'[f].took \in Amounts
          /\ flush'[f].pc \in {"idle", "ended"} => flush'[f].took = Zero
          /\ \A g \in Flushers \ {f} : flush'[g] = flush[g]
          /\ Adds(counted', flush'[f].took, memory)
      BY <1>a, <2>1, <2>3
    <3> QED BY <1>1, <1>2, <2>1, <2>2, <3>1, AmountParts DEF Adds
  <2>4. CASE counted' = memory /\ flush' = [flush EXCEPT ![f] = NoFlush]
    <3>1. /\ flush' \in [Flushers -> Flushes] /\ flush'[f].took = Zero
          /\ \A g \in Flushers \ {f} : flush'[g] = flush[g]
      BY <1>1, <2>4, FlushStates
    <3> QED BY <1>1, <1>2, <2>1, <2>2, <2>4, <3>1, ZeroAmount, AmountParts
  <2> QED BY <2>2, <2>3, <2>4
<1>6. CASE TouchTokens(f)
  <2>1. flush' = [flush EXCEPT ![f] = Over(flush[f].final)]
    BY <1>6 DEF TouchTokens
  <2>2. /\ flush' \in [Flushers -> Flushes] /\ flush'[f].took = Zero
        /\ \A g \in Flushers \ {f} : flush'[g] = flush[g]
    BY <1>1, <1>b, <2>1
  <2>3. \/ stored' = Plus(stored, flush[f].took) /\ counted' = counted
        \/ stored' = stored /\ counted' = Plus(counted, flush[f].took)
    BY <1>6 DEF TouchTokens, Restore
  <2> QED BY <1>1, <1>2, <2>2, <2>3, PlusAmount, ZeroAmount, AmountParts
<1> QED BY <1>3, <1>4, <1>5, <1>6 DEF Flush

LEMMA FlushCounts ==
    ASSUME Counts, NEW f \in Flushers, Flush(f)
    PROVE  Counts'
<1>1. CountsOK'
  BY FlushMoves DEF Counts, CountsOK
<1>2. /\ flush["run"].took \in Amounts /\ flush["denials"].took \in Amounts
      /\ flush'["run"].took \in Amounts /\ flush'["denials"].took \in Amounts
      /\ stored \in Amounts /\ lost \in Amounts /\ counted \in Amounts /\ booked \in Amounts
      /\ stored' \in Amounts /\ counted' \in Amounts
  BY <1>1 DEF Counts, CountsOK, Flushers, Flushes
<1>5. /\ UNCHANGED <<row, lost, booked>>
      /\ stored'.use + counted'.use + flush'[f].took.use
           = stored.use + counted.use + flush[f].took.use
      /\ \A i \in Instances :
           stored'.usage[i] + counted'.usage[i] + flush'[f].took.usage[i]
             = stored.usage[i] + counted.usage[i] + flush[f].took.usage[i]
  BY FlushMoves DEF Counts
<1>3. CASE f = "run"
  <2>1. flush'["denials"] = flush["denials"]
    BY <1>3, FlushMoves DEF Counts, Flushers
  <2>3. stored'.use + counted'.use + flush'["run"].took.use + flush'["denials"].took.use + lost'.use
          = booked'.use
    <3>1. stored.use + counted.use + flush["run"].took.use + flush["denials"].took.use + lost.use
            = booked.use
      BY DEF Counts, Balanced
    <3>2. \A x \in {stored, stored', counted, counted', lost, flush["run"].took,
                    flush["denials"].took, flush'["run"].took, flush'["denials"].took} :
            x.use \in Nat
      BY <1>2, AmountParts
    <3> QED BY <1>3, <1>5, <2>1, <3>1, <3>2
  <2>4. ASSUME NEW i \in Instances, i \notin row'.purged
        PROVE  stored'.usage[i] + counted'.usage[i] + flush'["run"].took.usage[i]
                 + flush'["denials"].took.usage[i] + lost'.usage[i] = booked'.usage[i]
    <3>1. stored.usage[i] + counted.usage[i] + flush["run"].took.usage[i]
            + flush["denials"].took.usage[i] + lost.usage[i] = booked.usage[i]
      BY <1>5, <2>4 DEF Counts, Balanced
    <3>2. /\ stored'.usage[i] + counted'.usage[i] + flush'[f].took.usage[i]
               = stored.usage[i] + counted.usage[i] + flush[f].took.usage[i]
          /\ UNCHANGED <<lost, booked>>
      BY <1>5, <2>4
    <3>3. \A x \in {stored, stored', counted, counted', lost, flush["run"].took,
                    flush["denials"].took, flush'["run"].took, flush'["denials"].took} :
            x.usage[i] \in Nat
      BY <1>2, AmountParts
    <3> QED BY <1>3, <2>1, <3>1, <3>2, <3>3
  <2>2. Balanced'
    BY <2>3, <2>4 DEF Balanced
  <2> QED BY <1>1, <2>2 DEF Counts
<1>4. CASE f = "denials"
  <2>1. flush'["run"] = flush["run"]
    BY <1>4, FlushMoves DEF Counts, Flushers
  <2>3. stored'.use + counted'.use + flush'["run"].took.use + flush'["denials"].took.use + lost'.use
          = booked'.use
    <3>1. stored.use + counted.use + flush["run"].took.use + flush["denials"].took.use + lost.use
            = booked.use
      BY DEF Counts, Balanced
    <3>2. \A x \in {stored, stored', counted, counted', lost, flush["run"].took,
                    flush["denials"].took, flush'["run"].took, flush'["denials"].took} :
            x.use \in Nat
      BY <1>2, AmountParts
    <3> QED BY <1>4, <1>5, <2>1, <3>1, <3>2
  <2>4. ASSUME NEW i \in Instances, i \notin row'.purged
        PROVE  stored'.usage[i] + counted'.usage[i] + flush'["run"].took.usage[i]
                 + flush'["denials"].took.usage[i] + lost'.usage[i] = booked'.usage[i]
    <3>1. stored.usage[i] + counted.usage[i] + flush["run"].took.usage[i]
            + flush["denials"].took.usage[i] + lost.usage[i] = booked.usage[i]
      BY <1>5, <2>4 DEF Counts, Balanced
    <3>2. /\ stored'.usage[i] + counted'.usage[i] + flush'[f].took.usage[i]
               = stored.usage[i] + counted.usage[i] + flush[f].took.usage[i]
          /\ UNCHANGED <<lost, booked>>
      BY <1>5, <2>4
    <3>3. \A x \in {stored, stored', counted, counted', lost, flush["run"].took,
                    flush["denials"].took, flush'["run"].took, flush'["denials"].took} :
            x.usage[i] \in Nat
      BY <1>2, AmountParts
    <3> QED BY <1>4, <2>1, <3>1, <3>2, <3>3
  <2>2. Balanced'
    BY <2>3, <2>4 DEF Balanced
  <2> QED BY <1>1, <2>2 DEF Counts
<1> QED BY <1>3, <1>4 DEF Flushers

LEMMA RowCounts ==
    ASSUME Counts, NEW i \in Instances,
           DeleteInstance(i) \/ \E p \in Ports : SetPublicPort(i, p)
    PROVE  Counts'
<1>1. /\ UNCHANGED <<counted, flush, booked, lost>>
      /\ row' \in [port : [Instances -> Nat], gone : SUBSET Instances, purged : SUBSET Instances]
      /\ row.purged \subseteq row'.purged
      /\ stored' = stored \/ (stored' = [stored EXCEPT !.usage[i] = 0] /\ i \in row'.purged)
  <2>0. /\ row \in [port : [Instances -> Nat], gone : SUBSET Instances, purged : SUBSET Instances]
        /\ Ports \subseteq Nat
    BY GatewayAssumption DEF Counts, CountsOK
  <2>1. ASSUME NEW p \in Ports, SetPublicPort(i, p)
        PROVE  /\ row' = [row EXCEPT !.port[i] = p]
               /\ UNCHANGED <<counted, flush, booked, lost, stored>>
    BY <2>1 DEF SetPublicPort, RowOnly
  <2>2. CASE DeleteInstance(i)
    <3>1. UNCHANGED <<counted, flush, booked, lost>>
      BY <2>2 DEF DeleteInstance, RowOnly
    <3>2. CASE /\ row' = [row EXCEPT !.port[i] = 0, !.gone = @ \cup {i}]
               /\ UNCHANGED stored
      BY <2>0, <3>1, <3>2
    <3>3. CASE /\ row' = [row EXCEPT !.port[i] = 0, !.gone = @ \cup {i}, !.purged = @ \cup {i}]
               /\ stored' = [stored EXCEPT !.usage[i] = 0]
      <4>1. /\ row'.purged = row.purged \cup {i}
            /\ row' \in [port : [Instances -> Nat], gone : SUBSET Instances, purged : SUBSET Instances]
        BY <2>0, <3>3
      <4> QED BY <3>1, <3>3, <4>1
    <3> QED BY <2>2, <3>2, <3>3 DEF DeleteInstance
  <2>3. CASE \E p \in Ports : SetPublicPort(i, p)
    BY <2>0, <2>1, <2>3
  <2> QED BY <2>2, <2>3
<1>2. stored \in Amounts
  BY DEF Counts, CountsOK
<1>3. stored' \in Amounts /\ stored'.use = stored.use
      /\ \A j \in Instances \ row'.purged : stored'.usage[j] = stored.usage[j]
  BY <1>1, <1>2 DEF Amounts
<1>4. CountsOK'
  BY <1>1, <1>3 DEF Counts, CountsOK
<1>5. Balanced'
  BY <1>1, <1>3 DEF Counts, Balanced
<1> QED BY <1>4, <1>5 DEF Counts

LEMMA EndCounts ==
    ASSUME Counts, Ends
    PROVE  Counts'
<1>1. /\ counted' = Zero /\ flush'["run"] = NoFlush /\ flush'["denials"] = NoFlush
      /\ flush' \in [Flushers -> Flushes] /\ \A f \in Flushers : flush'[f].took = Zero
      /\ lost' = Plus(lost, InMemory) /\ UNCHANGED <<row, stored, booked>>
  BY FlushStates DEF Ends, Flushers
<1>2. /\ counted \in Amounts /\ lost \in Amounts /\ InMemory \in Amounts
      /\ stored \in Amounts /\ booked \in Amounts
      /\ flush["run"].took \in Amounts /\ flush["denials"].took \in Amounts
  BY InMemoryParts DEF Counts, CountsOK, Flushers, Flushes
<1>3. /\ lost' \in Amounts /\ lost'.use = lost.use + InMemory.use
      /\ \A i \in Instances : lost'.usage[i] = lost.usage[i] + InMemory.usage[i]
  BY <1>1, <1>2, PlusAmount
<1>4. CountsOK'
  BY <1>1, <1>3, ZeroAmount DEF Counts, CountsOK
<1>5. /\ InMemory.use = counted.use + (flush["run"].took.use + flush["denials"].took.use)
      /\ \A i \in Instances : InMemory.usage[i] =
           counted.usage[i] + (flush["run"].took.usage[i] + flush["denials"].took.usage[i])
  BY InMemoryParts DEF Counts
<1>6. flush'["run"].took = Zero /\ flush'["denials"].took = Zero
  BY <1>1, FlushStates
<1>7. stored'.use + counted'.use + flush'["run"].took.use + flush'["denials"].took.use + lost'.use
        = booked'.use
  BY <1>1, <1>2, <1>3, <1>5, <1>6, ZeroAmount, AmountParts DEF Counts, Balanced
<1>8. ASSUME NEW i \in Instances \ row'.purged
      PROVE  stored'.usage[i] + counted'.usage[i] + flush'["run"].took.usage[i]
               + flush'["denials"].took.usage[i] + lost'.usage[i] = booked'.usage[i]
  <2>1. /\ counted'.usage[i] = 0 /\ flush'["run"].took.usage[i] = 0
        /\ flush'["denials"].took.usage[i] = 0
    BY <1>1, <1>6, ZeroAmount
  <2>2. /\ stored.usage[i] \in Nat /\ lost.usage[i] \in Nat /\ counted.usage[i] \in Nat
        /\ flush["run"].took.usage[i] \in Nat /\ flush["denials"].took.usage[i] \in Nat
    BY <1>2, AmountParts
  <2>3. stored.usage[i] + counted.usage[i] + flush["run"].took.usage[i]
          + flush["denials"].took.usage[i] + lost.usage[i] = booked.usage[i]
    BY <1>1 DEF Counts, Balanced
  <2> QED BY <1>1, <1>3, <1>5, <2>1, <2>2, <2>3
<1> QED BY <1>4, <1>7, <1>8 DEF Counts, Balanced

\* The steps that count, move or drop nothing.
Idling == \/ EditToken \/ Invalidate \/ Reconcile
          \/ \E path \in {"term", "restart"} : BeginStop(path)
          \/ EndDrain \/ HandOff \/ StopServer \/ Adopt

LEMMA IdlingCounts == Idling => UNCHANGED <<row, countVars>>
BY DEF Idling, EditToken, Invalidate, Reconcile, ReadRows, EndReconcile, ReconcileRow, Reconciling,
       BeginStop, EndDrain, HandOff, StopServer, OfStop, Adopt, socketVars, countVars

LEMMA NextCases ==
    ASSUME Next
    PROVE  \/ \E q \in Requests : Handle(q) \/ \E i \in Instances : Accept(q, i)
           \/ \E f \in Flushers : Flush(f)
           \/ \E i \in Instances : DeleteInstance(i) \/ \E p \in Ports : SetPublicPort(i, p)
           \/ Exit \/ Crash
           \/ Idling
BY DEF Next, Stop, Idling

LEMMA NextCounts == Counts /\ [Next]_vars => Counts'
<1>1. ASSUME Counts, UNCHANGED <<row, countVars>> PROVE Counts'
  BY <1>1, BookCounts DEF countVars
<1>2. UNCHANGED vars => UNCHANGED <<row, countVars>>
  BY DEF vars, countVars
<1> QED BY <1>1, <1>2, NextCases, RequestCounts, FlushCounts, RowCounts, EndCounts, IdlingCounts
        DEF Exit, Crash

LEMMA InitCounts == Init => Counts
<1> SUFFICES ASSUME Init PROVE Counts
  OBVIOUS
<1>1. /\ counted = Zero /\ stored = Zero /\ booked = Zero /\ lost = Zero
      /\ flush["run"].took = Zero /\ flush["denials"].took = Zero
      /\ flush \in [Flushers -> Flushes] /\ \A f \in Flushers : flush[f].took = Zero
  BY FlushStates DEF Init, Flushers
<1>2. row \in [port : [Instances -> Nat], gone : SUBSET Instances, purged : SUBSET Instances]
  <2>0. FirstPort \in [Instances -> Ports \cup {0}] /\ Ports \cup {0} \subseteq Nat
    BY GatewayAssumption
  <2>1. FirstPort \in [Instances -> Nat]
    BY <2>0
  <2> QED BY <2>1 DEF Init
<1>3. Balanced
  BY <1>1, ZeroAmount DEF Balanced
<1> QED BY <1>1, <1>2, <1>3, ZeroAmount DEF Counts, CountsOK

\* All that was ever counted is in the tables, in memory, or died with a process.
THEOREM NothingTwice == Spec => []CountedOnce
BY InitCounts, NextCounts, CountsMeanOnce, PTL DEF Spec

-----------------------------------------------------------------------------
(* The token. What a request or the cache holds under the present epoch is *)
(* the row as it is, as soon as the edit that changed the row is answered: *)
(* the answer waits for the epoch to move.                                 *)

States == {"active", "disabled", "revoked"}

TokenOK ==
    /\ token \in [state : States, epoch : Nat \ {0}, answered : BOOLEAN]
    /\ cache \in [epoch : Nat, state : States \cup {"none"}]
    /\ request \in [Requests -> [pc : {"idle", "read", "store", "proxy"},
                                 inst : Instances \cup {"none"}, epoch : Nat,
                                 state : States \cup {"none"}, sure : BOOLEAN]]

Read(q) == At(q, "read") \/ At(q, "store")

CacheSound ==
    /\ cache.epoch <= token.epoch
    /\ cache.epoch = token.epoch /\ token.answered => cache.state = token.state

RequestSound == \A q \in Requests :
    /\ Read(q) => request[q].epoch <= token.epoch
    /\ At(q, "store") /\ request[q].epoch = token.epoch /\ token.answered
         => request[q].state = token.state
    /\ At(q, "read") /\ request[q].sure => token.state # "active"
    /\ At(q, "store") /\ request[q].sure => request[q].state # "active"

Refused == TokenOK /\ CacheSound /\ RequestSound /\ RevokedIsRefused

\* A step of one request.
LEMMA OneRequest ==
    ASSUME Refused, NEW q \in Requests, NEW r, Step(q, r), token' = token,
           r \in [pc : {"idle", "read", "store", "proxy"}, inst : Instances \cup {"none"},
                  epoch : Nat, state : States \cup {"none"}, sure : BOOLEAN],
           r.pc \in {"read", "store"} => r.epoch <= token.epoch,
           r.pc = "store" /\ r.epoch = token.epoch /\ token.answered => r.state = token.state,
           r.pc = "read" /\ r.sure => token.state # "active",
           r.pc = "store" /\ r.sure => r.state # "active",
           r.pc = "proxy" => ~r.sure,
           cache' = cache \/ (TokenOK' /\ CacheSound')
    PROVE  Refused'
<1>1. request'[q] = r /\ \A p \in Requests \ {q} : request'[p] = request[p]
  BY DEF Step, Refused, TokenOK
<1>2. TokenOK'
  BY DEF Step, Refused, TokenOK
<1>3. CacheSound'
  BY DEF Refused, CacheSound
<1>4. RequestSound'
  BY <1>1 DEF Refused, RequestSound, Read, At
<1>5. RevokedIsRefused'
  BY <1>1 DEF Refused, RevokedIsRefused, At
<1> QED BY <1>2, <1>3, <1>4, <1>5 DEF Refused

LEMMA RequestRefused ==
    ASSUME Refused, NEW q \in Requests, Handle(q) \/ \E i \in Instances : Accept(q, i)
    PROVE  Refused'
<1> DEFINE Fields == [pc : {"idle", "read", "store", "proxy"}, inst : Instances \cup {"none"},
                      epoch : Nat, state : States \cup {"none"}, sure : BOOLEAN]
<1> USE DEF tokenVars
<1>0. /\ request[q] \in Fields /\ NoRequest \in Fields /\ NoRequest.pc = "idle"
      /\ token \in [state : States, epoch : Nat \ {0}, answered : BOOLEAN]
  BY DEF Refused, TokenOK, NoRequest
<1>a. ASSUME Step(q, NoRequest), token' = token, cache' = cache \/ (TokenOK' /\ CacheSound')
      PROVE  Refused'
  BY <1>0, <1>a, OneRequest
<1>1. ASSUME NEW i \in Instances, Accept(q, i) PROVE Refused'
  <2> DEFINE sure == token.state # "active" /\ token.answered
             r == [NoRequest EXCEPT !.inst = i, !.epoch = token.epoch, !.sure = sure]
             asks == [r EXCEPT !.pc = "read"]
             passes == [r EXCEPT !.pc = "proxy", !.epoch = 0, !.state = "none"]
  <2>0. UNCHANGED <<token, cache>>
    BY <1>1 DEF Accept
  <2>1. sure \in BOOLEAN /\ (sure <=> token.state # "active" /\ token.answered)
    OBVIOUS
  <2> HIDE DEF sure
  <2>2. /\ asks \in Fields /\ asks.pc = "read" /\ asks.epoch = token.epoch /\ (asks.sure <=> sure)
        /\ passes \in Fields /\ passes.pc = "proxy" /\ (passes.sure <=> sure)
    BY <1>0, <2>1 DEF NoRequest
  <2>3. \/ cache.epoch # token.epoch /\ Step(q, asks)
        \/ cache.epoch = token.epoch /\ cache.state # "active" /\ Step(q, NoRequest)
        \/ cache.epoch = token.epoch /\ cache.state = "active" /\ Step(q, passes)
    BY <1>1 DEF Accept, Judged, sure
  <2> HIDE DEF asks, passes
  <2>4. CASE Step(q, asks)
    BY <1>0, <2>0, <2>1, <2>2, <2>4, OneRequest
  <2>5. CASE Step(q, NoRequest)
    BY <1>a, <2>0, <2>5
  <2>6. CASE cache.epoch = token.epoch /\ cache.state = "active" /\ Step(q, passes)
    <3>1. ~sure
      BY <2>1, <2>6 DEF Refused, CacheSound
    <3> QED BY <2>0, <2>2, <2>6, <3>1, OneRequest
  <2> QED BY <2>3, <2>4, <2>5, <2>6
<1>2. CASE ReadToken(q)
  <2> DEFINE r == [request[q] EXCEPT !.pc = "store", !.state = token.state]
  <2>0. UNCHANGED <<token, cache>> /\ At(q, "read")
    BY <1>2 DEF ReadToken
  <2>1. /\ r \in Fields /\ r.pc = "store" /\ r.epoch = request[q].epoch
        /\ r.state = token.state /\ r.sure = request[q].sure
    BY <1>0
  <2>2. Step(q, r) \/ Step(q, NoRequest)
    BY <1>2 DEF ReadToken
  <2> HIDE DEF r
  <2>3. CASE Step(q, r)
    <3>1. r.epoch <= token.epoch /\ (r.sure => r.state # "active")
      BY <2>0, <2>1 DEF Refused, RequestSound, Read
    <3> QED BY <2>0, <2>1, <2>3, <3>1, OneRequest
  <2>4. CASE Step(q, NoRequest)
    BY <1>a, <2>0, <2>4
  <2> QED BY <2>2, <2>3, <2>4
<1>3. CASE StoreEntry(q)
  <2> DEFINE passes == [request[q] EXCEPT !.pc = "proxy", !.epoch = 0, !.state = "none"]
  <2>0. /\ token' = token /\ At(q, "store")
        /\ cache' = [epoch |-> request[q].epoch, state |-> request[q].state]
    BY <1>3 DEF StoreEntry
  <2>1. /\ passes \in Fields /\ passes.pc = "proxy" /\ passes.sure = request[q].sure
    BY <1>0
  <2>2. CacheSound'
    BY <2>0 DEF Refused, RequestSound, Read, CacheSound
  <2>3. cache' \in [epoch : Nat, state : States \cup {"none"}]
    BY <1>0, <2>0
  <2>4. \/ request[q].state # "active" /\ Step(q, NoRequest)
        \/ request[q].state = "active" /\ Step(q, passes)
    BY <1>3 DEF StoreEntry, Judged
  <2> HIDE DEF passes
  <2>5. CASE Step(q, NoRequest)
    <3>1. TokenOK'
      BY <1>0, <2>0, <2>3, <2>5 DEF Step, Refused, TokenOK
    <3> QED BY <1>a, <2>0, <2>2, <2>5, <3>1
  <2>6. CASE request[q].state = "active" /\ Step(q, passes)
    <3>1. ~request[q].sure
      BY <2>0, <2>6 DEF Refused, RequestSound
    <3>2. TokenOK'
      BY <2>0, <2>1, <2>3, <2>6 DEF Step, Refused, TokenOK
    <3> QED BY <2>0, <2>1, <2>2, <2>6, <3>1, <3>2, OneRequest
  <2> QED BY <2>4, <2>5, <2>6
<1>4. CASE Finish(q)
  <2>1. Step(q, NoRequest) /\ UNCHANGED <<token, cache>>
    BY <1>4 DEF Finish
  <2> QED BY <1>a, <2>1
<1> QED BY <1>1, <1>2, <1>3, <1>4 DEF Handle

LEMMA EditRefused ==
    ASSUME Refused, EditToken \/ Invalidate
    PROVE  Refused'
<1>0. token \in [state : States, epoch : Nat \ {0}, answered : BOOLEAN]
  BY DEF Refused, TokenOK
<1>1. CASE EditToken
  <2>1. PICK s \in States :
          /\ token' = [token EXCEPT !.state = s, !.answered = FALSE]
          /\ request' = IF s = "active"
                        THEN [q \in Requests |-> [request[q] EXCEPT !.sure = FALSE]] ELSE request
    BY <1>1 DEF EditToken, States
  <2>2. /\ token' \in [state : States, epoch : Nat \ {0}, answered : BOOLEAN]
        /\ token'.state = s /\ ~token'.answered /\ token'.epoch = token.epoch /\ cache' = cache
    BY <1>0, <1>1, <2>1 DEF EditToken
  <2>3. CASE s = "active"
    <3>1. \A q \in Requests :
            /\ request'[q] = [request[q] EXCEPT !.sure = FALSE]
            /\ request'[q].pc = request[q].pc /\ request'[q].epoch = request[q].epoch
            /\ ~request'[q].sure
      <4>1. request' = [q \in Requests |-> [request[q] EXCEPT !.sure = FALSE]]
        BY <2>1, <2>3
      <4> QED
        <5> TAKE q \in Requests
        <5>1. request'[q] = [request[q] EXCEPT !.sure = FALSE]
          BY <4>1
        <5>2. request[q] \in [pc : {"idle", "read", "store", "proxy"}, inst : Instances \cup {"none"},
                             epoch : Nat, state : States \cup {"none"}, sure : BOOLEAN]
          BY DEF Refused, TokenOK
        <5> QED BY <5>1, <5>2
    <3>2. TokenOK'
      <4>1. request' = [q \in Requests |-> [request[q] EXCEPT !.sure = FALSE]]
        BY <2>1, <2>3
      <4>2. \A q \in Requests : [request[q] EXCEPT !.sure = FALSE]
              \in [pc : {"idle", "read", "store", "proxy"}, inst : Instances \cup {"none"},
                   epoch : Nat, state : States \cup {"none"}, sure : BOOLEAN]
        BY DEF Refused, TokenOK
      <4> QED BY <2>2, <4>1, <4>2 DEF Refused, TokenOK
    <3> QED BY <2>2, <3>1, <3>2 DEF Refused, CacheSound, RequestSound, RevokedIsRefused, Read, At
  <2>4. CASE s # "active"
    <3>1. request' = request
      BY <2>1, <2>4
    <3> QED BY <2>2, <2>4, <3>1
            DEF Refused, TokenOK, CacheSound, RequestSound, RevokedIsRefused, Read, At
  <2> QED BY <2>3, <2>4
<1>2. CASE Invalidate
  <2> DEFINE next == token.epoch + 1
  <2>1. next \in Nat \ {0} /\ next > token.epoch
    BY <1>0
  <2>2. token' = [token EXCEPT !.epoch = next, !.answered = TRUE] /\ UNCHANGED <<cache, request>>
    BY <1>2 DEF Invalidate
  <2> HIDE DEF next
  <2>3. /\ token' \in [state : States, epoch : Nat \ {0}, answered : BOOLEAN]
        /\ token'.state = token.state /\ token'.epoch = next
    BY <1>0, <2>1, <2>2
  <2>4. \A e \in Nat : e <= token.epoch => e <= next /\ e # next
    BY <1>0, <2>1
  <2>5. cache.epoch \in Nat /\ \A q \in Requests : request[q].epoch \in Nat
    BY DEF Refused, TokenOK
  <2> QED BY <2>2, <2>3, <2>4, <2>5
          DEF Refused, TokenOK, CacheSound, RequestSound, RevokedIsRefused, Read, At
<1> QED BY <1>1, <1>2

LEMMA RestRefused ==
    ASSUME Refused, UNCHANGED <<token, cache, request>> \/ Ends
    PROVE  Refused'
<1>1. CASE UNCHANGED <<token, cache, request>>
  BY <1>1 DEF Refused, TokenOK, CacheSound, RequestSound, RevokedIsRefused, Read, At
<1>2. CASE Ends
  <2>1. /\ token' = [token EXCEPT !.epoch = 1, !.answered = TRUE]
        /\ cache' = [epoch |-> 0, state |-> "none"]
        /\ request' = [q \in Requests |-> NoRequest]
    BY <1>2 DEF Ends
  <2>2. token'.epoch = 1 /\ TokenOK'
    <3>1. /\ token' \in [state : States, epoch : Nat \ {0}, answered : BOOLEAN]
          /\ token'.epoch = 1
      <4>1. token \in [state : States, epoch : Nat \ {0}, answered : BOOLEAN]
        BY DEF Refused, TokenOK
      <4>2. 1 \in Nat \ {0} /\ TRUE \in BOOLEAN
        OBVIOUS
      <4> QED BY <2>1, <4>1, <4>2
    <3>2. NoRequest \in [pc : {"idle", "read", "store", "proxy"},
                         inst : Instances \cup {"none"}, epoch : Nat,
                         state : States \cup {"none"}, sure : BOOLEAN]
      BY DEF NoRequest
    <3> QED BY <2>1, <3>1, <3>2 DEF TokenOK
  <2>3. \A q \in Requests : request'[q].pc = "idle"
    BY <2>1 DEF NoRequest
  <2> QED BY <2>1, <2>2, <2>3 DEF Refused, CacheSound, RequestSound, RevokedIsRefused, Read, At
<1> QED BY <1>1, <1>2

LEMMA NextRefused == Refused /\ [Next]_vars => Refused'
<1>1. ASSUME NEW f \in Flushers, Flush(f) PROVE UNCHANGED <<token, cache, request>>
  BY <1>1 DEF Flush, Drain, WriteUsage, WriteFails, TouchTokens, FlushOnly, tokenVars
<1>2. ASSUME NEW i \in Instances, DeleteInstance(i) \/ \E p \in Ports : SetPublicPort(i, p)
      PROVE  UNCHANGED <<token, cache, request>>
  BY <1>2 DEF DeleteInstance, SetPublicPort, RowOnly, tokenVars
<1>3. ASSUME Idling PROVE EditToken \/ Invalidate \/ UNCHANGED <<token, cache, request>>
  BY <1>3 DEF Idling, Reconcile, ReadRows, EndReconcile, ReconcileRow, Reconciling, BeginStop,
              EndDrain, HandOff, StopServer, OfStop, Adopt, tokenVars, requestVars
<1>4. UNCHANGED vars => UNCHANGED <<token, cache, request>>
  BY DEF vars
<1> QED BY <1>1, <1>2, <1>3, <1>4, NextCases, RequestRefused, EditRefused, RestRefused
        DEF Exit, Crash

LEMMA InitRefused == Init => Refused
<1> SUFFICES ASSUME Init PROVE Refused
  OBVIOUS
<1>1. \A q \in Requests : request[q].pc = "idle"
  BY DEF Init, NoRequest
<1>2. TokenOK
  BY DEF Init, TokenOK, NoRequest, States
<1> QED BY <1>1, <1>2 DEF Init, Refused, CacheSound, RequestSound, RevokedIsRefused, Read, At

\* A request that began after a revocation was answered never reaches an upstream.
THEOREM RevocationHolds == Spec => []RevokedIsRefused
<1>1. Refused => RevokedIsRefused
  BY DEF Refused
<1> QED BY <1>1, InitRefused, NextRefused, PTL DEF Spec

-----------------------------------------------------------------------------
(* The restart. Nothing cuts the context of Run before the last request is *)
(* over, and the flush that follows takes everything.                      *)

DaemonOK ==
    /\ daemon \in [phase : {"boot", "up", "draining", "drained", "handed", "closed"},
                   path : {"none", "term", "restart"}, done : BOOLEAN, late : BOOLEAN, since : Nat]
    /\ faults \in Nat /\ daemon.since <= faults

\* No transaction, bind or store failed since the boot, no request outlived the drain.
Fortunate == /\ daemon.path = "restart" /\ ~daemon.late /\ daemon.since = faults
             /\ row.purged = {}

Run == flush["run"]
Last == Run.final \/ Run.pc = "ended"

CutLate == /\ daemon.phase \in {"boot", "up"} => ~daemon.done
           /\ daemon.path = "restart" /\ daemon.done => daemon.phase = "closed"
Drained == Fortunate /\ daemon.phase \in {"drained", "handed", "closed"}
             => \A q \in Requests : At(q, "idle")
Alone   == daemon.phase = "closed" => Phase("denials", "idle")
Final   == Last => daemon.done
Emptied == Fortunate =>
             /\ Run.final /\ Run.pc = "write" => Usage(counted) = Zero
             /\ Run.final /\ Run.pc = "touch" => counted = Zero
             /\ Run.pc = "ended" => counted = Zero

Orderly == DaemonOK /\ CutLate /\ Drained /\ Alone /\ Final /\ Emptied

\* A step other than the end of the process or the beginning of a stop: what has
\* gone wrong stays wrong.
LEMMA DaemonSteps ==
    ASSUME CountsOK, Orderly, Next, ~Exit, ~Crash, \A path \in {"term", "restart"} : ~BeginStop(path)
    PROVE  /\ DaemonOK'
           /\ daemon'.path = daemon.path
           /\ Fortunate' => Fortunate /\ faults' = faults
<1>0. /\ daemon \in [phase : {"boot", "up", "draining", "drained", "handed", "closed"},
                     path : {"none", "term", "restart"}, done : BOOLEAN, late : BOOLEAN, since : Nat]
      /\ faults \in Nat /\ daemon.since <= faults
  BY DEF Orderly, DaemonOK
<1>1. faults' = faults \/ faults' = faults + 1
  BY DEF Next, EditToken, Invalidate, Handle, ReadToken, StoreEntry, Finish, OfRequest, Accept, Flush, Drain,
         WriteUsage, WriteFails, TouchTokens, DeleteInstance, SetPublicPort, Reconcile, ReadRows,
         ReconcileRow, EndReconcile, Stop, EndDrain, HandOff, StopServer, Adopt, Calm, Fault, Click
<1>2. row.purged # {} => row'.purged # {}
  <2>1. ASSUME NEW i \in Instances, DeleteInstance(i) \/ \E p \in Ports : SetPublicPort(i, p)
        PROVE  row.purged \subseteq row'.purged
    BY <2>1 DEF DeleteInstance, SetPublicPort, CountsOK
  <2>2. ASSUME NEW q \in Requests, Handle(q) \/ \E i \in Instances : Accept(q, i) PROVE row' = row
    BY <2>2 DEF Handle, ReadToken, StoreEntry, Finish, OfRequest, Accept, socketVars
  <2>3. ASSUME NEW f \in Flushers, Flush(f) PROVE row' = row
    BY <2>3, FlushMoves
  <2> QED BY <2>1, <2>2, <2>3, NextCases, IdlingCounts
<1>3. /\ daemon'.path = daemon.path /\ daemon'.since = daemon.since
      /\ daemon.late => daemon'.late
      /\ daemon' \in [phase : {"boot", "up", "draining", "drained", "handed", "closed"},
                      path : {"none", "term", "restart"}, done : BOOLEAN, late : BOOLEAN, since : Nat]
  <2>1. \/ daemon' = daemon
        \/ \E b \in BOOLEAN : daemon' = [daemon EXCEPT !.late = daemon.late \/ b]
        \/ \E b \in BOOLEAN : daemon' = [daemon EXCEPT !.phase = "drained", !.late = daemon.late \/ b]
        \/ daemon' = [daemon EXCEPT !.phase = "handed"]
        \/ daemon' = [daemon EXCEPT !.phase = "closed", !.done = TRUE]
        \/ daemon' = [daemon EXCEPT !.phase = "up"]
    <3>1. ASSUME NEW q \in Requests, NEW i \in Instances, Accept(q, i)
          PROVE  \E b \in BOOLEAN : daemon' = [daemon EXCEPT !.late = daemon.late \/ b]
      <4>1. daemon' = [daemon EXCEPT !.late = daemon.late \/ (daemon.phase # "up")]
        BY <3>1 DEF Accept
      <4>2. (daemon.phase # "up") \in BOOLEAN
        OBVIOUS
      <4> QED BY <4>1, <4>2
    <3>2. ASSUME NEW q \in Requests, Handle(q) PROVE daemon' = daemon
      BY <3>2 DEF Handle, ReadToken, StoreEntry, Finish, OfRequest
    <3>3. ASSUME NEW f \in Flushers, Flush(f) PROVE daemon' = daemon
      BY <3>3 DEF Flush, Drain, WriteUsage, WriteFails, TouchTokens, FlushOnly
    <3>4. ASSUME NEW i \in Instances, DeleteInstance(i) \/ \E p \in Ports : SetPublicPort(i, p)
          PROVE  daemon' = daemon
      BY <3>4 DEF DeleteInstance, SetPublicPort, RowOnly
    <3>5. CASE EditToken \/ Invalidate \/ Reconcile
      BY <3>5 DEF EditToken, Invalidate, Reconcile, ReadRows, ReconcileRow, EndReconcile, Reconciling
    <3>6. CASE EndDrain
      <4>1. daemon' = [daemon EXCEPT !.phase = "drained",
                         !.late = daemon.late \/ (\E q \in Requests : ~At(q, "idle"))]
        BY <3>6 DEF EndDrain
      <4>2. (\E q \in Requests : ~At(q, "idle")) \in BOOLEAN
        OBVIOUS
      <4> QED BY <4>1, <4>2
    <3>7. CASE HandOff \/ StopServer \/ Adopt
      BY <3>7 DEF HandOff, StopServer, Adopt
    <3> QED BY <3>1, <3>2, <3>3, <3>4, <3>5, <3>6, <3>7, NextCases DEF Idling
  <2> QED BY <1>0, <2>1
<1>4. Fortunate' => Fortunate /\ faults' = faults
  BY <1>0, <1>1, <1>2, <1>3 DEF Fortunate
<1>5. daemon'.since <= faults' /\ faults' \in Nat
  BY <1>0, <1>1, <1>3
<1> QED BY <1>3, <1>4, <1>5 DEF DaemonOK

LEMMA RequestOrderly ==
    ASSUME CountsOK, Orderly, Next, ~Exit, ~Crash,
           \A path \in {"term", "restart"} : ~BeginStop(path),
           NEW q \in Requests, Handle(q) \/ \E i \in Instances : Accept(q, i)
    PROVE  Orderly'
<1> USE DEF Orderly
<1>0. /\ DaemonOK' /\ (Fortunate' => Fortunate)
      /\ daemon \in [phase : {"boot", "up", "draining", "drained", "handed", "closed"},
                     path : {"none", "term", "restart"}, done : BOOLEAN, late : BOOLEAN, since : Nat]
  BY DaemonSteps DEF DaemonOK
<1>1. /\ flush' = flush /\ daemon'.phase = daemon.phase /\ daemon'.done = daemon.done
      /\ daemon'.path = daemon.path
      /\ Fortunate' /\ daemon.phase \in {"drained", "handed", "closed"} => FALSE
  <2>1. ASSUME NEW i \in Instances, Accept(q, i)
        PROVE  /\ flush' = flush
               /\ daemon' = [daemon EXCEPT !.late = daemon.late \/ (daemon.phase # "up")]
    BY <2>1, JudgedBooks DEF Accept, countVars
  <2>2. CASE \E i \in Instances : Accept(q, i)
    <3>1. daemon' = [daemon EXCEPT !.late = daemon.late \/ (daemon.phase # "up")] /\ flush' = flush
      BY <2>1, <2>2
    <3>2. daemon.phase # "up" => daemon'.late
      BY <1>0, <3>1
    <3> QED BY <1>0, <3>1, <3>2 DEF Fortunate
  <2>3. CASE Handle(q)
    <3>1. ~At(q, "idle") /\ daemon' = daemon /\ flush' = flush
      BY <2>3, JudgedBooks DEF Handle, ReadToken, StoreEntry, Finish, At, OfRequest, countVars
    <3> QED BY <1>0, <3>1 DEF Drained
  <2> QED BY <2>2, <2>3
<1>2. CutLate' /\ Alone' /\ Final'
  BY <1>1 DEF CutLate, Alone, Final, Last, Run, Phase
<1>3. Drained'
  BY <1>1 DEF Drained
<1>4. Emptied'
  <2> SUFFICES ASSUME Fortunate', Last' PROVE FALSE
    BY DEF Emptied, Last, Run
  <2> QED BY <1>0, <1>1 DEF Last, Run, Final, CutLate, Fortunate
<1> QED BY <1>0, <1>2, <1>3, <1>4

LEMMA FlushOrderly ==
    ASSUME CountsOK, Orderly, Next, ~Exit, ~Crash,
           \A path \in {"term", "restart"} : ~BeginStop(path),
           NEW f \in Flushers, Flush(f)
    PROVE  Orderly'
<1> USE DEF Orderly
<1>0. DaemonOK' /\ (Fortunate' => Fortunate /\ faults' = faults) /\ faults \in Nat
  BY DaemonSteps DEF DaemonOK
<1>1. daemon' = daemon /\ request' = request
  BY DEF Flush, Drain, WriteUsage, WriteFails, TouchTokens, FlushOnly
<1>2. CutLate' /\ Drained'
  BY <1>0, <1>1 DEF CutLate, Drained, At
<1>3. CASE f = "denials"
  <2>1. daemon.phase # "closed"
    BY <1>3 DEF Flush, Drain, WriteUsage, WriteFails, TouchTokens, Alone, Phase, MayFlush, Up
  <2>2. Run' = Run
    BY <1>3, FlushMoves DEF Run, Flushers
  <2>3. Final' /\ Alone'
    BY <1>1, <2>1, <2>2 DEF Final, Alone, Last
  <2>4. Emptied'
    BY <1>0, <2>1, <2>2 DEF Emptied, Final, Last, CutLate, Fortunate
  <2> QED BY <1>0, <1>2, <2>3, <2>4
<1>4. CASE f = "run"
  <2>1. flush'["denials"] = flush["denials"]
    BY <1>4, FlushMoves DEF Flushers
  <2>2. Alone'
    BY <1>1, <2>1 DEF Alone, Phase
  <2>a. /\ flush \in [Flushers -> Flushes] /\ "run" \in Flushers /\ Run \in Flushes
        /\ Run.final \in BOOLEAN /\ counted \in Amounts /\ daemon.done \in BOOLEAN
    BY DEF CountsOK, Run, Flushers, Flushes, DaemonOK
  <2>b. ASSUME NEW memory, NEW final \in BOOLEAN, AndUses("run", final, memory)
        PROVE  \/ /\ memory.use > 0 /\ counted' = Usage(memory)
                  /\ Run'.pc = "touch" /\ Run'.final = final
               \/ /\ (memory.use > 0 => ~final) /\ counted' = memory
                  /\ Run'.pc = (IF final THEN "ended" ELSE "idle") /\ ~Run'.final
    <3>1. \A t : [pc |-> "touch", took |-> t, final |-> final].final = final
      OBVIOUS
    <3>2. ~Over(final).final /\ Over(final).pc = IF final THEN "ended" ELSE "idle"
      BY DEF Over, NoFlush
    <3> QED BY <2>a, <2>b, <3>1, <3>2 DEF AndUses, Run
  <2>3. CASE Drain("run")
    <3> DEFINE final == daemon.done
    <3>1. \/ Usage(counted) = Zero /\ AndUses("run", final, counted)
          \/ /\ counted' = Uses(counted)
             /\ Run'.pc = "write" /\ Run'.final = final
      <4>1. \A t : [pc |-> "write", took |-> t, final |-> final].final = final
        OBVIOUS
      <4> QED BY <2>3, <2>a, <4>1 DEF Drain, Run
    <3>2. CASE Usage(counted) = Zero /\ AndUses("run", final, counted)
      <4>1. counted.use = 0 => counted = Zero
        <5>1. counted.use = 0 => \A i \in Instances : counted.usage[i] = 0
          BY <2>a, <3>2, Halves, ZeroAmount
        <5> QED BY <2>a, <5>1, SameAmount, ZeroAmount
      <4>2. counted.use \in Nat
        BY <2>a, AmountParts
      <4> QED BY <1>0, <1>1, <1>2, <2>2, <2>a, <2>b, <3>2, <4>1, <4>2 DEF Final, Last, Emptied
    <3>3. CASE counted' = Uses(counted) /\ Run'.pc = "write" /\ Run'.final = final
      <4>1. Usage(Uses(counted)) = Zero
        <5> DEFINE uses == Uses(counted)
        <5>1. uses \in Amounts /\ \A i \in Instances : uses.usage[i] = 0
          BY <2>a, Halves
        <5> HIDE DEF uses
        <5>2. Usage(uses) \in Amounts /\ Usage(uses).use = 0 /\ Usage(uses).usage = uses.usage
          BY <5>1, Halves
        <5> QED BY <5>1, <5>2, SameAmount, ZeroAmount DEF uses
      <4> QED BY <1>0, <1>1, <1>2, <2>2, <3>3, <4>1 DEF Final, Last, Emptied
    <3> QED BY <3>1, <3>2, <3>3
  <2>4. CASE WriteUsage("run")
    <3>1. Run.pc = "write" /\ AndUses("run", Run.final, counted)
      BY <2>4 DEF WriteUsage, Phase, Run
    <3>2. Fortunate /\ Run.final => Usage(counted) = Zero
      BY <3>1 DEF Emptied
    <3>3. Usage(counted) = Zero /\ counted.use = 0 => counted = Zero
      <4>0. Usage(counted).usage = counted.usage
        BY <2>a, Halves
      <4>1. Usage(counted) = Zero => \A i \in Instances : counted.usage[i] = 0
        BY <4>0, ZeroAmount
      <4> QED BY <2>a, <4>1, SameAmount, ZeroAmount
    <3>4. counted.use \in Nat
      BY <2>a, AmountParts
    <3> QED BY <1>0, <1>1, <1>2, <2>2, <2>a, <2>b, <3>1, <3>2, <3>3, <3>4
            DEF Final, Last, Emptied
  <2>5. CASE WriteFails("run")
    <3>1. /\ IF Broken("run") \/ CutOff("run") THEN Calm ELSE Fault
          /\ \/ Run.final /\ AndUses("run", TRUE, Restore(Run.took))
             \/ ~Run.final /\ flush' = [flush EXCEPT !["run"] = NoFlush]
      BY <2>5 DEF WriteFails, Run
    <3>2. CASE Run.final /\ AndUses("run", TRUE, Restore(Run.took))
      <4>1. ~CutOff("run")
        BY <3>2 DEF CutOff, Run
      <4>2. Broken("run") => row.purged # {}
        BY DEF Broken
      <4>3. ~Fortunate'
        BY <1>0, <3>1, <4>1, <4>2 DEF Fortunate, Fault
      <4> QED BY <1>0, <1>1, <1>2, <2>2, <3>2, <4>3 DEF Final, Last, Emptied
    <3>3. CASE flush' = [flush EXCEPT !["run"] = NoFlush]
      <4>1. Run'.pc = "idle" /\ ~Run'.final
        BY <2>a, <3>3 DEF Run, NoFlush
      <4> QED BY <1>0, <1>2, <2>2, <4>1 DEF Final, Last, Emptied
    <3> QED BY <3>1, <3>2, <3>3
  <2>6. CASE TouchTokens("run")
    <3>1. /\ Run.pc = "touch" /\ Run' = Over(Run.final)
          /\ \/ counted' = counted
             \/ IF CutOff("run") THEN Calm ELSE Fault
      BY <2>6, <2>a DEF TouchTokens, Phase, Run
    <3>2. ~Run'.final /\ Run'.pc = IF Run.final THEN "ended" ELSE "idle"
      BY <3>1 DEF Over, NoFlush
    <3>3. Fortunate' /\ Run.final => counted' = Zero
      BY <1>0, <3>1 DEF Emptied, CutOff, Fault, Run
    <3> QED BY <1>0, <1>1, <1>2, <2>2, <3>2, <3>3 DEF Final, Last, Emptied
  <2> QED BY <1>4, <2>3, <2>4, <2>5, <2>6 DEF Flush
<1> QED BY <1>3, <1>4 DEF Flushers

\* A request to stop, and an edit of the token, of a row or of the listeners.
LEMMA OtherOrderly ==
    ASSUME CountsOK, TokenOK, Orderly, Next, ~Exit, ~Crash,
           \/ Idling
           \/ \E i \in Instances : DeleteInstance(i) \/ \E p \in Ports : SetPublicPort(i, p)
    PROVE  Orderly'
<1> USE DEF Orderly
<1>0. daemon \in [phase : {"boot", "up", "draining", "drained", "handed", "closed"},
                  path : {"none", "term", "restart"}, done : BOOLEAN, late : BOOLEAN, since : Nat]
  BY DEF DaemonOK
<1>1. UNCHANGED <<counted, flush>>
  <2>1. ASSUME NEW i \in Instances, DeleteInstance(i) \/ \E p \in Ports : SetPublicPort(i, p)
        PROVE  UNCHANGED <<counted, flush>>
    BY <2>1 DEF DeleteInstance, SetPublicPort
  <2> QED BY <2>1, IdlingCounts DEF countVars
<1>2. \A q \in Requests : request'[q].pc = request[q].pc
  <2>1. CASE EditToken
    BY <2>1 DEF EditToken, TokenOK
  <2>2. CASE ~EditToken
    <3>1. request' = request
      BY <2>2 DEF Idling, Invalidate, Reconcile, ReadRows, EndReconcile, ReconcileRow, Reconciling,
                  BeginStop, EndDrain, HandOff, StopServer, OfStop, Adopt, requestVars,
                  DeleteInstance, SetPublicPort, RowOnly
    <3> QED BY <3>1
  <2> QED BY <2>1, <2>2
<1>3. ASSUME NEW path \in {"term", "restart"}, BeginStop(path) PROVE Orderly'
  <2>1. /\ daemon' = [daemon EXCEPT !.phase = "draining", !.path = path, !.done = path = "term"]
        /\ daemon.phase = "up" /\ faults' = faults /\ row' = row
    BY <1>3 DEF BeginStop, OfStop, Click
  <2>2. (path = "term") \in BOOLEAN
    OBVIOUS
  <2>3. /\ DaemonOK' /\ daemon'.phase = "draining" /\ daemon'.path = path
        /\ (daemon'.done <=> path = "term")
    BY <1>0, <2>1, <2>2 DEF DaemonOK
  <2>4. ~Last' /\ ~Last
    BY <1>1, <2>1 DEF Final, CutLate, Last, Run
  <2> QED BY <1>1, <2>3, <2>4 DEF CutLate, Drained, Alone, Final, Emptied, Last, Run
<1>4. ASSUME \A path \in {"term", "restart"} : ~BeginStop(path) PROVE Orderly'
  <2>1. DaemonOK' /\ daemon'.path = daemon.path /\ (Fortunate' => Fortunate)
    BY <1>4, DaemonSteps
  <2>2. Emptied'
    BY <1>1, <2>1 DEF Emptied, Run
  <2>3. CASE UNCHANGED daemon
    BY <1>1, <1>2, <2>1, <2>2, <2>3 DEF CutLate, Drained, Alone, Final, Last, Run, Phase, At
  <2>4. CASE EndDrain
    <3>1. daemon' = [daemon EXCEPT !.phase = "drained",
                       !.late = daemon.late \/ (\E q \in Requests : ~At(q, "idle"))]
      BY <2>4 DEF EndDrain
    <3>2. (\E q \in Requests : ~At(q, "idle")) \in BOOLEAN /\ daemon.phase = "draining"
      BY <2>4 DEF EndDrain
    <3>3. /\ daemon'.phase = "drained" /\ (daemon'.done <=> daemon.done)
          /\ ~daemon'.late => \A q \in Requests : At(q, "idle")
      BY <1>0, <3>1, <3>2
    <3>4. Drained'
      BY <1>2, <3>3 DEF Drained, Fortunate, At
    <3> QED BY <1>1, <2>1, <2>2, <3>2, <3>3, <3>4 DEF CutLate, Alone, Final, Last, Run
  <2>5. CASE HandOff
    <3>1. daemon.phase = "drained" /\ daemon' = [daemon EXCEPT !.phase = "handed"]
      BY <2>5 DEF HandOff
    <3>2. daemon'.phase = "handed" /\ (daemon'.done <=> daemon.done)
      BY <1>0, <3>1
    <3> QED BY <1>1, <1>2, <2>1, <2>2, <3>1, <3>2
            DEF CutLate, Drained, Alone, Final, Last, Run, At
  <2>6. CASE StopServer
    <3>1. /\ daemon.phase = "handed" /\ Phase("denials", "idle")
          /\ daemon' = [daemon EXCEPT !.phase = "closed", !.done = TRUE]
      BY <2>6 DEF StopServer
    <3>2. daemon'.phase = "closed" /\ daemon'.done
      BY <1>0, <3>1
    <3> QED BY <1>1, <1>2, <2>1, <2>2, <3>1, <3>2
            DEF CutLate, Drained, Alone, Final, Phase, At
  <2>7. CASE Adopt
    <3>1. daemon.phase = "boot" /\ daemon' = [daemon EXCEPT !.phase = "up"]
      BY <2>7 DEF Adopt
    <3>2. daemon'.phase = "up" /\ (daemon'.done <=> daemon.done)
      BY <1>0, <3>1
    <3> QED BY <1>1, <2>1, <2>2, <3>1, <3>2 DEF CutLate, Drained, Alone, Final, Last, Run
  <2> QED BY <1>4, <2>3, <2>4, <2>5, <2>6, <2>7
          DEF Idling, EditToken, Invalidate, Reconcile, ReadRows, EndReconcile, ReconcileRow,
              Reconciling, DeleteInstance, SetPublicPort, RowOnly
<1> QED BY <1>3, <1>4

LEMMA EndOrderly ==
    ASSUME CountsOK, Orderly, Exit \/ Crash
    PROVE  Orderly'
<1> USE DEF Orderly
<1>1. /\ daemon' = [Began EXCEPT !.since = faults'] /\ faults' \in Nat
      /\ flush'["run"] = NoFlush /\ flush'["denials"] = NoFlush
  BY DEF Exit, Crash, Ends, Fault, Calm, DaemonOK, Flushers
<1>a. Began \in [phase : {"boot"}, path : {"none"}, done : {FALSE}, late : {FALSE}, since : Nat]
  BY DEF Began
<1>b. \A n \in Nat : [Began EXCEPT !.since = n] \in
        [phase : {"boot"}, path : {"none"}, done : {FALSE}, late : {FALSE}, since : {n}]
  BY <1>a
<1>c. daemon' \in
        [phase : {"boot"}, path : {"none"}, done : {FALSE}, late : {FALSE}, since : {faults'}]
  BY <1>1, <1>b
<1>d. /\ daemon'.phase = "boot" /\ daemon'.path = "none" /\ ~daemon'.done
      /\ daemon'.since = faults'
  BY <1>c
<1>2. /\ DaemonOK' /\ daemon'.phase = "boot" /\ daemon'.path = "none" /\ ~daemon'.done
  <2>1. faults' \in Nat /\ faults' <= faults'
    BY <1>1
  <2>2. daemon' \in [phase : {"boot", "up", "draining", "drained", "handed", "closed"},
                     path : {"none", "term", "restart"}, done : BOOLEAN, late : BOOLEAN,
                     since : Nat]
    BY <1>c, <2>1
  <2>3. daemon'.since <= faults'
    BY <1>d, <2>1
  <2>4. DaemonOK'
    BY <2>1, <2>2, <2>3 DEF DaemonOK
  <2> QED BY <1>d, <2>4
<1>3. Run'.pc = "idle" /\ ~Run'.final
  BY <1>1 DEF Run, NoFlush
<1> QED BY <1>2, <1>3 DEF CutLate, Drained, Alone, Final, Last, Emptied

LEMMA NextOrderly == CountsOK /\ TokenOK /\ Orderly /\ [Next]_vars => Orderly'
<1>1. ASSUME Orderly, UNCHANGED vars PROVE Orderly'
  BY <1>1 DEF vars, Orderly, DaemonOK, CutLate, Drained, Alone, Final, Last, Run, Emptied,
              Fortunate, Phase, At
<1>2. ASSUME CountsOK, TokenOK, Orderly, Next PROVE Orderly'
  <2>1. CASE Exit \/ Crash
    BY <1>2, <2>1, EndOrderly
  <2>2. CASE ~Exit /\ ~Crash /\ \E path \in {"term", "restart"} : BeginStop(path)
    <3>1. Idling
      BY <2>2 DEF Idling
    <3> QED BY <1>2, <2>2, <3>1, OtherOrderly
  <2>3. CASE /\ ~Exit /\ ~Crash
             /\ \A path \in {"term", "restart"} : ~BeginStop(path)
    BY <1>2, <2>3, NextCases, RequestOrderly, FlushOrderly, OtherOrderly
  <2> QED BY <2>1, <2>2, <2>3
<1> QED BY <1>1, <1>2

LEMMA InitOrderly == Init => Orderly
<1> SUFFICES ASSUME Init PROVE Orderly
  OBVIOUS
<1>1. /\ DaemonOK /\ daemon.phase = "boot" /\ daemon.path = "none" /\ ~daemon.done
  BY DEF Init, Began, DaemonOK
<1>2. Run.pc = "idle" /\ ~Run.final
  BY DEF Init, Run, Flushers, NoFlush
<1> QED BY <1>1, <1>2 DEF Orderly, CutLate, Drained, Alone, Final, Last, Emptied

LEMMA ExitLosesNothing ==
    ASSUME CountsOK, Orderly, Exit, Fortunate
    PROVE  lost' = lost
<1>1. daemon.phase = "closed" /\ Run.pc = "ended" /\ lost' = Plus(lost, InMemory)
  BY DEF Exit, Ends, Phase, Run
<1>2. counted = Zero /\ flush["run"].took = Zero /\ flush["denials"].took = Zero
  BY <1>1 DEF Orderly, Emptied, Alone, Phase, CountsOK, Flushers, Run
<1>3. /\ InMemory \in Amounts /\ InMemory.use = 0 /\ \A i \in Instances : InMemory.usage[i] = 0
  BY <1>2, InMemoryParts, ZeroAmount
<1>4. lost \in Amounts
  BY DEF CountsOK
<1>5. /\ Plus(lost, InMemory) \in Amounts /\ Plus(lost, InMemory).use = lost.use
      /\ \A i \in Instances : Plus(lost, InMemory).usage[i] = lost.usage[i]
  BY <1>3, <1>4, PlusAmount, AmountParts
<1> QED BY <1>1, <1>4, <1>5, SameAmount

\* A restart from the UI or for an update loses no count, unless a transaction failed
\* or a request outlived the drain.
THEOREM RestartKeepsCounts == Spec => RestartLosesNothing
<1>1. Counts /\ Refused /\ Orderly /\ [Next]_vars => (Counts /\ Refused /\ Orderly)'
  BY NextCounts, NextRefused, NextOrderly DEF Counts, Refused
<1>2. Counts /\ Orderly /\ [Next]_vars =>
        [Exit /\ daemon.path = "restart" /\ ~daemon.late /\ daemon.since = faults
           /\ row.purged = {} => lost' = lost]_vars
  BY ExitLosesNothing DEF Counts, Fortunate
<1> QED BY <1>1, <1>2, InitCounts, InitRefused, InitOrderly, PTL DEF Spec, RestartLosesNothing

=============================================================================
