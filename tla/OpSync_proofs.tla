---------------------------- MODULE OpSync_proofs ----------------------------
(***************************************************************************)
(* The operations of OpSync, for any household: any number of devices, of  *)
(* articles and of gestures, any sequence of losses and restarts, answers  *)
(* overtaking one another or not.  First which operations the server       *)
(* executes, and what the clients believe of it; then what they do to the  *)
(* articles, on the server (ScreenInv) and on the screens (PendingInv); in *)
(* between, what a full journal forgets.                                   *)
(*                                                                         *)
(* A batch or a queue is applied by a fold in the order of the gestures.   *)
(* No theorem of the library gives an induction over it: its intermediate  *)
(* results are laid out in a table indexed by the naturals (ApplySteps,    *)
(* RunSteps), and the induction is one on a set of naturals (Ups).         *)
(***************************************************************************)
EXTENDS OpSync, FiniteSetTheorems, WellFoundedInduction, TLAPS

\* An action that leaves the queues, the batches and the server's books alone.
Elsewhere == UNCHANGED <<row, lastRow, queue, flight, stray, issued, executed, refused>>

LEMMA ElsewhereKeeps ==
    ASSUME OpsTyped, OpInv, Elsewhere
    PROVE  OpsTyped' /\ OpInv'
BY DEF Elsewhere, OpsTyped, OpInv, JournalHonest, QueueOwned, OnlyIssued, NoGestureLost,
       AnswersHonest, BatchesClosed, Closed, InIssueOrder, Settled

-----------------------------------------------------------------------------
(***************************************************************************)
(* The server executes a batch.                                            *)
(***************************************************************************)

\* An operation set is never larger than the journal that has room for all.
LEMMA RoomForAll ==
    ASSUME OPS_JOURNAL_MAX >= MaxOps, NEW k \in OpId, NEW S, S \subseteq OpId \ {k}
    PROVE  Cardinality(S) < OPS_JOURNAL_MAX
<1>1. MaxOps \in Nat /\ OPS_JOURNAL_MAX \in Nat
    BY OpSyncAssumption
<1>2. IsFiniteSet(OpId) /\ Cardinality(OpId) = MaxOps
    BY <1>1, FS_Interval, 1 <= MaxOps DEF OpId
<1>3. IsFiniteSet(OpId \ {k}) /\ Cardinality(OpId \ {k}) = MaxOps - 1
    BY <1>2, FS_RemoveElement
<1>4. Cardinality(S) <= MaxOps - 1 /\ Cardinality(S) \in Nat
    BY <1>3, FS_Subset, FS_CardinalityType
<1> QED BY <1>1, <1>4

\* What a batch changes in the server's books.
Books(batch) ==
    /\ row' \in [OpId -> Nat]
    /\ lastRow' \in Nat
    /\ executed' \in [OpId -> Nat]
    /\ refused' \subseteq OpId
    /\ \A k \in OpId : executed'[k] >= executed[k]
    /\ refused \subseteq refused' /\ refused' \subseteq refused \union batch
    /\ \A k \in OpId : Settled(k) => Settled(k)'
    /\ \A k \in OpId \ batch : executed'[k] = executed[k]
    /\ \A k \in batch : Settled(k)'
    /\ JournalHonest'

LEMMA Keeping ==
    ASSUME OpsTyped, JournalHonest, NEW batch \in SUBSET OpId, NEW res,
           applyShoppingOps(batch, res)
    PROVE  Books(batch)
<1> DEFINE applied == batch \ res.skipped
           now(k) == k \in applied /\ ~alreadyApplied(k)
<1>1. executed' = [k \in OpId |-> IF now(k) THEN executed[k] + 1 ELSE executed[k]]
    BY DEF applyShoppingOps
<1>2. refused' = refused \union (batch \intersect res.skipped)
    BY DEF applyShoppingOps
<1>3. /\ executed' \in [OpId -> Nat]
      /\ refused' \subseteq OpId
      /\ refused \subseteq refused' /\ refused' \subseteq refused \union batch
      /\ \A k \in OpId : executed'[k] >= executed[k]
      /\ \A k \in OpId \ batch : executed'[k] = executed[k]
    BY <1>1, <1>2 DEF OpsTyped
<1>4. \A k \in OpId : Settled(k) => Settled(k)'
    BY <1>2, <1>3 DEF Settled, OpsTyped
<1>5. ASSUME NEW k \in batch
      PROVE  Settled(k)'
    <2>1. CASE k \in res.skipped
        BY <2>1, <1>2 DEF Settled
    <2>2. CASE k \notin res.skipped /\ alreadyApplied(k)
        BY <2>2, <1>3 DEF Settled, alreadyApplied, JournalHonest, OpsTyped
    <2>3. CASE k \notin res.skipped /\ ~alreadyApplied(k)
        BY <2>3, <1>1 DEF Settled, OpsTyped
    <2> QED BY <2>1, <2>2, <2>3
<1>6. CASE applied = {}
    <2>1. UNCHANGED <<row, lastRow>>
        BY <1>6 DEF applyShoppingOps, journal
    <2>2. UNCHANGED executed
        BY <1>1, <1>6 DEF OpsTyped
    <2>3. JournalHonest'
        BY <2>1, <2>2 DEF JournalHonest
    <2> QED BY <1>3, <1>4, <1>5, <2>1, <2>3 DEF Books, OpsTyped
<1>7. CASE applied # {}
    <2> DEFINE filled == [k \in OpId |-> IF now(k) THEN lastRow + k ELSE row[k]]
               newer(k) == {j \in OpId : filled[j] > filled[k]}
    <2>1. /\ row' = [k \in OpId |-> IF Cardinality(newer(k)) < OPS_JOURNAL_MAX
                                    THEN filled[k] ELSE 0]
          /\ lastRow' = lastRow + MaxOps
        BY <1>7 DEF applyShoppingOps, remember
    <2>2. filled \in [OpId -> Nat]
        BY DEF OpsTyped, OpId
    <2>3. row' \in [OpId -> Nat] /\ lastRow' \in Nat
        BY <2>1, <2>2, OpSyncAssumption DEF OpsTyped
    <2>4. ASSUME NEW k \in OpId, row'[k] > 0
          PROVE  executed'[k] >= 1
        <3>1. filled[k] > 0
            BY <2>1, <2>4
        <3>2. CASE now(k)
            BY <3>2, <1>1 DEF OpsTyped
        <3>3. CASE ~now(k)
            BY <3>1, <3>3, <1>3 DEF JournalHonest, OpsTyped
        <3> QED BY <3>2, <3>3
    <2>5. ASSUME OPS_JOURNAL_MAX >= MaxOps, NEW k \in OpId
          PROVE  executed'[k] <= 1 /\ (executed'[k] = 1 => row'[k] > 0)
        <3>1. row'[k] = filled[k]
            <4>1. newer(k) \subseteq OpId \ {k}
                BY <2>2
            <4>2. Cardinality(newer(k)) < OPS_JOURNAL_MAX
                BY <4>1, <2>5, RoomForAll
            <4> QED BY <4>2, <2>1
        <3>2. CASE now(k)
            <4>1. executed[k] = 0
                BY <3>2, <2>5 DEF JournalHonest, alreadyApplied, OpsTyped
            <4>2. executed'[k] = 1
                BY <4>1, <3>2, <1>1
            <4>3. filled[k] > 0
                BY <3>2 DEF OpsTyped, OpId
            <4> QED BY <4>2, <4>3, <3>1
        <3>3. CASE ~now(k)
            <4>1. executed'[k] = executed[k] /\ row'[k] = row[k]
                BY <3>1, <3>3, <1>1
            <4> QED BY <4>1, <2>5 DEF JournalHonest
        <3> QED BY <3>2, <3>3
    <2>6. JournalHonest'
        BY <2>4, <2>5 DEF JournalHonest
    <2> QED BY <1>3, <1>4, <1>5, <2>3, <2>6 DEF Books
<1> QED BY <1>6, <1>7

-----------------------------------------------------------------------------
(***************************************************************************)
(* What the invariant needs of a step: what becomes of the batches.        *)
(***************************************************************************)

\* Closed(b) in the state after the step, of a batch b of the state before
ClosedAfter(b) ==
    \A k \in b :
        /\ k \in DOMAIN issued'
        /\ \A j \in DOMAIN issued' :
               j < k /\ issued'[j].by = issued'[k].by => j \in b \/ Settled(j)'

\* A closed batch stays so: settled operations stay settled, and new gestures
\* come after all the others.
LEMMA ClosedStays ==
    ASSUME OpsTyped, NEW b \in SUBSET OpId, Closed(b),
           \A k \in OpId : Settled(k) => Settled(k)',
           UNCHANGED issued \/ \E o \in Op : issued' = Append(issued, o)
    PROVE  ClosedAfter(b)
<1>1. DOMAIN issued = 1..Len(issued) /\ DOMAIN issued \subseteq OpId
    BY OpSyncAssumption DEF OpsTyped, OpId
<1>2. CASE UNCHANGED issued
    BY <1>1, <1>2 DEF Closed, ClosedAfter
<1>3. CASE \E o \in Op : issued' = Append(issued, o)
    <2>1. /\ DOMAIN issued' = 1..(Len(issued) + 1)
          /\ \A k \in DOMAIN issued : issued'[k] = issued[k]
        BY <1>3 DEF OpsTyped
    <2> QED BY <1>1, <2>1 DEF Closed, ClosedAfter
<1> QED BY <1>2, <1>3

\* The batches after a step are among those before it.
LEMMA BatchesStay ==
    ASSUME OpsTyped, BatchesClosed,
           \A k \in OpId : Settled(k) => Settled(k)',
           UNCHANGED issued \/ \E o \in Op : issued' = Append(issued, o),
           \A c \in Client : flight'[c].st = "req" =>
               flight[c].st = "req" /\ flight'[c].batch = flight[c].batch,
           \A b \in stray' :
               b \in stray \/ \E c \in Client : flight[c].st = "req" /\ b = flight[c].batch
    PROVE  BatchesClosed'
<1>1. ASSUME NEW c \in Client, flight[c].st = "req"
      PROVE  ClosedAfter(flight[c].batch)
    <2>1. flight[c].batch \in SUBSET OpId /\ Closed(flight[c].batch)
        BY <1>1 DEF BatchesClosed, OpsTyped, Flight
    <2> QED BY <2>1, ClosedStays
<1>2. ASSUME NEW b \in stray
      PROVE  ClosedAfter(b)
    BY ClosedStays DEF BatchesClosed, OpsTyped
<1>3. \A c \in Client : flight'[c].st = "req" => ClosedAfter(flight'[c].batch)
    BY <1>1
<1>4. \A b \in stray' : ClosedAfter(b)
    BY <1>1, <1>2
<1> QED BY <1>3, <1>4 DEF BatchesClosed, Closed, ClosedAfter

LEMMA Serving ==
    ASSUME OpsTyped, OpInv, UNCHANGED <<queue, issued>>,
           NEW batch \in SUBSET OpId, Closed(batch), Books(batch),
           \A c \in Client : flight'[c].st = "req" =>
               flight[c].st = "req" /\ flight'[c].batch = flight[c].batch,
           \A c \in Client : flight'[c].st = "ok" =>
               \/ flight'[c].settled \subseteq batch
               \/ flight[c].st = "ok" /\ flight'[c].settled = flight[c].settled,
           stray' \subseteq stray
    PROVE  OpInv'
<1>1. DOMAIN issued \subseteq OpId
    BY OpSyncAssumption DEF OpsTyped, OpId
<1>2. JournalHonest' /\ QueueOwned' /\ OnlyIssued'
    BY DEF Books, OpInv, QueueOwned, OnlyIssued, Closed
<1>3. NoGestureLost'
    BY <1>1 DEF NoGestureLost, OpInv, Books
<1>4. AnswersHonest'
    <2> SUFFICES ASSUME NEW c \in Client, flight'[c].st = "ok", NEW k \in flight'[c].settled
                 PROVE  Settled(k)'
        BY DEF AnswersHonest
    <2>1. CASE flight'[c].settled \subseteq batch
        BY <2>1 DEF Books
    <2>2. CASE flight[c].st = "ok" /\ flight'[c].settled = flight[c].settled
        <3>1. Settled(k) /\ k \in OpId
            BY <2>2 DEF OpInv, AnswersHonest, OpsTyped, Flight
        <3> QED BY <3>1 DEF Books
    <2> QED BY <2>1, <2>2
<1>5. BatchesClosed'
    BY BatchesStay DEF OpInv, Books
<1>6. InIssueOrder'
    <2> SUFFICES ASSUME NEW j \in DOMAIN issued, NEW k \in DOMAIN issued,
                        j < k, issued[j].by = issued[k].by, executed'[k] >= 1
                 PROVE  Settled(j)'
        BY DEF InIssueOrder
    <2>1. CASE k \in batch
        <3>1. j \in batch \/ Settled(j)
            BY <2>1 DEF Closed
        <3> QED BY <3>1, <1>1 DEF Books
    <2>2. CASE k \notin batch
        <3>1. executed[k] >= 1
            BY <2>2, <1>1 DEF Books
        <3>2. Settled(j)
            BY <3>1 DEF OpInv, InIssueOrder
        <3> QED BY <3>2, <1>1 DEF Books
    <2> QED BY <2>1, <2>2
<1> QED BY <1>2, <1>3, <1>4, <1>5, <1>6 DEF OpInv

-----------------------------------------------------------------------------
(***************************************************************************)
(* The invariant, action by action.                                        *)
(***************************************************************************)
USE DEF journal, screen, wires, history

LEMMA InitKeeps == Init => OpsTyped /\ OpInv
<1> SUFFICES ASSUME Init
             PROVE  OpsTyped /\ OpInv
    OBVIOUS
<1>1. OpsTyped
    BY OpSyncAssumption DEF Init, OpsTyped, Flight, NoFlight, Flying
<1>2. issued = <<>> /\ DOMAIN issued = {}
    BY DEF Init
<1> QED BY <1>1, <1>2 DEF Init, OpInv, JournalHonest, QueueOwned, OnlyIssued, NoGestureLost,
           AnswersHonest, BatchesClosed, InIssueOrder, NoFlight, Flying

LEMMA PostKeeps ==
    ASSUME OpsTyped, OpInv, NEW c \in Client, PostOps(c)
    PROVE  OpsTyped' /\ OpInv'
<1> DEFINE batch == flight[c].batch
<1>1. batch \in SUBSET OpId /\ Closed(batch)
    BY DEF PostOps, OpsTyped, Flight, OpInv, BatchesClosed
<1>2. UNCHANGED <<queue, stray, issued>>
    BY DEF PostOps
<1>3. CASE Cardinality(batch) > MAX_OPS_PER_BATCH /\ UNCHANGED <<journal, history>>
           /\ flight' = [flight EXCEPT ![c] = Flying("error", batch, {})]
    <2>1. OpsTyped'
        BY <1>1, <1>2, <1>3 DEF OpsTyped, Flight, Flying
    <2>2. \A k \in OpId : Settled(k) => Settled(k)'
        BY <1>3 DEF Settled
    <2>3. \A e \in Client : flight'[e] = flight[e] \/ flight'[e].st = "error"
        BY <1>3 DEF OpsTyped, Flying
    <2>4. BatchesClosed'
        BY <1>2, <2>2, <2>3, BatchesStay DEF OpInv
    <2>5. AnswersHonest'
        BY <1>3, <2>3 DEF OpInv, AnswersHonest, Settled
    <2> QED BY <1>2, <1>3, <2>1, <2>4, <2>5
            DEF OpInv, JournalHonest, QueueOwned, OnlyIssued, NoGestureLost, InIssueOrder,
                Settled
<1>4. CASE applyShoppingOps(batch, applyOps(batch))
           /\ flight' = [flight EXCEPT ![c] = Flying("ok", batch, batch)]
    <2>1. Books(batch)
        BY <1>1, <1>4, Keeping DEF OpInv
    <2>2. OpsTyped'
        BY <1>1, <1>2, <1>4, <2>1 DEF OpsTyped, Flight, Flying, Books
    <2>3. /\ \A e \in Client : e # c => flight'[e] = flight[e]
          /\ flight'[c].st = "ok" /\ flight'[c].settled = batch
        BY <1>4 DEF OpsTyped, Flying
    <2> QED BY <1>1, <1>2, <2>1, <2>2, <2>3, Serving
<1> QED BY <1>3, <1>4 DEF PostOps

LEMMA StrayKeeps ==
    ASSUME OpsTyped, OpInv, NEW batch \in stray, PostStray(batch)
    PROVE  OpsTyped' /\ OpInv'
<1>1. batch \in SUBSET OpId /\ Closed(batch)
    BY DEF OpsTyped, OpInv, BatchesClosed
<1>2. UNCHANGED <<queue, flight, issued>> /\ stray' \subseteq stray
    BY DEF PostStray
<1>3. CASE UNCHANGED <<journal, history>>
    <2>1. OpsTyped'
        BY <1>2, <1>3 DEF OpsTyped
    <2>2. \A k \in OpId : Settled(k) => Settled(k)'
        BY <1>3 DEF Settled
    <2>3. BatchesClosed'
        BY <1>2, <2>2, BatchesStay DEF OpInv
    <2> QED BY <1>2, <1>3, <2>1, <2>3
            DEF OpInv, JournalHonest, QueueOwned, OnlyIssued, NoGestureLost, AnswersHonest,
                InIssueOrder, Settled
<1>4. CASE applyShoppingOps(batch, applyOps(batch))
    <2>1. Books(batch)
        BY <1>1, <1>4, Keeping DEF OpInv
    <2>2. OpsTyped'
        BY <1>2, <2>1 DEF OpsTyped, Books
    <2> QED BY <1>1, <1>2, <2>1, <2>2, Serving
<1> QED BY <1>3, <1>4 DEF PostStray

LEMMA GestureKeeps ==
    ASSUME OpsTyped, OpInv, NEW c \in Client, NEW o \in Op, pushShopOps(c, o)
    PROVE  OpsTyped' /\ OpInv'
<1> DEFINE n == Len(issued) + 1
<1>1. /\ o.by = c
      /\ issued' = Append(issued, o)
      /\ queue' = [queue EXCEPT ![c] = queue[c] \union {n}]
      /\ UNCHANGED <<row, lastRow, flight, stray, executed, refused>>
      /\ Len(issued) < MaxOps
    BY DEF pushShopOps, gestures
<1>2. /\ issued' \in Seq(Op) /\ Len(issued') = n /\ n \in OpId /\ n <= MaxOps
      /\ DOMAIN issued = 1..Len(issued) /\ DOMAIN issued' = 1..n
      /\ \A k \in DOMAIN issued : issued'[k] = issued[k]
      /\ issued'[n] = o
    BY <1>1, OpSyncAssumption DEF OpsTyped, OpId
<1>3. OpsTyped'
    BY <1>1, <1>2 DEF OpsTyped
<1>4. \A k \in OpId : Settled(k)' <=> Settled(k)
    BY <1>1 DEF Settled
<1>5. JournalHonest'
    BY <1>1 DEF OpInv, JournalHonest
<1>6. QueueOwned' /\ OnlyIssued'
    BY <1>1, <1>2 DEF OpInv, QueueOwned, OnlyIssued, OpsTyped
<1>7. NoGestureLost'
    BY <1>1, <1>2, <1>4 DEF OpInv, NoGestureLost, OpsTyped, Op, OpId, Settled
<1>8. AnswersHonest'
    BY <1>1 DEF OpInv, AnswersHonest, Settled
<1>9. BatchesClosed'
    BY <1>1, <1>4, BatchesStay DEF OpInv
<1>10. InIssueOrder'
    BY <1>1, <1>2, <1>4 DEF OpInv, InIssueOrder, OnlyIssued, OpsTyped, Settled
<1> QED BY <1>3, <1>5, <1>6, <1>7, <1>8, <1>9, <1>10 DEF OpInv

\* A flush sends the queue: it holds all that its client has left to send.
LEMMA FlushKeeps ==
    ASSUME OpsTyped, OpInv, NEW c \in Client, flushShopQueue(c)
    PROVE  OpsTyped' /\ OpInv'
<1>1. /\ flight' = [flight EXCEPT ![c] = Flying("req", queue[c], {})]
      /\ UNCHANGED <<row, lastRow, queue, stray, issued, executed, refused>>
    BY DEF flushShopQueue
<1>2. OpsTyped'
    BY <1>1 DEF OpsTyped, Flight, Flying
<1>3. /\ \A e \in Client : e # c => flight'[e] = flight[e]
      /\ flight'[c].st = "req" /\ flight'[c].batch = queue[c]
    BY <1>1 DEF OpsTyped, Flying
<1>4. Closed(queue[c])
    BY DEF Closed, OpInv, QueueOwned, NoGestureLost
<1>5. \A k \in OpId : Settled(k)' <=> Settled(k)
    BY <1>1 DEF Settled
<1>6. ASSUME NEW b \in SUBSET OpId, Closed(b)
      PROVE  ClosedAfter(b)
    BY <1>1, <1>5, <1>6, ClosedStays
<1>7. \A e \in Client : flight'[e].st = "req" => ClosedAfter(flight'[e].batch)
    <2> SUFFICES ASSUME NEW e \in Client, flight'[e].st = "req"
                 PROVE  ClosedAfter(flight'[e].batch)
        OBVIOUS
    <2>1. CASE e = c
        BY <2>1, <1>3, <1>4, <1>6 DEF OpsTyped
    <2>2. CASE e # c
        <3>1. flight[e].batch \in SUBSET OpId /\ Closed(flight[e].batch)
            BY <2>2, <1>3 DEF OpInv, BatchesClosed, OpsTyped, Flight
        <3> QED BY <3>1, <2>2, <1>3, <1>6
    <2> QED BY <2>1, <2>2
<1>8. \A b \in stray' : ClosedAfter(b)
    BY <1>1, <1>6 DEF OpInv, BatchesClosed, OpsTyped
<1>9. BatchesClosed'
    BY <1>7, <1>8 DEF BatchesClosed, Closed, ClosedAfter
<1>10. AnswersHonest'
    BY <1>1, <1>3 DEF OpInv, AnswersHonest, Settled
<1> QED BY <1>1, <1>2, <1>9, <1>10
        DEF OpInv, JournalHonest, QueueOwned, OnlyIssued, NoGestureLost, InIssueOrder, Settled

\* What an answer takes off a queue is settled.
LEMMA AnswerKeeps ==
    ASSUME OpsTyped, OpInv, NEW c \in Client, FlushAnswered(c)
    PROVE  OpsTyped' /\ OpInv'
<1>1. /\ flight[c].st = "ok"
      /\ queue' = [queue EXCEPT ![c] = queue[c] \ flight[c].settled]
      /\ flight' = [flight EXCEPT ![c] = NoFlight]
      /\ UNCHANGED <<row, lastRow, stray, issued, executed, refused>>
    BY DEF FlushAnswered
<1>2. OpsTyped'
    BY <1>1 DEF OpsTyped, Flight, NoFlight, Flying
<1>3. /\ \A e \in Client : e # c => flight'[e] = flight[e]
      /\ flight'[c].st = "none"
    BY <1>1 DEF OpsTyped, NoFlight, Flying
<1>4. \A k \in OpId : Settled(k)' <=> Settled(k)
    BY <1>1 DEF Settled
<1>5. QueueOwned'
    BY <1>1 DEF OpInv, QueueOwned, OpsTyped
<1>6. NoGestureLost'
    <2> SUFFICES ASSUME NEW k \in DOMAIN issued
                 PROVE  k \in queue'[issued[k].by] \/ Settled(k)'
        BY <1>1 DEF NoGestureLost
    <2>1. k \in queue[issued[k].by] \/ Settled(k)
        BY DEF OpInv, NoGestureLost
    <2>2. issued[k].by \in Client
        <3>1. issued[k] \in Op
            BY DEF OpsTyped
        <3> QED BY <3>1 DEF Op
    <2>3. CASE Settled(k)
        BY <2>3, <1>1 DEF Settled
    <2>4. CASE k \in queue[issued[k].by] /\ issued[k].by # c
        BY <2>2, <2>4, <1>1 DEF OpsTyped
    <2>5. CASE k \in queue[issued[k].by] /\ issued[k].by = c /\ k \in flight[c].settled
        BY <2>5, <1>1 DEF OpInv, AnswersHonest, Settled
    <2>6. CASE k \in queue[issued[k].by] /\ issued[k].by = c /\ k \notin flight[c].settled
        BY <2>6, <1>1 DEF OpsTyped
    <2> QED BY <2>1, <2>3, <2>4, <2>5, <2>6
<1>7. BatchesClosed'
    BY <1>1, <1>3, <1>4, BatchesStay DEF OpInv
<1>8. AnswersHonest'
    BY <1>1, <1>3 DEF OpInv, AnswersHonest, Settled
<1> QED BY <1>1, <1>2, <1>5, <1>6, <1>7, <1>8
        DEF OpInv, JournalHonest, OnlyIssued, InIssueOrder, Settled

\* A flush given up, by its client or with it: its batch may still arrive.
LEMMA GiveUpKeeps ==
    ASSUME OpsTyped, OpInv, NEW c \in Client,
           flight' = [flight EXCEPT ![c] = NoFlight],
           stray' = stray \/ (flight[c].st = "req" /\ stray' = stray \union {flight[c].batch}),
           UNCHANGED <<row, lastRow, queue, issued, executed, refused>>
    PROVE  OpsTyped' /\ OpInv'
<1>1. OpsTyped'
    BY DEF OpsTyped, Flight, NoFlight, Flying
<1>2. /\ \A e \in Client : e # c => flight'[e] = flight[e]
      /\ flight'[c].st = "none"
    BY DEF OpsTyped, NoFlight, Flying
<1>3. \A k \in OpId : Settled(k)' <=> Settled(k)
    BY DEF Settled
<1>4. BatchesClosed'
    BY <1>2, <1>3, BatchesStay DEF OpInv
<1>5. AnswersHonest'
    BY <1>2 DEF OpInv, AnswersHonest, Settled
<1> QED BY <1>1, <1>4, <1>5
        DEF OpInv, JournalHonest, QueueOwned, OnlyIssued, NoGestureLost, InIssueOrder, Settled

LEMMA StepKeeps ==
    ASSUME OpsTyped, OpInv, [Next]_vars
    PROVE  OpsTyped' /\ OpInv'
<1>1. CASE UNCHANGED vars
    BY <1>1, ElsewhereKeeps DEF vars, Elsewhere
<1>2. ASSUME NEW batch \in stray, PostStray(batch)
      PROVE  OpsTyped' /\ OpInv'
    BY <1>2, StrayKeeps
<1>3. ASSUME NEW l \in List, RemoveList(l)
      PROVE  OpsTyped' /\ OpInv'
    BY <1>3, ElsewhereKeeps DEF RemoveList, Elsewhere
<1>4. ASSUME NEW c \in Client, Step(c)
      PROVE  OpsTyped' /\ OpInv'
    <2>1. ASSUME NEW o \in Op, pushShopOps(c, o)
          PROVE  OpsTyped' /\ OpInv'
        BY <2>1, GestureKeeps
    <2>2. CASE flushShopQueue(c)
        BY <2>2, FlushKeeps
    <2>3. CASE PostOps(c)
        BY <2>3, PostKeeps
    <2>4. CASE FlushAnswered(c)
        BY <2>4, AnswerKeeps
    <2>5. CASE FlushFailed(c)
        BY <2>5, GiveUpKeeps DEF FlushFailed
    <2>6. CASE FlushLost(c)
        BY <2>6, GiveUpKeeps DEF FlushLost
    <2>7. CASE Restart(c)
        BY <2>7, GiveUpKeeps DEF Restart
    <2>8. ASSUME NEW n \in Polls,
                 pollLive(c, n) \/ GetLive(c, n) \/ PollAnswered(c, n) \/ PollLost(c, n)
          PROVE  OpsTyped' /\ OpInv'
        BY <2>8, ElsewhereKeeps DEF pollLive, GetLive, PollAnswered, PollLost, Elsewhere
    <2>9. CASE refreshDocument(c) \/ GetState(c) \/ DocumentRead(c) \/ ReadLost(c)
        BY <2>9, ElsewhereKeeps DEF refreshDocument, GetState, DocumentRead, ReadLost, Elsewhere
    <2> QED BY <1>4, <2>1, <2>2, <2>3, <2>4, <2>5, <2>6, <2>7, <2>8, <2>9 DEF Step
<1> QED BY <1>1, <1>2, <1>3, <1>4 DEF Next

-----------------------------------------------------------------------------
(***************************************************************************)
(* The theorems.                                                           *)
(***************************************************************************)

\* Queues, batches, journal and histories are well formed, and the inductive
\* invariant holds in every reachable state.
THEOREM OperationsAreKept == Spec => [](OpsTyped /\ OpInv)
<1>1. Init => OpsTyped /\ OpInv
    BY InitKeeps
<1>2. OpsTyped /\ OpInv /\ [Next]_vars => (OpsTyped /\ OpInv)'
    BY StepKeeps
<1> QED BY <1>1, <1>2, PTL DEF Spec

\* As long as the journal has room for every operation, the server executes
\* none twice, however often its batch is sent and however late it arrives
\* (applyOps' alreadyApplied, the journal written in the same transaction).
THEOREM ReplayIsHarmless == Spec => []AtMostOnce
<1>1. OpInv => AtMostOnce
    BY DEF OpInv, JournalHonest, AtMostOnce
<1> QED BY <1>1, OperationsAreKept, PTL

\* A gesture stays in its author's queue until the server is done with it
\* (flushShopQueue only takes off what the answer says applied or skipped).
THEOREM GesturesAreKept == Spec => []NoGestureLost
<1>1. OpInv => NoGestureLost
    BY DEF OpInv
<1> QED BY <1>1, OperationsAreKept, PTL

\* The server executes one application's gestures in the order they were
\* made (flushShopQueue sends the whole queue, never a part of it).
THEOREM OrderIsKept == Spec => []InIssueOrder
<1>1. OpInv => InIssueOrder
    BY DEF OpInv
<1> QED BY <1>1, OperationsAreKept, PTL

-----------------------------------------------------------------------------
(***************************************************************************)
(* The refinement of Gestures.                                             *)
(***************************************************************************)

\* A step that executes or refuses gestures is a Serve.
LEMMA ServingIsServe ==
    ASSUME OpsTyped, OpsTyped', OpInv', OPS_JOURNAL_MAX >= MaxOps,
           UNCHANGED issued,
           \A k \in OpId : executed'[k] >= executed[k],
           refused \subseteq refused', refused' \subseteq refused \union DOMAIN issued
    PROVE  Promise!Next
<1> DEFINE now == {k \in OpId : executed[k] = 0 /\ executed'[k] = 1}
           never == refused' \ refused
<1>1. DOMAIN issued \subseteq OpId
    BY OpSyncAssumption DEF OpsTyped, OpId
<1>2. \A k \in OpId : executed'[k] \in {0, 1} /\ executed[k] \in Nat
    BY DEF OpInv, JournalHonest, OpsTyped
<1>3. now \subseteq DOMAIN issued /\ never \subseteq DOMAIN issued
    BY DEF OpInv, OnlyIssued
<1>4. executed' = [k \in OpId |-> IF k \in now THEN 1 ELSE executed[k]]
    BY <1>2 DEF OpsTyped
<1>5. refused' = refused \union never
    OBVIOUS
<1>6. ASSUME NEW k \in now, NEW j \in DOMAIN issued, j < k, issued[j].by = issued[k].by
      PROVE  executed'[j] = 1 \/ j \in refused'
    <2>1. k \in DOMAIN issued /\ executed'[k] >= 1
        BY <1>3
    <2>2. Settled(j)'
        BY <1>6, <2>1 DEF OpInv, InIssueOrder
    <2> QED BY <2>2, <1>1, <1>2 DEF Settled
<1>7. Promise!Serve(now, never)
    BY <1>4, <1>5, <1>6 DEF Promise!Serve, Promise!Done
<1> QED BY <1>3, <1>7 DEF Promise!Next

\* A step of the queues and the server is one of the gestures, or none.
LEMMA StepMaps ==
    ASSUME OpsTyped, OpInv, OpsTyped', OpInv', OPS_JOURNAL_MAX >= MaxOps, [Next]_vars
    PROVE  [Promise!Next]_(Promise!vars)
<1>1. ASSUME UNCHANGED <<issued, executed, refused>>
      PROVE  [Promise!Next]_(Promise!vars)
    BY <1>1 DEF Promise!vars
<1>2. ASSUME NEW batch \in SUBSET OpId, Closed(batch), UNCHANGED issued,
             NEW res, applyShoppingOps(batch, res)
      PROVE  Promise!Next
    <2>1. Books(batch)
        BY <1>2, Keeping DEF OpInv
    <2>2. batch \subseteq DOMAIN issued
        BY <1>2 DEF Closed
    <2> QED BY <1>2, <2>1, <2>2, ServingIsServe DEF Books
<1>3. CASE UNCHANGED vars
    BY <1>1, <1>3 DEF vars
<1>4. ASSUME NEW batch \in stray, PostStray(batch)
      PROVE  [Promise!Next]_(Promise!vars)
    <2>1. batch \in SUBSET OpId /\ Closed(batch)
        BY DEF OpsTyped, OpInv, BatchesClosed
    <2> QED BY <1>1, <1>2, <1>4, <2>1 DEF PostStray
<1>5. ASSUME NEW l \in List, RemoveList(l)
      PROVE  [Promise!Next]_(Promise!vars)
    BY <1>1, <1>5 DEF RemoveList
<1>6. ASSUME NEW c \in Client, Step(c)
      PROVE  [Promise!Next]_(Promise!vars)
    <2>1. ASSUME NEW o \in Op, pushShopOps(c, o)
          PROVE  Promise!Make
        BY <2>1 DEF pushShopOps, Promise!Make
    <2>2. CASE PostOps(c)
        <3>1. flight[c].batch \in SUBSET OpId /\ Closed(flight[c].batch)
            BY <2>2 DEF PostOps, OpsTyped, Flight, OpInv, BatchesClosed
        <3> QED BY <1>1, <1>2, <2>2, <3>1 DEF PostOps
    <2>3. CASE \/ flushShopQueue(c) \/ FlushAnswered(c) \/ FlushFailed(c) \/ FlushLost(c)
               \/ \E n \in Polls :
                     pollLive(c, n) \/ GetLive(c, n) \/ PollAnswered(c, n) \/ PollLost(c, n)
               \/ refreshDocument(c) \/ GetState(c) \/ DocumentRead(c) \/ ReadLost(c)
               \/ Restart(c)
        BY <1>1, <2>3 DEF flushShopQueue, FlushAnswered, FlushFailed, FlushLost, pollLive,
               GetLive, PollAnswered, PollLost, refreshDocument, GetState, DocumentRead,
               ReadLost, Restart
    <2> QED BY <1>6, <2>1, <2>2, <2>3 DEF Step, Promise!Next
<1> QED BY <1>3, <1>4, <1>5, <1>6 DEF Next

\* Queues, batches sent again, the journal and its pruning implement the
\* gestures of Gestures: whatever the network and the tabs do, each is
\* executed once at most, and those of one author in order.
THEOREM PromiseIsKept ==
    ASSUME OPS_JOURNAL_MAX >= MaxOps
    PROVE  Spec => KeepsPromise
<1>1. Init => Promise!Init
    BY DEF Init, Promise!Init
<1>2. ASSUME OpsTyped /\ OpInv, (OpsTyped /\ OpInv)', [Next]_vars
      PROVE  [Promise!Next]_(Promise!vars)
    BY <1>2, StepMaps
<1> QED BY <1>1, <1>2, OperationsAreKept, PTL DEF Spec, KeepsPromise, Promise!Spec

-----------------------------------------------------------------------------
(***************************************************************************)
(* Induction, stated on sets of naturals.                                  *)
(***************************************************************************)

\* A nonempty set of naturals has a least element.
LEMMA Least ==
    ASSUME NEW T, T \subseteq Nat, T # {}
    PROVE  \E n \in T : \A k \in T : n <= k
<1> DEFINE R == OpToRel(<, Nat)
<1>1. IsWellFoundedOn(R, Nat)
    BY NatLessThanWellFounded
<1>2. \A i, j \in Nat : i < j => <<i, j>> \in R
    BY DEF OpToRel
<1> HIDE DEF R
<1>3. PICK n \in T : \A k \in T : <<k, n>> \notin R
    BY <1>1, WFMin
<1>4. ASSUME NEW k \in T
      PROVE  n <= k
    <2>1. k \in Nat /\ n \in Nat
        OBVIOUS
    <2>2. ~(k < n)
        BY <1>2, <1>3, <2>1
    <2> QED BY <2>1, <2>2
<1> QED BY <1>4

\* What holds of 0, and of n + 1 when it holds of n, holds of every natural.
LEMMA Ups ==
    ASSUME NEW T, 0 \in T, \A n \in Nat : n \in T => n + 1 \in T
    PROVE  Nat \subseteq T
<1> SUFFICES ASSUME NEW m \in Nat, m \notin T
             PROVE  FALSE
    OBVIOUS
<1> DEFINE Out == {k \in Nat : k \notin T}
<1>1. Out \subseteq Nat /\ Out # {}
    OBVIOUS
<1> HIDE DEF Out
<1>2. PICK n \in Out : \A k \in Out : n <= k
    BY <1>1, Least
<1> USE DEF Out
<1>3. n # 0 /\ n - 1 \in Nat
    BY <1>2
<1>4. n - 1 \in T
    BY <1>2, <1>3
<1> QED BY <1>2, <1>3, <1>4

-----------------------------------------------------------------------------
(***************************************************************************)
(* Operations in order.  inOrder is a function of the set of operations it *)
(* has gone through: Fold(g, b, ids, F) says that g is that function, for  *)
(* a step given by F.                                                      *)
(***************************************************************************)
Fold(g, b, ids, F) ==
    g = [s \in SUBSET ids |-> IF s = {} THEN b ELSE F[<<g[s \ {Max(s)}], Max(s)>>]]

\* The last operation of those up to n is n.
LEMMA MaxUpTo ==
    ASSUME NEW n \in Nat, NEW s, s \subseteq 1..n, n \in s
    PROVE  Max(s) = n
<1>1. \A y \in s : n >= y
    OBVIOUS
<1>2. \A x \in s : (\A y \in s : x >= y) => x = n
    OBVIOUS
<1> QED BY <1>1, <1>2 DEF Max

\* Any nonempty set of operations has a last one.
LEMMA MaxIn ==
    ASSUME NEW n \in Nat, NEW s, s \subseteq 1..n, s # {}
    PROVE  Max(s) \in s
<1> DEFINE T == {n - x : x \in s}
<1>0. \A x \in s : x \in Int /\ x <= n
    OBVIOUS
<1>1. T \subseteq Nat /\ T # {}
    <2>1. \A x \in s : n - x \in Nat
        BY <1>0
    <2>2. T \subseteq Nat
        BY <2>1
    <2>3. T # {}
        BY Zenon
    <2>4. QED
        BY <2>2, <2>3
<1> HIDE DEF T
<1>2. PICK m \in T : \A k \in T : m <= k
    BY <1>1, Least
<1> USE DEF T
<1>3. PICK x \in s : m = n - x
    BY <1>2
<1>4. \A y \in s : x >= y
    <2>1. ASSUME NEW y \in s PROVE x >= y
        <3>1. m <= n - y
            BY <1>2
        <3> HIDE DEF T
        <3>2. x \in Int /\ y \in Int
            BY <1>0
        <3>3. QED
            BY <1>3, <3>1, <3>2
    <2>2. QED
        BY <2>1
<1>5. QED
    BY <1>4 DEF Max

\* The function exists, whatever the step from S to S.
LEMMA FoldExists ==
    ASSUME NEW top \in Nat, NEW ids \in SUBSET (1..top),
           NEW S, NEW F \in [S \X ids -> S], NEW b \in S
    PROVE  \E g \in [SUBSET ids -> S] : Fold(g, b, ids, F)
<1> DEFINE below(n) == ids \intersect 1..n
           Upto(n, g) ==
             /\ g \in [SUBSET below(n) -> S]
             /\ \A s \in SUBSET below(n) :
                   g[s] = IF s = {} THEN b ELSE F[<<g[s \ {Max(s)}], Max(s)>>]
           N == {n \in Nat : \E g : Upto(n, g)}
<1>1. 0 \in N
    <2>1. below(0) = {}
        OBVIOUS
    <2>2. Upto(0, [s \in SUBSET below(0) |-> b])
        BY <2>1
    <2> HIDE DEF Upto
    <2> QED BY <2>2
<1>2. ASSUME NEW n \in Nat, n \in N
      PROVE  n + 1 \in N
    <2> DEFINE m == n + 1
    <2> HIDE DEF Upto
    <2>1. PICK g : Upto(n, g)
        BY <1>2
    <2> USE DEF Upto
    <2>2. CASE m \notin ids
        <3>1. below(m) = below(n)
            BY <2>2
        <3>2. Upto(m, g)
            <4> HIDE DEF below, m
            <4> QED BY <2>1, <3>1
        <3> HIDE DEF Upto
        <3> QED BY <3>2
    <2>3. CASE m \in ids
        <3> DEFINE h == [s \in SUBSET below(m) |->
                           IF m \in s THEN F[<<g[s \ {m}], m>>] ELSE g[s]]
        <3>1. /\ m \in Nat /\ m \notin below(n)
              /\ \A s \in SUBSET below(m) :
                    /\ s \ {m} \in SUBSET below(n)
                    /\ m \notin s => s \in SUBSET below(n)
              /\ SUBSET below(n) \subseteq SUBSET below(m)
              /\ below(m) \subseteq 1..m
            OBVIOUS
        <3> HIDE DEF below, m
        <3>2. \A s \in SUBSET below(n) : h[s] = g[s] /\ g[s] \in S
            BY <2>1, <3>1
        <3>3. ASSUME NEW s \in SUBSET below(m)
              PROVE  /\ h[s] \in S
                     /\ h[s] = IF s = {} THEN b ELSE F[<<h[s \ {Max(s)}], Max(s)>>]
            <4>1. CASE m \in s
                <5>1. Max(s) = m
                    <6>1. s \subseteq 1..m
                        BY <3>1
                    <6> QED BY <3>1, <4>1, <6>1, MaxUpTo
                <5>2. h[s] = F[<<g[s \ {m}], m>>] /\ s # {}
                    BY <4>1
                <5>3. g[s \ {m}] \in S /\ h[s \ {m}] = g[s \ {m}]
                    BY <3>1, <3>2
                <5> HIDE DEF h
                <5>4. <<g[s \ {m}], m>> \in S \X ids
                    BY <2>3, <5>3
                <5> QED BY <5>1, <5>2, <5>3, <5>4
            <4>2. CASE m \notin s
                <5>1. s \in SUBSET below(n) /\ h[s] = g[s] /\ h[s] \in S
                    BY <3>1, <3>2, <4>2
                <5>2. s # {} => h[s \ {Max(s)}] = g[s \ {Max(s)}]
                    <6>1. s \ {Max(s)} \in SUBSET below(n)
                        BY <5>1
                    <6> QED BY <6>1, <3>2
                <5> HIDE DEF h
                <5> QED BY <2>1, <5>1, <5>2
            <4> QED BY <4>1, <4>2
        <3>4. h \in [SUBSET below(m) -> S]
            <4>1. h = [s \in SUBSET below(m) |-> h[s]]
                OBVIOUS
            <4> HIDE DEF h
            <4> QED BY <3>3, <4>1
        <3> HIDE DEF h
        <3>5. Upto(m, h)
            BY <3>3, <3>4
        <3> HIDE DEF Upto
        <3> QED BY <3>1, <3>5 DEF m
    <2>4. m \in N
        BY <2>2, <2>3
    <2> QED BY <2>4
<1> HIDE DEF N
<1>3. top \in N
    BY <1>1, <1>2, Ups
<1> USE DEF N
<1>4. PICK g : Upto(top, g)
    <2> HIDE DEF Upto
    <2> QED BY <1>3
<1>5. below(top) = ids
    OBVIOUS
<1> HIDE DEF below
<1>6. g \in [SUBSET ids -> S] /\ Fold(g, b, ids, F)
    BY <1>4, <1>5 DEF Fold
<1> QED BY <1>6

\* The operations of ids up to n.
upTo(ids, n) == ids \intersect 1..n

\* They grow by one operation at a time, until all are there.
Growing(ids, top) ==
    /\ upTo(ids, 0) = {} /\ upTo(ids, top) = ids
    /\ \A n \in Nat :
          /\ upTo(ids, n) \in SUBSET ids
          /\ n + 1 \notin ids => upTo(ids, n + 1) = upTo(ids, n)
          /\ n + 1 \in ids =>
                /\ upTo(ids, n + 1) # {}
                /\ Max(upTo(ids, n + 1)) = n + 1
                /\ upTo(ids, n + 1) \ {n + 1} = upTo(ids, n)

LEMMA UpTo ==
    ASSUME NEW top \in Nat, NEW ids \in SUBSET (1..top)
    PROVE  Growing(ids, top)
<1>1. upTo(ids, 0) = {} /\ upTo(ids, top) = ids
    <2>1. 1..0 = {}
        OBVIOUS
    <2>2. ids \intersect 1..top = ids
        OBVIOUS
    <2> QED BY <2>1, <2>2 DEF upTo
<1>2. ASSUME NEW n \in Nat, n + 1 \in ids
      PROVE  /\ upTo(ids, n + 1) # {}
             /\ Max(upTo(ids, n + 1)) = n + 1
             /\ upTo(ids, n + 1) \ {n + 1} = upTo(ids, n)
    <2>1. /\ n + 1 \in Nat /\ n + 1 \in upTo(ids, n + 1) /\ upTo(ids, n + 1) \subseteq 1..(n + 1)
          /\ upTo(ids, n + 1) \ {n + 1} = upTo(ids, n)
        BY <1>2 DEF upTo
    <2> QED BY <2>1, MaxUpTo
<1>3. ASSUME NEW n \in Nat, n + 1 \notin ids
      PROVE  upTo(ids, n + 1) = upTo(ids, n)
    BY <1>3 DEF upTo
<1>4. \A n \in Nat : upTo(ids, n) \in SUBSET ids
    BY DEF upTo
<1> QED BY <1>1, <1>2, <1>3, <1>4 DEF Growing

\* x goes from one state to the next through the operations of a batch.
ApplySteps(x, batch) ==
    /\ x[0] = [items |-> items, skipped |-> {}]
    /\ \A n \in Nat : x[n + 1] = IF n + 1 \in batch THEN applyOne(x[n], n + 1) ELSE x[n]

LEMMA AppliedInOrder ==
    ASSUME NEW batch \in SUBSET OpId, NEW J, [items |-> items, skipped |-> {}] \in J,
           \A r \in J, k \in batch : applyOne(r, k) \in J
    PROVE  \E x : ApplySteps(x, batch) /\ applyOps(batch) = x[MaxOps]
<1> DEFINE b == [items |-> items, skipped |-> {}]
           F == [p \in J \X batch |-> applyOne(p[1], p[2])]
           Eq(g) == g = [s \in SUBSET batch |->
                           IF s = {} THEN b ELSE applyOne(g[s \ {Max(s)}], Max(s))]
           c == CHOOSE g : Eq(g)
           x == [n \in Nat |-> c[upTo(batch, n)]]
<1>0. MaxOps \in Nat /\ batch \in SUBSET (1..MaxOps)
    BY OpSyncAssumption DEF OpId
<1>1. F \in [J \X batch -> J]
    OBVIOUS
<1>2. \A r \in J, k \in batch : F[<<r, k>>] = applyOne(r, k)
    OBVIOUS
<1>3. b \in J
    OBVIOUS
<1> HIDE DEF F, Eq, c, b
<1>4. Growing(batch, MaxOps)
    BY <1>0, UpTo
<1>5. \E g : Eq(g)
    <2>1. PICK g \in [SUBSET batch -> J] : Fold(g, b, batch, F)
        BY <1>0, <1>1, <1>3, FoldExists
    <2>2. ASSUME NEW s \in SUBSET batch, s # {}
          PROVE  F[<<g[s \ {Max(s)}], Max(s)>>] = applyOne(g[s \ {Max(s)}], Max(s))
        <3>1. Max(s) \in batch
            BY <1>0, <2>2, MaxIn
        <3>2. g[s \ {Max(s)}] \in J
            BY <2>1
        <3> QED BY <1>2, <3>1, <3>2
    <2>3. Eq(g)
        BY <2>1, <2>2 DEF Fold, Eq
    <2> QED BY <2>3
<1>6. applyOps(batch) = c[batch]
    BY DEF applyOps, inOrder, MapThenFoldSet, c, Eq, b
<1>7. Eq(c)
    BY <1>5 DEF c
<1>8. ApplySteps(x, batch)
    <2>1. x[0] = b
        <3>1. upTo(batch, 0) = {} /\ c[{}] = b
            BY <1>7, <1>4 DEF Eq, Growing
        <3> QED BY <3>1
    <2>2. ASSUME NEW n \in Nat
          PROVE  x[n + 1] = IF n + 1 \in batch THEN applyOne(x[n], n + 1) ELSE x[n]
        <3>0. upTo(batch, n + 1) \in SUBSET batch
            BY DEF upTo
        <3>1. /\ n + 1 \notin batch => upTo(batch, n + 1) = upTo(batch, n)
              /\ n + 1 \in batch =>
                    /\ upTo(batch, n + 1) # {}
                    /\ Max(upTo(batch, n + 1)) = n + 1
                    /\ upTo(batch, n + 1) \ {n + 1} = upTo(batch, n)
            BY <1>4 DEF Growing
        <3>2. n + 1 \in batch => c[upTo(batch, n + 1)] = applyOne(c[upTo(batch, n)], n + 1)
            BY <1>7, <3>0, <3>1 DEF Eq
        <3> QED BY <3>1, <3>2
    <2> HIDE DEF x
    <2> QED BY <2>1, <2>2 DEF ApplySteps, b
<1>9. x[MaxOps] = c[batch]
    BY <1>0, <1>4 DEF Growing
<1> HIDE DEF x
<1> QED BY <1>6, <1>8, <1>9

\* The same of the operations q of a history replayed on some articles.
run(ops, its, q) ==
    MapThenFoldSet(LAMBDA k, sofar : effect(sofar, ops[k]), its, LAMBDA k : k,
                   LAMBDA s : Max(s), q)

RunSteps(ops, x, its, q) ==
    /\ x[0] = its
    /\ \A n \in Nat : x[n + 1] = IF n + 1 \in q THEN effect(x[n], ops[n + 1]) ELSE x[n]

LEMMA RunInOrder ==
    ASSUME NEW ops, NEW q \in SUBSET OpId, NEW J, NEW its \in J,
           \A r \in J, k \in q : effect(r, ops[k]) \in J
    PROVE  \E x : RunSteps(ops, x, its, q) /\ run(ops, its, q) = x[MaxOps]
<1> DEFINE F == [p \in J \X q |-> effect(p[1], ops[p[2]])]
           Eq(g) == g = [s \in SUBSET q |->
                           IF s = {} THEN its ELSE effect(g[s \ {Max(s)}], ops[Max(s)])]
           c == CHOOSE g : Eq(g)
           x == [n \in Nat |-> c[upTo(q, n)]]
<1>0. MaxOps \in Nat /\ q \in SUBSET (1..MaxOps)
    BY OpSyncAssumption DEF OpId
<1>1. F \in [J \X q -> J]
    OBVIOUS
<1>2. \A r \in J, k \in q : F[<<r, k>>] = effect(r, ops[k])
    OBVIOUS
<1> HIDE DEF F, Eq, c
<1>3. Growing(q, MaxOps)
    BY <1>0, UpTo
<1>4. \E g : Eq(g)
    <2>1. PICK g \in [SUBSET q -> J] : Fold(g, its, q, F)
        BY <1>0, <1>1, FoldExists
    <2>2. ASSUME NEW s \in SUBSET q, s # {}
          PROVE  F[<<g[s \ {Max(s)}], Max(s)>>] = effect(g[s \ {Max(s)}], ops[Max(s)])
        <3>1. Max(s) \in q
            BY <1>0, <2>2, MaxIn
        <3>2. g[s \ {Max(s)}] \in J
            BY <2>1
        <3> QED BY <1>2, <3>1, <3>2
    <2>3. Eq(g)
        BY <2>1, <2>2 DEF Fold, Eq
    <2> QED BY <2>3
<1>5. run(ops, its, q) = c[q]
    BY DEF run, MapThenFoldSet, c, Eq
<1>6. Eq(c)
    BY <1>4 DEF c
<1>7. RunSteps(ops, x, its, q)
    <2>1. x[0] = its
        <3>1. upTo(q, 0) = {} /\ c[{}] = its
            BY <1>6, <1>3 DEF Eq, Growing
        <3> QED BY <3>1
    <2>2. ASSUME NEW n \in Nat
          PROVE  x[n + 1] = IF n + 1 \in q THEN effect(x[n], ops[n + 1]) ELSE x[n]
        <3>0. upTo(q, n + 1) \in SUBSET q
            BY DEF upTo
        <3>1. /\ n + 1 \notin q => upTo(q, n + 1) = upTo(q, n)
              /\ n + 1 \in q =>
                    /\ upTo(q, n + 1) # {}
                    /\ Max(upTo(q, n + 1)) = n + 1
                    /\ upTo(q, n + 1) \ {n + 1} = upTo(q, n)
            BY <1>3 DEF Growing
        <3>2. n + 1 \in q => c[upTo(q, n + 1)] = effect(c[upTo(q, n)], ops[n + 1])
            BY <1>6, <3>0, <3>1 DEF Eq
        <3> QED BY <3>1, <3>2
    <2> HIDE DEF x
    <2> QED BY <2>1, <2>2 DEF RunSteps
<1>8. x[MaxOps] = c[q]
    BY <1>0, <1>3 DEF Growing
<1> HIDE DEF x
<1> QED BY <1>5, <1>7, <1>8

\* A queue is replayed from the gestures made.
LEMMA ReplayIsRun ==
    ASSUME NEW its, NEW q
    PROVE  replay(its, q) = run(issued, its, q)
BY DEF replay, replayOne, inOrder, MapThenFoldSet, run

ReplaySteps(x, its, q) == RunSteps(issued, x, its, q)

LEMMA ReplayedInOrder ==
    ASSUME NEW q \in SUBSET OpId, NEW J, NEW its \in J,
           \A r \in J, k \in q : effect(r, issued[k]) \in J
    PROVE  \E x : ReplaySteps(x, its, q) /\ replay(its, q) = x[MaxOps]
BY RunInOrder, ReplayIsRun DEF ReplaySteps

\* What holds of the start, and of each state when it holds of the one before.
LEMMA AllAlong ==
    ASSUME NEW x, NEW J, x[0] \in J, \A n \in Nat : x[n] \in J => x[n + 1] \in J
    PROVE  \A n \in Nat : x[n] \in J
<1> DEFINE N == {n \in Nat : x[n] \in J}
<1>1. 0 \in N /\ \A n \in Nat : n \in N => n + 1 \in N
    OBVIOUS
<1> HIDE DEF N
<1>2. Nat \subseteq N
    BY <1>1, Ups
<1> QED BY <1>2 DEF N

-----------------------------------------------------------------------------
(***************************************************************************)
(* What operations do to articles.                                         *)
(***************************************************************************)

\* o carries what its kind needs.
Fits(o) ==
    /\ o.op \in {"add", "edit"} => o.arg \in List
    /\ o.op = "set-state" => o.arg \in SHOP_STATES

\* Every article is on a list that exists.
OnLists(its) == \A i \in Item : its[i] # Absent => its[i].list \in lists

LEMMA ArticleIs ==
    ASSUME NEW its \in Articles, NEW i \in Item
    PROVE  /\ its[i] # Absent => its[i] \in Article
           /\ Absent \notin Article
BY OpSyncAssumption DEF Articles, Article, SHOP_STATES

\* An operation touches one article.
LEMMA EffectIs ==
    ASSUME NEW its \in Articles, NEW o \in Op, Fits(o)
    PROVE  /\ effect(its, o) \in Articles
           /\ \A i \in Item \ {o.item} : effect(its, o)[i] = its[i]
           /\ o.op = "add" =>
                 effect(its, o)[o.item] = IF its[o.item] = Absent
                                          THEN [list |-> o.arg, state |-> "a-prendre"]
                                          ELSE its[o.item]
           /\ o.op = "remove" => effect(its, o)[o.item] = Absent
           /\ o.op = "set-state" =>
                 effect(its, o)[o.item] = IF its[o.item] = Absent THEN Absent
                                          ELSE [list |-> its[o.item].list, state |-> o.arg]
           /\ o.op = "edit" =>
                 effect(its, o)[o.item] = IF its[o.item] = Absent THEN Absent
                                          ELSE [list |-> o.arg, state |-> its[o.item].state]
<1> DEFINE i == o.item
<1>1. i \in Item /\ its[i] \in Article \union {Absent}
      /\ o.op \in {"add", "set-state", "edit", "remove"}
    BY DEF Articles, Op
<1> HIDE DEF i
<1>2. CASE o.op = "add"
    <2>1. effect(its, o) = IF its[i] = Absent
                           THEN [its EXCEPT ![i] = [list |-> o.arg, state |-> "a-prendre"]]
                           ELSE its
        BY <1>2 DEF effect, i
    <2>2. [list |-> o.arg, state |-> "a-prendre"] \in Article
        BY <1>2 DEF Fits, Article, SHOP_STATES
    <2> QED BY <1>1, <1>2, <2>1, <2>2 DEF Articles, i
<1>3. CASE o.op = "remove"
    <2>1. effect(its, o) = [its EXCEPT ![i] = Absent]
        BY <1>3 DEF effect, i
    <2> QED BY <1>1, <1>3, <2>1 DEF Articles, i
<1>4. CASE o.op = "set-state"
    <2>1. effect(its, o) = IF its[i] # Absent THEN [its EXCEPT ![i].state = o.arg] ELSE its
        BY <1>4 DEF effect, i
    <2>2. its[i] # Absent =>
              /\ [its[i] EXCEPT !.state = o.arg] = [list |-> its[i].list, state |-> o.arg]
              /\ [its[i] EXCEPT !.state = o.arg] \in Article
        BY <1>1, <1>4 DEF Fits, Article
    <2> QED BY <1>1, <1>4, <2>1, <2>2 DEF Articles, i
<1>5. CASE o.op = "edit"
    <2>1. effect(its, o) = IF its[i] # Absent THEN [its EXCEPT ![i].list = o.arg] ELSE its
        BY <1>5 DEF effect, i
    <2>2. its[i] # Absent =>
              /\ [its[i] EXCEPT !.list = o.arg] = [list |-> o.arg, state |-> its[i].state]
              /\ [its[i] EXCEPT !.list = o.arg] \in Article
        BY <1>1, <1>5 DEF Fits, Article
    <2> QED BY <1>1, <1>5, <2>1, <2>2 DEF Articles, i
<1> QED BY <1>1, <1>2, <1>3, <1>4, <1>5

\* What the server does not refuse leaves the articles on lists that exist.
LEMMA ServedOnLists ==
    ASSUME NEW its \in Articles, OnLists(its), NEW o \in Op, Fits(o), ~refuses(its, o)
    PROVE  OnLists(effect(its, o))
<1> DEFINE i == o.item
           new == effect(its, o)
<1>1. i \in Item /\ o.op \in {"add", "set-state", "edit", "remove"}
    BY DEF Op
<1>2. new[i] # Absent => new[i].list \in lists
    <2>1. CASE o.op = "add"
        <3>1. new[i] = IF its[i] = Absent THEN [list |-> o.arg, state |-> "a-prendre"]
                                          ELSE its[i]
            BY <2>1, EffectIs
        <3> HIDE DEF new
        <3> QED BY <1>1, <2>1, <3>1 DEF OnLists, refuses
    <2>2. CASE o.op = "remove"
        BY <1>1, <2>2, EffectIs
    <2>3. CASE o.op = "set-state"
        <3>1. new[i] = IF its[i] = Absent THEN Absent
                       ELSE [list |-> its[i].list, state |-> o.arg]
            BY <2>3, EffectIs
        <3> HIDE DEF new
        <3> QED BY <1>1, <3>1 DEF OnLists
    <2>4. CASE o.op = "edit"
        <3>1. new[i] = IF its[i] = Absent THEN Absent
                       ELSE [list |-> o.arg, state |-> its[i].state]
            BY <2>4, EffectIs
        <3> HIDE DEF new
        <3> QED BY <1>1, <2>4, <3>1 DEF OnLists, refuses
    <2> QED BY <1>1, <2>1, <2>2, <2>3, <2>4
<1>3. \A j \in Item \ {i} : new[j] = its[j]
    BY EffectIs
<1> HIDE DEF new, i
<1>4. \A j \in Item : new[j] # Absent => new[j].list \in lists
    BY <1>2, <1>3 DEF OnLists
<1> QED BY <1>4 DEF OnLists, new

LEMMA IssuedIs ==
    ASSUME OpsTyped, GesturesFit, NEW k \in DOMAIN issued
    PROVE  issued[k] \in Op /\ Fits(issued[k]) /\ k \in OpId
<1>1. issued[k] \in Op
    BY DEF OpsTyped
<1>2. Fits(issued[k])
    BY DEF GesturesFit, Fits
<1>3. k \in OpId
    BY OpSyncAssumption DEF OpsTyped, OpId
<1> QED BY <1>1, <1>2, <1>3

\* A batch leaves a list of articles, on lists that exist; and nothing changed
\* when nothing was applied.
LEMMA BatchApplied ==
    ASSUME OpsTyped, GesturesFit, items \in Articles, ListsKnown,
           NEW batch \in SUBSET OpId, batch \subseteq DOMAIN issued
    PROVE  /\ applyOps(batch).items \in Articles
           /\ OnLists(applyOps(batch).items)
           /\ batch \ applyOps(batch).skipped = {} => applyOps(batch).items = items
<1> DEFINE J == {r \in [items : Articles, skipped : SUBSET OpId] : OnLists(r.items)}
           start == [items |-> items, skipped |-> {}]
<1>1. start \in J
    BY DEF ListsKnown, OnLists
<1>2. ASSUME NEW r \in J, NEW k \in batch
      PROVE  applyOne(r, k) \in J
    <2>1. issued[k] \in Op /\ Fits(issued[k]) /\ k \in OpId
        BY IssuedIs
    <2>2. r.items \in Articles /\ r.skipped \subseteq OpId /\ OnLists(r.items)
        OBVIOUS
    <2>3. CASE alreadyApplied(k)
        BY <2>3 DEF applyOne
    <2>4. CASE ~alreadyApplied(k) /\ refuses(r.items, issued[k])
        BY <2>1, <2>2, <2>4 DEF applyOne
    <2>5. CASE ~alreadyApplied(k) /\ ~refuses(r.items, issued[k])
        <3>1. effect(r.items, issued[k]) \in Articles
            BY <2>1, <2>2, EffectIs
        <3>2. OnLists(effect(r.items, issued[k]))
            BY <2>1, <2>2, <2>5, ServedOnLists
        <3>3. applyOne(r, k) = [items |-> effect(r.items, issued[k]), skipped |-> r.skipped]
            BY <2>5 DEF applyOne
        <3> QED BY <2>2, <3>1, <3>2, <3>3
    <2> QED BY <2>3, <2>4, <2>5
<1> HIDE DEF J, start
<1>3. PICK x : ApplySteps(x, batch) /\ applyOps(batch) = x[MaxOps]
    BY <1>1, <1>2, AppliedInOrder DEF start
<1>4. x[0] = start
    BY <1>3 DEF ApplySteps, start
<1>5. \A n \in Nat : x[n + 1] = IF n + 1 \in batch THEN applyOne(x[n], n + 1) ELSE x[n]
    BY <1>3 DEF ApplySteps
<1>6. \A n \in Nat : x[n] \in J
    <2>1. \A n \in Nat : x[n] \in J => x[n + 1] \in J
        BY <1>2, <1>5
    <2> QED BY <1>1, <1>4, <2>1, AllAlong
<1>7. MaxOps \in Nat /\ batch \subseteq 1..MaxOps
    BY OpSyncAssumption DEF OpId
<1>8. x[MaxOps].items \in Articles /\ OnLists(x[MaxOps].items)
    BY <1>6, <1>7 DEF J
<1>9. batch \ x[MaxOps].skipped = {} => x[MaxOps].items = items
    <2> DEFINE done(n) == \E k \in batch : k <= n /\ k \notin x[n].skipped
               N == {n \in Nat : /\ \A k \in x[n].skipped : k <= n
                                 /\ done(n) \/ x[n].items = items}
    <2>1. 0 \in N
        BY <1>4 DEF start
    <2>2. ASSUME NEW n \in Nat, n \in N
          PROVE  n + 1 \in N
        <3> DEFINE m == n + 1
        <3>1. m \in Nat /\ n < m
            OBVIOUS
        <3>2. \A k \in OpId : k <= n => k <= m /\ k # m
            BY <3>1 DEF OpId
        <3>3. x[n].skipped \subseteq OpId
            BY <1>6 DEF J
        <3>4. CASE m \notin batch
            BY <1>5, <2>2, <3>1, <3>2, <3>3, <3>4
        <3>5. CASE m \in batch /\ alreadyApplied(m)
            <4>1. x[m] = x[n]
                BY <1>5, <3>5 DEF applyOne
            <4>2. m \notin x[n].skipped
                BY <2>2, <3>1
            <4> QED BY <2>2, <3>1, <3>2, <3>3, <3>5, <4>1, <4>2
        <3>6. CASE m \in batch /\ ~alreadyApplied(m) /\ refuses(x[n].items, issued[m])
            <4>1. x[m] = [items |-> x[n].items, skipped |-> x[n].skipped \union {m}]
                BY <1>5, <3>6 DEF applyOne
            <4>2. x[m].items = x[n].items /\ x[m].skipped = x[n].skipped \union {m}
                BY <4>1
            <4>3. done(n) => done(m)
                BY <3>1, <3>2, <4>2
            <4>4. \A k \in x[m].skipped : k <= m
                BY <2>2, <3>1, <3>2, <3>3, <4>2
            <4> QED BY <2>2, <3>1, <4>2, <4>3, <4>4
        <3>7. CASE m \in batch /\ ~alreadyApplied(m) /\ ~refuses(x[n].items, issued[m])
            <4>1. x[m].skipped = x[n].skipped
                <5>1. x[m] = applyOne(x[n], m)
                    BY <1>5, <3>7
                <5>2. x[m] = [items |-> effect(x[n].items, issued[m]),
                              skipped |-> x[n].skipped]
                    BY <3>7, <5>1 DEF applyOne
                <5> QED BY <5>2
            <4>2. m \notin x[n].skipped
                BY <2>2, <3>1
            <4> QED BY <2>2, <3>1, <3>2, <3>3, <3>7, <4>1, <4>2
        <3> QED BY <3>4, <3>5, <3>6, <3>7
    <2> HIDE DEF N
    <2>3. MaxOps \in N
        BY <1>7, <2>1, <2>2, Ups
    <2> QED BY <2>3 DEF N
<1> QED BY <1>3, <1>8, <1>9

\* A queue replayed gives a list of articles.
LEMMA ReplayTyped ==
    ASSUME OpsTyped, GesturesFit, NEW its \in Articles,
           NEW q \in SUBSET OpId, q \subseteq DOMAIN issued
    PROVE  replay(its, q) \in Articles
<1>1. \A r \in Articles, k \in q : effect(r, issued[k]) \in Articles
    BY IssuedIs, EffectIs
<1>2. PICK x : ReplaySteps(x, its, q) /\ replay(its, q) = x[MaxOps]
    BY <1>1, ReplayedInOrder
<1>3. x[0] \in Articles /\ \A n \in Nat : x[n] \in Articles => x[n + 1] \in Articles
    BY <1>1, <1>2 DEF ReplaySteps, RunSteps
<1>4. \A n \in Nat : x[n] \in Articles
    BY <1>3, AllAlong
<1> QED BY <1>2, <1>4, OpSyncAssumption

\* With an empty queue, the screen is what the server said.
LEMMA ReplayNothing ==
    ASSUME NEW its
    PROVE  replay(its, {}) = its
<1> DEFINE J == {its}
<1>1. \A r \in J, k \in {} : effect(r, issued[k]) \in J
    OBVIOUS
<1>2. its \in J /\ {} \in SUBSET OpId
    OBVIOUS
<1> HIDE DEF J
<1>3. PICK x : ReplaySteps(x, its, {}) /\ replay(its, {}) = x[MaxOps]
    BY <1>1, <1>2, ReplayedInOrder
<1>4. x[0] \in J /\ \A n \in Nat : x[n] \in J => x[n + 1] \in J
    BY <1>2, <1>3 DEF ReplaySteps, RunSteps
<1>5. \A n \in Nat : x[n] \in J
    BY <1>4, AllAlong
<1> QED BY <1>3, <1>5, OpSyncAssumption DEF J

-----------------------------------------------------------------------------
(***************************************************************************)
(* The lists and the screens, action by action.                            *)
(***************************************************************************)

\* What a step starts from.
Sound == OpsTyped /\ ArticlesTyped /\ OpInv /\ ScreenInv

\* What c was told, by whichever answer.
SaidTo(c) ==
    /\ flight[c].st = "ok" => Said(answer[c])
    /\ reading[c].st = "answered" => Said(reading[c])
    /\ \A n \in Polls :
          poll[c][n].st = "answered" /\ ~poll[c][n].unchanged => Said(poll[c][n])

\* AnswersCurrent, one application at a time.
LEMMA TheySaid == AnswersCurrent <=> \A c \in Client : SaidTo(c)
BY DEF AnswersCurrent, SaidTo

\* The household changes under a new version, or not at all.
LEMMA HouseholdMoves ==
    ASSUME Sound, items' \in Articles,
           version' = version + 1 \/ UNCHANGED <<items, version>>, ListsKnown',
           UNCHANGED <<issued, liveVersion, open, polled, late, poll, reading, shown, queue>>,
           \A c \in Client : flight'[c].st = "ok" =>
               \/ flight[c].st = "ok" /\ answer'[c] = answer[c]
               \/ answer'[c].ver = version' /\ answer'[c].items = items'
    PROVE  ScreenInv'
<1>1. /\ version \in Nat /\ version > 0 /\ version' \in Nat /\ version' > 0
      /\ version <= version'
      /\ \A c \in Client : /\ liveVersion[c] \in Nat /\ liveVersion[c] <= polled[c]
                           /\ polled[c] \in Nat /\ polled[c] <= version
    BY DEF Sound, ArticlesTyped, ScreenInv, PollsFromTheLast
<1>2. AnswersCurrent'
    <2> SUFFICES ASSUME NEW c \in Client
                 PROVE  SaidTo(c)'
        BY DEF AnswersCurrent, SaidTo
    <2>1. /\ answer[c].ver \in Nat /\ reading[c].ver \in Nat
          /\ \A n \in Polls : poll[c][n].ver \in Nat
        BY DEF Sound, ArticlesTyped, Answer, Reading, Poll
    <2>2. SaidTo(c)
        BY TheySaid DEF Sound, ScreenInv
    <2>3. ASSUME reading[c].st = "answered"
          PROVE  Said(reading[c])'
        <3>1. Said(reading[c])
            BY <2>2, <2>3 DEF SaidTo
        <3> QED BY <1>1, <2>1, <3>1 DEF Said
    <2>4. ASSUME NEW n \in Polls, poll[c][n].st = "answered", ~poll[c][n].unchanged
          PROVE  Said(poll[c][n])'
        <3>1. Said(poll[c][n])
            BY <2>2, <2>4 DEF SaidTo
        <3> QED BY <1>1, <2>1, <3>1 DEF Said
    <2>5. ASSUME flight'[c].st = "ok"
          PROVE  Said(answer[c])'
        <3>1. CASE answer'[c].ver = version' /\ answer'[c].items = items'
            BY <1>1, <3>1 DEF Said
        <3>2. CASE flight[c].st = "ok" /\ answer'[c] = answer[c]
            <4>1. Said(answer[c])
                BY <2>2, <3>2 DEF SaidTo
            <4> QED BY <1>1, <2>1, <3>2, <4>1 DEF Said
        <3> QED BY <2>5, <3>1, <3>2
    <2> QED BY <2>3, <2>4, <2>5 DEF SaidTo
<1>3. PollsFromTheLast'
    BY <1>1 DEF Sound, ScreenInv, PollsFromTheLast
<1>4. ShowsTheLast'
    BY <1>1 DEF Sound, ScreenInv, ShowsTheLast
<1>5. GesturesFit'
    BY DEF Sound, ScreenInv, GesturesFit
<1> QED BY <1>1, <1>2, <1>3, <1>4, <1>5 DEF ScreenInv

\* What executing a batch does to the household.
LEMMA ServingMoves ==
    ASSUME Sound, NEW batch \in SUBSET OpId, Closed(batch),
           applyShoppingOps(batch, applyOps(batch))
    PROVE  /\ items' \in Articles /\ items' = applyOps(batch).items
           /\ version' = version + 1 \/ UNCHANGED <<items, version>>
           /\ version' \in Nat
           /\ UNCHANGED lists
           /\ ListsKnown'
<1> DEFINE res == applyOps(batch)
           applied == batch \ res.skipped
<1>1. batch \subseteq DOMAIN issued
    BY DEF Closed
<1>2. OpsTyped /\ GesturesFit /\ items \in Articles /\ ListsKnown
    BY DEF Sound, ScreenInv, ArticlesTyped
<1>3. /\ res.items \in Articles /\ OnLists(res.items)
      /\ applied = {} => res.items = items
    BY <1>1, <1>2, BatchApplied
<1>4. /\ UNCHANGED lists
      /\ applied # {} => items' = res.items /\ version' = version + 1
      /\ applied = {} => UNCHANGED <<items, version>>
    BY DEF applyShoppingOps
<1>5. version \in Nat
    BY DEF Sound, ArticlesTyped
<1> HIDE DEF res, applied
<1>6. items' = res.items
    BY <1>3, <1>4
<1>7. ListsKnown'
    BY <1>3, <1>4, <1>6 DEF ListsKnown, OnLists
<1> QED BY <1>3, <1>4, <1>5, <1>6, <1>7 DEF res

LEMMA PostShows ==
    ASSUME Sound, NEW c \in Client, PostOps(c)
    PROVE  ArticlesTyped' /\ ScreenInv'
<1> DEFINE batch == flight[c].batch
<1>1. batch \in SUBSET OpId /\ Closed(batch)
    BY DEF PostOps, Sound, OpsTyped, Flight, OpInv, BatchesClosed
<1>2. UNCHANGED <<screen, poll, reading, stray, issued, bounds>>
    BY DEF PostOps
<1>3. CASE /\ flight' = [flight EXCEPT ![c] = Flying("error", batch, {})]
           /\ UNCHANGED <<household, journal, history, answer>>
    <2>1. ArticlesTyped'
        BY <1>2, <1>3 DEF Sound, ArticlesTyped, household, bounds
    <2>2. \A e \in Client : flight'[e].st = "ok" => flight[e].st = "ok"
        BY <1>3 DEF Sound, OpsTyped, Flying
    <2>3. items' \in Articles /\ ListsKnown'
        BY <1>3 DEF Sound, ArticlesTyped, ScreenInv, ListsKnown, household
    <2> QED BY <1>2, <1>3, <2>1, <2>2, <2>3, HouseholdMoves DEF household
<1>4. CASE /\ applyShoppingOps(batch, applyOps(batch))
           /\ flight' = [flight EXCEPT ![c] = Flying("ok", batch, batch)]
           /\ answer' = [answer EXCEPT ![c] = [ver |-> version',
                                               items |-> applyOps(batch).items]]
    <2>1. /\ items' \in Articles /\ items' = applyOps(batch).items
          /\ version' = version + 1 \/ UNCHANGED <<items, version>>
          /\ version' \in Nat
          /\ UNCHANGED lists
          /\ ListsKnown'
        BY <1>1, <1>4, ServingMoves
    <2>2. answer' = [answer EXCEPT ![c] = [ver |-> version', items |-> items']]
        BY <1>4, <2>1
    <2>3. answer' \in [Client -> Answer]
        BY <2>1, <2>2 DEF Sound, ArticlesTyped, Answer
    <2>4. ArticlesTyped'
        BY <1>2, <2>1, <2>3 DEF Sound, ArticlesTyped, bounds
    <2>5. \A e \in Client : flight'[e].st = "ok" =>
              \/ flight[e].st = "ok" /\ answer'[e] = answer[e]
              \/ answer'[e].ver = version' /\ answer'[e].items = items'
        BY <1>4, <2>2 DEF Sound, OpsTyped, ArticlesTyped
    <2> QED BY <1>2, <2>1, <2>4, <2>5, HouseholdMoves
<1> QED BY <1>3, <1>4 DEF PostOps

LEMMA StrayShows ==
    ASSUME Sound, NEW batch \in stray, PostStray(batch)
    PROVE  ArticlesTyped' /\ ScreenInv'
<1>1. batch \in SUBSET OpId /\ Closed(batch)
    BY DEF Sound, OpsTyped, OpInv, BatchesClosed
<1>2. UNCHANGED <<screen, flight, answer, poll, reading, issued, bounds>>
    BY DEF PostStray
<1>3. CASE UNCHANGED <<household, journal, history>>
    <2>1. ArticlesTyped'
        BY <1>2, <1>3 DEF Sound, ArticlesTyped, household, bounds
    <2>2. items' \in Articles /\ ListsKnown'
        BY <1>3 DEF Sound, ArticlesTyped, ScreenInv, ListsKnown, household
    <2> QED BY <1>2, <1>3, <2>1, <2>2, HouseholdMoves DEF household
<1>4. CASE applyShoppingOps(batch, applyOps(batch))
    <2>1. /\ items' \in Articles
          /\ version' = version + 1 \/ UNCHANGED <<items, version>>
          /\ version' \in Nat
          /\ UNCHANGED lists
          /\ ListsKnown'
        BY <1>1, <1>4, ServingMoves
    <2>2. ArticlesTyped'
        BY <1>2, <2>1 DEF Sound, ArticlesTyped, bounds
    <2> QED BY <1>2, <2>1, <2>2, HouseholdMoves
<1> QED BY <1>3, <1>4 DEF PostStray

\* The articles of a list go with it.
LEMMA RemoveShows ==
    ASSUME Sound, NEW l \in List, RemoveList(l)
    PROVE  ArticlesTyped' /\ ScreenInv'
<1>1. /\ lists' = lists \ {l} /\ version' = version + 1
      /\ items' = [i \in Item |-> IF items[i] # Absent /\ items[i].list = l
                                  THEN Absent ELSE items[i]]
      /\ UNCHANGED <<journal, screen, wires, issued, history, bounds>>
    BY DEF RemoveList
<1>2. items' \in Articles
    BY <1>1 DEF Sound, ArticlesTyped, Articles
<1>3. ListsKnown'
    BY <1>1 DEF Sound, ScreenInv, ListsKnown
<1>4. ArticlesTyped'
    BY <1>1, <1>2 DEF Sound, ArticlesTyped, bounds
<1> QED BY <1>1, <1>2, <1>3, <1>4, HouseholdMoves

\* A step that leaves the household and the gestures alone.
LEMMA HouseholdStill ==
    ASSUME Sound, UNCHANGED <<items, lists, version, issued>>,
           AnswersCurrent', PollsFromTheLast', ShowsTheLast'
    PROVE  ScreenInv'
BY DEF Sound, ScreenInv, GesturesFit, ListsKnown

\* What c was told is as true as it was.
StillSaid(c) ==
    /\ flight'[c].st = "ok" => flight[c].st = "ok" /\ answer'[c] = answer[c]
    /\ reading'[c].st = "answered" => reading[c].st = "answered" /\ reading'[c] = reading[c]
    /\ \A n \in Polls : poll'[c][n].st = "answered" =>
          poll[c][n].st = "answered" /\ poll'[c][n] = poll[c][n]

\* ... and is then still true.
LEMMA StillSaidOf ==
    ASSUME Sound, UNCHANGED household, NEW c \in Client, StillSaid(c)
    PROVE  SaidTo(c)'
<1>1. SaidTo(c)
    BY TheySaid DEF Sound, ScreenInv
<1>2. flight'[c].st = "ok" => Said(answer[c])'
    BY <1>1 DEF StillSaid, SaidTo, Said, household
<1>3. reading'[c].st = "answered" => Said(reading[c])'
    BY <1>1 DEF StillSaid, SaidTo, Said, household
<1>4. ASSUME NEW n \in Polls, poll'[c][n].st = "answered" /\ ~poll'[c][n].unchanged
      PROVE  Said(poll[c][n])'
    BY <1>1, <1>4 DEF StillSaid, SaidTo, Said, household
<1> QED BY <1>2, <1>3, <1>4 DEF SaidTo

\* The same of every application.
LEMMA AllStillSaid ==
    ASSUME Sound, UNCHANGED household, \A c \in Client : StillSaid(c)
    PROVE  AnswersCurrent'
<1>1. \A c \in Client : SaidTo(c)'
    BY StillSaidOf
<1> QED BY <1>1 DEF AnswersCurrent, SaidTo

\* A poll under way, or one that found nothing new, is about a version c knows.
Asks(c, p) == p.st = "asked" \/ (p.st = "answered" /\ p.unchanged) => p.ver <= polled[c]

\* The wires move, the screens do not.
LEMMA WiresMove ==
    ASSUME Sound, UNCHANGED <<household, shown, queue, liveVersion, open, polled, late, issued>>,
           \A c \in Client : StillSaid(c),
           \A c \in Client :
               /\ \A n \in Polls : Asks(c, poll'[c][n])
               /\ ~open[c] => poll'[c] = NoPolls
    PROVE  ScreenInv'
<1>1. AnswersCurrent'
    BY AllStillSaid
<1>2. PollsFromTheLast'
    BY DEF Sound, ScreenInv, PollsFromTheLast, Asks, household
<1>3. ShowsTheLast'
    BY DEF Sound, ScreenInv, ShowsTheLast, household
<1> QED BY <1>1, <1>2, <1>3, HouseholdStill DEF household

\* No poll is a poll, at rest.
LEMMA NoPollTyped == NoPoll \in Poll /\ NoPoll.st = "none" /\ NoPolls \in [Polls -> Poll]
BY DEF NoPoll, NoPolls, Poll, Articles, Nothing

\* One poll of c moves.
LEMMA OnePollMoves ==
    ASSUME Sound, NEW c \in Client, NEW n \in Polls, NEW p \in Poll,
           poll' = [poll EXCEPT ![c][n] = p]
    PROVE  /\ poll' \in [Client -> [Polls -> Poll]]
           /\ poll'[c][n] = p
           /\ \A m \in Polls : m # n => poll'[c][m] = poll[c][m]
           /\ \A e \in Client : e # c => poll'[e] = poll[e]
BY DEF Sound, ArticlesTyped

\* A poll under way is that of an open application.
LEMMA PollerIsOpen ==
    ASSUME Sound, NEW c \in Client, NEW n \in Polls, poll[c][n].st # "none"
    PROVE  open[c]
<1>1. ~open[c] => poll[c] = NoPolls
    BY DEF Sound, ScreenInv, PollsFromTheLast
<1>2. NoPolls[n].st = "none"
    BY DEF NoPolls, NoPoll
<1> QED BY <1>1, <1>2

\* A flush leaves, fails, or is lost.
LEMMA FlushShows ==
    ASSUME Sound, NEW c \in Client, flushShopQueue(c) \/ FlushFailed(c) \/ FlushLost(c)
    PROVE  ArticlesTyped' /\ ScreenInv'
<1>1. UNCHANGED <<household, screen, reading, poll, issued>>
    BY DEF flushShopQueue, FlushFailed, FlushLost
<1>2. \A e \in Client : flight'[e].st = "ok" => flight[e].st = "ok" /\ answer'[e] = answer[e]
    <2>1. CASE flushShopQueue(c)
        BY <2>1 DEF flushShopQueue, Sound, OpsTyped, Flying
    <2>2. CASE FlushFailed(c)
        BY <2>2 DEF FlushFailed, Sound, OpsTyped, Flying, NoFlight
    <2>3. CASE FlushLost(c)
        BY <2>3 DEF FlushLost, Sound, OpsTyped, ArticlesTyped, Flying, NoFlight
    <2> QED BY <2>1, <2>2, <2>3
<1>3. \A e \in Client : StillSaid(e)
    BY <1>1, <1>2 DEF StillSaid
<1>4. \A e \in Client :
          /\ \A n \in Polls : Asks(e, poll'[e][n])
          /\ ~open[e] => poll'[e] = NoPolls
    BY <1>1 DEF Sound, ScreenInv, PollsFromTheLast, Asks
<1>5. ScreenInv'
    BY <1>1, <1>3, <1>4, WiresMove DEF screen
<1>6. answer' \in [Client -> Answer]
    <2>1. NoAnswer \in Answer
        BY DEF NoAnswer, Answer, Articles, Nothing
    <2>2. answer' = answer \/ answer' = [answer EXCEPT ![c] = NoAnswer]
        BY DEF flushShopQueue, FlushFailed, FlushLost
    <2> HIDE DEF NoAnswer
    <2> QED BY <2>1, <2>2 DEF Sound, ArticlesTyped
<1>7. UNCHANGED <<restarts, reads>> /\ losses' \in Nat
    BY DEF flushShopQueue, FlushFailed, FlushLost, Sound, ArticlesTyped, bounds
<1>8. ArticlesTyped'
    BY <1>1, <1>6, <1>7 DEF Sound, ArticlesTyped, household, screen
<1> QED BY <1>5, <1>8

\* A poll asks, from the version last polled, or is lost.
LEMMA PollShows ==
    ASSUME Sound, NEW c \in Client, NEW n \in Polls, pollLive(c, n) \/ PollLost(c, n)
    PROVE  ArticlesTyped' /\ ScreenInv'
<1> DEFINE p == [st |-> "asked", ver |-> liveVersion[c], unchanged |-> TRUE, items |-> Nothing]
<1>1. /\ UNCHANGED <<household, screen, flight, answer, reading, issued, restarts, reads>>
      /\ losses' \in Nat
    BY DEF pollLive, PollLost, bounds, Sound, ArticlesTyped
<1>2. PICK q \in Poll : /\ poll' = [poll EXCEPT ![c][n] = q]
                        /\ q.st # "answered" /\ (q.st = "asked" => q.ver = liveVersion[c])
    <2>1. p \in Poll /\ p.st = "asked" /\ p.ver = liveVersion[c]
        BY DEF Poll, Articles, Nothing, Sound, ArticlesTyped
    <2>2. CASE pollLive(c, n)
        <3>1. poll' = [poll EXCEPT ![c][n] = p]
            BY <2>2 DEF pollLive
        <3> HIDE DEF p
        <3> QED BY <2>1, <3>1
    <2>3. CASE PollLost(c, n)
        <3>1. poll' = [poll EXCEPT ![c][n] = NoPoll]
            BY <2>3 DEF PollLost
        <3> QED BY <3>1, NoPollTyped
    <2> QED BY <2>2, <2>3
<1> HIDE DEF p
<1>3. open[c]
    <2>1. CASE pollLive(c, n)
        BY <2>1 DEF pollLive
    <2>2. CASE PollLost(c, n)
        BY <2>2, PollerIsOpen DEF PollLost
    <2> QED BY <2>1, <2>2
<1>4. /\ poll' \in [Client -> [Polls -> Poll]] /\ poll'[c][n] = q
      /\ \A m \in Polls : m # n => poll'[c][m] = poll[c][m]
      /\ \A e \in Client : e # c => poll'[e] = poll[e]
    BY <1>2, OnePollMoves
<1>5. \A e \in Client : StillSaid(e)
    BY <1>1, <1>2, <1>4 DEF StillSaid
<1>6. liveVersion[c] <= polled[c]
    BY DEF Sound, ScreenInv, PollsFromTheLast
<1>7. \A e \in Client :
          /\ \A m \in Polls : Asks(e, poll'[e][m])
          /\ ~open[e] => poll'[e] = NoPolls
    <2>1. \A e \in Client : \A m \in Polls : Asks(e, poll[e][m])
        BY DEF Sound, ScreenInv, PollsFromTheLast, Asks
    <2>2. Asks(c, q)
        BY <1>2, <1>6 DEF Asks
    <2>3. \A e \in Client : ~open[e] => poll[e] = NoPolls
        BY DEF Sound, ScreenInv, PollsFromTheLast
    <2> QED BY <1>3, <1>4, <2>1, <2>2, <2>3
<1>8. ScreenInv'
    BY <1>1, <1>5, <1>7, WiresMove DEF screen
<1>9. ArticlesTyped'
    BY <1>1, <1>4 DEF Sound, ArticlesTyped, household, screen
<1> QED BY <1>8, <1>9

\* The document asked for again.
LEMMA RefreshShows ==
    ASSUME Sound, NEW c \in Client, refreshDocument(c)
    PROVE  ArticlesTyped' /\ ScreenInv'
<1>1. /\ reading' = [reading EXCEPT ![c] = Asked]
      /\ UNCHANGED <<household, journal, screen, flight, answer, poll, stray, issued, history,
                     losses, restarts>>
      /\ reads' = reads + 1
    BY DEF refreshDocument
<1>2. Asked \in Reading /\ Asked.st = "asked"
    BY DEF Asked, Reading, Articles, Nothing
<1>3. reading' \in [Client -> Reading] /\ reads' \in Nat
    BY <1>1, <1>2 DEF Sound, ArticlesTyped
<1>4. reading'[c] = Asked /\ \A e \in Client : e # c => reading'[e] = reading[e]
    BY <1>1 DEF Sound, ArticlesTyped
<1>5. \A e \in Client : StillSaid(e)
    BY <1>1, <1>2, <1>4 DEF StillSaid
<1>6. ScreenInv'
    BY <1>1, <1>5, WiresMove DEF Sound, ScreenInv, PollsFromTheLast, Asks, screen
<1>7. ArticlesTyped'
    BY <1>1, <1>3 DEF Sound, ArticlesTyped, household, screen
<1> QED BY <1>6, <1>7

\* The server answers a poll: it says what is.
LEMMA LiveSays ==
    ASSUME Sound, NEW c \in Client, NEW n \in Polls, GetLive(c, n)
    PROVE  ArticlesTyped' /\ ScreenInv'
<1> DEFINE same == poll[c][n].ver = version
           p == [st |-> "answered", ver |-> version, unchanged |-> same,
                 items |-> IF same THEN Nothing ELSE items]
<1>1. /\ UNCHANGED <<household, journal, screen, flight, answer, reading, stray, issued, history,
                     bounds>>
      /\ poll[c][n].st = "asked"
      /\ poll' = [poll EXCEPT ![c][n] = p]
    BY DEF GetLive
<1>2. /\ version \in Nat /\ items \in Articles
      /\ \A e \in Client : \A m \in Polls : Asks(e, poll[e][m])
      /\ \A e \in Client : ~open[e] => poll[e] = NoPolls
    BY DEF Sound, ScreenInv, ArticlesTyped, PollsFromTheLast, Asks
<1>3. p \in Poll
    BY <1>2 DEF Poll, Articles, Nothing
<1>4. /\ p.st = "answered" /\ p.ver = version /\ (p.unchanged <=> same)
      /\ p.unchanged \/ p.items = items
    OBVIOUS
<1>5. same => version <= polled[c]
    BY <1>1, <1>2 DEF Asks
<1> HIDE DEF p, same
<1>6. /\ poll' \in [Client -> [Polls -> Poll]] /\ poll'[c][n] = p
      /\ \A m \in Polls : m # n => poll'[c][m] = poll[c][m]
      /\ \A e \in Client : e # c => poll'[e] = poll[e]
    BY <1>1, <1>3, OnePollMoves
<1>7. open[c]
    BY <1>1, PollerIsOpen
<1>8. AnswersCurrent'
    <2> SUFFICES ASSUME NEW e \in Client
                 PROVE  SaidTo(e)'
        BY DEF AnswersCurrent, SaidTo
    <2>1. CASE e # c
        <3>1. StillSaid(e)
            BY <1>1, <1>6, <2>1 DEF StillSaid
        <3> QED BY <1>1, <3>1, StillSaidOf
    <2>2. CASE e = c
        <3>1. SaidTo(c)
            BY TheySaid DEF Sound, ScreenInv
        <3>2. ~p.unchanged => p.ver <= version' /\ p.items = items'
            BY <1>1, <1>2, <1>4 DEF Said, household
        <3>3. ASSUME NEW m \in Polls, poll'[c][m].st = "answered" /\ ~poll'[c][m].unchanged
              PROVE  Said(poll[c][m])'
            <4>1. CASE m = n
                BY <1>6, <3>2, <3>3, <4>1 DEF Said
            <4>2. CASE m # n
                <5>1. poll'[c][m] = poll[c][m]
                    BY <1>6, <4>2
                <5>2. Said(poll[c][m])
                    BY <3>1, <3>3, <5>1 DEF SaidTo
                <5> QED BY <1>1, <5>1, <5>2 DEF Said, household
            <4> QED BY <4>1, <4>2
        <3> QED BY <1>1, <2>2, <3>1, <3>3 DEF SaidTo, Said, household
    <2> QED BY <2>1, <2>2
<1>9. PollsFromTheLast'
    <2>1. \A e \in Client : \A m \in Polls : Asks(e, poll'[e][m])
        <3>1. Asks(c, p)
            BY <1>4, <1>5 DEF Asks
        <3> QED BY <1>2, <1>6, <3>1
    <2>2. \A e \in Client : ~open[e] => poll'[e] = NoPolls
        BY <1>2, <1>6, <1>7
    <2>3. \A e \in Client :
              /\ liveVersion[e] <= polled[e] /\ polled[e] <= version
              /\ ~open[e] => liveVersion[e] = 0 /\ polled[e] = 0
        BY DEF Sound, ScreenInv, PollsFromTheLast
    <2> QED BY <1>1, <2>1, <2>2, <2>3 DEF PollsFromTheLast, Asks, household, screen
<1>10. ShowsTheLast'
    BY <1>1 DEF Sound, ScreenInv, ShowsTheLast, household, screen
<1>11. ScreenInv'
    BY <1>1, <1>8, <1>9, <1>10, HouseholdStill DEF household
<1>12. ArticlesTyped'
    BY <1>1, <1>6 DEF Sound, ArticlesTyped, household, bounds, screen
<1> QED BY <1>11, <1>12

\* The server answers a reading of the document: it says what is.
LEMMA StateSays ==
    ASSUME Sound, NEW c \in Client, GetState(c)
    PROVE  ArticlesTyped' /\ ScreenInv'
<1> DEFINE r == [st |-> "answered", ver |-> version, items |-> items]
<1>1. /\ UNCHANGED <<household, journal, screen, flight, answer, poll, stray, issued, history,
                     bounds>>
      /\ reading' = [reading EXCEPT ![c] = r]
    BY DEF GetState
<1>2. version \in Nat /\ items \in Articles
    BY DEF Sound, ArticlesTyped
<1>3. r \in Reading /\ r.st = "answered" /\ r.ver = version /\ r.items = items
    BY <1>2 DEF Reading
<1> HIDE DEF r
<1>4. /\ reading' \in [Client -> Reading]
      /\ reading'[c] = r /\ \A e \in Client : e # c => reading'[e] = reading[e]
    BY <1>1, <1>3 DEF Sound, ArticlesTyped
<1>5. AnswersCurrent'
    <2> SUFFICES ASSUME NEW e \in Client
                 PROVE  SaidTo(e)'
        BY DEF AnswersCurrent, SaidTo
    <2>1. CASE e # c
        <3>1. StillSaid(e)
            BY <1>1, <1>4, <2>1 DEF StillSaid
        <3> QED BY <1>1, <3>1, StillSaidOf
    <2>2. CASE e = c
        <3>1. SaidTo(c)
            BY TheySaid DEF Sound, ScreenInv
        <3>2. Said(reading[c])'
            BY <1>1, <1>2, <1>3, <1>4 DEF Said, household
        <3> QED BY <1>1, <2>2, <3>1, <3>2 DEF SaidTo, Said, household
    <2> QED BY <2>1, <2>2
<1>6. PollsFromTheLast' /\ ShowsTheLast'
    BY <1>1 DEF Sound, ScreenInv, PollsFromTheLast, ShowsTheLast, household, screen
<1>7. ScreenInv'
    BY <1>1, <1>5, <1>6, HouseholdStill DEF household
<1>8. ArticlesTyped'
    BY <1>1, <1>4 DEF Sound, ArticlesTyped, household, bounds, screen
<1> QED BY <1>7, <1>8

\* A gesture is shown, and carries what it needs.
LEMMA GestureShows ==
    ASSUME Sound, NEW c \in Client, NEW o \in Op, pushShopOps(c, o)
    PROVE  ArticlesTyped' /\ ScreenInv'
<1>1. /\ o.by = c /\ Fits(o)
      /\ issued' = Append(issued, o)
      /\ queue' = [queue EXCEPT ![c] = queue[c] \union {Len(issued) + 1}]
      /\ shown' = [shown EXCEPT ![c] = effect(shown[c], o)]
      /\ UNCHANGED <<household, journal, liveVersion, kept, open, polled, late, wires, history,
                     bounds>>
    BY DEF pushShopOps, gestures, Fits
<1>2. shown' \in [Client -> Articles]
    <2>1. effect(shown[c], o) \in Articles
        BY <1>1, EffectIs DEF Sound, ArticlesTyped
    <2> QED BY <1>1, <2>1 DEF Sound, ArticlesTyped
<1>3. ArticlesTyped'
    BY <1>1, <1>2 DEF Sound, ArticlesTyped, household, bounds
<1>4. GesturesFit'
    <2>1. /\ DOMAIN issued' = DOMAIN issued \union {Len(issued) + 1}
          /\ issued'[Len(issued) + 1] = o
          /\ \A k \in DOMAIN issued : issued'[k] = issued[k]
        BY <1>1 DEF Sound, OpsTyped
    <2>2. ASSUME NEW k \in DOMAIN issued'
          PROVE  Fits(issued'[k])
        <3>1. CASE k \in DOMAIN issued
            BY <2>1, <3>1 DEF Sound, ScreenInv, GesturesFit, Fits
        <3>2. CASE k = Len(issued) + 1
            BY <1>1, <2>1, <3>2
        <3> QED BY <2>1, <3>1, <3>2
    <2> QED BY <2>2 DEF GesturesFit, Fits
<1>5. ListsKnown' /\ version' > 0
    BY <1>1 DEF Sound, ScreenInv, ListsKnown, household
<1>6. AnswersCurrent'
    <2>1. \A e \in Client : StillSaid(e)
        BY <1>1 DEF StillSaid
    <2> QED BY <1>1, <2>1, AllStillSaid
<1>7. PollsFromTheLast'
    BY <1>1 DEF Sound, ScreenInv, PollsFromTheLast, household
<1>8. ShowsTheLast'
    <2>1. queue'[c] # {} /\ \A e \in Client : e # c => queue'[e] = queue[e]
        BY <1>1 DEF Sound, OpsTyped
    <2>2. \A e \in Client : e # c => shown'[e] = shown[e]
        BY <1>1 DEF Sound, ArticlesTyped
    <2> QED BY <1>1, <2>1, <2>2 DEF Sound, ScreenInv, ShowsTheLast, household
<1> QED BY <1>3, <1>4, <1>5, <1>6, <1>7, <1>8 DEF ScreenInv

\* What c adopts is a list of articles; with an empty queue, it is what it was
\* told.
LEMMA Adopted ==
    ASSUME Sound, NEW c \in Client, NEW its \in Articles,
           NEW q \in SUBSET queue[c], adoptShop(c, its, q)
    PROVE  /\ shown' \in [Client -> Articles]
           /\ q = {} => shown'[c] = its
           /\ \A e \in Client : e # c => shown'[e] = shown[e]
<1>1. q \in SUBSET OpId /\ q \subseteq DOMAIN issued
    BY DEF Sound, OpsTyped, OpInv, QueueOwned
<1>2. replay(its, q) \in Articles
    BY <1>1, ReplayTyped DEF Sound, ScreenInv
<1>3. q = {} => replay(its, q) = its
    BY ReplayNothing
<1>4. shown' = [shown EXCEPT ![c] = replay(its, q)] /\ shown \in [Client -> Articles]
    BY DEF adoptShop, Sound, ArticlesTyped
<1> QED BY <1>2, <1>3, <1>4

\* What c adopts under a version is late, or it is what the server has if c has
\* polled nothing else.
LEMMA AdoptedIsLate ==
    ASSUME Sound, NEW c \in Client, NEW its, NEW ver \in Nat, outdated(c, ver),
           ver <= version, ver = version => its = items
    PROVE  /\ late' \in [Client -> BOOLEAN]
           /\ \A e \in Client : e # c => late'[e] = late[e]
           /\ polled[c] = version /\ ~late'[c] => its = items
           /\ ~late'[c] => polled[c] <= ver
<1>1. late' = [late EXCEPT ![c] = ver < polled[c]] /\ polled[c] \in Nat /\ version \in Nat
    BY DEF outdated, Sound, ArticlesTyped
<1>2. CASE ver < polled[c]
    <2>1. late' = [late EXCEPT ![c] = TRUE]
        BY <1>1, <1>2
    <2>2. late'[c] = TRUE
        BY <2>1 DEF Sound, ArticlesTyped
    <2> QED BY <2>1, <2>2 DEF Sound, ArticlesTyped
<1>3. CASE ~(ver < polled[c])
    <2> DEFINE older == ver < polled[c]
    <2>0. older = FALSE
        BY <1>3
    <2>1. late' = [late EXCEPT ![c] = FALSE]
        <3>1. late' = [late EXCEPT ![c] = older]
            BY <1>1
        <3> HIDE DEF older
        <3> QED BY <2>0, <3>1
    <2>2. late' \in [Client -> BOOLEAN] /\ \A e \in Client : e # c => late'[e] = late[e]
        BY <2>1 DEF Sound, ArticlesTyped
    <2>3. polled[c] <= ver
        BY <1>1, <1>3
    <2>4. polled[c] = version => its = items
        BY <1>1, <2>3
    <2> QED BY <2>2, <2>3, <2>4
<1> QED BY <1>2, <1>3

\* The answer to a flush.
LEMMA AnswerShows ==
    ASSUME Sound, NEW c \in Client, FlushAnswered(c)
    PROVE  ArticlesTyped' /\ ScreenInv'
<1> DEFINE left == queue[c] \ flight[c].settled
<1>1. /\ flight[c].st = "ok"
      /\ queue' = [queue EXCEPT ![c] = left]
      /\ adoptShop(c, answer[c].items, left)
      /\ outdated(c, answer[c].ver)
      /\ flight' = [flight EXCEPT ![c] = NoFlight]
      /\ answer' = [answer EXCEPT ![c] = NoAnswer]
      /\ UNCHANGED <<household, journal, liveVersion, kept, open, polled, poll, reading, stray,
                     issued, history, bounds>>
    BY DEF FlushAnswered
<1>2. answer[c].items \in Articles /\ answer[c].ver \in Nat
    BY DEF Sound, ArticlesTyped, Answer
<1>3. /\ shown' \in [Client -> Articles]
      /\ left = {} => shown'[c] = answer[c].items
      /\ \A e \in Client : e # c => shown'[e] = shown[e]
    BY <1>1, <1>2, Adopted
<1>4. /\ queue'[c] = left /\ \A e \in Client : e # c => queue'[e] = queue[e]
      /\ flight'[c].st = "none" /\ \A e \in Client : e # c => flight'[e] = flight[e]
      /\ \A e \in Client : e # c => answer'[e] = answer[e]
    BY <1>1 DEF Sound, OpsTyped, ArticlesTyped, NoFlight, Flying
<1>5. answer' \in [Client -> Answer]
    <2>1. NoAnswer \in Answer
        BY DEF NoAnswer, Answer, Articles, Nothing
    <2> HIDE DEF NoAnswer
    <2> QED BY <1>1, <2>1 DEF Sound, ArticlesTyped
<1>6. Said(answer[c])
    BY <1>1 DEF Sound, ScreenInv, AnswersCurrent
<1>7. /\ late' \in [Client -> BOOLEAN]
      /\ \A e \in Client : e # c => late'[e] = late[e]
      /\ polled[c] = version /\ ~late'[c] => answer[c].items = items
    BY <1>1, <1>2, <1>6, AdoptedIsLate DEF Said
<1>8. ArticlesTyped'
    BY <1>1, <1>3, <1>5, <1>7 DEF Sound, ArticlesTyped, household, bounds
<1>9. AnswersCurrent'
    <2>1. \A e \in Client : StillSaid(e)
        BY <1>1, <1>4 DEF StillSaid
    <2> QED BY <1>1, <2>1, AllStillSaid
<1>10. PollsFromTheLast'
    BY <1>1 DEF Sound, ScreenInv, PollsFromTheLast, household
<1>11. ShowsTheLast'
    <2> HIDE DEF left
    <2> QED BY <1>1, <1>3, <1>4, <1>7 DEF Sound, ScreenInv, ShowsTheLast, household
<1>12. ScreenInv'
    BY <1>1, <1>9, <1>10, <1>11, HouseholdStill DEF household
<1> QED BY <1>8, <1>12

\* The answer to a poll: what it brings is adopted, unless nothing is new.
LEMMA PolledShows ==
    ASSUME Sound, NEW c \in Client, NEW n \in Polls, PollAnswered(c, n)
    PROVE  ArticlesTyped' /\ ScreenInv'
<1> DEFINE p == poll[c][n]
<1>1. /\ p.st = "answered"
      /\ liveVersion' = [liveVersion EXCEPT ![c] = p.ver]
      /\ polled' = [polled EXCEPT ![c] = IF polled[c] < p.ver THEN p.ver ELSE polled[c]]
      /\ IF p.unchanged THEN UNCHANGED <<shown, late>>
                        ELSE adoptShop(c, p.items, queue[c]) /\ outdated(c, p.ver)
      /\ poll' = [poll EXCEPT ![c][n] = NoPoll]
      /\ UNCHANGED <<household, journal, queue, kept, open, flight, answer, reading, stray,
                     issued, history, bounds>>
    BY DEF PollAnswered
<1>2. p \in Poll
    BY DEF Sound, ArticlesTyped
<1>3. /\ p.unchanged => p.ver <= polled[c]
      /\ ~p.unchanged => Said(p)
    BY <1>1 DEF Sound, ScreenInv, AnswersCurrent, PollsFromTheLast
<1> HIDE DEF p
<1>4. /\ p.items \in Articles /\ p.ver \in Nat /\ p.unchanged \in BOOLEAN
      /\ version \in Nat /\ liveVersion[c] \in Nat /\ polled[c] \in Nat /\ polled[c] <= version
    BY <1>2 DEF Poll, Sound, ScreenInv, PollsFromTheLast, ArticlesTyped
<1>5. /\ liveVersion' \in [Client -> Nat] /\ liveVersion'[c] = p.ver
      /\ \A e \in Client : e # c => liveVersion'[e] = liveVersion[e]
    BY <1>1, <1>4 DEF Sound, ArticlesTyped
<1>6. /\ polled'[c] = (IF polled[c] < p.ver THEN p.ver ELSE polled[c])
      /\ polled' \in [Client -> Nat] /\ \A e \in Client : e # c => polled'[e] = polled[e]
    BY <1>1, <1>4 DEF Sound, ArticlesTyped
<1>7. p.ver <= version
    BY <1>3, <1>4 DEF Said
<1>8. /\ p.ver <= polled'[c] /\ polled[c] <= polled'[c] /\ polled'[c] <= version
    BY <1>4, <1>6, <1>7
<1>9. /\ shown' \in [Client -> Articles] /\ late' \in [Client -> BOOLEAN]
      /\ \A e \in Client : e # c => shown'[e] = shown[e] /\ late'[e] = late[e]
      /\ open[c] /\ queue[c] = {} /\ polled'[c] = version /\ ~late'[c] => shown'[c] = items
    <2>1. CASE p.unchanged
        <3>1. UNCHANGED <<shown, late>> /\ p.ver <= polled[c]
            BY <1>1, <1>3, <2>1
        <3>2. polled'[c] = polled[c]
            BY <1>4, <1>6, <3>1
        <3>3. open[c] /\ queue[c] = {} /\ polled[c] = version /\ ~late[c] => shown[c] = items
            BY DEF Sound, ScreenInv, ShowsTheLast
        <3> QED BY <3>1, <3>2, <3>3 DEF Sound, ArticlesTyped
    <2>2. CASE ~p.unchanged
        <3>1. adoptShop(c, p.items, queue[c]) /\ outdated(c, p.ver) /\ Said(p)
            BY <1>1, <1>3, <2>2
        <3>2. /\ shown' \in [Client -> Articles]
              /\ queue[c] = {} => shown'[c] = p.items
              /\ \A e \in Client : e # c => shown'[e] = shown[e]
            BY <1>4, <3>1, Adopted
        <3>3. /\ late' \in [Client -> BOOLEAN]
              /\ \A e \in Client : e # c => late'[e] = late[e]
              /\ ~late'[c] => polled[c] <= p.ver
            BY <1>4, <1>7, <3>1, AdoptedIsLate DEF Said
        <3>4. polled'[c] = version /\ ~late'[c] => p.ver = version
            BY <1>4, <1>6, <1>7, <3>3
        <3> QED BY <3>1, <3>2, <3>3, <3>4 DEF Said
    <2> QED BY <1>4, <2>1, <2>2
<1>10. /\ poll' \in [Client -> [Polls -> Poll]] /\ poll'[c][n] = NoPoll
       /\ \A m \in Polls : m # n => poll'[c][m] = poll[c][m]
       /\ \A e \in Client : e # c => poll'[e] = poll[e]
    BY <1>1, NoPollTyped, OnePollMoves
<1>11. ArticlesTyped'
    BY <1>1, <1>5, <1>6, <1>9, <1>10 DEF Sound, ArticlesTyped, household, bounds
<1>12. AnswersCurrent'
    <2>1. \A e \in Client : StillSaid(e)
        BY <1>1, <1>10, NoPollTyped DEF StillSaid
    <2> QED BY <1>1, <2>1, AllStillSaid
<1>13. open[c]
    BY <1>1, PollerIsOpen DEF p
<1>14. PollsFromTheLast'
    <2> SUFFICES ASSUME NEW e \in Client
                 PROVE  /\ liveVersion'[e] <= polled'[e] /\ polled'[e] <= version
                        /\ \A m \in Polls :
                              poll'[e][m].st = "asked"
                              \/ (poll'[e][m].st = "answered" /\ poll'[e][m].unchanged)
                                  => poll'[e][m].ver <= polled'[e]
                        /\ ~open[e] => /\ poll'[e] = NoPolls
                                       /\ liveVersion'[e] = 0 /\ polled'[e] = 0
        BY <1>1 DEF PollsFromTheLast, household
    <2>1. CASE e # c
        BY <1>5, <1>6, <1>10, <2>1 DEF Sound, ScreenInv, PollsFromTheLast
    <2>2. CASE e = c
        <3>1. \A m \in Polls : Asks(c, poll[c][m]) /\ poll[c][m].ver \in Nat
            BY DEF Sound, ScreenInv, PollsFromTheLast, Asks, ArticlesTyped, Poll
        <3>2. ASSUME NEW m \in Polls,
                     poll'[c][m].st = "asked"
                     \/ (poll'[c][m].st = "answered" /\ poll'[c][m].unchanged)
              PROVE  poll'[c][m].ver <= polled'[c]
            <4>1. m # n
                BY <1>10, <3>2, NoPollTyped
            <4>2. poll'[c][m] = poll[c][m]
                BY <1>10, <4>1
            <4>3. poll[c][m].ver <= polled[c] /\ poll[c][m].ver \in Nat
                BY <3>1, <3>2, <4>2 DEF Asks
            <4>4. polled'[c] \in Nat
                BY <1>6
            <4> QED BY <1>4, <1>8, <4>2, <4>3, <4>4
        <3> QED BY <1>5, <1>8, <1>13, <2>2, <3>2
    <2> QED BY <2>1, <2>2
<1>15. ShowsTheLast'
    BY <1>1, <1>6, <1>9 DEF Sound, ScreenInv, ShowsTheLast, household
<1>16. ScreenInv'
    BY <1>1, <1>12, <1>14, <1>15, HouseholdStill DEF household
<1> QED BY <1>11, <1>16

\* The document read, or the kept one for want of it.
LEMMA ReadShows ==
    ASSUME Sound, NEW c \in Client, DocumentRead(c) \/ ReadLost(c)
    PROVE  ArticlesTyped' /\ ScreenInv'
<1>1. /\ open' = [open EXCEPT ![c] = TRUE]
      /\ reading' = [reading EXCEPT ![c] = NoReading]
      /\ UNCHANGED <<household, journal, queue, liveVersion, polled, flight, answer, poll, stray,
                     issued, history, restarts, reads>>
    BY DEF DocumentRead, ReadLost, bounds
<1>2. /\ reading[c].items \in Articles /\ reading[c].ver \in Nat /\ kept[c] \in Articles
      /\ version \in Nat /\ polled[c] \in Nat /\ version > 0
    BY DEF Sound, ArticlesTyped, Reading, ScreenInv
<1>3. /\ open'[c] = TRUE /\ \A e \in Client : e # c => open'[e] = open[e]
      /\ reading'[c].st = "none" /\ \A e \in Client : e # c => reading'[e] = reading[e]
    BY <1>1 DEF Sound, ArticlesTyped, NoReading
<1>4. reading' \in [Client -> Reading] /\ open' \in [Client -> BOOLEAN]
    <2>1. NoReading \in Reading
        BY DEF NoReading, Reading, Articles, Nothing
    <2> HIDE DEF NoReading
    <2>2. reading' \in [Client -> Reading]
        BY <1>1, <2>1 DEF Sound, ArticlesTyped
    <2>3. open' \in [Client -> BOOLEAN]
        BY <1>1 DEF Sound, ArticlesTyped
    <2> QED BY <2>2, <2>3
<1>5. queue[c] \in SUBSET queue[c]
    OBVIOUS
<1>6. /\ shown' \in [Client -> Articles] /\ kept' \in [Client -> Articles] /\ losses' \in Nat
      /\ late' \in [Client -> BOOLEAN]
      /\ \A e \in Client : e # c => shown'[e] = shown[e] /\ late'[e] = late[e]
      /\ queue[c] = {} /\ polled[c] = version /\ ~late'[c] => shown'[c] = items
    <2>1. CASE DocumentRead(c)
        <3>1. /\ reading[c].st = "answered"
              /\ adoptShop(c, reading[c].items, queue[c])
              /\ outdated(c, reading[c].ver)
              /\ kept' = IF open[c] THEN kept ELSE [kept EXCEPT ![c] = shown'[c]]
              /\ UNCHANGED losses
            BY <2>1 DEF DocumentRead, bounds
        <3>2. /\ shown' \in [Client -> Articles]
              /\ queue[c] = {} => shown'[c] = reading[c].items
              /\ \A e \in Client : e # c => shown'[e] = shown[e]
            BY <1>2, <1>5, <3>1, Adopted
        <3>3. kept' \in [Client -> Articles]
            BY <3>1, <3>2 DEF Sound, ArticlesTyped
        <3>4. Said(reading[c])
            BY <3>1 DEF Sound, ScreenInv, AnswersCurrent
        <3>5. /\ late' \in [Client -> BOOLEAN]
              /\ \A e \in Client : e # c => late'[e] = late[e]
              /\ polled[c] = version /\ ~late'[c] => reading[c].items = items
            BY <1>2, <3>1, <3>4, AdoptedIsLate DEF Said
        <3> QED BY <3>1, <3>2, <3>3, <3>5 DEF Sound, ArticlesTyped
    <2>2. CASE ReadLost(c) /\ open[c]
        <3>1. UNCHANGED <<shown, kept, late>> /\ losses' = losses + 1
            BY <2>2 DEF ReadLost
        <3> QED BY <2>2, <3>1 DEF Sound, ArticlesTyped, ScreenInv, ShowsTheLast
    <2>3. CASE ReadLost(c) /\ ~open[c]
        <3>1. /\ adoptShop(c, kept[c], queue[c])
              /\ UNCHANGED <<kept, late>> /\ losses' = losses + 1
            BY <2>3 DEF ReadLost
        <3>2. /\ shown' \in [Client -> Articles]
              /\ \A e \in Client : e # c => shown'[e] = shown[e]
            BY <1>2, <1>5, <3>1, Adopted
        <3>3. polled[c] = 0
            BY <2>3 DEF Sound, ScreenInv, PollsFromTheLast
        <3> QED BY <1>2, <3>1, <3>2, <3>3 DEF Sound, ArticlesTyped
    <2> QED BY <2>1, <2>2, <2>3
<1>7. ArticlesTyped'
    BY <1>1, <1>4, <1>6 DEF Sound, ArticlesTyped, household
<1>8. AnswersCurrent'
    <2>1. \A e \in Client : StillSaid(e)
        BY <1>1, <1>3 DEF StillSaid
    <2> QED BY <1>1, <2>1, AllStillSaid
<1>9. PollsFromTheLast'
    BY <1>1, <1>3 DEF Sound, ScreenInv, PollsFromTheLast, household
<1>10. ShowsTheLast'
    BY <1>1, <1>3, <1>6 DEF Sound, ScreenInv, ShowsTheLast, household
<1>11. ScreenInv'
    BY <1>1, <1>8, <1>9, <1>10, HouseholdStill DEF household
<1> QED BY <1>7, <1>11

\* A tab killed shows nothing, and has polled nothing.
LEMMA RestartShows ==
    ASSUME Sound, NEW c \in Client, Restart(c)
    PROVE  ArticlesTyped' /\ ScreenInv'
<1>1. /\ flight' = [flight EXCEPT ![c] = NoFlight]
      /\ answer' = [answer EXCEPT ![c] = NoAnswer]
      /\ poll' = [poll EXCEPT ![c] = NoPolls]
      /\ reading' = [reading EXCEPT ![c] = Asked]
      /\ open' = [open EXCEPT ![c] = FALSE]
      /\ liveVersion' = [liveVersion EXCEPT ![c] = 0]
      /\ polled' = [polled EXCEPT ![c] = 0]
      /\ late' = [late EXCEPT ![c] = FALSE]
      /\ shown' = [shown EXCEPT ![c] = Nothing]
      /\ restarts' = restarts + 1
      /\ UNCHANGED <<household, journal, queue, kept, issued, history, losses, reads>>
    BY DEF Restart
<1>2. /\ flight'[c].st = "none" /\ poll'[c] = NoPolls /\ reading'[c].st = "asked"
      /\ open'[c] = FALSE /\ liveVersion'[c] = 0 /\ polled'[c] = 0
      /\ \A e \in Client : e # c =>
            /\ flight'[e] = flight[e] /\ answer'[e] = answer[e] /\ poll'[e] = poll[e]
            /\ reading'[e] = reading[e] /\ open'[e] = open[e]
            /\ liveVersion'[e] = liveVersion[e] /\ shown'[e] = shown[e]
            /\ polled'[e] = polled[e] /\ late'[e] = late[e]
    BY <1>1 DEF Sound, OpsTyped, ArticlesTyped, NoFlight, Flying, Asked
<1>3. ArticlesTyped'
    <2>1. NoAnswer \in Answer /\ Asked \in Reading /\ Nothing \in Articles
        BY DEF NoAnswer, Answer, Asked, Reading, Articles, Nothing
    <2> HIDE DEF NoAnswer, Asked, Nothing
    <2>2. /\ answer' \in [Client -> Answer] /\ poll' \in [Client -> [Polls -> Poll]]
          /\ reading' \in [Client -> Reading] /\ shown' \in [Client -> Articles]
        BY <1>1, <2>1, NoPollTyped DEF Sound, ArticlesTyped
    <2>3. open' \in [Client -> BOOLEAN] /\ late' \in [Client -> BOOLEAN]
        BY <1>1 DEF Sound, ArticlesTyped
    <2>4. liveVersion' \in [Client -> Nat] /\ polled' \in [Client -> Nat] /\ restarts' \in Nat
        BY <1>1 DEF Sound, ArticlesTyped
    <2> QED BY <1>1, <2>2, <2>3, <2>4 DEF Sound, ArticlesTyped, household
<1>4. AnswersCurrent'
    <2>1. \A n \in Polls : NoPolls[n].st = "none"
        BY DEF NoPolls, NoPoll
    <2>2. \A e \in Client : StillSaid(e)
        BY <1>2, <2>1 DEF StillSaid
    <2> QED BY <1>1, <2>2, AllStillSaid
<1>5. PollsFromTheLast'
    <2>1. \A n \in Polls : NoPolls[n].st = "none"
        BY DEF NoPolls, NoPoll
    <2>2. version \in Nat
        BY DEF Sound, ArticlesTyped
    <2> QED BY <1>1, <1>2, <2>1, <2>2 DEF Sound, ScreenInv, PollsFromTheLast, household
<1>6. ShowsTheLast'
    BY <1>1, <1>2 DEF Sound, ScreenInv, ShowsTheLast, household
<1>7. ScreenInv'
    BY <1>1, <1>4, <1>5, <1>6, HouseholdStill DEF household
<1> QED BY <1>3, <1>7

LEMMA InitShows == Init => ArticlesTyped /\ ScreenInv
<1> SUFFICES ASSUME Init
             PROVE  ArticlesTyped /\ ScreenInv
    OBVIOUS
<1>1. items \in Articles /\ lists = List /\ ListsKnown
    <2>1. PICK where \in [Known -> List] :
              items = [i \in Item |-> IF i \in Known
                                      THEN [list |-> where[i], state |-> "a-prendre"]
                                      ELSE Absent]
        BY DEF Init
    <2>2. \A i \in Item : items[i] # Absent => items[i] \in Article /\ items[i].list \in List
        BY <2>1 DEF Article, SHOP_STATES
    <2>3. items \in Articles
        BY <2>1, <2>2 DEF Articles
    <2> QED BY <2>2, <2>3 DEF Init, ListsKnown
<1>2. Nothing \in Articles
    BY DEF Articles, Nothing
<1>3. NoAnswer \in Answer /\ NoPolls \in [Polls -> Poll] /\ NoReading \in Reading
    BY <1>2, NoPollTyped DEF NoAnswer, Answer, NoReading, Reading
<1>4. /\ \A c \in Client : flight[c].st = "none" /\ reading[c].st = "none"
      /\ \A c \in Client : \A n \in Polls : poll[c][n].st = "none"
    BY DEF Init, NoFlight, Flying, NoPolls, NoPoll, NoReading
<1> HIDE DEF NoAnswer, NoPolls, NoReading
<1>5. ArticlesTyped
    <2>1. /\ shown \in [Client -> Articles] /\ kept \in [Client -> Articles]
          /\ answer \in [Client -> Answer] /\ poll \in [Client -> [Polls -> Poll]]
          /\ reading \in [Client -> Reading]
        BY <1>1, <1>3 DEF Init
    <2>2. open \in [Client -> BOOLEAN] /\ late \in [Client -> BOOLEAN]
        BY DEF Init
    <2>3. version \in Nat /\ liveVersion \in [Client -> Nat] /\ polled \in [Client -> Nat]
          /\ losses \in Nat /\ restarts \in Nat /\ reads \in Nat
        BY DEF Init
    <2> QED BY <1>1, <2>1, <2>2, <2>3 DEF ArticlesTyped
<1>6. GesturesFit
    BY DEF Init, GesturesFit
<1>7. AnswersCurrent
    BY <1>4 DEF AnswersCurrent
<1>8. PollsFromTheLast
    BY <1>4 DEF Init, PollsFromTheLast
<1>9. ShowsTheLast /\ version > 0
    BY DEF Init, ShowsTheLast
<1> QED BY <1>1, <1>5, <1>6, <1>7, <1>8, <1>9 DEF ScreenInv

LEMMA StepShows == Sound /\ [Next]_vars => Sound'
<1> SUFFICES ASSUME Sound, [Next]_vars
             PROVE  ArticlesTyped' /\ ScreenInv'
    BY StepKeeps DEF Sound
<1>1. CASE UNCHANGED vars
    <2>1. ArticlesTyped'
        BY <1>1 DEF vars, Sound, ArticlesTyped
    <2>2. AnswersCurrent' /\ PollsFromTheLast' /\ ShowsTheLast'
        BY <1>1 DEF vars, Sound, ScreenInv, AnswersCurrent, Said, PollsFromTheLast, ShowsTheLast
    <2> QED BY <1>1, <2>1, <2>2, HouseholdStill DEF vars
<1>2. ASSUME NEW batch \in stray, PostStray(batch)
      PROVE  ArticlesTyped' /\ ScreenInv'
    BY <1>2, StrayShows
<1>3. ASSUME NEW l \in List, RemoveList(l)
      PROVE  ArticlesTyped' /\ ScreenInv'
    BY <1>3, RemoveShows
<1>4. ASSUME NEW c \in Client, Step(c)
      PROVE  ArticlesTyped' /\ ScreenInv'
    <2>1. ASSUME NEW o \in Op, pushShopOps(c, o)
          PROVE  ArticlesTyped' /\ ScreenInv'
        BY <2>1, GestureShows
    <2>2. CASE PostOps(c)
        BY <2>2, PostShows
    <2>3. CASE FlushAnswered(c)
        BY <2>3, AnswerShows
    <2>4. CASE flushShopQueue(c) \/ FlushFailed(c) \/ FlushLost(c)
        BY <2>4, FlushShows
    <2>5. ASSUME NEW n \in Polls, pollLive(c, n) \/ PollLost(c, n)
          PROVE  ArticlesTyped' /\ ScreenInv'
        BY <2>5, PollShows
    <2>6. ASSUME NEW n \in Polls, GetLive(c, n) \/ PollAnswered(c, n)
          PROVE  ArticlesTyped' /\ ScreenInv'
        BY <2>6, LiveSays, PolledShows
    <2>7. CASE GetState(c)
        BY <2>7, StateSays
    <2>8. CASE refreshDocument(c)
        BY <2>8, RefreshShows
    <2>9. CASE DocumentRead(c) \/ ReadLost(c)
        BY <2>9, ReadShows
    <2>10. CASE Restart(c)
        BY <2>10, RestartShows
    <2> QED BY <1>4, <2>1, <2>2, <2>3, <2>4, <2>5, <2>6, <2>7, <2>8, <2>9, <2>10 DEF Step
<1> QED BY <1>1, <1>2, <1>3, <1>4 DEF Next

\* The household, the screens and the answers under way are well formed, and
\* what the server said under the current version is what it holds.
THEOREM ScreensAreSound == Spec => [](TypeOK /\ ScreenInv)
<1>1. Init => Sound
    BY InitKeeps, InitShows DEF Sound
<1>2. Sound => TypeOK /\ ScreenInv
    BY DEF Sound, TypeOK
<1> QED BY <1>1, <1>2, StepShows, PTL DEF Spec

\* However late an operation arrives, no article of the household is on a list
\* that was removed meanwhile (applyOps looks the list up).
THEOREM ArticlesAreOnLists == Spec => []ListsKnown
<1>1. ScreenInv => ListsKnown
    BY DEF ScreenInv
<1> QED BY <1>1, ScreensAreSound, PTL

\* An application with nothing left to send, whose last poll gave the current
\* version and which has adopted no answer older than one it had polled, shows
\* the household's list: the version is enough for GET /live to say that
\* nothing changed, however many polls are under way and in whatever order their
\* answers arrive.
THEOREM ThePollTellsTheTruth == Spec => []LiveIsTruthful
<1>1. ArticlesTyped /\ ScreenInv => LiveIsTruthful
    <2> SUFFICES ASSUME ArticlesTyped, ScreenInv, NEW c \in Client, open[c], queue[c] = {},
                        liveVersion[c] = version, ~late[c]
                 PROVE  shown[c] = items
        BY DEF LiveIsTruthful
    <2>1. polled[c] = version
        BY DEF ArticlesTyped, ScreenInv, PollsFromTheLast
    <2> QED BY <2>1 DEF ScreenInv, ShowsTheLast
<1>2. TypeOK => ArticlesTyped
    BY DEF TypeOK
<1> QED BY <1>1, <1>2, ScreensAreSound, PTL

-----------------------------------------------------------------------------
(***************************************************************************)
(* What the journal forgets.                                               *)
(***************************************************************************)

\* Of operations with a rank, one has the highest.
LEMMA HighestIn ==
    ASSUME NEW R, R # {}, NEW f, NEW top \in Nat, \A k \in R : f[k] \in 0..top
    PROVE  \E k \in R : \A j \in R : f[j] <= f[k]
<1> DEFINE T == {top - f[k] : k \in R}
<1>1. T \subseteq Nat /\ T # {}
    <2>1. \A k \in R : top - f[k] \in Nat
        OBVIOUS
    <2>2. T # {}
        BY Zenon
    <2> QED BY <2>1, <2>2
<1> HIDE DEF T
<1>2. PICK t \in T : \A u \in T : t <= u
    BY <1>1, Least
<1> USE DEF T
<1>3. PICK k \in R : t = top - f[k]
    BY <1>2
<1>4. ASSUME NEW j \in R
      PROVE  f[j] <= f[k]
    <2>1. t <= top - f[j]
        BY <1>2
    <2>2. f[j] \in Int /\ f[k] \in Int
        OBVIOUS
    <2> HIDE DEF T
    <2> QED BY <1>3, <2>1, <2>2
<1> QED BY <1>4

\* Operations with a rank, no two the same: m of them have less than m newer
\* ones, as long as there are m.
LEMMA Newest ==
    ASSUME NEW P \in SUBSET OpId, NEW f, NEW top \in Nat, \A k \in P : f[k] \in 0..top,
           \A j, k \in P : f[j] = f[k] => j = k,
           NEW m \in Nat, m <= Cardinality(P)
    PROVE  Cardinality({k \in P : Cardinality({j \in P : f[j] > f[k]}) < m}) = m
<1> DEFINE newer(k) == {j \in P : f[j] > f[k]}
           first(n) == {k \in P : Cardinality(newer(k)) < n}
           N == {n \in Nat : n <= Cardinality(P) => Cardinality(first(n)) = n}
<1>1. IsFiniteSet(P) /\ Cardinality(P) \in Nat
    <2>1. IsFiniteSet(OpId)
        BY FS_Interval, OpSyncAssumption DEF OpId
    <2> QED BY <2>1, FS_Subset, FS_CardinalityType
<1>2. \A S \in SUBSET P : IsFiniteSet(S) /\ Cardinality(S) \in Nat
    BY <1>1, FS_Subset, FS_CardinalityType
<1>3. \A k \in P : newer(k) \in SUBSET P
    OBVIOUS
<1>4. \A n \in Nat : first(n) \in SUBSET P
    OBVIOUS
<1>5. 0 \in N
    <2>1. first(0) = {}
        <3>1. \A k \in P : Cardinality(newer(k)) \in Nat
            BY <1>2, <1>3
        <3> HIDE DEF newer
        <3> QED BY <3>1
    <2> HIDE DEF first
    <2> QED BY <2>1, FS_EmptySet
<1>6. ASSUME NEW n \in Nat, n \in N
      PROVE  n + 1 \in N
    <2> SUFFICES ASSUME n + 1 <= Cardinality(P)
                 PROVE  Cardinality(first(n + 1)) = n + 1
        OBVIOUS
    <2>1. Cardinality(first(n)) = n
        BY <1>1, <1>6
    <2> DEFINE R == P \ first(n)
    <2>2. R # {}
        <3> SUFFICES ASSUME P \subseteq first(n)
                     PROVE  FALSE
            OBVIOUS
        <3>1. first(n) = P
            BY <1>4
        <3> HIDE DEF first
        <3> QED BY <1>1, <2>1, <3>1
    <2>3. PICK k \in R : \A j \in R : f[j] <= f[k]
        <3>1. \A k \in R : f[k] \in 0..top
            OBVIOUS
        <3> HIDE DEF R
        <3> QED BY <2>2, <3>1, HighestIn
    <2>4. newer(k) = first(n)
        <3>1. ASSUME NEW j \in newer(k)
              PROVE  j \in first(n)
            <4>1. j \in P /\ f[j] > f[k] /\ f[j] \in Nat /\ f[k] \in Nat
                BY <2>3
            <4>2. j \notin R
                <5> HIDE DEF R, newer
                <5> QED BY <2>3, <4>1
            <4> HIDE DEF first, newer
            <4> QED BY <4>1, <4>2
        <3>2. ASSUME NEW j \in first(n)
              PROVE  j \in newer(k)
            <4>1. j \in P /\ k \in P /\ f[j] \in Nat /\ f[k] \in Nat
                BY <2>3
            <4>2. Cardinality(newer(j)) < n /\ ~(Cardinality(newer(k)) < n)
                BY <2>3
            <4>3. f[j] <= f[k] => newer(k) \subseteq newer(j)
                BY <4>1
            <4>4. newer(k) \subseteq newer(j) => Cardinality(newer(k)) <= Cardinality(newer(j))
                BY <1>2, <1>3, <4>1, FS_Subset
            <4>5. Cardinality(newer(k)) \in Nat /\ Cardinality(newer(j)) \in Nat
                BY <1>2, <1>3, <4>1
            <4>6. ~(f[j] <= f[k])
                <5> HIDE DEF newer
                <5> QED BY <4>2, <4>3, <4>4, <4>5
            <4> QED BY <4>1, <4>6
        <3> HIDE DEF newer, first
        <3> QED BY <3>1, <3>2
    <2>5. k \in P /\ k \notin first(n)
        BY <2>3
    <2>6. first(n + 1) = first(n) \union {k}
        <3>1. ASSUME NEW j \in first(n)
              PROVE  j \in first(n + 1)
            <4>1. j \in P /\ Cardinality(newer(j)) < n
                OBVIOUS
            <4>2. Cardinality(newer(j)) \in Nat
                BY <1>2, <1>3, <4>1
            <4> HIDE DEF newer
            <4> QED BY <4>1, <4>2
        <3>2. k \in first(n + 1)
            <4>1. Cardinality(newer(k)) = n
                BY <2>1, <2>4
            <4> HIDE DEF newer
            <4> QED BY <2>5, <4>1
        <3>3. ASSUME NEW j \in first(n + 1), j \notin first(n), j # k
              PROVE  FALSE
            <4>1. j \in R /\ j \in P /\ Cardinality(newer(j)) < n + 1
                BY <3>3
            <4>2. f[j] < f[k] /\ f[j] \in Nat /\ f[k] \in Nat
                BY <2>3, <2>5, <3>3, <4>1
            <4>3. newer(k) \union {k} \subseteq newer(j)
                BY <2>5, <4>2
            <4>4. Cardinality(newer(k) \union {k}) = n + 1
                <5>1. k \notin newer(k) /\ newer(k) \in SUBSET P
                    BY <4>2
                <5>2. IsFiniteSet(newer(k)) /\ Cardinality(newer(k)) = n
                    BY <1>2, <2>1, <2>4, <5>1
                <5> HIDE DEF newer
                <5> QED BY <5>1, <5>2, FS_AddElement
            <4>5. IsFiniteSet(newer(j)) /\ Cardinality(newer(j)) \in Nat
                BY <1>2, <1>3, <4>1
            <4> HIDE DEF newer
            <4>6. Cardinality(newer(k) \union {k}) <= Cardinality(newer(j))
                BY <4>3, <4>5, FS_Subset
            <4> QED BY <4>1, <4>4, <4>5, <4>6
        <3> HIDE DEF newer, first
        <3> QED BY <3>1, <3>2, <3>3
    <2>7. IsFiniteSet(first(n))
        BY <1>2, <1>4
    <2> HIDE DEF first
    <2> QED BY <2>1, <2>5, <2>6, <2>7, FS_AddElement
<1> HIDE DEF N
<1>7. m \in N
    BY <1>5, <1>6, Ups
<1> QED BY <1>7 DEF N

LEMMA ServingForgets ==
    ASSUME OpsTyped, OpsTyped', JournalHonest, JournalShort, NEW batch \in SUBSET OpId, NEW res,
           applyShoppingOps(batch, res)
    PROVE  JournalShort'
<1> DEFINE applied == batch \ res.skipped
           now(k) == k \in applied /\ ~alreadyApplied(k)
           filled == [k \in OpId |-> IF now(k) THEN lastRow + k ELSE row[k]]
           newer(k) == {j \in OpId : filled[j] > filled[k]}
           P == {k \in OpId : filled[k] > 0}
           M == OPS_JOURNAL_MAX
<1>1. executed' = [k \in OpId |-> IF now(k) THEN executed[k] + 1 ELSE executed[k]]
    BY DEF applyShoppingOps
<1>2. CASE applied = {}
    <2>1. UNCHANGED <<row, lastRow>>
        BY <1>2 DEF applyShoppingOps, journal
    <2>2. executed' = executed
        BY <1>1, <1>2 DEF OpsTyped
    <2> QED BY <2>1, <2>2 DEF JournalShort
<1>3. CASE applied # {}
    <2>1. /\ row' = [k \in OpId |-> IF Cardinality(newer(k)) < M THEN filled[k] ELSE 0]
          /\ lastRow' = lastRow + MaxOps
        BY <1>3 DEF applyShoppingOps, remember
    <2>2. /\ MaxOps \in Nat /\ M \in Nat /\ M > 0 /\ lastRow \in Nat
          /\ \A k \in OpId : k \in 1..MaxOps /\ row[k] \in Nat /\ row[k] <= lastRow
        BY OpSyncAssumption DEF OpsTyped, OpId, JournalShort
    <2>3. \A k \in OpId : filled[k] = IF now(k) THEN lastRow + k ELSE row[k]
        OBVIOUS
    <2> HIDE DEF filled, now
    <2>4. \A k \in OpId : filled[k] \in 0..(lastRow + MaxOps)
        BY <2>2, <2>3
    <2>5. \A j, k \in P : filled[j] = filled[k] => j = k
        BY <2>2, <2>3 DEF JournalShort
    <2>6. ASSUME NEW k \in P
          PROVE  newer(k) = {j \in P : filled[j] > filled[k]}
        BY <2>4
    <2>7. P \in SUBSET OpId /\ IsFiniteSet(P) /\ Cardinality(P) \in Nat
        <3>1. IsFiniteSet(OpId)
            BY <2>2, FS_Interval DEF OpId
        <3> QED BY <3>1, FS_Subset, FS_CardinalityType
    <2>8. {k \in OpId : row'[k] > 0}
            = {k \in P : Cardinality({j \in P : filled[j] > filled[k]}) < M}
        <3>1. \A k \in OpId : row'[k] > 0 <=> k \in P /\ Cardinality(newer(k)) < M
            <4> HIDE DEF newer, M
            <4> QED BY <2>1, <2>4
        <3> HIDE DEF newer, M
        <3>2. \A k \in P : Cardinality(newer(k)) = Cardinality({j \in P : filled[j] > filled[k]})
            BY <2>6
        <3> HIDE DEF P
        <3> QED BY <2>7, <3>1, <3>2
    <2>9. \A k \in OpId : row'[k] <= lastRow'
        <3> HIDE DEF newer, M
        <3> QED BY <2>1, <2>2, <2>4
    <2>10. \A j, k \in OpId : row'[j] > 0 /\ row'[j] = row'[k] => j = k
        <3>1. \A k \in OpId : row'[k] > 0 => k \in P /\ row'[k] = filled[k]
            <4> HIDE DEF newer, M
            <4> QED BY <2>1, <2>4
        <3> HIDE DEF P
        <3> QED BY <2>5, <3>1
    <2>11. ASSUME NEW k \in OpId, executed'[k] >= 1, row'[k] = 0
           PROVE  Cardinality({j \in OpId : row'[j] > 0}) = M
        <3>1. CASE Cardinality(P) >= M
            <4>1. Cardinality({e \in P : Cardinality({j \in P : filled[j] > filled[e]}) < M}) = M
                <5>1. \A e \in P : filled[e] \in 0..(lastRow + MaxOps)
                    BY <2>4
                <5>2. lastRow + MaxOps \in Nat
                    BY <2>2
                <5> HIDE DEF P, M
                <5> QED BY <2>2, <2>5, <2>7, <3>1, <5>1, <5>2, Newest
            <4> QED BY <2>8, <4>1
        <3>2. CASE Cardinality(P) < M
            <4>1. \A e \in OpId : newer(e) \subseteq P
                BY <2>4
            <4>2. \A e \in OpId : Cardinality(newer(e)) <= Cardinality(P)
                                  /\ Cardinality(newer(e)) \in Nat
                <5> HIDE DEF newer, P
                <5> QED BY <2>7, <4>1, FS_Subset, FS_CardinalityType
            <4>3. row'[k] = filled[k]
                <5> HIDE DEF newer, P, M
                <5> QED BY <2>1, <2>2, <2>7, <3>2, <4>2
            <4>4. ~now(k) /\ row[k] = 0
                BY <2>2, <2>3, <2>11, <4>3
            <4>5. executed[k] >= 1
                BY <1>1, <2>11, <4>4
            <4>6. Cardinality({j \in OpId : row[j] > 0}) = M
                BY <4>4, <4>5 DEF JournalShort
            <4>7. {j \in OpId : row[j] > 0} \subseteq P
                BY <2>2, <2>3
            <4>8. Cardinality({j \in OpId : row[j] > 0}) <= Cardinality(P)
                <5> HIDE DEF P
                <5> QED BY <2>7, <4>7, FS_Subset
            <4> HIDE DEF P, M
            <4> QED BY <2>2, <2>7, <3>2, <4>6, <4>8
        <3> QED BY <2>2, <2>7, <3>1, <3>2
    <2> QED BY <2>9, <2>10, <2>11 DEF JournalShort
<1> QED BY <1>2, <1>3

\* Where no batch is executed, the books of the server stay as they are.
LEMMA BooksStay ==
    ASSUME [Next]_vars,
           ~(\E c \in Client : PostOps(c)), ~(\E batch \in stray : PostStray(batch))
    PROVE  UNCHANGED <<row, lastRow, executed>>
<1>1. CASE UNCHANGED vars
    BY <1>1 DEF vars
<1>2. ASSUME NEW l \in List, RemoveList(l)
      PROVE  UNCHANGED <<row, lastRow, executed>>
    BY <1>2 DEF RemoveList
<1>3. ASSUME NEW c \in Client, Step(c)
      PROVE  UNCHANGED <<row, lastRow, executed>>
    <2>1. CASE \E o \in Op : pushShopOps(c, o)
        BY <2>1 DEF pushShopOps
    <2>2. CASE \/ flushShopQueue(c) \/ FlushAnswered(c) \/ FlushFailed(c) \/ FlushLost(c)
               \/ \E n \in Polls :
                     pollLive(c, n) \/ GetLive(c, n) \/ PollAnswered(c, n) \/ PollLost(c, n)
               \/ refreshDocument(c) \/ GetState(c) \/ DocumentRead(c) \/ ReadLost(c)
               \/ Restart(c)
        BY <2>2 DEF flushShopQueue, FlushAnswered, FlushFailed, FlushLost, pollLive, GetLive,
                    PollAnswered, PollLost, refreshDocument, GetState, DocumentRead, ReadLost,
                    Restart
    <2> QED BY <1>3, <2>1, <2>2 DEF Step
<1> QED BY <1>1, <1>2, <1>3 DEF Next

\* ... and where one is, applyShoppingOps writes them, or they stay too.
LEMMA BooksWritten ==
    ASSUME OpsTyped, OpInv, [Next]_vars
    PROVE  \/ UNCHANGED <<row, lastRow, executed>>
           \/ \E batch \in SUBSET OpId : \E res : applyShoppingOps(batch, res)
<1>1. ASSUME NEW c \in Client, PostOps(c)
      PROVE  \/ UNCHANGED <<row, lastRow, executed>>
             \/ \E batch \in SUBSET OpId : \E res : applyShoppingOps(batch, res)
    <2>1. flight[c].batch \in SUBSET OpId
        BY DEF OpsTyped, Flight
    <2> QED BY <1>1, <2>1 DEF PostOps
<1>2. ASSUME NEW batch \in stray, PostStray(batch)
      PROVE  \/ UNCHANGED <<row, lastRow, executed>>
             \/ \E b \in SUBSET OpId : \E res : applyShoppingOps(b, res)
    <2>1. batch \in SUBSET OpId
        BY DEF OpsTyped
    <2> QED BY <1>2, <2>1 DEF PostStray
<1> QED BY <1>1, <1>2, BooksStay

\* The journal keeps the newest operations, as many as it has room for
\* (DELETE ... ORDER BY rowid DESC LIMIT): an operation executed is executed
\* again only once the journal is full of later ones.
THEOREM OnlyAFullJournalForgets == Spec => RedoneOnlyIfForgotten
<1>1. Init => JournalShort
    BY DEF Init, JournalShort
<1>2. ASSUME OpsTyped, OpInv, JournalShort, OpsTyped', [Next]_vars
      PROVE  JournalShort'
    <2>1. CASE UNCHANGED <<row, lastRow, executed>>
        BY <1>2, <2>1 DEF JournalShort
    <2>2. ASSUME NEW batch \in SUBSET OpId, NEW res, applyShoppingOps(batch, res)
          PROVE  JournalShort'
        BY <1>2, <2>2, ServingForgets DEF OpInv
    <2> QED BY <1>2, <2>1, <2>2, BooksWritten
<1>3. ASSUME OpsTyped, OpInv, JournalShort, [Next]_vars
      PROVE  \A k \in OpId : executed[k] >= 1 /\ executed'[k] > executed[k]
                 => Cardinality({j \in OpId : row[j] > 0}) = OPS_JOURNAL_MAX
    <2> SUFFICES ASSUME NEW k \in OpId, executed[k] >= 1, executed'[k] > executed[k]
                 PROVE  Cardinality({j \in OpId : row[j] > 0}) = OPS_JOURNAL_MAX
        OBVIOUS
    <2>1. executed[k] \in Nat /\ row[k] \in Nat
        BY <1>3 DEF OpsTyped
    <2>0. PICK batch \in SUBSET OpId : \E res : applyShoppingOps(batch, res)
        BY <1>3, <2>1, BooksWritten
    <2>2. PICK res : applyShoppingOps(batch, res)
        BY <2>0
    <2>3. ~alreadyApplied(k)
        BY <2>1, <2>2 DEF applyShoppingOps
    <2>4. row[k] = 0
        BY <2>1, <2>3 DEF alreadyApplied
    <2> QED BY <1>3, <2>4 DEF JournalShort
<1>4. (OpsTyped /\ OpInv) /\ JournalShort /\ (OpsTyped /\ OpInv)' /\ [Next]_vars => JournalShort'
    BY <1>2
<1>5. (OpsTyped /\ OpInv) /\ JournalShort /\ [Next]_vars =>
          [\A k \in OpId : executed[k] >= 1 /\ executed'[k] > executed[k]
               => Cardinality({j \in OpId : row[j] > 0}) = OPS_JOURNAL_MAX]_vars
    BY <1>3
<1> QED BY <1>1, <1>4, <1>5, OperationsAreKept, PTL DEF Spec, RedoneOnlyIfForgotten

-----------------------------------------------------------------------------
(***************************************************************************)
(* A queue replayed twice is replayed once.  `run` takes the history as an *)
(* argument: a gesture replays the queue from the history it extends.      *)
(***************************************************************************)

\* The operations q of a history are ones a device can make.
OpsFit(ops, q) == \A k \in q : ops[k] \in Op /\ Fits(ops[k])

LEMMA RunHasSteps ==
    ASSUME NEW ops, NEW q \in SUBSET OpId, OpsFit(ops, q), NEW its \in Articles
    PROVE  \E x : /\ RunSteps(ops, x, its, q) /\ run(ops, its, q) = x[MaxOps]
                  /\ \A n \in Nat : x[n] \in Articles
<1>1. \A r \in Articles, k \in q : effect(r, ops[k]) \in Articles
    BY EffectIs DEF OpsFit
<1>2. PICK x : RunSteps(ops, x, its, q) /\ run(ops, its, q) = x[MaxOps]
    BY <1>1, RunInOrder
<1>3. x[0] \in Articles /\ \A n \in Nat : x[n] \in Articles => x[n + 1] \in Articles
    BY <1>1, <1>2 DEF RunSteps
<1>4. \A n \in Nat : x[n] \in Articles
    BY <1>3, AllAlong
<1> QED BY <1>2, <1>4

LEMMA RunTyped ==
    ASSUME NEW ops, NEW q \in SUBSET OpId, OpsFit(ops, q), NEW its \in Articles
    PROVE  run(ops, its, q) \in Articles
<1>1. PICK x : /\ RunSteps(ops, x, its, q) /\ run(ops, its, q) = x[MaxOps]
               /\ \A n \in Nat : x[n] \in Articles
    BY RunHasSteps
<1> QED BY <1>1, OpSyncAssumption

\* There is one way through the operations of q.
LEMMA RunIs ==
    ASSUME NEW ops, NEW q \in SUBSET OpId, OpsFit(ops, q), NEW its \in Articles,
           NEW x, RunSteps(ops, x, its, q)
    PROVE  run(ops, its, q) = x[MaxOps]
<1>1. PICK y : RunSteps(ops, y, its, q) /\ run(ops, its, q) = y[MaxOps]
    BY RunHasSteps
<1> DEFINE T == {n \in Nat : x[n] = y[n]}
<1>2. 0 \in T /\ \A n \in Nat : n \in T => n + 1 \in T
    BY <1>1 DEF RunSteps
<1> HIDE DEF T
<1>3. MaxOps \in T
    BY <1>2, Ups, OpSyncAssumption
<1> QED BY <1>1, <1>3 DEF T

\* Histories that agree on q replay it the same.
LEMMA RunAgrees ==
    ASSUME NEW ops, NEW more, NEW q \in SUBSET OpId, OpsFit(ops, q), NEW its \in Articles,
           \A k \in q : more[k] = ops[k]
    PROVE  run(more, its, q) = run(ops, its, q)
<1>1. PICK x : RunSteps(ops, x, its, q) /\ run(ops, its, q) = x[MaxOps]
    BY RunHasSteps
<1>2. RunSteps(more, x, its, q)
    BY <1>1 DEF RunSteps
<1>3. OpsFit(more, q)
    BY DEF OpsFit
<1> QED BY <1>1, <1>2, <1>3, RunIs

\* A later operation comes on top.
LEMMA RunMore ==
    ASSUME NEW ops, NEW n \in OpId, NEW q \in SUBSET OpId, \A k \in q : k < n,
           OpsFit(ops, q \union {n}), NEW its \in Articles
    PROVE  run(ops, its, q \union {n}) = effect(run(ops, its, q), ops[n])
<1>0. n \in Nat /\ n - 1 \in Nat /\ MaxOps \in Nat /\ n <= MaxOps
      /\ OpsFit(ops, q) /\ q \union {n} \in SUBSET OpId
    BY OpSyncAssumption DEF OpId, OpsFit
<1>1. PICK x : RunSteps(ops, x, its, q) /\ run(ops, its, q) = x[MaxOps]
    BY <1>0, RunHasSteps
<1> DEFINE T == {m \in Nat : m >= n => x[m] = x[n - 1]}
           y == [m \in Nat |-> IF m < n THEN x[m] ELSE effect(x[n - 1], ops[n])]
<1>2. MaxOps \in T
    <2>1. 0 \in T
        BY <1>0
    <2>2. ASSUME NEW m \in Nat, m \in T
          PROVE  m + 1 \in T
        <3>1. CASE m + 1 >= n
            <4>1. m + 1 \notin q
                BY <1>0, <3>1
            <4>2. x[m + 1] = x[m]
                BY <1>1, <4>1 DEF RunSteps
            <4>3. m = n - 1 \/ m >= n
                BY <1>0, <3>1
            <4> QED BY <2>2, <4>2, <4>3
        <3>2. CASE ~(m + 1 >= n)
            BY <3>2
        <3> QED BY <3>1, <3>2
    <2> HIDE DEF T
    <2> QED BY <1>0, <2>1, <2>2, Ups
<1>3. RunSteps(ops, y, its, q \union {n})
    <2>1. y[0] = its
        BY <1>0, <1>1 DEF RunSteps
    <2>2. ASSUME NEW m \in Nat
          PROVE  y[m + 1] = IF m + 1 \in q \union {n} THEN effect(y[m], ops[m + 1]) ELSE y[m]
        <3>1. CASE m + 1 < n
            <4>1. y[m] = x[m] /\ y[m + 1] = x[m + 1] /\ m + 1 # n
                BY <1>0, <3>1
            <4> HIDE DEF y
            <4> QED BY <1>1, <4>1 DEF RunSteps
        <3>2. CASE m + 1 = n
            <4>1. y[m] = x[n - 1] /\ y[m + 1] = effect(x[n - 1], ops[n])
                BY <1>0, <3>2
            <4> HIDE DEF y
            <4> QED BY <3>2, <4>1
        <3>3. CASE m + 1 > n
            <4>1. y[m] = y[m + 1] /\ m + 1 \notin q /\ m + 1 # n
                BY <1>0, <3>3
            <4> HIDE DEF y
            <4> QED BY <4>1
        <3> HIDE DEF y
        <3> QED BY <1>0, <3>1, <3>2, <3>3
    <2> HIDE DEF y
    <2> QED BY <2>1, <2>2 DEF RunSteps
<1>4. y[MaxOps] = effect(x[n - 1], ops[n])
    BY <1>0
<1>5. x[MaxOps] = x[n - 1]
    BY <1>0, <1>2
<1> HIDE DEF y, T
<1>6. run(ops, its, q \union {n}) = y[MaxOps]
    BY <1>0, <1>3, RunIs
<1> QED BY <1>1, <1>4, <1>5, <1>6

\* What two lists of articles have in common, each operation keeping it, they
\* still have after a replay.
LEMMA RunBoth ==
    ASSUME NEW ops, NEW q \in SUBSET OpId, OpsFit(ops, q),
           NEW a \in Articles, NEW b \in Articles,
           NEW J, <<a, b>> \in J,
           \A r, s \in Articles, k \in q :
               <<r, s>> \in J => <<effect(r, ops[k]), effect(s, ops[k])>> \in J
    PROVE  <<run(ops, a, q), run(ops, b, q)>> \in J
<1>1. PICK x : /\ RunSteps(ops, x, a, q) /\ run(ops, a, q) = x[MaxOps]
               /\ \A n \in Nat : x[n] \in Articles
    BY RunHasSteps
<1>2. PICK y : /\ RunSteps(ops, y, b, q) /\ run(ops, b, q) = y[MaxOps]
               /\ \A n \in Nat : y[n] \in Articles
    BY RunHasSteps
<1> DEFINE T == {n \in Nat : <<x[n], y[n]>> \in J}
<1>3. 0 \in T
    BY <1>1, <1>2 DEF RunSteps
<1>4. ASSUME NEW n \in Nat, n \in T
      PROVE  n + 1 \in T
    <2>1. CASE n + 1 \in q
        <3>1. <<effect(x[n], ops[n + 1]), effect(y[n], ops[n + 1])>> \in J
            BY <1>1, <1>2, <1>4, <2>1
        <3> QED BY <1>1, <1>2, <2>1, <3>1 DEF RunSteps
    <2>2. CASE n + 1 \notin q
        BY <1>1, <1>2, <1>4, <2>2 DEF RunSteps
    <2> QED BY <2>1, <2>2
<1> HIDE DEF T
<1>5. MaxOps \in T
    BY <1>3, <1>4, Ups, OpSyncAssumption
<1> QED BY <1>1, <1>2, <1>5 DEF T

\* An article is the same in two lists; it is absent from both or on the same
\* list; absent from both or in the same state.
SameAt(r, s, i) == r[i] = s[i]
ListAt(r, s, i) ==
    \/ r[i] = Absent /\ s[i] = Absent
    \/ r[i] # Absent /\ s[i] # Absent /\ r[i].list = s[i].list
StateAt(r, s, i) ==
    \/ r[i] = Absent /\ s[i] = Absent
    \/ r[i] # Absent /\ s[i] # Absent /\ r[i].state = s[i].state

Same(i) == {p \in Articles \X Articles : SameAt(p[1], p[2], i)}
SameList(i) == {p \in Articles \X Articles : ListAt(p[1], p[2], i)}
SameState(i) == {p \in Articles \X Articles : StateAt(p[1], p[2], i)}

LEMMA PairsAre ==
    ASSUME NEW r \in Articles, NEW s \in Articles, NEW i
    PROVE  /\ <<r, s>> \in Same(i) <=> SameAt(r, s, i)
           /\ <<r, s>> \in SameList(i) <=> ListAt(r, s, i)
           /\ <<r, s>> \in SameState(i) <=> StateAt(r, s, i)
<1> DEFINE p == <<r, s>>
<1>1. p \in Articles \X Articles /\ p[1] = r /\ p[2] = s
    OBVIOUS
<1> HIDE DEF p
<1>2. p \in Same(i) <=> SameAt(r, s, i)
    BY <1>1 DEF Same
<1>3. p \in SameList(i) <=> ListAt(r, s, i)
    BY <1>1 DEF SameList
<1>4. p \in SameState(i) <=> StateAt(r, s, i)
    BY <1>1 DEF SameState
<1> QED BY <1>2, <1>3, <1>4 DEF p

\* An operation keeps each of them.
LEMMA EffectBoth ==
    ASSUME NEW r \in Articles, NEW s \in Articles, NEW o \in Op, Fits(o), NEW i \in Item
    PROVE  /\ SameAt(r, s, i) => SameAt(effect(r, o), effect(s, o), i)
           /\ ListAt(r, s, i) => ListAt(effect(r, o), effect(s, o), i)
           /\ StateAt(r, s, i) => StateAt(effect(r, o), effect(s, o), i)
<1> DEFINE R == effect(r, o)
           S == effect(s, o)
<1>1. R \in Articles /\ S \in Articles
    BY EffectIs
<1>2. CASE i # o.item
    <2>1. R[i] = r[i] /\ S[i] = s[i]
        BY <1>2, EffectIs
    <2> QED BY <1>1, <2>1 DEF SameAt, ListAt, StateAt
<1>3. CASE i = o.item
    <2>1. o.op \in {"add", "set-state", "edit", "remove"}
        BY DEF Op
    <2>2. CASE o.op = "add"
        <3>1. /\ R[i] = IF r[i] = Absent THEN [list |-> o.arg, state |-> "a-prendre"] ELSE r[i]
              /\ S[i] = IF s[i] = Absent THEN [list |-> o.arg, state |-> "a-prendre"] ELSE s[i]
            BY <1>3, <2>2, EffectIs
        <3>2. [list |-> o.arg, state |-> "a-prendre"] # Absent
            <4>1. [list |-> o.arg, state |-> "a-prendre"] \in Article
                BY <2>2 DEF Fits, Article, SHOP_STATES
            <4> QED BY <4>1, ArticleIs
        <3> QED BY <1>1, <3>1, <3>2 DEF SameAt, ListAt, StateAt
    <2>3. CASE o.op = "remove"
        <3>1. R[i] = Absent /\ S[i] = Absent
            BY <1>3, <2>3, EffectIs
        <3> QED BY <1>1, <3>1 DEF SameAt, ListAt, StateAt
    <2>4. CASE o.op = "set-state"
        <3>1. /\ R[i] = IF r[i] = Absent THEN Absent ELSE [list |-> r[i].list, state |-> o.arg]
              /\ S[i] = IF s[i] = Absent THEN Absent ELSE [list |-> s[i].list, state |-> o.arg]
            BY <1>3, <2>4, EffectIs
        <3>2. /\ R[i] \in Article \union {Absent} /\ S[i] \in Article \union {Absent}
              /\ r[i] \in Article \union {Absent} /\ s[i] \in Article \union {Absent}
            BY <1>1 DEF Articles
        <3>3. Absent \notin Article
            BY ArticleIs
        <3>4. /\ r[i] # Absent => [list |-> r[i].list, state |-> o.arg] \in Article
              /\ s[i] # Absent => [list |-> s[i].list, state |-> o.arg] \in Article
            BY <2>4, <3>2 DEF Fits, Article
        <3> QED BY <1>1, <3>1, <3>2, <3>3, <3>4 DEF SameAt, ListAt, StateAt
    <2>5. CASE o.op = "edit"
        <3>1. /\ R[i] = IF r[i] = Absent THEN Absent ELSE [list |-> o.arg, state |-> r[i].state]
              /\ S[i] = IF s[i] = Absent THEN Absent ELSE [list |-> o.arg, state |-> s[i].state]
            BY <1>3, <2>5, EffectIs
        <3>2. /\ r[i] \in Article \union {Absent} /\ s[i] \in Article \union {Absent}
            BY <1>1 DEF Articles
        <3>3. Absent \notin Article
            BY ArticleIs
        <3>4. /\ r[i] # Absent => [list |-> o.arg, state |-> r[i].state] \in Article
              /\ s[i] # Absent => [list |-> o.arg, state |-> s[i].state] \in Article
            BY <2>5, <3>2 DEF Fits, Article
        <3> QED BY <1>1, <3>1, <3>2, <3>3, <3>4 DEF SameAt, ListAt, StateAt
    <2> QED BY <2>1, <2>2, <2>3, <2>4, <2>5
<1> QED BY <1>2, <1>3

\* So does a replay.
LEMMA RunKeepsBoth ==
    ASSUME NEW ops, NEW q \in SUBSET OpId, OpsFit(ops, q),
           NEW a \in Articles, NEW b \in Articles, NEW i \in Item
    PROVE  /\ SameAt(a, b, i) => SameAt(run(ops, a, q), run(ops, b, q), i)
           /\ ListAt(a, b, i) => ListAt(run(ops, a, q), run(ops, b, q), i)
           /\ StateAt(a, b, i) => StateAt(run(ops, a, q), run(ops, b, q), i)
<1> DEFINE Kept(J) == \A r, s \in Articles, k \in q :
                         <<r, s>> \in J => <<effect(r, ops[k]), effect(s, ops[k])>> \in J
<1>1. Kept(Same(i)) /\ Kept(SameList(i)) /\ Kept(SameState(i))
    <2>1. ASSUME NEW r \in Articles, NEW s \in Articles, NEW k \in q
          PROVE  /\ ops[k] \in Op /\ Fits(ops[k])
                 /\ effect(r, ops[k]) \in Articles /\ effect(s, ops[k]) \in Articles
        BY EffectIs DEF OpsFit
    <2>2. Kept(Same(i))
        BY <2>1, PairsAre, EffectBoth
    <2>3. Kept(SameList(i))
        BY <2>1, PairsAre, EffectBoth
    <2>4. Kept(SameState(i))
        BY <2>1, PairsAre, EffectBoth
    <2> QED BY <2>2, <2>3, <2>4
<1>2. <<a, b>> \in Same(i) => <<run(ops, a, q), run(ops, b, q)>> \in Same(i)
    BY <1>1, RunBoth
<1>3. <<a, b>> \in SameList(i) => <<run(ops, a, q), run(ops, b, q)>> \in SameList(i)
    BY <1>1, RunBoth
<1>4. <<a, b>> \in SameState(i) => <<run(ops, a, q), run(ops, b, q)>> \in SameState(i)
    BY <1>1, RunBoth
<1> HIDE DEF Kept
<1>5. run(ops, a, q) \in Articles /\ run(ops, b, q) \in Articles
    BY RunTyped
<1> QED BY <1>2, <1>3, <1>4, <1>5, PairsAre

\* Of the operations q on an article the last is a remove: the article is absent
\* after them.  Without any, it stays as it was.
LEMMA RunOf ==
    ASSUME NEW ops, NEW q \in SUBSET OpId, OpsFit(ops, q), NEW a \in Articles, NEW i \in Item,
           \A j \in q : ops[j].item = i /\ (\A l \in q : j < l => ops[l].item # i)
                           => ops[j].op = "remove"
    PROVE  run(ops, a, q)[i] \in {a[i], Absent}
<1>1. PICK x : /\ RunSteps(ops, x, a, q) /\ run(ops, a, q) = x[MaxOps]
               /\ \A n \in Nat : x[n] \in Articles
    BY RunHasSteps
<1>2. \A k \in q : ops[k] \in Op /\ Fits(ops[k]) /\ k \in Nat /\ k <= MaxOps
    BY OpSyncAssumption DEF OpsFit, OpId
<1>3. ASSUME NEW n \in Nat, n + 1 \notin q \/ ops[n + 1].item # i
      PROVE  x[n + 1][i] = x[n][i]
    <2>1. CASE n + 1 \in q
        <3>1. x[n + 1] = effect(x[n], ops[n + 1])
            BY <1>1, <2>1 DEF RunSteps
        <3>2. x[n] \in Articles /\ ops[n + 1] \in Op /\ Fits(ops[n + 1])
              /\ i \in Item \ {ops[n + 1].item}
            BY <1>1, <1>2, <1>3, <2>1
        <3>3. effect(x[n], ops[n + 1])[i] = x[n][i]
            BY <3>2, EffectIs
        <3> QED BY <3>1, <3>3
    <2>2. CASE n + 1 \notin q
        BY <1>1, <2>2 DEF RunSteps
    <2> QED BY <2>1, <2>2
<1> DEFINE On == {k \in q : ops[k].item = i}
<1>4. CASE On = {}
    <2> DEFINE T == {n \in Nat : x[n][i] = a[i]}
    <2>1. 0 \in T
        BY <1>1 DEF RunSteps
    <2>2. ASSUME NEW n \in Nat, n \in T
          PROVE  n + 1 \in T
        BY <1>3, <1>4, <2>2
    <2> HIDE DEF T
    <2>3. MaxOps \in T
        BY <2>1, <2>2, Ups, OpSyncAssumption
    <2> QED BY <1>1, <2>3 DEF T
<1>5. CASE On # {}
    <2> DEFINE rank == [k \in On |-> k]
    <2>1. \A k \in On : rank[k] \in 0..MaxOps
        BY <1>2, OpSyncAssumption
    <2>2. PICK m \in On : \A j \in On : rank[j] <= rank[m]
        <3> HIDE DEF On, rank
        <3> QED BY <1>5, <2>1, HighestIn, OpSyncAssumption
    <2>3. /\ m \in q /\ ops[m].item = i /\ m \in Nat /\ m <= MaxOps /\ m > 0
          /\ \A l \in q : m < l => ops[l].item # i
        <3>1. m \in q /\ ops[m].item = i /\ m \in OpId /\ m \in Nat /\ m <= MaxOps
            BY <1>2
        <3>2. ASSUME NEW l \in q, m < l, ops[l].item = i
              PROVE  FALSE
            <4>1. l \in On
                BY <3>2
            <4>2. rank[l] <= rank[m] /\ rank[l] = l /\ rank[m] = m
                BY <2>2, <4>1
            <4>3. l \in Nat
                BY <1>2
            <4> HIDE DEF On, rank
            <4> QED BY <3>1, <3>2, <4>2, <4>3
        <3>3. m > 0
            BY <3>1 DEF OpId
        <3> QED BY <3>1, <3>2, <3>3
    <2>4. ops[m].op = "remove"
        BY <2>3
    <2>5. x[m][i] = Absent
        <3>1. m - 1 \in Nat /\ (m - 1) + 1 = m
            BY <2>3
        <3>2. x[m] = effect(x[m - 1], ops[m])
            BY <1>1, <2>3, <3>1 DEF RunSteps
        <3>3. x[m - 1] \in Articles /\ ops[m] \in Op /\ Fits(ops[m])
            BY <1>1, <1>2, <2>3, <3>1
        <3>4. effect(x[m - 1], ops[m])[ops[m].item] = Absent
            BY <2>4, <3>3, EffectIs
        <3> QED BY <2>3, <3>2, <3>4
    <2> DEFINE T == {n \in Nat : n >= m => x[n][i] = Absent}
    <2>6. 0 \in T
        BY <2>3
    <2>7. ASSUME NEW n \in Nat, n \in T
          PROVE  n + 1 \in T
        <3>1. CASE n + 1 = m
            BY <2>5, <3>1
        <3>2. CASE n + 1 > m
            <4>1. n + 1 \notin q \/ ops[n + 1].item # i
                BY <2>3, <3>2
            <4>2. x[n + 1][i] = x[n][i] /\ n >= m
                BY <1>3, <2>3, <3>2, <4>1
            <4> QED BY <2>7, <4>2
        <3>3. CASE n + 1 < m
            BY <2>3, <3>3
        <3> QED BY <2>3, <3>1, <3>2, <3>3
    <2> HIDE DEF T
    <2>8. MaxOps \in T
        BY <2>6, <2>7, Ups, OpSyncAssumption
    <2> QED BY <1>1, <2>3, <2>8, OpSyncAssumption DEF T
<1> QED BY <1>4, <1>5

\* In q, an article is added when no operation was made on it before, or the last
\* one was a remove.
AddsFollow(ops, q) ==
    \A n \in q : ops[n].op = "add" =>
        \A j \in q : /\ j < n /\ ops[j].item = ops[n].item
                     /\ \A l \in q : j < l /\ l < n => ops[l].item # ops[n].item
                     => ops[j].op = "remove"

\* Articles that q leaves as they are, q and a later operation leave as that
\* operation makes them.
LEMMA Again ==
    ASSUME NEW ops, NEW n \in OpId, NEW q \in SUBSET OpId, \A k \in q : k < n,
           OpsFit(ops, q \union {n}), AddsFollow(ops, q \union {n}),
           NEW y \in Articles, run(ops, y, q) = y
    PROVE  run(ops, effect(y, ops[n]), q \union {n}) = effect(y, ops[n])
<1> DEFINE o == ops[n]
           i == o.item
           after == effect(y, o)
           z == run(ops, after, q)
<1>1. OpsFit(ops, q) /\ o \in Op /\ Fits(o) /\ i \in Item
      /\ o.op \in {"add", "set-state", "edit", "remove"}
    BY DEF OpsFit, Op
<1>2. after \in Articles
    BY <1>1, EffectIs
<1>3. z \in Articles
    BY <1>1, <1>2, RunTyped
<1>4. run(ops, after, q \union {n}) = effect(z, o)
    BY <1>2, RunMore
<1>5. ASSUME NEW j \in Item, j # i
      PROVE  effect(z, o)[j] = after[j]
    <2>1. after[j] = y[j] /\ effect(z, o)[j] = z[j]
        BY <1>1, <1>3, <1>5, EffectIs
    <2>2. SameAt(z, run(ops, y, q), j)
        <3>1. SameAt(after, y, j)
            BY <2>1 DEF SameAt
        <3> QED BY <1>1, <1>2, <3>1, RunKeepsBoth
    <2> QED BY <2>1, <2>2 DEF SameAt
<1>6. effect(z, o)[i] = after[i]
    <2>1. CASE o.op = "remove"
        <3>1. after[i] = Absent
            BY <1>1, <2>1, EffectIs
        <3>2. effect(z, o)[i] = Absent
            BY <1>1, <1>3, <2>1, EffectIs
        <3> QED BY <3>1, <3>2
    <2>2. CASE o.op = "set-state"
        <3>1. /\ after[i] = IF y[i] = Absent THEN Absent ELSE [list |-> y[i].list, state |-> o.arg]
              /\ effect(z, o)[i] = IF z[i] = Absent THEN Absent
                                   ELSE [list |-> z[i].list, state |-> o.arg]
            BY <1>1, <1>3, <2>2, EffectIs
        <3>2. y[i] # Absent => [list |-> y[i].list, state |-> o.arg] # Absent
            <4>1. y[i] # Absent => [list |-> y[i].list, state |-> o.arg] \in Article
                BY <1>1, <2>2, ArticleIs DEF Fits, Article
            <4> QED BY <1>1, <4>1, ArticleIs
        <3>3. ListAt(z, y, i)
            <4>1. ListAt(after, y, i)
                BY <3>1, <3>2 DEF ListAt
            <4> QED BY <1>1, <1>2, <4>1, RunKeepsBoth
        <3> HIDE DEF after, z, o, i
        <3> QED BY <3>1, <3>3 DEF ListAt
    <2>3. CASE o.op = "edit"
        <3>1. /\ after[i] = IF y[i] = Absent THEN Absent ELSE [list |-> o.arg, state |-> y[i].state]
              /\ effect(z, o)[i] = IF z[i] = Absent THEN Absent
                                   ELSE [list |-> o.arg, state |-> z[i].state]
            BY <1>1, <1>3, <2>3, EffectIs
        <3>2. y[i] # Absent => [list |-> o.arg, state |-> y[i].state] # Absent
            <4>1. y[i] # Absent => [list |-> o.arg, state |-> y[i].state] \in Article
                BY <1>1, <2>3, ArticleIs DEF Fits, Article
            <4> QED BY <1>1, <4>1, ArticleIs
        <3>3. StateAt(z, y, i)
            <4>1. StateAt(after, y, i)
                BY <3>1, <3>2 DEF StateAt
            <4> QED BY <1>1, <1>2, <4>1, RunKeepsBoth
        <3> HIDE DEF after, z, o, i
        <3> QED BY <3>1, <3>3 DEF StateAt
    <2>4. CASE o.op = "add"
        <3>1. /\ after[i] = IF y[i] = Absent THEN [list |-> o.arg, state |-> "a-prendre"] ELSE y[i]
              /\ effect(z, o)[i] = IF z[i] = Absent THEN [list |-> o.arg, state |-> "a-prendre"]
                                   ELSE z[i]
            BY <1>1, <1>3, <2>4, EffectIs
        <3>2. CASE y[i] = Absent
            <4>1. \A j \in q : ops[j].item = i /\ (\A l \in q : j < l => ops[l].item # i)
                                  => ops[j].op = "remove"
                <5>1. ASSUME NEW j \in q, ops[j].item = i, \A l \in q : j < l => ops[l].item # i
                      PROVE  ops[j].op = "remove"
                    <6>1. \A l \in q \union {n} : j < l /\ l < n => ops[l].item # ops[n].item
                        BY <5>1 DEF OpId
                    <6>2. j < n /\ ops[j].item = ops[n].item /\ j \in q \union {n}
                        BY <5>1
                    <6>3. n \in q \union {n} /\ ops[n].op = "add"
                        BY <2>4
                    <6> QED BY <6>1, <6>2, <6>3 DEF AddsFollow
                <5> QED BY <5>1
            <4>2. z[i] \in {after[i], Absent}
                <5> HIDE DEF after, i
                <5> QED BY <1>1, <1>2, <4>1, RunOf
            <4> HIDE DEF after, z, o, i
            <4> QED BY <3>1, <3>2, <4>2
        <3>3. CASE y[i] # Absent
            <4>1. SameAt(z, y, i)
                <5>1. SameAt(after, y, i)
                    BY <3>1, <3>3 DEF SameAt
                <5> QED BY <1>1, <1>2, <5>1, RunKeepsBoth
            <4> HIDE DEF after, z, o, i
            <4> QED BY <3>1, <3>3, <4>1 DEF SameAt
        <3> QED BY <3>2, <3>3
    <2> QED BY <1>1, <2>1, <2>2, <2>3, <2>4
<1>7. effect(z, o) = after
    <2>1. effect(z, o) \in Articles
        BY <1>1, <1>3, EffectIs
    <2>2. \A j \in Item : effect(z, o)[j] = after[j]
        BY <1>5, <1>6
    <2> HIDE DEF after, z, o
    <2> QED BY <1>2, <2>1, <2>2 DEF Articles
<1> QED BY <1>4, <1>7

\* A queue replayed again changes nothing.
LEMMA RunTwice ==
    ASSUME NEW ops, NEW q \in SUBSET OpId, OpsFit(ops, q), AddsFollow(ops, q),
           NEW its \in Articles
    PROVE  run(ops, run(ops, its, q), q) = run(ops, its, q)
<1> DEFINE first(n) == run(ops, its, upTo(q, n))
           T == {n \in Nat : n <= MaxOps => run(ops, first(n), upTo(q, n)) = first(n)}
<1>0. MaxOps \in Nat /\ Growing(q, MaxOps)
    BY UpTo, OpSyncAssumption DEF OpId
<1>1. \A n \in Nat : upTo(q, n) \in SUBSET OpId /\ OpsFit(ops, upTo(q, n))
    BY DEF upTo, OpsFit
<1>2. 0 \in T
    <2>1. upTo(q, 0) = {} /\ {} \in SUBSET OpId /\ OpsFit(ops, {})
        BY <1>0 DEF Growing, OpsFit
    <2>2. \A a \in Articles : run(ops, a, {}) = a
        <3>1. ASSUME NEW a \in Articles PROVE run(ops, a, {}) = a
            <4>1. RunSteps(ops, [n \in Nat |-> a], a, {})
                BY DEF RunSteps
            <4> QED BY <1>0, <2>1, <4>1, RunIs
        <3> QED BY <3>1
    <2> QED BY <2>1, <2>2
<1>3. ASSUME NEW n \in Nat, n \in T
      PROVE  n + 1 \in T
    <2>1. CASE n + 1 > MaxOps
        BY <2>1, <1>0
    <2>2. CASE n + 1 <= MaxOps /\ n + 1 \notin q
        <3>1. upTo(q, n + 1) = upTo(q, n)
            BY <1>0, <2>2 DEF Growing
        <3>2. n <= MaxOps
            BY <1>0, <2>2
        <3> QED BY <1>3, <3>1, <3>2
    <2>3. CASE n + 1 <= MaxOps /\ n + 1 \in q
        <3> DEFINE u == upTo(q, n)
                   y == first(n)
        <3>1. upTo(q, n + 1) = u \union {n + 1} /\ \A k \in u : k < n + 1
            BY <2>3 DEF upTo
        <3>2. u \in SUBSET OpId /\ u \union {n + 1} \in SUBSET OpId /\ n + 1 \in OpId
              /\ OpsFit(ops, u) /\ OpsFit(ops, u \union {n + 1})
            BY <1>1, <2>3, <3>1
        <3>3. AddsFollow(ops, u \union {n + 1})
            <4>1. \A k \in u \union {n + 1} :
                     k \in q /\ \A l \in q : l < k => l \in u \union {n + 1}
                BY <2>3 DEF upTo, OpId
            <4> HIDE DEF u
            <4> QED BY <4>1 DEF AddsFollow
        <3>4. y \in Articles /\ run(ops, y, u) = y
            <4>1. n <= MaxOps
                BY <1>0, <2>3
            <4> QED BY <1>3, <3>2, <4>1, RunTyped
        <3>5. first(n + 1) = effect(y, ops[n + 1])
            BY <3>1, <3>2, RunMore
        <3> HIDE DEF u, y
        <3>6. run(ops, effect(y, ops[n + 1]), u \union {n + 1}) = effect(y, ops[n + 1])
            BY <3>1, <3>2, <3>3, <3>4, Again
        <3> QED BY <3>1, <3>5, <3>6
    <2> HIDE DEF T
    <2> QED BY <1>0, <2>1, <2>2, <2>3
<1> HIDE DEF T
<1>4. MaxOps \in T
    BY <1>0, <1>2, <1>3, Ups
<1> QED BY <1>0, <1>4 DEF T, Growing

\* A device adds an article it had made no gesture on, or had removed.
AddsNew(ops) ==
    \A j, k \in DOMAIN ops :
        /\ j < k /\ ops[k].op = "add"
        /\ ops[j].by = ops[k].by /\ ops[j].item = ops[k].item
        /\ \A l \in DOMAIN ops :
               j < l /\ l < k /\ ops[l].by = ops[k].by => ops[l].item # ops[k].item
        => ops[j].op = "remove"

\* q is the last gestures of c.
TailOf(ops, c, q) ==
    /\ \A k \in q : k \in DOMAIN ops /\ ops[k].by = c
    /\ \A j \in q, k \in DOMAIN ops : j < k /\ ops[k].by = c => k \in q

LEMMA TailFollows ==
    ASSUME NEW ops, NEW c, NEW q, AddsNew(ops), TailOf(ops, c, q)
    PROVE  AddsFollow(ops, q)
<1> SUFFICES ASSUME NEW n \in q, ops[n].op = "add", NEW j \in q,
                    j < n, ops[j].item = ops[n].item,
                    \A l \in q : j < l /\ l < n => ops[l].item # ops[n].item
             PROVE  ops[j].op = "remove"
    BY DEF AddsFollow
<1>1. ops[j].by = ops[n].by /\ j \in DOMAIN ops /\ n \in DOMAIN ops /\ ops[n].by = c
    BY DEF TailOf
<1>2. \A l \in DOMAIN ops :
          j < l /\ l < n /\ ops[l].by = ops[n].by => ops[l].item # ops[n].item
    BY <1>1 DEF TailOf
<1> QED BY <1>1, <1>2 DEF AddsNew

\* The screen of c shows what c has to send.
PendingOn(c) == run(issued, shown[c], queue[c]) = shown[c]

LEMMA PendingIs ==
    /\ PendingShown <=> \A c \in Client : open[c] => PendingOn(c)
    /\ PendingShown' <=> \A c \in Client : open'[c] => PendingOn(c)'
<1>1. PendingShown <=> \A c \in Client : open[c] => PendingOn(c)
    BY ReplayIsRun DEF PendingShown, PendingOn
<1>2. PendingShown' <=> \A c \in Client : open'[c] => PendingOn(c)'
    <2>1. \A c \in Client : replay(shown[c], queue[c])' = run(issued', shown'[c], queue'[c])
        BY DEF replay, replayOne, inOrder, MapThenFoldSet, run
    <2> QED BY <2>1 DEF PendingShown, PendingOn
<1> QED BY <1>1, <1>2

\* What a step starts from.
Shows == Sound /\ PendingInv

\* The queue of c, or its end, can be replayed.
LEMMA QueueFits ==
    ASSUME Shows, NEW c \in Client, NEW q \in SUBSET queue[c],
           \A j \in q, k \in queue[c] : j < k => k \in q
    PROVE  q \in SUBSET OpId /\ OpsFit(issued, q) /\ AddsFollow(issued, q)
<1>1. q \in SUBSET OpId /\ \A k \in q : k \in DOMAIN issued /\ issued[k].by = c
    BY DEF Shows, Sound, OpsTyped, OpInv, QueueOwned
<1>2. OpsFit(issued, q)
    BY <1>1, IssuedIs DEF OpsFit, Shows, Sound, ScreenInv
<1>3. TailOf(issued, c, q)
    BY <1>1 DEF TailOf, Shows, PendingInv, QueueIsTail
<1>4. AddsNew(issued)
    BY DEF AddsNew, Shows, PendingInv, AddsAreNew
<1> QED BY <1>1, <1>2, <1>3, <1>4, TailFollows

\* What is adopted with the queue on top of it shows the queue.
LEMMA AdoptedShows ==
    ASSUME Shows, NEW c \in Client, NEW its \in Articles, NEW q \in SUBSET queue[c],
           \A j \in q, k \in queue[c] : j < k => k \in q,
           issued' = issued, shown'[c] = replay(its, q), queue'[c] = q
    PROVE  PendingOn(c)'
<1>1. q \in SUBSET OpId /\ OpsFit(issued, q) /\ AddsFollow(issued, q)
    BY QueueFits
<1>2. run(issued, run(issued, its, q), q) = run(issued, its, q)
    BY <1>1, RunTwice
<1>3. replay(its, q) = run(issued, its, q)
    BY ReplayIsRun
<1> QED BY <1>2, <1>3 DEF PendingOn

\* Steps that make no gesture and settle none.
LEMMA QueuesStay ==
    ASSUME Shows, UNCHANGED <<issued, queue>>, FlushIsHead',
           \A c \in Client : open'[c] =>
               \/ open[c] /\ shown'[c] = shown[c]
               \/ \E its \in Articles : shown'[c] = replay(its, queue[c])
    PROVE  PendingInv'
<1>1. AddsAreNew' /\ QueueIsTail'
    BY DEF Shows, PendingInv, AddsAreNew, QueueIsTail
<1>2. ASSUME NEW c \in Client, open'[c]
      PROVE  PendingOn(c)'
    <2>1. CASE open[c] /\ shown'[c] = shown[c]
        <3>1. PendingOn(c)
            BY <2>1, PendingIs DEF Shows, PendingInv
        <3> QED BY <2>1, <3>1 DEF PendingOn
    <2>2. CASE \E its \in Articles : shown'[c] = replay(its, queue[c])
        <3>1. PICK its \in Articles : shown'[c] = replay(its, queue[c])
            BY <2>2
        <3> QED BY <3>1, AdoptedShows
    <2> QED BY <1>2, <2>1, <2>2
<1>3. PendingShown'
    BY <1>2, PendingIs
<1> QED BY <1>1, <1>3 DEF PendingInv

\* A gesture comes on top of the queue, on the screen and in the queue.
LEMMA GesturePends ==
    ASSUME Shows, Sound', NEW c \in Client, NEW o \in Op, pushShopOps(c, o)
    PROVE  PendingInv'
<1> DEFINE n == Len(issued) + 1
<1>1. /\ open[c] /\ o \in gestures(c) /\ o.by = c /\ n <= MaxOps
      /\ issued' = Append(issued, o)
      /\ queue' = [queue EXCEPT ![c] = queue[c] \union {n}]
      /\ shown' = [shown EXCEPT ![c] = effect(shown[c], o)]
      /\ UNCHANGED <<open, flight>>
    BY OpSyncAssumption DEF pushShopOps, gestures, wires, Shows, Sound, OpsTyped
<1>2. /\ n \in Nat /\ DOMAIN issued' = DOMAIN issued \union {n} /\ issued'[n] = o
      /\ \A k \in DOMAIN issued : issued'[k] = issued[k] /\ k \in Nat /\ k < n
      /\ n \notin DOMAIN issued
    BY <1>1 DEF Shows, Sound, OpsTyped
<1>3. /\ queue'[c] = queue[c] \union {n}
      /\ shown'[c] = effect(shown[c], o)
      /\ \A e \in Client : e # c => queue'[e] = queue[e] /\ shown'[e] = shown[e]
    BY <1>1 DEF Shows, Sound, OpsTyped, ArticlesTyped
<1>4. \A e \in Client : \A k \in queue[e] : k \in DOMAIN issued /\ issued[k].by = e
    BY DEF Shows, Sound, OpInv, QueueOwned
<1> HIDE DEF n
<1>5. AddsNew(issued')
    <2> SUFFICES ASSUME NEW j \in DOMAIN issued', NEW k \in DOMAIN issued',
                        j < k, issued'[k].op = "add",
                        issued'[j].by = issued'[k].by, issued'[j].item = issued'[k].item,
                        \A l \in DOMAIN issued' :
                            j < l /\ l < k /\ issued'[l].by = issued'[k].by
                                => issued'[l].item # issued'[k].item
                 PROVE  issued'[j].op = "remove"
        BY DEF AddsNew
    <2>0. j \in DOMAIN issued
        BY <1>2
    <2>1. CASE k \in DOMAIN issued
        <3>1. AddsAreNew
            BY DEF Shows, PendingInv
        <3>2. /\ j < k /\ issued[k].op = "add"
              /\ issued[j].by = issued[k].by /\ issued[j].item = issued[k].item
            BY <1>2, <2>0, <2>1
        <3>3. \A l \in DOMAIN issued :
                 j < l /\ l < k /\ issued[l].by = issued[k].by => issued[l].item # issued[k].item
            BY <1>2, <2>1
        <3>4. issued[j].op = "remove"
            BY <2>0, <2>1, <3>1, <3>2, <3>3 DEF AddsAreNew
        <3> QED BY <1>2, <2>0, <3>4
    <2>2. CASE k = n
        <3>1. /\ issued[j].by = c /\ issued[j].item = o.item /\ o.op = "add"
              /\ \A l \in DOMAIN issued : j < l /\ issued[l].by = c => issued[l].item # o.item
            BY <1>1, <1>2, <2>0, <2>2
        <3>2. o.item \in undoable(c)
            BY <1>1, <2>0, <3>1 DEF gestures
        <3>3. PICK m \in DOMAIN issued :
                 /\ issued[m].by = c /\ issued[m].op = "remove" /\ issued[m].item = o.item
                 /\ \A l \in DOMAIN issued : l > m /\ issued[l].by = c => issued[l].item # o.item
            BY <3>2 DEF undoable
        <3>4. j = m
            BY <1>2, <2>0, <3>1, <3>3
        <3> QED BY <1>2, <3>3, <3>4
    <2> QED BY <1>2, <2>1, <2>2
<1>6. AddsAreNew'
    BY <1>5 DEF AddsNew, AddsAreNew
<1>7. \A e \in Client : TailOf(issued', e, queue'[e])
    <2>1. ASSUME NEW e \in Client
          PROVE  TailOf(issued', e, queue'[e])
        <3>1. \A k \in queue'[e] : k \in DOMAIN issued' /\ issued'[k].by = e
            BY <1>1, <1>2, <1>3, <1>4
        <3>2. ASSUME NEW j \in queue'[e], NEW k \in DOMAIN issued', j < k, issued'[k].by = e
              PROVE  k \in queue'[e]
            <4>1. CASE k = n
                BY <1>1, <1>2, <1>3, <3>2, <4>1
            <4>2. CASE k \in DOMAIN issued
                <5>1. j \in queue[e]
                    BY <1>2, <1>3, <3>2, <4>2
                <5>2. QueueIsTail
                    BY DEF Shows, PendingInv
                <5>3. issued[k].by = e
                    BY <1>2, <3>2, <4>2
                <5>4. k \in queue[e]
                    BY <3>2, <4>2, <5>1, <5>2, <5>3 DEF QueueIsTail
                <5> QED BY <1>3, <5>4
            <4> QED BY <1>2, <4>1, <4>2
        <3> QED BY <3>1, <3>2 DEF TailOf
    <2> QED BY <2>1
<1>8. QueueIsTail'
    BY <1>7 DEF TailOf, QueueIsTail
<1>9. FlushIsHead'
    <2>1. FlushIsHead
        BY DEF Shows, PendingInv
    <2>2. \A e \in Client : flight[e].st = "req" => flight[e].batch \subseteq DOMAIN issued
        BY DEF Shows, Sound, OpInv, BatchesClosed, Closed
    <2>3. \A e \in Client : flight[e].st = "ok" => flight[e].settled \subseteq DOMAIN issued
        BY <2>1 DEF FlushIsHead
    <2>4. \A e \in Client : flight[e].st = "req" =>
              \A j \in queue'[e], k \in flight[e].batch : j < k => j \in flight[e].batch
        BY <1>2, <1>3, <2>1, <2>2 DEF FlushIsHead
    <2>5. \A e \in Client : flight[e].st = "ok" =>
              \A j \in queue'[e], k \in flight[e].settled : j < k => j \in flight[e].settled
        BY <1>2, <1>3, <2>1, <2>3 DEF FlushIsHead
    <2>6. flight' = flight /\ DOMAIN issued \subseteq DOMAIN issued'
        BY <1>1, <1>2
    <2> QED BY <2>3, <2>4, <2>5, <2>6 DEF FlushIsHead
<1>10. ASSUME NEW e \in Client, open'[e]
       PROVE  PendingOn(e)'
    <2>0. open[e] /\ PendingOn(e)
        BY <1>1, <1>10, PendingIs DEF Shows, PendingInv
    <2>1. queue[e] \in SUBSET OpId /\ OpsFit(issued, queue[e])
        BY QueueFits
    <2>2. shown[e] \in Articles
        BY DEF Shows, Sound, ArticlesTyped
    <2>3. run(issued', shown[e], queue[e]) = shown[e]
        <3>1. \A k \in queue[e] : issued'[k] = issued[k]
            BY <1>2, <1>4
        <3> QED BY <2>0, <2>1, <2>2, <3>1, RunAgrees DEF PendingOn
    <2>4. CASE e # c
        BY <1>3, <2>3, <2>4 DEF PendingOn
    <2>5. CASE e = c
        <3>1. OpsFit(issued', queue[c] \union {n})
            <4>1. \A k \in queue[c] : issued'[k] = issued[k]
                BY <1>2, <1>4
            <4>2. Fits(o)
                BY <1>1 DEF gestures, Fits
            <4> QED BY <1>2, <2>1, <2>5, <4>1, <4>2 DEF OpsFit
        <3>2. AddsFollow(issued', queue[c] \union {n})
            BY <1>3, <1>5, <1>7, TailFollows
        <3>3. n \in OpId
            BY <1>1, <1>2 DEF OpId, n, Shows, Sound, OpsTyped
        <3>4. \A k \in queue[c] : k < n
            BY <1>2, <1>4
        <3>5. run(issued', effect(shown[c], issued'[n]), queue[c] \union {n})
                = effect(shown[c], issued'[n])
            BY <2>1, <2>2, <2>3, <2>5, <3>1, <3>2, <3>3, <3>4, Again
        <3> QED BY <1>2, <1>3, <2>5, <3>5 DEF PendingOn
    <2> QED BY <2>4, <2>5
<1>11. PendingShown'
    BY <1>10, PendingIs
<1> QED BY <1>6, <1>8, <1>9, <1>11 DEF PendingInv

\* What is settled leaves the queue by its head: the rest is still its end.
LEMMA AnswerPends ==
    ASSUME Shows, NEW c \in Client, FlushAnswered(c)
    PROVE  PendingInv'
<1> DEFINE left == queue[c] \ flight[c].settled
<1>1. /\ flight[c].st = "ok"
      /\ queue' = [queue EXCEPT ![c] = left]
      /\ shown' = [shown EXCEPT ![c] = replay(answer[c].items, left)]
      /\ flight' = [flight EXCEPT ![c] = NoFlight]
      /\ UNCHANGED <<issued, open>>
    BY DEF FlushAnswered, adoptShop
<1>2. /\ queue'[c] = left /\ shown'[c] = replay(answer[c].items, left)
      /\ \A e \in Client : e # c => queue'[e] = queue[e] /\ shown'[e] = shown[e]
      /\ flight'[c].st = "none" /\ \A e \in Client : e # c => flight'[e] = flight[e]
    BY <1>1 DEF Shows, Sound, OpsTyped, ArticlesTyped, NoFlight, Flying
<1>3. AddsAreNew /\ QueueIsTail /\ FlushIsHead
    BY DEF Shows, PendingInv
<1>4. \A j \in left, k \in queue[c] : j < k => k \in left
    BY <1>1, <1>3 DEF FlushIsHead
<1>5. AddsAreNew'
    BY <1>1, <1>3 DEF AddsAreNew
<1>6. QueueIsTail'
    <2> SUFFICES ASSUME NEW e \in Client, NEW j \in queue'[e], NEW k \in DOMAIN issued,
                        j < k, issued[k].by = e
                 PROVE  k \in queue'[e]
        BY <1>1 DEF QueueIsTail
    <2>1. j \in queue[e]
        BY <1>2
    <2>2. k \in queue[e]
        BY <1>3, <2>1 DEF QueueIsTail
    <2>3. CASE e = c
        <3>1. j \in left
            BY <1>2, <2>3
        <3> HIDE DEF left
        <3> QED BY <1>2, <1>4, <2>2, <2>3, <3>1
    <2> QED BY <1>2, <2>2, <2>3
<1>7. FlushIsHead'
    BY <1>1, <1>2, <1>3 DEF FlushIsHead
<1>8. ASSUME NEW e \in Client, open'[e]
      PROVE  PendingOn(e)'
    <2>1. CASE e = c
        <3>1. answer[c].items \in Articles
            BY DEF Shows, Sound, ArticlesTyped, Answer
        <3>2. left \in SUBSET queue[c]
            OBVIOUS
        <3> HIDE DEF left
        <3> QED BY <1>1, <1>2, <1>4, <2>1, <3>1, <3>2, AdoptedShows
    <2>2. CASE e # c
        <3>1. PendingOn(e)
            BY <1>1, <1>8, PendingIs DEF Shows, PendingInv
        <3> QED BY <1>1, <1>2, <2>2, <3>1 DEF PendingOn
    <2> QED BY <2>1, <2>2
<1>9. PendingShown'
    BY <1>8, PendingIs
<1> QED BY <1>5, <1>6, <1>7, <1>9 DEF PendingInv

\* A flush takes the whole queue; its answer settles the whole batch.
LEMMA FlushPends ==
    ASSUME Shows, NEW c \in Client,
           flushShopQueue(c) \/ PostOps(c) \/ FlushFailed(c) \/ FlushLost(c)
    PROVE  PendingInv'
<1>0. FlushIsHead /\ flight \in [Client -> Flight]
    BY DEF Shows, PendingInv, Sound, OpsTyped
<1>1. UNCHANGED <<issued, queue, shown, open>>
    BY DEF flushShopQueue, PostOps, FlushFailed, FlushLost, screen
<1>2. \A e \in Client : e # c => flight'[e] = flight[e]
    BY <1>0 DEF flushShopQueue, PostOps, FlushFailed, FlushLost
<1>3. \/ flight'[c].st = "req" /\ flight'[c].batch = queue[c]
      \/ /\ flight[c].st = "req"
         /\ flight'[c].st = "ok" /\ flight'[c].settled = flight[c].batch
      \/ flight'[c].st \in {"none", "error"}
    BY <1>0 DEF flushShopQueue, PostOps, FlushFailed, FlushLost, Flying, NoFlight
<1>4. flight[c].st = "req" => flight[c].batch \subseteq DOMAIN issued
    BY DEF Shows, Sound, OpInv, BatchesClosed, Closed
<1>5. FlushIsHead'
    BY <1>0, <1>1, <1>2, <1>3, <1>4 DEF FlushIsHead
<1> QED BY <1>1, <1>5, QueuesStay

\* Adopting what the server said, or the document kept in the browser.
LEMMA AdoptPends ==
    ASSUME Shows, NEW c \in Client,
           (\E n \in Polls : PollAnswered(c, n)) \/ DocumentRead(c) \/ ReadLost(c)
    PROVE  PendingInv'
<1>1. UNCHANGED <<issued, queue, flight>>
    BY DEF PollAnswered, DocumentRead, ReadLost
<1>2. FlushIsHead'
    BY <1>1 DEF Shows, PendingInv, FlushIsHead
<1>3. /\ \A n \in Polls : poll[c][n].items \in Articles
      /\ reading[c].items \in Articles /\ kept[c] \in Articles
      /\ shown \in [Client -> Articles] /\ open \in [Client -> BOOLEAN]
    BY DEF Shows, Sound, ArticlesTyped, Poll, Reading
<1>4. \/ open' = open /\ shown' = shown
      \/ \E its \in Articles : shown' = [shown EXCEPT ![c] = replay(its, queue[c])]
    BY <1>3 DEF PollAnswered, DocumentRead, ReadLost, adoptShop
<1>5. \A e \in Client : e # c => open'[e] = open[e]
    BY <1>3 DEF PollAnswered, DocumentRead, ReadLost
<1>6. ASSUME NEW e \in Client, open'[e]
      PROVE  \/ open[e] /\ shown'[e] = shown[e]
             \/ \E its \in Articles : shown'[e] = replay(its, queue[e])
    <2>1. CASE open' = open /\ shown' = shown
        BY <1>6, <2>1
    <2>2. ASSUME NEW its \in Articles, shown' = [shown EXCEPT ![c] = replay(its, queue[c])]
          PROVE  \/ open[e] /\ shown'[e] = shown[e]
                 \/ \E new \in Articles : shown'[e] = replay(new, queue[e])
        <3>1. CASE e = c
            BY <1>3, <2>2, <3>1
        <3>2. CASE e # c
            BY <1>3, <1>5, <1>6, <2>2, <3>2
        <3> QED BY <3>1, <3>2
    <2> QED BY <1>4, <2>1, <2>2
<1> QED BY <1>1, <1>2, <1>6, QueuesStay

\* An application killed is closed until it adopts something.
LEMMA RestartPends ==
    ASSUME Shows, NEW c \in Client, Restart(c)
    PROVE  PendingInv'
<1>1. /\ open \in [Client -> BOOLEAN] /\ shown \in [Client -> Articles]
      /\ flight \in [Client -> Flight]
    BY DEF Shows, Sound, OpsTyped, ArticlesTyped
<1>2. /\ UNCHANGED <<issued, queue>>
      /\ ~open'[c] /\ flight'[c].st = "none"
      /\ \A e \in Client : e # c => /\ open'[e] = open[e] /\ shown'[e] = shown[e]
                                    /\ flight'[e] = flight[e]
    BY <1>1 DEF Restart, NoFlight, Flying
<1>3. FlushIsHead'
    BY <1>2 DEF Shows, PendingInv, FlushIsHead
<1>4. \A e \in Client : open'[e] => open[e] /\ shown'[e] = shown[e]
    BY <1>2
<1> QED BY <1>2, <1>3, <1>4, QueuesStay

\* The other steps touch no screen and no queue.
LEMMA OthersPend ==
    ASSUME Shows, UNCHANGED <<issued, queue, shown, open, flight>>
    PROVE  PendingInv'
<1>1. FlushIsHead'
    BY DEF Shows, PendingInv, FlushIsHead
<1> QED BY <1>1, QueuesStay

LEMMA InitPends == Init => PendingInv
<1> SUFFICES ASSUME Init
             PROVE  PendingInv
    OBVIOUS
<1>1. Sound
    BY InitKeeps, InitShows DEF Sound
<1>2. AddsAreNew /\ QueueIsTail /\ FlushIsHead
    BY DEF Init, AddsAreNew, QueueIsTail, FlushIsHead, NoFlight, Flying
<1>3. \A c \in Client : queue[c] = {}
    BY DEF Init
<1>4. PendingShown
    BY <1>3, ReplayNothing DEF PendingShown
<1> QED BY <1>2, <1>4 DEF PendingInv

LEMMA StepPends == Shows /\ [Next]_vars => Shows'
<1> SUFFICES ASSUME Shows, [Next]_vars
             PROVE  PendingInv'
    BY StepShows DEF Shows
<1>0. Sound'
    BY StepShows DEF Shows
<1>1. CASE UNCHANGED vars
    BY <1>1, OthersPend DEF vars
<1>2. ASSUME NEW batch \in stray, PostStray(batch)
      PROVE  PendingInv'
    BY <1>2, OthersPend DEF PostStray, screen
<1>3. ASSUME NEW l \in List, RemoveList(l)
      PROVE  PendingInv'
    BY <1>3, OthersPend DEF RemoveList, screen, wires
<1>4. ASSUME NEW c \in Client, Step(c)
      PROVE  PendingInv'
    <2>1. ASSUME NEW o \in Op, pushShopOps(c, o)
          PROVE  PendingInv'
        BY <1>0, <2>1, GesturePends
    <2>2. CASE flushShopQueue(c) \/ PostOps(c) \/ FlushFailed(c) \/ FlushLost(c)
        BY <2>2, FlushPends
    <2>3. CASE FlushAnswered(c)
        BY <2>3, AnswerPends
    <2>4. CASE \/ \E n \in Polls : pollLive(c, n) \/ GetLive(c, n) \/ PollLost(c, n)
               \/ refreshDocument(c) \/ GetState(c)
        BY <2>4, OthersPend DEF pollLive, GetLive, PollLost, refreshDocument, GetState, screen
    <2>5. CASE (\E n \in Polls : PollAnswered(c, n)) \/ DocumentRead(c) \/ ReadLost(c)
        BY <2>5, AdoptPends
    <2>6. CASE Restart(c)
        BY <2>6, RestartPends
    <2> QED BY <1>4, <2>1, <2>2, <2>3, <2>4, <2>5, <2>6 DEF Step
<1> QED BY <1>1, <1>2, <1>3, <1>4 DEF Next

\* Whatever answer an application has adopted, late or overtaken, its screen
\* shows the gestures it has still to send: replaying its queue would change
\* nothing (adoptShop, replayQueues).
THEOREM GesturesStayOnScreen == Spec => []PendingShown
<1>1. Init => Shows
    BY InitKeeps, InitShows, InitPends DEF Shows, Sound
<1>2. Shows => PendingShown
    BY DEF Shows, PendingInv
<1> QED BY <1>1, <1>2, StepPends, PTL DEF Spec
=============================================================================
