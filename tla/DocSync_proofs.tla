---------------------------- MODULE DocSync_proofs ----------------------------
(***************************************************************************)
(* DocSync, for any set of devices, any set of changes and any value of    *)
(* the bounds: type correctness, and, when a reload of the document never  *)
(* overlaps a save, no save overwrites another and every acknowledged      *)
(* change stays in the household row.                                      *)
(***************************************************************************)
EXTENDS DocSync, TLAPS

-----------------------------------------------------------------------------
(***************************************************************************)
(* Type correctness.                                                       *)
(***************************************************************************)

LEMMA DocTypes ==
    /\ EmptyDoc \in Doc
    /\ NoPut \in PutRecord
    /\ NoRead \in ReadRecord
    /\ Reading("refresh", "asked") \in ReadRecord
    /\ Reading("load", "asked") \in ReadRecord
    /\ Reading("load", "me") \in ReadRecord
    /\ \A d \in Doc, q \in Seq(Mut) : rebase(d, q) \in Doc
  BY DEF EmptyDoc, Doc, NoPut, NoRead, Reading, PutRecord, ReadRecord, rebase

\* What is left of a queue of changes once its head is sent
LEMMA DropType ==
  ASSUME NEW q \in Seq(Mut), NEW n \in Nat
  PROVE  /\ SubSeq(q, n + 1, Len(q)) \in Seq(Mut)
         /\ n <= Len(q) => Len(SubSeq(q, n + 1, Len(q))) = Len(q) - n
         /\ \A i \in 1..Len(SubSeq(q, n + 1, Len(q))) : SubSeq(q, n + 1, Len(q))[i] = q[i + n]
  OBVIOUS

LEMMA PreserveType == ASSUME doc \in Doc, NEW d \in Doc PROVE preserve(d) \in Doc
  BY DEF Doc, preserve

LEMMA InitType == Init => TypeOK
  BY DocTypes, DocSyncAssumption DEF Init, TypeOK, Copy

LEMMA RequestType ==
  ASSUME TypeOK, NEW c \in Client, NEW v \in Nat, NEW d \in Doc, NEW e \in Nat
  PROVE  request(c, v, d, e) \in PutRecord
  BY DEF TypeOK, request, PutRecord

\* An answer is well formed.
LEMMA AnswerType ==
  ASSUME TypeOK, NEW c \in Client, NEW st \in {"ok", "conflict", "refused"},
         NEW v \in Nat, NEW d \in Doc, answer(c, st, v, d)
  PROVE  put' \in [Client -> PutRecord]
  BY DEF TypeOK, answer, PutRecord

\* The request a flush() sends is well formed.
LEMMA FlushType ==
  ASSUME TypeOK, NEW c \in Client, flush(c)
  PROVE  /\ put' \in [Client -> PutRecord]
         /\ saveState' \in [Client -> {"idle", "saving", "error"}]
<1>1. docVersion[c] \in Nat /\ data[c] \in Doc
  BY DEF TypeOK
<1>2. request(c, docVersion[c], data[c], 0) \in PutRecord
  BY <1>1, RequestType
<1>3. QED
  BY <1>2 DEF TypeOK, flush

LEMMA NextType == ASSUME TypeOK, [Next]_vars PROVE TypeOK'
<1> USE DocSyncAssumption
<1>1. ASSUME NEW c \in Client, NEW m \in Mut, mutate(c, m) PROVE TypeOK'
  <2>1. data' \in [Client -> Doc]
    BY <1>1 DEF TypeOK, mutate, Doc
  <2>2. pending' \in [Client -> Seq(Mut)]
    BY <1>1 DEF TypeOK, mutate
  <2>3. QED
    BY <1>1, <2>1, <2>2 DEF TypeOK, mutate, server, bounds
<1>2. ASSUME NEW c \in Client, SaveTimer(c) PROVE TypeOK'
  BY <1>2, FlushType DEF TypeOK, SaveTimer, server, store, bounds
<1>3. ASSUME NEW c \in Client, RetryTimer(c) PROVE TypeOK'
  BY <1>3, FlushType DEF TypeOK, RetryTimer, server, store, bounds
<1>4. ASSUME NEW c \in Client, FlushNow(c) PROVE TypeOK'
  BY <1>4, FlushType DEF TypeOK, FlushNow, server, store, bounds
<1>5. ASSUME NEW c \in Client, PutState(c) PROVE TypeOK'
  <2>1. doc' \in Doc /\ version' \in Nat
    <3>1. put[c].doc \in Doc
      BY DEF TypeOK, PutRecord
    <3>2. QED
      BY <1>5, <3>1, PreserveType DEF TypeOK, PutState, saveHousehold, server
  <2>2. put' \in [Client -> PutRecord]
    BY <1>5, DocTypes, AnswerType DEF TypeOK, PutState
  <2>3. QED
    BY <1>5, <2>1, <2>2 DEF TypeOK, PutState, store, timers, bounds
<1>6. ASSUME NEW c \in Client, SaveOk(c) PROVE TypeOK'
  <2>1. pending' \in [Client -> Seq(Mut)]
    <3>1. pending[c] \in Seq(Mut) /\ put[c].sent \in Nat
      BY DEF TypeOK, PutRecord
    <3>2. QED
      BY <1>6, <3>1, DropType DEF TypeOK, SaveOk
  <2>2. acked' \subseteq Mut
    BY <1>6 DEF TypeOK, SaveOk
  <2>3. cached' \in [Client -> Copy]
    BY <1>6 DEF TypeOK, SaveOk, Copy, PutRecord
  <2>4. put' \in [Client -> PutRecord]
    BY <1>6, DocTypes DEF TypeOK, SaveOk
  <2>5. QED
    BY <1>6, <2>1, <2>2, <2>3, <2>4 DEF TypeOK, SaveOk, server, PutRecord, bounds
<1>7. ASSUME NEW c \in Client, SaveConflict(c) PROVE TypeOK'
  <2>1. data' \in [Client -> Doc] /\ docVersion' \in [Client -> Nat]
    BY <1>7, DocTypes DEF TypeOK, SaveConflict, applyConflict, PutRecord
  <2>2. put' \in [Client -> PutRecord]
    <3>1. put[c].doc \in Doc /\ put[c].ver \in Nat /\ put[c].essai + 1 \in Nat
      BY DEF TypeOK, PutRecord
    <3>2. request(c, put[c].ver, rebase(put[c].doc, pending[c]), put[c].essai + 1) \in PutRecord
      <4>1. rebase(put[c].doc, pending[c]) \in Doc
        BY <3>1, DocTypes DEF TypeOK
      <4>2. QED
        BY <3>1, <4>1, RequestType
    <3>3. QED
      BY <1>7, <3>2, DocTypes DEF TypeOK, SaveConflict, failSave
  <2>3. QED
    BY <1>7, <2>1, <2>2 DEF TypeOK, SaveConflict, failSave, server, bounds
<1>8. ASSUME NEW c \in Client, SaveRefused(c) PROVE TypeOK'
  BY <1>8, DocTypes DEF TypeOK, SaveRefused, failSave, server, store, bounds
<1>9. ASSUME NEW c \in Client, SaveFails(c) PROVE TypeOK'
  <2>1. stray' \subseteq Copy
    BY <1>9 DEF TypeOK, SaveFails, Copy, PutRecord
  <2>2. QED
    BY <1>9, <2>1, DocTypes DEF TypeOK, SaveFails, failSave, server, store, bounds
<1>10. ASSUME NEW c \in Client, RefreshAsk(c) PROVE TypeOK'
  BY <1>10, DocTypes DEF TypeOK, RefreshAsk, server, store, timers, bounds
<1>11. ASSUME NEW c \in Client, GetState(c) PROVE TypeOK'
  BY <1>11 DEF TypeOK, GetState, server, store, timers, bounds, ReadRecord
<1>12. ASSUME NEW c \in Client, RefreshAnswer(c) PROVE TypeOK'
  <2>1. rebase(read[c].doc, pending[c]) \in Doc /\ read[c].ver \in Nat
    BY DocTypes DEF TypeOK, ReadRecord
  <2>2. data' \in [Client -> Doc] /\ docVersion' \in [Client -> Nat]
    BY <1>12, <2>1 DEF TypeOK, RefreshAnswer, applyConflict
  <2>3. QED
    BY <1>12, <2>2, DocTypes DEF TypeOK, RefreshAnswer, server, timers, bounds
<1>13. ASSUME NEW c \in Client, ReloadAsk(c) PROVE TypeOK'
  BY <1>13, DocTypes DEF TypeOK, ReloadAsk, server, store, timers, bounds
<1>14. ASSUME NEW c \in Client, LoadDocument(c) PROVE TypeOK'
  BY <1>14, DocTypes DEF TypeOK, LoadDocument, ReadRecord, server, timers, bounds
<1>15. ASSUME NEW c \in Client, LoadEnds(c) PROVE TypeOK'
  BY <1>15, DocTypes DEF TypeOK, LoadEnds, server, timers, Copy, bounds
<1>16. ASSUME NEW c \in Client, ReadFails(c) PROVE TypeOK'
  <2>1. cached[c].doc \in Doc /\ cached[c].ver \in Nat
    BY DEF TypeOK, Copy
  <2>2. data' \in [Client -> Doc] /\ docVersion' \in [Client -> Nat]
    BY <1>16, <2>1 DEF TypeOK, ReadFails, store
  <2>3. pending' \in [Client -> Seq(Mut)]
    <3>1. pending \in [Client -> Seq(Mut)] /\ <<>> \in Seq(Mut)
      BY DEF TypeOK
    <3>2. pending' = pending \/ pending' = [pending EXCEPT ![c] = <<>>]
      BY <1>16 DEF ReadFails, store
    <3>3. QED
      BY <3>1, <3>2
  <2>4. open' \in [Client -> BOOLEAN]
    BY <1>16 DEF TypeOK, ReadFails
  <2>5. QED
    BY <1>16, <2>2, <2>3, <2>4, DocTypes DEF TypeOK, ReadFails, server, timers, bounds
<1>17. ASSUME NEW c \in Client, Restart(c) PROVE TypeOK'
  <2>1. stray' \subseteq Copy
    BY <1>17 DEF TypeOK, Restart, Copy, PutRecord
  <2>2. QED
    BY <1>17, <2>1, DocTypes DEF TypeOK, Restart, server, bounds
<1>18. ASSUME NEW r \in stray, PutStray(r) PROVE TypeOK'
  <2>1. r.doc \in Doc
    BY <1>18 DEF TypeOK, Copy
  <2>2. doc' \in Doc /\ version' \in Nat
    BY <1>18, <2>1, PreserveType DEF TypeOK, PutStray, saveHousehold, server
  <2>3. QED
    BY <1>18, <2>2 DEF TypeOK, PutStray, store, timers, bounds
<1>19. ASSUME WriteDocByOps PROVE TypeOK'
  BY <1>19 DEF TypeOK, WriteDocByOps, store, timers, bounds
<1>20. CASE UNCHANGED vars
  BY <1>20 DEF TypeOK, vars
<1>21. QED
  BY <1>1, <1>2, <1>3, <1>4, <1>5, <1>6, <1>7, <1>8, <1>9, <1>10, <1>11, <1>12, <1>13,
     <1>14, <1>15, <1>16, <1>17, <1>18, <1>19, <1>20 DEF Next, Step

\* Every reachable state of the two sides of the document is well typed.
THEOREM TypeCorrect == Spec => []TypeOK
<1>1. Init => TypeOK
  BY InitType
<1>2. TypeOK /\ [Next]_vars => TypeOK'
  BY NextType
<1>3. QED
  BY <1>1, <1>2, PTL DEF Spec

-----------------------------------------------------------------------------
(***************************************************************************)
(* The inductive invariant.                                                *)
(***************************************************************************)

\* What a step may do to the row: nothing, or one more version that keeps
\* every effect.
Grows == \/ version' = version /\ doc' = doc
         \/ version' = version + 1 /\ Leq(doc, doc')

Untouched(c) ==
    /\ data'[c] = data[c]
    /\ docVersion'[c] = docVersion[c]
    /\ pending'[c] = pending[c]
    /\ put'[c] = put[c]
    /\ read'[c] = read[c]
    /\ open'[c] = open[c]
    /\ cached'[c] = cached[c]

\* A holder of a copy the step does not touch keeps its part of the invariant.
LEMMA Elsewhere ==
  ASSUME TypeOK, TypeOK', Grows, NEW c \in Client, Untouched(c), ClientInv(c)
  PROVE  ClientInv(c)'
<1> USE DEF Untouched, ClientInv
<1>1. /\ data[c] \in Doc /\ docVersion[c] \in Nat
      /\ cached[c].ver \in Nat /\ put[c].ver \in Nat /\ read[c].ver \in Nat
      /\ version \in Nat
  BY DEF TypeOK, Copy, PutRecord, ReadRecord
<1>2. CopiesHonest(c)'
  <2>1. CASE version' = version /\ doc' = doc
    BY <2>1 DEF CopiesHonest, Based
  <2>2. CASE version' = version + 1 /\ Leq(doc, doc')
    BY <1>1, <2>2 DEF CopiesHonest, Based
  <2>3. QED
    BY <2>1, <2>2 DEF Grows
<1>3. LoadApart(c)'
  BY DEF LoadApart, saving
<1>4. PendingCarried(c)'
  <2>1. \A m \in Mut : doc[m] >= 1 => doc'[m] >= 1
    BY DEF Grows, Leq, TypeOK, Doc
  <2>2. \A i \in 1..Len(pending[c]) : pending[c][i] \in Mut
    BY DEF TypeOK
  <2>3. QED
    BY <2>1, <2>2 DEF PendingCarried, saving
<1>5. QED
  BY <1>2, <1>3, <1>4

LEMMA StraysKept ==
  ASSUME TypeOK, TypeOK', Grows, StraysHonest, stray' \subseteq stray
  PROVE  StraysHonest'
<1>1. \A r \in stray : r.ver \in Nat /\ r.doc \in Doc
  BY DEF TypeOK, Copy
<1>2. QED
  BY <1>1 DEF StraysHonest, Based, Grows, TypeOK

LEMMA AckedStays ==
  ASSUME TypeOK, TypeOK', Grows, AckedKept, acked' = acked
  PROVE  AckedKept'
  BY DEF AckedKept, Grows, Leq, TypeOK, Doc

\* An accepted save: the document it carries contains the row it replaces.
LEMMA AcceptGrows ==
  ASSUME TypeOK, NEW v \in Nat, NEW d \in Doc, Based(v, d), accepts(v, d), saveHousehold(d)
  PROVE  Grows /\ Leq(doc', d)
<1>1. v = version /\ Leq(doc, d)
  BY DEF TypeOK, accepts, isUpToDate, Based
<1>2. doc \in Doc
  BY DEF TypeOK
<1>3. QED
  BY <1>1, <1>2 DEF saveHousehold, preserve, Grows, Leq, Doc

\* A step that leaves the row, the strays and the history alone: only the
\* client that takes it has to be looked at.
LEMMA LocalStep ==
  ASSUME TypeOK, TypeOK', DocInv, Grows, NEW c \in Client,
         \A e \in Client \ {c} : Untouched(e),
         stray' \subseteq stray, acked' = acked, ClientInv(c)'
  PROVE  DocInv'
<1>1. ASSUME NEW e \in Client PROVE ClientInv(e)'
  BY <1>1, Elsewhere DEF DocInv
<1>2. QED
  BY <1>1, StraysKept, AckedStays DEF DocInv

\* Replaying the pending changes puts each of them in the document, and
\* keeps the document they are replayed on.
LEMMA Replay ==
  ASSUME NEW d \in Doc, NEW q \in Seq(Mut)
  PROVE  /\ Leq(d, rebase(d, q))
         /\ \A i \in 1..Len(q) : rebase(d, q)[q[i]] >= 1
         /\ \A v \in Nat : Based(v, d) /\ doc \in Doc => Based(v, rebase(d, q))
<1>1. Leq(d, rebase(d, q))
  BY DEF Leq, rebase, Doc
<1>2. \A i \in 1..Len(q) : q[i] \in Mut /\ q[i] \in Members(q)
  BY DEF Members
<1>3. \A i \in 1..Len(q) : rebase(d, q)[q[i]] >= 1
  BY <1>2 DEF rebase, Doc
<1>4. \A v \in Nat : Based(v, d) /\ doc \in Doc => Based(v, rebase(d, q))
  BY <1>1 DEF Based, Leq, rebase, Doc
<1>5. QED
  BY <1>1, <1>3, <1>4

LEMMA InitInv == Init => DocInv
<1> SUFFICES ASSUME Init PROVE DocInv
  OBVIOUS
<1> USE DEF Init
<1>1. ASSUME NEW c \in Client PROVE ClientInv(c)
  BY <1>1 DEF ClientInv, CopiesHonest, LoadApart, PendingCarried, Based, Leq, saving,
              NoPut, NoRead, Reading, EmptyDoc
<1>2. QED
  BY <1>1 DEF DocInv, StraysHonest, AckedKept

\* A save leaves with what is on the screen.
LEMMA FlushInv ==
  ASSUME TypeOK, TypeOK', DocInv, NEW c \in Client, apart(c), ~RacingReload, flush(c),
         UNCHANGED <<server, store, stray, read, open, cached, acked>>
  PROVE  DocInv'
<1> USE DEF server, store
<1>1. CASE open[c] /\ ~saving(c)
  <2>1. put' = [put EXCEPT ![c] = request(c, docVersion[c], data[c], 0)]
    BY <1>1 DEF flush
  <2>2. put'[c] = request(c, docVersion[c], data[c], 0)
    BY <2>1 DEF TypeOK
  <2>3. ClientInv(c)
    BY DEF DocInv
  <2>4. CopiesHonest(c)'
    <3>1. data[c] \in Doc
      BY DEF TypeOK
    <3>2. Leq(data[c], data[c])
      BY <3>1 DEF Leq, Doc
    <3>3. QED
      BY <1>1, <2>2, <2>3, <3>2 DEF ClientInv, CopiesHonest, Based, request
  <2>5. read[c].kind # "load" /\ read[c].st # "me"
    BY <2>3 DEF apart, ClientInv, LoadApart
  <2>6. LoadApart(c)'
    BY <2>3, <2>5 DEF ClientInv, LoadApart
  <2>7. PendingCarried(c)'
    <3>1. Len(pending[c]) \in Nat
      BY DEF TypeOK
    <3>2. QED
      BY <2>2, <2>3, <2>5, <3>1 DEF ClientInv, PendingCarried, request, saving
  <2>8. \A e \in Client \ {c} : Untouched(e)
    BY <2>1 DEF Untouched, TypeOK
  <2>9. QED
    BY <2>4, <2>6, <2>7, <2>8, LocalStep DEF ClientInv, Grows
<1>2. CASE ~(open[c] /\ ~saving(c))
  <2>1. put' = put
    BY <1>2 DEF flush
  <2>2. \A e \in Client : Untouched(e)
    BY <2>1 DEF Untouched
  <2>3. ClientInv(c)'
    BY <2>2, Elsewhere DEF DocInv, Grows
  <2>4. QED
    BY <2>2, <2>3, LocalStep DEF Grows
<1>3. QED
  BY <1>1, <1>2

\* The server answers a save: the only step where a document replaces the row.
LEMMA PutStateInv ==
  ASSUME TypeOK, TypeOK', DocInv, NEW c \in Client, PutState(c)
  PROVE  DocInv' /\ Grows
<1> USE DEF server, store
<1>1. put[c].st = "req" /\ put[c].doc \in Doc /\ put[c].ver \in Nat /\ version \in Nat
      /\ put[c].sent \in Nat
  BY DEF PutState, TypeOK, PutRecord
<1>2. ClientInv(c)
  BY DEF DocInv
<1>3. \A e \in Client \ {c} : Untouched(e)
  BY DEF PutState, answer, Untouched, TypeOK
<1>4. /\ data'[c] = data[c] /\ docVersion'[c] = docVersion[c] /\ pending'[c] = pending[c]
      /\ read'[c] = read[c] /\ open'[c] = open[c] /\ cached'[c] = cached[c]
  BY DEF PutState
<1>5. CASE ~isUpToDate(put[c].ver) /\ answer(c, "conflict", version, doc) /\ UNCHANGED server
  <2>1. put'[c] = [st |-> "conflict", ver |-> version, doc |-> doc,
                   sent |-> put[c].sent, essai |-> put[c].essai]
    BY <1>5 DEF answer, TypeOK
  <2>2. Leq(doc, doc)
    BY DEF TypeOK, Doc, Leq
  <2>3. CopiesHonest(c)'
    BY <1>1, <1>2, <1>4, <1>5, <2>1, <2>2 DEF ClientInv, CopiesHonest, Based
  <2>4. LoadApart(c)' /\ PendingCarried(c)'
    BY <1>1, <1>2, <1>4, <2>1 DEF ClientInv, LoadApart, PendingCarried, saving
  <2>5. QED
    BY <1>3, <1>5, <2>3, <2>4, LocalStep DEF ClientInv, Grows, PutState
<1>6. CASE answer(c, "refused", 0, EmptyDoc) /\ UNCHANGED server
  <2>1. put'[c] = [st |-> "refused", ver |-> 0, doc |-> EmptyDoc,
                   sent |-> put[c].sent, essai |-> put[c].essai]
    BY <1>6 DEF answer, TypeOK
  <2>2. CopiesHonest(c)'
    BY <1>2, <1>4, <1>6, <2>1 DEF ClientInv, CopiesHonest, Based
  <2>3. LoadApart(c)' /\ PendingCarried(c)'
    BY <1>1, <1>2, <1>4, <2>1 DEF ClientInv, LoadApart, PendingCarried, saving
  <2>4. QED
    BY <1>3, <1>6, <2>2, <2>3, LocalStep DEF ClientInv, Grows, PutState
<1>7. CASE accepts(put[c].ver, put[c].doc) /\ saveHousehold(put[c].doc)
           /\ answer(c, "ok", version + 1, EmptyDoc)
  <2>1. put'[c] = [st |-> "ok", ver |-> version + 1, doc |-> EmptyDoc,
                   sent |-> put[c].sent, essai |-> put[c].essai]
    BY <1>7 DEF answer, TypeOK
  <2>2. Based(put[c].ver, put[c].doc) /\ Leq(put[c].doc, data[c])
    BY <1>1, <1>2 DEF ClientInv, CopiesHonest
  <2>3. Grows /\ Leq(doc', put[c].doc)
    BY <1>1, <1>7, <2>2, AcceptGrows
  <2>4. Leq(doc', data[c])
    BY <1>1, <2>2, <2>3 DEF Leq, TypeOK, Doc
  <2>5. version' = version + 1
    BY <1>7 DEF saveHousehold
  <2>6. CopiesHonest(c)'
    <3>1. docVersion[c] \in Nat /\ cached[c].ver \in Nat /\ read[c].ver \in Nat
      BY DEF TypeOK, Copy, ReadRecord
    <3>2. QED
      BY <1>1, <1>2, <1>4, <2>1, <2>4, <2>5, <3>1 DEF ClientInv, CopiesHonest, Based
  <2>7. LoadApart(c)'
    BY <1>1, <1>2, <1>4, <2>1 DEF ClientInv, LoadApart, saving
  <2>8. PendingCarried(c)'
    <3>1. \A m \in Mut \ Frozen : doc'[m] = put[c].doc[m]
      BY <1>7 DEF saveHousehold, preserve
    <3>2. \A i \in 1..Len(pending[c]) : pending[c][i] \in Mut
      BY DEF TypeOK
    <3>3. QED
      BY <1>1, <1>2, <1>4, <2>1, <3>1, <3>2 DEF ClientInv, PendingCarried, saving
  <2>9. QED
    BY <1>3, <2>3, <2>6, <2>7, <2>8, LocalStep DEF ClientInv, PutState
<1>8. QED
  BY <1>5, <1>6, <1>7 DEF PutState

LEMMA PutStrayInv ==
  ASSUME TypeOK, TypeOK', DocInv, NEW r \in stray, PutStray(r)
  PROVE  DocInv' /\ Grows
<1>1. Grows
  <2>1. r.ver \in Nat /\ r.doc \in Doc /\ Based(r.ver, r.doc)
    BY DEF TypeOK, Copy, DocInv, StraysHonest
  <2>2. QED
    BY <2>1, AcceptGrows DEF PutStray, Grows, server
<1>2. \A c \in Client : Untouched(c)
  BY DEF PutStray, Untouched, store
<1>3. \A c \in Client : ClientInv(c)'
  BY <1>1, <1>2, Elsewhere DEF DocInv
<1>4. QED
  BY <1>1, <1>3, StraysKept, AckedStays DEF DocInv, PutStray

LEMMA OpsInv ==
  ASSUME TypeOK, TypeOK', DocInv, WriteDocByOps
  PROVE  DocInv' /\ Grows
<1>1. Grows
  BY DEF WriteDocByOps, Grows, Leq, TypeOK, Doc
<1>2. \A c \in Client : Untouched(c)
  BY DEF WriteDocByOps, Untouched, store
<1>3. \A c \in Client : ClientInv(c)'
  BY <1>1, <1>2, Elsewhere DEF DocInv
<1>4. QED
  BY <1>1, <1>3, StraysKept, AckedStays DEF DocInv, WriteDocByOps

LEMMA MutateInv ==
  ASSUME TypeOK, TypeOK', DocInv, NEW c \in Client, NEW m \in Mut, mutate(c, m)
  PROVE  DocInv'
<1> USE DEF server
<1>1. ClientInv(c) /\ data[c] \in Doc /\ pending[c] \in Seq(Mut) /\ put[c] \in PutRecord
  BY DEF DocInv, TypeOK
<1>2. /\ data'[c] = [data[c] EXCEPT ![m] = data[c][m] + 1]
      /\ pending'[c] = Append(pending[c], m)
      /\ docVersion'[c] = docVersion[c] /\ put'[c] = put[c] /\ read'[c] = read[c]
      /\ open'[c] = open[c] /\ cached'[c] = cached[c]
  BY DEF mutate, TypeOK
<1>3. data'[c] \in Doc /\ \A x \in Mut : data[c][x] <= data'[c][x] /\ data'[c][m] >= 1
  BY <1>1, <1>2 DEF Doc
<1>4. \A d \in Doc : Leq(d, data[c]) => Leq(d, data'[c])
  BY <1>1, <1>3 DEF Leq, Doc
<1>5. doc \in Doc /\ put[c].doc \in Doc /\ put[c].sent \in Nat
  BY <1>1 DEF TypeOK, PutRecord
<1>6. CopiesHonest(c)'
  BY <1>1, <1>2, <1>4, <1>5 DEF ClientInv, CopiesHonest, Based, mutate
<1>7. LoadApart(c)'
  BY <1>1, <1>2 DEF ClientInv, LoadApart, saving
<1>8. PendingCarried(c)'
  <2>1. /\ Len(pending'[c]) = Len(pending[c]) + 1
        /\ pending'[c][Len(pending[c]) + 1] = m
        /\ \A i \in 1..Len(pending[c]) : pending'[c][i] = pending[c][i] /\ pending[c][i] \in Mut
    BY <1>1, <1>2
  <2>2. Len(pending[c]) \in Nat
    BY <1>1
  <2>3. saving(c) => put[c].sent <= Len(pending[c])
    BY <1>1 DEF ClientInv, PendingCarried
  <2>4. (saving(c) => put[c].sent <= Len(pending[c]))'
    BY <1>2, <1>5, <2>1, <2>2, <2>3 DEF saving
  <2>5. ASSUME NEW i \in 1..(Len(pending[c]) + 1)
        PROVE  (/\ read[c].st # "me" => data[c][pending[c][i]] >= 1
                /\ i <= put[c].sent =>
                    /\ put[c].st = "req" => put[c].doc[pending[c][i]] >= 1
                    /\ put[c].st = "ok" /\ pending[c][i] \notin Frozen
                         => doc[pending[c][i]] >= 1)'
    <3>1. CASE i = Len(pending[c]) + 1
      BY <1>2, <1>3, <1>5, <2>1, <2>2, <2>3, <3>1 DEF saving
    <3>2. CASE i \in 1..Len(pending[c])
      <4>1. doc' = doc
        BY DEF mutate
      <4>2. data[c][pending[c][i]] \in Nat /\ data'[c][pending[c][i]] \in Nat
        BY <1>1, <1>3, <2>1, <3>2 DEF Doc
      <4>3. QED
        BY <1>1, <1>2, <1>3, <2>1, <3>2, <4>1, <4>2 DEF ClientInv, PendingCarried
    <3>3. QED
      BY <2>2, <3>1, <3>2
  <2>6. QED
    BY <2>1, <2>4, <2>5 DEF PendingCarried
<1>9. \A e \in Client \ {c} : Untouched(e)
  BY DEF mutate, Untouched, TypeOK
<1>10. QED
  BY <1>6, <1>7, <1>8, <1>9, LocalStep DEF ClientInv, Grows, mutate

\* A successful save: what it carried is acknowledged, the rest of the queue
\* moves up.
LEMMA SaveOkInv ==
  ASSUME TypeOK, TypeOK', DocInv, NEW c \in Client, SaveOk(c)
  PROVE  DocInv'
<1> USE DEF server
<1> DEFINE n == put[c].sent
<1>1. /\ ClientInv(c) /\ pending[c] \in Seq(Mut) /\ n \in Nat /\ put[c].st = "ok"
      /\ n <= Len(pending[c])
  BY DEF DocInv, TypeOK, PutRecord, SaveOk, ClientInv, PendingCarried, saving
<1>2. /\ pending'[c] = SubSeq(pending[c], n + 1, Len(pending[c]))
      /\ docVersion'[c] = put[c].ver /\ put'[c] = NoPut
      /\ cached'[c] = [ver |-> put[c].ver, doc |-> data[c]]
      /\ data'[c] = data[c] /\ read'[c] = read[c] /\ open'[c] = open[c]
  BY DEF SaveOk, TypeOK
<1>3. CopiesHonest(c)'
  BY <1>1, <1>2 DEF ClientInv, CopiesHonest, Based, SaveOk, NoPut
<1>4. LoadApart(c)'
  BY <1>1, <1>2 DEF ClientInv, LoadApart, saving, NoPut
<1>5. PendingCarried(c)'
  <2>1. \A i \in 1..Len(pending'[c]) : /\ i + n \in 1..Len(pending[c])
                                       /\ pending'[c][i] = pending[c][i + n]
    <3>1. Len(pending'[c]) = Len(pending[c]) - n
      BY <1>1, <1>2, DropType
    <3>2. \A i \in 1..Len(pending'[c]) : pending'[c][i] = pending[c][i + n]
      BY <1>1, <1>2, DropType
    <3>3. Len(pending[c]) \in Nat
      BY <1>1
    <3>4. QED
      BY <1>1, <3>1, <3>2, <3>3
  <2>2. \A i \in 1..Len(pending[c]) : read[c].st # "me" => data[c][pending[c][i]] >= 1
    BY <1>1 DEF ClientInv, PendingCarried
  <2>3. \A i \in 1..Len(pending'[c]) : read[c].st # "me" => data[c][pending'[c][i]] >= 1
    BY <2>1, <2>2
  <2>4. put'[c].st = "none" /\ put'[c].sent = 0
    BY <1>2 DEF NoPut
  <2>5. \A i \in 1..Len(pending'[c]) : ~(i <= put'[c].sent)
    BY <2>4
  <2>6. QED
    BY <1>2, <2>3, <2>4, <2>5 DEF PendingCarried, saving
<1>6. \A e \in Client : ClientInv(e)'
  <2>1. \A e \in Client \ {c} : Untouched(e)
    BY DEF SaveOk, Untouched, TypeOK
  <2>2. QED
    BY <1>3, <1>4, <1>5, <2>1, Elsewhere DEF ClientInv, Grows, SaveOk, DocInv
<1>7. AckedKept'
  BY <1>1 DEF SaveOk, AckedKept, DocInv, ClientInv, PendingCarried
<1>8. QED
  BY <1>6, <1>7, StraysKept DEF DocInv, Grows, SaveOk

\* 409: the document the server returned, and the pending changes again.
LEMMA SaveConflictInv ==
  ASSUME TypeOK, TypeOK', DocInv, NEW c \in Client, SaveConflict(c)
  PROVE  DocInv'
<1> USE DEF server
<1> DEFINE d == rebase(put[c].doc, pending[c])
<1>1. /\ ClientInv(c) /\ pending[c] \in Seq(Mut) /\ put[c].st = "conflict"
      /\ put[c].doc \in Doc /\ put[c].ver \in Nat /\ doc \in Doc
  BY DEF DocInv, TypeOK, PutRecord, SaveConflict
<1>2. Based(put[c].ver, put[c].doc)
  BY <1>1 DEF ClientInv, CopiesHonest
<1>3. /\ Based(put[c].ver, d) /\ d \in Doc
      /\ \A i \in 1..Len(pending[c]) : d[pending[c][i]] >= 1
  BY <1>1, <1>2, Replay, DocTypes
<1>4. /\ docVersion'[c] = put[c].ver /\ data'[c] = d /\ pending'[c] = pending[c]
      /\ read'[c] = read[c] /\ open'[c] = open[c] /\ cached'[c] = cached[c]
  BY DEF SaveConflict, applyConflict, TypeOK
<1>5. Leq(d, d)
  BY <1>3 DEF Leq, Doc
<1>6. put'[c] = NoPut \/ put'[c] = request(c, put[c].ver, d, put[c].essai + 1)
  BY DEF SaveConflict, failSave, TypeOK
<1>7. version' = version /\ doc' = doc
  BY DEF SaveConflict
<1>8. CopiesHonest(c)'
  BY <1>1, <1>3, <1>4, <1>5, <1>6, <1>7 DEF ClientInv, CopiesHonest, Based, NoPut, request
<1>9. LoadApart(c)'
  BY <1>1, <1>4 DEF ClientInv, LoadApart, saving
<1>10. PendingCarried(c)'
  <2>1. Len(pending[c]) \in Nat
    BY <1>1
  <2>2. QED
    BY <1>3, <1>4, <1>6, <2>1 DEF PendingCarried, NoPut, request, saving
<1>11. \A e \in Client \ {c} : Untouched(e)
  BY DEF SaveConflict, applyConflict, failSave, Untouched, TypeOK
<1>12. QED
  BY <1>7, <1>8, <1>9, <1>10, <1>11, LocalStep DEF ClientInv, Grows, SaveConflict

\* A save given up: nothing of the client's copies moves, and the request
\* that may still arrive is as honest as it was.
LEMMA DropPutInv ==
  ASSUME TypeOK, TypeOK', DocInv, NEW c \in Client, put' = [put EXCEPT ![c] = NoPut],
         stray' \subseteq stray \union
             {[ver |-> put[e].ver, doc |-> put[e].doc] : e \in {x \in {c} : put[x].st = "req"}},
         UNCHANGED <<server, store, read, open, cached, acked>>
  PROVE  DocInv'
<1> USE DEF server, store
<1>1. ClientInv(c) /\ put'[c] = NoPut
  BY DEF DocInv, TypeOK
<1>2. CopiesHonest(c)'
  BY <1>1 DEF ClientInv, CopiesHonest, Based, NoPut
<1>3. LoadApart(c)' /\ PendingCarried(c)'
  <2>1. NoPut.st = "none" /\ NoPut.sent = 0
    BY DEF NoPut
  <2>2. \A i \in 1..Len(pending[c]) : ~(i <= NoPut.sent)
    BY <2>1
  <2>3. QED
    BY <1>1, <2>1, <2>2 DEF ClientInv, LoadApart, PendingCarried, saving
<1>4. \A e \in Client \ {c} : Untouched(e)
  BY DEF Untouched, TypeOK
<1>5. \A e \in Client : ClientInv(e)'
  BY <1>2, <1>3, <1>4, Elsewhere DEF ClientInv, Grows, DocInv
<1>6. StraysHonest'
  <2>1. put[c].st = "req" => Based(put[c].ver, put[c].doc)
    BY <1>1 DEF ClientInv, CopiesHonest
  <2>2. \A r \in stray' : r \in stray \/ (/\ put[c].st = "req"
                                         /\ r.ver = put[c].ver /\ r.doc = put[c].doc)
    OBVIOUS
  <2>3. QED
    BY <2>1, <2>2 DEF StraysHonest, DocInv, Based
<1>7. QED
  BY <1>5, <1>6, AckedStays DEF DocInv, Grows

LEMMA SaveEndsInv ==
  ASSUME TypeOK, TypeOK', DocInv, NEW c \in Client, SaveRefused(c) \/ SaveFails(c)
  PROVE  DocInv'
<1>1. /\ put' = [put EXCEPT ![c] = NoPut]
      /\ UNCHANGED <<server, store, read, open, cached, acked>>
  BY DEF SaveRefused, SaveFails, failSave
<1>2. stray' \subseteq stray \union
             {[ver |-> put[e].ver, doc |-> put[e].doc] : e \in {x \in {c} : put[x].st = "req"}}
  BY DEF SaveRefused, SaveFails
<1>3. QED
  BY <1>1, <1>2, DropPutInv

\* Steps that only move the GET in flight.
LEMMA ReadInv ==
  ASSUME TypeOK, TypeOK', DocInv, ~RacingReload, NEW c \in Client,
         RefreshAsk(c) \/ GetState(c) \/ ReloadAsk(c)
  PROVE  DocInv'
<1> USE DEF server, store
<1>1. ClientInv(c) /\ read[c] \in ReadRecord /\ doc \in Doc
  BY DEF DocInv, TypeOK
<1>2. UNCHANGED <<version, doc, data, docVersion, pending, put, stray, open, cached, acked>>
  BY DEF RefreshAsk, GetState, ReloadAsk
<1>3. Leq(doc, doc)
  BY <1>1 DEF Leq, Doc
<1>4. /\ read'[c].st # "me" /\ read[c].st # "me"
      /\ read'[c].st = "answered" => read'[c].ver = version /\ read'[c].doc = doc
      /\ read'[c].kind = "load" => ~saving(c)
      /\ ~open[c] => read'[c].kind = "load"
  <2>1. CASE RefreshAsk(c)
    BY <2>1 DEF RefreshAsk, Reading, NoRead, TypeOK
  <2>2. CASE GetState(c)
    BY <1>1, <2>2 DEF GetState, TypeOK, ClientInv, LoadApart
  <2>3. CASE ReloadAsk(c)
    BY <2>3 DEF ReloadAsk, Reading, NoRead, TypeOK
  <2>4. QED
    BY <2>1, <2>2, <2>3
<1>5. CopiesHonest(c)'
  BY <1>1, <1>2, <1>3, <1>4 DEF ClientInv, CopiesHonest, Based, TypeOK
<1>6. LoadApart(c)'
  BY <1>1, <1>2, <1>4 DEF LoadApart, saving
<1>7. PendingCarried(c)'
  BY <1>1, <1>2, <1>4 DEF ClientInv, PendingCarried, saving
<1>8. \A e \in Client \ {c} : Untouched(e)
  BY <1>2 DEF RefreshAsk, GetState, ReloadAsk, Untouched, TypeOK
<1>9. QED
  BY <1>2, <1>5, <1>6, <1>7, <1>8, LocalStep DEF ClientInv, Grows

LEMMA RefreshAnswerInv ==
  ASSUME TypeOK, TypeOK', DocInv, NEW c \in Client, RefreshAnswer(c)
  PROVE  DocInv'
<1> USE DEF server
<1> DEFINE d == rebase(read[c].doc, pending[c])
<1>1. /\ ClientInv(c) /\ pending[c] \in Seq(Mut) /\ read[c].doc \in Doc
      /\ read[c].ver \in Nat /\ doc \in Doc
      /\ read[c].kind = "refresh" /\ read[c].st = "answered"
  BY DEF DocInv, TypeOK, ReadRecord, RefreshAnswer
<1>2. /\ Based(read[c].ver, d) /\ d \in Doc
      /\ \A i \in 1..Len(pending[c]) : d[pending[c][i]] >= 1
  BY <1>1, Replay, DocTypes DEF ClientInv, CopiesHonest
<1>3. UNCHANGED <<version, doc, pending, put, stray, open, cached, acked>> /\ read'[c] = NoRead
  BY DEF RefreshAnswer, TypeOK
<1>4. NoRead.st = "none" /\ NoRead.kind = "none"
  BY DEF NoRead, Reading
<1>5. \/ data'[c] = data[c] /\ docVersion'[c] = docVersion[c]
      \/ data'[c] = d /\ docVersion'[c] = read[c].ver /\ ~saving(c)
  BY DEF RefreshAnswer, applyConflict, TypeOK
<1>6. open[c]
  BY <1>1 DEF ClientInv, LoadApart
<1>7. CopiesHonest(c)'
  BY <1>1, <1>2, <1>3, <1>4, <1>5, <1>6 DEF ClientInv, CopiesHonest, Based, saving
<1>8. LoadApart(c)'
  BY <1>3, <1>4, <1>6 DEF LoadApart
<1>9. PendingCarried(c)'
  BY <1>1, <1>2, <1>3, <1>4, <1>5 DEF ClientInv, PendingCarried, saving
<1>10. \A e \in Client \ {c} : Untouched(e)
  BY <1>3 DEF RefreshAnswer, applyConflict, Untouched, TypeOK
<1>11. QED
  BY <1>3, <1>7, <1>8, <1>9, <1>10, LocalStep DEF ClientInv, Grows

\* A full reload, in its two halves.
LEMMA LoadInv ==
  ASSUME TypeOK, TypeOK', DocInv, NEW c \in Client, LoadDocument(c) \/ LoadEnds(c)
  PROVE  DocInv'
<1> USE DEF server
<1>1. /\ ClientInv(c) /\ read[c].kind = "load" /\ ~saving(c) /\ put[c].st = "none"
      /\ version \in Nat /\ doc \in Doc
  BY DEF DocInv, TypeOK, LoadDocument, LoadEnds, ClientInv, LoadApart, saving
<1>2. UNCHANGED <<version, doc, put, stray, acked>>
  BY DEF LoadDocument, LoadEnds
<1>3. CopiesHonest(c)' /\ LoadApart(c)' /\ PendingCarried(c)'
  <2>1. CASE LoadDocument(c)
    <3>1. /\ data'[c] = read[c].doc /\ docVersion'[c] = read[c].ver
          /\ read'[c] = Reading("load", "me") /\ open'[c] = open[c]
          /\ cached'[c] = cached[c] /\ pending'[c] = pending[c]
      BY <2>1 DEF LoadDocument, TypeOK
    <3>2. Based(read[c].ver, read[c].doc)
      BY <1>1, <2>1 DEF LoadDocument, ClientInv, CopiesHonest
    <3>3. CopiesHonest(c)'
      BY <1>1, <1>2, <3>1, <3>2 DEF ClientInv, CopiesHonest, Based, Reading
    <3>4. LoadApart(c)'
      BY <1>1, <1>2, <3>1 DEF LoadApart, saving, Reading
    <3>5. PendingCarried(c)'
      BY <1>1, <1>2, <3>1 DEF PendingCarried, saving, Reading
    <3>6. QED
      BY <3>3, <3>4, <3>5
  <2>2. CASE LoadEnds(c)
    <3>1. /\ data'[c] = data[c] /\ docVersion'[c] = docVersion[c]
          /\ read'[c] = NoRead /\ open'[c] = TRUE /\ pending'[c] = <<>>
          /\ cached'[c] = [ver |-> docVersion[c], doc |-> data[c]]
      BY <2>2 DEF LoadEnds, TypeOK
    <3>2. Based(docVersion[c], data[c])
      BY <1>1, <2>2 DEF LoadEnds, ClientInv, CopiesHonest
    <3>3. CopiesHonest(c)'
      BY <1>1, <1>2, <3>1, <3>2 DEF CopiesHonest, Based, NoRead, Reading
    <3>4. LoadApart(c)'
      BY <3>1 DEF LoadApart, NoRead, Reading
    <3>5. PendingCarried(c)'
      BY <1>1, <1>2, <3>1 DEF PendingCarried, saving
    <3>6. QED
      BY <3>3, <3>4, <3>5
  <2>3. QED
    BY <2>1, <2>2
<1>4. \A e \in Client \ {c} : Untouched(e)
  BY DEF LoadDocument, LoadEnds, Untouched, TypeOK
<1>5. QED
  BY <1>2, <1>3, <1>4, LocalStep DEF ClientInv, Grows

LEMMA ReadFailsInv ==
  ASSUME TypeOK, TypeOK', DocInv, NEW c \in Client, ReadFails(c)
  PROVE  DocInv'
<1> USE DEF server
<1>1. /\ ClientInv(c) /\ version \in Nat /\ doc \in Doc
      /\ read[c].st # "me" /\ Based(cached[c].ver, cached[c].doc)
  BY DEF DocInv, TypeOK, ReadFails, ClientInv, CopiesHonest
<1>2. UNCHANGED <<version, doc, put, stray, acked, cached>> /\ read'[c] = NoRead
  BY DEF ReadFails, TypeOK
<1>3. NoRead.st = "none" /\ NoRead.kind = "none"
  BY DEF NoRead, Reading
<1>4. open'[c]
  BY DEF ReadFails, TypeOK
<1>5. ASSUME open[c] PROVE ClientInv(c)'
  <2>1. /\ data'[c] = data[c] /\ docVersion'[c] = docVersion[c] /\ pending'[c] = pending[c]
    BY <1>5 DEF ReadFails, store
  <2>2. CopiesHonest(c)' /\ LoadApart(c)' /\ PendingCarried(c)'
    BY <1>1, <1>2, <1>3, <1>4, <1>5, <2>1
       DEF ClientInv, CopiesHonest, LoadApart, PendingCarried, saving, Based
  <2>3. QED
    BY <2>2 DEF ClientInv
<1>6. ASSUME ~open[c] PROVE ClientInv(c)'
  <2>1. /\ data'[c] = cached[c].doc /\ docVersion'[c] = cached[c].ver /\ pending'[c] = <<>>
    BY <1>6 DEF ReadFails, TypeOK
  <2>2. put[c].st = "none"
    BY <1>1, <1>6 DEF ClientInv, LoadApart, saving
  <2>3. CopiesHonest(c)'
    BY <1>1, <1>2, <1>3, <2>1, <2>2 DEF CopiesHonest, Based
  <2>4. LoadApart(c)' /\ PendingCarried(c)'
    BY <1>2, <1>3, <1>4, <2>1, <2>2 DEF LoadApart, PendingCarried, saving
  <2>5. QED
    BY <2>3, <2>4 DEF ClientInv
<1>7. \A e \in Client \ {c} : Untouched(e)
  BY DEF ReadFails, store, Untouched, TypeOK
<1>8. QED
  BY <1>2, <1>5, <1>6, <1>7, LocalStep DEF Grows

LEMMA RestartInv ==
  ASSUME TypeOK, TypeOK', DocInv, NEW c \in Client, Restart(c)
  PROVE  DocInv'
<1> USE DEF server
<1>1. ClientInv(c) /\ Based(cached[c].ver, cached[c].doc)
  BY DEF DocInv, ClientInv, CopiesHonest
<1>2. /\ put'[c] = NoPut /\ read'[c] = Reading("load", "asked") /\ ~open'[c]
      /\ pending'[c] = <<>> /\ UNCHANGED <<version, doc, cached, acked>>
  BY DEF Restart, TypeOK
<1>3. CopiesHonest(c)'
  BY <1>1, <1>2 DEF CopiesHonest, Based, NoPut, Reading
<1>4. LoadApart(c)' /\ PendingCarried(c)'
  BY <1>2 DEF LoadApart, PendingCarried, saving, NoPut, Reading
<1>5. \A e \in Client \ {c} : Untouched(e)
  BY DEF Restart, Untouched, TypeOK
<1>6. \A e \in Client : ClientInv(e)'
  BY <1>2, <1>3, <1>4, <1>5, Elsewhere DEF ClientInv, Grows, DocInv
<1>7. StraysHonest'
  <2>1. put[c].st = "req" => Based(put[c].ver, put[c].doc)
    BY <1>1 DEF ClientInv, CopiesHonest
  <2>2. \A r \in stray' : r \in stray \/ (/\ put[c].st = "req"
                                         /\ r.ver = put[c].ver /\ r.doc = put[c].doc)
    BY DEF Restart
  <2>3. QED
    BY <1>2, <2>1, <2>2 DEF StraysHonest, DocInv, Based
<1>8. QED
  BY <1>2, <1>6, <1>7, AckedStays DEF DocInv, Grows

LEMMA NextInv ==
  ASSUME TypeOK, DocInv, ~RacingReload, [Next]_vars
  PROVE  DocInv' /\ Leq(doc, doc')
<1>1. TypeOK'
  BY NextType
<1>2. doc \in Doc /\ Leq(doc, doc) /\ (Grows => Leq(doc, doc'))
  BY DEF TypeOK, Leq, Doc, Grows
<1>3. ASSUME NEW c \in Client, Step(c) PROVE DocInv' /\ Leq(doc, doc')
  <2>1. ASSUME NEW m \in Mut, mutate(c, m) PROVE DocInv' /\ Leq(doc, doc')
    BY <1>1, <1>2, <2>1, MutateInv DEF mutate, server
  <2>2. CASE SaveTimer(c) \/ RetryTimer(c) \/ FlushNow(c)
    BY <1>1, <1>2, <2>2, FlushInv DEF SaveTimer, RetryTimer, FlushNow, server
  <2>3. CASE PutState(c)
    BY <1>1, <1>2, <2>3, PutStateInv
  <2>4. CASE SaveOk(c)
    BY <1>1, <1>2, <2>4, SaveOkInv DEF SaveOk, server
  <2>5. CASE SaveConflict(c)
    BY <1>1, <1>2, <2>5, SaveConflictInv DEF SaveConflict, server
  <2>6. CASE SaveRefused(c) \/ SaveFails(c)
    BY <1>1, <1>2, <2>6, SaveEndsInv DEF SaveRefused, SaveFails, server
  <2>7. CASE RefreshAsk(c) \/ GetState(c) \/ ReloadAsk(c)
    BY <1>1, <1>2, <2>7, ReadInv DEF RefreshAsk, GetState, ReloadAsk, server
  <2>8. CASE RefreshAnswer(c)
    BY <1>1, <1>2, <2>8, RefreshAnswerInv DEF RefreshAnswer, server
  <2>9. CASE LoadDocument(c) \/ LoadEnds(c)
    BY <1>1, <1>2, <2>9, LoadInv DEF LoadDocument, LoadEnds, server
  <2>10. CASE ReadFails(c)
    BY <1>1, <1>2, <2>10, ReadFailsInv DEF ReadFails, server
  <2>11. CASE Restart(c)
    BY <1>1, <1>2, <2>11, RestartInv DEF Restart, server
  <2>12. QED
    BY <1>3, <2>1, <2>2, <2>3, <2>4, <2>5, <2>6, <2>7, <2>8, <2>9, <2>10, <2>11 DEF Step
<1>4. ASSUME NEW r \in stray, PutStray(r) PROVE DocInv' /\ Leq(doc, doc')
  BY <1>1, <1>2, <1>4, PutStrayInv
<1>5. CASE WriteDocByOps
  BY <1>1, <1>2, <1>5, OpsInv
<1>6. CASE UNCHANGED vars
  <2>1. \A e \in Client : Untouched(e)
    BY <1>6 DEF Untouched, vars
  <2>2. Grows /\ stray' = stray /\ acked' = acked
    BY <1>6 DEF Grows, vars
  <2>3. \A e \in Client : ClientInv(e)'
    BY <1>1, <2>1, <2>2, Elsewhere DEF DocInv
  <2>4. QED
    BY <1>1, <1>2, <2>2, <2>3, StraysKept, AckedStays DEF DocInv
<1>7. QED
  BY <1>3, <1>4, <1>5, <1>6 DEF Next

-----------------------------------------------------------------------------
(***************************************************************************)
(* The theorems.                                                           *)
(***************************************************************************)

\* Version numbers are honest: every copy of the document, on a screen, in
\* the browser's storage or on the network, is either older than the row or
\* contains it.
THEOREM CopiesAreHonest == ASSUME ~RacingReload PROVE Spec => []DocInv
<1>1. Init => DocInv
  BY InitInv
<1>2. TypeOK /\ DocInv /\ [Next]_vars => DocInv'
  BY NextInv
<1>3. QED
  BY <1>1, <1>2, TypeCorrect, PTL DEF Spec

\* The version check of PUT /api/state does what concurrency.ts promises: no
\* save, however late or repeated, removes what another one wrote.
THEOREM NoLostUpdate == ASSUME ~RacingReload PROVE Spec => NothingOverwritten
<1>1. TypeOK /\ DocInv /\ [Next]_vars => [Leq(doc, doc')]_vars
  BY NextInv
<1>2. QED
  BY <1>1, TypeCorrect, CopiesAreHonest, PTL DEF Spec, NothingOverwritten

\* A change the client stopped retrying after a success is in the row for good.
THEOREM AcknowledgedIsKept == ASSUME ~RacingReload PROVE Spec => []AckedKept
<1>1. DocInv => AckedKept
  BY DEF DocInv
<1>2. QED
  BY <1>1, CopiesAreHonest, PTL

\* A client whose version is the current one holds at least the current document.
THEOREM CurrentIsUpToDate == ASSUME ~RacingReload PROVE Spec => []CurrentIsComplete
<1>1. DocInv => CurrentIsComplete
  BY DEF DocInv, ClientInv, CopiesHonest, Based, CurrentIsComplete
<1>2. QED
  BY <1>1, CopiesAreHonest, PTL

-----------------------------------------------------------------------------
(***************************************************************************)
(* Retries.                                                                *)
(***************************************************************************)

\* A failed save waits for its retry, and only an open application saves: the
\* retry that fires finds the way free
RetryReady(c) ==
    /\ saving(c) => open[c]
    /\ saveState[c] = "error" => open[c] /\ ~saving(c) /\ retryTimer[c]

RetryInv == \A c \in Client : RetryReady(c)

\* The shape the updates need
SaveShape ==
    /\ put \in [Client -> PutRecord] /\ saveState \in [Client -> {"idle", "saving", "error"}]
    /\ retryTimer \in [Client -> BOOLEAN] /\ open \in [Client -> BOOLEAN]

\* Every step keeps it, of whichever device.
LEMMA NextRetry == TypeOK /\ RetryInv /\ [Next]_vars => RetryInv'
<1> SUFFICES ASSUME TypeOK, RetryInv, [Next]_vars, NEW d \in Client PROVE RetryReady(d)'
    BY DEF RetryInv
<1>1. SaveShape /\ RetryReady(d)
    BY DEF TypeOK, SaveShape, RetryInv
<1>2. CASE \/ UNCHANGED vars
           \/ \E r \in stray : PutStray(r)
           \/ WriteDocByOps
    BY <1>1, <1>2 DEF vars, PutStray, WriteDocByOps, store, timers, RetryReady, saving
<1>3. ASSUME NEW c \in Client, Step(c), c # d PROVE RetryReady(d)'
  <2>1. /\ put'[d] = put[d] /\ saveState'[d] = saveState[d]
        /\ retryTimer'[d] = retryTimer[d] /\ open'[d] = open[d]
    <3> USE <1>1, <1>3 DEF SaveShape
    <3>1. CASE \E m \in Mut : mutate(c, m)
        BY <3>1 DEF mutate
    <3>2. CASE SaveTimer(c) \/ RetryTimer(c) \/ FlushNow(c)
        BY <3>2 DEF SaveTimer, RetryTimer, FlushNow, flush
    <3>3. CASE PutState(c) \/ SaveOk(c) \/ SaveRefused(c) \/ SaveFails(c)
        BY <3>3 DEF PutState, answer, SaveOk, SaveRefused, SaveFails, failSave, timers
    <3>4. CASE SaveConflict(c)
        BY <3>4 DEF SaveConflict, failSave
    <3>5. CASE RefreshAsk(c) \/ GetState(c) \/ RefreshAnswer(c) \/ ReloadAsk(c) \/ LoadDocument(c)
        BY <3>5 DEF RefreshAsk, GetState, RefreshAnswer, ReloadAsk, LoadDocument, timers
    <3>6. CASE LoadEnds(c) \/ ReadFails(c)
        BY <3>6 DEF LoadEnds, ReadFails, timers
    <3>7. CASE Restart(c)
        BY <3>7 DEF Restart
    <3> QED BY <1>3, <3>1, <3>2, <3>3, <3>4, <3>5, <3>6, <3>7 DEF Step
  <2> QED BY <1>1, <2>1 DEF RetryReady, saving
<1>4. ASSUME Step(d) PROVE RetryReady(d)'
  <2> USE <1>1 DEF SaveShape, RetryReady, saving
  <2>1. CASE \E m \in Mut : mutate(d, m)
      BY <2>1 DEF mutate
  <2>2. CASE SaveTimer(d) \/ RetryTimer(d) \/ FlushNow(d)
    <3>1. /\ UNCHANGED open
          /\ IF open[d] /\ put[d].st = "none"
             THEN put'[d].st = "req" /\ saveState'[d] = "saving"
             ELSE put'[d] = put[d] /\ saveState'[d] = saveState[d]
        BY <2>2 DEF SaveTimer, RetryTimer, FlushNow, flush, request
    <3>2. CASE open[d] /\ put[d].st = "none"
        BY <3>1, <3>2
    <3>3. CASE put[d].st # "none"
        BY <3>1, <3>3
    <3>4. CASE ~open[d]
        BY <3>1, <3>4
    <3> QED BY <3>2, <3>3, <3>4
  <2>3. CASE PutState(d)
    <3>1. /\ put[d].st = "req" /\ put'[d].st # "none"
          /\ UNCHANGED <<saveState, retryTimer, open>>
        BY <2>3 DEF PutState, answer, timers
    <3> QED BY <3>1
  <2>4. CASE SaveOk(d) \/ Restart(d)
    <3>1. put'[d].st = "none" /\ saveState'[d] = "idle"
        BY <2>4 DEF SaveOk, Restart, NoPut
    <3> QED BY <3>1
  <2>5. CASE SaveRefused(d) \/ SaveFails(d)
    <3>1. /\ put[d].st # "none" /\ put'[d].st = "none" /\ UNCHANGED open
          /\ saveState'[d] = "error" /\ retryTimer'[d]
        BY <2>5 DEF SaveRefused, SaveFails, failSave, NoPut
    <3> QED BY <3>1
  <2>6. CASE SaveConflict(d)
    <3>1. put[d].st = "conflict" /\ UNCHANGED open
        BY <2>6 DEF SaveConflict
    <3>2. CASE put[d].essai < MAX_REBASE
      <4>1. UNCHANGED <<saveState, retryTimer>>
          BY <2>6, <3>2 DEF SaveConflict
      <4> QED BY <3>1, <4>1
    <3>3. CASE ~(put[d].essai < MAX_REBASE)
      <4>1. put'[d].st = "none" /\ saveState'[d] = "error" /\ retryTimer'[d]
          BY <2>6, <3>3 DEF SaveConflict, failSave, NoPut
      <4> QED BY <3>1, <4>1
    <3> QED BY <3>2, <3>3
  <2>7. CASE RefreshAsk(d) \/ GetState(d) \/ RefreshAnswer(d) \/ ReloadAsk(d) \/ LoadDocument(d)
      BY <2>7 DEF RefreshAsk, GetState, RefreshAnswer, ReloadAsk, LoadDocument, timers
  <2>8. CASE LoadEnds(d) \/ ReadFails(d)
    <3>1. UNCHANGED <<put, saveState, retryTimer>> /\ (open[d] => open'[d])
        BY <2>8 DEF LoadEnds, ReadFails, timers
    <3> QED BY <3>1
  <2> QED BY <1>4, <2>1, <2>2, <2>3, <2>4, <2>5, <2>6, <2>7, <2>8 DEF Step
<1> QED BY <1>2, <1>3, <1>4 DEF Next

\* RetryArmed holds in every reachable state, reloads overlapping a save included:
\* a save that failed (foyer.store.ts) has a timer that retries it.
THEOREM FailuresAreRetried == Spec => []RetryArmed
<1>1. Init => RetryInv
    BY DEF Init, RetryInv, RetryReady, saving, NoPut
<1>2. RetryInv => RetryArmed
    BY DEF RetryInv, RetryReady, RetryArmed
<1> QED BY <1>1, <1>2, NextRetry, TypeCorrect, PTL DEF Spec
-----------------------------------------------------------------------------
(***************************************************************************)
(* Nothing is done twice.                                                  *)
(***************************************************************************)

\* Every copy is a document.
LEMMA CopyTypes ==
  ASSUME TypeOK
  PROVE  /\ \A d \in Away : d \in Doc
         /\ \A c \in Client : \A d \in Held(c) : d \in Doc
         /\ \A c \in Client : pending[c] \in Seq(Mut) /\ put[c].sent \in Nat
<1>1. \A r \in stray : r.doc \in Doc
  BY DEF TypeOK, Copy
<1>2. \A d \in Away : d \in Doc
  BY <1>1 DEF TypeOK, Away
<1>3. ASSUME NEW c \in Client
      PROVE  /\ data[c] \in Doc /\ cached[c].doc \in Doc
             /\ put[c].doc \in Doc /\ read[c].doc \in Doc
             /\ pending[c] \in Seq(Mut) /\ put[c].sent \in Nat
  BY DEF TypeOK, Copy, PutRecord, ReadRecord
<1>4. QED
  BY <1>2, <1>3 DEF Held

\* What a step leaves alone is held as before.
LEMMA HeldAlike == ASSUME NEW c \in Client, Untouched(c) PROVE Held(c)' = Held(c)
  BY DEF Held, Untouched

\* A value of the change m that a step of c may leave in a copy: none, one
\* that the row, a late request or c held, or the effect of its own change.
Known(c, m, n) ==
    \/ n = 0
    \/ \E d \in Away \union Held(c) : n = d[m]
    \/ n = 1 /\ m \in Members(pending[c])

\* The step of a client: the others keep what they hold, and what is waiting
\* there is still nowhere else.
LEMMA OnceStep ==
  ASSUME TypeOK, TypeOK', NEW m \in Mut, OnceInv(m), issued' = issued, NEW c \in Client,
         \A e \in Client \ {c} : Untouched(e),
         \A d \in Away' \union Held(c)' : Known(c, m, d[m]),
         NEW n \in Nat,
         \A i \in 1..Len(pending'[c]) :
            pending'[c][i] = m => i + n \in 1..Len(pending[c]) /\ pending[c][i + n] = m,
         \A i \in 1..Len(pending'[c]) :
            pending'[c][i] = m /\ ToReplay(c, i)' => OnlyHere(c, i, m)'
  PROVE  OnceInv(m)'
<1> DEFINE New == Away' \union Held(c)'
<1> DEFINE Old == Away \union Held(c)
<1>1. \A e \in Client \ {c} : Held(e)' = Held(e) /\ pending'[e] = pending[e] /\ put'[e] = put[e]
                              /\ read'[e] = read[e]
  BY HeldAlike DEF Untouched
<1>2. \A d \in New : d[m] <= 1
  BY DEF Known, OnceInv, AtMostOnce
<1>3. AtMostOnce(m)'
  BY <1>1, <1>2 DEF OnceInv, AtMostOnce
<1>4. ASSUME m \notin issued PROVE NotMade(m)'
  <2>1. NotMade(m)
    BY <1>4 DEF OnceInv
  <2>2. \A d \in New : d[m] = 0
    BY <2>1 DEF Known, NotMade
  <2>3. m \notin Members(pending[c])
    BY <2>1 DEF NotMade
  <2>4. m \notin Members(pending'[c])
    BY <2>3 DEF Members
  <2>5. QED
    BY <1>1, <2>1, <2>2, <2>4 DEF NotMade
<1>5. ASSUME NEW e \in Client \ {c}, NEW i \in 1..Len(pending[e]), pending[e][i] = m
      PROVE  /\ m \notin Members(pending[c])
             /\ ToReplay(e, i)' => OnlyHere(e, i, m)'
  <2>1. m \notin Members(pending[c])
    BY <1>5 DEF OnceInv, Members
  <2>2. ASSUME ToReplay(e, i)' PROVE OnlyHere(e, i, m)'
    <3>1. OnlyHere(e, i, m)
      BY <1>1, <1>5, <2>2 DEF OnceInv, ToReplay
    <3>2. \A d \in Old : d[m] = 0
      BY <3>1 DEF OnlyHere
    <3>3. \A d \in New : d[m] = 0
      BY <2>1, <3>2 DEF Known
    <3>4. QED
      BY <1>1, <3>1, <3>3 DEF OnlyHere
  <2>3. QED
    BY <2>1, <2>2
<1>6. ASSUME NEW e \in Client, NEW i \in 1..Len(pending'[e]), pending'[e][i] = m
      PROVE  /\ ToReplay(e, i)' => OnlyHere(e, i, m)'
             /\ \A f \in Client : \A j \in 1..Len(pending'[f]) :
                  pending'[f][j] = m => f = e /\ j = i
  <2>1. ToReplay(e, i)' => OnlyHere(e, i, m)'
    BY <1>1, <1>5, <1>6
  <2>2. ASSUME NEW f \in Client, NEW j \in 1..Len(pending'[f]), pending'[f][j] = m
        PROVE  f = e /\ j = i
    <3> DEFINE p == IF e = c THEN i + n ELSE i
               q == IF f = c THEN j + n ELSE j
    <3>1. p \in 1..Len(pending[e]) /\ pending[e][p] = m
      BY <1>1, <1>6
    <3>2. q \in 1..Len(pending[f]) /\ pending[f][q] = m
      BY <1>1, <2>2
    <3>3. f = e /\ p = q
      BY <3>1, <3>2 DEF OnceInv
    <3>4. QED
      BY <3>3
  <2>3. QED
    BY <2>1, <2>2
<1>7. QED
  BY <1>3, <1>4, <1>6 DEF OnceInv

\* The change itself, when it is made: it was nowhere, it is on one screen.
LEMMA OnceMade ==
  ASSUME TypeOK, TypeOK', NEW c \in Client, NEW m \in Mut, OnceInv(m), mutate(c, m)
  PROVE  OnceInv(m)'
<1>1. NotMade(m)
  BY DEF mutate, OnceInv
<1>2. /\ UNCHANGED <<doc, stray, put, read, cached>>
      /\ \A e \in Client \ {c} : data'[e] = data[e] /\ pending'[e] = pending[e]
      /\ data'[c] = [data[c] EXCEPT ![m] = @ + 1]
      /\ pending'[c] = Append(pending[c], m)
      /\ m \in issued'
  BY DEF mutate, TypeOK, server
<1>3. /\ pending[c] \in Seq(Mut) /\ data[c] \in Doc
      /\ \A i \in 1..Len(pending[c]) : pending[c][i] # m
  BY <1>1, CopyTypes DEF NotMade, Members, Held
<1>4. data'[c][m] = 1
  BY <1>1, <1>2, <1>3 DEF NotMade, Held, Doc
<1>5. /\ \A d \in Away' : d[m] = 0
      /\ \A e \in Client \ {c} : \A d \in Held(e)' : d[m] = 0
      /\ cached'[c].doc[m] = 0 /\ put'[c].doc[m] = 0 /\ read'[c].doc[m] = 0
  BY <1>1, <1>2 DEF NotMade, Away, Held
<1>6. AtMostOnce(m)'
  BY <1>4, <1>5 DEF AtMostOnce, Held
<1>7. ASSUME NEW e \in Client, NEW i \in 1..Len(pending'[e]), pending'[e][i] = m
      PROVE  e = c /\ i = Len(pending[c]) + 1
  <2>1. e = c
    BY <1>1, <1>2, <1>7 DEF NotMade, Members
  <2>2. i \in 1..(Len(pending[c]) + 1)
    BY <1>2, <1>3, <1>7, <2>1
  <2>3. i \notin 1..Len(pending[c])
    BY <1>2, <1>3, <1>7, <2>1
  <2>4. QED
    BY <1>3, <2>1, <2>2, <2>3
<1>8. ASSUME NEW i \in 1..Len(pending'[c]) PROVE OnlyHere(c, i, m)'
  BY <1>5 DEF OnlyHere
<1>9. QED
  BY <1>2, <1>6, <1>7, <1>8 DEF OnceInv

\* The steps that leave the queue of c where it is.
LEMMA OnceQuiet ==
  ASSUME TypeOK, TypeOK', NEW m \in Mut, OnceInv(m), issued' = issued, NEW c \in Client,
         \A e \in Client \ {c} : Untouched(e),
         pending'[c] = pending[c] \/ pending'[c] = <<>>,
         \A d \in Away' \union Held(c)' : Known(c, m, d[m]),
         \A i \in 1..Len(pending[c]) :
            pending[c][i] = m /\ ToReplay(c, i)' => OnlyHere(c, i, m)'
  PROVE  OnceInv(m)'
<1>1. \A i \in 1..Len(pending'[c]) : i \in 1..Len(pending[c]) /\ pending'[c][i] = pending[c][i]
  OBVIOUS
<1>2. \A i \in 1..Len(pending'[c]) : i + 0 = i
  BY CopyTypes
<1>3. \A i \in 1..Len(pending'[c]) :
         pending'[c][i] = m => i + 0 \in 1..Len(pending[c]) /\ pending[c][i + 0] = m
  BY <1>1, <1>2
<1>4. \A i \in 1..Len(pending'[c]) :
         pending'[c][i] = m /\ ToReplay(c, i)' => OnlyHere(c, i, m)'
  BY <1>1
<1>5. QED
  BY <1>3, <1>4, OnceStep

\* A change waiting for its save stays the only one of its kind if the step
\* brings no copy of it to the row, to the requests on their way, or to what
\* c reads.
LEMMA StaysHere ==
  ASSUME NEW m \in Mut, NEW c \in Client, NEW i \in Nat, NEW j \in Nat, OnlyHere(c, i, m),
         \A e \in Client \ {c} : Untouched(e),
         \A d \in Away' : d \in Away \/ d[m] = 0,
         read'[c].doc = read[c].doc \/ read'[c].doc[m] = 0,
         (put'[c].st = "req" /\ j <= put'[c].sent) \/ put'[c].doc[m] = 0
  PROVE  OnlyHere(c, j, m)'
<1>1. \A e \in Client \ {c} : Held(e)' = Held(e)
  BY HeldAlike
<1>2. QED
  BY <1>1 DEF OnlyHere

\* Another change made by c.
LEMMA OnceOther ==
  ASSUME TypeOK, TypeOK', NEW c \in Client, NEW m \in Mut, OnceInv(m), NEW x \in Mut \ {m},
         mutate(c, x)
  PROVE  OnceInv(m)'
<1>1. /\ UNCHANGED <<doc, stray, put, read, cached>>
      /\ data'[c] = [data[c] EXCEPT ![x] = @ + 1]
      /\ pending'[c] = Append(pending[c], x)
      /\ (m \in issued' <=> m \in issued)
  BY DEF mutate, TypeOK, server
<1>2. \A e \in Client \ {c} : Untouched(e)
  BY DEF mutate, Untouched, TypeOK
<1>3. \A e \in Client \ {c} : Held(e)' = Held(e) /\ pending'[e] = pending[e]
  BY <1>2, HeldAlike DEF Untouched
<1>4. data[c] \in Doc /\ pending[c] \in Seq(Mut)
  BY DEF TypeOK
<1>5. data'[c][m] = data[c][m] /\ Away' = Away
  BY <1>1, <1>4 DEF Doc, Away
<1>6. \A i \in 1..Len(pending'[c]) :
         pending'[c][i] = m => i \in 1..Len(pending[c]) /\ pending[c][i] = m
  <2>1. ASSUME NEW i \in 1..Len(pending'[c]), pending'[c][i] = m
        PROVE  i \in 1..Len(pending[c]) /\ pending[c][i] = m
    BY <1>1, <1>4, <2>1
  <2>2. QED
    BY <2>1
<1>7. \A n : (\A d \in Held(c) : d[m] <= n) => (\A d \in Held(c)' : d[m] <= n)
  BY <1>1, <1>5 DEF Held
<1>8. (\A d \in Held(c) : d[m] = 0) => (\A d \in Held(c)' : d[m] = 0)
  BY <1>1, <1>5 DEF Held
<1>9. AtMostOnce(m)'
  BY <1>3, <1>5, <1>7 DEF OnceInv, AtMostOnce
<1>10. m \notin issued => NotMade(m)'
  BY <1>3, <1>5, <1>6, <1>8 DEF OnceInv, NotMade, Members
<1>11. \A e \in Client : \A i \in 1..Len(pending'[e]) :
          pending'[e][i] = m => i \in 1..Len(pending[e]) /\ pending[e][i] = m
  BY <1>3, <1>6
<1>12. ASSUME NEW e \in Client, NEW i \in 1..Len(pending'[e]), OnlyHere(e, i, m)
       PROVE  OnlyHere(e, i, m)'
  <2>1. \A f \in Client \ {e} : \A d \in Held(f)' : d[m] = 0
    BY <1>3, <1>8, <1>12 DEF OnlyHere
  <2>2. QED
    BY <1>1, <1>5, <1>12, <2>1 DEF OnlyHere
<1>13. \A e \in Client, i \in Nat : ToReplay(e, i)' <=> ToReplay(e, i)
  BY <1>1 DEF ToReplay
<1>14. QED
  BY <1>1, <1>9, <1>10, <1>11, <1>12, <1>13 DEF OnceInv

\* A change waiting at c is nowhere else (the case of OnceInv the steps use).
LEMMA Waiting ==
  ASSUME NEW m \in Mut, OnceInv(m), NEW c \in Client,
         NEW i \in 1..Len(pending[c]), pending[c][i] = m, ToReplay(c, i)
  PROVE  OnlyHere(c, i, m)
  BY DEF OnceInv

\* A document replayed with what is pending holds nothing twice, if what is
\* still to be replayed was not in it.
LEMMA ReplayedOnce ==
  ASSUME NEW m \in Mut, NEW c \in Client, pending[c] \in Seq(Mut), NEW d \in Away \union Held(c),
         \A i \in 1..Len(pending[c]) : pending[c][i] = m => d[m] = 0
  PROVE  Known(c, m, rebase(d, pending[c])[m])
<1>1. CASE m \in Members(pending[c])
  <2>1. d[m] = 0
    BY <1>1 DEF Members
  <2>2. QED
    BY <1>1, <2>1 DEF Known, rebase
<1>2. CASE m \notin Members(pending[c])
  BY <1>2 DEF Known, rebase
<1>3. QED
  BY <1>1, <1>2

\* A save leaves with the document of the screen.
LEMMA OnceFlush ==
  ASSUME TypeOK, TypeOK', NEW m \in Mut, OnceInv(m), NEW c \in Client, flush(c),
         UNCHANGED <<server, store, stray, read, cached, open, issued>>
  PROVE  OnceInv(m)'
<1> USE DEF server, store
<1>1. \/ put' = put
      \/ /\ ~saving(c) /\ put'[c] = request(c, docVersion[c], data[c], 0)
         /\ \A e \in Client \ {c} : put'[e] = put[e]
  BY DEF flush, TypeOK
<1>2. \A e \in Client \ {c} : Untouched(e)
  BY <1>1 DEF Untouched
<1>3. Away' = Away
  BY DEF Away
<1>4. put'[c] = put[c] \/ (~saving(c) /\ put'[c].doc = data[c] /\ put'[c].st = "req"
                           /\ put'[c].sent = Len(pending[c]))
  BY <1>1 DEF request
<1>5. \A d \in Away' \union Held(c)' : d \in Away \union Held(c)
  BY <1>3, <1>4 DEF Held
<1>6. ASSUME NEW i \in 1..Len(pending[c]), pending[c][i] = m, ToReplay(c, i)'
      PROVE  OnlyHere(c, i, m)'
  <2>1. ToReplay(c, i) /\ i \in Nat /\ i <= Len(pending[c])
    BY <1>4, <1>6, CopyTypes DEF ToReplay, saving
  <2>2. OnlyHere(c, i, m)
    BY <1>6, <2>1, Waiting
  <2>3. (put'[c].st = "req" /\ i <= put'[c].sent) \/ put'[c].doc[m] = 0
    BY <1>4, <2>1, <2>2 DEF OnlyHere
  <2>4. QED
    BY <1>2, <1>3, <2>1, <2>2, <2>3, StaysHere
<1>7. QED
  BY <1>2, <1>5, <1>6, OnceQuiet DEF Known

\* The server answers a save.
LEMMA OncePut ==
  ASSUME TypeOK, TypeOK', NEW m \in Mut, OnceInv(m), NEW c \in Client, PutState(c)
  PROVE  OnceInv(m)'
<1> USE DEF server, store
<1>1. /\ UNCHANGED <<data, pending, stray, read, cached, issued>> /\ put[c].st = "req"
      /\ EmptyDoc[m] = 0
  BY DEF PutState, EmptyDoc
<1>2. \A e \in Client \ {c} : Untouched(e)
  BY DEF PutState, answer, Untouched, TypeOK
<1>3. /\ put'[c].sent = put[c].sent
      /\ \/ put'[c].st = "conflict" /\ put'[c].doc = doc /\ doc' = doc
         \/ put'[c].st = "refused" /\ put'[c].doc = EmptyDoc /\ doc' = doc
         \/ /\ put'[c].st = "ok" /\ put'[c].doc = EmptyDoc
            /\ doc'[m] = doc[m] \/ doc'[m] = put[c].doc[m]
  BY DEF PutState, answer, saveHousehold, preserve, TypeOK
<1>4. \A d \in Away' : d = doc' \/ d \in Away
  BY <1>1 DEF Away
<1>5. \A d \in Held(c)' : d \in Held(c) \/ d = EmptyDoc \/ d = doc
  BY <1>1, <1>3 DEF Held
<1>6. \A d \in Away' \union Held(c)' : Known(c, m, d[m])
  BY <1>1, <1>3, <1>4, <1>5 DEF Known, Away, Held
<1>7. ASSUME NEW i \in 1..Len(pending[c]), pending[c][i] = m, ToReplay(c, i)'
      PROVE  OnlyHere(c, i, m)'
  <2>1. OnlyHere(c, i, m) /\ i \in Nat
    BY <1>1, <1>7, Waiting, CopyTypes DEF ToReplay
  <2>2. doc[m] = 0
    BY <2>1 DEF OnlyHere, Away
  <2>3. put'[c].st = "ok" => put[c].doc[m] = 0
    BY <1>3, <1>7, <2>1 DEF ToReplay, OnlyHere
  <2>4. doc'[m] = 0 /\ put'[c].doc[m] = 0
    BY <1>1, <1>3, <2>2, <2>3
  <2>5. \A d \in Away' : d \in Away \/ d[m] = 0
    BY <1>4, <2>4
  <2>6. QED
    BY <1>1, <1>2, <2>1, <2>4, <2>5, StaysHere
<1>8. QED
  BY <1>1, <1>2, <1>6, <1>7, OnceQuiet

\* A successful save: what it carried is no longer to be replayed.
LEMMA OnceSaved ==
  ASSUME TypeOK, TypeOK', NEW m \in Mut, OnceInv(m), NEW c \in Client, SaveOk(c)
  PROVE  OnceInv(m)'
<1> USE DEF server
<1> DEFINE n == put[c].sent
<1>1. /\ pending[c] \in Seq(Mut) /\ n \in Nat /\ put[c].st = "ok"
      /\ pending'[c] = SubSeq(pending[c], n + 1, Len(pending[c]))
      /\ UNCHANGED <<doc, data, stray, read, issued>>
      /\ cached'[c].doc = data[c] /\ put'[c] = NoPut
      /\ NoPut.doc[m] = 0 /\ NoPut.st = "none"
  BY CopyTypes DEF SaveOk, TypeOK, NoPut, EmptyDoc
<1>2. \A e \in Client \ {c} : Untouched(e)
  BY DEF SaveOk, Untouched, TypeOK
<1>3. Away' = Away
  BY <1>1 DEF Away
<1>4. \A d \in Away' \union Held(c)' : Known(c, m, d[m])
  BY <1>1, <1>3 DEF Held, Known
<1>5. \A i \in 1..Len(pending'[c]) :
         /\ i + n \in 1..Len(pending[c]) /\ pending'[c][i] = pending[c][i + n]
         /\ i \in Nat /\ ~(i + n <= n)
  <2>1. Len(pending[c]) \in Nat /\ Len(pending'[c]) \in Nat
    BY <1>1, CopyTypes
  <2>2. Len(pending'[c]) # 0 => n <= Len(pending[c])
    BY <1>1, <2>1
  <2>3. Len(pending'[c]) # 0 => Len(pending'[c]) = Len(pending[c]) - n
    BY <1>1, <2>2, DropType
  <2>4. \A i \in 1..Len(pending'[c]) : pending'[c][i] = pending[c][i + n]
    <3>1. LET q == SubSeq(pending[c], n + 1, Len(pending[c]))
          IN  \A i \in 1..Len(q) : q[i] = pending[c][i + n]
      BY <1>1, DropType
    <3>2. QED
      BY <1>1, <3>1
  <2>5. \A i \in 1..Len(pending'[c]) : i + n \in 1..Len(pending[c])
    BY <1>1, <2>1, <2>3
  <2>6. \A i \in 1..Len(pending'[c]) : i \in Nat /\ ~(i + n <= n)
    BY <1>1, <2>1
  <2>7. QED
    BY <2>4, <2>5, <2>6
<1>6. ASSUME NEW i \in 1..Len(pending'[c]), pending'[c][i] = m
      PROVE  OnlyHere(c, i, m)'
  <2>1. /\ i + n \in 1..Len(pending[c]) /\ pending[c][i + n] = m /\ ToReplay(c, i + n)
        /\ i + n \in Nat /\ i \in Nat
    BY <1>1, <1>5, <1>6 DEF ToReplay
  <2>2. OnlyHere(c, i + n, m)
    BY <2>1, Waiting
  <2>3. QED
    BY <1>1, <1>2, <1>3, <2>1, <2>2, StaysHere
<1>7. QED
  BY <1>1, <1>2, <1>4, <1>5, <1>6, OnceStep

\* A conflict: replayed, and sent again or given up for a while.
LEMMA OnceConflict ==
  ASSUME TypeOK, TypeOK', NEW m \in Mut, OnceInv(m), NEW c \in Client, SaveConflict(c)
  PROVE  OnceInv(m)'
<1> USE DEF server
<1> DEFINE b == rebase(put[c].doc, pending[c])
<1>1. /\ put[c].st = "conflict"
      /\ UNCHANGED <<doc, pending, stray, read, cached, issued>>
      /\ data'[c] = b
      /\ NoPut.doc[m] = 0 /\ NoPut.st = "none"
      /\ \/ put'[c].st = "req" /\ put'[c].doc = b /\ put'[c].sent = Len(pending[c])
         \/ put'[c] = NoPut
  BY DEF SaveConflict, applyConflict, failSave, request, NoPut, EmptyDoc, TypeOK
<1>2. \A e \in Client \ {c} : Untouched(e)
  BY DEF SaveConflict, applyConflict, failSave, Untouched, TypeOK
<1>3. Away' = Away
  BY <1>1 DEF Away
<1>4. ASSUME NEW i \in 1..Len(pending[c]), pending[c][i] = m
      PROVE  OnlyHere(c, i, m) /\ put[c].doc[m] = 0
  BY <1>1, <1>4, Waiting DEF ToReplay, OnlyHere
<1>5. Known(c, m, b[m])
  <2>1. put[c].doc \in Away \union Held(c)
    BY DEF Held
  <2>2. QED
    BY <1>4, <2>1, ReplayedOnce, CopyTypes
<1>6. \A d \in Held(c)' : d \in Held(c) \/ d = b \/ d = NoPut.doc
  BY <1>1 DEF Held
<1>7. \A d \in Away' \union Held(c)' : Known(c, m, d[m])
  BY <1>1, <1>3, <1>5, <1>6 DEF Known
<1>8. ASSUME NEW i \in 1..Len(pending[c]), pending[c][i] = m
      PROVE  OnlyHere(c, i, m)'
  <2>1. i \in Nat /\ i <= Len(pending[c])
    BY CopyTypes
  <2>2. QED
    BY <1>1, <1>2, <1>3, <1>4, <1>8, <2>1, StaysHere
<1>9. QED
  BY <1>1, <1>2, <1>7, <1>8, OnceQuiet

\* A save that fails for good, or that the server refuses.
LEMMA OnceRefused ==
  ASSUME TypeOK, TypeOK', NEW m \in Mut, OnceInv(m), NEW c \in Client, SaveRefused(c)
  PROVE  OnceInv(m)'
<1> USE DEF server, store
<1>1. /\ put[c].st = "refused" /\ put'[c] = NoPut /\ NoPut.doc[m] = 0
      /\ UNCHANGED <<doc, data, pending, stray, read, cached, issued>>
  BY DEF SaveRefused, failSave, NoPut, EmptyDoc, TypeOK
<1>2. \A e \in Client \ {c} : Untouched(e)
  BY DEF SaveRefused, failSave, Untouched, TypeOK
<1>3. Away' = Away
  BY <1>1 DEF Away
<1>4. \A d \in Away' \union Held(c)' : Known(c, m, d[m])
  BY <1>1, <1>3 DEF Held, Known
<1>5. ASSUME NEW i \in 1..Len(pending[c]), pending[c][i] = m PROVE OnlyHere(c, i, m)'
  <2>1. OnlyHere(c, i, m) /\ i \in Nat
    BY <1>1, <1>5, Waiting, CopyTypes DEF ToReplay
  <2>2. QED
    BY <1>1, <1>2, <1>3, <2>1, StaysHere
<1>6. QED
  BY <1>1, <1>2, <1>4, <1>5, OnceQuiet

\* GET /state: asked for, or answered with the row.
LEMMA OnceRead ==
  ASSUME TypeOK, TypeOK', NEW m \in Mut, OnceInv(m), NEW c \in Client,
         RefreshAsk(c) \/ GetState(c) \/ ReloadAsk(c)
  PROVE  OnceInv(m)'
<1> USE DEF server, store
<1>1. /\ UNCHANGED <<doc, data, pending, put, stray, cached, issued>>
      /\ EmptyDoc[m] = 0
      /\ read'[c].doc = EmptyDoc \/ read'[c].doc = doc
  BY DEF RefreshAsk, GetState, ReloadAsk, Reading, EmptyDoc, TypeOK
<1>2. \A e \in Client \ {c} : Untouched(e)
  BY DEF RefreshAsk, GetState, ReloadAsk, Untouched, TypeOK
<1>3. Away' = Away
  BY <1>1 DEF Away
<1>4. \A d \in Held(c)' : d \in Held(c) \/ d = EmptyDoc \/ d = doc
  BY <1>1 DEF Held
<1>5. \A d \in Away' \union Held(c)' : Known(c, m, d[m])
  BY <1>1, <1>3, <1>4 DEF Known, Away
<1>6. ASSUME NEW i \in 1..Len(pending[c]), pending[c][i] = m, ToReplay(c, i)'
      PROVE  OnlyHere(c, i, m)'
  <2>1. OnlyHere(c, i, m) /\ i \in Nat
    BY <1>1, <1>6, Waiting, CopyTypes DEF ToReplay
  <2>2. read'[c].doc[m] = 0
    BY <1>1, <2>1 DEF OnlyHere, Away
  <2>3. (put'[c].st = "req" /\ i <= put'[c].sent) \/ put'[c].doc[m] = 0
    BY <1>1, <2>1 DEF OnlyHere
  <2>4. QED
    BY <1>2, <1>3, <2>1, <2>2, <2>3, StaysHere
<1>7. QED
  BY <1>1, <1>2, <1>5, <1>6, OnceQuiet

\* What was read is adopted, the pending changes replayed on it.
LEMMA OnceRefreshed ==
  ASSUME TypeOK, TypeOK', NEW m \in Mut, OnceInv(m), NEW c \in Client, RefreshAnswer(c)
  PROVE  OnceInv(m)'
<1> USE DEF server
<1> DEFINE b == rebase(read[c].doc, pending[c])
<1>1. /\ UNCHANGED <<doc, pending, put, stray, cached, issued>>
      /\ read'[c] = NoRead /\ NoRead.doc = EmptyDoc /\ EmptyDoc[m] = 0
      /\ data'[c] = data[c] \/ (data'[c] = b /\ ~saving(c))
  BY DEF RefreshAnswer, applyConflict, NoRead, Reading, EmptyDoc, TypeOK
<1>2. \A e \in Client \ {c} : Untouched(e)
  BY DEF RefreshAnswer, applyConflict, Untouched, TypeOK
<1>3. Away' = Away
  BY <1>1 DEF Away
<1>4. ASSUME ~saving(c) PROVE Known(c, m, b[m])
  <2>1. \A i \in 1..Len(pending[c]) : pending[c][i] = m => read[c].doc[m] = 0
    BY <1>4, Waiting DEF ToReplay, saving, OnlyHere
  <2>2. read[c].doc \in Away \union Held(c)
    BY DEF Held
  <2>3. QED
    BY <2>1, <2>2, ReplayedOnce, CopyTypes
<1>5. \A d \in Held(c)' : d \in Held(c) \/ (d = b /\ ~saving(c)) \/ d = EmptyDoc
  BY <1>1 DEF Held
<1>6. \A d \in Away' \union Held(c)' : Known(c, m, d[m])
  BY <1>1, <1>3, <1>4, <1>5 DEF Known
<1>7. ASSUME NEW i \in 1..Len(pending[c]), pending[c][i] = m, ToReplay(c, i)'
      PROVE  OnlyHere(c, i, m)'
  <2>1. OnlyHere(c, i, m) /\ i \in Nat
    BY <1>1, <1>7, Waiting, CopyTypes DEF ToReplay
  <2>2. (put'[c].st = "req" /\ i <= put'[c].sent) \/ put'[c].doc[m] = 0
    BY <1>1, <2>1 DEF OnlyHere
  <2>3. QED
    BY <1>1, <1>2, <1>3, <2>1, <2>2, StaysHere
<1>8. QED
  BY <1>1, <1>2, <1>6, <1>7, OnceQuiet

\* A full reload, and a start from the copy of the browser: the queue stays
\* or is emptied, and nothing new is held.
LEMMA OnceLoaded ==
  ASSUME TypeOK, TypeOK', NEW m \in Mut, OnceInv(m), NEW c \in Client,
         LoadDocument(c) \/ LoadEnds(c) \/ ReadFails(c)
  PROVE  OnceInv(m)'
<1> USE DEF server, store
<1>1. /\ UNCHANGED <<doc, put, stray, issued>>
      /\ EmptyDoc[m] = 0 /\ read'[c].doc = EmptyDoc
      /\ data'[c] \in Held(c) /\ cached'[c].doc \in Held(c)
      /\ pending'[c] = pending[c] \/ pending'[c] = <<>>
  BY DEF LoadDocument, LoadEnds, ReadFails, NoRead, Reading, EmptyDoc, Held, TypeOK
<1>2. \A e \in Client \ {c} : Untouched(e)
  BY DEF LoadDocument, LoadEnds, ReadFails, Untouched, TypeOK
<1>3. Away' = Away
  BY <1>1 DEF Away
<1>4. \A d \in Held(c)' : d \in Held(c) \/ d = EmptyDoc
  BY <1>1 DEF Held
<1>5. \A d \in Away' \union Held(c)' : Known(c, m, d[m])
  BY <1>1, <1>3, <1>4 DEF Known
<1>6. ASSUME NEW i \in 1..Len(pending[c]), pending[c][i] = m, ToReplay(c, i)'
      PROVE  OnlyHere(c, i, m)'
  <2>1. OnlyHere(c, i, m) /\ i \in Nat
    BY <1>1, <1>6, Waiting, CopyTypes DEF ToReplay
  <2>2. (put'[c].st = "req" /\ i <= put'[c].sent) \/ put'[c].doc[m] = 0
    BY <1>1, <2>1 DEF OnlyHere
  <2>3. QED
    BY <1>1, <1>2, <1>3, <2>1, <2>2, StaysHere
<1>7. QED
  BY <1>1, <1>2, <1>5, <1>6, OnceQuiet

\* A page reloaded or killed: its queue is lost, its save may still arrive.
LEMMA OnceRestarted ==
  ASSUME TypeOK, TypeOK', NEW m \in Mut, OnceInv(m), NEW c \in Client, Restart(c)
  PROVE  OnceInv(m)'
<1> USE DEF server
<1>1. /\ UNCHANGED <<doc, cached, issued>> /\ EmptyDoc[m] = 0
      /\ data'[c] = EmptyDoc /\ pending'[c] = <<>>
      /\ put'[c].doc = EmptyDoc /\ read'[c].doc = EmptyDoc
      /\ \A r \in stray' : r \in stray \/ r.doc = put[c].doc
  BY DEF Restart, NoPut, Reading, EmptyDoc, TypeOK
<1>2. \A e \in Client \ {c} : Untouched(e)
  BY DEF Restart, Untouched, TypeOK
<1>3. \A d \in Away' : d \in Away \/ d = put[c].doc
  BY <1>1 DEF Away
<1>4. \A d \in Held(c)' : d \in Held(c) \/ d = EmptyDoc
  BY <1>1 DEF Held
<1>5. \A d \in Away' \union Held(c)' : Known(c, m, d[m])
  BY <1>1, <1>3, <1>4 DEF Known, Held
<1>6. \A i \in 1..Len(pending'[c]) : FALSE
  BY <1>1
<1>7. QED
  BY <1>1, <1>2, <1>5, <1>6, OnceStep

\* The row changes under a request that arrives late, or under operations.
LEMMA OnceServer ==
  ASSUME TypeOK, TypeOK', NEW m \in Mut, OnceInv(m),
         \/ \E r \in stray : PutStray(r)
         \/ WriteDocByOps
         \/ UNCHANGED vars
  PROVE  OnceInv(m)'
<1>1. /\ UNCHANGED <<data, pending, put, read, cached, issued>>
      /\ stray' \subseteq stray
      /\ \E d \in Away : doc'[m] = d[m]
  <2>1. ASSUME NEW r \in stray, PutStray(r)
        PROVE  doc'[m] = doc[m] \/ doc'[m] = r.doc[m]
    BY <2>1 DEF PutStray, saveHousehold, preserve, server
  <2>2. QED
    BY <2>1 DEF PutStray, WriteDocByOps, vars, server, store, Away
<1>2. \A d \in Away' : \E x \in Away : d[m] = x[m]
  BY <1>1 DEF Away
<1>3. \A e \in Client : Held(e)' = Held(e)
  BY <1>1 DEF Held
<1>4. AtMostOnce(m)'
  BY <1>2, <1>3 DEF OnceInv, AtMostOnce
<1>5. NotMade(m) => NotMade(m)'
  BY <1>1, <1>2, <1>3 DEF NotMade
<1>6. ASSUME NEW c \in Client, NEW i \in Nat, OnlyHere(c, i, m) PROVE OnlyHere(c, i, m)'
  BY <1>1, <1>2, <1>3, <1>6 DEF OnlyHere
<1>7. \A c \in Client, i \in Nat : ToReplay(c, i)' <=> ToReplay(c, i)
  BY <1>1 DEF ToReplay
<1>8. QED
  BY <1>1, <1>4, <1>5, <1>6, <1>7 DEF OnceInv

\* Only a save whose answer never comes counts as one, and there is a bound.
LEMMA LostAnswers ==
  ASSUME [Next]_vars
  PROVE  \/ giveUps' = giveUps
         \/ giveUps < MaxGiveUps /\ giveUps' = giveUps + 1
<1>1. ASSUME NEW c \in Client, Step(c)
      PROVE  giveUps' = giveUps \/ (giveUps < MaxGiveUps /\ giveUps' = giveUps + 1)
  <2> USE DEF bounds
  <2>1. CASE \E m \in Mut : mutate(c, m)
    BY <2>1 DEF mutate
  <2>2. CASE SaveTimer(c) \/ RetryTimer(c) \/ FlushNow(c)
    BY <2>2 DEF SaveTimer, RetryTimer, FlushNow
  <2>3. CASE PutState(c) \/ SaveOk(c) \/ SaveConflict(c) \/ SaveRefused(c) \/ SaveFails(c)
    BY <2>3 DEF PutState, SaveOk, SaveConflict, SaveRefused, SaveFails
  <2>4. CASE RefreshAsk(c) \/ GetState(c) \/ ReloadAsk(c) \/ RefreshAnswer(c)
    BY <2>4 DEF RefreshAsk, GetState, ReloadAsk, RefreshAnswer
  <2>5. CASE LoadDocument(c) \/ LoadEnds(c) \/ ReadFails(c) \/ Restart(c)
    BY <2>5 DEF LoadDocument, LoadEnds, ReadFails, Restart
  <2>6. QED
    BY <1>1, <2>1, <2>2, <2>3, <2>4, <2>5 DEF Step
<1>2. CASE (\E r \in stray : PutStray(r)) \/ WriteDocByOps \/ UNCHANGED vars
  BY <1>2 DEF PutStray, WriteDocByOps, vars, bounds
<1>3. QED
  BY <1>1, <1>2 DEF Next

\* Every step keeps it, until an answer is lost.
LEMMA NextOnce ==
  ASSUME TypeOK, NEW m \in Mut, OnceInv(m), [Next]_vars, giveUps' = 0
  PROVE  OnceInv(m)'
<1>1. TypeOK'
  BY NextType
<1>2. ASSUME NEW c \in Client, Step(c) PROVE OnceInv(m)'
  <2>1. ASSUME NEW x \in Mut, mutate(c, x) PROVE OnceInv(m)'
    BY <1>1, <2>1, OnceMade, OnceOther
  <2>2. CASE SaveTimer(c) \/ RetryTimer(c) \/ FlushNow(c)
    BY <1>1, <2>2, OnceFlush DEF SaveTimer, RetryTimer, FlushNow
  <2>3. CASE PutState(c) \/ SaveOk(c) \/ SaveConflict(c) \/ SaveRefused(c)
    BY <1>1, <2>3, OncePut, OnceSaved, OnceConflict, OnceRefused
  <2>4. CASE SaveFails(c)
    BY <2>4 DEF SaveFails, TypeOK
  <2>5. CASE RefreshAsk(c) \/ GetState(c) \/ ReloadAsk(c) \/ RefreshAnswer(c)
    BY <1>1, <2>5, OnceRead, OnceRefreshed
  <2>6. CASE LoadDocument(c) \/ LoadEnds(c) \/ ReadFails(c) \/ Restart(c)
    BY <1>1, <2>6, OnceLoaded, OnceRestarted
  <2>7. QED
    BY <1>2, <2>1, <2>2, <2>3, <2>4, <2>5, <2>6 DEF Step
<1>3. QED
  BY <1>1, <1>2, OnceServer DEF Next

\* As long as no answer was lost, a change still to be replayed is in no copy
\* but those of the client that made it: what makes the replays of
\* foyer.store.ts safe.
THEOREM ReplaysAreSound == Spec => [](giveUps = 0 => ReplaysAreSafe)
<1>1. Init => ReplaysAreSafe
  BY DEF Init, ReplaysAreSafe, OnceInv, AtMostOnce, NotMade, Away, Held, Members,
         NoPut, NoRead, Reading, EmptyDoc
<1>2. TypeOK /\ (giveUps = 0 => ReplaysAreSafe) /\ [Next]_vars
        => (giveUps = 0 => ReplaysAreSafe)'
  <2> SUFFICES ASSUME TypeOK, giveUps = 0 => ReplaysAreSafe, [Next]_vars, giveUps' = 0
               PROVE  ReplaysAreSafe'
    OBVIOUS
  <2>1. giveUps = 0
    BY LostAnswers DEF TypeOK
  <2>2. QED
    BY <2>1, NextOnce DEF ReplaysAreSafe
<1>3. QED
  BY <1>1, <1>2, TypeCorrect, PTL DEF Spec

\* No change is done twice, in the row or on a screen, by conflicts, refreshes,
\* reloads (overlapping a save or not) and restarts: only a lost answer does that.
THEOREM ChangesAreAppliedOnce == Spec => [](giveUps = 0 => AppliedOnce)
<1>1. ReplaysAreSafe => AppliedOnce
  BY DEF ReplaysAreSafe, OnceInv, AtMostOnce, Away, Held, AppliedOnce
<1>2. QED
  BY <1>1, ReplaysAreSound, PTL
=============================================================================
