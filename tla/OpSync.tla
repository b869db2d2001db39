------------------------------- MODULE OpSync --------------------------------
(***************************************************************************)
(* The subtrees written by operations (shopping, and in the same form the  *)
(* tasks and the places): a gesture becomes an operation with its own      *)
(* identifier, applied on the screen at once, kept in a queue that         *)
(* survives the tab, and posted until the server says applied or skipped   *)
(* (frontend core/foyer.store.ts, op-queues.ts).  The server applies a     *)
(* batch in one transaction and remembers the identifiers it has applied   *)
(* (backend/src/shopping/ops.ts, repo.ts, ops-router.ts).  Screens learn   *)
(* of the others by polling GET /live (server.ts).                         *)
(*                                                                         *)
(* An operation's identifier is its rank in the history `issued`.  A queue *)
(* grows at its end and loses what was settled: it is always in the order  *)
(* of the gestures, so a queue, or a batch, is the set of its identifiers  *)
(* and is read in increasing order.  Of an article, only its list and its  *)
(* state are kept.                                                         *)
(***************************************************************************)
EXTENDS Integers, Sequences, FiniteSets, FiniteSetsExt, Folds

CONSTANTS
    Client,             \* open applications, each with its own queue
    Item,               \* identifiers of articles
    Known,              \* those on a list at the start
    List,               \* shopping lists at the start
    Removable,          \* those a save of the document may remove
    Absent,             \* the article is on no list
    MAX_OPS_PER_BATCH,  \* 500 in the code
    OPS_JOURNAL_MAX,    \* 2000 in the code
    MaxOps,             \* bound: gestures made
    MaxLosses,          \* bound: exchanges the network breaks
    MaxRestarts,        \* bound: pages reloaded, tabs killed by the system
    MaxReads,           \* bound: documents read again by an open application
    Kinds,              \* bound: the kinds of gestures made
    Polls               \* bound: polls an application has in flight at once

ASSUME OpSyncAssumption ==
    /\ Known \subseteq Item
    /\ Removable \subseteq List
    /\ Absent \notin [list : List, state : {"a-prendre", "panier"}]
    /\ MAX_OPS_PER_BATCH \in Nat
    /\ OPS_JOURNAL_MAX \in Nat \ {0}
    /\ MaxOps \in Nat
    /\ MaxLosses \in Nat
    /\ MaxRestarts \in Nat
    /\ MaxReads \in Nat

VARIABLES
    items, lists, version,  \* the household row: articles, lists, version
    row,          \* row[k] > 0: operation k is in the journal, at this row
    lastRow,      \* the last row given
    shown,        \* shown[c]: the articles on the screen of c (_data.shop)
    queue,        \* queue[c]: operations not acknowledged yet (localStorage)
    liveVersion,  \* liveVersion[c]: the version c last polled
    kept,         \* kept[c]: the articles of the document kept in the browser
    flight,       \* flight[c]: POST /ops in progress (shopFlushing)
    answer,       \* answer[c]: the articles and the version of its answer
    poll,         \* poll[c][n]: GET /live in progress, the n-th of c
    reading,      \* reading[c]: GET /state in progress
    open,         \* c has a document and a session (authed)
    polled,       \* history: the greatest version c has polled since it started
    late,         \* history: the articles c shows are older than that
    stray,        \* batches whose client gave up: they may still arrive
    issued,       \* history: the operations made, in order
    executed,     \* history: how often the server executed each
    refused,      \* history: operations the server has skipped
    losses, restarts, reads   \* how much of each bound has been used

household == <<items, lists, version>>
journal == <<row, lastRow>>
screen == <<shown, queue, liveVersion, kept, open, polled, late>>
wires == <<flight, answer, poll, reading, stray>>
history == <<executed, refused>>
bounds == <<losses, restarts, reads>>
vars == <<items, lists, version, row, lastRow, shown, queue, liveVersion, kept,
          flight, answer, poll, reading, open, polled, late, stray, issued, executed, refused,
          losses, restarts, reads>>

SHOP_STATES == {"a-prendre", "panier"}
Article == [list : List, state : SHOP_STATES]
Articles == [Item -> Article \union {Absent}]
Nothing == [i \in Item |-> Absent]
OpId == 1..MaxOps

\* `arg` is the list of an add or an edit, the state of a set-state
Op == [by : Client, op : {"add", "set-state", "edit", "remove"}, item : Item,
       arg : List \union SHOP_STATES \union {Absent}]

Flight == [st : {"none", "req", "ok", "error"}, batch : SUBSET OpId, settled : SUBSET OpId]
Flying(st, batch, settled) == [st |-> st, batch |-> batch, settled |-> settled]
NoFlight == Flying("none", {}, {})

Answer == [ver : Nat, items : Articles]
NoAnswer == [ver |-> 0, items |-> Nothing]

Poll == [st : {"none", "asked", "answered"}, ver : Nat, unchanged : BOOLEAN, items : Articles]
NoPoll == [st |-> "none", ver |-> 0, unchanged |-> TRUE, items |-> Nothing]
NoPolls == [n \in Polls |-> NoPoll]

Reading == [st : {"none", "asked", "answered"}, ver : Nat, items : Articles]
NoReading == [st |-> "none", ver |-> 0, items |-> Nothing]
Asked == [st |-> "asked", ver |-> 0, items |-> Nothing]

\* the operations, wherever they are
OpsTyped ==
    /\ row \in [OpId -> Nat]
    /\ lastRow \in Nat
    /\ queue \in [Client -> SUBSET OpId]
    /\ flight \in [Client -> Flight]
    /\ stray \subseteq SUBSET OpId
    /\ issued \in Seq(Op) /\ Len(issued) <= MaxOps
    /\ executed \in [OpId -> Nat]
    /\ refused \subseteq OpId

\* what they act on
ArticlesTyped ==
    /\ items \in Articles
    /\ lists \subseteq List
    /\ version \in Nat
    /\ shown \in [Client -> Articles]
    /\ liveVersion \in [Client -> Nat]
    /\ kept \in [Client -> Articles]
    /\ answer \in [Client -> Answer]
    /\ poll \in [Client -> [Polls -> Poll]]
    /\ reading \in [Client -> Reading]
    /\ open \in [Client -> BOOLEAN]
    /\ polled \in [Client -> Nat]
    /\ late \in [Client -> BOOLEAN]
    /\ losses \in Nat /\ restarts \in Nat /\ reads \in Nat

TypeOK == OpsTyped /\ ArticlesTyped

-----------------------------------------------------------------------------
(***************************************************************************)
(* What one operation does to a list of articles.  The screen and the      *)
(* server agree on it; only the server refuses (an unknown list).          *)
(***************************************************************************)
effect(its, o) ==
    CASE o.op = "add" ->
            IF its[o.item] = Absent
            THEN [its EXCEPT ![o.item] = [list |-> o.arg, state |-> "a-prendre"]]
            ELSE its
      [] o.op = "set-state" ->
            IF its[o.item] # Absent THEN [its EXCEPT ![o.item].state = o.arg] ELSE its
      [] o.op = "edit" ->
            IF its[o.item] # Absent THEN [its EXCEPT ![o.item].list = o.arg] ELSE its
      [] o.op = "remove" -> [its EXCEPT ![o.item] = Absent]

\* Mutant: the list is not looked up
refusesNothing(its, o) == FALSE

refuses(its, o) ==
    /\ o.arg \notin lists
    /\ \/ o.op = "add" /\ its[o.item] = Absent
       \/ o.op = "edit" /\ its[o.item] # Absent

\* Mutant: the journal is not consulted
neverApplied(k) == FALSE

alreadyApplied(k) == row[k] > 0

\* the operations of a queue or a batch, one after the other, the oldest first
inOrder(step(_, _), start, ids) ==
    MapThenFoldSet(LAMBDA k, sofar : step(sofar, k), start, LAMBDA k : k, LAMBDA s : Max(s), ids)

\* one of a batch: an operation of the journal is acquitted, not replayed
applyOne(r, k) ==
    IF alreadyApplied(k) THEN r
    ELSE IF refuses(r.items, issued[k])
         THEN [items |-> r.items, skipped |-> r.skipped \union {k}]
         ELSE [items |-> effect(r.items, issued[k]), skipped |-> r.skipped]

applyOps(batch) == inOrder(applyOne, [items |-> items, skipped |-> {}], batch)

\* the queue on top of what a server answer, or the kept document, says
replayOne(its, k) == effect(its, issued[k])
replay(its, q) == inOrder(replayOne, its, q)

-----------------------------------------------------------------------------
Init ==
    /\ \E where \in [Known -> List] :
         items = [i \in Item |-> IF i \in Known THEN [list |-> where[i], state |-> "a-prendre"]
                                                ELSE Absent]
    /\ lists = List
    /\ version = 1
    /\ row = [k \in OpId |-> 0]
    /\ lastRow = 0
    /\ shown = [c \in Client |-> items]
    /\ queue = [c \in Client |-> {}]
    /\ liveVersion = [c \in Client |-> 0]
    /\ kept = [c \in Client |-> items]
    /\ flight = [c \in Client |-> NoFlight]
    /\ answer = [c \in Client |-> NoAnswer]
    /\ poll = [c \in Client |-> NoPolls]
    /\ reading = [c \in Client |-> NoReading]
    /\ open = [c \in Client |-> TRUE]
    /\ polled = [c \in Client |-> 0]
    /\ late = [c \in Client |-> FALSE]
    /\ stray = {}
    /\ issued = <<>>
    /\ executed = [k \in OpId |-> 0]
    /\ refused = {}
    /\ losses = 0 /\ restarts = 0 /\ reads = 0

-----------------------------------------------------------------------------
(***************************************************************************)
(* The server.  A handler has no await, a batch is one transaction.        *)
(***************************************************************************)
\* Mutants: the journal is not written; it is pruned one row too far
rememberNothing(applied) == UNCHANGED journal

rememberLess(applied) ==
    LET filled == [k \in OpId |-> IF k \in applied /\ ~alreadyApplied(k)
                                  THEN lastRow + k ELSE row[k]]
        newer(k) == {j \in OpId : filled[j] > filled[k]}
    IN  /\ row' = [k \in OpId |-> IF Cardinality(newer(k)) < OPS_JOURNAL_MAX - 1
                                  THEN filled[k] ELSE 0]
        /\ lastRow' = lastRow + MaxOps

\* INSERT OR IGNORE of what was applied, then only the newest rows stay
remember(applied) ==
    LET filled == [k \in OpId |-> IF k \in applied /\ ~alreadyApplied(k)
                                  THEN lastRow + k ELSE row[k]]
        newer(k) == {j \in OpId : filled[j] > filled[k]}
    IN  /\ row' = [k \in OpId |-> IF Cardinality(newer(k)) < OPS_JOURNAL_MAX
                                  THEN filled[k] ELSE 0]
        /\ lastRow' = lastRow + MaxOps

applyShoppingOps(batch, res) ==
    LET applied == batch \ res.skipped
    IN  /\ refused' = refused \union (batch \intersect res.skipped)
        /\ executed' = [k \in OpId |-> IF k \in applied /\ ~alreadyApplied(k)
                                       THEN executed[k] + 1 ELSE executed[k]]
        /\ IF applied # {}
           THEN /\ items' = res.items
                /\ version' = version + 1
                /\ remember(applied)
           ELSE UNCHANGED <<items, version, journal>>
        /\ UNCHANGED lists

\* POST /ops: a batch too long is refused as a whole (413)
PostOps(c) ==
    /\ flight[c].st = "req"
    /\ LET batch == flight[c].batch
           res == applyOps(batch)
       IN  \/ /\ Cardinality(batch) > MAX_OPS_PER_BATCH
              /\ flight' = [flight EXCEPT ![c] = Flying("error", batch, {})]
              /\ UNCHANGED <<household, journal, history, answer>>
           \/ /\ Cardinality(batch) <= MAX_OPS_PER_BATCH
              /\ applyShoppingOps(batch, res)
              /\ flight' = [flight EXCEPT ![c] = Flying("ok", batch, batch)]
              /\ answer' = [answer EXCEPT ![c] = [ver |-> version', items |-> res.items]]
    /\ UNCHANGED <<screen, poll, reading, stray, issued, bounds>>

\* POST /ops of a batch whose client no longer listens
PostStray(batch) ==
    /\ stray' = stray \ {batch}
    /\ IF Cardinality(batch) <= MAX_OPS_PER_BATCH
       THEN applyShoppingOps(batch, applyOps(batch))
       ELSE UNCHANGED <<household, journal, history>>
    /\ UNCHANGED <<screen, flight, answer, poll, reading, issued, bounds>>

\* PUT /state that removes a list: its articles go with it (reconcile)
RemoveList(l) ==
    /\ l \in lists \intersect Removable
    /\ lists' = lists \ {l}
    /\ items' = [i \in Item |-> IF items[i] # Absent /\ items[i].list = l
                                THEN Absent ELSE items[i]]
    /\ version' = version + 1
    /\ UNCHANGED <<journal, screen, wires, issued, history, bounds>>

\* Mutant: a caller one version behind is told that nothing changed
GetLiveLate(c, n) ==
    /\ poll[c][n].st = "asked"
    /\ LET same == poll[c][n].ver + 1 >= version
       IN  poll' = [poll EXCEPT ![c][n] = [st |-> "answered", ver |-> version, unchanged |-> same,
                                           items |-> IF same THEN Nothing ELSE items]]
    /\ UNCHANGED <<household, journal, screen, flight, answer, reading, stray, issued, history,
                   bounds>>

\* GET /live: nothing but the version when the caller already polled it
GetLive(c, n) ==
    /\ poll[c][n].st = "asked"
    /\ LET same == poll[c][n].ver = version
       IN  poll' = [poll EXCEPT ![c][n] = [st |-> "answered", ver |-> version, unchanged |-> same,
                                           items |-> IF same THEN Nothing ELSE items]]
    /\ UNCHANGED <<household, journal, screen, flight, answer, reading,
                   stray, issued, history, bounds>>

\* GET /state, of which the articles
GetState(c) ==
    /\ reading[c].st = "asked"
    /\ reading' = [reading EXCEPT ![c] = [st |-> "answered", ver |-> version, items |-> items]]
    /\ UNCHANGED <<household, journal, screen, flight, answer, poll,
                   stray, issued, history, bounds>>

-----------------------------------------------------------------------------
(***************************************************************************)
(* The store of one application.                                           *)
(***************************************************************************)

\* Nothing orders the answers an application gets: the flush and the poll of a
\* tick leave together, and an answer is adopted when it arrives.
outdated(c, ver) == late' = [late EXCEPT ![c] = ver < polled[c]]

\* c removed the article, and may take it back (delShop's Annuler)
undoable(c) ==
    {i \in Item : /\ shown[c][i] = Absent
                  /\ \E n \in DOMAIN issued :
                        /\ issued[n].by = c /\ issued[n].op = "remove" /\ issued[n].item = i
                        /\ \A m \in DOMAIN issued :
                              m > n /\ issued[m].by = c => issued[m].item # i}

\* uid() gives an added article an identifier nobody has, an undone removal
\* its own; the other gestures are made on an article of the screen
gestures(c) ==
    LET fresh == {i \in Item \ Known : \A n \in DOMAIN issued : issued[n].item # i}
        there == {i \in Item : shown[c][i] # Absent}
        make(kind, its, args) ==
            [by : {c}, op : {kind} \intersect Kinds, item : its, arg : args]
    IN  make("add", fresh \union undoable(c), List) \union make("set-state", there, SHOP_STATES)
        \union make("edit", there, List) \union make("remove", there, {Absent})

\* A gesture: shown at once, queued (the flush comes 300 ms later)
pushShopOps(c, o) ==
    /\ open[c]
    /\ Len(issued) < MaxOps
    /\ o \in gestures(c)
    /\ issued' = Append(issued, o)
    /\ queue' = [queue EXCEPT ![c] = @ \union {Len(issued) + 1}]
    /\ shown' = [shown EXCEPT ![c] = effect(@, o)]
    /\ UNCHANGED <<household, journal, liveVersion, kept, open, polled, late, wires, history,
                   bounds>>

\* Mutant: only the last gesture leaves
flushLast(c) ==
    /\ open[c]
    /\ flight[c].st = "none"
    /\ queue[c] # {}
    /\ LET last == {k \in queue[c] : \A j \in queue[c] : j <= k}
       IN  flight' = [flight EXCEPT ![c] = Flying("req", last, {})]
    /\ UNCHANGED <<household, journal, screen, answer, poll, reading, stray, issued, history,
                   bounds>>

\* The whole queue leaves, at a timer, a poll tick, or the network's return
flushShopQueue(c) ==
    /\ open[c]
    /\ flight[c].st = "none"
    /\ queue[c] # {}
    /\ flight' = [flight EXCEPT ![c] = Flying("req", queue[c], {})]
    /\ UNCHANGED <<household, journal, screen, answer, poll, reading,
                   stray, issued, history, bounds>>

\* Mutant: the queue is not replayed
adoptOnly(c, its, q) == shown' = [shown EXCEPT ![c] = its]

\* the server's articles, and what it has not seen on top of them
adoptShop(c, its, q) == shown' = [shown EXCEPT ![c] = replay(its, q)]

\* Mutant: the whole queue goes, what was queued meanwhile too
FlushAnsweredAll(c) ==
    /\ flight[c].st = "ok"
    /\ queue' = [queue EXCEPT ![c] = {}]
    /\ adoptShop(c, answer[c].items, {})
    /\ outdated(c, answer[c].ver)
    /\ flight' = [flight EXCEPT ![c] = NoFlight]
    /\ answer' = [answer EXCEPT ![c] = NoAnswer]
    /\ UNCHANGED <<household, journal, liveVersion, kept, open, polled, poll, reading, stray,
                   issued, history, bounds>>

\* What was settled, applied or skipped, leaves the queue
FlushAnswered(c) ==
    /\ flight[c].st = "ok"
    /\ LET left == queue[c] \ flight[c].settled
       IN  /\ queue' = [queue EXCEPT ![c] = left]
           /\ adoptShop(c, answer[c].items, left)
    /\ outdated(c, answer[c].ver)
    /\ flight' = [flight EXCEPT ![c] = NoFlight]
    /\ answer' = [answer EXCEPT ![c] = NoAnswer]
    /\ UNCHANGED <<household, journal, liveVersion, kept, open, polled, poll, reading, stray,
                   issued, history, bounds>>

\* flushFailed: the queue stays as it is
FlushFailed(c) ==
    /\ flight[c].st = "error"
    /\ flight' = [flight EXCEPT ![c] = NoFlight]
    /\ UNCHANGED <<household, journal, screen, answer, poll, reading,
                   stray, issued, history, bounds>>

\* Mutant: shopFlushing is not reset
FlushLostStuck(c) ==
    /\ flight[c].st \in {"req", "ok"}
    /\ losses < MaxLosses
    /\ losses' = losses + 1
    /\ flight' = [flight EXCEPT ![c] = Flying("lost", {}, {})]
    /\ answer' = [answer EXCEPT ![c] = NoAnswer]
    /\ UNCHANGED <<household, journal, screen, poll, reading, stray, issued, history,
                   restarts, reads>>

\* The network breaks under it: the batch may still arrive, or was applied and
\* only the answer is lost
FlushLost(c) ==
    /\ flight[c].st \in {"req", "ok"}
    /\ losses < MaxLosses
    /\ losses' = losses + 1
    /\ stray' = IF flight[c].st = "req" THEN stray \union {flight[c].batch} ELSE stray
    /\ flight' = [flight EXCEPT ![c] = NoFlight]
    /\ answer' = [answer EXCEPT ![c] = NoAnswer]
    /\ UNCHANGED <<household, journal, screen, poll, reading, issued, history, restarts, reads>>

\* At every tick, whether or not the poll of the tick before has been answered
pollLive(c, n) ==
    /\ open[c]
    /\ poll[c][n].st = "none"
    /\ poll' = [poll EXCEPT ![c][n] = [st |-> "asked", ver |-> liveVersion[c],
                                       unchanged |-> TRUE, items |-> Nothing]]
    /\ UNCHANGED <<household, journal, screen, flight, answer, reading,
                   stray, issued, history, bounds>>

PollAnswered(c, n) ==
    /\ poll[c][n].st = "answered"
    /\ liveVersion' = [liveVersion EXCEPT ![c] = poll[c][n].ver]
    /\ polled' = [polled EXCEPT ![c] = IF @ < poll[c][n].ver THEN poll[c][n].ver ELSE @]
    /\ IF poll[c][n].unchanged
       THEN UNCHANGED <<shown, late>>
       ELSE adoptShop(c, poll[c][n].items, queue[c]) /\ outdated(c, poll[c][n].ver)
    /\ poll' = [poll EXCEPT ![c][n] = NoPoll]
    /\ UNCHANGED <<household, journal, queue, kept, open, flight, answer, reading,
                   stray, issued, history, bounds>>

PollLost(c, n) ==
    /\ poll[c][n].st # "none"
    /\ losses < MaxLosses
    /\ losses' = losses + 1
    /\ poll' = [poll EXCEPT ![c][n] = NoPoll]
    /\ UNCHANGED <<household, journal, screen, flight, answer, reading, stray, issued, history,
                   restarts, reads>>

\* The document read again: refreshDocument, or the answer to a refused save
refreshDocument(c) ==
    /\ open[c]
    /\ reading[c].st = "none"
    /\ reads < MaxReads
    /\ reads' = reads + 1
    /\ reading' = [reading EXCEPT ![c] = Asked]
    /\ UNCHANGED <<household, journal, screen, flight, answer, poll,
                   stray, issued, history, losses, restarts>>

\* replayQueues on the document received; at start, it opens the application
\* and is kept for a start without network
DocumentRead(c) ==
    /\ reading[c].st = "answered"
    /\ adoptShop(c, reading[c].items, queue[c])
    /\ outdated(c, reading[c].ver)
    /\ open' = [open EXCEPT ![c] = TRUE]
    /\ kept' = IF open[c] THEN kept ELSE [kept EXCEPT ![c] = shown'[c]]
    /\ reading' = [reading EXCEPT ![c] = NoReading]
    /\ UNCHANGED <<household, journal, queue, liveVersion, polled, flight, answer, poll,
                   stray, issued, history, bounds>>

\* hydrateFromCache at start; nothing when the application is open
ReadLost(c) ==
    /\ reading[c].st # "none"
    /\ losses < MaxLosses
    /\ losses' = losses + 1
    /\ IF open[c] THEN UNCHANGED shown ELSE adoptShop(c, kept[c], queue[c])
    /\ open' = [open EXCEPT ![c] = TRUE]
    /\ reading' = [reading EXCEPT ![c] = NoReading]
    /\ UNCHANGED <<household, journal, queue, liveVersion, kept, polled, late, flight, answer,
                   poll, stray, issued, history, restarts, reads>>

\* The tab is killed: of its memory the queue and the kept document remain
Restart(c) ==
    /\ restarts < MaxRestarts
    /\ restarts' = restarts + 1
    /\ stray' = IF flight[c].st = "req" THEN stray \union {flight[c].batch} ELSE stray
    /\ flight' = [flight EXCEPT ![c] = NoFlight]
    /\ answer' = [answer EXCEPT ![c] = NoAnswer]
    /\ poll' = [poll EXCEPT ![c] = NoPolls]
    /\ reading' = [reading EXCEPT ![c] = Asked]
    /\ open' = [open EXCEPT ![c] = FALSE]
    /\ liveVersion' = [liveVersion EXCEPT ![c] = 0]
    /\ polled' = [polled EXCEPT ![c] = 0]
    /\ late' = [late EXCEPT ![c] = FALSE]
    /\ shown' = [shown EXCEPT ![c] = Nothing]
    /\ UNCHANGED <<household, journal, queue, kept, issued, history, losses, reads>>

-----------------------------------------------------------------------------
Step(c) ==
    \/ \E o \in Op : pushShopOps(c, o)
    \/ flushShopQueue(c) \/ PostOps(c) \/ FlushAnswered(c) \/ FlushFailed(c) \/ FlushLost(c)
    \/ \E n \in Polls : pollLive(c, n) \/ GetLive(c, n) \/ PollAnswered(c, n) \/ PollLost(c, n)
    \/ refreshDocument(c) \/ GetState(c) \/ DocumentRead(c) \/ ReadLost(c)
    \/ Restart(c)

Next ==
    \/ \E c \in Client : Step(c)
    \/ \E batch \in stray : PostStray(batch)
    \/ \E l \in List : RemoveList(l)

Spec == Init /\ [][Next]_vars

\* An open application keeps polling and flushing (its screen is visible), the
\* server answers and answers are handled.  Nobody has to touch the screen.
Fairness ==
    \A c \in Client :
        /\ WF_vars(flushShopQueue(c)) /\ WF_vars(PostOps(c))
        /\ WF_vars(FlushAnswered(c)) /\ WF_vars(FlushFailed(c))
        /\ WF_vars(\E n \in Polls : pollLive(c, n))
        /\ \A n \in Polls : WF_vars(GetLive(c, n)) /\ WF_vars(PollAnswered(c, n))
        /\ WF_vars(GetState(c)) /\ WF_vars(DocumentRead(c))

FairSpec == Spec /\ Fairness

-----------------------------------------------------------------------------
(***************************************************************************)
(* Safety.                                                                 *)
(***************************************************************************)

\* the server is done with operation k
Settled(k) == executed[k] >= 1 \/ k \in refused

\* "Une opération rejouée après une coupure réseau ne doit rien refaire"
\* (storage/schema.ts): the server executes no operation twice, whatever is
\* resent or arrives late, while the journal is longer than the replay.
AtMostOnce == OPS_JOURNAL_MAX >= MaxOps => \A k \in OpId : executed[k] <= 1

\* "une mémoire courte contre les rejeux, pas un historique" (shopping/repo.ts):
\* an operation is executed again only if the journal had no room for it,
\* being full of later ones.
RedoneOnlyIfForgotten ==
    [][\A k \in OpId : executed[k] >= 1 /\ executed'[k] > executed[k]
        => Cardinality({j \in OpId : row[j] > 0}) = OPS_JOURNAL_MAX]_vars

\* A gesture is in its author's queue until the server has executed it, or
\* has said that it never will: closing the tab at any moment loses nothing.
NoGestureLost ==
    \A k \in DOMAIN issued :
        k \in queue[issued[k].by] \/ Settled(k)

\* The server executes the gestures of one application in the order they
\* were made, whatever batch carries them.
InIssueOrder ==
    \A j, k \in DOMAIN issued :
        j < k /\ issued[j].by = issued[k].by /\ executed[k] >= 1
        => Settled(j)

\* The gestures not acknowledged are on the screen, whatever server answer
\* has been adopted since: nothing that is still to be sent flickers.
PendingShown == \A c \in Client : open[c] => replay(shown[c], queue[c]) = shown[c]

\* An article is on an existing list, in the household document, however
\* late the operation that puts it there.
ListsKnown == \A i \in Item : items[i] # Absent => items[i].list \in lists

\* A client whose queue is empty and whose last poll gave the current version
\* shows the current list, unless the last answer it adopted is older than one
\* it had polled before (an answer overtaken on the network).
LiveIsTruthful ==
    \A c \in Client :
        open[c] /\ queue[c] = {} /\ liveVersion[c] = version /\ ~late[c] => shown[c] = items

(***************************************************************************)
(* Refinement.                                                             *)
(***************************************************************************)
Promise == INSTANCE Gestures WITH made <- issued, dropped <- refused,
                                  Gesture <- Op, Id <- OpId

\* Whatever is lost, resent or restarted, the server seems to take each gesture
\* from its author's hand: executed once at most, those of one author in order,
\* nothing that was not made (while the journal is longer than the replay).
KeepsPromise == Promise!Spec

(***************************************************************************)
(* The inductive invariant behind the first of them.                       *)
(***************************************************************************)

\* The journal says the truth, and all of it while it is never full.
JournalHonest ==
    /\ \A k \in OpId : row[k] > 0 => executed[k] >= 1
    /\ OPS_JOURNAL_MAX >= MaxOps =>
           \A k \in OpId : executed[k] <= 1 /\ (executed[k] = 1 => row[k] > 0)

QueueOwned == \A c \in Client : \A k \in queue[c] : k \in DOMAIN issued /\ issued[k].by = c

OnlyIssued == \A k \in OpId : executed[k] >= 1 => k \in DOMAIN issued

AnswersHonest ==
    \A c \in Client : flight[c].st = "ok" => \A k \in flight[c].settled : Settled(k)

\* A batch holds, with each gesture, the earlier ones of the same application
\* that are not settled.
Closed(batch) ==
    \A k \in batch :
        /\ k \in DOMAIN issued
        /\ \A j \in DOMAIN issued :
               j < k /\ issued[j].by = issued[k].by => j \in batch \/ Settled(j)

BatchesClosed ==
    /\ \A c \in Client : flight[c].st = "req" => Closed(flight[c].batch)
    /\ \A batch \in stray : Closed(batch)

OpInv ==
    /\ JournalHonest /\ QueueOwned /\ OnlyIssued /\ NoGestureLost
    /\ AnswersHonest /\ BatchesClosed /\ InIssueOrder

\* Rows are given once, in increasing order; an operation executed has left the
\* journal only if the journal is full.
JournalShort ==
    /\ \A k \in OpId : row[k] <= lastRow
    /\ \A j, k \in OpId : row[j] > 0 /\ row[j] = row[k] => j = k
    /\ (\E k \in OpId : executed[k] >= 1 /\ row[k] = 0)
           => Cardinality({j \in OpId : row[j] > 0}) = OPS_JOURNAL_MAX

(***************************************************************************)
(* The inductive invariant behind the lists and the screens.               *)
(***************************************************************************)

\* A gesture carries what its kind of operation needs.
GesturesFit ==
    \A k \in DOMAIN issued :
        /\ issued[k].op \in {"add", "edit"} => issued[k].arg \in List
        /\ issued[k].op = "set-state" => issued[k].arg \in SHOP_STATES

\* What the server said under a version is still true while that version is the
\* current one.
Said(said) ==
    /\ said.ver <= version
    /\ said.ver = version => said.items = items

AnswersCurrent ==
    \A c \in Client :
        /\ flight[c].st = "ok" => Said(answer[c])
        /\ reading[c].st = "answered" => Said(reading[c])
        /\ \A n \in Polls :
              poll[c][n].st = "answered" /\ ~poll[c][n].unchanged => Said(poll[c][n])

\* An application polls from a version it has polled; closed, it has none.
PollsFromTheLast ==
    \A c \in Client :
        /\ liveVersion[c] <= polled[c] /\ polled[c] <= version
        /\ \A n \in Polls :
              poll[c][n].st = "asked" \/ (poll[c][n].st = "answered" /\ poll[c][n].unchanged)
                  => poll[c][n].ver <= polled[c]
        /\ ~open[c] => poll[c] = NoPolls /\ liveVersion[c] = 0 /\ polled[c] = 0

\* Until it adopts an answer older than what it has polled, an application shows
\* what the server has while it has polled nothing older.
ShowsTheLast ==
    \A c \in Client :
        open[c] /\ queue[c] = {} /\ polled[c] = version /\ ~late[c] => shown[c] = items

ScreenInv ==
    /\ GesturesFit /\ ListsKnown /\ AnswersCurrent /\ PollsFromTheLast /\ ShowsTheLast
    /\ version > 0

(***************************************************************************)
(* The inductive invariant behind PendingShown: a queue replayed twice is  *)
(* replayed once.                                                          *)
(***************************************************************************)

\* An article is added by a device that had made no gesture on it, or whose last
\* one removed it.
AddsAreNew ==
    \A j, k \in DOMAIN issued :
        /\ j < k /\ issued[k].op = "add"
        /\ issued[j].by = issued[k].by /\ issued[j].item = issued[k].item
        /\ \A l \in DOMAIN issued :
               j < l /\ l < k /\ issued[l].by = issued[k].by => issued[l].item # issued[k].item
        => issued[j].op = "remove"

\* A queue holds the last gestures of its device, a flush the first of the queue.
QueueIsTail ==
    \A c \in Client : \A j \in queue[c] : \A k \in DOMAIN issued :
        j < k /\ issued[k].by = c => k \in queue[c]

FlushIsHead ==
    \A c \in Client :
        /\ flight[c].st = "req" =>
              \A j \in queue[c], k \in flight[c].batch : j < k => j \in flight[c].batch
        /\ flight[c].st = "ok" =>
              /\ flight[c].settled \subseteq DOMAIN issued
              /\ \A j \in queue[c], k \in flight[c].settled :
                    j < k => j \in flight[c].settled

PendingInv == AddsAreNew /\ QueueIsTail /\ FlushIsHead /\ PendingShown

(***************************************************************************)
(* Liveness.                                                               *)
(***************************************************************************)

\* A screen is, again and again, the server's list with the gestures not sent yet
\* on top of it, except while it shows an overtaken answer under the current
\* version: then only the next change of the household makes it read again (the
\* code orders no answers, and does not keep this without the exception).
ScreenCatchesUp ==
    \A c \in Client :
        []<>(shown[c] = replay(items, queue[c]) \/ (late[c] /\ liveVersion[c] = version))

\* A gesture leaves its queue, unless the queue, which is posted whole, has
\* outgrown what POST /ops takes: it is then refused whole, again and again.
QueueDrains ==
    \A c \in Client, k \in OpId :
        (k \in queue[c]) ~> (k \notin queue[c] \/ Cardinality(queue[c]) > MAX_OPS_PER_BATCH)
=============================================================================
