------------------------------- MODULE DocSync -------------------------------
(***************************************************************************)
(* The household document: one JSON value in one SQLite row, saved whole   *)
(* by PUT /api/state under a version number (backend/src/server.ts,        *)
(* state/concurrency.ts), and the browser store that edits it (frontend    *)
(* core/foyer.store.ts, state-sync.ts).                                    *)
(*                                                                         *)
(* A local change is a closure, kept in `pending` until a save that        *)
(* carried it is acknowledged; a save refused for its version (409) is     *)
(* rebased: the closures are replayed on the document the server returned. *)
(* The document is abstracted to what these rules can tell apart: how many *)
(* times the effect of each change is in it.                               *)
(***************************************************************************)
EXTENDS Integers, Sequences

CONSTANTS
    Client,        \* open applications (a phone, a tablet, a tab)
    Mut,           \* local changes, each made once by one client
    Frozen,        \* changes to parts the server keeps as it holds them
    Invalid,       \* changes that make the document malformed (400)
    Refused,       \* changes the member has no right to make (403)
    MAX_REBASE,    \* replays before a save is given up for a while
    MaxVersion,    \* bound: no write by operations at this version or beyond
    MaxGiveUps,    \* bound: saves whose answer never reaches the client
    MaxRestarts,   \* bound: pages reloaded, tabs killed by the system
    MaxReloads,    \* bound: loadState() calls on an application already open
    RacingReload   \* may loadState() overlap a save?

ASSUME DocSyncAssumption ==
    /\ Frozen \subseteq Mut
    /\ Invalid \subseteq Mut
    /\ Refused \subseteq Mut
    /\ MAX_REBASE \in Nat
    /\ MaxVersion \in Nat
    /\ MaxGiveUps \in Nat
    /\ MaxRestarts \in Nat
    /\ MaxReloads \in Nat
    /\ RacingReload \in BOOLEAN

VARIABLES
    version, doc,   \* the household row
    data,           \* data[c]: the document on the screen of c (_data)
    docVersion,     \* docVersion[c]: the version c believes it edits
    pending,        \* pending[c]: changes no acknowledged save has carried
    put,            \* put[c]: the save in flight, or NoPut (this.saving)
    stray,          \* saves whose client gave up: they may still arrive
    read,           \* read[c]: the GET /state in flight, or NoRead
    saveState,      \* "idle", "saving", "error"
    saveTimer,      \* the 700 ms timer is armed
    retryTimer,     \* the 8 s retry timer is armed
    open,           \* the application of c has a document (data is not null)
    cached,         \* the copy kept in IndexedDB for a start without network
    issued,         \* history: changes made so far
    acked,          \* history: changes dropped from pending by a successful save
    giveUps, restarts, reloads   \* how much of each bound has been used

server == <<version, doc>>
store == <<data, docVersion, pending>>
timers == <<saveState, saveTimer, retryTimer>>
bounds == <<giveUps, restarts, reloads>>
vars == <<version, doc, data, docVersion, pending, put, stray, read, saveState,
          saveTimer, retryTimer, open, cached, issued, acked, giveUps, restarts,
          reloads>>

Doc == [Mut -> Nat]
EmptyDoc == [m \in Mut |-> 0]
Leq(d, e) == \A m \in Mut : d[m] <= e[m]
Copy == [ver : Nat, doc : Doc]
Members(s) == {s[i] : i \in 1..Len(s)}

PutRecord == [st : {"none", "req", "ok", "conflict", "refused"}, ver : Nat, doc : Doc,
              sent : Nat, essai : Nat]
NoPut == [st |-> "none", ver |-> 0, doc |-> EmptyDoc, sent |-> 0, essai |-> 0]

ReadRecord == [kind : {"none", "refresh", "load"}, st : {"none", "asked", "answered", "me"},
               ver : Nat, doc : Doc]
Reading(k, s) == [kind |-> k, st |-> s, ver |-> 0, doc |-> EmptyDoc]
NoRead == Reading("none", "none")

saving(c) == put[c].st # "none"

TypeOK ==
    /\ version \in Nat
    /\ doc \in Doc
    /\ data \in [Client -> Doc]
    /\ docVersion \in [Client -> Nat]
    /\ pending \in [Client -> Seq(Mut)]
    /\ put \in [Client -> PutRecord]
    /\ stray \subseteq Copy
    /\ read \in [Client -> ReadRecord]
    /\ saveState \in [Client -> {"idle", "saving", "error"}]
    /\ saveTimer \in [Client -> BOOLEAN]
    /\ retryTimer \in [Client -> BOOLEAN]
    /\ open \in [Client -> BOOLEAN]
    /\ cached \in [Client -> Copy]
    /\ issued \subseteq Mut
    /\ acked \subseteq Mut
    /\ giveUps \in Nat /\ restarts \in Nat /\ reloads \in Nat

Init ==
    /\ version = 0
    /\ doc = EmptyDoc
    /\ data = [c \in Client |-> EmptyDoc]
    /\ docVersion = [c \in Client |-> 0]
    /\ pending = [c \in Client |-> <<>>]
    /\ put = [c \in Client |-> NoPut]
    /\ stray = {}
    /\ read = [c \in Client |-> NoRead]
    /\ saveState = [c \in Client |-> "idle"]
    /\ saveTimer = [c \in Client |-> FALSE]
    /\ retryTimer = [c \in Client |-> FALSE]
    /\ open = [c \in Client |-> TRUE]
    /\ cached = [c \in Client |-> [ver |-> 0, doc |-> EmptyDoc]]
    /\ issued = {}
    /\ acked = {}
    /\ giveUps = 0 /\ restarts = 0 /\ reloads = 0

-----------------------------------------------------------------------------
(***************************************************************************)
(* The server.  The handler has no await: one step.                        *)
(***************************************************************************)

\* Mutants: the version is not compared; one save of delay is let through
anyVersion(clientVersion) == TRUE
nearlyUpToDate(clientVersion) == clientVersion + 1 >= version

isUpToDate(clientVersion) == clientVersion >= version

\* validateState: the document alone is looked at
validateState(d) == \A m \in Invalid : d[m] = 0

\* the rights on settings, preferences and the roster
rejects(d) == \E m \in Refused : d[m] > doc[m]

\* preserveShopping, preserveTasks, ..., disabled modules, a child's events:
\* those parts of an incoming document are replaced by the server's own
preserve(d) == [m \in Mut |-> IF m \in Frozen THEN doc[m] ELSE d[m]]

saveHousehold(d) ==
    /\ doc' = preserve(d)
    /\ version' = version + 1

accepts(v, d) == validateState(d) /\ isUpToDate(v) /\ ~rejects(d)

answer(c, st, v, d) ==
    put' = [put EXCEPT ![c] = [st |-> st, ver |-> v, doc |-> d,
                               sent |-> put[c].sent, essai |-> put[c].essai]]

\* PUT /state, and its answer on the way back to c: a malformed document is
\* refused before its version is looked at, the rights are looked at after
PutState(c) ==
    /\ put[c].st = "req"
    /\ \/ /\ ~validateState(put[c].doc)
          /\ answer(c, "refused", 0, EmptyDoc)
          /\ UNCHANGED server
       \/ /\ validateState(put[c].doc)
          /\ ~isUpToDate(put[c].ver)
          /\ answer(c, "conflict", version, doc)
          /\ UNCHANGED server
       \/ /\ validateState(put[c].doc)
          /\ isUpToDate(put[c].ver)
          /\ rejects(put[c].doc)
          /\ answer(c, "refused", 0, EmptyDoc)
          /\ UNCHANGED server
       \/ /\ accepts(put[c].ver, put[c].doc)
          /\ saveHousehold(put[c].doc)
          /\ answer(c, "ok", version + 1, EmptyDoc)
    /\ UNCHANGED <<store, stray, read, timers, open, cached, issued, acked, bounds>>

\* PUT /state of a request whose client no longer listens
PutStray(r) ==
    /\ stray' = stray \ {r}
    /\ IF accepts(r.ver, r.doc) THEN saveHousehold(r.doc) ELSE UNCHANGED server
    /\ UNCHANGED <<store, put, read, timers, open, cached, issued, acked, bounds>>

\* A batch of shopping, task or place operations: same row, same version
WriteDocByOps ==
    /\ version < MaxVersion
    /\ version' = version + 1
    /\ UNCHANGED <<doc, store, put, stray, read, timers, open, cached, issued, acked, bounds>>

\* GET /state
GetState(c) ==
    /\ read[c].st = "asked"
    /\ read' = [read EXCEPT ![c] = [kind |-> read[c].kind, st |-> "answered",
                                    ver |-> version, doc |-> doc]]
    /\ UNCHANGED <<server, store, put, stray, timers, open, cached, issued, acked, bounds>>

-----------------------------------------------------------------------------
(***************************************************************************)
(* The store of one application.                                           *)
(***************************************************************************)

\* Without RacingReload, a save and a loadState() of one application do not
\* overlap (each answers before the other starts).
apart(c) == RacingReload \/ read[c].kind # "load"

\* what putState sends: the whole document, the version it is edited from
request(c, v, d, essai) ==
    [st |-> "req", ver |-> v, doc |-> d, sent |-> Len(pending[c]), essai |-> essai]

flush(c) ==
    IF open[c] /\ ~saving(c)
    THEN /\ put' = [put EXCEPT ![c] = request(c, docVersion[c], data[c], 0)]
         /\ saveState' = [saveState EXCEPT ![c] = "saving"]
    ELSE UNCHANGED <<put, saveState>>

rebase(d, queue) == [m \in Mut |-> IF m \in Members(queue) THEN d[m] + 1 ELSE d[m]]

applyConflict(c, ver, d) ==
    /\ docVersion' = [docVersion EXCEPT ![c] = ver]
    /\ data' = [data EXCEPT ![c] = rebase(d, pending[c])]

\* Mutant: no retry is armed
failSaveSilently(c) ==
    /\ put' = [put EXCEPT ![c] = NoPut]
    /\ saveState' = [saveState EXCEPT ![c] = "error"]
    /\ UNCHANGED retryTimer

failSave(c) ==
    /\ put' = [put EXCEPT ![c] = NoPut]
    /\ saveState' = [saveState EXCEPT ![c] = "error"]
    /\ retryTimer' = [retryTimer EXCEPT ![c] = TRUE]

\* A change made on the screen: applied, remembered, and a save in 700 ms
mutate(c, m) ==
    /\ open[c]
    /\ m \notin issued
    /\ issued' = issued \union {m}
    /\ data' = [data EXCEPT ![c][m] = @ + 1]
    /\ pending' = [pending EXCEPT ![c] = Append(@, m)]
    /\ saveTimer' = [saveTimer EXCEPT ![c] = TRUE]
    /\ UNCHANGED <<server, docVersion, put, stray, read, saveState, retryTimer,
                   open, cached, acked, bounds>>

\* scheduleSave's timer: consumed whether or not flush() finds the way free
SaveTimer(c) ==
    /\ saveTimer[c]
    /\ apart(c)
    /\ saveTimer' = [saveTimer EXCEPT ![c] = FALSE]
    /\ flush(c)
    /\ UNCHANGED <<server, store, stray, read, retryTimer, open, cached, issued, acked, bounds>>

RetryTimer(c) ==
    /\ retryTimer[c]
    /\ apart(c)
    /\ retryTimer' = [retryTimer EXCEPT ![c] = FALSE]
    /\ flush(c)
    /\ UNCHANGED <<server, store, stray, read, saveTimer, open, cached, issued, acked, bounds>>

\* Network or screen back after a failed save, or a task queue to send while
\* changes are pending: flush() called from elsewhere
FlushNow(c) ==
    /\ open[c]
    /\ ~saving(c)
    /\ apart(c)
    /\ saveState[c] = "error" \/ pending[c] # <<>>
    /\ flush(c)
    /\ UNCHANGED <<server, store, stray, read, saveTimer, retryTimer, open, cached,
                   issued, acked, bounds>>

\* The save succeeded: what it carried is no longer pending
SaveOk(c) ==
    /\ put[c].st = "ok"
    /\ docVersion' = [docVersion EXCEPT ![c] = put[c].ver]
    /\ pending' = [pending EXCEPT ![c] = SubSeq(@, put[c].sent + 1, Len(@))]
    /\ acked' = acked \union
                {pending[c][i] : i \in {j \in 1..Len(pending[c]) : j <= put[c].sent}}
    /\ put' = [put EXCEPT ![c] = NoPut]
    /\ saveState' = [saveState EXCEPT ![c] = "idle"]
    /\ retryTimer' = [retryTimer EXCEPT ![c] = FALSE]
    /\ cached' = [cached EXCEPT ![c] = [ver |-> put[c].ver, doc |-> data[c]]]
    /\ UNCHANGED <<server, data, stray, read, saveTimer, open, issued, bounds>>

\* 409: replay on what the server holds, and try again at once, MAX_REBASE times
SaveConflict(c) ==
    /\ put[c].st = "conflict"
    /\ applyConflict(c, put[c].ver, put[c].doc)
    /\ IF put[c].essai < MAX_REBASE
       THEN /\ put' = [put EXCEPT ![c] = request(c, put[c].ver, rebase(put[c].doc, pending[c]),
                                                 put[c].essai + 1)]
            /\ UNCHANGED <<saveState, retryTimer>>
       ELSE failSave(c)
    /\ UNCHANGED <<server, pending, stray, read, saveTimer, open, cached, issued, acked, bounds>>

SaveRefused(c) ==
    /\ put[c].st = "refused"
    /\ failSave(c)
    /\ UNCHANGED <<server, store, stray, read, saveTimer, open, cached, issued, acked, bounds>>

\* The network fails under the save: the request may still reach the server,
\* or its answer is the thing that was lost
SaveFails(c) ==
    /\ saving(c)
    /\ giveUps < MaxGiveUps
    /\ giveUps' = giveUps + 1
    /\ stray' = IF put[c].st = "req"
                THEN stray \union {[ver |-> put[c].ver, doc |-> put[c].doc]}
                                     ELSE stray
    /\ failSave(c)
    /\ UNCHANGED <<server, store, read, saveTimer, open, cached, issued, acked, restarts, reloads>>

\* refreshDocument(): the poll saw another version, and no save is in flight
RefreshAsk(c) ==
    /\ open[c]
    /\ ~saving(c)
    /\ read[c] = NoRead
    /\ docVersion[c] # version
    /\ read' = [read EXCEPT ![c] = Reading("refresh", "asked")]
    /\ UNCHANGED <<server, store, put, stray, timers, open, cached, issued, acked, bounds>>

\* Mutant: the answer is adopted although a save has left since
RefreshAnswerAnytime(c) ==
    /\ read[c].kind = "refresh"
    /\ read[c].st = "answered"
    /\ read' = [read EXCEPT ![c] = NoRead]
    /\ applyConflict(c, read[c].ver, read[c].doc)
    /\ UNCHANGED <<server, pending, put, stray, timers, open, cached, issued, acked, bounds>>

RefreshAnswer(c) ==
    /\ read[c].kind = "refresh"
    /\ read[c].st = "answered"
    /\ read' = [read EXCEPT ![c] = NoRead]
    /\ IF read[c].ver # docVersion[c] /\ ~saving(c)
       THEN applyConflict(c, read[c].ver, read[c].doc)
       ELSE UNCHANGED <<docVersion, data>>
    /\ UNCHANGED <<server, pending, put, stray, timers, open, cached, issued, acked, bounds>>

\* loadState() on an open application: settings restored from a file, a queue
\* refused because it belongs to another member
ReloadAsk(c) ==
    /\ open[c]
    /\ read[c] = NoRead
    /\ RacingReload \/ ~saving(c)
    /\ reloads < MaxReloads
    /\ reloads' = reloads + 1
    /\ read' = [read EXCEPT ![c] = Reading("load", "asked")]
    /\ UNCHANGED <<server, store, put, stray, timers, open, cached, issued, acked,
                   giveUps, restarts>>

\* ... its document is shown as soon as it arrives, while /me is awaited
LoadDocument(c) ==
    /\ read[c].kind = "load"
    /\ read[c].st = "answered"
    /\ data' = [data EXCEPT ![c] = read[c].doc]
    /\ docVersion' = [docVersion EXCEPT ![c] = read[c].ver]
    /\ read' = [read EXCEPT ![c] = Reading("load", "me")]
    /\ UNCHANGED <<server, pending, put, stray, timers, open, cached, issued, acked, bounds>>

\* ... and what had not been sent is forgotten, on purpose
LoadEnds(c) ==
    /\ read[c].st = "me"
    /\ read' = [read EXCEPT ![c] = NoRead]
    /\ pending' = [pending EXCEPT ![c] = <<>>]
    /\ open' = [open EXCEPT ![c] = TRUE]
    /\ cached' = [cached EXCEPT ![c] = [ver |-> docVersion[c], doc |-> data[c]]]
    /\ UNCHANGED <<server, data, docVersion, put, stray, timers, issued, acked, bounds>>

\* GET /state fails.  At start, the copy kept in the browser is shown instead.
ReadFails(c) ==
    /\ read[c].st \in {"asked", "answered"}
    /\ read' = [read EXCEPT ![c] = NoRead]
    /\ IF open[c]
       THEN UNCHANGED <<store, open>>
       ELSE /\ data' = [data EXCEPT ![c] = cached[c].doc]
            /\ docVersion' = [docVersion EXCEPT ![c] = cached[c].ver]
            /\ pending' = [pending EXCEPT ![c] = <<>>]
            /\ open' = [open EXCEPT ![c] = TRUE]
    /\ UNCHANGED <<server, put, stray, timers, cached, issued, acked, bounds>>

\* The page is reloaded or the tab killed: everything but the cached copy is
\* lost, and init() asks for the document
Restart(c) ==
    /\ restarts < MaxRestarts
    /\ restarts' = restarts + 1
    /\ data' = [data EXCEPT ![c] = EmptyDoc]
    /\ docVersion' = [docVersion EXCEPT ![c] = 0]
    /\ pending' = [pending EXCEPT ![c] = <<>>]
    /\ put' = [put EXCEPT ![c] = NoPut]
    /\ stray' = IF put[c].st = "req"
                THEN stray \union {[ver |-> put[c].ver, doc |-> put[c].doc]}
                                     ELSE stray
    /\ read' = [read EXCEPT ![c] = Reading("load", "asked")]
    /\ saveState' = [saveState EXCEPT ![c] = "idle"]
    /\ saveTimer' = [saveTimer EXCEPT ![c] = FALSE]
    /\ retryTimer' = [retryTimer EXCEPT ![c] = FALSE]
    /\ open' = [open EXCEPT ![c] = FALSE]
    /\ UNCHANGED <<server, cached, issued, acked, giveUps, reloads>>

-----------------------------------------------------------------------------
Step(c) ==
    \/ \E m \in Mut : mutate(c, m)
    \/ SaveTimer(c) \/ RetryTimer(c) \/ FlushNow(c)
    \/ PutState(c) \/ SaveOk(c) \/ SaveConflict(c) \/ SaveRefused(c) \/ SaveFails(c)
    \/ RefreshAsk(c) \/ GetState(c) \/ RefreshAnswer(c)
    \/ ReloadAsk(c) \/ LoadDocument(c) \/ LoadEnds(c) \/ ReadFails(c)
    \/ Restart(c)

Next ==
    \/ \E c \in Client : Step(c)
    \/ \E r \in stray : PutStray(r)
    \/ WriteDocByOps

Spec == Init /\ [][Next]_vars

\* Timers fire, the server answers, answers are handled, /me is settled one
\* way or the other.  Nobody has to touch the screen, and the network may
\* still fail, MaxGiveUps times.
Fairness ==
    \A c \in Client :
        /\ WF_vars(SaveTimer(c)) /\ WF_vars(RetryTimer(c))
        /\ WF_vars(PutState(c)) /\ WF_vars(GetState(c))
        /\ WF_vars(SaveOk(c)) /\ WF_vars(SaveConflict(c)) /\ WF_vars(SaveRefused(c))
        /\ WF_vars(RefreshAnswer(c)) /\ WF_vars(LoadDocument(c)) /\ WF_vars(LoadEnds(c))

FairSpec == Spec /\ Fairness

-----------------------------------------------------------------------------
(***************************************************************************)
(* Safety.                                                                 *)
(***************************************************************************)

\* No save ever removes from the household row an effect another save put
\* there, however old the document it carries (the reason concurrency.ts
\* exists: "un événement disparaissait, et rien ne le disait").
NothingOverwritten == [][Leq(doc, doc')]_vars

\* What a client stopped retrying because the server said yes is in the
\* row, unless it belongs to the parts the server keeps for itself.
AckedKept == \A m \in acked \ Frozen : doc[m] >= 1

\* A client that believes it holds the current version does: its document
\* contains everything the row does, so saving it whole loses nothing.
CurrentIsComplete ==
    \A c \in Client : open[c] /\ docVersion[c] = version => Leq(doc, data[c])

\* Nothing is done twice, neither in the row nor on a screen, by the replays
\* of conflicts and refreshes.
AppliedOnce ==
    /\ \A m \in Mut : doc[m] <= 1
    /\ \A c \in Client, m \in Mut : data[c][m] <= 1

\* "réessayer sans qu'on le demande": a save that failed and is not being
\* retried has a timer that will retry it.
RetryArmed ==
    \A c \in Client : saveState[c] = "error" => ~saving(c) /\ retryTimer[c]

(***************************************************************************)
(* The inductive invariant behind the first three, without RacingReload.   *)
(* Every copy of the document that can still reach the server or a screen  *)
(* is older than the row, or contains it: a version number is an honest    *)
(* summary of what its holder has seen.                                    *)
(***************************************************************************)
Based(v, d) == v <= version /\ (v = version => Leq(doc, d))

CopiesHonest(c) ==
    /\ open[c] \/ read[c].st = "me" => Based(docVersion[c], data[c])
    /\ Based(cached[c].ver, cached[c].doc)
    /\ put[c].st = "req" => Based(put[c].ver, put[c].doc) /\ Leq(put[c].doc, data[c])
    /\ put[c].st = "conflict" => Based(put[c].ver, put[c].doc)
    /\ put[c].st = "ok" => Based(put[c].ver, data[c])
    /\ read[c].st = "answered" => Based(read[c].ver, read[c].doc)

StraysHonest == \A r \in stray : Based(r.ver, r.doc)

LoadApart(c) ==
    /\ read[c].kind = "load" => ~saving(c)
    /\ ~open[c] \/ read[c].st = "me" => read[c].kind = "load"

\* What is pending is on the screen; what a save carries of it is in the
\* document sent, then, once accepted, in the row.
PendingCarried(c) ==
    /\ saving(c) => put[c].sent <= Len(pending[c])
    /\ \A i \in 1..Len(pending[c]) :
        /\ read[c].st # "me" => data[c][pending[c][i]] >= 1
        /\ i <= put[c].sent =>
            /\ put[c].st = "req" => put[c].doc[pending[c][i]] >= 1
            /\ put[c].st = "ok" /\ pending[c][i] \notin Frozen => doc[pending[c][i]] >= 1

ClientInv(c) == CopiesHonest(c) /\ LoadApart(c) /\ PendingCarried(c)

DocInv == (\A c \in Client : ClientInv(c)) /\ StraysHonest /\ AckedKept

(***************************************************************************)
(* The inductive invariant behind AppliedOnce, when no answer is lost: a   *)
(* change that is still to be replayed is nowhere but on the screen (and   *)
(* in the cached copy) of the client that made it.                         *)
(***************************************************************************)
Held(c) == {data[c], cached[c].doc, put[c].doc, read[c].doc}
Away == {doc} \union {r.doc : r \in stray}

\* The i-th change of c has still to be replayed if c's save meets a conflict
ToReplay(c, i) == ~(put[c].st = "ok" /\ i <= put[c].sent)

\* Such a change m, the i-th of c, is in no other copy
OnlyHere(c, i, m) ==
    /\ \A d \in Away : d[m] = 0
    /\ \A e \in Client \ {c} : \A d \in Held(e) : d[m] = 0
    /\ read[c].doc[m] = 0
    /\ (put[c].st = "req" /\ i <= put[c].sent) \/ put[c].doc[m] = 0

NotMade(m) ==
    /\ \A d \in Away : d[m] = 0
    /\ \A c \in Client : m \notin Members(pending[c]) /\ \A d \in Held(c) : d[m] = 0

AtMostOnce(m) ==
    /\ \A d \in Away : d[m] <= 1
    /\ \A c \in Client : \A d \in Held(c) : d[m] <= 1

OnceInv(m) ==
    /\ AtMostOnce(m)
    /\ m \notin issued => NotMade(m)
    /\ \A c \in Client : \A i \in 1..Len(pending[c]) : pending[c][i] = m =>
        /\ ToReplay(c, i) => OnlyHere(c, i, m)
        /\ \A e \in Client : \A j \in 1..Len(pending[e]) :
            pending[e][j] = m => e = c /\ j = i

ReplaysAreSafe == \A m \in Mut : OnceInv(m)

(***************************************************************************)
(* Liveness.                                                               *)
(***************************************************************************)

Sent(c) == {pending[c][i] : i \in {j \in 1..Len(pending[c]) : j <= put[c].sent}}

\* A change a save set out with ends up acknowledged (or its application is
\* restarted, or reloads the document).
SentIsSettled ==
    \A c \in Client, m \in Mut : (m \in Sent(c)) ~> (m \notin Members(pending[c]))

\* Every change does: "leurs modifications partent par l'enregistrement du
\* document, qui réessaie tout seul jusqu'à passer" (docs/hors-ligne.md).
PendingIsSettled ==
    \A c \in Client, m \in Mut : (m \in Members(pending[c])) ~> (m \notin Members(pending[c]))
=============================================================================
