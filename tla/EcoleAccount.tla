----------------------------- MODULE EcoleAccount -----------------------------
(***************************************************************************)
(* The ÉcoleDirecte accounts (backend ecole/service.ts, cadence.ts and the *)
(* account routes of routes.ts): when the service may connect by itself,   *)
(* what each answer of the remote server does to the account, and what an  *)
(* administrator may do meanwhile.                                         *)
(*                                                                         *)
(* One exchange at a time: connections and answers to the security         *)
(* question wait in one queue, `chain`.  The account is read when its turn *)
(* comes, and written when the remote server has answered; administrators  *)
(* write it at any moment.  Dates are kept as what the code asks of them:  *)
(* the age of the last attempt, a pause running or over.                   *)
(***************************************************************************)
EXTENDS Integers, Sequences

CONSTANTS
    Compte,
    Passage,          \* passages of the planner that may overlap
    Question,         \* security questions of the remote server
    Secret,           \* encryption keys (FOYER_SECRET_KEY)
    Version,          \* API versions (FOYER_ED_API_VERSION)
    Nothing,          \* no question, no version, no key
    MAX_FAILURES,     \* transient failures before a pause of six hours
    MaxTouches,       \* bound: gestures of the administrators
    MaxStops          \* bound: restarts of the service

ASSUME EcoleAssumption ==
    /\ Nothing \notin Question \union Secret \union Version
    /\ MAX_FAILURES \in Nat \ {0}

VARIABLES
    account,     \* the row of ed_accounts
    challenge,   \* challenge[a]: the question whose session is still in memory
    chain,       \* exchanges asked for, the first one in progress
    exchange,    \* how far it is, and the row it has read
    passage,     \* passage[p]: what p still has to look at, and has read
    ticking,     \* a passage goes through the accounts
    secret, version,   \* configuration of the process
    tries,       \* history: automatic logins of a that failed in a row
    touches, stops

configuration == <<secret, version>>
ecoleBounds == <<touches, stops>>
ecoleVars == <<account, challenge, chain, exchange, passage, ticking, secret, version, tries,
               touches, stops>>

Row == [enabled : BOOLEAN, archived : BOOLEAN,
        blocked : {"no", "qcm", "identifiants", "version", "cle"},
        detail : Version \union {Nothing}, question : Question \union {Nothing},
        failures : Nat, pause : {"none", "running", "over"}, alerted : BOOLEAN,
        age : {"now", "recent", "old"}, sealed : Secret, trusted : Secret \union {Nothing}]

Job == [what : {"connect", "answer"}, a : Compte, by : Passage \union {"human"}]
Stages == {"idle", "login", "question", "answer", "data"}
\* `rows`: the accounts as the passage has read them, `waits`: for an exchange
Passing == [st : {"off", "evening", "loop"}, todo : SUBSET Compte, rows : [Compte -> Row],
            waits : BOOLEAN]

EcoleTypeOK ==
    /\ account \in [Compte -> Row]
    /\ challenge \in [Compte -> Question \union {Nothing}]
    /\ chain \in Seq(Job)
    /\ exchange \in [st : Stages, row : Row, cached : BOOLEAN]
    /\ passage \in [Passage -> Passing]
    /\ ticking \in BOOLEAN
    /\ secret \in Secret /\ version \in Version
    /\ tries \in [Compte -> Nat] /\ touches \in Nat /\ stops \in Nat

NewRow(k) == [enabled |-> TRUE, archived |-> FALSE, blocked |-> "no", detail |-> Nothing,
              question |-> Nothing, failures |-> 0, pause |-> "none", alerted |-> FALSE,
              age |-> "old", sealed |-> k, trusted |-> Nothing]
unread == NewRow(CHOOSE k \in Secret : TRUE)     \* no row has been read
Quiescent == [st |-> "idle", row |-> unread, cached |-> FALSE]
Off == [st |-> "off", todo |-> {}, rows |-> [a \in Compte |-> unread], waits |-> FALSE]

EcoleInit ==
    /\ secret \in Secret /\ version \in Version
    /\ account = [a \in Compte |-> NewRow(secret)]
    /\ challenge = [a \in Compte |-> Nothing]
    /\ chain = <<>>
    /\ exchange = Quiescent
    /\ passage = [p \in Passage |-> Off]
    /\ ticking = FALSE
    /\ tries = [a \in Compte |-> 0]
    /\ touches = 0 /\ stops = 0

-----------------------------------------------------------------------------
(***************************************************************************)
(* What is written in the row.  `r` is the row the exchange has read, `now`*)
(* the row as it is when the answer comes.                                 *)
(***************************************************************************)
readable(r) == r.sealed = secret /\ ~r.archived
hasTrusted(r) == r.trusted = secret

\* alertOnce(): one alert per incident, on the word of the row read
alerting(r, now) == IF r.alerted THEN now.alerted ELSE TRUE

blockForKey(r) == [r EXCEPT !.blocked = "cle", !.alerted = TRUE]

succeeded(now) == [now EXCEPT !.failures = 0, !.pause = "none", !.blocked = "no",
                              !.detail = Nothing, !.question = Nothing, !.alerted = FALSE,
                              !.age = "now"]

asked(r, now, q, hadTrusted) ==
    [now EXCEPT !.question = q, !.blocked = "qcm", !.age = "now",
                !.trusted = IF hadTrusted THEN Nothing ELSE @, !.alerted = alerting(r, now)]

\* failures in a row: past the limit all numbers are alike, and counted as one
countedTo(n) == IF n > MAX_FAILURES THEN n ELSE n + 1

\* Mutant: the pause comes one failure late
failedLate(r, now, kind) ==
    LET n == countedTo(r.failures)
        tired == kind = "transient" /\ n > MAX_FAILURES
        after == [now EXCEPT !.age = "now",
                             !.alerted = IF kind # "transient" \/ tired THEN alerting(r, now) ELSE @]
    IN  CASE kind = "identifiants" -> [after EXCEPT !.blocked = "identifiants"]
          [] kind = "version" -> [after EXCEPT !.blocked = "version", !.detail = version]
          [] kind = "transient" -> [after EXCEPT !.failures = n,
                                                 !.pause = IF tired THEN "running" ELSE @]

failed(r, now, kind) ==
    LET n == countedTo(r.failures)
        tired == kind = "transient" /\ n >= MAX_FAILURES
        after == [now EXCEPT !.age = "now",
                             !.alerted = IF kind # "transient" \/ tired THEN alerting(r, now) ELSE @]
    IN  CASE kind = "identifiants" -> [after EXCEPT !.blocked = "identifiants"]
          [] kind = "version" -> [after EXCEPT !.blocked = "version", !.detail = version]
          [] kind = "transient" -> [after EXCEPT !.failures = n,
                                                 !.pause = IF tired THEN "running" ELSE @]

\* releaseBlocks(): blocks whose cause has gone, judged on the row read
releases(r) == \/ r.blocked = "version" /\ r.detail # version
               \/ r.blocked = "cle" /\ readable(r)
released(r, now) ==
    IF releases(r)
    THEN [now EXCEPT !.blocked = "no", !.alerted = FALSE,
                     !.detail = IF r.blocked = "version" THEN Nothing ELSE @]
    ELSE now

-----------------------------------------------------------------------------
(***************************************************************************)
(* An exchange, from its turn to its end.                                  *)
(***************************************************************************)
job == Head(chain)

\* the exchange ends: its passage goes on, the next one has its turn
finish ==
    /\ chain' = Tail(chain)
    /\ exchange' = Quiescent
    /\ passage' = IF job.by = "human" THEN passage
                  ELSE [passage EXCEPT ![job.by].waits = FALSE]

stay == UNCHANGED <<ticking, configuration, ecoleBounds>>

\* connectNow(): no row, no key, or a login is sent
Connect ==
    /\ chain # <<>> /\ exchange.st = "idle" /\ job.what = "connect"
    /\ LET r == account[job.a]
       IN  IF r.archived THEN finish /\ UNCHANGED <<account, challenge, tries>>
           ELSE IF ~readable(r)
           THEN /\ account' = [account EXCEPT ![job.a] = blockForKey(r)]
                /\ finish /\ UNCHANGED <<challenge, tries>>
           ELSE /\ exchange' = [st |-> "login", row |-> r, cached |-> FALSE]
                /\ UNCHANGED <<account, challenge, chain, passage, tries>>
    /\ stay

\* answerQcm(): on the session in memory, or on one opened again
Answer ==
    /\ chain # <<>> /\ exchange.st = "idle" /\ job.what = "answer"
    /\ LET r == account[job.a]
       IN  IF r.archived \/ r.question = Nothing
           THEN finish /\ UNCHANGED <<account, challenge, tries>>
           ELSE IF ~readable(r)
           THEN /\ account' = [account EXCEPT ![job.a] = blockForKey(r)]
                /\ finish /\ UNCHANGED <<challenge, tries>>
           ELSE /\ \E inTime \in BOOLEAN :
                     LET cached == inTime /\ challenge[job.a] = r.question
                     IN  exchange' = [st |-> IF cached THEN "answer" ELSE "question",
                                      row |-> r, cached |-> cached]
                /\ UNCHANGED <<account, challenge, chain, passage, tries>>
    /\ stay

\* a login accepted, by either: the data of the students follow
LoginOk ==
    /\ exchange.st \in {"login", "question"}
    /\ account' = [account EXCEPT ![job.a] = succeeded(@)]
    /\ challenge' = [challenge EXCEPT ![job.a] = Nothing]
    /\ exchange' = [exchange EXCEPT !.st = "data"]
    /\ tries' = [tries EXCEPT ![job.a] = 0]
    /\ UNCHANGED <<chain, passage>> /\ stay

DataEnds ==
    /\ exchange.st = "data"
    /\ finish
    /\ UNCHANGED <<account, challenge, tries>> /\ stay

\* a login answered by a question (250)
LoginAsks(q) ==
    /\ exchange.st = "login"
    /\ account' = [account EXCEPT
                       ![job.a] = asked(exchange.row, @, q, hasTrusted(exchange.row))]
    /\ challenge' = [challenge EXCEPT ![job.a] = q]
    /\ tries' = [tries EXCEPT ![job.a] = 0]
    /\ finish /\ stay

LoginFails(kind) ==
    /\ exchange.st = "login"
    /\ account' = [account EXCEPT ![job.a] = failed(exchange.row, @, kind)]
    /\ tries' = IF job.by = "human" THEN tries
                ELSE [tries EXCEPT ![job.a] = IF kind = "transient" THEN @ + 1 ELSE 0]
    /\ finish
    /\ UNCHANGED challenge /\ stay

\* the question again: the same one can be answered, when the answer kept is still
\* among its propositions (`offered`); it is shown otherwise, and so is another one
QuestionAgain(q, offered) ==
    /\ exchange.st = "question"
    /\ IF q = exchange.row.question /\ offered
       THEN /\ exchange' = [exchange EXCEPT !.st = "answer"]
            /\ UNCHANGED <<account, challenge, chain, passage>>
       ELSE /\ account' = [account EXCEPT ![job.a] = asked(exchange.row, @, q, FALSE)]
            /\ challenge' = [challenge EXCEPT ![job.a] = q]
            /\ finish
    /\ UNCHANGED tries /\ stay

\* the answer accepted: a trusted device, and a connection with it
AnswerOk ==
    /\ exchange.st = "answer"
    /\ LET r == [account[job.a] EXCEPT !.trusted = secret, !.question = Nothing, !.blocked = "no"]
       IN  /\ account' = [account EXCEPT ![job.a] = r]
           /\ challenge' = [challenge EXCEPT ![job.a] = Nothing]
           /\ IF readable(r)
              THEN /\ exchange' = [st |-> "login", row |-> r, cached |-> FALSE]
                   /\ UNCHANGED <<chain, passage>>
              ELSE finish
    /\ UNCHANGED tries /\ stay

\* Mutant: the question refused is no longer shown
AnswerFailsHidden(expired) ==
    /\ exchange.st \in {"question", "answer"}
    /\ IF expired /\ exchange.cached
       THEN /\ exchange.st = "answer"
            /\ exchange' = [exchange EXCEPT !.st = "question", !.cached = FALSE]
            /\ UNCHANGED <<account, challenge, chain, passage>>
       ELSE /\ challenge' = [challenge EXCEPT ![job.a] = Nothing]
            /\ account' = [account EXCEPT ![job.a].question = Nothing]
            /\ finish
    /\ UNCHANGED tries /\ stay

\* the answer, or the login before it, refused: the question stays; a session
\* found expired is opened again, once
AnswerFails(expired) ==
    /\ exchange.st \in {"question", "answer"}
    /\ IF expired /\ exchange.cached
       THEN /\ exchange.st = "answer"
            /\ exchange' = [exchange EXCEPT !.st = "question", !.cached = FALSE]
            /\ UNCHANGED <<challenge, chain, passage>>
       ELSE /\ challenge' = [challenge EXCEPT ![job.a] = Nothing]
            /\ finish
    /\ UNCHANGED <<account, tries>> /\ stay

Exchange ==
    \/ Connect \/ Answer \/ LoginOk \/ DataEnds \/ AnswerOk
    \/ \E q \in Question : LoginAsks(q) \/ \E offered \in BOOLEAN : QuestionAgain(q, offered)
    \/ \E kind \in {"identifiants", "version", "transient"} : LoginFails(kind)
    \/ \E expired \in BOOLEAN : AnswerFails(expired)

-----------------------------------------------------------------------------
(***************************************************************************)
(* A passage of the planner, every minute (ecoleTick).                     *)
(***************************************************************************)
\* Mutant: a pause that is over still counts
mayRunNever(r) == r.enabled /\ r.blocked = "no" /\ ~r.archived /\ r.pause = "none"

mayRun(r) == r.enabled /\ r.blocked = "no" /\ ~r.archived /\ r.pause # "running"
isDue(r) == r.age = "old"

\* `ticking` is read before the evening reminders, and set after them
ecoleTick(p) ==
    /\ ~ticking
    /\ passage[p].st = "off"
    /\ passage' = [passage EXCEPT ![p].st = "evening"]
    /\ UNCHANGED <<account, challenge, chain, exchange, tries>> /\ stay

\* at night, nothing else; by day, the accounts are read, once
NightEnds(p) ==
    /\ passage[p].st = "evening"
    /\ passage' = [passage EXCEPT ![p].st = "off"]
    /\ UNCHANGED <<account, challenge, chain, exchange, tries>> /\ stay

EveningEnds(p) ==
    /\ passage[p].st = "evening"
    /\ ticking' = TRUE
    /\ passage' = [passage EXCEPT ![p] =
                      [st |-> "loop", todo |-> {a \in Compte : ~account[a].archived},
                       rows |-> account, waits |-> FALSE]]
    /\ UNCHANGED <<account, challenge, chain, exchange, tries, configuration, ecoleBounds>>

\* the next account, as it was read: skipped, or queued and waited for
NextAccount(p) ==
    \E a \in passage[p].todo :
        LET r == passage[p].rows[a]
            seen == IF releases(r) THEN released(r, account[a]) ELSE r
            goes == mayRun(seen) /\ isDue(seen)
        IN  /\ passage[p].st = "loop" /\ ~passage[p].waits
            /\ account' = [account EXCEPT ![a] = released(r, @)]
            /\ chain' = IF goes THEN Append(chain, [what |-> "connect", a |-> a, by |-> p])
                                ELSE chain
            /\ passage' = [passage EXCEPT ![p].todo = @ \ {a}, ![p].waits = goes]
            /\ UNCHANGED <<challenge, exchange, tries>> /\ stay

PassageEnds(p) ==
    /\ passage[p].st = "loop" /\ passage[p].todo = {} /\ ~passage[p].waits
    /\ ticking' = FALSE
    /\ passage' = [passage EXCEPT ![p] = Off]
    /\ UNCHANGED <<account, challenge, chain, exchange, tries, configuration, ecoleBounds>>

-----------------------------------------------------------------------------
(***************************************************************************)
(* Time, administrators, restarts.                                         *)
(***************************************************************************)
Aged(a) ==
    /\ account[a].age # "old"
    /\ account' = [account EXCEPT ![a].age = IF @ = "now" THEN "recent" ELSE "old"]
    /\ UNCHANGED <<challenge, chain, exchange, passage, tries>> /\ stay

PauseOver(a) ==
    /\ account[a].pause = "running"
    /\ account' = [account EXCEPT ![a].pause = "over"]
    /\ tries' = [tries EXCEPT ![a] = 0]
    /\ UNCHANGED <<challenge, chain, exchange, passage>> /\ stay

touched ==
    /\ touches < MaxTouches
    /\ touches' = touches + 1
    /\ UNCHANGED <<challenge, exchange, passage, ticking, configuration, stops>>

asks(what, a) == chain' = Append(chain, [what |-> what, a |-> a, by |-> "human"])

\* PUT /comptes/:id with credentials, tried at once
updateAccount(a) ==
    LET r == account[a]
    IN  /\ ~r.archived
        /\ account' = [account EXCEPT ![a] =
               [r EXCEPT !.sealed = secret, !.alerted = FALSE, !.failures = 0, !.pause = "none",
                         !.blocked = IF @ \in {"identifiants", "cle"} THEN "no" ELSE @,
                         !.trusted = IF hasTrusted(r) THEN @ ELSE Nothing]]
        /\ IF r.enabled THEN asks("connect", a) ELSE UNCHANGED chain
        /\ tries' = [tries EXCEPT ![a] = 0]
        /\ touched

\* POST .../connexion: "Synchroniser maintenant"
syncNow(a) ==
    LET r == released(account[a], account[a])
    IN  /\ ~r.archived
        /\ r.blocked \notin {"qcm", "identifiants", "cle"} /\ readable(r) /\ r.age # "now"
        /\ account' = [account EXCEPT ![a] = r]
        /\ asks("connect", a)
        /\ UNCHANGED tries /\ touched

\* POST .../qcm: one of the propositions
postAnswer(a) ==
    /\ ~account[a].archived /\ account[a].question # Nothing
    /\ asks("answer", a)
    /\ UNCHANGED <<account, tries>> /\ touched

setPaused(a, paused) ==
    /\ ~account[a].archived
    /\ account' = [account EXCEPT ![a] =
           IF paused THEN [@ EXCEPT !.enabled = FALSE]
           ELSE [@ EXCEPT !.enabled = TRUE, !.pause = "none", !.failures = 0, !.alerted = FALSE]]
    /\ tries' = [tries EXCEPT ![a] = IF paused THEN @ ELSE 0]
    /\ UNCHANGED chain /\ touched

\* DELETE /comptes/:id: its secrets are erased
archiveAccount(a) ==
    /\ ~account[a].archived
    /\ account' = [account EXCEPT ![a].archived = TRUE, ![a].enabled = FALSE,
                                  ![a].question = Nothing, ![a].trusted = Nothing]
    /\ UNCHANGED <<chain, tries>> /\ touched

\* The service is restarted, with another key or version perhaps
RestartService ==
    /\ stops < MaxStops
    /\ stops' = stops + 1
    /\ secret' \in Secret /\ version' \in Version
    /\ chain' = <<>>
    /\ exchange' = Quiescent
    /\ challenge' = [a \in Compte |-> Nothing]
    /\ passage' = [p \in Passage |-> Off]
    /\ ticking' = FALSE
    /\ UNCHANGED <<account, tries, touches>>

EcoleNext ==
    \/ Exchange
    \/ \E p \in Passage : \/ ecoleTick(p) \/ NightEnds(p) \/ EveningEnds(p)
                          \/ NextAccount(p) \/ PassageEnds(p)
    \/ \E a \in Compte :
           \/ Aged(a) \/ PauseOver(a)
           \/ updateAccount(a) \/ syncNow(a) \/ postAnswer(a) \/ archiveAccount(a)
           \/ \E paused \in BOOLEAN : setPaused(a, paused)
    \/ RestartService

EcoleSpec == EcoleInit /\ [][EcoleNext]_ecoleVars

-----------------------------------------------------------------------------
\* An account blocked by a security question has the question to answer: the
\* screen shows it, and nothing else can lift that block.
QuestionToAnswer ==
    \A a \in Compte : account[a].blocked = "qcm" /\ ~account[a].archived
                           => account[a].question # Nothing

\* "au troisième échec de suite, pause automatique de six heures": whatever the
\* administrators do meanwhile, the planner fails at most MAX_FAILURES times in
\* a row between two pauses (its passages not overlapping).
NotInsistent == \A a \in Compte : tries[a] <= MAX_FAILURES

\* An account nobody blocked, paused or withdrew is contacted again and again:
\* no failed exchange, restart or interrupted passage silences it.
Reachable(a) == account[a].enabled /\ account[a].blocked = "no" /\ ~account[a].archived
ComesBack == \A a \in Compte : Reachable(a) ~> account[a].age = "now" \/ ~Reachable(a)
=============================================================================
