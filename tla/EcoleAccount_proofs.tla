------------------------- MODULE EcoleAccount_proofs -------------------------
(***************************************************************************)
(* Theorems about EcoleAccount, for any accounts, questions, keys, versions*)
(* and restarts: an account blocked by a question shows it, and the planner*)
(* does not fail more than it may in a row, when its passages do not       *)
(* overlap.                                                                *)
(***************************************************************************)
EXTENDS EcoleAccount, TLAPS

\* The rows that tell what blocks them
Telling == {r \in Row : r.blocked = "qcm" /\ ~r.archived => r.question # Nothing}

\* An exchange in progress is the first of the queue, whatever is queued behind
InTurn == exchange.st # "idle" => chain # <<>>

\* The inductive invariant
EcoleIInv ==
    /\ account \in [Compte -> Telling]
    /\ chain \in Seq(Job)
    /\ exchange.row \in Row
    /\ passage \in [Passage -> Passing]
    /\ secret \in Secret /\ version \in Version
    /\ InTurn

-----------------------------------------------------------------------------
(***************************************************************************)
(* What is written in a row.                                               *)
(***************************************************************************)
\* Counting a failure gives a number.
LEMMA FailureCounted == ASSUME NEW n \in Nat PROVE countedTo(n) \in Nat
BY DEF countedTo

\* An alert is given or not.
LEMMA AlertIsBoolean ==
    ASSUME NEW r \in Row, NEW now \in Row PROVE alerting(r, now) \in BOOLEAN
BY DEF alerting, Row

\* A success, a block for the key: neither is a question's.
LEMMA OtherwiseTelling ==
    ASSUME NEW r \in Row PROVE succeeded(r) \in Telling /\ blockForKey(r) \in Telling
<1>1. succeeded(r) \in Row /\ succeeded(r).blocked = "no"
    BY DEF succeeded, Row
<1>2. blockForKey(r) \in Row /\ blockForKey(r).blocked = "cle"
    BY DEF blockForKey, Row
<1> QED BY <1>1, <1>2 DEF Telling

\* The block comes with its question.
LEMMA AskedTelling ==
    ASSUME NEW r \in Row, NEW now \in Row, NEW q \in Question, NEW h \in BOOLEAN
    PROVE  asked(r, now, q, h) \in Telling
<1>1. q # Nothing
    BY EcoleAssumption
<1> DEFINE al == alerting(r, now)
<1>2. al \in BOOLEAN
    BY AlertIsBoolean
<1>3. asked(r, now, q, h) =
          [now EXCEPT !.question = q, !.blocked = "qcm", !.age = "now",
                      !.trusted = IF h THEN Nothing ELSE @, !.alerted = al]
    BY DEF asked
<1> HIDE DEF al
<1>4. asked(r, now, q, h) \in Row /\ asked(r, now, q, h).question = q
    BY <1>2, <1>3 DEF Row
<1> QED BY <1>1, <1>4 DEF Telling

\* A failure leaves the question where it is.
LEMMA FailedTelling ==
    ASSUME NEW r \in Row, NEW now \in Telling, version \in Version,
           NEW kind \in {"identifiants", "version", "transient"}
    PROVE  failed(r, now, kind) \in Telling
<1> DEFINE n == countedTo(r.failures)
           tired == kind = "transient" /\ n >= MAX_FAILURES
           al == IF kind # "transient" \/ tired THEN alerting(r, now) ELSE now.alerted
           after == [now EXCEPT !.age = "now", !.alerted = al]
<1>1. n \in Nat
    BY FailureCounted DEF Row
<1>2. al \in BOOLEAN
    BY AlertIsBoolean DEF Telling, Row
<1> HIDE DEF n, al, tired
<1>3. /\ after \in Row /\ after.blocked = now.blocked /\ after.archived = now.archived
      /\ after.question = now.question
    BY <1>2 DEF Telling, Row
<1>4. after \in Telling
    BY <1>3 DEF Telling
<1> HIDE DEF after
<1>5. CASE kind = "identifiants"
  <2>1. failed(r, now, kind) = [after EXCEPT !.blocked = "identifiants"]
      BY <1>5 DEF failed, after, al, n, tired
  <2>2. failed(r, now, kind) \in Row /\ failed(r, now, kind).blocked = "identifiants"
      BY <2>1, <1>3 DEF Row
  <2> QED BY <2>2 DEF Telling
<1>6. CASE kind = "version"
  <2>1. failed(r, now, kind) = [after EXCEPT !.blocked = "version", !.detail = version]
      BY <1>6 DEF failed, after, al, n, tired
  <2>2. failed(r, now, kind) \in Row /\ failed(r, now, kind).blocked = "version"
      BY <2>1, <1>3 DEF Row
  <2> QED BY <2>2 DEF Telling
<1>7. CASE kind = "transient"
  <2>1. failed(r, now, kind) = [after EXCEPT !.failures = n,
                                             !.pause = IF tired THEN "running" ELSE @]
      BY <1>7 DEF failed, after, al, n, tired
  <2> DEFINE f == failed(r, now, kind)
  <2>2. f \in Row /\ f.blocked = after.blocked /\ f.archived = after.archived
        /\ f.question = after.question
      BY <2>1, <1>1, <1>3 DEF Row
  <2> QED BY <2>2, <1>4 DEF Telling
<1> QED BY <1>5, <1>6, <1>7

\* A block lifted blocks no more; else the row is as it was.
LEMMA ReleasedTelling ==
    ASSUME NEW r \in Row, NEW now \in Telling PROVE released(r, now) \in Telling
<1>1. CASE releases(r)
  <2>1. released(r, now) = [now EXCEPT !.blocked = "no", !.alerted = FALSE,
                                !.detail = IF r.blocked = "version" THEN Nothing ELSE @]
      BY <1>1 DEF released
  <2>2. released(r, now) \in Row /\ released(r, now).blocked = "no"
      BY <2>1 DEF Row, Telling
  <2> QED BY <2>2 DEF Telling
<1>2. CASE ~releases(r)
    BY <1>2 DEF released
<1> QED BY <1>1, <1>2

-----------------------------------------------------------------------------
(***************************************************************************)
(* The steps.                                                              *)
(***************************************************************************)
\* The row of an exchange that has read none.
LEMMA Unread == secret \in Secret => unread \in Row
<1>1. \A k \in Secret : NewRow(k) \in Row
    BY DEF NewRow, Row
<1> QED BY <1>1 DEF unread

\* At first nothing is blocked, read or queued.
LEMMA InitEcole == EcoleInit => EcoleIInv
<1> SUFFICES ASSUME EcoleInit PROVE EcoleIInv
    OBVIOUS
<1>1. \A k \in Secret : NewRow(k) \in Row /\ NewRow(k).blocked = "no"
    BY DEF NewRow, Row
<1>2. unread \in Row
    BY Unread DEF EcoleInit
<1>3. account \in [Compte -> Telling]
    BY <1>1 DEF EcoleInit, Telling
<1>4. Off \in Passing
    BY <1>2 DEF Off, Passing
<1> QED BY <1>2, <1>3, <1>4 DEF EcoleInit, EcoleIInv, InTurn, Quiescent

\* An exchange ends, and leaves its turn.
LEMMA Finishing ==
    ASSUME EcoleIInv, chain # <<>>, finish
    PROVE  /\ chain' \in Seq(Job) /\ exchange'.row \in Row /\ InTurn'
           /\ passage' \in [Passage -> Passing]
<1> USE DEF EcoleIInv
<1>1. chain' = Tail(chain) /\ exchange' = Quiescent
    BY DEF finish
<1>2. exchange'.row \in Row /\ InTurn'
    BY <1>1, Unread DEF Quiescent, InTurn
<1>3. job \in Job
    BY DEF job
<1>4. passage' \in [Passage -> Passing]
  <2>1. CASE job.by = "human"
      BY <2>1 DEF finish
  <2>2. CASE job.by # "human"
    <3>1. job.by \in Passage /\ passage' = [passage EXCEPT ![job.by].waits = FALSE]
        BY <2>2, <1>3 DEF finish, Job
    <3>2. \A x \in Passing : [x EXCEPT !.waits = FALSE] \in Passing
        BY DEF Passing
    <3>3. passage' = [passage EXCEPT ![job.by] = [passage[job.by] EXCEPT !.waits = FALSE]]
        BY <3>1
    <3> HIDE DEF Passing
    <3> QED BY <3>1, <3>2, <3>3
  <2> QED BY <2>1, <2>2
<1> QED BY <1>1, <1>2, <1>4

\* One account gets a row that tells what blocks it.
LEMMA Writing ==
    ASSUME account \in [Compte -> Telling], NEW a \in Compte, NEW r \in Telling,
           account' = [account EXCEPT ![a] = r]
    PROVE  account' \in [Compte -> Telling]
OBVIOUS

\* The exchange that has its turn: its row, its questions, its failures.
LEMMA ExchangeKeeps == EcoleIInv /\ Exchange => EcoleIInv'
<1> SUFFICES ASSUME EcoleIInv, Exchange PROVE EcoleIInv'
    OBVIOUS
<1> USE DEF EcoleIInv
<1>1. chain # <<>> /\ job \in Job /\ job.a \in Compte
  <2>1. chain # <<>>
      BY DEF Exchange, Connect, Answer, LoginOk, DataEnds, AnswerOk, LoginAsks, QuestionAgain,
             LoginFails, AnswerFails, InTurn
  <2>2. job \in Job
      BY <2>1 DEF job
  <2> QED BY <2>1, <2>2 DEF Job
<1>2. UNCHANGED configuration
    BY DEF Exchange, Connect, Answer, LoginOk, DataEnds, AnswerOk, LoginAsks, QuestionAgain,
           LoginFails, AnswerFails, stay
<1> DEFINE now == account[job.a]
           kept == /\ chain' \in Seq(Job) /\ exchange'.row \in Row /\ InTurn'
                   /\ passage' \in [Passage -> Passing]
<1>3. now \in Telling /\ now \in Row
    BY <1>1 DEF Telling
<1>4. finish => kept
    BY <1>1, Finishing
<1>5. ASSUME UNCHANGED <<chain, passage>>, exchange'.row \in Row PROVE kept
    BY <1>1, <1>5 DEF InTurn
<1>6. ASSUME kept, NEW r \in Telling, account' = [account EXCEPT ![job.a] = r] PROVE EcoleIInv'
    BY <1>1, <1>2, <1>6, Writing DEF configuration
<1>7. ASSUME kept, account' = account PROVE EcoleIInv'
    BY <1>2, <1>7 DEF configuration
<1> HIDE DEF kept
<1>8. CASE Connect
  <2>1. CASE now.archived
      BY <1>4, <1>7, <1>8, <2>1 DEF Connect
  <2>2. CASE ~now.archived /\ ~readable(now)
    <3>1. account' = [account EXCEPT ![job.a] = blockForKey(now)] /\ finish
        BY <1>8, <2>2 DEF Connect
    <3> QED BY <1>3, <1>4, <1>6, <3>1, OtherwiseTelling
  <2>3. CASE ~now.archived /\ readable(now)
    <3>1. /\ exchange' = [st |-> "login", row |-> now, cached |-> FALSE]
          /\ UNCHANGED <<account, chain, passage>>
        BY <1>8, <2>3 DEF Connect
    <3>2. exchange'.row = now
        BY <3>1
    <3> QED BY <1>3, <1>5, <1>7, <3>1, <3>2
  <2> QED BY <2>1, <2>2, <2>3
<1>9. CASE Answer
  <2>1. CASE now.archived \/ now.question = Nothing
      BY <1>4, <1>7, <1>9, <2>1 DEF Answer
  <2>2. CASE ~(now.archived \/ now.question = Nothing) /\ ~readable(now)
    <3>1. account' = [account EXCEPT ![job.a] = blockForKey(now)] /\ finish
        BY <1>9, <2>2 DEF Answer
    <3> QED BY <1>3, <1>4, <1>6, <3>1, OtherwiseTelling
  <2>3. CASE ~(now.archived \/ now.question = Nothing) /\ readable(now)
    <3>1. /\ exchange'.row = now
          /\ UNCHANGED <<account, chain, passage>>
        BY <1>9, <2>3 DEF Answer
    <3> QED BY <1>3, <1>5, <1>7, <3>1
  <2> QED BY <2>1, <2>2, <2>3
<1>10. CASE LoginOk
  <2>1. /\ account' = [account EXCEPT ![job.a] = succeeded(now)]
        /\ exchange' = [exchange EXCEPT !.st = "data"] /\ UNCHANGED <<chain, passage>>
      BY <1>1, <1>10 DEF LoginOk
  <2>2. exchange'.row = exchange.row
      BY <2>1
  <2> QED BY <1>3, <1>5, <1>6, <2>1, <2>2, OtherwiseTelling
<1>11. CASE DataEnds
    BY <1>4, <1>7, <1>11 DEF DataEnds
<1>12. ASSUME NEW q \in Question, LoginAsks(q) PROVE EcoleIInv'
  <2>1. account' = [account EXCEPT ![job.a] = asked(exchange.row, now, q,
                                                    hasTrusted(exchange.row))] /\ finish
      BY <1>1, <1>12 DEF LoginAsks
  <2>2. hasTrusted(exchange.row) \in BOOLEAN
      BY DEF hasTrusted
  <2>3. asked(exchange.row, now, q, hasTrusted(exchange.row)) \in Telling
      BY <1>3, <2>2, AskedTelling
  <2> QED BY <1>4, <1>6, <2>1, <2>3
<1>13. ASSUME NEW kind \in {"identifiants", "version", "transient"}, LoginFails(kind)
       PROVE  EcoleIInv'
  <2>1. account' = [account EXCEPT ![job.a] = failed(exchange.row, now, kind)] /\ finish
      BY <1>1, <1>13 DEF LoginFails
  <2>2. failed(exchange.row, now, kind) \in Telling
      BY <1>3, FailedTelling
  <2> QED BY <1>4, <1>6, <2>1, <2>2
<1>14. ASSUME NEW q \in Question, NEW offered \in BOOLEAN,
              QuestionAgain(q, offered)
       PROVE  EcoleIInv'
  <2>1. CASE q = exchange.row.question /\ offered
    <3>1. /\ exchange' = [exchange EXCEPT !.st = "answer"]
          /\ UNCHANGED <<account, chain, passage>>
        BY <1>14, <2>1 DEF QuestionAgain
    <3>2. exchange'.row = exchange.row
        BY <3>1
    <3> QED BY <1>5, <1>7, <3>1, <3>2
  <2>2. CASE ~(q = exchange.row.question /\ offered)
    <3>1. account' = [account EXCEPT ![job.a] = asked(exchange.row, now, q, FALSE)] /\ finish
        BY <1>1, <1>14, <2>2 DEF QuestionAgain
    <3>2. asked(exchange.row, now, q, FALSE) \in Telling
        BY <1>3, AskedTelling
    <3> QED BY <1>4, <1>6, <3>1, <3>2
  <2> QED BY <2>1, <2>2
<1>15. CASE AnswerOk
  <2> DEFINE r == [now EXCEPT !.trusted = secret, !.question = Nothing, !.blocked = "no"]
  <2>1. r \in Row /\ r.blocked = "no"
      BY <1>3 DEF Row
  <2>2. /\ account' = [account EXCEPT ![job.a] = r]
        /\ \/ /\ exchange' = [st |-> "login", row |-> r, cached |-> FALSE]
              /\ UNCHANGED <<chain, passage>>
           \/ finish
      BY <1>15 DEF AnswerOk
  <2> HIDE DEF r
  <2>3. r \in Telling
      BY <2>1 DEF Telling
  <2>4. CASE finish
      BY <1>4, <1>6, <2>2, <2>3, <2>4
  <2>5. CASE exchange' = [st |-> "login", row |-> r, cached |-> FALSE]
             /\ UNCHANGED <<chain, passage>>
    <3>1. exchange'.row = r
        BY <2>5
    <3> QED BY <1>5, <1>6, <2>1, <2>2, <2>3, <2>5, <3>1
  <2> QED BY <2>2, <2>4, <2>5
<1>16. ASSUME NEW expired \in BOOLEAN, AnswerFails(expired) PROVE EcoleIInv'
  <2>1. /\ account' = account
        /\ \/ /\ exchange' = [exchange EXCEPT !.st = "question", !.cached = FALSE]
              /\ UNCHANGED <<chain, passage>>
           \/ finish
      BY <1>16 DEF AnswerFails
  <2>2. CASE finish
      BY <1>4, <1>7, <2>1, <2>2
  <2>3. CASE exchange' = [exchange EXCEPT !.st = "question", !.cached = FALSE]
             /\ UNCHANGED <<chain, passage>>
    <3>1. exchange'.row = exchange.row
        BY <2>3
    <3> QED BY <1>5, <1>7, <2>1, <2>3, <3>1
  <2> QED BY <2>1, <2>2, <2>3
<1> QED BY <1>8, <1>9, <1>10, <1>11, <1>12, <1>13, <1>14, <1>15, <1>16 DEF Exchange

\* A passage of the planner.
LEMMA PassageKeeps ==
    ASSUME EcoleIInv, NEW p \in Passage,
           \/ ecoleTick(p) \/ NightEnds(p) \/ EveningEnds(p) \/ NextAccount(p) \/ PassageEnds(p)
    PROVE  EcoleIInv'
<1> USE DEF EcoleIInv
<1>1. UNCHANGED <<exchange, configuration>>
    BY DEF ecoleTick, NightEnds, EveningEnds, NextAccount, PassageEnds, stay
<1>2. passage[p] \in Passing
    OBVIOUS
<1>3. ASSUME NEW x \in Passing, UNCHANGED <<account, chain>>, passage' = [passage EXCEPT ![p] = x]
      PROVE  EcoleIInv'
  <2>1. passage' \in [Passage -> Passing]
      BY <1>3
  <2> QED BY <1>1, <1>3, <2>1 DEF configuration, InTurn
<1>4. CASE ecoleTick(p) \/ NightEnds(p)
  <2>1. \A st \in {"evening", "off"} : [passage[p] EXCEPT !.st = st] \in Passing
      BY <1>2 DEF Passing
  <2>2. /\ UNCHANGED <<account, chain>>
        /\ \/ passage' = [passage EXCEPT ![p] = [passage[p] EXCEPT !.st = "evening"]]
           \/ passage' = [passage EXCEPT ![p] = [passage[p] EXCEPT !.st = "off"]]
      BY <1>4 DEF ecoleTick, NightEnds
  <2> QED BY <1>3, <2>1, <2>2
<1>5. CASE EveningEnds(p)
  <2> DEFINE x == [st |-> "loop", todo |-> {a \in Compte : ~account[a].archived},
                   rows |-> account, waits |-> FALSE]
  <2>1. account \in [Compte -> Row]
      BY DEF Telling
  <2>2. x \in Passing
      BY <2>1 DEF Passing
  <2>3. UNCHANGED <<account, chain>> /\ passage' = [passage EXCEPT ![p] = x]
      BY <1>5 DEF EveningEnds
  <2> HIDE DEF x
  <2> QED BY <1>3, <2>2, <2>3
<1>6. CASE PassageEnds(p)
  <2>1. Off \in Passing
      BY Unread DEF Off, Passing
  <2> QED BY <1>3, <1>6, <2>1 DEF PassageEnds
<1>7. CASE NextAccount(p)
  <2>1. PICK a \in passage[p].todo, goes \in BOOLEAN :
            /\ account' = [account EXCEPT ![a] = released(passage[p].rows[a], @)]
            /\ chain' = IF goes THEN Append(chain, [what |-> "connect", a |-> a, by |-> p])
                                ELSE chain
            /\ passage' = [passage EXCEPT ![p].todo = @ \ {a}, ![p].waits = goes]
      BY <1>7 DEF NextAccount, mayRun, isDue
  <2>2. a \in Compte /\ passage[p].rows[a] \in Row
      BY <1>2 DEF Passing
  <2>3. account' \in [Compte -> Telling]
    <3>1. account[a] \in Telling
        BY <2>2
    <3>2. released(passage[p].rows[a], account[a]) \in Telling
        BY <2>2, <3>1, ReleasedTelling
    <3> QED BY <2>1, <2>2, <3>2
  <2>4. [what |-> "connect", a |-> a, by |-> p] \in Job
      BY <2>2 DEF Job
  <2>5. chain' \in Seq(Job) /\ (chain # <<>> => chain' # <<>>)
      BY <2>1, <2>4
  <2>6. passage' \in [Passage -> Passing]
    <3>1. [passage[p] EXCEPT !.todo = @ \ {a}, !.waits = goes] \in Passing
        BY <1>2 DEF Passing
    <3>2. passage' = [passage EXCEPT ![p] = [passage[p] EXCEPT !.todo = @ \ {a}, !.waits = goes]]
        BY <2>1
    <3> QED BY <3>1, <3>2
  <2> QED BY <1>1, <2>3, <2>5, <2>6 DEF configuration, InTurn
<1> QED BY <1>4, <1>5, <1>6, <1>7

\* Time, the administrators.
LEMMA GesturesKeep ==
    ASSUME EcoleIInv, NEW a \in Compte,
           \/ Aged(a) \/ PauseOver(a)
           \/ updateAccount(a) \/ syncNow(a) \/ postAnswer(a) \/ archiveAccount(a)
           \/ \E paused \in BOOLEAN : setPaused(a, paused)
    PROVE  EcoleIInv'
<1> USE DEF EcoleIInv
<1> DEFINE now == account[a]
<1>1. UNCHANGED <<exchange, passage, configuration>>
    BY DEF Aged, PauseOver, updateAccount, syncNow, postAnswer, archiveAccount, setPaused,
           stay, touched
<1>2. now \in Telling /\ now \in Row
    BY DEF Telling
<1>3. chain' \in Seq(Job) /\ (chain # <<>> => chain' # <<>>)
  <2>1. \/ UNCHANGED chain
        \/ \E what \in {"connect", "answer"} : asks(what, a)
      BY DEF Aged, PauseOver, updateAccount, syncNow, postAnswer, archiveAccount, setPaused
  <2>2. ASSUME NEW what \in {"connect", "answer"}, asks(what, a)
        PROVE  chain' \in Seq(Job) /\ chain' # <<>>
    <3>1. [what |-> what, a |-> a, by |-> "human"] \in Job
        BY DEF Job
    <3> QED BY <2>2, <3>1 DEF asks
  <2> QED BY <2>1, <2>2
<1>4. ASSUME NEW r \in Telling, account' = [account EXCEPT ![a] = r] PROVE EcoleIInv'
  <2>1. account' \in [Compte -> Telling]
      BY <1>4
  <2> QED BY <1>1, <1>3, <2>1 DEF configuration, InTurn
<1>5. ASSUME NEW r \in Row, r.blocked = now.blocked \/ r.blocked = "no",
             r.archived = now.archived, r.question = now.question,
             account' = [account EXCEPT ![a] = r]
      PROVE  EcoleIInv'
  <2>1. r \in Telling
      BY <1>2, <1>5 DEF Telling
  <2> QED BY <1>4, <1>5, <2>1
<1>6. CASE Aged(a)
  <2>1. PICK g \in {"recent", "old"} : account' = [account EXCEPT ![a] = [now EXCEPT !.age = g]]
      BY <1>6 DEF Aged
  <2> DEFINE r == [now EXCEPT !.age = g]
  <2>2. r \in Row /\ r.blocked = now.blocked /\ r.archived = now.archived
        /\ r.question = now.question
      BY <1>2 DEF Row
  <2> HIDE DEF r
  <2> QED BY <1>5, <2>1, <2>2 DEF r
<1>7. CASE PauseOver(a)
  <2> DEFINE r == [now EXCEPT !.pause = "over"]
  <2>1. account' = [account EXCEPT ![a] = r]
      BY <1>7 DEF PauseOver
  <2>2. r \in Row /\ r.blocked = now.blocked /\ r.archived = now.archived
        /\ r.question = now.question
      BY <1>2 DEF Row
  <2> HIDE DEF r
  <2> QED BY <1>5, <2>1, <2>2
<1>8. CASE updateAccount(a)
  <2> DEFINE b == IF now.blocked \in {"identifiants", "cle"} THEN "no" ELSE now.blocked
             k == IF hasTrusted(now) THEN now.trusted ELSE Nothing
             r == [now EXCEPT !.sealed = secret, !.alerted = FALSE, !.failures = 0,
                              !.pause = "none", !.blocked = b, !.trusted = k]
  <2>1. account' = [account EXCEPT ![a] = r]
      BY <1>8 DEF updateAccount
  <2>2. /\ b \in {"no", "qcm", "identifiants", "version", "cle"} /\ (b = now.blocked \/ b = "no")
        /\ k \in Secret \union {Nothing}
      BY <1>2 DEF Row
  <2> HIDE DEF b, k
  <2>3. r \in Row /\ (r.blocked = now.blocked \/ r.blocked = "no")
        /\ r.archived = now.archived /\ r.question = now.question
      BY <1>2, <2>2 DEF Row
  <2> HIDE DEF r
  <2> QED BY <1>5, <2>1, <2>3
<1>9. CASE syncNow(a)
  <2>1. account' = [account EXCEPT ![a] = released(now, now)]
      BY <1>9 DEF syncNow
  <2> QED BY <1>2, <1>4, <2>1, ReleasedTelling
<1>10. CASE postAnswer(a)
  <2>1. UNCHANGED account
      BY <1>10 DEF postAnswer
  <2> QED BY <1>1, <1>3, <2>1 DEF configuration, InTurn
<1>11. CASE archiveAccount(a)
  <2> DEFINE r == [now EXCEPT !.archived = TRUE, !.enabled = FALSE, !.question = Nothing,
                              !.trusted = Nothing]
  <2>1. account' = [account EXCEPT ![a] = r]
      BY <1>11 DEF archiveAccount
  <2>2. r \in Row /\ r.archived
      BY <1>2 DEF Row
  <2> HIDE DEF r
  <2>3. r \in Telling
      BY <2>2 DEF Telling
  <2> QED BY <1>4, <2>1, <2>3
<1>12. ASSUME NEW paused \in BOOLEAN, setPaused(a, paused) PROVE EcoleIInv'
  <2>1. CASE paused
    <3> DEFINE r == [now EXCEPT !.enabled = FALSE]
    <3>1. account' = [account EXCEPT ![a] = r]
        BY <1>12, <2>1 DEF setPaused
    <3>2. r \in Row /\ r.blocked = now.blocked /\ r.archived = now.archived
          /\ r.question = now.question
        BY <1>2 DEF Row
    <3> HIDE DEF r
    <3> QED BY <1>5, <3>1, <3>2
  <2>2. CASE ~paused
    <3> DEFINE r == [now EXCEPT !.enabled = TRUE, !.pause = "none", !.failures = 0,
                                !.alerted = FALSE]
    <3>1. account' = [account EXCEPT ![a] = r]
        BY <1>12, <2>2 DEF setPaused
    <3>2. r \in Row /\ r.blocked = now.blocked /\ r.archived = now.archived
          /\ r.question = now.question
        BY <1>2 DEF Row
    <3> HIDE DEF r
    <3> QED BY <1>5, <3>1, <3>2
  <2> QED BY <2>1, <2>2
<1> QED BY <1>6, <1>7, <1>8, <1>9, <1>10, <1>11, <1>12

\* The service starts again, under another key perhaps: the rows are as they were.
LEMMA RestartKeeps == EcoleIInv /\ RestartService => EcoleIInv'
<1> SUFFICES ASSUME EcoleIInv, RestartService PROVE EcoleIInv'
    OBVIOUS
<1>1. /\ secret' \in Secret /\ version' \in Version /\ chain' = <<>>
      /\ exchange' = Quiescent /\ passage' = [p \in Passage |-> Off] /\ UNCHANGED account
    BY DEF RestartService
<1>2. unread \in Row
    BY Unread DEF EcoleIInv
<1>3. Off \in Passing /\ Quiescent.row \in Row /\ Quiescent.st = "idle"
    BY <1>2 DEF Off, Passing, Quiescent
<1> QED BY <1>1, <1>3 DEF EcoleIInv, InTurn

\* Every step keeps the invariant.
LEMMA NextEcole == EcoleIInv /\ [EcoleNext]_ecoleVars => EcoleIInv'
<1> SUFFICES ASSUME EcoleIInv, [EcoleNext]_ecoleVars PROVE EcoleIInv'
    OBVIOUS
<1>1. CASE UNCHANGED ecoleVars
    BY <1>1 DEF EcoleIInv, ecoleVars, configuration, InTurn
<1>2. CASE Exchange
    BY <1>2, ExchangeKeeps
<1>3. ASSUME NEW p \in Passage,
             \/ ecoleTick(p) \/ NightEnds(p) \/ EveningEnds(p) \/ NextAccount(p)
             \/ PassageEnds(p)
      PROVE  EcoleIInv'
    BY <1>3, PassageKeeps
<1>4. ASSUME NEW a \in Compte,
             \/ Aged(a) \/ PauseOver(a)
             \/ updateAccount(a) \/ syncNow(a) \/ postAnswer(a) \/ archiveAccount(a)
             \/ \E paused \in BOOLEAN : setPaused(a, paused)
      PROVE  EcoleIInv'
    BY <1>4, GesturesKeep
<1>5. CASE RestartService
    BY <1>5, RestartKeeps
<1> QED BY <1>1, <1>2, <1>3, <1>4, <1>5 DEF EcoleNext

\* QuestionToAnswer holds in every reachable state: whatever overlaps an exchange,
\* no answer of ÉcoleDirecte (ecole/service.ts) blocks an account without a question.
THEOREM BlockedAccountsAsk == EcoleSpec => []QuestionToAnswer
<1>1. EcoleIInv => QuestionToAnswer
    BY DEF EcoleIInv, Telling, QuestionToAnswer
<1> QED BY <1>1, InitEcole, NextEcole, PTL DEF EcoleSpec

-----------------------------------------------------------------------------
(***************************************************************************)
(* Failures in a row, when passages do not overlap.                        *)
(***************************************************************************)
\* The row counts every failure of the planner, and the pause knows the last
RowsCount ==
    \A a \in Compte : /\ tries[a] <= MAX_FAILURES
                      /\ tries[a] <= account[a].failures
                      /\ account[a].pause # "running" => tries[a] < MAX_FAILURES

\* ... and so does the row that the login under way has read
LoginCounts == exchange.st = "login" => tries[job.a] <= exchange.row.failures

\* What a passage has still to look at, and what it queued, may fail once more
PassageCalm ==
    \A p \in Passage :
        /\ passage[p].waits => passage[p].st = "loop"
        /\ \A a \in passage[p].todo :
               passage[p].rows[a].pause # "running" => tries[a] < MAX_FAILURES

ChainCalm ==
    \A i \in 1..Len(chain) : chain[i].by # "human" =>
        /\ tries[chain[i].a] < MAX_FAILURES
        /\ passage[chain[i].by].waits
        /\ chain[i].a \notin passage[chain[i].by].todo

OneQueued ==
    \A i, j \in 1..Len(chain) : chain[i].by # "human" /\ chain[j].by # "human" => i = j

CalmInv == /\ tries \in [Compte -> Nat]
           /\ RowsCount /\ LoginCounts /\ PassageCalm /\ ChainCalm /\ OneQueued

OnePassage == \A p, q \in Passage : p = q

\* At first nothing has failed.
LEMMA InitCalm == EcoleInit => CalmInv
<1> SUFFICES ASSUME EcoleInit PROVE CalmInv
    OBVIOUS
<1>1. MAX_FAILURES \in Nat \ {0}
    BY EcoleAssumption
<1>2. RowsCount
  <2>1. \A k : NewRow(k).failures = 0 /\ NewRow(k).pause = "none"
      BY DEF NewRow
  <2>2. \A a \in Compte : tries[a] = 0 /\ account[a] = NewRow(secret)
      BY DEF EcoleInit
  <2>3. \A a \in Compte : account[a].failures = 0 /\ account[a].pause = "none"
      BY <2>1, <2>2
  <2>4. 0 <= MAX_FAILURES /\ 0 < MAX_FAILURES
      BY <1>1
  <2>5. \A a \in Compte : /\ tries[a] <= MAX_FAILURES /\ tries[a] < MAX_FAILURES
                          /\ tries[a] <= account[a].failures
    <3> SUFFICES ASSUME NEW a \in Compte
                 PROVE  /\ tries[a] <= MAX_FAILURES /\ tries[a] < MAX_FAILURES
                        /\ tries[a] <= account[a].failures
        OBVIOUS
    <3>1. tries[a] = 0 /\ account[a].failures = 0
        BY <2>2, <2>3
    <3> QED BY <2>4, <3>1
  <2> QED BY <2>5 DEF RowsCount
<1> QED BY <1>2 DEF EcoleInit, CalmInv, LoginCounts, PassageCalm, ChainCalm, OneQueued,
           Quiescent, Off

\* An exchange ends, and no account has failed more but the one it was for.
LEMMA FinishingCalm ==
    ASSUME EcoleIInv, CalmInv, chain # <<>>, finish, tries' \in [Compte -> Nat],
           OnePassage,
           \A a \in Compte : \/ tries'[a] <= tries[a]
                             \/ a = job.a /\ job.by # "human"
    PROVE  LoginCounts' /\ PassageCalm' /\ ChainCalm' /\ OneQueued'
<1> USE DEF EcoleIInv, CalmInv
<1>1. /\ chain' = Tail(chain) /\ exchange'.st = "idle"
      /\ Len(chain') = Len(chain) - 1 /\ Len(chain) \in Nat
      /\ \A i \in 1..Len(chain') : chain'[i] = chain[i + 1] /\ i + 1 \in 1..Len(chain)
    BY DEF finish, Quiescent
<1>2. job = chain[1] /\ 1 \in 1..Len(chain) /\ job \in Job
    BY <1>1 DEF job
<1>3. \A i \in 1..Len(chain) : chain[i] \in Job
    OBVIOUS
<1>4. LoginCounts'
    BY <1>1 DEF LoginCounts
<1>5. OneQueued'
  <2> SUFFICES ASSUME NEW i \in 1..Len(chain'), NEW j \in 1..Len(chain'),
                      chain'[i].by # "human", chain'[j].by # "human"
               PROVE  i = j
      BY DEF OneQueued
  <2>1. i + 1 = j + 1
      BY <1>1 DEF OneQueued
  <2> QED BY <2>1
<1>6. job.by # "human" => \A i \in 1..Len(chain') : chain'[i].by = "human"
  <2> SUFFICES ASSUME job.by # "human", NEW i \in 1..Len(chain'), chain'[i].by # "human"
               PROVE  FALSE
      OBVIOUS
  <2>1. i + 1 = 1
      BY <1>1, <1>2 DEF OneQueued
  <2> QED BY <2>1
<1>7. \A p \in Passage : /\ passage'[p].todo = passage[p].todo
                         /\ passage'[p].rows = passage[p].rows
                         /\ passage'[p].st = passage[p].st
                         /\ passage'[p].waits => passage[p].waits
                         /\ job.by = "human" => passage'[p].waits = passage[p].waits
  <2>1. \A x \in Passing : LET y == [x EXCEPT !.waits = FALSE]
                           IN  y.todo = x.todo /\ y.rows = x.rows /\ y.st = x.st /\ ~y.waits
      BY DEF Passing
  <2>2. CASE job.by = "human"
      BY <2>2 DEF finish
  <2>3. CASE job.by # "human"
    <3>1. passage' = [passage EXCEPT ![job.by] = [passage[job.by] EXCEPT !.waits = FALSE]]
        BY <2>3 DEF finish
    <3> QED BY <2>1, <2>3, <3>1
  <2> QED BY <2>2, <2>3
<1>8. ChainCalm'
  <2> SUFFICES ASSUME NEW i \in 1..Len(chain'), chain'[i].by # "human"
               PROVE  /\ tries'[chain'[i].a] < MAX_FAILURES
                      /\ passage'[chain'[i].by].waits
                      /\ chain'[i].a \notin passage'[chain'[i].by].todo
      BY DEF ChainCalm
  <2>1. job.by = "human"
      BY <1>6
  <2>2. PICK k \in 1..Len(chain) : chain'[i] = chain[k]
      BY <1>1
  <2>3. /\ chain[k].by \in Passage /\ chain[k].a \in Compte
        /\ tries[chain[k].a] < MAX_FAILURES /\ passage[chain[k].by].waits
        /\ chain[k].a \notin passage[chain[k].by].todo
      BY <1>3, <2>2 DEF ChainCalm, Job
  <2>4. tries'[chain[k].a] <= tries[chain[k].a] /\ tries'[chain[k].a] \in Nat
        /\ tries[chain[k].a] \in Nat /\ MAX_FAILURES \in Nat
      BY <2>1, <2>3, EcoleAssumption
  <2>5. passage'[chain[k].by].waits /\ chain[k].a \notin passage'[chain[k].by].todo
      BY <1>7, <2>1, <2>3
  <2> QED BY <2>2, <2>3, <2>4, <2>5
<1>9. PassageCalm'
  <2> SUFFICES ASSUME NEW p \in Passage
               PROVE  /\ passage'[p].waits => passage'[p].st = "loop"
                      /\ \A a \in passage'[p].todo :
                             passage'[p].rows[a].pause # "running" => tries'[a] < MAX_FAILURES
      BY DEF PassageCalm
  <2>1. passage'[p].waits => passage'[p].st = "loop"
      BY <1>7 DEF PassageCalm
  <2>2. ASSUME NEW a \in passage[p].todo, passage[p].rows[a].pause # "running"
        PROVE  tries'[a] < MAX_FAILURES
    <3>1. a \in Compte /\ tries[a] < MAX_FAILURES
        BY <2>2 DEF PassageCalm, Passing
    <3>2. ~(a = job.a /\ job.by # "human")
        BY <1>2, <2>2 DEF ChainCalm, OnePassage, Job
    <3>3. tries'[a] <= tries[a] /\ tries'[a] \in Nat /\ tries[a] \in Nat /\ MAX_FAILURES \in Nat
        BY <3>1, <3>2, EcoleAssumption
    <3> QED BY <3>1, <3>3
  <2> QED BY <1>7, <2>1, <2>2
<1> QED BY <1>4, <1>5, <1>8, <1>9

\* The queue grows by what a person asks for, and no account has failed more.
LEMMA StayingCalm ==
    ASSUME EcoleIInv, CalmInv, UNCHANGED passage, tries' \in [Compte -> Nat],
           \A a \in Compte : tries'[a] <= tries[a],
           \/ chain' = chain
           \/ \E e \in Job : e.by = "human" /\ chain' = Append(chain, e)
    PROVE  PassageCalm' /\ ChainCalm' /\ OneQueued'
<1> USE DEF EcoleIInv, CalmInv
<1>1. /\ \A i \in 1..Len(chain') : chain'[i].by # "human" => i \in 1..Len(chain)
                                                          /\ chain'[i] = chain[i]
  <2>1. CASE chain' = chain
      BY <2>1
  <2>2. ASSUME NEW e \in Job, e.by = "human", chain' = Append(chain, e)
        PROVE  \A i \in 1..Len(chain') : chain'[i].by # "human" => i \in 1..Len(chain)
                                                                 /\ chain'[i] = chain[i]
      BY <2>2
  <2> QED BY <2>1, <2>2
<1>2. \A a \in Compte : tries[a] < MAX_FAILURES => tries'[a] < MAX_FAILURES
  <2> SUFFICES ASSUME NEW a \in Compte, tries[a] < MAX_FAILURES PROVE tries'[a] < MAX_FAILURES
      OBVIOUS
  <2>1. tries[a] \in Nat /\ tries'[a] \in Nat /\ tries'[a] <= tries[a] /\ MAX_FAILURES \in Nat
      BY EcoleAssumption
  <2> QED BY <2>1
<1>3. PassageCalm'
  <2>1. \A p \in Passage : \A a \in passage[p].todo : a \in Compte
      BY DEF Passing
  <2> QED BY <1>2, <2>1 DEF PassageCalm
<1>4. ChainCalm'
  <2>1. \A i \in 1..Len(chain) : chain[i].a \in Compte
    <3>1. \A i \in 1..Len(chain) : chain[i] \in Job
        OBVIOUS
    <3> QED BY <3>1 DEF Job
  <2> QED BY <1>1, <1>2, <2>1 DEF ChainCalm
<1>5. OneQueued'
    BY <1>1 DEF OneQueued
<1> QED BY <1>3, <1>4, <1>5

\* One row changes.
LEMMA RowCalm ==
    ASSUME EcoleIInv, CalmInv, NEW a \in Compte, NEW x,
           account' = [account EXCEPT ![a] = x],
           tries' \in [Compte -> Nat], \A b \in Compte \ {a} : tries'[b] <= tries[b],
           tries'[a] <= MAX_FAILURES, tries'[a] <= x.failures,
           x.pause # "running" => tries'[a] < MAX_FAILURES
    PROVE  RowsCount'
<1> SUFFICES ASSUME NEW b \in Compte
             PROVE  /\ tries'[b] <= MAX_FAILURES
                    /\ tries'[b] <= account'[b].failures
                    /\ account'[b].pause # "running" => tries'[b] < MAX_FAILURES
    BY DEF RowsCount
<1>1. CASE b = a
    BY <1>1 DEF EcoleIInv
<1>2. CASE b # a
  <2>1. /\ account'[b] = account[b] /\ tries[b] <= MAX_FAILURES
        /\ tries[b] <= account[b].failures
        /\ account[b].pause # "running" => tries[b] < MAX_FAILURES
      BY <1>2 DEF EcoleIInv, CalmInv, RowsCount
  <2>2. account[b].failures \in Nat /\ MAX_FAILURES \in Nat /\ tries[b] \in Nat
        /\ tries'[b] \in Nat /\ tries'[b] <= tries[b]
      BY <1>2, EcoleAssumption DEF EcoleIInv, CalmInv, Telling, Row
  <2> QED BY <2>1, <2>2
<1> QED BY <1>1, <1>2

\* What is written in a row counts what it did.
LEMMA WrittenCounts ==
    ASSUME NEW r \in Row, NEW now \in Row, NEW q \in Question, NEW h \in BOOLEAN
    PROVE  /\ blockForKey(now).failures = now.failures /\ blockForKey(now).pause = now.pause
           /\ asked(r, now, q, h).failures = now.failures
           /\ asked(r, now, q, h).pause = now.pause
           /\ succeeded(now).failures = 0 /\ succeeded(now).pause = "none"
<1> DEFINE al == alerting(r, now)
           kt == IF h THEN Nothing ELSE now.trusted
<1>1. /\ blockForKey(now).failures = now.failures /\ blockForKey(now).pause = now.pause
      /\ succeeded(now).failures = 0 /\ succeeded(now).pause = "none"
    BY DEF blockForKey, succeeded, Row
<1>2. asked(r, now, q, h) = [now EXCEPT !.question = q, !.blocked = "qcm", !.age = "now",
                                        !.trusted = kt, !.alerted = al]
    BY DEF asked, Row
<1> HIDE DEF al, kt
<1>3. /\ asked(r, now, q, h).failures = now.failures
      /\ asked(r, now, q, h).pause = now.pause
    BY <1>2 DEF Row
<1> QED BY <1>1, <1>3

\* A failure is counted from the row that was read.
LEMMA FailedCounts ==
    ASSUME NEW r \in Row, NEW now \in Row, NEW kind \in {"identifiants", "version", "transient"}
    PROVE  LET x == failed(r, now, kind)
               n == countedTo(r.failures)
           IN  IF kind = "transient"
               THEN /\ x.failures = n
                    /\ x.pause = IF n >= MAX_FAILURES THEN "running" ELSE now.pause
               ELSE x.failures = now.failures /\ x.pause = now.pause
<1> DEFINE n == countedTo(r.failures)
           tired == kind = "transient" /\ n >= MAX_FAILURES
           al == IF kind # "transient" \/ tired THEN alerting(r, now) ELSE now.alerted
           after == [now EXCEPT !.age = "now", !.alerted = al]
           x == failed(r, now, kind)
<1>1. x = CASE kind = "identifiants" -> [after EXCEPT !.blocked = "identifiants"]
            [] kind = "version" -> [after EXCEPT !.blocked = "version", !.detail = version]
            [] kind = "transient" -> [after EXCEPT !.failures = n,
                                                   !.pause = IF tired THEN "running" ELSE @]
    BY DEF failed, Row
<1> HIDE DEF n, al, x
<1>2. after.failures = now.failures /\ after.pause = now.pause
    BY DEF Row
<1>3. CASE kind = "identifiants"
    BY <1>1, <1>2, <1>3 DEF x, Row
<1>4. CASE kind = "version"
    BY <1>1, <1>2, <1>4 DEF x, Row
<1>5. CASE kind = "transient"
  <2>1. x = [after EXCEPT !.failures = n, !.pause = IF tired THEN "running" ELSE @]
      BY <1>1, <1>5
  <2>2. x.failures = n /\ x.pause = IF n >= MAX_FAILURES THEN "running" ELSE now.pause
      BY <1>2, <1>5, <2>1 DEF Row
  <2> QED BY <1>5, <2>2 DEF x, n
<1> QED BY <1>3, <1>4, <1>5

\* The exchange that has its turn.
LEMMA ExchangeCalm ==
    ASSUME EcoleIInv, CalmInv, OnePassage, Exchange
    PROVE  CalmInv'
<1> USE DEF EcoleIInv, CalmInv
<1>1. chain # <<>> /\ job \in Job /\ job.a \in Compte
  <2>1. chain # <<>>
      BY DEF Exchange, Connect, Answer, LoginOk, DataEnds, AnswerOk, LoginAsks, QuestionAgain,
             LoginFails, AnswerFails, InTurn
  <2>2. job \in Job
      BY <2>1 DEF job
  <2> QED BY <2>1, <2>2 DEF Job
<1> DEFINE now == account[job.a]
           n == tries[job.a]
<1>2. /\ now \in Row /\ now.failures \in Nat /\ MAX_FAILURES \in Nat /\ 0 < MAX_FAILURES
      /\ n \in Nat /\ n <= MAX_FAILURES /\ n <= now.failures
      /\ now.pause # "running" => n < MAX_FAILURES
  <2>1. now \in Row
      BY <1>1 DEF Telling
  <2> QED BY <1>1, <2>1, EcoleAssumption DEF Row, RowsCount
<1>3. ASSUME UNCHANGED <<chain, passage>>, tries' \in [Compte -> Nat], RowsCount', LoginCounts',
             \A a \in Compte : tries'[a] <= tries[a]
      PROVE  CalmInv'
    BY <1>3, StayingCalm
<1>4. ASSUME finish, tries' \in [Compte -> Nat], RowsCount',
             \A a \in Compte : tries'[a] <= tries[a] \/ (a = job.a /\ job.by # "human")
      PROVE  CalmInv'
    BY <1>1, <1>4, FinishingCalm
<1>5. ASSUME UNCHANGED <<account, tries>>
      PROVE  /\ RowsCount' /\ tries' \in [Compte -> Nat]
             /\ \A a \in Compte : tries'[a] <= tries[a]
  <2>1. \A a \in Compte : tries[a] \in Nat
      OBVIOUS
  <2> QED BY <1>5, <2>1 DEF RowsCount
<1>6. ASSUME NEW x, account' = [account EXCEPT ![job.a] = x], tries' = tries,
             x.failures = now.failures, x.pause = now.pause
      PROVE  /\ RowsCount' /\ tries' \in [Compte -> Nat]
             /\ \A a \in Compte : tries'[a] <= tries[a]
  <2>1. \A a \in Compte : tries'[a] \in Nat /\ tries'[a] <= tries[a]
    <3>1. \A a \in Compte : tries[a] \in Nat /\ tries[a] <= tries[a]
        OBVIOUS
    <3> QED BY <1>6, <3>1
  <2>2. tries' \in [Compte -> Nat] /\ \A b \in Compte \ {job.a} : tries'[b] <= tries[b]
      BY <1>6, <2>1
  <2>3. tries'[job.a] = n
      BY <1>6
  <2>4. /\ tries'[job.a] <= MAX_FAILURES /\ tries'[job.a] <= x.failures
        /\ x.pause # "running" => tries'[job.a] < MAX_FAILURES
    <3> HIDE DEF n, now
    <3> QED BY <1>2, <1>6, <2>3
  <2>5. RowsCount'
      BY <1>1, <1>6, <2>2, <2>4, RowCalm
  <2> QED BY <2>1, <2>2, <2>5
<1>7. ASSUME NEW x, account' = [account EXCEPT ![job.a] = x],
             tries' = [tries EXCEPT ![job.a] = 0], x.failures \in Nat
      PROVE  /\ RowsCount' /\ tries' \in [Compte -> Nat]
             /\ \A a \in Compte : tries'[a] <= tries[a]
  <2>1. \A a \in Compte : tries[a] \in Nat
      OBVIOUS
  <2>2. /\ tries' \in [Compte -> Nat] /\ tries'[job.a] = 0
        /\ \A a \in Compte : tries'[a] <= tries[a]
      BY <1>1, <1>7, <2>1
  <2>3. /\ tries'[job.a] <= MAX_FAILURES /\ tries'[job.a] <= x.failures
        /\ x.pause # "running" => tries'[job.a] < MAX_FAILURES
    <3> HIDE DEF n, now
    <3> QED BY <1>2, <1>7, <2>2
  <2>4. \A b \in Compte \ {job.a} : tries'[b] <= tries[b]
      BY <2>2
  <2>5. RowsCount'
      BY <1>1, <1>7, <2>2, <2>3, <2>4, RowCalm
  <2> QED BY <2>2, <2>5
<1> HIDE DEF n
<1>8. CASE Connect
  <2>1. CASE now.archived
      BY <1>4, <1>5, <1>8, <2>1 DEF Connect
  <2>2. CASE ~now.archived /\ ~readable(now)
    <3>1. /\ account' = [account EXCEPT ![job.a] = blockForKey(now)] /\ finish
          /\ tries' = tries
        BY <1>8, <2>2 DEF Connect
    <3>2. blockForKey(now).failures = now.failures /\ blockForKey(now).pause = now.pause
        BY <1>2 DEF blockForKey, Row
    <3> QED BY <1>4, <1>6, <3>1, <3>2
  <2>3. CASE ~now.archived /\ readable(now)
    <3>1. /\ exchange' = [st |-> "login", row |-> now, cached |-> FALSE]
          /\ UNCHANGED <<account, chain, passage, tries>>
        BY <1>8, <2>3 DEF Connect
    <3>2. LoginCounts'
        BY <1>2, <3>1 DEF LoginCounts, job, n
    <3> QED BY <1>3, <1>5, <3>1, <3>2
  <2> QED BY <2>1, <2>2, <2>3
<1>9. CASE Answer
  <2>1. CASE now.archived \/ now.question = Nothing
      BY <1>4, <1>5, <1>9, <2>1 DEF Answer
  <2>2. CASE ~(now.archived \/ now.question = Nothing) /\ ~readable(now)
    <3>1. /\ account' = [account EXCEPT ![job.a] = blockForKey(now)] /\ finish
          /\ tries' = tries
        BY <1>9, <2>2 DEF Answer
    <3>2. blockForKey(now).failures = now.failures /\ blockForKey(now).pause = now.pause
        BY <1>2 DEF blockForKey, Row
    <3> QED BY <1>4, <1>6, <3>1, <3>2
  <2>3. CASE ~(now.archived \/ now.question = Nothing) /\ readable(now)
    <3>1. /\ exchange'.st # "login"
          /\ UNCHANGED <<account, chain, passage, tries>>
        BY <1>9, <2>3 DEF Answer
    <3> QED BY <1>3, <1>5, <3>1 DEF LoginCounts
  <2> QED BY <2>1, <2>2, <2>3
<1>10. CASE LoginOk
  <2>1. /\ account' = [account EXCEPT ![job.a] = succeeded(now)]
        /\ tries' = [tries EXCEPT ![job.a] = 0]
        /\ exchange' = [exchange EXCEPT !.st = "data"] /\ UNCHANGED <<chain, passage>>
      BY <1>1, <1>10 DEF LoginOk
  <2>2. succeeded(now).failures \in Nat
      BY <1>2 DEF succeeded, Row
  <2>3. LoginCounts'
      BY <2>1 DEF LoginCounts
  <2> QED BY <1>3, <1>7, <2>1, <2>2, <2>3
<1>11. CASE DataEnds
    BY <1>4, <1>5, <1>11 DEF DataEnds
<1>12. ASSUME NEW q \in Question, LoginAsks(q) PROVE CalmInv'
  <2> DEFINE x == asked(exchange.row, now, q, hasTrusted(exchange.row))
  <2>1. /\ account' = [account EXCEPT ![job.a] = x] /\ finish
        /\ tries' = [tries EXCEPT ![job.a] = 0]
      BY <1>1, <1>12 DEF LoginAsks
  <2>2. hasTrusted(exchange.row) \in BOOLEAN
      BY DEF hasTrusted
  <2>3. x.failures \in Nat
      BY <1>2, <2>2, WrittenCounts
  <2> HIDE DEF x
  <2> QED BY <1>4, <1>7, <2>1, <2>3
<1>13. ASSUME NEW kind \in {"identifiants", "version", "transient"}, LoginFails(kind)
       PROVE  CalmInv'
  <2> DEFINE x == failed(exchange.row, now, kind)
             f == countedTo(exchange.row.failures)
  <2>1. /\ account' = [account EXCEPT ![job.a] = x] /\ finish
        /\ tries' = IF job.by = "human" THEN tries
                    ELSE [tries EXCEPT ![job.a] = IF kind = "transient" THEN n + 1 ELSE 0]
        /\ exchange.st = "login"
      BY <1>1, <1>13 DEF LoginFails, n
  <2>2. IF kind = "transient"
        THEN x.failures = f /\ x.pause = IF f >= MAX_FAILURES THEN "running" ELSE now.pause
        ELSE x.failures = now.failures /\ x.pause = now.pause
      BY <1>2, FailedCounts
  <2>3. /\ n <= exchange.row.failures /\ exchange.row.failures \in Nat
      BY <2>1 DEF LoginCounts, Row, n
  <2>4. f \in Nat /\ n <= f /\ (n < MAX_FAILURES => n + 1 <= f)
      BY <1>2, <2>3 DEF countedTo
  <2> HIDE DEF x, f
  <2>5. CASE job.by = "human" /\ kind # "transient"
      BY <1>4, <1>6, <2>1, <2>2, <2>5
  <2>6. CASE job.by = "human" /\ kind = "transient"
    <3>1. tries' = tries /\ tries'[job.a] = n
        BY <2>1, <2>6 DEF n
    <3>2. x.failures = f /\ (x.pause # "running" => n < MAX_FAILURES)
        BY <1>2, <2>2, <2>4, <2>6
    <3>3. \A a \in Compte : tries'[a] \in Nat /\ tries'[a] <= tries[a]
        BY <3>1
    <3>4. RowsCount'
        BY <1>1, <1>2, <2>1, <2>4, <3>1, <3>2, <3>3, RowCalm
    <3> QED BY <1>4, <2>1, <3>1, <3>3, <3>4
  <2>7. CASE job.by # "human" /\ kind # "transient"
      BY <1>2, <1>4, <1>7, <2>1, <2>2, <2>7
  <2>8. CASE job.by # "human" /\ kind = "transient"
    <3>1. tries' = [tries EXCEPT ![job.a] = n + 1]
        BY <2>1, <2>8
    <3>2. /\ tries' \in [Compte -> Nat] /\ tries'[job.a] = n + 1
          /\ \A a \in Compte \ {job.a} : tries'[a] = tries[a] /\ tries[a] \in Nat
        BY <1>1, <1>2, <3>1
    <3>3. n < MAX_FAILURES
      <4>1. Len(chain) \in Nat /\ 1 \in 1..Len(chain) /\ job = chain[1]
          BY <1>1 DEF job
      <4> QED BY <4>1, <2>8 DEF ChainCalm, n
    <3>4. /\ x.failures = f /\ n + 1 <= MAX_FAILURES /\ n + 1 <= f
          /\ x.pause # "running" => n + 1 < MAX_FAILURES
        BY <1>2, <2>2, <2>4, <2>8, <3>3
    <3>5. \A a \in Compte \ {job.a} : tries'[a] <= tries[a]
        BY <3>2
    <3>6. RowsCount'
        BY <1>1, <2>1, <3>2, <3>4, <3>5, RowCalm
    <3> QED BY <1>4, <2>1, <2>8, <3>2, <3>5, <3>6
  <2> QED BY <2>5, <2>6, <2>7, <2>8
<1>14. ASSUME NEW q \in Question, NEW offered \in BOOLEAN,
              QuestionAgain(q, offered)
       PROVE  CalmInv'
  <2>1. CASE q = exchange.row.question /\ offered
    <3>1. /\ exchange' = [exchange EXCEPT !.st = "answer"]
          /\ UNCHANGED <<account, chain, passage, tries>>
        BY <1>14, <2>1 DEF QuestionAgain
    <3>2. LoginCounts'
        BY <3>1 DEF LoginCounts
    <3> QED BY <1>3, <1>5, <3>1, <3>2
  <2>2. CASE ~(q = exchange.row.question /\ offered)
    <3> DEFINE x == asked(exchange.row, now, q, FALSE)
    <3>1. account' = [account EXCEPT ![job.a] = x] /\ finish /\ tries' = tries
        BY <1>1, <1>14, <2>2 DEF QuestionAgain
    <3>2. x.failures = now.failures /\ x.pause = now.pause
        BY <1>2, WrittenCounts
    <3> HIDE DEF x
    <3> QED BY <1>4, <1>6, <3>1, <3>2
  <2> QED BY <2>1, <2>2
<1>15. CASE AnswerOk
  <2> DEFINE x == [now EXCEPT !.trusted = secret, !.question = Nothing, !.blocked = "no"]
  <2>1. x.failures = now.failures /\ x.pause = now.pause
      BY <1>2 DEF Row
  <2>2. /\ account' = [account EXCEPT ![job.a] = x] /\ tries' = tries
        /\ \/ /\ exchange' = [st |-> "login", row |-> x, cached |-> FALSE]
              /\ UNCHANGED <<chain, passage>>
           \/ finish
      BY <1>15 DEF AnswerOk
  <2> HIDE DEF x
  <2>3. CASE finish
      BY <1>4, <1>6, <2>1, <2>2, <2>3
  <2>4. CASE exchange' = [st |-> "login", row |-> x, cached |-> FALSE]
             /\ UNCHANGED <<chain, passage>>
    <3>1. LoginCounts'
        BY <1>2, <2>1, <2>2, <2>4 DEF LoginCounts, job, n
    <3> QED BY <1>3, <1>6, <2>1, <2>2, <2>4, <3>1
  <2> QED BY <2>2, <2>3, <2>4
<1>16. ASSUME NEW expired \in BOOLEAN, AnswerFails(expired) PROVE CalmInv'
  <2>1. /\ UNCHANGED <<account, tries>>
        /\ \/ /\ exchange' = [exchange EXCEPT !.st = "question", !.cached = FALSE]
              /\ UNCHANGED <<chain, passage>>
           \/ finish
      BY <1>16 DEF AnswerFails
  <2>2. CASE finish
      BY <1>4, <1>5, <2>1, <2>2
  <2>3. CASE exchange' = [exchange EXCEPT !.st = "question", !.cached = FALSE]
             /\ UNCHANGED <<chain, passage>>
    <3>1. LoginCounts'
        BY <2>3 DEF LoginCounts
    <3> QED BY <1>3, <1>5, <2>1, <2>3, <3>1
  <2> QED BY <2>1, <2>2, <2>3
<1> QED BY <1>8, <1>9, <1>10, <1>11, <1>12, <1>13, <1>14, <1>15, <1>16 DEF Exchange

\* The login under way stays the first of the queue.
LEMMA LoginStays ==
    ASSUME EcoleIInv, CalmInv, UNCHANGED exchange, tries' \in [Compte -> Nat],
           \A a \in Compte : tries'[a] <= tries[a],
           chain' = chain \/ \E e \in Job : chain' = Append(chain, e)
    PROVE  LoginCounts'
<1> SUFFICES ASSUME exchange.st = "login"
             PROVE  tries'[job'.a] <= exchange.row.failures
    BY DEF LoginCounts
<1>1. chain # <<>> /\ chain \in Seq(Job)
    BY DEF EcoleIInv, InTurn
<1>2. job' = job /\ job \in Job
  <2>1. Len(chain) \in Nat /\ 1 \in 1..Len(chain) /\ chain[1] \in Job
      BY <1>1
  <2>2. chain' # <<>> /\ chain'[1] = chain[1]
      BY <1>1, <2>1
  <2> QED BY <1>1, <2>1, <2>2 DEF job
<1>3. /\ tries'[job.a] <= tries[job.a] /\ tries'[job.a] \in Nat /\ tries[job.a] \in Nat
      /\ tries[job.a] <= exchange.row.failures /\ exchange.row.failures \in Nat
    BY <1>2 DEF EcoleIInv, CalmInv, LoginCounts, Job, Row
<1> QED BY <1>2, <1>3

\* A passage queues an account only if it may fail once more.
LEMMA PassageStepCalm ==
    ASSUME EcoleIInv, CalmInv, OnePassage, NEW p \in Passage,
           \/ ecoleTick(p) \/ NightEnds(p) \/ EveningEnds(p) \/ NextAccount(p) \/ PassageEnds(p)
    PROVE  CalmInv'
<1>1. UNCHANGED <<exchange, tries>> /\ tries' \in [Compte -> Nat]
      /\ \A a \in Compte : tries'[a] <= tries[a]
  <2>1. UNCHANGED <<exchange, tries>>
      BY DEF ecoleTick, NightEnds, EveningEnds, NextAccount, PassageEnds
  <2>2. \A a \in Compte : tries[a] \in Nat
      BY DEF CalmInv
  <2> QED BY <2>1, <2>2 DEF CalmInv
<1>2. ~passage[p].waits /\ passage[p] \in Passing
    BY DEF ecoleTick, NightEnds, EveningEnds, NextAccount, PassageEnds, CalmInv, PassageCalm,
           EcoleIInv
<1>3. chain \in Seq(Job) /\ \A i \in 1..Len(chain) : chain[i].by = "human"
  <2>1. chain \in Seq(Job)
      BY DEF EcoleIInv
  <2>2. \A i \in 1..Len(chain) : chain[i] \in Job
      BY <2>1
  <2> QED BY <1>2, <2>1, <2>2 DEF CalmInv, ChainCalm, OnePassage, Job
<1>4. \A a \in passage[p].todo :
          a \in Compte /\ (passage[p].rows[a].pause # "running" => tries[a] < MAX_FAILURES)
    BY <1>2 DEF CalmInv, PassageCalm, Passing
<1>5. ASSUME NEW x, passage' = [passage EXCEPT ![p] = x], x.waits => x.st = "loop",
             \A a \in x.todo : x.rows[a].pause # "running" => tries[a] < MAX_FAILURES
      PROVE  PassageCalm'
  <2> SUFFICES ASSUME NEW o \in Passage
               PROVE  /\ passage'[o].waits => passage'[o].st = "loop"
                      /\ \A a \in passage'[o].todo :
                             passage'[o].rows[a].pause # "running" => tries'[a] < MAX_FAILURES
      BY DEF PassageCalm
  <2>1. o = p /\ passage'[o] = x
      BY <1>5 DEF OnePassage, EcoleIInv
  <2> QED BY <1>1, <1>5, <2>1
<1>6. ASSUME UNCHANGED <<account, chain>>, PassageCalm' PROVE CalmInv'
  <2>1. ChainCalm' /\ OneQueued'
      BY <1>3, <1>6 DEF ChainCalm, OneQueued
  <2>2. RowsCount'
      BY <1>1, <1>6 DEF CalmInv, RowsCount
  <2>3. LoginCounts'
      BY <1>1, <1>6, LoginStays
  <2> QED BY <1>1, <1>6, <2>1, <2>2, <2>3 DEF CalmInv
<1>7. ASSUME NEW st \in {"evening", "off"}, UNCHANGED <<account, chain>>,
             passage' = [passage EXCEPT ![p].st = st]
      PROVE  CalmInv'
  <2> DEFINE x == [passage[p] EXCEPT !.st = st]
  <2>1. passage' = [passage EXCEPT ![p] = x]
      BY <1>7
  <2>2. ~x.waits /\ x.todo = passage[p].todo /\ x.rows = passage[p].rows
      BY <1>2 DEF Passing
  <2> HIDE DEF x
  <2>3. PassageCalm'
      BY <1>4, <1>5, <2>1, <2>2
  <2> QED BY <1>6, <1>7, <2>3
<1>8. CASE ecoleTick(p) \/ NightEnds(p)
    BY <1>7, <1>8 DEF ecoleTick, NightEnds
<1>9. CASE EveningEnds(p)
  <2> DEFINE x == [st |-> "loop", todo |-> {a \in Compte : ~account[a].archived},
                   rows |-> account, waits |-> FALSE]
  <2>1. UNCHANGED <<account, chain>> /\ passage' = [passage EXCEPT ![p] = x]
      BY <1>9 DEF EveningEnds
  <2>2. ~x.waits /\ \A a \in x.todo : x.rows[a].pause # "running" => tries[a] < MAX_FAILURES
      BY DEF CalmInv, RowsCount
  <2> HIDE DEF x
  <2>3. PassageCalm'
      BY <1>5, <2>1, <2>2
  <2> QED BY <1>6, <2>1, <2>3
<1>10. CASE PassageEnds(p)
  <2>1. UNCHANGED <<account, chain>> /\ passage' = [passage EXCEPT ![p] = Off]
      BY <1>10 DEF PassageEnds
  <2>2. ~Off.waits /\ Off.todo = {}
      BY DEF Off
  <2>3. PassageCalm'
      BY <1>5, <2>1, <2>2
  <2> QED BY <1>6, <2>1, <2>3
<1>11. CASE NextAccount(p)
  <2>1. PICK a \in passage[p].todo :
            LET r == passage[p].rows[a]
                seen == IF releases(r) THEN released(r, account[a]) ELSE r
                goes == mayRun(seen) /\ isDue(seen)
            IN  /\ passage[p].st = "loop" /\ ~passage[p].waits
                /\ account' = [account EXCEPT ![a] = released(r, @)]
                /\ chain' = IF goes
                            THEN Append(chain, [what |-> "connect", a |-> a, by |-> p])
                            ELSE chain
                /\ passage' = [passage EXCEPT ![p].todo = @ \ {a}, ![p].waits = goes]
      BY <1>11 DEF NextAccount
  <2> DEFINE r == passage[p].rows[a]
             y == released(r, account[a])
             seen == IF releases(r) THEN y ELSE r
             goes == mayRun(seen) /\ isDue(seen)
             x == [passage[p] EXCEPT !.todo = passage[p].todo \ {a}, !.waits = goes]
             e == [what |-> "connect", a |-> a, by |-> p]
  <2>2. a \in Compte /\ r \in Row /\ account[a] \in Row
      BY <1>2, <1>4 DEF Passing, EcoleIInv, Telling
  <2>3. y.pause = account[a].pause /\ y.failures = account[a].failures
      BY <2>2 DEF released, Row
  <2>4. /\ account' = [account EXCEPT ![a] = y]
        /\ chain' = IF goes THEN Append(chain, e) ELSE chain
        /\ passage' = [passage EXCEPT ![p] = x]
        /\ passage[p].st = "loop"
    <3>1. /\ account' = [account EXCEPT ![a] = y]
          /\ chain' = IF goes THEN Append(chain, e) ELSE chain
          /\ passage' = [passage EXCEPT ![p].todo = @ \ {a}, ![p].waits = goes]
          /\ passage[p].st = "loop"
        BY <2>1, <2>2
    <3> HIDE DEF goes
    <3> QED BY <3>1
  <2>5. goes => tries[a] < MAX_FAILURES
    <3> SUFFICES ASSUME goes PROVE tries[a] < MAX_FAILURES
        OBVIOUS
    <3>1. seen.pause # "running"
        BY DEF mayRun
    <3>2. CASE releases(r)
      <4>1. account[a].pause # "running"
          BY <2>3, <3>1, <3>2
      <4> QED BY <2>2, <4>1 DEF CalmInv, RowsCount
    <3>3. CASE ~releases(r)
        BY <1>4, <3>1, <3>3
    <3> QED BY <3>2, <3>3
  <2>6. goes \in BOOLEAN
      BY DEF mayRun, isDue
  <2> HIDE DEF goes, y, seen
  <2>7. x.waits = goes /\ x.st = "loop" /\ x.todo = passage[p].todo \ {a}
        /\ x.rows = passage[p].rows
      BY <1>2, <2>4 DEF Passing
  <2> HIDE DEF x
  <2>8. PassageCalm'
      BY <1>4, <1>5, <2>4, <2>7
  <2>9. RowsCount'
    <3>1. \A b \in Compte \ {a} : tries'[b] <= tries[b]
        BY <1>1
    <3>2. /\ tries'[a] <= MAX_FAILURES /\ tries'[a] <= y.failures
          /\ y.pause # "running" => tries'[a] < MAX_FAILURES
        BY <1>1, <2>2, <2>3 DEF CalmInv, RowsCount
    <3> QED BY <1>1, <2>2, <2>4, <3>1, <3>2, RowCalm
  <2>10. e \in Job /\ e.a = a /\ e.by = p
      BY <2>2 DEF Job
  <2> HIDE DEF e
  <2>11. LoginCounts'
      BY <1>1, <2>4, <2>10, LoginStays
  <2>12. \A i \in 1..Len(chain') : chain'[i].by # "human" =>
                                       i = Len(chain) + 1 /\ goes /\ chain'[i] = e
    <3>1. CASE goes
        BY <1>3, <2>4, <2>10, <3>1
    <3>2. CASE ~goes
        BY <1>3, <2>4, <3>2
    <3> QED BY <3>1, <3>2
  <2>13. OneQueued'
      BY <2>12 DEF OneQueued
  <2>14. ChainCalm'
    <3>1. passage'[p] = x
        BY <2>4 DEF EcoleIInv
    <3> QED BY <1>1, <2>5, <2>7, <2>10, <2>12, <3>1 DEF ChainCalm
  <2> QED BY <1>1, <2>8, <2>9, <2>11, <2>13, <2>14 DEF CalmInv
<1> QED BY <1>8, <1>9, <1>10, <1>11

\* Time and the administrators: a pause ends with the count at nought, and so does
\* what starts the row's failures again.
LEMMA GesturesCalm ==
    ASSUME EcoleIInv, CalmInv, NEW a \in Compte,
           \/ Aged(a) \/ PauseOver(a)
           \/ updateAccount(a) \/ syncNow(a) \/ postAnswer(a) \/ archiveAccount(a)
           \/ \E paused \in BOOLEAN : setPaused(a, paused)
    PROVE  CalmInv'
<1> DEFINE now == account[a]
<1>1. UNCHANGED <<exchange, passage>>
    BY DEF Aged, PauseOver, updateAccount, syncNow, postAnswer, archiveAccount, setPaused,
           touched
<1>2. chain' = chain \/ \E e \in Job : e.by = "human" /\ chain' = Append(chain, e)
  <2>1. \/ UNCHANGED chain
        \/ \E what \in {"connect", "answer"} : asks(what, a)
      BY DEF Aged, PauseOver, updateAccount, syncNow, postAnswer, archiveAccount, setPaused
  <2>2. ASSUME NEW what \in {"connect", "answer"}, asks(what, a)
        PROVE  \E e \in Job : e.by = "human" /\ chain' = Append(chain, e)
    <3>1. [what |-> what, a |-> a, by |-> "human"] \in Job
        BY DEF Job
    <3> QED BY <2>2, <3>1 DEF asks
  <2> QED BY <2>1, <2>2
<1>3. /\ now \in Row /\ tries \in [Compte -> Nat]
      /\ MAX_FAILURES \in Nat /\ 0 < MAX_FAILURES
      /\ tries[a] <= MAX_FAILURES /\ tries[a] <= now.failures
      /\ now.pause # "running" => tries[a] < MAX_FAILURES
    BY EcoleAssumption DEF EcoleIInv, Telling, CalmInv, RowsCount
<1>4. ASSUME tries' \in [Compte -> Nat], RowsCount', \A b \in Compte : tries'[b] <= tries[b]
      PROVE  CalmInv'
  <2>1. PassageCalm' /\ ChainCalm' /\ OneQueued'
      BY <1>1, <1>2, <1>4, StayingCalm
  <2>2. LoginCounts'
      BY <1>1, <1>2, <1>4, LoginStays
  <2> QED BY <1>4, <2>1, <2>2 DEF CalmInv
<1>5. \A b \in Compte : tries[b] \in Nat /\ tries[b] <= tries[b]
    BY <1>3
<1>6. ASSUME NEW x, account' = [account EXCEPT ![a] = x], tries' = tries,
             x.failures = now.failures, x.pause = now.pause
      PROVE  CalmInv'
  <2>1. /\ tries' \in [Compte -> Nat] /\ \A b \in Compte : tries'[b] <= tries[b]
        /\ tries'[a] <= MAX_FAILURES /\ tries'[a] <= x.failures
        /\ x.pause # "running" => tries'[a] < MAX_FAILURES
    <3> HIDE DEF now
    <3> QED BY <1>3, <1>5, <1>6
  <2>2. \A b \in Compte \ {a} : tries'[b] <= tries[b]
      BY <2>1
  <2>3. RowsCount'
      BY <1>6, <2>1, <2>2, RowCalm
  <2> QED BY <1>4, <2>1, <2>3
<1>7. ASSUME NEW x, account' = [account EXCEPT ![a] = x],
             tries' = [tries EXCEPT ![a] = 0], x.failures \in Nat
      PROVE  CalmInv'
  <2>1. tries' \in [Compte -> Nat] /\ tries'[a] = 0
      BY <1>3, <1>7
  <2>2. \A b \in Compte : tries'[b] <= tries[b]
    <3> SUFFICES ASSUME NEW b \in Compte PROVE tries'[b] <= tries[b]
        OBVIOUS
    <3>1. tries'[b] = 0 \/ tries'[b] = tries[b]
        BY <1>3, <1>7
    <3> QED BY <1>5, <3>1
  <2>3. /\ tries'[a] <= MAX_FAILURES /\ tries'[a] <= x.failures
        /\ x.pause # "running" => tries'[a] < MAX_FAILURES
    <3> HIDE DEF now
    <3> QED BY <1>3, <1>7, <2>1
  <2>4. \A b \in Compte \ {a} : tries'[b] <= tries[b]
      BY <2>2
  <2>5. RowsCount'
      BY <1>7, <2>1, <2>3, <2>4, RowCalm
  <2> QED BY <1>4, <2>1, <2>2, <2>5
<1>8. CASE Aged(a)
  <2>1. PICK g \in {"recent", "old"} : account' = [account EXCEPT ![a] = [now EXCEPT !.age = g]]
      BY <1>8 DEF Aged
  <2> DEFINE x == [now EXCEPT !.age = g]
  <2>2. x.failures = now.failures /\ x.pause = now.pause
      BY <1>3 DEF Row
  <2>3. account' = [account EXCEPT ![a] = x] /\ tries' = tries
      BY <1>8, <2>1 DEF Aged
  <2> HIDE DEF x
  <2> QED BY <1>6, <2>2, <2>3
<1>9. CASE PauseOver(a)
  <2> DEFINE x == [now EXCEPT !.pause = "over"]
  <2>1. account' = [account EXCEPT ![a] = x] /\ tries' = [tries EXCEPT ![a] = 0]
      BY <1>9 DEF PauseOver
  <2>2. x.failures \in Nat
      BY <1>3 DEF Row
  <2> HIDE DEF x
  <2> QED BY <1>7, <2>1, <2>2
<1>10. CASE updateAccount(a)
  <2> DEFINE b == IF now.blocked \in {"identifiants", "cle"} THEN "no" ELSE now.blocked
             k == IF hasTrusted(now) THEN now.trusted ELSE Nothing
             x == [now EXCEPT !.sealed = secret, !.alerted = FALSE, !.failures = 0,
                              !.pause = "none", !.blocked = b, !.trusted = k]
  <2>1. account' = [account EXCEPT ![a] = x] /\ tries' = [tries EXCEPT ![a] = 0]
      BY <1>10 DEF updateAccount
  <2> HIDE DEF b, k
  <2>2. x.failures \in Nat
      BY <1>3 DEF Row
  <2> HIDE DEF x
  <2> QED BY <1>7, <2>1, <2>2
<1>11. CASE syncNow(a)
  <2> DEFINE x == released(now, now)
  <2>1. account' = [account EXCEPT ![a] = x] /\ tries' = tries
      BY <1>11 DEF syncNow
  <2>2. x.failures = now.failures /\ x.pause = now.pause
      BY <1>3 DEF released, Row
  <2> HIDE DEF x
  <2> QED BY <1>6, <2>1, <2>2
<1>12. CASE postAnswer(a)
  <2>1. UNCHANGED <<account, tries>>
      BY <1>12 DEF postAnswer
  <2>2. RowsCount'
      BY <2>1 DEF CalmInv, RowsCount
  <2>3. tries' \in [Compte -> Nat] /\ \A b \in Compte : tries'[b] <= tries[b]
      BY <1>3, <1>5, <2>1
  <2> QED BY <1>4, <2>2, <2>3
<1>13. CASE archiveAccount(a)
  <2> DEFINE x == [now EXCEPT !.archived = TRUE, !.enabled = FALSE, !.question = Nothing,
                              !.trusted = Nothing]
  <2>1. account' = [account EXCEPT ![a] = x] /\ tries' = tries
      BY <1>13 DEF archiveAccount
  <2>2. x.failures = now.failures /\ x.pause = now.pause
      BY <1>3 DEF Row
  <2> HIDE DEF x
  <2> QED BY <1>6, <2>1, <2>2
<1>14. ASSUME NEW paused \in BOOLEAN, setPaused(a, paused) PROVE CalmInv'
  <2>1. CASE paused
    <3> DEFINE x == [now EXCEPT !.enabled = FALSE]
    <3>1. account' = [account EXCEPT ![a] = x] /\ tries' = tries
        BY <1>3, <1>14, <2>1 DEF setPaused
    <3>2. x.failures = now.failures /\ x.pause = now.pause
        BY <1>3 DEF Row
    <3> HIDE DEF x
    <3> QED BY <1>6, <3>1, <3>2
  <2>2. CASE ~paused
    <3> DEFINE x == [now EXCEPT !.enabled = TRUE, !.pause = "none", !.failures = 0,
                                !.alerted = FALSE]
    <3>1. account' = [account EXCEPT ![a] = x] /\ tries' = [tries EXCEPT ![a] = 0]
        BY <1>14, <2>2 DEF setPaused
    <3>2. x.failures \in Nat
        BY <1>3 DEF Row
    <3> HIDE DEF x
    <3> QED BY <1>7, <3>1, <3>2
  <2> QED BY <2>1, <2>2
<1> QED BY <1>8, <1>9, <1>10, <1>11, <1>12, <1>13, <1>14

\* Every step keeps it, of one passage at a time.
LEMMA NextCalm ==
    ASSUME OnePassage PROVE EcoleIInv /\ CalmInv /\ [EcoleNext]_ecoleVars => CalmInv'
<1> SUFFICES ASSUME EcoleIInv, CalmInv, [EcoleNext]_ecoleVars PROVE CalmInv'
    OBVIOUS
<1>1. CASE UNCHANGED ecoleVars
  <2>1. UNCHANGED <<account, tries, exchange, chain, passage>>
      BY <1>1 DEF ecoleVars
  <2> QED BY <2>1 DEF CalmInv, RowsCount, LoginCounts, PassageCalm, ChainCalm, OneQueued, job
<1>2. CASE Exchange
    BY <1>2, ExchangeCalm
<1>3. ASSUME NEW p \in Passage,
             \/ ecoleTick(p) \/ NightEnds(p) \/ EveningEnds(p) \/ NextAccount(p)
             \/ PassageEnds(p)
      PROVE  CalmInv'
    BY <1>3, PassageStepCalm
<1>4. ASSUME NEW a \in Compte,
             \/ Aged(a) \/ PauseOver(a)
             \/ updateAccount(a) \/ syncNow(a) \/ postAnswer(a) \/ archiveAccount(a)
             \/ \E paused \in BOOLEAN : setPaused(a, paused)
      PROVE  CalmInv'
    BY <1>4, GesturesCalm
<1>5. CASE RestartService
  <2>1. /\ chain' = <<>> /\ exchange' = Quiescent /\ passage' = [p \in Passage |-> Off]
        /\ UNCHANGED <<account, tries>>
      BY <1>5 DEF RestartService
  <2>2. RowsCount' /\ tries' \in [Compte -> Nat]
      BY <2>1 DEF CalmInv, RowsCount
  <2>3. LoginCounts' /\ PassageCalm' /\ ChainCalm' /\ OneQueued'
      BY <2>1 DEF LoginCounts, PassageCalm, ChainCalm, OneQueued, Quiescent, Off
  <2> QED BY <2>2, <2>3 DEF CalmInv
<1> QED BY <1>1, <1>2, <1>3, <1>4, <1>5 DEF EcoleNext

\* NotInsistent holds in every reachable state when passages do not overlap: the
\* planner (ecole/service.ts) fails at most MAX_FAILURES times in a row between two
\* pauses, whatever administrators and restarts do meanwhile.
THEOREM PausesAreKept == ASSUME OnePassage PROVE EcoleSpec => []NotInsistent
<1>1. CalmInv => NotInsistent
    BY DEF CalmInv, RowsCount, NotInsistent
<1>2. EcoleInit => EcoleIInv /\ CalmInv
    BY InitEcole, InitCalm
<1>3. (EcoleIInv /\ CalmInv) /\ [EcoleNext]_ecoleVars => (EcoleIInv /\ CalmInv)'
    BY NextEcole, NextCalm
<1> QED BY <1>1, <1>2, <1>3, PTL DEF EcoleSpec

-----------------------------------------------------------------------------
\* What EcoleIInv leaves aside: the sessions in memory, the exchange under way,
\* what is counted.
MemoryTyped ==
    /\ challenge \in [Compte -> Question \union {Nothing}]
    /\ exchange \in [st : Stages, row : Row, cached : BOOLEAN]
    /\ ticking \in BOOLEAN
    /\ tries \in [Compte -> Nat] /\ touches \in Nat /\ stops \in Nat

Exchanges == [st : Stages, row : Row, cached : BOOLEAN]

\* An exchange, at any stage.
LEMMA StageIs ==
    ASSUME NEW row \in Row
    PROVE  /\ \A st \in {"idle", "login", "question"} :
                  [st |-> st, row |-> row, cached |-> FALSE] \in Exchanges
           /\ [st |-> "answer", row |-> row, cached |-> TRUE] \in Exchanges
BY DEF Exchanges, Stages

\* It goes to another stage, or starts again.
LEMMA StageChanges ==
    ASSUME NEW x \in Exchanges, NEW st \in Stages
    PROVE  /\ [x EXCEPT !.st = st] \in Exchanges
           /\ [x EXCEPT !.st = st, !.cached = FALSE] \in Exchanges
BY DEF Exchanges

\* The exchange that has its turn.
LEMMA ExchangeTyped == EcoleIInv /\ MemoryTyped /\ Exchange /\ EcoleIInv' => MemoryTyped'
<1> SUFFICES ASSUME EcoleIInv, MemoryTyped, Exchange, EcoleIInv' PROVE MemoryTyped'
    OBVIOUS
<1> DEFINE Sessions == [Compte -> Question \union {Nothing}]
<1>1. /\ challenge \in Sessions /\ tries \in [Compte -> Nat]
      /\ exchange \in Exchanges
    BY DEF MemoryTyped, Exchanges
<1>2. \A a, q : q \in Question \union {Nothing} => [challenge EXCEPT ![a] = q] \in Sessions
    BY <1>1
<1>3. \A a : [tries EXCEPT ![a] = 0] \in [Compte -> Nat]
    BY <1>1
<1>4. \A a \in Compte : [tries EXCEPT ![a] = tries[a] + 1] \in [Compte -> Nat]
    BY <1>1
<1>5. finish => exchange' = Quiescent
    BY DEF finish
<1>6. \A st \in Stages : /\ [exchange EXCEPT !.st = st] \in Exchanges
                         /\ [exchange EXCEPT !.st = st, !.cached = FALSE] \in Exchanges
    BY <1>1, StageChanges, Zenon
<1>7. Quiescent.row \in Row => Quiescent \in Exchanges
    BY StageIs DEF Quiescent
<1>8. exchange' = Quiescent => exchange' \in Exchanges
    BY <1>7 DEF EcoleIInv
<1>9. ASSUME exchange' \in Exchanges, challenge' \in Sessions, tries' \in [Compte -> Nat], stay
      PROVE  MemoryTyped'
    BY <1>9 DEF MemoryTyped, Exchanges, stay, ecoleBounds
<1>10. Exchange => chain # <<>>
    BY DEF EcoleIInv, InTurn, Exchange, Connect, Answer, LoginOk, DataEnds, AnswerOk, LoginAsks,
           QuestionAgain, LoginFails, AnswerFails
<1>11. job.a \in Compte
  <2>1. job \in Job
      BY <1>10 DEF EcoleIInv, job
  <2> QED BY <2>1 DEF Job
<1>12. {"login", "data", "answer", "question"} \subseteq Stages
    BY DEF Stages
<1> HIDE DEF Sessions
<1>13. \A a \in Compte : account[a] \in Row
    BY DEF EcoleIInv, Telling
<1>14. CASE Connect
  <2>1. /\ exchange' = Quiescent
           \/ exchange' = [st |-> "login", row |-> account[job.a], cached |-> FALSE]
        /\ UNCHANGED <<challenge, tries>> /\ stay
      BY <1>5, <1>14 DEF Connect
  <2>2. exchange' \in Exchanges
      BY <1>8, <1>11, <1>13, <2>1, StageIs
  <2> QED BY <1>1, <1>9, <2>1, <2>2
<1>15. CASE Answer
  <2>1. UNCHANGED <<challenge, tries>> /\ stay
      BY <1>15 DEF Answer
  <2>2. exchange' \in Exchanges
    <3>1. CASE finish
        BY <1>5, <1>8, <3>1
    <3>2. CASE ~finish
      <4>1. PICK inTime \in BOOLEAN :
                LET cached == inTime /\ challenge[job.a] = account[job.a].question
                IN  exchange' = [st |-> IF cached THEN "answer" ELSE "question",
                                 row |-> account[job.a], cached |-> cached]
          BY <1>15, <3>2 DEF Answer
      <4>2. \/ exchange' = [st |-> "answer", row |-> account[job.a], cached |-> TRUE]
            \/ exchange' = [st |-> "question", row |-> account[job.a], cached |-> FALSE]
          BY <4>1, Zenon
      <4> QED BY <1>11, <1>13, <4>2, StageIs
    <3> QED BY <3>1, <3>2
  <2> QED BY <1>1, <1>9, <2>1, <2>2
<1>16. CASE LoginOk
  <2>1. /\ exchange' = [exchange EXCEPT !.st = "data"] /\ stay
        /\ challenge' = [challenge EXCEPT ![job.a] = Nothing]
        /\ tries' = [tries EXCEPT ![job.a] = 0]
      BY <1>16 DEF LoginOk
  <2>2. exchange' \in Exchanges
      BY <1>6, <1>12, <2>1, Zenon
  <2> QED BY <1>2, <1>3, <1>9, <2>1, <2>2
<1>17. CASE DataEnds
  <2>1. exchange' = Quiescent /\ UNCHANGED <<challenge, tries>> /\ stay
      BY <1>5, <1>17 DEF DataEnds
  <2> QED BY <1>1, <1>8, <1>9, <2>1
<1>18. ASSUME NEW q \in Question, LoginAsks(q) PROVE MemoryTyped'
  <2>1. /\ exchange' = Quiescent /\ stay
        /\ challenge' = [challenge EXCEPT ![job.a] = q]
        /\ tries' = [tries EXCEPT ![job.a] = 0]
      BY <1>5, <1>18 DEF LoginAsks
  <2> QED BY <1>2, <1>3, <1>8, <1>9, <2>1
<1>19. ASSUME NEW kind \in {"identifiants", "version", "transient"}, LoginFails(kind)
       PROVE  MemoryTyped'
  <2>1. exchange' = Quiescent /\ UNCHANGED challenge /\ stay
      BY <1>5, <1>19 DEF LoginFails
  <2>2. tries' \in [Compte -> Nat]
    <3>1. CASE job.by = "human"
        BY <1>1, <1>19, <3>1 DEF LoginFails
    <3>2. CASE job.by # "human" /\ kind = "transient"
      <4>1. tries' = [tries EXCEPT ![job.a] = tries[job.a] + 1]
          BY <1>19, <3>2 DEF LoginFails
      <4> QED BY <1>4, <1>11, <4>1
    <3>3. CASE job.by # "human" /\ kind # "transient"
      <4>1. tries' = [tries EXCEPT ![job.a] = 0]
          BY <1>19, <3>3 DEF LoginFails
      <4> QED BY <1>3, <4>1
    <3> QED BY <3>1, <3>2, <3>3
  <2> QED BY <1>1, <1>8, <1>9, <2>1, <2>2
<1>20. ASSUME NEW q \in Question, NEW offered \in BOOLEAN,
              QuestionAgain(q, offered)
       PROVE  MemoryTyped'
  <2>1. UNCHANGED tries /\ stay
      BY <1>20 DEF QuestionAgain
  <2>2. CASE q = exchange.row.question /\ offered
    <3>1. exchange' = [exchange EXCEPT !.st = "answer"] /\ UNCHANGED challenge
        BY <1>20, <2>2 DEF QuestionAgain
    <3>2. exchange' \in Exchanges
        BY <1>6, <1>12, <3>1, Zenon
    <3> QED BY <1>1, <1>9, <2>1, <3>1, <3>2
  <2>3. CASE ~(q = exchange.row.question /\ offered)
    <3>1. exchange' = Quiescent /\ challenge' = [challenge EXCEPT ![job.a] = q]
        BY <1>5, <1>20, <2>3 DEF QuestionAgain
    <3> QED BY <1>1, <1>2, <1>8, <1>9, <2>1, <3>1
  <2> QED BY <2>2, <2>3
<1>21. CASE AnswerOk
  <2> DEFINE r == [account[job.a] EXCEPT !.trusted = secret, !.question = Nothing,
                                         !.blocked = "no"]
  <2>1. /\ UNCHANGED tries /\ stay
        /\ challenge' = [challenge EXCEPT ![job.a] = Nothing]
        /\ exchange' = Quiescent \/ exchange' = [st |-> "login", row |-> r, cached |-> FALSE]
      BY <1>5, <1>21 DEF AnswerOk
  <2> HIDE DEF r
  <2>2. exchange' \in Exchanges
    <3>1. CASE exchange' = Quiescent
        BY <1>8, <3>1
    <3>2. CASE exchange' = [st |-> "login", row |-> r, cached |-> FALSE]
      <4>1. exchange'.row = r
          BY <3>2
      <4> QED BY <3>2, <4>1, StageIs DEF EcoleIInv
    <3> QED BY <2>1, <3>1, <3>2
  <2> QED BY <1>1, <1>2, <1>9, <2>1, <2>2
<1>22. ASSUME NEW expired \in BOOLEAN, AnswerFails(expired) PROVE MemoryTyped'
  <2>1. UNCHANGED tries /\ stay
      BY <1>22 DEF AnswerFails
  <2>2. CASE expired /\ exchange.cached
    <3>1. exchange' = [exchange EXCEPT !.st = "question", !.cached = FALSE] /\ UNCHANGED challenge
        BY <1>22, <2>2 DEF AnswerFails
    <3>2. exchange' \in Exchanges
        BY <1>6, <1>12, <3>1, Zenon
    <3> QED BY <1>1, <1>9, <2>1, <3>1, <3>2
  <2>3. CASE ~(expired /\ exchange.cached)
    <3>1. exchange' = Quiescent /\ challenge' = [challenge EXCEPT ![job.a] = Nothing]
        BY <1>5, <1>22, <2>3 DEF AnswerFails
    <3> QED BY <1>1, <1>2, <1>8, <1>9, <2>1, <3>1
  <2> QED BY <2>2, <2>3
<1> QED BY <1>14, <1>15, <1>16, <1>17, <1>18, <1>19, <1>20, <1>21, <1>22 DEF Exchange

\* Passages, time, administrators and restarts.
LEMMA OthersTyped ==
    ASSUME EcoleIInv, EcoleIInv', MemoryTyped,
           \/ \E p \in Passage : \/ ecoleTick(p) \/ NightEnds(p) \/ EveningEnds(p)
                                 \/ NextAccount(p) \/ PassageEnds(p)
           \/ \E a \in Compte :
                 \/ Aged(a) \/ PauseOver(a)
                 \/ updateAccount(a) \/ syncNow(a) \/ postAnswer(a) \/ archiveAccount(a)
                 \/ \E paused \in BOOLEAN : setPaused(a, paused)
           \/ RestartService \/ UNCHANGED ecoleVars
    PROVE  MemoryTyped'
<1>1. tries \in [Compte -> Nat] /\ \A a : [tries EXCEPT ![a] = 0] \in [Compte -> Nat]
    BY DEF MemoryTyped
<1>2. ASSUME NEW p \in Passage,
             \/ ecoleTick(p) \/ NightEnds(p) \/ EveningEnds(p) \/ NextAccount(p) \/ PassageEnds(p)
      PROVE  MemoryTyped'
  <2>1. /\ UNCHANGED <<challenge, exchange, tries, touches, stops>>
        /\ UNCHANGED ticking \/ ticking' \in BOOLEAN
      BY <1>2 DEF ecoleTick, NightEnds, EveningEnds, NextAccount, PassageEnds, stay, ecoleBounds
  <2> QED BY <2>1 DEF MemoryTyped
<1>3. ASSUME NEW a \in Compte, Aged(a) \/ PauseOver(a) PROVE MemoryTyped'
  <2>1. /\ UNCHANGED <<challenge, exchange, ticking, touches, stops>>
        /\ tries' = tries \/ tries' = [tries EXCEPT ![a] = 0]
      BY <1>3 DEF Aged, PauseOver, stay, ecoleBounds
  <2> QED BY <1>1, <2>1 DEF MemoryTyped
<1>4. ASSUME UNCHANGED <<challenge, exchange, ticking, stops>>, touches' = touches + 1,
             tries' \in [Compte -> Nat]
      PROVE  MemoryTyped'
    BY <1>4 DEF MemoryTyped
<1>5. ASSUME NEW a \in Compte,
             updateAccount(a) \/ syncNow(a) \/ postAnswer(a) \/ archiveAccount(a)
      PROVE  MemoryTyped'
  <2>1. UNCHANGED <<challenge, exchange, ticking, stops>>
      BY <1>5, Zenon DEF updateAccount, syncNow, postAnswer, archiveAccount, touched
  <2>2. touches' = touches + 1
      BY <1>5, Zenon DEF updateAccount, syncNow, postAnswer, archiveAccount, touched
  <2>3. tries' = tries \/ tries' = [tries EXCEPT ![a] = 0]
      BY <1>5, Zenon DEF updateAccount, syncNow, postAnswer, archiveAccount
  <2> QED BY <1>1, <1>4, <2>1, <2>2, <2>3
<1>6. ASSUME NEW a \in Compte, NEW paused \in BOOLEAN, setPaused(a, paused) PROVE MemoryTyped'
  <2>1. UNCHANGED <<challenge, exchange, ticking, stops>> /\ touches' = touches + 1
      BY <1>6, Zenon DEF setPaused, touched
  <2>2. CASE paused
    <3>1. tries' = [tries EXCEPT ![a] = tries[a]]
        BY <1>6, <2>2, Zenon DEF setPaused
    <3> QED BY <1>1, <1>4, <2>1, <3>1
  <2>3. CASE ~paused
    <3>1. tries' = [tries EXCEPT ![a] = 0]
        BY <1>6, <2>3, Zenon DEF setPaused
    <3> QED BY <1>1, <1>4, <2>1, <3>1
  <2> QED BY <2>2, <2>3
<1>7. CASE RestartService
  <2>1. /\ exchange' = Quiescent /\ challenge' = [a \in Compte |-> Nothing]
        /\ ticking' = FALSE /\ stops' = stops + 1 /\ UNCHANGED <<tries, touches>>
      BY <1>7 DEF RestartService
  <2>2. Quiescent.row \in Row
      BY <2>1 DEF EcoleIInv
  <2>3. Quiescent \in Exchanges
      BY <2>2, StageIs DEF Quiescent
  <2>4. exchange' \in [st : Stages, row : Row, cached : BOOLEAN]
      BY <2>1, <2>3 DEF Exchanges
  <2>5. challenge' \in [Compte -> Question \union {Nothing}]
      BY <2>1
  <2>6. ticking' \in BOOLEAN
      BY <2>1, Zenon
  <2>7. stops \in Nat /\ touches \in Nat
      BY DEF MemoryTyped
  <2>8. stops' \in Nat /\ touches' \in Nat /\ tries' \in [Compte -> Nat]
      BY <1>1, <2>1, <2>7
  <2> QED BY <2>4, <2>5, <2>6, <2>8 DEF MemoryTyped
<1>8. CASE UNCHANGED ecoleVars
    BY <1>8 DEF ecoleVars, MemoryTyped
<1> QED BY <1>2, <1>3, <1>5, <1>6, <1>7, <1>8

\* The rows, the queue, the exchange under way, the passages and the sessions are
\* well formed in every reachable state, overlapping passages included.
THEOREM EcoleTypeCorrect == EcoleSpec => []EcoleTypeOK
<1>1. EcoleInit => EcoleIInv /\ MemoryTyped
  <2> SUFFICES ASSUME EcoleInit PROVE EcoleIInv /\ MemoryTyped
      OBVIOUS
  <2>1. unread \in Row
      BY Unread DEF EcoleInit
  <2> QED BY <2>1, InitEcole DEF EcoleInit, MemoryTyped, Quiescent, Stages
<1>2. (EcoleIInv /\ MemoryTyped) /\ [EcoleNext]_ecoleVars => (EcoleIInv /\ MemoryTyped)'
  <2> SUFFICES ASSUME EcoleIInv, MemoryTyped, [EcoleNext]_ecoleVars
               PROVE  EcoleIInv' /\ MemoryTyped'
      OBVIOUS
  <2>1. EcoleIInv'
      BY NextEcole
  <2>2. CASE Exchange
      BY <2>1, <2>2, ExchangeTyped
  <2>3. CASE ~Exchange
      BY <2>1, <2>3, OthersTyped DEF EcoleNext
  <2> QED BY <2>1, <2>2, <2>3
<1>3. EcoleIInv /\ MemoryTyped => EcoleTypeOK
    BY DEF EcoleIInv, MemoryTyped, EcoleTypeOK, Telling
<1> QED BY <1>1, <1>2, <1>3, PTL DEF EcoleSpec
=============================================================================
