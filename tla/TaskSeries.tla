----------------------------- MODULE TaskSeries ------------------------------
(***************************************************************************)
(* A task that comes back, seen from several devices: ticked, skipped,     *)
(* postponed, undone, and for a gesture of the maintenance list the        *)
(* consumable it takes (backend/src/tasks/ops.ts; frontend                 *)
(* core/task-ops.ts and core/foyer.store.ts).                              *)
(*                                                                         *)
(* A gesture says what the device believes: the occurrence it settles and  *)
(* the date that follows.  It is applied on the screen at once and joins   *)
(* the queue of the device, which the server applies in one transaction.   *)
(* OpSync shows that each operation reaches the server once, in order; it  *)
(* is taken as given here.  The screen applies an operation as the server  *)
(* does, less the two caps, which the next answer puts back.               *)
(***************************************************************************)
EXTENDS Recurrence, Sequences, SequencesExt

CONSTANTS
    Device,
    Rules,          \* the rules a series may have
    Start,          \* the day the series is first due
    Moments,        \* bound: the days on which somebody does something
    Kinds,          \* bound: the kinds of gestures made
    HISTORY_MAX,    \* 200 in the code
    STOCK_MAX,      \* 9999 in the code
    Use,            \* what one gesture takes from the stock
    Counts,         \* bound: quantities bought or counted
    MaxGestures,    \* bound: gestures made, for each rule
    Kept            \* a field the operation does not name

ASSUME TaskSeriesAssumption ==
    /\ \A r \in Rules : RuleOK(r)
    /\ Start \in Day
    /\ Moments \subseteq Day
    /\ HISTORY_MAX \in Nat \ {0}
    /\ STOCK_MAX \in Nat
    /\ Use \in Nat \ {0} /\ 3 * Use <= STOCK_MAX
    /\ Counts \subseteq 0..STOCK_MAX
    /\ MaxGestures \in [Rules -> Nat]
    /\ Kept \notin Int /\ Kept # Never

VARIABLES
    rec, entretien,   \* the rule; is the task in the maintenance list?
    today,
    server,   \* the task of the server, and what is remembered of it (history)
    shown,    \* shown[d]: the task on the screen of d
    queue,    \* queue[d]: operations not sent yet
    toast,    \* toast[d]: the operation « Annuler » would send, none if <<>>
    gestures  \* bound: gestures made so far

vars == <<rec, entretien, today, server, shown, queue, toast, gestures>>

Dated == Day \union {Never}

\* A task: `used` in its history is what a gesture took from the stock.
Done == [day : Day, due : Dated, used : Nat]
Task == [due : Dated, done : BOOLEAN, history : Seq(Done), paused : Dated,
         qty : Nat, threshold : Nat, alerted : BOOLEAN]

Operation == [op : {"done", "skip", "reopen", "edit", "add", "set"}, occ : Dated,
              next : Dated, day : Day, due : Dated \union {Kept},
              paused : Dated \union {Kept}, threshold : Nat \union {Kept}, qty : Nat]

\* What is kept of the operations the server applied (see `served`).
Memory == [task : Task, bought : Int, rewound : BOOLEAN, cut : BOOLEAN]

Bare(op) == [op |-> op, occ |-> Never, next |-> Never, day |-> today, due |-> Kept,
             paused |-> Kept, threshold |-> Kept, qty |-> 0]

lastDone(t) == t.history[Len(t.history)]
lastDoneDay(t) == IF t.history = <<>> THEN -1 ELSE lastDone(t).day

\* a line more in the history, which keeps the last HISTORY_MAX
remember(t, day, used) ==
    LET h == Append(t.history, [day |-> day, due |-> t.due, used |-> used])
    IN  [t EXCEPT !.history = SubSeq(h, later(1, Len(h) - HISTORY_MAX + 1), Len(h))]

\* the series goes on at `next`, or ends there
advance(t, next) ==
    IF next = Never THEN [t EXCEPT !.done = TRUE] ELSE [t EXCEPT !.due = next]

\* Mutants: the gesture takes more than there is; twice in one day
maintainUse(t, op) ==
    LET next == nextOccurrence(rec, IF t.due = Never THEN op.day ELSE t.due, op.day)
    IN  IF op.occ # t.due \/ lastDoneDay(t) >= op.day THEN t
        ELSE advance([remember(t, op.day, Use) EXCEPT !.qty = @ - Use], next)
maintainAnyDay(t, op) ==
    LET used == lesser(Use, t.qty)
        next == nextOccurrence(rec, IF t.due = Never THEN op.day ELSE t.due, op.day)
    IN  IF op.occ # t.due \/ lastDoneDay(t) > op.day THEN t
        ELSE advance([remember(t, op.day, used) EXCEPT !.paused = Never, !.qty = @ - used],
                     next)

\* A gesture of the maintenance list: once a day, next date from the day of
\* the gesture, stock taken, pause over.
maintain(t, op) ==
    LET used == lesser(Use, t.qty)
        next == nextOccurrence(rec, IF t.due = Never THEN op.day ELSE t.due, op.day)
    IN  IF op.occ # t.due \/ lastDoneDay(t) >= op.day THEN t
        ELSE advance([remember(t, op.day, used) EXCEPT !.paused = Never, !.qty = @ - used],
                     next)

\* Mutant: no look at the occurrence the tick is about
applyDoneAny(t, op) ==
    IF t.done THEN t
    ELSE IF entretien THEN maintain(t, op)
    ELSE advance(remember(t, op.day, 0), op.next)

applyDone(t, op) ==
    IF t.done THEN t
    ELSE IF entretien THEN maintain(t, op)
    ELSE IF op.occ # t.due THEN t
    ELSE advance(remember(t, op.day, 0), op.next)

applySkip(t, op) == IF t.done \/ op.occ # t.due THEN t ELSE advance(t, op.next)

\* Mutant: what was taken is not given back
applyReopenKeep(t, op) ==
    IF t.history # <<>> /\ lastDone(t).due = op.occ
    THEN [t EXCEPT !.done = FALSE, !.due = lastDone(t).due, !.history = Front(t.history)]
    ELSE [t EXCEPT !.done = FALSE]

\* undo the last tick if it settled `occ`, and give back what it took
applyReopen(t, op) ==
    IF t.history # <<>> /\ lastDone(t).due = op.occ
    THEN [t EXCEPT !.done = FALSE, !.due = lastDone(t).due, !.history = Front(t.history),
                   !.qty = lesser(STOCK_MAX, @ + lastDone(t).used)]
    ELSE [t EXCEPT !.done = FALSE]

\* the form never writes the quantity of a stock that is there
applyEdit(t, op) ==
    [t EXCEPT !.due = IF op.due = Kept THEN @ ELSE op.due,
              !.paused = IF op.paused = Kept THEN @ ELSE op.paused,
              !.threshold = IF op.threshold = Kept THEN @ ELSE op.threshold]

apply(t, op) ==
    CASE op.op = "done" -> applyDone(t, op)
      [] op.op = "skip" -> applySkip(t, op)
      [] op.op = "reopen" -> applyReopen(t, op)
      [] op.op = "edit" -> applyEdit(t, op)
      [] op.op = "add" -> [t EXCEPT !.qty = lesser(STOCK_MAX, @ + op.qty)]
      [] op.op = "set" -> [t EXCEPT !.qty = op.qty]

applyAll(t, ops) == FoldLeft(apply, t, ops)

\* Mutant: the mark is never taken off
noteAlertOnly(before, t) ==
    IF ~entretien \/ (t.qty = before.qty /\ t.threshold = before.threshold) THEN t
    ELSE [t EXCEPT !.alerted = @ \/ t.qty <= t.threshold]

\* The passage under the threshold is noticed after the batch.
noteAlert(before, t) ==
    IF ~entretien \/ (t.qty = before.qty /\ t.threshold = before.threshold) THEN t
    ELSE [t EXCEPT !.alerted = t.qty <= t.threshold]

\* Mutant: undoing a skip ticks the occurrence off
inverseOfSkipReopens(op, t) ==
    IF op.op = "skip" THEN <<[Bare("reopen") EXCEPT !.occ = t.due]>>
    ELSE IF op.op = "done" THEN <<[Bare("reopen") EXCEPT !.occ = t.due]>>
    ELSE IF op.op \in {"add", "set"} THEN <<[Bare("set") EXCEPT !.qty = t.qty]>>
    ELSE <<[Bare("edit") EXCEPT !.due = t.due, !.threshold = t.threshold]>>

\* the operation « Annuler » sends after `op`, made on the task `t`
inverseOf(op, t) ==
    CASE op.op = "done" -> IF t.done THEN <<>> ELSE <<[Bare("reopen") EXCEPT !.occ = t.due]>>
      [] op.op = "skip" -> IF t.done THEN <<>> ELSE <<[Bare("edit") EXCEPT !.due = t.due]>>
      [] op.op = "reopen" -> IF t.done THEN <<[Bare("done") EXCEPT !.occ = t.due]>> ELSE <<>>
      [] op.op \in {"add", "set"} -> <<[Bare("set") EXCEPT !.qty = t.qty]>>
      [] op.op = "edit" ->
            <<[Bare("edit") EXCEPT
                 !.due = IF op.due = Kept THEN Kept ELSE t.due,
                 !.paused = IF op.paused = Kept THEN Kept ELSE t.paused,
                 !.threshold = IF op.threshold = Kept THEN Kept ELSE t.threshold]>>

(***************************************************************************)
(* What is remembered of the operations the server applied: `bought`, the  *)
(* stock there would be had no gesture been made; `rewound`, whether an    *)
(* edit moved the due date, or the undo of an older tick opened a finished *)
(* series again; `cut`, whether one of the two caps may have been reached. *)
(***************************************************************************)
served(s, op) ==
    LET t == apply(s.task, op)
    IN  [task |-> t,
         bought |-> IF op.op \in {"add", "set"} THEN s.bought + t.qty - s.task.qty
                    ELSE s.bought,
         rewound |-> \/ s.rewound
                     \/ op.op = "edit" /\ op.due # Kept
                     \/ op.op = "reopen" /\ s.task.done /\ op.occ # s.task.due,
         cut |-> \/ s.cut
                 \/ op.op = "done" /\ Len(s.task.history) = HISTORY_MAX
                 \/ /\ op.op = "reopen" /\ s.task.history # <<>>
                    /\ s.task.qty + lastDone(s.task).used > STOCK_MAX]

Fresh(due, qty) ==
    [due |-> due, done |-> FALSE, history |-> <<>>, paused |-> Never,
     qty |-> qty, threshold |-> Use, alerted |-> FALSE]

\* A gesture of the maintenance list may never have been noted: no due date.
Init ==
    /\ rec \in Rules
    /\ entretien \in BOOLEAN
    /\ today = Start
    /\ \E due \in IF entretien THEN {Start, Never} ELSE {Start} :
         server = [task |-> Fresh(due, 3 * Use), bought |-> 3 * Use,
                   rewound |-> FALSE, cut |-> FALSE]
    /\ shown = [d \in Device |-> server.task]
    /\ queue = [d \in Device |-> <<>>]
    /\ toast = [d \in Device |-> <<>>]
    /\ gestures = 0

(***************************************************************************)
(* A device: one gesture on what it shows.                                 *)
(***************************************************************************)
pushTaskOps(d, op, back) ==
    /\ op.op \in Kinds
    /\ gestures < MaxGestures[rec]
    /\ gestures' = gestures + 1
    /\ shown' = [shown EXCEPT ![d] = apply(@, op)]
    /\ queue' = [queue EXCEPT ![d] = Append(@, op)]
    /\ toast' = [toast EXCEPT ![d] = back]
    /\ UNCHANGED <<rec, entretien, today, server>>

taskOpWithUndo(d, op) == pushTaskOps(d, op, inverseOf(op, shown[d]))

doneOp(t, day) ==
    [Bare("done") EXCEPT !.occ = t.due, !.day = day,
                         !.next = nextOccurrence(rec, IF t.due = Never THEN day ELSE t.due, day)]

\* a tap: done, or open again
toggleTask(d) ==
    LET t == shown[d]
    IN  IF t.done THEN taskOpWithUndo(d, [Bare("reopen") EXCEPT !.occ = t.due])
        ELSE /\ ~(entretien /\ lastDoneDay(t) = today)
             /\ taskOpWithUndo(d, doneOp(t, today))

\* « Fait un autre jour »
gesteFaitLe(d, day) ==
    /\ entretien
    /\ ~shown[d].done
    /\ lastDoneDay(shown[d]) < day
    /\ taskOpWithUndo(d, doneOp(shown[d], day))

skipOp(t) == [Bare("skip") EXCEPT !.occ = t.due, !.next = skipOccurrence(rec, t.due, today)]

skipTask(d) ==
    LET t == shown[d]
    IN  /\ t.due # Never /\ ~t.done
        /\ taskOpWithUndo(d, skipOp(t))

postponeTask(d, to) == taskOpWithUndo(d, [Bare("edit") EXCEPT !.due = to])

pauseGeste(d, until) ==
    /\ entretien
    /\ taskOpWithUndo(d, [Bare("edit") EXCEPT !.due = IF until = Never THEN today ELSE until,
                                              !.paused = until])

restockGeste(d, mode, qty) ==
    entretien /\ taskOpWithUndo(d, [Bare(mode) EXCEPT !.qty = qty])

\* the form of the gesture: another threshold
saveGeste(d, threshold) ==
    entretien /\ taskOpWithUndo(d, [Bare("edit") EXCEPT !.threshold = threshold])

undoLast(d) ==
    /\ toast[d] # <<>>
    /\ pushTaskOps(d, [toast[d][1] EXCEPT !.day = today], <<>>)

\* The queue leaves; the server applies it in one transaction and answers.
flushTaskQueue(d) ==
    /\ queue[d] # <<>>
    /\ LET after == FoldLeft(served, server, queue[d])
       IN  server' = [after EXCEPT !.task = noteAlert(server.task, @)]
    /\ shown' = [shown EXCEPT ![d] = server'.task]
    /\ queue' = [queue EXCEPT ![d] = <<>>]
    /\ UNCHANGED <<rec, entretien, today, toast, gestures>>

\* The poll: the task of the server, and what is still to be sent over it.
adoptTasks(d) ==
    /\ shown' = [shown EXCEPT ![d] = applyAll(server.task, queue[d])]
    /\ shown' # shown
    /\ UNCHANGED <<rec, entretien, today, server, queue, toast, gestures>>

\* Days pass; the few seconds of a toast with them.
NextDay ==
    /\ \E day \in Moments : day > today /\ today' = day
    /\ toast' = [d \in Device |-> <<>>]
    /\ UNCHANGED <<rec, entretien, server, shown, queue, gestures>>

Next ==
    \/ \E d \in Device :
         \/ toggleTask(d) \/ skipTask(d) \/ undoLast(d)
         \/ flushTaskQueue(d) \/ adoptTasks(d)
         \/ \E day \in Moments : postponeTask(d, day)
         \/ \E day \in Moments : day <= today /\ gesteFaitLe(d, day)
         \/ \E until \in Moments \union {Never} : pauseGeste(d, until)
         \/ \E mode \in {"add", "set"}, qty \in Counts : restockGeste(d, mode, qty)
         \/ \E threshold \in Counts : saveGeste(d, threshold)
    \/ NextDay

Spec == Init /\ [][Next]_vars

(***************************************************************************)
(* Properties                                                              *)
(***************************************************************************)
SeriesTypeOK ==
    /\ rec \in Rules /\ entretien \in BOOLEAN /\ today \in Moments \union {Start}
    /\ server \in Memory
    /\ shown \in [Device -> Task]
    /\ queue \in [Device -> Seq(Operation)]
    /\ toast \in [Device -> Seq(Operation)]
    /\ gestures \in 0..MaxGestures[rec]

\* What a device can show, and what it can have asked for: a stock and a
\* history within their caps; outside the maintenance list, a due date at all
\* times and, at a fixed date, an occurrence after the one that is settled.
AlwaysDated(t) == t.due # Never /\ \A i \in DOMAIN t.history : t.history[i].due # Never
SoundTask == {t \in Task : /\ t.qty <= STOCK_MAX /\ Len(t.history) <= HISTORY_MAX
                           /\ ~entretien => AlwaysDated(t)}
SoundOperation ==
    {op \in Operation :
        /\ op.op = "set" => op.qty <= STOCK_MAX
        /\ ~entretien => op.due # Never
        /\ ~entretien /\ rec.base = "due" /\ op.op \in {"done", "skip"} =>
              op.next = Never \/ (op.occ # Never /\ op.next > op.occ)}

\* The lines of a history follow one another, by day or by due date.
DaysRise(h) == \A i, j \in DOMAIN h : i < j => h[i].day < h[j].day
DuesRise(h) == \A i, j \in DOMAIN h : i < j => h[i].due < h[j].due

\* A history and the due date of its task: what is settled is behind, but for
\* the occurrence that finished the series.
Forward(t) ==
    /\ DuesRise(t.history)
    /\ t.history # <<>> => IF t.done THEN lastDone(t).due <= t.due
                                     ELSE lastDone(t).due < t.due

\* At a fixed date, two devices never settle one occurrence twice: as long as
\* nobody moves the due date by hand, or opens a finished series again by
\* undoing an older tick, the lines of the history and the due date go
\* forward, whatever the devices believed when they ticked.
SeriesGoesForward ==
    rec.base = "due" /\ ~entretien /\ ~server.rewound =>
        LET h == server.task.history
        IN  /\ DuesRise(h)
            /\ ~server.task.done => \A i \in DOMAIN h : h[i].due < server.task.due

\* A gesture of the maintenance list is noted once a day, in the order of the
\* days, by however many devices and with whatever is undone in between.
OnceADay ==
    entretien => DaysRise(server.task.history)

\* A gesture takes its consumable once and undoing it gives back what it took:
\* stock and gestures of the history add up to what was bought or counted, as
\* long as neither the history nor the stock reached its cap.
plusUsed(n, e) == n + e.used
taken(h) == FoldLeft(plusUsed, 0, h)
StockAddsUp ==
    ~server.cut => server.task.qty + taken(server.task.history) = server.bought

\* The article leaves for the shopping list once for each passage under the
\* threshold: the mark that remembers it says exactly that the stock is low.
AlertedWhenLow ==
    entretien => (server.task.alerted <=> server.task.qty <= server.task.threshold)

\* The inductive invariant behind the properties above.
HonestMemory ==
    {m \in Memory :
        /\ m.task \in SoundTask
        /\ entretien => DaysRise(m.task.history)
        /\ rec.base = "due" /\ ~entretien /\ ~m.rewound => Forward(m.task)
        /\ ~m.cut => m.task.qty + taken(m.task.history) = m.bought}
SeriesInv ==
    /\ SeriesTypeOK
    /\ server \in HonestMemory
    /\ AlertedWhenLow
    /\ shown \in [Device -> SoundTask]
    /\ queue \in [Device -> Seq(SoundOperation)]
    /\ toast \in [Device -> Seq(SoundOperation)]

\* « Annuler », pressed at once, puts the dates, the history and the stock of
\* the task back, whichever gesture it undoes (inverseOf against apply), while
\* its history has room; for a skip, of any occurrence but the last one of the
\* series.
Same(t, u) == /\ t.due = u.due /\ t.done = u.done /\ t.history = u.history
              /\ t.qty = u.qty /\ t.threshold = u.threshold
Undone(t, op) == Same(applyAll(apply(t, op), inverseOf(op, t)), t)
UndoRestores ==
    \A d \in Device :
      LET t == shown[d]
          skip == skipOp(t)
          ops == {doneOp(t, today), [Bare("edit") EXCEPT !.due = today],
                  [Bare("set") EXCEPT !.qty = 1], [Bare("edit") EXCEPT !.threshold = 1]}
                 \union IF t.due = Never THEN {} ELSE {skip} \ {[skip EXCEPT !.next = Never]}
      IN  ~t.done /\ Len(t.history) < HISTORY_MAX =>
            \A op \in ops : apply(t, op) # t => Undone(t, op)

\* i steps of the rhythm from `due`
steps(r, due, i) == stepFrom(due, [r EXCEPT !.every = i * @])

\* The days of the rule r up to `to`, unrolled from its anchor step by step.
RuleDays(r, due, to) ==
    IF r.freq = "weekly" /\ r.days # {}
    THEN {mondayOf(due) + 7 * (i * r.every) + wd - 1 : i \in 0..(to - due), wd \in r.days}
    ELSE LET n == IF r.freq \in {"daily", "weekly"} THEN to - due ELSE month(to) - month(due)
         IN  {steps(r, due, i) : i \in 0..n}

\* the 29th of February of a year that has none
OpensShort(season, d) ==
    /\ season # <<>> /\ (month(d) % 12) + 1 = season[1] \div 100
    /\ dom(d) = daysInMonth(month(d)) /\ dom(d) < season[1] % 100

\* The next occurrence is the first day of the rule, in its season, after both
\* the one that is settled and the day it is settled, as far as it is looked
\* for, and none follows the end of the series; after the gesture, it is one
\* step later, moved into the season.
NextIsTheFirst ==
    LET due == server.task.due
        next == nextOccurrence(rec, due, today)
        window == (later(due, today) + 1)..(later(due, today) + HORIZON_DAYS)
        days == {x \in RuleDays(rec, due, later(due, today) + HORIZON_DAYS) :
                    x \in window /\ inSeason(rec.season, x)}
    IN  due # Never =>
        /\ next # Never => /\ next > today
                           /\ rec.until = Never \/ next <= rec.until
                           /\ inSeason(rec.season, next)
                                \/ (rec.base = "done" /\ OpensShort(rec.season, next))
        /\ rec.base = "due" =>
              IF next = Never THEN \A x \in days : rec.until # Never /\ x > rec.until
              ELSE next \in days /\ \A x \in days : next <= x
        /\ skipOccurrence(rec, due, today) \in Dated \ 0..due
=============================================================================
