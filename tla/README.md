# Foyer: a verification project

Foyer is a self-hosted organiser for one household: calendar, shopping, tasks,
meals, recipes, contacts, budget and a few modules more. One Node process holds
a SQLite database; phones and tablets run an Angular application that keeps
working without network. Several people write at the same time, networks drop
answers, telephones kill tabs: this directory models what the code does about
it, in TLA+, checks the models with TLC and proves the main results with TLAPS.

Paths below are relative to the repository (`backend/src`, `frontend/src/app`).

## 1. The system and its parts

### The core: one document, two ways of writing it

| part | state | operations | hard because |
|---|---|---|---|
| **Household document** (`backend/src/state`, `db.ts`, `server.ts`) | one JSON value and a version number, in one row | `GET /state`, `PUT /state` (version check, rights, parts the server keeps), `GET /live` | several writers, each with a copy of another age |
| **Document store** (`frontend core/foyer.store.ts`, `state-sync.ts`, `offline-doc.ts`) | the document on the screen, `docVersion`, `pending` closures, timers, a cached copy in IndexedDB | `mutate`, `flush`, `applyConflict`, `failSave`, `refreshDocument`, `loadState`, `hydrateFromCache` | saves, reads and timers overlap; answers are lost; the page is reloaded |
| **Operations** (`shopping/ops.ts`, `shopping/repo.ts`, `ops-router.ts`, and the same for `tasks/`, `places/`) | the articles in the row, a journal of operation identifiers | `POST /ops`: one batch, one transaction | batches are resent, arrive late, aim at lists removed since |
| **Queues** (`foyer.store.ts`, `op-queues.ts`) | a queue in localStorage, the list on the screen, `liveVersion` | `pushShopOps`, `flushShopQueue`, `adoptShop`, `pollLive` | the queue outlives the tab; answers overtake one another |

The document is saved whole by `PUT /state`, but shopping, tasks and places are
taken out of it: the server ignores those fields in a save and changes them
only by operations. Both ways write the same row and move the same version. A
screen learns of the others by a conflict (409), by polling `/live`, or by
reading the document again.

What makes these parts correct: no save removes what another put in the row;
what was acknowledged is in the row; a failed save is retried until it passes;
an operation is executed once whatever is resent, in the order of the gestures,
or is still in its queue; a screen never loses a gesture that is still to be
sent, and ends up showing what the server holds. Where the code falls short of one
of these is a finding (section 3).

### The tasks

| part | state | operations | hard because |
|---|---|---|---|
| **Series** (`tasks/ops.ts`, `recurrence.ts`; browser `task-ops.ts`) | due date, rule, history, stock and its mark, a pause | done, skip, reopen, edit, and their undo | devices settle the occurrence they believe current; an undo is computed from the screen and applied later |
| **Lists and subtasks** (`tasks/ops.ts`, `repo.ts`, `ordering.ts`; browser `task-order.ts`) | a list, a parent, an order key for each task | create, edit, move, remove, uncheck, reset; the save that reconciles | parents, lists and neighbours go while operations travel; keys become equal |

Correct when: an occurrence is settled once; stock and history add up; the next
date is the first the rule gives; a subtask always has a parent and never
disappears with it; a task lands where it was dropped; the screen, which applies
every gesture without any check, shows what the server will do; an undo gives
back what the gesture took.

### The services of the process

They share the database and the process, and no state with one another.

| part | state | operations | hard because |
|---|---|---|---|
| **Reminders** (`notify/`) | the journal `hh_notif_sent`, the devices | a passage every minute, `notify()`, late ones noted as missed | awaits between devices, a journal written after the send, stops, quiet hours |
| **École accounts** (`ecole/service.ts`, `cadence.ts`, `routes.ts`) | blocks, pauses, failures, a question, a queue of exchanges | connection, answer, passages of the planner, administrators | rows read before an exchange and written after it; passages that overlap |
| **Statements** (`finances/import*`) | drafts, aliases, rows, windows, transfers | upload, attach, validate, undo, merge, split, edit by hand | overlapping files, ranks of equal rows, undo in any order |
| **Files** (`storage/`, and the modules that hold files) | bytes on the disk, rows of two tables, citations | store, attach, detach, restore, reset, prune at start | two steps, one content shared, stops in between |

Correct when: a reminder rings once and none is forgotten; an account is neither
insisted upon nor silenced for ever; an overlapping file brings its delta only,
and the coverage shown is true; a row never loses its bytes nor a citation its
row.

### The rest

| component | state it keeps | what is hard |
|---|---|---|
| Places, recipes, meals, agenda, loyalty cards | subtrees of the document | as the document |
| Sessions, roles, session switch (`auth/`) | cookies, session versions, the member a device acts for | queues of another member, a child's session |
| Login limits, second factor (`auth/throttle.ts`, `limits.ts`, `totp.ts`) | counters per account and address, last code step | delays that double, a code used once |
| OAuth and MCP (`oauth/`, `mcp/`) | codes, access and refresh tokens | exchanged once, replaced in two steps |
| École data, rules, contracts, loans, energy | their own tables | sums and projections, one request at a time |
| Employee, equipment, maintenance, revisions, settings | their own tables | little: one request at a time |
| System (`system/`) | helper scripts, backups | outside the process |
| Service worker, screens, helpers | caches and views | no data of their own |

`PROJECT.json` lists every part with its files and its status, and every hazard
of the code at its line, with the property that watches it or the reason why
none does yet.

## 2. The modules

| module | what it is |
|---|---|
| `DocSync` | the document, its version, and the store that edits it |
| `MCDocSync` | its instances for TLC |
| `DocSync_proofs` | its theorems |
| `OpSync` | operations, journal, queues and polling |
| `Gestures` | what `OpSync` promises, without queues, batches or journal |
| `MCOpSync` | its instances for TLC |
| `OpSync_proofs` | its theorems, the refinement of `Gestures` among them |
| `Recurrence` | the next occurrence of a rule, on the real calendar |
| `TaskSeries` | one series, its devices and the server |
| `MCTasks` | its instances for TLC |
| `TaskSeries_proofs` | its theorems, those of the calendar among them |
| `TaskTree` | tasks, subtasks, lists and order, devices and server |
| `MCTaskTree` | its instances, and what undoing a removal promises |
| `TaskTree_proofs` | its theorems |
| `Notifier` | reminders, passages, sends, the journal |
| `Notifier_proofs` | its theorems |
| `EcoleAccount` | accounts, exchanges, the planner, administrators |
| `EcoleAccount_proofs` | its theorems |
| `Statements` | files, drafts, rows, transfers, windows |
| `Statements_proofs` | its theorems |
| `Files` | bytes, rows, citations |
| `Services` | `Notifier`, `EcoleAccount`, `Statements`, `Files` in one process |
| `MCServices` | its instances for TLC |
| `Services_proofs` | its theorems, and those of `Files` |

`Services` EXTENDS the four services and composes their steps. `Recurrence` is
used by `TaskSeries`; `OpSync` stands under `TaskSeries` and
`TaskTree`, which take it as given that an operation arrives once and in order.

### DocSync: how it corresponds to the code

One step of the server is one handler of `server.ts`: better-sqlite3 is
synchronous and the handler has no `await`, as `concurrency.ts` points out. One
step of a client is what its store does between two awaits.

* A change is a closure in `pending`. Its effect on the document is a counter:
  `doc[m]` is how many times the effect of `m` is in the row. This is enough to
  tell a change lost (0), made (1), made twice (2), and whether one document
  contains another (`Leq`). Changes that would merge or toggle are not told
  apart from those that add; a target that has disappeared is not modelled.
* `put[c]` is the save in flight: the whole document as it was when the save
  left, its version, how many changes it carried (`envoyees`) and the number of
  replays so far (`essai`). `PutState` is the handler, in its order: a
  malformed document (`validateState`) → 400; too old → 409 with the row; refused
  by a right → 403; otherwise the row is written, except the parts the server keeps
  (`preserve`).
* `mutate` arms `saveTimer` (700 ms) and `failSave` arms `retryTimer` (8 s).
  When a timer fires, `flush` does nothing while another save is in flight, and
  the timer is consumed all the same.
* `SaveFails` is the network breaking under the save, before or after it was
  handled; a request already sent may still arrive (`stray`, `PutStray`).
* `RefreshAsk`, `GetState`, `RefreshAnswer` are `refreshDocument()`;
  `ReloadAsk`, `LoadDocument`, `LoadEnds` are `loadState()`, with its two awaits
  (`/state`, then `/me`); `ReadFails` at start is `hydrateFromCache()`.
* `Restart` is a page reloaded or a tab killed: the memory goes, the cached
  copy stays. A change not yet saved goes with it, as in the code.
* `WriteDocByOps` is a batch of operations: for this module, a version that
  moves.

### OpSync: how it corresponds to the code

* An operation is identified by its rank in the history `issued` (`opId` in
  the code is random; only equality and the order of a queue matter). A queue
  only grows at its end and loses what was settled, so it is always in the order
  of its gestures: it is kept as the set of its ranks, and so is a batch.
* An article is its list and its state (to buy, in the trolley); names,
  quantities, aisles, photos and authors do not change the control.
  `effect` is `applyShopLocally` and the accepted branches of `applyOps`;
  `refuses` are its refusals (a list that does not exist).
* `PostOps` is the whole transaction: the journal consulted for each
  operation, the articles and the version written when something was applied,
  the identifiers remembered (`INSERT OR IGNORE`), the journal pruned to its
  newest rows. `row[k]` is the journal's row of operation `k`, 0 when it has
  none.
* `FlushAnswered` takes what was settled out of the queue and adopts the
  answer with the rest of the queue on top; `FlushFailed` leaves the queue;
  `FlushLost` is the network breaking, before or after the server.
* `pollLive`, `GetLive`, `PollAnswered` are the differential poll. A tick polls
  whether or not the last poll has been answered: `Polls` says how many an
  application may have in flight.
* Answers are adopted when they come, in any order, as in the code: the flush and the
  poll of a tick leave together, over two connections, and nobody looks at the
  version of an answer before adopting its articles. Two histories say what
  came of it: `polled[c]` is the greatest version `c` has polled, `late[c]` that the
  articles it adopted last are older than that.
* `Restart` keeps the queue (localStorage) and the cached document.
* `RemoveList` is the save of a document without a list, reconciled by the
  server (`preserveShopping`); the save protocol itself is DocSync.

`Gestures` is the abstract specification: gestures are made one after the other
(`Make`), and the server executes some and drops some when it pleases (`Serve`),
each once at most and, before a gesture is executed, with the earlier ones of
its author done. `OpSync` states that it implements it (`KeepsPromise`), its
histories `issued`, `executed` and `refused` standing for `made`, `executed` and
`dropped`: every gesture is a `Make`, every batch handled a `Serve` (or nothing, when the
journal knew it all), every other step a stutter. The counts are mapped as counts,
so that an operation executed twice is a step `Gestures` does not have.

Left out of OpSync: the 409 of a queue that belongs to another member, a second
tab on the same localStorage, and the version test in `refreshDocument` (the
model reads the document again whenever it likes, which includes it). One reading
of the document at a time is in flight, where two ticks of the code could start two
(`refreshDocument` has no flag): its answer is adopted as a poll's is, of which there
may be several (`Polls`).

### Recurrence and TaskSeries: how they correspond to the code

* A date is a number of days from the first of `FirstYear`, without end, a month
  its rank; leap years, `daysInMonth`, weeks and clamped months are the real ones,
  so that the 31st, February and seasons across a new year are met. `matches` and
  `firstMatchAfter` are the scan of the rule, `stepFrom` the series counted from the
  gesture, `skipOccurrence` the skip.
* `server.task` is the task as the server keeps it: `applyDone` compares the
  occurrence the operation names with the current one, `maintain` is the gesture
  of the maintenance list (once a day, the stock it takes), `applyReopen`,
  `applySkip` and `applyEdit` their namesakes, `noteAlert` the shopping article
  asked for when the batch leaves the stock low.
* `apply` is also `applyTaskOp` of the screen, `inverseOf` the operation of
  « Annuler », taken from the task shown when the gesture was made and sent
  whenever the toast is pressed (`undoLast`).
* `flushTaskQueue` is a batch and its transaction; `adoptTasks` the answer of
  the server, with the rest of the queue applied on top.
* Histories: `server.bought` is what was bought or counted; `server.rewound`
  says that somebody moved the due date by hand, or opened a finished series again
  by undoing a tick that is not its last; `server.cut` that the stock or the
  history may have reached its cap (`STOCK_MAX`, `HISTORY_MAX`), where what is
  taken or given back is no longer exact.

### TaskTree: how it corresponds to the code

* An order key is an integer, with `Gap` between the keys of the beginning; in
  the code it is a text, always divisible, which every task modelled has. A key
  between two keys is the middle; next to neighbours whose keys are equal, the
  library throws and `keyForMove` refuses (`coherent`), as in the code. Two
  integers that follow one another have no middle, two texts do: `ServeOne` handles
  a move only while there is one (`hasRoom`, a bound). `Gap` may be halved four
  times, which is more than the gestures of the runs do.
* The code sorts all the tasks and looks at the neighbours of a place; the model
  takes the *set* of tasks before that place (`slot`) and the greatest key there,
  the least key of the others (`lastKey`, `firstKey`). A place is the current one
  when the same tasks come before it.
* A batch on several tasks (`each`) names them in any one order, where the code
  follows that of the tasks it holds: its operations touch different tasks.
* A batch is one transaction, in several steps of TLC (`ServeOne`, one per
  operation): while `serving` holds a batch, nothing else reads or writes the
  tasks of the server; only devices go on, which see nothing of it.
* `accepts` is every refusal of `applyOps` and `readParent`; `applyTaskOp` what
  an accepted operation does, which is also what the screen shows at once;
  `promoted` the subtasks left without a parent; `preserveTasks` the save of a
  document without a list, with `reconcile`.
* The gestures (`createTask`, `addSubtask`, `toggleTask`, `removeTask`,
  `updateTask`, `reorderTasks`, `uncheckAll`, `resetList`, `undoLast`) are the
  methods of the store, each with the batch it sends and the one « Annuler » keeps.

### Notifier: how it corresponds to the code

* Time is counted in hours, a day has `Day` of them; a running service makes a
  passage, and ends it, before the hour is over (it makes sixty).
* `tick` is a passage up to its first send; `notify` one member of one hit;
  `Answered` one device, between two awaits, the last one writing the journal.
  `Crash` may come at any of these points.
* `dueHits`, `dueMissed` are the two results of `dueReminders`; preparations,
  months to declare, warranties and the Sunday report are occasions that last
  (`Standing`, `Window`).
* `eveningReminders` is the other caller of `notify`, from the École planner,
  whose passages may overlap (`Caller`).

### EcoleAccount: how it corresponds to the code

* `chain` is the promise queue of `exclusive()`, its head the exchange in
  progress, `exchange` how far it is and the row it read. `succeeded`, `asked`,
  `failed` are `onSuccess`, `onQcm`, `onFailure`: fields computed from the row
  read, written over the row as it is when the answer comes.
* Dates are kept as what the code asks of them: the last attempt is of now,
  recent or old (`isDue`), a pause is running or over (`mayRun`).
* A question met again is answered from the remembered choice when it is still among
  the propositions (`offered`); when it is not, the account asks again (`onQcm`).
* A passage is `ecoleTick` cut at its awaits: `ticking` is tested, the evening
  reminders awaited, then `ticking` is set and the accounts read once.
* `Restart` may bring another key or another API version, which is what the
  blocks `cle` and `version` wait for.

### Statements: how it corresponds to the code

* An operation stands for a date, an amount and a label; a file is a sequence of
  lines with an account label. `blocks` are runs of one label, `collapseBlocks`
  the blocks of one account taken as copies of one statement, `existingByKey`
  and `firstSeq` what the database answers, `dedupeAgainst` the delta.
* A row keeps the key it was inserted with whatever happens to it later, as in
  the table; a row typed by hand has a random key, so it never counts. What it says
  now is its `op` (date, amount, label), its account and its `kind`.
* `PUT /transactions/:id` rewrites all of these, of any row, and looks at no
  transfer; what is typed is an expense, an income or a transfer, whichever the form
  says, as long as the sign agrees (`kinds`). Two histories remember what that does:
  `torn`, the transfers of which a leg was deleted, or given another amount or kind,
  by hand; `marked`, the rows that were called transfers by hand outside any.
* The window of a file is that of the whole file, for each account it mentions.

### Files: how it corresponds to the code

* A content is a model value (its SHA-256), a row its identifier, kind and
  content. Handlers are synchronous: a request is one step, or two when the
  process stops in the middle (`stop`, a handler cut after its first write).
* Photos of recipes and of shopping articles (`OwnerKinds`) go through one route:
  stored from a form, cited once it is saved (`savePhoto`), and erased at once, row
  and bytes, by `DELETE /api/files/:id` (`deletePhoto`), which does not look at what
  cites them. No screen of the repository calls that route; the server offers it.
* `StartAgain` is `pruneUnreferencedFiles` at start, with what the document
  cites, the sheets of equipment and the maintenance gestures that remain.
* `missing`, `rolledBack`, `left`, `forgotten`, `erased` remember the five situations
  the properties have to except, each of which the model reaches: files restored
  without their bytes, a reset rolled back, bytes left by a stop, a photo pruned while
  still in a form, a photo deleted by its number while something cites it.

### Services

The four services share no variable. In `ProcessSpec`, the process, any one of them
moves at each step. In `ServicesSpec` the one that moves, `side`, is chosen at the
beginning and the others stay at their initial state: TLC explores the sum of the
four state spaces, each with all its interleavings, rather than their product. That
these behaviours are some of the process's, and that what holds of each service holds
in the process, whatever the others do, is proved (`OneAtATime`, `ProcessServes`).

## 3. The runs

| run | question | instance | result |
|---|---|---|---|
| `doc_safe` | does a save ever overwrite another, do something twice, or stay without a retry? | 2 devices, 3 changes (one malformed, one refused for its rights), 1 reload of the page, 1 of the document, 1 replay | `DocInv`, `AppliedOnce`, `RetryArmed`, `NothingOverwritten` hold |
| `doc_live` | does a save that set out end? | 1 device, 2 changes (one kept by the server), operations moving the version under it, 1 broken exchange, 1 reload of the document | `SentIsSettled` holds |
| `doc_lost_answer` | ... done twice after a lost answer? | 2 devices, 2 changes | **violated**: `AppliedOnce` |
| `doc_stuck` | does every change leave in the end? | 2 devices, 2 changes, no failure at all | **violated**: `PendingIsSettled` |
| `ops_replay` | once, in order, never lost, always shown? | 1 device, 3 gestures on an article between two lists, 1 loss, 1 tab killed, 1 list removed | `AtMostOnce`, `NoGestureLost`, `InIssueOrder`, `OpInv`, `PendingShown`, `ListsKnown` hold, and `OpSync` implements `Gestures` (`KeepsPromise`) |
| `ops_live` | do screens and queues converge, short of their two exceptions? | 2 devices, 2 gestures, 1 loss, journal of 1 row, batches of 1 operation, answers in any order | `LiveIsTruthful`, `ScreenCatchesUp`, `QueueDrains`, `RedoneOnlyIfForgotten` hold |
| `tasks_series` | does a series settled from two devices stay right? | 2 devices, 6 rules from the 31st of January of a leap year, 3 gestures on the weekly ones and 1 on the others, 2 days of gestures | the seven properties of `TaskSeries` hold |
| `tasks_tree` | do lists, subtasks and order stay right? | 2 devices, 2 lists, 3 tasks and 2 new ones, 2 gestures and their undo, 1 list removed | `TreeSound`, `ShownIsApplied`, `UndoGivesBack`, `NothingVanishes`, `MoveLands` hold |
| `tasks_removal` | ... and does undoing a removal give everything back? | 1 removal | **violated**: `RemovalGivenBack` |
| `services` | are reminders, accounts, statements and files right, each for itself? | see the bounds | twelve properties hold |
| `notify_paused` | is a suspended reminder ever caught up? | 1 device, 1 reminder, suspended and resumed | **violated**: `PausedIsNotCaughtUp` |
| `imports_undone` | does undoing an import give the base back? | 3 files, 3 imports, 3 gestures | **violated**: `CoverageIsTrue` |

What the properties say, beyond the comments of the modules:

* `LiveIsTruthful`, `ScreenCatchesUp`: a screen is right unless an answer overtaken on
  the network was adopted last (`late`), which only the next change of the
  household repairs once the current version has been polled.
* `QueueDrains`: a gesture leaves its queue unless the queue has outgrown
  `MAX_OPS_PER_BATCH`. `ops_live` reaches these states too, and the code does not get
  out of either by itself (see the end of the findings).
* `SeriesGoesForward`, `OnceADay`: an occurrence settled by one device is not
  settled again by another that had not seen it. `StockAddsUp`, `AlertedWhenLow`:
  stock (short of the two caps), history and low mark agree whatever is undone.
  `UndoRestores`: while the history has room, the inverse of each gesture puts
  dates, history and stock back (the last occurrence of a series excepted: skipping
  it cannot be undone, since « Annuler » only sends its due date). `NextIsTheFirst`:
  the code scans days one by one and tests each; the property compares with the rule
  unrolled from its anchor, step by step (`RuleDays`), as far as the scan goes. A
  season that opens on the 29th of February opens on the 28th of other years
  (`OpensShort`), as the comment of `seasonStart` says.
* `TreeSound`, `NothingVanishes`, `MoveLands`: the server, with devices acting at
  the same time. `ShownIsApplied`, `UndoGivesBack`: for every gesture one could make
  in any reachable state, the screen against the server.
* `RingsOnce`: once per device, plus once per stop in the middle of that very
  send. `DeferredToTheEndOfQuiet`: the first hour out of the quiet ones.
  `NoReminderForgotten`: due leads to sent, failed or missed.
* `QuestionToAnswer`: a block only an answer can lift always has its question.
  `NotInsistent`: never more than `MAX_FAILURES` automatic failures in a row
  between two pauses. `AccountsComeBack`: an account nobody blocked or paused is
  contacted again and again.
* `OnlyTheDelta`: never more of one operation than the richest of the validated
  imports shows, exactly that when nothing was removed. `UniqueFingerprint`: no
  validation meets the unique index. `TransfersPaired`: two legs that cancel and count
  as a transfer, or none, but for the transfers torn by hand (`torn`); any other row
  counts as its amount says, unless it was typed as a transfer (`marked`).
* `CitedIsThere`, `DiskIsHeld`: citations have rows, rows have bytes, bytes have
  rows, but for the five situations the model names.

### The findings

1. **A lost answer makes a change twice** (`doc_lost_answer`). The save is
   accepted, its answer lost; `failSave` retries under the old version, the
   server answers 409 with a document that already contains the change, and
   `applyConflict` replays it on top. Nothing identifies a change, as `opId` does
   an operation.
2. **A change can stay unsaved for ever** (`doc_stuck`). The 700 ms timer
   fires while an earlier save is in flight (a slow one, or a retry):
   `flush` returns, the save that ends arms nothing, `saveState` says `idle`. The
   change leaves with the next one, or is lost with the tab.
3. **Undoing the removal of a parent loses its subtasks** (`tasks_removal`).
   The removal goes subtasks first; the undo sends the inverses in the same order,
   so each subtask is created before its parent and refused. The screen shows
   them, without any check, until the next answer.
4. **Suspended reminders are caught up** (`notify_paused`). Nothing remembers
   the suspension: reminders whose hour fell in it ring at the first passage after
   it, if they are less than `LATE_WINDOW` old, and are noted as missed otherwise.
5. **An undone import still covers its days** (`imports_undone`). Its windows
   stay and their import's status is not looked at: a month without its operations
   is shown as complete.

Three more weaknesses have no run of their own. The first two are exceptions that
properties of `ops_live` name, and that TLC reaches; without them it finds each violated.

* **An overtaken answer stays on the screen** (`ScreenCatchesUp`, `LiveIsTruthful`). The
  flush and the poll of a tick leave together (`foyer.store.ts` 1241-1242). The server
  handles the flush, another device adds, the server handles the poll, whose answer comes
  first. The answer of the flush then puts the older list back while the application
  already holds the newer version: the polls that follow are told `unchanged`, and what
  the other device did stays off the screen until the household changes again.
* **A queue longer than a batch never leaves** (`QueueDrains`). It is posted
  whole (1039-1043), refused whole (413) and kept whole: with one gesture too many, none
  leaves.
* With `RacingReload = TRUE` a `loadState()` that overlaps a save breaks
  `NothingOverwritten`. It is a switch of the model, off in the runs, and listed among
  the hazards.

One more came out of a proof that failed: a series finished by its last occurrence
and whose *older* tick is undone from another device (`reopen`, `tasks/ops.ts`
742-766) is open again at its last occurrence, which the history already holds, so
that it can be settled twice. `SeriesGoesForward` excepts it by name
(`rewound`).

### Bounds, and why they are enough

* `MaxVersion`, `MaxGiveUps`, `MaxRestarts`, `MaxReloads` (DocSync) and
  `MaxOps`, `MaxLosses`, `MaxRestarts`, `MaxReads` (OpSync) count what the
  environment does: writes by others, broken exchanges, reloads. One of each is
  enough to reach every branch of the handlers. No exchange is broken in
  `doc_safe`, since a lost answer violates `AppliedOnce` (finding 1): the proof of it
  (`ChangesAreAppliedOnce`) asks for exactly that, and that no save overwrites
  another whatever breaks is proved without (`NoLostUpdate`). The proofs
  have no bound: they hold for every value of these constants.
* `MAX_REBASE` is 3 in the code: it is 1 in the large instances, which reach
  the branch where replays are given up sooner, and 3 in the findings.
* `MAX_OPS_PER_BATCH` (500) and `OPS_JOURNAL_MAX` (2000) are scaled to 1 to 3
  so that both limits are reached; the theorems need no such scale. Two gestures
  for batches of one in `ops_live`, three for batches of two in
  `ops_replay`: queues outgrow the limit in each.
* `Polls` is one in the runs, where a flush and a poll are enough for one to overtake
  the other; the theorems hold for any number of polls in flight.
* `Invalid`, `Refused`, `Frozen` (DocSync) are one change each where there are any:
  a 400, a 403 and a part kept by the server are answers to one document.
* `Kinds` chooses which gestures an instance makes, so that three gestures fit.
  The order of gestures is only visible with gestures that do not commute, hence
  edits from list to list in `ops_replay`.
* Tasks: the rules of `MCTasks` are one of each form (several weekdays, every
  other week, clamped months, a season across the new year, a season of spring,
  an end), from a 31st of January before a 29th of February. Weekly rules have
  three gestures, for two devices to cross each other and undo; the others one,
  for the dates. `HISTORY_MAX` is 4 (200 in the code), more than the gestures made,
  and `STOCK_MAX` 9. Two gestures of `tasks_tree` are two devices that cross, each
  with its undo; `Init0` has a parent with its subtask and a list of preparation.
* `services`: reminders have a day of 4 hours, one task with a reminder that may be
  put off, one occasion, the evening reminder, 2 devices, a night from 3 to 1,
  1 stop, 1 suspension, 1 gesture of the household, 6 hours. École has one
  account, 2 questions, 2 keys, 2 versions, a limit of 2 failures, 1 gesture of an
  administrator, 1 restart; one passage of the planner: with two
  that overlap (`ecoleTick` sets `ticking` only after an await), TLC finds
  `NotInsistent` violated.
  Statements have 2 accounts, 3 files that overlap (a repeated block, a transfer,
  the same withdrawal on both sides of another row), 3 imports, 3 gestures. Files
  have one content shared by up to 3 rows of all kinds and two sheets: contents do
  not interact with each other, only through the rows that share one; 1 stop.
* Devices are symmetric in Init and Next: `SYMMETRY` is used in the runs that
  check no liveness.

### Fairness

Weak fairness, on steps the code or its runtime performs by itself: timers fire
(`setTimeout`), handlers answer, answers are handled, an open application polls
and flushes (its interval; the screen is visible). No fairness on gestures,
restarts, reloads, nor on the network: a broken exchange is never required, and
their number is bounded. `FlushNow` (network back, screen back) is not fair: the
code cannot count on anybody looking at the screen.

In `services`: the service is started again (systemd), a passage comes every
minute (`tick`), each send ends (the push service answers, or the attempt fails),
each exchange with ÉcoleDirecte ends (its client has a timeout), dates grow old.
`EveningEnds` has strong fairness: a passage at night ends at once, and some
passages are made by day. No fairness on time itself, on stops, on suspensions, on
administrators, on the choices of the remote server.

`CHECK_DEADLOCK FALSE` everywhere: a household in which nobody touches anything
stops, and should.

## 4. The proofs

Proved by TLAPS, for every set of devices, of changes or articles and every
value of the bounds, under the assumptions `DocSyncAssumption`,
`OpSyncAssumption` (no article is the value that stands for its absence),
`RecurrenceAssumption`, `TaskSeriesAssumption` (the rules are those a form can make;
three gestures take no more than the stock can hold), `TaskTreeAssumption` (finitely
many tasks at the beginning, on two levels; the absence of a key is not a key),
`NotifierAssumption`, `StatementsAssumption` (no amount is zero, no file is empty),
`FilesAssumption` and `EcoleAssumption`: types of the constants.

Three of the modules fold operations over a state, the batch of `OpSync` and the
sequences of `TaskSeries` and of `TaskTree`. The induction theorems of the library cannot be used
(they take an operator); the proofs have their own, on a *set* of naturals: a
nonempty one has a least element (`Least`, from the well-foundedness of `<`), so one
that holds 0 and, with `n`, `n + 1` holds them all (`Ups`). A fold is laid out as a
table of its intermediate results, and a property of the fold is one of each row.

**DocSync_proofs.**
* `TypeCorrect`: `Spec => []TypeOK`.
* `CopiesAreHonest`: `~RacingReload` and `Spec` imply `[]DocInv`. The
  argument: call a copy `(v, d)` *based* when `v` is not greater than the row's
  version and, when equal, `d` contains the row. Every copy of the document that
  can reach the server or a screen is based: the one on the screen, the cached
  one, those in requests, answers and late requests. A save is accepted only at
  the row's version, so it contains the row; it makes the version greater, so
  every other copy stays based without a look at its content. Three parts are
  needed to make it inductive: a save in flight is contained in the screen's
  document (its acknowledgement renumbers that one), a `loadState()` does not
  overlap a save, and what is pending is on the screen and, once accepted, in the
  row.
* `NoLostUpdate`, `AcknowledgedIsKept`, `CurrentIsUpToDate`: corollaries
  (`NothingOverwritten`, `AckedKept`, `CurrentIsComplete`).

* `FailuresAreRetried` (`RetryArmed`): only an open application saves, and a save
  that failed leaves it open, not saving, with its retry timer armed. Reloads
  overlapping a save are included.

* `ReplaysAreSound` (`ReplaysAreSafe`) and `ChangesAreAppliedOnce` (`AppliedOnce`),
  both while no save was given up (`giveUps = 0`), reloads that overlap a save
  included. `OnceInv` follows one change: no copy anywhere holds it twice; not made
  yet, no copy holds it at all; pending at one client only, once; and when a conflict
  can still replay it, no copy but those of that client holds it. A save carrying it that the
  server accepts is the one whose acknowledgement takes it out of the replays, for
  a client has one save in flight; only a lost answer breaks that link, and
  finding 1 is what follows.

`~RacingReload` is not an assumption on the code but a necessary condition:
`RacingReload = TRUE` violates the same property. So is `giveUps = 0`
(`doc_lost_answer`).

**OpSync_proofs.**
* `OperationsAreKept`: `Spec => [](OpsTyped /\ OpInv)`, whatever the order of the
  answers. `OpInv` says that the journal tells the truth and, while it has room
  for every operation, all of it; that a queue holds its owner's gestures; that an
  answer settles only what the server settled; and that every batch is *closed*:
  with a gesture it holds the earlier ones of the same application that are not
  settled. Closure is what makes the order and the absence of loss inductive: a
  late batch is older than the queue, but never has a hole in it.
* `ReplayIsHarmless` (`AtMostOnce`), `GesturesAreKept` (`NoGestureLost`),
  `OrderIsKept` (`InIssueOrder`): corollaries.
* `PromiseIsKept`: with `OPS_JOURNAL_MAX >= MaxOps`, `Spec => KeepsPromise`. From
  the invariant before and after a step: the operations whose count went from 0 to
  1 are the ones executed now, `AtMostOnce` says that none went further, and
  `InIssueOrder` that their predecessors are done. The condition is needed: with
  a shorter journal an operation may be executed twice.
* `OnlyAFullJournalForgets` (`RedoneOnlyIfForgotten`) says when. `JournalShort`: rows
  are given once and in increasing order, and an operation that was executed and is
  not in the journal any more means that the journal is full. Pruning keeps the
  `OPS_JOURNAL_MAX` newest rows, and `Newest` that these are exactly so many.
* `ScreensAreSound`, with `ArticlesAreOnLists` (`ListsKnown`) and
  `ThePollTellsTheTruth` (`LiveIsTruthful`): `ScreenInv` adds that a gesture carries
  what its kind needs, that what the server said to a client under a version is
  still what it holds while that version is the current one (`Said`), that a
  client polls from a version it has polled (`PollsFromTheLast`), and that it shows what
  the server has when that version is the current one, unless what it adopted last is
  older (`ShowsTheLast`). It has no condition on the order of the answers: what an
  overtaking does is in the property, not in an assumption.
* `GesturesStayOnScreen` (`PendingShown`), whatever the order of the answers.
  After any adoption the screen is a replay of the queue; that it *shows* the queue is that a
  queue replayed twice is replayed once (`RunTwice`), which is false of operations in
  general (a tick, then an add) and true of these queues for a reason that
  `PendingInv` states: an article is added by a device that made no gesture on it, or whose
  last one removed it (`AddsAreNew`); and a queue is the last gestures of its device
  without a hole (`QueueIsTail`), since a flush takes the first ones (`FlushIsHead`).
  The lemma `Again` is the heart of it: on articles a queue leaves as they are, one
  more gesture is shown and, replayed after the queue, shown the same. It looks at
  one article at a time, in two lists with that article absent from both, on the
  same list, or in the same state, each of which a replay keeps (`RunKeepsBoth`).

**TaskSeries_proofs.**
* `NextIsLater`: for any rule a form can make, the next occurrence is a date or
  none, later than the day of the gesture and, at a fixed date, later than the
  occurrence settled. It needs the calendar: months follow one another without a
  gap (`firstDay`), through leap years and centuries, whatever the first year.
* `SeriesMovesOn` (`SeriesGoesForward`), `GesturesOnceADay` (`OnceADay`),
  `StockIsKept` (`StockAddsUp`), `LowStockIsMarked` (`AlertedWhenLow`),
  `SeriesTypeCorrect`: from `SeriesInvHolds`, `Spec => []SeriesInv`. A device sends
  what it computed from a screen that may be of any age, so the invariant asks of
  operations only that they are well formed (`SoundOperation`) and keeps the
  server's task *honest* (`HonestMemory`): its history rises, up to its due date or
  its last day, and with the stock adds up to what was bought. Each operation, then each
  batch, then each undo from a toast keeps it. A series that is finished must have
  its history rising too, or undoing its end would open it anywhere.
* `NextIsRight` (`NextIsTheFirst`), for every rule, date and gesture, through
  `RuleUnrolled`: the test of a day holds of exactly the days the rule unrolled from
  its anchor gives. A test is a remainder, an unrolling a multiple (`Multiple`): the
  two are the same days for a daily rule (`DailyUnrolled`); for a weekly one since a
  day is its Monday and its rank, and Mondays are weeks apart (`Weeks`, `DayOfWeek`,
  `WeeklyUnrolled`); for months and years since a day is its month and its day in it
  (`MonthIs`, `MonthsUnrolled`), and the months up to a day are no more than the
  unrolling takes (`MonthsRise`). `SeasonOpens` is the gesture's case: what is moved
  into the season is in it, or is a 28th of February that stands for its 29th.
* `UndoGivesItBack` (`UndoRestores`): computed gesture by gesture from the task
  shown, which the invariant says is well formed. That the history has room is
  needed: a tick that drops its oldest line cannot give it back.

**TaskTree_proofs.**
* `TreeIsSound`: `Spec => []TreeSound`. The invariant `TreeIInv` adds to it the
  shape of the tasks (a function to records, which updates by field need). The
  argument is the server's alone: whatever operation comes, from whatever queue,
  in whatever order, `OpKeepsSound` shows that its refusals and the promotion of
  the subtasks left keep the two levels, and `ReconcileKeepsSound` that the save of
  a document without a list does. Nothing is asked of the queues or of the screens.
* `TreeTypeCorrect`: `Spec => []TreeTypeOK`, which does ask for them. A key is
  computed from those of neighbours, so the tasks must stay finitely many for the
  greatest and the least to exist; `TreeTypes` carries it for the server and for
  each screen, and that queues and toasts hold what a gesture can send
  (`Sendable`), or the key of a replay would be that of nothing.
* `NothingIsLost` (`NothingVanishes`): of the seven operations one takes a task
  away, and only the one it names; a subtask is promoted, whoever added it. Then
  only a list removed takes tasks, its own.
* `MovesLand` (`MoveLands`): where a task was dropped. The key computed is strictly
  between the greatest of those before the place and the least of the others, or
  beyond the only side there is (`KeyLands`), so that in the new order the same tasks
  come before it; and nothing stands between the place and the task it was dropped by
  (`NextTo`). `ServedMove` applies it to a batch in the middle of which the server is,
  from queues of any age. It needs room between keys, hence `hasRoom`.
* `TheScreenIsRight` (`ShownIsApplied`): the screen applies without a check what
  the server may refuse; the two differ by the refusals and by the promotion of
  subtasks. Taps and moves are done alike, refusals included (`AlikeBatch`): a move
  between two equal keys changes nothing on the screen either, which is why
  refusals are ruled out only while keys differ (`MoveAccepted`). The removal of a
  parent agrees because its subtasks go first, so that none is left to promote
  (`RemovedBatch`, on the set of tasks already taken away); a new task because its
  list and its parent are the server's too (`NewAccepted`).
* `AnnulerGivesBack` (`UndoGivesBack`): the inverse of a batch is computed from the
  tasks before it, and sent in the order of the batch, not backwards.
  It gives back exactly what was there since ticks of different tasks do not
  interfere: `MarkBatch` gives the result of a batch of ticks from the set of
  tasks it names, `FlipBacks` its inverses, `FlipBack` one after the other. A move
  gives its key back, a removal adds the task with the one it had (`MoveBack`,
  `RemovalBack`).

**Notifier_proofs.**
* `RemindersRingOnce`: `NotifierSpec => []RingsOnce`, for any household, any number
  of overlapping École passages, of stops and of suspensions. `RingsOnce` says
  nothing of a sending under way, so `RingIInv` adds: what the scheduler is sending
  is not in the journal yet (`SendingIsNew`), École passages only tell the evening
  reminder (`EveningOnly`), and a device that is still to be called, or whose pair
  is neither in the journal nor being sent, has rung for nothing but sendings cut
  short (`AllCounted`). The last answer closes the sending and writes the journal
  in one step; a stop pays for what it cuts with `cut`.
* `RemindersWaitForMorning` (`DeferredToTheEndOfQuiet`): of any hour of any day and
  any quiet hours, across midnight or not. Hours are compared modulo the day
  (`HourAfter`, `HourTomorrow`); `FirstLoudHour` shows that the hour the code computes
  is the first one that is not quiet. With `NotifierTypeCorrect`.

**Statements_proofs.**
* `FingerprintsAreUnique` (`UniqueFingerprint`) and `ImportsBringTheDelta`
  (`OnlyTheDelta`), from `RowsAreSound`: `StatementsSpec => []RowsIInv`. What a
  key holds is a set of ranks with holes, since rows are deleted and imports
  undone in any order. The invariant says who pays for them: a row that is there
  came with an import still validated that shows at least as many as there are
  ranks up to its own (`RanksPaid`). The row of the highest rank then gives the
  upper bound of `OnlyTheDelta`; `RanksWhole` gives the lower one, for keys that
  lost nothing. A validation continues after the highest rank, so it adds exactly
  the ranks that are missing, all new.
* `TransfersStayPaired` (`TransfersPaired`): `PairsIInv` says that a transfer is
  *coupled* (no leg, or two that cancel and count as a transfer) or torn by hand, and
  that no row has the number the next one will get. Rewriting a leg in its date or its
  account only leaves it coupled; in its amount or its kind, it is torn. Undoing an
  import takes from a coupled transfer a
  leg or none; with fewer than two left, all of them leave it.
* `StatementsTypeCorrect` (`StatementsTypeOK`): `RowsTyped`, and the labels and
  histories it leaves aside (`LabelsTyped`).

**EcoleAccount_proofs.**
* `BlockedAccountsAsk` (`QuestionToAnswer`): an answer of ÉcoleDirecte is written
  on the row as it is then, judged on the row as it was read. The invariant
  `EcoleIInv` keeps the rows, those a passage has read and the one the exchange
  has read well formed, and each of them *telling*: blocked by a question only
  with the question. Passages may overlap.
* `PausesAreKept` (`NotInsistent`): `OnePassage` (no two passages overlap) and
  `EcoleSpec` imply `[]NotInsistent`. Failures are counted from the row as it was
  read, so `CalmInv` says that this one, like the row itself, counts at least the
  automatic failures (`LoginCounts`, `RowsCount`); that an account a passage has
  still to look at, or has queued, may fail once more (`PassageCalm`,
  `ChainCalm`); and that the planner queues one account at a time (`OneQueued`).
  The condition is needed: with two passages TLC violates the property.
* `EcoleTypeCorrect` (`EcoleTypeOK`): `EcoleIInv`, and the sessions in memory, the
  stage of the exchange and what is counted (`MemoryTyped`).

**Services_proofs.**
* `CitedFilesAreThere` (`CitedIsThere`) and `BytesAreHeld` (`DiskIsHeld`):
  `FilesIInv` adds that an identifier names one row, that the last export is whole,
  and that a photo still in its form has its row too, unless it was erased or pruned:
  saving the form cites it later. Bytes go after the last row that holds them and come
  before the first, so
  a stop in between leaves bytes; only a reset rolled back after its bytes went, or
  a restoration that did not find them, leaves a row without any, and both are named.
* `FilesTypeCorrect` (`FilesTypeOK`) is a part of `FilesIInv`.
* `ProcessServes`: `ProcessSpec` implies the specification of each service, a step of
  another being a stutter for it. `ServicesTypeCorrect` (`ServicesTypeOK`),
  `ServicesAreSafe` (the eight safety invariants of the services together) and
  `PausesTogether` (`NotInsistent`, under `OnePassage`) follow, for the process and
  not only for the behaviours explored; these are some of its own (`OneAtATime`).

Only model-checked: liveness under fairness (`SentIsSettled`, `ScreenCatchesUp`,
`QueueDrains`, `NoReminderForgotten`, `AccountsComeBack`), which the prover does not
reach. Every other property of the passing runs is stated by a theorem.

## 5. Not modelled, and why

The parts marked `not_modelled` in `PROJECT.json`: forms over SQL tables handled
one request at a time, parsers, generators of exercises, pages, shell helpers.
Within the modelled parts: the content of the document, the wording of toasts,
cookies and sessions, image files, the calendar, the people and reminders of a
task, categories and receipts of an operation, the HTTP client of ÉcoleDirecte
(each of its answers is a choice of the environment).

## 6. Plan

Done: `DocSync`, `OpSync`, `Gestures`, `Recurrence`, `TaskSeries`, `TaskTree`,
`Notifier`, `EcoleAccount`, `Statements`, `Files`, `Services`, their runs, eight
modules of proofs. Next, in this order:

1. `DocOps`: a list created by a save and the operations that aim at it, in the
   order the timers allow (shopping and places do not wait for the document,
   tasks do).
2. `QueueOwner`: sessions that change on a device, queues per member, two tabs.
   Theorem: no operation is executed under another member's session.
3. `Tokens` (refresh tokens exchanged in two steps) and `LoginLimits` (delays that
   double): small modules.
