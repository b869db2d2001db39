------------------------------ MODULE TaskTree -------------------------------
(***************************************************************************)
(* Tasks and their subtasks in their lists, in the order given by hand,    *)
(* while several devices add, move, tick and remove                        *)
(* (backend/src/tasks/ops.ts, ordering.ts, repo.ts; frontend               *)
(* core/task-ops.ts, task-order.ts, foyer.store.ts).                       *)
(*                                                                         *)
(* A gesture is one batch of operations, applied on the screen without any *)
(* check, queued, and applied by the server with its refusals.  The server *)
(* handles a batch in one transaction: `serving` is the one under way,     *)
(* during which nothing else reads or writes the tasks of the server,      *)
(* while the devices go on.  That operations arrive once and in order is   *)
(* the subject of OpSync; series are that of TaskSeries.                   *)
(***************************************************************************)
EXTENDS Integers, Sequences, FiniteSets, SequencesExt

CONSTANTS
    Device, List,
    Preparation,    \* the lists that are packed again and again
    Init0,          \* the tasks at the beginning
    Id,             \* identifiers of tasks, numbers: they settle equal keys
    Kinds,          \* bound: the kinds of gestures made
    MaxGestures,    \* bound: gestures made, less those of « Annuler »
    MaxRemovals,    \* bound: lists removed
    None

Task == [list : List, parent : Id \union {None}, done : BOOLEAN, ord : Int]

ASSUME TaskTreeAssumption ==
    /\ Id \subseteq Nat /\ None \notin Int \union List \union Device
    /\ Preparation \subseteq List
    /\ IsFiniteSet(DOMAIN Init0)
    /\ DOMAIN Init0 \subseteq Id /\ Init0 \in [DOMAIN Init0 -> Task]
    /\ \A i \in DOMAIN Init0 : Init0[i].parent # None =>
          Init0[i].parent \in DOMAIN Init0 /\ Init0[Init0[i].parent].parent = None
    /\ MaxGestures \in Nat /\ MaxRemovals \in Nat

VARIABLES
    lists,      \* the lists of the document of the server
    server,     \* the tasks of the server
    serving,    \* the batch being handled: its device, operations left
    shown,      \* shown[d]: the tasks on the screen of d
    queue,      \* queue[d]: its operations not settled yet
    toast,      \* toast[d]: what « Annuler » would send
    used,       \* identifiers already given to a task
    gestures    \* bound: gestures made so far

vars == <<lists, server, serving, shown, queue, toast, used, gestures>>

\* tasks are a function, from those there are
subtasks(t, p) == {i \in DOMAIN t : t[i].parent = p}

(***************************************************************************)
(* The order given by hand: sorted by key, then identifier, all lists      *)
(* together.  A key between two others is generated by a library, as long  *)
(* as it must be: keys are integers here, far from one another.            *)
(***************************************************************************)
byOrd(t, i, j) == t[i].ord < t[j].ord \/ (t[i].ord = t[j].ord /\ i < j)

Gap == 16
between(a, b) == IF b = None THEN (IF a = None THEN 0 ELSE a + Gap)
                 ELSE IF a = None THEN b - Gap ELSE (a + b) \div 2
coherent(a, b) == a = None \/ b = None \/ a < b

\* the key of the last of S, of the first, None when there is none
lastKey(t, S) == IF S = {} THEN None ELSE Max({t[j].ord : j \in S})
firstKey(t, S) == IF S = {} THEN None ELSE Min({t[j].ord : j \in S})
endKey(t) == between(lastKey(t, DOMAIN t), None)

\* The others that come before i once it is moved before, or after, `ref`.
\* Mutant: the other side
slotSwapped(t, i, ref, side) ==
    {j \in DOMAIN t \ {i} : byOrd(t, j, ref) \/ (side = "avant" /\ j = ref)}
slot(t, i, ref, side) ==
    {j \in DOMAIN t \ {i} : byOrd(t, j, ref) \/ (side = "apres" /\ j = ref)}

\* the new key of i, its own when it is there already, None when refused
keyForMove(t, i, ref, side) ==
    LET before == slot(t, i, ref, side)
        a == lastKey(t, before)
        b == firstKey(t, (DOMAIN t \ {i}) \ before)
    IN  IF t[i].done \/ ref \notin DOMAIN t THEN None
        ELSE IF ref = i \/ before = {j \in DOMAIN t : byOrd(t, j, i)} THEN t[i].ord
        ELSE IF coherent(a, b) THEN between(a, b) ELSE None

\* bound: a key is left where the task goes, as there always is between two of
\* the texts the code has for keys
hasRoom(t, i, ref, side) ==
    LET before == slot(t, i, ref, side)
        a == lastKey(t, before)
        b == firstKey(t, (DOMAIN t \ {i}) \ before)
    IN  coherent(a, b) => between(a, b) \notin {a, b}

(***************************************************************************)
(* Operations.  A field an operation does not name is None.                *)
(***************************************************************************)
Operation == [op : {"add", "edit", "move", "done", "reopen", "remove", "reset"},
              id : Id \union {None}, list : List \union {None}, parent : Id \union {None},
              done : BOOLEAN, ord : Int \union {None}, ref : Id \union {None},
              side : {"avant", "apres"}]
Bare(op, i) == [op |-> op, id |-> i, list |-> None, parent |-> None, done |-> FALSE,
                ord |-> None, ref |-> None, side |-> "apres"]

\* may i be a subtask of p in the list l?
readParent(t, i, p, l) ==
    p = None \/ /\ p # i
                /\ p \in DOMAIN t /\ t[p].parent = None /\ t[p].list = l
                /\ subtasks(t, i) = {}

\* The server's refusals.
accepts(t, known, op) ==
    CASE op.op = "add" -> op.id \in DOMAIN t \/ (op.list \in known
                                              /\ readParent(t, op.id, op.parent, op.list))
      [] op.op = "edit" -> op.id \notin DOMAIN t \/ op.list \in known \union {None}
      [] op.op = "move" -> op.id \notin DOMAIN t \/ keyForMove(t, op.id, op.ref, op.side) # None
      [] op.op = "reset" -> op.list \in known \intersect Preparation
      [] OTHER -> op.op \in {"done", "reopen", "remove"}

unticked(t, S) == [i \in DOMAIN t |-> IF i \in S THEN [t[i] EXCEPT !.done = FALSE] ELSE t[i]]
without(t, S) == [i \in DOMAIN t \ S |-> t[i]]
added(t, op) ==
    LET new == [list |-> op.list, parent |-> op.parent, done |-> op.done,
                ord |-> IF op.ord = None THEN endKey(t) ELSE op.ord]
    IN  [i \in DOMAIN t \union {op.id} |-> IF i = op.id THEN new ELSE t[i]]

\* An operation on the screen: no check, whatever is gone is left alone.
applyTaskOp(t, op) ==
    IF op.op = "reset" THEN unticked(t, {i \in DOMAIN t : t[i].list = op.list})
    ELSE IF op.op = "add" THEN IF op.id \in DOMAIN t THEN t ELSE added(t, op)
    ELSE IF op.id \notin DOMAIN t THEN t
    ELSE CASE op.op = "edit" ->
                [t EXCEPT ![op.id].list = IF op.list = None THEN @ ELSE op.list,
                          ![op.id].ord = IF op.ord = None THEN @ ELSE op.ord]
           [] op.op = "move" ->
                LET k == keyForMove(t, op.id, op.ref, op.side)
                IN  IF k = None THEN t ELSE [t EXCEPT ![op.id].ord = k]
           [] op.op = "done" -> [t EXCEPT ![op.id].done = TRUE]
           [] op.op = "reopen" -> [t EXCEPT ![op.id].done = FALSE]
           [] op.op = "remove" -> without(t, {op.id})

promoted(t, S) == [i \in DOMAIN t |-> IF i \in S THEN [t[i] EXCEPT !.parent = None] ELSE t[i]]

\* Mutants: subtasks keep the parent that goes, or go with it
applyOpKeepingSubs(t, known, op) == IF accepts(t, known, op) THEN applyTaskOp(t, op) ELSE t
applyOpWithSubs(t, known, op) ==
    LET after == applyTaskOp(t, op)
    IN  IF ~accepts(t, known, op) THEN t
        ELSE IF op.op = "remove"
        THEN without(after, subtasks(t, op.id))
        ELSE after

\* The same by the server: refusals, and subtasks promoted when their parent goes.
applyOp(t, known, op) ==
    IF ~accepts(t, known, op) THEN t
    ELSE LET after == applyTaskOp(t, op)
         IN  IF op.op = "remove" THEN promoted(after, subtasks(after, op.id)) ELSE after

\* What is left of the tasks when only the lists `known` are.
reconcile(t, known) ==
    LET kept == without(t, {i \in DOMAIN t : t[i].list \notin known})
        orphan(i) == LET p == kept[i].parent
                     IN  p # None /\ (p \in DOMAIN kept =>
                                        kept[p].list # kept[i].list \/ kept[p].parent # None)
    IN  promoted(kept, {i \in DOMAIN kept : orphan(i)})

(***************************************************************************)
(* Gestures: the operations each sends, from the tasks t of the screen.    *)
(***************************************************************************)
\* one for each task of S, in any order: they touch different tasks
each(op, S) == [k \in 1..Cardinality(S) |-> Bare(op, SetToSeq(S)[k])]

newTask(i, l, p) == <<[Bare("add", i) EXCEPT !.list = l, !.parent = p]>>
moved(i, ref, side) == <<[Bare("move", i) EXCEPT !.ref = ref, !.side = side]>>
toOtherList(i, l) == <<[Bare("edit", i) EXCEPT !.list = l]>>

\* a tap: open again, or done with the subtasks it carries
toggled(t, i) ==
    IF t[i].done THEN <<Bare("reopen", i)>>
    ELSE <<Bare("done", i)>> \o each("done", {s \in subtasks(t, i) : ~t[s].done})

\* Mutant: only the task named goes
removedAlone(t, i) == <<Bare("remove", i)>>
removed(t, i) == each("remove", subtasks(t, i)) \o <<Bare("remove", i)>>
unchecked(t, l) == each("reopen", {i \in DOMAIN t : t[i].list = l /\ t[i].done})

\* Mutant: a move is undone by a move, to the other side
inverseOfMoveLess(op, t) ==
    CASE op.op = "done" -> IF t[op.id].done THEN <<>> ELSE <<Bare("reopen", op.id)>>
      [] op.op = "reopen" -> IF t[op.id].done THEN <<Bare("done", op.id)>> ELSE <<>>
      [] op.op = "move" -> moved(op.id, op.ref, IF op.side = "avant" THEN "apres" ELSE "avant")
      [] op.op = "remove" ->
            <<[Bare("add", op.id) EXCEPT !.list = t[op.id].list, !.parent = t[op.id].parent,
                                         !.done = t[op.id].done, !.ord = t[op.id].ord]>>
      [] OTHER -> <<>>

inverseOf(op, t) ==
    CASE op.op = "done" -> IF t[op.id].done THEN <<>> ELSE <<Bare("reopen", op.id)>>
      [] op.op = "reopen" -> IF t[op.id].done THEN <<Bare("done", op.id)>> ELSE <<>>
      [] op.op = "move" -> <<[Bare("edit", op.id) EXCEPT !.ord = t[op.id].ord]>>
      [] op.op = "remove" ->
            <<[Bare("add", op.id) EXCEPT !.list = t[op.id].list, !.parent = t[op.id].parent,
                                         !.done = t[op.id].done, !.ord = t[op.id].ord]>>
      [] OTHER -> <<>>

\* the inverses of a batch, in the order of its operations
backs(ops, t) == FoldLeft(LAMBDA back, op : back \o inverseOf(op, t), <<>>, ops)

Init ==
    /\ lists = List
    /\ server = Init0
    /\ serving = [dev |-> None, left |-> 0]
    /\ shown = [d \in Device |-> Init0]
    /\ queue = [d \in Device |-> <<>>]
    /\ toast = [d \in Device |-> <<>>]
    /\ used = DOMAIN Init0
    /\ gestures = 0

(***************************************************************************)
(* The devices                                                             *)
(***************************************************************************)
send(d, ops, back) ==
    /\ shown' = [shown EXCEPT ![d] = FoldLeft(applyTaskOp, @, ops)]
    /\ queue' = [queue EXCEPT ![d] = @ \o ops]
    /\ toast' = [toast EXCEPT ![d] = back]
    /\ UNCHANGED <<lists, server, serving>>
pushTaskOps(d, ops, back) ==
    gestures < MaxGestures /\ gestures' = gestures + 1 /\ send(d, ops, back)

taskOpsWithUndo(d, ops) ==
    pushTaskOps(d, ops, backs(ops, shown[d])) /\ UNCHANGED used

fresh(i) == i \notin used /\ \A j \in Id : j < i => j \in used

\* A screen may still show a list that is gone.
createTask(d, l) ==
    /\ "create" \in Kinds
    /\ \E i \in Id : /\ fresh(i) /\ used' = used \union {i}
                     /\ pushTaskOps(d, newTask(i, l, None), toast[d])

addSubtask(d, p) ==
    /\ "create" \in Kinds
    /\ p \in DOMAIN shown[d] /\ shown[d][p].parent = None
    /\ \E i \in Id : /\ fresh(i) /\ used' = used \union {i}
                     /\ pushTaskOps(d, newTask(i, shown[d][p].list, p), toast[d])

\* The last subtask ticked proposes to close the parent, instead of « Annuler ».
proposeParentClose(t, i) ==
    /\ t[i].parent # None /\ ~t[i].done
    /\ t[i].parent \in DOMAIN t /\ ~t[t[i].parent].done
    /\ \A s \in subtasks(t, t[i].parent) : s = i \/ t[s].done

toggleTask(d, i) ==
    LET t == shown[d]
    IN  /\ "toggle" \in Kinds /\ i \in DOMAIN t
        /\ IF proposeParentClose(t, i)
           THEN pushTaskOps(d, toggled(t, i), <<>>) /\ UNCHANGED used
           ELSE taskOpsWithUndo(d, toggled(t, i))

removeTask(d, i) ==
    /\ "remove" \in Kinds /\ i \in DOMAIN shown[d]
    /\ taskOpsWithUndo(d, removed(shown[d], i))

\* the form of a task: only the task itself changes list
updateTask(d, i, l) ==
    /\ "edit" \in Kinds /\ i \in DOMAIN shown[d] /\ shown[d][i].list # l
    /\ pushTaskOps(d, toOtherList(i, l), toast[d]) /\ UNCHANGED used

reorderTasks(d, i, ref, side) ==
    /\ "move" \in Kinds /\ i # ref
    /\ {i, ref} \subseteq DOMAIN shown[d] /\ ~shown[d][i].done
    /\ taskOpsWithUndo(d, moved(i, ref, side))

uncheckAll(d, l) ==
    /\ "uncheck" \in Kinds /\ unchecked(shown[d], l) # <<>>
    /\ taskOpsWithUndo(d, unchecked(shown[d], l))

resetList(d, l) ==
    /\ "uncheck" \in Kinds /\ l \in Preparation
    /\ pushTaskOps(d, <<[Bare("reset", None) EXCEPT !.list = l]>>, <<>>) /\ UNCHANGED used

undoLast(d) ==
    /\ toast[d] # <<>>
    /\ send(d, toast[d], <<>>) /\ UNCHANGED <<used, gestures>>

\* The queue leaves, and the server takes it.
flushTaskQueue(d) ==
    /\ serving.dev = None
    /\ queue[d] # <<>>
    /\ serving' = [dev |-> d, left |-> Len(queue[d])]
    /\ UNCHANGED <<lists, server, shown, queue, toast, used, gestures>>

\* One operation of the batch; it is settled, applied or refused.
ServeOne ==
    LET d == serving.dev
        op == Head(queue[d])
    IN  /\ d # None /\ serving.left > 0
        /\ op.op = "move" /\ {op.id, op.ref} \subseteq DOMAIN server =>
              hasRoom(server, op.id, op.ref, op.side)
        /\ server' = applyOp(server, lists, op)
        /\ queue' = [queue EXCEPT ![d] = Tail(@)]
        /\ serving' = [serving EXCEPT !.left = @ - 1]
        /\ UNCHANGED <<lists, shown, toast, used, gestures>>

\* The answer: the tasks of the server, and the gestures made meanwhile on top.
adoptTasks(d) ==
    /\ serving \in {[dev |-> d, left |-> 0], [dev |-> None, left |-> 0]}
    /\ serving' = [dev |-> None, left |-> 0]
    /\ shown' = [shown EXCEPT ![d] = FoldLeft(applyTaskOp, server, queue[d])]
    /\ <<serving, shown>>' # <<serving, shown>>
    /\ UNCHANGED <<lists, server, queue, toast, used, gestures>>

\* A document saved without a list.
preserveTasks(l) ==
    /\ serving.dev = None
    /\ l \in lists /\ Cardinality(List \ lists) < MaxRemovals
    /\ lists' = lists \ {l}
    /\ server' = reconcile(server, lists')
    /\ UNCHANGED <<serving, shown, queue, toast, used, gestures>>

Next ==
    \/ \E d \in Device :
         \/ undoLast(d) \/ flushTaskQueue(d) \/ adoptTasks(d)
         \/ \E l \in List : createTask(d, l) \/ uncheckAll(d, l) \/ resetList(d, l)
         \/ \E i \in Id :
              \/ addSubtask(d, i) \/ toggleTask(d, i) \/ removeTask(d, i)
              \/ \E l \in List : updateTask(d, i, l)
              \/ \E ref \in Id, side \in {"avant", "apres"} : reorderTasks(d, i, ref, side)
    \/ ServeOne
    \/ \E l \in List : preserveTasks(l)

Spec == Init /\ [][Next]_vars

(***************************************************************************)
(* Properties                                                              *)
(***************************************************************************)
TreeTypeOK ==
    /\ lists \subseteq List
    /\ DOMAIN server \subseteq Id /\ server \in [DOMAIN server -> Task]
    /\ serving \in [dev : Device \union {None}, left : Nat]
    /\ \A d \in Device : shown[d] \in [DOMAIN shown[d] -> Task]
    /\ queue \in [Device -> Seq(Operation)] /\ toast \in [Device -> Seq(Operation)]
    /\ serving.dev # None => serving.left <= Len(queue[serving.dev])
    /\ used \subseteq Id /\ gestures \in 0..MaxGestures

\* Whatever is added, moved to another list, removed or undone at the same
\* time, a subtask of the server has a parent, which is not a subtask
\* (readParent, the promotion in remove, reconcile), and no task is in a list
\* that is gone.
TreeSound ==
    \A i \in DOMAIN server :
      /\ server[i].list \in lists
      /\ server[i].parent # None => /\ server[i].parent \in DOMAIN server
                                    /\ server[server[i].parent].parent = None

\* A task leaves the server by an operation that names it, or with its list:
\* the subtask another device has just added is promoted, not lost
\* (docs/taches.md:527-529).
NothingVanishes ==
    [][\A i \in DOMAIN server : i \notin DOMAIN server' =>
         \/ server[i].list \notin lists'
         \/ serving.left > 0 /\ LET op == Head(queue[serving.dev])
                                 IN  op.op = "remove" /\ op.id = i]_server

\* In the tasks u, the one op moves is next to the one it names, on the side
\* asked; the others are in the order of t.
landed(t, u, op) ==
    LET first == IF op.side = "avant" THEN op.id ELSE op.ref
        second == IF op.side = "avant" THEN op.ref ELSE op.id
    IN  /\ byOrd(u, first, second)
        /\ \A j \in DOMAIN u : ~(byOrd(u, first, j) /\ byOrd(u, j, second))
        /\ DOMAIN u = DOMAIN t
        /\ \A i, j \in DOMAIN t \ {op.id} : byOrd(u, i, j) <=> byOrd(t, i, j)

\* A task moved is next to the one it was dropped by, whatever the other
\* device moved meanwhile, and only it has another place.
MoveLands ==
    [][serving.left > 0 /\ Head(queue[serving.dev]).op = "move" /\ server' # server =>
         landed(server, server', Head(queue[serving.dev]))]_server

\* The gestures one may make on the tasks t, while the lists `known` are.
Gestures(t, known) ==
    {toggled(t, i) : i \in DOMAIN t} \union {removed(t, i) : i \in DOMAIN t}
    \union {unchecked(t, l) : l \in known}
    \union {newTask(i, l, None) : i \in {j \in Id : fresh(j)}, l \in known}
    \union {newTask(i, t[p].list, p) : i \in {j \in Id : fresh(j)},
                                      p \in {j \in DOMAIN t : t[j].parent = None}}
    \union {moved(i, ref, side) : i \in {j \in DOMAIN t : ~t[j].done}, ref \in DOMAIN t,
                                  side \in {"avant", "apres"}}

applyBatch(t, known, ops) == FoldLeft(LAMBDA u, op : applyOp(u, known, op), t, ops)
accepted(t, known, ops) ==
    \A k \in DOMAIN ops :
      accepts(applyBatch(t, known, SubSeq(ops, 1, k - 1)), known, ops[k])
KeysDistinct(t) == \A i, j \in DOMAIN t : t[i].ord = t[j].ord => i = j

\* The screen anticipates without checking what the server will do: on tasks
\* both agree about, a gesture is never refused and gives what was shown
\* (task-ops.ts against ops.ts, task-order.ts against ordering.ts).
ShownIsApplied ==
    \A ops \in Gestures(server, lists) :
      /\ applyBatch(server, lists, ops) = FoldLeft(applyTaskOp, server, ops)
      /\ KeysDistinct(server) => accepted(server, lists, ops)

\* « Annuler », pressed at once, gives back what the gesture took; for the
\* removal of a task that carries subtasks, see RemovalGivenBack.  It needs every subtask
\* in the list of its parent: one left behind by a parent that changed list
\* can be removed, but is refused when it comes back.
Together(t) ==
    \A i \in DOMAIN t : t[i].parent # None => t[t[i].parent].list = t[i].list
Single(ops) == \A k \in DOMAIN ops : ops[k].op = "remove" => Len(ops) = 1
UndoGivesBack ==
    \A ops \in Gestures(server, lists) :
      LET undo == backs(ops, server)
      IN  undo # <<>> /\ Single(ops) /\ Together(server) =>
            applyBatch(applyBatch(server, lists, ops), lists, undo) = server
=============================================================================
