--------------------------- MODULE TaskTree_proofs ---------------------------
(***************************************************************************)
(* Theorems about TaskTree, for any tasks, lists, devices and bounds.      *)
(*                                                                         *)
(* First, that the tasks of the server stay on two levels: that proof says *)
(* nothing of the queues, the refusals of the server alone keep it, for    *)
(* any operation.  Then the types, which need those of the queues and of   *)
(* the screens; what leaves the server; and, of each gesture made on tasks *)
(* both sides agree about, that the server does what the screen showed and *)
(* that « Annuler » gives it back.                                         *)
(***************************************************************************)
EXTENDS TaskTree, FiniteSetTheorems, WellFoundedInduction, TLAPS

\* t is a function to records of tasks, whatever their fields hold.
Shaped(t) ==
    /\ t = [i \in DOMAIN t |-> t[i]]
    /\ \A i \in DOMAIN t :
         t[i] = [list |-> t[i].list, parent |-> t[i].parent, done |-> t[i].done,
                 ord |-> t[i].ord]

Sound(t, known) ==
    \A i \in DOMAIN t :
      /\ t[i].list \in known
      /\ t[i].parent # None => /\ t[i].parent \in DOMAIN t
                               /\ t[t[i].parent].parent = None

\* The inductive invariant: TreeSound, and the shape of the tasks.
TreeInv == Shaped(server) /\ Sound(server, lists)

\* What a change that keeps the identifiers, the lists or the parents keeps.
LEMMA AddKeepsSound ==
    ASSUME NEW t, NEW known, NEW op, Shaped(t), Sound(t, known),
           op.id \notin DOMAIN t, op.list \in known,
           readParent(t, op.id, op.parent, op.list), None \notin known
    PROVE  Shaped(added(t, op)) /\ Sound(added(t, op), known)
<1> DEFINE new == [list |-> op.list, parent |-> op.parent, done |-> op.done,
                   ord |-> IF op.ord = None THEN endKey(t) ELSE op.ord]
           u == [i \in DOMAIN t \union {op.id} |-> IF i = op.id THEN new ELSE t[i]]
<1>1. added(t, op) = u BY DEF added
<1>2. Shaped(u) BY DEF Shaped
<1>3. Sound(u, known)
  <2> SUFFICES ASSUME NEW i \in DOMAIN u
               PROVE  /\ u[i].list \in known
                      /\ u[i].parent # None => /\ u[i].parent \in DOMAIN u
                                               /\ u[u[i].parent].parent = None
      BY DEF Sound
  <2>1. CASE i = op.id
        BY <2>1 DEF readParent
  <2>2. CASE i # op.id
        BY <2>2 DEF Sound
  <2> QED BY <2>1, <2>2
<1> QED BY <1>1, <1>2, <1>3

\* A change of what a task is, not of where it hangs.
LEMMA EditKeepsSound ==
    ASSUME NEW t, NEW u, NEW known, Sound(t, known), DOMAIN u = DOMAIN t,
           \A i \in DOMAIN t : u[i].parent = t[i].parent /\ u[i].list \in known
    PROVE  Sound(u, known)
BY DEF Sound

\* One field of a task changed.
LEMMA FieldsChange ==
    ASSUME NEW x, NEW v,
           x = [list |-> x.list, parent |-> x.parent, done |-> x.done, ord |-> x.ord]
    PROVE  /\ [x EXCEPT !.done = v] = [list |-> x.list, parent |-> x.parent, done |-> v,
                                       ord |-> x.ord]
           /\ [x EXCEPT !.parent = v] = [list |-> x.list, parent |-> v, done |-> x.done,
                                         ord |-> x.ord]
<1> DEFINE l == x.list
           p == x.parent
           d == x.done
           o == x.ord
<1>1. x = [list |-> l, parent |-> p, done |-> d, ord |-> o] OBVIOUS
<1> HIDE DEF l, p, d, o
<1>2. [x EXCEPT !.done = v] = [list |-> l, parent |-> p, done |-> v, ord |-> o] BY <1>1
<1>3. [x EXCEPT !.parent = v] = [list |-> l, parent |-> v, done |-> d, ord |-> o] BY <1>1
<1> QED BY <1>2, <1>3 DEF l, p, d, o

\* What the screen would do of an accepted operation keeps it, removal apart.
LEMMA TaskOpKeepsSound ==
    ASSUME NEW t, NEW known, NEW op, Shaped(t), Sound(t, known), accepts(t, known, op),
           None \notin known,
           op.op # "remove"
    PROVE  Shaped(applyTaskOp(t, op)) /\ Sound(applyTaskOp(t, op), known)
<1> DEFINE u == applyTaskOp(t, op)
<1>1. CASE op.op = "reset"
  <2> DEFINE S == {i \in DOMAIN t : t[i].list = op.list}
  <2>1. u = [i \in DOMAIN t |-> IF i \in S THEN [t[i] EXCEPT !.done = FALSE] ELSE t[i]]
      BY <1>1 DEF applyTaskOp, unticked
  <2>2. \A i \in DOMAIN t :
          [t[i] EXCEPT !.done = FALSE] = [list |-> t[i].list, parent |-> t[i].parent,
                                          done |-> FALSE, ord |-> t[i].ord]
      BY FieldsChange DEF Shaped
  <2>3. Shaped(u)
    <3>1. DOMAIN u = DOMAIN t /\ u = [i \in DOMAIN u |-> u[i]] BY <2>1
    <3>2. ASSUME NEW i \in DOMAIN u
          PROVE  u[i] = [list |-> u[i].list, parent |-> u[i].parent, done |-> u[i].done,
                         ord |-> u[i].ord]
      <4>1. CASE i \in S BY <4>1, <3>1, <2>1, <2>2
      <4>2. CASE i \notin S BY <4>2, <3>1, <2>1 DEF Shaped
      <4> QED BY <4>1, <4>2
    <3> QED BY <3>1, <3>2 DEF Shaped
  <2>4. DOMAIN u = DOMAIN t /\ \A i \in DOMAIN t : u[i].parent = t[i].parent
                                               /\ u[i].list \in known
      BY <2>1, <2>2 DEF Sound
  <2> QED BY <2>3, <2>4, EditKeepsSound
<1>2. CASE op.op = "add"
  <2>1. CASE op.id \in DOMAIN t
      BY <1>2, <2>1 DEF applyTaskOp
  <2>2. CASE op.id \notin DOMAIN t
    <3>1. u = added(t, op)
        BY <1>2, <2>2 DEF applyTaskOp
    <3>2. op.list \in known /\ readParent(t, op.id, op.parent, op.list)
        BY <1>2, <2>2 DEF accepts
    <3> QED BY <2>2, <3>1, <3>2, AddKeepsSound
  <2> QED BY <2>1, <2>2
<1>3. CASE op.op \in {"edit", "move", "done", "reopen"}
  <2>1. CASE op.id \notin DOMAIN t
      BY <1>3, <2>1 DEF applyTaskOp
  <2>2. CASE op.id \in DOMAIN t
    <3> DEFINE i == op.id
    <3>1. \E new : /\ u = [t EXCEPT ![i] = new]
                   /\ new = [list |-> new.list, parent |-> new.parent, done |-> new.done,
                             ord |-> new.ord]
                   /\ new.parent = t[i].parent
                   /\ new.list \in known
      <4>1. t[i] = [list |-> t[i].list, parent |-> t[i].parent, done |-> t[i].done,
                    ord |-> t[i].ord] /\ t[i].list \in known
          BY <2>2 DEF Shaped, Sound
      <4>2. CASE op.op = "edit"
        <5> DEFINE l == IF op.list = None THEN t[i].list ELSE op.list
                   k == IF op.ord = None THEN t[i].ord ELSE op.ord
                   new == [list |-> l, parent |-> t[i].parent, done |-> t[i].done, ord |-> k]
        <5>1. u = [t EXCEPT ![op.id].list = IF op.list = None THEN @ ELSE op.list,
                            ![op.id].ord = IF op.ord = None THEN @ ELSE op.ord]
            BY <4>2, <2>2 DEF applyTaskOp
        <5>2. u = [t EXCEPT ![i] = new]
            BY <5>1, <4>1, <2>2 DEF Shaped
        <5>3. l \in known
            BY <4>1, <4>2, <2>2 DEF accepts
        <5>4. new = [list |-> new.list, parent |-> new.parent, done |-> new.done,
                     ord |-> new.ord] /\ new.parent = t[i].parent /\ new.list = l
            OBVIOUS
        <5> HIDE DEF new, l, k
        <5> QED BY <5>2, <5>3, <5>4
      <4>3. CASE op.op = "move"
        <5> DEFINE k == keyForMove(t, op.id, op.ref, op.side)
                   new == [list |-> t[i].list, parent |-> t[i].parent, done |-> t[i].done,
                           ord |-> k]
        <5>1. k # None
            BY <4>3, <2>2 DEF accepts
        <5>2. u = [t EXCEPT ![op.id].ord = k]
            BY <4>3, <2>2, <5>1 DEF applyTaskOp
        <5>3. u = [t EXCEPT ![i] = new]
            BY <5>2, <4>1, <2>2 DEF Shaped
        <5> QED BY <5>3, <4>1
      <4>4. CASE op.op \in {"done", "reopen"}
        <5> DEFINE new == [list |-> t[i].list, parent |-> t[i].parent,
                           done |-> op.op = "done", ord |-> t[i].ord]
        <5>1. u = [t EXCEPT ![op.id].done = (op.op = "done")]
            BY <4>4, <2>2 DEF applyTaskOp
        <5>2. u = [t EXCEPT ![i] = new]
            BY <5>1, <4>1, <2>2 DEF Shaped
        <5> QED BY <5>2, <4>1
      <4> QED BY <1>3, <4>2, <4>3, <4>4
    <3>2. PICK new : /\ u = [t EXCEPT ![i] = new]
                     /\ new = [list |-> new.list, parent |-> new.parent, done |-> new.done,
                               ord |-> new.ord]
                     /\ new.parent = t[i].parent
                     /\ new.list \in known
        BY <3>1
    <3>3. Shaped(u)
        BY <2>2, <3>2 DEF Shaped
    <3>4. DOMAIN u = DOMAIN t /\ \A j \in DOMAIN t : u[j].parent = t[j].parent
                                                 /\ u[j].list \in known
        BY <2>2, <3>2 DEF Sound
    <3> QED BY <3>3, <3>4, EditKeepsSound
  <2> QED BY <2>1, <2>2
<1> QED BY <1>1, <1>2, <1>3 DEF accepts

\* Tasks taken away, those that hung from them promoted.
LEMMA PromotionKeepsSound ==
    ASSUME NEW t, NEW S, NEW known, NEW R, Shaped(t),
           \A i \in DOMAIN t \ R : t[i].list \in known,
           S \subseteq DOMAIN t \ R,
           \A i \in (DOMAIN t \ R) \ S : t[i].parent # None =>
              /\ t[i].parent \in DOMAIN t \ R
              /\ t[t[i].parent].parent = None \/ t[i].parent \in S
    PROVE  /\ Shaped(promoted(without(t, R), S))
           /\ Sound(promoted(without(t, R), S), known)
<1> DEFINE k == without(t, R)
           u == promoted(k, S)
<1>1. k = [i \in DOMAIN t \ R |-> t[i]] BY DEF without
<1>2. DOMAIN u = DOMAIN t \ R /\ u = [i \in DOMAIN u |-> u[i]]
    BY <1>1 DEF promoted
<1>3. \A i \in DOMAIN u : u[i] = IF i \in S THEN [t[i] EXCEPT !.parent = None] ELSE t[i]
    BY <1>1, <1>2 DEF promoted
<1>4. \A i \in DOMAIN t :
        [t[i] EXCEPT !.parent = None] = [list |-> t[i].list, parent |-> None,
                                         done |-> t[i].done, ord |-> t[i].ord]
    BY FieldsChange DEF Shaped
<1>5. \A i \in DOMAIN u :
        u[i] = [list |-> t[i].list, parent |-> IF i \in S THEN None ELSE t[i].parent,
                done |-> t[i].done, ord |-> t[i].ord]
    BY <1>2, <1>3, <1>4 DEF Shaped
<1>6. Shaped(u) BY <1>2, <1>5 DEF Shaped
<1>7. Sound(u, known) BY <1>2, <1>5 DEF Sound
<1> QED BY <1>6, <1>7

\* An operation of the server, accepted or not, keeps it.
LEMMA OpKeepsSound ==
    ASSUME NEW t, NEW known, NEW op, Shaped(t), Sound(t, known), None \notin known
    PROVE  Shaped(applyOp(t, known, op)) /\ Sound(applyOp(t, known, op), known)
<1>1. CASE ~accepts(t, known, op)
    BY <1>1 DEF applyOp
<1>2. CASE accepts(t, known, op) /\ op.op # "remove"
    BY <1>2, TaskOpKeepsSound DEF applyOp
<1>3. CASE op.op = "remove" /\ op.id \in DOMAIN t
  <2> DEFINE R == {op.id}
             after == without(t, R)
             S == {i \in DOMAIN t \ R : t[i].parent = op.id}
  <2>1. after = [i \in DOMAIN t \ R |-> t[i]] BY DEF without
  <2>2. applyTaskOp(t, op) = after /\ accepts(t, known, op)
      BY <1>3 DEF applyTaskOp, accepts
  <2>3. subtasks(after, op.id) = S
      BY <2>1 DEF subtasks
  <2>4. applyOp(t, known, op) = promoted(after, S)
      BY <1>3, <2>2, <2>3 DEF applyOp
  <2>5. \A i \in (DOMAIN t \ R) \ S : t[i].parent # None =>
              /\ t[i].parent \in DOMAIN t \ R
              /\ t[t[i].parent].parent = None
      BY DEF Sound
  <2>6. \A i \in DOMAIN t \ R : t[i].list \in known
      BY DEF Sound
  <2>7. S \subseteq DOMAIN t \ R OBVIOUS
  <2> HIDE DEF S, R
  <2>8. Shaped(promoted(after, S)) /\ Sound(promoted(after, S), known)
      BY <2>5, <2>6, <2>7, PromotionKeepsSound
  <2> QED BY <2>4, <2>8
<1>4. CASE op.op = "remove" /\ op.id \notin DOMAIN t
  <2>1. applyTaskOp(t, op) = t /\ accepts(t, known, op)
      BY <1>4 DEF applyTaskOp, accepts
  <2>2. subtasks(t, op.id) = {} \/ op.id = None
      BY <1>4 DEF Sound, subtasks
  <2>3. t = [i \in DOMAIN t |-> t[i]] BY DEF Shaped
  <2>4. \A i \in DOMAIN t : t[i].parent = None =>
           [t[i] EXCEPT !.parent = None] = t[i]
      BY DEF Shaped
  <2>5. promoted(t, subtasks(t, op.id)) = t
      BY <2>2, <2>3, <2>4 DEF promoted, subtasks
  <2> QED BY <1>4, <2>1, <2>5 DEF applyOp
<1> QED BY <1>1, <1>2, <1>3, <1>4

\* A document without a list leaves tasks on two levels.
LEMMA ReconcileKeepsSound ==
    ASSUME NEW t, NEW known, Shaped(t)
    PROVE  Shaped(reconcile(t, known)) /\ Sound(reconcile(t, known), known)
<1> DEFINE R == {i \in DOMAIN t : t[i].list \notin known}
           kept == without(t, R)
           orphan(i) == LET p == kept[i].parent
                        IN  p # None /\ (p \in DOMAIN kept =>
                                           kept[p].list # kept[i].list \/ kept[p].parent # None)
           S == {i \in DOMAIN kept : orphan(i)}
<1>1. kept = [i \in DOMAIN t \ R |-> t[i]] BY DEF without
<1>2. reconcile(t, known) = promoted(kept, S)
    BY DEF reconcile
<1>3. DOMAIN kept = DOMAIN t \ R /\ \A i \in DOMAIN t \ R : kept[i] = t[i]
    BY <1>1
<1>4. S \subseteq DOMAIN t \ R
    BY <1>3
<1>5. \A i \in (DOMAIN t \ R) \ S : t[i].parent # None =>
         t[i].parent \in DOMAIN t \ R /\ t[t[i].parent].parent = None
    BY <1>3
<1>6. \A i \in DOMAIN t \ R : t[i].list \in known
    OBVIOUS
<1> HIDE DEF S, R
<1> QED BY <1>2, <1>4, <1>5, <1>6, PromotionKeepsSound

-----------------------------------------------------------------------------
(***************************************************************************)
(* The specification                                                       *)
(***************************************************************************)
\* A task without a list is in no list.
LEMMA NoneIsNoList == None \notin List
BY TaskTreeAssumption

TreeIInv == lists \subseteq List /\ TreeInv

\* The tasks at the beginning are on two levels.
LEMMA InitTree == Init => TreeIInv
<1> SUFFICES ASSUME Init PROVE TreeIInv
    OBVIOUS
<1>1. server = Init0 /\ lists = List
    BY DEF Init
<1>2. \A i \in DOMAIN Init0 : Init0[i] \in Task
    BY TaskTreeAssumption
<1>3. Shaped(server)
    BY <1>1, <1>2, TaskTreeAssumption DEF Shaped, Task
<1>4. Sound(server, lists)
    BY <1>1, <1>2, TaskTreeAssumption DEF Sound, Task
<1> QED BY <1>1, <1>3, <1>4 DEF TreeIInv, TreeInv

\* Only ServeOne and preserveTasks write the tasks of the server.
LEMMA NextTree == TreeIInv /\ [Next]_vars => TreeIInv'
<1> SUFFICES ASSUME TreeIInv, [Next]_vars PROVE TreeIInv'
    OBVIOUS
<1> USE DEF TreeIInv, TreeInv
<1>1. CASE UNCHANGED <<lists, server>>
    BY <1>1 DEF Shaped, Sound
<1>2. CASE ServeOne
  <2>1. None \notin lists
      BY NoneIsNoList
  <2>2. PICK op : server' = applyOp(server, lists, op) /\ lists' = lists
      BY <1>2 DEF ServeOne
  <2>3. Shaped(server') /\ Sound(server', lists)
      BY <2>1, <2>2, OpKeepsSound
  <2> QED BY <2>2, <2>3
<1>3. ASSUME NEW l \in List, preserveTasks(l)
      PROVE  TreeIInv'
  <2>1. server' = reconcile(server, lists') /\ lists' \subseteq lists
      BY <1>3 DEF preserveTasks
  <2>2. Shaped(server') /\ Sound(server', lists')
      BY <2>1, ReconcileKeepsSound
  <2> QED BY <2>1, <2>2
<1>4. ASSUME NEW d \in Device, undoLast(d) \/ flushTaskQueue(d) \/ adoptTasks(d)
      PROVE  UNCHANGED <<lists, server>>
    BY <1>4 DEF undoLast, send, flushTaskQueue, adoptTasks
<1>5. ASSUME NEW d \in Device, NEW l \in List,
             createTask(d, l) \/ uncheckAll(d, l) \/ resetList(d, l)
      PROVE  UNCHANGED <<lists, server>>
    BY <1>5 DEF createTask, uncheckAll, resetList, taskOpsWithUndo, pushTaskOps, send
<1>6. ASSUME NEW d \in Device, NEW i \in Id,
             addSubtask(d, i) \/ toggleTask(d, i) \/ removeTask(d, i)
      PROVE  UNCHANGED <<lists, server>>
    BY <1>6 DEF addSubtask, toggleTask, removeTask, taskOpsWithUndo, pushTaskOps, send
<1>7. ASSUME NEW d \in Device, NEW i \in Id, NEW l \in List, updateTask(d, i, l)
      PROVE  UNCHANGED <<lists, server>>
    BY <1>7 DEF updateTask, pushTaskOps, send
<1>8. ASSUME NEW d \in Device, NEW i \in Id, NEW ref \in Id, NEW side \in {"avant", "apres"},
             reorderTasks(d, i, ref, side)
      PROVE  UNCHANGED <<lists, server>>
    BY <1>8 DEF reorderTasks, taskOpsWithUndo, pushTaskOps, send
<1> QED BY <1>1, <1>2, <1>3, <1>4, <1>5, <1>6, <1>7, <1>8 DEF Next, vars

\* Whatever the devices add, move, remove and undo, and whichever lists go, the
\* tasks of the server are on two levels and in lists that exist.
THEOREM TreeIsSound == Spec => []TreeSound
<1>1. TreeIInv => TreeSound
    BY DEF TreeIInv, TreeInv, Sound, TreeSound
<1> QED BY <1>1, InitTree, NextTree, PTL DEF Spec

-----------------------------------------------------------------------------
(***************************************************************************)
(* Induction, stated on sets of naturals.                                  *)
(***************************************************************************)

\* A nonempty set of naturals has a least element.
LEMMA Least ==
  ASSUME NEW T, T \subseteq Nat, T # {}
  PROVE  \E n \in T : \A k \in T : n <= k
<1> DEFINE R == OpToRel(<, Nat)
<1>1. IsWellFoundedOn(R, Nat)
  BY NatLessThanWellFounded
<1>2. \A i, j \in Nat : i < j => <<i, j>> \in R
  BY DEF OpToRel
<1> HIDE DEF R
<1>3. PICK n \in T : \A k \in T : <<k, n>> \notin R
  BY <1>1, WFMin
<1>4. ASSUME NEW k \in T PROVE n <= k
  <2>1. k \in Nat /\ n \in Nat
    OBVIOUS
  <2>2. ~(k < n)
    BY <1>2, <1>3, <2>1
  <2>3. QED
    BY <2>1, <2>2
<1>5. QED
  BY <1>4

\* What holds of 0, and of n + 1 when it holds of n, holds of every natural.
LEMMA Ups ==
  ASSUME NEW T, 0 \in T, \A n \in Nat : n \in T => n + 1 \in T
  PROVE  Nat \subseteq T
<1> SUFFICES ASSUME NEW m \in Nat, m \notin T PROVE FALSE
  OBVIOUS
<1> DEFINE Out == {k \in Nat : k \notin T}
<1>1. Out \subseteq Nat /\ Out # {}
  OBVIOUS
<1> HIDE DEF Out
<1>2. PICK n \in Out : \A k \in Out : n <= k
  BY <1>1, Least
<1> USE DEF Out
<1>3. n # 0 /\ n - 1 \in Nat
  BY <1>2
<1>4. n - 1 \in T
  BY <1>2, <1>3
<1>5. QED
  BY <1>2, <1>3, <1>4

-----------------------------------------------------------------------------
(***************************************************************************)
(* Folds.  FoldLeft is a function of the set of the places it has gone     *)
(* through: Table(g, b, q, F) says that g is that function, for a step     *)
(* given by F.                                                             *)
(***************************************************************************)
Table(g, b, q, F) ==
    g = [s \in SUBSET DOMAIN q |-> IF s = {} THEN b ELSE F[<<g[s \ {Max(s)}], q[Max(s)]>>]]

\* ... and that its steps are all taken from S, on operations of T.
StepsFrom(g, q, S, T) ==
    \A s \in SUBSET DOMAIN q : s # {} => g[s \ {Max(s)}] \in S /\ q[Max(s)] \in T

\* The last place of those up to n is n.
LEMMA MaxUpTo ==
  ASSUME NEW n \in Nat, NEW s, s \subseteq 1..n, n \in s
  PROVE  Max(s) = n
<1>1. \A y \in s : n >= y
  OBVIOUS
<1>2. \A x \in s : (\A y \in s : x >= y) => x = n
  OBVIOUS
<1>3. QED
  BY <1>1, <1>2 DEF Max

\* Any nonempty set of places has a last one.
LEMMA MaxIn ==
  ASSUME NEW n \in Nat, NEW s, s \subseteq 1..n, s # {}
  PROVE  Max(s) \in s
<1> DEFINE T == {n - x : x \in s}
<1>0. \A x \in s : x \in Int /\ x <= n
  OBVIOUS
<1>1. T \subseteq Nat /\ T # {}
  <2>1. \A x \in s : n - x \in Nat
    BY <1>0
  <2>2. T \subseteq Nat
    BY <2>1
  <2>3. T # {}
    BY Zenon
  <2>4. QED
    BY <2>2, <2>3
<1> HIDE DEF T
<1>2. PICK m \in T : \A k \in T : m <= k
  BY <1>1, Least
<1> USE DEF T
<1>3. PICK x \in s : m = n - x
  BY <1>2
<1>4. \A y \in s : x >= y
  <2>1. ASSUME NEW y \in s PROVE x >= y
    <3>1. m <= n - y
      BY <1>2
    <3> HIDE DEF T
    <3>2. x \in Int /\ y \in Int
      BY <1>0
    <3>3. QED
      BY <1>3, <3>1, <3>2
  <2>2. QED
    BY <2>1
<1>5. QED
  BY <1>4 DEF Max

\* A fold is defined: its table exists, whatever the step from S to S, and the
\* step is only taken from S.
LEMMA TableExists ==
  ASSUME NEW S, NEW T, NEW F \in [S \X T -> S], NEW q \in Seq(T), NEW b \in S
  PROVE  \E g : Table(g, b, q, F) /\ StepsFrom(g, q, S, T)
<1> DEFINE Upto(n, g) ==
      /\ g \in [SUBSET (1..n) -> S]
      /\ \A s \in SUBSET (1..n) :
            g[s] = IF s = {} THEN b ELSE F[<<g[s \ {Max(s)}], q[Max(s)]>>]
           N == {n \in Nat : n <= Len(q) => \E g : Upto(n, g)}
<1>0. Len(q) \in Nat
  OBVIOUS
<1>1. 0 \in N
  <2>1. SUBSET (1..0) = {{}}
    OBVIOUS
  <2>2. Upto(0, [s \in SUBSET (1..0) |-> b])
    BY <2>1
  <2> HIDE DEF Upto
  <2>3. \E g : Upto(0, g)
    BY <2>2
  <2>4. QED
    BY <2>3
<1>2. ASSUME NEW n \in Nat, n \in N PROVE n + 1 \in N
  <2> HIDE DEF Upto
  <2> SUFFICES ASSUME n + 1 <= Len(q) PROVE \E g : Upto(n + 1, g)
    OBVIOUS
  <2>0. n <= Len(q)
    BY <1>0
  <2>1. PICK g : Upto(n, g)
    BY <1>2, <2>0
  <2> USE DEF Upto
  <2> DEFINE m == n + 1
             h == [s \in SUBSET (1..m) |->
                     IF m \in s THEN F[<<g[s \ {m}], q[m]>>] ELSE g[s]]
  <2>2. q[m] \in T /\ m \in Nat
    OBVIOUS
  <2>3. \A s \in SUBSET (1..m) : s \ {m} \in SUBSET (1..n) /\ (m \notin s => s \in SUBSET (1..n))
    OBVIOUS
  <2>4. \A s \in SUBSET (1..n) : m \notin s /\ s \in SUBSET (1..m)
    OBVIOUS
  <2>5. \A s \in SUBSET (1..n) : h[s] = g[s] /\ g[s] \in S
    BY <2>1, <2>4
  <2>6. ASSUME NEW s \in SUBSET (1..m)
        PROVE  /\ h[s] \in S
               /\ h[s] = IF s = {} THEN b ELSE F[<<h[s \ {Max(s)}], q[Max(s)]>>]
    <3>1. CASE m \in s
      <4>1. Max(s) = m
        <5> HIDE DEF m
        <5>1. s \subseteq 1..m
          OBVIOUS
        <5>2. QED
          BY <2>2, <3>1, <5>1, MaxUpTo
      <4>2. h[s] = F[<<g[s \ {m}], q[m]>>] /\ s # {}
        BY <3>1
      <4>3. g[s \ {m}] \in S /\ h[s \ {m}] = g[s \ {m}]
        BY <2>3, <2>5
      <4> HIDE DEF h
      <4>4. QED
        BY <2>2, <4>1, <4>2, <4>3
    <3>2. CASE m \notin s
      <4>1. s \in SUBSET (1..n) /\ h[s] = g[s] /\ h[s] \in S
        BY <2>3, <2>5, <3>2
      <4>2. s # {} => h[s \ {Max(s)}] = g[s \ {Max(s)}]
        <5>1. s \ {Max(s)} \in SUBSET (1..n)
          BY <4>1
        <5>2. QED
          BY <5>1, <2>5
      <4> HIDE DEF h
      <4>3. QED
        BY <2>1, <4>1, <4>2
    <3>3. QED
      BY <3>1, <3>2
  <2>7. h \in [SUBSET (1..m) -> S]
    <3>1. h = [s \in SUBSET (1..m) |-> h[s]]
      OBVIOUS
    <3> HIDE DEF h
    <3>2. QED
      BY <2>6, <3>1
  <2> HIDE DEF h
  <2>8. QED
    BY <2>6, <2>7
<1> HIDE DEF N
<1>3. Len(q) \in N
  BY <1>1, <1>2, Ups
<1> USE DEF N
<1>4. PICK g : Upto(Len(q), g)
  <2> HIDE DEF Upto
  <2>1. QED
    BY <1>3
<1>5. DOMAIN q = 1..Len(q)
  OBVIOUS
<1>6. Table(g, b, q, F)
  BY <1>4, <1>5 DEF Table
<1>7. ASSUME NEW s \in SUBSET DOMAIN q, s # {}
      PROVE  g[s \ {Max(s)}] \in S /\ q[Max(s)] \in T
  <2>1. s \ {Max(s)} \in SUBSET (1..Len(q)) /\ s \subseteq 1..Len(q)
    BY <1>5
  <2>2. Max(s) \in 1..Len(q)
    BY <1>0, <1>7, <2>1, MaxIn
  <2>3. g[s \ {Max(s)}] \in S
    BY <1>4, <2>1
  <2>4. QED
    BY <2>2, <2>3
<1>8. QED
  BY <1>6, <1>7 DEF StepsFrom

\* The places up to i + 1, less the last one.
LEMMA Places ==
  ASSUME NEW n \in Nat, NEW i \in Nat, i < n
  PROVE  /\ 1..(i + 1) \in SUBSET (1..n) /\ 1..(i + 1) # {}
         /\ Max(1..(i + 1)) = i + 1
         /\ (1..(i + 1)) \ {i + 1} = 1..i
<1>1. i + 1 \in Nat /\ i + 1 \in 1..(i + 1)
  OBVIOUS
<1>2. Max(1..(i + 1)) = i + 1
  BY <1>1, MaxUpTo
<1>3. QED
  BY <1>2

\* A nonempty finite set of numbers has a greatest.
LEMMA Greatest ==
  ASSUME NEW S, S \subseteq Int, IsFiniteSet(S), S # {}
  PROVE  Max(S) \in S /\ \A y \in S : y <= Max(S)
<1> DEFINE Tops(n) == \A f \in [1..n -> Int] :
                        n # 0 => \E k \in 1..n : \A j \in 1..n : f[j] <= f[k]
           N == {n \in Nat : Tops(n)}
<1>1. 0 \in N
  OBVIOUS
<1>2. ASSUME NEW n \in Nat, n \in N PROVE n + 1 \in N
  <2> HIDE DEF Tops
  <2>0. n + 1 \in Nat /\ Tops(n)
    BY <1>2
  <2> SUFFICES Tops(n + 1)
    BY <2>0
  <2> USE DEF Tops
  <2> SUFFICES ASSUME NEW f \in [1..(n + 1) -> Int]
               PROVE  \E k \in 1..(n + 1) : \A j \in 1..(n + 1) : f[j] <= f[k]
    OBVIOUS
  <2>1. CASE n = 0
    BY <2>1
  <2>2. CASE n # 0
    <3> DEFINE h == [j \in 1..n |-> f[j]]
    <3>1. h \in [1..n -> Int]
      <4>1. \A j \in 1..n : f[j] \in Int
        OBVIOUS
      <4>2. QED
        BY <4>1
    <3>2. PICK k \in 1..n : \A j \in 1..n : h[j] <= h[k]
      BY <2>0, <2>2, <3>1
    <3>3. \A j \in 1..n : f[j] <= f[k]
      BY <3>2
    <3>4. /\ \A j \in 1..(n + 1) : f[j] \in Int /\ (j \in 1..n \/ j = n + 1)
          /\ k \in 1..(n + 1) /\ n + 1 \in 1..(n + 1)
      OBVIOUS
    <3>5. CASE f[n + 1] <= f[k]
      BY <3>3, <3>4, <3>5
    <3>6. CASE f[k] < f[n + 1]
      <4>1. \A j \in 1..(n + 1) : f[j] <= f[n + 1]
        BY <3>3, <3>4, <3>6
      <4>2. QED
        BY <3>4, <4>1
    <3>7. QED
      BY <3>4, <3>5, <3>6
  <2>3. QED
    BY <2>1, <2>2
<1> HIDE DEF N
<1>3. Cardinality(S) \in Nat /\ ExistsBijection(1..Cardinality(S), S)
  BY FS_CardinalityType
<1>4. PICK f \in Bijection(1..Cardinality(S), S) : TRUE
  BY <1>3 DEF ExistsBijection
<1>5. Cardinality(S) \in N
  BY <1>1, <1>2, <1>3, Ups
<1>6. f \in [1..Cardinality(S) -> S] /\ \A x \in S : \E k \in 1..Cardinality(S) : f[k] = x
  BY <1>4 DEF Bijection, Surjection
<1>7. Cardinality(S) # 0 /\ f \in [1..Cardinality(S) -> Int]
  <2> DEFINE n == Cardinality(S)
  <2>1. n \in Nat /\ f \in [1..n -> S] /\ \A x \in S : \E k \in 1..n : f[k] = x
    BY <1>3, <1>6
  <2> HIDE DEF n
  <2>2. n # 0
    <3>1. PICK x \in S : TRUE
      OBVIOUS
    <3>2. PICK k \in 1..n : f[k] = x
      BY <2>1, <3>1
    <3>3. QED
      BY <2>1, <3>2
  <2>3. f \in [1..n -> Int]
    <3>1. ASSUME NEW k \in 1..n PROVE f[k] \in Int
      <4>1. f[k] \in S
        BY <2>1
      <4>2. QED
        BY <4>1
    <3>2. QED
      BY <2>1, <3>1
  <2>4. QED
    BY <2>2, <2>3 DEF n
<1>8. PICK k \in 1..Cardinality(S) : \A j \in 1..Cardinality(S) : f[j] <= f[k]
  BY <1>5, <1>7 DEF N
<1>9. f[k] \in S /\ \A y \in S : y <= f[k]
  BY <1>6, <1>8
<1>10. \A y \in S : f[k] >= y
  BY <1>9
<1>11. Max(S) \in S /\ \A y \in S : Max(S) >= y
  BY <1>9, <1>10 DEF Max
<1>12. QED
  BY <1>11

\* The least is the greatest of the opposites, turned back.
LEMMA Smallest ==
  ASSUME NEW S, S \subseteq Int, IsFiniteSet(S), S # {}
  PROVE  Min(S) \in S /\ \A y \in S : Min(S) <= y
<1> DEFINE f == [x \in S |-> 0 - x]
           T == {0 - x : x \in S}
<1>1. f \in Surjection(S, T)
  BY DEF Surjection
<1>2. T \subseteq Int /\ T # {}
  <2>1. \A x \in S : 0 - x \in Int
    OBVIOUS
  <2>2. T \subseteq Int
    BY <2>1
  <2>3. T # {}
    BY Zenon
  <2>4. QED
    BY <2>2, <2>3
<1>3. IsFiniteSet(T)
  BY <1>1, FS_Surjection
<1> HIDE DEF T, f
<1>4. Max(T) \in T /\ \A y \in T : y <= Max(T)
  BY <1>2, <1>3, Greatest
<1>5. PICK x \in S : Max(T) = 0 - x
  BY <1>4 DEF T
<1>6. ASSUME NEW y \in S PROVE x <= y
  <2>1. 0 - y \in T
    BY DEF T
  <2>2. 0 - y <= 0 - x
    BY <1>4, <1>5, <2>1
  <2>3. x \in Int /\ y \in Int
    OBVIOUS
  <2>4. QED
    BY <2>2, <2>3
<1>7. Min(S) \in S /\ \A y \in S : Min(S) <= y
  BY <1>6 DEF Min
<1>8. QED
  BY <1>7

\* A finite set, laid out as a sequence.
LEMMA LaidOut ==
  ASSUME NEW S, IsFiniteSet(S)
  PROVE  /\ Cardinality(S) \in Nat
         /\ SetToSeq(S) \in [1..Cardinality(S) -> S]
         /\ \A x \in S : \E k \in 1..Cardinality(S) : SetToSeq(S)[k] = x
         /\ \A j, k \in 1..Cardinality(S) : SetToSeq(S)[j] = SetToSeq(S)[k] => j = k
<1> DEFINE n == Cardinality(S)
           f == SetToSeq(S)
<1>1. n \in Nat /\ ExistsBijection(1..n, S)
  BY FS_CardinalityType
<1>2. PICK g \in Bijection(1..n, S) : TRUE
  BY <1>1 DEF ExistsBijection
<1>3. g \in [1..n -> S] /\ IsInjective(g)
  BY <1>2 DEF Bijection, Injection
<1>4. f \in [1..n -> S] /\ IsInjective(f)
  BY <1>3 DEF SetToSeq
<1>5. f \in Injection(1..n, S)
  BY <1>4 DEF Injection
<1>6. IsFiniteSet(1..n) /\ Cardinality(1..n) = n
  BY <1>1, FS_Interval
<1> HIDE DEF f, n
<1>7. f \in Surjection(1..n, S)
  <2>1. Cardinality(1..n) = Cardinality(S) <=> f \in Surjection(1..n, S)
    BY <1>5, FS_Injection
  <2>2. QED
    BY <1>6, <2>1 DEF n
<1>8. \A x \in S : \E k \in 1..n : f[k] = x
  BY <1>7 DEF Surjection
<1>9. \A j, k \in 1..n : f[j] = f[k] => j = k
  BY <1>4 DEF IsInjective
<1>10. QED
  BY <1>1, <1>4, <1>8, <1>9 DEF f, n

-----------------------------------------------------------------------------
(***************************************************************************)
(* Tasks and operations of the right type.                                 *)
(***************************************************************************)
Tree == {t \in UNION {[D -> Task] : D \in SUBSET Id} : IsFiniteSet(DOMAIN t)}
Sendable == {o \in Operation : o.op = "add" => o.id \in Id /\ o.list \in List}

\* What is in Tree.
LEMMA TreeIs ==
  ASSUME NEW t
  PROVE  t \in Tree <=> /\ DOMAIN t \subseteq Id /\ IsFiniteSet(DOMAIN t)
                        /\ t \in [DOMAIN t -> Task]
BY DEF Tree

\* None is none of what it stands beside.
LEMMA NoneIsNot == None \notin Int /\ None \notin Id /\ None \notin List /\ None \notin Device
BY TaskTreeAssumption

\* The keys of a set of tasks.
LEMMA Keys ==
  ASSUME NEW t \in Tree, NEW S, S \subseteq DOMAIN t, S # {}
  PROVE  /\ {t[j].ord : j \in S} \subseteq Int
         /\ {t[j].ord : j \in S} # {}
         /\ IsFiniteSet({t[j].ord : j \in S})
<1> DEFINE K == {t[j].ord : j \in S}
           f == [j \in S |-> t[j].ord]
<1>1. \A j \in S : t[j].ord \in Int
  BY TreeIs DEF Task
<1>2. K \subseteq Int
  BY <1>1
<1>3. K # {}
  BY Zenon
<1>4. f \in Surjection(S, K)
  BY DEF Surjection
<1>5. IsFiniteSet(S)
  BY TreeIs, FS_Subset
<1> HIDE DEF f, K
<1>6. IsFiniteSet(K)
  BY <1>4, <1>5, FS_Surjection
<1>7. QED
  BY <1>2, <1>3, <1>6 DEF K

\* The last key of a set of tasks is that of one of them, and no less than the others.
LEMMA LastKey ==
  ASSUME NEW t \in Tree, NEW S, S \subseteq DOMAIN t
  PROVE  /\ S = {} => lastKey(t, S) = None
         /\ S # {} => /\ lastKey(t, S) \in Int
                      /\ \E j \in S : lastKey(t, S) = t[j].ord
                      /\ \A j \in S : t[j].ord <= lastKey(t, S)
<1>1. CASE S = {}
  BY <1>1 DEF lastKey
<1>2. CASE S # {}
  <2> DEFINE K == {t[j].ord : j \in S}
  <2>1. K \subseteq Int /\ K # {} /\ IsFiniteSet(K)
    BY <1>2, Keys
  <2>2. lastKey(t, S) = Max(K)
    BY <1>2 DEF lastKey
  <2> HIDE DEF K
  <2>3. Max(K) \in K /\ \A y \in K : y <= Max(K)
    BY <2>1, Greatest
  <2> USE DEF K
  <2>4. QED
    BY <1>2, <2>1, <2>2, <2>3
<1>3. QED
  BY <1>1, <1>2

\* The first key is that of one of them, and no more than the others.
LEMMA FirstKey ==
  ASSUME NEW t \in Tree, NEW S, S \subseteq DOMAIN t
  PROVE  /\ S = {} => firstKey(t, S) = None
         /\ S # {} => /\ firstKey(t, S) \in Int
                      /\ \E j \in S : firstKey(t, S) = t[j].ord
                      /\ \A j \in S : firstKey(t, S) <= t[j].ord
<1>1. CASE S = {}
  BY <1>1 DEF firstKey
<1>2. CASE S # {}
  <2> DEFINE K == {t[j].ord : j \in S}
  <2>1. K \subseteq Int /\ K # {} /\ IsFiniteSet(K)
    BY <1>2, Keys
  <2>2. firstKey(t, S) = Min(K)
    BY <1>2 DEF firstKey
  <2> HIDE DEF K
  <2>3. Min(K) \in K /\ \A y \in K : Min(K) <= y
    BY <2>1, Smallest
  <2> USE DEF K
  <2>4. QED
    BY <1>2, <2>1, <2>2, <2>3
<1>3. QED
  BY <1>1, <1>2

\* A key made between two others is a key.
LEMMA BetweenIs ==
  ASSUME NEW a \in Int \union {None}, NEW b \in Int \union {None}
  PROVE  between(a, b) \in Int
<1>1. \A x, y \in Int : (x + y) \div 2 \in Int /\ x + 16 \in Int /\ x - 16 \in Int
  OBVIOUS
<1>2. QED
  BY <1>1 DEF between, Gap

\* The key after all the others is a key.
LEMMA EndKeyIs ==
  ASSUME NEW t \in Tree
  PROVE  endKey(t) \in Int
<1>1. lastKey(t, DOMAIN t) \in Int \union {None}
  BY LastKey
<1>2. QED
  BY <1>1, BetweenIs DEF endKey

\* The key of a move is a key, or none.
LEMMA MoveKeyIs ==
  ASSUME NEW t \in Tree, NEW i \in DOMAIN t, NEW ref, NEW side
  PROVE  keyForMove(t, i, ref, side) \in Int \union {None}
<1> DEFINE before == slot(t, i, ref, side)
           after == (DOMAIN t \ {i}) \ before
           a == lastKey(t, before)
           b == firstKey(t, after)
<1>1. before \subseteq DOMAIN t /\ after \subseteq DOMAIN t
  BY DEF slot
<1> HIDE DEF before, after
<1>2. a \in Int \union {None} /\ b \in Int \union {None}
  BY <1>1, LastKey, FirstKey
<1> HIDE DEF a, b
<1>3. between(a, b) \in Int
  BY <1>2, BetweenIs
<1>4. t[i].ord \in Int
  BY TreeIs DEF Task
<1>5. QED
  BY <1>3, <1>4 DEF keyForMove, before, after, a, b

\* A task with another field.
LEMMA TaskIs ==
  ASSUME NEW x \in Task
  PROVE  /\ x = [list |-> x.list, parent |-> x.parent, done |-> x.done, ord |-> x.ord]
         /\ x.list \in List /\ x.parent \in Id \union {None} /\ x.done \in BOOLEAN
         /\ x.ord \in Int
         /\ \A v \in BOOLEAN : [x EXCEPT !.done = v] \in Task
         /\ [x EXCEPT !.parent = None] \in Task
         /\ \A k \in Int : [x EXCEPT !.ord = k] \in Task
         /\ \A l \in List, k \in Int : [x EXCEPT !.list = l, !.ord = k] \in Task
BY DEF Task

\* One task of a tree replaced.
put(t, i, x) == [t EXCEPT ![i] = x]

\* ... is a tree.
LEMMA Replaced ==
  ASSUME NEW t \in Tree, NEW i \in DOMAIN t, NEW x \in Task
  PROVE  /\ put(t, i, x) \in Tree /\ DOMAIN put(t, i, x) = DOMAIN t
         /\ \A j \in DOMAIN t : put(t, i, x)[j] = IF j = i THEN x ELSE t[j]
<1> DEFINE u == [t EXCEPT ![i] = x]
<1>1. DOMAIN t \subseteq Id /\ IsFiniteSet(DOMAIN t) /\ t \in [DOMAIN t -> Task]
  BY TreeIs
<1>2. /\ DOMAIN u = DOMAIN t /\ u \in [DOMAIN t -> Task]
      /\ \A j \in DOMAIN t : u[j] = IF j = i THEN x ELSE t[j]
  BY <1>1
<1>3. QED
  BY <1>1, <1>2, TreeIs DEF put

\* The operation, as a record.
LEMMA OpIs ==
  ASSUME NEW o \in Sendable
  PROVE  /\ o.op \in {"add", "edit", "move", "done", "reopen", "remove", "reset"}
         /\ o.list \in List \union {None} /\ o.ord \in Int \union {None}
         /\ o.parent \in Id \union {None} /\ o.done \in BOOLEAN
         /\ o.op = "add" => o.id \in Id /\ o.list \in List
BY DEF Sendable, Operation

\* An operation on the screen leaves tasks.
LEMMA TaskOpTree ==
  ASSUME NEW t \in Tree, NEW op \in Sendable
  PROVE  applyTaskOp(t, op) \in Tree
<1>t. DOMAIN t \subseteq Id /\ IsFiniteSet(DOMAIN t) /\ t \in [DOMAIN t -> Task]
  BY TreeIs
<1>o. /\ op.op \in {"add", "edit", "move", "done", "reopen", "remove", "reset"}
      /\ op.list \in List \union {None} /\ op.ord \in Int \union {None}
      /\ op.parent \in Id \union {None} /\ op.done \in BOOLEAN
      /\ op.op = "add" => op.id \in Id /\ op.list \in List
  BY OpIs
<1>1. CASE op.op = "reset"
  <2> DEFINE S == {i \in DOMAIN t : t[i].list = op.list}
             u == [i \in DOMAIN t |-> IF i \in S THEN [t[i] EXCEPT !.done = FALSE] ELSE t[i]]
  <2>1. applyTaskOp(t, op) = u
    BY <1>1 DEF applyTaskOp, unticked
  <2>2. \A i \in DOMAIN t : t[i] \in Task /\ [t[i] EXCEPT !.done = FALSE] \in Task
    BY <1>t, TaskIs
  <2>3. DOMAIN u = DOMAIN t /\ u \in [DOMAIN t -> Task]
    BY <2>2
  <2>4. QED
    BY <1>t, <2>1, <2>3, TreeIs
<1>2. CASE op.op = "add"
  <2>1. CASE op.id \in DOMAIN t
    BY <1>2, <2>1 DEF applyTaskOp
  <2>2. CASE op.id \notin DOMAIN t
    <3> DEFINE new == [list |-> op.list, parent |-> op.parent, done |-> op.done,
                       ord |-> IF op.ord = None THEN endKey(t) ELSE op.ord]
               D == DOMAIN t \union {op.id}
               u == [i \in D |-> IF i = op.id THEN new ELSE t[i]]
    <3>1. applyTaskOp(t, op) = u
      BY <1>2, <2>2 DEF applyTaskOp, added
    <3>2. new \in Task
      BY <1>2, <1>o, EndKeyIs DEF Task
    <3> HIDE DEF new
    <3>3. DOMAIN u = D /\ u \in [D -> Task]
      BY <1>t, <3>2
    <3>4. D \subseteq Id /\ IsFiniteSet(D)
      BY <1>2, <1>t, <1>o, FS_AddElement
    <3>5. QED
      BY <3>1, <3>3, <3>4, TreeIs
  <2>3. QED
    BY <2>1, <2>2
<1>3. CASE op.op = "remove"
  <2>1. CASE op.id \notin DOMAIN t
    BY <1>3, <2>1 DEF applyTaskOp
  <2>2. CASE op.id \in DOMAIN t
    <3> DEFINE D == DOMAIN t \ {op.id}
               u == [i \in D |-> t[i]]
    <3>1. applyTaskOp(t, op) = u
      BY <1>3, <2>2 DEF applyTaskOp, without
    <3>2. DOMAIN u = D /\ u \in [D -> Task]
      BY <1>t
    <3>3. D \subseteq Id /\ IsFiniteSet(D)
      BY <1>t, FS_RemoveElement
    <3>4. QED
      BY <3>1, <3>2, <3>3, TreeIs
  <2>3. QED
    BY <2>1, <2>2
<1>4. CASE op.op \in {"edit", "move", "done", "reopen"}
  <2>1. CASE op.id \notin DOMAIN t
    BY <1>4, <2>1 DEF applyTaskOp
  <2>2. CASE op.id \in DOMAIN t
    <3> DEFINE i == op.id
    <3>0. t[i] \in Task
      BY <1>t, <2>2
    <3>1. CASE op.op = "edit"
      <4> DEFINE l == IF op.list = None THEN t[i].list ELSE op.list
                 k == IF op.ord = None THEN t[i].ord ELSE op.ord
                 x == [t[i] EXCEPT !.list = l, !.ord = k]
      <4>1. applyTaskOp(t, op) = [t EXCEPT ![i].list = IF op.list = None THEN @ ELSE op.list,
                                           ![i].ord = IF op.ord = None THEN @ ELSE op.ord]
        BY <2>2, <3>1 DEF applyTaskOp
      <4>2. applyTaskOp(t, op) = put(t, i, x)
        BY <1>t, <2>2, <3>0, <4>1 DEF Task, put
      <4>3. l \in List /\ k \in Int
        BY <1>o, <3>0, TaskIs
      <4> HIDE DEF l, k
      <4>4. x \in Task
        BY <3>0, <4>3, TaskIs
      <4> HIDE DEF x
      <4>5. QED
        BY <2>2, <4>2, <4>4, Replaced
    <3>2. CASE op.op = "move"
      <4> DEFINE k == keyForMove(t, i, op.ref, op.side)
                 x == [t[i] EXCEPT !.ord = k]
      <4>1. k \in Int \union {None}
        BY <2>2, MoveKeyIs
      <4>2. CASE k = None
        BY <2>2, <3>2, <4>2 DEF applyTaskOp
      <4>3. CASE k # None
        <5>1. applyTaskOp(t, op) = [t EXCEPT ![i].ord = k]
          BY <2>2, <3>2, <4>3 DEF applyTaskOp
        <5> HIDE DEF k
        <5>2. applyTaskOp(t, op) = put(t, i, x)
          BY <5>1 DEF put
        <5>3. x \in Task
          BY <3>0, <4>1, <4>3, TaskIs
        <5> HIDE DEF x
        <5>4. QED
          BY <2>2, <5>2, <5>3, Replaced
      <4>4. QED
        BY <4>2, <4>3
    <3>3. CASE op.op \in {"done", "reopen"}
      <4> DEFINE x == [t[i] EXCEPT !.done = (op.op = "done")]
      <4>1. applyTaskOp(t, op) = put(t, i, x)
        BY <2>2, <3>3 DEF applyTaskOp, put
      <4>2. x \in Task
        <5>1. (op.op = "done") \in BOOLEAN
          OBVIOUS
        <5>2. QED
          BY <3>0, <5>1, TaskIs
      <4> HIDE DEF x
      <4>3. QED
        BY <2>2, <4>1, <4>2, Replaced
    <3>4. QED
      BY <1>4, <3>1, <3>2, <3>3
  <2>3. QED
    BY <2>1, <2>2
<1>5. QED
  BY <1>o, <1>1, <1>2, <1>3, <1>4

\* Promoting tasks keeps them all.
LEMMA PromotedTree ==
  ASSUME NEW t \in Tree, NEW S
  PROVE  promoted(t, S) \in Tree /\ DOMAIN promoted(t, S) = DOMAIN t
<1>1. DOMAIN t \subseteq Id /\ IsFiniteSet(DOMAIN t) /\ t \in [DOMAIN t -> Task]
  BY TreeIs
<1>2. \A i \in DOMAIN t : t[i] \in Task /\ [t[i] EXCEPT !.parent = None] \in Task
  BY <1>1, TaskIs
<1> DEFINE u == [i \in DOMAIN t |-> IF i \in S THEN [t[i] EXCEPT !.parent = None] ELSE t[i]]
<1>3. DOMAIN u = DOMAIN t /\ u \in [DOMAIN t -> Task]
  BY <1>2
<1>4. QED
  BY <1>1, <1>3, TreeIs DEF promoted

\* Taking tasks away keeps the others.
LEMMA WithoutTree ==
  ASSUME NEW t \in Tree, NEW S
  PROVE  without(t, S) \in Tree /\ DOMAIN without(t, S) = DOMAIN t \ S
<1>1. DOMAIN t \subseteq Id /\ IsFiniteSet(DOMAIN t) /\ t \in [DOMAIN t -> Task]
  BY TreeIs
<1> DEFINE D == DOMAIN t \ S
           u == [i \in D |-> t[i]]
<1>2. DOMAIN u = D /\ u \in [D -> Task]
  BY <1>1
<1>3. D \subseteq Id /\ IsFiniteSet(D)
  BY <1>1, FS_Subset
<1>4. QED
  BY <1>2, <1>3, TreeIs DEF without

\* So does an operation of the server, accepted or not.
LEMMA OpTree ==
  ASSUME NEW t \in Tree, NEW known, NEW op \in Sendable
  PROVE  applyOp(t, known, op) \in Tree
<1>1. applyTaskOp(t, op) \in Tree
  BY TaskOpTree
<1>2. promoted(applyTaskOp(t, op), subtasks(applyTaskOp(t, op), op.id)) \in Tree
  BY <1>1, PromotedTree
<1>3. QED
  BY <1>1, <1>2 DEF applyOp

\* Reconciling takes away the tasks whose list is gone, and no other.
LEMMA ReconcileTree ==
  ASSUME NEW t \in Tree, NEW known
  PROVE  /\ reconcile(t, known) \in Tree
         /\ DOMAIN reconcile(t, known) = {i \in DOMAIN t : t[i].list \in known}
<1> DEFINE R == {i \in DOMAIN t : t[i].list \notin known}
           kept == without(t, R)
           orphan(i) == LET p == kept[i].parent
                        IN  p # None /\ (p \in DOMAIN kept =>
                                           kept[p].list # kept[i].list \/ kept[p].parent # None)
           S == {i \in DOMAIN kept : orphan(i)}
<1>1. reconcile(t, known) = promoted(kept, S)
  BY DEF reconcile
<1>2. kept \in Tree /\ DOMAIN kept = DOMAIN t \ R
  BY WithoutTree
<1>3. DOMAIN t \ R = {i \in DOMAIN t : t[i].list \in known}
  OBVIOUS
<1> HIDE DEF kept, S, R
<1>4. QED
  BY <1>1, <1>2, <1>3, PromotedTree

-----------------------------------------------------------------------------
(***************************************************************************)
(* Batches of operations.                                                  *)
(***************************************************************************)
\* The screen after each operation of a batch.
ScreenSteps(h, b, q) ==
    /\ h \in [0..Len(q) -> Tree] /\ h[0] = b
    /\ \A i \in 0..(Len(q) - 1) : h[i + 1] = applyTaskOp(h[i], q[i + 1])

\* A batch on the screen is the fold of its operations: what it leaves is the last of
\* those steps.
LEMMA Screen ==
  ASSUME NEW b \in Tree, NEW q \in Seq(Sendable)
  PROVE  \E h : ScreenSteps(h, b, q) /\ FoldLeft(applyTaskOp, b, q) = h[Len(q)]
<1> DEFINE Ops == Sendable
           F == [p \in Tree \X Ops |-> applyTaskOp(p[1], p[2])]
           Eq(g) == g = [s \in SUBSET DOMAIN q |->
                           IF s = {} THEN b ELSE applyTaskOp(g[s \ {Max(s)}], q[Max(s)])]
           c == CHOOSE g : Eq(g)
           h == [i \in 0..Len(q) |-> c[1..i]]
<1>0. Len(q) \in Nat /\ DOMAIN q = 1..Len(q) /\ \A i \in 1..Len(q) : q[i] \in Ops
  OBVIOUS
<1>1. \A t \in Tree, o \in Ops : applyTaskOp(t, o) \in Tree
  BY TaskOpTree
<1>2. F \in [Tree \X Ops -> Tree] /\ \A t \in Tree, o \in Ops : F[<<t, o>>] = applyTaskOp(t, o)
  BY <1>1
<1> HIDE DEF F, Eq, c, h
<1>3. \E g : Eq(g)
  <2>1. PICK g : Table(g, b, q, F) /\ StepsFrom(g, q, Tree, Ops)
    <3> HIDE DEF Ops
    <3>1. q \in Seq(Ops)
      BY DEF Ops
    <3>2. QED
      BY <1>2, <3>1, TableExists
  <2>2. \A s \in SUBSET DOMAIN q : s # {} =>
           F[<<g[s \ {Max(s)}], q[Max(s)]>>] = applyTaskOp(g[s \ {Max(s)}], q[Max(s)])
    BY <1>2, <2>1 DEF StepsFrom
  <2>3. Eq(g)
    BY <2>1, <2>2 DEF Table, Eq
  <2>4. QED
    BY <2>3
<1>4. FoldLeft(applyTaskOp, b, q) = c[DOMAIN q]
  BY DEF FoldLeft, MapThenFoldSet, c, Eq
<1>5. Eq(c)
  BY <1>3 DEF c
<1>6. c[{}] = b
  BY <1>5 DEF Eq
<1>7. ASSUME NEW i \in 0..(Len(q) - 1)
      PROVE  c[1..(i + 1)] = applyTaskOp(c[1..i], q[i + 1])
  <2>1. i \in Nat /\ i < Len(q)
    BY <1>0
  <2>2. /\ 1..(i + 1) \in SUBSET (1..Len(q)) /\ 1..(i + 1) # {}
        /\ Max(1..(i + 1)) = i + 1 /\ (1..(i + 1)) \ {i + 1} = 1..i
    BY <1>0, <2>1, Places
  <2>3. QED
    BY <1>0, <1>5, <2>2 DEF Eq
<1>8. /\ h[0] = b
      /\ \A i \in 0..(Len(q) - 1) : h[i + 1] = applyTaskOp(h[i], q[i + 1])
      /\ h[Len(q)] = c[DOMAIN q]
  <2>1. 0 \in 0..Len(q) /\ 1..0 = {} /\ Len(q) \in 0..Len(q)
    BY <1>0
  <2>2. \A i \in 0..(Len(q) - 1) : i \in 0..Len(q) /\ i + 1 \in 0..Len(q)
    BY <1>0
  <2>3. QED
    BY <1>0, <1>6, <1>7, <2>1, <2>2 DEF h
<1> DEFINE N == {n \in Nat : n <= Len(q) => h[n] \in Tree}
<1>9. 0 \in N
  BY <1>8
<1>10. ASSUME NEW n \in Nat, n \in N PROVE n + 1 \in N
  <2> SUFFICES ASSUME n + 1 <= Len(q) PROVE h[n + 1] \in Tree
    OBVIOUS
  <2>1. n <= Len(q) /\ n \in 0..(Len(q) - 1) /\ n + 1 \in 1..Len(q)
    BY <1>0
  <2>2. h[n] \in Tree /\ q[n + 1] \in Ops
    BY <1>0, <1>10, <2>1
  <2> HIDE DEF Ops
  <2>3. applyTaskOp(h[n], q[n + 1]) \in Tree
    BY <1>1, <2>2
  <2>4. QED
    BY <1>8, <2>1, <2>3
<1> HIDE DEF N
<1>11. Nat \subseteq N
  BY <1>9, <1>10, Ups
<1>12. h \in [0..Len(q) -> Tree]
  <2>1. ASSUME NEW n \in 0..Len(q) PROVE h[n] \in Tree
    <3>1. n \in Nat /\ n <= Len(q)
      BY <1>0
    <3>2. QED
      BY <1>11, <3>1 DEF N
  <2>2. DOMAIN h = 0..Len(q) /\ h = [n \in 0..Len(q) |-> h[n]]
    BY DEF h
  <2>3. QED
    BY <2>1, <2>2
<1>13. ScreenSteps(h, b, q)
  BY <1>8, <1>12 DEF ScreenSteps
<1>14. QED
  BY <1>4, <1>8, <1>13

\* The server after each operation of a batch.
BatchSteps(h, known, b, q) ==
    /\ h \in [0..Len(q) -> Tree] /\ h[0] = b
    /\ \A i \in 0..(Len(q) - 1) : h[i + 1] = applyOp(h[i], known, q[i + 1])

\* The same on the server.
LEMMA Batch ==
  ASSUME NEW known, NEW b \in Tree, NEW q \in Seq(Sendable)
  PROVE  \E h : BatchSteps(h, known, b, q) /\ applyBatch(b, known, q) = h[Len(q)]
<1> DEFINE Ops == Sendable
           F == [p \in Tree \X Ops |-> applyOp(p[1], known, p[2])]
           Eq(g) == g = [s \in SUBSET DOMAIN q |->
                           IF s = {} THEN b ELSE applyOp(g[s \ {Max(s)}], known, q[Max(s)])]
           c == CHOOSE g : Eq(g)
           h == [i \in 0..Len(q) |-> c[1..i]]
<1>0. Len(q) \in Nat /\ DOMAIN q = 1..Len(q) /\ \A i \in 1..Len(q) : q[i] \in Ops
  OBVIOUS
<1>1. \A t \in Tree, o \in Ops : applyOp(t, known, o) \in Tree
  BY OpTree
<1>2. F \in [Tree \X Ops -> Tree] /\ \A t \in Tree, o \in Ops : F[<<t, o>>] = applyOp(t, known, o)
  BY <1>1
<1> HIDE DEF F, Eq, c, h
<1>3. \E g : Eq(g)
  <2>1. PICK g : Table(g, b, q, F) /\ StepsFrom(g, q, Tree, Ops)
    <3> HIDE DEF Ops
    <3>1. q \in Seq(Ops)
      BY DEF Ops
    <3>2. QED
      BY <1>2, <3>1, TableExists
  <2>2. \A s \in SUBSET DOMAIN q : s # {} =>
           F[<<g[s \ {Max(s)}], q[Max(s)]>>] = applyOp(g[s \ {Max(s)}], known, q[Max(s)])
    BY <1>2, <2>1 DEF StepsFrom
  <2>3. Eq(g)
    BY <2>1, <2>2 DEF Table, Eq
  <2>4. QED
    BY <2>3
<1>4. applyBatch(b, known, q) = c[DOMAIN q]
  BY DEF applyBatch, FoldLeft, MapThenFoldSet, c, Eq
<1>5. Eq(c)
  BY <1>3 DEF c
<1>6. c[{}] = b
  BY <1>5 DEF Eq
<1>7. ASSUME NEW i \in 0..(Len(q) - 1)
      PROVE  c[1..(i + 1)] = applyOp(c[1..i], known, q[i + 1])
  <2>1. i \in Nat /\ i < Len(q)
    BY <1>0
  <2>2. /\ 1..(i + 1) \in SUBSET (1..Len(q)) /\ 1..(i + 1) # {}
        /\ Max(1..(i + 1)) = i + 1 /\ (1..(i + 1)) \ {i + 1} = 1..i
    BY <1>0, <2>1, Places
  <2>3. QED
    BY <1>0, <1>5, <2>2 DEF Eq
<1>8. /\ h[0] = b
      /\ \A i \in 0..(Len(q) - 1) : h[i + 1] = applyOp(h[i], known, q[i + 1])
      /\ h[Len(q)] = c[DOMAIN q]
  <2>1. 0 \in 0..Len(q) /\ 1..0 = {} /\ Len(q) \in 0..Len(q)
    BY <1>0
  <2>2. \A i \in 0..(Len(q) - 1) : i \in 0..Len(q) /\ i + 1 \in 0..Len(q)
    BY <1>0
  <2>3. QED
    BY <1>0, <1>6, <1>7, <2>1, <2>2 DEF h
<1> DEFINE N == {n \in Nat : n <= Len(q) => h[n] \in Tree}
<1>9. 0 \in N
  BY <1>8
<1>10. ASSUME NEW n \in Nat, n \in N PROVE n + 1 \in N
  <2> SUFFICES ASSUME n + 1 <= Len(q) PROVE h[n + 1] \in Tree
    OBVIOUS
  <2>1. n <= Len(q) /\ n \in 0..(Len(q) - 1) /\ n + 1 \in 1..Len(q)
    BY <1>0
  <2>2. h[n] \in Tree /\ q[n + 1] \in Ops
    BY <1>0, <1>10, <2>1
  <2> HIDE DEF Ops
  <2>3. applyOp(h[n], known, q[n + 1]) \in Tree
    BY <1>1, <2>2
  <2>4. QED
    BY <1>8, <2>1, <2>3
<1> HIDE DEF N
<1>11. Nat \subseteq N
  BY <1>9, <1>10, Ups
<1>12. h \in [0..Len(q) -> Tree]
  <2>1. ASSUME NEW n \in 0..Len(q) PROVE h[n] \in Tree
    <3>1. n \in Nat /\ n <= Len(q)
      BY <1>0
    <3>2. QED
      BY <1>11, <3>1 DEF N
  <2>2. DOMAIN h = 0..Len(q) /\ h = [n \in 0..Len(q) |-> h[n]]
    BY DEF h
  <2>3. QED
    BY <2>1, <2>2
<1>13. BatchSteps(h, known, b, q)
  BY <1>8, <1>12 DEF BatchSteps
<1>14. QED
  BY <1>4, <1>8, <1>13

\* An operation on a task there is, or one that adds, edits or opens a list.
About(t) == {o \in Sendable : o.op \in {"done", "reopen", "move", "remove"} => o.id \in DOMAIN t}

\* An operation that names a task and nothing else.
LEMMA BareIs ==
  ASSUME NEW op \in {"edit", "move", "done", "reopen", "remove", "reset"},
         NEW i \in Id \union {None}
  PROVE  /\ Bare(op, i) \in Sendable
         /\ Bare(op, i).op = op /\ Bare(op, i).id = i
BY DEF Bare, Sendable, Operation

\* The same operation for each task of a set.
LEMMA EachIs ==
  ASSUME NEW op \in {"done", "reopen", "remove"}, NEW S, S \subseteq Id, IsFiniteSet(S)
  PROVE  /\ each(op, S) \in Seq(Sendable) /\ Len(each(op, S)) = Cardinality(S)
         /\ Cardinality(S) \in Nat
         /\ \A k \in 1..Cardinality(S) : /\ each(op, S)[k] = Bare(op, SetToSeq(S)[k])
                                         /\ SetToSeq(S)[k] \in S
         /\ \A x \in S : \E k \in 1..Cardinality(S) : SetToSeq(S)[k] = x
         /\ \A j, k \in 1..Cardinality(S) : SetToSeq(S)[j] = SetToSeq(S)[k] => j = k
<1> DEFINE n == Cardinality(S)
           f == SetToSeq(S)
<1>1. /\ n \in Nat /\ f \in [1..n -> S]
      /\ \A x \in S : \E k \in 1..n : f[k] = x
      /\ \A j, k \in 1..n : f[j] = f[k] => j = k
  BY LaidOut
<1>2. each(op, S) = [k \in 1..n |-> Bare(op, f[k])]
  BY DEF each
<1> HIDE DEF n, f
<1>3. \A k \in 1..n : f[k] \in S /\ Bare(op, f[k]) \in Sendable
  BY <1>1, BareIs
<1>4. each(op, S) \in Seq(Sendable) /\ Len(each(op, S)) = n
  BY <1>1, <1>2, <1>3
<1>5. QED
  BY <1>1, <1>2, <1>3, <1>4 DEF n, f

\* A batch of one operation.
LEMMA OneOp ==
  ASSUME NEW T, NEW o \in T
  PROVE  <<o>> \in Seq(T) /\ Len(<<o>>) = 1 /\ <<o>>[1] = o /\ DOMAIN <<o>> = {1}
OBVIOUS

\* An operation that adds a task.
LEMMA AddIs ==
  ASSUME NEW i \in Id, NEW l \in List, NEW p \in Id \union {None}
  PROVE  /\ [Bare("add", i) EXCEPT !.list = l, !.parent = p] \in Sendable
         /\ \A d \in BOOLEAN, k \in Int :
              [Bare("add", i) EXCEPT !.list = l, !.parent = p, !.done = d, !.ord = k] \in Sendable
BY DEF Bare, Sendable, Operation

\* Those that give it another key, another list or another place, and the resetting of a list.
LEMMA EditIs ==
  ASSUME NEW i \in Id
  PROVE  /\ \A k \in Int : [Bare("edit", i) EXCEPT !.ord = k] \in Sendable
         /\ \A l \in List : [Bare("edit", i) EXCEPT !.list = l] \in Sendable
         /\ \A ref \in Id, side \in {"avant", "apres"} :
              [Bare("move", i) EXCEPT !.ref = ref, !.side = side] \in Sendable
         /\ \A l \in List : [Bare("reset", None) EXCEPT !.list = l] \in Sendable
BY DEF Bare, Sendable, Operation

\* The inverse of an operation is at most one operation.
LEMMA InverseIs ==
  ASSUME NEW t \in Tree, NEW o \in About(t)
  PROVE  inverseOf(o, t) \in Seq(Sendable)
<1>0. DOMAIN t \subseteq Id /\ t \in [DOMAIN t -> Task] /\ o \in Sendable
  BY TreeIs DEF About
<1>o. o.op \in {"add", "edit", "move", "done", "reopen", "remove", "reset"}
  BY <1>0, OpIs
<1>e. <<>> \in Seq(Sendable)
  OBVIOUS
<1>1. CASE o.op \in {"done", "reopen"}
  <2>1. o.id \in Id
    BY <1>0, <1>1 DEF About
  <2>2. Bare("reopen", o.id) \in Sendable /\ Bare("done", o.id) \in Sendable
    BY <2>1, BareIs
  <2>3. <<Bare("reopen", o.id)>> \in Seq(Sendable) /\ <<Bare("done", o.id)>> \in Seq(Sendable)
    BY <2>2
  <2>4. QED
    BY <1>1, <1>e, <2>3 DEF inverseOf
<1>2. CASE o.op = "move"
  <2>1. o.id \in Id /\ t[o.id].ord \in Int
    BY <1>0, <1>2, TaskIs DEF About
  <2>2. [Bare("edit", o.id) EXCEPT !.ord = t[o.id].ord] \in Sendable
    BY <2>1, EditIs
  <2>3. QED
    BY <1>2, <2>2 DEF inverseOf
<1>3. CASE o.op = "remove"
  <2> DEFINE x == t[o.id]
  <2>1. o.id \in Id /\ x \in Task
    BY <1>0, <1>3 DEF About
  <2>2. inverseOf(o, t) = <<[Bare("add", o.id) EXCEPT !.list = x.list, !.parent = x.parent,
                                                      !.done = x.done, !.ord = x.ord]>>
    BY <1>3 DEF inverseOf
  <2> HIDE DEF x
  <2>3. /\ x.list \in List /\ x.parent \in Id \union {None} /\ x.done \in BOOLEAN
        /\ x.ord \in Int
    BY <2>1, TaskIs
  <2>4. [Bare("add", o.id) EXCEPT !.list = x.list, !.parent = x.parent,
                                  !.done = x.done, !.ord = x.ord] \in Sendable
    BY <2>1, <2>3, AddIs
  <2>5. QED
    BY <2>2, <2>4
<1>4. CASE o.op \in {"add", "edit", "reset"}
  BY <1>4, <1>e DEF inverseOf
<1>5. QED
  BY <1>o, <1>1, <1>2, <1>3, <1>4

\* What « Annuler » would send, after the inverse of each operation.
UndoSteps(h, from, q) ==
    /\ h \in [0..Len(q) -> Seq(Sendable)] /\ h[0] = <<>>
    /\ \A i \in 0..(Len(q) - 1) : h[i + 1] = h[i] \o inverseOf(q[i + 1], from)

\* The inverses of a batch, one after the other.
LEMMA Undo ==
  ASSUME NEW from \in Tree, NEW q \in Seq(About(from))
  PROVE  \E h : UndoSteps(h, from, q) /\ backs(q, from) = h[Len(q)]
<1> DEFINE Ops == About(from)
           F == [p \in Seq(Sendable) \X Ops |-> p[1] \o inverseOf(p[2], from)]
           Eq(g) == g = [s \in SUBSET DOMAIN q |->
                           IF s = {} THEN <<>>
                           ELSE g[s \ {Max(s)}] \o inverseOf(q[Max(s)], from)]
           c == CHOOSE g : Eq(g)
           h == [i \in 0..Len(q) |-> c[1..i]]
<1>0. Len(q) \in Nat /\ DOMAIN q = 1..Len(q) /\ \A i \in 1..Len(q) : q[i] \in Ops
  OBVIOUS
<1>1. \A t \in Seq(Sendable), o \in Ops : t \o inverseOf(o, from) \in Seq(Sendable)
  <2>1. \A o \in Ops : inverseOf(o, from) \in Seq(Sendable)
    BY InverseIs
  <2>2. QED
    BY <2>1
<1> HIDE DEF Ops
<1>2. /\ F \in [Seq(Sendable) \X Ops -> Seq(Sendable)]
      /\ \A t \in Seq(Sendable), o \in Ops : F[<<t, o>>] = t \o inverseOf(o, from)
  BY <1>1
<1> HIDE DEF F, Eq, c, h
<1>3. \E g : Eq(g)
  <2>1. PICK g : Table(g, <<>>, q, F) /\ StepsFrom(g, q, Seq(Sendable), Ops)
    <3> HIDE DEF Ops
    <3>1. q \in Seq(Ops)
      BY DEF Ops
    <3>2. <<>> \in Seq(Sendable)
      OBVIOUS
    <3>3. QED
      BY <1>2, <3>1, <3>2, TableExists
  <2>2. \A s \in SUBSET DOMAIN q : s # {} =>
           F[<<g[s \ {Max(s)}], q[Max(s)]>>] = g[s \ {Max(s)}] \o inverseOf(q[Max(s)], from)
    BY <1>2, <2>1 DEF StepsFrom
  <2>3. Eq(g)
    BY <2>1, <2>2 DEF Table, Eq
  <2>4. QED
    BY <2>3
<1>4. backs(q, from) = c[DOMAIN q]
  BY DEF backs, FoldLeft, MapThenFoldSet, c, Eq
<1>5. Eq(c)
  BY <1>3 DEF c
<1>6. c[{}] = <<>>
  BY <1>5 DEF Eq
<1>7. ASSUME NEW i \in 0..(Len(q) - 1)
      PROVE  c[1..(i + 1)] = c[1..i] \o inverseOf(q[i + 1], from)
  <2>1. i \in Nat /\ i < Len(q)
    BY <1>0
  <2>2. /\ 1..(i + 1) \in SUBSET (1..Len(q)) /\ 1..(i + 1) # {}
        /\ Max(1..(i + 1)) = i + 1 /\ (1..(i + 1)) \ {i + 1} = 1..i
    BY <1>0, <2>1, Places
  <2>3. QED
    BY <1>0, <1>5, <2>2 DEF Eq
<1>8. /\ h[0] = <<>>
      /\ \A i \in 0..(Len(q) - 1) : h[i + 1] = h[i] \o inverseOf(q[i + 1], from)
      /\ h[Len(q)] = c[DOMAIN q]
  <2>1. 0 \in 0..Len(q) /\ 1..0 = {} /\ Len(q) \in 0..Len(q)
    BY <1>0
  <2>2. \A i \in 0..(Len(q) - 1) : i \in 0..Len(q) /\ i + 1 \in 0..Len(q)
    BY <1>0
  <2>3. QED
    BY <1>0, <1>6, <1>7, <2>1, <2>2 DEF h
<1> DEFINE N == {n \in Nat : n <= Len(q) => h[n] \in Seq(Sendable)}
<1>9. 0 \in N
  <2>1. <<>> \in Seq(Sendable)
    OBVIOUS
  <2>2. QED
    BY <1>8, <2>1
<1>10. ASSUME NEW n \in Nat, n \in N PROVE n + 1 \in N
  <2> SUFFICES ASSUME n + 1 <= Len(q) PROVE h[n + 1] \in Seq(Sendable)
    OBVIOUS
  <2>1. n <= Len(q) /\ n \in 0..(Len(q) - 1) /\ n + 1 \in 1..Len(q)
    BY <1>0
  <2>2. h[n] \in Seq(Sendable) /\ q[n + 1] \in Ops
    BY <1>0, <1>10, <2>1
  <2> HIDE DEF Ops
  <2>3. h[n] \o inverseOf(q[n + 1], from) \in Seq(Sendable)
    BY <1>1, <2>2
  <2>4. QED
    BY <1>8, <2>1, <2>3
<1> HIDE DEF N
<1>11. Nat \subseteq N
  BY <1>9, <1>10, Ups
<1>12. h \in [0..Len(q) -> Seq(Sendable)]
  <2>1. ASSUME NEW n \in 0..Len(q) PROVE h[n] \in Seq(Sendable)
    <3>1. n \in Nat /\ n <= Len(q)
      BY <1>0
    <3>2. QED
      BY <1>11, <3>1 DEF N
  <2>2. DOMAIN h = 0..Len(q) /\ h = [n \in 0..Len(q) |-> h[n]]
    BY DEF h
  <2>3. QED
    BY <2>1, <2>2
<1>13. UndoSteps(h, from, q)
  BY <1>8, <1>12 DEF UndoSteps
<1>14. QED
  BY <1>4, <1>8, <1>13

\* « Annuler » only sends operations.
LEMMA BacksAre ==
  ASSUME NEW t \in Tree, NEW ops \in Seq(About(t))
  PROVE  backs(ops, t) \in Seq(Sendable)
<1>1. PICK h : UndoSteps(h, t, ops) /\ backs(ops, t) = h[Len(ops)]
  BY Undo
<1>2. h \in [0..Len(ops) -> Seq(Sendable)] /\ Len(ops) \in Nat
  BY <1>1 DEF UndoSteps
<1>3. QED
  BY <1>1, <1>2

\* A batch on the screen leaves tasks.
LEMMA ScreenTree ==
  ASSUME NEW b \in Tree, NEW q \in Seq(Sendable)
  PROVE  FoldLeft(applyTaskOp, b, q) \in Tree
<1>1. PICK h : ScreenSteps(h, b, q) /\ FoldLeft(applyTaskOp, b, q) = h[Len(q)]
  BY Screen
<1>2. QED
  BY <1>1 DEF ScreenSteps

\* What is about the tasks t may be sent.
LEMMA AboutSends ==
  ASSUME NEW t
  PROVE  Seq(About(t)) \subseteq Seq(Sendable)
BY DEF About

\* The same operation for some of the tasks is about them.
LEMMA EachAbout ==
  ASSUME NEW t \in Tree, NEW op \in {"done", "reopen", "remove"},
         NEW S, S \subseteq DOMAIN t
  PROVE  IsFiniteSet(S) /\ S \subseteq Id /\ each(op, S) \in Seq(About(t))
<1>1. IsFiniteSet(S) /\ S \subseteq Id
  BY TreeIs, FS_Subset
<1>2. /\ each(op, S) \in Seq(Sendable) /\ Len(each(op, S)) = Cardinality(S)
      /\ Cardinality(S) \in Nat
      /\ \A k \in 1..Cardinality(S) : /\ each(op, S)[k] = Bare(op, SetToSeq(S)[k])
                                      /\ SetToSeq(S)[k] \in S
  BY <1>1, EachIs
<1>3. \A i \in S : Bare(op, i) \in About(t)
  BY <1>1, BareIs DEF About
<1>4. \A k \in 1..Len(each(op, S)) : each(op, S)[k] \in About(t)
  BY <1>2, <1>3
<1>5. QED
  BY <1>1, <1>2, <1>4

\* Every gesture sends operations about what is on the screen.
LEMMA GesturesAre ==
  ASSUME NEW t \in Tree
  PROVE  /\ \A i \in DOMAIN t : toggled(t, i) \in Seq(About(t)) /\ removed(t, i) \in Seq(About(t))
         /\ \A l : unchecked(t, l) \in Seq(About(t))
         /\ \A i \in DOMAIN t, ref \in Id, side \in {"avant", "apres"} :
              moved(i, ref, side) \in Seq(About(t))
         /\ \A i \in Id, l \in List, p \in Id \union {None} :
              newTask(i, l, p) \in Seq(About(t))
         /\ \A i \in Id, l \in List : toOtherList(i, l) \in Seq(Sendable)
<1>0. DOMAIN t \subseteq Id
  BY TreeIs
<1>1. ASSUME NEW i \in DOMAIN t PROVE toggled(t, i) \in Seq(About(t))
  <2>1. Bare("done", i) \in About(t) /\ Bare("reopen", i) \in About(t)
    BY <1>0, BareIs DEF About
  <2>2. each("done", {s \in subtasks(t, i) : ~t[s].done}) \in Seq(About(t))
    BY EachAbout DEF subtasks
  <2>3. <<Bare("done", i)>> \in Seq(About(t)) /\ <<Bare("reopen", i)>> \in Seq(About(t))
    BY <2>1
  <2>4. QED
    BY <2>2, <2>3 DEF toggled
<1>2. ASSUME NEW i \in DOMAIN t PROVE removed(t, i) \in Seq(About(t))
  <2>1. Bare("remove", i) \in About(t)
    BY <1>0, BareIs DEF About
  <2>2. each("remove", subtasks(t, i)) \in Seq(About(t))
    BY EachAbout DEF subtasks
  <2>3. <<Bare("remove", i)>> \in Seq(About(t))
    BY <2>1
  <2>4. QED
    BY <2>2, <2>3 DEF removed
<1>3. ASSUME NEW l PROVE unchecked(t, l) \in Seq(About(t))
  BY EachAbout DEF unchecked
<1>4. ASSUME NEW i \in DOMAIN t, NEW ref \in Id, NEW side \in {"avant", "apres"}
      PROVE  moved(i, ref, side) \in Seq(About(t))
  <2> DEFINE o == [Bare("move", i) EXCEPT !.ref = ref, !.side = side]
  <2>1. o \in Sendable
    BY <1>0, EditIs
  <2>2. o.op = "move" /\ o.id = i
    BY DEF Bare
  <2>3. o \in About(t)
    BY <2>1, <2>2 DEF About
  <2> HIDE DEF o
  <2>4. <<o>> \in Seq(About(t))
    BY <2>3
  <2>5. QED
    BY <2>4 DEF moved, o
<1>5. ASSUME NEW i \in Id, NEW l \in List, NEW p \in Id \union {None}
      PROVE  newTask(i, l, p) \in Seq(About(t))
  <2> DEFINE o == [Bare("add", i) EXCEPT !.list = l, !.parent = p]
  <2>1. o \in Sendable
    BY AddIs
  <2>2. o.op = "add"
    BY DEF Bare
  <2>3. o \in About(t)
    BY <2>1, <2>2 DEF About
  <2> HIDE DEF o
  <2>4. <<o>> \in Seq(About(t))
    BY <2>3
  <2>5. QED
    BY <2>4 DEF newTask, o
<1>6. ASSUME NEW i \in Id, NEW l \in List PROVE toOtherList(i, l) \in Seq(Sendable)
  <2> DEFINE o == [Bare("edit", i) EXCEPT !.list = l]
  <2>1. o \in Sendable
    BY EditIs
  <2> HIDE DEF o
  <2>2. <<o>> \in Seq(Sendable)
    BY <2>1
  <2>3. QED
    BY <2>2 DEF toOtherList, o
<1>7. QED
  BY <1>1, <1>2, <1>3, <1>4, <1>5, <1>6

-----------------------------------------------------------------------------
(***************************************************************************)
(* The types.                                                              *)
(***************************************************************************)
Screens == shown \in [Device -> Tree]
Queues ==
    /\ queue \in [Device -> Seq(Sendable)] /\ toast \in [Device -> Seq(Sendable)]
    /\ serving \in [dev : Device \union {None}, left : Nat]
    /\ serving.dev # None => serving.left <= Len(queue[serving.dev])
Bounds == lists \subseteq List /\ used \subseteq Id /\ gestures \in 0..MaxGestures
TreeTypes == server \in Tree /\ Screens /\ Queues /\ Bounds

\* The types hold at the beginning.
LEMMA InitTypes == Init => TreeTypes
<1> SUFFICES ASSUME Init PROVE TreeTypes
  OBVIOUS
<1>1. Init0 \in Tree
  BY TaskTreeAssumption, TreeIs
<1>2. Screens /\ server \in Tree
  BY <1>1 DEF Init, Screens
<1>3. <<>> \in Seq(Sendable)
  OBVIOUS
<1>4. Queues
  BY <1>3 DEF Init, Queues
<1>5. Bounds
  BY TaskTreeAssumption DEF Init, Bounds
<1>6. QED
  BY <1>2, <1>4, <1>5 DEF TreeTypes

\* A gesture, or its undoing.
LEMMA SendTypes ==
  ASSUME TreeTypes, NEW d \in Device, NEW ops \in Seq(Sendable), NEW back \in Seq(Sendable),
         send(d, ops, back)
  PROVE  server' \in Tree /\ Screens' /\ Queues' /\ lists' \subseteq List
<1>1. Screens'
  <2>1. FoldLeft(applyTaskOp, shown[d], ops) \in Tree
    BY ScreenTree DEF TreeTypes, Screens
  <2>2. QED
    BY <2>1 DEF TreeTypes, Screens, send
<1>2. Queues'
  <2>1. queue[d] \in Seq(Sendable) /\ queue[d] \o ops \in Seq(Sendable)
        /\ Len(queue[d] \o ops) = Len(queue[d]) + Len(ops)
    BY DEF TreeTypes, Queues
  <2>2. queue' \in [Device -> Seq(Sendable)] /\ toast' \in [Device -> Seq(Sendable)]
    BY <2>1 DEF TreeTypes, Queues, send
  <2>3. \A e \in Device : Len(queue[e]) <= Len(queue'[e]) /\ Len(queue[e]) \in Nat
                          /\ Len(queue'[e]) \in Nat
    <3>1. ASSUME NEW e \in Device PROVE Len(queue[e]) <= Len(queue'[e])
      <4>1. CASE e = d
        <5>1. queue'[e] = queue[d] \o ops
          BY <4>1 DEF TreeTypes, Queues, send
        <5>2. Len(ops) \in Nat /\ Len(queue[d]) \in Nat
          BY <2>1
        <5>3. QED
          BY <2>1, <4>1, <5>1, <5>2
      <4>2. CASE e # d
        <5>1. queue'[e] = queue[e] /\ Len(queue[e]) \in Nat
          BY <4>2 DEF TreeTypes, Queues, send
        <5>2. QED
          BY <5>1
      <4>3. QED
        BY <4>1, <4>2
    <3>2. QED
      BY <2>2, <3>1 DEF TreeTypes, Queues
  <2>4. serving' = serving /\ serving \in [dev : Device \union {None}, left : Nat]
        /\ (serving.dev # None => serving.left <= Len(queue[serving.dev]))
    BY DEF TreeTypes, Queues, send
  <2>5. serving.dev # None => serving.left <= Len(queue'[serving.dev])
    BY <2>3, <2>4
  <2>6. QED
    BY <2>2, <2>4, <2>5 DEF Queues
<1>3. QED
  BY <1>1, <1>2 DEF TreeTypes, Bounds, send

\* A gesture keeps them.
LEMMA PushTypes ==
  ASSUME TreeTypes, NEW d \in Device, NEW ops \in Seq(Sendable), NEW back \in Seq(Sendable),
         pushTaskOps(d, ops, back), used' \subseteq Id
  PROVE  TreeTypes'
<1>1. server' \in Tree /\ Screens' /\ Queues' /\ lists' \subseteq List
  BY SendTypes DEF pushTaskOps
<1>2. gestures' \in 0..MaxGestures
  BY TaskTreeAssumption DEF pushTaskOps, TreeTypes, Bounds
<1>3. QED
  BY <1>1, <1>2 DEF TreeTypes, Bounds

\* So does a gesture that can be undone.
LEMMA UndoableTypes ==
  ASSUME TreeTypes, NEW d \in Device, NEW ops \in Seq(About(shown[d])), taskOpsWithUndo(d, ops)
  PROVE  TreeTypes'
<1>1. shown[d] \in Tree
  BY DEF TreeTypes, Screens
<1>2. backs(ops, shown[d]) \in Seq(Sendable) /\ ops \in Seq(Sendable)
  BY <1>1, BacksAre, AboutSends
<1>3. used' \subseteq Id
  BY DEF taskOpsWithUndo, TreeTypes, Bounds
<1>4. QED
  BY <1>2, <1>3, PushTypes DEF taskOpsWithUndo

\* So does every step.
LEMMA NextTypes == TreeTypes /\ [Next]_vars => TreeTypes'
<1> SUFFICES ASSUME TreeTypes, [Next]_vars PROVE TreeTypes'
  OBVIOUS
<1>0. \A d \in Device : /\ shown[d] \in Tree /\ DOMAIN shown[d] \subseteq Id
                        /\ toast[d] \in Seq(Sendable) /\ queue[d] \in Seq(Sendable)
  BY TreeIs DEF TreeTypes, Screens, Queues
<1>used. used \subseteq Id /\ \A i \in Id : used \union {i} \subseteq Id
  BY DEF TreeTypes, Bounds
<1>1. CASE UNCHANGED vars
  BY <1>1 DEF TreeTypes, Screens, Queues, Bounds, vars
<1>2. ASSUME NEW d \in Device, undoLast(d) PROVE TreeTypes'
  <2>1. <<>> \in Seq(Sendable)
    OBVIOUS
  <2>2. server' \in Tree /\ Screens' /\ Queues' /\ lists' \subseteq List
    BY <1>0, <1>2, <2>1, SendTypes DEF undoLast
  <2>3. QED
    BY <1>2, <2>2 DEF undoLast, TreeTypes, Bounds
<1>3. ASSUME NEW d \in Device, flushTaskQueue(d) PROVE TreeTypes'
  <2>1. Len(queue[d]) \in Nat
    BY <1>0
  <2>2. Queues'
    BY <1>3, <2>1 DEF TreeTypes, Queues, flushTaskQueue
  <2>3. QED
    BY <1>3, <2>2 DEF TreeTypes, Screens, Bounds, flushTaskQueue
<1>4. ASSUME NEW d \in Device, adoptTasks(d) PROVE TreeTypes'
  <2>1. FoldLeft(applyTaskOp, server, queue[d]) \in Tree
    BY <1>0, ScreenTree DEF TreeTypes
  <2>2. Screens'
    BY <1>4, <2>1 DEF TreeTypes, Screens, adoptTasks
  <2>3. Queues'
    BY <1>4 DEF TreeTypes, Queues, adoptTasks
  <2>4. QED
    BY <1>4, <2>2, <2>3 DEF TreeTypes, Bounds, adoptTasks
<1>5. ASSUME NEW d \in Device, NEW l \in List, createTask(d, l) PROVE TreeTypes'
  <2>1. PICK i \in Id : used' = used \union {i} /\ pushTaskOps(d, newTask(i, l, None), toast[d])
    BY <1>5 DEF createTask
  <2>2. newTask(i, l, None) \in Seq(Sendable)
    BY <1>0, GesturesAre, AboutSends
  <2>3. QED
    BY <1>0, <1>used, <2>1, <2>2, PushTypes
<1>6. ASSUME NEW d \in Device, NEW l \in List, uncheckAll(d, l) PROVE TreeTypes'
  <2>1. unchecked(shown[d], l) \in Seq(About(shown[d]))
    BY <1>0, GesturesAre
  <2>2. QED
    BY <1>6, <2>1, UndoableTypes DEF uncheckAll
<1>7. ASSUME NEW d \in Device, NEW l \in List, resetList(d, l) PROVE TreeTypes'
  <2> DEFINE o == [Bare("reset", None) EXCEPT !.list = l]
  <2>1. o \in Sendable
    <3>1. PICK i \in Id \union {None} : i = None
      OBVIOUS
    <3>2. QED
      BY <3>1 DEF Sendable, Operation, Bare
  <2>2. pushTaskOps(d, <<o>>, <<>>) /\ used' = used
    BY <1>7 DEF resetList
  <2> HIDE DEF o
  <2>3. <<o>> \in Seq(Sendable) /\ <<>> \in Seq(Sendable)
    BY <2>1
  <2>4. QED
    BY <1>used, <2>2, <2>3, PushTypes
<1>8. ASSUME NEW d \in Device, NEW p \in Id, addSubtask(d, p) PROVE TreeTypes'
  <2>1. PICK i \in Id : /\ used' = used \union {i}
                        /\ pushTaskOps(d, newTask(i, shown[d][p].list, p), toast[d])
    BY <1>8 DEF addSubtask
  <2>2. shown[d][p].list \in List
    BY <1>0, <1>8, TreeIs, TaskIs DEF addSubtask
  <2>3. newTask(i, shown[d][p].list, p) \in Seq(Sendable)
    BY <1>0, <2>2, GesturesAre, AboutSends
  <2>4. QED
    BY <1>0, <1>used, <2>1, <2>3, PushTypes
<1>9. ASSUME NEW d \in Device, NEW i \in Id, toggleTask(d, i) PROVE TreeTypes'
  <2>1. i \in DOMAIN shown[d] /\ toggled(shown[d], i) \in Seq(About(shown[d]))
    BY <1>0, <1>9, GesturesAre DEF toggleTask
  <2>2. toggled(shown[d], i) \in Seq(Sendable) /\ <<>> \in Seq(Sendable)
    BY <2>1, AboutSends
  <2>3. CASE pushTaskOps(d, toggled(shown[d], i), <<>>) /\ used' = used
    BY <1>used, <2>2, <2>3, PushTypes
  <2>4. CASE taskOpsWithUndo(d, toggled(shown[d], i))
    BY <2>1, <2>4, UndoableTypes
  <2>5. QED
    BY <1>9, <2>3, <2>4 DEF toggleTask
<1>10. ASSUME NEW d \in Device, NEW i \in Id, removeTask(d, i) PROVE TreeTypes'
  <2>1. removed(shown[d], i) \in Seq(About(shown[d]))
    BY <1>0, <1>10, GesturesAre DEF removeTask
  <2>2. QED
    BY <1>10, <2>1, UndoableTypes DEF removeTask
<1>11. ASSUME NEW d \in Device, NEW i \in Id, NEW l \in List, updateTask(d, i, l) PROVE TreeTypes'
  <2>1. toOtherList(i, l) \in Seq(Sendable)
    BY <1>0, GesturesAre
  <2>2. QED
    BY <1>0, <1>11, <1>used, <2>1, PushTypes DEF updateTask
<1>12. ASSUME NEW d \in Device, NEW i \in Id, NEW ref \in Id, NEW side \in {"avant", "apres"},
              reorderTasks(d, i, ref, side)
       PROVE  TreeTypes'
  <2>1. moved(i, ref, side) \in Seq(About(shown[d]))
    BY <1>0, <1>12, GesturesAre DEF reorderTasks
  <2>2. QED
    BY <1>12, <2>1, UndoableTypes DEF reorderTasks
<1>13. CASE ServeOne
  <2> DEFINE d == serving.dev
             q == queue[d]
  <2>1. d \in Device /\ serving.left \in Nat \ {0} /\ serving.left <= Len(q)
    BY <1>13 DEF ServeOne, TreeTypes, Queues
  <2>2. q \in Seq(Sendable)
    BY <1>0, <2>1
  <2> HIDE DEF q
  <2>3. Len(q) \in Nat /\ q # <<>> /\ Head(q) \in Sendable /\ Tail(q) \in Seq(Sendable)
        /\ Len(Tail(q)) = Len(q) - 1
    BY <2>1, <2>2
  <2>4. server' \in Tree
    BY <1>13, <2>3, OpTree DEF ServeOne, TreeTypes, q
  <2>5. /\ queue' = [queue EXCEPT ![d] = Tail(q)]
        /\ serving' = [serving EXCEPT !.left = @ - 1]
    BY <1>13 DEF ServeOne, q
  <2>6. queue' \in [Device -> Seq(Sendable)] /\ queue'[d] = Tail(q)
    BY <2>1, <2>3, <2>5 DEF TreeTypes, Queues
  <2>7. /\ serving'.dev = d /\ serving'.left = serving.left - 1
        /\ serving' \in [dev : Device \union {None}, left : Nat]
    BY <2>1, <2>5 DEF TreeTypes, Queues
  <2>8. serving'.left <= Len(queue'[serving'.dev])
    BY <2>1, <2>3, <2>6, <2>7
  <2>9. Queues'
    BY <1>13, <2>6, <2>7, <2>8 DEF Queues, ServeOne, TreeTypes
  <2>10. QED
    BY <1>13, <2>4, <2>9 DEF TreeTypes, Screens, Bounds, ServeOne
<1>14. ASSUME NEW l \in List, preserveTasks(l) PROVE TreeTypes'
  <2>1. server' \in Tree
    BY <1>14, ReconcileTree DEF preserveTasks, TreeTypes
  <2>2. QED
    BY <1>14, <2>1 DEF TreeTypes, Screens, Queues, Bounds, preserveTasks
<1>15. QED
  BY <1>1, <1>2, <1>3, <1>4, <1>5, <1>6, <1>7, <1>8, <1>9, <1>10, <1>11, <1>12, <1>13, <1>14
  DEF Next

\* What the server holds, what each screen shows and what the queues and the
\* toasts carry are tasks and operations, keys included: a gesture only sends
\* what the server can read.
THEOREM TreeTypeCorrect == Spec => []TreeTypeOK
<1>1. TreeTypes => TreeTypeOK
  <2> SUFFICES ASSUME TreeTypes PROVE TreeTypeOK
    OBVIOUS
  <2>1. DOMAIN server \subseteq Id /\ server \in [DOMAIN server -> Task]
    BY TreeIs DEF TreeTypes
  <2>2. \A d \in Device : shown[d] \in [DOMAIN shown[d] -> Task]
    BY TreeIs DEF TreeTypes, Screens
  <2>3. queue \in [Device -> Seq(Operation)] /\ toast \in [Device -> Seq(Operation)]
    <3>1. Sendable \subseteq Operation
      BY DEF Sendable
    <3>2. Seq(Sendable) \subseteq Seq(Operation)
      BY <3>1
    <3>3. QED
      BY <3>2 DEF TreeTypes, Queues
  <2>4. QED
    BY <2>1, <2>2, <2>3 DEF TreeTypes, Queues, Bounds, TreeTypeOK
<1>2. QED
  BY <1>1, InitTypes, NextTypes, PTL DEF Spec

-----------------------------------------------------------------------------
(***************************************************************************)
(* What leaves the server.                                                 *)
(***************************************************************************)

\* An operation takes away the task it removes, and no other.
LEMMA OpLoses ==
  ASSUME NEW t \in Tree, NEW known, NEW op \in Sendable, NEW i \in DOMAIN t,
         i \notin DOMAIN applyOp(t, known, op)
  PROVE  op.op = "remove" /\ op.id = i
<1>1. accepts(t, known, op) /\ DOMAIN applyOp(t, known, op) = DOMAIN applyTaskOp(t, op)
  <2>1. accepts(t, known, op)
    BY DEF applyOp
  <2>2. applyTaskOp(t, op) \in Tree
    BY TaskOpTree
  <2>3. QED
    BY <2>1, <2>2, PromotedTree DEF applyOp
<1>2. i \notin DOMAIN applyTaskOp(t, op)
  BY <1>1
<1>o. op.op \in {"add", "edit", "move", "done", "reopen", "remove", "reset"}
  BY OpIs
<1>3. CASE op.op = "reset"
  BY <1>2, <1>3 DEF applyTaskOp, unticked
<1>4. CASE op.op = "add"
  BY <1>2, <1>4 DEF applyTaskOp, added
<1>5. CASE op.op \in {"edit", "move", "done", "reopen"}
  BY <1>2, <1>5 DEF applyTaskOp
<1>6. CASE op.op = "remove"
  BY <1>2, <1>6 DEF applyTaskOp, without
<1>7. QED
  BY <1>o, <1>3, <1>4, <1>5, <1>6

\* The tasks of the server change by an operation, or with a list.
LEMMA ServerChanges ==
  ASSUME [Next]_vars, server' # server
  PROVE  ServeOne \/ \E l \in List : preserveTasks(l)
<1>1. ASSUME NEW d \in Device, undoLast(d) \/ flushTaskQueue(d) \/ adoptTasks(d)
      PROVE  FALSE
  BY <1>1 DEF undoLast, send, flushTaskQueue, adoptTasks
<1>2. ASSUME NEW d \in Device, NEW l \in List,
             createTask(d, l) \/ uncheckAll(d, l) \/ resetList(d, l)
      PROVE  FALSE
  BY <1>2 DEF createTask, uncheckAll, resetList, taskOpsWithUndo, pushTaskOps, send
<1>3. ASSUME NEW d \in Device, NEW j \in Id,
             addSubtask(d, j) \/ toggleTask(d, j) \/ removeTask(d, j)
      PROVE  FALSE
  BY <1>3 DEF addSubtask, toggleTask, removeTask, taskOpsWithUndo, pushTaskOps, send
<1>4. ASSUME NEW d \in Device, NEW j \in Id, NEW l \in List, updateTask(d, j, l)
      PROVE  FALSE
  BY <1>4 DEF updateTask, pushTaskOps, send
<1>5. ASSUME NEW d \in Device, NEW j \in Id, NEW ref \in Id,
             NEW side \in {"avant", "apres"}, reorderTasks(d, j, ref, side)
      PROVE  FALSE
  BY <1>5 DEF reorderTasks, taskOpsWithUndo, pushTaskOps, send
<1>6. CASE UNCHANGED vars
  BY <1>6 DEF vars
<1>7. QED
  BY <1>1, <1>2, <1>3, <1>4, <1>5, <1>6 DEF Next

\* A task leaves the server by the operation that removes it, or with its list:
\* the subtask another device has just added to what is removed stays.
THEOREM NothingIsLost == Spec => NothingVanishes
<1> DEFINE Loss(i) ==
      \/ server[i].list \notin lists'
      \/ serving.left > 0 /\ LET op == Head(queue[serving.dev])
                             IN  op.op = "remove" /\ op.id = i
    Kept == \A i \in DOMAIN server : i \notin DOMAIN server' => Loss(i)
<1>1. TreeTypes /\ [Next]_vars => [Kept]_server
  <2> SUFFICES ASSUME TreeTypes, [Next]_vars, server' # server,
                      NEW i \in DOMAIN server, i \notin DOMAIN server'
               PROVE  Loss(i)
    OBVIOUS
  <2>1. CASE ServeOne
    <3> DEFINE op == Head(queue[serving.dev])
    <3>1. serving.left > 0 /\ server' = applyOp(server, lists, op)
      BY <2>1 DEF ServeOne
    <3>2. /\ serving.dev \in Device /\ serving.left \in Nat
          /\ serving.left <= Len(queue[serving.dev])
          /\ queue[serving.dev] \in Seq(Sendable)
      BY <2>1 DEF ServeOne, TreeTypes, Queues
    <3>3. op \in Sendable
      BY <3>1, <3>2
    <3> HIDE DEF op
    <3>4. op.op = "remove" /\ op.id = i
      BY <3>1, <3>3, OpLoses DEF TreeTypes
    <3>5. QED
      BY <3>1, <3>4 DEF op
  <2>2. ASSUME NEW l \in List, preserveTasks(l) PROVE server[i].list \notin lists'
    BY <2>2, ReconcileTree DEF preserveTasks, TreeTypes
  <2>3. ServeOne \/ \E l \in List : preserveTasks(l)
    BY ServerChanges
  <2>4. QED
    BY <2>1, <2>2, <2>3
<1>2. QED
  BY <1>1, InitTypes, NextTypes, PTL DEF Spec, NothingVanishes

-----------------------------------------------------------------------------
(***************************************************************************)
(* What the screen anticipates.                                            *)
(***************************************************************************)

\* No operation, and one.
LEMMA FewBatch ==
  ASSUME NEW t \in Tree, NEW known, NEW o \in Sendable
  PROVE  /\ applyBatch(t, known, <<>>) = t
         /\ applyBatch(t, known, <<o>>) = applyOp(t, known, o)
         /\ FoldLeft(applyTaskOp, t, <<o>>) = applyTaskOp(t, o)
<1>1. <<>> \in Seq(Sendable) /\ Len(<<>>) = 0
  OBVIOUS
<1>2. applyBatch(t, known, <<>>) = t
  <2>1. PICK h : BatchSteps(h, known, t, <<>>) /\ applyBatch(t, known, <<>>) = h[Len(<<>>)]
    BY <1>1, Batch
  <2>2. QED
    BY <1>1, <2>1 DEF BatchSteps
<1> DEFINE q == <<o>>
<1>3. q \in Seq(Sendable) /\ Len(q) = 1 /\ q[0 + 1] = o /\ 0 \in 0..(Len(q) - 1) /\ 0 + 1 = 1
  OBVIOUS
<1> HIDE DEF q
<1>4. applyBatch(t, known, q) = applyOp(t, known, o)
  <2>1. PICK h : BatchSteps(h, known, t, q) /\ applyBatch(t, known, q) = h[Len(q)]
    BY <1>3, Batch
  <2>2. h[0 + 1] = applyOp(h[0], known, q[0 + 1]) /\ h[0] = t
    BY <1>3, <2>1 DEF BatchSteps
  <2>3. QED
    BY <1>3, <2>1, <2>2
<1>5. FoldLeft(applyTaskOp, t, q) = applyTaskOp(t, o)
  <2>1. PICK h : ScreenSteps(h, t, q) /\ FoldLeft(applyTaskOp, t, q) = h[Len(q)]
    BY <1>3, Screen
  <2>2. h[0 + 1] = applyTaskOp(h[0], q[0 + 1]) /\ h[0] = t
    BY <1>3, <2>1 DEF ScreenSteps
  <2>3. QED
    BY <1>3, <2>1, <2>2
<1>6. QED
  BY <1>2, <1>4, <1>5 DEF q

\* What the screen and the server do alike, refusals included.
Alike == {o \in Sendable : o.op \in {"done", "reopen", "move"}}

\* An operation refused would have changed nothing on the screen either.
LEMMA AlikeOp ==
  ASSUME NEW t, NEW known, NEW o \in Alike
  PROVE  applyOp(t, known, o) = applyTaskOp(t, o)
<1>1. CASE o.op \in {"done", "reopen"}
  BY <1>1 DEF applyOp, accepts
<1>2. CASE o.op = "move"
  <2>1. accepts(t, known, o) \/ applyTaskOp(t, o) = t
    BY <1>2 DEF accepts, applyTaskOp
  <2>2. QED
    BY <1>2, <2>1 DEF applyOp
<1>3. QED
  BY <1>1, <1>2 DEF Alike

\* So is a whole batch of them.
LEMMA AlikeBatch ==
  ASSUME NEW t \in Tree, NEW known, NEW q \in Seq(Alike)
  PROVE  applyBatch(t, known, q) = FoldLeft(applyTaskOp, t, q)
<1>0. q \in Seq(Sendable) /\ Len(q) \in Nat /\ \A k \in 1..Len(q) : q[k] \in Alike
  BY DEF Alike
<1>1. PICK g : BatchSteps(g, known, t, q) /\ applyBatch(t, known, q) = g[Len(q)]
  BY <1>0, Batch
<1>2. PICK h : ScreenSteps(h, t, q) /\ FoldLeft(applyTaskOp, t, q) = h[Len(q)]
  BY <1>0, Screen
<1> DEFINE N == {n \in Nat : n <= Len(q) => g[n] = h[n]}
<1>3. 0 \in N
  BY <1>1, <1>2 DEF BatchSteps, ScreenSteps
<1>4. ASSUME NEW n \in Nat, n \in N PROVE n + 1 \in N
  <2> SUFFICES ASSUME n + 1 <= Len(q) PROVE g[n + 1] = h[n + 1]
    OBVIOUS
  <2>1. n <= Len(q) /\ n \in 0..(Len(q) - 1) /\ n + 1 \in 1..Len(q)
    BY <1>0
  <2>2. g[n] = h[n]
    BY <1>4, <2>1
  <2>3. g[n + 1] = applyOp(g[n], known, q[n + 1])
    BY <1>1, <2>1 DEF BatchSteps
  <2>4. h[n + 1] = applyTaskOp(h[n], q[n + 1])
    BY <1>2, <2>1 DEF ScreenSteps
  <2>5. q[n + 1] \in Alike
    BY <1>0, <2>1
  <2>6. QED
    BY <2>2, <2>3, <2>4, <2>5, AlikeOp
<1> HIDE DEF N
<1>5. Len(q) \in N
  BY <1>0, <1>3, <1>4, Ups
<1>6. QED
  BY <1>0, <1>1, <1>2, <1>5 DEF N

\* Tasks taken away, one after the other.
LEMMA TakenAway ==
  ASSUME NEW t \in Tree, NEW known, NEW R, NEW o \in Sendable,
         o.op = "remove", o.id \notin R,
         {j \in DOMAIN t : t[j].parent = o.id} \subseteq R
  PROVE  /\ applyTaskOp(without(t, R), o) = without(t, R \union {o.id})
         /\ applyOp(without(t, R), known, o) = without(t, R \union {o.id})
<1> DEFINE u == without(t, R)
           v == without(t, R \union {o.id})
<1>1. u \in Tree /\ DOMAIN u = DOMAIN t \ R /\ \A j \in DOMAIN t \ R : u[j] = t[j]
  BY WithoutTree DEF without
<1>2. v \in Tree /\ v = [j \in DOMAIN t \ (R \union {o.id}) |-> t[j]]
  BY WithoutTree DEF without
<1>3. applyTaskOp(u, o) = v
  <2>1. CASE o.id \in DOMAIN u
    <3>1. applyTaskOp(u, o) = [j \in DOMAIN u \ {o.id} |-> u[j]]
      BY <2>1 DEF applyTaskOp, without
    <3>2. DOMAIN u \ {o.id} = DOMAIN t \ (R \union {o.id})
      BY <1>1
    <3> HIDE DEF u, v
    <3>3. QED
      BY <1>1, <1>2, <3>1, <3>2
  <2>2. CASE o.id \notin DOMAIN u
    <3>1. applyTaskOp(u, o) = u
      BY <2>2 DEF applyTaskOp
    <3>2. DOMAIN t \ R = DOMAIN t \ (R \union {o.id})
      BY <1>1, <2>2
    <3>3. u = v
      BY <3>2 DEF without
    <3>4. QED
      BY <3>1, <3>3
  <2>3. QED
    BY <2>1, <2>2
<1>4. subtasks(v, o.id) = {}
  <2>1. \A j \in DOMAIN v : j \in DOMAIN t \ R /\ v[j] = t[j]
    BY <1>2
  <2> HIDE DEF v
  <2>2. QED
    BY <2>1 DEF subtasks
<1>5. promoted(v, {}) = v
  <2>1. v = [j \in DOMAIN v |-> v[j]]
    BY <1>2
  <2> HIDE DEF v
  <2>2. QED
    BY <2>1 DEF promoted
<1>6. accepts(u, known, o)
  BY DEF accepts
<1> HIDE DEF u, v
<1>7. applyOp(u, known, o) = v
  BY <1>3, <1>4, <1>5, <1>6 DEF applyOp
<1>8. QED
  BY <1>3, <1>7 DEF u, v

\* The batch that removes a task and its subtasks leaves all the others as they
\* were, on the screen and on the server: the subtasks go first, so that none is
\* promoted.
LEMMA RemovedBatch ==
  ASSUME NEW t \in Tree, NEW known, NEW K, Sound(t, K), NEW i \in DOMAIN t
  PROVE  /\ applyBatch(t, known, removed(t, i)) = without(t, subtasks(t, i) \union {i})
         /\ FoldLeft(applyTaskOp, t, removed(t, i)) = without(t, subtasks(t, i) \union {i})
<1> DEFINE S == subtasks(t, i)
           f == SetToSeq(S)
           n == Cardinality(S)
           q == removed(t, i)
           gone(k) == {f[j] : j \in 1..k}
<1>0. S \subseteq DOMAIN t /\ i \notin S /\ \A s \in S : t[s].parent = i
  <2>1. DOMAIN t \subseteq Id
    BY TreeIs
  <2>2. i # None
    BY <2>1, NoneIsNot
  <2>3. QED
    BY <2>2 DEF subtasks, Sound
<1>1. /\ IsFiniteSet(S) /\ S \subseteq Id /\ n \in Nat
      /\ each("remove", S) \in Seq(Sendable) /\ Len(each("remove", S)) = n
      /\ \A k \in 1..n : each("remove", S)[k] = Bare("remove", f[k]) /\ f[k] \in S
      /\ \A x \in S : \E k \in 1..n : f[k] = x
      /\ \A j, k \in 1..n : f[j] = f[k] => j = k
  <2>1. IsFiniteSet(S) /\ S \subseteq Id
    BY <1>0, EachAbout
  <2> HIDE DEF S
  <2>2. QED
    BY <2>1, EachIs
<1>2. q \in Seq(About(t))
  BY GesturesAre
<1>3. q \in Seq(Sendable) /\ Len(q) = n + 1
      /\ (\A k \in 1..n : q[k] = Bare("remove", f[k])) /\ q[n + 1] = Bare("remove", i)
  <2> DEFINE e == each("remove", S)
             o == Bare("remove", i)
  <2>1. q = e \o <<o>>
    BY DEF removed
  <2>2. q \in Seq(Sendable)
    BY <1>2, AboutSends
  <2>3. e \in Seq(Sendable) /\ Len(e) = n /\ n \in Nat
        /\ \A k \in 1..n : e[k] = Bare("remove", f[k])
    BY <1>1
  <2> HIDE DEF e, o, n, f, q, S
  <2>4. /\ Len(q) = n + 1 /\ q[n + 1] = o /\ \A k \in 1..n : q[k] = e[k]
    BY <2>1, <2>3
  <2>5. QED
    BY <2>2, <2>3, <2>4 DEF o
<1>4. PICK g : BatchSteps(g, known, t, q) /\ applyBatch(t, known, q) = g[Len(q)]
  BY <1>3, Batch
<1>5. PICK h : ScreenSteps(h, t, q) /\ FoldLeft(applyTaskOp, t, q) = h[Len(q)]
  BY <1>3, Screen
<1>6. \A s \in S : {j \in DOMAIN t : t[j].parent = s} = {}
  <2>1. DOMAIN t \subseteq Id
    BY TreeIs
  <2>2. \A s \in S : s # None /\ t[s].parent # None
    BY <1>0, <2>1, NoneIsNot
  <2>3. QED
    BY <1>0, <2>2 DEF Sound
<1> HIDE DEF q, S, f, n
<1> DEFINE N == {k \in Nat : k <= n => /\ g[k] = without(t, gone(k))
                                      /\ h[k] = without(t, gone(k))}
<1>7. 0 \in N
  <2>1. gone(0) = {}
    OBVIOUS
  <2>2. without(t, {}) = t
    <3>1. t = [j \in DOMAIN t |-> t[j]]
      BY TreeIs
    <3>2. DOMAIN t \ {} = DOMAIN t
      OBVIOUS
    <3>3. QED
      BY <3>1, <3>2 DEF without
  <2>3. g[0] = t /\ h[0] = t
    BY <1>4, <1>5 DEF BatchSteps, ScreenSteps
  <2> HIDE DEF gone
  <2>4. QED
    BY <2>1, <2>2, <2>3
<1>8. ASSUME NEW k \in Nat, k \in N PROVE k + 1 \in N
  <2> SUFFICES ASSUME k + 1 <= n
               PROVE  /\ g[k + 1] = without(t, gone(k + 1))
                      /\ h[k + 1] = without(t, gone(k + 1))
    OBVIOUS
  <2>1. k <= n /\ k \in 0..(Len(q) - 1) /\ k + 1 \in 1..n
    BY <1>1, <1>3
  <2>2. g[k] = without(t, gone(k)) /\ h[k] = without(t, gone(k))
    BY <1>8, <2>1
  <2> DEFINE o == Bare("remove", f[k + 1])
  <2>3. q[k + 1] = o /\ f[k + 1] \in S /\ f[k + 1] \in Id
    BY <1>1, <1>3, <2>1
  <2>4. o \in Sendable /\ o.op = "remove" /\ o.id = f[k + 1]
    BY <2>3, BareIs
  <2>5. gone(k + 1) = gone(k) \union {f[k + 1]}
    <3>1. 1..(k + 1) = (1..k) \union {k + 1}
      OBVIOUS
    <3>2. QED
      BY <3>1
  <2>6. f[k + 1] \notin gone(k)
    <3>1. ASSUME NEW j \in 1..k PROVE f[j] # f[k + 1]
      <4>1. j \in 1..n /\ j # k + 1
        BY <1>1, <2>1
      <4>2. QED
        BY <1>1, <2>1, <4>1
    <3>2. QED
      BY <3>1
  <2>7. {j \in DOMAIN t : t[j].parent = f[k + 1]} = {}
    BY <1>6, <2>3
  <2> HIDE DEF gone, o
  <2>8. /\ applyTaskOp(without(t, gone(k)), o) = without(t, gone(k + 1))
        /\ applyOp(without(t, gone(k)), known, o) = without(t, gone(k + 1))
    <3>1. {j \in DOMAIN t : t[j].parent = o.id} \subseteq gone(k)
      BY <2>4, <2>7
    <3>2. QED
      BY <2>4, <2>5, <2>6, <3>1, TakenAway
  <2>9. g[k + 1] = applyOp(g[k], known, q[k + 1])
    BY <1>4, <2>1 DEF BatchSteps
  <2>10. h[k + 1] = applyTaskOp(h[k], q[k + 1])
    BY <1>5, <2>1 DEF ScreenSteps
  <2>11. QED
    BY <2>2, <2>3, <2>8, <2>9, <2>10
<1> HIDE DEF N
<1>9. n \in N
  BY <1>1, <1>7, <1>8, Ups
<1>10. gone(n) = S
  <2>1. \A x \in S : \E k \in 1..n : f[k] = x
    BY <1>1
  <2>2. \A k \in 1..n : f[k] \in S
    BY <1>1
  <2>3. QED
    BY <2>1, <2>2
<1>11. g[n] = without(t, S) /\ h[n] = without(t, S)
  BY <1>1, <1>9, <1>10 DEF N
<1> DEFINE o == Bare("remove", i)
<1>12. q[n + 1] = o /\ o \in Sendable /\ o.op = "remove" /\ o.id = i
  <2>1. i \in Id
    BY TreeIs
  <2>2. QED
    BY <1>3, <2>1, BareIs
<1>13. {j \in DOMAIN t : t[j].parent = i} \subseteq S
  BY DEF S, subtasks
<1> HIDE DEF o
<1>14. /\ applyTaskOp(without(t, S), o) = without(t, S \union {i})
       /\ applyOp(without(t, S), known, o) = without(t, S \union {i})
  BY <1>0, <1>12, <1>13, TakenAway
<1>15. n \in 0..(Len(q) - 1) /\ Len(q) = n + 1
  BY <1>1, <1>3
<1>16. g[n + 1] = applyOp(g[n], known, q[n + 1]) /\ h[n + 1] = applyTaskOp(h[n], q[n + 1])
  BY <1>4, <1>5, <1>15 DEF BatchSteps, ScreenSteps
<1>17. QED
  BY <1>4, <1>5, <1>11, <1>12, <1>14, <1>15, <1>16 DEF q, S

\* A batch of one operation is accepted with it.
LEMMA OneAccepted ==
  ASSUME NEW t \in Tree, NEW known, NEW o \in Sendable, accepts(t, known, o)
  PROVE  accepted(t, known, <<o>>)
<1> DEFINE q == <<o>>
<1>1. DOMAIN q = {1} /\ q[1] = o
  OBVIOUS
<1>2. SubSeq(q, 1, 1 - 1) = <<>>
  OBVIOUS
<1>3. applyBatch(t, known, <<>>) = t
  BY FewBatch
<1> HIDE DEF q
<1>4. accepts(applyBatch(t, known, SubSeq(q, 1, 1 - 1)), known, q[1])
  BY <1>1, <1>2, <1>3
<1>5. accepted(t, known, q)
  BY <1>1, <1>4 DEF accepted
<1>6. QED
  BY <1>5 DEF q

\* A task that one of the gestures adds is accepted, and appears as it was shown.
LEMMA NewAccepted ==
  ASSUME NEW t \in Tree, NEW known, Sound(t, known), known \subseteq List,
         NEW i \in Id, NEW l \in known, NEW p \in Id \union {None},
         p # None => p \in DOMAIN t /\ t[p].parent = None /\ t[p].list = l
  PROVE  /\ accepted(t, known, newTask(i, l, p))
         /\ applyBatch(t, known, newTask(i, l, p)) = FoldLeft(applyTaskOp, t, newTask(i, l, p))
<1> DEFINE o == [Bare("add", i) EXCEPT !.list = l, !.parent = p]
<1>1. o \in Sendable /\ o.op = "add" /\ o.id = i /\ o.list = l /\ o.parent = p
  <2>1. o \in Sendable
    BY AddIs
  <2>2. QED
    BY <2>1 DEF Bare
<1>2. newTask(i, l, p) = <<o>>
  BY DEF newTask
<1> HIDE DEF o
<1>3. accepts(t, known, o)
  <2>1. CASE i \in DOMAIN t
    BY <1>1, <2>1 DEF accepts
  <2>2. CASE i \notin DOMAIN t
    <3>1. i # None
      BY NoneIsNot
    <3>2. subtasks(t, i) = {}
      BY <2>2, <3>1 DEF Sound, subtasks
    <3>3. readParent(t, i, p, l)
      BY <2>2, <3>2 DEF readParent
    <3>4. QED
      BY <1>1, <3>3 DEF accepts
  <2>3. QED
    BY <2>1, <2>2
<1>4. applyOp(t, known, o) = applyTaskOp(t, o)
  BY <1>1, <1>3 DEF applyOp
<1>5. applyBatch(t, known, <<o>>) = FoldLeft(applyTaskOp, t, <<o>>)
  <2>1. o \in Sendable
    BY <1>1
  <2>2. applyBatch(t, known, <<o>>) = applyOp(t, known, o)
    BY <2>1, FewBatch
  <2>3. FoldLeft(applyTaskOp, t, <<o>>) = applyTaskOp(t, o)
    BY <2>1, FewBatch
  <2>4. QED
    BY <1>4, <2>2, <2>3
<1>6. accepted(t, known, <<o>>)
  BY <1>1, <1>3, OneAccepted
<1>7. QED
  BY <1>2, <1>5, <1>6

\* Between keys that differ there is room.
LEMMA MoveAccepted ==
  ASSUME NEW t \in Tree, KeysDistinct(t), NEW known,
         NEW i \in DOMAIN t, ~t[i].done, NEW ref \in DOMAIN t, NEW side \in {"avant", "apres"}
  PROVE  accepted(t, known, moved(i, ref, side))
<1> DEFINE before == slot(t, i, ref, side)
           after == (DOMAIN t \ {i}) \ before
           a == lastKey(t, before)
           b == firstKey(t, after)
           o == [Bare("move", i) EXCEPT !.ref = ref, !.side = side]
<1>1. DOMAIN t \subseteq Id /\ \A j \in DOMAIN t : t[j].ord \in Int
  BY TreeIs DEF Task
<1>2. before \subseteq DOMAIN t /\ after \subseteq DOMAIN t /\ before \intersect after = {}
  BY DEF slot
<1>3. \A j \in before : t[j].ord <= t[ref].ord
  BY <1>1 DEF slot, byOrd
<1>4. \A k \in after : t[ref].ord <= t[k].ord
  BY <1>1 DEF slot, byOrd
<1>5. coherent(a, b)
  <2> HIDE DEF before, after
  <2>1. /\ before = {} => a = None
        /\ before # {} => \E j \in before : a = t[j].ord
    BY <1>2, LastKey
  <2>2. /\ after = {} => b = None
        /\ after # {} => \E k \in after : b = t[k].ord
    BY <1>2, FirstKey
  <2> HIDE DEF a, b
  <2>3. ASSUME before # {}, after # {} PROVE a < b
    <3>1. PICK j \in before : a = t[j].ord
      BY <2>1, <2>3
    <3>2. PICK k \in after : b = t[k].ord
      BY <2>2, <2>3
    <3>3. j \in DOMAIN t /\ k \in DOMAIN t /\ j # k
      BY <1>2
    <3>4. t[j].ord # t[k].ord
      BY <3>3 DEF KeysDistinct
    <3>5. t[j].ord <= t[ref].ord /\ t[ref].ord <= t[k].ord
      BY <1>3, <1>4
    <3>6. QED
      BY <1>1, <3>1, <3>2, <3>3, <3>4, <3>5
  <2>4. QED
    BY <2>1, <2>2, <2>3 DEF coherent
<1>6. between(a, b) \in Int
  <2> HIDE DEF before, after
  <2>1. a \in Int \union {None} /\ b \in Int \union {None}
    BY <1>2, LastKey, FirstKey
  <2> HIDE DEF a, b
  <2>2. QED
    BY <2>1, BetweenIs
<1> HIDE DEF before, after, a, b
<1>7. keyForMove(t, i, ref, side) \in Int
  BY <1>1, <1>5, <1>6 DEF keyForMove, before, after, a, b
<1>8. /\ o \in Sendable /\ o.op = "move" /\ o.id = i /\ o.ref = ref /\ o.side = side
      /\ moved(i, ref, side) = <<o>>
  <2>1. o \in Sendable
    BY <1>1, EditIs
  <2>2. QED
    BY <2>1 DEF Bare, moved
<1> HIDE DEF o
<1>9. accepts(t, known, o)
  BY <1>7, <1>8, NoneIsNot DEF accepts
<1>10. QED
  BY <1>8, <1>9, OneAccepted

\* Operations the server refuses to nobody.
LEMMA NeverRefused ==
  ASSUME NEW t, NEW known, NEW q,
         \A k \in DOMAIN q : q[k].op \in {"done", "reopen", "remove"}
  PROVE  accepted(t, known, q)
<1>1. \A u, o : o.op \in {"done", "reopen", "remove"} => accepts(u, known, o)
  BY DEF accepts
<1>2. QED
  BY <1>1 DEF accepted

\* A tap, a removal and the unticking of a list are made of those.
LEMMA TapsAre ==
  ASSUME NEW t \in Tree
  PROVE  /\ \A i \in DOMAIN t : /\ toggled(t, i) \in Seq(Alike)
                                /\ \A k \in DOMAIN toggled(t, i) :
                                     toggled(t, i)[k].op \in {"done", "reopen", "remove"}
                                /\ \A k \in DOMAIN removed(t, i) :
                                     removed(t, i)[k].op \in {"done", "reopen", "remove"}
         /\ \A l : /\ unchecked(t, l) \in Seq(Alike)
                   /\ \A k \in DOMAIN unchecked(t, l) :
                        unchecked(t, l)[k].op \in {"done", "reopen", "remove"}
<1> DEFINE Tap == {o \in Sendable : o.op \in {"done", "reopen"}}
           Plain == {o \in Sendable : o.op \in {"done", "reopen", "remove"}}
<1>0. DOMAIN t \subseteq Id
  BY TreeIs
<1>1. ASSUME NEW op \in {"done", "reopen", "remove"}, NEW S, S \subseteq DOMAIN t
      PROVE  /\ each(op, S) \in Seq(Plain)
             /\ op # "remove" => each(op, S) \in Seq(Tap)
  <2>1. IsFiniteSet(S) /\ S \subseteq Id
    BY <1>1, EachAbout
  <2>2. /\ each(op, S) \in Seq(Sendable) /\ Len(each(op, S)) = Cardinality(S)
        /\ Cardinality(S) \in Nat
        /\ \A k \in 1..Cardinality(S) : /\ each(op, S)[k] = Bare(op, SetToSeq(S)[k])
                                        /\ SetToSeq(S)[k] \in S
    BY <2>1, EachIs
  <2>3. \A i \in S : Bare(op, i) \in Plain /\ (op # "remove" => Bare(op, i) \in Tap)
    BY <2>1, BareIs
  <2>4. \A k \in 1..Len(each(op, S)) :
           each(op, S)[k] \in Plain /\ (op # "remove" => each(op, S)[k] \in Tap)
    BY <2>2, <2>3
  <2> HIDE DEF Plain, Tap
  <2>5. QED
    BY <2>2, <2>4
<1>2. Seq(Tap) \subseteq Seq(Alike) /\ Seq(Tap) \subseteq Seq(Plain)
  <2>1. Tap \subseteq Alike /\ Tap \subseteq Plain
    BY DEF Alike
  <2> HIDE DEF Tap, Plain
  <2>2. QED
    BY <2>1
<1>3. \A q \in Seq(Plain) : \A k \in DOMAIN q : q[k].op \in {"done", "reopen", "remove"}
  OBVIOUS
<1>4. ASSUME NEW i \in DOMAIN t PROVE toggled(t, i) \in Seq(Tap)
  <2>1. Bare("done", i) \in Tap /\ Bare("reopen", i) \in Tap
    BY <1>0, BareIs
  <2>2. each("done", {s \in subtasks(t, i) : ~t[s].done}) \in Seq(Tap)
    BY <1>1 DEF subtasks
  <2> HIDE DEF Tap
  <2>3. <<Bare("done", i)>> \in Seq(Tap) /\ <<Bare("reopen", i)>> \in Seq(Tap)
    BY <2>1
  <2>4. QED
    BY <2>2, <2>3 DEF toggled
<1>5. ASSUME NEW i \in DOMAIN t PROVE removed(t, i) \in Seq(Plain)
  <2>1. Bare("remove", i) \in Plain
    BY <1>0, BareIs
  <2>2. each("remove", subtasks(t, i)) \in Seq(Plain)
    BY <1>1 DEF subtasks
  <2> HIDE DEF Plain
  <2>3. <<Bare("remove", i)>> \in Seq(Plain)
    BY <2>1
  <2>4. QED
    BY <2>2, <2>3 DEF removed
<1>6. ASSUME NEW l PROVE unchecked(t, l) \in Seq(Tap)
  BY <1>1 DEF unchecked
<1> HIDE DEF Tap, Plain
<1>7. QED
  BY <1>2, <1>3, <1>4, <1>5, <1>6

\* On tasks the screen and the server agree about, whatever they are, a gesture
\* gives on the server what the screen showed at once; and no operation of it is
\* refused while the keys of the tasks differ.
THEOREM TheScreenIsRight == Spec => []ShownIsApplied
<1>1. TreeTypes /\ TreeIInv => ShownIsApplied
  <2> SUFFICES ASSUME TreeTypes, TreeIInv, NEW ops \in Gestures(server, lists)
               PROVE  /\ applyBatch(server, lists, ops) = FoldLeft(applyTaskOp, server, ops)
                      /\ KeysDistinct(server) => accepted(server, lists, ops)
    BY DEF ShownIsApplied
  <2>0. server \in Tree /\ Sound(server, lists) /\ lists \subseteq List
        /\ DOMAIN server \subseteq Id
    BY TreeIs DEF TreeTypes, TreeIInv, TreeInv
  <2>1. ASSUME NEW i \in DOMAIN server, ops = toggled(server, i)
        PROVE  /\ applyBatch(server, lists, ops) = FoldLeft(applyTaskOp, server, ops)
               /\ accepted(server, lists, ops)
    BY <2>0, <2>1, TapsAre, AlikeBatch, NeverRefused
  <2>2. ASSUME NEW i \in DOMAIN server, ops = removed(server, i)
        PROVE  /\ applyBatch(server, lists, ops) = FoldLeft(applyTaskOp, server, ops)
               /\ accepted(server, lists, ops)
    BY <2>0, <2>2, TapsAre, RemovedBatch, NeverRefused
  <2>3. ASSUME NEW l \in lists, ops = unchecked(server, l)
        PROVE  /\ applyBatch(server, lists, ops) = FoldLeft(applyTaskOp, server, ops)
               /\ accepted(server, lists, ops)
    BY <2>0, <2>3, TapsAre, AlikeBatch, NeverRefused
  <2>4. ASSUME NEW i \in Id, NEW l \in lists, ops = newTask(i, l, None)
        PROVE  /\ applyBatch(server, lists, ops) = FoldLeft(applyTaskOp, server, ops)
               /\ accepted(server, lists, ops)
    BY <2>0, <2>4, NewAccepted
  <2>5. ASSUME NEW i \in Id, NEW p \in DOMAIN server, server[p].parent = None,
               ops = newTask(i, server[p].list, p)
        PROVE  /\ applyBatch(server, lists, ops) = FoldLeft(applyTaskOp, server, ops)
               /\ accepted(server, lists, ops)
    <3>1. server[p].list \in lists /\ p \in Id
      BY <2>0 DEF Sound
    <3>2. QED
      BY <2>0, <2>5, <3>1, NewAccepted
  <2>6. ASSUME NEW i \in DOMAIN server, ~server[i].done, NEW ref \in DOMAIN server,
               NEW side \in {"avant", "apres"}, ops = moved(i, ref, side)
        PROVE  /\ applyBatch(server, lists, ops) = FoldLeft(applyTaskOp, server, ops)
               /\ KeysDistinct(server) => accepted(server, lists, ops)
    <3> DEFINE o == [Bare("move", i) EXCEPT !.ref = ref, !.side = side]
    <3>1. o \in Sendable /\ o.op = "move" /\ ops = <<o>>
      <4>1. o \in Sendable
        BY <2>0, EditIs
      <4>2. QED
        BY <2>6, <4>1 DEF Bare, moved
    <3> HIDE DEF o
    <3>2. o \in Alike
      BY <3>1 DEF Alike
    <3>3. ops \in Seq(Alike)
      BY <3>1, <3>2
    <3>4. applyBatch(server, lists, ops) = FoldLeft(applyTaskOp, server, ops)
      BY <2>0, <3>3, AlikeBatch
    <3>5. KeysDistinct(server) => accepted(server, lists, ops)
      BY <2>0, <2>6, MoveAccepted
    <3>6. QED
      BY <3>4, <3>5
  <2>7. \/ \E i \in DOMAIN server : ops = toggled(server, i)
        \/ \E i \in DOMAIN server : ops = removed(server, i)
        \/ \E l \in lists : ops = unchecked(server, l)
        \/ \E i \in Id, l \in lists : ops = newTask(i, l, None)
        \/ \E i \in Id, p \in DOMAIN server :
              server[p].parent = None /\ ops = newTask(i, server[p].list, p)
        \/ \E i \in DOMAIN server, ref \in DOMAIN server, side \in {"avant", "apres"} :
              ~server[i].done /\ ops = moved(i, ref, side)
    BY DEF Gestures
  <2>8. QED
    BY <2>1, <2>2, <2>3, <2>4, <2>5, <2>6, <2>7
<1>2. QED
  BY <1>1, InitTypes, NextTypes, InitTree, NextTree, PTL DEF Spec

-----------------------------------------------------------------------------
(***************************************************************************)
(* What « Annuler » gives back.                                            *)
(***************************************************************************)

\* Tasks that are done, or open, in S.
marked(t, S, v) == [i \in DOMAIN t |-> IF i \in S THEN [t[i] EXCEPT !.done = v] ELSE t[i]]

\* Only `done` changes.
LEMMA MarkedIs ==
  ASSUME NEW t \in Tree, NEW S, NEW v \in BOOLEAN
  PROVE  /\ marked(t, S, v) \in Tree /\ DOMAIN marked(t, S, v) = DOMAIN t
         /\ \A i \in DOMAIN t :
              marked(t, S, v)[i] = [list |-> t[i].list, parent |-> t[i].parent,
                                    done |-> IF i \in S THEN v ELSE t[i].done, ord |-> t[i].ord]
<1> DEFINE u == [i \in DOMAIN t |-> IF i \in S THEN [t[i] EXCEPT !.done = v] ELSE t[i]]
<1>1. DOMAIN t \subseteq Id /\ IsFiniteSet(DOMAIN t) /\ t \in [DOMAIN t -> Task]
  BY TreeIs
<1>2. \A i \in DOMAIN t : t[i] \in Task /\ [t[i] EXCEPT !.done = v] \in Task
  BY <1>1, TaskIs
<1>3. DOMAIN u = DOMAIN t /\ u \in [DOMAIN t -> Task]
  BY <1>2
<1>4. \A i \in DOMAIN t :
         /\ [t[i] EXCEPT !.done = v] = [list |-> t[i].list, parent |-> t[i].parent,
                                        done |-> v, ord |-> t[i].ord]
         /\ t[i] = [list |-> t[i].list, parent |-> t[i].parent,
                    done |-> t[i].done, ord |-> t[i].ord]
  <2>1. \A i \in DOMAIN t :
           t[i] = [list |-> t[i].list, parent |-> t[i].parent,
                   done |-> t[i].done, ord |-> t[i].ord]
    BY <1>2, TaskIs
  <2>2. QED
    BY <2>1, FieldsChange
<1>5. \A i \in DOMAIN t :
         u[i] = [list |-> t[i].list, parent |-> t[i].parent,
                 done |-> IF i \in S THEN v ELSE t[i].done, ord |-> t[i].ord]
  BY <1>4
<1>6. u \in Tree
  BY <1>1, <1>3, TreeIs
<1>7. QED
  BY <1>3, <1>5, <1>6 DEF marked

\* Two trees are the same when their tasks are, field by field.
LEMMA SameTree ==
  ASSUME NEW t \in Tree, NEW u \in Tree, DOMAIN u = DOMAIN t,
         \A i \in DOMAIN t : /\ u[i].list = t[i].list /\ u[i].parent = t[i].parent
                             /\ u[i].done = t[i].done /\ u[i].ord = t[i].ord
  PROVE  u = t
<1>1. t \in [DOMAIN t -> Task] /\ u \in [DOMAIN t -> Task]
  BY TreeIs
<1>2. ASSUME NEW i \in DOMAIN t PROVE u[i] = t[i]
  <2>1. t[i] \in Task /\ u[i] \in Task
    BY <1>1
  <2>2. /\ t[i] = [list |-> t[i].list, parent |-> t[i].parent, done |-> t[i].done,
                   ord |-> t[i].ord]
        /\ u[i] = [list |-> u[i].list, parent |-> u[i].parent, done |-> u[i].done,
                   ord |-> u[i].ord]
    BY <2>1, TaskIs
  <2>3. QED
    BY <2>2
<1>3. QED
  BY <1>1, <1>2

\* One task more is done, or open.
LEMMA MarkOne ==
  ASSUME NEW t \in Tree, NEW S, NEW op \in {"done", "reopen"}, NEW i \in DOMAIN t, NEW known
  PROVE  applyOp(marked(t, S, op = "done"), known, Bare(op, i))
           = marked(t, S \union {i}, op = "done")
<1> DEFINE v == (op = "done")
           u == marked(t, S, v)
           w == marked(t, S \union {i}, v)
           o == Bare(op, i)
<1>1. v \in BOOLEAN
  OBVIOUS
<1> HIDE DEF v
<1>2. /\ u \in Tree /\ DOMAIN u = DOMAIN t
      /\ \A j \in DOMAIN t :
           u[j] = [list |-> t[j].list, parent |-> t[j].parent,
                   done |-> IF j \in S THEN v ELSE t[j].done, ord |-> t[j].ord]
  BY <1>1, MarkedIs
<1>3. /\ w \in Tree /\ DOMAIN w = DOMAIN t
      /\ \A j \in DOMAIN t :
           w[j] = [list |-> t[j].list, parent |-> t[j].parent,
                   done |-> IF j \in S \union {i} THEN v ELSE t[j].done, ord |-> t[j].ord]
  BY <1>1, MarkedIs
<1>4. i \in Id
  BY TreeIs
<1>5. o \in Sendable /\ o.op = op /\ o.id = i
  BY <1>4, BareIs
<1>6. o \in Alike
  BY <1>5 DEF Alike
<1> HIDE DEF o, u, w
<1>7. applyOp(u, known, o) = applyTaskOp(u, o)
  BY <1>6, AlikeOp
<1>8. applyTaskOp(u, o) = [u EXCEPT ![i].done = v]
  BY <1>2, <1>5 DEF applyTaskOp, v
<1> DEFINE x == [u[i] EXCEPT !.done = v]
<1>9. applyTaskOp(u, o) = put(u, i, x)
  BY <1>8 DEF put
<1>10. x = w[i] /\ x \in Task
  <2>1. u[i] = [list |-> u[i].list, parent |-> u[i].parent, done |-> u[i].done, ord |-> u[i].ord]
        /\ u[i].list = t[i].list /\ u[i].parent = t[i].parent /\ u[i].ord = t[i].ord
    BY <1>2
  <2>2. x = [list |-> u[i].list, parent |-> u[i].parent, done |-> v, ord |-> u[i].ord]
    BY <2>1, FieldsChange
  <2>3. x = w[i]
    BY <1>3, <2>1, <2>2
  <2>4. QED
    BY <1>3, <2>3, TreeIs
<1> HIDE DEF x
<1>11. /\ put(u, i, x) \in Tree /\ DOMAIN put(u, i, x) = DOMAIN t
       /\ \A j \in DOMAIN t : put(u, i, x)[j] = IF j = i THEN x ELSE u[j]
  BY <1>2, <1>10, Replaced
<1>12. \A j \in DOMAIN t : put(u, i, x)[j] = w[j]
  BY <1>2, <1>3, <1>10, <1>11
<1>13. put(u, i, x) = w
  BY <1>3, <1>11, <1>12, SameTree
<1>14. QED
  BY <1>7, <1>9, <1>13 DEF u, v, w, o

\* A batch that marks tasks, and marks nothing that was so already.
Flip(t, op) ==
    {o \in Sendable : /\ o = Bare(op, o.id) /\ o.id \in DOMAIN t
                      /\ t[o.id].done = (op = "reopen")}
ids(q) == {q[k].id : k \in 1..Len(q)}

\* A batch of « done », or of « reopen », marks the tasks it names.
LEMMA MarkBatch ==
  ASSUME NEW t \in Tree, NEW op \in {"done", "reopen"}, NEW known, NEW q \in Seq(Sendable),
         \A k \in 1..Len(q) : q[k] = Bare(op, q[k].id) /\ q[k].id \in DOMAIN t
  PROVE  applyBatch(t, known, q) = marked(t, ids(q), op = "done")
<1> DEFINE upto(k) == {q[j].id : j \in 1..k}
<1>0. Len(q) \in Nat
  OBVIOUS
<1>1. PICK h : BatchSteps(h, known, t, q) /\ applyBatch(t, known, q) = h[Len(q)]
  BY Batch
<1> DEFINE N == {k \in Nat : k <= Len(q) => h[k] = marked(t, upto(k), op = "done")}
<1>2. 0 \in N
  <2>1. upto(0) = {}
    OBVIOUS
  <2>2. marked(t, {}, op = "done") = t
    <3>1. t = [i \in DOMAIN t |-> t[i]]
      BY TreeIs
    <3>2. QED
      BY <3>1 DEF marked
  <2>3. h[0] = t
    BY <1>1 DEF BatchSteps
  <2> HIDE DEF upto
  <2>4. QED
    BY <2>1, <2>2, <2>3
<1>3. ASSUME NEW k \in Nat, k \in N PROVE k + 1 \in N
  <2> SUFFICES ASSUME k + 1 <= Len(q) PROVE h[k + 1] = marked(t, upto(k + 1), op = "done")
    OBVIOUS
  <2>1. k <= Len(q) /\ k \in 0..(Len(q) - 1) /\ k + 1 \in 1..Len(q)
    BY <1>0
  <2>2. h[k] = marked(t, upto(k), op = "done")
    BY <1>3, <2>1
  <2>3. q[k + 1] = Bare(op, q[k + 1].id) /\ q[k + 1].id \in DOMAIN t
    BY <2>1
  <2>4. upto(k + 1) = upto(k) \union {q[k + 1].id}
    <3>1. 1..(k + 1) = (1..k) \union {k + 1}
      OBVIOUS
    <3>2. QED
      BY <3>1
  <2> HIDE DEF upto
  <2>5. h[k + 1] = applyOp(h[k], known, q[k + 1])
    BY <1>1, <2>1 DEF BatchSteps
  <2> DEFINE i == q[k + 1].id
  <2>6. applyOp(marked(t, upto(k), op = "done"), known, Bare(op, i))
          = marked(t, upto(k) \union {i}, op = "done")
    BY <2>3, MarkOne
  <2>7. QED
    BY <2>2, <2>3, <2>4, <2>5, <2>6
<1> HIDE DEF N
<1>4. Len(q) \in N
  BY <1>0, <1>2, <1>3, Ups
<1>5. h[Len(q)] = marked(t, upto(Len(q)), op = "done")
  BY <1>0, <1>4 DEF N
<1>6. upto(Len(q)) = ids(q)
  BY DEF ids
<1> HIDE DEF upto
<1>7. QED
  BY <1>1, <1>5, <1>6

\* The inverse of such a batch marks the same tasks the other way.
LEMMA FlipBacks ==
  ASSUME NEW t \in Tree, NEW op \in {"done", "reopen"}, NEW q \in Seq(Flip(t, op)),
         NEW other \in {"done", "reopen"}, other # op
  PROVE  /\ q \in Seq(Sendable)
         /\ backs(q, t) \in Seq(Sendable) /\ Len(backs(q, t)) = Len(q)
         /\ \A k \in 1..Len(q) : backs(q, t)[k] = Bare(other, q[k].id)
<1>0. Len(q) \in Nat /\ \A k \in 1..Len(q) : q[k] \in Flip(t, op)
  OBVIOUS
<1>1. Flip(t, op) \subseteq About(t) /\ Flip(t, op) \subseteq Sendable
  BY DEF Flip, About
<1>2. q \in Seq(About(t)) /\ q \in Seq(Sendable)
  BY <1>1
<1>3. \A o \in Flip(t, op) : inverseOf(o, t) = <<Bare(other, o.id)>>
  <2>1. ASSUME NEW o \in Flip(t, op) PROVE inverseOf(o, t) = <<Bare(other, o.id)>>
    <3>1. o.op = op
      BY DEF Flip, Bare
    <3>2. t[o.id].done = (op = "reopen")
      BY DEF Flip
    <3>3. CASE op = "done"
      BY <3>1, <3>2, <3>3 DEF inverseOf
    <3>4. CASE op = "reopen"
      BY <3>1, <3>2, <3>4 DEF inverseOf
    <3>5. QED
      BY <3>3, <3>4
  <2>2. QED
    BY <2>1
<1>4. PICK h : UndoSteps(h, t, q) /\ backs(q, t) = h[Len(q)]
  BY <1>2, Undo
<1> DEFINE Good(k) == /\ h[k] \in Seq(Sendable) /\ Len(h[k]) = k
                      /\ \A j \in 1..k : h[k][j] = Bare(other, q[j].id)
           N == {k \in Nat : k <= Len(q) => Good(k)}
<1>5. 0 \in N
  <2>1. h[0] = <<>>
    BY <1>4 DEF UndoSteps
  <2>2. <<>> \in Seq(Sendable) /\ Len(<<>>) = 0 /\ 1..0 = {}
    OBVIOUS
  <2>3. Good(0)
    BY <2>1, <2>2
  <2> HIDE DEF Good
  <2>4. QED
    BY <2>3
<1>6. ASSUME NEW k \in Nat, k \in N PROVE k + 1 \in N
  <2> HIDE DEF Good
  <2> SUFFICES ASSUME k + 1 <= Len(q) PROVE Good(k + 1)
    OBVIOUS
  <2>1. k <= Len(q) /\ k \in 0..(Len(q) - 1) /\ k + 1 \in 1..Len(q) /\ k + 1 \in 0..Len(q)
    BY <1>0
  <2>2. Good(k)
    BY <1>6, <2>1
  <2> DEFINE o == Bare(other, q[k + 1].id)
             s == h[k]
             r == h[k + 1]
  <2>3. r = s \o inverseOf(q[k + 1], t) /\ r \in Seq(Sendable)
    BY <1>4, <2>1 DEF UndoSteps
  <2>4. inverseOf(q[k + 1], t) = <<o>>
    BY <1>0, <1>3, <2>1
  <2>5. s \in Seq(Sendable) /\ Len(s) = k /\ \A j \in 1..k : s[j] = Bare(other, q[j].id)
    BY <2>2 DEF Good
  <2> HIDE DEF o, s, r
  <2>6. r = s \o <<o>>
    BY <2>3, <2>4
  <2>7. Len(r) = k + 1 /\ r[k + 1] = o /\ \A j \in 1..k : r[j] = s[j]
    BY <2>5, <2>6
  <2>8. \A j \in 1..(k + 1) : r[j] = Bare(other, q[j].id)
    <3>1. \A j \in 1..(k + 1) : j \in 1..k \/ j = k + 1
      OBVIOUS
    <3>2. QED
      BY <2>5, <2>7, <3>1 DEF o
  <2>9. QED
    BY <2>3, <2>7, <2>8 DEF Good, r
<1> HIDE DEF N, Good
<1>7. Len(q) \in N
  BY <1>0, <1>5, <1>6, Ups
<1>8. Good(Len(q))
  BY <1>0, <1>7 DEF N
<1>9. QED
  BY <1>2, <1>4, <1>8 DEF Good

\* ... and gives back the tasks as they were.
LEMMA FlipBack ==
  ASSUME NEW t \in Tree, NEW op \in {"done", "reopen"}, NEW q \in Seq(Flip(t, op)), NEW known
  PROVE  applyBatch(applyBatch(t, known, q), known, backs(q, t)) = t
<1> DEFINE other == IF op = "done" THEN "reopen" ELSE "done"
           undo == backs(q, t)
           S == ids(q)
           v == (op = "done")
           v2 == (other = "done")
           u == marked(t, S, v)
           w == marked(u, S, v2)
<1>1. /\ other \in {"done", "reopen"} /\ other # op
      /\ v \in BOOLEAN /\ v2 \in BOOLEAN /\ (op = "reopen") = v2
  OBVIOUS
<1> HIDE DEF other, v, v2
<1>2. /\ q \in Seq(Sendable)
      /\ undo \in Seq(Sendable) /\ Len(undo) = Len(q)
      /\ \A k \in 1..Len(q) : undo[k] = Bare(other, q[k].id)
  BY <1>1, FlipBacks
<1>3. Len(q) \in Nat /\ \A k \in 1..Len(q) : q[k] \in Flip(t, op)
  OBVIOUS
<1>4. \A k \in 1..Len(q) : /\ q[k] = Bare(op, q[k].id) /\ q[k].id \in DOMAIN t
                           /\ t[q[k].id].done = v2
  BY <1>1, <1>3 DEF Flip
<1>5. applyBatch(t, known, q) = u
  BY <1>2, <1>4, MarkBatch DEF v
<1> HIDE DEF undo, u, w, S
<1>6. /\ u \in Tree /\ DOMAIN u = DOMAIN t
      /\ \A i \in DOMAIN t :
           u[i] = [list |-> t[i].list, parent |-> t[i].parent,
                   done |-> IF i \in S THEN v ELSE t[i].done, ord |-> t[i].ord]
  BY <1>1, MarkedIs DEF u
<1>7. /\ w \in Tree /\ DOMAIN w = DOMAIN u
      /\ \A i \in DOMAIN u :
           w[i] = [list |-> u[i].list, parent |-> u[i].parent,
                   done |-> IF i \in S THEN v2 ELSE u[i].done, ord |-> u[i].ord]
  BY <1>1, <1>6, MarkedIs DEF w
<1>8. \A k \in 1..Len(undo) : /\ undo[k] = Bare(other, undo[k].id)
                              /\ undo[k].id = q[k].id /\ undo[k].id \in DOMAIN u
  <2>1. \A k \in 1..Len(q) : undo[k].id = q[k].id
    <3>1. \A i : Bare(other, i).id = i
      BY DEF Bare
    <3>2. QED
      BY <1>2, <3>1
  <2>2. QED
    BY <1>2, <1>4, <1>6, <2>1
<1>9. ids(undo) = S
  BY <1>2, <1>8 DEF ids, S
<1>10. applyBatch(u, known, undo) = w
  <2>1. applyBatch(u, known, undo) = marked(u, ids(undo), v2)
    BY <1>1, <1>2, <1>6, <1>8, MarkBatch DEF v2
  <2>2. QED
    BY <1>9, <2>1 DEF w
<1>11. \A i \in S : i \in DOMAIN t /\ t[i].done = v2
  BY <1>4 DEF S, ids
<1>12. \A i \in DOMAIN t : /\ w[i].list = t[i].list /\ w[i].parent = t[i].parent
                           /\ w[i].done = t[i].done /\ w[i].ord = t[i].ord
  <2>1. ASSUME NEW i \in DOMAIN t
        PROVE  /\ w[i].list = t[i].list /\ w[i].parent = t[i].parent
               /\ w[i].done = t[i].done /\ w[i].ord = t[i].ord
    <3>1. CASE i \in S
      BY <1>6, <1>7, <1>11, <3>1
    <3>2. CASE i \notin S
      BY <1>6, <1>7, <3>2
    <3>3. QED
      BY <3>1, <3>2
  <2>2. QED
    BY <2>1
<1>13. w = t
  BY <1>6, <1>7, <1>12, SameTree
<1>14. QED
  BY <1>5, <1>10, <1>13 DEF undo

\* A batch of one operation is undone by the inverse of it.
LEMMA BackOfOne ==
  ASSUME NEW t \in Tree, NEW o \in About(t)
  PROVE  backs(<<o>>, t) = inverseOf(o, t)
<1> DEFINE q == <<o>>
<1>1. q \in Seq(About(t)) /\ Len(q) = 1 /\ q[0 + 1] = o /\ 0 \in 0..(Len(q) - 1) /\ 0 + 1 = 1
  OBVIOUS
<1> HIDE DEF q
<1>2. PICK h : UndoSteps(h, t, q) /\ backs(q, t) = h[Len(q)]
  BY <1>1, Undo
<1>3. h[0] = <<>> /\ h[0 + 1] = h[0] \o inverseOf(q[0 + 1], t)
  BY <1>1, <1>2 DEF UndoSteps
<1>4. inverseOf(o, t) \in Seq(Sendable)
  BY InverseIs
<1>5. backs(q, t) = <<>> \o inverseOf(o, t)
  BY <1>1, <1>2, <1>3
<1>6. <<>> \o inverseOf(o, t) = inverseOf(o, t)
  BY <1>4
<1>7. QED
  BY <1>5, <1>6 DEF q

\* A move is undone by giving the task its key again.
LEMMA MoveBack ==
  ASSUME NEW t \in Tree, NEW known, NEW i \in DOMAIN t, NEW ref \in Id,
         NEW side \in {"avant", "apres"}
  PROVE  applyBatch(applyBatch(t, known, moved(i, ref, side)), known,
                    backs(moved(i, ref, side), t)) = t
<1> DEFINE o == [Bare("move", i) EXCEPT !.ref = ref, !.side = side]
           e == [Bare("edit", i) EXCEPT !.ord = t[i].ord]
           u == applyOp(t, known, o)
<1>0. i \in Id /\ t[i] \in Task /\ t[i].ord \in Int
  BY TreeIs, TaskIs
<1>1. o \in Sendable /\ o.op = "move" /\ o.id = i /\ moved(i, ref, side) = <<o>>
  <2>1. o \in Sendable
    BY <1>0, EditIs
  <2>2. QED
    BY <2>1 DEF Bare, moved
<1>2. e \in Sendable /\ e.op = "edit" /\ e.id = i /\ e.list = None /\ e.ord = t[i].ord
  <2>1. e \in Sendable
    BY <1>0, EditIs
  <2>2. QED
    BY <2>1 DEF Bare
<1>3. inverseOf(o, t) = <<e>>
  BY <1>1 DEF inverseOf
<1> HIDE DEF o, e
<1>4. o \in About(t)
  BY <1>1 DEF About
<1>5. backs(<<o>>, t) = <<e>>
  BY <1>3, <1>4, BackOfOne
<1>6. /\ u \in Tree /\ DOMAIN u = DOMAIN t
      /\ \A j \in DOMAIN t : j # i => u[j] = t[j]
      /\ u[i].list = t[i].list /\ u[i].parent = t[i].parent /\ u[i].done = t[i].done
  <2>1. u \in Tree
    BY <1>1, OpTree
  <2>2. u = applyTaskOp(t, o)
    BY <1>1, AlikeOp DEF Alike
  <2> DEFINE k == keyForMove(t, i, o.ref, o.side)
             x == [t[i] EXCEPT !.ord = k]
  <2>3. u = t \/ u = put(t, i, x)
    BY <1>1, <2>2 DEF applyTaskOp, put
  <2>4. x.list = t[i].list /\ x.parent = t[i].parent /\ x.done = t[i].done
    <3> HIDE DEF k
    <3>1. t[i] = [list |-> t[i].list, parent |-> t[i].parent, done |-> t[i].done,
                  ord |-> t[i].ord]
      BY <1>0, TaskIs
    <3>2. QED
      BY <3>1
  <2> HIDE DEF x, u
  <2>5. /\ DOMAIN put(t, i, x) = DOMAIN t
        /\ \A j \in DOMAIN t : put(t, i, x)[j] = IF j = i THEN x ELSE t[j]
    BY TreeIs DEF put
  <2>6. QED
    BY <2>1, <2>3, <2>4, <2>5
<1>7. applyOp(u, known, e) = t
  <2> HIDE DEF u
  <2>1. accepts(u, known, e)
    BY <1>2 DEF accepts
  <2>2. applyOp(u, known, e) = applyTaskOp(u, e)
    BY <1>2, <2>1 DEF applyOp
  <2>3. applyTaskOp(u, e) = [u EXCEPT ![i].list = IF e.list = None THEN @ ELSE e.list,
                                      ![i].ord = IF e.ord = None THEN @ ELSE e.ord]
    BY <1>2, <1>6 DEF applyTaskOp
  <2>4. u[i] \in Task /\ e.ord # None
    BY <1>0, <1>2, <1>6, TreeIs, NoneIsNot
  <2> DEFINE y == [u[i] EXCEPT !.ord = t[i].ord]
  <2>5. applyTaskOp(u, e) = put(u, i, y)
    <3>1. u = [j \in DOMAIN u |-> u[j]]
      BY <1>6, TreeIs
    <3>2. u[i] = [list |-> u[i].list, parent |-> u[i].parent, done |-> u[i].done,
                  ord |-> u[i].ord]
      BY <2>4, TaskIs
    <3>3. QED
      BY <1>2, <1>6, <2>3, <2>4, <3>1, <3>2 DEF put
  <2>6. y \in Task /\ y = [list |-> u[i].list, parent |-> u[i].parent, done |-> u[i].done,
                           ord |-> t[i].ord]
    BY <1>0, <2>4 DEF Task
  <2> HIDE DEF y
  <2>7. /\ put(u, i, y) \in Tree /\ DOMAIN put(u, i, y) = DOMAIN t
        /\ \A j \in DOMAIN t : put(u, i, y)[j] = IF j = i THEN y ELSE u[j]
    BY <1>6, <2>6, Replaced
  <2>8. \A j \in DOMAIN t :
           LET w == put(u, i, y)
           IN  /\ w[j].list = t[j].list /\ w[j].parent = t[j].parent
               /\ w[j].done = t[j].done /\ w[j].ord = t[j].ord
    BY <1>6, <2>6, <2>7
  <2>9. put(u, i, y) = t
    BY <2>7, <2>8, SameTree
  <2>10. QED
    BY <2>2, <2>5, <2>9
<1>8. applyBatch(t, known, <<o>>) = u
  BY <1>1, FewBatch
<1> HIDE DEF u
<1>9. applyBatch(u, known, <<e>>) = t
  BY <1>2, <1>6, <1>7, FewBatch
<1>10. QED
  BY <1>1, <1>5, <1>8, <1>9

\* A task without subtasks comes back where it was, if its parent is in its list.
LEMMA RemovalBack ==
  ASSUME NEW t \in Tree, NEW known, Sound(t, known), known \subseteq List, Together(t),
         NEW i \in DOMAIN t, subtasks(t, i) = {}
  PROVE  applyBatch(applyBatch(t, known, <<Bare("remove", i)>>), known,
                    backs(<<Bare("remove", i)>>, t)) = t
<1> DEFINE o == Bare("remove", i)
           a == [Bare("add", i) EXCEPT !.list = t[i].list, !.parent = t[i].parent,
                                       !.done = t[i].done, !.ord = t[i].ord]
           u == without(t, {i})
<1>0. /\ i \in Id /\ i # None
      /\ t[i].list \in known /\ t[i].list \in List /\ t[i].parent \in Id \union {None}
      /\ t[i].done \in BOOLEAN /\ t[i].ord \in Int /\ t[i].ord # None
      /\ t[i] = [list |-> t[i].list, parent |-> t[i].parent, done |-> t[i].done,
                 ord |-> t[i].ord]
  <2>1. i \in Id /\ t[i] \in Task
    BY TreeIs
  <2>2. t[i].list \in known
    BY DEF Sound
  <2>3. QED
    BY <2>1, <2>2, TaskIs, NoneIsNot
<1>1. o \in Sendable /\ o.op = "remove" /\ o.id = i
  BY <1>0, BareIs
<1>2. /\ a \in Sendable /\ a.op = "add" /\ a.id = i /\ a.list = t[i].list
      /\ a.parent = t[i].parent /\ a.done = t[i].done /\ a.ord = t[i].ord
  <2>1. a \in Sendable
    BY <1>0, AddIs
  <2>2. QED
    BY <2>1 DEF Bare
<1>3. inverseOf(o, t) = <<a>>
  BY <1>1 DEF inverseOf
<1> HIDE DEF o, a
<1>4. backs(<<o>>, t) = <<a>>
  <2>1. o \in About(t)
    BY <1>1 DEF About
  <2>2. QED
    BY <1>3, <2>1, BackOfOne
<1>5. /\ u \in Tree /\ DOMAIN u = DOMAIN t \ {i} /\ \A j \in DOMAIN t \ {i} : u[j] = t[j]
  BY WithoutTree DEF without
<1>6. applyOp(t, known, o) = u
  <2>1. without(t, {}) = t
    <3>1. t = [j \in DOMAIN t |-> t[j]] /\ DOMAIN t \ {} = DOMAIN t
      BY TreeIs
    <3>2. QED
      BY <3>1 DEF without
  <2>2. {j \in DOMAIN t : t[j].parent = o.id} \subseteq {} /\ o.id \notin {}
    BY <1>1 DEF subtasks
  <2>3. applyOp(without(t, {}), known, o) = without(t, {} \union {o.id})
    BY <1>1, <2>2, TakenAway
  <2>4. {} \union {o.id} = {i}
    BY <1>1
  <2>5. QED
    BY <2>1, <2>3, <2>4
<1> HIDE DEF u
<1>7. applyOp(u, known, a) = t
  <2>1. readParent(u, i, t[i].parent, t[i].list)
    <3>1. subtasks(u, i) = {}
      BY <1>5 DEF subtasks
    <3>2. ASSUME t[i].parent # None
          PROVE  /\ t[i].parent # i /\ t[i].parent \in DOMAIN u
                 /\ u[t[i].parent].parent = None /\ u[t[i].parent].list = t[i].list
      <4>1. t[i].parent \in DOMAIN t /\ t[t[i].parent].parent = None
        BY <3>2 DEF Sound
      <4>2. t[i].parent # i
        BY <3>2, <4>1
      <4>3. t[t[i].parent].list = t[i].list
        BY <3>2 DEF Together
      <4>4. QED
        BY <1>5, <4>1, <4>2, <4>3
    <3>3. QED
      BY <3>1, <3>2 DEF readParent
  <2>2. accepts(u, known, a)
    BY <1>0, <1>2, <2>1 DEF accepts
  <2>3. i \notin DOMAIN u
    BY <1>5
  <2>4. applyOp(u, known, a) = added(u, a)
    BY <1>2, <2>2, <2>3 DEF applyOp, applyTaskOp
  <2>5. added(u, a) = [j \in DOMAIN u \union {i} |-> IF j = i THEN t[i] ELSE u[j]]
    BY <1>0, <1>2 DEF added
  <2>6. DOMAIN u \union {i} = DOMAIN t
    BY <1>5
  <2>7. \A j \in DOMAIN t : (IF j = i THEN t[i] ELSE u[j]) = t[j]
    BY <1>5
  <2>8. t = [j \in DOMAIN t |-> t[j]]
    BY TreeIs
  <2>9. QED
    BY <2>4, <2>5, <2>6, <2>7, <2>8
<1>8. applyBatch(t, known, <<o>>) = u
  BY <1>1, <1>6, FewBatch
<1>9. applyBatch(u, known, <<a>>) = t
  BY <1>2, <1>5, <1>7, FewBatch
<1>10. QED
  BY <1>4, <1>8, <1>9 DEF o

\* The batch of one removal alone is that of a task without subtasks.
LEMMA SingleRemoval ==
  ASSUME NEW t \in Tree, NEW i \in DOMAIN t, Single(removed(t, i))
  PROVE  subtasks(t, i) = {} /\ removed(t, i) = <<Bare("remove", i)>>
<1> DEFINE S == subtasks(t, i)
           e == each("remove", S)
           o == Bare("remove", i)
           q == removed(t, i)
<1>0. S \subseteq DOMAIN t
  BY DEF subtasks
<1>1. IsFiniteSet(S) /\ S \subseteq Id
  BY <1>0, EachAbout
<1>2. /\ e \in Seq(Sendable) /\ Len(e) = Cardinality(S) /\ Cardinality(S) \in Nat
      /\ \A x \in S : \E k \in 1..Cardinality(S) : SetToSeq(S)[k] = x
  <2> HIDE DEF S
  <2>1. QED
    BY <1>1, EachIs
<1>3. o.op = "remove"
  BY DEF Bare
<1>4. q = e \o <<o>>
  BY DEF removed
<1> HIDE DEF S, e, o, q
<1>5. Len(q) = Len(e) + 1 /\ q[Len(e) + 1] = o /\ Len(e) + 1 \in DOMAIN q
  BY <1>2, <1>4
<1>6. Len(q) = 1
  BY <1>3, <1>5 DEF Single, q
<1>7. Len(e) = 0
  <2>1. Len(e) \in Nat /\ Len(e) + 1 = 1
    BY <1>2, <1>5, <1>6
  <2>2. QED
    BY <2>1
<1>8. e = <<>> /\ S = {}
  BY <1>2, <1>7
<1>9. q = <<o>>
  BY <1>4, <1>8
<1>10. QED
  BY <1>8, <1>9 DEF S, q, o

\* A tap and the unticking of a list mark what was not so.
LEMMA TapsFlip ==
  ASSUME NEW t \in Tree
  PROVE  /\ \A i \in DOMAIN t : \E op \in {"done", "reopen"} : toggled(t, i) \in Seq(Flip(t, op))
         /\ \A l : unchecked(t, l) \in Seq(Flip(t, "reopen"))
<1>0. DOMAIN t \subseteq Id /\ \A i \in DOMAIN t : t[i].done \in BOOLEAN
  BY TreeIs, TaskIs
<1>1. ASSUME NEW op \in {"done", "reopen"}, NEW i \in DOMAIN t, t[i].done = (op = "reopen")
      PROVE  Bare(op, i) \in Flip(t, op)
  <2>1. Bare(op, i) \in Sendable /\ Bare(op, i).id = i
    BY <1>0, BareIs
  <2>2. QED
    BY <1>1, <2>1 DEF Flip
<1>2. ASSUME NEW op \in {"done", "reopen"}, NEW S, S \subseteq DOMAIN t,
             \A i \in S : t[i].done = (op = "reopen")
      PROVE  each(op, S) \in Seq(Flip(t, op))
  <2>1. IsFiniteSet(S) /\ S \subseteq Id
    BY <1>2, EachAbout
  <2>2. /\ each(op, S) \in Seq(Sendable) /\ Len(each(op, S)) = Cardinality(S)
        /\ Cardinality(S) \in Nat
        /\ \A k \in 1..Cardinality(S) : /\ each(op, S)[k] = Bare(op, SetToSeq(S)[k])
                                        /\ SetToSeq(S)[k] \in S
    BY <2>1, EachIs
  <2>3. \A i \in S : Bare(op, i) \in Flip(t, op)
    BY <1>1, <1>2
  <2>4. \A k \in 1..Len(each(op, S)) : each(op, S)[k] \in Flip(t, op)
    BY <2>2, <2>3
  <2>5. QED
    BY <2>2, <2>4
<1>3. ASSUME NEW i \in DOMAIN t
      PROVE  \E op \in {"done", "reopen"} : toggled(t, i) \in Seq(Flip(t, op))
  <2>1. CASE t[i].done
    <3>0. t[i].done = TRUE
      BY <1>0, <2>1
    <3>1. Bare("reopen", i) \in Flip(t, "reopen")
      BY <1>1, <3>0
    <3>2. <<Bare("reopen", i)>> \in Seq(Flip(t, "reopen"))
      BY <3>1
    <3>3. QED
      BY <2>1, <3>2 DEF toggled
  <2>2. CASE ~t[i].done
    <3> DEFINE S == {s \in subtasks(t, i) : ~t[s].done}
    <3>1. t[i].done = FALSE /\ S \subseteq DOMAIN t /\ \A s \in S : t[s].done = FALSE
      BY <1>0, <2>2 DEF subtasks
    <3>2. Bare("done", i) \in Flip(t, "done")
      BY <1>1, <3>1
    <3>3. each("done", S) \in Seq(Flip(t, "done"))
      <4> HIDE DEF S
      <4>1. QED
        BY <1>2, <3>1
    <3>4. <<Bare("done", i)>> \in Seq(Flip(t, "done"))
      BY <3>2
    <3>5. toggled(t, i) = <<Bare("done", i)>> \o each("done", S)
      BY <2>2 DEF toggled
    <3>6. QED
      BY <3>3, <3>4, <3>5
  <2>3. QED
    BY <2>1, <2>2
<1>4. ASSUME NEW l PROVE unchecked(t, l) \in Seq(Flip(t, "reopen"))
  <2> DEFINE S == {i \in DOMAIN t : t[i].list = l /\ t[i].done}
  <2>1. S \subseteq DOMAIN t /\ \A i \in S : t[i].done = TRUE
    BY <1>0
  <2>2. each("reopen", S) \in Seq(Flip(t, "reopen"))
    <3> HIDE DEF S
    <3>1. QED
      BY <1>2, <2>1
  <2>3. QED
    BY <2>2 DEF unchecked
<1>5. QED
  BY <1>3, <1>4

\* An addition has no « Annuler ».
LEMMA NewNotUndone ==
  ASSUME NEW t \in Tree, NEW i \in Id, NEW l \in List, NEW p \in Id \union {None}
  PROVE  backs(newTask(i, l, p), t) = <<>>
<1> DEFINE o == [Bare("add", i) EXCEPT !.list = l, !.parent = p]
<1>1. o \in Sendable /\ o.op = "add"
  <2>1. o \in Sendable
    BY AddIs
  <2>2. QED
    BY <2>1 DEF Bare
<1>2. newTask(i, l, p) = <<o>>
  BY DEF newTask
<1> HIDE DEF o
<1>3. o \in About(t) /\ inverseOf(o, t) = <<>>
  BY <1>1 DEF About, inverseOf
<1>4. QED
  BY <1>2, <1>3, BackOfOne

\* « Annuler », pressed at once, gives back the tasks of the server exactly as
\* they were before a tap, a move, an unticking or the removal of a task without
\* subtasks, as long as subtasks are in the list of their parent.
THEOREM AnnulerGivesBack == Spec => []UndoGivesBack
<1>1. TreeTypes /\ TreeIInv => UndoGivesBack
  <2> SUFFICES ASSUME TreeTypes, TreeIInv, NEW ops \in Gestures(server, lists),
                      backs(ops, server) # <<>>, Single(ops), Together(server)
               PROVE  applyBatch(applyBatch(server, lists, ops), lists, backs(ops, server))
                        = server
    BY DEF UndoGivesBack
  <2>0. server \in Tree /\ Sound(server, lists) /\ lists \subseteq List
        /\ DOMAIN server \subseteq Id
    BY TreeIs DEF TreeTypes, TreeIInv, TreeInv
  <2> DEFINE Back == applyBatch(applyBatch(server, lists, ops), lists, backs(ops, server))
                       = server
  <2>1. ASSUME NEW i \in DOMAIN server, ops = toggled(server, i) PROVE Back
    BY <2>0, <2>1, TapsFlip, FlipBack
  <2>2. ASSUME NEW i \in DOMAIN server, ops = removed(server, i) PROVE Back
    <3>1. subtasks(server, i) = {} /\ ops = <<Bare("remove", i)>>
      BY <2>0, <2>2, SingleRemoval
    <3>2. QED
      BY <2>0, <3>1, RemovalBack
  <2>3. ASSUME NEW l \in lists, ops = unchecked(server, l) PROVE Back
    BY <2>0, <2>3, TapsFlip, FlipBack
  <2>4. ASSUME NEW i \in Id, NEW l \in lists, ops = newTask(i, l, None) PROVE Back
    BY <2>0, <2>4, NewNotUndone
  <2>5. ASSUME NEW i \in Id, NEW p \in DOMAIN server, ops = newTask(i, server[p].list, p)
        PROVE  Back
    <3>1. server[p].list \in List /\ p \in Id
      BY <2>0 DEF Sound
    <3>2. QED
      BY <2>0, <2>5, <3>1, NewNotUndone
  <2>6. ASSUME NEW i \in DOMAIN server, NEW ref \in DOMAIN server,
               NEW side \in {"avant", "apres"}, ops = moved(i, ref, side)
        PROVE  Back
    BY <2>0, <2>6, MoveBack
  <2>7. \/ \E i \in DOMAIN server : ops = toggled(server, i)
        \/ \E i \in DOMAIN server : ops = removed(server, i)
        \/ \E l \in lists : ops = unchecked(server, l)
        \/ \E i \in Id, l \in lists : ops = newTask(i, l, None)
        \/ \E i \in Id, p \in DOMAIN server : ops = newTask(i, server[p].list, p)
        \/ \E i \in DOMAIN server, ref \in DOMAIN server, side \in {"avant", "apres"} :
              ops = moved(i, ref, side)
    BY DEF Gestures
  <2>8. QED
    BY <2>1, <2>2, <2>3, <2>4, <2>5, <2>6, <2>7
<1>2. QED
  BY <1>1, InitTypes, NextTypes, InitTree, NextTree, PTL DEF Spec

-----------------------------------------------------------------------------
(***************************************************************************)
(* Where a task moved goes.                                                *)
(***************************************************************************)

\* The new key of a task moved is above those of the tasks it goes after, below
\* those of the tasks it goes before, when a key is left there.
LEMMA KeyLands ==
  ASSUME NEW t \in Tree, NEW i \in DOMAIN t, NEW ref \in DOMAIN t, ref # i, NEW side,
         hasRoom(t, i, ref, side), NEW k \in Int, k = keyForMove(t, i, ref, side),
         k # t[i].ord
  PROVE  \A j \in DOMAIN t \ {i} :
           IF j \in slot(t, i, ref, side) THEN t[j].ord < k ELSE k < t[j].ord
<1> DEFINE before == slot(t, i, ref, side)
           after == (DOMAIN t \ {i}) \ before
           a == lastKey(t, before)
           b == firstKey(t, after)
<1>1. before \subseteq DOMAIN t /\ after \subseteq DOMAIN t
  BY DEF slot
<1>2. k # None
  BY NoneIsNot
<1>3. coherent(a, b) /\ k = between(a, b)
  BY <1>2 DEF keyForMove
<1>4. k \notin {a, b}
  BY <1>3 DEF hasRoom
<1> HIDE DEF before, after
<1>5. /\ before = {} => a = None
      /\ before # {} => a \in Int /\ \A j \in before : t[j].ord <= a
  BY <1>1, LastKey
<1>6. /\ after = {} => b = None
      /\ after # {} => b \in Int /\ \A j \in after : b <= t[j].ord
  BY <1>1, FirstKey
<1> HIDE DEF a, b
<1>7. \A j \in DOMAIN t : t[j].ord \in Int
  BY TreeIs, TaskIs
<1>8. before # {} => a < k
  <2> SUFFICES ASSUME before # {} PROVE a < k
    OBVIOUS
  <2>1. a \in Int /\ a # None
    BY <1>5, NoneIsNot
  <2>2. CASE b = None
    BY <1>3, <2>1, <2>2 DEF between, Gap
  <2>3. CASE b # None
    <3>1. b \in Int /\ a < b /\ k = (a + b) \div 2
      BY <1>3, <1>6, <2>1, <2>3 DEF between, coherent
    <3>2. QED
      BY <1>4, <2>1, <3>1
  <2>4. QED
    BY <2>2, <2>3
<1>9. after # {} => k < b
  <2> SUFFICES ASSUME after # {} PROVE k < b
    OBVIOUS
  <2>1. b \in Int /\ b # None
    BY <1>6, NoneIsNot
  <2>2. CASE a = None
    BY <1>3, <2>1, <2>2 DEF between, Gap
  <2>3. CASE a # None
    <3>1. a \in Int /\ a < b /\ k = (a + b) \div 2
      BY <1>3, <1>5, <2>1, <2>3 DEF between, coherent
    <3>2. QED
      BY <1>4, <2>1, <3>1
  <2>4. QED
    BY <2>2, <2>3
<1>10. ASSUME NEW j \in DOMAIN t \ {i}
       PROVE  IF j \in before THEN t[j].ord < k ELSE k < t[j].ord
  <2>1. CASE j \in before
    BY <1>5, <1>7, <1>8, <2>1
  <2>2. CASE j \notin before
    <3>1. j \in after
      BY <2>2 DEF after
    <3>2. QED
      BY <1>6, <1>7, <1>9, <2>2, <3>1
  <2>3. QED
    BY <2>1, <2>2
<1>11. QED
  BY <1>10 DEF before

\* A task whose key is above those of the tasks before the place asked, below
\* the others, is next to the one named, and the others keep their order.
LEMMA NextTo ==
  ASSUME NEW t \in Tree, NEW u, NEW op, op.side \in {"avant", "apres"},
         op.id \in DOMAIN t, op.ref \in DOMAIN t, op.ref # op.id,
         DOMAIN u = DOMAIN t, u[op.id].ord \in Int,
         \A j \in DOMAIN t \ {op.id} : u[j].ord = t[j].ord,
         \A j \in DOMAIN t \ {op.id} :
           IF j \in slot(t, op.id, op.ref, op.side)
           THEN t[j].ord < u[op.id].ord ELSE u[op.id].ord < t[j].ord
  PROVE  landed(t, u, op)
<1> DEFINE i == op.id
           ref == op.ref
           k == u[i].ord
           before == slot(t, i, ref, op.side)
<1>1. DOMAIN t \subseteq Nat /\ \A j \in DOMAIN t : t[j].ord \in Int
  <2>1. DOMAIN t \subseteq Id /\ t \in [DOMAIN t -> Task]
    BY TreeIs
  <2>2. \A j \in DOMAIN t : t[j].ord \in Int
    BY <2>1 DEF Task
  <2>3. QED
    BY <2>1, <2>2, TaskTreeAssumption
<1>2. \A j \in DOMAIN t \ {i} :
        j \in before <=> byOrd(t, j, ref) \/ (op.side = "apres" /\ j = ref)
  BY DEF slot
<1>3. \A j, l \in DOMAIN t \ {i} : byOrd(u, j, l) <=> byOrd(t, j, l)
  BY DEF byOrd
<1>4. \A j \in DOMAIN t \ {i} : byOrd(u, j, i) <=> j \in before
  BY <1>1 DEF byOrd
<1>5. \A j \in DOMAIN t \ {i} : byOrd(u, i, j) <=> j \notin before
  BY <1>1 DEF byOrd
<1>6. ~byOrd(u, i, i) /\ \A j, l \in DOMAIN t : ~(byOrd(t, j, l) /\ byOrd(t, l, j))
  BY <1>1 DEF byOrd
<1> HIDE DEF before, k
<1>7. CASE op.side = "avant"
  <2>1. ref \notin before
    BY <1>2, <1>6, <1>7
  <2>2. byOrd(u, i, ref)
    BY <1>5, <2>1
  <2>3. ASSUME NEW j \in DOMAIN t, byOrd(u, i, j), byOrd(u, j, ref) PROVE FALSE
    <3>1. j # i /\ j \notin before
      BY <1>5, <1>6, <2>3
    <3>2. byOrd(t, j, ref)
      BY <1>3, <2>3, <3>1
    <3>3. QED
      BY <1>2, <3>1, <3>2
  <2>4. QED
    BY <1>3, <1>7, <2>2, <2>3 DEF landed
<1>8. CASE op.side = "apres"
  <2>1. ref \in before
    BY <1>2, <1>8
  <2>2. byOrd(u, ref, i)
    BY <1>4, <2>1
  <2>3. ASSUME NEW j \in DOMAIN t, byOrd(u, ref, j), byOrd(u, j, i) PROVE FALSE
    <3>1. j # i /\ j \in before
      BY <1>4, <1>6, <2>3
    <3>2. byOrd(t, ref, j)
      BY <1>3, <2>3, <3>1
    <3>3. QED
      BY <1>2, <1>6, <3>1, <3>2
  <2>4. QED
    BY <1>3, <1>8, <2>2, <2>3 DEF landed
<1>9. QED
  BY <1>7, <1>8

\* The server moves a task next to the one named, or leaves everything.
LEMMA ServedMove ==
  ASSUME NEW t \in Tree, NEW known, NEW op \in Sendable, op.op = "move",
         {op.id, op.ref} \subseteq DOMAIN t => hasRoom(t, op.id, op.ref, op.side),
         applyOp(t, known, op) # t
  PROVE  landed(t, applyOp(t, known, op), op)
<1> DEFINE i == op.id
           k == keyForMove(t, i, op.ref, op.side)
           x == [t[i] EXCEPT !.ord = k]
           u == applyOp(t, known, op)
<1>1. u = applyTaskOp(t, op)
  BY AlikeOp DEF Alike
<1>2. i \in DOMAIN t /\ k # None /\ u = put(t, i, x)
  BY <1>1 DEF applyTaskOp, put
<1>3. k \in Int
  BY <1>2, MoveKeyIs
<1>4. t[i] \in Task
  BY <1>2, TreeIs
<1>5. x \in Task /\ x.ord = k
  <2> HIDE DEF k
  <2>1. QED
    BY <1>3, <1>4, TaskIs DEF Task
<1>6. k # t[i].ord
  <2>1. SUFFICES ASSUME k = t[i].ord PROVE FALSE
    OBVIOUS
  <2> HIDE DEF k
  <2>2. x = t[i]
    BY <1>4, <2>1, TaskIs
  <2>3. put(t, i, t[i]) = t
    BY <1>2, TreeIs DEF put
  <2>4. QED
    BY <1>2, <2>2, <2>3
<1>7. op.ref \in DOMAIN t /\ op.ref # i
  BY <1>2, <1>6 DEF keyForMove
<1> HIDE DEF x, u
<1>8. /\ DOMAIN u = DOMAIN t
      /\ \A j \in DOMAIN t : u[j] = IF j = i THEN x ELSE t[j]
  BY <1>2, <1>5, Replaced
<1>9. \A j \in DOMAIN t \ {i} :
        IF j \in slot(t, i, op.ref, op.side) THEN t[j].ord < k ELSE k < t[j].ord
  <2> HIDE DEF k
  <2>1. k = keyForMove(t, i, op.ref, op.side)
    BY DEF k
  <2>2. QED
    BY <1>2, <1>3, <1>6, <1>7, <2>1, KeyLands
<1>10. op.side \in {"avant", "apres"}
  BY DEF Sendable, Operation
<1> HIDE DEF k
<1>11. landed(t, u, op)
  BY <1>2, <1>3, <1>5, <1>7, <1>8, <1>9, <1>10, NextTo
<1>12. QED
  BY <1>11 DEF u

\* Nothing is left of a batch once it is answered.
Answered == serving.dev = None => serving.left = 0

\* So the server changes by an operation of a batch, or by a list removed
\* between two batches.
LEMMA NextAnswered == Answered /\ [Next]_vars => Answered'
<1> SUFFICES ASSUME Answered, [Next]_vars PROVE Answered'
  OBVIOUS
<1>0. serving' = serving => Answered'
  BY DEF Answered
<1>1. CASE ServeOne
  <2>1. serving.dev # None /\ serving' = [serving EXCEPT !.left = @ - 1]
    BY <1>1 DEF ServeOne
  <2>2. QED
    BY <2>1 DEF Answered
<1>2. ASSUME NEW l \in List, preserveTasks(l) PROVE Answered'
  BY <1>0, <1>2 DEF preserveTasks
<1>3. ASSUME NEW d \in Device, undoLast(d) \/ flushTaskQueue(d) \/ adoptTasks(d)
      PROVE  Answered'
  <2>1. CASE flushTaskQueue(d)
    BY <2>1, NoneIsNot DEF flushTaskQueue, Answered
  <2>2. CASE adoptTasks(d)
    BY <2>2 DEF adoptTasks, Answered
  <2>3. CASE undoLast(d)
    BY <1>0, <2>3 DEF undoLast, send
  <2>4. QED
    BY <1>3, <2>1, <2>2, <2>3
<1>4. ASSUME NEW d \in Device, NEW l \in List,
             createTask(d, l) \/ uncheckAll(d, l) \/ resetList(d, l)
      PROVE  Answered'
  BY <1>0, <1>4 DEF createTask, uncheckAll, resetList, taskOpsWithUndo, pushTaskOps, send
<1>5. ASSUME NEW d \in Device, NEW j \in Id,
             addSubtask(d, j) \/ toggleTask(d, j) \/ removeTask(d, j)
      PROVE  Answered'
  BY <1>0, <1>5 DEF addSubtask, toggleTask, removeTask, taskOpsWithUndo, pushTaskOps, send
<1>6. ASSUME NEW d \in Device, NEW j \in Id, NEW l \in List, updateTask(d, j, l)
      PROVE  Answered'
  BY <1>0, <1>6 DEF updateTask, pushTaskOps, send
<1>7. ASSUME NEW d \in Device, NEW j \in Id, NEW ref \in Id,
             NEW side \in {"avant", "apres"}, reorderTasks(d, j, ref, side)
      PROVE  Answered'
  BY <1>0, <1>7 DEF reorderTasks, taskOpsWithUndo, pushTaskOps, send
<1>8. CASE UNCHANGED vars
  BY <1>0, <1>8 DEF vars
<1>9. QED
  BY <1>1, <1>2, <1>3, <1>4, <1>5, <1>6, <1>7, <1>8 DEF Next

\* A task moved is next to the one it was dropped by, on the side asked,
\* whatever was moved, ticked or removed meanwhile, and the others keep their
\* order: for every number of devices, tasks and gestures.
THEOREM MovesLand == Spec => MoveLands
<1> DEFINE op == Head(queue[serving.dev])
           Lands == serving.left > 0 /\ op.op = "move" /\ server' # server
                      => landed(server, server', op)
<1>1. Init => Answered
  BY DEF Init, Answered
<1>2. TreeTypes /\ Answered /\ [Next]_vars => [Lands]_server
  <2> SUFFICES ASSUME TreeTypes, Answered, [Next]_vars, server' # server,
                      serving.left > 0, op.op = "move"
               PROVE  landed(server, server', op)
    OBVIOUS
  <2>1. serving.dev # None
    BY NoneIsNot DEF Answered
  <2>2. ServeOne
    BY <2>1, ServerChanges DEF preserveTasks
  <2>3. /\ server' = applyOp(server, lists, op)
        /\ {op.id, op.ref} \subseteq DOMAIN server =>
              hasRoom(server, op.id, op.ref, op.side)
    BY <2>2 DEF ServeOne
  <2>4. op \in Sendable
    <3>1. /\ serving.dev \in Device /\ serving.left \in Nat
          /\ serving.left <= Len(queue[serving.dev])
          /\ queue[serving.dev] \in Seq(Sendable)
      BY <2>1 DEF TreeTypes, Queues
    <3>2. QED
      BY <3>1
  <2>5. server \in Tree
    BY DEF TreeTypes
  <2> HIDE DEF op
  <2>6. QED
    BY <2>3, <2>4, <2>5, ServedMove
<1>3. QED
  BY <1>1, <1>2, InitTypes, NextTypes, NextAnswered, PTL DEF Spec, MoveLands
=============================================================================
