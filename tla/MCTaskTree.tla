----------------------------- MODULE MCTaskTree ------------------------------
(***************************************************************************)
(* Two devices, two lists, a task with its subtask and another task: the   *)
(* instances of TaskTree.                                                  *)
(***************************************************************************)
EXTENDS TaskTree, TLC

CONSTANTS house, bags

SomeTask(l, p, k) == [list |-> l, parent |-> p, done |-> FALSE, ord |-> Gap * k]
SomeTasks ==
    <<SomeTask(house, None, 1), SomeTask(house, 1, 2),
      [SomeTask(bags, None, 3) EXCEPT !.done = TRUE]>>
Devices == Permutations(Device)

\* Where removals are the only gestures: once « Annuler » is pressed and
\* everything sent, nothing is missing (docs/taches.md:526, "en un lot dont
\* une seule annulation rend tout").
RemovalGivenBack ==
    serving.left = 0 /\ (\A d \in Device : queue[d] = <<>> /\ toast[d] = <<>>)
        => server = Init0
=============================================================================
