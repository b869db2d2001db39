------------------------------ MODULE Gestures -------------------------------
(***************************************************************************)
(* What the queues, the batches and the journal are for, without any of    *)
(* them: gestures are made one after the other, and the server serves them *)
(* when it pleases.  OpSync implements this.                               *)
(***************************************************************************)
EXTENDS Integers, Sequences

CONSTANTS
    Gesture,    \* records, each with its author (by)
    Id          \* ranks of gestures

VARIABLES
    made,       \* the gestures, in the order they were made
    executed,   \* executed[k]: how often gesture k was executed
    dropped     \* gestures the server has said it does not execute

vars == <<made, executed, dropped>>

Done(k) == executed[k] = 1 \/ k \in dropped

Init ==
    /\ made = <<>>
    /\ executed = [k \in Id |-> 0]
    /\ dropped = {}

Make ==
    /\ \E g \in Gesture : made' = Append(made, g)
    /\ UNCHANGED <<executed, dropped>>

\* All at once, some gestures are executed and some are dropped; before a
\* gesture is executed, the earlier ones of its author are done.
Serve(now, never) ==
    /\ \A k \in now : executed[k] = 0
    /\ executed' = [k \in Id |-> IF k \in now THEN 1 ELSE executed[k]]
    /\ dropped' = dropped \union never
    /\ \A k \in now : \A j \in DOMAIN made :
           j < k /\ made[j].by = made[k].by => Done(j)'
    /\ UNCHANGED made

Next == Make \/ \E now, never \in SUBSET DOMAIN made : Serve(now, never)

Spec == Init /\ [][Next]_vars
=============================================================================
