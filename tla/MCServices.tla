------------------------------ MODULE MCServices ------------------------------
(***************************************************************************)
(* A household with two members, an École account, two bank accounts and a *)
(* few files: the instances of Services.                                   *)
(***************************************************************************)
EXTENDS Services, TLC

CONSTANTS
    ana, leo, d1, d2, bin, trip,             \* members, devices, notices
    joint, perso, mme, mle, vir, recu, dab   \* accounts, labels, operations

\* leo has no phone; the trip and the evening are his, the bin is ana's
Owners == [d \in Device |-> ana]
Told == [n \in Notice |-> IF n = bin THEN {ana} ELSE {leo}]
Plans == {[due |-> 0, time |-> 0, remind |-> "at"], [due |-> 0, time |-> 3, remind |-> "at"]}
Windows == [n \in Standing \union {Evening} |-> [from |-> 2, until |-> 4]]
Quiets == {[from |-> 3, to |-> 1]}

\* A transfer of 2 from one account to the other, and a withdrawal made twice;
\* the second file repeats its block, the third one ends with the withdrawal again
Days == (vir :> 1) @@ (recu :> 1) @@ (dab :> 3)
Amounts == (vir :> -2) @@ (recu :> 2) @@ (dab :> -1)
line(l, o) == [label |-> l, op |-> o]
SomeFiles == {<<line(mme, dab), line(mme, dab), line(mle, dab)>>,
              <<line(mme, recu), line(mle, vir)>>,
              <<line(mme, dab), line(mle, vir), line(mme, dab)>>}
===============================================================================
