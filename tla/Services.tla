------------------------------- MODULE Services -------------------------------
(***************************************************************************)
(* The services of the process that share no state with one another:       *)
(* reminders, École accounts, bank statements, files.                      *)
(*                                                                         *)
(* ProcessSpec is the process: at each step one of them moves.  TLC        *)
(* explores ServicesSpec, where the one that moves, `side`, is the same    *)
(* all along: the sum of their states instead of the product, each service *)
(* with every interleaving of its own.                                     *)
(***************************************************************************)
EXTENDS Notifier, EcoleAccount, Statements, Files

CONSTANT Sides      \* the services explored

VARIABLE side

servicesVars == <<side, notifierVars, ecoleVars, statementVars, fileVars>>

ProcessNext ==
    \/ NotifierNext /\ UNCHANGED <<ecoleVars, statementVars, fileVars>>
    \/ EcoleNext /\ UNCHANGED <<notifierVars, statementVars, fileVars>>
    \/ StatementsNext /\ UNCHANGED <<notifierVars, ecoleVars, fileVars>>
    \/ FilesNext /\ UNCHANGED <<notifierVars, ecoleVars, statementVars>>

ProcessSpec ==
    /\ NotifierInit /\ EcoleInit /\ StatementsInit /\ FilesInit
    /\ [][ProcessNext]_<<notifierVars, ecoleVars, statementVars, fileVars>>

ServicesInit ==
    /\ side \in Sides
    /\ NotifierInit /\ EcoleInit /\ StatementsInit /\ FilesInit
    /\ side # "rappels" => \A t \in Task : plan[t] = CHOOSE p \in Plan : TRUE
    /\ secret = (CHOOSE k \in Secret : TRUE) /\ version = (CHOOSE v \in Version : TRUE)

ServicesNext ==
    \/ /\ side = "rappels" /\ NotifierNext
       /\ UNCHANGED <<side, ecoleVars, statementVars, fileVars>>
    \/ /\ side = "ecole" /\ EcoleNext
       /\ UNCHANGED <<side, notifierVars, statementVars, fileVars>>
    \/ /\ side = "releves" /\ StatementsNext
       /\ UNCHANGED <<side, notifierVars, ecoleVars, fileVars>>
    \/ /\ side = "fichiers" /\ FilesNext
       /\ UNCHANGED <<side, notifierVars, ecoleVars, statementVars>>

ServicesSpec == ServicesInit /\ [][ServicesNext]_servicesVars

\* Reminders: the service is started again, makes its passages, and each sending
\* ends, for the push service answers or the attempt fails.  (A service that rests
\* owes nothing.)
rings == side = "rappels"
NotifierFairness ==
    /\ WF_notifierVars(rings /\ StartService) /\ WF_notifierVars(rings /\ tick)
    /\ \A p \in Process :
           /\ WF_notifierVars(rings /\ notify(p))
           /\ WF_notifierVars(rings /\ \E d \in Device, how \in {"ok", "refused", "gone"} :
                                            Answered(p, d, how))

\* École: every exchange ends (the client has a timeout), passages come every
\* minute, some of them by day, dates grow old.
connects == side = "ecole"
EcoleFairness ==
    /\ WF_ecoleVars(connects /\ Exchange)
    /\ \A p \in Passage :
           /\ WF_ecoleVars(connects /\ ecoleTick(p)) /\ SF_ecoleVars(connects /\ EveningEnds(p))
           /\ WF_ecoleVars(connects /\ NextAccount(p))
           /\ WF_ecoleVars(connects /\ PassageEnds(p))
    /\ \A a \in Compte : /\ WF_ecoleVars(connects /\ Aged(a))
                         /\ WF_ecoleVars(connects /\ PauseOver(a))

ServicesFairness == NotifierFairness /\ EcoleFairness

FairServices == ServicesSpec /\ ServicesFairness

\* The types of the four services, whose values the code keeps in its tables.
ServicesTypeOK == NotifierTypeOK /\ EcoleTypeOK /\ StatementsTypeOK /\ FilesTypeOK

\* NobodyForgotten of the reminders (notify/scheduler.ts), when they are the ones
\* that move.
NoReminderForgotten == (side = "rappels") => NobodyForgotten

\* ComesBack of the École accounts (ecole/service.ts), likewise.
AccountsComeBack == (side = "ecole") => ComesBack
===============================================================================
