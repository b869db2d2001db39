------------------------------- MODULE Notifier -------------------------------
(***************************************************************************)
(* Notifications to the phones: what is due (backend notify/reminders.ts), *)
(* the passage of every minute that sends it (notify/scheduler.ts), and    *)
(* notify(), which sends to each device of each member and then writes in  *)
(* the journal hh_notif_sent, the only memory (notify/push.ts).            *)
(*                                                                         *)
(* notify() waits for the push service between two devices: the process    *)
(* can stop there, and the École planner, whose passages may overlap,      *)
(* can call it with the same key.  Time is counted in hours; a passage     *)
(* lasts less than one.                                                    *)
(***************************************************************************)
EXTENDS Integers

CONSTANTS
    Member, Device,
    Owner,            \* Owner[d]: the member who subscribed device d
    Task,             \* tasks with a reminder
    Plan,             \* settings a task may have: [due, time, remind]
    Standing,         \* occasions announced while they last: a preparation and
                      \* its day, a month to declare, a warranty, a Sunday report
    Window,           \* Window[s]: the hours [from, until) of an occasion
    Evening,          \* the evening reminder of the École module
    To,               \* To[n]: the members to tell, who have an account and want it
    Caller,           \* passages of the École planner that may run at once
    Day,              \* hours in a day
    NoOne,            \* nobody is being sent to
    MORNING, EVE, LATE_WINDOW,
    Quiet,            \* quiet hours the household may choose: [from, to]
    MaxClock, MaxCrashes, MaxRules, MaxGestures   \* bounds

Notice == Task \union Standing \union {Evening}
Scheduler == "rappels"
Process == {Scheduler} \union Caller
Key == (Task \X Plan) \union Standing \union {Evening}
Status == {"sent", "partial", "failed", "no-device", "missed"}

ASSUME NotifierAssumption ==
    /\ Owner \in [Device -> Member]
    /\ To \in [Notice -> SUBSET Member]
    /\ Scheduler \notin Caller
    /\ NoOne \notin Key \X Member
    /\ Plan \subseteq [due : Nat, time : Nat, remind : {"at", "1h", "morning", "eve"}]
    /\ Quiet \subseteq [from : 0..Day-1, to : 0..Day-1]
    /\ Day \in Nat \ {0}
    /\ MORNING \in 0..Day-1 /\ EVE \in 0..Day-1 /\ LATE_WINDOW \in Nat

VARIABLES
    clock,      \* the hour of the household
    up,         \* the service runs
    ticked,     \* the scheduler has made a passage in this hour
    plan,       \* plan[t]: due day, hour and setting of task t
    done,       \* tasks ticked, occasions that no longer call for anything
    paused,     \* the household suspended its reminders (pushPaused)
    quiet,      \* its quiet hours
    subs,       \* the devices subscribed (hh_push_subs)
    journal,    \* journal[k, m]: how key k reached member m, or "none"
    call,       \* call[p]: the notify() in progress in p
    clear,      \* history: the hours that struck while reminders were suspended
    rung,       \* rung[<<k, d>>]: history: how often device d showed k
    cut,        \* cut[k, m]: history: sendings the process stopped in the middle of
    rulings, gestures, crashes   \* how much of each bound has been used

demands == <<plan, done>>
rules == <<paused, quiet, clear>>
wire == <<subs, journal, call, rung, cut>>
notifierBounds == <<rulings, gestures, crashes>>
notifierVars == <<clock, up, ticked, plan, done, paused, quiet, subs, journal, call, clear,
                  rung, cut, rulings, gestures, crashes>>

\* `hits`: what is still to tell, and to whom, `at`: the pair being sent, `left`:
\* devices still to call, `ok` and `ko`: whether one answered, or failed
Call == [hits : SUBSET (Key \X Member), at : (Key \X Member) \union {NoOne},
         left : SUBSET Device, ok : BOOLEAN, ko : BOOLEAN]
Calling(hits, at, left) == [hits |-> hits, at |-> at, left |-> left, ok |-> FALSE, ko |-> FALSE]
Idle == Calling({}, NoOne, {})

-----------------------------------------------------------------------------
(***************************************************************************)
(* When a task reminds (reminders.ts).                                     *)
(***************************************************************************)
hour(at) == at % Day

inQuiet(at, q) ==
    IF q.from < q.to THEN hour(at) >= q.from /\ hour(at) < q.to
    ELSE q.from > q.to /\ (hour(at) >= q.from \/ hour(at) < q.to)

\* Mutant: the end of a night that spans midnight is looked for on the same day
deferSameDay(at, q) == IF inQuiet(at, q) THEN at - hour(at) + q.to ELSE at

deferPastQuiet(at, q) ==
    IF ~inQuiet(at, q) THEN at
    ELSE IF q.from > q.to /\ hour(at) >= q.from THEN at - hour(at) + Day + q.to
         ELSE at - hour(at) + q.to

wanted(p) ==
    CASE p.remind = "at" -> p.due * Day + p.time
      [] p.remind = "1h" -> p.due * Day + p.time - 1
      [] p.remind = "morning" -> p.due * Day + MORNING
      [] p.remind = "eve" -> (p.due - 1) * Day + EVE

fireAt(p, q) == deferPastQuiet(wanted(p), q)

KeyOf(t) == <<t, plan[t]>>
noticeOf(k) == IF k \in Standing \union {Evening} THEN k ELSE k[1]

due(t) == t \notin done /\ fireAt(plan[t], quiet) <= clock
onTime(t) == fireAt(plan[t], quiet) >= clock - LATE_WINDOW

\* the passage's harvest: reminders to send, reminders missed, occasions open
dueHits == {KeyOf(t) : t \in {u \in Task : due(u) /\ onTime(u)}}
\* Mutant: what is too old is dropped
noMissed == {}

dueMissed == {KeyOf(t) : t \in {u \in Task : due(u) /\ ~onTime(u)}}
standingHits ==
    {s \in Standing \ done : clock >= Window[s].from /\ clock < Window[s].until}
tellAll(keys) == {x \in keys \X Member : x[2] \in To[noticeOf(x[1])]}

-----------------------------------------------------------------------------
NotifierInit ==
    /\ clock = 0 /\ up = TRUE /\ ticked = FALSE
    /\ plan \in [Task -> Plan]
    /\ done = {}
    /\ paused = FALSE
    /\ quiet \in Quiet
    /\ subs = Device
    /\ journal = [x \in Key \X Member |-> "none"]
    /\ call = [p \in Process |-> Idle]
    /\ clear = {}
    /\ rung = [y \in Key \X Device |-> 0]
    /\ cut = [x \in Key \X Member |-> 0]
    /\ rulings = 0 /\ gestures = 0 /\ crashes = 0

\* Time passes; a running service makes its passage, and ends it, in the hour
Advance ==
    /\ clock < MaxClock
    /\ up => ticked /\ call[Scheduler] = Idle
    /\ clock' = clock + 1
    /\ ticked' = FALSE
    /\ clear' = IF paused THEN clear \union {clock'} ELSE clear
    /\ UNCHANGED <<up, demands, paused, quiet, wire, notifierBounds>>

-----------------------------------------------------------------------------
(***************************************************************************)
(* A passage.                                                              *)
(***************************************************************************)
alreadySent(x) == journal[x] # "none"

\* tick(): suspended, nothing is computed; what is too old is noted, not sent
tick ==
    /\ up
    /\ call[Scheduler] = Idle
    /\ ticked' = TRUE
    /\ IF paused THEN UNCHANGED <<journal, call>>
       ELSE /\ journal' = [x \in Key \X Member |->
                             IF x \in tellAll(dueMissed) /\ ~alreadySent(x)
                             THEN "missed" ELSE journal[x]]
            /\ call' = [call EXCEPT ![Scheduler].hits = tellAll(dueHits \union standingHits)]
    /\ UNCHANGED <<clock, up, demands, rules, subs, rung, cut, notifierBounds>>

\* eveningReminders(): any passage of the École planner, within two hours
eveningReminders(p) ==
    /\ up /\ ~paused
    /\ call[p] = Idle
    /\ Evening \notin done
    /\ clock >= Window[Evening].from /\ clock < Window[Evening].until
    /\ call' = [call EXCEPT ![p].hits = tellAll({Evening})]
    /\ UNCHANGED <<clock, up, ticked, demands, rules, subs, journal, rung, cut, notifierBounds>>

\* notify(), one member: told already, without a device, or to be sent to
notify(p) ==
    \E x \in call[p].hits :
        LET mine == {d \in subs : Owner[d] = x[2]}
            rest == call[p].hits \ {x}
        IN  /\ up /\ call[p].at = NoOne
            /\ call' = [call EXCEPT ![p] = IF alreadySent(x) \/ mine = {}
                                           THEN Calling(rest, NoOne, {})
                                           ELSE Calling(rest, x, mine)]
            /\ journal' = IF ~alreadySent(x) /\ mine = {}
                          THEN [journal EXCEPT ![x] = "no-device"] ELSE journal
            /\ UNCHANGED <<clock, up, ticked, demands, rules, subs, rung, cut, notifierBounds>>

\* what the journal keeps of a sending; whatever it says, it is over
statusOf(ok, ko) == IF ~ok THEN "failed" ELSE IF ko THEN "partial" ELSE "sent"

\* Mutant: what did not reach every device is left to be tried again
recordSent(x, ok, ko) == IF ko THEN journal ELSE [journal EXCEPT ![x] = statusOf(ok, ko)]

record(x, ok, ko) == [journal EXCEPT ![x] = statusOf(ok, ko)]

\* the push service answers for one device: shown, refused, or gone (404, 410);
\* after the last one the journal is written
Answered(p, d, how) ==
    LET x == call[p].at
        left == call[p].left \ {d}
        ok == call[p].ok \/ how = "ok"
        ko == call[p].ko \/ how # "ok"
    IN  /\ up /\ d \in call[p].left
        /\ rung' = IF how = "ok" THEN [rung EXCEPT ![<<x[1], d>>] = @ + 1] ELSE rung
        /\ subs' = IF how = "gone" THEN subs \ {d} ELSE subs
        /\ IF left = {}
           THEN /\ journal' = record(x, ok, ko)
                /\ call' = [call EXCEPT ![p] = Calling(call[p].hits, NoOne, {})]
           ELSE /\ call' = [call EXCEPT ![p] = [@ EXCEPT !.left = left, !.ok = ok, !.ko = ko]]
                /\ UNCHANGED journal
        /\ UNCHANGED <<clock, up, ticked, demands, rules, cut, notifierBounds>>

-----------------------------------------------------------------------------
(***************************************************************************)
(* The process, the household.                                             *)
(***************************************************************************)
Crash ==
    /\ up /\ crashes < MaxCrashes
    /\ crashes' = crashes + 1
    /\ up' = FALSE
    /\ ticked' = FALSE
    /\ call' = [p \in Process |-> Idle]
    /\ cut' = [x \in Key \X Member |->
                  IF \E p \in Process : call[p].at = x THEN cut[x] + 1 ELSE cut[x]]
    /\ UNCHANGED <<clock, demands, rules, subs, journal, rung, rulings, gestures>>

StartService ==
    /\ ~up
    /\ up' = TRUE
    /\ UNCHANGED <<clock, ticked, demands, rules, wire, notifierBounds>>

Suspend ==
    /\ rulings < MaxRules
    /\ rulings' = rulings + 1
    /\ paused' = ~paused
    /\ UNCHANGED <<clock, up, ticked, demands, quiet, clear, wire, gestures, crashes>>

\* A task is ticked, a bag packed, a month declared
Finish(n) ==
    /\ n \notin done /\ gestures < MaxGestures
    /\ gestures' = gestures + 1
    /\ done' = done \union {n}
    /\ UNCHANGED <<clock, up, ticked, plan, rules, wire, rulings, crashes>>

\* A task is postponed, or reminds otherwise
Replan(t, p) ==
    /\ p # plan[t] /\ gestures < MaxGestures
    /\ gestures' = gestures + 1
    /\ plan' = [plan EXCEPT ![t] = p]
    /\ UNCHANGED <<clock, up, ticked, done, rules, wire, rulings, crashes>>

NotifierNext ==
    \/ Advance \/ tick \/ Crash \/ StartService \/ Suspend
    \/ \E p \in Caller : eveningReminders(p)
    \/ \E p \in Process :
           notify(p) \/ \E d \in Device, how \in {"ok", "refused", "gone"} : Answered(p, d, how)
    \/ \E n \in Notice : Finish(n)
    \/ \E t \in Task, p \in Plan : Replan(t, p)

NotifierSpec == NotifierInit /\ [][NotifierNext]_notifierVars

-----------------------------------------------------------------------------
(***************************************************************************)
(* What is promised.                                                       *)
(***************************************************************************)
NotifierTypeOK ==
    /\ clock \in Nat /\ up \in BOOLEAN /\ ticked \in BOOLEAN
    /\ plan \in [Task -> Plan] /\ done \subseteq Notice
    /\ paused \in BOOLEAN /\ quiet \in Quiet /\ clear \subseteq Nat
    /\ subs \subseteq Device
    /\ journal \in [Key \X Member -> Status \union {"none"}]
    /\ call \in [Process -> Call]
    /\ rung \in [Key \X Device -> Nat] /\ cut \in [Key \X Member -> Nat]
    /\ rulings \in Nat /\ gestures \in Nat /\ crashes \in Nat

\* "rien n'est renvoyé deux fois" (scheduler.ts): what the scheduler sends
\* rings on a device once, and once more for each time the process stopped
\* while that very member was being told.  (The evening reminder, which two
\* passages may send at once, is left out.)
RingsOnce ==
    \A k \in Key, d \in Device :
        noticeOf(k) # Evening => rung[<<k, d>>] <= 1 + cut[k, Owner[d]]

\* The hour of a reminder is out of the quiet hours, never before the hour
\* that was asked, and the first such hour: "il n'est pas perdu, il attend le
\* matin" (reminders.ts).
DeferredToTheEndOfQuiet ==
    \A t \in Task :
        LET asked == wanted(plan[t])
            at == fireAt(plan[t], quiet)
        IN  /\ at >= asked /\ ~inQuiet(at, quiet)
            /\ \A h \in asked..at-1 : inQuiet(h, quiet)

\* "Les rappels suspendus ne sont pas rattrapés à la reprise" (docs/parametres.md):
\* a reminder whose hour fell while reminders were suspended never rings.
PausedIsNotCaughtUp ==
    [][\A t \in Task, d \in Device :
           rung'[<<KeyOf(t), d>>] > rung[<<KeyOf(t), d>>]
               => fireAt(plan[t], quiet) \notin clear]_notifierVars

\* A reminder whose hour has come is settled (sent, failed, missed) for each of
\* its members, whatever stopped and started, unless the task is ticked or put
\* off, or the household suspends its reminders.
Settled(t) == \A m \in To[t] : alreadySent(<<KeyOf(t), m>>)
NobodyForgotten ==
    \A t \in Task : due(t) /\ ~paused ~> Settled(t) \/ ~due(t) \/ paused
=============================================================================
