---------------------------- MODULE Notifier_proofs ----------------------------
(***************************************************************************)
(* Theorems about Notifier: for any household, any number of overlapping   *)
(* École passages, of stops and of suspensions, what the scheduler sends   *)
(* rings once on a device, but for the sendings a stop cut short, and what *)
(* it puts off in quiet hours is put off to the hour they end.             *)
(***************************************************************************)
EXTENDS Notifier, TLAPS

Pair == Key \X Member

\* The variables the argument is about, and no more
RingTyped ==
    /\ plan \in [Task -> Plan]
    /\ journal \in [Pair -> Status \union {"none"}]
    /\ call \in [Process -> Call]
    /\ subs \subseteq Device
    /\ rung \in [Key \X Device -> Nat] /\ cut \in [Pair -> Nat]

\* The École planner only ever tells the evening reminder
EveningOnly ==
    \A p \in Caller :
        /\ \A x \in call[p].hits : noticeOf(x[1]) = Evening
        /\ call[p].at # NoOne => noticeOf(call[p].at[1]) = Evening

\* A sending under way is one the journal does not know, to devices of its member
SendingIsNew ==
    \A p \in Process :
        /\ call[p].at = NoOne => call[p].left = {}
        /\ p = Scheduler /\ call[p].at # NoOne /\ noticeOf(call[p].at[1]) # Evening
               => journal[call[p].at] = "none"
        /\ \A d \in call[p].left : Owner[d] = call[p].at[2]

\* A device the scheduler has not called yet for a pair that is not in the
\* journal has rung for nothing but the sendings a stop cut short
Counted(k, d) ==
    LET x == <<k, Owner[d]>>
    IN  /\ rung[<<k, d>>] <= 1 + cut[x]
        /\ journal[x] = "none" /\ (call[Scheduler].at = x => d \in call[Scheduler].left)
               => rung[<<k, d>>] <= cut[x]
AllCounted == \A k \in Key, d \in Device : noticeOf(k) # Evening => Counted(k, d)

\* The inductive invariant: RingsOnce says nothing of a sending under way
RingIInv == RingTyped /\ EveningOnly /\ SendingIsNew /\ AllCounted

-----------------------------------------------------------------------------
LEMMA CallType ==
    ASSUME NEW h \in SUBSET Pair, NEW x \in Pair \union {NoOne}, NEW l \in SUBSET Device
    PROVE  Calling(h, x, l) \in Call /\ Idle \in Call
BY DEF Calling, Idle, Call, Pair

\* A device belongs to a member, and NoOne is not a pair.
LEMMA Households ==
    /\ \A d \in Device : Owner[d] \in Member
    /\ NoOne \notin Pair /\ Scheduler \in Process /\ Scheduler \notin Caller
    /\ \A k \in Key, d \in Device : Owner[d] \in Member /\ <<k, Owner[d]>> \in Pair
BY NotifierAssumption DEF Pair, Process

\* What a passage or an evening has to tell is told to members.
LEMMA HitsAreKeys ==
    ASSUME plan \in [Task -> Plan]
    PROVE  /\ tellAll(dueHits \union standingHits) \in SUBSET Pair
           /\ tellAll({Evening}) \in SUBSET Pair
           /\ \A x \in tellAll({Evening}) : noticeOf(x[1]) = Evening
<1>1. dueHits \union standingHits \subseteq Key /\ Evening \in Key
    BY DEF dueHits, standingHits, Key, KeyOf
<1>2. \A ks : ks \subseteq Key => tellAll(ks) \in SUBSET Pair
    BY DEF tellAll, Pair
<1>3. \A x \in tellAll({Evening}) : x[1] = Evening
    BY DEF tellAll
<1>4. noticeOf(Evening) = Evening
    BY DEF noticeOf
<1> QED BY <1>1, <1>2, <1>3, <1>4

LEMMA InitRing == NotifierInit => RingIInv
<1> SUFFICES ASSUME NotifierInit PROVE RingIInv
    OBVIOUS
<1>1. Idle \in Call /\ Idle.at = NoOne /\ Idle.left = {} /\ Idle.hits = {}
    BY DEF Idle, Calling, Call
<1>2. call = [p \in Process |-> Idle] /\ plan \in [Task -> Plan] /\ subs \subseteq Device
    BY DEF NotifierInit
<1>3. cut = [x \in Pair |-> 0] /\ journal = [x \in Pair |-> "none"]
    BY DEF NotifierInit, Pair
<1>4. rung = [y \in Key \X Device |-> 0]
    BY DEF NotifierInit
<1>5. rung \in [Key \X Device -> Nat] /\ \A k \in Key, d \in Device : rung[<<k, d>>] = 0
    BY <1>4
<1>6. RingTyped
    BY <1>1, <1>2, <1>3, <1>5 DEF RingTyped
<1>7. \A p \in Process : call[p].at = NoOne /\ call[p].left = {} /\ call[p].hits = {}
    BY <1>1, <1>2
<1>8. EveningOnly /\ SendingIsNew
    BY <1>7 DEF EveningOnly, SendingIsNew, Process
<1>9. \A k \in Key, d \in Device : cut[<<k, Owner[d]>>] = 0
    BY <1>3, Households
<1>10. AllCounted
    BY <1>5, <1>9 DEF AllCounted, Counted
<1> QED BY <1>6, <1>8, <1>10 DEF RingIInv

-----------------------------------------------------------------------------
\* A step that touches neither the sendings nor their history.
LEMMA ElsewhereKeepsRing ==
    RingIInv /\ plan' \in [Task -> Plan] /\ UNCHANGED wire => RingIInv'
BY DEF RingIInv, RingTyped, EveningOnly, SendingIsNew, AllCounted, Counted, wire

\* A step that ends no sending and rings nothing: the journal only learns more.
LEMMA NotingKeepsCounts ==
    ASSUME AllCounted, UNCHANGED cut,
           \A k \in Key, d \in Device : noticeOf(k) # Evening => rung'[<<k, d>>] = rung[<<k, d>>],
           \A x \in Pair : journal'[x] = "none" => journal[x] = "none",
           call[Scheduler].at = NoOne \/ /\ call'[Scheduler].at = call[Scheduler].at
                                         /\ call'[Scheduler].left = call[Scheduler].left
    PROVE  AllCounted'
<1> SUFFICES ASSUME NEW k \in Key, NEW d \in Device, noticeOf(k) # Evening
             PROVE  Counted(k, d)'
    BY DEF AllCounted
<1>1. Counted(k, d) /\ <<k, Owner[d]>> \in Pair /\ <<k, Owner[d]>> # NoOne
    BY Households DEF AllCounted
<1> QED BY <1>1 DEF Counted

\* A passage: what is too old is noted, what is due is still to be told.
LEMMA TickKeepsRing == RingIInv /\ tick => RingIInv'
<1> SUFFICES ASSUME RingIInv, tick PROVE RingIInv'
    OBVIOUS
<1> USE Households DEF RingIInv
<1>1. plan' \in [Task -> Plan] /\ UNCHANGED <<subs, rung, cut>>
    BY DEF tick, RingTyped, demands
<1>2. CASE paused
    BY <1>1, <1>2, ElsewhereKeepsRing DEF tick, wire
<1>3. CASE ~paused
  <2> DEFINE hits == tellAll(dueHits \union standingHits)
  <2>1. call[Scheduler] = Idle /\ Idle.at = NoOne /\ Idle.left = {}
      BY DEF tick, Idle, Calling
  <2>2. hits \in SUBSET Pair
      BY HitsAreKeys DEF RingTyped
  <2>3. call' = [call EXCEPT ![Scheduler].hits = hits] /\ call \in [Process -> Call]
      BY <1>3 DEF tick, RingTyped
  <2> HIDE DEF hits
  <2>4. /\ call' \in [Process -> Call]
        /\ \A p \in Process : call'[p].at = call[p].at /\ call'[p].left = call[p].left
        /\ \A p \in Caller : call'[p] = call[p]
      BY <2>2, <2>3 DEF Call, Pair, Process
  <2>5. /\ journal' \in [Pair -> Status \union {"none"}]
        /\ \A x \in Pair : journal'[x] = "none" => journal[x] = "none"
      BY <1>3 DEF tick, RingTyped, Pair, Status
  <2>6. EveningOnly'
      BY <2>4 DEF EveningOnly
  <2>7. SendingIsNew'
      BY <2>1, <2>4 DEF SendingIsNew
  <2>8. AllCounted'
      BY <1>1, <2>1, <2>4, <2>5, NotingKeepsCounts
  <2> QED BY <1>1, <2>4, <2>5, <2>6, <2>7, <2>8 DEF RingTyped
<1> QED BY <1>2, <1>3

\* The evening reminder joins what a passage of the planner has to tell.
LEMMA EveningKeepsRing ==
    ASSUME RingIInv, NEW p \in Caller, eveningReminders(p)
    PROVE  RingIInv'
<1> USE Households DEF RingIInv
<1> DEFINE hits == tellAll({Evening})
<1>1. plan' \in [Task -> Plan] /\ UNCHANGED <<subs, journal, rung, cut>>
    BY DEF eveningReminders, RingTyped, demands
<1>2. call' = [call EXCEPT ![p].hits = hits] /\ call \in [Process -> Call] /\ p \in Process
    BY DEF eveningReminders, RingTyped, Process
<1>3. hits \in SUBSET Pair /\ \A x \in hits : noticeOf(x[1]) = Evening
    BY HitsAreKeys DEF RingTyped
<1> HIDE DEF hits
<1>4. /\ call' \in [Process -> Call]
      /\ \A q \in Process : call'[q].at = call[q].at /\ call'[q].left = call[q].left
      /\ \A q \in Process : q # p => call'[q] = call[q]
      /\ call'[p].hits = hits
    BY <1>2, <1>3 DEF Call, Pair
<1>5. EveningOnly'
    BY <1>3, <1>4 DEF EveningOnly, Process
<1>6. SendingIsNew'
    BY <1>1, <1>4 DEF SendingIsNew
<1>7. AllCounted'
    BY <1>1, <1>4, NotingKeepsCounts
<1> QED BY <1>1, <1>4, <1>5, <1>6, <1>7 DEF RingTyped

\* notify() takes the next member: a sending begins only on what is new.
LEMMA NotifyKeepsRing ==
    ASSUME RingIInv, NEW p \in Process, notify(p)
    PROVE  RingIInv'
<1> USE Households DEF RingIInv
<1>1. PICK x \in call[p].hits :
          LET mine == {d \in subs : Owner[d] = x[2]}
              rest == call[p].hits \ {x}
          IN  /\ call[p].at = NoOne
              /\ call' = [call EXCEPT ![p] = IF alreadySent(x) \/ mine = {}
                                             THEN Calling(rest, NoOne, {})
                                             ELSE Calling(rest, x, mine)]
              /\ journal' = IF ~alreadySent(x) /\ mine = {}
                            THEN [journal EXCEPT ![x] = "no-device"] ELSE journal
              /\ UNCHANGED <<plan, subs, rung, cut>>
    BY DEF notify, demands
<1> DEFINE mine == {d \in subs : Owner[d] = x[2]}
           rest == call[p].hits \ {x}
           told == alreadySent(x) \/ mine = {}
           next == IF told THEN Calling(rest, NoOne, {}) ELSE Calling(rest, x, mine)
<1>2. call \in [Process -> Call] /\ call[p] \in Call /\ call[p].hits \in SUBSET Pair
    BY DEF RingTyped, Call, Pair
<1>3. /\ x \in Pair /\ rest \in SUBSET Pair /\ mine \in SUBSET Device
      /\ \A d \in mine : Owner[d] = x[2]
    BY <1>2 DEF RingTyped
<1>4. /\ next \in Call
      /\ next.hits = rest
      /\ next.at = IF told THEN NoOne ELSE x
      /\ next.left = IF told THEN {} ELSE mine
    BY <1>3, CallType DEF Calling
<1>5. call' = [call EXCEPT ![p] = next]
    BY <1>1
<1>6. journal' = IF ~alreadySent(x) /\ mine = {}
                 THEN [journal EXCEPT ![x] = "no-device"] ELSE journal
    BY <1>1
<1>7. told <=> journal[x] # "none" \/ mine = {}
    BY DEF alreadySent
<1> HIDE DEF mine, rest, next, told
<1>8. /\ call' \in [Process -> Call] /\ call'[p] = next
      /\ \A q \in Process : q # p => call'[q] = call[q]
    BY <1>2, <1>4, <1>5
<1>9. /\ journal' \in [Pair -> Status \union {"none"}]
      /\ \A y \in Pair : journal'[y] = "none" => journal[y] = "none"
      /\ \A y \in Pair : y # x => journal'[y] = journal[y]
      /\ ~told => journal' = journal
    BY <1>3, <1>6, <1>7 DEF RingTyped, Status, alreadySent
<1>10. RingTyped'
    BY <1>1, <1>8, <1>9 DEF RingTyped
<1>11. EveningOnly'
  <2>1. p \in Caller => noticeOf(x[1]) = Evening /\ \A y \in rest : noticeOf(y[1]) = Evening
      BY DEF EveningOnly, rest
  <2> QED BY <2>1, <1>4, <1>8 DEF EveningOnly, Process
<1>12. SendingIsNew'
  <2>1. /\ next.at = NoOne => next.left = {}
        /\ next.at # NoOne => journal'[next.at] = "none"
        /\ \A d \in next.left : Owner[d] = next.at[2]
      BY <1>3, <1>4, <1>7, <1>9
  <2>2. ASSUME p # Scheduler, call[Scheduler].at # NoOne,
               noticeOf(call[Scheduler].at[1]) # Evening
        PROVE  journal'[call[Scheduler].at] = "none"
    <3>1. noticeOf(x[1]) = Evening
        BY <2>2 DEF EveningOnly, Process
    <3>2. call[Scheduler].at \in Pair /\ journal[call[Scheduler].at] = "none"
        BY <2>2 DEF RingTyped, Call, Pair, SendingIsNew
    <3> QED BY <2>2, <3>1, <3>2, <1>9
  <2> QED BY <2>1, <2>2, <1>8 DEF SendingIsNew
<1>13. AllCounted'
    BY <1>1, <1>8, <1>9, NotingKeepsCounts
<1> QED BY <1>10, <1>11, <1>12, <1>13

\* A device answers: it rings once more, and never again for this sending.
LEMMA AnsweredKeepsRing ==
    ASSUME RingIInv, NEW p \in Process, NEW d \in Device,
           NEW how \in {"ok", "refused", "gone"}, Answered(p, d, how)
    PROVE  RingIInv'
<1> USE Households DEF RingIInv
<1> DEFINE x == call[p].at
           left == call[p].left \ {d}
           ok == call[p].ok \/ how = "ok"
           ko == call[p].ko \/ how # "ok"
<1>1. /\ plan' = plan /\ cut' = cut /\ d \in call[p].left
      /\ rung' = IF how = "ok" THEN [rung EXCEPT ![<<x[1], d>>] = @ + 1] ELSE rung
      /\ subs' \subseteq Device
      /\ left = {} => /\ journal' = record(x, ok, ko)
                      /\ call' = [call EXCEPT ![p] = Calling(call[p].hits, NoOne, {})]
      /\ left # {} => /\ call' = [call EXCEPT ![p] = [@ EXCEPT !.left = left, !.ok = ok,
                                                               !.ko = ko]]
                      /\ journal' = journal
    BY DEF Answered, demands, RingTyped
<1>2. /\ call \in [Process -> Call] /\ call[p] \in Call
      /\ x \in Pair /\ x # NoOne /\ Owner[d] = x[2]
      /\ call[p].hits \in SUBSET Pair /\ call[p].left \in SUBSET Device
    BY <1>1 DEF RingTyped, SendingIsNew, Call, Pair
<1>3. x = <<x[1], Owner[d]>> /\ x[1] \in Key
    BY <1>2 DEF Pair
<1> HIDE DEF x
<1>4. /\ rung' \in [Key \X Device -> Nat]
      /\ rung'[<<x[1], d>>] \in {rung[<<x[1], d>>], rung[<<x[1], d>>] + 1}
      /\ \A k \in Key, e \in Device : k # x[1] \/ e # d => rung'[<<k, e>>] = rung[<<k, e>>]
    BY <1>1, <1>3 DEF RingTyped
<1>5. record(x, ok, ko) = [journal EXCEPT ![x] = statusOf(ok, ko)]
      /\ statusOf(ok, ko) \in Status /\ statusOf(ok, ko) # "none"
    BY DEF record, statusOf, Status
<1>6. /\ journal' \in [Pair -> Status \union {"none"}]
      /\ \A y \in Pair : journal'[y] = "none" => journal[y] = "none"
      /\ \A y \in Pair : y # x => journal'[y] = journal[y]
      /\ left = {} => journal'[x] # "none"
      /\ left # {} => journal' = journal
  <2>1. CASE left = {}
    <3>1. PICK s \in Status : s # "none" /\ journal' = [journal EXCEPT ![x] = s]
        BY <2>1, <1>1, <1>5
    <3> QED BY <2>1, <3>1, <1>2 DEF RingTyped
  <2>2. CASE left # {}
      BY <2>2, <1>1 DEF RingTyped
  <2> QED BY <2>1, <2>2
<1>7. /\ call' \in [Process -> Call]
      /\ \A q \in Process : q # p => call'[q] = call[q]
      /\ call'[p].hits = call[p].hits
      /\ left = {} => call'[p].at = NoOne /\ call'[p].left = {}
      /\ left # {} => call'[p].at = x /\ call'[p].left = left
  <2>1. CASE left = {}
    <3>1. Calling(call[p].hits, NoOne, {}) \in Call
        BY <1>2, CallType
    <3>2. call' = [call EXCEPT ![p] = Calling(call[p].hits, NoOne, {})]
        BY <1>1, <2>1
    <3> QED BY <2>1, <3>1, <3>2, <1>2 DEF Calling
  <2>2. CASE left # {}
    <3> DEFINE next == [call[p] EXCEPT !.left = left, !.ok = ok, !.ko = ko]
    <3>1. ok \in BOOLEAN /\ ko \in BOOLEAN /\ left \in SUBSET Device
        BY <1>2 DEF Call
    <3> HIDE DEF ok, ko, left
    <3>2. next \in Call /\ next.hits = call[p].hits /\ next.at = x /\ next.left = left
        BY <1>2, <3>1 DEF Call, x
    <3>3. call' = [call EXCEPT ![p] = next]
        BY <1>1, <2>2
    <3> HIDE DEF next
    <3> QED BY <2>2, <3>2, <3>3, <1>2
  <2> QED BY <2>1, <2>2
<1>8. RingTyped'
    BY <1>1, <1>4, <1>6, <1>7 DEF RingTyped
<1>9. EveningOnly'
  <2>1. p \in Caller => noticeOf(x[1]) = Evening
      BY <1>2 DEF EveningOnly, x
  <2> QED BY <2>1, <1>7 DEF EveningOnly, Process
<1>10. SendingIsNew'
  <2>1. /\ call'[p].at = NoOne => call'[p].left = {}
        /\ \A e \in call'[p].left : Owner[e] = call'[p].at[2]
      BY <1>2, <1>7 DEF SendingIsNew, x
  <2>2. ASSUME p # Scheduler, call[Scheduler].at # NoOne,
               noticeOf(call[Scheduler].at[1]) # Evening
        PROVE  journal'[call[Scheduler].at] = "none"
    <3>1. noticeOf(x[1]) = Evening
        BY <2>2, <1>2 DEF EveningOnly, Process, x
    <3>2. call[Scheduler].at \in Pair /\ journal[call[Scheduler].at] = "none"
        BY <2>2 DEF RingTyped, Call, Pair, SendingIsNew
    <3> QED BY <2>2, <3>1, <3>2, <1>6
  <2>3. ASSUME p = Scheduler, call'[p].at # NoOne, noticeOf(call'[p].at[1]) # Evening
        PROVE  journal'[call'[p].at] = "none"
      BY <2>3, <1>2, <1>6, <1>7 DEF SendingIsNew, x
  <2> QED BY <2>1, <2>2, <2>3, <1>7 DEF SendingIsNew
<1>11. AllCounted'
  <2>1. CASE p # Scheduler
    <3>1. noticeOf(x[1]) = Evening
        BY <2>1, <1>2 DEF EveningOnly, Process, x
    <3>2. \A k \in Key, e \in Device : noticeOf(k) # Evening => rung'[<<k, e>>] = rung[<<k, e>>]
        BY <3>1, <1>4
    <3> QED BY <3>2, <2>1, <1>1, <1>6, <1>7, NotingKeepsCounts
  <2>2. CASE p = Scheduler
    <3> SUFFICES ASSUME NEW k \in Key, NEW e \in Device, noticeOf(k) # Evening
                 PROVE  Counted(k, e)'
        BY DEF AllCounted
    <3> DEFINE y == <<k, Owner[e]>>
    <3>1. Counted(k, e) /\ y \in Pair /\ y # NoOne /\ cut'[y] = cut[y]
        BY <1>1 DEF AllCounted
    <3>2. rung[<<k, e>>] \in Nat /\ rung'[<<k, e>>] \in Nat /\ cut[y] \in Nat
        BY <3>1, <1>4 DEF RingTyped
    <3>3. CASE k = x[1] /\ e = d
      <4>1. y = x /\ journal[x] = "none"
          BY <3>3, <1>2, <1>3, <2>2 DEF SendingIsNew, x
      <4>2. rung[<<k, e>>] <= cut[y]
          BY <4>1, <3>1, <3>3, <1>1, <2>2 DEF Counted, x
      <4>3. rung'[<<k, e>>] <= 1 + cut[y]
          BY <4>2, <3>2, <3>3, <1>4
      <4>4. ~(journal'[y] = "none" /\ (call'[Scheduler].at = y => e \in call'[Scheduler].left))
          BY <4>1, <3>3, <1>6, <1>7, <2>2
      <4> QED BY <3>1, <4>3, <4>4 DEF Counted
    <3>4. CASE ~(k = x[1] /\ e = d)
      <4>1. rung'[<<k, e>>] = rung[<<k, e>>]
          BY <3>4, <1>4
      <4>2. ASSUME journal'[y] = "none", call'[Scheduler].at = y => e \in call'[Scheduler].left
            PROVE  rung'[<<k, e>>] <= cut[y]
        <5>1. journal[y] = "none"
            BY <4>2, <3>1, <1>6
        <5>2. call[Scheduler].at = y => e \in call[Scheduler].left
            BY <4>2, <1>6, <1>7, <2>2 DEF x
        <5> QED BY <5>1, <5>2, <4>1, <3>1 DEF Counted
      <4> QED BY <4>1, <4>2, <3>1 DEF Counted
    <3> QED BY <3>3, <3>4
  <2> QED BY <2>1, <2>2
<1> QED BY <1>8, <1>9, <1>10, <1>11

\* A stop cuts every sending short, and says so for each.
LEMMA CrashKeepsRing == RingIInv /\ Crash => RingIInv'
<1> SUFFICES ASSUME RingIInv, Crash PROVE RingIInv'
    OBVIOUS
<1> USE Households DEF RingIInv
<1>1. /\ call' = [p \in Process |-> Idle]
      /\ cut' = [x \in Pair |-> IF \E p \in Process : call[p].at = x
                                THEN cut[x] + 1 ELSE cut[x]]
      /\ UNCHANGED <<plan, subs, journal, rung>>
    BY DEF Crash, demands, Pair
<1>2. Idle \in Call /\ Idle.at = NoOne /\ Idle.left = {} /\ Idle.hits = {}
    BY DEF Idle, Calling, Call
<1>3. /\ cut' \in [Pair -> Nat]
      /\ \A x \in Pair : cut[x] \in Nat /\ cut'[x] \in {cut[x], cut[x] + 1}
      /\ call[Scheduler].at \in Pair
             => cut'[call[Scheduler].at] = cut[call[Scheduler].at] + 1
    BY <1>1 DEF RingTyped
<1>4. RingTyped'
    BY <1>1, <1>2, <1>3 DEF RingTyped
<1>5. \A p \in Process : call'[p].at = NoOne /\ call'[p].left = {} /\ call'[p].hits = {}
    BY <1>1, <1>2
<1>6. EveningOnly' /\ SendingIsNew'
    BY <1>5 DEF EveningOnly, SendingIsNew, Process
<1>7. AllCounted'
  <2> SUFFICES ASSUME NEW k \in Key, NEW d \in Device, noticeOf(k) # Evening
               PROVE  Counted(k, d)'
      BY DEF AllCounted
  <2> DEFINE y == <<k, Owner[d]>>
  <2>1. Counted(k, d) /\ y \in Pair /\ rung'[<<k, d>>] = rung[<<k, d>>] /\ journal' = journal
      BY <1>1 DEF AllCounted
  <2>2. rung[<<k, d>>] \in Nat /\ cut[y] \in Nat /\ cut'[y] \in Nat /\ cut[y] <= cut'[y]
      BY <2>1, <1>3 DEF RingTyped
  <2>3. ASSUME journal[y] = "none" PROVE rung[<<k, d>>] <= cut'[y]
    <3>1. CASE call[Scheduler].at = y
        BY <3>1, <2>1, <2>2, <1>3 DEF Counted
    <3>2. CASE call[Scheduler].at # y
        BY <3>2, <2>1, <2>2, <2>3 DEF Counted
    <3> QED BY <3>1, <3>2
  <2>4. rung[<<k, d>>] <= 1 + cut'[y]
      BY <2>1, <2>2 DEF Counted
  <2> QED BY <2>1, <2>3, <2>4 DEF Counted
<1> QED BY <1>4, <1>6, <1>7

LEMMA NextRing == RingIInv /\ [NotifierNext]_notifierVars => RingIInv'
<1> SUFFICES ASSUME RingIInv, [NotifierNext]_notifierVars PROVE RingIInv'
    OBVIOUS
<1>0. plan \in [Task -> Plan]
    BY DEF RingIInv, RingTyped
<1>1. CASE Advance
    BY <1>0, <1>1, ElsewhereKeepsRing DEF Advance, demands
<1>2. CASE tick
    BY <1>2, TickKeepsRing
<1>3. CASE Crash
    BY <1>3, CrashKeepsRing
<1>4. CASE StartService
    BY <1>0, <1>4, ElsewhereKeepsRing DEF StartService, demands
<1>5. CASE Suspend
    BY <1>0, <1>5, ElsewhereKeepsRing DEF Suspend, demands
<1>6. CASE \E p \in Caller : eveningReminders(p)
    BY <1>6, EveningKeepsRing
<1>7. CASE \E p \in Process : notify(p)
    BY <1>7, NotifyKeepsRing
<1>8. CASE \E p \in Process, d \in Device, how \in {"ok", "refused", "gone"} :
               Answered(p, d, how)
    BY <1>8, AnsweredKeepsRing
<1>9. CASE \E n \in Notice : Finish(n)
    BY <1>0, <1>9, ElsewhereKeepsRing DEF Finish
<1>10. CASE \E t \in Task, p \in Plan : Replan(t, p)
  <2>1. PICK t \in Task, p \in Plan : Replan(t, p)
      BY <1>10
  <2>2. plan' \in [Task -> Plan] /\ UNCHANGED wire
      BY <1>0, <2>1 DEF Replan
  <2> QED BY <2>2, ElsewhereKeepsRing
<1>11. CASE UNCHANGED notifierVars
    BY <1>0, <1>11, ElsewhereKeepsRing DEF notifierVars, wire
<1> QED BY <1>1, <1>2, <1>3, <1>4, <1>5, <1>6, <1>7, <1>8, <1>9, <1>10, <1>11
        DEF NotifierNext

\* RingsOnce holds in every reachable state.
THEOREM RemindersRingOnce == NotifierSpec => []RingsOnce
<1>1. RingIInv => RingsOnce
    BY Households DEF RingIInv, AllCounted, Counted, RingsOnce
<1> QED BY <1>1, InitRing, NextRing, PTL DEF NotifierSpec

-----------------------------------------------------------------------------
(***************************************************************************)
(* The hour of a reminder.                                                 *)
(***************************************************************************)

\* An hour is one of the day's.
LEMMA HourIs ==
    ASSUME NEW at \in Int
    PROVE  hour(at) \in 0..Day-1
<1>1. Day \in Nat /\ Day > 0
    BY NotifierAssumption
<1> QED BY <1>1 DEF hour

\* Within a day, the hour advances with the clock.
LEMMA HourAfter ==
    ASSUME NEW at \in Int, NEW j \in Int, hour(at) + j \in 0..Day-1
    PROVE  hour(at + j) = hour(at) + j
<1>1. Day \in Nat /\ Day > 0
    BY NotifierAssumption
<1> QED BY <1>1 DEF hour

\* The same hour comes a day later.
LEMMA SameHourTomorrow ==
    ASSUME NEW at \in Int
    PROVE  hour(at + Day) = hour(at)
<1> DEFINE k == at \div Day
           l == (at + Day) \div Day
           d == k + 1 - l
<1>1. Day \in Nat /\ Day > 0
    BY NotifierAssumption
<1>2. /\ k \in Int /\ l \in Int
      /\ at = Day * k + hour(at) /\ at + Day = Day * l + hour(at + Day)
    BY <1>1 DEF hour
<1>3. hour(at) \in 0..Day-1 /\ hour(at + Day) \in 0..Day-1
    BY <1>1, HourIs
<1> HIDE DEF k, l
<1>4. d \in Int /\ Day * d = hour(at + Day) - hour(at)
    <2>1. Day * (k + 1 - l) = Day * k + Day - Day * l
        BY <1>1, <1>2
    <2>2. hour(at) \in Int /\ hour(at + Day) \in Int /\ Day * k \in Int /\ Day * l \in Int
        BY <1>1, <1>2, <1>3
    <2> HIDE DEF hour
    <2>3. Day * k + Day - Day * l = hour(at + Day) - hour(at)
        BY <1>1, <1>2, <2>2
    <2> QED BY <1>2, <2>1, <2>3
<1> HIDE DEF d
<1>5. d >= 1 => Day * d >= Day
    BY <1>1, <1>4
<1>6. d <= -1 => Day * d <= -Day
    BY <1>1, <1>4
<1>7. d = 0
    BY <1>1, <1>3, <1>4, <1>5, <1>6
<1> QED BY <1>1, <1>3, <1>4, <1>7

\* ... and past midnight, it starts again at zero.
LEMMA HourTomorrow ==
    ASSUME NEW at \in Int, NEW j \in Int, hour(at) + j - Day \in 0..Day-1
    PROVE  hour(at + j) = hour(at) + j - Day
<1> DEFINE k == j - Day
<1>1. Day \in Nat /\ Day > 0
    BY NotifierAssumption
<1>2. hour(at) \in Int
    BY HourIs
<1>3. k \in Int /\ hour(at) + k \in 0..Day-1
    BY <1>1, <1>2
<1> HIDE DEF k
<1>4. hour(at + k) = hour(at) + k
    BY <1>3, HourAfter
<1>5. hour(at + k + Day) = hour(at + k)
    BY <1>3, SameHourTomorrow
<1>6. at + k + Day = at + j
    BY <1>1 DEF k
<1> QED BY <1>1, <1>2, <1>4, <1>5, <1>6 DEF k

\* deferPastQuiet waits for the end of the quiet hours, and no longer.
LEMMA FirstLoudHour ==
    ASSUME NEW at \in Int, NEW q \in Quiet
    PROVE  LET then == deferPastQuiet(at, q)
           IN  /\ then \in Int /\ then >= at
               /\ ~inQuiet(then, q)
               /\ \A h \in at..then-1 : inQuiet(h, q)
<1> DEFINE then == deferPastQuiet(at, q)
           now == hour(at)
<1>1. /\ Day \in Nat /\ Day > 0
      /\ q.from \in 0..Day-1 /\ q.to \in 0..Day-1
    BY NotifierAssumption
<1>2. now \in 0..Day-1
    BY HourIs
<1>3. CASE ~inQuiet(at, q)
    <2>1. then = at
        BY <1>3 DEF deferPastQuiet
    <2> QED BY <1>3, <2>1
<1>4. CASE inQuiet(at, q) /\ q.from > q.to /\ now >= q.from
    <2>1. then = at + (Day - now + q.to)
        BY <1>1, <1>2, <1>4 DEF deferPastQuiet
    <2>2. hour(then) = q.to
        <3> DEFINE j == Day - now + q.to
        <3>1. j \in Int /\ now + j - Day = q.to
            BY <1>1, <1>2
        <3>2. hour(at + j) = now + j - Day
            BY <1>1, <3>1, HourTomorrow
        <3> QED BY <2>1, <3>1, <3>2
    <2>3. ~inQuiet(then, q)
        BY <1>1, <1>4, <2>2 DEF inQuiet
    <2>4. ASSUME NEW h \in at..then-1
          PROVE  inQuiet(h, q)
        <3> DEFINE j == h - at
        <3>1. j \in Int /\ h = at + j /\ j >= 0 /\ now + j < Day + q.to
            BY <1>1, <1>2, <2>1
        <3> HIDE DEF j, now
        <3>2. CASE now + j < Day
            <4>1. now + j \in 0..Day-1
                BY <1>1, <1>2, <3>1, <3>2
            <4>2. hour(h) = now + j
                BY <3>1, <4>1, HourAfter DEF now
            <4> QED BY <1>1, <1>2, <1>4, <3>1, <4>2 DEF inQuiet
        <3>3. CASE now + j >= Day
            <4>1. now + j - Day \in 0..Day-1
                BY <1>1, <1>2, <3>1, <3>3
            <4>2. hour(h) = now + j - Day
                BY <3>1, <4>1, HourTomorrow DEF now
            <4> QED BY <1>1, <1>2, <1>4, <3>1, <4>2 DEF inQuiet
        <3> QED BY <1>1, <1>2, <3>1, <3>2, <3>3
    <2> QED BY <1>1, <1>2, <2>1, <2>3, <2>4
<1>5. CASE inQuiet(at, q) /\ ~(q.from > q.to /\ now >= q.from)
    <2>0. now < q.to /\ (q.from > q.to \/ now >= q.from)
        BY <1>1, <1>2, <1>5 DEF inQuiet
    <2>1. then = at + (q.to - now)
        BY <1>1, <1>2, <1>5 DEF deferPastQuiet
    <2>2. hour(then) = q.to
        BY <1>1, <1>2, <2>1, HourAfter
    <2>3. ~inQuiet(then, q)
        BY <1>1, <1>5, <2>0, <2>2 DEF inQuiet
    <2>4. ASSUME NEW h \in at..then-1
          PROVE  inQuiet(h, q)
        <3> DEFINE j == h - at
        <3>1. j \in Int /\ h = at + j /\ j >= 0 /\ now + j < q.to
            BY <1>1, <1>2, <2>1
        <3> HIDE DEF j, now
        <3>2. now + j \in 0..Day-1
            BY <1>1, <1>2, <3>1
        <3>3. hour(h) = now + j
            BY <3>1, <3>2, HourAfter DEF now
        <3> QED BY <1>1, <1>2, <1>5, <2>0, <3>1, <3>3 DEF inQuiet
    <2> QED BY <1>1, <1>2, <2>0, <2>1, <2>3, <2>4
<1> QED BY <1>3, <1>4, <1>5

\* The variables of the service are of their types, and stay so.
LEMMA TypesKept == NotifierTypeOK /\ [NotifierNext]_notifierVars => NotifierTypeOK'
<1> SUFFICES ASSUME NotifierTypeOK, [NotifierNext]_notifierVars
             PROVE  NotifierTypeOK'
    OBVIOUS
<1> USE DEF demands, rules, wire, notifierBounds
<1>1. CASE UNCHANGED notifierVars
    BY <1>1 DEF notifierVars, NotifierTypeOK
<1>2. CASE Advance
    <2>1. clock' \in Nat /\ clear' \subseteq Nat
        BY <1>2 DEF Advance, NotifierTypeOK
    <2>2. /\ ticked' = FALSE
          /\ UNCHANGED <<up, plan, done, paused, quiet, subs, journal, call, rung, cut,
                         rulings, gestures, crashes>>
        BY <1>2 DEF Advance
    <2> QED BY <2>1, <2>2 DEF NotifierTypeOK
<1>3. CASE tick
    <2>1. tellAll(dueHits \union standingHits) \subseteq Key \X Member
        <3>1. \A t \in Task : KeyOf(t) \in Key
            BY DEF NotifierTypeOK, KeyOf, Key
        <3>2. dueHits \union standingHits \subseteq Key
            BY <3>1 DEF dueHits, standingHits, Key
        <3> QED BY <3>2 DEF tellAll
    <2>2. journal' \in [Key \X Member -> Status \union {"none"}]
        BY <1>3 DEF tick, NotifierTypeOK, Status
    <2>3. call' \in [Process -> Call]
        <3> DEFINE hits == tellAll(dueHits \union standingHits)
        <3>1. [call[Scheduler] EXCEPT !.hits = hits] \in Call
            BY <2>1 DEF NotifierTypeOK, Process, Call
        <3>2. call' = call \/ call' = [call EXCEPT ![Scheduler].hits = hits]
            BY <1>3 DEF tick
        <3> HIDE DEF hits
        <3> QED BY <3>1, <3>2 DEF NotifierTypeOK
    <2> QED BY <1>3, <2>2, <2>3 DEF tick, NotifierTypeOK
<1>4. CASE Crash \/ StartService
    <2>1. Idle \in Call
        BY DEF Idle, Calling, Call
    <2>2. cut' \in [Key \X Member -> Nat]
        <3>1. CASE StartService
            BY <3>1 DEF StartService, NotifierTypeOK
        <3>2. CASE Crash
            <4>1. \A x \in Key \X Member : cut[x] \in Nat /\ cut[x] + 1 \in Nat
                BY DEF NotifierTypeOK
            <4> QED BY <3>2, <4>1 DEF Crash
        <3> QED BY <1>4, <3>1, <3>2
    <2>3. call' \in [Process -> Call]
        <3>1. call' = call \/ call' = [p \in Process |-> Idle]
            BY <1>4 DEF Crash, StartService
        <3> HIDE DEF Idle
        <3> QED BY <2>1, <3>1 DEF NotifierTypeOK
    <2>4. crashes' \in Nat /\ up' \in BOOLEAN /\ ticked' \in BOOLEAN
        <3>1. CASE StartService
            BY <3>1 DEF StartService, NotifierTypeOK
        <3>2. CASE Crash
            <4>1. crashes' = crashes + 1 /\ up' = FALSE /\ ticked' = FALSE
                BY <3>2 DEF Crash
            <4>2. crashes' \in Nat
                BY <4>1 DEF NotifierTypeOK
            <4>3. FALSE \in BOOLEAN
                OBVIOUS
            <4> QED BY <4>1, <4>2, <4>3
        <3> QED BY <1>4, <3>1, <3>2
    <2>5. UNCHANGED <<clock, plan, done, paused, quiet, clear, subs, journal, rung, rulings,
                      gestures>>
        BY <1>4 DEF Crash, StartService
    <2> QED BY <2>2, <2>3, <2>4, <2>5 DEF NotifierTypeOK
<1>5. CASE Suspend
    BY <1>5 DEF Suspend, NotifierTypeOK
<1>6. ASSUME NEW p \in Caller, eveningReminders(p)
      PROVE  NotifierTypeOK'
    <2>1. tellAll({Evening}) \subseteq Key \X Member
        BY DEF tellAll, Key
    <2>2. call' \in [Process -> Call]
        BY <1>6, <2>1 DEF eveningReminders, NotifierTypeOK, Call
    <2> QED BY <1>6, <2>2 DEF eveningReminders, NotifierTypeOK
<1>7. ASSUME NEW p \in Process, notify(p)
      PROVE  NotifierTypeOK'
    <2>1. PICK x \in call[p].hits :
              /\ \/ call' = [call EXCEPT ![p] = Calling(call[p].hits \ {x}, NoOne, {})]
                 \/ call' = [call EXCEPT ![p] = Calling(call[p].hits \ {x}, x,
                                                        {d \in subs : Owner[d] = x[2]})]
              /\ journal' = journal \/ journal' = [journal EXCEPT ![x] = "no-device"]
        BY <1>7 DEF notify
    <2>2. call[p].hits \subseteq Key \X Member
        BY DEF NotifierTypeOK, Call
    <2>3. call' \in [Process -> Call]
        <3> DEFINE rest == call[p].hits \ {x}
                   mine == {d \in subs : Owner[d] = x[2]}
        <3>1. rest \subseteq Key \X Member /\ x \in Key \X Member /\ mine \subseteq Device
            BY <2>2 DEF NotifierTypeOK
        <3> HIDE DEF rest, mine
        <3>2. Calling(rest, NoOne, {}) \in Call /\ Calling(rest, x, mine) \in Call
            BY <3>1 DEF Calling, Call
        <3>3. \/ call' = [call EXCEPT ![p] = Calling(rest, NoOne, {})]
              \/ call' = [call EXCEPT ![p] = Calling(rest, x, mine)]
            BY <2>1 DEF rest, mine
        <3> QED BY <3>2, <3>3 DEF NotifierTypeOK
    <2>4. journal' \in [Key \X Member -> Status \union {"none"}]
        BY <2>1, <2>2 DEF NotifierTypeOK, Status
    <2> QED BY <1>7, <2>3, <2>4 DEF notify, NotifierTypeOK
<1>8. ASSUME NEW p \in Process, NEW d \in Device, NEW how \in {"ok", "refused", "gone"},
             Answered(p, d, how)
      PROVE  NotifierTypeOK'
    <2> DEFINE x == call[p].at
               left == call[p].left \ {d}
               ok == call[p].ok \/ how = "ok"
               ko == call[p].ko \/ how # "ok"
    <2>1. call[p] \in Call
        BY DEF NotifierTypeOK
    <2>2. call' \in [Process -> Call]
        <3>1. left \subseteq Device /\ ok \in BOOLEAN /\ ko \in BOOLEAN
            BY <2>1 DEF Call
        <3>2. [call[p] EXCEPT !.left = left, !.ok = ok, !.ko = ko] \in Call
            BY <2>1, <3>1 DEF Call
        <3>3. Calling(call[p].hits, NoOne, {}) \in Call
            BY <2>1 DEF Call, Calling
        <3> QED BY <1>8, <3>2, <3>3 DEF Answered, NotifierTypeOK
    <2>3. journal' \in [Key \X Member -> Status \union {"none"}]
        <3>1. statusOf(ok, ko) \in Status
            BY DEF statusOf, Status
        <3>2. journal' = journal \/ journal' = [journal EXCEPT ![x] = statusOf(ok, ko)]
            BY <1>8 DEF Answered, record
        <3> HIDE DEF ok, ko, x
        <3> QED BY <3>1, <3>2 DEF NotifierTypeOK
    <2>4. rung' \in [Key \X Device -> Nat]
        <3> DEFINE y == <<x[1], d>>
        <3>1. rung' = rung \/ rung' = [rung EXCEPT ![y] = rung[y] + 1]
            BY <1>8 DEF Answered
        <3> HIDE DEF y
        <3> QED BY <3>1 DEF NotifierTypeOK
    <2>5. subs' \subseteq Device
        BY <1>8 DEF Answered, NotifierTypeOK
    <2> QED BY <1>8, <2>2, <2>3, <2>4, <2>5 DEF Answered, NotifierTypeOK
<1>9. ASSUME NEW n \in Notice, Finish(n)
      PROVE  NotifierTypeOK'
    BY <1>9 DEF Finish, NotifierTypeOK
<1>10. ASSUME NEW t \in Task, NEW p \in Plan, Replan(t, p)
      PROVE  NotifierTypeOK'
    BY <1>10 DEF Replan, NotifierTypeOK
<1> QED BY <1>1, <1>2, <1>3, <1>4, <1>5, <1>6, <1>7, <1>8, <1>9, <1>10 DEF NotifierNext

\* The state of the service is well formed, whatever it sends, stops and starts.
THEOREM NotifierTypeCorrect == NotifierSpec => []NotifierTypeOK
<1>1. NotifierInit => NotifierTypeOK
    <2>1. Idle \in Call
        BY DEF Idle, Calling, Call
    <2>2. ASSUME NotifierInit
          PROVE  NotifierTypeOK
        <3>1. call \in [Process -> Call]
            BY <2>1, <2>2 DEF NotifierInit
        <3>2. journal \in [Key \X Member -> Status \union {"none"}]
            BY <2>2 DEF NotifierInit
        <3>3. rung \in [Key \X Device -> Nat] /\ cut \in [Key \X Member -> Nat]
            BY <2>2 DEF NotifierInit
        <3> QED BY <2>2, <3>1, <3>2, <3>3 DEF NotifierInit, NotifierTypeOK
    <2> QED BY <2>2
<1> QED BY <1>1, TypesKept, PTL DEF NotifierSpec

\* A reminder whose hour is a quiet one is put off to the first hour that is not,
\* for any quiet hours, across midnight or not (deferPastQuiet).
THEOREM RemindersWaitForMorning == NotifierSpec => []DeferredToTheEndOfQuiet
<1>1. NotifierTypeOK => DeferredToTheEndOfQuiet
    <2> SUFFICES ASSUME NotifierTypeOK, NEW t \in Task
                 PROVE  LET asked == wanted(plan[t])
                            at == fireAt(plan[t], quiet)
                        IN  /\ at >= asked /\ ~inQuiet(at, quiet)
                            /\ \A h \in asked..at-1 : inQuiet(h, quiet)
        BY DEF DeferredToTheEndOfQuiet
    <2>1. plan[t] \in [due : Nat, time : Nat, remind : {"at", "1h", "morning", "eve"}]
        BY NotifierAssumption DEF NotifierTypeOK
    <2>2. wanted(plan[t]) \in Int
        BY <2>1, NotifierAssumption DEF wanted
    <2>3. quiet \in Quiet
        BY DEF NotifierTypeOK
    <2> QED BY <2>2, <2>3, FirstLoudHour DEF fireAt
<1> QED BY <1>1, NotifierTypeCorrect, PTL
=============================================================================
