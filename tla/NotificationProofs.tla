-------------------------- MODULE NotificationProofs --------------------------
(***************************************************************************)
(* Proofs about NotificationSchedules, for any number of profiles and      *)
(* states, any interval, delay and calendar, and under every fault.        *)
(***************************************************************************)
EXTENDS NotificationSchedules, TLAPS

-----------------------------------------------------------------------------
(* The calendar *)

\* Later times are on the same day or on a later one.
LEMMA DateMonotonic ==
  ASSUME NEW t \in Int, NEW u \in Int, t <= u
  PROVE  Date(t) \in Int /\ Date(u) \in Int /\ Date(t) <= Date(u)
  <1> DEFINE d == Day  q == t \div d  r == u \div d
  <1>1. d \in Nat /\ d > 0 BY ScheduleAssumption
  <1>2. q \in Int /\ r \in Int BY <1>1
  <1>3. d * q <= t /\ u < d * r + d BY <1>1
  <1>4. ASSUME q > r PROVE FALSE
    <2>1. q >= r + 1 BY <1>2, <1>4
    <2>2. d * q >= d * (r + 1) BY <1>1, <1>2, <2>1
    <2>3. d * (r + 1) = d * r + d BY <1>1, <1>2
    <2> QED BY <1>1, <1>2, <1>3, <2>2, <2>3
  <1> QED BY <1>2, <1>4 DEF Date

\* The zero time is before every time of the clock.
LEMMA ZeroPast == Zero \in Int /\ Zero < 0
  <1>1. Month * Day \in Nat /\ Month * Day > 0 BY ScheduleAssumption
  <1>2. (Month * Day) * (Interval + 1) > 0 BY <1>1, ScheduleAssumption
  <1> QED BY <1>1, <1>2, ScheduleAssumption DEF Zero

-----------------------------------------------------------------------------
(* The invariant *)

\* Notification k repeats notification j too early, as the schedule sees it.
Repeats(j, k) ==
  \/ /\ schedule = "oneshot"
     /\ sent[j].profile = sent[k].profile /\ sent[j].since = sent[k].since
  \/ /\ schedule = "periodic"
     /\ ~sent[k].change /\ sent[k].time - sent[j].time < Interval
  \/ schedule = "scheduled" /\ Date(sent[j].time) = Date(sent[k].time)

\* Neither the saved data nor the notifications are ahead of the clock, and a stay has
\* begun before it is notified about.
Past ==
  /\ last <= now
  /\ \A p \in Profiles : profiles[p].transition <= now
  /\ \A j \in DOMAIN sent : sent[j].time <= now /\ sent[j].since < sent[j].time

\* Notifications are remembered in the order of their times.
Ordered == \A j, k \in DOMAIN sent : j < k => sent[j].time <= sent[k].time

\* The time that is saved is that of the last notification that was saved, or later.
Accounted == \A j \in saved : sent[j].time <= last

\* Times of notifications come from notifications.
Witnessed ==
  /\ last # Zero => \E j \in DOMAIN sent : sent[j].time = last
  /\ copy # Zero => \E j \in DOMAIN sent : sent[j].time = copy

\* A reconciliation begins after everything that was saved, and its copy takes account
\* of what it has sent itself.
Working ==
  busy => /\ last <= copy /\ copy <= now
          /\ \A p \in Profiles : profiles[p].transition < now
          /\ \A j \in DOMAIN sent : sent[j].time = now => copy = now

\* No notification repeats one that was saved, or one of the same reconciliation, which
\* may be saved together with it.
Distinct ==
  \A j, k \in DOMAIN sent :
    j < k /\ (j \in saved \/ sent[j].time = sent[k].time) => ~Repeats(j, k)

NInv ==
  /\ TypeOK /\ Past /\ Ordered /\ Accounted /\ Witnessed /\ Working /\ Distinct

-----------------------------------------------------------------------------
(* The steps *)

Messages == [profile: Profiles, time: Nat, since: Nat, change: BOOLEAN]

\* The parts of what is remembered of a notification.
LEMMA SentType ==
  ASSUME TypeOK, NEW j \in DOMAIN sent
  PROVE  /\ sent[j] \in Messages /\ sent[j].time \in Nat /\ sent[j].since \in Nat
         /\ sent[j].profile \in Profiles
  <1>1. sent \in Seq(Messages) BY DEF TypeOK, Messages
  <1>2. sent[j] \in Messages BY <1>1
  <1> QED BY <1>2 DEF Messages

LEMMA InitInv == Init => NInv
  <1> SUFFICES ASSUME Init PROVE NInv
    OBVIOUS
  <1> USE ScheduleAssumption, ZeroPast DEF Init
  <1>1. now \in Nat OBVIOUS
  <1>2. TypeOK
    <2>1. profiles \in [Profiles -> [current: States, previous: States, transition: Nat]]
      BY <1>1
    <2>2. sent \in Seq(Messages) /\ saved \subseteq DOMAIN sent OBVIOUS
    <2> QED BY <1>1, <2>1, <2>2 DEF TypeOK, Messages
  <1>3. Past BY <1>1 DEF Past
  <1>4. Ordered /\ Accounted /\ Witnessed /\ Working /\ Distinct
    BY DEF Ordered, Accounted, Witnessed, Working, Distinct
  <1> QED BY <1>2, <1>3, <1>4 DEF NInv

\* A reconciliation that starts finds everything behind it.
LEMMA StartStep ==
  ASSUME NInv, NEW pause \in 1 .. MaxPause, ReconcileStart(pause)
  PROVE  NInv'
  <1> USE ScheduleAssumption, ZeroPast DEF NInv
  <1>1. now' \in Nat /\ now' > now BY DEF TypeOK, ReconcileStart
  <1>2. TypeOK' BY <1>1 DEF TypeOK, ReconcileStart
  <1>t. now \in Nat /\ last \in Int /\ \A p \in Profiles : profiles[p].transition \in Nat
    BY DEF TypeOK
  <1>3. Past' BY <1>1, <1>t, SentType DEF Past, ReconcileStart
  <1>4. Ordered' /\ Accounted' /\ Witnessed'
    BY DEF Ordered, Accounted, Witnessed, ReconcileStart
  <1>5. Working' BY <1>1, <1>t, SentType DEF Past, Working, ReconcileStart
  <1>6. Distinct' BY DEF Distinct, Repeats, ReconcileStart
  <1> QED BY <1>2, <1>3, <1>4, <1>5, <1>6

\* What a profile comes to changes nothing that is saved or sent.
LEMMA ResultStep ==
  ASSUME NInv, NEW p \in Profiles, NEW r \in States \cup {"retry", "error"}, Result(p, r),
         UNCHANGED <<copy, sent>>
  PROVE  NInv'
  <1> USE DEF NInv, Result
  <1>1. TypeOK' BY DEF TypeOK
  <1>2. Past' /\ Ordered' /\ Accounted' /\ Witnessed' /\ Working' /\ Distinct'
    BY DEF Past, Ordered, Accounted, Witnessed, Working, Distinct, Repeats
  <1> QED BY <1>1, <1>2

\* A notification that the schedule asks for repeats none that was saved, or was sent in
\* the same reconciliation: the copy is not behind either of them.
LEMMA NoRepetition ==
  ASSUME NInv, busy, NEW p \in Profiles, ShouldNotify(p),
         NEW j \in DOMAIN sent, j \in saved \/ sent[j].time = now
  PROVE  LET k == Notification(p)
         IN /\ ~(schedule = "oneshot" /\ sent[j].profile = p /\ sent[j].since = k.since)
            /\ ~(schedule = "periodic" /\ ~k.change /\ now - sent[j].time < Interval)
            /\ ~(schedule = "scheduled" /\ Date(sent[j].time) = Date(now))
  <1> USE ScheduleAssumption, ZeroPast DEF NInv
  <1>1. /\ now \in Nat /\ copy \in Int /\ last \in Int /\ profiles[p].transition \in Nat
        /\ sent[j].time \in Nat /\ sent[j].since \in Nat
    <2> HIDE DEF NInv
    <2>1. TypeOK BY DEF NInv
    <2>2. now \in Nat /\ copy \in Int /\ last \in Int BY <2>1 DEF TypeOK
    <2>3. profiles[p].transition \in Nat BY <2>1 DEF TypeOK
    <2> QED BY <2>1, <2>2, <2>3, SentType
  <1>2. sent[j].time <= copy /\ copy <= now
    BY <1>1 DEF Accounted, Working
  <1>3. CASE schedule = "oneshot"
    <2>1. copy <= profiles[p].transition BY <1>1, <1>3 DEF ShouldNotify, NotifyOneshot
    <2>2. sent[j].since < sent[j].time BY DEF Past
    <2> QED BY <1>1, <1>2, <1>3, <2>1, <2>2 DEF Notification
  <1>4. CASE schedule = "periodic"
    <2>1. NotifyPeriodic(p) BY <1>4 DEF ShouldNotify
    <2>2. ~Notification(p).change => now - copy >= Interval
      BY <2>1 DEF NotifyPeriodic, Notification
    <2> QED BY <1>1, <1>2, <1>4, <2>2
  <1>5. CASE schedule = "scheduled"
    <2>1. DayOfMonth(copy) # DayOfMonth(now) BY <1>5 DEF ShouldNotify, NotifyScheduled
    <2>2. Date(copy) # Date(now) BY <2>1 DEF DayOfMonth
    <2>3. Date(sent[j].time) <= Date(copy) /\ Date(copy) <= Date(now)
      BY <1>1, <1>2, DateMonotonic
    <2>4. Date(sent[j].time) \in Int /\ Date(copy) \in Int /\ Date(now) \in Int
      BY <1>1, <1>2, DateMonotonic
    <2> QED BY <1>5, <2>2, <2>3, <2>4
  <1> QED BY <1>3, <1>4, <1>5 DEF TypeOK

\* Sending a notification takes its time into the copy.
LEMMA SendStep ==
  ASSUME NInv, NEW p \in Profiles, NEW r \in States \cup {"retry", "error"}, Result(p, r),
         ShouldNotify(p), sent' = Append(sent, Notification(p)), copy' = now
  PROVE  NInv'
  <1> USE ScheduleAssumption, ZeroPast DEF NInv
  <1> DEFINE n == Len(sent) + 1
  <1>0. busy /\ UNCHANGED <<schedule, now, profiles, last, busy, saved>> BY DEF Result
  <1>1. now \in Nat /\ sent \in Seq(Messages) BY DEF TypeOK, Messages
  <1>2. Notification(p) \in Messages BY <1>1 DEF TypeOK, Notification, Messages
  <1>3. /\ sent' \in Seq(Messages) /\ n \in DOMAIN sent' /\ sent'[n] = Notification(p)
        /\ DOMAIN sent' = DOMAIN sent \cup {n} /\ n \notin DOMAIN sent
        /\ \A j \in DOMAIN sent : sent'[j] = sent[j] /\ j < n
    BY <1>1, <1>2
  <1>4. \A j \in DOMAIN sent' : j \in DOMAIN sent \/ j = n BY <1>3
  <1>5. Notification(p).time = now /\ Notification(p).since = profiles[p].transition
    BY DEF Notification
  <1>6. TypeOK'
    <2>1. todo' \subseteq Profiles /\ outcome' \in [Profiles -> States \cup {"retry", "error"}]
      BY DEF TypeOK, Result
    <2>2. saved' \subseteq DOMAIN sent' BY <1>0, <1>3 DEF TypeOK
    <2> QED BY <1>0, <1>1, <1>3, <2>1, <2>2 DEF TypeOK, Messages
  <1>7. Past'
    BY <1>0, <1>1, <1>3, <1>4, <1>5 DEF Past, Working
  <1>8. Ordered'
    <2>1. \A j \in DOMAIN sent : sent[j].time <= now BY DEF Past
    <2>2. \A j, k \in DOMAIN sent' : j < k => j \in DOMAIN sent
      BY <1>1, <1>3, <1>4
    <2> QED BY <1>3, <1>4, <1>5, <2>1, <2>2 DEF Ordered
  <1>9. Accounted' BY <1>0, <1>3 DEF TypeOK, Accounted
  <1>10. Witnessed' BY <1>0, <1>3, <1>5 DEF Witnessed
  <1>11. Working' BY <1>0, <1>1 DEF TypeOK, Past, Working
  <1>12. Distinct'
    <2> SUFFICES ASSUME NEW j \in DOMAIN sent', NEW k \in DOMAIN sent', j < k,
                        j \in saved \/ sent'[j].time = sent'[k].time
                 PROVE  ~Repeats(j, k)'
      BY <1>0 DEF Distinct
    <2>1. j \in DOMAIN sent BY <1>1, <1>3, <1>4
    <2>2. CASE k \in DOMAIN sent
      BY <1>0, <1>3, <2>1, <2>2 DEF Distinct, Repeats
    <2>3. CASE k = n
      <3>1. j \in saved \/ sent[j].time = now BY <1>3, <1>5, <2>1, <2>3
      <3> QED BY <1>0, <1>3, <1>5, <2>1, <2>3, <3>1, NoRepetition DEF Repeats, Notification
    <2> QED BY <1>4, <2>2, <2>3
  <1> QED BY <1>6, <1>7, <1>8, <1>9, <1>10, <1>11, <1>12

\* At the end of a reconciliation all that it sent gets saved together, with the time
\* of the last of them.
LEMMA CommitStep ==
  ASSUME NInv, ApplyProfiles
  PROVE  NInv'
  <1> USE ScheduleAssumption, ZeroPast DEF NInv
  <1>0. /\ UNCHANGED <<schedule, now, todo, sent>> /\ busy' = FALSE /\ busy
        /\ copy' = Zero /\ last' = copy
        /\ outcome' = [p \in Profiles |-> "operational"]
        /\ saved' = saved \cup {j \in DOMAIN sent : sent[j].time = now}
    BY DEF ApplyProfiles, Finished, TypeOK
  <1>1. now \in Nat /\ last \in Int /\ copy \in Int BY DEF TypeOK
  <1>2. ASSUME NEW p \in Profiles
        PROVE  /\ profiles'[p] \in [current: States, previous: States, transition: Nat]
               /\ profiles'[p].transition <= now
    <2>1. profiles'[p] = Commit(p) BY DEF ApplyProfiles
    <2>2. outcome[p] = "retry" \/ outcome[p] \in States BY DEF ApplyProfiles, TypeOK
    <2>3. profiles[p] \in [current: States, previous: States, transition: Nat] BY DEF TypeOK
    <2>4. profiles[p].transition \in Nat /\ profiles[p].transition <= now BY <2>3 DEF Past
    <2>5. CASE outcome[p] = "retry" BY <2>1, <2>3, <2>4, <2>5 DEF Commit
    <2>6. CASE outcome[p] # "retry"
      <3> DEFINE t == IF outcome[p] # profiles[p].current THEN now ELSE profiles[p].transition
      <3>1. t \in Nat /\ t <= now BY <1>1, <2>4
      <3>2. profiles'[p] = [current |-> outcome[p], previous |-> profiles[p].current,
                            transition |-> t]
        BY <2>1, <2>6 DEF Commit
      <3>3. outcome[p] \in States /\ profiles[p].current \in States BY <2>2, <2>3, <2>6
      <3> HIDE DEF t
      <3> QED BY <3>1, <3>2, <3>3
    <2> QED BY <2>5, <2>6
  <1>3. TypeOK'
    <2>1. profiles' \in [Profiles -> [current: States, previous: States, transition: Nat]]
      BY <1>2 DEF ApplyProfiles
    <2>2. saved' \subseteq DOMAIN sent' BY <1>0 DEF TypeOK
    <2>3. sent' \in Seq(Messages) BY <1>0 DEF TypeOK, Messages
    <2>4. outcome' \in [Profiles -> States \cup {"retry", "error"}] BY <1>0
    <2> QED BY <1>0, <2>1, <2>2, <2>3, <2>4 DEF TypeOK, Messages
  <1>4. Past' BY <1>0, <1>2 DEF Past, Working
  <1>5. Ordered' BY <1>0 DEF Ordered
  <1>6. Accounted'
    <2> SUFFICES ASSUME NEW j \in saved' PROVE sent[j].time <= copy
      BY <1>0 DEF Accounted
    <2>1. CASE j \in saved
      <3>1. j \in DOMAIN sent BY <2>1 DEF TypeOK
      <3>2. sent[j].time \in Nat BY <3>1, SentType
      <3> QED BY <1>0, <1>1, <2>1, <3>2 DEF Accounted, Working
    <2>2. CASE j \in DOMAIN sent /\ sent[j].time = now
      BY <1>0, <1>1, <2>2 DEF Working
    <2> QED BY <1>0, <2>1, <2>2
  <1>7. Witnessed' /\ Working' BY <1>0 DEF Witnessed, Working
  <1>8. Distinct'
    <2> SUFFICES ASSUME NEW j \in DOMAIN sent, NEW k \in DOMAIN sent, j < k,
                        j \in saved \/ sent[j].time = now \/ sent[j].time = sent[k].time
                 PROVE  ~Repeats(j, k)
      BY <1>0 DEF Distinct, Repeats
    <2>1. sent[j].time = now => sent[k].time = now
      BY <1>1, SentType DEF Ordered, Past
    <2> QED BY <2>1 DEF Distinct
  <1> QED BY <1>3, <1>4, <1>5, <1>6, <1>7, <1>8

LEMMA DiscardStep ==
  ASSUME NInv, Discard
  PROVE  NInv'
  <1> USE ScheduleAssumption, ZeroPast DEF NInv, Discard, Finished
  <1>1. TypeOK' BY DEF TypeOK
  <1>2. Past' /\ Ordered' /\ Accounted' /\ Witnessed' /\ Working' /\ Distinct'
    BY DEF Past, Ordered, Accounted, Witnessed, Working, Distinct, Repeats
  <1> QED BY <1>1, <1>2

LEMMA NextStep == NInv /\ [Next]_vars => NInv'
  <1> SUFFICES ASSUME NInv, [Next]_vars PROVE NInv'
    OBVIOUS
  <1>1. ASSUME NEW pause \in 1 .. MaxPause, ReconcileStart(pause) PROVE NInv'
    BY <1>1, StartStep
  <1>2. ASSUME NEW p \in Profiles, ApplyStopped(p) PROVE NInv'
    BY <1>2, ResultStep DEF ApplyStopped
  <1>3. ASSUME NEW p \in Profiles, Apply(p) PROVE NInv'
    <2>1. PICK r \in States \cup {"retry", "error"} : Result(p, r) BY <1>3 DEF Apply
    <2>2. CASE UNCHANGED <<copy, sent>> BY <2>1, <2>2, ResultStep
    <2>3. CASE /\ ShouldNotify(p)
               /\ sent' = Append(sent, Notification(p)) /\ copy' = now
      BY <2>1, <2>3, SendStep
    <2> QED BY <1>3, <2>2, <2>3 DEF Apply, notifyDefault
  <1>4. CASE ApplyProfiles BY <1>4, CommitStep
  <1>5. CASE Discard BY <1>5, DiscardStep
  <1>6. CASE UNCHANGED vars
    <2>1. TypeOK' BY <1>6 DEF vars, NInv, TypeOK
    <2>2. Past' /\ Ordered' /\ Accounted' /\ Witnessed' /\ Working'
      BY <1>6 DEF vars, NInv, Past, Ordered, Accounted, Witnessed, Working
    <2>3. Distinct' BY <1>6 DEF vars, NInv, Distinct, Repeats
    <2> QED BY <2>1, <2>2, <2>3 DEF NInv
  <1> QED BY <1>1, <1>2, <1>3, <1>4, <1>5, <1>6 DEF Next, TimeIsUp

LEMMA NInvCorrect == Spec => []NInv
  BY InitInv, NextStep, PTL DEF Spec

-----------------------------------------------------------------------------
(* The theorems *)

\* Every variable keeps its type, under every fault and with every schedule.
THEOREM NotificationTypeCorrect == Spec => []TypeOK
  <1>1. NInv => TypeOK BY DEF NInv
  <1> QED BY <1>1, NInvCorrect, PTL

\* NotifyOneshot: once its announcement was saved, no stay of a profile is announced
\* again, however many profiles of the node share the instance.
THEOREM AnnouncedOnceCorrect == Spec => []AnnouncedOnce
  <1>1. NInv => AnnouncedOnce
    BY DEF NInv, TypeOK, Distinct, Repeats, AnnouncedOnce
  <1> QED BY <1>1, NInvCorrect, PTL

\* NotifyPeriodic: reminders come at least an interval after every notification that
\* was saved before.
THEOREM SpacedCorrect == Spec => []Spaced
  <1>1. NInv => Spaced
    <2> SUFFICES ASSUME NInv, schedule = "periodic", NEW j \in saved, NEW k \in DOMAIN sent,
                        j < k, ~sent[k].change
                 PROVE  sent[k].time - sent[j].time >= Interval
      BY DEF Spaced
    <2>1. TypeOK /\ j \in DOMAIN sent BY DEF NInv, TypeOK
    <2>2. ~(sent[k].time - sent[j].time < Interval) BY <2>1 DEF NInv, Distinct, Repeats
    <2> QED BY <2>1, <2>2, SentType, ScheduleAssumption
  <1> QED BY <1>1, NInvCorrect, PTL

\* NotifyScheduled: comparing days of the month never lets a second notification of a
\* day through, although it takes different days for the same.
THEOREM OncePerDayCorrect == Spec => []OncePerDay
  <1>1. NInv => OncePerDay
    BY DEF NInv, TypeOK, Distinct, Repeats, OncePerDay
  <1> QED BY <1>1, NInvCorrect, PTL

\* Notify has run for a profile only if a oneshot or periodic instance has notified as it
\* promises, or another profile's notification stands for it.
THEOREM AnnouncedCorrect == Spec => Announced
  <1> DEFINE Promise(p) ==
        CASE schedule = "periodic" ->
               profiles[p].current # profiles[p].previous => About(p) # {}
          [] schedule = "oneshot" ->
               now - profiles[p].transition >= Delay => Since(p) # {}
          [] OTHER -> TRUE
  <1>1. NInv /\ [Next]_vars => [\A p \in Profiles : Ran(p) => Promise(p)]_vars
    <2> SUFFICES ASSUME NInv, Next, NEW p \in Profiles, Ran(p)
                 PROVE  Promise(p)
      OBVIOUS
    <2> USE ScheduleAssumption, ZeroPast
    <2>t. TypeOK BY DEF NInv
    <2>1. Apply(p)
      <3>1. ASSUME NEW q \in Profiles, NEW r, Result(q, r) PROVE q = p
        BY <3>1 DEF Result, Ran
      <3>2. ~ApplyStopped(p) BY <2>t DEF TypeOK, ApplyStopped, Result, Ran
      <3> QED BY <3>1, <3>2 DEF Next, ReconcileStart, ApplyStopped, Apply, ApplyProfiles,
                Discard, Finished, TimeIsUp, vars, Ran
    <2>2. now \in Nat /\ copy \in Int /\ profiles[p].transition \in Nat BY <2>t DEF TypeOK
    <2>3. busy /\ profiles[p].transition < now
      BY <2>1 DEF Apply, Result, NInv, Working
    <2>4. CASE ShouldNotify(p)
      <3> DEFINE n == Len(sent) + 1
      <3>1. sent' = Append(sent, Notification(p))
        BY <2>1, <2>4 DEF Apply, notifyDefault, Ran
      <3>2. n \in DOMAIN sent' /\ sent'[n] = Notification(p)
        BY <2>t, <3>1 DEF TypeOK
      <3>3. n \in About(p) /\ n \in Since(p)
        BY <2>2, <2>3, <3>2 DEF About, Since, Notification
      <3> QED BY <3>3
    <2>5. CASE ~ShouldNotify(p)
      <3>1. CASE schedule = "periodic"
        BY <2>5, <3>1 DEF ShouldNotify, NotifyPeriodic
      <3>2. CASE schedule = "oneshot" /\ now - profiles[p].transition >= Delay
        <4>1. copy > profiles[p].transition BY <2>5, <3>2 DEF ShouldNotify, NotifyOneshot
        <4>2. copy # Zero BY <2>2, <4>1
        <4>3. PICK j \in DOMAIN sent : sent[j].time = copy BY <4>2 DEF NInv, Witnessed
        <4>4. sent' = sent BY <2>1, <2>5 DEF Apply, notifyDefault
        <4>5. j \in Since(p) BY <4>1, <4>3, <4>4 DEF Since
        <4> QED BY <3>2, <4>5
      <3> QED BY <3>1, <3>2
    <2> QED BY <2>4, <2>5
  <1> QED BY <1>1, NInvCorrect, PTL DEF Spec, Announced
===============================================================================
