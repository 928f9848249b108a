------------------------ MODULE NotificationSchedules ------------------------
(***************************************************************************)
(* One notification instance, its schedule, and the profiles of a node     *)
(* that use it.  The time of its last notification is kept per node, not   *)
(* per profile, next to the states of the profiles; a reconciliation works *)
(* on a copy of both, which is saved at its end.                           *)
(*                                                                         *)
(* A reconciliation begins with what was saved last: what a poll that      *)
(* times out or a lost reply makes of this is left to NodeController.      *)
(* Reconciliations begin at different times and end before the next unit   *)
(* of time.  What may go wrong in a run is the constant Faults:            *)
(*   "retry"   the Enter chain or a trigger asks for a retry               *)
(*   "error"   a plugin fails                                              *)
(*   "patch"   the API server rejects the patch                            *)
(***************************************************************************)
EXTENDS Integers, Sequences

CONSTANTS
  Profiles,
  States,      \* of profiles
  Notified,    \* the states that have the instance in their chain
  Schedules,   \* the schedules looked at
  Interval,    \* of the periodic schedule
  Delay,       \* of the oneshot schedule
  Instant,     \* the time of day of the scheduled schedule
  Weekdays,    \* the days of the week of the scheduled schedule
  Day,         \* units of time in a day
  Week,        \* days in a week
  Month,       \* days in a month
  MaxPause,    \* bound: the units of time between two reconciliations
  MaxTime,     \* bound: the clock stops here
  Faults

ASSUME ScheduleAssumption ==
  /\ "operational" \in States /\ Notified \subseteq States
  /\ {"retry", "error"} \cap States = {}
  /\ Schedules \subseteq {"periodic", "scheduled", "oneshot"}
  /\ {Interval, Delay, Instant, MaxPause, MaxTime} \subseteq Nat
  /\ {Day, Week, Month} \subseteq Nat \ {0}

VARIABLES
  schedule,   \* of the instance, configured once
  now,        \* the clock
  profiles,   \* the saved states of the profiles
  last,       \* the saved time of the last notification
  busy,       \* whether a reconciliation is under way
  todo,       \* the profiles it has still to apply
  copy,       \* its time of the last notification
  outcome,    \* what became of the profiles it has applied
  sent,       \* history: the notifications
  saved       \* history: those whose time was saved, by their place in sent

vars == <<schedule, now, profiles, last, busy, todo, copy, outcome, sent, saved>>

-----------------------------------------------------------------------------
(* Time *)

Clock(t) == t % Day
Date(t) == t \div Day
Weekday(t) == Date(t) % Week
DayOfMonth(t) == (Date(t) % Month) + 1

\* The zero value of time.Time, long ago and on the first of a month.
Zero == -(Month * Day * (Interval + 1))

-----------------------------------------------------------------------------
(* The schedules *)

\* Mutant: the interval is counted from the change of state.
PeriodicSinceChange(p) ==
  \/ profiles[p].current # profiles[p].previous
  \/ now - profiles[p].transition >= Interval /\ profiles[p].previous # "operational"

\* NotifyPeriodic.ShouldNotify
NotifyPeriodic(p) ==
  \/ profiles[p].current # profiles[p].previous
  \/ now - copy >= Interval /\ profiles[p].previous # "operational"

\* NotifyScheduled.ShouldNotify
NotifyScheduled(p) ==
  /\ Weekday(now) \in Weekdays
  /\ Clock(now) >= Instant
  /\ DayOfMonth(copy) # DayOfMonth(now)

\* Mutant: a notification of an earlier stay counts.
OneshotEver(p) == copy = Zero /\ now - profiles[p].transition >= Delay

\* Mutant: a notification is repeated until the state changes.
OneshotRepeated(p) == now - profiles[p].transition >= Delay

\* NotifyOneshot.ShouldNotify; profiles always have a time of transition.
NotifyOneshot(p) ==
  /\ ~(copy > profiles[p].transition)
  /\ now - profiles[p].transition >= Delay

ShouldNotify(p) ==
  CASE schedule = "periodic" -> NotifyPeriodic(p)
    [] schedule = "scheduled" -> NotifyScheduled(p)
    [] schedule = "oneshot" -> NotifyOneshot(p)

-----------------------------------------------------------------------------
(* Reconciliations *)

ReconcileStart(pause) ==
  /\ ~busy
  /\ now + pause <= MaxTime
  /\ now' = now + pause
  /\ busy' = TRUE
  /\ todo' = Profiles
  /\ copy' = last
  /\ outcome' = [p \in Profiles |-> profiles[p].current]
  /\ UNCHANGED <<schedule, profiles, last, sent, saved>>

\* The result of applying profile p.
Result(p, result) ==
  /\ busy
  /\ p \in todo
  /\ todo' = todo \ {p}
  /\ outcome' = [outcome EXCEPT ![p] = result]
  /\ UNCHANGED <<schedule, now, profiles, last, busy, saved>>

\* Before a notification: Enter asks for a retry, or Enter or Notify fails.
ApplyStopped(p) ==
  /\ \/ profiles[p].previous # profiles[p].current /\ "retry" \in Faults /\ Result(p, "retry")
     \/ "error" \in Faults /\ Result(p, "error")
  /\ UNCHANGED <<copy, sent>>

\* What is remembered of a notification: the stay it is about, and whether it
\* reports a change of state or is a reminder.
Notification(p) ==
  [profile |-> p, time |-> now, since |-> profiles[p].transition,
   change |-> profiles[p].current # profiles[p].previous]

\* Mutant: the time of the notification is not recorded.
notifyUnrecorded(p) ==
  IF profiles[p].current \in Notified /\ ShouldNotify(p)
  THEN /\ sent' = Append(sent, Notification(p))
       /\ copy' = copy
  ELSE UNCHANGED <<copy, sent>>

notifyDefault(p) ==
  IF profiles[p].current \in Notified /\ ShouldNotify(p)
  THEN /\ sent' = Append(sent, Notification(p))
       /\ copy' = now
  ELSE UNCHANGED <<copy, sent>>

\* After it: the profile stays or moves, or a check or trigger fails or retries.
Apply(p) ==
  /\ notifyDefault(p)
  /\ \/ \E s \in States : Result(p, s)
     \/ "retry" \in Faults /\ Result(p, "retry")
     \/ "error" \in Faults /\ Result(p, "error")

\* Mutant: a retry is taken for the next state.
CommitRetried(p) ==
  [current |-> outcome[p], previous |-> profiles[p].current,
   transition |-> IF outcome[p] # profiles[p].current THEN now ELSE profiles[p].transition]

\* A profile that asked for a retry is left as it is.
Commit(p) ==
  IF outcome[p] = "retry" THEN profiles[p]
  ELSE [current |-> outcome[p], previous |-> profiles[p].current,
        transition |-> IF outcome[p] # profiles[p].current THEN now ELSE profiles[p].transition]

\* What a reconciliation worked on is gone at its end.
Finished ==
  /\ busy /\ todo = {}
  /\ busy' = FALSE
  /\ copy' = Zero
  /\ outcome' = [p \in Profiles |-> "operational"]
  /\ UNCHANGED <<schedule, now, todo, sent>>

ApplyProfiles ==
  /\ Finished
  /\ \A p \in Profiles : outcome[p] # "error"
  /\ profiles' = [p \in Profiles |-> Commit(p)]
  /\ last' = copy
  /\ saved' = saved \cup {j \in DOMAIN sent : sent[j].time = now}

\* An error of one profile, or a rejected patch, discards everything.
Discard ==
  /\ Finished
  /\ "patch" \in Faults \/ \E p \in Profiles : outcome[p] = "error"
  /\ UNCHANGED <<profiles, last, saved>>

\* The clock has reached its bound.
TimeIsUp == ~busy /\ now + 1 > MaxTime /\ UNCHANGED vars

-----------------------------------------------------------------------------
(* The specification *)

\* The profiles were attached just now, at some time of the first days of a month.
Init ==
  /\ schedule \in Schedules
  /\ now \in 0 .. Day
  /\ profiles = [p \in Profiles |-> [current |-> "operational", previous |-> "operational",
                                     transition |-> now]]
  /\ last = Zero
  /\ busy = FALSE
  /\ todo = {}
  /\ copy = Zero
  /\ outcome = [p \in Profiles |-> "operational"]
  /\ sent = <<>>
  /\ saved = {}

Next ==
  \/ \E pause \in 1 .. MaxPause : ReconcileStart(pause)
  \/ \E p \in Profiles : ApplyStopped(p) \/ Apply(p)
  \/ ApplyProfiles \/ Discard \/ TimeIsUp

Spec == Init /\ [][Next]_vars

-----------------------------------------------------------------------------
(* Properties *)

\* Every variable has its type.
TypeOK ==
  /\ schedule \in Schedules
  /\ now \in Nat
  /\ profiles \in [Profiles -> [current: States, previous: States, transition: Nat]]
  /\ last \in Nat \cup {Zero} /\ copy \in Nat \cup {Zero}
  /\ busy \in BOOLEAN
  /\ todo \subseteq Profiles
  /\ outcome \in [Profiles -> States \cup {"retry", "error"}]
  /\ sent \in Seq([profile: Profiles, time: Nat, since: Nat, change: BOOLEAN])
  /\ saved \subseteq DOMAIN sent

\* Profile p, in a state with the instance in its chain, was applied and Notify ran.
Ran(p) ==
  p \in todo /\ p \notin todo' /\ outcome'[p] \in States /\ profiles[p].current \in Notified

\* The notifications about the present stay of p, and all that were sent since it began.
About(p) == {j \in DOMAIN sent' : sent'[j].profile = p /\ sent'[j].since = profiles[p].transition}
Since(p) == {j \in DOMAIN sent' : sent'[j].time > profiles[p].transition}

\* "Notifies after a state change": when the checks of a profile that has changed its
\* state are run, a periodic instance has announced the change.  "Notifies once after
\* a state change if the configured delay passes": when they are run after the delay, a
\* oneshot instance has notified since the change, about this profile or, as it keeps
\* one time for all of them, another one of the node (notifyDefault).
Announced ==
  [][\A p \in Profiles : Ran(p) =>
       CASE schedule = "periodic" ->
              profiles[p].current # profiles[p].previous => About(p) # {}
         [] schedule = "oneshot" ->
              now - profiles[p].transition >= Delay => Since(p) # {}
         [] OTHER -> TRUE]_vars

\* "Notifies once after a state change if the configured delay passes": a stay of a
\* profile is not announced again once the time of its announcement was saved, whatever
\* is retried and however the other profiles move (NotifyOneshot).
AnnouncedOnce ==
  schedule = "oneshot" =>
    \A j \in saved, k \in DOMAIN sent :
      j < k /\ sent[j].profile = sent[k].profile => sent[j].since # sent[k].since

\* "when the specified interval passed since the last notification": a reminder comes
\* an interval after every notification before it that was saved (NotifyPeriodic).
Spaced ==
  schedule = "periodic" =>
    \A j \in saved, k \in DOMAIN sent :
      j < k /\ ~sent[k].change => sent[k].time - sent[j].time >= Interval

\* "ensure the notification triggers only once a day": after a notification that was
\* saved, the instance sends none on the same day (NotifyScheduled).
OncePerDay ==
  schedule = "scheduled" =>
    \A j \in saved, k \in DOMAIN sent :
      j < k => Date(sent[j].time) # Date(sent[k].time)
==============================================================================
