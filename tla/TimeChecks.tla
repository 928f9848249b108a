----------------------------- MODULE TimeChecks ------------------------------
(***************************************************************************)
(* The checks that look at the clock, in one chain.  waitExclude: a        *)
(* duration has to pass since the last transition, in which time on        *)
(* excluded days of the week does not count.  timeWindow: the time of day  *)
(* is within a window, on certain days of the week and not on certain days *)
(* of the year.  Both keep no state; the clock runs, and the properties    *)
(* compare what waitExclude computes with a count of the units of time     *)
(* that do count.  A unit stands for a full second or more: below that the *)
(* code does not subtract.                                                 *)
(***************************************************************************)
EXTENDS Integers, FiniteSets

CONSTANTS
  Day,        \* units of time in a day
  Week,       \* days in a week
  Year,       \* days in a year
  Duration,   \* the configured duration of waitExclude
  Start,      \* of the window, a time of day
  End,        \* of the window, a time of day
  Holidays,   \* the excluded days of the year
  MaxWait     \* bound: the clock stops so long after the transition

\* TimeWindow.New refuses a window that ends before it starts.
ASSUME TimeAssumption ==
  /\ {Day, Week, Year} \subseteq Nat \ {0} /\ {Duration, MaxWait} \subseteq Nat
  /\ {Start, End} \subseteq 0 .. Day /\ Start <= End
  /\ Holidays \subseteq 0 .. Year - 1

VARIABLES
  transition,   \* LastTransition
  exclude,      \* the days of the week waitExclude excludes
  weekdays,     \* the days of the week of the window
  now

vars == <<transition, exclude, weekdays, now>>

Clock(t) == t % Day
Date(t) == t \div Day
Weekday(t) == Date(t) % Week
isExcluded(t) == Weekday(t) \in exclude
isSameDay(t, u) == Date(t) = Date(u)

-----------------------------------------------------------------------------
(* waitExclude *)

\* The timestamps the loop looks at: the transition, and whole days after it.
Visited == {t \in transition .. now : (t - transition) % Day = 0}

\* Mutant: the day of the transition is subtracted as a whole.
subtractFirstWhole == IF isExcluded(transition) THEN Day ELSE 0

\* Mutant: the day of the transition is not subtracted at all.
subtractFirstNot == 0

\* What the loop subtracts for the day of the transition: the rest of it.
subtractFirst == IF isExcluded(transition) THEN Day - Clock(transition) ELSE 0

\* What it subtracts for the other excluded days it visits: the whole of each, although
\* today may be one of them.
subtractDays ==
  Day * Cardinality({t \in Visited : isExcluded(t) /\ ~isSameDay(t, transition)})

\* What is subtracted after the loop, for the time since midnight.
subtractToday ==
  IF ~isSameDay(transition, now) /\ isExcluded(now) THEN Clock(now) ELSE 0

since == now - transition - subtractFirst - subtractDays - subtractToday

\* WaitExclude.checkInternal
Passed == since > Duration

-----------------------------------------------------------------------------
(* timeWindow *)

\* Mutant: a window that is open from its end to its start.
WindowSwapped(t) ==
  /\ Weekday(t) \in weekdays /\ Date(t) % Year \notin Holidays
  /\ Clock(t) > End /\ Clock(t) < Start

\* TimeWindow.checkInternal: neither bound belongs to the window.
InWindow(t) ==
  /\ Weekday(t) \in weekdays /\ Date(t) % Year \notin Holidays
  /\ Clock(t) > Start /\ Clock(t) < End

-----------------------------------------------------------------------------

Init ==
  /\ transition \in 0 .. Week * Day - 1
  /\ exclude \in SUBSET (0 .. Week - 1)
  /\ weekdays \in SUBSET (0 .. Week - 1) \ {{}}
  /\ now = transition

Tick ==
  /\ now < transition + MaxWait
  /\ now' = now + 1
  /\ UNCHANGED <<transition, exclude, weekdays>>

TimeIsUp == now = transition + MaxWait /\ UNCHANGED vars

Next == Tick \/ TimeIsUp

Spec == Init /\ [][Next]_vars

\* Time goes on.
FairSpec == Spec /\ WF_vars(Tick)

-----------------------------------------------------------------------------
(* Properties *)

\* The units of time since the transition that count.
Elapsed == Cardinality({t \in transition .. now - 1 : ~isExcluded(t)})

\* No choice of days, and no hour of the transition, makes the check pass before the
\* duration has passed outside the excluded days (checkInternal).
NeverEarly == Passed => Elapsed > Duration

\* On a day that is not excluded the check is exact: it fails for the duration and
\* then passes, however many excluded days, wholly or in part, lie in between.
ExactOnCountedDays == ~isExcluded(now) => (Passed <=> Elapsed > Duration)

\* A day of the week that the window is open on and that counts for waitExclude.
Common == weekdays \ exclude

\* A chain of both checks lets every node through in the end: the hours the window is
\* open and the hours that count may be few and fall apart, and waitExclude takes time
\* back on excluded days, but as long as they have a day of the week in common neither
\* waits for the other for ever (CheckChain.Execute, TimeWindow, WaitExclude).
LetThrough == Common # {} => <>(Passed /\ InWindow(now))

\* "while time does not progress on excluded days": time does not run backwards on
\* them either, so a check that passes goes on passing (checkInternal).
StaysPassed == [][Passed => Passed']_vars
==============================================================================
