----------------------------- MODULE TimeProofs ------------------------------
(***************************************************************************)
(* Proofs about waitExclude, for every length of a day and a week, every   *)
(* duration and every set of excluded days.                                *)
(***************************************************************************)
EXTENDS TimeChecks, FiniteSetTheorems, TLAPS

-----------------------------------------------------------------------------
(* Days and hours *)

\* A time is its day and its hour, in one way only.
LEMMA DayAndHour ==
  ASSUME NEW t \in Nat
  PROVE  /\ Date(t) \in Nat /\ Clock(t) \in Nat /\ Clock(t) < Day /\ Day \in Nat /\ Day > 0
         /\ t = Day * Date(t) + Clock(t)
  <1> DEFINE d == Day
  <1>1. d \in Nat /\ d > 0 BY TimeAssumption
  <1> HIDE DEF d
  <1>2. /\ t \div d \in Nat /\ t % d \in Nat /\ t % d < d
        /\ t = d * (t \div d) + (t % d)
    BY <1>1
  <1> QED BY <1>1, <1>2 DEF d, Date, Clock

\* A multiple of a positive number that is not 0 is at least as large as the number.
LEMMA Multiple ==
  ASSUME NEW d \in Nat, NEW k \in Int, k >= 1 PROVE d * k >= d
  OBVIOUS

LEMMA UniqueDay ==
  ASSUME NEW t \in Nat, NEW q \in Int, NEW r \in Nat, r < Day, t = Day * q + r
  PROVE  Date(t) = q /\ Clock(t) = r
  <1> DEFINE d == Day  p == Date(t)  c == Clock(t)
  <1>1. p \in Nat /\ c \in Nat /\ c < d /\ d \in Nat /\ d > 0 /\ t = d * p + c BY DayAndHour
  <1> HIDE DEF p, c
  <1>2. d * (q - p) = c - r /\ d * (p - q) = r - c BY <1>1
  <1>3. ~(q - p >= 1)
    <2> SUFFICES ASSUME q - p >= 1 PROVE FALSE OBVIOUS
    <2>1. d * (q - p) >= d BY <1>1, Multiple
    <2> QED BY <1>1, <1>2, <2>1
  <1>4. ~(p - q >= 1)
    <2> SUFFICES ASSUME p - q >= 1 PROVE FALSE OBVIOUS
    <2>1. d * (p - q) >= d BY <1>1, Multiple
    <2> QED BY <1>1, <1>2, <2>1
  <1>5. p = q BY <1>1, <1>3, <1>4
  <1>6. d * (q - p) = 0 BY <1>1, <1>5
  <1>7. c = r BY <1>1, <1>2, <1>6
  <1> QED BY <1>5, <1>7 DEF p, c

\* The clock goes on by one unit, and starts a day after the last one.
LEMMA NextUnit ==
  ASSUME NEW t \in Nat
  PROVE  \/ Date(t + 1) = Date(t) /\ Clock(t + 1) = Clock(t) + 1
         \/ Date(t + 1) = Date(t) + 1 /\ Clock(t + 1) = 0 /\ Clock(t) = Day - 1
  <1> DEFINE d == Day  p == Date(t)  c == Clock(t)
  <1>1. p \in Nat /\ c \in Nat /\ c < d /\ d \in Nat /\ d > 0 /\ t = d * p + c BY DayAndHour
  <1> HIDE DEF p, c
  <1>2. CASE c + 1 < d
    <2>1. t + 1 = d * p + (c + 1) BY <1>1
    <2> QED BY <1>1, <1>2, <2>1, UniqueDay DEF p, c
  <1>3. CASE ~(c + 1 < d)
    <2>1. c = d - 1 BY <1>1, <1>3
    <2>2. t + 1 = d * (p + 1) + 0 BY <1>1, <2>1
    <2> QED BY <1>1, <2>1, <2>2, UniqueDay DEF p, c
  <1> QED BY <1>2, <1>3

\* Later times: whole days lead to the same hour of another day.
LEMMA LaterHour ==
  ASSUME NEW s \in Nat, NEW t \in Nat, s <= t
  PROVE  /\ Date(s) <= Date(t)
         /\ Date(s) = Date(t) => Clock(t) = Clock(s) + (t - s)
         /\ (t - s) % Day = 0 <=> Clock(t) = Clock(s)
  <1> DEFINE d == Day  p == Date(s)  c == Clock(s)  q == Date(t)  e == Clock(t)
             k == (t - s) \div d  r == (t - s) % d
  <1>1. p \in Nat /\ c \in Nat /\ c < d /\ d \in Nat /\ d > 0 /\ s = d * p + c BY DayAndHour
  <1>2. q \in Nat /\ e \in Nat /\ e < d /\ t = d * q + e BY DayAndHour
  <1>3. t - s \in Nat OBVIOUS
  <1>4. k \in Nat /\ r \in Nat /\ r < d /\ t - s = d * k + r
    BY <1>3, DayAndHour DEF Date, Clock
  <1> HIDE DEF p, c, q, e, k, r
  <1>5. p <= q
    <2> SUFFICES ASSUME p - q >= 1 PROVE FALSE BY <1>1, <1>2
    <2>1. d * (p - q) >= d BY <1>1, <1>2, Multiple
    <2>2. d * (p - q) = d * p - d * q BY <1>1, <1>2
    <2> QED BY <1>1, <1>2, <2>1, <2>2
  <1>6. p = q => e = c + (t - s) BY <1>1, <1>2
  <1>7. ASSUME r = 0 PROVE e = c
    <2>1. t = d * (p + k) + c /\ p + k \in Int BY <1>1, <1>4, <1>7
    <2> QED BY <1>1, <2>1, UniqueDay DEF e
  <1>8. ASSUME e = c PROVE r = 0
    <2>1. t - s = d * (q - p) + 0 BY <1>1, <1>2, <1>8
    <2> QED BY <1>1, <1>2, <1>3, <2>1, UniqueDay DEF r, Clock
  <1> QED BY <1>5, <1>6, <1>7, <1>8 DEF p, c, q, e, r

-----------------------------------------------------------------------------
(* waitExclude *)

\* What waitExclude has subtracted too much at t: on an excluded day the loop takes the
\* whole rest of the day of the transition, and from the hour of the transition on the
\* whole of a later day, while the hours since midnight are taken once more.
Ahead(t) ==
  IF ~isExcluded(t) THEN 0
  ELSE IF isSameDay(t, transition) THEN Day - Clock(t)
  ELSE IF Clock(t) >= Clock(transition) THEN Day ELSE 0

TimeInv ==
  /\ transition \in Nat /\ now \in Nat /\ transition <= now
  /\ since = Elapsed - Ahead(now)

\* The units that count, one unit later.
LEMMA ElapsedStep ==
  ASSUME TimeInv, Tick
  PROVE  /\ Elapsed \in Nat
         /\ Elapsed' = IF isExcluded(now) THEN Elapsed ELSE Elapsed + 1
  <1> DEFINE S == {t \in transition .. now - 1 : ~isExcluded(t)}
             T == {t \in transition .. now : ~isExcluded(t)}
  <1>1. transition \in Nat /\ now \in Nat /\ transition <= now BY DEF TimeInv
  <1>2. now' = now + 1 /\ transition' = transition /\ exclude' = exclude BY DEF Tick
  <1>3. Elapsed = Cardinality(S) BY DEF Elapsed
  <1>4. Elapsed' = Cardinality(T) BY <1>1, <1>2 DEF Elapsed, isExcluded
  <1>5. S \subseteq transition .. now - 1 /\ now \notin S
    BY <1>1
  <1>6. T = IF isExcluded(now) THEN S ELSE S \cup {now} BY <1>1
  <1> HIDE DEF S, T
  <1>i. IsFiniteSet(transition .. now - 1) BY <1>1, FS_Interval
  <1>7. IsFiniteSet(S) BY <1>5, <1>i, FS_Subset
  <1>8. Cardinality(S) \in Nat BY <1>7, FS_CardinalityType
  <1>9. Cardinality(S \cup {now}) = Cardinality(S) + 1 BY <1>5, <1>7, FS_AddElement
  <1> QED BY <1>3, <1>4, <1>6, <1>8, <1>9

\* The excluded days the loop subtracts as a whole, one unit later: a day is visited at the
\* hour of the transition.
LEMMA DaysStep ==
  ASSUME TimeInv, Tick
  PROVE  /\ subtractDays \in Int
         /\ subtractDays' =
              IF isExcluded(now + 1) /\ Clock(now + 1) = Clock(transition)
                THEN subtractDays + Day ELSE subtractDays
  <1> DEFINE next == now + 1
             S == {t \in Visited : isExcluded(t) /\ ~isSameDay(t, transition)}
             T == {t \in Visited' : isExcluded(t) /\ ~isSameDay(t, transition)}
             new == isExcluded(next) /\ Clock(next) = Clock(transition)
  <1>1. transition \in Nat /\ now \in Nat /\ transition <= now /\ Day \in Nat
    BY TimeAssumption DEF TimeInv
  <1>2. now' = next /\ transition' = transition /\ exclude' = exclude BY DEF Tick
  <1>3. Visited \subseteq transition .. now /\ next \notin Visited BY <1>1 DEF Visited
  <1>4. Visited' = IF (next - transition) % Day = 0 THEN Visited \cup {next} ELSE Visited
    BY <1>1, <1>2 DEF Visited
  <1>5. next \in Nat /\ transition < next BY <1>1
  <1>6. (next - transition) % Day = 0 <=> Clock(next) = Clock(transition)
    BY <1>1, <1>5, LaterHour
  <1>7. Clock(next) = Clock(transition) => ~isSameDay(next, transition)
    <2>1. Clock(transition) \in Nat BY <1>1, DayAndHour
    <2>2. Date(transition) = Date(next) => Clock(next) = Clock(transition) + (next - transition)
      BY <1>1, <1>5, LaterHour
    <2> QED BY <1>1, <1>5, <2>1, <2>2 DEF isSameDay
  <1>8. subtractDays = Day * Cardinality(S) BY DEF subtractDays
  <1>9. subtractDays' = Day * Cardinality(T)
    BY <1>2 DEF subtractDays, isExcluded, isSameDay
  <1>10. T = IF new THEN S \cup {next} ELSE S BY <1>4, <1>6, <1>7
  <1>11. S \subseteq transition .. now /\ next \notin S BY <1>3
  <1> HIDE DEF S, T, next
  <1>i. IsFiniteSet(transition .. now) BY <1>1, FS_Interval
  <1>12. IsFiniteSet(S) BY <1>11, <1>i, FS_Subset
  <1>13. Cardinality(S) \in Nat BY <1>12, FS_CardinalityType
  <1>14. Cardinality(S \cup {next}) = Cardinality(S) + 1 BY <1>11, <1>12, FS_AddElement
  <1>15. Day * (Cardinality(S) + 1) = Day * Cardinality(S) + Day BY <1>1, <1>13
  <1>16. Day * Cardinality(S) \in Int BY <1>1, <1>13
  <1> QED BY <1>8, <1>9, <1>10, <1>13, <1>14, <1>15, <1>16 DEF next

\* Initially nothing has passed, and the rest of the first day is taken in advance.
LEMMA InitTime == Init => TimeInv
  <1> SUFFICES ASSUME Init PROVE TimeInv OBVIOUS
  <1>1. transition \in Nat /\ now = transition
    <2>1. Week * Day \in Nat BY TimeAssumption
    <2> QED BY <2>1 DEF Init
  <1>2. Elapsed = 0
    <2>1. {t \in transition .. now - 1 : ~isExcluded(t)} = {} BY <1>1
    <2> QED BY <2>1, FS_EmptySet DEF Elapsed
  <1>3. subtractDays = 0
    <2>1. \A t \in Visited : t = transition BY <1>1 DEF Visited
    <2>2. {t \in Visited : isExcluded(t) /\ ~isSameDay(t, transition)} = {}
      BY <2>1 DEF isSameDay
    <2> QED BY <2>2, FS_EmptySet, TimeAssumption DEF subtractDays
  <1>4. subtractToday = 0 BY <1>1 DEF subtractToday, isSameDay
  <1>5. Clock(transition) \in Nat /\ Day \in Nat BY <1>1, DayAndHour
  <1>6. subtractFirst \in Int /\ subtractFirst = Ahead(now)
    BY <1>1, <1>5 DEF subtractFirst, Ahead, isSameDay
  <1> QED BY <1>1, <1>2, <1>3, <1>4, <1>6 DEF TimeInv, since

LEMMA TickTime == ASSUME TimeInv, Tick PROVE TimeInv'
  <1> DEFINE next == now + 1  d == Day  c == Clock(transition)
  <1>1. /\ transition \in Nat /\ now \in Nat /\ transition <= now
        /\ since = Elapsed - Ahead(now)
    BY DEF TimeInv
  <1>2. now' = next /\ transition' = transition /\ exclude' = exclude BY DEF Tick
  <1>3. next \in Nat /\ transition < next BY <1>1
  <1>4. /\ Clock(now) \in Nat /\ Clock(next) \in Nat /\ c \in Nat /\ d \in Nat /\ d > 0
        /\ c < d /\ Clock(next) < d /\ Clock(now) < d
        /\ Date(now) \in Nat /\ Date(next) \in Nat /\ Date(transition) \in Nat
    BY <1>1, <1>3, DayAndHour
  <1>5. /\ Date(transition) <= Date(now) /\ Date(transition) <= Date(next)
        /\ Date(transition) = Date(now) => Clock(now) = c + (now - transition)
    BY <1>1, <1>3, LaterHour
  <1>6. /\ Elapsed \in Nat
        /\ Elapsed' = IF isExcluded(now) THEN Elapsed ELSE Elapsed + 1
    BY ElapsedStep
  <1>7. /\ subtractDays \in Int
        /\ subtractDays' = IF isExcluded(next) /\ Clock(next) = c
                             THEN subtractDays + d ELSE subtractDays
    BY DaysStep
  <1>8. subtractFirst' = subtractFirst /\ subtractFirst \in Int
    BY <1>2, <1>4 DEF subtractFirst, isExcluded
  <1>9. subtractToday = IF Date(transition) # Date(now) /\ isExcluded(now) THEN Clock(now) ELSE 0
    BY DEF subtractToday, isSameDay
  <1>10. subtractToday' = IF Date(transition) # Date(next) /\ isExcluded(next)
                            THEN Clock(next) ELSE 0
    BY <1>2 DEF subtractToday, isSameDay, isExcluded
  <1>11. Ahead(now) = IF ~isExcluded(now) THEN 0
                      ELSE IF Date(now) = Date(transition) THEN d - Clock(now)
                      ELSE IF Clock(now) >= c THEN d ELSE 0
    BY DEF Ahead, isSameDay
  <1>12. Ahead(now)' = IF ~isExcluded(next) THEN 0
                       ELSE IF Date(next) = Date(transition) THEN d - Clock(next)
                       ELSE IF Clock(next) >= c THEN d ELSE 0
    BY <1>2 DEF Ahead, isSameDay, isExcluded
  <1>13. since = now - transition - subtractFirst - subtractDays - subtractToday BY DEF since
  <1>14. since' = next - transition - subtractFirst' - subtractDays' - subtractToday'
    BY <1>2 DEF since
  <1>15. \/ Date(next) = Date(now) /\ Clock(next) = Clock(now) + 1
         \/ Date(next) = Date(now) + 1 /\ Clock(next) = 0 /\ Clock(now) = d - 1
    BY <1>1, NextUnit
  <1>16. Date(next) = Date(now) => (isExcluded(next) <=> isExcluded(now))
    BY DEF isExcluded, Weekday
  <1> HIDE DEF next, c, d
  <1>17. since' = Elapsed' - Ahead(now)'
    <2>1. CASE Date(next) = Date(now) /\ Clock(next) = Clock(now) + 1
      BY <1>1, <1>3, <1>4, <1>5, <1>6, <1>7, <1>8, <1>9, <1>10, <1>11, <1>12, <1>13, <1>14, <1>16,
         <2>1 DEF next
    <2>2. CASE Date(next) = Date(now) + 1 /\ Clock(next) = 0 /\ Clock(now) = d - 1
      BY <1>1, <1>3, <1>4, <1>5, <1>6, <1>7, <1>8, <1>9, <1>10, <1>11, <1>12, <1>13, <1>14,
         <2>2 DEF next
    <2> QED BY <1>15, <2>1, <2>2
  <1> QED BY <1>1, <1>2, <1>3, <1>17 DEF TimeInv

LEMMA TimeInvCorrect == Spec => []TimeInv
  <1>1. TimeInv /\ [Next]_vars => TimeInv'
    <2> SUFFICES ASSUME TimeInv, [Next]_vars PROVE TimeInv' OBVIOUS
    <2>1. CASE Tick BY <2>1, TickTime
    <2>2. CASE UNCHANGED vars
      BY <2>2 DEF vars, TimeInv, since, Elapsed, Ahead, subtractFirst, subtractDays,
                  subtractToday, Visited, isExcluded, isSameDay
    <2> QED BY <2>1, <2>2 DEF Next, TimeIsUp
  <1> QED BY <1>1, InitTime, PTL DEF Spec

\* What is subtracted too much is at most a day, and never negative.
LEMMA AheadType ==
  ASSUME TimeInv
  PROVE  /\ Ahead(now) \in Nat /\ Ahead(now) <= Day /\ Elapsed \in Int /\ Day \in Nat
         /\ ~isExcluded(now) => Ahead(now) = 0
  <1>1. transition \in Nat /\ now \in Nat BY DEF TimeInv
  <1>2. Clock(now) \in Nat /\ Clock(now) < Day /\ Day \in Nat BY <1>1, DayAndHour
  <1>3. Ahead(now) \in Nat /\ Ahead(now) <= Day /\ (~isExcluded(now) => Ahead(now) = 0)
    BY <1>2 DEF Ahead
  <1>4. IsFiniteSet(transition .. now - 1) BY <1>1, FS_Interval
  <1>5. IsFiniteSet({t \in transition .. now - 1 : ~isExcluded(t)}) BY <1>4, FS_Subset
  <1>6. Elapsed \in Nat BY <1>5, FS_CardinalityType DEF Elapsed
  <1> QED BY <1>2, <1>3, <1>6

\* The node never waits less than the duration outside the excluded days, for every length
\* of day and week, every hour of the transition and every set of excluded days.
THEOREM NeverEarlyCorrect == Spec => []NeverEarly
  <1>1. TimeInv => NeverEarly
    <2> SUFFICES ASSUME TimeInv, since > Duration PROVE Elapsed > Duration
      BY DEF NeverEarly, Passed
    <2> QED BY AheadType, TimeAssumption DEF TimeInv
  <1> QED BY <1>1, TimeInvCorrect, PTL

\* On a day that counts the check passes exactly if the units that count exceed the
\* duration, in spite of what it subtracts too much on excluded days.
THEOREM ExactCorrect == Spec => []ExactOnCountedDays
  <1>1. TimeInv => ExactOnCountedDays
    <2> SUFFICES ASSUME TimeInv, ~isExcluded(now) PROVE Passed <=> Elapsed > Duration
      BY DEF ExactOnCountedDays
    <2>1. since = Elapsed BY AheadType DEF TimeInv
    <2> QED BY <2>1 DEF Passed
  <1> QED BY <1>1, TimeInvCorrect, PTL

\* The time the check takes back on excluded days is a day at most.
AtMostADayLate == Elapsed > Duration + Day => Passed

\* A check that fails again on an excluded day, as wait_backwards shows, fails for no longer
\* than until a day more than the duration has counted.
THEOREM LateCorrect == Spec => []AtMostADayLate
  <1>1. TimeInv => AtMostADayLate
    <2> SUFFICES ASSUME TimeInv, Elapsed > Duration + Day PROVE since > Duration
      BY DEF AtMostADayLate, Passed
    <2>1. since = Elapsed - Ahead(now) BY DEF TimeInv
    <2>2. Duration \in Nat BY TimeAssumption
    <2> QED BY <2>1, <2>2, AheadType
  <1> QED BY <1>1, TimeInvCorrect, PTL
=============================================================================
