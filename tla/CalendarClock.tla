---------------------------- MODULE CalendarClock ----------------------------
(***************************************************************************)
(* The reference for Calendar and Instants: a clock that only counts.  It  *)
(* goes from midnight to midnight through the Times of a day, turns the    *)
(* month and the year when they are full, and remembers when each period   *)
(* (week, week-year, month, quarter, ...) began.  At one moment it may set *)
(* a mark; from then on it counts the time, the whole months and the time  *)
(* since the last of them.  Every conversion of the translator has to      *)
(* agree with what the clock counted.                                      *)
(***************************************************************************)
EXTENDS Instants, FiniteSets

CONSTANTS
  Starts,    \* <<k, j, i>>: the clock starts on a first of January
  Span,      \* bound: the days it runs after that
  Times,     \* the moments of a day it stops at
  MarkDays,  \* the days it may set its mark on
  Watch,     \* bound: the days it runs after the mark
  Offsets    \* the zones values are shown in

\* Year 400k + 100j + 4i + 1 begins after k, j and i whole cycles of 400, 100
\* and 4 years, of 146097, 36524 and 1461 days.
ASSUME StartsAssumption == Starts \subseteq Nat \X (0 .. 3) \X (0 .. 24)
ASSUME TimesAssumption == IsFiniteSet(Times) /\ Times \subseteq 0 .. Day - 1 /\ 0 \in Times
\* Offsets are whole seconds, less than a day.
ASSUME OffsetsAssumption == \A off \in Offsets : off \in 1 - Day .. Day - 1 /\ off % Ns = 0
ASSUME BoundAssumption == Span \in Nat /\ Watch \in Nat

VARIABLES
  day,      \* the days counted
  date, weekday, time,
  began,    \* for each period, the last day it began on
  mark,     \* the moment marked, or none
  elapsed,  \* the time since the mark
  months,   \* the whole months since the mark
  rest,     \* the time since the last of them
  total     \* the duration the translator made by adding up the steps

calendar == <<day, date, weekday, began>>
stopwatch == <<elapsed, months, rest, total>>
vars == <<calendar, time, mark, stopwatch>>

NoMark == [day |-> 0]
Now == At(date, time)
StartYear(s) == 400 * s[1] + 100 * s[2] + 4 * s[3] + 1
StartDay(s) == 146097 * s[1] + 36524 * s[2] + 1461 * s[3] + 1

Periods == {"week", "weekYear", "month", "quarter", "year", "decade", "century", "millennium"}
\* Week 1 begins on the Monday between the 29th of December and the 4th of January.
Begins(p, dt, w) ==
  LET newYear == dt.month = 1 /\ dt.day = 1 IN
  CASE p = "week" -> w = 1
    [] p = "weekYear" -> /\ w = 1
                           /\ IF dt.month = 12 THEN dt.day > 28 ELSE dt.month = 1 /\ dt.day < 5
    [] p = "month" -> dt.day = 1
    [] p = "quarter" -> dt.day = 1 /\ dt.month \in {1, 4, 7, 10}
    [] p = "year" -> newYear
    [] p = "decade" -> newYear /\ dt.year % 10 = 0
    [] p = "century" -> newYear /\ dt.year % 100 = 0
    [] p = "millennium" -> newYear /\ dt.year % 1000 = 0
BeginsAt(dt, w, n) == [p \in {q \in Periods : Begins(q, dt, w)} |-> [date |-> dt, day |-> n]]

MonthIsFull == date.day = DaysInMonth(date.year, date.month)
NextDate ==
  IF ~MonthIsFull THEN [date EXCEPT !.day = @ + 1]
  ELSE IF date.month < 12 THEN D(date.year, date.month + 1, 1)
  ELSE D(date.year + 1, 1, 1)

Init ==
  /\ \E s \in Starts :
       /\ day = StartDay(s)
       /\ date = D(StartYear(s), 1, 1)
       /\ weekday = ((StartDay(s) - 1) % 7) + 1
       /\ began = BeginsAt(date, weekday, day)
  /\ time = 0
  /\ mark = NoMark
  /\ elapsed = 0 /\ months = 0 /\ rest = 0 /\ total = Zero

-----------------------------------------------------------------------------
(* The stopwatch.  A month is whole when the day and the time of the mark
   come round again, or when a month too short for that day is over. *)

Round(dt, t) == dt.day = mark.date.day /\ t = mark.time
Skipped == MonthIsFull /\ date.day < mark.date.day

Pass(dt, t, n, overMonth) ==
  IF mark = NoMark THEN UNCHANGED stopwatch
  ELSE /\ elapsed' = elapsed + n
       /\ months' = months + (IF Round(dt, t) \/ overMonth THEN 1 ELSE 0)
       /\ rest' = IF Round(dt, t) THEN 0 ELSE rest + n
       /\ total' = DurationArith(total, DurationFromMap([seconds |-> n \div Ns, nanoseconds |-> n % Ns]), FALSE)

Later == {t \in Times : t > time}
Running == mark # NoMark => elapsed < Watch * Day

Tick ==
  /\ Running
  /\ \E t \in Later :
       /\ \A u \in Later : t <= u
       /\ time' = t
       /\ Pass(date, t, t - time, FALSE)
  /\ UNCHANGED <<calendar, mark>>

Midnight ==
  /\ Running /\ Later = {}
  /\ \E s \in Starts : StartDay(s) <= day /\ day < StartDay(s) + Span
  /\ day' = day + 1
  /\ date' = NextDate
  /\ weekday' = IF weekday = 7 THEN 1 ELSE weekday + 1
  /\ began' = [p \in DOMAIN began \cup DOMAIN BeginsAt(date', weekday', day') |->
                 IF p \in DOMAIN BeginsAt(date', weekday', day')
                 THEN BeginsAt(date', weekday', day')[p] ELSE began[p]]
  /\ time' = 0
  /\ Pass(date', 0, Day - time, Skipped)
  /\ UNCHANGED mark

Mark ==
  /\ mark = NoMark /\ day \in MarkDays
  /\ mark' = [day |-> day, date |-> date, time |-> time]
  /\ UNCHANGED <<calendar, time, stopwatch>>

Next == Tick \/ Midnight \/ Mark

Spec == Init /\ [][Next]_vars

CalTypeOK ==
  /\ day \in Nat \ {0} /\ date \in Date /\ date.day <= DaysInMonth(date.year, date.month)
  /\ weekday \in 1 .. 7 /\ time \in Times
  /\ mark = NoMark \/ mark \in [day : MarkDays, date : Date, time : Times]
  /\ elapsed \in Nat /\ months \in Nat /\ rest \in Nat
  /\ total.h \in Nat /\ total.min \in 0 .. 59 /\ total.s \in 0 .. Minute - 1

-----------------------------------------------------------------------------
(* Properties of the calendar. *)

\* The number the translator gives a date is the number of days counted, and
\* it turns that number back into the date: over leap days, the centuries
\* that have none and the year 2000 that has one.
DayNumber == EpochOf(date) = day /\ FromEpoch(day) = date

\* Whatever parts the translator reads off a date (week, quarter, day of the
\* year), it builds the same date from them: the defaults a date map takes
\* from its base are the base's own.
PartsRebuild ==
  LET y == date.year
      w == IsoWeek(date)
  IN  /\ WeekToDate(w.year, w.week, w.dow) = date
      /\ QuarterToMd(y, QuarterOf(date), DayOfQuarter(date)) = date
      /\ OrdinalToMd(y, DaysBefore(y, date.month) + date.day) = date

Since(p) == day - began[p].day

\* Week, weekday, day of the year and of the quarter are those counted, and
\* each way to write a date map means the date: also the days around New Year
\* that belong to a week of the other year.
Parts ==
  [year |-> date.year, ordinal |-> Since("year") + 1, doq |-> Since("quarter") + 1,
   q |-> QuarterOf(began["quarter"].date)]
WeekParts ==
  [year |-> IF began["weekYear"].date.month = 12 THEN began["weekYear"].date.year + 1
            ELSE began["weekYear"].date.year,
   week |-> (Since("weekYear") \div 7) + 1, dow |-> weekday]
Bases == {date} \cup (IF mark = NoMark THEN {} ELSE {mark.date})
CountedParts ==
  LET y == date.year
      byDay == [year |-> y, ordinalDay |-> Parts.ordinal]
      byQuarter == [year |-> y, quarter |-> Parts.q, dayOfQuarter |-> Parts.doq]
      byMonth == [year |-> y, month |-> date.month, day |-> date.day]
  IN  /\ \A m \in {byDay, byQuarter, byMonth} :
           DateFromMap(m) = date /\ \A b \in Bases : DateFromBase(b, m) = date
      /\ "weekYear" \in DOMAIN began =>
           LET byWeek == [year |-> WeekParts.year, week |-> WeekParts.week, dayOfWeek |-> weekday]
           IN  /\ IsoWeek(date) = WeekParts
               /\ DateFromMap(byWeek) = date
               /\ \A b \in Bases : DateFromBase(b, byWeek) = date
               /\ mark # NoMark /\ day - mark.day < 8 - DayOfWeek(mark.day) =>
                    DateFromBase(mark.date, [dayOfWeek |-> weekday]) = date

\* Truncating to a period gives the midnight the period began at, and naming
\* the parts that were cut off gives the moment back.
PeriodStarts ==
  /\ \A p \in DOMAIN began : Truncate(p, Now) = At(began[p].date, 0)
  /\ Override(Truncate("week", Now), "dayOfWeek", weekday) = At(date, 0)
  /\ Override(Override(Truncate("year", Now), "month", date.month), "day", date.day) = At(date, 0)
  /\ Override(Override(Override(Truncate("day", Now), "hour", time \div Hour),
                       "minute", (time % Hour) \div Minute),
              "second", (time % Minute) \div Ns) = Truncate("second", Now)
  /\ Override(Truncate("hour", Now), "minute", (time % Hour) \div Minute) = Truncate("minute", Now)

\* Seconds before or after 1970 name the moment they count to; also the last
\* second of a day before it.  The bounds keep the numbers in 32 bits.
FromUnixExact ==
  LET d == day - UnixEpoch IN
  /\ Abs(d) < 20000 => FromUnix(d * 86400 + time \div Ns, time % Ns) = Now
  /\ Abs(d) < 2000 => FromUnixMillis(d * 86400 * Ns + time) = Now

\* The wall clock of the moment in a zone.
Local(n, t, off) ==
  IF t + off < 0 THEN At(FromEpoch(n - 1), t + off + Day)
  ELSE IF t + off >= Day THEN At(FromEpoch(n + 1), t + off - Day)
  ELSE At(FromEpoch(n), t + off)

\* The moment as it is written in each of the zones.
Shown(n, t) == {[off |-> off, at |-> Local(n, t, off)] : off \in Offsets}

\* A time moved to another zone is the same moment, if the wall clock does
\* not go back over midnight; a datetime, if it stays on its date at all.
RezoneExact ==
  LET shown == Shown(day, time) IN
  \A l, r \in shown :
    /\ Wall(l.at.time, l.off, r.off) >= 0 => RezoneTime(l.at.time, l.off, r.off) = r.at.time
    /\ l.off # 0 /\ l.at.date = r.at.date => RezoneDatetime(l.at, l.off, r.off) = r.at

-----------------------------------------------------------------------------
(* Properties of the differences. *)

\* duration.between a mark and a later moment is the whole months counted and
\* the time since the last of them, when the mark's day is in every month.  For
\* a later day of the month only the months are claimed, and not where the
\* calendar difference has no day to give up for a time before the mark's:
\* from 31 January 23:30 to 1 March 00:00 the translator counts no month.  From
\* the later moment back to the mark it is minus the time counted, when the
\* dates differ.
Length(d) == ((d.d * 24 + d.h) * 60 + d.min) * Minute + d.s
MonthsClaimed == time >= mark.time \/ mark.date.day < date.day + PreviousMonth(date)
BetweenCounts ==
  mark # NoMark =>
    LET there == Between(Val(mark), Val(Now))
        back == Between(Val(Now), Val(mark))
    IN  /\ MonthsClaimed => 12 * there.y + there.mo = months
        /\ mark.date.day <= 28 => Length(there) = rest
        /\ day # mark.day => back.y = 0 /\ back.mo = 0 /\ Length(back) = -elapsed

\* As its comment says, the calendar difference of two dates has no negative
\* part.  It has: from 31 January to 1 March it is a month and minus two days, or
\* minus one in a leap year.
DifferencePositive ==
  mark # NoMark =>
    LET diff == CalendarDiff(mark.date, date) IN diff[1] >= 0 /\ diff[2] >= 0

\* inMonths, inDays and inSeconds count whole units of the time that passed,
\* in whatever zone the two moments are written.
WholeUnits ==
  mark # NoMark =>
    /\ InMonths(Val(mark), Val(Now)) = months
    /\ LET before == {ZonedVal(s.at, s.off) : s \in Shown(mark.day, mark.time)}
           now == {ZonedVal(s.at, s.off) : s \in Shown(day, time)}
       IN  \A l \in before, r \in now :
             /\ InDays(l, r) = elapsed \div Day /\ InDays(r, l) = -(elapsed \div Day)
             /\ Length(InSeconds(l, r)) = elapsed /\ Length(InSeconds(r, l)) = -elapsed

\* However many durations the translator adds up, the sum is as long as they
\* are together: no carry from the smallest unit to the hours loses anything.
SumLength == Length(total) = elapsed

\* The sum is carried as far as it goes, with one sign for all of it, also
\* when the time is taken away from nothing, where seconds are read rounded
\* down; its components count whole units; taking it away from itself leaves
\* nothing.
SumExact ==
  LET minus == DurationArith(Zero, total, TRUE) IN
  /\ total = DaysAndTime(0, 0, 0, elapsed)
  /\ minus = DaysAndTime(0, 0, 0, -elapsed)
  /\ DurationArith(total, minus, FALSE) = Zero
  /\ Component(total, "hours") = elapsed \div Hour /\ Component(total, "minutes") = elapsed \div Minute
  /\ \A d \in {total, minus} :
       /\ Component(d, "nanoseconds") = Length(d)
       /\ Component(d, "seconds") = Length(d) \div Ns
=============================================================================
