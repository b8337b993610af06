------------------------------ MODULE Instants ------------------------------
(***************************************************************************)
(* Date-times and durations, as the translator computes them: truncation,  *)
(* a change of time zone, the differences duration.between, inMonths,      *)
(* inDays and inSeconds, sums of durations and their components.           *)
(*                                                                         *)
(* A date-time is a date and a time of day counted in the smallest unit    *)
(* (the code's nanosecond), Ns of which make a second.  The formatting and *)
(* parsing of the texts between two functions is left out, except for      *)
(* what it changes: seconds are rounded down when a duration is read.      *)
(***************************************************************************)
EXTENDS Calendar

CONSTANT Ns   \* the smallest units in a second
ASSUME NsAssumption == Ns \in Nat \ {0}

Minute == 60 * Ns
Hour == 60 * Minute
Day == 24 * Hour

\* Integer division and remainder as the code's language rounds them: to zero.
Quo(a, b) == IF a >= 0 THEN a \div b ELSE -((-a) \div b)
Rem(a, b) == a - Quo(a, b) * b

At(dt, t) == [date |-> dt, time |-> t]

-----------------------------------------------------------------------------
(* datetime.truncate(unit, value, overrides). *)

YearsPerPasted == [millennium |-> 1000, century |-> 100, decade |-> 100]
YearsPer == [millennium |-> 1000, century |-> 100, decade |-> 10]
UnitOfTime == [hour |-> Hour, minute |-> Minute, second |-> Ns]

Truncate(unit, c) ==
  LET dt == c.date IN
  CASE unit \in DOMAIN YearsPer -> At(D((dt.year \div YearsPer[unit]) * YearsPer[unit], 1, 1), 0)
    [] unit = "year" -> At(D(dt.year, 1, 1), 0)
    [] unit = "weekYear" -> At(WeekToDate(IsoWeekYear(dt), 1, 1), 0)
    [] unit = "quarter" -> At(D(dt.year, QuarterStart(QuarterOf(dt)), 1), 0)
    [] unit = "month" -> At(D(dt.year, dt.month, 1), 0)
    [] unit = "week" -> At(FromEpoch(EpochOf(dt) - (DayOfWeek(EpochOf(dt)) - 1)), 0)
    [] unit = "day" -> At(dt, 0)
    [] unit \in DOMAIN UnitOfTime -> At(dt, c.time - (c.time % UnitOfTime[unit]))

\* One entry of the overrides.  dayOfWeek counts from the date as it stands,
\* which is a Monday after a truncation to the week.
Override(c, key, n) ==
  CASE key = "year" -> [c EXCEPT !.date.year = n]
    [] key = "month" -> [c EXCEPT !.date.month = n]
    [] key = "day" -> [c EXCEPT !.date.day = n]
    [] key = "dayOfWeek" -> [c EXCEPT !.date = FromEpoch(EpochOf(@) + n - 1)]
    [] key = "hour" -> [c EXCEPT !.time = n * Hour + (@ % Hour)]
    [] key = "minute" -> [c EXCEPT !.time = @ - (@ % Hour) + n * Minute + (@ % Minute)]
    [] key = "second" -> [c EXCEPT !.time = @ - (@ % Minute) + n * Ns + (@ % Ns)]

-----------------------------------------------------------------------------
(* datetime.fromepoch and datetime.fromepochmillis. *)

UnixEpoch == 719163       \* the number of the first of January 1970

FromUnixNoBorrow(secs, ns) ==
  At(FromEpoch(Quo(secs, 86400) + UnixEpoch), (Rem(secs, 86400) % 86400) * Ns + ns)
FromUnix(secs, ns) ==
  LET before == Rem(secs, 86400) < 0
      days == Quo(secs, 86400) - (IF before THEN 1 ELSE 0)
      sec == Rem(secs, 86400) + (IF before THEN 86400 ELSE 0)
  IN  At(FromEpoch(days + UnixEpoch), sec * Ns + ns)

\* ms counts Ns to the second here, a millisecond being the smallest unit.
FromUnixMillis(ms) ==
  IF Rem(ms, Ns) < 0 THEN FromUnix(Quo(ms, Ns) - 1, Rem(ms, Ns) + Ns)
  ELSE FromUnix(Quo(ms, Ns), Rem(ms, Ns))

-----------------------------------------------------------------------------
(* time({time: t, timezone: z}) and datetime({datetime: t, timezone: z}) on
   a base with a zone of its own: the wall clock is moved by the difference
   of the two offsets.  The date of a datetime stays what it was, and one
   that ends in Z (from = 0) keeps its wall clock too. *)

Abs(n) == IF n < 0 THEN -n ELSE n
Wall(t, from, to) == Quo(t - (t % Ns) - from + to, Ns)

RezoneTimeNoWrap(t, from, to) ==
  LET s == Wall(t, from, to) IN
  Quo(s, 3600) * Hour + Abs(Quo(Rem(s, 3600), 60)) * Minute + Abs(Rem(s, 60)) * Ns + (t % Ns)
RezoneTime(t, from, to) ==
  LET s == Wall(t, from, to) IN
  (Quo(s, 3600) % 24) * Hour + Abs(Quo(Rem(s, 3600), 60)) * Minute + Abs(Rem(s, 60)) * Ns + (t % Ns)

\* The wall clock alone, as datetime does it.
Rewall(t, from, to) ==
  LET s == Wall(t, from, to) IN
  (Quo(s, 3600) % 24) * Hour + (Quo(Rem(s, 3600), 60) % 60) * Minute + (s % 60) * Ns + (t % Ns)
RezoneDatetime(c, from, to) ==
  IF from = 0 THEN c ELSE At(c.date, Rewall(c.time, from, to))

-----------------------------------------------------------------------------
(* Durations: the six components dur_fmt prints, s in the smallest unit. *)

Dur(y, mo, d, h, min, s) == [y |-> y, mo |-> mo, d |-> d, h |-> h, min |-> min, s |-> s]
Zero == Dur(0, 0, 0, 0, 0, 0)
DaysAndTime(y, mo, d, t) == Dur(y, mo, d, Quo(t, Hour), Quo(Rem(t, Hour), Minute), Rem(t, Minute))

\* A value as temporal_to_val reads it: a date has no time, a local value no zone.
Val(c) == [date |-> c.date, local |-> c.time, utc |-> c.time, zoned |-> FALSE]
ZonedVal(c, off) == [date |-> c.date, local |-> c.time, utc |-> c.time - off, zoned |-> TRUE]

TimeOf(v, w) == IF v.zoned /\ w.zoned THEN v.utc ELSE v.local
TimeDiff(l, r) == TimeOf(r, l) - TimeOf(l, r)
EpochDiff(l, r) == EpochOf(r.date) - EpochOf(l.date)

\* The days of the month before dt's.
PreviousMonth(dt) ==
  IF dt.month = 1 THEN DaysInMonth(dt.year - 1, 12) ELSE DaysInMonth(dt.year, dt.month - 1)

ThisMonth(dt) == DaysInMonth(dt.year, dt.month)
CalendarDiffThisMonth(a, b) ==
  LET short == b.day < a.day
      mo == 12 * (b.year - a.year) + (b.month - a.month) - (IF short THEN 1 ELSE 0)
  IN  <<mo, b.day - a.day + (IF short THEN ThisMonth(b) ELSE 0)>>
\* calendar_diff_pos for a not later than b, years and months as months.
CalendarDiff(a, b) ==
  LET short == b.day < a.day
      mo == 12 * (b.year - a.year) + (b.month - a.month) - (IF short THEN 1 ELSE 0)
  IN  <<mo, b.day - a.day + (IF short THEN PreviousMonth(b) ELSE 0)>>

\* A day of the calendar difference is given up for a negative time; there
\* is none to give up when the dates are the same.
Borrowed(diff, b) ==
  IF diff[2] > 0 THEN <<diff[1], diff[2] - 1>>
  ELSE IF diff[1] > 0 THEN <<diff[1] - 1, diff[2] + PreviousMonth(b) - 1>>
  ELSE diff

Between(l, r) ==
  LET t == TimeDiff(l, r)
      n == EpochDiff(l, r)
      cal == CalendarDiff(l.date, r.date)
  IN  IF n >= 0
      THEN LET c == IF t < 0 THEN Borrowed(cal, r.date) ELSE cal
           IN  DaysAndTime(Quo(c[1], 12), Rem(c[1], 12), c[2], IF t < 0 THEN t + Day ELSE t)
      ELSE IF t > 0 THEN DaysAndTime(0, 0, n + 1, t - Day)
      ELSE DaysAndTime(0, 0, n, t)

InMonthsByMonth(l, r) == 12 * (r.date.year - l.date.year) + (r.date.month - l.date.month)
InMonths(l, r) ==
  LET raw == 12 * (r.date.year - l.date.year) + (r.date.month - l.date.month)
      into(v, w) == v.date.day * Day + TimeOf(v, w)
  IN  IF raw >= 0 /\ into(r, l) < into(l, r) THEN raw - 1
      ELSE IF raw < 0 /\ into(r, l) > into(l, r) THEN raw + 1
      ELSE raw

InDays(l, r) == Quo(EpochDiff(l, r) * Day + TimeDiff(l, r), Day)
\* Both values have a date and a zone, or neither has a zone.
InSeconds(l, r) == DaysAndTime(0, 0, 0, EpochDiff(l, r) * Day + TimeDiff(l, r))

-----------------------------------------------------------------------------
(* Sums and components. *)

\* Carries round to zero: what is left has the sign of what was carried.
NsCarry(total) == <<Quo(Quo(total, Ns), 60), total - Quo(Quo(total, Ns), 60) * Minute>>
\* Mutant: minutes do not carry into hours.
MinCarryNone(total) == <<0, total>>
MinCarry(total) == <<Quo(total, 60), total - Quo(total, 60) * 60>>

\* duration({..}) of whole numbers; weeks become days, seconds carry into minutes.
DurationFromMap(m) ==
  LET c == NsCarry(Get(m, "seconds", 0) * Ns + Get(m, "nanoseconds", 0))
  IN  Dur(Get(m, "years", 0), Get(m, "months", 0), Get(m, "days", 0) + 7 * Get(m, "weeks", 0),
          Get(m, "hours", 0), Get(m, "minutes", 0) + c[1], c[2])

SecondsToZero(d) == Quo(d.s, Ns)
\* Seconds are read rounded down, the rest is never negative.
Seconds(d) == d.s \div Ns
SubSecond(d) == d.s % Ns

DurationArithNoCarry(a, b, subtract) ==
  LET g == IF subtract THEN -1 ELSE 1
      c == NsCarry((Seconds(a) * Ns + SubSecond(a)) + g * (Seconds(b) * Ns + SubSecond(b)))
  IN  Dur(a.y + g * b.y, a.mo + g * b.mo, a.d + g * b.d, a.h + g * b.h, MinCarry(a.min + g * b.min + c[1])[2], c[2])
DurationArith(a, b, subtract) ==
  LET g == IF subtract THEN -1 ELSE 1
      c == NsCarry((Seconds(a) * Ns + SubSecond(a)) + g * (Seconds(b) * Ns + SubSecond(b)))
      k == MinCarry(a.min + g * b.min + c[1])
  IN  Dur(a.y + g * b.y, a.mo + g * b.mo, a.d + g * b.d, a.h + g * b.h + k[1], k[2], c[2])

\* The components of days and time that duration_get_component returns.
Component(d, name) ==
  CASE name = "hours" -> d.d * 24 + d.h
    [] name = "minutes" -> (d.d * 24 + d.h) * 60 + d.min
    [] name = "seconds" -> ((d.d * 24 + d.h) * 60 + d.min) * 60 + Seconds(d)
    [] name = "nanoseconds" -> (((d.d * 24 + d.h) * 60 + d.min) * 60 + Seconds(d)) * Ns + SubSecond(d)
=============================================================================
