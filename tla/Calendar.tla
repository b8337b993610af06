------------------------------ MODULE Calendar ------------------------------
(***************************************************************************)
(* The calendar arithmetic the translator does itself when it evaluates    *)
(* date(), date.truncate(), datetime.fromepoch() and the week, quarter and *)
(* ordinal forms of a date map: src/.../translator/cypher/temporal.rs.     *)
(* Dates are proleptic Gregorian, from the year 1 on; a date is the triple *)
(* the code passes around, not the text it prints.                         *)
(***************************************************************************)
EXTENDS Integers, Sequences

Date == [year : Nat \ {0}, month : 1 .. 12, day : 1 .. 31]
D(y, m, d) == [year |-> y, month |-> m, day |-> d]

IsLeap(y) == (y % 4 = 0 /\ y % 100 # 0) \/ y % 400 = 0

DaysInMonth(y, m) ==
  IF m \in {1, 3, 5, 7, 8, 10, 12} THEN 31
  ELSE IF m # 2 THEN 30
  ELSE IF IsLeap(y) THEN 29 ELSE 28

\* The days of the year before month m: the sum the code's loops add up.
DaysBefore(y, m) ==
  <<0, 31, 59, 90, 120, 151, 181, 212, 243, 273, 304, 334, 365>>[m]
    + (IF m > 2 /\ IsLeap(y) THEN 1 ELSE 0)

\* The month the n-th day of year y falls in; 13 when the year is shorter.
MonthOf(y, n) ==
  CHOOSE m \in 1 .. 13 :
    /\ DaysBefore(y, m) < n
    /\ m # 13 => n <= DaysBefore(y, m + 1)

-----------------------------------------------------------------------------
(* Days are numbered from the first of January of the year 1, a Monday. *)

EpochNoCentury(y, m, d) ==
  365 * (y - 1) + ((y - 1) \div 4) + ((y - 1) \div 400) + DaysBefore(y, m) + d
Epoch(y, m, d) ==
  365 * (y - 1) + ((y - 1) \div 4) - ((y - 1) \div 100) + ((y - 1) \div 400)
    + DaysBefore(y, m) + d
EpochOf(dt) == Epoch(dt.year, dt.month, dt.day)

AtMost3(n) == IF n > 3 THEN 3 ELSE n

\* The inverse of Epoch: cycles of 400, 100, 4 and 1 years are taken off.
FromEpoch(n) ==
  LET n400 == (n - 1) \div 146097
      a    == n - n400 * 146097
      n100 == AtMost3((a - 1) \div 36524)
      b    == a - n100 * 36524
      n4   == (b - 1) \div 1461
      c    == b - n4 * 1461
      n1   == AtMost3((c - 1) \div 365)
      y    == n400 * 400 + n100 * 100 + n4 * 4 + n1 + 1
      o    == c - n1 * 365
  IN  D(y, MonthOf(y, o), o - DaysBefore(y, MonthOf(y, o)))

DayOfWeek(n) == ((n - 1) % 7) + 1

-----------------------------------------------------------------------------
(* Weeks, quarters and days of the year. *)

WeekOneOfYear(y) == Epoch(y, 1, 1) - (DayOfWeek(Epoch(y, 1, 1)) - 1)
\* The Monday of week 1: the week of the fourth of January.
WeekOne(y) == Epoch(y, 1, 4) - (DayOfWeek(Epoch(y, 1, 4)) - 1)
WeekToDate(y, week, dow) == FromEpoch(WeekOne(y) + (week - 1) * 7 + (dow - 1))

\* A week belongs to the year of its Thursday.
IsoWeekYear(dt) == FromEpoch(EpochOf(dt) + (4 - DayOfWeek(EpochOf(dt)))).year
IsoWeek(dt) ==
  [year |-> IsoWeekYear(dt),
   week |-> ((EpochOf(dt) - WeekOne(IsoWeekYear(dt))) \div 7) + 1,
   dow  |-> DayOfWeek(EpochOf(dt))]

OrdinalToMd(y, ord) == D(y, MonthOf(y, ord), ord - DaysBefore(y, MonthOf(y, ord)))

QuarterStart(q) == (q - 1) * 3 + 1
\* doq is at most 92: the code's loop stops after three months.
QuarterToMd(y, q, doq) == OrdinalToMd(y, DaysBefore(y, QuarterStart(q)) + doq)

-----------------------------------------------------------------------------
(* date({..}): m maps some of the keys to numbers and may carry a base date,
   whose own parts are then the defaults. *)

Get(m, k, default) == IF k \in DOMAIN m THEN m[k] ELSE default

QuarterOf(dt) == ((dt.month - 1) \div 3) + 1
DayOfQuarterFlat(dt) == ((dt.month - 1) % 3) * 30 + dt.day
DayOfQuarter(dt) == DaysBefore(dt.year, dt.month) - DaysBefore(dt.year, QuarterStart(QuarterOf(dt))) + dt.day

DateFromBase(base, m) ==
  LET iso == IsoWeek(base)
      year == Get(m, "year", base.year)
  IN  IF DOMAIN m \cap {"week", "dayOfWeek"} # {}
      THEN WeekToDate(Get(m, "year", iso.year), Get(m, "week", iso.week), Get(m, "dayOfWeek", iso.dow))
      ELSE IF "ordinalDay" \in DOMAIN m THEN OrdinalToMd(year, m["ordinalDay"])
      ELSE IF DOMAIN m \cap {"quarter", "dayOfQuarter"} # {}
      THEN QuarterToMd(year, Get(m, "quarter", QuarterOf(base)), Get(m, "dayOfQuarter", DayOfQuarter(base)))
      ELSE D(year, Get(m, "month", base.month), Get(m, "day", base.day))

DateFromMap(m) ==
  LET year == m["year"] IN
  IF "month" \in DOMAIN m THEN D(year, m["month"], Get(m, "day", 1))
  ELSE IF "week" \in DOMAIN m THEN WeekToDate(year, m["week"], Get(m, "dayOfWeek", 1))
  ELSE IF "ordinalDay" \in DOMAIN m THEN OrdinalToMd(year, m["ordinalDay"])
  ELSE IF "quarter" \in DOMAIN m THEN QuarterToMd(year, m["quarter"], Get(m, "dayOfQuarter", 1))
  ELSE D(year, 1, 1)
=============================================================================
