---------------------------- MODULE TemporalText ----------------------------
(***************************************************************************)
(* Temporal texts: how the translator reads the ISO 8601 forms of dates,   *)
(* times, zones and durations, and how it builds values from maps that     *)
(* start from another value.                                               *)
(*                                                                         *)
(* A text is a record of its form (how many characters or digits, where    *)
(* the dashes, colons and the W are) and of the numbers written in it; the *)
(* readers look at the form in the order the code does.  A value is the    *)
(* text the translator prints for it.  Signed years and the names of zones *)
(* inside a text are left out.                                             *)
(***************************************************************************)
EXTENDS Instants

NoText == [digits |-> 0]
NoDate == [year |-> 0]
NoOffset == {}   \* an offset that may be missing is a set of at most one

-----------------------------------------------------------------------------
(* Dates.  num is the number that the digits after the year make up. *)

DateText(y, len, dashes, w, num) == [year |-> y, len |-> len, dashes |-> dashes, w |-> w, num |-> num]
Ymd(dt) == DateText(dt.year, 10, {4, 7}, 0, 100 * dt.month + dt.day)

ParseDateOrdinalFirst(x) ==
  LET digits == x.dashes = {} /\ x.w = 0 IN
  IF (x.len = 10 /\ {4, 7} \subseteq x.dashes) \/ (x.len = 8 /\ digits)
    THEN D(x.year, x.num \div 100, x.num % 100)
  ELSE IF (x.len = 8 /\ 4 \in x.dashes) \/ (x.len = 7 /\ digits) THEN OrdinalToMd(x.year, x.num)
  ELSE IF (x.len = 7 /\ 4 \in x.dashes) \/ (x.len = 6 /\ digits) THEN D(x.year, x.num, 1)
  ELSE IF (x.w = 5 /\ x.len >= 10) \/ (x.w = 4 /\ x.len >= 8) THEN WeekToDate(x.year, x.num \div 10, x.num % 10)
  ELSE IF x.w # 0 THEN WeekToDate(x.year, x.num, 1)
  ELSE IF x.len = 4 THEN D(x.year, 1, 1)
  ELSE NoDate
ParseDate(x) ==
  LET digits == x.dashes = {} /\ x.w = 0 IN
  IF (x.len = 10 /\ {4, 7} \subseteq x.dashes) \/ (x.len = 8 /\ digits)
    THEN D(x.year, x.num \div 100, x.num % 100)
  ELSE IF (x.len = 7 /\ 4 \in x.dashes) \/ (x.len = 6 /\ digits) THEN D(x.year, x.num, 1)
  ELSE IF x.w = 5 /\ x.len >= 8
    THEN IF x.len >= 10 /\ 8 \in x.dashes THEN WeekToDate(x.year, x.num \div 10, x.num % 10)
         ELSE WeekToDate(x.year, x.num, 1)
  ELSE IF x.w = 4 /\ x.len >= 7
    THEN IF x.len >= 8 THEN WeekToDate(x.year, x.num \div 10, x.num % 10)
         ELSE WeekToDate(x.year, x.num, 1)
  ELSE IF (x.len = 8 /\ 4 \in x.dashes) \/ (x.len = 7 /\ digits) THEN OrdinalToMd(x.year, x.num)
  ELSE IF x.len = 4 THEN D(x.year, 1, 1)
  ELSE NoDate

-----------------------------------------------------------------------------
(* Zones: none written, Z, or an offset written with 2 (+HH), 4 (+HHMM),
   5 (+HH:MM) or 8 (+HH:MM:SS) characters after its sign. *)

NoZone == [kind |-> "none"]
Z == [kind |-> "Z"]
Num(len, off, sec) == [kind |-> "num", len |-> len, off |-> off, sec |-> sec]

NormalizeTz(z) ==
  IF z.kind # "num" THEN z
  ELSE IF z.off = 0 /\ z.len # 8 THEN Z
  ELSE Num(5, z.off, 0)

\* A text without a zone is one in Z.
SplitTz(x) == IF x.zone = NoZone THEN Z ELSE x.zone

\* A timezone: entry is taken as it is written, but for seconds that are zero.
TzSuffix(z) == IF z.kind = "num" /\ z.len = 8 /\ z.sec = 0 THEN Num(5, z.off, 0) ELSE z
\* Only the form +HH:MM is understood.
ParseTzOffset(z) == IF z.kind # "num" THEN {0} ELSE IF z.len = 5 THEN {z.off} ELSE NoOffset
OrOffset(z, default) == IF ParseTzOffset(z) = NoOffset THEN default ELSE CHOOSE off \in ParseTzOffset(z) : TRUE

-----------------------------------------------------------------------------
(* Times of day.  digits are those written before a fraction (HH, HHMM or
   HHMMSS), dated says that a date and a T come before. *)

TimeText(t, digits, colons, zone, dated) ==
  [h |-> t \div Hour, min |-> (t % Hour) \div Minute, sec |-> (t % Minute) \div Ns, ns |-> t % Ns,
   digits |-> digits, colons |-> colons, zone |-> zone, dated |-> dated]
Clock(x) == x.h * Hour + x.min * Minute + x.sec * Ns + x.ns

\* The length of the text up to its zone; a fraction has one digit here.
Body(x) ==
  x.digits + (IF x.colons THEN (x.digits \div 2) - 1 ELSE 0) + (IF x.ns = 0 THEN 0 ELSE 2)

\* An offset is cut off only from the fifth character on.  HH:MM is given
\* seconds, HHMM is not.
ParseLocaltimeAsWritten(x) ==
  IF x.zone.kind = "num" /\ Body(x) < 5 THEN NoText
  ELSE [x EXCEPT !.zone = NoZone, !.colons = TRUE, !.dated = FALSE, !.digits = IF @ = 2 THEN 4 ELSE @]
ParseLocaltime(x) ==
  IF x.zone.kind = "num" /\ Body(x) < 5 THEN NoText
  ELSE [x EXCEPT !.zone = NoZone, !.colons = TRUE, !.dated = FALSE,
                 !.digits = IF x.colons THEN 6 ELSE IF @ = 2 THEN 4 ELSE @]
ParseTime(x) ==
  [ParseLocaltime([x EXCEPT !.zone = NoZone]) EXCEPT !.digits = 6, !.zone = NormalizeTz(SplitTz(x))]

\* Whether a base that is a text is in a zone: a minus has to come after the
\* eighth character, so that it is not a dash of the date.
HasZone(x) ==
  \/ x.zone.kind = "Z"
  \/ x.zone.kind = "num" /\ (x.zone.off >= 0 \/ x.dated \/ Body(x) > 8)

ParseLocaldatetime(x) ==
  [date |-> ParseDate(x.date),
   time |-> IF x.time = NoText THEN TimeText(0, 4, TRUE, NoZone, FALSE)
            ELSE ParseLocaltime([x.time EXCEPT !.zone = NoZone])]
ParseDatetime(x) ==
  [date |-> ParseDate(x.date),
   time |-> [ParseLocaltime([x.time EXCEPT !.zone = NoZone]) EXCEPT !.zone = NormalizeTz(SplitTz(x.time))]]

\* A printed time, read to be compared: the wall clock, and the offset if any.
ParseTimeNs(x) ==
  IF ~x.colons \/ (x.zone.kind = "num" /\ x.zone.len = 8) THEN NoText
  ELSE [local |-> Clock(x), off |-> IF x.zone.kind = "num" THEN x.zone.off ELSE 0, zoned |-> x.zone # NoZone]
ToVal(v) ==
  LET t == ParseTimeNs(v.time)
  IN  [date |-> v.date, local |-> t.local, utc |-> t.local - t.off, zoned |-> t.zoned]

\* A printed value, read for its parts: two digits are read where the seconds
\* should be, and in a time without seconds they are the hours of the offset.
FromIso(v) ==
  IF v.time.digits < 6 /\ v.time.zone.kind # "num" THEN NoText
  ELSE [date |-> v.date, h |-> v.time.h, min |-> v.time.min,
        sec |-> IF v.time.digits = 6 THEN v.time.sec ELSE Abs(v.time.zone.off) \div Hour,
        ns |-> v.time.ns]

\* Seconds since 1970 count the wall clock, whatever the zone.
EpochSeconds(c) == (EpochOf(c.date) - UnixEpoch) * 86400 + c.h * 3600 + c.min * 60 + c.sec
\* A part that cannot be read is missing: all of them, if the text cannot be
\* read; the nanoseconds, if no fraction is written.
ScalarProp(v, component) ==
  LET c == FromIso(v) IN
  IF c = NoText THEN {}
  ELSE CASE component = "second" -> {c.sec}
         [] component = "nanosecond" -> {c.ns} \ {0}
         [] component = "week" -> {IsoWeek(c.date).week}
         [] component = "weekYear" -> {IsoWeek(c.date).year}
         [] component = "dayOfWeek" -> {IsoWeek(c.date).dow}
         [] component = "ordinalDay" -> {EpochOf(c.date) - Epoch(c.date.year, 1, 1) + 1}
         [] component = "quarter" -> {QuarterOf(c.date)}
         [] component = "dayOfQuarter" -> {DayOfQuarter(c.date)}
         [] component = "epochSeconds" -> {EpochSeconds(c)}

-----------------------------------------------------------------------------
(* Maps.  A base is a text, or the call of a temporal function on one (the
   entry call says which); the other entries replace its parts. *)

TimeParts(x) == [h |-> x.h, min |-> x.min, sec |-> x.sec, ns |-> x.ns]
PartsOf(t) == [h |-> t \div Hour, min |-> (t % Hour) \div Minute, sec |-> (t % Minute) \div Ns, ns |-> t % Ns]
NoTime == PartsOf(0)

Overridden(p, m) ==
  [h |-> Get(m, "hour", p.h), min |-> Get(m, "minute", p.min), sec |-> Get(m, "second", p.sec),
   ns |-> Get(m, "nanosecond", p.ns)]
Printed(p, digits, zone) ==
  [h |-> p.h, min |-> p.min, sec |-> p.sec, ns |-> p.ns,
   digits |-> digits, colons |-> TRUE, zone |-> zone, dated |-> FALSE]
\* Over a base, a time on the minute is printed without seconds; without a
\* base, a time has seconds and a date-time has them when it must.
PrintOver(p, zone) == Printed(p, IF p.sec = 0 /\ p.ns = 0 THEN 4 ELSE 6, zone)
PrintTime(m, zone) == Printed(Overridden(NoTime, m), 6, zone)
PrintDatetime(m, zone) ==
  LET p == Overridden(NoTime, m)
  IN  Printed(p, IF "second" \notin DOMAIN m /\ p.ns = 0 THEN 4 ELSE 6, zone)

Call(m) == Get(m, "call", "none")
BaseTime(m, zonedCalls) ==
  LET zoned == IF Call(m) = "none" THEN HasZone(m.time) ELSE Call(m) \in zonedCalls
  IN  [zoned |-> zoned, text |-> IF zoned THEN ParseTime(m.time) ELSE ParseLocaltime(m.time)]
HasLocalBase(m) == "time" \in DOMAIN m /\ ParseLocaltime(m.time) # NoText
HasBase(m, zonedCalls) == "time" \in DOMAIN m /\ BaseTime(m, zonedCalls).text # NoText

LocaltimeFromMap(m) ==
  IF HasLocalBase(m) THEN PrintOver(Overridden(TimeParts(ParseLocaltime(m.time)), m), NoZone)
  ELSE IF "hour" \in DOMAIN m THEN PrintTime(m, NoZone)
  ELSE NoText

\* The parts of a base moved into the zone the map asks for, if the base had
\* one, and the zone that is printed.
MovedUnasked(b, m) ==
  LET from == OrOffset(b.text.zone, 0)
      zone == IF "timezone" \in DOMAIN m THEN TzSuffix(m.timezone) ELSE Z
  IN  [zone |-> zone, parts |-> PartsOf(RezoneTime(Clock(b.text), from, OrOffset(zone, from)))]
Moved(b, m) ==
  LET from == IF b.zoned THEN OrOffset(b.text.zone, 0) ELSE 0
      asked == "timezone" \in DOMAIN m
      zone == IF asked THEN TzSuffix(m.timezone) ELSE IF b.zoned THEN b.text.zone ELSE Z
      to == OrOffset(zone, from)
  IN  [zone |-> zone,
       parts |-> IF b.zoned /\ asked /\ to # from THEN PartsOf(RezoneTime(Clock(b.text), from, to))
                 ELSE TimeParts(b.text)]

OrZ(m) == IF "timezone" \in DOMAIN m THEN TzSuffix(m.timezone) ELSE Z
TimeFromMap(m) ==
  IF HasBase(m, {"time"})
  THEN LET r == Moved(BaseTime(m, {"time"}), m) IN PrintOver(Overridden(r.parts, m), r.zone)
  ELSE IF "hour" \in DOMAIN m THEN PrintTime(m, OrZ(m))
  ELSE NoText

\* The date of a date-time's map.  Its quarter begins at its first day unless
\* dayOfQuarter is given, and a dayOfWeek alone changes nothing.
DatePart(m) ==
  IF "date" \in DOMAIN m
  THEN LET base == ParseDate(m.date)
           iso == IsoWeek(base)
           year == Get(m, "year", base.year)
       IN  IF "week" \in DOMAIN m
             THEN WeekToDate(Get(m, "year", iso.year), m.week, Get(m, "dayOfWeek", iso.dow))
           ELSE IF "ordinalDay" \in DOMAIN m THEN OrdinalToMd(year, m.ordinalDay)
           ELSE IF "quarter" \in DOMAIN m THEN QuarterToMd(year, m.quarter, Get(m, "dayOfQuarter", 1))
           ELSE D(year, Get(m, "month", base.month), Get(m, "day", base.day))
  ELSE IF "year" \in DOMAIN m THEN DateFromMap(m)
  ELSE NoDate

\* A base under the key datetime is read where it stands, only with colons.
RawParts(x) == IF x.colons THEN TimeParts(x) ELSE NoTime
BaseYmd(m) ==
  LET base == ParseDate(m.datetime.date)
  IN  D(Get(m, "year", base.year), Get(m, "month", base.month), Get(m, "day", base.day))

LocaldatetimeFromMap(m) ==
  IF "datetime" \in DOMAIN m
    THEN [date |-> BaseYmd(m), time |-> PrintOver(Overridden(RawParts(m.datetime.time), m), NoZone)]
  ELSE [date |-> DatePart(m),
        time |-> IF HasLocalBase(m) THEN PrintOver(Overridden(TimeParts(ParseLocaltime(m.time)), m), NoZone)
                 ELSE PrintDatetime(m, NoZone)]

\* A text in Z, or without a zone, keeps its wall clock.
DatetimeFromMap(m) ==
  IF "datetime" \in DOMAIN m
  THEN LET x == m.datetime.time
           from == OrOffset(NormalizeTz(SplitTz(x)), 0)
           asked == "timezone" \in DOMAIN m
           zone == IF asked THEN TzSuffix(m.timezone) ELSE NormalizeTz(SplitTz(x))
           to == OrOffset(zone, from)
           p == RawParts(x)
       IN  [date |-> BaseYmd(m),
            time |-> PrintOver(Overridden(IF x.zone.kind = "num" /\ asked /\ to # from
                                          THEN PartsOf(Rewall(Clock(p), from, to)) ELSE p, m), zone)]
  ELSE [date |-> DatePart(m),
        time |-> IF HasBase(m, {"time", "datetime"})
                 THEN LET r == Moved(BaseTime(m, {"time", "datetime"}), m)
                      IN  PrintOver(Overridden(r.parts, m), r.zone)
                 ELSE PrintDatetime(m, OrZ(m))]

\* A call with a map of numbers, as the argument of truncate: the month and the
\* day of a week, an ordinal day or a quarter, in the year that is written.
TcFromExpr(m) ==
  LET dt == DateFromMap(m)
      p == Overridden(NoTime, m)
  IN  At(D(m.year, dt.month, dt.day), p.h * Hour + p.min * Minute + p.sec * Ns + p.ns)

-----------------------------------------------------------------------------
(* date(x), localtime(x), ... in a query: of a map, of a text, or of a
   variable bound to a value, which is its printed text. *)

ConstructMap(f, m) ==
  CASE f = "date" -> DateFromMap(m)
    [] f = "localtime" -> LocaltimeFromMap(m)
    [] f = "time" -> TimeFromMap(m)
    [] f = "localdatetime" -> LocaldatetimeFromMap(m)
    [] f = "datetime" -> DatetimeFromMap(m)
Construct(f, x) ==
  CASE f = "date" -> ParseDate(x.date)
    [] f = "localtime" -> ParseLocaltime(x.time)
    [] f = "time" -> ParseTime(x.time)
    [] f = "localdatetime" -> ParseLocaldatetime(x)
    [] f = "datetime" -> ParseDatetime(x)
Text(v) == [date |-> Ymd(v.date), time |-> [v.time EXCEPT !.dated = TRUE]]
ConstructOf(f, v) ==
  LET x == Text(v) IN Construct(f, IF f = "time" THEN [x EXCEPT !.time = ParseTime(@)] ELSE x)

-----------------------------------------------------------------------------
(* Durations of fractions: the numbers are counted in den-ths.  A part that
   is not whole is carried into the next smaller unit, a month being a
   twelfth of the mean year, 2629746 seconds. *)

MeanMonth == 2629746 * Ns

\* The whole part of each unit, and what is left of a second in the smallest.
CascadeWeeks(mo, d, h, min, s, den) ==
  LET ds == d * Day + Rem(mo, den) * MeanMonth
      hs == h * Hour + Rem(ds, den * Day)
      mins == min * Minute + Rem(hs, den * Minute)
  IN  [mo |-> Quo(mo, den), d |-> Quo(ds, den * Day), h |-> Quo(hs, den * Hour),
       min |-> Quo(mins, den * Minute), s |-> Quo(s + Rem(mins, den * Minute), den)]
Cascade(mo, d, h, min, s, den) ==
  LET ds == d * Day + Rem(mo, den) * MeanMonth
      hs == h * Hour + Rem(ds, den * Day)
      mins == min * Minute + Rem(hs, den * Hour)
  IN  [mo |-> Quo(mo, den), d |-> Quo(ds, den * Day), h |-> Quo(hs, den * Hour),
       min |-> Quo(mins, den * Minute), s |-> Quo(s + Rem(mins, den * Minute), den)]

\* duration('P..'): weeks become days, seconds carry into minutes; years stay.
NormalizeDuration(x, den) ==
  LET c == Cascade(x.mo, x.d + 7 * x.w, x.h, x.min, x.s, den)
      k == NsCarry(c.s)
  IN  Dur(x.y, c.mo, c.d, c.h, c.min + k[1], k[2])
\* duration('P2012-02-02T14:37:21.5')
DurationAlternative(dt, p) == Dur(dt.year, dt.month, dt.day, p.h, p.min, p.sec * Ns + p.ns)

\* A duration times num / den.
DurationMul(a, num, den) ==
  LET c == Cascade(a.mo * num + Rem(a.y * num, den) * 12, a.d * num, a.h * num, a.min * num, a.s * num, den)
      k == NsCarry(c.s)
      j == MinCarry(c.min + k[1])
  IN  Dur(Quo(a.y * num, den), c.mo, c.d, c.h + j[1], j[2], k[2])

-----------------------------------------------------------------------------
(* Named zones, as far as the table in the code knows them: offsets in winter
   and in summer, and the European rule for the change. *)

WinterSummer ==
  [Stockholm |-> <<Hour, 2 * Hour>>, London |-> <<0, Hour>>, New_York |-> <<-5 * Hour, -4 * Hour>>,
   Tokyo |-> <<9 * Hour, 9 * Hour>>]
European == {"Stockholm", "London"}

LastSundayPlain(y, m) == DaysInMonth(y, m) - DayOfWeek(Epoch(y, m, DaysInMonth(y, m)))
LastSunday(y, m) ==
  LET dow == DayOfWeek(Epoch(y, m, DaysInMonth(y, m)))
  IN  DaysInMonth(y, m) - (IF dow = 7 THEN 0 ELSE dow)

\* Clocks go forward at two and back at three, by the clock on the wall.
EuropeanSummer(zone, dt, hour) ==
  LET fall == IF dt.year >= 1996 THEN 10 ELSE 9
      sunday == LastSunday(dt.year, dt.month)
  IN  /\ zone \in European
      /\ \/ 3 < dt.month /\ dt.month < fall
         \/ dt.month = 3 /\ (dt.day > sunday \/ (dt.day = sunday /\ hour >= 2))
         \/ dt.month = fall /\ (dt.day < sunday \/ (dt.day = sunday /\ hour < 3))

\* The zone written behind a date-time; db is the offset the time zone
\* database has for it, asked first.
ZoneOn(zone, dt, hour, db) ==
  IF db # NoOffset THEN CHOOSE off \in db : TRUE
  ELSE WinterSummer[zone][IF EuropeanSummer(zone, dt, hour) THEN 2 ELSE 1]
=============================================================================
