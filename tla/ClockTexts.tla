----------------------------- MODULE ClockTexts -----------------------------
(***************************************************************************)
(* What the temporal texts mean, at every moment of the calendar clock:    *)
(* the texts a writer of ISO 8601 has for the moment, read by the          *)
(* translator, are the moment; its own printed values, read again in each  *)
(* of the places that do so, are too; and maps that start from another     *)
(* moment and name the parts of this one arrive at this one.               *)
(***************************************************************************)
EXTENDS CalendarClock, TemporalText

\* A quarter of the mean month, into which fractions of a month are carried, is
\* a whole number of units; an offset is printed without seconds.
ASSUME TextsAssumption == Ns % 2 = 0 /\ \A off \in Offsets : off % Minute = 0

-----------------------------------------------------------------------------
(* The writer.  What a text of the present moment means does not hang on the *)
(* moment that is marked: it is read while none is.                         *)

Unmarked == mark = NoMark

ByWeek == "weekYear" \in DOMAIN began
FullDates ==
  LET y == date.year
      md == 100 * date.month + date.day
      wd == 10 * WeekParts.week + weekday
  IN  {DateText(y, 10, {4, 7}, 0, md), DateText(y, 8, {}, 0, md),
       DateText(y, 8, {4}, 0, Parts.ordinal), DateText(y, 7, {}, 0, Parts.ordinal)}
      \cup (IF ByWeek THEN {DateText(WeekParts.year, 10, {4, 8}, 5, wd), DateText(WeekParts.year, 8, {}, 4, wd)}
            ELSE {})
\* Shorter texts, with the first day of what they name.
PartialDates ==
  LET y == date.year
  IN  {<<DateText(y, 7, {4}, 0, date.month), began["month"].date>>,
       <<DateText(y, 6, {}, 0, date.month), began["month"].date>>, <<DateText(y, 4, {}, 0, 0), began["year"].date>>}
      \cup (IF ByWeek THEN {<<DateText(WeekParts.year, 8, {4}, 5, WeekParts.week), began["week"].date>>,
                             <<DateText(WeekParts.year, 7, {}, 4, WeekParts.week), began["week"].date>>}
            ELSE {})

ToMinute == time - (time % Minute)
ToHour == time - (time % Hour)
\* Texts for the time, with the time they give.
TimeTexts(zone) ==
  {<<TimeText(time, 6, TRUE, zone, FALSE), time>>, <<TimeText(time, 6, FALSE, zone, FALSE), time>>,
   <<TimeText(ToMinute, 4, TRUE, zone, FALSE), ToMinute>>, <<TimeText(ToMinute, 4, FALSE, zone, FALSE), ToMinute>>,
   <<TimeText(ToHour, 2, FALSE, zone, FALSE), ToHour>>}
ZoneTexts(off) ==
  {Num(5, off, 0), Num(4, off, 0), Num(8, off, 0), Num(8, off, 59)}
  \cup (IF off % Hour = 0 THEN {Num(2, off, 0)} ELSE {}) \cup (IF off = 0 THEN {Z, NoZone} ELSE {})

\* A moment as the translator prints it in a zone: with its seconds or, on the
\* minute and from a map, without.
PrintedZone(off) == IF off = 0 THEN Z ELSE Num(5, off, 0)
PrintedIn(l, off, digits) == [date |-> l.date, time |-> TimeText(l.time, digits, TRUE, PrintedZone(off), FALSE)]
PrintedAs(l, off) == PrintedIn(l, off, 6)
PrintedDigits(t) == IF t % Minute = 0 THEN {4, 6} ELSE {6}
PrintedForms(l, off) == {PrintedIn(l, off, digits) : digits \in PrintedDigits(l.time)}

-----------------------------------------------------------------------------
(* Properties. *)

\* Every text of ISO 8601 for a date, a time or a zone gives what it says, in
\* whatever form it is written, and a time always gets its seconds and its
\* zone: forms that differ by one dash or digit are not taken for each other.
\* What an offset has below the minute is given up, as the code says.
ParsedForms ==
  Unmarked =>
  /\ \A x \in FullDates : ParseDate(x) = date
  /\ \A t \in TimeTexts(NoZone) :
       LET v == ParseLocaldatetime([date |-> Ymd(date), time |-> t[1]])
       IN  v.date = date /\ Clock(v.time) = t[2] /\ v.time.zone = NoZone
  /\ \A x \in PartialDates : ParseDate(x[1]) = x[2]
  /\ \A off \in Offsets : \A z \in ZoneTexts(off) :
       \A x \in IF z \in {Num(2, off, 0), Num(5, off, 0)} THEN TimeTexts(z) ELSE {<<TimeText(time, 6, TRUE, z, FALSE), time>>} :
         LET whole == ParseDatetime([date |-> Ymd(date), time |-> x[1]])
             r == [local |-> x[2], off |-> off, zoned |-> TRUE]
         IN  /\ ParseTimeNs(ParseTime(x[1])) = r /\ ParseTime(x[1]).digits = 6
             /\ whole.date = date /\ ParseTimeNs(whole.time) = r

\* A printed value stands for the moment wherever its text is read again, with
\* or without its seconds: to be compared or to be turned into another kind of
\* value.  Its parts are read from a text that has its seconds.  Seconds since
\* 1970 only count from Z, and seconds can only be read from a time that was
\* not written in the basic form without them.
MomentReadBack(l, off, v) ==
  /\ ToVal(v) = ZonedVal(l, off)
  /\ ConstructOf("date", v) = l.date
  /\ ConstructOf("localtime", v) = TimeText(l.time, 6, TRUE, NoZone, FALSE)
  /\ HasZone(Text(v).time) /\ ConstructOf("time", v) = PrintedAs(l, off).time
  /\ ConstructOf("localdatetime", v) = [PrintedAs(l, off) EXCEPT !.time.zone = NoZone]
  /\ ConstructOf("datetime", v) = PrintedAs(l, off)
SecondsReadBack(v) == ScalarProp(v, "second") = {(time % Minute) \div Ns} /\ ScalarProp(v, "nanosecond") = {time % Ns} \ {0}
PartsReadBack(v) ==
  /\ ScalarProp(v, "ordinalDay") = {Parts.ordinal} /\ ScalarProp(v, "dayOfWeek") = {weekday}
  /\ ScalarProp(v, "quarter") = {Parts.q} /\ ScalarProp(v, "dayOfQuarter") = {Parts.doq}
  /\ ByWeek => ScalarProp(v, "week") = {WeekParts.week} /\ ScalarProp(v, "weekYear") = {WeekParts.year}
  /\ Abs(day - UnixEpoch) < 20000 => \E s \in ScalarProp(v, "epochSeconds") : FromUnix(s, time % Ns) = Now
SecondRead(x) ==
  x[1].colons => ScalarProp(ParseDatetime([date |-> Ymd(date), time |-> x[1]]), "second") = {(x[2] % Minute) \div Ns}
ReadBack ==
  Unmarked =>
  /\ \A shown \in Shown(day, time) :
       /\ \A v \in PrintedForms(shown.at, shown.off) : MomentReadBack(shown.at, shown.off, v)
       /\ SecondsReadBack(PrintedAs(shown.at, shown.off))
  /\ PartsReadBack(PrintedAs(Now, 0))
  /\ \A x \in TimeTexts(Num(4, -5 * Hour, 0)) : SecondRead(x)

\* A map over another moment that names the parts of this one gives this one,
\* whichever way the parts are named; a base with a zone keeps its moment when
\* the map asks for another zone, as far as RezoneExact goes, and a base with
\* none keeps its wall clock.  The argument of truncate is this moment too,
\* unless it is named by a week of another year.
NamedDates ==
  LET y == date.year
      byOrdinal == {[year |-> y, ordinalDay |-> Parts.ordinal]}
      byQuarter == {[year |-> y, quarter |-> Parts.q, dayOfQuarter |-> Parts.doq]}
      byMonth == {[year |-> y, month |-> date.month, day |-> date.day]}
      byWeek == IF ByWeek THEN {[year |-> WeekParts.year, week |-> WeekParts.week, dayOfWeek |-> weekday]} ELSE {}
  IN  byOrdinal \cup byQuarter \cup byMonth \cup byWeek
NamedTime ==
  [hour |-> time \div Hour, minute |-> (time % Hour) \div Minute, second |-> (time % Minute) \div Ns,
   nanosecond |-> time % Ns]
With(m, key, v) == [k \in DOMAIN m \cup {key} |-> IF k = key THEN v ELSE m[k]]
Both(m, n) == [k \in DOMAIN m \cup DOMAIN n |-> IF k \in DOMAIN m THEN m[k] ELSE n[k]]
BaseTimes == {TimeText(time, digits, TRUE, NoZone, FALSE) : digits \in PrintedDigits(time)}
             \cup (IF Unmarked THEN {} ELSE {TimeText(mark.time, 6, TRUE, Z, TRUE)})
DateNamed(m) == DatePart(m) = date /\ \A b \in Bases : DatePart(With(m, "date", Ymd(b))) = date
MomentNamed(m) == m.year = date.year => TcFromExpr(Both(m, NamedTime)) = Now
TimeNamed(b) ==
  LET m == With(NamedTime, "time", b)
      dated == With(m, "date", Ymd(date))
  IN  /\ Clock(ConstructMap("localtime", m)) = time
      /\ Clock(ConstructMap("time", m)) = time
      /\ Clock(ConstructMap("localdatetime", dated).time) = time
      /\ Clock(ConstructMap("datetime", dated).time) = time
WallKept(r) ==
  LET kept == [local |-> time, off |-> r, zoned |-> TRUE]
      zone == Num(5, r, 0)
  IN  \A digits \in PrintedDigits(time) :
        /\ ParseTimeNs(ConstructMap("time", [time |-> TimeText(time, digits, TRUE, NoZone, FALSE), timezone |-> zone])) = kept
        /\ \A c \in {"localtime", "localdatetime"} :
             ParseTimeNs(ConstructMap("datetime", [date |-> Ymd(date), time |-> Text(PrintedIn(Now, 0, digits)).time, call |-> c,
                                                   timezone |-> zone]).time) = kept
MovedTo(l, r) ==
  \A base \in PrintedForms(l.at, l.off) :
    LET asked == Num(5, r.off, 0)
        dated == Text(base).time
        moved == [local |-> r.at.time, off |-> r.off, zoned |-> TRUE]
    IN  /\ Wall(l.at.time, l.off, r.off) >= 0 =>
             ParseTimeNs(ConstructMap("time", [time |-> dated, timezone |-> asked])) = moved
        /\ l.at.date = r.at.date =>
             LET byParts == ConstructMap("datetime", [date |-> Ymd(l.at.date), time |-> dated, timezone |-> asked])
                 whole == ConstructMap("datetime", [datetime |-> Text(base), timezone |-> asked])
             IN  /\ byParts.date = r.at.date /\ ParseTimeNs(byParts.time) = moved
                 /\ l.off # 0 => whole.date = r.at.date /\ ParseTimeNs(whole.time) = moved
MapsRebuild ==
  /\ \A m \in NamedDates : DateNamed(m)
  /\ \A b \in BaseTimes : TimeNamed(b)
  /\ Unmarked =>
       /\ \A x \in FullDates : DatePart([date |-> x]) = date
       /\ \A m \in NamedDates : MomentNamed(m)
       /\ \A r \in Offsets : WallKept(r)
       /\ \A l, r \in Shown(day, time) : l # r => MovedTo(l, r)

\* A duration written with fractions is as long as they say, with its whole
\* months apart, and reading it again changes nothing; so is a multiple of a
\* duration.  The two ways to write a duration agree.
Quarters(mo, w, d, h, min, s) == [y |-> 0, mo |-> mo, w |-> w, d |-> d, h |-> h, min |-> min, s |-> s]
Again(d) == Quarters(4 * d.mo, 0, 4 * d.d, 4 * d.h, 4 * d.min, 4 * d.s)
FractionsKept(q) ==
  LET x == Quarters(4 * months + q, q, 4 * (rest \div Day), q, 4 * PartsOf(time).min + q, 4 * (time % Minute))
      r == NormalizeDuration(x, 4)
  IN  /\ r.mo = Quo(4 * months + q, 4)
      /\ 4 * Length(r) = Rem(x.mo, 4) * MeanMonth + (x.d + 7 * x.w) * Day + x.h * Hour + x.min * Minute + x.s
      /\ NormalizeDuration(Again(r), 4) = r
Multiplied(num, den) == Length(DurationMul(total, num, den)) = Quo(elapsed * num, den)
MonthsHalved ==
  LET b == Between(Val(mark), Val(Now))
      half == DurationMul(b, 1, 2)
  IN  12 * half.y + half.mo = (12 * b.y + b.mo) \div 2
FormsAgree ==
  LET p == PartsOf(time) IN
    DurationAlternative(date, p) =
      [NormalizeDuration(Quarters(4 * date.month, 0, 4 * date.day, 4 * p.h, 4 * p.min, 4 * (time % Minute)), 4)
         EXCEPT !.y = date.year]
DurationTexts ==
  /\ \A q \in -3 .. 3 : FractionsKept(q)
  /\ \A num \in {-3, -1, 1, 3} : \A den \in {2, 4} : Multiplied(num, den)
  /\ mark # NoMark => MonthsHalved
  /\ FormsAgree

\* Central European time, when the time zone database does not know the zone,
\* at every hour of every day from 1981 on: summer begins at two on the last
\* Sunday of March and ends at three on the last Sunday of September, from 1996
\* on of October; the last Sundays are those the clock counted.
SundaysLeft == date.day + (IF weekday = 7 THEN 7 ELSE 7 - weekday) <= DaysInMonth(date.year, date.month)
AfterChange(hour, at) == ~SundaysLeft /\ (weekday = 7 => hour >= at)
Summer(hour) ==
  LET fall == IF date.year > 1995 THEN 10 ELSE 9
  IN  /\ date.month >= 3 /\ (date.month = 3 => AfterChange(hour, 2))
      /\ date.month <= fall /\ (date.month = fall => ~AfterChange(hour, 3))
SummerTime ==
  date.year > 1980 =>
    \A hour \in 0 .. 23 :
      ZoneOn("Stockholm", date, hour, NoOffset) = (IF Summer(hour) THEN 2 * Hour ELSE Hour)
=============================================================================
