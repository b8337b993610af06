------------------------------ MODULE TextProofs ------------------------------
(***************************************************************************)
(* Whatever the smallest unit is, the offsets are and however the clock    *)
(* runs: the forms the parser accepts are read as what they write, the     *)
(* forms the code prints are read again as what was printed, a moment made *)
(* from maps is the moment the maps were taken from, and summer time is in *)
(* force when the clock says so.  WeekInv, beside the inductive invariants *)
(* of CalendarProofs, ties the date to the week it is written in.          *)
(***************************************************************************)
EXTENDS CalendarProofs, ClockTexts

-----------------------------------------------------------------------------
(* Summer time. *)

\* The last Sunday of the month, seen from a day of the month: it is still to
\* come, it is that day, or it is over.
LEMMA LastSundaySeen ==
  ASSUME NEW y \in Nat \ {0}, NEW m \in 1 .. 12, NEW d \in 1 .. DaysInMonth(y, m)
  PROVE  LET w == DayOfWeek(Epoch(y, m, d))
             left == d + (IF w = 7 THEN 7 ELSE 7 - w) <= DaysInMonth(y, m)
         IN  /\ d < LastSunday(y, m) <=> left
             /\ d = LastSunday(y, m) <=> ~left /\ w = 7
             /\ LastSunday(y, m) \in Int
<1> DEFINE n == Epoch(y, m, d)
           last == DaysInMonth(y, m)
           k == last - d
           w == DayOfWeek(n)
           z == DayOfWeek(n + k)
<1>1. last \in 28 .. 31 /\ DaysBefore(y, m) \in Int
  BY DaysTypes
<1>2. d \in Int /\ 1 <= d /\ d <= last /\ k \in 0 .. 30 /\ n \in Int
  <2>1. d \in 1 .. last
    OBVIOUS
  <2> HIDE DEF last
  <2>2. d \in Int /\ 1 <= d /\ d <= last /\ k \in 0 .. 30
    BY <1>1, <2>1
  <2>3. n \in Int
    BY <1>1, <2>2 DEF Epoch
  <2> QED BY <2>2, <2>3
<1>3. Epoch(y, m, last) = n + k
  BY <1>1, <1>2 DEF Epoch
<1>4. LastSunday(y, m) = last - (IF z = 7 THEN 0 ELSE z)
  BY <1>3 DEF LastSunday
<1>5. w = ((n - 1) % 7) + 1 /\ z = (((n + k) - 1) % 7) + 1
  BY DEF DayOfWeek
<1> HIDE DEF n, last, w, z
<1>6. w \in 1 .. 7 /\ z \in 1 .. 7
  BY <1>2, <1>5
<1> DEFINE far == IF w = 7 THEN 7 ELSE 7 - w
           back == IF z = 7 THEN 0 ELSE z
<1>7. PICK q \in Int : n - 1 = 7 * q + (w - 1)
  <2> DEFINE e == (n - 1) \div 7
             r == (n - 1) % 7
  <2>1. e \in Int /\ n - 1 = 7 * e + r /\ r \in 0 .. 6
    BY <1>2
  <2>2. w = r + 1
    BY <1>5
  <2> HIDE DEF e, r
  <2>3. n - 1 = 7 * e + (w - 1)
    BY <1>2, <2>1, <2>2
  <2> QED BY <2>1, <2>3
<1>8. PICK p \in Int : (n + k) - 1 = 7 * p + (z - 1)
  <2> DEFINE e == ((n + k) - 1) \div 7
             r == ((n + k) - 1) % 7
  <2> HIDE DEF k
  <2>1. e \in Int /\ (n + k) - 1 = 7 * e + r /\ r \in 0 .. 6
    BY <1>2
  <2>2. z = r + 1
    BY <1>5
  <2> HIDE DEF e, r
  <2>3. (n + k) - 1 = 7 * e + (z - 1)
    BY <1>2, <2>1, <2>2
  <2> QED BY <2>1, <2>3
<1> DEFINE j == p - q
<1>9. j \in Int /\ w + k = 7 * j + z
  BY <1>2, <1>6, <1>7, <1>8
<1>13. last = d + k
  BY <1>1, <1>2
<1> HIDE DEF k, j
<1>10. j \in 0 .. 5
  BY <1>2, <1>6, <1>9
<1>11. \/ k < far /\ w < 7 /\ back = w + k
       \/ k < far /\ w = 7 /\ back = k
       \/ k >= far /\ back <= k - far
  <2>1. CASE w = 7
    BY <1>2, <1>6, <1>9, <1>10, <2>1
  <2>2. CASE w # 7
    BY <1>2, <1>6, <1>9, <1>10, <2>2
  <2> QED BY <2>1, <2>2
<1>12. far \in 1 .. 7 /\ back \in 0 .. 6 /\ LastSunday(y, m) = last - back
  BY <1>4, <1>6
<1> HIDE DEF far, back
<1>14. /\ d < LastSunday(y, m) <=> d + far <= last
       /\ d = LastSunday(y, m) <=> ~(d + far <= last) /\ w = 7
       /\ LastSunday(y, m) \in Int
  BY <1>1, <1>2, <1>6, <1>11, <1>12, <1>13
<1> QED BY <1>14 DEF far, w, n, last

\* Central European time, at every hour of every day from 1981 on: by the code's
\* last Sunday, and what it compares on either side of it, summer lasts from the
\* last Sunday of March to that of September, from 1996 on of October.
THEOREM SummerKept == Spec => []SummerTime
<1>1. CalInv /\ BeganInv => SummerTime
  <2> SUFFICES ASSUME CalInv, BeganInv, date.year > 1980, NEW hour \in 0 .. 23
      PROVE  ZoneOn("Stockholm", date, hour, NoOffset) = (IF Summer(hour) THEN 2 * Hour ELSE Hour)
    BY DEF SummerTime
  <2> DEFINE y == date.year
             m == date.month
             d == date.day
             last == DaysInMonth(y, m)
             sunday == LastSunday(y, m)
             fall == IF y > 1995 THEN 10 ELSE 9
  <2>1. y \in Nat \ {0} /\ m \in 1 .. 12 /\ d \in 1 .. last
    BY DEF CalInv, ValidDate
  <2>2. weekday = DayOfWeek(Epoch(y, m, d))
    BY DEF CalInv, BeganInv, EpochOf
  <2>3. last \in Int
    BY <2>1, DaysTypes
  <2>4. /\ d < sunday <=> SundaysLeft
        /\ d = sunday <=> ~SundaysLeft /\ weekday = 7
        /\ sunday \in Int
    <3> DEFINE w == DayOfWeek(Epoch(y, m, d))
               left == d + (IF w = 7 THEN 7 ELSE 7 - w) <= last
    <3>1. w = weekday /\ (left <=> SundaysLeft)
      BY <2>2 DEF SundaysLeft
    <3> HIDE DEF y, m, d
    <3>2. /\ d < sunday <=> left
          /\ d = sunday <=> ~left /\ w = 7
          /\ sunday \in Int
      BY <2>1, LastSundaySeen
    <3> HIDE DEF w, left, sunday
    <3> QED BY <3>1, <3>2
  <2>5. d \in Int
    BY <2>1, <2>3
  <2>6. Summer(hour) <=>
          /\ m >= 3 /\ (m = 3 => ~SundaysLeft /\ (weekday = 7 => hour >= 2))
          /\ m <= fall /\ (m = fall => ~(~SundaysLeft /\ (weekday = 7 => hour >= 3)))
    BY DEF Summer, AfterChange
  <2>7. EuropeanSummer("Stockholm", date, hour) <=>
          LET f == IF y >= 1996 THEN 10 ELSE 9 IN
          \/ 3 < m /\ m < f
          \/ m = 3 /\ (d > sunday \/ (d = sunday /\ hour >= 2))
          \/ m = f /\ (d < sunday \/ (d = sunday /\ hour < 3))
    BY DEF EuropeanSummer, European
  <2>8. ZoneOn("Stockholm", date, hour, NoOffset)
          = (IF EuropeanSummer("Stockholm", date, hour) THEN 2 * Hour ELSE Hour)
    BY DEF ZoneOn, WinterSummer
  <2> HIDE DEF sunday, last, y, m, d
  <2>9. Summer(hour) <=> EuropeanSummer("Stockholm", date, hour)
    BY <2>1, <2>4, <2>5, <2>6, <2>7
  <2> QED BY <2>8, <2>9
<1> QED BY <1>1, CalAlways, BeganAlways, PTL

-----------------------------------------------------------------------------
(* Texts of a time. *)

\* Texts, truth values and changes of a text under names of their own, so that
\* lemmas about them apply to any argument.
Yes == TRUE
No == FALSE
Truths == {Yes, No}
Written(t, g, c, z, d) == TimeText(t, g, c, z, d)
SetDigits(x, y) == [x EXCEPT !.digits = y]
SetColons(x, y) == [x EXCEPT !.colons = y]
SetZone(x, y) == [x EXCEPT !.zone = y]
SetDated(x, y) == [x EXCEPT !.dated = y]
Cleaned(x, z, c, d, g) == [x EXCEPT !.zone = z, !.colons = c, !.dated = d, !.digits = g]
Completed(x, g, z) == [x EXCEPT !.digits = g, !.zone = z]

\* The fields of a text.
LEMMA TextFields ==
  ASSUME NEW t, NEW g, NEW c, NEW z, NEW d, NEW x, x = Written(t, g, c, z, d)
  PROVE  /\ x.h = t \div Hour /\ x.min = (t % Hour) \div Minute /\ x.sec = (t % Minute) \div Ns /\ x.ns = t % Ns
         /\ x.digits = g /\ x.colons = c /\ x.zone = z /\ x.dated = d
         /\ TimeParts(x) = PartsOf(t)
  BY DEF Written, TimeText, TimeParts, PartsOf

\* Changing some fields of a text changes nothing else.
LEMMA TextChanged ==
  ASSUME NEW t, NEW g, NEW c, NEW z, NEW d, NEW y
  PROVE  /\ SetDigits(Written(t, g, c, z, d), y) = Written(t, y, c, z, d)
         /\ SetColons(Written(t, g, c, z, d), y) = Written(t, g, y, z, d)
         /\ SetZone(Written(t, g, c, z, d), y) = Written(t, g, c, y, d)
         /\ SetDated(Written(t, g, c, z, d), y) = Written(t, g, c, z, y)
  BY DEF Written, TimeText, SetDigits, SetColons, SetZone, SetDated

LEMMA TextCleaned ==
  ASSUME NEW t, NEW g, NEW c, NEW z, NEW d, NEW h, NEW i, NEW u, NEW v
  PROVE  /\ Cleaned(Written(t, g, c, z, d), u, i, v, h) = Written(t, h, i, u, v)
         /\ Completed(Written(t, g, c, z, d), h, u) = Written(t, h, c, u, d)
<1>1. ASSUME NEW x
      PROVE  /\ Cleaned(x, u, i, v, h) = SetDigits(SetDated(SetColons(SetZone(x, u), i), v), h)
             /\ Completed(x, h, u) = SetZone(SetDigits(x, h), u)
  BY DEF Cleaned, Completed, SetDigits, SetColons, SetZone, SetDated
<1> QED BY <1>1, TextChanged

\* A text means the time it was written for.
LEMMA TextClock ==
  ASSUME NEW t \in Nat, NEW g, NEW c, NEW z, NEW d
  PROVE  Clock(Written(t, g, c, z, d)) = t
<1> DEFINE H == (t \div Hour) * Hour
           M == ((t % Hour) \div Minute) * Minute
           S == ((t % Minute) \div Ns) * Ns
           n == t % Ns
<1>1. H \in Int /\ M \in Int /\ S \in Int /\ (H + M) + S = t - n
  BY TimeTaken
<1>2. n \in Int
  BY NsAssumption
<1>3. Clock(Written(t, g, c, z, d)) = H + M + S + n
  BY TextFields DEF Clock
<1> HIDE DEF H, M, S, n
<1> QED BY <1>1, <1>2, <1>3

LEMMA TextNotNone ==
  ASSUME NEW t, NEW g, NEW c, NEW z, NEW d
  PROVE  Written(t, g, c, z, d) # NoText
<1>1. "zone" \in DOMAIN Written(t, g, c, z, d)
  BY DEF Written, TimeText
<1>2. "zone" \notin DOMAIN NoText
  BY DEF NoText
<1> QED BY <1>1, <1>2

\* The printed texts of a time from its parts.
LEMMA PrintedText ==
  ASSUME NEW t, NEW g, NEW z
  PROVE  Printed(PartsOf(t), g, z) = Written(t, g, Yes, z, No)
  BY DEF Printed, PartsOf, Written, TimeText, Yes, No

LEMMA PrintOverText ==
  ASSUME NEW t, NEW z
  PROVE  \E g \in {4, 6} : PrintOver(PartsOf(t), z) = Written(t, g, Yes, z, No)
<1> DEFINE g == IF PartsOf(t).sec = 0 /\ PartsOf(t).ns = 0 THEN 4 ELSE 6
<1>1. PrintOver(PartsOf(t), z) = Printed(PartsOf(t), g, z) /\ g \in {4, 6}
  BY DEF PrintOver
<1> HIDE DEF g
<1> QED BY <1>1, PrintedText

-----------------------------------------------------------------------------
(* Zones. *)

\* What the zones are told apart by.
LEMMA ZoneKinds ==
  ASSUME NEW l, NEW off, NEW s
  PROVE  /\ Z.kind = "Z" /\ NoZone.kind = "none" /\ Num(l, off, s).kind = "num"
         /\ Num(l, off, s).len = l /\ Num(l, off, s).off = off /\ Num(l, off, s).sec = s
         /\ Z # NoZone /\ Num(l, off, s) # NoZone /\ Num(l, off, s) # Z
<1>1. /\ Z.kind = "Z" /\ NoZone.kind = "none" /\ Num(l, off, s).kind = "num"
      /\ Num(l, off, s).len = l /\ Num(l, off, s).off = off /\ Num(l, off, s).sec = s
  BY DEF Z, NoZone, Num
<1> QED BY <1>1

\* A zone that is none or a Z is read as a Z, an offset as its hours and
\* minutes whatever its form.
ZoneOff(z) == IF z.kind = "num" THEN z.off ELSE 0
AsRead(z) == NormalizeTz(IF z = NoZone THEN Z ELSE z)
LEMMA ZonesNormalized ==
  ASSUME NEW z, z \in {Z, NoZone} \/ \E l, off, s : z = Num(l, off, s)
  PROVE  /\ ZoneOff(AsRead(z)) = ZoneOff(z) /\ (AsRead(z) = Z \/ AsRead(z) = Num(5, ZoneOff(z), 0))
         /\ AsRead(z) # NoZone
<1> DEFINE y == AsRead(z)
<1>1. CASE z \in {Z, NoZone}
  <2>1. y = Z
    BY <1>1, ZoneKinds DEF NormalizeTz, AsRead
  <2> HIDE DEF y
  <2> QED BY <1>1, <2>1, ZoneKinds DEF ZoneOff, y
<1>2. CASE \E l, off, s : z = Num(l, off, s)
  <2>1. PICK l, off, s : z = Num(l, off, s)
    BY <1>2
  <2>2. z.kind = "num" /\ z # NoZone /\ z.off = off
    BY <2>1, ZoneKinds
  <2>3. y = IF off = 0 /\ z.len # 8 THEN Z ELSE Num(5, off, 0)
    BY <2>2 DEF NormalizeTz, AsRead
  <2> HIDE DEF y
  <2>4. ZoneOff(z) = off
    BY <2>2 DEF ZoneOff
  <2> QED BY <2>3, <2>4, ZoneKinds DEF ZoneOff, y
<1> QED BY <1>1, <1>2

\* The zone a value is printed in.
LEMMA PrintedZones ==
  ASSUME NEW off
  PROVE  /\ PrintedZone(off) = Z \/ PrintedZone(off) = Num(5, off, 0)
         /\ ZoneOff(PrintedZone(off)) = off /\ PrintedZone(off) # NoZone
         /\ AsRead(PrintedZone(off)) = PrintedZone(off)
         /\ PrintedZone(off).kind = "num" => PrintedZone(off).len = 5
<1>1. CASE off = 0
  <2>1. PrintedZone(off) = Z
    BY <1>1 DEF PrintedZone
  <2> QED BY <1>1, <2>1, ZoneKinds DEF ZoneOff, AsRead, NormalizeTz
<1>2. CASE off # 0
  <2>1. PrintedZone(off) = Num(5, off, 0)
    BY <1>2 DEF PrintedZone
  <2> QED BY <1>2, <2>1, ZoneKinds DEF ZoneOff, AsRead, NormalizeTz
<1> QED BY <1>1, <1>2

-----------------------------------------------------------------------------
(* Texts read. *)

\* A time long enough to have its offset cut off is read as a time with colons.
LEMMA LocaltimeRead ==
  ASSUME NEW t, NEW g, NEW c \in Truths, NEW z, NEW d, z.kind # "num" \/ (g \in {4, 6} /\ c = Yes),
         NEW e, e = IF c = Yes THEN 6 ELSE IF g = 2 THEN 4 ELSE g
  PROVE  /\ ParseLocaltime(Written(t, g, c, z, d)) = Written(t, e, Yes, NoZone, No)
         /\ ParseLocaltime(Written(t, g, c, z, d)) # NoText
<1> DEFINE x == Written(t, g, c, z, d)
<1>1. x.zone = z /\ x.colons = c /\ x.digits = g
  BY TextFields
<1>7. ~(x.zone.kind = "num" /\ Body(x) < 5)
  <2>1. CASE z.kind # "num"
    BY <1>1, <2>1
  <2>2. CASE g \in {4, 6} /\ c = Yes
    <3> HIDE DEF x
    <3>1. x.colons /\ x.digits \in {4, 6}
      BY <1>1, <2>2 DEF Yes
    <3>2. Body(x) = (IF x.digits = 4 THEN 5 ELSE 8) + (IF x.ns = 0 THEN 0 ELSE 2)
      BY <3>1 DEF Body
    <3> QED BY <3>2
  <2> QED BY <2>1, <2>2
<1>2. Cleaned(x, NoZone, Yes, No, e) = Written(t, e, Yes, NoZone, No)
  BY TextCleaned
<1> HIDE DEF x
<1>3. ParseLocaltime(x) = [x EXCEPT !.zone = NoZone, !.colons = TRUE, !.dated = FALSE,
                                    !.digits = IF x.colons THEN 6 ELSE IF x.digits = 2 THEN 4 ELSE x.digits]
  BY <1>7 DEF ParseLocaltime
<1>4. (IF x.colons THEN 6 ELSE IF x.digits = 2 THEN 4 ELSE x.digits) = e
  BY <1>1 DEF Truths, Yes, No
<1>5. ParseLocaltime(x) = [x EXCEPT !.zone = NoZone, !.colons = TRUE, !.dated = FALSE, !.digits = e]
  BY <1>3, <1>4
<1>6. ParseLocaltime(x) = Cleaned(x, NoZone, Yes, No, e)
  BY <1>5 DEF Cleaned, Yes, No
<1> QED BY <1>2, <1>6, TextNotNone DEF x

\* A text whose zone is cut off, read and put on again.
LEMMA ZoneCut ==
  ASSUME NEW t, NEW g, NEW c \in Truths, NEW z, NEW d,
         NEW e, e = IF c = Yes THEN 6 ELSE IF g = 2 THEN 4 ELSE g
  PROVE  /\ ParseLocaltime([Written(t, g, c, z, d) EXCEPT !.zone = NoZone]) = Written(t, e, Yes, NoZone, No)
         /\ NormalizeTz(SplitTz(Written(t, g, c, z, d))) = AsRead(z)
<1> DEFINE x == Written(t, g, c, z, d)
<1>1. SetZone(x, NoZone) = Written(t, g, c, NoZone, d)
  BY TextChanged
<1>2. ParseLocaltime(Written(t, g, c, NoZone, d)) = Written(t, e, Yes, NoZone, No)
  BY LocaltimeRead, ZoneKinds
<1>3. SplitTz(x) = IF z = NoZone THEN Z ELSE z
  BY TextFields DEF SplitTz
<1> HIDE DEF x
<1> QED BY <1>1, <1>2, <1>3 DEF SetZone, AsRead, x

LEMMA TimeRead ==
  ASSUME NEW t, NEW g, NEW c \in Truths, NEW z, NEW d
  PROVE  ParseTime(Written(t, g, c, z, d)) = Written(t, 6, Yes, AsRead(z), No)
<1> DEFINE x == Written(t, g, c, z, d)
           e == IF c = Yes THEN 6 ELSE IF g = 2 THEN 4 ELSE g
           y == Written(t, e, Yes, NoZone, No)
<1>1. ParseLocaltime([x EXCEPT !.zone = NoZone]) = y /\ NormalizeTz(SplitTz(x)) = AsRead(z)
  BY ZoneCut
<1>2. Completed(y, 6, AsRead(z)) = Written(t, 6, Yes, AsRead(z), No)
  <2> HIDE DEF e
  <2> QED BY TextCleaned
<1> HIDE DEF x, y
<1>3. ParseTime(x) = [y EXCEPT !.digits = 6, !.zone = AsRead(z)]
  BY <1>1 DEF ParseTime
<1> QED BY <1>2, <1>3 DEF Completed, x

LEMMA DatetimeRead ==
  ASSUME NEW t, NEW g, NEW c \in Truths, NEW z, NEW d,
         NEW e, e = IF c = Yes THEN 6 ELSE IF g = 2 THEN 4 ELSE g,
         NEW x, x.time = Written(t, g, c, z, d)
  PROVE  /\ ParseDatetime(x).date = ParseDate(x.date)
         /\ ParseDatetime(x).time = Written(t, e, Yes, AsRead(z), No)
         /\ ParseLocaldatetime(x).date = ParseDate(x.date)
         /\ ParseLocaldatetime(x).time = Written(t, e, Yes, NoZone, No)
<1> DEFINE w == Written(t, g, c, z, d)
           y == Written(t, e, Yes, NoZone, No)
<1>1. ParseLocaltime([w EXCEPT !.zone = NoZone]) = y /\ NormalizeTz(SplitTz(w)) = AsRead(z)
  BY ZoneCut
<1>2. SetZone(y, AsRead(z)) = Written(t, e, Yes, AsRead(z), No)
  BY TextChanged
<1>3. w # NoText
  BY TextNotNone
<1>4. x.time = w
  OBVIOUS
<1> HIDE DEF w, y
<1>5. ParseDatetime(x).date = ParseDate(x.date) /\ ParseDatetime(x).time = [y EXCEPT !.zone = AsRead(z)]
  BY <1>1, <1>4 DEF ParseDatetime
<1>6. ParseLocaldatetime(x).date = ParseDate(x.date) /\ ParseLocaldatetime(x).time = y
  BY <1>1, <1>3, <1>4 DEF ParseLocaldatetime
<1> QED BY <1>2, <1>5, <1>6 DEF SetZone, y

\* A printed time, read to be compared.
LEMMA NsRead ==
  ASSUME NEW t \in Nat, NEW g, NEW z, NEW d, z.kind = "num" => z.len # 8
  PROVE  ParseTimeNs(Written(t, g, Yes, z, d)) = [local |-> t, off |-> ZoneOff(z), zoned |-> z # NoZone]
<1> DEFINE x == Written(t, g, Yes, z, d)
<1>1. x.colons = Yes /\ x.zone = z
  BY TextFields
<1>2. Clock(x) = t
  BY TextClock
<1> HIDE DEF x
<1>3. x.colons
  BY <1>1 DEF Yes
<1> QED BY <1>1, <1>2, <1>3 DEF ParseTimeNs, ZoneOff, x

-----------------------------------------------------------------------------
(* Dates read. *)

\* What each form of a date is read as.
LEMMA DateForms ==
  ASSUME NEW y, NEW n
  PROVE  /\ ParseDate(DateText(y, 10, {4, 7}, 0, n)) = D(y, n \div 100, n % 100)
         /\ ParseDate(DateText(y, 8, {}, 0, n)) = D(y, n \div 100, n % 100)
         /\ ParseDate(DateText(y, 8, {4}, 0, n)) = OrdinalToMd(y, n)
         /\ ParseDate(DateText(y, 7, {}, 0, n)) = OrdinalToMd(y, n)
         /\ ParseDate(DateText(y, 10, {4, 8}, 5, n)) = WeekToDate(y, n \div 10, n % 10)
         /\ ParseDate(DateText(y, 8, {}, 4, n)) = WeekToDate(y, n \div 10, n % 10)
         /\ ParseDate(DateText(y, 7, {4}, 0, n)) = D(y, n, 1)
         /\ ParseDate(DateText(y, 6, {}, 0, n)) = D(y, n, 1)
         /\ ParseDate(DateText(y, 4, {}, 0, n)) = D(y, 1, 1)
         /\ ParseDate(DateText(y, 8, {4}, 5, n)) = WeekToDate(y, n, 1)
         /\ ParseDate(DateText(y, 7, {}, 4, n)) = WeekToDate(y, n, 1)
<1>1. ASSUME NEW x, NEW l, NEW s, NEW w, x = DateText(y, l, s, w, n)
      PROVE  x.year = y /\ x.len = l /\ x.dashes = s /\ x.w = w /\ x.num = n
  BY <1>1 DEF DateText
<1>2. ParseDate(DateText(y, 10, {4, 7}, 0, n)) = D(y, n \div 100, n % 100)
  <2> DEFINE x == DateText(y, 10, {4, 7}, 0, n)
  <2>1. x.year = y /\ x.len = 10 /\ x.dashes = {4, 7} /\ x.w = 0 /\ x.num = n
    BY <1>1
  <2> HIDE DEF x
  <2> QED BY <2>1 DEF ParseDate, x
<1>3. ParseDate(DateText(y, 8, {}, 0, n)) = D(y, n \div 100, n % 100)
  <2> DEFINE x == DateText(y, 8, {}, 0, n)
  <2>1. x.year = y /\ x.len = 8 /\ x.dashes = {} /\ x.w = 0 /\ x.num = n
    BY <1>1
  <2> HIDE DEF x
  <2> QED BY <2>1 DEF ParseDate, x
<1>4. ParseDate(DateText(y, 8, {4}, 0, n)) = OrdinalToMd(y, n)
  <2> DEFINE x == DateText(y, 8, {4}, 0, n)
  <2>1. x.year = y /\ x.len = 8 /\ x.dashes = {4} /\ x.w = 0 /\ x.num = n /\ x.dashes # {}
    BY <1>1
  <2> HIDE DEF x
  <2> QED BY <2>1 DEF ParseDate, x
<1>5. ParseDate(DateText(y, 7, {}, 0, n)) = OrdinalToMd(y, n)
  <2> DEFINE x == DateText(y, 7, {}, 0, n)
  <2>1. x.year = y /\ x.len = 7 /\ x.dashes = {} /\ x.w = 0 /\ x.num = n /\ 4 \notin x.dashes
    BY <1>1
  <2> HIDE DEF x
  <2> QED BY <2>1 DEF ParseDate, x
<1>6. ParseDate(DateText(y, 10, {4, 8}, 5, n)) = WeekToDate(y, n \div 10, n % 10)
  <2> DEFINE x == DateText(y, 10, {4, 8}, 5, n)
  <2>1. x.year = y /\ x.len = 10 /\ x.dashes = {4, 8} /\ x.w = 5 /\ x.num = n /\ 7 \notin x.dashes /\ x.dashes # {}
    BY <1>1
  <2> HIDE DEF x
  <2> QED BY <2>1 DEF ParseDate, x
<1>7. ParseDate(DateText(y, 8, {}, 4, n)) = WeekToDate(y, n \div 10, n % 10)
  <2> DEFINE x == DateText(y, 8, {}, 4, n)
  <2>1. x.year = y /\ x.len = 8 /\ x.dashes = {} /\ x.w = 4 /\ x.num = n
    BY <1>1
  <2> HIDE DEF x
  <2> QED BY <2>1 DEF ParseDate, x
<1>8. ParseDate(DateText(y, 7, {4}, 0, n)) = D(y, n, 1)
  <2> DEFINE x == DateText(y, 7, {4}, 0, n)
  <2>1. x.year = y /\ x.len = 7 /\ 4 \in x.dashes /\ x.w = 0 /\ x.num = n
    BY <1>1
  <2> HIDE DEF x
  <2> QED BY <2>1 DEF ParseDate, x
<1>9. ParseDate(DateText(y, 6, {}, 0, n)) = D(y, n, 1)
  <2> DEFINE x == DateText(y, 6, {}, 0, n)
  <2>1. x.year = y /\ x.len = 6 /\ x.dashes = {} /\ x.w = 0 /\ x.num = n
    BY <1>1
  <2> HIDE DEF x
  <2> QED BY <2>1 DEF ParseDate, x
<1>10. ParseDate(DateText(y, 4, {}, 0, n)) = D(y, 1, 1)
  <2> DEFINE x == DateText(y, 4, {}, 0, n)
  <2>1. x.year = y /\ x.len = 4 /\ x.dashes = {} /\ x.w = 0 /\ x.num = n
    BY <1>1
  <2> HIDE DEF x
  <2> QED BY <2>1 DEF ParseDate, x
<1>11. ParseDate(DateText(y, 8, {4}, 5, n)) = WeekToDate(y, n, 1)
  <2> DEFINE x == DateText(y, 8, {4}, 5, n)
  <2>1. x.year = y /\ x.len = 8 /\ x.w = 5 /\ x.num = n
    BY <1>1
  <2> HIDE DEF x
  <2> QED BY <2>1 DEF ParseDate, x
<1>12. ParseDate(DateText(y, 7, {}, 4, n)) = WeekToDate(y, n, 1)
  <2> DEFINE x == DateText(y, 7, {}, 4, n)
  <2>1. x.year = y /\ x.len = 7 /\ x.dashes = {} /\ x.w = 4 /\ x.num = n /\ 4 \notin x.dashes
    BY <1>1
  <2> HIDE DEF x
  <2> QED BY <2>1 DEF ParseDate, x
<1> QED BY <1>2, <1>3, <1>4, <1>5, <1>6, <1>7, <1>8, <1>9, <1>10, <1>11, <1>12

\* A date printed and read again.
LEMMA YmdRead ==
  ASSUME NEW dt, dt.month \in Int, dt.day \in 0 .. 99
  PROVE  ParseDate(Ymd(dt)) = D(dt.year, dt.month, dt.day)
<1> DEFINE n == 100 * dt.month + dt.day
<1>1. n \div 100 = dt.month /\ n % 100 = dt.day
  <2>1. \A m \in Int, d \in 0 .. 99 : (100 * m + d) \div 100 = m /\ (100 * m + d) % 100 = d
    OBVIOUS
  <2> QED BY <2>1
<1>2. ParseDate(Ymd(dt)) = D(dt.year, n \div 100, n % 100)
  BY DateForms DEF Ymd
<1> HIDE DEF n
<1> QED BY <1>1, <1>2

\* The fields of the date of any number of days.
LEMMA DayFields ==
  ASSUME NEW n \in Int
  PROVE  LET dt == FromEpoch(n)
         IN  /\ dt = D(dt.year, dt.month, dt.day)
             /\ dt.year \in Int /\ dt.month \in 1 .. 13 /\ dt.day \in 1 .. 31
<1> DEFINE n400 == (n - 1) \div 146097
           r1   == n - n400 * 146097
           n100 == AtMost3((r1 - 1) \div 36524)
           r2   == r1 - n100 * 36524
           n4   == (r2 - 1) \div 1461
           r3   == r2 - n4 * 1461
           n1   == AtMost3((r3 - 1) \div 365)
           y    == n400 * 400 + n100 * 100 + n4 * 4 + n1 + 1
           o    == r3 - n1 * 365
           m    == MonthOf(y, o)
           d    == o - DaysBefore(y, m)
<1>1. FromEpoch(n) = D(y, m, d)
  BY DEF FromEpoch
<1>2. n400 \in Int /\ r1 \in Int /\ 1 <= r1 /\ r1 <= 146097
  OBVIOUS
<1>3. r2 \in Int /\ 1 <= r2 /\ r2 <= 36525
  <2> HIDE DEF n400, r1
  <2> QED BY <1>2 DEF AtMost3
<1>4. r3 \in Int /\ 1 <= r3 /\ r3 <= 1461
  <2> HIDE DEF n400, r1, n100, r2
  <2> QED BY <1>3
<1>5. o \in Nat \ {0} /\ o <= 366
  <2> HIDE DEF n400, r1, n100, r2, n4, r3
  <2> QED BY <1>4 DEF AtMost3
<1>6. y \in Int
  BY <1>1, EpochYearInt DEF D
<1> HIDE DEF n400, r1, n100, r2, n4, r3, n1, y, o
<1>7. m \in 1 .. 13 /\ DaysBefore(y, m) < o /\ (m # 13 => o <= DaysBefore(y, m + 1))
  BY <1>5, MonthExists
<1>8. d \in 1 .. 31
  <2> DEFINE l == IF IsLeap(y) THEN 1 ELSE 0
  <2>1. l \in 0 .. 1
    OBVIOUS
  <2>2. /\ DaysBefore(y, 1) = 0 /\ DaysBefore(y, 2) = 31 /\ DaysBefore(y, 3) = 59 + l
        /\ DaysBefore(y, 4) = 90 + l /\ DaysBefore(y, 5) = 120 + l /\ DaysBefore(y, 6) = 151 + l
        /\ DaysBefore(y, 7) = 181 + l /\ DaysBefore(y, 8) = 212 + l /\ DaysBefore(y, 9) = 243 + l
        /\ DaysBefore(y, 10) = 273 + l /\ DaysBefore(y, 11) = 304 + l
        /\ DaysBefore(y, 12) = 334 + l /\ DaysBefore(y, 13) = 365 + l
    BY DEF DaysBefore
  <2> HIDE DEF l, m
  <2>3. m \in {1, 2, 3, 4, 5, 6, 7, 8, 9, 10, 11, 12, 13}
    BY <1>7
  <2> QED BY <1>5, <1>7, <2>1, <2>2, <2>3
<1> HIDE DEF m, d
<1>9. FromEpoch(n) = D(y, m, d) /\ m \in 1 .. 13
  BY <1>1, <1>7
<1> QED BY <1>6, <1>8, <1>9 DEF D

-----------------------------------------------------------------------------
(* Every form of a date. *)

\* The days of a week or of a year before the present date, as they are written.
LEMMA FullDatesRead ==
  ASSUME CalInv, BeganInv, PartsRebuild
  PROVE  /\ \A x \in FullDates : ParseDate(x) = date
         /\ ParseDate(Ymd(date)) = date
<1> DEFINE y == date.year
           m == date.month
           d == date.day
           o == Parts.ordinal
<1>1. date = D(y, m, d) /\ y \in Nat \ {0} /\ m \in 1 .. 12 /\ d \in 1 .. 31
  <2>1. ValidDate(date)
    BY DEF CalInv
  <2>2. date.day \in Int /\ 1 <= date.day /\ date.day <= 31
    BY <2>1, ValidInts
  <2> QED BY <2>1, <2>2 DEF ValidDate
<1>2. (100 * m + d) \div 100 = m /\ (100 * m + d) % 100 = d
  <2> HIDE DEF m, d
  <2> QED BY <1>1
<1>3. OrdinalToMd(y, o) = date
  BY PartsFacts DEF PartsRebuild
<1>4. ASSUME ByWeek
      PROVE  LET wd == 10 * WeekParts.week + weekday
             IN  WeekToDate(WeekParts.year, wd \div 10, wd % 10) = date
  <2> DEFINE w == WeekParts.week
             wd == 10 * w + weekday
  <2>1. IsoWeek(date) = WeekParts
    BY <1>4, WeekFacts DEF ByWeek
  <2>2. WeekToDate(WeekParts.year, w, WeekParts.dow) = date /\ WeekParts.dow = weekday
    BY <2>1 DEF PartsRebuild, WeekParts
  <2>3. w \in Int /\ weekday \in 1 .. 7
    <3>1. day \in Int /\ EpochOf(date) = day
      BY ValidInts DEF CalInv
    <3>2. weekday \in 1 .. 7
      BY <3>1 DEF BeganInv, DayOfWeek
    <3>3. w = ((day - WeekOne(IsoWeekYear(date))) \div 7) + 1
      BY <2>1, <3>1 DEF IsoWeek
    <3>4. WeekOne(IsoWeekYear(date)) \in Int
      <4>1. EpochOf(date) + (4 - DayOfWeek(EpochOf(date))) \in Int
        BY <3>1, <3>2 DEF BeganInv
      <4>2. IsoWeekYear(date) \in Int
        BY <4>1, EpochYearInt DEF IsoWeekYear
      <4> QED BY <4>2, WeekOneMonday
    <3> HIDE DEF w
    <3> QED BY <3>1, <3>2, <3>3, <3>4
  <2> HIDE DEF w
  <2>4. wd \div 10 = w /\ wd % 10 = weekday
    BY <2>3
  <2> QED BY <2>2, <2>4 DEF w
<1>5. ParseDate(Ymd(date)) = date
  BY <1>1, YmdRead
<1> DEFINE md == 100 * m + d
           wd == 10 * WeekParts.week + weekday
<1>6. \A x \in {DateText(y, 10, {4, 7}, 0, md), DateText(y, 8, {}, 0, md), DateText(y, 8, {4}, 0, o), DateText(y, 7, {}, 0, o)} :
        ParseDate(x) = date
  <2> HIDE DEF y, m, d, o, md
  <2>1. ParseDate(DateText(y, 10, {4, 7}, 0, md)) = date /\ ParseDate(DateText(y, 8, {}, 0, md)) = date
    BY <1>1, <1>2, DateForms DEF md
  <2>2. ParseDate(DateText(y, 8, {4}, 0, o)) = date /\ ParseDate(DateText(y, 7, {}, 0, o)) = date
    BY <1>3, DateForms
  <2> QED BY <2>1, <2>2
<1>7. ByWeek => \A x \in {DateText(WeekParts.year, 10, {4, 8}, 5, wd), DateText(WeekParts.year, 8, {}, 4, wd)} : ParseDate(x) = date
  <2> SUFFICES ASSUME ByWeek
               PROVE  /\ ParseDate(DateText(WeekParts.year, 10, {4, 8}, 5, wd)) = date
                      /\ ParseDate(DateText(WeekParts.year, 8, {}, 4, wd)) = date
    OBVIOUS
  <2>1. WeekToDate(WeekParts.year, wd \div 10, wd % 10) = date
    BY <1>4
  <2> HIDE DEF wd
  <2> QED BY <2>1, DateForms
<1> QED BY <1>5, <1>6, <1>7 DEF FullDates

\* A week-year begins with a week.
WeekInv == "weekYear" \in DOMAIN began => "week" \in DOMAIN began
LEMMA WeekAlways == Spec => []WeekInv
<1>0. ASSUME NEW dt, NEW w, NEW n, "weekYear" \in DOMAIN BeginsAt(dt, w, n)
      PROVE  "week" \in DOMAIN BeginsAt(dt, w, n)
  <2>1. DOMAIN BeginsAt(dt, w, n) = {q \in Periods : Begins(q, dt, w)}
    BY DEF BeginsAt
  <2>2. Begins("weekYear", dt, w) => w = 1
    BY DEF Begins
  <2>3. w = 1 => Begins("week", dt, w)
    BY DEF Begins
  <2> QED BY <1>0, <2>1, <2>2, <2>3 DEF Periods
<1>1. Init => WeekInv
  <2>1. Init => \E dt, w, n : began = BeginsAt(dt, w, n)
    BY DEF Init
  <2> QED BY <1>0, <2>1 DEF WeekInv
<1>2. WeekInv /\ [Next]_vars => WeekInv'
  <2> SUFFICES ASSUME WeekInv, [Next]_vars PROVE WeekInv'
    OBVIOUS
  <2>1. CASE Midnight
    <3>1. DOMAIN began' = DOMAIN began \cup DOMAIN BeginsAt(date', weekday', day')
      BY <2>1 DEF Midnight
    <3> QED BY <1>0, <3>1 DEF WeekInv
  <2>2. CASE began' = began
    BY <2>2 DEF WeekInv
  <2>3. Tick \/ Mark \/ UNCHANGED vars => began' = began
    BY DEF Tick, Mark, vars, calendar
  <2> QED BY <2>1, <2>2, <2>3 DEF Next
<1> QED BY <1>1, <1>2, PTL DEF Spec

\* Texts that end with a month, a year or a week give its first day.
LEMMA PartialDatesRead ==
  ASSUME CalInv, BeganInv, WeekInv
  PROVE  \A x \in PartialDates : ParseDate(x[1]) = x[2]
<1> DEFINE y == date.year
           m == date.month
           n == EpochOf(date)
           w == WeekParts.week
           wy == WeekParts.year
<1>1. began["month"].date = D(y, m, 1) /\ began["year"].date = D(y, 1, 1)
  <2>1. Begun("month", began["month"], date) /\ Begun("year", began["year"], date)
    BY DEF BeganInv
  <2> QED BY <2>1 DEF Begun, StartDate
<1>2. ASSUME ByWeek
      PROVE  WeekToDate(wy, w, 1) = began["week"].date
  <2>1. Begun("week", began["week"], date)
    BY <1>2 DEF BeganInv, WeekInv, ByWeek
  <2>2. began["week"].date = FromEpoch(n - (DayOfWeek(n) - 1))
    BY <2>1 DEF Begun, StartDate
  <2>3. IsoWeek(date) = WeekParts
    BY <1>2, WeekFacts DEF ByWeek
  <2> DEFINE o == WeekOne(wy)
  <2>4. n \in Int /\ wy \in Int
    <3>1. n \in Int
      BY ValidInts DEF CalInv
    <3>2. n + (4 - DayOfWeek(n)) \in Int
      BY <3>1 DEF DayOfWeek
    <3>3. wy = IsoWeekYear(date)
      BY <2>3 DEF IsoWeek
    <3> QED BY <3>1, <3>2, <3>3, EpochYearInt DEF IsoWeekYear
  <2>5. o \in Int /\ (o - 1) % 7 = 0
    BY <2>4, WeekOneMonday
  <2>6. w = ((n - o) \div 7) + 1
    BY <2>3 DEF IsoWeek
  <2>7. WeekToDate(wy, w, 1) = FromEpoch(o + (w - 1) * 7 + (1 - 1))
    BY DEF WeekToDate
  <2> HIDE DEF n, w, wy, o
  <2>8. o + ((((n - o) \div 7) + 1) - 1) * 7 + (DayOfWeek(n) - 1) = n
    BY <2>4, <2>5, WeeksAndDays
  <2>9. DayOfWeek(n) \in Int
    BY <2>4 DEF DayOfWeek
  <2>10. w \in Int
    BY <2>4, <2>5, <2>6
  <2>11. o + (w - 1) * 7 + (1 - 1) = n - (DayOfWeek(n) - 1)
    BY <2>4, <2>5, <2>6, <2>8, <2>9, <2>10
  <2> QED BY <2>2, <2>7, <2>11 DEF n
<1> HIDE DEF y, m, n, w, wy
<1> DEFINE days == {<<DateText(y, 7, {4}, 0, m), began["month"].date>>, <<DateText(y, 6, {}, 0, m), began["month"].date>>,
                    <<DateText(y, 4, {}, 0, 0), began["year"].date>>}
           weeks == {<<DateText(wy, 8, {4}, 5, w), began["week"].date>>, <<DateText(wy, 7, {}, 4, w), began["week"].date>>}
<1>3. PartialDates = days \cup IF ByWeek THEN weeks ELSE {}
  BY DEF PartialDates, y, m, w, wy
<1>4. \A x \in days : ParseDate(x[1]) = x[2]
  BY <1>1, DateForms
<1>5. ByWeek => \A x \in weeks : ParseDate(x[1]) = x[2]
  BY <1>2, DateForms
<1> QED BY <1>3, <1>4, <1>5

-----------------------------------------------------------------------------
(* Every form of a time and of a zone. *)

\* The texts for the time are written for a time of the day, as they say.
LEMMA TimesWritten ==
  ASSUME SumInv, NEW z, NEW x \in TimeTexts(z)
  PROVE  \E u \in Nat, g \in {2, 4, 6}, c \in Truths : x[1] = Written(u, g, c, z, No) /\ x[2] = u
<1>1. time \in Nat /\ ToMinute \in Nat /\ ToHour \in Nat
  <2>1. time \in Nat
    BY TimesBelowDay DEF SumInv
  <2>2. ASSUME NEW b \in Nat \ {0} PROVE time - (time % b) \in Nat
    BY <2>1
  <2> QED BY <2>1, <2>2, Units DEF ToMinute, ToHour
<1>2. TimeTexts(z) = {<<Written(time, 6, Yes, z, No), time>>, <<Written(time, 6, No, z, No), time>>,
                      <<Written(ToMinute, 4, Yes, z, No), ToMinute>>, <<Written(ToMinute, 4, No, z, No), ToMinute>>,
                      <<Written(ToHour, 2, No, z, No), ToHour>>}
  BY DEF TimeTexts, Written, Yes, No
<1>3. Yes \in Truths /\ No \in Truths
  BY DEF Truths
<1> QED BY <1>1, <1>2, <1>3

\* The texts for a zone are of the forms that are read, and mean its offset.
IsZone(z) == z \in {Z, NoZone} \/ \E l, off, s : z = Num(l, off, s)
LEMMA ZonesWritten ==
  ASSUME NEW off, NEW z \in ZoneTexts(off)
  PROVE  IsZone(z) /\ ZoneOff(z) = off
<1>1. z \in {Num(5, off, 0), Num(4, off, 0), Num(8, off, 0), Num(8, off, 59), Num(2, off, 0)} \/ (off = 0 /\ z \in {Z, NoZone})
  BY DEF ZoneTexts
<1>2. CASE off = 0 /\ z \in {Z, NoZone}
  BY <1>2, ZoneKinds DEF IsZone, ZoneOff
<1>3. CASE z \in {Num(5, off, 0), Num(4, off, 0), Num(8, off, 0), Num(8, off, 59), Num(2, off, 0)}
  <2>1. PICK l, s : z = Num(l, off, s)
    BY <1>3
  <2> QED BY <2>1, ZoneKinds DEF IsZone, ZoneOff
<1> QED BY <1>1, <1>2, <1>3

\* A time with a zone, read and printed again, is the same moment.
Moment(u, off) == [local |-> u, off |-> off, zoned |-> TRUE]
LEMMA ZonedTimeRead ==
  ASSUME NEW u \in Nat, NEW g \in {2, 4, 6}, NEW c \in Truths, NEW z, IsZone(z), NEW d,
         NEW x, x.time = Written(u, g, c, z, d)
  PROVE  LET r == Moment(u, ZoneOff(z))
         IN  /\ ParseTimeNs(ParseTime(x.time)) = r /\ ParseTime(x.time).digits = 6
             /\ ParseDatetime(x).date = ParseDate(x.date) /\ ParseTimeNs(ParseDatetime(x).time) = r
<1> DEFINE e == IF c = Yes THEN 6 ELSE IF g = 2 THEN 4 ELSE g
           y == AsRead(z)
<1>1. ParseTime(x.time) = Written(u, 6, Yes, y, No)
  BY TimeRead
<1>2. ParseDatetime(x).date = ParseDate(x.date) /\ ParseDatetime(x).time = Written(u, e, Yes, y, No)
  BY DatetimeRead
<1>3. ZoneOff(y) = ZoneOff(z) /\ (y = Z \/ y = Num(5, ZoneOff(z), 0)) /\ y # NoZone
  BY ZonesNormalized DEF IsZone
<1> HIDE DEF e, y
<1>4. y.kind = "num" => y.len # 8
  BY <1>3, ZoneKinds
<1>5. \A h : ParseTimeNs(Written(u, h, Yes, y, No)) = Moment(u, ZoneOff(z))
  <2> SUFFICES ASSUME NEW h PROVE ParseTimeNs(Written(u, h, Yes, y, No)) = Moment(u, ZoneOff(z))
    OBVIOUS
  <2>1. ParseTimeNs(Written(u, h, Yes, y, No)) = [local |-> u, off |-> ZoneOff(y), zoned |-> y # NoZone]
    BY <1>4, NsRead
  <2>2. (y # NoZone) = TRUE
    BY <1>3
  <2> QED BY <1>3, <2>1, <2>2 DEF Moment
<1>6. Written(u, 6, Yes, y, No).digits = 6
  BY TextFields
<1> QED BY <1>1, <1>2, <1>5, <1>6

\* For any calendar, any time of day and any offset in whole seconds, at every
\* moment the clock shows: whatever ISO 8601 text a writer has for the date, the
\* time or the zone, the readers of the code give that date, that time and that
\* offset, in the form in which the code prints them.
THEOREM FormsParsed == Spec => []ParsedForms
<1>1. CalInv /\ BeganInv /\ WeekInv /\ SumInv /\ PartsRebuild => ParsedForms
  <2> SUFFICES ASSUME CalInv, BeganInv, WeekInv, SumInv, PartsRebuild PROVE ParsedForms
    OBVIOUS
  <2>1. (\A x \in FullDates : ParseDate(x) = date) /\ ParseDate(Ymd(date)) = date
    BY FullDatesRead
  <2>2. \A x \in PartialDates : ParseDate(x[1]) = x[2]
    BY PartialDatesRead
  <2>3. ASSUME NEW t \in TimeTexts(NoZone), NEW v, v = ParseLocaldatetime([date |-> Ymd(date), time |-> t[1]])
        PROVE  v.date = date /\ Clock(v.time) = t[2] /\ v.time.zone = NoZone
    <3> DEFINE x == [date |-> Ymd(date), time |-> t[1]]
    <3>1. PICK u \in Nat, g \in {2, 4, 6}, c \in Truths : t[1] = Written(u, g, c, NoZone, No) /\ t[2] = u
      BY TimesWritten
    <3> DEFINE e == IF c = Yes THEN 6 ELSE IF g = 2 THEN 4 ELSE g
    <3>2. x.date = Ymd(date) /\ x.time = Written(u, g, c, NoZone, No)
      BY <3>1
    <3> HIDE DEF x
    <3>3. ParseLocaldatetime(x).date = ParseDate(x.date) /\ ParseLocaldatetime(x).time = Written(u, e, Yes, NoZone, No)
      BY <3>2, DatetimeRead
    <3> HIDE DEF e
    <3>4. Clock(v.time) = u /\ v.time.zone = NoZone
      BY <2>3, <3>3, TextClock, TextFields DEF x
    <3> QED BY <2>1, <2>3, <3>1, <3>2, <3>3, <3>4 DEF x
  <2>4. ASSUME NEW off \in Offsets, NEW z \in ZoneTexts(off),
               NEW x \in TimeTexts(z) \cup {<<TimeText(time, 6, TRUE, z, FALSE), time>>},
               NEW whole, whole = ParseDatetime([date |-> Ymd(date), time |-> x[1]]),
               NEW r, r = [local |-> x[2], off |-> off, zoned |-> TRUE]
        PROVE  /\ ParseTimeNs(ParseTime(x[1])) = r /\ ParseTime(x[1]).digits = 6
               /\ whole.date = date /\ ParseTimeNs(whole.time) = r
    <3> DEFINE y == [date |-> Ymd(date), time |-> x[1]]
    <3>1. x \in TimeTexts(z)
      BY DEF TimeTexts
    <3>2. PICK u \in Nat, g \in {2, 4, 6}, c \in Truths : x[1] = Written(u, g, c, z, No) /\ x[2] = u
      BY <3>1, TimesWritten
    <3>3. y.date = Ymd(date) /\ y.time = x[1]
      OBVIOUS
    <3>4. IsZone(z) /\ ZoneOff(z) = off
      BY ZonesWritten
    <3> HIDE DEF y
    <3>6. y.time = Written(u, g, c, z, No)
      BY <3>2, <3>3
    <3>5. /\ ParseTimeNs(ParseTime(y.time)) = Moment(u, ZoneOff(z))
          /\ ParseTime(y.time).digits = 6
          /\ ParseDatetime(y).date = ParseDate(y.date)
          /\ ParseTimeNs(ParseDatetime(y).time) = Moment(u, ZoneOff(z))
      BY <3>4, <3>6, ZonedTimeRead
    <3> QED BY <2>1, <2>4, <3>2, <3>3, <3>4, <3>5 DEF y, Moment
  <2> QED BY <2>1, <2>2, <2>3, <2>4, ZenonT(40) DEF ParsedForms
<1> QED BY <1>1, CalAlways, BeganAlways, WeekAlways, SumAlways, DatesRebuilt, PTL

-----------------------------------------------------------------------------
(* Printed values. *)

PrintedTime(t, g, off) == Written(t, g, Yes, PrintedZone(off), No)

\* A printed value read in each of the places that read one.
LEMMA PrintedFields ==
  ASSUME NEW l, NEW off, NEW g
  PROVE  /\ PrintedIn(l, off, g).date = l.date /\ PrintedIn(l, off, g).time = PrintedTime(l.time, g, off)
         /\ PrintedIn(l, off, g) = [date |-> l.date, time |-> PrintedTime(l.time, g, off)]
         /\ Text(PrintedIn(l, off, g)) = [date |-> Ymd(l.date), time |-> Written(l.time, g, Yes, PrintedZone(off), Yes)]
<1> DEFINE w == PrintedTime(l.time, g, off)
           v == PrintedIn(l, off, g)
<1>1. v = [date |-> l.date, time |-> w]
  BY DEF PrintedIn, PrintedTime, Written, Yes, No
<1>2. SetDated(w, Yes) = Written(l.time, g, Yes, PrintedZone(off), Yes)
  BY TextChanged DEF PrintedTime
<1> HIDE DEF w, v
<1>3. v.date = l.date /\ v.time = w
  BY <1>1
<1>4. Text(v) = [date |-> Ymd(v.date), time |-> [w EXCEPT !.dated = TRUE]]
  BY <1>3 DEF Text
<1>5. Text(v) = [date |-> Ymd(l.date), time |-> SetDated(w, Yes)]
  BY <1>3, <1>4 DEF SetDated, Yes
<1> QED BY <1>1, <1>2, <1>3, <1>5 DEF w, v

\* The forms a moment is printed in.
LEMMA FormsPrinted ==
  ASSUME NEW l, NEW off, NEW v \in PrintedForms(l, off)
  PROVE  \E g \in {4, 6} : v = PrintedIn(l, off, g)
<1>1. PICK g \in PrintedDigits(l.time) : v = PrintedIn(l, off, g)
  BY DEF PrintedForms
<1>2. g \in {4, 6}
  BY DEF PrintedDigits
<1> QED BY <1>1, <1>2

LEMMA PrintedNs ==
  ASSUME NEW t \in Nat, NEW g, NEW off, NEW d
  PROVE  ParseTimeNs(Written(t, g, Yes, PrintedZone(off), d)) = Moment(t, off)
<1> DEFINE z == PrintedZone(off)
<1>1. ZoneOff(z) = off /\ z # NoZone /\ (z.kind = "num" => z.len = 5)
  BY PrintedZones
<1> HIDE DEF z
<1>2. ParseTimeNs(Written(t, g, Yes, z, d)) = [local |-> t, off |-> ZoneOff(z), zoned |-> z # NoZone]
  BY <1>1, NsRead
<1>3. (z # NoZone) = TRUE
  BY <1>1
<1> QED BY <1>1, <1>2, <1>3 DEF z, Moment

LEMMA PrintedRead ==
  ASSUME NEW l, l.time \in Nat, ParseDate(Ymd(l.date)) = l.date, NEW off, NEW g \in {4, 6}, NEW v, v = PrintedIn(l, off, g)
  PROVE  MomentReadBack(l, off, v)
<1> DEFINE z == PrintedZone(off)
           y == PrintedTime(l.time, g, off)
           w == PrintedTime(l.time, 6, off)
           x == Text(v)
           u == Written(l.time, g, Yes, z, Yes)
           n == Written(l.time, 6, Yes, NoZone, No)
           whole == PrintedAs(l, off)
<1>1. v.date = l.date /\ v.time = y
  BY PrintedFields
<1>2. x = [date |-> Ymd(l.date), time |-> u]
  BY PrintedFields
<1>3. x.date = Ymd(l.date) /\ x.time = u
  <2> HIDE DEF x, u
  <2> QED BY <1>2
<1>4. Yes \in Truths /\ 6 = IF Yes = Yes THEN 6 ELSE IF g = 2 THEN 4 ELSE g
  BY DEF Truths
<1>5. AsRead(z) = z /\ (z = Z \/ z = Num(5, off, 0))
  BY PrintedZones
<1>6. ParseLocaltime(u) = n
  <2> HIDE DEF z
  <2> QED BY <1>4, LocaltimeRead
<1>7. ParseTime(u) = w /\ ParseTime(w) = w
  <2> HIDE DEF z
  <2>1. ParseTime(u) = Written(l.time, 6, Yes, AsRead(z), No) /\ ParseTime(Written(l.time, 6, Yes, z, No)) = Written(l.time, 6, Yes, AsRead(z), No)
    BY <1>4, TimeRead
  <2> QED BY <1>5, <2>1 DEF PrintedTime, z
<1>8. /\ ParseDatetime(x).date = l.date /\ ParseDatetime(x).time = w
      /\ ParseLocaldatetime(x).date = l.date /\ ParseLocaldatetime(x).time = n
  <2> HIDE DEF x
  <2>1. x.time = Written(l.time, g, Yes, z, Yes)
    BY <1>3
  <2> HIDE DEF z, u, w, n
  <2>2. /\ ParseDatetime(x).date = ParseDate(x.date) /\ ParseDatetime(x).time = Written(l.time, 6, Yes, AsRead(z), No)
        /\ ParseLocaldatetime(x).date = ParseDate(x.date) /\ ParseLocaldatetime(x).time = Written(l.time, 6, Yes, NoZone, No)
    BY <1>4, <2>1, DatetimeRead
  <2> QED BY <1>3, <1>5, <2>2 DEF PrintedTime, z, n, w
<1>9. ToVal(v) = ZonedVal(l, off)
  <2>1. ParseTimeNs(y) = Moment(l.time, off)
    BY PrintedNs DEF PrintedTime
  <2> HIDE DEF y
  <2>2. ParseTimeNs(v.time) = Moment(l.time, off)
    BY <1>1, <2>1
  <2> QED BY <1>1, <2>2 DEF ToVal, Moment, ZonedVal
<1>10. HasZone(x.time)
  <2>1. u.zone = z /\ u.dated = Yes
    BY TextFields
  <2> HIDE DEF u, z, x
  <2> QED BY <1>3, <1>5, <2>1, ZoneKinds DEF HasZone, Yes
<1>11. ConstructOf("time", v) = w
  <2>1. ConstructOf("time", v) = ParseTime([x EXCEPT !.time = ParseTime(@)].time)
    BY DEF ConstructOf, Construct
  <2>2. [x EXCEPT !.time = ParseTime(@)].time = w
    <3> HIDE DEF u, w, x
    <3> QED BY <1>2, <1>7
  <2> HIDE DEF x, w
  <2> QED BY <1>7, <2>1, <2>2
<1>12. /\ ConstructOf("date", v) = ParseDate(x.date) /\ ConstructOf("localtime", v) = ParseLocaltime(x.time)
       /\ ConstructOf("localdatetime", v) = ParseLocaldatetime(x) /\ ConstructOf("datetime", v) = ParseDatetime(x)
  BY DEF ConstructOf, Construct
<1>13. whole = [date |-> l.date, time |-> w] /\ whole.date = l.date /\ whole.time = w
  BY PrintedFields DEF PrintedAs
<1>14. ParseLocaldatetime(x) = [whole EXCEPT !.time.zone = NoZone]
  <2>1. SetZone(w, NoZone) = n
    BY TextChanged DEF PrintedTime
  <2>2. ParseLocaldatetime(x) = [date |-> ParseLocaldatetime(x).date, time |-> ParseLocaldatetime(x).time]
    BY DEF ParseLocaldatetime
  <2> HIDE DEF w, n, x, whole
  <2>3. [whole EXCEPT !.time.zone = NoZone] = [date |-> l.date, time |-> [w EXCEPT !.zone = NoZone]]
    BY <1>13
  <2> QED BY <1>8, <2>1, <2>2, <2>3 DEF SetZone
<1>15. ParseDatetime(x) = whole
  <2>1. ParseDatetime(x) = [date |-> ParseDatetime(x).date, time |-> ParseDatetime(x).time]
    BY DEF ParseDatetime
  <2> HIDE DEF w, x, whole
  <2> QED BY <1>8, <1>13, <2>1
<1>16. n = TimeText(l.time, 6, TRUE, NoZone, FALSE)
  BY DEF Written, Yes, No
<1> HIDE DEF z, y, w, x, u, n
<1>17. /\ HasZone(Text(v).time) /\ ConstructOf("date", v) = l.date
       /\ ConstructOf("localtime", v) = TimeText(l.time, 6, TRUE, NoZone, FALSE)
       /\ ConstructOf("time", v) = PrintedAs(l, off).time
       /\ ConstructOf("localdatetime", v) = [PrintedAs(l, off) EXCEPT !.time.zone = NoZone]
       /\ ConstructOf("datetime", v) = PrintedAs(l, off)
  <2>1. ConstructOf("localdatetime", v) = [PrintedAs(l, off) EXCEPT !.time.zone = NoZone]
    BY <1>12, <1>14
  <2>2. ConstructOf("datetime", v) = PrintedAs(l, off)
    BY <1>12, <1>15
  <2>3. ConstructOf("time", v) = PrintedAs(l, off).time
    BY <1>11, <1>13
  <2> HIDE DEF whole
  <2>4. HasZone(Text(v).time)
    BY <1>10 DEF x
  <2>5. ConstructOf("date", v) = l.date
    BY <1>3, <1>12
  <2>6. ConstructOf("localtime", v) = TimeText(l.time, 6, TRUE, NoZone, FALSE)
    BY <1>3, <1>6, <1>12, <1>16
  <2> QED BY <2>1, <2>2, <2>3, <2>4, <2>5, <2>6
<1> QED BY <1>9, <1>17 DEF MomentReadBack

\* A moment shown in a zone is on a date that can be printed, at a time of day
\* that differs by whole minutes.
LEMMA ShownMoment ==
  ASSUME NEW n \in Int, NEW t \in Times, NEW off \in Offsets, NEW l, l = Local(n, t, off)
  PROVE  /\ l.time \in Nat /\ l.time % Minute = t % Minute /\ l.time % Ns = t % Ns
         /\ ParseDate(Ymd(l.date)) = l.date
         /\ l.date = D(l.date.year, l.date.month, l.date.day)
<1> DEFINE T == t \div Ns
           f == t % Ns
           o == off \div Ns
           j == off \div Minute
           r == t % Minute
           q == t \div Minute
<1>1. T \in Nat /\ f \in 0 .. Ns - 1 /\ f \in Int /\ t = T * Ns + f /\ t \in Nat
  BY TimeSeconds, TimesBelowDay, Units
<1>2. PICK k \in Int, s \in Int : WallClock(l, n, t, off, k, s)
  BY LocalWall
<1>3. /\ s \in Nat /\ s = T + o - k * 86400 /\ l.date = FromEpoch(n + k) /\ l.time = s * Ns + f
  BY <1>2 DEF WallClock, At
<1>4. off \in Int /\ o \in Int /\ off = o * Ns
  BY LocalWall
<1>5. j \in Int /\ off = j * Minute
  <2>1. off % Minute = 0
    BY TextsAssumption
  <2>2. j \in Int /\ off = j * Minute + (off % Minute)
    BY <1>4, Units, Division
  <2>3. j * Minute \in Int
    BY <2>2, Units
  <2> HIDE DEF j
  <2> QED BY <2>1, <2>2, <2>3
<1>6. q \in Int /\ r \in 0 .. Minute - 1 /\ t = q * Minute + r
  BY <1>1, Units
<1> HIDE DEF T, f, o, j, r, q
<1>7. Minute = 60 * Ns /\ Ns \in Nat \ {0} /\ Minute \in Nat \ {0}
  BY Units DEF Minute
<1>8. l.time \in Nat /\ l.time % Ns = f
  <2>1. s * Ns \in Nat /\ f \in Nat
    BY <1>1, <1>3, <1>7
  <2>2. l.time \in Nat
    BY <1>3, <2>1
  <2> QED BY <1>1, <1>3, <1>7, <2>2, Divided
<1> DEFINE a == j - k * 1440
<1>9. a \in Int /\ a * Minute = off - k * 86400 * Ns /\ k * 86400 * Ns \in Int
  BY <1>2, <1>4, <1>5, <1>7
<1>10. l.time = t + a * Minute
  <2>1. s * Ns = T * Ns + o * Ns - k * 86400 * Ns /\ T * Ns \in Int /\ o * Ns \in Int
    BY <1>1, <1>3, <1>4, <1>7
  <2> HIDE DEF a
  <2> QED BY <1>1, <1>3, <1>4, <1>9, <2>1
<1> HIDE DEF a
<1>11. l.time = (q + a) * Minute + r /\ q + a \in Int
  <2>1. (q + a) * Minute = q * Minute + a * Minute /\ q * Minute \in Int /\ a * Minute \in Int /\ q + a \in Int
    BY <1>6, <1>7, <1>9
  <2>2. r \in Int
    BY <1>6, <1>7
  <2> QED BY <1>6, <1>10, <2>1, <2>2
<1>12. l.time % Minute = r
  <2> DEFINE b == q + a
             u == l.time
  <2>1. b \in Int /\ u \in Int /\ u = b * Minute + r
    BY <1>8, <1>11
  <2> HIDE DEF b, u
  <2>2. u % Minute = r
    BY <1>6, <1>7, <2>1, Divided
  <2> QED BY <2>2 DEF u
<1>13. n + k \in Int
  BY <1>2
<1>14. l.date = D(l.date.year, l.date.month, l.date.day) /\ l.date.month \in 1 .. 13 /\ l.date.day \in 1 .. 31
  BY <1>3, <1>13, DayFields
<1>15. ParseDate(Ymd(l.date)) = l.date
  <2>1. l.date.month \in Int /\ l.date.day \in 0 .. 99
    BY <1>14
  <2> QED BY <1>14, <2>1, YmdRead
<1> QED BY <1>8, <1>12, <1>14, <1>15 DEF f, r

\* A printed value with its seconds, read for its parts.
PrintedParts(l) ==
  [date |-> l.date, h |-> l.time \div Hour, min |-> (l.time % Hour) \div Minute,
   sec |-> (l.time % Minute) \div Ns, ns |-> l.time % Ns]
LEMMA PartsPrinted ==
  ASSUME NEW l, NEW off
  PROVE  FromIso(PrintedAs(l, off)) = PrintedParts(l) /\ PrintedParts(l) # NoText
<1> DEFINE v == PrintedAs(l, off)
           w == PrintedTime(l.time, 6, off)
<1>1. v.date = l.date /\ v.time = w
  BY PrintedFields DEF PrintedAs
<1>2. /\ w.digits = 6 /\ w.h = l.time \div Hour /\ w.min = (l.time % Hour) \div Minute
      /\ w.sec = (l.time % Minute) \div Ns /\ w.ns = l.time % Ns
  BY TextFields DEF PrintedTime
<1> HIDE DEF v, w
<1>3. FromIso(v) = [date |-> v.date, h |-> w.h, min |-> w.min, sec |-> w.sec, ns |-> w.ns]
  BY <1>1, <1>2 DEF FromIso
<1>4. PrintedParts(l) # NoText
  <2>1. "date" \in DOMAIN PrintedParts(l)
    BY DEF PrintedParts
  <2>2. "date" \notin DOMAIN NoText
    BY DEF NoText
  <2> QED BY <2>1, <2>2
<1> QED BY <1>1, <1>2, <1>3, <1>4 DEF v, PrintedParts

\* The seconds of the day, from the hours, the minutes and the seconds.
LEMMA DaySeconds ==
  ASSUME NEW t \in Nat
  PROVE  (t \div Hour) * 3600 + ((t % Hour) \div Minute) * 60 + (t % Minute) \div Ns = t \div Ns
<1> DEFINE h == t \div Hour
           i == (t % Hour) \div Minute
           s == (t % Minute) \div Ns
           f == t % Ns
           e == h * 3600 + i * 60 + s
<1>1. ((h * Hour) + i * Minute) + s * Ns = t - f
  BY TimeTaken
<1>2. h \in Int /\ i \in Int /\ s \in Int /\ f \in 0 .. Ns - 1
  <2>1. t % Hour \in Int /\ t % Minute \in Int
    BY Units
  <2> QED BY <2>1, Units
<1>3. Hour = 3600 * Ns /\ Minute = 60 * Ns /\ Ns \in Nat \ {0}
  BY Units DEF Hour, Minute
<1> HIDE DEF h, i, s, f
<1>4. e \in Int /\ e * Ns = ((h * Hour) + i * Minute) + s * Ns /\ e * Ns \in Int
  BY <1>2, <1>3
<1> HIDE DEF e
<1>5. f \in Int
  BY <1>2, <1>3
<1>6. t = e * Ns + f
  BY <1>1, <1>4, <1>5
<1>7. t \div Ns = e
  BY <1>2, <1>3, <1>4, <1>6, Divided
<1> QED BY <1>7 DEF e, h, i, s

\* In any zone of whole minutes, at every moment the clock shows: a value the
\* code has printed, with its seconds or without, is read as the same moment by
\* every function that reads one again; with its seconds, it gives back its own
\* parts, and so do the seconds since 1970 of one in Z.
THEOREM PrintedAgain == Spec => []ReadBack
<1>1. CalInv /\ BeganInv /\ SumInv /\ PartsRebuild /\ DayNumber => ReadBack
  <2> SUFFICES ASSUME CalInv, BeganInv, SumInv, PartsRebuild, DayNumber PROVE ReadBack
    OBVIOUS
  <2>1. time \in Nat /\ time \in Times /\ day \in Int /\ EpochOf(date) = day
    BY TimesBelowDay, ValidInts DEF SumInv, CalInv
  <2>2. ASSUME NEW shown \in Shown(day, time)
        PROVE  /\ \A v \in PrintedForms(shown.at, shown.off) : MomentReadBack(shown.at, shown.off, v)
               /\ SecondsReadBack(PrintedAs(shown.at, shown.off))
    <3> DEFINE off == shown.off
               l == shown.at
               v == PrintedAs(l, off)
    <3>1. off \in Offsets /\ l = Local(day, time, off)
      BY DEF Shown
    <3> HIDE DEF off, l
    <3>2. l.time \in Nat /\ l.time % Minute = time % Minute /\ l.time % Ns = time % Ns /\ ParseDate(Ymd(l.date)) = l.date
      BY <2>1, <3>1, ShownMoment
    <3>3. \A x \in PrintedForms(l, off) : MomentReadBack(l, off, x)
      BY <3>2, FormsPrinted, PrintedRead
    <3>4. SecondsReadBack(v)
      <4>1. FromIso(v) # NoText /\ FromIso(v).sec = (l.time % Minute) \div Ns /\ FromIso(v).ns = l.time % Ns
        BY PartsPrinted DEF PrintedParts
      <4> HIDE DEF v
      <4>2. ScalarProp(v, "second") = {FromIso(v).sec} /\ ScalarProp(v, "nanosecond") = {FromIso(v).ns} \ {0}
        BY <4>1 DEF ScalarProp
      <4> QED BY <3>2, <4>1, <4>2 DEF SecondsReadBack
    <3> QED BY <3>3, <3>4 DEF off, l
  <2>3. ASSUME NEW v, v = PrintedAs(Now, 0)
        PROVE  PartsReadBack(v)
    <3> DEFINE c == FromIso(v)
               e == EpochSeconds(c)
    <3>1. /\ c.date = date /\ c.h = time \div Hour /\ c.min = (time % Hour) \div Minute /\ c.sec = (time % Minute) \div Ns
          /\ c # NoText
      <4>1. Now.date = date /\ Now.time = time
        BY DEF Now, At
      <4> QED BY <2>3, <4>1, PartsPrinted DEF PrintedParts
    <3>2. /\ ScalarProp(v, "ordinalDay") = {EpochOf(date) - Epoch(date.year, 1, 1) + 1}
          /\ ScalarProp(v, "dayOfWeek") = {IsoWeek(date).dow}
          /\ ScalarProp(v, "quarter") = {QuarterOf(date)} /\ ScalarProp(v, "dayOfQuarter") = {DayOfQuarter(date)}
          /\ ScalarProp(v, "week") = {IsoWeek(date).week} /\ ScalarProp(v, "weekYear") = {IsoWeek(date).year}
          /\ ScalarProp(v, "epochSeconds") = {e}
      <4> HIDE DEF e, c
      <4>1. ScalarProp(v, "epochSeconds") = {e}
        BY <3>1 DEF ScalarProp, e, c
      <4>2. /\ ScalarProp(v, "ordinalDay") = {EpochOf(c.date) - Epoch(c.date.year, 1, 1) + 1}
            /\ ScalarProp(v, "dayOfWeek") = {IsoWeek(c.date).dow}
            /\ ScalarProp(v, "quarter") = {QuarterOf(c.date)} /\ ScalarProp(v, "dayOfQuarter") = {DayOfQuarter(c.date)}
            /\ ScalarProp(v, "week") = {IsoWeek(c.date).week} /\ ScalarProp(v, "weekYear") = {IsoWeek(c.date).year}
        BY <3>1 DEF ScalarProp, c
      <4> QED BY <3>1, <4>1, <4>2
    <3>3. EpochOf(date) - Epoch(date.year, 1, 1) + 1 = DaysBefore(date.year, date.month) + date.day
      <4> DEFINE y == date.year
                 m == date.month
                 d == date.day
      <4>1. y \in Nat \ {0} /\ m \in 1 .. 13 /\ d \in Int
        <5>1. ValidDate(date)
          BY DEF CalInv
        <5> QED BY <5>1, ValidInts DEF ValidDate
      <4>2. EpochOf(date) = Epoch(y, m, d)
        BY DEF EpochOf
      <4> HIDE DEF y, m, d
      <4>3. Epoch(y, m, d) = Epoch(y, 1, 1) + DaysBefore(y, m) + d - 1
        BY <4>1, DayOfYear
      <4>4. Epoch(y, 1, 1) \in Int /\ DaysBefore(y, m) \in Int
        BY <4>1, DaysBeforeInt, YearLength
      <4> QED BY <4>1, <4>2, <4>3, <4>4 DEF y, m, d
    <3>4. Parts.ordinal = DaysBefore(date.year, date.month) + date.day /\ Parts.doq = DayOfQuarter(date) /\ Parts.q = QuarterOf(date)
      BY PartsFacts
    <3>5. IsoWeek(date).dow = weekday
      BY <2>1 DEF IsoWeek, BeganInv
    <3>6. ByWeek => IsoWeek(date) = WeekParts
      BY WeekFacts DEF ByWeek
    <3>7. FromUnix(e, time % Ns) = Now
      <4> DEFINE s == time \div Ns
                 d == day - UnixEpoch
      <4>1. s \in Nat /\ s < 86400 /\ time = s * Ns + (time % Ns)
        BY <2>1, TimeSeconds
      <4>2. (time \div Hour) * 3600 + ((time % Hour) \div Minute) * 60 + (time % Minute) \div Ns = s
        BY <2>1, DaySeconds
      <4>3. e = d * 86400 + (time \div Hour) * 3600 + ((time % Hour) \div Minute) * 60 + (time % Minute) \div Ns
        <5> HIDE DEF c
        <5> QED BY <2>1, <3>1 DEF EpochSeconds
      <4>4. d \in Int /\ d + UnixEpoch = day
        BY <2>1 DEF UnixEpoch
      <4>5. time \div Hour \in Int /\ (time % Hour) \div Minute \in Int /\ (time % Minute) \div Ns \in Int
        <5>1. time % Hour \in Int /\ time % Minute \in Int
          BY <2>1, Units
        <5> QED BY <2>1, <5>1, Units
      <4> HIDE DEF s, d, e
      <4>6. e = d * 86400 + s
        <5> DEFINE h == time \div Hour
                   i == (time % Hour) \div Minute
                   x == (time % Minute) \div Ns
        <5> HIDE DEF h, i, x
        <5>1. h * 3600 + i * 60 + x = s /\ e = d * 86400 + h * 3600 + i * 60 + x /\ h \in Int /\ i \in Int /\ x \in Int
          BY <4>2, <4>3, <4>5 DEF h, i, x
        <5> QED BY <4>4, <5>1
      <4>7. FromUnix(e, time % Ns) = At(FromEpoch(d + UnixEpoch), s * Ns + (time % Ns))
        BY <4>1, <4>4, <4>6, FromUnixDays
      <4> QED BY <4>1, <4>4, <4>7 DEF Now, DayNumber
    <3> HIDE DEF c, e
    <3> QED BY <3>2, <3>3, <3>4, <3>5, <3>6, <3>7 DEF PartsReadBack
  <2>4. ASSUME NEW x \in TimeTexts(Num(4, -5 * Hour, 0))
        PROVE  SecondRead(x)
    <3> SUFFICES ASSUME x[1].colons
                 PROVE  ScalarProp(ParseDatetime([date |-> Ymd(date), time |-> x[1]]), "second") = {(x[2] % Minute) \div Ns}
      BY DEF SecondRead
    <3> DEFINE z == Num(4, -5 * Hour, 0)
               y == [date |-> Ymd(date), time |-> x[1]]
    <3>1. PICK u \in Nat, g \in {2, 4, 6}, c \in Truths : x[1] = Written(u, g, c, z, No) /\ x[2] = u
      BY TimesWritten
    <3>2. c = Yes
      <4>1. Written(u, g, c, z, No).colons = c
        BY TextFields
      <4>2. CASE c = No
        <5>1. Written(u, g, No, z, No).colons = No
          BY <4>1, <4>2
        <5> QED BY <3>1, <4>2, <5>1 DEF No
      <4> QED BY <4>2 DEF Truths
    <3>3. y.time = Written(u, g, c, z, No)
      BY <3>1
    <3> HIDE DEF y, z
    <3>4. ParseDatetime(y).time = Written(u, 6, Yes, AsRead(z), No)
      <4>1. 6 = IF c = Yes THEN 6 ELSE IF g = 2 THEN 4 ELSE g
        BY <3>2
      <4> HIDE <3>2
      <4> QED BY <3>3, <4>1, DatetimeRead
    <3>5. ParseDatetime(y).time.digits = 6 /\ ParseDatetime(y).time.sec = (u % Minute) \div Ns
      BY <3>4, TextFields
    <3>6. ScalarProp(ParseDatetime(y), "second") = {(u % Minute) \div Ns}
      <4> DEFINE v == ParseDatetime(y)
      <4>1. v.time.digits = 6 /\ v.time.sec = (u % Minute) \div Ns
        BY <3>5
      <4> HIDE DEF v
      <4>2. FromIso(v).sec = v.time.sec /\ FromIso(v) # NoText
        <5>1. FromIso(v) = [date |-> v.date, h |-> v.time.h, min |-> v.time.min, sec |-> v.time.sec, ns |-> v.time.ns]
          BY <4>1 DEF FromIso
        <5>2. FromIso(v).sec = v.time.sec /\ "date" \in DOMAIN FromIso(v)
          BY <5>1
        <5>3. "date" \notin DOMAIN NoText
          BY DEF NoText
        <5> QED BY <5>2, <5>3
      <4> QED BY <4>1, <4>2 DEF ScalarProp, v
    <3> QED BY <3>1, <3>6 DEF y
  <2> QED BY <2>2, <2>3, <2>4 DEF ReadBack
<1> QED BY <1>1, CalAlways, BeganAlways, SumAlways, DatesRebuilt, DaysCounted, PTL

-----------------------------------------------------------------------------
(* Maps over a base: the date. *)

\* A map that names all the parts of a date needs no base, and has no use for one.
LEMMA PartNamed ==
  ASSUME NEW m, "year" \in DOMAIN m, "date" \notin DOMAIN m, NEW b,
         \/ DOMAIN m = {"year", "ordinalDay"}
         \/ DOMAIN m = {"year", "quarter", "dayOfQuarter"}
         \/ DOMAIN m = {"year", "month", "day"}
         \/ DOMAIN m = {"year", "week", "dayOfWeek"}
  PROVE  DatePart(m) = DateFromMap(m) /\ DatePart(With(m, "date", b)) = DateFromMap(m)
<1> DEFINE n == With(m, "date", b)
<1>1. DOMAIN n = DOMAIN m \cup {"date"} /\ \A k \in DOMAIN m : n[k] = m[k]
  <2>1. DOMAIN n = DOMAIN m \cup {"date"} /\ \A k \in DOMAIN m : k # "date" => n[k] = m[k]
    BY DEF With
  <2> HIDE DEF n
  <2> QED BY <2>1
<1>2. DatePart(m) = DateFromMap(m)
  BY DEF DatePart
<1> HIDE DEF n
<1>3. "date" \in DOMAIN n
  BY <1>1
<1>4. n.year = m.year
  BY <1>1
<1>5. CASE DOMAIN m = {"year", "ordinalDay"}
  <2>1. /\ "year" \in DOMAIN n /\ "ordinalDay" \in DOMAIN n /\ "week" \notin DOMAIN n
        /\ "month" \notin DOMAIN m /\ "week" \notin DOMAIN m /\ "ordinalDay" \in DOMAIN m
        /\ n.ordinalDay = m.ordinalDay
    BY <1>1, <1>5
  <2>2. DatePart(n) = OrdinalToMd(m.year, m.ordinalDay)
    BY <1>3, <1>4, <2>1 DEF DatePart, Get
  <2> QED BY <1>2, <2>1, <2>2 DEF DateFromMap, n
<1>6. CASE DOMAIN m = {"year", "quarter", "dayOfQuarter"}
  <2>1. /\ "year" \in DOMAIN n /\ "quarter" \in DOMAIN n /\ "dayOfQuarter" \in DOMAIN n
        /\ "week" \notin DOMAIN n /\ "ordinalDay" \notin DOMAIN n
        /\ "month" \notin DOMAIN m /\ "week" \notin DOMAIN m /\ "ordinalDay" \notin DOMAIN m
        /\ "quarter" \in DOMAIN m /\ "dayOfQuarter" \in DOMAIN m
        /\ n.quarter = m.quarter /\ n.dayOfQuarter = m.dayOfQuarter
    BY <1>1, <1>6
  <2>2. DatePart(n) = QuarterToMd(m.year, m.quarter, m.dayOfQuarter)
    BY <1>3, <1>4, <2>1 DEF DatePart, Get
  <2>3. DateFromMap(m) = QuarterToMd(m.year, m.quarter, m.dayOfQuarter)
    BY <2>1 DEF DateFromMap, Get
  <2> QED BY <1>2, <2>2, <2>3 DEF n
<1>7. CASE DOMAIN m = {"year", "month", "day"}
  <2>1. /\ "year" \in DOMAIN n /\ "month" \in DOMAIN n /\ "day" \in DOMAIN n
        /\ "week" \notin DOMAIN n /\ "ordinalDay" \notin DOMAIN n /\ "quarter" \notin DOMAIN n
        /\ "month" \in DOMAIN m /\ "day" \in DOMAIN m
        /\ n.month = m.month /\ n.day = m.day
    BY <1>1, <1>7
  <2>2. DatePart(n) = D(m.year, m.month, m.day)
    BY <1>3, <1>4, <2>1 DEF DatePart, Get
  <2>3. DateFromMap(m) = D(m.year, m.month, m.day)
    BY <2>1 DEF DateFromMap, Get
  <2> QED BY <1>2, <2>2, <2>3 DEF n
<1>8. CASE DOMAIN m = {"year", "week", "dayOfWeek"}
  <2>1. /\ "year" \in DOMAIN n /\ "week" \in DOMAIN n /\ "dayOfWeek" \in DOMAIN n
        /\ "month" \notin DOMAIN m /\ "week" \in DOMAIN m /\ "dayOfWeek" \in DOMAIN m
        /\ n.week = m.week /\ n.dayOfWeek = m.dayOfWeek
    BY <1>1, <1>8
  <2>2. DatePart(n) = WeekToDate(m.year, m.week, m.dayOfWeek)
    BY <1>3, <1>4, <2>1 DEF DatePart, Get
  <2>3. DateFromMap(m) = WeekToDate(m.year, m.week, m.dayOfWeek)
    BY <2>1 DEF DateFromMap, Get
  <2> QED BY <1>2, <2>2, <2>3 DEF n
<1> QED BY <1>5, <1>6, <1>7, <1>8

\* The maps that name the parts of the present date.
LEMMA NamedMaps ==
  ASSUME CountedParts, NEW m \in NamedDates
  PROVE  /\ DateFromMap(m) = date /\ "year" \in DOMAIN m /\ "date" \notin DOMAIN m
         /\ \/ DOMAIN m = {"year", "ordinalDay"}
            \/ DOMAIN m = {"year", "quarter", "dayOfQuarter"}
            \/ DOMAIN m = {"year", "month", "day"}
            \/ DOMAIN m = {"year", "week", "dayOfWeek"}
<1> DEFINE y == date.year
           byDay == [year |-> y, ordinalDay |-> Parts.ordinal]
           byQuarter == [year |-> y, quarter |-> Parts.q, dayOfQuarter |-> Parts.doq]
           byMonth == [year |-> y, month |-> date.month, day |-> date.day]
           byWeek == [year |-> WeekParts.year, week |-> WeekParts.week, dayOfWeek |-> weekday]
<1>1. m \in {byDay, byQuarter, byMonth} \/ (ByWeek /\ m = byWeek)
  BY DEF NamedDates
<1>2. \A x \in {byDay, byQuarter, byMonth} : DateFromMap(x) = date
  BY DEF CountedParts
<1>3. ByWeek => DateFromMap(byWeek) = date
  BY DEF CountedParts, ByWeek
<1>4. /\ DOMAIN byDay = {"year", "ordinalDay"} /\ DOMAIN byQuarter = {"year", "quarter", "dayOfQuarter"}
      /\ DOMAIN byMonth = {"year", "month", "day"} /\ DOMAIN byWeek = {"year", "week", "dayOfWeek"}
  OBVIOUS
<1> HIDE DEF byDay, byQuarter, byMonth, byWeek
<1>5. DateFromMap(m) = date
  BY <1>1, <1>2, <1>3
<1>6. \/ DOMAIN m = {"year", "ordinalDay"}
      \/ DOMAIN m = {"year", "quarter", "dayOfQuarter"}
      \/ DOMAIN m = {"year", "month", "day"}
      \/ DOMAIN m = {"year", "week", "dayOfWeek"}
  BY <1>1, <1>4
<1> QED BY <1>5, <1>6

\* A base without any part named is the date itself.
LEMMA BaseAlone ==
  ASSUME NEW m, "date" \in DOMAIN m, NEW dt, dt = ParseDate(m.date), dt = D(dt.year, dt.month, dt.day),
         DOMAIN m \cap {"year", "month", "day", "week", "ordinalDay", "quarter"} = {}
  PROVE  DatePart(m) = dt
<1>1. /\ "year" \notin DOMAIN m /\ "month" \notin DOMAIN m /\ "day" \notin DOMAIN m
      /\ "week" \notin DOMAIN m /\ "ordinalDay" \notin DOMAIN m /\ "quarter" \notin DOMAIN m
  OBVIOUS
<1> QED BY <1>1 DEF DatePart, Get

-----------------------------------------------------------------------------
(* Maps over a base: the time. *)

TimeKeys == {"hour", "minute", "second", "nanosecond"}
\* The map names all the parts of the time t.
NamesTime(m, t) ==
  /\ TimeKeys \subseteq DOMAIN m
  /\ m.hour = t \div Hour /\ m.minute = (t % Hour) \div Minute /\ m.second = (t % Minute) \div Ns /\ m.nanosecond = t % Ns

\* Named parts replace all the parts of a base, parts not named replace none.
LEMMA AllOverridden ==
  ASSUME NEW m, NEW t, NamesTime(m, t), NEW p
  PROVE  Overridden(p, m) = PartsOf(t)
<1>1. "hour" \in DOMAIN m /\ "minute" \in DOMAIN m /\ "second" \in DOMAIN m /\ "nanosecond" \in DOMAIN m
  BY DEF NamesTime, TimeKeys
<1> QED BY <1>1 DEF NamesTime, Overridden, Get, PartsOf

LEMMA NoneOverridden ==
  ASSUME NEW m, NEW t, TimeKeys \cap DOMAIN m = {}
  PROVE  Overridden(PartsOf(t), m) = PartsOf(t)
<1>1. "hour" \notin DOMAIN m /\ "minute" \notin DOMAIN m /\ "second" \notin DOMAIN m /\ "nanosecond" \notin DOMAIN m
  BY DEF TimeKeys
<1> QED BY <1>1 DEF Overridden, Get, PartsOf

\* However the parts of a time are printed, the text means the time.
LEMMA PrintedClock ==
  ASSUME NEW t \in Nat, NEW g, NEW z
  PROVE  Clock(Printed(PartsOf(t), g, z)) = t /\ Clock(PrintOver(PartsOf(t), z)) = t
<1>1. \A h : Clock(Printed(PartsOf(t), h, z)) = t
  BY PrintedText, TextClock
<1>2. \E h : PrintOver(PartsOf(t), z) = Printed(PartsOf(t), h, z)
  BY DEF PrintOver
<1> QED BY <1>1, <1>2

LEMMA PartsClock ==
  ASSUME NEW t \in Nat
  PROVE  Clock(PartsOf(t)) = t
<1> DEFINE p == PartsOf(t)
           x == Written(t, 6, Yes, NoZone, No)
<1>1. x.h = p.h /\ x.min = p.min /\ x.sec = p.sec /\ x.ns = p.ns
  BY TextFields DEF PartsOf
<1>2. Clock(x) = t
  BY TextClock
<1> HIDE DEF p, x
<1> QED BY <1>1, <1>2 DEF Clock, p

\* A map that names all the parts of a time is that time, whatever its base.
LEMMA TimeNamedAnyway ==
  ASSUME NEW m, NEW t \in Nat, NamesTime(m, t), "datetime" \notin DOMAIN m
  PROVE  /\ Clock(LocaltimeFromMap(m)) = t /\ Clock(TimeFromMap(m)) = t
         /\ Clock(LocaldatetimeFromMap(m).time) = t /\ Clock(DatetimeFromMap(m).time) = t
<1>1. \A p : Overridden(p, m) = PartsOf(t)
  BY AllOverridden
<1>2. \A g, z : Clock(Printed(PartsOf(t), g, z)) = t /\ Clock(PrintOver(PartsOf(t), z)) = t
  BY PrintedClock
<1>3. "hour" \in DOMAIN m
  BY DEF NamesTime, TimeKeys
<1>4. Clock(LocaltimeFromMap(m)) = t
  BY <1>1, <1>2, <1>3 DEF LocaltimeFromMap, PrintTime
<1>5. Clock(TimeFromMap(m)) = t
  BY <1>1, <1>2, <1>3 DEF TimeFromMap, PrintTime
<1>6. \A z : Clock(PrintDatetime(m, z)) = t
  BY <1>1, <1>2 DEF PrintDatetime
<1>7. Clock(LocaldatetimeFromMap(m).time) = t
  BY <1>1, <1>2, <1>6 DEF LocaldatetimeFromMap
<1>8. Clock(DatetimeFromMap(m).time) = t
  BY <1>1, <1>2, <1>6 DEF DatetimeFromMap
<1> QED BY <1>4, <1>5, <1>7, <1>8

LEMMA NamedTimes ==
  ASSUME NEW b, time \in Nat
  PROVE  TimeNamed(b)
<1> DEFINE n == With(NamedTime, "time", b)
           dated == With(n, "date", Ymd(date))
<1>1. NamesTime(NamedTime, time) /\ DOMAIN NamedTime = TimeKeys
  BY DEF NamesTime, NamedTime, TimeKeys
<1>2. ASSUME NEW m, NEW key, NEW v, key \notin TimeKeys, key # "datetime", "datetime" \notin DOMAIN m, NamesTime(m, time)
      PROVE  NamesTime(With(m, key, v), time) /\ "datetime" \notin DOMAIN With(m, key, v)
  <2>1. DOMAIN With(m, key, v) = DOMAIN m \cup {key} /\ \A k \in DOMAIN m : k # key => With(m, key, v)[k] = m[k]
    BY DEF With
  <2>2. "hour" # key /\ "minute" # key /\ "second" # key /\ "nanosecond" # key
    BY <1>2 DEF TimeKeys
  <2>3. TimeKeys \subseteq DOMAIN m /\ "hour" \in DOMAIN m /\ "minute" \in DOMAIN m /\ "second" \in DOMAIN m /\ "nanosecond" \in DOMAIN m
    BY <1>2 DEF NamesTime, TimeKeys
  <2> QED BY <1>2, <2>1, <2>2, <2>3 DEF NamesTime
<1>3. NamesTime(n, time) /\ "datetime" \notin DOMAIN n
  <2>1. "time" \notin TimeKeys /\ "time" # "datetime" /\ "datetime" \notin DOMAIN NamedTime
    BY <1>1 DEF TimeKeys
  <2> QED BY <1>1, <1>2, <2>1
<1>4. NamesTime(dated, time) /\ "datetime" \notin DOMAIN dated
  <2>1. "date" \notin TimeKeys /\ "date" # "datetime"
    BY DEF TimeKeys
  <2> HIDE DEF n
  <2> QED BY <1>2, <1>3, <2>1
<1> HIDE DEF n, dated
<1>5. /\ Clock(LocaltimeFromMap(n)) = time /\ Clock(TimeFromMap(n)) = time
      /\ Clock(LocaldatetimeFromMap(dated).time) = time /\ Clock(DatetimeFromMap(dated).time) = time
  BY <1>3, <1>4, TimeNamedAnyway
<1>6. \A m : /\ ConstructMap("localtime", m) = LocaltimeFromMap(m) /\ ConstructMap("time", m) = TimeFromMap(m)
             /\ ConstructMap("localdatetime", m) = LocaldatetimeFromMap(m) /\ ConstructMap("datetime", m) = DatetimeFromMap(m)
  BY DEF ConstructMap
<1> QED BY <1>5, <1>6 DEF TimeNamed, n, dated

\* The argument of truncate that names the parts of the moment is the moment.
LEMMA MomentByParts ==
  ASSUME CountedParts, CalInv, time \in Nat, NEW m \in NamedDates
  PROVE  MomentNamed(m)
<1> SUFFICES ASSUME m.year = date.year PROVE TcFromExpr(Both(m, NamedTime)) = Now
  BY DEF MomentNamed
<1> DEFINE n == Both(m, NamedTime)
<1>1. DateFromMap(m) = date /\ "year" \in DOMAIN m
  BY NamedMaps
<1>2. DOMAIN m \cap TimeKeys = {}
  BY NamedMaps DEF TimeKeys
<1>3. NamesTime(NamedTime, time) /\ DOMAIN NamedTime = TimeKeys
  BY DEF NamesTime, NamedTime, TimeKeys
<1>4. /\ DOMAIN n = DOMAIN m \cup TimeKeys /\ \A k \in DOMAIN m : n[k] = m[k]
      /\ \A k \in TimeKeys : n[k] = NamedTime[k]
  <2>1. DOMAIN n = DOMAIN m \cup DOMAIN NamedTime /\ \A k \in DOMAIN n : n[k] = IF k \in DOMAIN m THEN m[k] ELSE NamedTime[k]
    BY DEF Both
  <2> HIDE DEF n
  <2> QED BY <1>2, <1>3, <2>1
<1> HIDE DEF n
<1>5. n.year = date.year
  BY <1>1, <1>4
<1>6. DateFromMap(n) = date
  <2>1. \A k \in {"month", "week", "ordinalDay", "quarter", "day", "dayOfWeek", "dayOfQuarter"} :
          k \notin TimeKeys /\ (k \in DOMAIN n <=> k \in DOMAIN m) /\ \A e : Get(n, k, e) = Get(m, k, e)
    BY <1>4 DEF TimeKeys, Get
  <2>2. n.year = m.year
    BY <1>1, <1>4
  <2>3. \A k \in {"month", "week", "ordinalDay", "quarter"} : k \in DOMAIN m => n[k] = m[k]
    BY <1>4
  <2>4. DateFromMap(n) = DateFromMap(m)
    <3>1. /\ ("month" \in DOMAIN n <=> "month" \in DOMAIN m) /\ ("week" \in DOMAIN n <=> "week" \in DOMAIN m)
          /\ ("ordinalDay" \in DOMAIN n <=> "ordinalDay" \in DOMAIN m) /\ ("quarter" \in DOMAIN n <=> "quarter" \in DOMAIN m)
      BY <2>1
    <3>2. /\ Get(n, "day", 1) = Get(m, "day", 1) /\ Get(n, "dayOfWeek", 1) = Get(m, "dayOfWeek", 1)
          /\ Get(n, "dayOfQuarter", 1) = Get(m, "dayOfQuarter", 1)
      BY <2>1
    <3>3. /\ ("month" \in DOMAIN m => n["month"] = m["month"]) /\ ("week" \in DOMAIN m => n["week"] = m["week"])
          /\ ("ordinalDay" \in DOMAIN m => n["ordinalDay"] = m["ordinalDay"])
          /\ ("quarter" \in DOMAIN m => n["quarter"] = m["quarter"])
      BY <2>3
    <3>4. n["year"] = m["year"]
      BY <2>2
    <3> QED BY <3>1, <3>2, <3>3, <3>4 DEF DateFromMap
  <2> QED BY <1>1, <2>4
<1>7. NamesTime(n, time)
  <2>1. /\ "hour" \in TimeKeys /\ "minute" \in TimeKeys /\ "second" \in TimeKeys /\ "nanosecond" \in TimeKeys
    BY DEF TimeKeys
  <2> QED BY <1>3, <1>4, <2>1 DEF NamesTime
<1>8. Overridden(NoTime, n) = PartsOf(time)
  BY <1>7, AllOverridden
<1>9. Clock(PartsOf(time)) = time
  BY PartsClock
<1>10. D(date.year, date.month, date.day) = date
  BY DEF CalInv, ValidDate
<1> DEFINE p == PartsOf(time)
<1> HIDE DEF p
<1>11. TcFromExpr(n) = At(D(n.year, date.month, date.day), p.h * Hour + p.min * Minute + p.sec * Ns + p.ns)
  BY <1>6, <1>8 DEF TcFromExpr, p
<1>12. p.h * Hour + p.min * Minute + p.sec * Ns + p.ns = time
  BY <1>9 DEF Clock, p
<1> QED BY <1>5, <1>10, <1>11, <1>12 DEF Now, n

-----------------------------------------------------------------------------
(* Maps over a base: the zone. *)

\* The offset a zone is taken for.
LEMMA OffsetKnown ==
  ASSUME NEW o, NEW s, NEW d
  PROVE  /\ OrOffset(Num(5, o, s), d) = o /\ OrOffset(Z, d) = 0
         /\ TzSuffix(Num(5, o, s)) = Num(5, o, s)
<1>1. ParseTzOffset(Num(5, o, s)) = {o} /\ ParseTzOffset(Z) = {0}
  BY ZoneKinds DEF ParseTzOffset
<1>2. {o} # {} /\ {0} # {} /\ (CHOOSE x \in {o} : TRUE) = o /\ (CHOOSE x \in {0} : TRUE) = 0
  OBVIOUS
<1>3. OrOffset(Num(5, o, s), d) = o /\ OrOffset(Z, d) = 0
  BY <1>1, <1>2 DEF OrOffset, NoOffset
<1>4. TzSuffix(Num(5, o, s)) = Num(5, o, s)
  BY ZoneKinds DEF TzSuffix
<1> QED BY <1>3, <1>4

\* A printed zone means its offset.
LEMMA PrintedOffset ==
  ASSUME NEW off, NEW d
  PROVE  OrOffset(PrintedZone(off), d) = off
<1>1. PrintedZone(off) = IF off = 0 THEN Z ELSE Num(5, off, 0)
  BY DEF PrintedZone
<1> QED BY <1>1, OffsetKnown

\* A printed time over a base.
LEMMA PrintedMoment ==
  ASSUME NEW t \in Nat, NEW o
  PROVE  ParseTimeNs(PrintOver(PartsOf(t), Num(5, o, 0))) = Moment(t, o)
<1>1. PICK g \in {4, 6} : PrintOver(PartsOf(t), Num(5, o, 0)) = Written(t, g, Yes, Num(5, o, 0), No)
  BY PrintOverText
<1> DEFINE z == Num(5, o, 0)
<1>2. z # NoZone /\ z.kind = "num" /\ z.len = 5 /\ z.off = o
  BY ZoneKinds
<1> HIDE DEF z
<1>3. ParseTimeNs(Written(t, g, Yes, z, No)) = [local |-> t, off |-> ZoneOff(z), zoned |-> z # NoZone]
  BY <1>2, NsRead
<1>4. (z # NoZone) = TRUE /\ ZoneOff(z) = o
  BY <1>2 DEF ZoneOff
<1> QED BY <1>1, <1>3, <1>4 DEF Moment, z

\* A base without a zone keeps its wall clock, in the zone that is asked for.
LEMMA Unzoned ==
  ASSUME NEW m, NEW S, NEW t \in Nat, NEW o,
         "time" \in DOMAIN m, "timezone" \in DOMAIN m, TimeKeys \cap DOMAIN m = {},
         m.timezone = Num(5, o, 0),
         ~BaseTime(m, S).zoned, ParseLocaltime(m.time) = Written(t, 6, Yes, NoZone, No)
  PROVE  /\ HasBase(m, S)
         /\ LET r == Moved(BaseTime(m, S), m)
            IN  ParseTimeNs(PrintOver(Overridden(r.parts, m), r.zone)) = Moment(t, o)
<1> DEFINE b == BaseTime(m, S)
           r == Moved(b, m)
<1>1. b.text = Written(t, 6, Yes, NoZone, No) /\ ~b.zoned
  BY DEF BaseTime
<1>2. HasBase(m, S)
  BY <1>1, TextNotNone DEF HasBase
<1>3. TimeParts(b.text) = PartsOf(t)
  BY <1>1, TextFields
<1>4. TzSuffix(m.timezone) = Num(5, o, 0)
  BY OffsetKnown
<1> HIDE DEF b
<1>5. r.zone = Num(5, o, 0) /\ r.parts = PartsOf(t)
  BY <1>1, <1>3, <1>4 DEF Moved
<1> HIDE DEF r
<1>6. Overridden(r.parts, m) = PartsOf(t)
  BY <1>5, NoneOverridden
<1>7. ParseTimeNs(PrintOver(Overridden(r.parts, m), r.zone)) = Moment(t, o)
  BY <1>5, <1>6, PrintedMoment
<1> QED BY <1>2, <1>7 DEF r, b

\* A base in a zone is moved to the zone that is asked for.
LEMMA Zoned ==
  ASSUME NEW m, NEW S, NEW t \in Nat, NEW off, NEW o, o # off, NEW g \in {4, 6},
         "time" \in DOMAIN m, "timezone" \in DOMAIN m, TimeKeys \cap DOMAIN m = {}, "call" \notin DOMAIN m,
         m.timezone = Num(5, o, 0), m.time = Written(t, g, Yes, PrintedZone(off), Yes),
         RezoneTime(t, off, o) \in Nat
  PROVE  /\ HasBase(m, S)
         /\ LET r == Moved(BaseTime(m, S), m)
            IN  ParseTimeNs(PrintOver(Overridden(r.parts, m), r.zone)) = Moment(RezoneTime(t, off, o), o)
<1> DEFINE b == BaseTime(m, S)
           r == Moved(b, m)
           w == Written(t, 6, Yes, PrintedZone(off), No)
           u == RezoneTime(t, off, o)
<1>1. HasZone(m.time)
  <2> DEFINE x == Written(t, g, Yes, PrintedZone(off), Yes)
  <2>1. x.zone = PrintedZone(off) /\ x.dated = Yes
    BY TextFields
  <2>2. PrintedZone(off) = Z \/ PrintedZone(off) = Num(5, off, 0)
    BY PrintedZones
  <2> HIDE DEF x
  <2>3. HasZone(x)
    BY <2>1, <2>2, ZoneKinds DEF HasZone, Yes
  <2> QED BY <2>3 DEF x
<1>2. ParseTime(m.time) = w
  <2>1. AsRead(PrintedZone(off)) = PrintedZone(off)
    BY PrintedZones
  <2>2. ParseTime(Written(t, g, Yes, PrintedZone(off), Yes)) = Written(t, 6, Yes, AsRead(PrintedZone(off)), No)
    <3>1. Yes \in Truths
      BY DEF Truths
    <3> QED BY <3>1, TimeRead
  <2> QED BY <2>1, <2>2
<1>3. b.text = w /\ b.zoned
  <2> HIDE DEF w
  <2>1. Call(m) = "none"
    BY DEF Call, Get
  <2> QED BY <1>1, <1>2, <2>1 DEF BaseTime
<1>4. HasBase(m, S)
  BY <1>3, TextNotNone DEF HasBase
<1>5. Clock(w) = t /\ w.zone = PrintedZone(off)
  BY TextClock, TextFields
<1>6. OrOffset(PrintedZone(off), 0) = off /\ OrOffset(Num(5, o, 0), off) = o /\ TzSuffix(m.timezone) = Num(5, o, 0)
  BY OffsetKnown, PrintedOffset
<1> HIDE DEF b, w, u
<1>7. r.zone = Num(5, o, 0) /\ r.parts = PartsOf(RezoneTime(t, off, o))
  BY <1>3, <1>5, <1>6 DEF Moved
<1> HIDE DEF r
<1>8. Overridden(r.parts, m) = PartsOf(u)
  BY <1>7, NoneOverridden DEF u
<1>9. ParseTimeNs(PrintOver(Overridden(r.parts, m), r.zone)) = Moment(u, o)
  BY <1>7, <1>8, PrintedMoment DEF u
<1> QED BY <1>4, <1>9 DEF r, b, u

\* A time without a zone, or called for without one, keeps its wall clock.
LEMMA WallsKept ==
  ASSUME time \in Nat, NEW r
  PROVE  WallKept(r)
<1> SUFFICES ASSUME NEW g \in PrintedDigits(time)
             PROVE  /\ ParseTimeNs(ConstructMap("time", [time |-> TimeText(time, g, TRUE, NoZone, FALSE), timezone |-> Num(5, r, 0)]))
                         = Moment(time, r)
                    /\ \A c \in {"localtime", "localdatetime"} :
                         ParseTimeNs(ConstructMap("datetime", [date |-> Ymd(date), time |-> Text(PrintedIn(Now, 0, g)).time, call |-> c,
                                                               timezone |-> Num(5, r, 0)]).time) = Moment(time, r)
  BY DEF WallKept, Moment
<1> DEFINE z == Num(5, r, 0)
           k == Written(time, 6, Yes, NoZone, No)
           u == Written(time, g, Yes, NoZone, No)
           w == Written(time, g, Yes, Z, Yes)
           m == [time |-> u, timezone |-> z]
<1>1. ParseLocaltime(u) = k /\ ParseLocaltime(w) = k
  <2>1. Yes \in Truths /\ 6 = IF Yes = Yes THEN 6 ELSE IF g = 2 THEN 4 ELSE g
    BY DEF Truths
  <2>2. NoZone.kind # "num" /\ Z.kind # "num"
    BY ZoneKinds
  <2> QED BY <2>1, <2>2, LocaltimeRead
<1>2. ParseTimeNs(ConstructMap("time", m)) = Moment(time, r)
  <2>1. /\ DOMAIN m = {"time", "timezone"} /\ m.time = u /\ m.timezone = z
    OBVIOUS
  <2>2. u.zone = NoZone
    BY TextFields
  <2> HIDE DEF u, m
  <2>3. ~HasZone(m.time)
    BY <2>1, <2>2, ZoneKinds DEF HasZone
  <2>4. ~BaseTime(m, {"time"}).zoned
    <3>1. Call(m) = "none"
      BY <2>1 DEF Call, Get
    <3> QED BY <2>3, <3>1 DEF BaseTime
  <2>5. "time" \in DOMAIN m /\ "timezone" \in DOMAIN m /\ TimeKeys \cap DOMAIN m = {}
    BY <2>1 DEF TimeKeys
  <2>6. ParseLocaltime(m.time) = Written(time, 6, Yes, NoZone, No)
    BY <1>1, <2>1 DEF k
  <2> DEFINE b == Moved(BaseTime(m, {"time"}), m)
  <2>7. HasBase(m, {"time"}) /\ ParseTimeNs(PrintOver(Overridden(b.parts, m), b.zone)) = Moment(time, r)
    BY <2>1, <2>4, <2>5, <2>6, Unzoned
  <2>8. TimeFromMap(m) = PrintOver(Overridden(b.parts, m), b.zone)
    BY <2>7 DEF TimeFromMap
  <2> QED BY <2>7, <2>8 DEF ConstructMap
<1>3. ASSUME NEW c \in {"localtime", "localdatetime"}, NEW n,
             n = [date |-> Ymd(date), time |-> w, call |-> c, timezone |-> z]
      PROVE  ParseTimeNs(ConstructMap("datetime", n).time) = Moment(time, r)
  <2> DEFINE S == {"time", "datetime"}
  <2>1. DOMAIN n = {"date", "time", "call", "timezone"} /\ n.time = w /\ n.timezone = z /\ n.call = c
    BY <1>3
  <2> HIDE DEF w
  <2>2. "time" \in DOMAIN n /\ "timezone" \in DOMAIN n /\ TimeKeys \cap DOMAIN n = {} /\ "datetime" \notin DOMAIN n /\ "call" \in DOMAIN n
    BY <2>1 DEF TimeKeys
  <2>3. ~BaseTime(n, S).zoned
    <3>1. Call(n) = c /\ c # "none" /\ c \notin S
      BY <2>1, <2>2 DEF Call, Get
    <3> HIDE DEF S
    <3> QED BY <3>1 DEF BaseTime
  <2>4. ParseLocaltime(n.time) = Written(time, 6, Yes, NoZone, No)
    BY <1>1, <2>1
  <2> HIDE DEF S
  <2> DEFINE b == Moved(BaseTime(n, S), n)
  <2>5. HasBase(n, S) /\ ParseTimeNs(PrintOver(Overridden(b.parts, n), b.zone)) = Moment(time, r)
    BY <2>1, <2>2, <2>3, <2>4, Unzoned
  <2>6. DatetimeFromMap(n).time = PrintOver(Overridden(b.parts, n), b.zone)
    BY <2>2, <2>5 DEF DatetimeFromMap, S
  <2> QED BY <2>5, <2>6 DEF ConstructMap
<1>4. Text(PrintedIn(Now, 0, g)).time = w
  <2>1. Now.time = time
    BY DEF Now, At
  <2>2. PrintedZone(0) = Z
    BY DEF PrintedZone
  <2>3. Text(PrintedIn(Now, 0, g)) = [date |-> Ymd(Now.date), time |-> Written(Now.time, g, Yes, PrintedZone(0), Yes)]
    BY PrintedFields
  <2> QED BY <2>1, <2>2, <2>3
<1>5. TimeText(time, g, TRUE, NoZone, FALSE) = u
  BY DEF Written, Yes, No
<1> HIDE DEF u, w
<1> QED BY <1>2, <1>3, <1>4, <1>5

\* A base in a zone is the same moment in another.
LEMMA MovedMoment ==
  ASSUME NEW n \in Int, NEW t \in Times, NEW l, NEW r, l.off \in Offsets, r.off \in Offsets,
         l.at = Local(n, t, l.off), r.at = Local(n, t, r.off), l.off # r.off
  PROVE  MovedTo(l, r)
<1> SUFFICES ASSUME NEW base \in PrintedForms(l.at, l.off)
             PROVE  LET asked == Num(5, r.off, 0)
                        dated == Text(base).time
                        moved == Moment(r.at.time, r.off)
                        byParts == ConstructMap("datetime", [date |-> Ymd(l.at.date), time |-> dated, timezone |-> asked])
                        whole == ConstructMap("datetime", [datetime |-> Text(base), timezone |-> asked])
                    IN  /\ Wall(l.at.time, l.off, r.off) >= 0 =>
                             ParseTimeNs(ConstructMap("time", [time |-> dated, timezone |-> asked])) = moved
                        /\ l.at.date = r.at.date =>
                             /\ byParts.date = r.at.date /\ ParseTimeNs(byParts.time) = moved
                             /\ l.off # 0 => whole.date = r.at.date /\ ParseTimeNs(whole.time) = moved
  BY DEF MovedTo, Moment
<1>0. PICK g \in {4, 6} : base = PrintedIn(l.at, l.off, g)
  BY FormsPrinted
<1> DEFINE a == l.at.time
           o == l.off
           p == r.off
           asked == Num(5, p, 0)
           dated == Written(a, g, Yes, PrintedZone(o), Yes)
<1>1. /\ a \in Nat /\ r.at.time \in Nat /\ ParseDate(Ymd(l.at.date)) = l.at.date
      /\ l.at.date = D(l.at.date.year, l.at.date.month, l.at.date.day)
  BY ShownMoment
<1>2. /\ Wall(a, o, p) >= 0 => RezoneTime(a, o, p) = r.at.time
      /\ l.at.date = r.at.date => Wall(a, o, p) >= 0 /\ RezoneDatetime(l.at, o, p) = IF o = 0 THEN l.at ELSE r.at
  BY Rezoned
<1>3. Text(base) = [date |-> Ymd(l.at.date), time |-> dated]
  BY <1>0, PrintedFields
<1> HIDE DEF dated, asked
<1>4. ASSUME NEW S, NEW m, Wall(a, o, p) >= 0,
             "time" \in DOMAIN m, "timezone" \in DOMAIN m, TimeKeys \cap DOMAIN m = {}, "call" \notin DOMAIN m,
             m.timezone = asked, m.time = dated
      PROVE  HasBase(m, S) /\ LET b == Moved(BaseTime(m, S), m)
                              IN  ParseTimeNs(PrintOver(Overridden(b.parts, m), b.zone)) = Moment(r.at.time, p)
  <2>1. RezoneTime(a, o, p) = r.at.time /\ RezoneTime(a, o, p) \in Nat
    BY <1>1, <1>2, <1>4
  <2>2. m.timezone = Num(5, p, 0) /\ m.time = Written(a, g, Yes, PrintedZone(o), Yes)
    BY <1>4 DEF asked, dated
  <2> HIDE DEF a, o, p
  <2>3. p # o /\ a \in Nat
    BY <1>1 DEF o, p
  <2>4. HasBase(m, S) /\ LET b == Moved(BaseTime(m, S), m)
                         IN  ParseTimeNs(PrintOver(Overridden(b.parts, m), b.zone)) = Moment(RezoneTime(a, o, p), p)
    BY <1>4, <2>1, <2>2, <2>3, Zoned
  <2> QED BY <2>1, <2>4
<1>5. ASSUME Wall(a, o, p) >= 0, NEW m, m = [time |-> dated, timezone |-> asked]
      PROVE  ParseTimeNs(ConstructMap("time", m)) = Moment(r.at.time, p)
  <2> DEFINE S == {"time"}
  <2>1. DOMAIN m = {"time", "timezone"} /\ m.time = dated /\ m.timezone = asked
    BY <1>5
  <2>2. "time" \in DOMAIN m /\ "timezone" \in DOMAIN m /\ TimeKeys \cap DOMAIN m = {} /\ "call" \notin DOMAIN m
    BY <2>1 DEF TimeKeys
  <2> HIDE DEF S, a, o, p
  <2> DEFINE b == Moved(BaseTime(m, S), m)
  <2>3. HasBase(m, S) /\ ParseTimeNs(PrintOver(Overridden(b.parts, m), b.zone)) = Moment(r.at.time, p)
    BY <1>4, <1>5, <2>1, <2>2
  <2>4. TimeFromMap(m) = PrintOver(Overridden(b.parts, m), b.zone)
    BY <2>3 DEF TimeFromMap, S
  <2> QED BY <2>3, <2>4 DEF ConstructMap
<1>6. ASSUME l.at.date = r.at.date, NEW m, m = [date |-> Ymd(l.at.date), time |-> dated, timezone |-> asked]
      PROVE  ConstructMap("datetime", m).date = r.at.date /\ ParseTimeNs(ConstructMap("datetime", m).time) = Moment(r.at.time, p)
  <2> DEFINE S == {"time", "datetime"}
  <2>1. DOMAIN m = {"date", "time", "timezone"} /\ m.time = dated /\ m.timezone = asked /\ m.date = Ymd(l.at.date)
    BY <1>6
  <2>2. /\ "time" \in DOMAIN m /\ "timezone" \in DOMAIN m /\ TimeKeys \cap DOMAIN m = {} /\ "call" \notin DOMAIN m
        /\ "date" \in DOMAIN m /\ "datetime" \notin DOMAIN m
        /\ DOMAIN m \cap {"year", "month", "day", "week", "ordinalDay", "quarter"} = {}
    BY <2>1 DEF TimeKeys
  <2>5. DatePart(m) = l.at.date
    BY <1>1, <2>1, <2>2, BaseAlone
  <2>6. Wall(a, o, p) >= 0
    BY <1>2, <1>6
  <2> HIDE DEF S, a, o, p
  <2> DEFINE b == Moved(BaseTime(m, S), m)
  <2>3. HasBase(m, S) /\ ParseTimeNs(PrintOver(Overridden(b.parts, m), b.zone)) = Moment(r.at.time, p)
    BY <1>4, <2>1, <2>2, <2>6
  <2>4. /\ DatetimeFromMap(m).time = PrintOver(Overridden(b.parts, m), b.zone)
        /\ DatetimeFromMap(m).date = DatePart(m)
    BY <2>2, <2>3 DEF DatetimeFromMap, S
  <2> QED BY <1>6, <2>3, <2>4, <2>5 DEF ConstructMap
<1>7. ASSUME l.at.date = r.at.date, o # 0, NEW m, m = [datetime |-> Text(base), timezone |-> asked]
      PROVE  ConstructMap("datetime", m).date = r.at.date /\ ParseTimeNs(ConstructMap("datetime", m).time) = Moment(r.at.time, p)
  <2> DEFINE x == m.datetime
  <2>1. DOMAIN m = {"datetime", "timezone"} /\ x = Text(base) /\ m.timezone = asked
    BY <1>7
  <2>2. /\ "datetime" \in DOMAIN m /\ "timezone" \in DOMAIN m /\ TimeKeys \cap DOMAIN m = {}
        /\ "year" \notin DOMAIN m /\ "month" \notin DOMAIN m /\ "day" \notin DOMAIN m
    BY <2>1 DEF TimeKeys
  <2>3. x.date = Ymd(l.at.date) /\ x.time = dated
    BY <1>3, <2>1
  <2>4. BaseYmd(m) = l.at.date
    <3> HIDE DEF x
    <3> QED BY <1>1, <2>2, <2>3 DEF BaseYmd, Get, x
  <2>5. /\ dated.zone = PrintedZone(o) /\ dated.colons = Yes /\ TimeParts(dated) = PartsOf(a)
    BY TextFields DEF dated
  <2>6. RawParts(dated) = PartsOf(a)
    BY <2>5 DEF RawParts, Yes
  <2>7. PrintedZone(o) = Num(5, o, 0)
    BY <1>7 DEF PrintedZone
  <2>8. dated.zone.kind = "num" /\ OrOffset(NormalizeTz(SplitTz(dated)), 0) = o
    <3>1. AsRead(PrintedZone(o)) = PrintedZone(o)
      BY PrintedZones
    <3>2. NormalizeTz(SplitTz(dated)) = PrintedZone(o)
      BY <2>5, <3>1 DEF SplitTz, AsRead
    <3> QED BY <2>5, <2>7, <3>2, ZoneKinds, OffsetKnown
  <2>9. TzSuffix(m.timezone) = Num(5, p, 0) /\ OrOffset(Num(5, p, 0), o) = p
    BY <2>1, OffsetKnown DEF asked
  <2>10. Clock(PartsOf(a)) = a
    BY <1>1, PartsClock
  <2>11. Rewall(a, o, p) = r.at.time
    <3>1. RezoneDatetime(l.at, o, p) = r.at
      BY <1>2, <1>7
    <3>2. RezoneDatetime(l.at, o, p) = At(l.at.date, Rewall(a, o, p))
      BY <1>7 DEF RezoneDatetime
    <3> QED BY <3>1, <3>2 DEF At
  <2>12. p # o
    OBVIOUS
  <2> HIDE DEF x, a, o, p
  <2>13. DatetimeFromMap(m).date = BaseYmd(m) /\ DatetimeFromMap(m).time = PrintOver(Overridden(PartsOf(r.at.time), m), Num(5, p, 0))
    <3>1. DatetimeFromMap(m).date = BaseYmd(m)
      BY <2>2 DEF DatetimeFromMap
    <3>2. m.datetime.time = dated
      BY <2>3 DEF x
    <3>3. OrOffset(TzSuffix(m.timezone), o) = p
      BY <2>9
    <3>4. DatetimeFromMap(m).time = PrintOver(Overridden(PartsOf(Rewall(Clock(RawParts(dated)), o, p)), m), TzSuffix(m.timezone))
      BY <2>2, <2>8, <2>12, <3>2, <3>3 DEF DatetimeFromMap
    <3> QED BY <2>6, <2>9, <2>10, <2>11, <3>1, <3>4
  <2>14. Overridden(PartsOf(r.at.time), m) = PartsOf(r.at.time)
    BY <2>2, NoneOverridden
  <2>15. ParseTimeNs(PrintOver(PartsOf(r.at.time), Num(5, p, 0))) = Moment(r.at.time, p)
    BY <1>1, PrintedMoment
  <2> QED BY <1>7, <2>4, <2>13, <2>14, <2>15 DEF ConstructMap
<1>8. Text(base).time = dated
  BY <1>3
<1> QED BY <1>5, <1>6, <1>7, <1>8 DEF asked

\* Whatever the calendar, the time, the base and the zones: a map that names the
\* parts of a moment is that moment, and a map that asks for another zone is the
\* same moment there, where the code does not lose the date.
THEOREM MapsRebuilt == Spec => []MapsRebuild
<1>1. CalInv /\ BeganInv /\ SumInv /\ PartsRebuild /\ CountedParts => MapsRebuild
  <2> SUFFICES ASSUME CalInv, BeganInv, SumInv, PartsRebuild, CountedParts PROVE MapsRebuild
    OBVIOUS
  <2>1. time \in Nat /\ time \in Times /\ day \in Int
    BY TimesBelowDay, ValidInts DEF SumInv, CalInv
  <2>2. ASSUME NEW m \in NamedDates PROVE DateNamed(m)
    BY NamedMaps, PartNamed DEF DateNamed
  <2>3. ASSUME NEW b PROVE TimeNamed(b)
    BY <2>1, NamedTimes
  <2>4. ASSUME NEW x \in FullDates PROVE DatePart([date |-> x]) = date
    <3> DEFINE m == [date |-> x]
    <3>1. DOMAIN m = {"date"} /\ m.date = x
      OBVIOUS
    <3>2. ParseDate(x) = date /\ date = D(date.year, date.month, date.day)
      BY FullDatesRead DEF CalInv, ValidDate
    <3> HIDE DEF m
    <3>3. "date" \in DOMAIN m /\ DOMAIN m \cap {"year", "month", "day", "week", "ordinalDay", "quarter"} = {}
      BY <3>1
    <3>4. DatePart(m) = date
      BY <3>1, <3>2, <3>3, BaseAlone
    <3> QED BY <3>4 DEF m
  <2>5. ASSUME NEW m \in NamedDates PROVE MomentNamed(m)
    BY <2>1, MomentByParts
  <2>6. ASSUME NEW r PROVE WallKept(r)
    BY <2>1, WallsKept
  <2>7. ASSUME NEW l \in Shown(day, time), NEW r \in Shown(day, time), l # r PROVE MovedTo(l, r)
    <3>1. /\ l.off \in Offsets /\ l.at = Local(day, time, l.off) /\ l = [off |-> l.off, at |-> l.at]
          /\ r.off \in Offsets /\ r.at = Local(day, time, r.off) /\ r = [off |-> r.off, at |-> r.at]
      BY DEF Shown
    <3>2. l.off # r.off
      BY <2>7, <3>1
    <3> QED BY <2>1, <3>1, <3>2, MovedMoment
  <2> QED BY <2>2, <2>3, <2>4, <2>5, <2>6, <2>7 DEF MapsRebuild
<1> QED BY <1>1, CalAlways, BeganAlways, SumAlways, DatesRebuilt, PartsCounted, PTL

-----------------------------------------------------------------------------
(* Durations with fractions. *)

\* What a division that rounds to zero gives is whole, and the rest with it
\* makes up what was divided.
LEMMA Rests ==
  ASSUME NEW a \in Int, NEW b \in Nat \ {0}
  PROVE  Quo(a, b) \in Int /\ Rem(a, b) \in Int /\ Rem(a, b) = a - Quo(a, b) * b
<1>1. Quo(a, b) \in Int
  BY QuoInt
<1> QED BY <1>1 DEF Rem

\* A multiple divides without a rest.
LEMMA WholeQuo ==
  ASSUME NEW k \in Int, NEW b \in Nat \ {0}
  PROVE  Quo(k * b, b) = k /\ Rem(k * b, b) = 0
<1> DEFINE a == k * b
<1>1. a \in Int /\ a = k * b
  OBVIOUS
<1>2. Quo(a, b) = k
  <2>1. CASE k >= 0
    <3>1. a >= 0
      BY <2>1, Multiples
    <3>2. a = k * b + 0 /\ 0 \in 0 .. b - 1
      BY <1>1
    <3> HIDE DEF a
    <3>3. a \div b = k
      BY <1>1, <3>2, Divided
    <3> QED BY <3>1, <3>3 DEF Quo
  <2>2. CASE k < 0
    <3>1. a <= -b /\ a < 0
      BY <1>1, <2>2, Multiples
    <3>2. -a = (-k) * b + 0 /\ 0 \in 0 .. b - 1 /\ -k \in Int /\ -a \in Int
      BY <1>1
    <3> HIDE DEF a
    <3>3. (-a) \div b = -k
      BY <3>2, Divided
    <3>4. Quo(a, b) = -((-a) \div b)
      BY <1>1, <3>1 DEF Quo
    <3> QED BY <3>3, <3>4
  <2> QED BY <2>1, <2>2
<1> HIDE DEF a
<1>3. Rem(a, b) = a - k * b
  BY <1>2 DEF Rem
<1> QED BY <1>1, <1>2, <1>3 DEF a

\* The units times a number are positive too.
LEMMA UnitsTimes ==
  ASSUME NEW n \in Nat \ {0}
  PROVE  n * Minute \in Nat \ {0} /\ n * Hour \in Nat \ {0} /\ n * Day \in Nat \ {0}
<1>1. ASSUME NEW u \in Nat \ {0} PROVE n * u \in Nat \ {0}
  OBVIOUS
<1> QED BY <1>1, Units

\* A division that rounds to zero keeps the sign.
LEMMA SignsKept ==
  ASSUME NEW a \in Int, NEW b \in Nat \ {0}
  PROVE  /\ a >= 0 => Quo(a, b) >= 0 /\ Rem(a, b) >= 0
         /\ a <= 0 => Quo(a, b) <= 0 /\ Rem(a, b) <= 0
<1>1. ASSUME a >= 0 PROVE Quo(a, b) >= 0 /\ Rem(a, b) >= 0
  <2>1. Quo(a, b) = a \div b /\ Rem(a, b) = a % b /\ a \div b \in Nat /\ a % b \in Nat
    <3>1. a \in Nat
      BY <1>1
    <3> QED BY <3>1, Quotients, NatDivision
  <2> QED BY <2>1
<1>2. ASSUME a <= 0 PROVE Quo(a, b) <= 0 /\ Rem(a, b) <= 0
  <2> DEFINE n == -a
  <2>1. n \in Nat /\ a = -n
    BY <1>2
  <2> HIDE DEF n
  <2>2. Quo(-n, b) = -(n \div b) /\ Rem(-n, b) = -(n % b) /\ n \div b \in Nat /\ n % b \in Nat
    BY <2>1, Quotients, NatDivision
  <2> QED BY <2>1, <2>2
<1> QED BY <1>1, <1>2

LEMMA TimesSigns ==
  ASSUME NEW a \in Int, NEW b \in Nat \ {0}
  PROVE  a * b \in Int /\ (a >= 0 => a * b >= 0) /\ (a <= 0 => a * b <= 0)
<1>1. a * b \in Int /\ (a >= 0 => a * b >= 0) /\ (a < 0 => a * b <= -b)
  BY Multiples
<1>2. a = 0 => a * b = 0
  OBVIOUS
<1> QED BY <1>1, <1>2

\* The cascade loses nothing but what the last division rounds, and what it
\* gives has the sign of what is given, when all of that has one sign.
AllUp(d, h, min, s) == d >= 0 /\ h >= 0 /\ min >= 0 /\ s >= 0
AllDown(d, h, min, s) == d <= 0 /\ h <= 0 /\ min <= 0 /\ s <= 0
Cascaded(c, mo, d, h, min, s, den, w, r) ==
  /\ c.d \in Int /\ c.h \in Int /\ c.min \in Int
  /\ c.mo = Quo(mo, den) /\ c.s = Quo(r, den)
  /\ w = ((c.d * 24 + c.h) * 60 + c.min) * Minute
  /\ den * w + r = Rem(mo, den) * MeanMonth + d * Day + h * Hour + min * Minute + s
  /\ mo = 0 /\ AllUp(d, h, min, s) => w >= 0 /\ r >= 0
  /\ mo = 0 /\ AllDown(d, h, min, s) => w <= 0 /\ r <= 0
LEMMA CascadeSplit ==
  ASSUME NEW mo \in Int, NEW d \in Int, NEW h \in Int, NEW min \in Int, NEW s \in Int, NEW den \in Nat \ {0},
         NEW c, c = Cascade(mo, d, h, min, s, den)
  PROVE  \E w, r \in Int : Cascaded(c, mo, d, h, min, s, den, w, r)
<1> DEFINE R == Rem(mo, den) * MeanMonth
           DD == d * Day
           H == h * Hour
           M == min * Minute
           ds == DD + R
           hs == H + Rem(ds, den * Day)
           mins == M + Rem(hs, den * Hour)
           r == s + Rem(mins, den * Minute)
           qd == Quo(ds, den * Day)
           qh == Quo(hs, den * Hour)
           qm == Quo(mins, den * Minute)
<1>1. R \in Int /\ DD \in Int /\ H \in Int /\ M \in Int
  BY Rests, Units DEF MeanMonth
<1>2. /\ c.mo = Quo(mo, den) /\ c.d = qd /\ c.h = qh /\ c.min = qm /\ c.s = Quo(r, den)
  BY DEF Cascade
<1> HIDE DEF R, DD, H, M
<1>3. /\ den * Day \in Nat \ {0} /\ den * Hour \in Nat \ {0} /\ den * Minute \in Nat \ {0}
  BY UnitsTimes
<1>4. ds \in Int /\ qd \in Int /\ Rem(ds, den * Day) \in Int /\ Rem(ds, den * Day) = ds - qd * (den * Day)
  <2>1. ds \in Int
    BY <1>1
  <2> HIDE DEF ds
  <2> QED BY <2>1, <1>3, Rests
<1>5. hs \in Int /\ qh \in Int /\ Rem(hs, den * Hour) \in Int /\ Rem(hs, den * Hour) = hs - qh * (den * Hour)
  <2>1. hs \in Int
    BY <1>1, <1>4
  <2> HIDE DEF hs
  <2> QED BY <2>1, <1>3, Rests
<1>6. mins \in Int /\ qm \in Int /\ Rem(mins, den * Minute) \in Int
      /\ Rem(mins, den * Minute) = mins - qm * (den * Minute)
  <2>1. mins \in Int
    BY <1>1, <1>5
  <2> HIDE DEF mins
  <2> QED BY <2>1, <1>3, Rests
<1>7. r \in Int
  BY <1>6
<1> DEFINE A == qd * (den * Day)
           B == qh * (den * Hour)
           C == qm * (den * Minute)
           w == ((qd * 24 + qh) * 60 + qm) * Minute
<1>8. r = s + M + H + DD + R - A - B - C /\ A \in Int /\ B \in Int /\ C \in Int
  <2>1. A \in Int /\ B \in Int /\ C \in Int
    BY <1>3, <1>4, <1>5, <1>6
  <2> DEFINE x == Rem(ds, den * Day)
             y == Rem(hs, den * Hour)
             z == Rem(mins, den * Minute)
  <2>2. x \in Int /\ y \in Int /\ z \in Int /\ x = (DD + R) - A /\ y = (H + x) - B /\ z = (M + y) - C /\ r = s + z
    BY <1>4, <1>5, <1>6
  <2> HIDE DEF x, y, z, r, A, B, C
  <2> QED BY <1>1, <2>1, <2>2
<1>14. /\ mo = 0 /\ AllUp(d, h, min, s) => qd >= 0 /\ qh >= 0 /\ qm >= 0 /\ r >= 0
       /\ mo = 0 /\ AllDown(d, h, min, s) => qd <= 0 /\ qh <= 0 /\ qm <= 0 /\ r <= 0
  <2>1. mo = 0 => R = 0
    <3>1. Quo(0 * den, den) = 0 /\ Rem(0 * den, den) = 0 /\ 0 * den = 0
      BY WholeQuo
    <3>2. 0 * MeanMonth = 0
      BY Units DEF MeanMonth
    <3> QED BY <3>1, <3>2 DEF R
  <2>2. /\ AllUp(d, h, min, s) => DD >= 0 /\ H >= 0 /\ M >= 0 /\ s >= 0
        /\ AllDown(d, h, min, s) => DD <= 0 /\ H <= 0 /\ M <= 0 /\ s <= 0
    BY Units, TimesSigns DEF AllUp, AllDown, DD, H, M
  <2> DEFINE x == Rem(ds, den * Day)
             y == Rem(hs, den * Hour)
             z == Rem(mins, den * Minute)
  <2>3. (ds >= 0 => qd >= 0 /\ x >= 0) /\ (ds <= 0 => qd <= 0 /\ x <= 0) /\ x \in Int
    <3> HIDE DEF ds
    <3> QED BY <1>3, <1>4, SignsKept
  <2>4. (hs >= 0 => qh >= 0 /\ y >= 0) /\ (hs <= 0 => qh <= 0 /\ y <= 0) /\ y \in Int
    <3> HIDE DEF hs
    <3> QED BY <1>3, <1>5, SignsKept
  <2>5. (mins >= 0 => qm >= 0 /\ z >= 0) /\ (mins <= 0 => qm <= 0 /\ z <= 0) /\ z \in Int
    <3> HIDE DEF mins
    <3> QED BY <1>3, <1>6, SignsKept
  <2>6. ds = DD + R /\ hs = H + x /\ mins = M + y /\ r = s + z
    OBVIOUS
  <2> HIDE DEF qd, qh, qm, x, y, z, ds, hs, mins, r
  <2> QED BY <1>1, <2>1, <2>2, <2>3, <2>4, <2>5, <2>6
<1> HIDE DEF qd, qh, qm, r, ds, hs, mins
<1>9. w \in Int /\ den * w = A + B + C
  <2> DEFINE m == Minute
             e == den * m
  <2>1. m \in Int /\ e \in Int /\ e = den * m
    BY Units
  <2>2. den * Day = 1440 * e /\ den * Hour = 60 * e
    <3>1. Hour = 60 * m /\ Day = 24 * (60 * m)
      BY DEF Hour, Day
    <3> HIDE DEF m
    <3> QED BY <2>1, <3>1
  <2>3. w \in Int /\ den * w = ((qd * 24 + qh) * 60 + qm) * e
    <3> DEFINE k == (qd * 24 + qh) * 60 + qm
    <3>1. k \in Int
      BY <1>4, <1>5, <1>6
    <3> HIDE DEF m, k
    <3>2. k * m \in Int /\ den * (k * m) = k * (den * m)
      BY <2>1, <3>1
    <3>3. w = k * m
      BY DEF k, m
    <3> QED BY <3>2, <3>3 DEF k
  <2>4. A = qd * (1440 * e) /\ B = qh * (60 * e) /\ C = qm * e
    BY <2>2
  <2> HIDE DEF e, w, A, B, C, m
  <2>5. qd * (1440 * e) = 1440 * (qd * e) /\ qh * (60 * e) = 60 * (qh * e)
        /\ qd * e \in Int /\ qh * e \in Int /\ qm * e \in Int
    BY <2>1, <1>4, <1>5, <1>6
  <2>6. ((qd * 24 + qh) * 60 + qm) * e = 1440 * (qd * e) + 60 * (qh * e) + qm * e
    BY <2>1, <1>4, <1>5, <1>6
  <2> QED BY <2>3, <2>4, <2>5, <2>6
<1>10. den * w + r = R + DD + H + M + s
  <2> HIDE DEF w, A, B, C
  <2>1. den * w \in Int
    BY <1>9, <1>8
  <2> QED BY <1>1, <1>8, <1>9, <2>1
<1>11. w = ((c.d * 24 + c.h) * 60 + c.min) * Minute
  BY <1>2
<1> HIDE DEF w
<1>12. /\ c.d \in Int /\ c.h \in Int /\ c.min \in Int
       /\ c.mo = Quo(mo, den) /\ c.s = Quo(r, den)
  BY <1>2, <1>4, <1>5, <1>6
<1>13. den * w + r = Rem(mo, den) * MeanMonth + d * Day + h * Hour + min * Minute + s
  BY <1>10 DEF R, DD, H, M
<1>15. /\ mo = 0 /\ AllUp(d, h, min, s) => w >= 0 /\ r >= 0
       /\ mo = 0 /\ AllDown(d, h, min, s) => w <= 0 /\ r <= 0
  <2> DEFINE k == (qd * 24 + qh) * 60 + qm
  <2>1. k \in Int /\ w = k * Minute
    BY <1>4, <1>5, <1>6 DEF w
  <2>2. (qd >= 0 /\ qh >= 0 /\ qm >= 0 => k >= 0) /\ (qd <= 0 /\ qh <= 0 /\ qm <= 0 => k <= 0)
    BY <1>4, <1>5, <1>6
  <2> HIDE DEF k
  <2>3. (k >= 0 => w >= 0) /\ (k <= 0 => w <= 0)
    BY <2>1, Units, TimesSigns
  <2> QED BY <1>14, <2>2, <2>3
<1> QED BY <1>7, <1>9, <1>11, <1>12, <1>13, <1>15 DEF Cascaded

\* What is left of a carry, with either sign, carries no further.
Uncarried(s) == NsCarry(s) = <<0, s>>
LEMMA CarriedOnce ==
  ASSUME NEW t \in Int
  PROVE  Uncarried(NsCarry(t)[2])
<1> DEFINE u == NsCarry(t)[2]
<1>1. ASSUME NEW s \in 0 .. Minute - 1
      PROVE  NsCarry(s) = <<0, s>>
  <2>1. NsCarry(-s) = <<0, -s>> /\ s \in Nat
    BY NsCarryLess, Units
  <2>2. Quo(Quo(-s, Ns), 60) = 0
    BY <2>1 DEF NsCarry
  <2> DEFINE q == s \div Ns
  <2>3. Quo(s, Ns) = q /\ Quo(-s, Ns) = -q /\ q \in Nat
    <3>1. Quo(s, Ns) = q /\ Quo(-s, Ns) = -q
      BY <2>1, Units, Quotients
    <3> QED BY <2>1, <3>1, Units, NatDivision
  <2> HIDE DEF q
  <2>4. Quo(q, 60) = q \div 60 /\ Quo(-q, 60) = -(q \div 60) /\ q \div 60 \in Nat
    <3>1. 60 \in Nat \ {0}
      OBVIOUS
    <3> QED BY <2>3, <3>1, Quotients
  <2>5. Quo(Quo(s, Ns), 60) = 0
    BY <2>2, <2>3, <2>4
  <2>6. s - 0 * Minute = s
    BY <2>1, Units
  <2> QED BY <2>5, <2>6 DEF NsCarry
<1>2. CASE t \in Nat
  <2>1. u \in 0 .. Minute - 1
    BY <1>2, NsCarryNat
  <2> HIDE DEF u
  <2>2. NsCarry(u) = <<0, u>>
    BY <2>1, <1>1
  <2> QED BY <2>2 DEF Uncarried, u
<1>3. CASE t \notin Nat
  <2> DEFINE n == -t
             v == NsCarry(n)[2]
             q == n \div Ns
             p == q \div 60
  <2>1. n \in Nat /\ t = -n
    BY <1>3
  <2>2. v \in 0 .. Minute - 1
    <3> HIDE DEF n
    <3> QED BY <2>1, NsCarryNat
  <2> HIDE DEF n
  <2>3. Quo(n, Ns) = q /\ Quo(-n, Ns) = -q /\ q \in Nat
    <3>1. Quo(n, Ns) = q /\ Quo(-n, Ns) = -q
      BY <2>1, Units, Quotients
    <3> QED BY <2>1, <3>1, Units, NatDivision
  <2> HIDE DEF q
  <2>4. Quo(q, 60) = p /\ Quo(-q, 60) = -p /\ p \in Nat
    <3>1. 60 \in Nat \ {0}
      OBVIOUS
    <3> QED BY <2>3, <3>1, Quotients
  <2> HIDE DEF p
  <2>5. v = n - p * Minute
    BY <2>3, <2>4 DEF NsCarry
  <2>6. u = (-n) - (-p) * Minute
    BY <2>1, <2>3, <2>4 DEF NsCarry
  <2>7. (-p) * Minute = -(p * Minute) /\ p * Minute \in Int
    BY <2>4, Units
  <2>8. u = -v
    <3> HIDE DEF u, v
    <3> QED BY <2>1, <2>5, <2>6, <2>7
  <2> HIDE DEF u, v
  <2>9. NsCarry(u) = <<0, u>>
    BY <2>2, <2>8, NsCarryLess
  <2> QED BY <2>9 DEF Uncarried, u
<1> QED BY <1>2, <1>3 DEF Uncarried

\* A duration of whole numbers, with seconds that carry no further, is read as
\* it is written.
WholeKept(mo, d, h, min, s) ==
  NormalizeDuration(Quarters(4 * mo, 0, 4 * d, 4 * h, 4 * min, 4 * s), 4) = Dur(0, mo, d, h, min, s)
LEMMA WholeRead ==
  ASSUME NEW mo \in Int, NEW d \in Int, NEW h \in Int, NEW min \in Int, NEW s \in Int, Uncarried(s)
  PROVE  WholeKept(mo, d, h, min, s)
<1> DEFINE x == Quarters(4 * mo, 0, 4 * d, 4 * h, 4 * min, 4 * s)
           c == Cascade(x.mo, x.d + 7 * x.w, x.h, x.min, x.s, 4)
<1>1. /\ x.y = 0 /\ x.mo = mo * 4 /\ x.d + 7 * x.w = d * 4 /\ x.h = h * 4 /\ x.min = min * 4 /\ x.s = s * 4
  BY DEF Quarters
<1> HIDE DEF x
<1>2. /\ 4 \in Nat \ {0} /\ 4 * Day \in Nat \ {0} /\ 4 * Hour \in Nat \ {0} /\ 4 * Minute \in Nat \ {0}
  BY Units
<1>3. Quo(mo * 4, 4) = mo /\ Rem(mo * 4, 4) = 0
  BY <1>2, WholeQuo
<1>4. Quo(s * 4, 4) = s
  BY <1>2, WholeQuo
<1>5. ASSUME NEW k \in Int, NEW u \in Nat \ {0}
      PROVE  /\ Quo((k * 4) * u + 0, 4 * u) = k /\ Rem((k * 4) * u + 0, 4 * u) = 0
  <2>1. 4 * u \in Nat \ {0} /\ (k * 4) * u + 0 = k * (4 * u)
    OBVIOUS
  <2> QED BY <2>1, WholeQuo
<1>6. 0 * MeanMonth = 0 /\ s * 4 + 0 = s * 4
  BY Units DEF MeanMonth
<1>7. c = [mo |-> mo, d |-> d, h |-> h, min |-> min, s |-> s]
  <2>1. /\ Quo((d * 4) * Day + 0, 4 * Day) = d /\ Rem((d * 4) * Day + 0, 4 * Day) = 0
        /\ Quo((h * 4) * Hour + 0, 4 * Hour) = h /\ Rem((h * 4) * Hour + 0, 4 * Hour) = 0
        /\ Quo((min * 4) * Minute + 0, 4 * Minute) = min /\ Rem((min * 4) * Minute + 0, 4 * Minute) = 0
    BY <1>5, Units
  <2> QED BY <1>1, <1>3, <1>4, <1>6, <2>1 DEF Cascade
<1>8. NormalizeDuration(x, 4) = Dur(x.y, c.mo, c.d, c.h, c.min + NsCarry(c.s)[1], NsCarry(c.s)[2])
  BY DEF NormalizeDuration
<1>9. NormalizeDuration(x, 4) = Dur(0, mo, d, h, min + 0, s)
  <2> HIDE DEF c
  <2> QED BY <1>1, <1>7, <1>8 DEF Uncarried
<1>10. min + 0 = min
  OBVIOUS
<1> QED BY <1>9, <1>10 DEF WholeKept, x

\* A duration in quarters of its units that makes whole quarters of the
\* smallest unit is as long as it says.
QuartersKept(r, mo, w, d, h, min, s) ==
  /\ r.mo = Quo(mo, 4) /\ r.y = 0 /\ r \in Duration
  /\ 4 * Length(r) = Rem(mo, 4) * MeanMonth + (d + 7 * w) * Day + h * Hour + min * Minute + 4 * s
  /\ Uncarried(r.s)
LEMMA QuartersRead ==
  ASSUME NEW mo \in Int, NEW w \in Int, NEW d \in Int, NEW h \in Int, NEW min \in Int, NEW s \in Int,
         NEW r, r = NormalizeDuration(Quarters(mo, w, d, h, min, 4 * s), 4)
  PROVE  QuartersKept(r, mo, w, d, h, min, s)
<1> DEFINE e == d + 7 * w
           f == 4 * s
           c == Cascade(mo, e, h, min, f, 4)
           k == NsCarry(c.s)
<1>1. r = Dur(0, c.mo, c.d, c.h, c.min + k[1], k[2])
  BY DEF NormalizeDuration, Quarters
<1>2. e \in Int /\ f \in Int /\ 4 \in Nat \ {0}
  OBVIOUS
<1>3. PICK v, z \in Int :
        /\ c.d \in Int /\ c.h \in Int /\ c.min \in Int
        /\ c.mo = Quo(mo, 4) /\ c.s = Quo(z, 4)
        /\ v = ((c.d * 24 + c.h) * 60 + c.min) * Minute
        /\ 4 * v + z = Rem(mo, 4) * MeanMonth + e * Day + h * Hour + min * Minute + f
  <2>1. c = Cascade(mo, e, h, min, f, 4)
    OBVIOUS
  <2> HIDE DEF c, e, f
  <2>2. \E v, z \in Int : Cascaded(c, mo, e, h, min, f, 4, v, z)
    BY <1>2, <2>1, CascadeSplit
  <2> QED BY <2>2 DEF Cascaded
<1> DEFINE A == Rem(mo, 4) * (1314873 * (Ns \div 2))
           B == e * (21600 * Ns)
           C == h * (900 * Ns)
           DD == min * (15 * Ns)
           g == A + B + C + DD + s
<1>4. /\ A \in Int /\ B \in Int /\ C \in Int /\ DD \in Int /\ Rem(mo, 4) * MeanMonth = 4 * A
      /\ e * Day = 4 * B /\ h * Hour = 4 * C /\ min * Minute = 4 * DD
  <2>1. Rem(mo, 4) \in Int /\ Quo(mo, 4) \in Int
    BY <1>2, Rests
  <2>2. Ns \in Int /\ Ns \div 2 \in Int /\ Ns = 2 * (Ns \div 2)
    BY Units, TextsAssumption
  <2> DEFINE n == Ns
             i == n \div 2
             R == Rem(mo, 4)
  <2>3. MeanMonth = 4 * (1314873 * i) /\ Day = 4 * (21600 * n) /\ Hour = 4 * (900 * n) /\ Minute = 4 * (15 * n)
    BY <2>2 DEF MeanMonth, Day, Hour, Minute
  <2>4. ASSUME NEW j \in Int, NEW u \in Int PROVE j * u \in Int /\ j * (4 * u) = 4 * (j * u)
    OBVIOUS
  <2>5. 1314873 * i \in Int /\ 21600 * n \in Int /\ 900 * n \in Int /\ 15 * n \in Int
    BY <2>2
  <2>6. A = R * (1314873 * i) /\ B = e * (21600 * n) /\ C = h * (900 * n) /\ DD = min * (15 * n)
    OBVIOUS
  <2>7. R \in Int
    BY <2>1
  <2> HIDE DEF A, B, C, DD, e, i, n, R
  <2> QED BY <1>2, <2>3, <2>4, <2>5, <2>6, <2>7 DEF R
<1> HIDE DEF A, B, C, DD
<1>5. z = (g - v) * 4 /\ g - v \in Int /\ f = 4 * s
  <2>1. f = 4 * s
    OBVIOUS
  <2> HIDE DEF e, f
  <2>2. A \in Int /\ B \in Int /\ C \in Int /\ DD \in Int
    BY <1>4
  <2>3. 4 * v + z = 4 * A + 4 * B + 4 * C + 4 * DD + f
    BY <1>3, <1>4
  <2> QED BY <2>1, <2>2, <2>3
<1>6. c.s = g - v
  <2> DEFINE y == g - v
  <2>1. y \in Int /\ z = y * 4
    BY <1>5
  <2> HIDE DEF y, c
  <2>2. Quo(z, 4) = y
    BY <2>1, <1>2, WholeQuo
  <2> QED BY <1>3, <2>2 DEF y
<1> HIDE DEF c
<1>7. k[1] \in Int /\ k[2] = c.s - k[1] * Minute /\ c.s \in Int
  BY <1>5, <1>6, NsCarryExact
<1>8. Uncarried(k[2])
  BY <1>7, CarriedOnce
<1> HIDE DEF k
<1>9. /\ r.y = 0 /\ r.mo = c.mo /\ r.d = c.d /\ r.h = c.h /\ r.min = c.min + k[1] /\ r.s = k[2]
  BY <1>1 DEF Dur
<1>10. Length(r) = v + c.s
  <2> DEFINE a == (c.d * 24 + c.h) * 60 + c.min
  <2>1. a \in Int /\ (c.d * 24 + c.h) * 60 + (c.min + k[1]) = a + k[1]
    BY <1>3, <1>7
  <2>2. Length(r) = (a + k[1]) * Minute + (c.s - k[1] * Minute)
    BY <1>7, <1>9, <2>1 DEF Length
  <2>3. v = a * Minute
    BY <1>3
  <2> HIDE DEF a
  <2>4. (a + k[1]) * Minute = a * Minute + k[1] * Minute /\ a * Minute \in Int /\ k[1] * Minute \in Int
    BY <1>7, <2>1, Units
  <2> QED BY <1>7, <2>2, <2>3, <2>4
<1>11. 4 * Length(r) = 4 * g
  <2>1. g \in Int
    BY <1>4
  <2> DEFINE a == Length(r)
  <2>2. a = v + (g - v) /\ v \in Int
    BY <1>3, <1>6, <1>10
  <2> HIDE DEF a, g
  <2> QED BY <2>1, <2>2 DEF a
<1>12. 4 * g = Rem(mo, 4) * MeanMonth + e * Day + h * Hour + min * Minute + f
  <2> HIDE DEF e, f
  <2> QED BY <1>4, <1>5
<1>13. r \in Duration
  <2>1. c.mo \in Int
    BY <1>3, <1>2, Rests
  <2>2. k[2] \in Int /\ c.min + k[1] \in Int
    <3>1. k[1] * Minute \in Int
      BY <1>7, Units
    <3> QED BY <3>1, <1>3, <1>7
  <2> QED BY <1>1, <1>3, <2>1, <2>2 DEF Dur, Duration
<1> QED BY <1>3, <1>8, <1>9, <1>11, <1>12, <1>13 DEF QuartersKept, e, f

\* A duration written with fractions is read as long as they say, whatever the
\* months, the rest of the watch and the time of day are.
LEMMA FractionsRead ==
  ASSUME months \in Int, rest \in Int, time \in Nat, NEW q \in -3 .. 3
  PROVE  FractionsKept(q)
<1> DEFINE mo == 4 * months + q
           d == 4 * (rest \div Day)
           min == 4 * PartsOf(time).min + q
           s == time % Minute
           x == Quarters(mo, q, d, q, min, 4 * s)
           r == NormalizeDuration(x, 4)
<1>1. /\ mo \in Int /\ d \in Int /\ min \in Int /\ s \in Int /\ q \in Int
  <2>1. rest \div Day \in Int
    BY Units
  <2>2. PartsOf(time).min \in Int
    <3> DEFINE u == time % Hour
    <3>1. u \in Nat
      BY Units, NatDivision
    <3>2. PartsOf(time).min = u \div Minute
      BY DEF PartsOf
    <3> HIDE DEF u
    <3> QED BY <3>1, <3>2, Units, NatDivision
  <2>3. s \in Int
    BY Units
  <2> QED BY <2>1, <2>2, <2>3
<1>2. x.mo = mo /\ x.w = q /\ x.d = d /\ x.h = q /\ x.min = min /\ x.s = 4 * s
  BY DEF Quarters
<1> HIDE DEF mo, d, min, s
<1>3. r = NormalizeDuration(Quarters(mo, q, d, q, min, 4 * s), 4)
  OBVIOUS
<1> HIDE DEF x, r
<1>4. /\ r.mo = Quo(mo, 4) /\ r.y = 0 /\ r \in Duration
      /\ 4 * Length(r) = Rem(mo, 4) * MeanMonth + (d + 7 * q) * Day + q * Hour + min * Minute + 4 * s
      /\ Uncarried(r.s)
  <2>1. QuartersKept(r, mo, q, d, q, min, s)
    BY <1>1, <1>3, QuartersRead
  <2> QED BY <2>1 DEF QuartersKept
<1>5. NormalizeDuration(Again(r), 4) = r
  <2>1. r.mo \in Int /\ r.d \in Int /\ r.h \in Int /\ r.min \in Int /\ r.s \in Int
    BY <1>4 DEF Duration
  <2>2. NormalizeDuration(Again(r), 4) = Dur(0, r.mo, r.d, r.h, r.min, r.s)
    <3>1. WholeKept(r.mo, r.d, r.h, r.min, r.s)
      BY <1>4, <2>1, WholeRead
    <3> QED BY <3>1 DEF WholeKept, Again
  <2>3. r = Dur(r.y, r.mo, r.d, r.h, r.min, r.s)
    BY <1>4 DEF Duration, Dur
  <2> QED BY <1>4, <2>2, <2>3
<1>6. 4 * Length(r) = Rem(x.mo, 4) * MeanMonth + (x.d + 7 * x.w) * Day + x.h * Hour + x.min * Minute + x.s
  BY <1>2, <1>4
<1>7. r.mo = Quo(4 * months + q, 4)
  BY <1>4 DEF mo
<1> QED BY <1>5, <1>6, <1>7 DEF FractionsKept, r, x, mo, d, min, s

\* The parts of the time in whole units are the parts that are written.
LEMMA TwoForms ==
  ASSUME date.month \in Int, date.day \in Int, date.year \in Int, time \in Nat
  PROVE  FormsAgree
<1> DEFINE p == PartsOf(time)
           s == time % Minute
           u == time % Hour
           x == Quarters(4 * date.month, 0, 4 * date.day, 4 * p.h, 4 * p.min, 4 * s)
<1>1. p.h = time \div Hour /\ p.min = u \div Minute /\ p.sec = s \div Ns /\ p.ns = time % Ns
  BY DEF PartsOf
<1>2. s \in 0 .. Minute - 1 /\ s \in Nat /\ u \in Nat
  BY Units
<1>3. p.h \in Int /\ p.min \in Int
  <2>1. time \div Hour \in Int
    BY Units
  <2> HIDE DEF u
  <2>2. u \div Minute \in Int
    BY <1>2, Units
  <2> QED BY <1>1, <2>1, <2>2
<1>4. p.sec * Ns + p.ns = s
  <2>1. s % Ns = time % Ns
    BY Units, UnitInUnit DEF Minute
  <2> HIDE DEF s
  <2>2. s = (s \div Ns) * Ns + (s % Ns)
    BY <1>2, Units, NatDivision
  <2> QED BY <1>1, <2>1, <2>2
<1> HIDE DEF p, s, u
<1>5. Uncarried(s)
  <2>1. NsCarry(-s) = <<0, -s>>
    BY <1>2, NsCarryLess
  <2>2. s = -(-s)
    BY <1>2
  <2>3. NsCarry(-s)[2] = -s
    BY <2>1
  <2>4. NsCarry(s)[2] \in 0 .. Minute - 1 /\ NsCarry(s)[1] \in Nat /\ NsCarry(s)[2] = s - NsCarry(s)[1] * Minute
    BY <1>2, NsCarryNat, NsCarryExact
  <2> DEFINE k == NsCarry(s)[1]
  <2>5. k = 0
    <3>1. k \in Int /\ k > 0 => k * Minute >= Minute
      BY <2>4, Units, Multiples
    <3>2. s - k * Minute >= 0 /\ s < Minute /\ k \in Nat /\ k * Minute \in Int
      BY <1>2, <2>4, Units
    <3> HIDE DEF k
    <3> QED BY <1>2, <3>1, <3>2, Units
  <2>6. NsCarry(s)[2] = s
    BY <1>2, <2>4, <2>5, Units
  <2>7. NsCarry(s) = <<NsCarry(s)[1], NsCarry(s)[2]>>
    BY DEF NsCarry
  <2> QED BY <2>5, <2>6, <2>7 DEF Uncarried
<1>6. NormalizeDuration(x, 4) = Dur(0, date.month, date.day, p.h, p.min, s)
  <2>1. WholeKept(date.month, date.day, p.h, p.min, s)
    BY <1>2, <1>3, <1>5, WholeRead
  <2> QED BY <2>1 DEF WholeKept
<1> HIDE DEF x
<1>7. [NormalizeDuration(x, 4) EXCEPT !.y = date.year] = Dur(date.year, date.month, date.day, p.h, p.min, s)
  BY <1>6 DEF Dur
<1>8. DurationAlternative(date, p) = Dur(date.year, date.month, date.day, p.h, p.min, s)
  BY <1>4 DEF DurationAlternative
<1> QED BY <1>7, <1>8 DEF FormsAgree, x, p, s

\* The months of a difference, as years and months, are not negative.
LEMMA MonthsBetween ==
  ASSUME WatchInv, CalInv, SumInv, TypeInv, mark # NoMark
  PROVE  \E c \in Nat : \E d, t : Between(Val(mark), Val(Now)) = DaysAndTime(Quo(c, 12), Rem(c, 12), d, t)
<1> DEFINE a == mark.date
           b == date
           mt == mark.time
           t == time - mt
           short == b.day < a.day
           raw == 12 * (b.year - a.year) + (b.month - a.month)
           cal == CalendarDiff(a, b)
           c == IF t < 0 THEN Borrowed(cal, b) ELSE cal
           left == IF t < 0 THEN t + Day ELSE t
           there == Between(Val(mark), Val(Now))
<1>1. /\ ValidDate(a) /\ ValidDate(b)
      /\ day \in Int /\ day = EpochOf(b) /\ mark.day \in Int /\ mark.day = EpochOf(a)
      /\ time \in Int /\ mt \in Int /\ mark.day <= day
      /\ months \in Nat /\ months = MonthsTo(mark, b, time)
  BY WatchFacts
<1>2. /\ a.year \in Int /\ a.month \in Int /\ a.day \in Int
      /\ b.year \in Int /\ b.month \in Int /\ b.day \in Int
  <2> HIDE DEF a, b
  <2> QED BY <1>1, ValidInts
<1>3. there = DaysAndTime(Quo(c[1], 12), Rem(c[1], 12), c[2], left)
  <2>1. /\ Val(mark).date = a /\ Val(Now).date = b
        /\ TimeDiff(Val(mark), Val(Now)) = t
    BY DEF Val, Now, At, TimeDiff, TimeOf
  <2>2. EpochDiff(Val(mark), Val(Now)) >= 0
    <3>1. EpochDiff(Val(mark), Val(Now)) = day - mark.day
      BY <1>1, <2>1 DEF EpochDiff
    <3> QED BY <1>1, <3>1
  <2> HIDE DEF a, b, t
  <2> QED BY <2>1, <2>2 DEF Between
<1>4. raw \in Int
  BY <1>2
<1>5. months = raw - (IF Behind(mark, b, time) THEN 1 ELSE 0)
  <2>1. MonthsTo(mark, b, time) = raw - (IF Behind(mark, b, time) THEN 1 ELSE 0)
    BY <1>2 DEF MonthsTo
  <2> HIDE DEF raw, a, b
  <2> QED BY <1>1, <2>1
<1>6. short => Behind(mark, b, time)
  BY DEF Behind
<1>7. cal[1] = raw - (IF short THEN 1 ELSE 0)
  <2> HIDE DEF a, b
  <2> QED BY <1>2 DEF CalendarDiff
<1> HIDE DEF a, b, mt, raw, cal, there
<1>8. cal[1] \in Nat
  BY <1>1, <1>4, <1>5, <1>6, <1>7
<1>9. c[1] \in Nat
  <2>1. Borrowed(cal, b)[1] \in Nat
    <3>1. CASE cal[2] > 0
      BY <1>8, <3>1 DEF Borrowed
    <3>2. CASE ~(cal[2] > 0) /\ cal[1] > 0
      BY <1>8, <3>2 DEF Borrowed
    <3>3. CASE ~(cal[2] > 0) /\ ~(cal[1] > 0)
      BY <1>8, <3>3 DEF Borrowed
    <3> QED BY <3>1, <3>2, <3>3
  <2> QED BY <1>8, <2>1
<1> HIDE DEF c, left
<1> QED BY <1>3, <1>9 DEF there

\* Half of a number of months is as many years and months as half of it.
LEMMA HalfMonths ==
  ASSUME WatchInv, CalInv, SumInv, TypeInv, mark # NoMark
  PROVE  MonthsHalved
<1> DEFINE b == Between(Val(mark), Val(Now))
           half == DurationMul(b, 1, 2)
<1>0. PICK c \in Nat : \E d, t : b = DaysAndTime(Quo(c, 12), Rem(c, 12), d, t)
  BY MonthsBetween
<1>1. PICK d, t : b = DaysAndTime(Quo(c, 12), Rem(c, 12), d, t)
  BY <1>0
<1> DEFINE y == c \div 12
           m == c % 12
           u == y \div 2
           v == y % 2
           z == m + 12 * v
<1>2. y \in Nat /\ m \in 0 .. 11 /\ m \in Nat /\ m * 1 = m /\ y * 1 = y
  OBVIOUS
<1>3. b.y = y /\ b.mo = m
  <2>1. 12 \in Nat \ {0}
    OBVIOUS
  <2>2. b.y = Quo(c, 12) /\ b.mo = Rem(c, 12)
    BY <1>1 DEF DaysAndTime, Dur
  <2> HIDE DEF b
  <2> QED BY <2>1, <2>2, Quotients
<1> HIDE DEF b, y, m
<1>4. u \in Nat /\ v \in 0 .. 1 /\ y = 2 * u + v /\ 2 \in Nat \ {0} /\ z \in Nat
  BY <1>2
<1>5. half.y = Quo(b.y * 1, 2) /\ half.mo = Quo(b.mo * 1 + Rem(b.y * 1, 2) * 12, 2)
  BY DEF DurationMul, Cascade, Dur
<1> HIDE DEF half
<1>6. half.y = u /\ half.mo = z \div 2
  <2>1. Quo(y, 2) = u /\ Rem(y, 2) = v
    BY <1>2, <1>4, Quotients
  <2>2. m + v * 12 = z
    BY <1>2, <1>4
  <2> HIDE DEF u, v, z
  <2>3. Quo(z, 2) = z \div 2
    BY <1>4, Quotients
  <2> QED BY <1>2, <1>3, <1>5, <2>1, <2>2, <2>3
<1>7. (12 * y + m) \div 2 = 12 * u + (z \div 2)
  <2> HIDE DEF u, v
  <2> QED BY <1>2, <1>4
<1> QED BY <1>3, <1>6, <1>7 DEF MonthsHalved, half, b

\* Whole units beside what is divided are not rounded, when both have one sign.
LEMMA RoundedOnce ==
  ASSUME NEW w \in Int, NEW r \in Int, NEW den \in Nat \ {0}, (w >= 0 /\ r >= 0) \/ (w <= 0 /\ r <= 0)
  PROVE  Quo(den * w + r, den) = w + Quo(r, den)
<1>1. ASSUME NEW v \in Nat, NEW z \in Nat
      PROVE  /\ Quo(den * v + z, den) = v + (z \div den)
             /\ Quo(-(den * v + z), den) = -(v + (z \div den))
  <2> DEFINE a == den * v + z
             q == z \div den
             u == z % den
  <2>1. z = q * den + u /\ q \in Int /\ u \in 0 .. den - 1
    OBVIOUS
  <2>2. v * den \in Nat /\ a = v * den + z
    OBVIOUS
  <2>3. a \in Nat
    BY <2>2
  <2> HIDE DEF a, q, u
  <2>4. a = (v + q) * den + u /\ v + q \in Int
    <3>1. (v + q) * den = v * den + q * den /\ q * den \in Int /\ u \in Int
      BY <2>1
    <3> QED BY <2>1, <2>2, <3>1
  <2>5. a \div den = v + q
    <3> DEFINE k == v + q
    <3>1. k \in Int /\ a = k * den + u /\ a \in Int
      BY <2>3, <2>4
    <3> HIDE DEF k
    <3>2. a \div den = k
      BY <2>1, <3>1, Divided
    <3> QED BY <3>2 DEF k
  <2>6. Quo(a, den) = a \div den /\ Quo(-a, den) = -(a \div den)
    BY <2>3, Quotients
  <2> QED BY <2>5, <2>6 DEF a, q
<1>2. CASE w >= 0 /\ r >= 0
  <2>1. w \in Nat /\ r \in Nat
    BY <1>2
  <2>2. Quo(r, den) = r \div den
    BY <2>1, Quotients
  <2> QED BY <1>1, <2>1, <2>2
<1>3. CASE w <= 0 /\ r <= 0
  <2> DEFINE v == -w
             z == -r
             q == z \div den
  <2>1. v \in Nat /\ z \in Nat /\ w = -v /\ r = -z
    BY <1>3
  <2>2. den * w + r = -(den * v + z)
    <3> HIDE DEF v, z
    <3>1. den * (-v) = -(den * v) /\ den * v \in Int
      BY <2>1
    <3> DEFINE x == den * v
    <3>2. x \in Int /\ den * w = -x
      BY <2>1, <3>1
    <3> HIDE DEF x
    <3>3. den * w + r = -(x + z)
      BY <2>1, <3>2
    <3> QED BY <3>3 DEF x
  <2> HIDE DEF v, z
  <2>3. Quo(r, den) = -q /\ q \in Nat
    <3>1. Quo(-z, den) = -(z \div den)
      BY <2>1, Quotients
    <3> QED BY <2>1, <3>1, NatDivision
  <2>4. Quo(den * w + r, den) = -(v + q)
    BY <1>1, <2>1, <2>2
  <2> HIDE DEF q
  <2>5. -(v + q) = w + (-q)
    BY <2>1, <2>3
  <2> QED BY <2>3, <2>4, <2>5
<1> QED BY <1>2, <1>3

\* A multiple of the sum is the multiple of the time that passed, rounded once.
LEMMA SumMultiplied ==
  ASSUME SumInv, NEW num \in Int, NEW den \in Nat \ {0}
  PROVE  Multiplied(num, den)
<1> DEFINE d == total
           h == d.h * num
           min == d.min * num
           s == d.s * num
           c == Cascade(0, 0, h, min, s, den)
           k == NsCarry(c.s)
           j == MinCarry(c.min + k[1])
           r == DurationMul(total, num, den)
<1>1. /\ Carried(d) /\ d.y = 0 /\ d.mo = 0 /\ d.d = 0 /\ d.h \in Nat /\ d.min \in Nat /\ d.s \in Nat
      /\ Length(d) = elapsed /\ elapsed \in Nat
  <2>1. Carried(d) /\ Length(d) = elapsed /\ elapsed \in Nat
    BY DEF SumInv
  <2>2. d.y = 0 /\ d.mo = 0 /\ d.d = 0 /\ d.h \in Nat /\ d.min \in 0 .. 59 /\ d.s \in Nat
    <3> HIDE DEF d
    <3> QED BY <2>1, CarriedFields
  <2>3. d.min \in Nat
    BY <2>2
  <2> QED BY <2>1, <2>2, <2>3
<1>2. h \in Int /\ min \in Int /\ s \in Int
  BY <1>1
<1>3. r = Dur(Quo(d.y * num, den), c.mo, c.d, c.h + j[1], j[2], k[2])
  <2>1. d.y * num = 0 /\ d.d * num = 0 /\ d.mo * num = 0
    BY <1>1
  <2>2. Rem(0, den) = 0
    <3>1. 0 * den = 0 /\ Rem(0 * den, den) = 0
      BY WholeQuo
    <3> QED BY <3>1
  <2>3. d.mo * num + Rem(d.y * num, den) * 12 = 0
    BY <2>1, <2>2
  <2> QED BY <2>1, <2>3 DEF DurationMul
<1>4. PICK w, z \in Int : Cascaded(c, 0, 0, h, min, s, den, w, z)
  <2>1. c = Cascade(0, 0, h, min, s, den) /\ 0 \in Int
    OBVIOUS
  <2> HIDE DEF c, h, min, s
  <2> QED BY <1>2, <2>1, CascadeSplit
<1> HIDE DEF c
<1>5. /\ c.d \in Int /\ c.h \in Int /\ c.min \in Int /\ c.s = Quo(z, den) /\ c.s \in Int
      /\ w = ((c.d * 24 + c.h) * 60 + c.min) * Minute
  <2>1. Quo(z, den) \in Int
    BY Rests
  <2> QED BY <1>4, <2>1 DEF Cascaded
<1>6. den * w + z = elapsed * num
  <2>1. den * w + z = Rem(0, den) * MeanMonth + 0 * Day + h * Hour + min * Minute + s
    BY <1>4 DEF Cascaded
  <2>2. Rem(0, den) * MeanMonth = 0 /\ 0 * Day = 0
    <3>1. 0 * den = 0 /\ Rem(0 * den, den) = 0
      BY WholeQuo
    <3> QED BY <3>1, Units DEF MeanMonth
  <2> DEFINE m == Minute
             a == d.h
             b == d.min
             e == d.s
             n == elapsed
  <2>3. m \in Int /\ a \in Int /\ b \in Int /\ e \in Int /\ Hour = 60 * m
    BY <1>1, Units DEF Hour
  <2>4. n = (a * 60 + b) * m + e
    <3>1. Length(d) = ((0 * 24 + a) * 60 + b) * m + e
      BY <1>1 DEF Length
    <3>2. (0 * 24 + a) * 60 + b = a * 60 + b
      BY <2>3
    <3> QED BY <1>1, <3>1, <3>2
  <2>5. h = a * num /\ min = b * num /\ s = e * num
    OBVIOUS
  <2>6. h * Hour + min * m + s = n * num
    <3> HIDE DEF m, a, b, e, n, h, min, s
    <3> DEFINE x == a * m
               y == b * m
    <3>1. x \in Int /\ y \in Int /\ (a * num) * (60 * m) = 60 * (x * num) /\ (b * num) * m = y * num
      BY <2>3
    <3>2. (a * 60 + b) * m = 60 * x + y
      BY <2>3
    <3> HIDE DEF x, y
    <3>3. (60 * x + y + e) * num = 60 * (x * num) + y * num + e * num
      BY <2>3, <3>1
    <3>4. n = 60 * x + y + e
      BY <2>4, <3>2
    <3> QED BY <2>3, <2>5, <3>1, <3>3, <3>4
  <2>7. h * Hour \in Int /\ min * m \in Int
    <3>1. Hour \in Int
      BY Units
    <3> HIDE DEF h, min, m
    <3> QED BY <1>2, <2>3, <3>1
  <2> DEFINE f == h * Hour
             g == min * m
  <2>8. den * w + z = 0 + 0 + f + g + s
    BY <2>1, <2>2
  <2> HIDE DEF f, g, h, min, s
  <2>9. 0 + 0 + f + g + s = f + g + s
    BY <1>2, <2>7 DEF f, g
  <2> QED BY <2>6, <2>8, <2>9 DEF f, g, n
<1>7. (w >= 0 /\ z >= 0) \/ (w <= 0 /\ z <= 0)
  <2>1. ASSUME NEW a \in Nat
        PROVE  (num >= 0 => a * num >= 0) /\ (num <= 0 => a * num <= 0)
    <3>1. CASE a = 0
      BY <3>1
    <3>2. CASE a # 0
      <4>1. (num >= 0 => num * a >= 0) /\ (num <= 0 => num * a <= 0) /\ num * a = a * num
        BY <3>2, TimesSigns
      <4> QED BY <4>1
    <3> QED BY <3>1, <3>2
  <2>2. CASE num >= 0
    <3>1. AllUp(0, h, min, s)
      BY <1>1, <2>1, <2>2 DEF AllUp
    <3> QED BY <1>4, <3>1 DEF Cascaded
  <2>3. CASE num <= 0
    <3>1. AllDown(0, h, min, s)
      BY <1>1, <2>1, <2>3 DEF AllDown
    <3> QED BY <1>4, <3>1 DEF Cascaded
  <2> QED BY <2>2, <2>3
<1>8. Quo(elapsed * num, den) = w + c.s
  <2>1. Quo(den * w + z, den) = w + Quo(z, den)
    BY <1>7, RoundedOnce
  <2> QED BY <1>5, <1>6, <2>1
<1>9. k[1] \in Int /\ k[2] = c.s - k[1] * Minute
  BY <1>5, NsCarryExact
<1> HIDE DEF k
<1>10. j[1] \in Int /\ j[2] = c.min + k[1] - j[1] * 60
  <2>1. c.min + k[1] \in Int
    BY <1>5, <1>9
  <2> DEFINE u == c.min + k[1]
  <2>2. j = MinCarry(u) /\ u \in Int
    BY <2>1
  <2> HIDE DEF u, j
  <2>3. j[1] \in Int /\ j[2] = u - j[1] * 60
    BY <2>2, MinCarryExact
  <2>4. u = c.min + k[1]
    BY DEF u
  <2> QED BY <1>5, <1>9, <2>3, <2>4
<1> HIDE DEF j, r, d, h, min, s
<1>11. /\ r.d = c.d /\ r.h = c.h + j[1] /\ r.min = j[2] /\ r.s = k[2]
  BY <1>3 DEF Dur
<1>12. Length(r) = w + c.s
  <2> DEFINE a == (c.d * 24 + c.h) * 60 + c.min
             b == (c.d * 24 + (c.h + j[1])) * 60 + (c.min + k[1] - j[1] * 60)
  <2>1. a \in Int /\ b = a + k[1] /\ w = a * Minute
    BY <1>5, <1>9, <1>10
  <2>2. Length(r) = b * Minute + (c.s - k[1] * Minute)
    BY <1>9, <1>10, <1>11 DEF Length
  <2> HIDE DEF a, b
  <2>3. (a + k[1]) * Minute = a * Minute + k[1] * Minute /\ a * Minute \in Int /\ k[1] * Minute \in Int
    BY <1>9, <2>1, Units
  <2> QED BY <1>5, <2>1, <2>2, <2>3
<1> QED BY <1>8, <1>12 DEF Multiplied, r

\* With any smallest unit of whole halves, at any time of any day: a duration
\* written with fractions is as long as they say and is read again as itself, a
\* multiple of a duration is as long as the multiple of its time, half of a
\* number of months is half as long, and the two forms of a duration agree.
THEOREM DurationsRead == Spec => []DurationTexts
<1>1. CalInv /\ SumInv /\ TypeInv /\ WatchInv => DurationTexts
  <2> SUFFICES ASSUME CalInv, SumInv, TypeInv, WatchInv PROVE DurationTexts
    OBVIOUS
  <2>1. months \in Int /\ rest \in Int
    BY DEF TypeInv
  <2>2. time \in Nat
    BY TimesBelowDay DEF SumInv
  <2>3. date.month \in Int /\ date.day \in Int /\ date.year \in Int
    BY ValidInts DEF CalInv
  <2>4. \A q \in -3 .. 3 : FractionsKept(q)
    BY <2>1, <2>2, FractionsRead
  <2>5. \A num \in {-3, -1, 1, 3} : \A den \in {2, 4} : Multiplied(num, den)
    <3>1. \A num \in {-3, -1, 1, 3} : num \in Int
      OBVIOUS
    <3>2. \A den \in {2, 4} : den \in Nat \ {0}
      OBVIOUS
    <3> QED BY <3>1, <3>2, SumMultiplied
  <2>6. mark # NoMark => MonthsHalved
    BY HalfMonths
  <2>7. FormsAgree
    BY <2>2, <2>3, TwoForms
  <2> QED BY <2>4, <2>5, <2>6, <2>7 DEF DurationTexts
<1> QED BY <1>1, WatchAlways, CalAlways, SumAlways, TypeAlways, PTL
===============================================================================
