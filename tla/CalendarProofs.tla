---------------------------- MODULE CalendarProofs ----------------------------
(***************************************************************************)
(* For every start and every number of days counted: the number the code   *)
(* computes for a date is the number of days, the date it computes for the *)
(* number is the date, and each period the date is in began on the day the *)
(* code gives it.  The inductive invariants are CalInv, that the date is   *)
(* one there is and its number the day counted, and BeganInv, what is      *)
(* remembered of the periods.  Whatever the smallest unit is, and however  *)
(* the clock runs, the moments the code computes from seconds, zones and   *)
(* parts of a date, its sums of durations and its differences are those    *)
(* the clock counted: by SumInv of the sum, TypeInv of the types and       *)
(* WatchInv of the watch.                                                  *)
(***************************************************************************)
EXTENDS CalendarClock, TLAPS

ValidDate(dt) ==
  /\ dt = D(dt.year, dt.month, dt.day)
  /\ dt.year \in Nat \ {0} /\ dt.month \in 1 .. 12
  /\ dt.day \in 1 .. DaysInMonth(dt.year, dt.month)

-----------------------------------------------------------------------------
(* Division. *)

LEMMA Multiples ==
  ASSUME NEW k \in Int, NEW b \in Nat \ {0}
  PROVE  /\ k * b \in Int
         /\ k > 0 => k * b >= b
         /\ k < 0 => k * b <= -b
         /\ k >= 0 => k * b >= 0
<1>1. k * b \in Int
  OBVIOUS
<1>2. ASSUME k > 0 PROVE k * b >= b
  <2>1. (k - 1) * b >= 0
    BY <1>2
  <2>2. (k - 1) * b = k * b - b
    OBVIOUS
  <2> QED BY <1>1, <2>1, <2>2
<1>3. ASSUME k < 0 PROVE k * b <= -b
  <2>1. (-k - 1) * b >= 0
    BY <1>3
  <2>2. (-k - 1) * b = -(k * b) - b
    OBVIOUS
  <2> QED BY <1>1, <2>1, <2>2
<1>4. ASSUME k >= 0 PROVE k * b >= 0
  BY <1>4
<1> QED BY <1>1, <1>2, <1>3, <1>4

LEMMA Division ==
  ASSUME NEW a \in Int, NEW b \in Nat \ {0}
  PROVE  a \div b \in Int /\ a % b \in 0 .. b - 1 /\ a = (a \div b) * b + (a % b)
  OBVIOUS

\* There is one way to divide.
LEMMA Divided ==
  ASSUME NEW a \in Int, NEW b \in Nat \ {0}, NEW q \in Int, NEW r \in 0 .. b - 1, a = q * b + r
  PROVE  a \div b = q /\ a % b = r
<1> DEFINE p == a \div b
           s == a % b
           k == p - q
<1>1. p \in Int /\ s \in 0 .. b - 1 /\ a = p * b + s
  BY Division
<1> HIDE DEF p, s
<1>2. k \in Int /\ k * b = p * b - q * b /\ p * b \in Int /\ q * b \in Int
  BY <1>1
<1>3. k * b = r - s
  <2> HIDE DEF k
  <2> QED BY <1>1, <1>2
<1>4. ~(k > 0) /\ ~(k < 0)
  <2>1. (k > 0 => k * b >= b) /\ (k < 0 => k * b <= -b)
    <3> HIDE DEF k
    <3> QED BY <1>2, Multiples
  <2> HIDE DEF k
  <2> QED BY <1>1, <1>2, <1>3, <2>1
<1>5. p = q
  BY <1>1, <1>4
<1>6. s = r
  BY <1>1, <1>2, <1>5
<1> QED BY <1>5, <1>6 DEF p, s

-----------------------------------------------------------------------------
(* Years. *)

\* The years in a, b, c and e whole cycles of 400, 100, 4 and 1 years.
Cycles(a, b, c, e) == 400 * a + 100 * b + 4 * c + e

\* Every year is so many whole cycles of 400, 100, 4 and 1 years after year 1.
LEMMA YearSplit ==
  ASSUME NEW y \in Nat \ {0}
  PROVE  \E a \in Nat, b \in 0 .. 3, c \in 0 .. 24, e \in 0 .. 3 :
           y - 1 = Cycles(a, b, c, e)
<1> DEFINE a == (y - 1) \div 400
           r == (y - 1) - 400 * a
           b == r \div 100
           q == r - 100 * b
           c == q \div 4
           e == q - 4 * c
<1>1. a \in Nat /\ r \in 0 .. 399 /\ y - 1 = 400 * a + r
  OBVIOUS
<1>2. b \in 0 .. 3 /\ q \in 0 .. 99 /\ r = 100 * b + q
  <2> HIDE DEF a, r
  <2> QED BY <1>1
<1>3. c \in 0 .. 24 /\ e \in 0 .. 3 /\ q = 4 * c + e
  <2> HIDE DEF a, r, b, q
  <2> QED BY <1>2
<1> HIDE DEF a, r, b, q, c, e
<1>4. y - 1 = Cycles(a, b, c, e)
  BY <1>1, <1>2, <1>3 DEF Cycles
<1> QED BY <1>1, <1>2, <1>3, <1>4

\* What the divisions by 4, 100 and 400 count, and when the year is a leap year.
LeapYears(p, a, b, c, e) ==
  /\ p \in Int
  /\ p \div 4 = 100 * a + 25 * b + c
  /\ p \div 100 = 4 * a + b
  /\ p \div 400 = a
  /\ IsLeap(p + 1) <=> (e = 3 /\ (c # 24 \/ b = 3))

LEMMA LeapCount ==
  ASSUME NEW a \in Int, NEW b \in 0 .. 3, NEW c \in 0 .. 24, NEW e \in 0 .. 3
  PROVE  LeapYears(Cycles(a, b, c, e), a, b, c, e)
<1> DEFINE p == Cycles(a, b, c, e)
<1>1. p \in Int /\ p = 400 * a + 100 * b + 4 * c + e
  BY DEF Cycles
<1> HIDE DEF p
<1>2. p \div 4 = 100 * a + 25 * b + c
  BY <1>1
<1>3. p \div 100 = 4 * a + b
  BY <1>1
<1>4. p \div 400 = a
  BY <1>1
<1>5. (p + 1) % 4 = 0 <=> e = 3
  BY <1>1
<1>6. (p + 1) % 100 = 0 <=> (e = 3 /\ c = 24)
  BY <1>1
<1>7. (p + 1) % 400 = 0 <=> (e = 3 /\ c = 24 /\ b = 3)
  BY <1>1
<1>8. IsLeap(p + 1) <=> (e = 3 /\ (c # 24 \/ b = 3))
  BY <1>5, <1>6, <1>7 DEF IsLeap
<1>9. LeapYears(p, a, b, c, e)
  BY <1>1, <1>2, <1>3, <1>4, <1>8 DEF LeapYears
<1> QED BY <1>9 DEF p

-----------------------------------------------------------------------------
(* Months. *)

\* The table the loops over the months add up to.
LEMMA DaysBeforeValues ==
  ASSUME NEW y \in Nat \ {0}, NEW l \in 0 .. 1, l = IF IsLeap(y) THEN 1 ELSE 0
  PROVE  /\ DaysBefore(y, 1) = 0 /\ DaysBefore(y, 2) = 31 /\ DaysBefore(y, 3) = 59 + l
         /\ DaysBefore(y, 4) = 90 + l /\ DaysBefore(y, 5) = 120 + l /\ DaysBefore(y, 6) = 151 + l
         /\ DaysBefore(y, 7) = 181 + l /\ DaysBefore(y, 8) = 212 + l /\ DaysBefore(y, 9) = 243 + l
         /\ DaysBefore(y, 10) = 273 + l /\ DaysBefore(y, 11) = 304 + l
         /\ DaysBefore(y, 12) = 334 + l /\ DaysBefore(y, 13) = 365 + l
  BY DEF DaysBefore

\* Every month begins when the one before it is over.
LEMMA DaysBeforeStep ==
  ASSUME NEW y \in Nat \ {0}, NEW m \in 1 .. 12
  PROVE  /\ DaysInMonth(y, m) \in 28 .. 31
         /\ DaysBefore(y, m) \in 0 .. 335
         /\ DaysBefore(y, m + 1) = DaysBefore(y, m) + DaysInMonth(y, m)
<1> DEFINE l == IF IsLeap(y) THEN 1 ELSE 0
<1>1. l \in 0 .. 1
  OBVIOUS
<1>2. m \in {1, 2, 3, 4, 5, 6, 7, 8, 9, 10, 11, 12}
  OBVIOUS
<1> QED BY <1>1, <1>2, DaysBeforeValues DEF DaysInMonth

LEMMA DaysTypes ==
  ASSUME NEW y \in Nat \ {0}
  PROVE  /\ \A m \in 1 .. 12 : DaysInMonth(y, m) \in 28 .. 31
         /\ \A m \in 1 .. 13 : DaysBefore(y, m) \in Nat
<1>1. \A m \in 1 .. 12 : DaysInMonth(y, m) \in 28 .. 31
  BY DEF DaysInMonth
<1>2. ASSUME NEW m \in 1 .. 13 PROVE DaysBefore(y, m) \in Nat
  <2>1. m \in {1, 2, 3, 4, 5, 6, 7, 8, 9, 10, 11, 12, 13}
    OBVIOUS
  <2> DEFINE l == IF IsLeap(y) THEN 1 ELSE 0
  <2>2. l \in 0 .. 1
    OBVIOUS
  <2> QED BY <2>1, <2>2, DaysBeforeValues
<1> QED BY <1>1, <1>2

LEMMA DaysBeforeInt ==
  ASSUME NEW y, NEW m \in 1 .. 13
  PROVE  DaysBefore(y, m) \in Int
<1>1. m \in {1, 2, 3, 4, 5, 6, 7, 8, 9, 10, 11, 12, 13}
  OBVIOUS
<1> QED BY <1>1 DEF DaysBefore

\* Every day of a year, and every one after it, is in a month of the table.
LEMMA MonthExists ==
  ASSUME NEW y, NEW n \in Nat \ {0}
  PROVE  /\ MonthOf(y, n) \in 1 .. 13 /\ DaysBefore(y, MonthOf(y, n)) < n
         /\ MonthOf(y, n) # 13 => n <= DaysBefore(y, MonthOf(y, n) + 1)
<1> DEFINE Has(k) == DaysBefore(y, k) < n /\ (k # 13 => n <= DaysBefore(y, k + 1))
           l == IF IsLeap(y) THEN 1 ELSE 0
<1>1. l \in 0 .. 1
  OBVIOUS
<1>2. /\ DaysBefore(y, 1) = 0 /\ DaysBefore(y, 2) = 31 /\ DaysBefore(y, 3) = 59 + l
      /\ DaysBefore(y, 4) = 90 + l /\ DaysBefore(y, 5) = 120 + l /\ DaysBefore(y, 6) = 151 + l
      /\ DaysBefore(y, 7) = 181 + l /\ DaysBefore(y, 8) = 212 + l /\ DaysBefore(y, 9) = 243 + l
      /\ DaysBefore(y, 10) = 273 + l /\ DaysBefore(y, 11) = 304 + l
      /\ DaysBefore(y, 12) = 334 + l /\ DaysBefore(y, 13) = 365 + l
  BY DEF DaysBefore
<1> HIDE DEF l
<1>3. Has(1) \/ Has(2) \/ Has(3) \/ Has(4) \/ Has(5) \/ Has(6) \/ Has(7) \/ Has(8) \/ Has(9)
        \/ Has(10) \/ Has(11) \/ Has(12) \/ Has(13)
  BY <1>1, <1>2
<1>4. MonthOf(y, n) = CHOOSE k \in 1 .. 13 : Has(k)
  BY DEF MonthOf
<1> HIDE DEF Has
<1>5. \E k \in 1 .. 13 : Has(k)
  BY <1>3
<1>6. MonthOf(y, n) \in 1 .. 13 /\ Has(MonthOf(y, n))
  BY <1>4, <1>5
<1> QED BY <1>6 DEF Has

\* A later month begins after an earlier one is over.
LEMMA DaysBeforeOrder ==
  ASSUME NEW y \in Nat \ {0}, NEW k \in 1 .. 13, NEW m \in 1 .. 13, k < m
  PROVE  DaysBefore(y, k + 1) <= DaysBefore(y, m)
<1> DEFINE l == IF IsLeap(y) THEN 1 ELSE 0
<1>1. l \in 0 .. 1
  OBVIOUS
<1>2. /\ k \in {1, 2, 3, 4, 5, 6, 7, 8, 9, 10, 11, 12}
      /\ m \in {2, 3, 4, 5, 6, 7, 8, 9, 10, 11, 12, 13}
  OBVIOUS
<1> QED BY <1>1, <1>2, DaysBeforeValues

\* The day d of month m is in month m.
LEMMA MonthFound ==
  ASSUME NEW y \in Nat \ {0}, NEW m \in 1 .. 12, NEW d \in 1 .. DaysInMonth(y, m)
  PROVE  MonthOf(y, DaysBefore(y, m) + d) = m
<1> DEFINE n == DaysBefore(y, m) + d
           Has(k) == DaysBefore(y, k) < n /\ (k # 13 => n <= DaysBefore(y, k + 1))
<1>1. /\ n \in Int /\ \A k \in 1 .. 13 : DaysBefore(y, k) \in Int
      /\ DaysInMonth(y, m) \in Int
  BY DaysTypes
<1>2. Has(m)
  <2>1. DaysBefore(y, m + 1) = DaysBefore(y, m) + DaysInMonth(y, m)
    BY DaysBeforeStep
  <2> QED BY <1>1, <2>1
<1>3. ASSUME NEW k \in 1 .. 13, Has(k) PROVE k = m
  <2>1. CASE k < m
    <3>1. DaysBefore(y, k + 1) <= DaysBefore(y, m) /\ k + 1 \in 1 .. 13 /\ k # 13
      BY <2>1, DaysBeforeOrder
    <3> QED BY <1>1, <1>2, <1>3, <3>1
  <2>2. CASE m < k
    <3>1. DaysBefore(y, m + 1) <= DaysBefore(y, k) /\ m + 1 \in 1 .. 13 /\ m # 13
      BY <2>2, DaysBeforeOrder
    <3> QED BY <1>1, <1>2, <1>3, <3>1
  <2> QED BY <2>1, <2>2
<1> HIDE DEF n
<1>4. MonthOf(y, n) = CHOOSE k \in 1 .. 13 : Has(k)
  BY DEF MonthOf
<1> HIDE DEF Has
<1> QED BY <1>2, <1>3, <1>4 DEF n

-----------------------------------------------------------------------------
(* Epoch and FromEpoch. *)

\* The number of a date: whole cycles, whole years and the day of the year.
EpochSum(n, a, b, c, e, o) == n = 146097 * a + 36524 * b + 1461 * c + 365 * e + o

LEMMA EpochOfCycles ==
  ASSUME NEW a \in Int, NEW b \in 0 .. 3, NEW c \in 0 .. 24, NEW e \in 0 .. 3,
         NEW y \in Int, y - 1 = Cycles(a, b, c, e),
         NEW m \in 1 .. 13, NEW d \in Int
  PROVE  EpochSum(Epoch(y, m, d), a, b, c, e, DaysBefore(y, m) + d)
<1> DEFINE p == Cycles(a, b, c, e)
           s == DaysBefore(y, m)
<1>1. p = 400 * a + 100 * b + 4 * c + e
  BY DEF Cycles
<1>2. p \in Int /\ p \div 4 = 100 * a + 25 * b + c /\ p \div 100 = 4 * a + b /\ p \div 400 = a
  <2>1. LeapYears(p, a, b, c, e)
    BY LeapCount
  <2> HIDE DEF p
  <2> QED BY <2>1 DEF LeapYears
<1>3. s \in Int
  BY DaysBeforeInt
<1>4. Epoch(y, m, d) = 365 * p + (p \div 4) - (p \div 100) + (p \div 400) + s + d
  BY DEF Epoch
<1> HIDE DEF p, s
<1>5. Epoch(y, m, d) = 365 * p + (100 * a + 25 * b + c) - (4 * a + b) + a + s + d
  BY <1>2, <1>4
<1>6. Epoch(y, m, d) = 146097 * a + 36524 * b + 1461 * c + 365 * e + s + d
  BY <1>1, <1>3, <1>5
<1> QED BY <1>6, <1>3 DEF s, EpochSum

\* FromEpoch takes the cycles off again.
LEMMA FromEpochEpoch ==
  ASSUME NEW y \in Nat \ {0}, NEW m \in 1 .. 12, NEW d \in 1 .. DaysInMonth(y, m)
  PROVE  FromEpoch(Epoch(y, m, d)) = D(y, m, d)
<1>1. PICK a \in Nat, b \in 0 .. 3, c \in 0 .. 24, e \in 0 .. 3 : y - 1 = Cycles(a, b, c, e)
  BY YearSplit
<1> DEFINE l == IF IsLeap(y) THEN 1 ELSE 0
           o == DaysBefore(y, m) + d
           n == Epoch(y, m, d)
<1>0. d \in Nat /\ DaysBefore(y, m) \in Nat /\ DaysInMonth(y, m) \in Nat
  <2>1. DaysInMonth(y, m) \in Nat /\ DaysBefore(y, m) \in Nat
    <3>1. \A k \in 1 .. 12 : DaysInMonth(y, k) \in 28 .. 31
      BY DaysTypes, Zenon
    <3>2. \A k \in 1 .. 13 : DaysBefore(y, k) \in Nat
      BY DaysTypes, Zenon
    <3>3. m \in 1 .. 13 /\ 28 .. 31 \subseteq Nat
      OBVIOUS
    <3> QED BY <3>1, <3>2, <3>3
  <2> QED BY <2>1
<1>2. l \in 0 .. 1 /\ (l = 1 <=> (e = 3 /\ (c # 24 \/ b = 3)))
  <2>1. LeapYears(Cycles(a, b, c, e), a, b, c, e)
    BY LeapCount
  <2>2. LeapYears(y - 1, a, b, c, e)
    BY <1>1, <2>1
  <2>3. y - 1 + 1 = y
    OBVIOUS
  <2> QED BY <2>2, <2>3 DEF LeapYears
<1>3. o \in 1 .. 365 + l
  <2>1. DaysBefore(y, m + 1) <= 365 + l
    <3>1. DaysBefore(y, 13) = 365 + l
      BY <1>2, DaysBeforeValues
    <3>2. CASE m = 12
      BY <3>1, <3>2, <1>2
    <3>3. CASE m # 12
      <4>1. m + 1 \in 1 .. 12
        BY <3>3
      <4>2. DaysBefore(y, m + 1) \in 0 .. 335
        BY <4>1, DaysBeforeStep
      <4> HIDE DEF l
      <4> QED BY <4>2, <1>2
    <3> QED BY <3>2, <3>3
  <2>2. DaysBefore(y, m + 1) = DaysBefore(y, m) + DaysInMonth(y, m)
    BY DaysBeforeStep
  <2> HIDE DEF l
  <2> QED BY <2>1, <2>2, <1>0, <1>2
<1>4. n = 146097 * a + 36524 * b + 1461 * c + 365 * e + o
  <2>1. d \in Int /\ m \in 1 .. 13
    BY <1>0
  <2>2. EpochSum(n, a, b, c, e, o)
    <3> HIDE DEF l
    <3>1. a \in Int /\ y \in Int
      OBVIOUS
    <3> QED BY <1>1, <2>1, <3>1, EpochOfCycles
  <2> QED BY <2>2 DEF EpochSum
<1>5. MonthOf(y, o) = m
  BY MonthFound
<1>6. o - DaysBefore(y, m) = d
  BY <1>0
<1>13. y = 400 * a + 100 * b + 4 * c + e + 1
  BY <1>1 DEF Cycles
<1> HIDE DEF n, o, l
<1> DEFINE n400 == (n - 1) \div 146097
           r1   == n - n400 * 146097
           n100 == AtMost3((r1 - 1) \div 36524)
           r2   == r1 - n100 * 36524
           n4   == (r2 - 1) \div 1461
           r3   == r2 - n4 * 1461
           n1   == AtMost3((r3 - 1) \div 365)
           z    == n400 * 400 + n100 * 100 + n4 * 4 + n1 + 1
           x    == r3 - n1 * 365
<1>7. n400 = a /\ r1 = 36524 * b + 1461 * c + 365 * e + o
  BY <1>2, <1>3, <1>4
<1>8. n100 = b /\ r2 = 1461 * c + 365 * e + o
  <2> HIDE DEF n400, r1
  <2> QED BY <1>2, <1>3, <1>7 DEF AtMost3
<1>9. n4 = c /\ r3 = 365 * e + o
  <2> HIDE DEF n400, r1, n100, r2
  <2> QED BY <1>2, <1>3, <1>8
<1>10. n1 = e /\ x = o
  <2> HIDE DEF n400, r1, n100, r2, n4, r3
  <2> QED BY <1>2, <1>3, <1>9 DEF AtMost3
<1>11. z = y
  <2> HIDE DEF n400, n100, n4, n1
  <2> QED BY <1>13, <1>7, <1>8, <1>9, <1>10
<1>12. FromEpoch(n) = D(z, MonthOf(z, x), x - DaysBefore(z, MonthOf(z, x)))
  BY DEF FromEpoch
<1> HIDE DEF z, x
<1> QED BY <1>5, <1>6, <1>10, <1>11, <1>12 DEF n


\* Every number is the number of the date made of it, also before the year 1.
LEMMA EpochFromEpoch ==
  ASSUME NEW n \in Int
  PROVE  EpochOf(FromEpoch(n)) = n
<1> DEFINE n400 == (n - 1) \div 146097
           r1   == n - n400 * 146097
           n100 == AtMost3((r1 - 1) \div 36524)
           r2   == r1 - n100 * 36524
           n4   == (r2 - 1) \div 1461
           r3   == r2 - n4 * 1461
           n1   == AtMost3((r3 - 1) \div 365)
           y    == n400 * 400 + n100 * 100 + n4 * 4 + n1 + 1
           o    == r3 - n1 * 365
           m    == MonthOf(y, o)
           d    == o - DaysBefore(y, m)
<1>1. FromEpoch(n) = D(y, m, d)
  BY DEF FromEpoch
<1>2. n400 \in Int /\ r1 \in Int /\ 1 <= r1 /\ r1 <= 146097 /\ n = n400 * 146097 + r1
  OBVIOUS
<1>3. n100 \in 0 .. 3 /\ r2 \in Int /\ 1 <= r2 /\ r2 <= 36525 /\ r1 = n100 * 36524 + r2
  <2> HIDE DEF n400, r1
  <2> QED BY <1>2 DEF AtMost3
<1>4. n4 \in 0 .. 24 /\ r3 \in Int /\ 1 <= r3 /\ r3 <= 1461 /\ r2 = n4 * 1461 + r3
  <2> HIDE DEF n400, r1, n100, r2
  <2> QED BY <1>3
<1>5. n1 \in 0 .. 3 /\ o \in Nat \ {0} /\ r3 = n1 * 365 + o
  <2> HIDE DEF n400, r1, n100, r2, n4, r3
  <2> QED BY <1>4 DEF AtMost3
<1>6. y \in Int /\ y - 1 = Cycles(n400, n100, n4, n1)
  <2> HIDE DEF n400, r1, n100, r2, n4, r3, n1
  <2> QED BY <1>2, <1>3, <1>4, <1>5 DEF Cycles
<1> HIDE DEF n400, r1, n100, r2, n4, r3, n1, y, o
<1>7. m \in 1 .. 13
  BY <1>5, MonthExists
<1>8. DaysBefore(y, m) \in Int
  <2> HIDE DEF m
  <2> QED BY <1>7, DaysBeforeInt
<1>9. d \in Int /\ DaysBefore(y, m) + d = o
  <2> HIDE DEF m
  <2> QED BY <1>5, <1>8
<1>10. EpochSum(Epoch(y, m, d), n400, n100, n4, n1, o)
  <2> HIDE DEF m, d
  <2>0. n400 \in Int /\ n100 \in 0 .. 3 /\ n4 \in 0 .. 24 /\ n1 \in 0 .. 3
    BY <1>2, <1>3, <1>4, <1>5
  <2>1. EpochSum(Epoch(y, m, d), n400, n100, n4, n1, DaysBefore(y, m) + d)
    BY <2>0, <1>6, <1>7, <1>9, EpochOfCycles
  <2> QED BY <2>1, <1>9
<1> HIDE DEF m, d
<1>11. Epoch(y, m, d) = n
  BY <1>2, <1>3, <1>4, <1>5, <1>10 DEF EpochSum
<1> QED BY <1>1, <1>11 DEF EpochOf, D

-----------------------------------------------------------------------------
(* The clock. *)

\* The date is one there is, and its number is the count of the days.
CalInv == ValidDate(date) /\ EpochOf(date) = day

LEMMA ValidFields ==
  ASSUME NEW y \in Nat \ {0}, NEW m \in 1 .. 12, NEW d \in 1 .. DaysInMonth(y, m)
  PROVE  ValidDate(D(y, m, d)) /\ EpochOf(D(y, m, d)) = Epoch(y, m, d)
  BY DEF ValidDate, D, EpochOf

\* The clock starts on the right number.
LEMMA CalInit == Init => CalInv
<1> SUFFICES ASSUME Init PROVE CalInv
  OBVIOUS
<1>1. PICK s \in Starts : day = StartDay(s) /\ date = D(StartYear(s), 1, 1)
  BY DEF Init
<1> DEFINE y == StartYear(s)
<1>2. s[1] \in Nat /\ s[2] \in 0 .. 3 /\ s[3] \in 0 .. 24
  BY StartsAssumption
<1>3. y \in Nat \ {0} /\ y - 1 = Cycles(s[1], s[2], s[3], 0)
  <2> DEFINE p == Cycles(s[1], s[2], s[3], 0)
  <2>1. p \in Nat
    BY <1>2 DEF Cycles
  <2>2. y = p + 1
    BY <1>2 DEF StartYear, Cycles
  <2> HIDE DEF p, y
  <2> QED BY <2>1, <2>2 DEF p
<1>4. DaysBefore(y, 1) = 0 /\ 1 \in 1 .. DaysInMonth(y, 1)
  <2> HIDE DEF y
  <2>1. DaysBefore(y, 1) = 0
    BY <1>3 DEF DaysBefore
  <2>2. DaysInMonth(y, 1) \in 28 .. 31
    BY <1>3, DaysTypes
  <2> QED BY <2>1, <2>2
<1>5. Epoch(y, 1, 1) = day
  <2>1. EpochSum(Epoch(y, 1, 1), s[1], s[2], s[3], 0, DaysBefore(y, 1) + 1)
    <3>1. 0 \in 0 .. 3 /\ 1 \in 1 .. 13 /\ 1 \in Int /\ s[1] \in Int /\ y \in Int
      BY <1>2, <1>3
    <3> HIDE DEF y
    <3> QED BY <1>2, <1>3, <3>1, EpochOfCycles
  <2>2. EpochSum(Epoch(y, 1, 1), s[1], s[2], s[3], 0, 1)
    BY <1>4, <2>1
  <2> HIDE DEF y
  <2> QED BY <1>1, <1>2, <2>2 DEF EpochSum, StartDay
<1>6. ValidDate(date) /\ EpochOf(date) = Epoch(y, 1, 1)
  <2> HIDE DEF y
  <2>1. date = D(y, 1, 1)
    BY <1>1 DEF y
  <2> QED BY <1>3, <1>4, <2>1, ValidFields
<1> QED BY <1>5, <1>6 DEF CalInv

\* The first of January is the day after the last of December.
LEMMA NewYear ==
  ASSUME NEW y \in Nat \ {0}
  PROVE  Epoch(y + 1, 1, 1) = Epoch(y, 12, 31) + 1
<1>1. PICK a \in Nat, b \in 0 .. 3, c \in 0 .. 24, e \in 0 .. 3 : y - 1 = Cycles(a, b, c, e)
  BY YearSplit
<1> DEFINE p == y - 1
<1>2. p \in Nat /\ p + 1 = y /\ LeapYears(p, a, b, c, e) /\ p = 400 * a + 100 * b + 4 * c + e
  <2>1. p \in Nat /\ p + 1 = y
    OBVIOUS
  <2>2. LeapYears(Cycles(a, b, c, e), a, b, c, e)
    BY LeapCount
  <2> QED BY <1>1, <2>1, <2>2 DEF Cycles
<1> DEFINE l == IF IsLeap(y) THEN 1 ELSE 0
<1>3. l \in 0 .. 1 /\ (l = 1 <=> (e = 3 /\ (c # 24 \/ b = 3)))
  <2> HIDE DEF p
  <2> QED BY <1>2 DEF LeapYears
<1>4. DaysBefore(y, 12) = 334 + l /\ DaysBefore(y + 1, 1) = 0
  BY <1>3 DEF DaysBefore
<1>5. Epoch(y, 12, 31) = 365 * p + (p \div 4) - (p \div 100) + (p \div 400) + 365 + l
  <2>1. Epoch(y, 12, 31) = 365 * p + (p \div 4) - (p \div 100) + (p \div 400) + DaysBefore(y, 12) + 31
    BY DEF Epoch
  <2> HIDE DEF p, l
  <2> QED BY <1>2, <1>3, <1>4, <2>1
<1>6. Epoch(y + 1, 1, 1) = 365 * (p + 1) + ((p + 1) \div 4) - ((p + 1) \div 100) + ((p + 1) \div 400) + 1
  <2>1. (y + 1) - 1 = p + 1
    OBVIOUS
  <2>2. Epoch(y + 1, 1, 1) = 365 * (p + 1) + ((p + 1) \div 4) - ((p + 1) \div 100) + ((p + 1) \div 400)
                               + DaysBefore(y + 1, 1) + 1
    <3> HIDE DEF p
    <3> QED BY <2>1 DEF Epoch
  <2> HIDE DEF p
  <2> QED BY <1>2, <1>4, <2>2
<1> HIDE DEF p, l
<1>7. (p + 1) \div 4 = (p \div 4) + (IF e = 3 THEN 1 ELSE 0)
  BY <1>2
<1>8. (p + 1) \div 100 = (p \div 100) + (IF e = 3 /\ c = 24 THEN 1 ELSE 0)
  BY <1>2
<1>9. (p + 1) \div 400 = (p \div 400) + (IF e = 3 /\ c = 24 /\ b = 3 THEN 1 ELSE 0)
  BY <1>2
<1> DEFINE q4 == p \div 4
           q100 == p \div 100
           q400 == p \div 400
<1>10. q4 \in Int /\ q100 \in Int /\ q400 \in Int
  BY <1>2
<1> HIDE DEF q4, q100, q400
<1>11. Epoch(y, 12, 31) = 365 * p + q4 - q100 + q400 + 365 + l
  BY <1>5 DEF q4, q100, q400
<1>12. Epoch(y + 1, 1, 1) = 365 * (p + 1) + (q4 + (IF e = 3 THEN 1 ELSE 0))
                             - (q100 + (IF e = 3 /\ c = 24 THEN 1 ELSE 0))
                             + (q400 + (IF e = 3 /\ c = 24 /\ b = 3 THEN 1 ELSE 0)) + 1
  BY <1>6, <1>7, <1>8, <1>9 DEF q4, q100, q400
<1> QED BY <1>2, <1>3, <1>10, <1>11, <1>12

\* The date after a valid date is valid and has the next number.
LEMMA NextDateNumber ==
  ASSUME ValidDate(date)
  PROVE  ValidDate(NextDate) /\ EpochOf(NextDate) = EpochOf(date) + 1
<1> DEFINE y == date.year
           m == date.month
           d == date.day
<1>1. date = D(y, m, d) /\ y \in Nat \ {0} /\ m \in 1 .. 12 /\ d \in 1 .. DaysInMonth(y, m)
  BY DEF ValidDate
<1>2. DaysInMonth(y, m) \in 28 .. 31 /\ DaysBefore(y, m) \in Nat
  <2> HIDE DEF y, m
  <2> QED BY <1>1, DaysTypes
<1> DEFINE base == 365 * (y - 1) + ((y - 1) \div 4) - ((y - 1) \div 100) + ((y - 1) \div 400)
<1>3. base \in Int
  BY <1>1
<1>4. \A k, n : Epoch(y, k, n) = base + DaysBefore(y, k) + n
  BY DEF Epoch
<1>5. EpochOf(date) = base + DaysBefore(y, m) + d
  BY <1>4 DEF EpochOf
<1>6. CASE d # DaysInMonth(y, m)
  <2>1. NextDate = D(y, m, d + 1)
    BY <1>1, <1>6 DEF NextDate, MonthIsFull, D
  <2>2. d + 1 \in 1 .. DaysInMonth(y, m)
    BY <1>1, <1>2, <1>6
  <2>3. ValidDate(NextDate) /\ EpochOf(NextDate) = Epoch(y, m, d + 1)
    <3> HIDE DEF y, m, d
    <3> QED BY <1>1, <2>1, <2>2, ValidFields
  <2>4. Epoch(y, m, d + 1) = base + DaysBefore(y, m) + (d + 1)
    BY <1>4
  <2> HIDE DEF y, m, d, base
  <2> QED BY <1>1, <1>2, <1>3, <1>5, <2>3, <2>4
<1>7. CASE d = DaysInMonth(y, m) /\ m < 12
  <2>1. NextDate = D(y, m + 1, 1)
    BY <1>7 DEF NextDate, MonthIsFull
  <2>2. m + 1 \in 1 .. 12
    BY <1>1, <1>7
  <2>3. 1 \in 1 .. DaysInMonth(y, m + 1)
    <3>1. DaysInMonth(y, m + 1) \in 28 .. 31
      <4> HIDE DEF y, m
      <4> QED BY <1>1, <2>2, DaysTypes
    <3> QED BY <3>1
  <2>4. ValidDate(NextDate) /\ EpochOf(NextDate) = Epoch(y, m + 1, 1)
    <3> HIDE DEF y, m, d
    <3> QED BY <1>1, <2>1, <2>2, <2>3, ValidFields
  <2>5. DaysBefore(y, m + 1) = DaysBefore(y, m) + DaysInMonth(y, m)
    <3> HIDE DEF y, m
    <3> QED BY <1>1, DaysBeforeStep
  <2>6. Epoch(y, m + 1, 1) = base + DaysBefore(y, m + 1) + 1
    BY <1>4
  <2> HIDE DEF y, m, d, base
  <2> QED BY <1>2, <1>3, <1>5, <1>7, <2>4, <2>5, <2>6
<1>8. CASE d = DaysInMonth(y, m) /\ m = 12
  <2>1. NextDate = D(y + 1, 1, 1) /\ y + 1 \in Nat \ {0}
    BY <1>1, <1>8 DEF NextDate, MonthIsFull
  <2>2. d = 31
    BY <1>8 DEF DaysInMonth
  <2>3. 1 \in 1 .. DaysInMonth(y + 1, 1)
    BY DEF DaysInMonth
  <2>4. ValidDate(NextDate) /\ EpochOf(NextDate) = Epoch(y + 1, 1, 1)
    <3> HIDE DEF y, m, d
    <3> QED BY <2>1, <2>3, ValidFields
  <2>5. EpochOf(date) = Epoch(y, 12, 31)
    BY <1>8, <2>2 DEF EpochOf
  <2>6. Epoch(y + 1, 1, 1) = Epoch(y, 12, 31) + 1
    <3> HIDE DEF y
    <3> QED BY <1>1, NewYear
  <2> QED BY <2>4, <2>5, <2>6
<1>9. m < 12 \/ m = 12
  BY <1>1
<1> QED BY <1>6, <1>7, <1>8, <1>9

LEMMA CalStep ==
  ASSUME CalInv, [Next]_vars
  PROVE  CalInv'
<1>1. CASE Midnight
  <2>1. day' = day + 1 /\ date' = NextDate
    BY <1>1 DEF Midnight
  <2>2. ValidDate(date') /\ EpochOf(date') = EpochOf(date) + 1
    BY <2>1, NextDateNumber DEF CalInv
  <2> QED BY <2>1, <2>2 DEF CalInv
<1>2. CASE UNCHANGED calendar
  BY <1>2 DEF calendar, CalInv
<1>3. Tick \/ Mark \/ UNCHANGED vars => UNCHANGED calendar
  BY DEF Tick, Mark, vars
<1> QED BY <1>1, <1>2, <1>3 DEF Next

LEMMA CalAlways == Spec => []CalInv
<1>1. CalInv /\ [Next]_vars => CalInv'
  BY CalStep
<1> QED BY CalInit, <1>1, PTL DEF Spec

\* Any number of days counted from any first of January the Gregorian cycles
\* name: the code's number of the date is that count, and the date it makes of
\* the count is the date.
THEOREM DaysCounted == Spec => []DayNumber
<1>1. CalInv => DayNumber
  <2> SUFFICES ASSUME CalInv PROVE DayNumber
    OBVIOUS
  <2>1. FromEpoch(Epoch(date.year, date.month, date.day)) = D(date.year, date.month, date.day)
    BY FromEpochEpoch DEF CalInv, ValidDate
  <2> QED BY <2>1 DEF CalInv, ValidDate, DayNumber, EpochOf
<1> QED BY <1>1, CalAlways, PTL

-----------------------------------------------------------------------------
(* Weeks, quarters and days of the year. *)

\* The day of a year and a month is that date again.
LEMMA OrdinalRebuilds ==
  ASSUME NEW y \in Nat \ {0}, NEW m \in 1 .. 12, NEW d \in 1 .. DaysInMonth(y, m)
  PROVE  OrdinalToMd(y, DaysBefore(y, m) + d) = D(y, m, d)
<1>1. MonthOf(y, DaysBefore(y, m) + d) = m
  BY MonthFound
<1>2. d \in Int /\ DaysBefore(y, m) \in Int /\ DaysInMonth(y, m) \in Int
  <2>1. DaysInMonth(y, m) \in Int /\ DaysBefore(y, m) \in Int
    BY DaysTypes
  <2> QED BY <2>1
<1>3. (DaysBefore(y, m) + d) - DaysBefore(y, m) = d
  BY <1>2
<1> QED BY <1>1, <1>3 DEF OrdinalToMd

\* A date is in a year with a number, and week 1 of any year begins on a Monday.
LEMMA EpochYearInt ==
  ASSUME NEW n \in Int
  PROVE  FromEpoch(n).year \in Int
<1> DEFINE n400 == (n - 1) \div 146097
           r1   == n - n400 * 146097
           n100 == AtMost3((r1 - 1) \div 36524)
           r2   == r1 - n100 * 36524
           n4   == (r2 - 1) \div 1461
           r3   == r2 - n4 * 1461
           n1   == AtMost3((r3 - 1) \div 365)
           y    == n400 * 400 + n100 * 100 + n4 * 4 + n1 + 1
           o    == r3 - n1 * 365
<1>1. FromEpoch(n) = D(y, MonthOf(y, o), o - DaysBefore(y, MonthOf(y, o)))
  BY DEF FromEpoch
<1>2. n400 \in Int /\ r1 \in Int
  OBVIOUS
<1>3. n100 \in Int /\ r2 \in Int
  <2> HIDE DEF n400, r1
  <2> QED BY <1>2 DEF AtMost3
<1>4. n4 \in Int /\ r3 \in Int
  <2> HIDE DEF n400, r1, n100, r2
  <2> QED BY <1>3
<1>5. n1 \in Int
  <2> HIDE DEF n400, r1, n100, r2, n4, r3
  <2> QED BY <1>4 DEF AtMost3
<1>6. y \in Int
  <2> HIDE DEF n400, r1, n100, r2, n4, r3, n1
  <2> QED BY <1>2, <1>3, <1>4, <1>5
<1> HIDE DEF y, o
<1> QED BY <1>1, <1>6 DEF D

LEMMA WeekOneMonday ==
  ASSUME NEW y \in Int
  PROVE  WeekOne(y) \in Int /\ (WeekOne(y) - 1) % 7 = 0
<1> DEFINE n == Epoch(y, 1, 4)
<1>1. n \in Int
  <2>1. DaysBefore(y, 1) = 0
    BY DEF DaysBefore
  <2> QED BY <2>1 DEF Epoch
<1>2. WeekOne(y) = n - ((n - 1) % 7)
  <2>1. WeekOne(y) = n - ((((n - 1) % 7) + 1) - 1)
    BY DEF WeekOne, DayOfWeek
  <2> HIDE DEF n
  <2> QED BY <1>1, <2>1
<1> HIDE DEF n
<1> QED BY <1>1, <1>2

\* Weeks after a Monday and days after that make up any number of days.
LEMMA WeeksAndDays ==
  ASSUME NEW n \in Int, NEW w \in Int, (w - 1) % 7 = 0
  PROVE  w + ((((n - w) \div 7) + 1) - 1) * 7 + (DayOfWeek(n) - 1) = n
<1>1. PICK k \in Int : w = 7 * k + 1
  <2> DEFINE k == (w - 1) \div 7
  <2>1. k \in Int /\ w = 7 * k + 1
    OBVIOUS
  <2> QED BY <2>1
<1>2. PICK q \in Int, r \in 0 .. 6 : n = 7 * q + r + 1
  <2> DEFINE q == (n - 1) \div 7
             r == (n - 1) % 7
  <2>1. q \in Int /\ r \in 0 .. 6 /\ n = 7 * q + r + 1
    OBVIOUS
  <2> QED BY <2>1
<1>3. (n - w) \div 7 = q - k
  BY <1>1, <1>2
<1>4. DayOfWeek(n) = r + 1
  BY <1>2 DEF DayOfWeek
<1> QED BY <1>1, <1>2, <1>3, <1>4

\* For every date the clock can show: the week, the quarter and the day of the
\* year the code reads off it are those it builds it from.
THEOREM DatesRebuilt == Spec => []PartsRebuild
<1>1. CalInv => PartsRebuild
  <2> SUFFICES ASSUME CalInv PROVE PartsRebuild
    OBVIOUS
  <2> DEFINE y == date.year
             m == date.month
             d == date.day
             w == IsoWeek(date)
             n == EpochOf(date)
  <2>1. date = D(y, m, d) /\ y \in Nat \ {0} /\ m \in 1 .. 12 /\ d \in 1 .. DaysInMonth(y, m)
    BY DEF CalInv, ValidDate
  <2>2. d \in Int /\ DaysBefore(y, m) \in Int /\ DaysInMonth(y, m) \in Int
    <3>1. DaysInMonth(y, m) \in Int /\ DaysBefore(y, m) \in Int
      <4> HIDE DEF y, m
      <4> QED BY <2>1, DaysTypes
    <3> HIDE DEF y, m, d
    <3> QED BY <2>1, <3>1
  <2>3. n \in Int /\ FromEpoch(n) = date
    <3>1. n = Epoch(y, m, d)
      BY DEF EpochOf
    <3>2. FromEpoch(Epoch(y, m, d)) = D(y, m, d)
      <4> HIDE DEF y, m, d
      <4> QED BY <2>1, FromEpochEpoch
    <3>3. Epoch(y, m, d) \in Int
      <4> HIDE DEF y, m, d
      <4> QED BY <2>1, <2>2 DEF Epoch
    <3> QED BY <2>1, <3>1, <3>2, <3>3
  <2>4. OrdinalToMd(y, DaysBefore(y, m) + d) = date
    <3>1. OrdinalToMd(y, DaysBefore(y, m) + d) = D(y, m, d)
      <4> HIDE DEF y, m, d
      <4> QED BY <2>1, OrdinalRebuilds
    <3> QED BY <2>1, <3>1
  <2>5. QuarterToMd(y, QuarterOf(date), DayOfQuarter(date)) = date
    <3> DEFINE s == QuarterStart(QuarterOf(date))
    <3>1. DaysBefore(y, s) \in Int
      <4>1. s \in 1 .. 13
        <5>1. QuarterOf(date) = ((m - 1) \div 3) + 1
          BY DEF QuarterOf
        <5>2. (m - 1) \div 3 \in 0 .. 3
          <6> HIDE DEF m
          <6> QED BY <2>1
        <5> HIDE DEF m
        <5> QED BY <5>1, <5>2 DEF QuarterStart
      <4> HIDE DEF s, y
      <4> QED BY <2>1, <4>1, DaysTypes
    <3>2. DayOfQuarter(date) = DaysBefore(y, m) - DaysBefore(y, s) + d
      BY DEF DayOfQuarter
    <3>3. DaysBefore(y, s) + DayOfQuarter(date) = DaysBefore(y, m) + d
      <4> HIDE DEF y, m, d, s
      <4> QED BY <2>2, <3>1, <3>2
    <3> QED BY <2>4, <3>3 DEF QuarterToMd
  <2>6. WeekToDate(w.year, w.week, w.dow) = date
    <3> DEFINE k == WeekOne(w.year)
    <3>1. w.year = IsoWeekYear(date) /\ w.week = ((n - k) \div 7) + 1 /\ w.dow = DayOfWeek(n)
      BY DEF IsoWeek
    <3>2. DayOfWeek(n) \in Int
      <4> HIDE DEF n
      <4> QED BY <2>3 DEF DayOfWeek
    <3>3. IsoWeekYear(date) \in Int
      <4>1. IsoWeekYear(date) = FromEpoch(n + (4 - DayOfWeek(n))).year
        BY DEF IsoWeekYear
      <4>2. n + (4 - DayOfWeek(n)) \in Int
        <5> HIDE DEF n
        <5> QED BY <2>3, <3>2
      <4> HIDE DEF n
      <4> QED BY <4>1, <4>2, EpochYearInt
    <3>4. k \in Int /\ (k - 1) % 7 = 0
      <4> HIDE DEF w
      <4> QED BY <3>1, <3>3, WeekOneMonday
    <3>5. k + (w.week - 1) * 7 + (w.dow - 1) = n
      <4> HIDE DEF w, k, n
      <4> QED BY <2>3, <3>1, <3>4, WeeksAndDays
    <3> HIDE DEF w, n
    <3> QED BY <2>3, <3>5 DEF WeekToDate
  <2> QED BY <2>4, <2>5, <2>6 DEF PartsRebuild
<1> QED BY <1>1, CalAlways, PTL

-----------------------------------------------------------------------------
(* The fields of a date. *)

\* What every date there is has.
LEMMA ValidInts ==
  ASSUME NEW dt, ValidDate(dt)
  PROVE  /\ dt.year \in Int /\ dt.month \in Int /\ dt.day \in Int
         /\ 1 <= dt.month /\ dt.month <= 12 /\ 1 <= dt.day
         /\ DaysInMonth(dt.year, dt.month) \in 28 .. 31
         /\ dt.day <= DaysInMonth(dt.year, dt.month)
         /\ PreviousMonth(dt) \in 28 .. 31
         /\ EpochOf(dt) \in Int
<1> DEFINE y == dt.year
           m == dt.month
           d == dt.day
<1>1. y \in Nat \ {0} /\ m \in 1 .. 12 /\ d \in 1 .. DaysInMonth(y, m)
  BY DEF ValidDate
<1> HIDE DEF y, m, d
<1>2. DaysInMonth(y, m) \in 28 .. 31 /\ DaysBefore(y, m) \in Int
  BY <1>1, DaysTypes
<1>3. d \in Int /\ 1 <= d /\ d <= DaysInMonth(y, m)
  BY <1>1, <1>2
<1>4. PreviousMonth(dt) \in 28 .. 31
  <2>1. CASE m = 1
    <3>1. PreviousMonth(dt) = 31
      BY <2>1 DEF PreviousMonth, DaysInMonth, y, m
    <3> QED BY <3>1
  <2>2. CASE m # 1
    <3>1. PreviousMonth(dt) = DaysInMonth(y, m - 1)
      BY <2>2 DEF PreviousMonth, y, m
    <3>2. m - 1 \in 1 .. 12
      BY <1>1, <2>2
    <3> QED BY <1>1, <3>1, <3>2, DaysTypes
  <2> QED BY <2>1, <2>2
<1>5. EpochOf(dt) \in Int
  <2>1. EpochOf(dt) = Epoch(y, m, d)
    BY DEF EpochOf, y, m, d
  <2> QED BY <1>1, <1>2, <1>3, <2>1 DEF Epoch
<1> QED BY <1>1, <1>2, <1>3, <1>4, <1>5 DEF y, m, d

\* The next date is the next day of the month, or the first of the next month.
LEMMA NextDateFields ==
  ASSUME ValidDate(date)
  PROVE  /\ ~MonthIsFull =>
              /\ NextDate.year = date.year /\ NextDate.month = date.month /\ NextDate.day = date.day + 1
              /\ date.day < DaysInMonth(date.year, date.month)
         /\ MonthIsFull =>
              /\ 12 * NextDate.year + NextDate.month = 12 * date.year + date.month + 1
              /\ NextDate.day = 1 /\ PreviousMonth(NextDate) = DaysInMonth(date.year, date.month)
<1> DEFINE y == date.year
           m == date.month
           d == date.day
           L == DaysInMonth(y, m)
<1>1. date = D(y, m, d)
  BY DEF ValidDate
<1>2. /\ y \in Int /\ m \in Int /\ d \in Int /\ 1 <= m /\ m <= 12 /\ d <= L /\ L \in Int
  BY ValidInts
<1> HIDE DEF y, m, d, L
<1>3. MonthIsFull <=> d = L
  BY DEF MonthIsFull, d, L, y, m
<1>4. CASE d # L
  <2>1. NextDate = D(y, m, d + 1)
    BY <1>1, <1>3, <1>4 DEF NextDate, D
  <2>2. d < L
    BY <1>2, <1>4
  <2> QED BY <1>3, <1>4, <2>1, <2>2 DEF D, y, m, d, L
<1>5. CASE d = L /\ m < 12
  <2>1. NextDate = D(y, m + 1, 1)
    BY <1>3, <1>5 DEF NextDate, y, m
  <2>2. m + 1 # 1 /\ (m + 1) - 1 = m /\ 12 * y + (m + 1) = 12 * y + m + 1
    BY <1>2
  <2>3. NextDate.year = y /\ NextDate.month = m + 1 /\ NextDate.day = 1
    BY <2>1 DEF D
  <2>4. PreviousMonth(NextDate) = L
    BY <2>2, <2>3 DEF PreviousMonth, L
  <2> QED BY <1>3, <1>5, <2>2, <2>3, <2>4 DEF y, m, d, L
<1>6. CASE d = L /\ m = 12
  <2>1. NextDate = D(y + 1, 1, 1)
    BY <1>3, <1>6 DEF NextDate, y, m
  <2>2. (y + 1) - 1 = y /\ 12 * (y + 1) + 1 = 12 * y + m + 1
    BY <1>2, <1>6
  <2>3. NextDate.year = y + 1 /\ NextDate.month = 1 /\ NextDate.day = 1
    BY <2>1 DEF D
  <2>4. PreviousMonth(NextDate) = L
    BY <1>6, <2>2, <2>3 DEF PreviousMonth, L
  <2> QED BY <1>3, <1>6, <2>2, <2>3, <2>4 DEF y, m, d, L
<1> QED BY <1>2, <1>4, <1>5, <1>6

-----------------------------------------------------------------------------
(* The years and the days they begin on. *)

\* The days of a year are counted on from the first of January.
LEMMA DayOfYear ==
  ASSUME NEW y \in Nat \ {0}, NEW m \in 1 .. 13, NEW d \in Int
  PROVE  Epoch(y, m, d) = Epoch(y, 1, 1) + DaysBefore(y, m) + d - 1
<1> DEFINE base == 365 * (y - 1) + ((y - 1) \div 4) - ((y - 1) \div 100) + ((y - 1) \div 400)
<1>1. base \in Int
  OBVIOUS
<1>2. Epoch(y, m, d) = base + DaysBefore(y, m) + d
  BY DEF Epoch
<1>3. Epoch(y, 1, 1) = base + DaysBefore(y, 1) + 1
  BY DEF Epoch
<1>4. DaysBefore(y, 1) = 0
  BY DEF DaysBefore
<1>5. DaysBefore(y, m) \in Int
  BY DaysBeforeInt
<1> HIDE DEF base
<1> QED BY <1>1, <1>2, <1>3, <1>4, <1>5

\* A year is over after its 365 or 366 days.
LEMMA YearLength ==
  ASSUME NEW y \in Nat \ {0}
  PROVE  /\ y + 1 \in Nat \ {0}
         /\ Epoch(y, 1, 1) \in Int /\ Epoch(y + 1, 1, 1) \in Int
         /\ DaysBefore(y, 13) \in Int /\ 365 <= DaysBefore(y, 13) /\ DaysBefore(y, 13) <= 366
         /\ Epoch(y + 1, 1, 1) = Epoch(y, 1, 1) + DaysBefore(y, 13)
         /\ Epoch(y + 1, 1, 1) = Epoch(y, 12, 31) + 1
<1> DEFINE l == IF IsLeap(y) THEN 1 ELSE 0
           e == Epoch(y, 1, 1)
           z == Epoch(y, 12, 31)
           f == Epoch(y + 1, 1, 1)
<1>1. l \in 0 .. 1
  OBVIOUS
<1>2. DaysBefore(y, 12) = 334 + l /\ DaysBefore(y, 13) = 365 + l
  BY <1>1, DaysBeforeValues
<1>3. e \in Int
  <2>1. (y - 1) \div 4 \in Int /\ (y - 1) \div 100 \in Int /\ (y - 1) \div 400 \in Int
    OBVIOUS
  <2>2. DaysBefore(y, 1) = 0
    BY DEF DaysBefore
  <2> QED BY <2>1, <2>2 DEF Epoch
<1>4. z = e + DaysBefore(y, 12) + 31 - 1
  <2>1. 12 \in 1 .. 13 /\ 31 \in Int
    OBVIOUS
  <2> HIDE DEF e, z
  <2> QED BY <2>1, DayOfYear DEF e, z
<1>5. f = z + 1
  BY NewYear
<1>6. y + 1 \in Nat \ {0}
  OBVIOUS
<1> HIDE DEF l, e, z, f
<1>7. f = e + DaysBefore(y, 13) /\ f \in Int
  BY <1>1, <1>2, <1>3, <1>4, <1>5
<1>8. DaysBefore(y, 13) \in Int /\ 365 <= DaysBefore(y, 13) /\ DaysBefore(y, 13) <= 366
  BY <1>1, <1>2
<1> QED BY <1>3, <1>5, <1>6, <1>7, <1>8 DEF e, z, f

\* Every day from a first of January up to the next has a date in that year.
LEMMA YearFound ==
  ASSUME NEW y \in Nat \ {0}, NEW n \in Int, Epoch(y, 1, 1) <= n, n < Epoch(y + 1, 1, 1)
  PROVE  FromEpoch(n).year = y
<1> DEFINE e == Epoch(y, 1, 1)
           o == n - e + 1
           m == MonthOf(y, o)
           d == o - DaysBefore(y, m)
           l == IF IsLeap(y) THEN 1 ELSE 0
           Has(k) == DaysBefore(y, k) < o /\ (k # 13 => o <= DaysBefore(y, k + 1))
<1>1. e \in Int /\ DaysBefore(y, 13) \in Int /\ Epoch(y + 1, 1, 1) = e + DaysBefore(y, 13)
  <2> HIDE DEF e
  <2> QED BY YearLength DEF e
<1>2. o \in Nat \ {0} /\ o <= DaysBefore(y, 13) /\ n = e + o - 1
  <2> HIDE DEF e
  <2>1. e <= n
    BY DEF e
  <2> QED BY <1>1, <2>1
<1> HIDE DEF e, o
<1>3. l \in 0 .. 1
  OBVIOUS
<1>4. \E k \in 1 .. 13 : Has(k)
  <2>1. Has(1) \/ Has(2) \/ Has(3) \/ Has(4) \/ Has(5) \/ Has(6) \/ Has(7) \/ Has(8) \/ Has(9)
          \/ Has(10) \/ Has(11) \/ Has(12)
    BY <1>2, <1>3, DaysBeforeValues
  <2> HIDE DEF Has
  <2> QED BY <2>1
<1>5. m = CHOOSE k \in 1 .. 13 : Has(k)
  BY DEF MonthOf
<1>6. m \in 1 .. 13 /\ Has(m)
  <2> HIDE DEF Has, m
  <2> QED BY <1>4, <1>5
<1> HIDE DEF m
<1>7. m \in 1 .. 12
  BY <1>1, <1>2, <1>6
<1>8. /\ DaysBefore(y, m) \in Int /\ DaysInMonth(y, m) \in Int
      /\ DaysBefore(y, m + 1) = DaysBefore(y, m) + DaysInMonth(y, m)
  <2>1. DaysBefore(y, m) \in Int
    BY <1>6, DaysBeforeInt
  <2>2. DaysInMonth(y, m) \in 28 .. 31 /\ DaysBefore(y, m + 1) = DaysBefore(y, m) + DaysInMonth(y, m)
    BY <1>7, DaysBeforeStep
  <2> QED BY <2>1, <2>2
<1>9. d \in 1 .. DaysInMonth(y, m) /\ d \in Int /\ DaysBefore(y, m) + d = o
  BY <1>2, <1>6, <1>7, <1>8
<1> HIDE DEF d
<1>10. Epoch(y, m, d) = n
  <2>1. Epoch(y, m, d) = e + DaysBefore(y, m) + d - 1
    BY <1>6, <1>9, DayOfYear DEF e
  <2> QED BY <1>1, <1>2, <1>8, <1>9, <2>1
<1>11. FromEpoch(n) = D(y, m, d)
  BY <1>7, <1>9, <1>10, FromEpochEpoch
<1> QED BY <1>11 DEF D

-----------------------------------------------------------------------------
(* The weeks of a year. *)

\* Week 1 begins on the one Monday from the 29th of December to the 4th of January.
LEMMA WeekOneRange ==
  ASSUME NEW y \in Nat \ {0}
  PROVE  /\ WeekOne(y) \in Int /\ (WeekOne(y) - 1) % 7 = 0
         /\ Epoch(y, 1, 1) - 3 <= WeekOne(y) /\ WeekOne(y) <= Epoch(y, 1, 1) + 3
<1> DEFINE n == Epoch(y, 1, 4)
           e == Epoch(y, 1, 1)
<1>1. WeekOne(y) \in Int /\ (WeekOne(y) - 1) % 7 = 0
  BY WeekOneMonday
<1>2. n = e + 3 /\ e \in Int
  <2>1. 4 \in Int /\ 1 \in 1 .. 13
    OBVIOUS
  <2>2. n = e + DaysBefore(y, 1) + 4 - 1 /\ e \in Int
    <3> HIDE DEF n, e
    <3>1. n = e + DaysBefore(y, 1) + 4 - 1
      BY <2>1, DayOfYear DEF n, e
    <3> QED BY <3>1, YearLength DEF e
  <2>3. DaysBefore(y, 1) = 0
    BY DEF DaysBefore
  <2> QED BY <2>2, <2>3
<1>3. WeekOne(y) = n - ((((n - 1) % 7) + 1) - 1)
  BY DEF WeekOne, DayOfWeek
<1> HIDE DEF n, e
<1>4. (n - 1) % 7 \in 0 .. 6
  BY <1>2
<1>5. e - 3 <= WeekOne(y) /\ WeekOne(y) <= e + 3
  BY <1>1, <1>2, <1>3, <1>4
<1> QED BY <1>1, <1>5 DEF e

LEMMA WeekYearLong ==
  ASSUME NEW y \in Nat \ {0}
  PROVE  WeekOne(y) < WeekOne(y + 1)
<1>1. y + 1 \in Nat \ {0} /\ Epoch(y, 1, 1) \in Int /\ Epoch(y + 1, 1, 1) >= Epoch(y, 1, 1) + 365
  <2> DEFINE e == Epoch(y, 1, 1)
             f == Epoch(y + 1, 1, 1)
             l == DaysBefore(y, 13)
  <2>1. e \in Int /\ f = e + l /\ l \in Int /\ 365 <= l /\ y + 1 \in Nat \ {0}
    BY YearLength
  <2> HIDE DEF e, f, l
  <2>2. f >= e + 365
    BY <2>1
  <2> QED BY <2>1, <2>2 DEF e, f
<1>2. WeekOne(y) \in Int /\ WeekOne(y) <= Epoch(y, 1, 1) + 3
  BY WeekOneRange
<1>3. WeekOne(y + 1) \in Int /\ Epoch(y + 1, 1, 1) - 3 <= WeekOne(y + 1)
  BY <1>1, WeekOneRange
<1>4. Epoch(y + 1, 1, 1) \in Int
  BY <1>1, YearLength
<1> QED BY <1>1, <1>2, <1>3, <1>4

\* The year a Monday begins, when it is one of those seven days.
WeekYearOf(dt) == IF dt.month = 12 THEN dt.year + 1 ELSE dt.year

LEMMA MondayBegins ==
  ASSUME NEW dt, ValidDate(dt), DayOfWeek(EpochOf(dt)) = 1
  PROVE  /\ Begins("weekYear", dt, 1) => WeekYearOf(dt) \in Nat \ {0} /\ EpochOf(dt) = WeekOne(WeekYearOf(dt))
         /\ \A y \in Nat \ {0} : EpochOf(dt) = WeekOne(y + 1) => Begins("weekYear", dt, 1)
<1> DEFINE z == dt.year
           m == dt.month
           d == dt.day
           n == EpochOf(dt)
<1>1. dt = D(z, m, d) /\ z \in Nat \ {0} /\ m \in 1 .. 12 /\ d \in 1 .. DaysInMonth(z, m) /\ n = Epoch(z, m, d)
  BY DEF ValidDate, EpochOf
<1>2. Begins("weekYear", dt, 1) <=> IF m = 12 THEN d > 28 ELSE m = 1 /\ d < 5
  BY DEF Begins
<1>3. n \in Int /\ (n - 1) % 7 = 0 /\ d \in Int /\ 1 <= d
  <2>1. n \in Int /\ d \in Int /\ 1 <= d
    BY ValidInts
  <2>2. ((n - 1) % 7) + 1 = 1
    BY DEF DayOfWeek
  <2> HIDE DEF n, d
  <2> QED BY <2>1, <2>2
<1> HIDE DEF z, m, d, n
<1>4. ASSUME Begins("weekYear", dt, 1)
      PROVE  WeekYearOf(dt) \in Nat \ {0} /\ n = WeekOne(WeekYearOf(dt))
  <2>1. CASE m = 12
    <3>1. WeekYearOf(dt) = z + 1 /\ z + 1 \in Nat \ {0} /\ d > 28
      BY <1>1, <1>2, <1>4, <2>1 DEF WeekYearOf, z, m
    <3>2. d <= 31
      <4>1. DaysInMonth(z, m) = 31
        BY <2>1 DEF DaysInMonth
      <4> QED BY <1>1, <4>1
    <3> DEFINE e == Epoch(z + 1, 1, 1)
    <3>3. e \in Int /\ n = e - 1 - (31 - d)
      <4>1. 12 \in 1 .. 13 /\ 31 \in Int
        OBVIOUS
      <4>2. /\ Epoch(z, 12, d) = Epoch(z, 1, 1) + DaysBefore(z, 12) + d - 1
            /\ Epoch(z, 12, 31) = Epoch(z, 1, 1) + DaysBefore(z, 12) + 31 - 1
            /\ e = Epoch(z, 12, 31) + 1 /\ Epoch(z, 1, 1) \in Int
        <5> HIDE DEF e
        <5>1. e = Epoch(z, 12, 31) + 1 /\ Epoch(z, 1, 1) \in Int
          BY <1>1, YearLength DEF e
        <5>2. Epoch(z, 12, d) = Epoch(z, 1, 1) + DaysBefore(z, 12) + d - 1
          BY <1>1, <1>3, <4>1, DayOfYear
        <5>3. Epoch(z, 12, 31) = Epoch(z, 1, 1) + DaysBefore(z, 12) + 31 - 1
          BY <1>1, <4>1, DayOfYear
        <5> QED BY <5>1, <5>2, <5>3
      <4>3. DaysBefore(z, 12) \in Int
        BY <4>1, DaysBeforeInt
      <4> QED BY <1>1, <1>3, <2>1, <4>2, <4>3
    <3> HIDE DEF e
    <3> DEFINE w == WeekOne(z + 1)
    <3>4. w \in Int /\ (w - 1) % 7 = 0 /\ e - 3 <= w /\ w <= e + 3
      BY <3>1, WeekOneRange DEF e
    <3> HIDE DEF w
    <3>5. n = w
      BY <1>3, <3>1, <3>2, <3>3, <3>4
    <3> QED BY <3>1, <3>5 DEF w
  <2>2. CASE m # 12
    <3>1. WeekYearOf(dt) = z /\ m = 1 /\ d < 5
      BY <1>2, <1>4, <2>2 DEF WeekYearOf, z, m
    <3> DEFINE e == Epoch(z, 1, 1)
               w == WeekOne(z)
    <3>2. e \in Int /\ n = e + d - 1
      <4>1. 1 \in 1 .. 13
        OBVIOUS
      <4>2. Epoch(z, 1, d) = e + DaysBefore(z, 1) + d - 1 /\ e \in Int
        <5> HIDE DEF e
        <5>1. Epoch(z, 1, d) = e + DaysBefore(z, 1) + d - 1
          BY <1>1, <1>3, <4>1, DayOfYear DEF e
        <5> QED BY <1>1, <5>1, YearLength DEF e
      <4>3. DaysBefore(z, 1) = 0
        BY DEF DaysBefore
      <4> QED BY <1>1, <1>3, <3>1, <4>2, <4>3
    <3>3. w \in Int /\ (w - 1) % 7 = 0 /\ e - 3 <= w /\ w <= e + 3
      BY <1>1, WeekOneRange
    <3> HIDE DEF e, w
    <3>4. n = w
      BY <1>3, <3>1, <3>2, <3>3
    <3> QED BY <1>1, <3>1, <3>4 DEF w
  <2> QED BY <2>1, <2>2
<1>5. ASSUME NEW y \in Nat \ {0}, n = WeekOne(y + 1)
      PROVE  Begins("weekYear", dt, 1)
  <2> DEFINE e == Epoch(y + 1, 1, 1)
             j == n - e
  <2>1. y + 1 \in Nat \ {0} /\ e \in Int /\ e = Epoch(y, 12, 31) + 1
    <3> HIDE DEF e
    <3> QED BY YearLength DEF e
  <2>2. e - 3 <= n /\ n <= e + 3
    BY <1>5, <2>1, WeekOneRange
  <2>3. FromEpoch(n) = dt
    BY <1>1, FromEpochEpoch
  <2>4. CASE n >= e
    <3> DEFINE k == j + 1
    <3>1. k \in 1 .. 4 /\ k \in Int
      <4> HIDE DEF e
      <4> QED BY <1>3, <2>1, <2>2, <2>4
    <3>2. Epoch(y + 1, 1, k) = n
      <4>1. 1 \in 1 .. 13
        OBVIOUS
      <4>2. Epoch(y + 1, 1, k) = e + DaysBefore(y + 1, 1) + k - 1
        <5> HIDE DEF e, k
        <5> QED BY <2>1, <3>1, <4>1, DayOfYear DEF e
      <4>3. DaysBefore(y + 1, 1) = 0
        BY DEF DaysBefore
      <4> HIDE DEF e
      <4> QED BY <1>3, <2>1, <4>2, <4>3
    <3>3. k \in 1 .. DaysInMonth(y + 1, 1)
      <4>1. DaysInMonth(y + 1, 1) = 31
        BY DEF DaysInMonth
      <4> HIDE DEF k
      <4> QED BY <3>1, <4>1
    <3> HIDE DEF k
    <3>4. dt = D(y + 1, 1, k)
      <4>1. 1 \in 1 .. 12
        OBVIOUS
      <4> QED BY <2>1, <2>3, <3>2, <3>3, <4>1, FromEpochEpoch
    <3>5. m = 1 /\ d = k
      BY <3>4 DEF D, m, d
    <3> QED BY <1>2, <3>1, <3>5
  <2>5. CASE n < e
    <3> DEFINE k == 32 + j
    <3>1. k \in 29 .. 31 /\ k \in Int
      <4> HIDE DEF e
      <4> QED BY <1>3, <2>1, <2>2, <2>5
    <3>2. Epoch(y, 12, k) = n
      <4>1. 12 \in 1 .. 13 /\ 31 \in Int
        OBVIOUS
      <4>2. /\ Epoch(y, 12, k) = Epoch(y, 1, 1) + DaysBefore(y, 12) + k - 1
            /\ Epoch(y, 12, 31) = Epoch(y, 1, 1) + DaysBefore(y, 12) + 31 - 1
            /\ Epoch(y, 1, 1) \in Int
        <5> HIDE DEF k
        <5>1. Epoch(y, 12, k) = Epoch(y, 1, 1) + DaysBefore(y, 12) + k - 1
          BY <3>1, <4>1, DayOfYear
        <5>2. Epoch(y, 12, 31) = Epoch(y, 1, 1) + DaysBefore(y, 12) + 31 - 1
          BY <4>1, DayOfYear
        <5> QED BY <5>1, <5>2, YearLength
      <4>3. DaysBefore(y, 12) \in Int
        BY <4>1, DaysBeforeInt
      <4>4. k = 32 + (n - e) /\ k \in Int
        BY <3>1
      <4> HIDE DEF e, k
      <4> QED BY <1>3, <2>1, <4>2, <4>3, <4>4
    <3>3. k \in 1 .. DaysInMonth(y, 12)
      <4>1. DaysInMonth(y, 12) = 31
        BY DEF DaysInMonth
      <4> HIDE DEF k
      <4> QED BY <3>1, <4>1
    <3> HIDE DEF k
    <3>4. dt = D(y, 12, k)
      <4>1. 12 \in 1 .. 12
        OBVIOUS
      <4> QED BY <2>3, <3>2, <3>3, <4>1, FromEpochEpoch
    <3>5. m = 12 /\ d = k
      BY <3>4 DEF D, m, d
    <3> QED BY <1>2, <3>1, <3>5
  <2>6. n >= e \/ n < e
    <3> HIDE DEF e
    <3> QED BY <1>3, <2>1
  <2> QED BY <2>4, <2>5, <2>6
<1> QED BY <1>4, <1>5 DEF n

\* A day between the first weeks of two years is in the week-year the code names.
LEMMA WeekYearFound ==
  ASSUME NEW dt, ValidDate(dt), NEW y \in Nat \ {0},
         WeekOne(y) <= EpochOf(dt), EpochOf(dt) < WeekOne(y + 1)
  PROVE  IsoWeekYear(dt) = y
<1> DEFINE n == EpochOf(dt)
           v == WeekOne(y)
           w == WeekOne(y + 1)
           t == n + (4 - DayOfWeek(n))
<1>1. n \in Int /\ v <= n /\ n < w
  BY ValidInts
<1>2. y + 1 \in Nat \ {0} /\ v \in Int /\ (v - 1) % 7 = 0 /\ Epoch(y, 1, 1) - 3 <= v
  BY WeekOneRange
<1>3. w \in Int /\ (w - 1) % 7 = 0 /\ w <= Epoch(y + 1, 1, 1) + 3
  BY <1>2, WeekOneRange
<1>4. Epoch(y, 1, 1) \in Int /\ Epoch(y + 1, 1, 1) \in Int
  BY <1>2, YearLength
<1>5. t = n + (4 - (((n - 1) % 7) + 1))
  BY DEF DayOfWeek
<1>6. IsoWeekYear(dt) = FromEpoch(t).year
  BY DEF IsoWeekYear
<1> HIDE DEF n, v, w, t
<1>7. t \in Int /\ v + 3 <= t /\ t <= w - 4
  BY <1>1, <1>2, <1>3, <1>5
<1>8. Epoch(y, 1, 1) <= t /\ t < Epoch(y + 1, 1, 1)
  BY <1>2, <1>3, <1>4, <1>7
<1> QED BY <1>6, <1>7, <1>8, YearFound

-----------------------------------------------------------------------------
(* The periods that have begun. *)

\* The first day of the period a date is in.
StartDate(p, dt) ==
  CASE p = "month" -> D(dt.year, dt.month, 1)
    [] p = "quarter" -> D(dt.year, QuarterStart(QuarterOf(dt)), 1)
    [] p = "year" -> D(dt.year, 1, 1)
    [] p = "decade" -> D((dt.year \div 10) * 10, 1, 1)
    [] p = "century" -> D((dt.year \div 100) * 100, 1, 1)
    [] p = "millennium" -> D((dt.year \div 1000) * 1000, 1, 1)
    [] p = "week" -> FromEpoch(EpochOf(dt) - (DayOfWeek(EpochOf(dt)) - 1))

\* The period a date is in began on day b; a week-year has weeks of its own.
Begun(p, b, dt) ==
  /\ ValidDate(b.date) /\ EpochOf(b.date) = b.day
  /\ p # "weekYear" => b.date = StartDate(p, dt)
  /\ p = "weekYear" =>
       /\ WeekYearOf(b.date) \in Nat \ {0} /\ b.day = WeekOne(WeekYearOf(b.date))
       /\ b.day <= EpochOf(dt) /\ EpochOf(dt) < WeekOne(WeekYearOf(b.date) + 1)

BeganInv ==
  /\ weekday = DayOfWeek(day)
  /\ {"year", "quarter", "month"} \subseteq DOMAIN began
  /\ DOMAIN began \subseteq Periods
  /\ \A p \in DOMAIN began : Begun(p, began[p], date)

\* The day a period begins on is the first of the period it is in.
LEMMA BegunNow ==
  ASSUME NEW p \in Periods, NEW dt, ValidDate(dt), NEW n, n = EpochOf(dt),
         Begins(p, dt, DayOfWeek(n)), NEW b, b = [date |-> dt, day |-> n]
  PROVE  Begun(p, b, dt)
<1> DEFINE y == dt.year
           m == dt.month
           d == dt.day
<1>1. dt = D(y, m, d) /\ y \in Nat \ {0} /\ m \in 1 .. 12 /\ d \in Int
  <2>1. dt = D(y, m, d) /\ y \in Nat \ {0} /\ m \in 1 .. 12
    BY DEF ValidDate
  <2> QED BY <2>1, ValidInts
<1>2. b.date = dt /\ b.day = n /\ n \in Int
  BY ValidInts
<1>3. DayOfWeek(n) = ((n - 1) % 7) + 1
  BY DEF DayOfWeek
<1> HIDE DEF y, m, d
<1>4. CASE p = "weekYear"
  <2>1. DayOfWeek(n) = 1 /\ Begins(p, dt, 1)
    BY <1>4 DEF Begins
  <2> DEFINE w == WeekYearOf(dt)
  <2>2. w \in Nat \ {0} /\ n = WeekOne(w)
    BY <1>4, <2>1, MondayBegins
  <2>3. WeekOne(w) < WeekOne(w + 1)
    <3> HIDE DEF w
    <3> QED BY <2>2, WeekYearLong
  <2>4. n <= EpochOf(dt) /\ EpochOf(dt) < WeekOne(w + 1)
    <3> HIDE DEF w
    <3> QED BY <1>2, <2>2, <2>3
  <2> QED BY <1>2, <1>4, <2>2, <2>4 DEF Begun
<1>5. CASE p # "weekYear"
  <2>1. dt = StartDate(p, dt)
    <3>1. CASE p = "week"
      <4>1. DayOfWeek(n) = 1
        BY <3>1 DEF Begins
      <4>2. n - (DayOfWeek(n) - 1) = n
        BY <1>2, <4>1
      <4>3. FromEpoch(n) = dt
        <5>1. d \in 1 .. DaysInMonth(y, m) /\ n = Epoch(y, m, d)
          BY DEF ValidDate, EpochOf, y, m, d
        <5> QED BY <1>1, <5>1, FromEpochEpoch
      <4> QED BY <3>1, <4>2, <4>3 DEF StartDate
    <3>2. CASE p = "month"
      <4>1. d = 1
        BY <3>2 DEF Begins, d
      <4> QED BY <1>1, <3>2, <4>1 DEF StartDate, y, m
    <3>3. CASE p = "quarter"
      <4>1. d = 1 /\ m \in {1, 4, 7, 10}
        BY <3>3 DEF Begins, d, m
      <4>2. QuarterStart(QuarterOf(dt)) = m
        <5>1. QuarterOf(dt) = ((m - 1) \div 3) + 1
          BY DEF QuarterOf, m
        <5> QED BY <4>1, <5>1 DEF QuarterStart
      <4> QED BY <1>1, <3>3, <4>1, <4>2 DEF StartDate, y
    <3>4. CASE p = "year"
      <4>1. d = 1 /\ m = 1
        BY <3>4 DEF Begins, d, m
      <4> QED BY <1>1, <3>4, <4>1 DEF StartDate, y
    <3>5. CASE p = "decade"
      <4>1. d = 1 /\ m = 1 /\ y % 10 = 0
        BY <3>5 DEF Begins, d, m, y
      <4>2. (y \div 10) * 10 = y
        BY <1>1, <4>1
      <4>3. StartDate(p, dt) = D((y \div 10) * 10, 1, 1)
        BY <3>5 DEF StartDate, y
      <4> QED BY <1>1, <4>1, <4>2, <4>3
    <3>6. CASE p = "century"
      <4>1. d = 1 /\ m = 1 /\ y % 100 = 0
        BY <3>6 DEF Begins, d, m, y
      <4>2. (y \div 100) * 100 = y
        BY <1>1, <4>1
      <4>3. StartDate(p, dt) = D((y \div 100) * 100, 1, 1)
        BY <3>6 DEF StartDate, y
      <4> QED BY <1>1, <4>1, <4>2, <4>3
    <3>7. CASE p = "millennium"
      <4>1. d = 1 /\ m = 1 /\ y % 1000 = 0
        BY <3>7 DEF Begins, d, m, y
      <4>2. (y \div 1000) * 1000 = y
        BY <1>1, <4>1
      <4>3. StartDate(p, dt) = D((y \div 1000) * 1000, 1, 1)
        BY <3>7 DEF StartDate, y
      <4> QED BY <1>1, <4>1, <4>2, <4>3
    <3> QED BY <1>5, <3>1, <3>2, <3>3, <3>4, <3>5, <3>6, <3>7 DEF Periods
  <2> QED BY <1>2, <1>5, <2>1 DEF Begun
<1> QED BY <1>4, <1>5

\* A period no new one begins after goes on to the next day.
LEMMA YearsGoOn ==
  ASSUME NEW y \in Nat, NEW k \in {10, 100, 1000}, (y + 1) % k # 0
  PROVE  (y + 1) \div k = y \div k
<1>1. ASSUME (y + 1) % 10 # 0 PROVE (y + 1) \div 10 = y \div 10
  BY <1>1
<1>2. ASSUME (y + 1) % 100 # 0 PROVE (y + 1) \div 100 = y \div 100
  BY <1>2
<1>3. ASSUME (y + 1) % 1000 # 0 PROVE (y + 1) \div 1000 = y \div 1000
  BY <1>3
<1> QED BY <1>1, <1>2, <1>3

LEMMA BegunStill ==
  ASSUME NEW p \in Periods, ValidDate(date), NEW b, Begun(p, b, date),
         ~Begins(p, NextDate, DayOfWeek(EpochOf(NextDate)))
  PROVE  Begun(p, b, NextDate)
<1> DEFINE nd == NextDate
           n == EpochOf(date)
           y == date.year
           m == date.month
           z == nd.year
           k == nd.month
<1>1. ValidDate(nd) /\ EpochOf(nd) = n + 1 /\ n \in Int
  BY NextDateNumber, ValidInts
<1>2. y \in Int /\ m \in Int /\ 1 <= m /\ m <= 12 /\ y \in Nat
  <2>1. y \in Nat
    BY DEF ValidDate
  <2> QED BY <2>1, ValidInts
<1>3. z \in Int /\ k \in Int /\ 1 <= k /\ k <= 12
  <2> HIDE DEF nd
  <2> QED BY <1>1, ValidInts
<1>4. \/ nd.day # 1 /\ z = y /\ k = m
      \/ nd.day = 1 /\ ((z = y /\ k = m + 1) \/ (z = y + 1 /\ k = 1))
  <2>1. CASE ~MonthIsFull
    <3>1. z = y /\ k = m /\ nd.day = date.day + 1
      BY <2>1, NextDateFields
    <3>2. date.day \in Int /\ 1 <= date.day
      BY ValidInts
    <3>3. date.day + 1 # 1
      BY <3>2
    <3> QED BY <3>1, <3>3
  <2>2. CASE MonthIsFull
    <3>1. 12 * z + k = 12 * y + m + 1 /\ nd.day = 1
      BY <2>2, NextDateFields
    <3> HIDE DEF nd, y, m, z, k
    <3>2. (z = y /\ k = m + 1) \/ (z = y + 1 /\ k = 1)
      BY <1>2, <1>3, <3>1
    <3> QED BY <3>1, <3>2
  <2> QED BY <2>1, <2>2
<1> HIDE DEF nd
<1>5. ~Begins(p, nd, DayOfWeek(n + 1))
  BY <1>1 DEF nd
<1>6. CASE p = "weekYear"
  <2> DEFINE w == WeekYearOf(b.date)
  <2>1. w \in Nat \ {0} /\ b.day = WeekOne(w) /\ b.day <= n /\ n < WeekOne(w + 1)
    BY <1>6 DEF Begun
  <2> HIDE DEF w
  <2>2. w + 1 \in Int /\ w \in Int
    BY <2>1
  <2>3. WeekOne(w + 1) \in Int /\ (WeekOne(w + 1) - 1) % 7 = 0 /\ b.day \in Int
    BY <2>1, <2>2, WeekOneMonday
  <2>4. n + 1 # WeekOne(w + 1)
    <3> SUFFICES ASSUME n + 1 = WeekOne(w + 1) PROVE FALSE
      OBVIOUS
    <3>1. DayOfWeek(n + 1) = 1
      BY <2>3 DEF DayOfWeek
    <3>2. Begins("weekYear", nd, 1)
      BY <1>1, <2>1, <3>1, MondayBegins
    <3> QED BY <1>5, <1>6, <3>1, <3>2
  <2>5. b.day <= n + 1 /\ n + 1 < WeekOne(w + 1)
    <3> HIDE DEF n
    <3> QED BY <1>1, <2>1, <2>3, <2>4
  <2> QED BY <1>1, <1>6, <2>1, <2>5 DEF Begun, nd, w
<1>7. CASE p # "weekYear"
  <2>1. StartDate(p, nd) = StartDate(p, date)
    <3>1. CASE p = "week"
      <4>1. DayOfWeek(n + 1) # 1
        BY <1>5, <3>1 DEF Begins
      <4>2. (n + 1) - (DayOfWeek(n + 1) - 1) = n - (DayOfWeek(n) - 1)
        <5> HIDE DEF n
        <5>1. ((n + 1) - 1) % 7 # 0
          BY <4>1 DEF DayOfWeek
        <5>2. (n + 1) - (((((n + 1) - 1) % 7) + 1) - 1) = n - ((((n - 1) % 7) + 1) - 1)
          BY <1>1, <5>1
        <5> QED BY <5>2 DEF DayOfWeek
      <4> QED BY <1>1, <3>1, <4>2 DEF StartDate
    <3>2. CASE p = "month"
      <4>1. z = y /\ k = m
        BY <1>4, <1>5, <3>2 DEF Begins
      <4> QED BY <3>2, <4>1 DEF StartDate
    <3>3. CASE p = "quarter"
      <4>1. z = y /\ (k = m \/ (k = m + 1 /\ k \notin {1, 4, 7, 10}))
        BY <1>4, <1>5, <3>3 DEF Begins
      <4>2. (k - 1) \div 3 = (m - 1) \div 3
        <5> HIDE DEF k, m, y, z
        <5> QED BY <1>2, <1>3, <4>1
      <4>3. QuarterOf(nd) = QuarterOf(date)
        BY <4>2 DEF QuarterOf
      <4> QED BY <3>3, <4>1, <4>3 DEF StartDate
    <3>4. CASE p = "year"
      <4>1. z = y
        BY <1>4, <1>5, <3>4 DEF Begins
      <4> QED BY <3>4, <4>1 DEF StartDate
    <3>5. CASE p = "decade"
      <4>1. z = y \/ (z = y + 1 /\ z % 10 # 0)
        BY <1>4, <1>5, <3>5 DEF Begins
      <4>2. z \div 10 = y \div 10
        <5> HIDE DEF z, y
        <5> QED BY <1>2, <4>1, YearsGoOn
      <4> QED BY <3>5, <4>2 DEF StartDate
    <3>6. CASE p = "century"
      <4>1. z = y \/ (z = y + 1 /\ z % 100 # 0)
        BY <1>4, <1>5, <3>6 DEF Begins
      <4>2. z \div 100 = y \div 100
        <5> HIDE DEF z, y
        <5> QED BY <1>2, <4>1, YearsGoOn
      <4> QED BY <3>6, <4>2 DEF StartDate
    <3>7. CASE p = "millennium"
      <4>1. z = y \/ (z = y + 1 /\ z % 1000 # 0)
        BY <1>4, <1>5, <3>7 DEF Begins
      <4>2. z \div 1000 = y \div 1000
        <5> HIDE DEF z, y
        <5> QED BY <1>2, <4>1, YearsGoOn
      <4> QED BY <3>7, <4>2 DEF StartDate
    <3> QED BY <1>7, <3>1, <3>2, <3>3, <3>4, <3>5, <3>6, <3>7 DEF Periods
  <2> QED BY <1>7, <2>1 DEF Begun, nd
<1> QED BY <1>6, <1>7 DEF nd

\* The periods that begin with a day are remembered, the others kept.
LEMMA BeganStep ==
  ASSUME BeganInv, CalInv, [Next]_vars
  PROVE  BeganInv'
<1>1. CASE Midnight
  <2> DEFINE at == BeginsAt(date', weekday', day')
  <2>1. /\ day' = day + 1 /\ date' = NextDate
        /\ weekday' = IF weekday = 7 THEN 1 ELSE weekday + 1
        /\ began' = [p \in DOMAIN began \cup DOMAIN at |-> IF p \in DOMAIN at THEN at[p] ELSE began[p]]
    BY <1>1 DEF Midnight
  <2>2. ValidDate(date) /\ EpochOf(date) = day /\ day \in Int
    BY ValidInts DEF CalInv
  <2>3. ValidDate(date') /\ EpochOf(date') = day'
    BY <2>1, <2>2, NextDateNumber
  <2>4. weekday' = DayOfWeek(day')
    <3>1. weekday = ((day - 1) % 7) + 1
      BY DEF BeganInv, DayOfWeek
    <3>2. weekday' = (((day + 1) - 1) % 7) + 1
      BY <2>1, <2>2, <3>1
    <3> QED BY <2>1, <3>2 DEF DayOfWeek
  <2>5. DOMAIN at = {q \in Periods : Begins(q, date', weekday')}
    BY DEF BeginsAt
  <2>6. \A p \in DOMAIN at : at[p] = [date |-> date', day |-> day']
    BY DEF BeginsAt
  <2> HIDE DEF at
  <2>7. /\ DOMAIN began' = DOMAIN began \cup DOMAIN at
        /\ \A p \in DOMAIN began' : began'[p] = IF p \in DOMAIN at THEN at[p] ELSE began[p]
    BY <2>1
  <2>8. ASSUME NEW p \in DOMAIN began' PROVE Begun(p, began'[p], date')
    <3>1. p \in Periods
      BY <2>5, <2>7 DEF BeganInv
    <3>2. CASE p \in DOMAIN at
      <4>1. Begins(p, date', DayOfWeek(day'))
        BY <2>4, <2>5, <3>2
      <4>2. began'[p] = [date |-> date', day |-> day']
        BY <2>6, <2>7, <3>2
      <4> QED BY <2>3, <3>1, <4>1, <4>2, BegunNow
    <3>3. CASE p \notin DOMAIN at
      <4>1. ~Begins(p, NextDate, DayOfWeek(EpochOf(NextDate)))
        BY <2>1, <2>3, <2>4, <2>5, <3>1, <3>3
      <4>2. p \in DOMAIN began /\ began'[p] = began[p]
        BY <2>7, <3>3
      <4>3. Begun(p, began[p], date)
        BY <4>2 DEF BeganInv
      <4>4. Begun(p, began[p], NextDate)
        BY <2>2, <3>1, <4>1, <4>3, BegunStill
      <4> QED BY <2>1, <4>2, <4>4
    <3> QED BY <3>2, <3>3
  <2> QED BY <2>4, <2>5, <2>7, <2>8 DEF BeganInv
<1>2. CASE UNCHANGED calendar
  <2>1. day' = day /\ date' = date /\ weekday' = weekday /\ began' = began
    BY <1>2 DEF calendar
  <2> QED BY <2>1 DEF BeganInv
<1>3. Tick \/ Mark \/ UNCHANGED vars => UNCHANGED calendar
  BY DEF Tick, Mark, vars
<1> QED BY <1>1, <1>2, <1>3 DEF Next

LEMMA BeganInit == Init => BeganInv
<1> SUFFICES ASSUME Init PROVE BeganInv
  OBVIOUS
<1>1. PICK s \in Starts : /\ day = StartDay(s) /\ date = D(StartYear(s), 1, 1)
                          /\ weekday = ((StartDay(s) - 1) % 7) + 1
                          /\ began = BeginsAt(date, weekday, day)
  BY DEF Init
<1>2. ValidDate(date) /\ EpochOf(date) = day
  BY CalInit DEF CalInv
<1>3. weekday = DayOfWeek(day)
  BY <1>1 DEF DayOfWeek
<1>4. date.month = 1 /\ date.day = 1
  BY <1>1 DEF D
<1>5. /\ DOMAIN began = {q \in Periods : Begins(q, date, weekday)}
      /\ \A p \in DOMAIN began : began[p] = [date |-> date, day |-> day]
  BY <1>1 DEF BeginsAt
<1>6. {"year", "quarter", "month"} \subseteq DOMAIN began
  <2>1. Begins("year", date, weekday)
    BY <1>4 DEF Begins
  <2>2. Begins("quarter", date, weekday)
    BY <1>4 DEF Begins
  <2>3. Begins("month", date, weekday)
    BY <1>4 DEF Begins
  <2>4. {"year", "quarter", "month"} \subseteq Periods
    BY DEF Periods
  <2> QED BY <1>5, <2>1, <2>2, <2>3, <2>4
<1>7. ASSUME NEW p \in DOMAIN began PROVE Begun(p, began[p], date)
  <2>1. p \in Periods /\ Begins(p, date, DayOfWeek(day)) /\ began[p] = [date |-> date, day |-> day]
    BY <1>3, <1>5
  <2> QED BY <1>2, <2>1, BegunNow
<1> QED BY <1>3, <1>5, <1>6, <1>7 DEF BeganInv

LEMMA BeganAlways == Spec => []BeganInv
<1>1. BeganInv /\ CalInv /\ [Next]_vars => BeganInv'
  BY BeganStep
<1> QED BY BeganInit, <1>1, CalAlways, PTL DEF Spec

-----------------------------------------------------------------------------
(* The parts of a date. *)

\* A map that names all the parts of a date needs no base.
LEMMA MapsByDay ==
  ASSUME NEW y, NEW o, NEW b
  PROVE  /\ DateFromMap([year |-> y, ordinalDay |-> o]) = OrdinalToMd(y, o)
         /\ DateFromBase(b, [year |-> y, ordinalDay |-> o]) = OrdinalToMd(y, o)
<1> DEFINE m == [year |-> y, ordinalDay |-> o]
<1>1. DOMAIN m = {"year", "ordinalDay"} /\ m["year"] = y /\ m["ordinalDay"] = o
  OBVIOUS
<1> HIDE DEF m
<1>2. "year" \in DOMAIN m /\ "ordinalDay" \in DOMAIN m /\ "month" \notin DOMAIN m /\ "week" \notin DOMAIN m
      /\ DOMAIN m \cap {"week", "dayOfWeek"} = {}
  BY <1>1
<1>3. DateFromMap(m) = OrdinalToMd(y, o)
  BY <1>1, <1>2 DEF DateFromMap
<1>4. DateFromBase(b, m) = OrdinalToMd(y, o)
  BY <1>1, <1>2 DEF DateFromBase, Get
<1> QED BY <1>3, <1>4 DEF m

LEMMA MapsByQuarter ==
  ASSUME NEW y, NEW q, NEW o, NEW b
  PROVE  /\ DateFromMap([year |-> y, quarter |-> q, dayOfQuarter |-> o]) = QuarterToMd(y, q, o)
         /\ DateFromBase(b, [year |-> y, quarter |-> q, dayOfQuarter |-> o]) = QuarterToMd(y, q, o)
<1> DEFINE m == [year |-> y, quarter |-> q, dayOfQuarter |-> o]
<1>1. DOMAIN m = {"year", "quarter", "dayOfQuarter"} /\ m["year"] = y /\ m["quarter"] = q /\ m["dayOfQuarter"] = o
  OBVIOUS
<1> HIDE DEF m
<1>2. /\ "year" \in DOMAIN m /\ "quarter" \in DOMAIN m /\ "dayOfQuarter" \in DOMAIN m
      /\ "month" \notin DOMAIN m /\ "week" \notin DOMAIN m /\ "ordinalDay" \notin DOMAIN m
      /\ DOMAIN m \cap {"week", "dayOfWeek"} = {} /\ DOMAIN m \cap {"quarter", "dayOfQuarter"} # {}
  BY <1>1
<1>3. DateFromMap(m) = QuarterToMd(y, q, o)
  BY <1>1, <1>2 DEF DateFromMap, Get
<1>4. DateFromBase(b, m) = QuarterToMd(y, q, o)
  BY <1>1, <1>2 DEF DateFromBase, Get
<1> QED BY <1>3, <1>4 DEF m

LEMMA MapsByMonth ==
  ASSUME NEW y, NEW k, NEW d, NEW b
  PROVE  /\ DateFromMap([year |-> y, month |-> k, day |-> d]) = D(y, k, d)
         /\ DateFromBase(b, [year |-> y, month |-> k, day |-> d]) = D(y, k, d)
<1> DEFINE m == [year |-> y, month |-> k, day |-> d]
<1>1. DOMAIN m = {"year", "month", "day"} /\ m["year"] = y /\ m["month"] = k /\ m["day"] = d
  OBVIOUS
<1> HIDE DEF m
<1>2. /\ "year" \in DOMAIN m /\ "month" \in DOMAIN m /\ "day" \in DOMAIN m /\ "ordinalDay" \notin DOMAIN m
      /\ DOMAIN m \cap {"week", "dayOfWeek"} = {} /\ DOMAIN m \cap {"quarter", "dayOfQuarter"} = {}
  BY <1>1
<1>3. DateFromMap(m) = D(y, k, d)
  BY <1>1, <1>2 DEF DateFromMap, Get
<1>4. DateFromBase(b, m) = D(y, k, d)
  BY <1>1, <1>2 DEF DateFromBase, Get
<1> QED BY <1>3, <1>4 DEF m

LEMMA MapsByWeek ==
  ASSUME NEW y, NEW w, NEW d, NEW b
  PROVE  /\ DateFromMap([year |-> y, week |-> w, dayOfWeek |-> d]) = WeekToDate(y, w, d)
         /\ DateFromBase(b, [year |-> y, week |-> w, dayOfWeek |-> d]) = WeekToDate(y, w, d)
<1> DEFINE m == [year |-> y, week |-> w, dayOfWeek |-> d]
<1>1. DOMAIN m = {"year", "week", "dayOfWeek"} /\ m["year"] = y /\ m["week"] = w /\ m["dayOfWeek"] = d
  OBVIOUS
<1> HIDE DEF m
<1>2. /\ "year" \in DOMAIN m /\ "week" \in DOMAIN m /\ "dayOfWeek" \in DOMAIN m /\ "month" \notin DOMAIN m
      /\ DOMAIN m \cap {"week", "dayOfWeek"} # {}
  BY <1>1
<1>3. DateFromMap(m) = WeekToDate(y, w, d)
  BY <1>1, <1>2 DEF DateFromMap, Get
<1>4. DateFromBase(b, m) = WeekToDate(y, w, d)
  BY <1>1, <1>2 DEF DateFromBase, Get
<1> QED BY <1>3, <1>4 DEF m

LEMMA MapsByWeekday ==
  ASSUME NEW d, NEW b
  PROVE  DateFromBase(b, [dayOfWeek |-> d]) = WeekToDate(IsoWeek(b).year, IsoWeek(b).week, d)
<1> DEFINE m == [dayOfWeek |-> d]
<1>1. DOMAIN m = {"dayOfWeek"} /\ m["dayOfWeek"] = d
  OBVIOUS
<1> HIDE DEF m
<1>2. /\ "year" \notin DOMAIN m /\ "week" \notin DOMAIN m /\ "dayOfWeek" \in DOMAIN m
      /\ DOMAIN m \cap {"week", "dayOfWeek"} # {}
  BY <1>1
<1>3. DateFromBase(b, m) = WeekToDate(IsoWeek(b).year, IsoWeek(b).week, d)
  BY <1>1, <1>2 DEF DateFromBase, Get
<1> QED BY <1>3 DEF m

\* The days counted since the year and since the quarter began.
LEMMA PartsFacts ==
  ASSUME BeganInv, CalInv
  PROVE  /\ Parts.ordinal = DaysBefore(date.year, date.month) + date.day
         /\ Parts.doq = DayOfQuarter(date) /\ Parts.q = QuarterOf(date)
<1> DEFINE y == date.year
           m == date.month
           d == date.day
           q == QuarterOf(date)
           s == QuarterStart(q)
           e == Epoch(y, 1, 1)
           ys == began["year"]
           qs == began["quarter"]
<1>1. /\ y \in Nat \ {0} /\ m \in 1 .. 12 /\ d \in Int /\ day = Epoch(y, m, d)
  <2>1. y \in Nat \ {0} /\ m \in 1 .. 12
    BY DEF CalInv, ValidDate
  <2>2. d \in Int
    BY ValidInts DEF CalInv
  <2>3. day = Epoch(y, m, d)
    BY DEF CalInv, EpochOf
  <2> QED BY <2>1, <2>2, <2>3
<1>2. /\ ys.date = D(y, 1, 1) /\ EpochOf(ys.date) = ys.day
      /\ qs.date = D(y, s, 1) /\ EpochOf(qs.date) = qs.day
  <2>1. Begun("year", began["year"], date) /\ Begun("quarter", began["quarter"], date)
    BY DEF BeganInv
  <2> QED BY <2>1 DEF Begun, StartDate
<1>3. q \in 1 .. 4 /\ q = ((m - 1) \div 3) + 1
  <2>1. q = ((m - 1) \div 3) + 1
    BY DEF QuarterOf
  <2> HIDE DEF q, m
  <2> QED BY <1>1, <2>1
<1>4. s = (q - 1) * 3 + 1
  BY DEF QuarterStart
<1> HIDE DEF y, m, d, q, s, e, ys, qs
<1>5. s \in 1 .. 12 /\ s \in 1 .. 13 /\ m \in 1 .. 13
  BY <1>1, <1>3, <1>4
<1>6. ys.day = e /\ qs.day = Epoch(y, s, 1)
  BY <1>2 DEF EpochOf, D, e
<1>7. /\ e \in Int /\ DaysBefore(y, m) \in Int /\ DaysBefore(y, s) \in Int
  <2>1. e \in Int
    BY <1>1, YearLength DEF e
  <2> QED BY <1>1, <1>5, <2>1, DaysBeforeInt
<1>8. day = e + DaysBefore(y, m) + d - 1
  BY <1>1, <1>5, DayOfYear DEF e
<1>9. qs.day = e + DaysBefore(y, s) + 1 - 1
  <2>1. 1 \in Int
    OBVIOUS
  <2> QED BY <1>1, <1>5, <1>6, <2>1, DayOfYear DEF e
<1>10. Parts.ordinal = (day - ys.day) + 1 /\ Parts.doq = (day - qs.day) + 1 /\ Parts.q = QuarterOf(qs.date)
  BY DEF Parts, Since, ys, qs
<1>11. DayOfQuarter(date) = DaysBefore(y, m) - DaysBefore(y, s) + d
  BY DEF DayOfQuarter, y, m, d, s, q
<1>12. (day - ys.day) + 1 = DaysBefore(y, m) + d
  BY <1>1, <1>6, <1>7, <1>8
<1>13. (day - qs.day) + 1 = DaysBefore(y, m) - DaysBefore(y, s) + d
  BY <1>1, <1>7, <1>8, <1>9
<1>14. QuarterOf(qs.date) = q
  <2>1. QuarterOf(qs.date) = ((s - 1) \div 3) + 1
    BY <1>2 DEF QuarterOf, D
  <2>2. q \in 1 .. 4
    BY <1>3
  <2>3. ((s - 1) \div 3) + 1 = q
    BY <1>4, <2>2
  <2> QED BY <2>1, <2>3
<1> QED BY <1>10, <1>11, <1>12, <1>13, <1>14 DEF y, m, d, q

\* The week and its year are those counted, once the first of them has begun.
LEMMA WeekFacts ==
  ASSUME BeganInv, CalInv, "weekYear" \in DOMAIN began
  PROVE  IsoWeek(date) = WeekParts
<1> DEFINE b == began["weekYear"]
           w == WeekYearOf(b.date)
           n == EpochOf(date)
<1>1. Begun("weekYear", b, date)
  BY DEF BeganInv
<1>2. w \in Nat \ {0} /\ b.day = WeekOne(w) /\ b.day <= n /\ n < WeekOne(w + 1)
  BY <1>1 DEF Begun
<1>3. IsoWeekYear(date) = w
  <2> HIDE DEF w
  <2> QED BY <1>2, WeekYearFound DEF CalInv
<1>4. n = day /\ weekday = DayOfWeek(n)
  BY DEF CalInv, BeganInv
<1>5. IsoWeek(date) = [year |-> w, week |-> ((day - b.day) \div 7) + 1, dow |-> weekday]
  <2> HIDE DEF b, w
  <2> QED BY <1>2, <1>3, <1>4 DEF IsoWeek
<1>6. WeekParts = [year |-> w, week |-> ((day - b.day) \div 7) + 1, dow |-> weekday]
  BY DEF WeekParts, WeekYearOf, Since
<1> QED BY <1>5, <1>6

-----------------------------------------------------------------------------
(* The moments a period begins at. *)

\* What a truncation to a period of the calendar leaves.
LEMMA Truncated ==
  ASSUME NEW p \in Periods, NEW dt, NEW t
  PROVE  /\ p # "weekYear" => Truncate(p, At(dt, t)) = At(StartDate(p, dt), 0)
         /\ p = "weekYear" => Truncate(p, At(dt, t)) = At(WeekToDate(IsoWeekYear(dt), 1, 1), 0)
<1> DEFINE c == At(dt, t)
<1>1. DOMAIN YearsPer = {"millennium", "century", "decade"} /\ DOMAIN UnitOfTime = {"hour", "minute", "second"}
  BY DEF YearsPer, UnitOfTime
<1>2. YearsPer["millennium"] = 1000 /\ YearsPer["century"] = 100 /\ YearsPer["decade"] = 10
  BY DEF YearsPer
<1>3. c.date = dt
  BY DEF At
<1> HIDE DEF c
<1>4. Truncate("weekYear", c) = At(WeekToDate(IsoWeekYear(dt), 1, 1), 0)
  BY <1>1, <1>3 DEF Truncate
<1>5. Truncate("week", c) = At(StartDate("week", dt), 0)
  BY <1>1, <1>2, <1>3 DEF Truncate, StartDate
<1>6. Truncate("month", c) = At(StartDate("month", dt), 0)
  BY <1>1, <1>2, <1>3 DEF Truncate, StartDate
<1>7. Truncate("quarter", c) = At(StartDate("quarter", dt), 0)
  BY <1>1, <1>2, <1>3 DEF Truncate, StartDate
<1>8. Truncate("year", c) = At(StartDate("year", dt), 0)
  BY <1>1, <1>2, <1>3 DEF Truncate, StartDate
<1>9. Truncate("decade", c) = At(StartDate("decade", dt), 0)
  BY <1>1, <1>2, <1>3 DEF Truncate, StartDate
<1>10. Truncate("century", c) = At(StartDate("century", dt), 0)
  BY <1>1, <1>2, <1>3 DEF Truncate, StartDate
<1>11. Truncate("millennium", c) = At(StartDate("millennium", dt), 0)
  BY <1>1, <1>2, <1>3 DEF Truncate, StartDate
<1> QED BY <1>4, <1>5, <1>6, <1>7, <1>8, <1>9, <1>10, <1>11 DEF Periods, c

LEMMA TruncatedTime ==
  ASSUME NEW dt, NEW t
  PROVE  /\ Truncate("day", At(dt, t)) = At(dt, 0)
         /\ Truncate("hour", At(dt, t)) = At(dt, t - (t % Hour))
         /\ Truncate("minute", At(dt, t)) = At(dt, t - (t % Minute))
         /\ Truncate("second", At(dt, t)) = At(dt, t - (t % Ns))
<1> DEFINE c == At(dt, t)
<1>1. DOMAIN YearsPer = {"millennium", "century", "decade"} /\ DOMAIN UnitOfTime = {"hour", "minute", "second"}
  BY DEF YearsPer, UnitOfTime
<1>2. UnitOfTime["hour"] = Hour /\ UnitOfTime["minute"] = Minute /\ UnitOfTime["second"] = Ns
  BY DEF UnitOfTime
<1>3. c.date = dt /\ c.time = t
  BY DEF At
<1> HIDE DEF c
<1>4. Truncate("day", c) = At(dt, 0)
  BY <1>1, <1>3 DEF Truncate
<1>5. Truncate("hour", c) = At(dt, t - (t % Hour))
  BY <1>1, <1>2, <1>3 DEF Truncate
<1>6. Truncate("minute", c) = At(dt, t - (t % Minute))
  BY <1>1, <1>2, <1>3 DEF Truncate
<1>7. Truncate("second", c) = At(dt, t - (t % Ns))
  BY <1>1, <1>2, <1>3 DEF Truncate
<1> QED BY <1>4, <1>5, <1>6, <1>7 DEF c

\* A period the date is in is truncated to the day it began on.
LEMMA BegunTruncates ==
  ASSUME BeganInv, CalInv, NEW p \in DOMAIN began
  PROVE  Truncate(p, Now) = At(began[p].date, 0)
<1> DEFINE b == began[p]
<1>1. p \in Periods /\ Begun(p, b, date) /\ Now = At(date, time)
  BY DEF BeganInv, Now
<1> HIDE DEF b
<1>2. CASE p # "weekYear"
  <2>1. b.date = StartDate(p, date)
    BY <1>1, <1>2 DEF Begun
  <2> QED BY <1>1, <1>2, <2>1, Truncated DEF b
<1>3. CASE p = "weekYear"
  <2> DEFINE w == WeekYearOf(b.date)
             v == WeekOne(w)
  <2>1. w \in Nat \ {0} /\ b.day = v /\ v <= EpochOf(date) /\ EpochOf(date) < WeekOne(w + 1)
        /\ ValidDate(b.date) /\ EpochOf(b.date) = b.day
    BY <1>1, <1>3 DEF Begun
  <2> HIDE DEF w
  <2>2. IsoWeekYear(date) = w
    BY <2>1, WeekYearFound DEF CalInv
  <2>3. v \in Int
    BY <2>1, WeekOneMonday
  <2>4. WeekToDate(w, 1, 1) = FromEpoch(v + (1 - 1) * 7 + (1 - 1))
    BY DEF WeekToDate
  <2>5. v + (1 - 1) * 7 + (1 - 1) = v
    <3> HIDE DEF v
    <3> QED BY <2>3
  <2>6. FromEpoch(v) = b.date
    <3> DEFINE x == b.date
    <3>1. x = D(x.year, x.month, x.day) /\ x.year \in Nat \ {0} /\ x.month \in 1 .. 12
          /\ x.day \in 1 .. DaysInMonth(x.year, x.month) /\ v = Epoch(x.year, x.month, x.day)
      BY <2>1 DEF ValidDate, EpochOf
    <3> HIDE DEF v, x
    <3> QED BY <3>1, FromEpochEpoch DEF x
  <2>7. WeekToDate(IsoWeekYear(date), 1, 1) = b.date
    BY <2>2, <2>4, <2>5, <2>6
  <2> QED BY <1>1, <1>3, <2>7, Truncated DEF b
<1> QED BY <1>2, <1>3

\* A truncated moment and the parts that were cut off.
LEMMA PartsOverridden ==
  ASSUME NEW dt, NEW t, NEW n
  PROVE  /\ Override(At(dt, t), "dayOfWeek", n) = At(FromEpoch(EpochOf(dt) + n - 1), t)
         /\ Override(At(dt, t), "hour", n) = At(dt, n * Hour + (t % Hour))
         /\ Override(At(dt, t), "minute", n) = At(dt, t - (t % Hour) + n * Minute + (t % Minute))
         /\ Override(At(dt, t), "second", n) = At(dt, t - (t % Minute) + n * Ns + (t % Ns))
  BY DEF Override, At

LEMMA OverriddenDate ==
  ASSUME NEW y, NEW m, NEW d, NEW t, NEW n
  PROVE  /\ Override(At(D(y, m, d), t), "month", n) = At(D(y, n, d), t)
         /\ Override(At(D(y, m, d), t), "day", n) = At(D(y, m, n), t)
  BY DEF Override, At, D

-----------------------------------------------------------------------------
(* Units. *)

\* The whole seconds, minutes and hours of a time.
LEMMA Units == Ns \in Nat \ {0} /\ Minute \in Nat \ {0} /\ Hour \in Nat \ {0} /\ Day \in Nat \ {0}
<1>1. Ns \in Nat \ {0}
  BY NsAssumption
<1> QED BY <1>1 DEF Minute, Hour, Day

\* Division as the code rounds it: of a, and of minus a.
LEMMA Quotients ==
  ASSUME NEW a \in Nat, NEW b \in Nat \ {0}
  PROVE  /\ Quo(a, b) = a \div b /\ Rem(a, b) = a % b
         /\ Quo(-a, b) = -(a \div b) /\ Rem(-a, b) = -(a % b)
<1>1. a \div b \in Nat /\ a % b \in 0 .. b - 1 /\ a = (a \div b) * b + (a % b)
  OBVIOUS
<1> DEFINE q == a \div b
           r == a % b
<1>2. Quo(a, b) = q
  BY DEF Quo
<1>3. Quo(-a, b) = -q
  <2>1. CASE a = 0
    <3>1. q = 0
      BY <2>1, <1>1
    <3> QED BY <2>1, <3>1 DEF Quo
  <2>2. CASE a > 0
    <3>1. -(-a) = a /\ ~(-a >= 0)
      BY <2>2
    <3> QED BY <3>1 DEF Quo
  <2> QED BY <2>1, <2>2
<1> HIDE DEF q, r
<1>4. q \in Int /\ r \in Int /\ q * b \in Int /\ a = q * b + r
  BY <1>1 DEF q, r
<1>5. (-q) * b = -(q * b)
  BY <1>4
<1>6. Rem(a, b) = r
  BY <1>2, <1>4 DEF Rem
<1>7. Rem(-a, b) = -r
  <2>1. Rem(-a, b) = (-a) - (-q) * b
    BY <1>3 DEF Rem
  <2> QED BY <2>1, <1>4, <1>5
<1> QED BY <1>2, <1>3, <1>6, <1>7 DEF q, r

Duration == [y : Int, mo : Int, d : Int, h : Int, min : Int, s : Int]

LEMMA MinuteType == Minute \in Nat \ {0}
<1>1. Ns \in Nat \ {0}
  BY NsAssumption
<1> QED BY <1>1 DEF Minute

\* Division rounded to zero is a whole number.
LEMMA QuoInt ==
  ASSUME NEW a \in Int, NEW b \in Nat \ {0}
  PROVE  Quo(a, b) \in Int
<1>1. a \div b \in Int /\ (-a) \div b \in Int
  OBVIOUS
<1> QED BY <1>1 DEF Quo

\* Nothing is lost in a carry.
LEMMA NsCarryExact ==
  ASSUME NEW t \in Int
  PROVE  NsCarry(t)[1] \in Int /\ NsCarry(t)[2] = t - NsCarry(t)[1] * Minute
<1>1. Quo(t, Ns) \in Int
  BY QuoInt, NsAssumption
<1>2. 60 \in Nat \ {0}
  OBVIOUS
<1>3. Quo(Quo(t, Ns), 60) \in Int
  BY <1>1, <1>2, QuoInt
<1> QED BY <1>3 DEF NsCarry

LEMMA MinCarryExact ==
  ASSUME NEW t \in Int
  PROVE  MinCarry(t)[1] \in Int /\ MinCarry(t)[2] = t - MinCarry(t)[1] * 60
<1>1. 60 \in Nat \ {0}
  OBVIOUS
<1>2. Quo(t, 60) \in Int
  BY <1>1, QuoInt
<1> QED BY <1>2 DEF MinCarry

\* A duration read back has the seconds it was written with.
LEMMA SecondsExact ==
  ASSUME NEW d \in Duration
  PROVE  Seconds(d) * Ns + SubSecond(d) = d.s /\ d.s \in Int
<1> DEFINE s == d.s
<1>1. s \in Int /\ Ns \in Nat \ {0}
  BY NsAssumption DEF Duration
<1>2. (s \div Ns) * Ns + (s % Ns) = s
  <2> HIDE DEF s
  <2> QED BY <1>1
<1> QED BY <1>1, <1>2 DEF Seconds, SubSecond

\* The length of a sum is the sum of the lengths.
LEMMA ArithLength ==
  ASSUME NEW a \in Duration, NEW b \in Duration
  PROVE  /\ DurationArith(a, b, FALSE) \in Duration
         /\ Length(DurationArith(a, b, FALSE)) = Length(a) + Length(b)
<1> DEFINE t == (Seconds(a) * Ns + SubSecond(a)) + 1 * (Seconds(b) * Ns + SubSecond(b))
           c == NsCarry(t)
           u == a.min + 1 * b.min + c[1]
           k == MinCarry(u)
           r == DurationArith(a, b, FALSE)
<1>1. /\ a.y \in Int /\ a.mo \in Int /\ a.d \in Int /\ a.h \in Int /\ a.min \in Int /\ a.s \in Int
      /\ b.y \in Int /\ b.mo \in Int /\ b.d \in Int /\ b.h \in Int /\ b.min \in Int /\ b.s \in Int
  BY DEF Duration
<1>2. t = a.s + b.s
  <2> DEFINE p == Seconds(a) * Ns + SubSecond(a)
             q == Seconds(b) * Ns + SubSecond(b)
  <2>1. p = a.s /\ q = b.s
    BY SecondsExact
  <2>2. t = p + 1 * q
    OBVIOUS
  <2> HIDE DEF p, q, t
  <2> QED BY <1>1, <2>1, <2>2
<1>3. c[1] \in Int /\ c[2] = t - c[1] * Minute
  <2> HIDE DEF t
  <2> QED BY <1>1, <1>2, NsCarryExact
<1>4. u \in Int
  <2> HIDE DEF c
  <2> QED BY <1>1, <1>3
<1>5. k[1] \in Int /\ k[2] = u - k[1] * 60
  <2> HIDE DEF u
  <2> QED BY <1>4, MinCarryExact
<1>6. r = Dur(a.y + 1 * b.y, a.mo + 1 * b.mo, a.d + 1 * b.d, a.h + 1 * b.h + k[1], k[2], c[2])
  BY DEF DurationArith
<1> DEFINE c1 == c[1]
           k1 == k[1]
<1>7. /\ r.y = a.y + b.y /\ r.mo = a.mo + b.mo /\ r.d = a.d + b.d /\ r.h = a.h + b.h + k1
      /\ r.min = a.min + b.min + c1 - k1 * 60 /\ r.s = a.s + b.s - c1 * Minute
  <2> HIDE DEF t, c, u, k, r
  <2>1. /\ r.y = a.y + 1 * b.y /\ r.mo = a.mo + 1 * b.mo /\ r.d = a.d + 1 * b.d
        /\ r.h = a.h + 1 * b.h + k1 /\ r.min = k[2] /\ r.s = c[2]
    BY <1>6 DEF Dur
  <2>2. k[2] = a.min + 1 * b.min + c1 - k1 * 60
    BY <1>1, <1>3, <1>5 DEF u
  <2>3. c[2] = a.s + b.s - c1 * Minute
    BY <1>1, <1>2, <1>3, MinuteType
  <2>4. c1 \in Int /\ k1 \in Int
    BY <1>3, <1>5
  <2> HIDE DEF c1, k1
  <2>5. r.y = a.y + b.y /\ r.mo = a.mo + b.mo /\ r.d = a.d + b.d /\ r.h = a.h + b.h + k1
    BY <1>1, <2>1, <2>4
  <2>6. r.min = a.min + b.min + c1 - k1 * 60
    BY <1>1, <2>1, <2>2, <2>4
  <2> QED BY <2>1, <2>3, <2>5, <2>6
<1>8. r = Dur(r.y, r.mo, r.d, r.h, r.min, r.s)
  BY <1>6 DEF Dur
<1>9. Minute \in Nat \ {0} /\ c1 \in Int /\ k1 \in Int
  BY MinuteType, <1>3, <1>5
<1> HIDE DEF r, c1, k1, t, c, u, k
<1>10. c1 * Minute \in Int
  BY <1>9
<1>11. r \in Duration
  BY <1>1, <1>7, <1>8, <1>9, <1>10 DEF Duration, Dur
<1>12. Length(r) = Length(a) + Length(b)
  <2> DEFINE da == (a.d * 24 + a.h) * 60 + a.min
             db == (b.d * 24 + b.h) * 60 + b.min
             dr == (r.d * 24 + r.h) * 60 + r.min
  <2>1. dr = da + db + c1 /\ da \in Int /\ db \in Int
    BY <1>1, <1>7, <1>9
  <2>2. Length(r) = dr * Minute + r.s /\ Length(a) = da * Minute + a.s /\ Length(b) = db * Minute + b.s
    BY DEF Length
  <2> HIDE DEF da, db, dr
  <2>3. dr * Minute = da * Minute + db * Minute + c1 * Minute
    BY <2>1, <1>9
  <2>4. da * Minute \in Int /\ db * Minute \in Int
    BY <2>1, <1>9
  <2> QED BY <1>1, <1>7, <1>10, <2>2, <2>3, <2>4
<1> QED BY <1>11, <1>12 DEF r

\* duration({seconds, nanoseconds}) of a time is as long as the time.
Step(n) == DurationFromMap([seconds |-> n \div Ns, nanoseconds |-> n % Ns])
LEMMA StepLength ==
  ASSUME NEW n \in Int
  PROVE  Step(n) \in Duration /\ Length(Step(n)) = n
<1> DEFINE m == [seconds |-> n \div Ns, nanoseconds |-> n % Ns]
           c == NsCarry(n)
<1>1. DOMAIN m = {"seconds", "nanoseconds"} /\ m["seconds"] = n \div Ns /\ m["nanoseconds"] = n % Ns
  OBVIOUS
<1>2. (n \div Ns) * Ns + (n % Ns) = n
  BY NsAssumption
<1>3. Step(n) = Dur(0, 0, 0 + 7 * 0, 0, 0 + c[1], c[2])
  <2> HIDE DEF m, c
  <2>1. /\ Get(m, "years", 0) = 0 /\ Get(m, "months", 0) = 0 /\ Get(m, "days", 0) = 0
        /\ Get(m, "weeks", 0) = 0 /\ Get(m, "hours", 0) = 0 /\ Get(m, "minutes", 0) = 0
        /\ Get(m, "seconds", 0) = n \div Ns /\ Get(m, "nanoseconds", 0) = n % Ns
    BY <1>1 DEF Get
  <2> QED BY <2>1, <1>2 DEF Step, DurationFromMap, m, c
<1>4. c[1] \in Int /\ c[2] = n - c[1] * Minute
  BY NsCarryExact
<1> DEFINE c1 == c[1]
<1>5. Minute \in Nat \ {0} /\ c1 \in Int
  BY MinuteType, <1>4
<1>6. Step(n) = Dur(0, 0, 0, 0, c1, n - c1 * Minute)
  <2> HIDE DEF c
  <2> QED BY <1>3, <1>4
<1> HIDE DEF c1, c
<1>7. c1 * Minute \in Int
  BY <1>5
<1>8. Length(Step(n)) = c1 * Minute + (n - c1 * Minute)
  <2>1. Length(Step(n)) = ((0 * 24 + 0) * 60 + c1) * Minute + (n - c1 * Minute)
    BY <1>6 DEF Length, Dur
  <2>2. (0 * 24 + 0) * 60 + c1 = c1
    BY <1>5
  <2> QED BY <2>1, <2>2
<1> QED BY <1>5, <1>6, <1>7, <1>8 DEF Duration, Dur

-----------------------------------------------------------------------------
(* Carrying. *)

\* A time is carried into whole minutes and less than a minute.
LEMMA NsCarryNat ==
  ASSUME NEW t \in Nat
  PROVE  NsCarry(t)[1] \in Nat /\ NsCarry(t)[2] \in 0 .. Minute - 1
<1> DEFINE q == t \div Ns
           r == t % Ns
           p == q \div 60
           u == q % 60
<1>1. q \in Nat /\ r \in 0 .. Ns - 1 /\ t = q * Ns + r
  BY Units
<1>2. NsCarry(t) = <<p, t - p * Minute>>
  <2>1. Quo(t, Ns) = q
    BY Units, Quotients
  <2>2. Quo(q, 60) = p
    <3>1. 60 \in Nat \ {0}
      OBVIOUS
    <3> HIDE DEF q
    <3> QED BY <1>1, <3>1, Quotients
  <2> HIDE DEF q, p
  <2> QED BY <2>1, <2>2 DEF NsCarry
<1>3. p \in Nat /\ u \in 0 .. 59 /\ q = p * 60 + u
  <2> HIDE DEF q
  <2> QED BY <1>1
<1> HIDE DEF q, r, p, u
<1>4. p * Ns \in Int /\ u * Ns \in Int /\ q * Ns = 60 * (p * Ns) + u * Ns /\ p * Minute = 60 * (p * Ns)
  BY <1>3, Units DEF Minute
<1>5. u * Ns >= 0 /\ u * Ns <= 59 * Ns
  <2>1. u * Ns >= 0
    BY <1>3, Units
  <2>2. (59 - u) * Ns >= 0 /\ (59 - u) * Ns = 59 * Ns - u * Ns
    BY <1>3, Units
  <2> QED BY <2>1, <2>2, <1>4, Units
<1>6. t - p * Minute \in 0 .. Minute - 1
  BY <1>1, <1>4, <1>5, Units DEF Minute
<1> QED BY <1>2, <1>3, <1>6

\* A time of whole hours, minutes and units, all of one sign, without days.
Plain(d) ==
  /\ d = Dur(0, 0, 0, d.h, d.min, d.s)
  /\ d.h \in Nat /\ d.min \in Nat /\ d.s \in 0 .. Minute - 1
\* Nothing is left to carry.
Carried(d) == Plain(d) /\ d.min \in 0 .. 59

LEMMA PlainDuration ==
  ASSUME NEW d, Plain(d)
  PROVE  d \in Duration /\ d.y = 0 /\ d.mo = 0 /\ d.d = 0
  BY Units DEF Plain, Dur, Duration

LEMMA StepPlain ==
  ASSUME NEW n \in Nat
  PROVE  Plain(Step(n))
<1> DEFINE m == [seconds |-> n \div Ns, nanoseconds |-> n % Ns]
           c == NsCarry(n)
<1>1. DOMAIN m = {"seconds", "nanoseconds"} /\ m["seconds"] = n \div Ns /\ m["nanoseconds"] = n % Ns
  OBVIOUS
<1>2. (n \div Ns) * Ns + (n % Ns) = n
  BY NsAssumption
<1>3. Step(n) = Dur(0, 0, 0 + 7 * 0, 0, 0 + c[1], c[2])
  <2> HIDE DEF m, c
  <2>1. /\ Get(m, "years", 0) = 0 /\ Get(m, "months", 0) = 0 /\ Get(m, "days", 0) = 0
        /\ Get(m, "weeks", 0) = 0 /\ Get(m, "hours", 0) = 0 /\ Get(m, "minutes", 0) = 0
        /\ Get(m, "seconds", 0) = n \div Ns /\ Get(m, "nanoseconds", 0) = n % Ns
    BY <1>1 DEF Get
  <2> QED BY <2>1, <1>2 DEF Step, DurationFromMap, m, c
<1>4. c[1] \in Nat /\ c[2] \in 0 .. Minute - 1
  BY NsCarryNat
<1> HIDE DEF c
<1>5. Step(n) = Dur(0, 0, 0, 0, c[1], c[2])
  BY <1>3, <1>4
<1> QED BY <1>4, <1>5 DEF Plain, Dur

LEMMA ArithCarried ==
  ASSUME NEW a, Plain(a), NEW b, Plain(b)
  PROVE  Carried(DurationArith(a, b, FALSE))
<1> DEFINE t == (Seconds(a) * Ns + SubSecond(a)) + 1 * (Seconds(b) * Ns + SubSecond(b))
           c == NsCarry(t)
           u == a.min + 1 * b.min + c[1]
           k == MinCarry(u)
           r == DurationArith(a, b, FALSE)
<1>1. /\ a \in Duration /\ a.y = 0 /\ a.mo = 0 /\ a.d = 0
      /\ b \in Duration /\ b.y = 0 /\ b.mo = 0 /\ b.d = 0
  BY PlainDuration
<1>2. a.h \in Nat /\ a.min \in Nat /\ a.s \in Nat /\ b.h \in Nat /\ b.min \in Nat /\ b.s \in Nat
  BY Units DEF Plain
<1>3. t \in Nat
  <2> DEFINE p == Seconds(a) * Ns + SubSecond(a)
             q == Seconds(b) * Ns + SubSecond(b)
  <2>1. p = a.s /\ q = b.s
    BY <1>1, SecondsExact
  <2>2. t = p + 1 * q
    OBVIOUS
  <2> HIDE DEF p, q, t
  <2> QED BY <1>2, <2>1, <2>2
<1>4. c[1] \in Nat /\ c[2] \in 0 .. Minute - 1
  <2> HIDE DEF t
  <2> QED BY <1>3, NsCarryNat
<1>5. u \in Nat
  <2> HIDE DEF c
  <2> QED BY <1>2, <1>4
<1>6. k[1] \in Nat /\ k[2] \in 0 .. 59
  <2>1. 60 \in Nat \ {0}
    OBVIOUS
  <2> HIDE DEF u
  <2>2. Quo(u, 60) = u \div 60
    BY <1>5, <2>1, Quotients
  <2> QED BY <1>5, <2>2 DEF MinCarry
<1>7. r = Dur(a.y + 1 * b.y, a.mo + 1 * b.mo, a.d + 1 * b.d, a.h + 1 * b.h + k[1], k[2], c[2])
  BY DEF DurationArith
<1> DEFINE h == a.h + 1 * b.h + k[1]
<1>8. h \in Nat
  <2> HIDE DEF k
  <2> QED BY <1>2, <1>6
<1> HIDE DEF t, c, u, k, r, h
<1>9. r = Dur(0, 0, 0, h, k[2], c[2])
  BY <1>1, <1>7 DEF h
<1>10. Carried(r)
  BY <1>4, <1>6, <1>8, <1>9 DEF Carried, Plain, Dur
<1> QED BY <1>10 DEF r

\* The hours, minutes and units of a carried duration are those of its length,
\* and the length taken away from nothing gives them with the other sign.
Minus(d) == Dur(0, 0, 0, -d.h, -d.min, -d.s)

LEMMA CarriedParts ==
  ASSUME NEW d, Carried(d)
  PROVE  /\ Length(d) \in Nat
         /\ Length(d) \div Hour = d.h /\ Length(d) % Hour = d.min * Minute + d.s
         /\ Length(d) \div Minute = d.h * 60 + d.min /\ Length(d) % Minute = d.s
         /\ d.min * Minute + d.s \in Nat
         /\ (d.min * Minute + d.s) \div Minute = d.min
<1> DEFINE h == d.h
           m == d.min
           s == d.s
           t == Length(d)
           u == m * Minute + s
<1>1. h \in Nat /\ m \in 0 .. 59 /\ s \in 0 .. Minute - 1 /\ d.d = 0
  BY PlainDuration DEF Carried, Plain
<1>2. t = (h * 60 + m) * Minute + s
  <2>1. t = ((0 * 24 + h) * 60 + m) * Minute + s
    BY <1>1 DEF Length
  <2>2. (0 * 24 + h) * 60 + m = h * 60 + m
    BY <1>1
  <2> QED BY <2>1, <2>2
<1> HIDE DEF h, m, s, t
<1>3. h * Minute \in Nat /\ m * Minute \in Nat
  BY <1>1, Units
<1>4. m * Minute <= 59 * Minute
  <2>1. (59 - m) * Minute >= 0 /\ (59 - m) * Minute = 59 * Minute - m * Minute
    BY <1>1, Units
  <2> QED BY <2>1, <1>3, Units
<1>5. u \in 0 .. Hour - 1
  BY <1>1, <1>3, <1>4, Units DEF Hour
<1>6. t = h * Hour + u
  <2>1. (h * 60 + m) * Minute = h * (60 * Minute) + m * Minute
    BY <1>1, Units
  <2>2. h * (60 * Minute) \in Int
    BY <1>1, Units
  <2> QED BY <1>1, <1>2, <1>3, <2>1, <2>2 DEF Hour
<1>7. t \div Hour = h /\ t % Hour = u /\ t \in Nat
  <2> HIDE DEF u
  <2>1. h * Hour \in Nat
    BY <1>1, Units
  <2>2. t \in Nat
    BY <2>1, <1>5, <1>6, Units
  <2> QED BY <1>1, <1>5, <1>6, <2>2, Units, Divided
<1>8. t \div Minute = h * 60 + m /\ t % Minute = s
  <2> DEFINE q == h * 60 + m
  <2>1. q \in Int /\ t = q * Minute + s
    BY <1>1, <1>2
  <2> HIDE DEF q, u
  <2>2. t \div Minute = q /\ t % Minute = s
    BY <1>1, <1>7, <2>1, Units, Divided
  <2> QED BY <2>2 DEF q
<1>9. u \div Minute = m
  <2>1. u \in Int
    BY <1>5, Units
  <2> QED BY <1>1, <2>1, Units, Divided
<1>10. u \in Nat
  BY <1>5, Units
<1> QED BY <1>7, <1>8, <1>9, <1>10 DEF h, m, s, t

LEMMA CarriedSplit ==
  ASSUME NEW d, Carried(d)
  PROVE  /\ DaysAndTime(0, 0, 0, Length(d)) = d
         /\ DaysAndTime(0, 0, 0, -Length(d)) = Minus(d)
<1> DEFINE t == Length(d)
           u == d.min * Minute + d.s
<1>1. /\ t \in Nat /\ t \div Hour = d.h /\ t % Hour = u /\ t % Minute = d.s
      /\ u \in Nat /\ u \div Minute = d.min
  BY CarriedParts
<1> HIDE DEF t, u
<1>2. Quo(t, Hour) = d.h /\ Rem(t, Hour) = u /\ Quo(-t, Hour) = -d.h /\ Rem(-t, Hour) = -u
  BY <1>1, Units, Quotients
<1>3. Rem(t, Minute) = d.s /\ Rem(-t, Minute) = -d.s
  BY <1>1, Units, Quotients
<1>4. Quo(u, Minute) = d.min /\ Quo(-u, Minute) = -d.min
  BY <1>1, Units, Quotients
<1>5. d = Dur(0, 0, 0, d.h, d.min, d.s)
  BY DEF Carried, Plain
<1> QED BY <1>2, <1>3, <1>4, <1>5 DEF DaysAndTime, Minus, t

\* Less than a minute makes no minute, with either sign.
LEMMA NsCarryLess ==
  ASSUME NEW s \in 0 .. Minute - 1
  PROVE  NsCarry(-s) = <<0, -s>>
<1> DEFINE q == s \div Ns
<1>1. s \in Nat /\ q \in Nat /\ s % Ns \in 0 .. Ns - 1 /\ s = q * Ns + (s % Ns)
  BY Units
<1>2. q < 60
  <2> DEFINE k == q - 59
  <2>1. k \in Int /\ (k > 0 => k * Ns >= Ns) /\ k * Ns \in Int /\ q * Ns = k * Ns + 59 * Ns
    <3>1. k \in Int
      BY <1>1
    <3>2. (q - 59) * Ns = q * Ns - 59 * Ns /\ q * Ns \in Int
      BY <1>1, Units
    <3> HIDE DEF q
    <3>3. k * Ns = q * Ns - 59 * Ns
      BY <3>2
    <3> HIDE DEF k
    <3>4. (k > 0 => k * Ns >= Ns) /\ k * Ns \in Int
      BY <3>1, Units, Multiples
    <3> QED BY <3>1, <3>2, <3>3, <3>4, Units
  <2>2. s < 60 * Ns
    BY Units DEF Minute
  <2> HIDE DEF q
  <2>3. ~(k > 0)
    <3> HIDE DEF k
    <3> QED BY <1>1, <2>1, <2>2, Units
  <2> QED BY <1>1, <2>3
<1>3. Quo(-s, Ns) = -q
  BY <1>1, Units, Quotients
<1>4. Quo(-q, 60) = 0
  <2>1. 60 \in Nat \ {0} /\ q \div 60 = 0
    <3> HIDE DEF q
    <3> QED BY <1>1, <1>2
  <2>2. Quo(-q, 60) = -(q \div 60)
    <3> HIDE DEF q
    <3> QED BY <1>1, <2>1, Quotients
  <2> HIDE DEF q
  <2> QED BY <2>1, <2>2
<1>5. (-s) - 0 * Minute = -s
  BY <1>1, Units
<1> HIDE DEF q
<1> QED BY <1>3, <1>4, <1>5 DEF NsCarry

LEMMA MinCarryLess ==
  ASSUME NEW m \in 0 .. 59
  PROVE  MinCarry(-m) = <<0, -m>>
<1>1. m \in Nat /\ 60 \in Nat \ {0} /\ m \div 60 = 0
  OBVIOUS
<1>2. Quo(-m, 60) = -(m \div 60)
  BY <1>1, Quotients
<1>3. Quo(-m, 60) = 0 /\ (-m) - 0 * 60 = -m
  BY <1>1, <1>2
<1> QED BY <1>3 DEF MinCarry

LEMMA ZeroDuration ==
  /\ Zero \in Duration /\ Seconds(Zero) * Ns + SubSecond(Zero) = 0
  /\ Zero.y = 0 /\ Zero.mo = 0 /\ Zero.d = 0 /\ Zero.h = 0 /\ Zero.min = 0
<1>1. Zero \in Duration /\ Zero = Dur(0, 0, 0, 0, 0, 0)
  BY DEF Zero, Dur, Duration
<1>2. Seconds(Zero) * Ns + SubSecond(Zero) = Zero.s
  BY <1>1, SecondsExact
<1> QED BY <1>1, <1>2 DEF Dur

LEMMA CarriedFields ==
  ASSUME NEW d, Carried(d)
  PROVE  /\ d = Dur(0, 0, 0, d.h, d.min, d.s)
         /\ d \in Duration /\ d.y = 0 /\ d.mo = 0 /\ d.d = 0
         /\ d.h \in Nat /\ d.min \in 0 .. 59 /\ d.s \in 0 .. Minute - 1 /\ d.s \in Nat
         /\ Seconds(d) * Ns + SubSecond(d) = d.s
         /\ Minus(d) \in Duration
         /\ Seconds(Minus(d)) * Ns + SubSecond(Minus(d)) = -d.s
         /\ Minus(d).y = 0 /\ Minus(d).mo = 0 /\ Minus(d).d = 0
         /\ Minus(d).h = -d.h /\ Minus(d).min = -d.min
<1>1. d = Dur(0, 0, 0, d.h, d.min, d.s) /\ d.h \in Nat /\ d.min \in 0 .. 59 /\ d.s \in 0 .. Minute - 1
  BY DEF Carried, Plain
<1>2. d \in Duration /\ d.y = 0 /\ d.mo = 0 /\ d.d = 0
  BY PlainDuration DEF Carried
<1>3. d.s \in Nat
  BY <1>1, Units
<1>4. Minus(d) \in Duration /\ Minus(d).s = -d.s
  BY <1>1, <1>3 DEF Minus, Dur, Duration
<1>5. Seconds(d) * Ns + SubSecond(d) = d.s /\ Seconds(Minus(d)) * Ns + SubSecond(Minus(d)) = Minus(d).s
  BY <1>2, <1>4, SecondsExact
<1> QED BY <1>1, <1>2, <1>3, <1>4, <1>5 DEF Minus, Dur

\* Nothing minus a duration is the duration with the other sign.
LEMMA FromNothing ==
  ASSUME NEW d, Carried(d)
  PROVE  DurationArith(Zero, d, TRUE) = Minus(d)
<1> DEFINE t == (Seconds(Zero) * Ns + SubSecond(Zero)) + (-1) * (Seconds(d) * Ns + SubSecond(d))
           c == NsCarry(t)
           u == Zero.min + (-1) * d.min + c[1]
           k == MinCarry(u)
<1>1. /\ d.h \in Nat /\ d.min \in 0 .. 59 /\ d.s \in 0 .. Minute - 1 /\ d.s \in Nat
      /\ d.y = 0 /\ d.mo = 0 /\ d.d = 0
      /\ Seconds(d) * Ns + SubSecond(d) = d.s
  BY CarriedFields
<1>2. t = 0 + (-1) * d.s
  BY <1>1, ZeroDuration
<1>3. t = -d.s
  <2> HIDE DEF t
  <2> QED BY <1>1, <1>2
<1>4. c = <<0, -d.s>>
  <2> HIDE DEF t
  <2> QED BY <1>1, <1>3, NsCarryLess
<1>5. u = -d.min
  <2> HIDE DEF c
  <2>1. u = 0 + (-1) * d.min + 0
    BY <1>4, ZeroDuration
  <2> HIDE DEF u
  <2> QED BY <1>1, <2>1
<1>6. k = <<0, -d.min>>
  <2> HIDE DEF u
  <2> QED BY <1>1, <1>5, MinCarryLess
<1>7. DurationArith(Zero, d, TRUE)
        = Dur(Zero.y + (-1) * d.y, Zero.mo + (-1) * d.mo, Zero.d + (-1) * d.d, Zero.h + (-1) * d.h + k[1], k[2], c[2])
  BY DEF DurationArith
<1> HIDE DEF t, c, u, k
<1>8. DurationArith(Zero, d, TRUE) = Dur(0 + (-1) * 0, 0 + (-1) * 0, 0 + (-1) * 0, 0 + (-1) * d.h + 0, -d.min, -d.s)
  BY <1>1, <1>4, <1>6, <1>7, ZeroDuration
<1>9. 0 + (-1) * 0 = 0 /\ 0 + (-1) * d.h + 0 = -d.h
  BY <1>1
<1> QED BY <1>8, <1>9 DEF Minus

\* A duration plus itself with the other sign is nothing.
LEMMA ToNothing ==
  ASSUME NEW d, Carried(d)
  PROVE  DurationArith(d, Minus(d), FALSE) = Zero
<1> DEFINE e == Minus(d)
           t == (Seconds(d) * Ns + SubSecond(d)) + 1 * (Seconds(e) * Ns + SubSecond(e))
           c == NsCarry(t)
           u == d.min + 1 * e.min + c[1]
           k == MinCarry(u)
<1>1. /\ d.h \in Nat /\ d.min \in 0 .. 59 /\ d.s \in Nat
      /\ d.y = 0 /\ d.mo = 0 /\ d.d = 0
      /\ Seconds(d) * Ns + SubSecond(d) = d.s
      /\ Seconds(e) * Ns + SubSecond(e) = -d.s
      /\ e.y = 0 /\ e.mo = 0 /\ e.d = 0 /\ e.h = -d.h /\ e.min = -d.min
  BY CarriedFields
<1> HIDE DEF e
<1>2. t = d.s + 1 * (-d.s)
  BY <1>1
<1>3. t = -0
  <2> HIDE DEF t
  <2> QED BY <1>1, <1>2
<1>4. c = <<0, 0>>
  <2> HIDE DEF t
  <2>1. 0 \in 0 .. Minute - 1
    BY Units
  <2>2. NsCarry(-0) = <<0, -0>>
    BY <2>1, NsCarryLess
  <2> QED BY <1>3, <2>2
<1>5. u = -0
  <2> HIDE DEF c
  <2>1. u = d.min + 1 * (-d.min) + 0
    BY <1>1, <1>4
  <2> HIDE DEF u
  <2> QED BY <1>1, <2>1
<1>6. k = <<0, 0>>
  <2> HIDE DEF u
  <2>1. MinCarry(-0) = <<0, -0>>
    BY MinCarryLess
  <2> QED BY <1>5, <2>1
<1>7. DurationArith(d, e, FALSE) = Dur(d.y + 1 * e.y, d.mo + 1 * e.mo, d.d + 1 * e.d, d.h + 1 * e.h + k[1], k[2], c[2])
  BY DEF DurationArith
<1> HIDE DEF t, c, u, k
<1>8. DurationArith(d, e, FALSE) = Dur(0 + 1 * 0, 0 + 1 * 0, 0 + 1 * 0, d.h + 1 * (-d.h) + 0, 0, 0)
  BY <1>1, <1>4, <1>6, <1>7
<1>9. 0 + 1 * 0 = 0 /\ d.h + 1 * (-d.h) + 0 = 0
  BY <1>1
<1> QED BY <1>8, <1>9 DEF e, Zero

\* The components in whole seconds and in the smallest unit, of any sign.
LEMMA SmallComponents ==
  ASSUME NEW d \in Duration
  PROVE  /\ Component(d, "nanoseconds") = Length(d)
         /\ Component(d, "seconds") = Length(d) \div Ns
<1> DEFINE m == (d.d * 24 + d.h) * 60 + d.min
           q == d.s \div Ns
           r == d.s % Ns
           x == m * 60 + q
<1>1. m \in Int /\ d.s \in Int
  BY DEF Duration
<1>2. q \in Int /\ r \in 0 .. Ns - 1 /\ d.s = q * Ns + r
  BY <1>1, Units
<1>3. Length(d) = m * Minute + d.s
  BY DEF Length
<1>4. Component(d, "nanoseconds") = x * Ns + r /\ Component(d, "seconds") = x
  BY DEF Component, Seconds, SubSecond
<1> HIDE DEF m, q, r
<1>5. x \in Int /\ x * Ns = 60 * (m * Ns) + q * Ns /\ m * Minute = 60 * (m * Ns) /\ m * Ns \in Int /\ q * Ns \in Int
  BY <1>1, <1>2, Units DEF Minute
<1> HIDE DEF x
<1>6. Length(d) = x * Ns + r
  BY <1>2, <1>3, <1>5, Units
<1>7. Length(d) \in Int
  BY <1>1, <1>3, Units
<1>8. Length(d) \div Ns = x
  <2> DEFINE l == Length(d)
  <2>1. Ns \in Nat \ {0} /\ l \in Int /\ x \in Int /\ r \in 0 .. Ns - 1 /\ l = x * Ns + r
    BY <1>2, <1>5, <1>6, <1>7, Units
  <2> HIDE DEF l
  <2>2. l \div Ns = x
    BY <2>1, Divided
  <2> QED BY <2>2 DEF l
<1> QED BY <1>4, <1>6, <1>8

-----------------------------------------------------------------------------
(* The stopwatch. *)

\* The sum is carried as far as it goes and as long as the time counted.
SumInv ==
  /\ Carried(total) /\ elapsed \in Nat /\ Length(total) = elapsed
  /\ time \in Times

LEMMA TimesBelowDay ==
  \A t \in Times : t \in Nat /\ t \in 0 .. Day - 1 /\ Day - t \in Nat
<1>1. Times \subseteq 0 .. Day - 1
  BY TimesAssumption
<1> QED BY <1>1, Units

LEMMA SumPass ==
  ASSUME SumInv, NEW dt, NEW t, NEW n \in Nat, NEW over, time' \in Times, Pass(dt, t, n, over)
  PROVE  SumInv'
<1>1. CASE mark = NoMark
  BY <1>1 DEF Pass, stopwatch, SumInv, Carried, Plain, Length, Minute
<1>2. CASE mark # NoMark
  <2>1. elapsed' = elapsed + n /\ total' = DurationArith(total, Step(n), FALSE)
    BY <1>2 DEF Pass, Step
  <2>2. Plain(Step(n)) /\ Step(n) \in Duration /\ Length(Step(n)) = n
    BY StepLength, StepPlain
  <2>3. Carried(total) /\ Plain(total) /\ total \in Duration /\ Length(total) = elapsed /\ elapsed \in Nat
    BY PlainDuration DEF SumInv, Carried
  <2>4. Length(total') = Length(total) + Length(Step(n))
    BY <2>1, <2>2, <2>3, ArithLength
  <2>5. Carried(total')
    BY <2>1, <2>2, <2>3, ArithCarried
  <2>6. elapsed' \in Nat /\ Length(total') = elapsed'
    <3>1. Length(total') = elapsed + n
      BY <2>2, <2>3, <2>4
    <3>2. elapsed' = elapsed + n /\ elapsed + n \in Nat
      BY <2>1, <2>3
    <3>3. Length(total') = elapsed'
      BY <3>1, <3>2
    <3>4. elapsed' \in Nat
      BY <3>2
    <3> QED BY <3>3, <3>4
  <2>7. (Length(total) = elapsed)' /\ Carried(total)'
    BY <2>5, <2>6 DEF Length, Carried, Plain, Minute
  <2> QED BY <2>6, <2>7 DEF SumInv
<1> QED BY <1>1, <1>2

\* The time of day moves on to a later time, or over midnight.
LEMMA SumStep ==
  ASSUME SumInv, [Next]_vars
  PROVE  SumInv'
<1>1. CASE Tick
  <2>1. PICK t \in Later : time' = t /\ Pass(date, t, t - time, FALSE)
    BY <1>1 DEF Tick
  <2>2. t \in Times /\ t > time /\ t \in Nat /\ time \in Nat
    BY <2>1, TimesBelowDay DEF Later, SumInv
  <2>3. t - time \in Nat
    BY <2>2
  <2> QED BY <2>1, <2>2, <2>3, SumPass
<1>2. CASE Midnight
  <2>1. time' = 0 /\ Pass(date', 0, Day - time, Skipped)
    BY <1>2 DEF Midnight
  <2>2. Day - time \in Nat /\ 0 \in Times
    BY TimesBelowDay, TimesAssumption DEF SumInv
  <2> QED BY <2>1, <2>2, SumPass
<1>3. CASE Mark \/ UNCHANGED vars
  BY <1>3 DEF Mark, vars, stopwatch, SumInv, Carried, Plain, Length, Minute
<1> QED BY <1>1, <1>2, <1>3 DEF Next

LEMMA SumAlways == Spec => []SumInv
<1>1. Init => SumInv
  <2> SUFFICES ASSUME Init PROVE SumInv
    OBVIOUS
  <2>1. total = Dur(0, 0, 0, 0, 0, 0) /\ elapsed = 0 /\ time = 0
    BY DEF Init, Zero
  <2>2. Length(total) = 0
    BY <2>1, Units DEF Length, Dur
  <2>3. 0 \in 0 .. Minute - 1 /\ 0 \in Times
    BY Units, TimesAssumption
  <2>4. Carried(total)
    BY <2>1, <2>3 DEF Carried, Plain, Dur
  <2> QED BY <2>1, <2>2, <2>3, <2>4 DEF SumInv
<1>2. SumInv /\ [Next]_vars => SumInv'
  BY SumStep
<1> QED BY <1>1, <1>2, PTL DEF Spec

\* Any number of steps, with any smallest unit and any moments of the day: the
\* durations the code adds up are together as long as the time that passed.
THEOREM SumsAddUp == Spec => []SumLength
<1>1. SumInv => SumLength
  BY DEF SumInv, SumLength
<1> QED BY <1>1, SumAlways, PTL

\* The sum stays carried as far as it goes, also taken away from nothing, and
\* its components count the whole units of the time that passed.
THEOREM SumsCarried == Spec => []SumExact
<1>1. SumInv => SumExact
  <2> SUFFICES ASSUME SumInv PROVE SumExact
    OBVIOUS
  <2>1. Carried(total) /\ elapsed \in Nat /\ Length(total) = elapsed
    BY DEF SumInv
  <2> DEFINE minus == DurationArith(Zero, total, TRUE)
  <2>2. minus = Minus(total)
    BY <2>1, FromNothing
  <2>3. total = DaysAndTime(0, 0, 0, elapsed) /\ minus = DaysAndTime(0, 0, 0, -elapsed)
    BY <2>1, <2>2, CarriedSplit
  <2>4. DurationArith(total, minus, FALSE) = Zero
    BY <2>1, <2>2, ToNothing
  <2>5. Component(total, "hours") = elapsed \div Hour
    <3>1. Component(total, "hours") = 0 * 24 + total.h /\ total.h \in Nat
      BY <2>1, CarriedFields DEF Component
    <3>2. elapsed \div Hour = total.h
      BY <2>1, CarriedParts
    <3> QED BY <3>1, <3>2
  <2>6. Component(total, "minutes") = elapsed \div Minute
    <3>1. Component(total, "minutes") = (0 * 24 + total.h) * 60 + total.min /\ total.h \in Nat
      BY <2>1, CarriedFields DEF Component
    <3>2. elapsed \div Minute = total.h * 60 + total.min
      BY <2>1, CarriedParts
    <3>3. 0 * 24 + total.h = total.h
      BY <3>1
    <3> QED BY <3>1, <3>2, <3>3
  <2>7. ASSUME NEW d \in {total, minus}
        PROVE  Component(d, "nanoseconds") = Length(d) /\ Component(d, "seconds") = Length(d) \div Ns
    <3>1. d \in Duration
      BY <2>1, <2>2, CarriedFields
    <3> QED BY <3>1, SmallComponents
  <2> HIDE DEF minus
  <2> QED BY <2>3, <2>4, <2>5, <2>6, <2>7 DEF SumExact, minus
<1> QED BY <1>1, SumAlways, PTL

-----------------------------------------------------------------------------
(* The types. *)

TypeInv ==
  /\ weekday \in 1 .. 7
  /\ mark = NoMark \/ mark \in [day : MarkDays, date : Date, time : Times]
  /\ months \in Nat /\ rest \in Nat

LEMMA DayPositive == Spec => [](day \in Nat \ {0})
<1>1. Init => day \in Nat \ {0}
  <2> SUFFICES ASSUME Init PROVE day \in Nat \ {0}
    OBVIOUS
  <2>1. PICK s \in Starts : day = StartDay(s)
    BY DEF Init
  <2>2. s[1] \in Nat /\ s[2] \in Nat /\ s[3] \in Nat
    BY StartsAssumption
  <2> QED BY <2>1, <2>2 DEF StartDay
<1>2. day \in Nat \ {0} /\ [Next]_vars => (day \in Nat \ {0})'
  <2> SUFFICES ASSUME day \in Nat \ {0}, [Next]_vars PROVE day' \in Nat \ {0}
    OBVIOUS
  <2>1. CASE Midnight
    BY <2>1 DEF Midnight
  <2>2. CASE Tick \/ Mark \/ UNCHANGED vars
    BY <2>2 DEF Tick, Mark, vars, calendar
  <2> QED BY <2>1, <2>2 DEF Next
<1> QED BY <1>1, <1>2, PTL DEF Spec

LEMMA ValidIsDate ==
  ASSUME NEW dt, ValidDate(dt)
  PROVE  dt \in Date /\ dt.day <= DaysInMonth(dt.year, dt.month)
<1> DEFINE y == dt.year
           m == dt.month
           d == dt.day
<1>1. dt = D(y, m, d) /\ y \in Nat \ {0} /\ m \in 1 .. 12 /\ d \in 1 .. DaysInMonth(y, m)
  BY DEF ValidDate
<1>2. DaysInMonth(y, m) \in 28 .. 31
  <2> HIDE DEF y, m
  <2> QED BY <1>1, DaysTypes
<1>3. d \in 1 .. 31 /\ d <= DaysInMonth(y, m)
  <2> HIDE DEF y, m, d
  <2> QED BY <1>1, <1>2
<1> HIDE DEF y, m, d
<1>4. dt \in Date
  BY <1>1, <1>3 DEF D, Date
<1> QED BY <1>3, <1>4 DEF y, m, d

LEMMA TypePass ==
  ASSUME TypeInv, NEW dt, NEW t, NEW n \in Nat, NEW over, Pass(dt, t, n, over)
  PROVE  months' \in Nat /\ rest' \in Nat
<1>1. CASE mark = NoMark
  BY <1>1 DEF Pass, stopwatch, TypeInv
<1>2. CASE mark # NoMark
  BY <1>2 DEF Pass, TypeInv
<1> QED BY <1>1, <1>2

LEMMA TypeStep ==
  ASSUME TypeInv, CalInv, SumInv, [Next]_vars
  PROVE  TypeInv'
<1>1. CASE Tick
  <2>1. PICK t \in Later : Pass(date, t, t - time, FALSE)
    BY <1>1 DEF Tick
  <2>2. t - time \in Nat
    BY <2>1, TimesBelowDay DEF Later, SumInv
  <2>3. months' \in Nat /\ rest' \in Nat
    BY <2>1, <2>2, TypePass
  <2> QED BY <1>1, <2>3 DEF Tick, calendar, TypeInv, NoMark
<1>2. CASE Midnight
  <2>1. Pass(date', 0, Day - time, Skipped) /\ weekday' = IF weekday = 7 THEN 1 ELSE weekday + 1
    BY <1>2 DEF Midnight
  <2>2. Day - time \in Nat
    BY TimesBelowDay DEF SumInv
  <2>3. months' \in Nat /\ rest' \in Nat
    BY <2>1, <2>2, TypePass
  <2>4. weekday' \in 1 .. 7
    BY <2>1 DEF TypeInv
  <2>5. UNCHANGED mark
    BY <1>2 DEF Midnight
  <2> QED BY <2>3, <2>4, <2>5 DEF TypeInv, NoMark
<1>3. CASE Mark
  <2>1. mark' = [day |-> day, date |-> date, time |-> time] /\ day \in MarkDays
    BY <1>3 DEF Mark
  <2>2. date \in Date /\ time \in Times
    BY ValidIsDate DEF CalInv, SumInv
  <2>3. mark' \in [day : MarkDays, date : Date, time : Times]
    BY <2>1, <2>2
  <2> QED BY <1>3, <2>3 DEF Mark, calendar, stopwatch, TypeInv
<1>4. CASE UNCHANGED vars
  BY <1>4 DEF vars, calendar, stopwatch, TypeInv, NoMark
<1> QED BY <1>1, <1>2, <1>3, <1>4 DEF Next

LEMMA TypeAlways == Spec => []TypeInv
<1>1. Init => TypeInv
  <2> SUFFICES ASSUME Init PROVE TypeInv
    OBVIOUS
  <2>1. PICK s \in Starts : weekday = ((StartDay(s) - 1) % 7) + 1
    BY DEF Init
  <2>2. StartDay(s) \in Int
    BY StartsAssumption DEF StartDay
  <2>3. weekday \in 1 .. 7
    BY <2>1, <2>2
  <2> QED BY <2>3 DEF Init, TypeInv
<1>2. TypeInv /\ CalInv /\ SumInv /\ [Next]_vars => TypeInv'
  BY TypeStep
<1> QED BY <1>1, <1>2, CalAlways, SumAlways, PTL DEF Spec

\* The clock shows dates there are, and what it counts is never negative.
THEOREM ClockTyped == Spec => []CalTypeOK
<1>1. TypeInv /\ CalInv /\ SumInv /\ day \in Nat \ {0} => CalTypeOK
  <2> SUFFICES ASSUME TypeInv, CalInv, SumInv, day \in Nat \ {0} PROVE CalTypeOK
    OBVIOUS
  <2>1. date \in Date /\ date.day <= DaysInMonth(date.year, date.month)
    BY ValidIsDate DEF CalInv
  <2>2. total.h \in Nat /\ total.min \in 0 .. 59 /\ total.s \in 0 .. Minute - 1
    BY DEF SumInv, Carried, Plain
  <2> QED BY <2>1, <2>2 DEF TypeInv, SumInv, CalTypeOK
<1> QED BY <1>1, CalAlways, SumAlways, TypeAlways, DayPositive, PTL

-----------------------------------------------------------------------------
(* Seconds since 1970. *)

LEMMA FromUnixDays ==
  ASSUME NEW n \in Int, NEW s \in Nat, s < 86400, NEW f
  PROVE  FromUnix(n * 86400 + s, f) = At(FromEpoch(n + UnixEpoch), s * Ns + f)
<1> DEFINE secs == n * 86400 + s
           q == Quo(secs, 86400)
           r == Rem(secs, 86400)
           days == q - (IF r < 0 THEN 1 ELSE 0)
           sec == r + (IF r < 0 THEN 86400 ELSE 0)
<1>1. FromUnix(secs, f) = At(FromEpoch(days + UnixEpoch), sec * Ns + f)
  BY DEF FromUnix
<1>2. secs \in Int /\ r = secs - q * 86400
  BY DEF Rem
<1>3. days = n /\ sec = s
  <2>1. CASE n >= 0
    <3>1. secs >= 0 /\ secs \div 86400 = n
      BY <2>1
    <3>2. q = n
      BY <3>1 DEF Quo
    <3> HIDE DEF q
    <3>3. r = s
      BY <1>2, <3>2
    <3> HIDE DEF r
    <3> QED BY <3>2, <3>3
  <2>2. CASE n < 0 /\ s = 0
    <3>1. ~(secs >= 0) /\ (-secs) \div 86400 = -n
      BY <2>2
    <3>2. q = n
      BY <3>1 DEF Quo
    <3> HIDE DEF q
    <3>3. r = s
      BY <1>2, <2>2, <3>2
    <3> HIDE DEF r
    <3> QED BY <3>2, <3>3
  <2>3. CASE n < 0 /\ s > 0
    <3>1. ~(secs >= 0) /\ (-secs) \div 86400 = -n - 1
      BY <2>3
    <3>2. q = n + 1
      BY <3>1 DEF Quo
    <3> HIDE DEF q
    <3>3. r = s - 86400
      BY <1>2, <2>3, <3>2
    <3> HIDE DEF r
    <3> QED BY <2>3, <3>2, <3>3
  <2> QED BY <2>1, <2>2, <2>3
<1> HIDE DEF days, sec
<1> QED BY <1>1, <1>3

\* Milliseconds name the second and the rest.
LEMMA FromUnixMillisSplit ==
  ASSUME NEW secs \in Int, NEW f \in 0 .. Ns - 1
  PROVE  FromUnixMillis(secs * Ns + f) = FromUnix(secs, f)
<1> DEFINE ms == secs * Ns + f
<1>1. secs * Ns \in Int /\ ms \in Int /\ f \in Nat /\ f < Ns
  BY Units
<1>2. Ns \in Nat \ {0}
  BY Units
<1>3. CASE secs >= 0
  <2>1. ms \in Nat
    <3>1. secs * Ns >= 0
      BY <1>2, <1>3, Multiples
    <3> QED BY <1>1, <3>1
  <2>2. ms \div Ns = secs /\ ms % Ns = f
    BY <1>1, <1>2, Divided
  <2> HIDE DEF ms
  <2>3. Quo(ms, Ns) = secs /\ Rem(ms, Ns) = f
    BY <1>2, <2>1, <2>2, Quotients
  <2>4. ~(f < 0)
    BY <1>1
  <2>5. FromUnixMillis(ms) = FromUnix(secs, f)
    BY <2>3, <2>4 DEF FromUnixMillis
  <2> QED BY <2>5 DEF ms
<1>4. CASE secs < 0 /\ f = 0
  <2> DEFINE k == -secs
             m == k * Ns
  <2>1. k \in Nat /\ m \in Nat /\ ms = -m
    <3>1. k \in Nat /\ k >= 0
      BY <1>4
    <3>2. (-secs) * Ns = -(secs * Ns)
      BY <1>2
    <3>3. m \in Int /\ m >= 0
      <4> HIDE DEF k
      <4> QED BY <1>2, <3>1, Multiples
    <3>4. ms = -m
      BY <1>1, <1>4, <3>2
    <3> HIDE DEF m
    <3> QED BY <3>1, <3>3, <3>4
  <2>2. m \div Ns = k /\ m % Ns = 0
    <3>1. 0 \in 0 .. Ns - 1 /\ m = k * Ns + 0
      BY <1>2, <2>1
    <3> HIDE DEF k, m
    <3> QED BY <1>2, <2>1, <3>1, Divided
  <2>3. Quo(ms, Ns) = secs /\ Rem(ms, Ns) = 0
    <3>1. -k = secs
      OBVIOUS
    <3> HIDE DEF k, m, ms
    <3>2. Quo(-m, Ns) = -(m \div Ns) /\ Rem(-m, Ns) = -(m % Ns)
      BY <1>2, <2>1, Quotients
    <3> QED BY <2>1, <2>2, <3>1, <3>2
  <2> HIDE DEF ms
  <2>4. FromUnixMillis(ms) = FromUnix(secs, 0)
    BY <2>3 DEF FromUnixMillis
  <2> QED BY <2>4, <1>4 DEF ms
<1>5. CASE secs < 0 /\ f > 0
  <2> DEFINE k == -secs - 1
             g == Ns - f
             m == k * Ns + g
  <2>1. k \in Nat /\ g \in 0 .. Ns - 1 /\ g \in Nat
    BY <1>1, <1>2, <1>5
  <2>2. m \in Nat /\ ms = -m
    <3>1. (-secs - 1) * Ns = -(secs * Ns) - Ns
      BY <1>2
    <3>2. k * Ns \in Int /\ k * Ns >= 0
      <4> HIDE DEF k
      <4> QED BY <1>2, <2>1, Multiples
    <3> QED BY <1>1, <1>2, <2>1, <3>1, <3>2
  <2>3. m \div Ns = k /\ m % Ns = g
    <3> HIDE DEF k, g
    <3> QED BY <1>2, <2>1, <2>2, Divided
  <2>4. Quo(ms, Ns) = -k /\ Rem(ms, Ns) = -g
    <3> HIDE DEF k, g, m, ms
    <3> QED BY <1>2, <2>2, <2>3, Quotients
  <2>5. -k - 1 = secs /\ -g + Ns = f /\ -g < 0
    BY <1>1, <1>2, <1>5
  <2> HIDE DEF ms, k, g
  <2>6. FromUnixMillis(ms) = FromUnix(secs, f)
    BY <2>4, <2>5 DEF FromUnixMillis
  <2> QED BY <2>6 DEF ms
<1> QED BY <1>1, <1>3, <1>4, <1>5

\* A time of day is whole seconds of the day and less than a second.
LEMMA TimeSeconds ==
  ASSUME NEW t \in Times
  PROVE  /\ t \div Ns \in Nat /\ t \div Ns < 86400
         /\ t % Ns \in 0 .. Ns - 1 /\ t = (t \div Ns) * Ns + (t % Ns)
<1> DEFINE q == t \div Ns
           r == t % Ns
           k == q - 86400
<1>1. t \in Nat /\ t < Day /\ Day = 86400 * Ns /\ Ns \in Nat \ {0}
  BY TimesBelowDay, Units DEF Day, Hour, Minute
<1>2. q \in Nat /\ r \in 0 .. Ns - 1 /\ t = q * Ns + r
  BY <1>1
<1> HIDE DEF q, r
<1>3. k \in Int /\ k * Ns = q * Ns - 86400 * Ns /\ q * Ns \in Int
  BY <1>1, <1>2
<1>4. k >= 0 => k * Ns >= 0
  <2> HIDE DEF k
  <2> QED BY <1>1, <1>3, Multiples
<1>5. ~(k >= 0)
  <2> HIDE DEF k
  <2> QED BY <1>1, <1>2, <1>3, <1>4
<1>6. q < 86400
  BY <1>2, <1>5
<1> QED BY <1>2, <1>6 DEF q, r

\* Seconds before and after 1970 name the moment they count to.
THEOREM UnixMoments == Spec => []FromUnixExact
<1>1. SumInv /\ DayNumber /\ day \in Nat \ {0} => FromUnixExact
  <2> SUFFICES ASSUME SumInv, DayNumber, day \in Nat \ {0} PROVE FromUnixExact
    OBVIOUS
  <2> DEFINE d == day - UnixEpoch
             s == time \div Ns
             f == time % Ns
             secs == d * 86400 + s
  <2>1. s \in Nat /\ s < 86400 /\ f \in 0 .. Ns - 1 /\ time = s * Ns + f
    BY TimeSeconds DEF SumInv
  <2>2. d \in Int /\ d + UnixEpoch = day
    BY DEF UnixEpoch
  <2>3. FromEpoch(day) = date
    BY DEF DayNumber
  <2> HIDE DEF d, s, f
  <2>4. FromUnix(secs, f) = Now
    BY <2>1, <2>2, <2>3, FromUnixDays DEF Now
  <2>5. secs \in Int
    BY <2>1, <2>2
  <2>6. FromUnixMillis(d * 86400 * Ns + time) = Now
    <3>1. d * 86400 * Ns + time = secs * Ns + f
      <4>1. secs * Ns = d * 86400 * Ns + s * Ns
        BY <2>1, <2>2, Units
      <4>2. d * 86400 * Ns \in Int /\ s * Ns \in Int
        BY <2>1, <2>2, Units
      <4> HIDE DEF secs
      <4> QED BY <2>1, <4>1, <4>2, Units
    <3> HIDE DEF secs
    <3> QED BY <2>1, <2>4, <2>5, <3>1, FromUnixMillisSplit
  <2> QED BY <2>4, <2>6 DEF FromUnixExact, d, s, f
<1> QED BY <1>1, SumAlways, DaysCounted, DayPositive, PTL

-----------------------------------------------------------------------------
(* Zones. *)

\* A wall clock shows the moment's seconds of the day, moved by the offset and
\* by whole days.
WallClock(c, n, t, off, k, s) ==
  /\ k \in {-1, 0, 1} /\ s \in Nat /\ s < 86400
  /\ s = (t \div Ns) + (off \div Ns) - k * 86400
  /\ c = At(FromEpoch(n + k), s * Ns + (t % Ns))

LEMMA LocalWall ==
  ASSUME NEW n \in Int, NEW t \in Times, NEW off \in Offsets
  PROVE  /\ off \in Int /\ off \div Ns \in Int /\ off = (off \div Ns) * Ns
         /\ \E k \in Int, s \in Int : WallClock(Local(n, t, off), n, t, off, k, s)
<1> DEFINE T == t \div Ns
           f == t % Ns
           O == off \div Ns
           w == T + O
<1>1. T \in Nat /\ T < 86400 /\ f \in 0 .. Ns - 1 /\ t = T * Ns + f
  BY TimeSeconds
<1>2. off \in Int /\ O \in Int /\ off = O * Ns /\ -Day < off /\ off < Day
  <2>1. off \in 1 - Day .. Day - 1 /\ off % Ns = 0
    BY OffsetsAssumption
  <2>2. off \in Int /\ -Day < off /\ off < Day
    BY <2>1, Units
  <2>3. O \in Int /\ off = O * Ns + (off % Ns)
    BY <2>2, Units, Division
  <2>4. O * Ns \in Int
    BY <2>3, Units
  <2> HIDE DEF O
  <2> QED BY <2>1, <2>2, <2>3, <2>4
<1>3. Day = 86400 * Ns /\ Ns \in Nat \ {0}
  BY Units DEF Day, Hour, Minute
<1> HIDE DEF T, f, O
<1>4. t \in Int /\ w \in Int /\ w * Ns \in Int /\ t + off = w * Ns + f /\ f \in Nat /\ f < Ns
  BY <1>1, <1>2, <1>3
\* The sign of a number of seconds, and its order, are those of its time.
<1>5. ASSUME NEW j \in Int PROVE (j < 0 <=> j * Ns + f < 0)
  <2>1. j * Ns \in Int /\ (j >= 0 => j * Ns >= 0) /\ (j < 0 => j * Ns <= -Ns)
    BY <1>3, Multiples
  <2> QED BY <1>3, <1>4, <2>1
<1>6. -86400 < w /\ w < 2 * 86400
  <2>1. (w + 86400) * Ns = w * Ns + 86400 * Ns /\ (w - 2 * 86400) * Ns = w * Ns - 2 * (86400 * Ns)
    BY <1>3, <1>4
  <2> DEFINE a == w + 86400
             b == w - 2 * 86400
  <2>2. a \in Int /\ b \in Int
    BY <1>4
  <2>3. t \in Nat /\ t < Day
    BY TimesBelowDay, Units
  <2>4. a * Ns + f >= 0 /\ b * Ns + f < 0
    <3> HIDE DEF w
    <3> QED BY <1>2, <1>3, <1>4, <2>1, <2>3
  <2>5. ~(a < 0) /\ b < 0
    <3> HIDE DEF a, b
    <3> QED BY <1>3, <1>4, <2>2, <2>4, <1>5
  <2>6. a # 0
    <3>1. ASSUME a = 0 PROVE FALSE
      <4>0. a * Ns = w * Ns + 86400 * Ns
        BY <2>1
      <4>1. w * Ns = -(86400 * Ns)
        <5> HIDE DEF a, b, w
        <5> QED BY <4>0, <1>3, <1>4, <3>1
      <4> HIDE DEF a, b, w
      <4> QED BY <1>2, <1>3, <1>4, <2>3, <4>1
    <3> QED BY <3>1
  <2> HIDE DEF w
  <2> QED BY <1>4, <2>5, <2>6 DEF a, b
<1>7. CASE w < 0
  <2>1. t + off < 0
    <3> HIDE DEF w
    <3> QED BY <1>4, <1>5, <1>7
  <2>2. Local(n, t, off) = At(FromEpoch(n + (-1)), (w + 86400) * Ns + f)
    <3>1. n - 1 = n + (-1) /\ t + off + Day = (w + 86400) * Ns + f
      <4>1. (w + 86400) * Ns = w * Ns + 86400 * Ns
        BY <1>3, <1>4
      <4> HIDE DEF w
      <4> QED BY <1>2, <1>3, <1>4, <4>1
    <3> QED BY <2>1, <3>1 DEF Local
  <2>3. w + 86400 = T + O - (-1) * 86400 /\ w + 86400 \in Nat /\ w + 86400 < 86400
    BY <1>1, <1>2, <1>6, <1>7
  <2>4. WallClock(Local(n, t, off), n, t, off, -1, w + 86400)
    BY <2>2, <2>3 DEF WallClock, T, O, f
  <2> QED BY <1>2, <2>3, <2>4 DEF O
<1>8. CASE w >= 0 /\ w < 86400
  <2>1. ~(t + off < 0) /\ ~(t + off >= Day)
    <3>1. (w - 86400) * Ns = w * Ns - 86400 * Ns
      BY <1>3, <1>4
    <3>2. w - 86400 \in Int /\ w - 86400 < 0
      BY <1>4, <1>8
    <3> DEFINE j == w - 86400
    <3>3. j * Ns + f < 0
      <4> HIDE DEF j
      <4> QED BY <3>2, <1>5 DEF j
    <3> HIDE DEF w
    <3> QED BY <1>3, <1>4, <1>5, <1>8, <3>1, <3>3
  <2>2. Local(n, t, off) = At(FromEpoch(n + 0), w * Ns + f)
    <3>1. n = n + 0 /\ t + off = w * Ns + f
      BY <1>4
    <3> QED BY <2>1, <3>1 DEF Local
  <2>3. w = T + O - 0 * 86400 /\ w \in Nat
    BY <1>1, <1>2, <1>8
  <2>4. WallClock(Local(n, t, off), n, t, off, 0, w)
    BY <1>8, <2>2, <2>3 DEF WallClock, T, O, f
  <2> QED BY <1>2, <2>3, <2>4 DEF O
<1>9. CASE w >= 86400
  <2> DEFINE j == w - 86400
  <2>0. j \in Int /\ j >= 0 /\ j * Ns = w * Ns - 86400 * Ns
    BY <1>3, <1>4, <1>9
  <2>1. t + off >= Day /\ ~(t + off < 0)
    <3>1. ~(j * Ns + f < 0)
      <4> HIDE DEF j
      <4> QED BY <2>0, <1>5
    <3> HIDE DEF w, j
    <3> QED BY <1>3, <1>4, <2>0, <3>1, Units
  <2>2. Local(n, t, off) = At(FromEpoch(n + 1), j * Ns + f)
    <3>1. t + off - Day = j * Ns + f
      <4> HIDE DEF w, j
      <4> QED BY <1>2, <1>3, <1>4, <2>0
    <3> QED BY <2>1, <3>1 DEF Local
  <2>3. j = T + O - 1 * 86400 /\ j \in Nat /\ j < 86400
    BY <1>1, <1>2, <1>6, <1>9
  <2>4. WallClock(Local(n, t, off), n, t, off, 1, j)
    BY <2>2, <2>3 DEF WallClock, T, O, f
  <2> QED BY <1>2, <2>3, <2>4 DEF O
<1> QED BY <1>4, <1>7, <1>8, <1>9

LEMMA WholeQuotient ==
  ASSUME NEW w \in Int
  PROVE  Quo(w * Ns, Ns) = w
<1>1. w * Ns \in Int /\ Ns \in Nat \ {0}
  BY Units
<1>2. CASE w >= 0
  <2>1. w * Ns >= 0
    BY <1>1, <1>2, Multiples
  <2>2. (w * Ns) \div Ns = w
    <3>1. 0 \in 0 .. Ns - 1 /\ w * Ns = w * Ns + 0
      BY <1>1
    <3> QED BY <1>1, <3>1, Divided
  <2> QED BY <2>1, <2>2 DEF Quo
<1>3. CASE w < 0
  <2> DEFINE k == -w
  <2>1. k \in Int /\ -(w * Ns) = k * Ns /\ -k = w
    BY <1>1
  <2>2. ~(w * Ns >= 0)
    <3>1. w * Ns <= -Ns
      BY <1>1, <1>3, Multiples
    <3> QED BY <1>1, <3>1
  <2> HIDE DEF k
  <2>3. (k * Ns) \div Ns = k
    <3>1. 0 \in 0 .. Ns - 1 /\ k * Ns = k * Ns + 0 /\ k * Ns \in Int
      BY <1>1, <2>1
    <3> QED BY <1>1, <2>1, <3>1, Divided
  <2> QED BY <2>1, <2>2, <2>3 DEF Quo
<1> QED BY <1>2, <1>3

\* The wall clock of one zone, moved to another.
LEMMA WallSeconds ==
  ASSUME NEW t \in Int, NEW from \in Int, NEW to \in Int,
         from = (from \div Ns) * Ns, to = (to \div Ns) * Ns
  PROVE  Wall(t, from, to) = (t \div Ns) - (from \div Ns) + (to \div Ns)
<1> DEFINE s == t \div Ns
           f == t % Ns
           o == from \div Ns
           p == to \div Ns
           w == s - o + p
<1>1. Ns \in Nat \ {0} /\ s \in Int /\ f \in Int /\ t = s * Ns + f /\ o \in Int /\ p \in Int
  BY Units, Division
<1>2. from = o * Ns /\ to = p * Ns
  OBVIOUS
<1> HIDE DEF s, f, o, p
<1>3. s * Ns \in Int /\ o * Ns \in Int /\ p * Ns \in Int
  BY <1>1
<1>4. w \in Int /\ w * Ns = s * Ns - o * Ns + p * Ns
  BY <1>1
<1>5. t - f - from + to = w * Ns
  <2> HIDE DEF w
  <2> QED BY <1>1, <1>2, <1>3, <1>4
<1> HIDE DEF w
<1>6. Quo(w * Ns, Ns) = w
  BY <1>4, WholeQuotient
<1>7. Wall(t, from, to) = w
  BY <1>5, <1>6 DEF Wall, f
<1> QED BY <1>7 DEF w, s, o, p

\* Hours, minutes and seconds make up the seconds of the day.
LEMMA ClockFields ==
  ASSUME NEW s \in Nat
  PROVE  ((s \div 3600) % 24) * Hour + ((s % 3600) \div 60) * Minute + (s % 60) * Ns
           = (s % 86400) * Ns
<1> DEFINE h == (s \div 3600) % 24
           m == (s % 3600) \div 60
           x == s % 60
           d == s % 86400
<1>1. h \in Nat /\ m \in Nat /\ x \in Nat /\ d \in Nat
  OBVIOUS
<1>2. d = h * 3600 + m * 60 + x
  <2> DEFINE q == s \div 3600
             r == s % 3600
  <2>1. q \in Nat /\ r \in Nat /\ r < 3600 /\ s = q * 3600 + r
    OBVIOUS
  <2>2. r = m * 60 + (r % 60) /\ r % 60 = x
    <3>1. r = m * 60 + (r % 60)
      <4> HIDE DEF q
      <4> QED BY <2>1
    <3>2. r % 60 = x
      <4> HIDE DEF q, r
      <4> QED BY <2>1
    <3> QED BY <3>1, <3>2
  <2>3. d = h * 3600 + r
    <3> HIDE DEF q, r
    <3>1. h = q % 24
      BY DEF q
    <3> HIDE DEF h
    <3> QED BY <2>1, <3>1
  <2> HIDE DEF q, r, h, m, x, d
  <2> QED BY <2>2, <2>3, <1>1, <2>1
<1> HIDE DEF h, m, x, d
<1>3. d * Ns = h * (3600 * Ns) + m * (60 * Ns) + x * Ns
  BY <1>1, <1>2, Units
<1>4. Hour = 3600 * Ns /\ Minute = 60 * Ns
  BY Units DEF Hour, Minute
<1>5. h * Hour + m * Minute + x * Ns = d * Ns
  BY <1>3, <1>4
<1> QED BY <1>5 DEF h, m, x, d

\* What the code prints of a wall clock that did not go below midnight.
LEMMA RewallDay ==
  ASSUME NEW t, NEW from, NEW to, NEW s \in Nat, Wall(t, from, to) = s,
         NEW f \in Int, t % Ns = f
  PROVE  /\ RezoneTime(t, from, to) = (s % 86400) * Ns + f
         /\ Rewall(t, from, to) = (s % 86400) * Ns + f
<1> DEFINE h == s \div 3600
           r == s % 3600
           m == r \div 60
           x == s % 60
<1>1. /\ h \in Nat /\ r \in Nat /\ m \in Nat /\ x \in Nat /\ m < 60
  OBVIOUS
<1>2. Quo(s, 3600) = h /\ Rem(s, 3600) = r /\ Rem(s, 60) = x
  <2>1. 3600 \in Nat \ {0} /\ 60 \in Nat \ {0}
    OBVIOUS
  <2> QED BY <2>1, Quotients
<1>3. Quo(r, 60) = m
  <2>1. 60 \in Nat \ {0}
    OBVIOUS
  <2> HIDE DEF r
  <2> QED BY <1>1, <2>1, Quotients
<1>0. h % 24 = (s \div 3600) % 24 /\ m = (s % 3600) \div 60 /\ x = s % 60
  OBVIOUS
<1> HIDE DEF h, r, m, x
<1>4. (h % 24) * Hour + m * Minute + x * Ns = (s % 86400) * Ns
  BY <1>0, ClockFields, SMTT(30)
<1>5. Abs(m) = m /\ Abs(x) = x /\ m % 60 = m
  BY <1>1 DEF Abs
<1>6. RezoneTime(t, from, to) = (h % 24) * Hour + m * Minute + x * Ns + f
  BY <1>2, <1>3, <1>5 DEF RezoneTime
<1>7. Rewall(t, from, to) = (h % 24) * Hour + m * Minute + x * Ns + f
  <2>1. s % 60 = x
    BY DEF x
  <2> QED BY <2>1, <1>2, <1>3, <1>5 DEF Rewall
<1> QED BY <1>4, <1>6, <1>7

LEMMA Rezoned ==
  ASSUME NEW n \in Int, NEW t \in Times, NEW from \in Offsets, NEW to \in Offsets
  PROVE  LET l == Local(n, t, from)
             r == Local(n, t, to)
         IN  /\ Wall(l.time, from, to) >= 0 => RezoneTime(l.time, from, to) = r.time
             /\ l.date = r.date => Wall(l.time, from, to) >= 0 /\ RezoneDatetime(l, from, to) = (IF from = 0 THEN l ELSE r)
<1> DEFINE T == t \div Ns
           f == t % Ns
           o == from \div Ns
           p == to \div Ns
           l == Local(n, t, from)
           r == Local(n, t, to)
<1>1. T \in Nat /\ f \in 0 .. Ns - 1 /\ f \in Int
  BY TimeSeconds, Units
<1>2. o \in Int /\ from = o * Ns /\ p \in Int /\ to = p * Ns
  BY LocalWall
<1>3. PICK k \in Int, s \in Int : WallClock(l, n, t, from, k, s)
  BY LocalWall
<1>4. PICK j \in Int, u \in Int : WallClock(r, n, t, to, j, u)
  BY LocalWall
<1>5. /\ k \in {-1, 0, 1} /\ s \in Nat /\ s < 86400 /\ s = T + o - k * 86400
      /\ l = At(FromEpoch(n + k), s * Ns + f)
  BY <1>3 DEF WallClock
<1>6. /\ j \in {-1, 0, 1} /\ u \in Nat /\ u < 86400 /\ u = T + p - j * 86400
      /\ r = At(FromEpoch(n + j), u * Ns + f)
  BY <1>4 DEF WallClock
<1> DEFINE w == s - o + p
<1> HIDE DEF T, f, o, p, l, r
<1>7. l.time % Ns = f /\ Wall(l.time, from, to) = w /\ l.date = FromEpoch(n + k)
  <2>1. l.time = s * Ns + f /\ l.date = FromEpoch(n + k)
    BY <1>5 DEF At
  <2>2. l.time \in Int /\ l.time \div Ns = s /\ l.time % Ns = f
    <3>1. s * Ns \in Int
      BY <1>5, Units
    <3>2. Ns \in Nat \ {0} /\ f \in 0 .. Ns - 1 /\ s \in Int
      BY <1>1, <1>5, Units
    <3>3. l.time \in Int
      BY <1>1, <2>1, <3>1
    <3> QED BY <2>1, <3>2, <3>3, Divided
  <2>3. Wall(l.time, from, to) = (l.time \div Ns) - (from \div Ns) + (to \div Ns)
    <3>1. from \in Int /\ to \in Int /\ from = (from \div Ns) * Ns /\ to = (to \div Ns) * Ns
      BY LocalWall
    <3> QED BY <2>2, <3>1, WallSeconds
  <2> QED BY <2>1, <2>2, <2>3 DEF o, p
<1>8. r.time = u * Ns + f /\ r.date = FromEpoch(n + j)
  BY <1>6 DEF At
<1>9. w \in Int /\ w = u + (j - k) * 86400
  BY <1>1, <1>2, <1>5, <1>6
<1>10. ASSUME w >= 0 PROVE RezoneTime(l.time, from, to) = r.time /\ Rewall(l.time, from, to) = r.time
  <2>1. w \in Nat /\ w % 86400 = u
    BY <1>5, <1>6, <1>9, <1>10
  <2> HIDE DEF w
  <2> QED BY <1>1, <1>7, <1>8, <2>1, RewallDay
<1>11. ASSUME l.date = r.date PROVE w >= 0 /\ RezoneDatetime(l, from, to) = IF from = 0 THEN l ELSE r
  <2>1. k = j
    <3>1. EpochOf(FromEpoch(n + k)) = n + k /\ EpochOf(FromEpoch(n + j)) = n + j
      BY EpochFromEpoch
    <3>2. n + k = n + j
      BY <1>7, <1>8, <1>11, <3>1
    <3> QED BY <3>2
  <2>2. w >= 0
    BY <1>6, <1>9, <2>1
  <2>3. Rewall(l.time, from, to) = r.time
    BY <2>2, <1>10
  <2>4. r = At(l.date, r.time)
    BY <1>6, <1>7, <1>8, <2>1
  <2> QED BY <2>2, <2>3, <2>4 DEF RezoneDatetime
<1> QED BY <1>7, <1>10, <1>11 DEF l, r

\* In whatever zones a moment is written, moving it from one to another names
\* the same moment, where the code does not lose the date.
THEOREM ZonesChanged == Spec => []RezoneExact
<1>1. SumInv /\ day \in Nat \ {0} => RezoneExact
  <2> SUFFICES ASSUME SumInv, day \in Nat \ {0},
                      NEW l \in Shown(day, time), NEW r \in Shown(day, time)
               PROVE  /\ Wall(l.at.time, l.off, r.off) >= 0 => RezoneTime(l.at.time, l.off, r.off) = r.at.time
                      /\ l.off # 0 /\ l.at.date = r.at.date => RezoneDatetime(l.at, l.off, r.off) = r.at
    BY DEF RezoneExact
  <2>1. /\ l.off \in Offsets /\ l.at = Local(day, time, l.off)
        /\ r.off \in Offsets /\ r.at = Local(day, time, r.off)
    BY DEF Shown
  <2>2. day \in Int /\ time \in Times
    BY DEF SumInv
  <2> QED BY <2>1, <2>2, Rezoned
<1> QED BY <1>1, SumAlways, DayPositive, PTL

-----------------------------------------------------------------------------
(* Differences. *)

\* The moment is earlier in its month than the mark m was in its own.
Behind(m, dt, t) == dt.day < m.date.day \/ (dt.day = m.date.day /\ t < m.time)
\* The whole months since the mark, and the time since the last of them.
MonthsTo(m, dt, t) ==
  12 * (dt.year - m.date.year) + (dt.month - m.date.month) - (IF Behind(m, dt, t) THEN 1 ELSE 0)
RestDays(m, dt, t) == dt.day - m.date.day + (IF Behind(m, dt, t) THEN PreviousMonth(dt) ELSE 0)
RestTo(m, dt, t) == RestDays(m, dt, t) * Day + t - m.time

ValidMark(m) == ValidDate(m.date) /\ EpochOf(m.date) = m.day /\ m.time \in Times

\* The watch shows what lies between the mark and now.
WatchInv ==
  /\ mark = NoMark => elapsed = 0 /\ months = 0 /\ rest = 0
  /\ mark # NoMark =>
       /\ ValidMark(mark)
       /\ elapsed = (day - mark.day) * Day + time - mark.time
       /\ months = MonthsTo(mark, date, time)
       /\ mark.date.day <= 28 => rest = RestTo(mark, date, time)

\* Through the day, a month becomes whole when the time of the mark comes round.
LEMMA WatchTick ==
  ASSUME ValidDate(date), time \in Times, ValidMark(mark),
         NEW t \in Later, \A u \in Later : t <= u
  PROVE  /\ MonthsTo(mark, date, t) = MonthsTo(mark, date, time) + (IF Round(date, t) THEN 1 ELSE 0)
         /\ RestTo(mark, date, t) = (IF Round(date, t) THEN 0 ELSE RestTo(mark, date, time) + (t - time))
<1> DEFINE a == mark.date
           mt == mark.time
           raw == 12 * (date.year - a.year) + (date.month - a.month)
<1>1. /\ date.year \in Int /\ date.month \in Int /\ date.day \in Int /\ PreviousMonth(date) \in Int
      /\ a.year \in Int /\ a.month \in Int /\ a.day \in Int
  <2>1. ValidDate(a)
    BY DEF ValidMark
  <2> HIDE DEF a
  <2> QED BY <2>1, ValidInts
<1>2. t \in Int /\ time \in Int /\ mt \in Int /\ mt \in Times /\ t > time
  BY TimesBelowDay DEF Later, ValidMark
<1>3. mt > time => t <= mt
  BY <1>2 DEF Later
<1>4. Round(date, t) <=> date.day = a.day /\ t = mt
  BY DEF Round
<1>5. /\ Behind(mark, date, t) <=> date.day < a.day \/ (date.day = a.day /\ t < mt)
      /\ Behind(mark, date, time) <=> date.day < a.day \/ (date.day = a.day /\ time < mt)
  BY DEF Behind
<1>6. /\ MonthsTo(mark, date, t) = raw - (IF Behind(mark, date, t) THEN 1 ELSE 0)
      /\ MonthsTo(mark, date, time) = raw - (IF Behind(mark, date, time) THEN 1 ELSE 0)
  BY <1>1 DEF MonthsTo
<1>7. raw \in Int
  BY <1>1
<1> DEFINE X(s) == date.day - a.day + (IF Behind(mark, date, s) THEN PreviousMonth(date) ELSE 0)
<1>8. RestTo(mark, date, t) = X(t) * Day + t - mt /\ RestTo(mark, date, time) = X(time) * Day + time - mt
  BY DEF RestTo, RestDays
<1> HIDE DEF a, mt, raw
<1>9. CASE Round(date, t)
  <2>1. ~Behind(mark, date, t) /\ Behind(mark, date, time)
    BY <1>1, <1>2, <1>4, <1>5, <1>9
  <2>2. X(t) = 0
    BY <1>1, <1>4, <1>9, <2>1
  <2>3. RestTo(mark, date, t) = 0
    <3>1. X(t) * Day = 0
      BY <2>2, Units
    <3> HIDE DEF X
    <3> QED BY <1>2, <1>4, <1>8, <1>9, <3>1
  <2> QED BY <1>6, <1>7, <1>9, <2>1, <2>3
<1>10. CASE ~Round(date, t)
  <2>1. Behind(mark, date, t) <=> Behind(mark, date, time)
    BY <1>1, <1>2, <1>3, <1>4, <1>5, <1>10
  <2>2. X(t) = X(time) /\ X(t) \in Int
    BY <1>1, <2>1
  <2> HIDE DEF X
  <2>3. X(t) * Day \in Int
    BY <2>2, Units
  <2>4. RestTo(mark, date, t) = RestTo(mark, date, time) + (t - time)
    BY <1>2, <1>8, <2>2, <2>3
  <2> QED BY <1>6, <1>7, <1>10, <2>1, <2>4
<1> QED BY <1>9, <1>10

\* Over midnight, it does when the day of the mark comes round and the mark was
\* at midnight, or when a month that is too short for that day is over.
LEMMA WatchMidnight ==
  ASSUME ValidDate(date), time \in Times, ValidMark(mark), Later = {}
  PROVE  /\ MonthsTo(mark, NextDate, 0)
              = MonthsTo(mark, date, time) + (IF Round(NextDate, 0) \/ Skipped THEN 1 ELSE 0)
         /\ mark.date.day <= 28 =>
              RestTo(mark, NextDate, 0)
                = (IF Round(NextDate, 0) THEN 0 ELSE RestTo(mark, date, time) + (Day - time))
<1> DEFINE a == mark.date
           mt == mark.time
           b == NextDate
           L == DaysInMonth(date.year, date.month)
           raw(dt) == 12 * (dt.year - a.year) + (dt.month - a.month)
           X(dt, s) == dt.day - a.day + (IF Behind(mark, dt, s) THEN PreviousMonth(dt) ELSE 0)
<1>1. /\ date.year \in Int /\ date.month \in Int /\ date.day \in Int /\ PreviousMonth(date) \in Int
      /\ a.year \in Int /\ a.month \in Int /\ a.day \in Int /\ 1 <= a.day /\ 1 <= date.day
      /\ b.year \in Int /\ b.month \in Int /\ b.day \in Int /\ PreviousMonth(b) \in Int
      /\ L \in 28 .. 31 /\ date.day <= L
  <2>1. ValidDate(a)
    BY DEF ValidMark
  <2>2. ValidDate(b)
    BY NextDateNumber
  <2> HIDE DEF a, b
  <2> QED BY <2>1, <2>2, ValidInts
<1>2. time \in Int /\ mt \in Int /\ mt >= 0 /\ mt <= time
  <2>1. mt \in Times /\ ~(mt > time)
    BY DEF Later, ValidMark
  <2>2. mt \in Nat /\ time \in Nat
    BY <2>1, TimesBelowDay
  <2> HIDE DEF mt
  <2> QED BY <2>1, <2>2
<1>3. Round(b, 0) <=> b.day = a.day /\ 0 = mt
  BY DEF Round
<1>4. Skipped <=> date.day = L /\ date.day < a.day
  BY DEF Skipped, MonthIsFull
<1>5. /\ Behind(mark, b, 0) <=> b.day < a.day \/ (b.day = a.day /\ 0 < mt)
      /\ Behind(mark, date, time) <=> date.day < a.day \/ (date.day = a.day /\ time < mt)
  BY DEF Behind
<1>6. /\ MonthsTo(mark, b, 0) = raw(b) - (IF Behind(mark, b, 0) THEN 1 ELSE 0)
      /\ MonthsTo(mark, date, time) = raw(date) - (IF Behind(mark, date, time) THEN 1 ELSE 0)
      /\ RestTo(mark, b, 0) = X(b, 0) * Day + 0 - mt
      /\ RestTo(mark, date, time) = X(date, time) * Day + time - mt
  <2>1. /\ MonthsTo(mark, b, 0) = raw(b) - (IF Behind(mark, b, 0) THEN 1 ELSE 0)
        /\ MonthsTo(mark, date, time) = raw(date) - (IF Behind(mark, date, time) THEN 1 ELSE 0)
    <3> HIDE DEF b
    <3> QED BY <1>1 DEF MonthsTo
  <2>2. /\ RestTo(mark, b, 0) = X(b, 0) * Day + 0 - mt
        /\ RestTo(mark, date, time) = X(date, time) * Day + time - mt
    BY DEF RestTo, RestDays
  <2> QED BY <2>1, <2>2
<1>7. /\ date.day # L => b.year = date.year /\ b.month = date.month /\ b.day = date.day + 1 /\ date.day < L
      /\ date.day = L =>
           12 * b.year + b.month = 12 * date.year + date.month + 1 /\ b.day = 1 /\ PreviousMonth(b) = L
  BY NextDateFields DEF MonthIsFull
<1>8. Behind(mark, date, time) <=> date.day < a.day
  <2> HIDE DEF a, mt
  <2> QED BY <1>1, <1>2, <1>5
<1> HIDE DEF a, mt, b, L
<1>9. raw(b) = raw(date) + (IF date.day = L THEN 1 ELSE 0) /\ raw(date) \in Int
  BY <1>1, <1>7
<1>10. MonthsTo(mark, b, 0) = MonthsTo(mark, date, time) + (IF Round(b, 0) \/ Skipped THEN 1 ELSE 0)
  <2> HIDE DEF raw, X
  <2>1. CASE date.day # L
    <3>1. (Behind(mark, b, 0) <=> date.day < a.day /\ ~Round(b, 0)) /\ ~Skipped
      BY <1>1, <1>2, <1>3, <1>4, <1>5, <1>7, <2>1
    <3>2. Round(b, 0) => date.day < a.day
      BY <1>1, <1>3, <1>7, <2>1
    <3> QED BY <1>6, <1>8, <1>9, <2>1, <3>1, <3>2
  <2>2. CASE date.day = L
    <3>1. (Behind(mark, b, 0) <=> ~Round(b, 0)) /\ (Skipped <=> date.day < a.day)
      BY <1>1, <1>2, <1>3, <1>4, <1>5, <1>7, <2>2
    <3>2. ~(Round(b, 0) /\ date.day < a.day)
      BY <1>1, <1>3, <1>7, <2>2
    <3> QED BY <1>6, <1>8, <1>9, <2>2, <3>1, <3>2
  <2> QED BY <2>1, <2>2
<1>11. ASSUME a.day <= 28
       PROVE  RestTo(mark, b, 0) = IF Round(b, 0) THEN 0 ELSE RestTo(mark, date, time) + (Day - time)
  <2>1. X(b, 0) \in Int /\ X(date, time) \in Int
    BY <1>1
  <2>2. CASE Round(b, 0)
    <3>1. ~Behind(mark, b, 0)
      BY <1>1, <1>2, <1>3, <1>5, <2>2
    <3>2. X(b, 0) = 0
      BY <1>1, <1>3, <2>2, <3>1
    <3>3. X(b, 0) * Day = 0
      BY <3>2, Units
    <3> HIDE DEF X
    <3> QED BY <1>2, <1>3, <1>6, <2>2, <3>3
  <2>3. CASE ~Round(b, 0)
    <3>1. X(b, 0) = X(date, time) + 1
      <4>1. CASE date.day # L
        <5>1. Behind(mark, b, 0) <=> date.day < a.day
          BY <1>1, <1>2, <1>3, <1>5, <1>7, <2>3, <4>1
        <5>2. PreviousMonth(b) = PreviousMonth(date)
          BY <1>7, <4>1 DEF PreviousMonth
        <5> QED BY <1>1, <1>7, <1>8, <4>1, <5>1, <5>2
      <4>2. CASE date.day = L
        <5>1. Behind(mark, b, 0) /\ ~Behind(mark, date, time)
          BY <1>1, <1>2, <1>3, <1>5, <1>7, <1>8, <1>11, <2>3, <4>2
        <5> QED BY <1>1, <1>7, <4>2, <5>1
      <4> QED BY <4>1, <4>2
    <3> HIDE DEF X
    <3>2. X(b, 0) * Day = X(date, time) * Day + Day /\ X(date, time) * Day \in Int
      BY <2>1, <3>1, Units
    <3> QED BY <1>2, <1>6, <2>3, <3>2, Units
  <2> QED BY <2>2, <2>3
<1> QED BY <1>10, <1>11 DEF a, b

LEMMA MarkSet ==
  ASSUME ValidDate(date), time \in Times, day = EpochOf(date), NEW m,
         m = [day |-> day, date |-> date, time |-> time]
  PROVE  ValidMark(m) /\ MonthsTo(m, date, time) = 0 /\ RestTo(m, date, time) = 0
         /\ (day - m.day) * Day + time - m.time = 0
<1>1. m.day = day /\ m.date = date /\ m.time = time
  OBVIOUS
<1>2. date.year \in Int /\ date.month \in Int /\ date.day \in Int /\ EpochOf(date) \in Int
  BY ValidInts
<1>3. time \in Int
  BY TimesBelowDay
<1>4. ~Behind(m, date, time)
  BY <1>1, <1>2, <1>3 DEF Behind
<1>5. MonthsTo(m, date, time) = 0
  BY <1>1, <1>2, <1>4 DEF MonthsTo
<1>6. RestDays(m, date, time) = 0
  BY <1>1, <1>2, <1>4 DEF RestDays
<1>7. 0 * Day = 0 /\ day - m.day = 0
  BY <1>1, <1>2, Units
<1>8. RestTo(m, date, time) = 0 /\ (day - m.day) * Day + time - m.time = 0
  BY <1>1, <1>3, <1>6, <1>7 DEF RestTo
<1> QED BY <1>1, <1>5, <1>8 DEF ValidMark

LEMMA WatchStep ==
  ASSUME WatchInv, CalInv, SumInv, [Next]_vars
  PROVE  WatchInv'
<1>1. ValidDate(date) /\ time \in Times /\ time \in Int /\ day = EpochOf(date) /\ day \in Int
  BY TimesBelowDay, ValidInts DEF CalInv, SumInv
<1>2. CASE Tick \/ Midnight
  <2>1. mark' = mark
    BY <1>2 DEF Tick, Midnight
  <2>2. CASE mark = NoMark
    <3>1. UNCHANGED stopwatch
      BY <1>2, <2>2 DEF Tick, Midnight, Pass
    <3> QED BY <2>1, <2>2, <3>1 DEF WatchInv, stopwatch, NoMark
  <2>3. CASE mark # NoMark
    <3>1. /\ ValidMark(mark) /\ elapsed = (day - mark.day) * Day + time - mark.time
          /\ months = MonthsTo(mark, date, time)
          /\ mark.date.day <= 28 => rest = RestTo(mark, date, time)
      BY <2>3 DEF WatchInv
    <3>2. mark.day \in Int /\ mark.time \in Int
      BY <3>1, TimesBelowDay, ValidInts DEF ValidMark
    <3> DEFINE k == day - mark.day
    <3>3. k \in Int /\ k * Day \in Int /\ (k + 1) * Day = k * Day + Day
      BY <1>1, <3>2, Units
    <3>4. CASE Tick
      <4>1. PICK t \in Later : (\A u \in Later : t <= u) /\ time' = t /\ Pass(date, t, t - time, FALSE)
        BY <3>4 DEF Tick
      <4>2. date' = date /\ day' = day
        BY <3>4 DEF Tick, calendar
      <4>3. /\ elapsed' = elapsed + (t - time)
            /\ months' = months + (IF Round(date, t) THEN 1 ELSE 0)
            /\ rest' = IF Round(date, t) THEN 0 ELSE rest + (t - time)
        BY <2>3, <4>1 DEF Pass
      <4>4. /\ MonthsTo(mark, date, t) = MonthsTo(mark, date, time) + (IF Round(date, t) THEN 1 ELSE 0)
            /\ RestTo(mark, date, t) = (IF Round(date, t) THEN 0 ELSE RestTo(mark, date, time) + (t - time))
        BY <1>1, <3>1, <4>1, WatchTick
      <4>5. t \in Int
        BY TimesBelowDay DEF Later
      <4>6. elapsed' = (day' - mark.day) * Day + time' - mark.time
        <5>1. elapsed = k * Day + time - mark.time /\ (day' - mark.day) * Day = k * Day
          BY <3>1, <4>2
        <5> HIDE DEF k
        <5> QED BY <1>1, <3>2, <3>3, <4>1, <4>3, <4>5, <5>1
      <4>7. months' = MonthsTo(mark, date', time')
        BY <3>1, <4>1, <4>2, <4>3, <4>4
      <4>8. mark.date.day <= 28 => rest' = RestTo(mark, date', time')
        BY <3>1, <4>1, <4>2, <4>3, <4>4
      <4> QED BY <2>1, <2>3, <3>1, <4>6, <4>7, <4>8 DEF WatchInv, NoMark
    <3>5. CASE Midnight
      <4>1. Later = {} /\ day' = day + 1 /\ date' = NextDate /\ time' = 0 /\ Pass(date', 0, Day - time, Skipped)
        BY <3>5 DEF Midnight
      <4>2. Pass(NextDate, 0, Day - time, Skipped)
        BY <4>1
      <4>3. /\ elapsed' = elapsed + (Day - time)
            /\ months' = months + (IF Round(NextDate, 0) \/ Skipped THEN 1 ELSE 0)
            /\ rest' = IF Round(NextDate, 0) THEN 0 ELSE rest + (Day - time)
        BY <2>3, <4>2 DEF Pass
      <4>4. /\ MonthsTo(mark, NextDate, 0)
                 = MonthsTo(mark, date, time) + (IF Round(NextDate, 0) \/ Skipped THEN 1 ELSE 0)
            /\ mark.date.day <= 28 =>
                 RestTo(mark, NextDate, 0)
                   = (IF Round(NextDate, 0) THEN 0 ELSE RestTo(mark, date, time) + (Day - time))
        BY <1>1, <3>1, <4>1, WatchMidnight
      <4>5. elapsed' = (day' - mark.day) * Day + time' - mark.time
        <5>1. elapsed = k * Day + time - mark.time /\ day' - mark.day = k + 1
          BY <1>1, <3>1, <3>2, <4>1
        <5> HIDE DEF k
        <5> QED BY <1>1, <3>2, <3>3, <4>1, <4>3, <5>1, Units
      <4>6. months' = MonthsTo(mark, date', time')
        BY <3>1, <4>1, <4>3, <4>4
      <4>7. mark.date.day <= 28 => rest' = RestTo(mark, date', time')
        BY <3>1, <4>1, <4>3, <4>4
      <4> QED BY <2>1, <2>3, <3>1, <4>5, <4>6, <4>7 DEF WatchInv, NoMark
    <3> QED BY <1>2, <3>4, <3>5
  <2> QED BY <2>2, <2>3
<1>3. CASE Mark
  <2>1. /\ mark = NoMark /\ mark' = [day |-> day, date |-> date, time |-> time]
        /\ day' = day /\ date' = date /\ time' = time
        /\ elapsed' = elapsed /\ months' = months /\ rest' = rest
    BY <1>3 DEF Mark, calendar, stopwatch
  <2>2. elapsed = 0 /\ months = 0 /\ rest = 0
    BY <2>1 DEF WatchInv
  <2>3. ValidMark(mark') /\ MonthsTo(mark', date, time) = 0 /\ RestTo(mark', date, time) = 0
        /\ (day - mark'.day) * Day + time - mark'.time = 0
    BY <1>1, <2>1, MarkSet
  <2>4. /\ ValidMark(mark') /\ elapsed' = (day' - mark'.day) * Day + time' - mark'.time
        /\ months' = MonthsTo(mark', date', time') /\ rest' = RestTo(mark', date', time')
        /\ elapsed' = 0 /\ months' = 0 /\ rest' = 0
    BY <2>1, <2>2, <2>3
  <2> QED BY <2>4 DEF WatchInv
<1>4. CASE UNCHANGED vars
  BY <1>4 DEF vars, calendar, stopwatch, WatchInv, NoMark
<1> QED BY <1>2, <1>3, <1>4 DEF Next

LEMMA WatchAlways == Spec => []WatchInv
<1>1. Init => WatchInv
  BY DEF Init, WatchInv
<1>2. WatchInv /\ CalInv /\ SumInv /\ [Next]_vars => WatchInv'
  BY WatchStep
<1> QED BY <1>1, <1>2, CalAlways, SumAlways, PTL DEF Spec

\* The hours, minutes and units of a time of either sign.
LEMMA TimeInParts ==
  ASSUME NEW p \in Nat
  PROVE  \E h \in Nat, m \in Nat, s \in Nat :
           /\ p = (h * 60 + m) * Minute + s
           /\ Quo(p, Hour) = h /\ Quo(Rem(p, Hour), Minute) = m /\ Rem(p, Minute) = s
           /\ Quo(-p, Hour) = -h /\ Quo(Rem(-p, Hour), Minute) = -m /\ Rem(-p, Minute) = -s
<1> DEFINE h == p \div Hour
           u == p % Hour
           m == u \div Minute
           s == u % Minute
<1>1. Hour \in Nat \ {0} /\ Minute \in Nat \ {0} /\ Hour = 60 * Minute
  BY Units DEF Hour
<1>2. h \in Nat /\ u \in Nat /\ p = h * Hour + u
  <2>1. Hour \in Nat \ {0}
    BY <1>1
  <2> QED BY <2>1
<1>3. m \in Nat /\ s \in 0 .. Minute - 1 /\ s \in Nat /\ u = m * Minute + s
  <2> HIDE DEF u
  <2> QED BY <1>1, <1>2
<1>4. Quo(p, Hour) = h /\ Rem(p, Hour) = u /\ Quo(-p, Hour) = -h /\ Rem(-p, Hour) = -u
  BY <1>1, Quotients
<1>5. Quo(u, Minute) = m /\ Quo(-u, Minute) = -m
  <2> HIDE DEF u
  <2> QED BY <1>1, <1>2, Quotients
<1> HIDE DEF h, u, m, s
<1> DEFINE q == h * 60 + m
<1>6. p = q * Minute + s /\ q \in Int
  <2>1. h * Hour = (h * 60) * Minute /\ q * Minute = (h * 60) * Minute + m * Minute
    BY <1>1, <1>2, <1>3
  <2>2. (h * 60) * Minute \in Int /\ m * Minute \in Int /\ q \in Int
    BY <1>1, <1>2, <1>3
  <2> HIDE DEF q
  <2> QED BY <1>2, <1>3, <2>1, <2>2
<1>7. p % Minute = s
  <2> HIDE DEF q
  <2> QED BY <1>1, <1>3, <1>6, Divided
<1>8. Rem(p, Minute) = s /\ Rem(-p, Minute) = -s
  BY <1>1, <1>7, Quotients
<1> QED BY <1>2, <1>3, <1>4, <1>5, <1>6, <1>8

\* A duration made of days and a time is as long as they are.
LEMMA DaysAndTimeLength ==
  ASSUME NEW y, NEW mo, NEW d \in Int, NEW t \in Int
  PROVE  /\ Length(DaysAndTime(y, mo, d, t)) = d * Day + t
         /\ DaysAndTime(y, mo, d, t).y = y /\ DaysAndTime(y, mo, d, t).mo = mo
<1> DEFINE r == DaysAndTime(y, mo, d, t)
<1>1. /\ r.y = y /\ r.mo = mo /\ r.d = d /\ r.h = Quo(t, Hour)
      /\ r.min = Quo(Rem(t, Hour), Minute) /\ r.s = Rem(t, Minute)
  BY DEF DaysAndTime, Dur
<1>2. PICK h \in Int, m \in Int, s \in Int :
        t = (h * 60 + m) * Minute + s /\ r.h = h /\ r.min = m /\ r.s = s
  <2>1. CASE t >= 0
    <3>1. PICK h \in Nat, m \in Nat, s \in Nat :
            /\ t = (h * 60 + m) * Minute + s
            /\ Quo(t, Hour) = h /\ Quo(Rem(t, Hour), Minute) = m /\ Rem(t, Minute) = s
      BY <2>1, TimeInParts
    <3> QED BY <1>1, <3>1
  <2>2. CASE t < 0
    <3> DEFINE p == -t
    <3>0. p \in Nat
      BY <2>2
    <3>1. p \in Nat /\ -p = t
      BY <2>2
    <3> HIDE DEF p
    <3>2. PICK h \in Nat, m \in Nat, s \in Nat :
            /\ p = (h * 60 + m) * Minute + s
            /\ Quo(p, Hour) = h /\ Quo(Rem(p, Hour), Minute) = m /\ Rem(p, Minute) = s
            /\ Quo(-p, Hour) = -h /\ Quo(Rem(-p, Hour), Minute) = -m /\ Rem(-p, Minute) = -s
      BY <3>0, TimeInParts
    <3>3. (-h) * 60 + (-m) = -(h * 60 + m) /\ h * 60 + m \in Int
      BY <3>2
    <3> DEFINE q == h * 60 + m
    <3>4. (-q) * Minute = -(q * Minute) /\ q * Minute \in Int
      <4> HIDE DEF q
      <4> QED BY <3>3, Units DEF q
    <3>5. t = ((-h) * 60 + (-m)) * Minute + (-s)
      <4>1. t = -(q * Minute + s) /\ (-h) * 60 + (-m) = -q
        BY <3>1, <3>2, <3>3
      <4> HIDE DEF q
      <4> QED BY <3>2, <3>4, <4>1
    <3>6. -h \in Int /\ -m \in Int /\ -s \in Int
      BY <3>2
    <3> QED BY <1>1, <3>1, <3>2, <3>5, <3>6
  <2> QED BY <2>1, <2>2
<1> HIDE DEF r
<1> DEFINE q == h * 60 + m
           e == (d * 24 + h) * 60 + m
<1>3. q \in Int /\ e = d * 1440 + q
  BY <1>2
<1>4. Length(r) = e * Minute + s
  BY <1>1, <1>2 DEF Length
<1>5. t = q * Minute + s
  BY <1>2
<1> HIDE DEF q, e
<1>6. Day = 1440 * Minute
  BY Units DEF Day, Hour
<1>7. e * Minute = d * (1440 * Minute) + q * Minute /\ d * (1440 * Minute) \in Int /\ q * Minute \in Int
  BY <1>3, Units
<1>8. Length(r) = d * Day + t
  BY <1>2, <1>4, <1>5, <1>6, <1>7
<1> QED BY <1>1, <1>8 DEF r

\* A moment written in a zone counts from the same midnight as the moment.
LEMMA ZonedMoment ==
  ASSUME NEW n \in Int, NEW t \in Times, NEW off \in Offsets
  PROVE  LET v == ZonedVal(Local(n, t, off), off)
         IN  /\ v.zoned /\ v.utc \in Int /\ EpochOf(v.date) \in Int
             /\ EpochOf(v.date) * Day + v.utc = n * Day + t
<1> DEFINE c == Local(n, t, off)
           v == ZonedVal(c, off)
           T == t \div Ns
           f == t % Ns
           O == off \div Ns
<1>1. PICK k \in Int, s \in Int : WallClock(c, n, t, off, k, s)
  BY LocalWall
<1>2. s = T + O - k * 86400 /\ c = At(FromEpoch(n + k), s * Ns + f)
  BY <1>1 DEF WallClock
<1>3. /\ T \in Int /\ f \in Int /\ t = T * Ns + f /\ off \in Int /\ O \in Int /\ off = O * Ns
      /\ Ns \in Int /\ Day = 86400 * Ns
  <2>1. T \in Int /\ f \in Int /\ t = T * Ns + f
    BY TimeSeconds, Units
  <2>2. off \in Int /\ O \in Int /\ off = O * Ns
    BY LocalWall
  <2>3. Day = 86400 * Ns /\ Ns \in Int
    BY Units DEF Day, Hour, Minute
  <2> QED BY <2>1, <2>2, <2>3
<1> HIDE DEF T, f, O, c
<1>4. v.zoned /\ v.utc = (s * Ns + f) - off /\ v.date = FromEpoch(n + k)
  BY <1>2 DEF ZonedVal, At
<1>5. EpochOf(v.date) = n + k
  BY <1>4, EpochFromEpoch
<1>6. /\ s * Ns = T * Ns + O * Ns - k * (86400 * Ns)
      /\ T * Ns \in Int /\ O * Ns \in Int /\ k * (86400 * Ns) \in Int /\ s * Ns \in Int
  BY <1>2, <1>3
<1>7. (n + k) * Day = n * Day + k * Day /\ n * Day \in Int /\ k * Day \in Int
  BY <1>3
<1>8. v.utc \in Int /\ v.utc = t - k * Day
  BY <1>3, <1>4, <1>6
<1> HIDE DEF v
<1>9. EpochOf(v.date) * Day + v.utc = n * Day + t
  BY <1>3, <1>5, <1>7, <1>8
<1> QED BY <1>4, <1>5, <1>8, <1>9 DEF v, c

\* Days decide before times do.
LEMMA DayOrder ==
  ASSUME NEW d \in Int, NEW e \in Int, NEW t \in Times, NEW u \in Times
  PROVE  d * Day + t < e * Day + u <=> d < e \/ (d = e /\ t < u)
<1> DEFINE k == e - d
<1>1. t \in Nat /\ u \in Nat /\ t < Day /\ u < Day /\ Day \in Nat \ {0}
  BY TimesBelowDay, Units
<1>2. k \in Int /\ k * Day = e * Day - d * Day /\ e * Day \in Int /\ d * Day \in Int
  BY <1>1
<1>3. (k > 0 => k * Day >= Day) /\ (k < 0 => k * Day <= -Day) /\ (k = 0 => k * Day = 0)
  <2> HIDE DEF k
  <2> QED BY <1>1, <1>2, Multiples
<1>4. (k > 0 <=> d < e) /\ (k = 0 <=> d = e) /\ (k < 0 <=> e < d)
  OBVIOUS
<1> HIDE DEF k
<1> QED BY <1>1, <1>2, <1>3, <1>4

\* What a watch that runs knows of its mark.
LEMMA WatchFacts ==
  ASSUME WatchInv, CalInv, SumInv, TypeInv, mark # NoMark
  PROVE  /\ ValidMark(mark) /\ ValidDate(mark.date) /\ ValidDate(date)
         /\ day \in Int /\ day = EpochOf(date) /\ mark.day \in Int /\ mark.day = EpochOf(mark.date)
         /\ time \in Times /\ mark.time \in Times /\ time \in Int /\ mark.time \in Int
         /\ mark.day <= day
         /\ elapsed \in Nat /\ elapsed = (day - mark.day) * Day + time - mark.time
         /\ months \in Nat /\ months = MonthsTo(mark, date, time)
<1>1. /\ ValidMark(mark) /\ ValidDate(mark.date) /\ ValidDate(date)
      /\ day = EpochOf(date) /\ mark.day = EpochOf(mark.date)
      /\ time \in Times /\ mark.time \in Times
      /\ elapsed \in Nat /\ elapsed = (day - mark.day) * Day + time - mark.time
      /\ months \in Nat /\ months = MonthsTo(mark, date, time)
  BY DEF WatchInv, CalInv, SumInv, TypeInv, ValidMark
<1>2. day \in Int /\ mark.day \in Int
  BY <1>1, ValidInts
<1>3. time \in Nat /\ mark.time \in Nat /\ time < Day /\ mark.time < Day
  BY <1>1, TimesBelowDay, Units
<1> DEFINE k == day - mark.day
<1>4. k \in Int /\ elapsed = k * Day + time - mark.time
  BY <1>1, <1>2
<1>5. k >= 0
  <2> HIDE DEF k
  <2>1. k * Day \in Int /\ (k < 0 => k * Day <= -Day)
    BY <1>4, Units, Multiples
  <2> QED BY <1>1, <1>3, <1>4, <2>1, Units
<1>6. mark.day <= day
  BY <1>2, <1>5
<1> QED BY <1>1, <1>2, <1>3, <1>6

\* In whatever zones the two moments are written: inMonths, inDays and
\* inSeconds count the whole units of the time that passed between them.
THEOREM UnitsCounted == Spec => []WholeUnits
<1>1. WatchInv /\ CalInv /\ SumInv /\ TypeInv => WholeUnits
  <2> SUFFICES ASSUME WatchInv, CalInv, SumInv, TypeInv, mark # NoMark PROVE WholeUnits
    BY DEF WholeUnits
  <2> DEFINE a == mark.date
             mt == mark.time
  <2>1. /\ ValidMark(mark) /\ ValidDate(a) /\ ValidDate(date)
        /\ day \in Int /\ day = EpochOf(date) /\ mark.day \in Int /\ mark.day = EpochOf(a)
        /\ time \in Times /\ mt \in Times /\ time \in Int /\ mt \in Int
        /\ mark.day <= day
        /\ elapsed \in Nat /\ elapsed = (day - mark.day) * Day + time - mt
        /\ months \in Nat /\ months = MonthsTo(mark, date, time)
    BY WatchFacts
  <2>2. InMonths(Val(mark), Val(Now)) = months
    <3> DEFINE l == Val(mark)
               r == Val(Now)
               raw == 12 * (date.year - a.year) + (date.month - a.month)
    <3>1. l.date = a /\ r.date = date /\ TimeOf(r, l) = time /\ TimeOf(l, r) = mt
      BY DEF Val, Now, At, TimeOf
    <3>2. /\ a.year \in Int /\ a.month \in Int /\ a.day \in Int
          /\ date.year \in Int /\ date.month \in Int /\ date.day \in Int
      <4> HIDE DEF a
      <4> QED BY <2>1, ValidInts
    <3>3. date.day * Day + time < a.day * Day + mt <=> Behind(mark, date, time)
      <4>1. date.day * Day + time < a.day * Day + mt
              <=> date.day < a.day \/ (date.day = a.day /\ time < mt)
        <5> HIDE DEF a, mt
        <5> QED BY <2>1, <3>2, DayOrder
      <4> QED BY <4>1 DEF Behind
    <3>4. months = raw - (IF Behind(mark, date, time) THEN 1 ELSE 0)
      <4>1. MonthsTo(mark, date, time) = raw - (IF Behind(mark, date, time) THEN 1 ELSE 0)
        BY <3>2 DEF MonthsTo
      <4> HIDE DEF a, mt, raw
      <4> QED BY <2>1, <4>1
    <3>5. raw \in Int
      BY <3>2
    <3>6. raw >= 0
      <4> HIDE DEF raw, a, mt
      <4> QED BY <2>1, <3>4, <3>5
    <3> HIDE DEF l, r
    <3>7. InMonths(l, r) = IF raw >= 0 /\ date.day * Day + time < a.day * Day + mt THEN raw - 1
                           ELSE IF raw < 0 /\ date.day * Day + time > a.day * Day + mt THEN raw + 1
                           ELSE raw
      BY <3>1 DEF InMonths
    <3> HIDE DEF raw, a, mt
    <3>8. InMonths(l, r) = months
      BY <3>3, <3>4, <3>5, <3>6, <3>7
    <3> QED BY <3>8 DEF l, r
  <2>3. ASSUME NEW x \in Shown(mark.day, mt), NEW z \in Shown(day, time)
        PROVE  LET l == ZonedVal(x.at, x.off)
                   r == ZonedVal(z.at, z.off)
               IN  /\ InDays(l, r) = elapsed \div Day /\ InDays(r, l) = -(elapsed \div Day)
                   /\ Length(InSeconds(l, r)) = elapsed /\ Length(InSeconds(r, l)) = -elapsed
    <3> DEFINE l == ZonedVal(x.at, x.off)
               r == ZonedVal(z.at, z.off)
    <3>1. /\ x.off \in Offsets /\ x.at = Local(mark.day, mt, x.off)
          /\ z.off \in Offsets /\ z.at = Local(day, time, z.off)
      BY DEF Shown
    <3>0. l = ZonedVal(Local(mark.day, mt, x.off), x.off) /\ r = ZonedVal(Local(day, time, z.off), z.off)
      BY <3>1
    <3> HIDE DEF l, r, a, mt
    <3>2. /\ l.zoned /\ l.utc \in Int /\ EpochOf(l.date) \in Int
          /\ EpochOf(l.date) * Day + l.utc = mark.day * Day + mt
      BY <2>1, <3>0, <3>1, ZonedMoment
    <3>3. /\ r.zoned /\ r.utc \in Int /\ EpochOf(r.date) \in Int
          /\ EpochOf(r.date) * Day + r.utc = day * Day + time
      BY <2>1, <3>0, <3>1, ZonedMoment
    <3> DEFINE el == EpochOf(l.date)
               er == EpochOf(r.date)
    <3>4. /\ EpochDiff(l, r) = er - el /\ TimeDiff(l, r) = r.utc - l.utc
          /\ EpochDiff(r, l) = el - er /\ TimeDiff(r, l) = l.utc - r.utc
      BY <3>2, <3>3 DEF EpochDiff, TimeDiff, TimeOf
    <3> HIDE DEF el, er
    <3>5. el \in Int /\ er \in Int /\ el * Day + l.utc = mark.day * Day + mt /\ er * Day + r.utc = day * Day + time
      BY <3>2, <3>3 DEF el, er
    <3>6. /\ (er - el) * Day = er * Day - el * Day /\ (el - er) * Day = el * Day - er * Day
          /\ (day - mark.day) * Day = day * Day - mark.day * Day
          /\ er * Day \in Int /\ el * Day \in Int /\ day * Day \in Int /\ mark.day * Day \in Int
      BY <2>1, <3>5, Units
    <3>7. /\ EpochDiff(l, r) * Day + TimeDiff(l, r) = elapsed
          /\ EpochDiff(r, l) * Day + TimeDiff(r, l) = -elapsed
      BY <2>1, <3>2, <3>3, <3>4, <3>5, <3>6
    <3>8. InDays(l, r) = elapsed \div Day /\ InDays(r, l) = -(elapsed \div Day)
      <4>1. InDays(l, r) = Quo(elapsed, Day) /\ InDays(r, l) = Quo(-elapsed, Day)
        BY <3>7 DEF InDays
      <4>2. Quo(elapsed, Day) = elapsed \div Day /\ Quo(-elapsed, Day) = -(elapsed \div Day)
        BY <2>1, Units, Quotients
      <4> QED BY <4>1, <4>2
    <3>9. Length(InSeconds(l, r)) = elapsed /\ Length(InSeconds(r, l)) = -elapsed
      <4>1. /\ Length(DaysAndTime(0, 0, 0, elapsed)) = 0 * Day + elapsed
            /\ Length(DaysAndTime(0, 0, 0, -elapsed)) = 0 * Day + -elapsed
        BY <2>1, DaysAndTimeLength
      <4>2. 0 * Day + elapsed = elapsed /\ 0 * Day + -elapsed = -elapsed
        BY <2>1, Units
      <4> QED BY <3>7, <4>1, <4>2 DEF InSeconds
    <3> QED BY <3>8, <3>9 DEF l, r
  <2> QED BY <2>2, <2>3 DEF WholeUnits
<1> QED BY <1>1, WatchAlways, CalAlways, SumAlways, TypeAlways, PTL

\* Years and months are the months, whatever their sign.
LEMMA MonthsSplit ==
  ASSUME NEW c \in Int
  PROVE  12 * Quo(c, 12) + Rem(c, 12) = c
<1>1. Quo(c, 12) \in Int
  <2>1. 12 \in Nat \ {0}
    OBVIOUS
  <2>2. c \div 12 \in Int /\ (-c) \div 12 \in Int
    OBVIOUS
  <2> QED BY <2>2 DEF Quo
<1> QED BY <1>1 DEF Rem

\* duration.between a mark and now: the months, where they are claimed, and
\* the rest, while every month has the mark's day.
LEMMA BetweenForward ==
  ASSUME WatchInv, CalInv, SumInv, TypeInv, mark # NoMark, MonthsClaimed
  PROVE  LET there == Between(Val(mark), Val(Now))
         IN  /\ 12 * there.y + there.mo = months
             /\ mark.date.day <= 28 => Length(there) = rest
<1> DEFINE a == mark.date
           b == date
           mt == mark.time
           t == time - mt
           short == b.day < a.day
           raw == 12 * (b.year - a.year) + (b.month - a.month)
           cal == CalendarDiff(a, b)
           c == IF t < 0 THEN Borrowed(cal, b) ELSE cal
           left == IF t < 0 THEN t + Day ELSE t
           there == Between(Val(mark), Val(Now))
<1>1. /\ ValidDate(a) /\ ValidDate(b)
      /\ day \in Int /\ day = EpochOf(b) /\ mark.day \in Int /\ mark.day = EpochOf(a)
      /\ time \in Int /\ mt \in Int /\ mark.day <= day
      /\ months \in Nat /\ months = MonthsTo(mark, b, time)
  BY WatchFacts
<1>2. a.day <= 28 => rest = RestTo(mark, b, time)
  BY DEF WatchInv
<1>3. /\ a.year \in Int /\ a.month \in Int /\ a.day \in Int
      /\ b.year \in Int /\ b.month \in Int /\ b.day \in Int /\ 1 <= b.day
      /\ PreviousMonth(b) \in 28 .. 31
      /\ ~(t < 0) \/ a.day < b.day + PreviousMonth(b)
  <2>1. ~(t < 0) \/ a.day < b.day + PreviousMonth(b)
    BY <1>1 DEF MonthsClaimed
  <2> HIDE DEF a, b, t
  <2> QED BY <1>1, <2>1, ValidInts
<1>4. there = DaysAndTime(Quo(c[1], 12), Rem(c[1], 12), c[2], left)
  <2>1. /\ Val(mark).date = a /\ Val(Now).date = b
        /\ TimeDiff(Val(mark), Val(Now)) = t
    BY DEF Val, Now, At, TimeDiff, TimeOf
  <2>2. EpochDiff(Val(mark), Val(Now)) >= 0
    <3>1. EpochDiff(Val(mark), Val(Now)) = day - mark.day
      BY <1>1, <2>1 DEF EpochDiff
    <3> QED BY <1>1, <3>1
  <2> HIDE DEF a, b, t
  <2> QED BY <2>1, <2>2 DEF Between
<1>5. Behind(mark, b, time) <=> b.day < a.day \/ (b.day = a.day /\ t < 0)
  <2>1. Behind(mark, b, time) <=> b.day < a.day \/ (b.day = a.day /\ time < mt)
    BY DEF Behind
  <2>2. time < mt <=> t < 0
    BY <1>1
  <2> QED BY <2>1, <2>2
<1>6. raw \in Int
  BY <1>3
<1>7. months = raw - (IF Behind(mark, b, time) THEN 1 ELSE 0)
  <2>1. MonthsTo(mark, b, time) = raw - (IF Behind(mark, b, time) THEN 1 ELSE 0)
    BY <1>3 DEF MonthsTo
  <2> HIDE DEF raw, a, b
  <2> QED BY <1>1, <2>1
<1>8. RestDays(mark, b, time) = b.day - a.day + (IF Behind(mark, b, time) THEN PreviousMonth(b) ELSE 0)
  BY DEF RestDays
<1>9. /\ a.day <= 28 => rest = RestDays(mark, b, time) * Day + t
      /\ RestDays(mark, b, time) \in Int
  <2>1. RestDays(mark, b, time) \in Int
    BY <1>3, <1>8
  <2>2. RestDays(mark, b, time) * Day \in Int
    BY <2>1, Units
  <2>3. RestTo(mark, b, time) = RestDays(mark, b, time) * Day + time - mt
    BY DEF RestTo
  <2> HIDE DEF a, b, mt
  <2> QED BY <1>1, <1>2, <2>1, <2>2, <2>3
<1>10. /\ cal[1] = raw - (IF short THEN 1 ELSE 0)
       /\ cal[2] = b.day - a.day + (IF short THEN PreviousMonth(b) ELSE 0)
  <2> HIDE DEF a, b
  <2> QED BY <1>3 DEF CalendarDiff
<1> HIDE DEF a, b, mt, t, raw, cal, there
<1>11. t \in Int
  BY <1>1 DEF t
<1>12. c[1] = months /\ c[2] = RestDays(mark, b, time) - (IF t < 0 THEN 1 ELSE 0)
  <2>1. CASE ~(t < 0)
    <3>1. c = cal /\ (Behind(mark, b, time) <=> short)
      BY <1>5, <2>1
    <3> HIDE DEF c
    <3> QED BY <1>3, <1>6, <1>7, <1>8, <1>9, <1>10, <2>1, <3>1
  <2>2. CASE t < 0 /\ b.day > a.day
    <3>1. ~short /\ ~Behind(mark, b, time)
      BY <1>3, <1>5, <2>2
    <3>2. cal[1] = months /\ cal[2] = RestDays(mark, b, time) /\ cal[2] > 0
      BY <1>3, <1>6, <1>7, <1>8, <1>10, <2>2, <3>1
    <3>3. c = <<cal[1], cal[2] - 1>>
      BY <2>2, <3>2 DEF Borrowed
    <3> HIDE DEF c
    <3> QED BY <2>2, <3>2, <3>3
  <2>3. CASE t < 0 /\ b.day = a.day
    <3>1. ~short /\ Behind(mark, b, time)
      BY <1>3, <1>5, <2>3
    <3>2. cal[1] = raw /\ cal[2] = 0 /\ months = raw - 1 /\ raw > 0
      BY <1>1, <1>3, <1>6, <1>7, <1>10, <2>3, <3>1
    <3>3. c = <<raw - 1, 0 + PreviousMonth(b) - 1>>
      BY <2>3, <3>2 DEF Borrowed
    <3> HIDE DEF c
    <3> QED BY <1>3, <1>8, <2>3, <3>1, <3>2, <3>3
  <2>4. CASE t < 0 /\ b.day < a.day
    <3>1. short /\ Behind(mark, b, time)
      BY <1>5, <2>4
    <3>2. cal[1] = months /\ cal[2] = RestDays(mark, b, time) /\ cal[2] > 0
      BY <1>3, <1>6, <1>7, <1>8, <1>10, <2>4, <3>1
    <3>3. c = <<cal[1], cal[2] - 1>>
      BY <2>4, <3>2 DEF Borrowed
    <3> HIDE DEF c
    <3> QED BY <2>4, <3>2, <3>3
  <2>5. b.day > a.day \/ b.day = a.day \/ b.day < a.day
    BY <1>3
  <2> QED BY <2>1, <2>2, <2>3, <2>4, <2>5
<1>13. left \in Int /\ c[2] \in Int /\ c[1] \in Int
  BY <1>1, <1>9, <1>11, <1>12, Units
<1> HIDE DEF c
<1>14. Length(there) = c[2] * Day + left /\ there.y = Quo(c[1], 12) /\ there.mo = Rem(c[1], 12)
  BY <1>4, <1>13, DaysAndTimeLength
<1>15. 12 * there.y + there.mo = months
  <2>1. 12 * Quo(c[1], 12) + Rem(c[1], 12) = c[1]
    BY <1>13, MonthsSplit
  <2> QED BY <2>1, <1>12, <1>14
<1>16. a.day <= 28 => Length(there) = rest
  <2> DEFINE x == RestDays(mark, b, time)
  <2>1. x \in Int /\ x * Day \in Int /\ (x - 1) * Day = x * Day - Day
    BY <1>9, Units
  <2>2. CASE t < 0
    <3>1. c[2] = x - 1 /\ left = t + Day
      BY <1>12, <2>2
    <3> HIDE DEF x, left
    <3> QED BY <1>9, <1>11, <1>14, <2>1, <3>1, Units DEF x
  <2>3. CASE ~(t < 0)
    <3>1. c[2] = x /\ left = t
      BY <1>9, <1>12, <2>3
    <3> QED BY <1>9, <1>14, <3>1
  <2> QED BY <2>2, <2>3
<1> QED BY <1>15, <1>16 DEF there, a

\* From now back to the mark: minus the time that passed.
LEMMA BetweenBack ==
  ASSUME WatchInv, CalInv, SumInv, TypeInv, mark # NoMark, day # mark.day
  PROVE  LET back == Between(Val(Now), Val(mark))
         IN  back.y = 0 /\ back.mo = 0 /\ Length(back) = -elapsed
<1> DEFINE l == Val(Now)
           r == Val(mark)
           n == mark.day - day
           t == mark.time - time
           back == Between(l, r)
<1>1. /\ day \in Int /\ day = EpochOf(date) /\ mark.day \in Int /\ mark.day = EpochOf(mark.date)
      /\ time \in Int /\ mark.time \in Int /\ mark.day <= day
      /\ elapsed \in Nat /\ elapsed = (day - mark.day) * Day + time - mark.time
  BY WatchFacts
<1>2. EpochDiff(l, r) = n /\ TimeDiff(l, r) = t
  BY <1>1 DEF Val, Now, At, EpochDiff, TimeDiff, TimeOf
<1>3. n \in Int /\ n < 0 /\ t \in Int
  BY <1>1
<1>4. -elapsed = n * Day + t /\ n * Day \in Int /\ (n + 1) * Day = n * Day + Day
  <2> DEFINE k == day - mark.day
  <2>1. k \in Int /\ n = -k
    BY <1>1
  <2>2. elapsed = k * Day + time - mark.time
    BY <1>1
  <2> HIDE DEF k, n
  <2>3. (-k) * Day = -(k * Day) /\ k * Day \in Int
    BY <2>1, Units
  <2>4. (n + 1) * Day = n * Day + Day
    BY <1>3, Units
  <2> QED BY <1>1, <2>1, <2>2, <2>3, <2>4
<1> HIDE DEF l, r, n, t
<1>5. back = IF t > 0 THEN DaysAndTime(0, 0, n + 1, t - Day) ELSE DaysAndTime(0, 0, n, t)
  <2>1. ~(n >= 0)
    BY <1>3
  <2> QED BY <1>2, <2>1 DEF Between
<1> HIDE DEF back
<1>6. CASE t > 0
  <2>1. n + 1 \in Int /\ t - Day \in Int
    BY <1>3, Units
  <2>2. back.y = 0 /\ back.mo = 0 /\ Length(back) = (n + 1) * Day + (t - Day)
    BY <1>5, <1>6, <2>1, DaysAndTimeLength
  <2> QED BY <1>3, <1>4, <2>2, Units DEF back, l, r
<1>7. CASE ~(t > 0)
  <2>1. back.y = 0 /\ back.mo = 0 /\ Length(back) = n * Day + t
    BY <1>3, <1>5, <1>7, DaysAndTimeLength
  <2> QED BY <1>4, <2>1 DEF back, l, r
<1> QED BY <1>6, <1>7

\* Any moment and any later one: duration.between names the whole months, where
\* BetweenCounts claims them, and the time since the last of them if the mark's
\* day is in every month, and backwards minus the time that passed.
THEOREM DifferencesCounted == Spec => []BetweenCounts
<1>1. WatchInv /\ CalInv /\ SumInv /\ TypeInv => BetweenCounts
  <2> SUFFICES ASSUME WatchInv, CalInv, SumInv, TypeInv, mark # NoMark PROVE BetweenCounts
    BY DEF BetweenCounts
  <2>1. mark.date.day <= 28 => MonthsClaimed
    <3>1. ValidDate(mark.date) /\ ValidDate(date)
      BY WatchFacts
    <3> QED BY <3>1, ValidInts DEF MonthsClaimed
  <2> QED BY <2>1, BetweenForward, BetweenBack DEF BetweenCounts
<1> QED BY <1>1, WatchAlways, CalAlways, SumAlways, TypeAlways, PTL

-----------------------------------------------------------------------------
(* The parts of a date and of a time, and the periods they begin. *)

\* The weekday of a date in the week of the mark is all a map needs.
LEMMA SameWeek ==
  ASSUME WatchInv, CalInv, SumInv, TypeInv, BeganInv,
         mark # NoMark, day - mark.day < 8 - DayOfWeek(mark.day)
  PROVE  WeekToDate(IsoWeek(mark.date).year, IsoWeek(mark.date).week, weekday) = date
<1> DEFINE i == IsoWeekYear(mark.date)
           v == WeekOne(i)
           n == mark.day
           k == (n - v) \div 7
           x == v + ((k + 1) - 1) * 7
<1>1. /\ n \in Int /\ day \in Int /\ n <= day /\ n = EpochOf(mark.date)
      /\ ValidDate(date) /\ day = EpochOf(date)
  BY WatchFacts
<1>2. day - n < 8 - DayOfWeek(n)
  OBVIOUS
<1>3. IsoWeek(mark.date).year = i /\ IsoWeek(mark.date).week = k + 1
  BY <1>1 DEF IsoWeek
<1>4. DayOfWeek(n) = ((n - 1) % 7) + 1 /\ weekday = ((day - 1) % 7) + 1
  BY DEF DayOfWeek, BeganInv
<1>5. i \in Int
  <2>1. i = FromEpoch(n + (4 - DayOfWeek(n))).year
    BY <1>1 DEF IsoWeekYear
  <2>2. n + (4 - DayOfWeek(n)) \in Int
    <3> HIDE DEF n
    <3> QED BY <1>1, <1>4
  <2> HIDE DEF i
  <2> QED BY <2>1, <2>2, EpochYearInt
<1> HIDE DEF i
<1>6. v \in Int /\ (v - 1) % 7 = 0
  BY <1>5, WeekOneMonday
<1>7. x + (DayOfWeek(n) - 1) = n
  <2> HIDE DEF v, n
  <2> QED BY <1>1, <1>6, WeeksAndDays
<1>8. k \in Int
  <2> HIDE DEF v, n
  <2> QED BY <1>1, <1>6
<1>9. WeekToDate(i, k + 1, weekday) = FromEpoch(x + (weekday - 1))
  BY DEF WeekToDate
<1> HIDE DEF v, n, k
<1>10. x \in Int
  BY <1>6, <1>8
<1> HIDE DEF x
<1>11. x + (weekday - 1) = day
  <2> DEFINE a == (n - 1) \div 7
             r == (n - 1) % 7
             j == day - n
  <2>1. a \in Int /\ r \in 0 .. 6 /\ n = 7 * a + r + 1
    BY <1>1
  <2>2. DayOfWeek(n) = r + 1
    BY <1>4
  <2>3. j \in Int /\ day = n + j /\ 0 <= j
    BY <1>1
  <2> HIDE DEF a, r, j
  <2>4. j < 7 - r
    BY <1>2, <2>1, <2>2, <2>3 DEF j
  <2>5. (day - 1) % 7 = r + j
    <3>1. day - 1 = 7 * a + (r + j) /\ r + j \in 0 .. 6
      BY <1>1, <2>1, <2>3, <2>4
    <3> QED BY <1>1, <2>1, <2>3, <3>1
  <2>6. weekday = r + j + 1
    BY <1>4, <2>5
  <2> QED BY <1>7, <1>10, <2>1, <2>2, <2>3, <2>6
<1>12. FromEpoch(day) = date
  <2>1. FromEpoch(Epoch(date.year, date.month, date.day)) = D(date.year, date.month, date.day)
    BY FromEpochEpoch DEF CalInv, ValidDate
  <2> QED BY <2>1 DEF CalInv, ValidDate, EpochOf
<1> QED BY <1>3, <1>9, <1>11, <1>12

\* On every day the clock can reach: the week, the week-year, the quarter and
\* the days of the year and of the quarter that the code reads off the date
\* are those counted, and each way to write a date map, with or without a
\* base, means the date.
THEOREM PartsCounted == Spec => []CountedParts
<1>1. WatchInv /\ CalInv /\ SumInv /\ TypeInv /\ BeganInv /\ PartsRebuild => CountedParts
  <2> SUFFICES ASSUME WatchInv, CalInv, SumInv, TypeInv, BeganInv, PartsRebuild PROVE CountedParts
    OBVIOUS
  <2> DEFINE y == date.year
             byDay == [year |-> y, ordinalDay |-> Parts.ordinal]
             byQuarter == [year |-> y, quarter |-> Parts.q, dayOfQuarter |-> Parts.doq]
             byMonth == [year |-> y, month |-> date.month, day |-> date.day]
             byWeek == [year |-> WeekParts.year, week |-> WeekParts.week, dayOfWeek |-> weekday]
  <2>1. /\ Parts.ordinal = DaysBefore(y, date.month) + date.day
        /\ Parts.doq = DayOfQuarter(date) /\ Parts.q = QuarterOf(date)
    BY PartsFacts
  <2>2. D(y, date.month, date.day) = date
    BY DEF CalInv, ValidDate
  <2>3. OrdinalToMd(y, Parts.ordinal) = date /\ QuarterToMd(y, Parts.q, Parts.doq) = date
    BY <2>1 DEF PartsRebuild
  <2>4. ASSUME NEW m \in {byDay, byQuarter, byMonth}
        PROVE  DateFromMap(m) = date /\ \A b \in Bases : DateFromBase(b, m) = date
    <3>1. DateFromMap(byDay) = date /\ \A b \in Bases : DateFromBase(b, byDay) = date
      <4> HIDE DEF y
      <4> QED BY <2>3, MapsByDay
    <3>2. DateFromMap(byQuarter) = date /\ \A b \in Bases : DateFromBase(b, byQuarter) = date
      <4> HIDE DEF y
      <4> QED BY <2>3, MapsByQuarter
    <3>3. DateFromMap(byMonth) = date /\ \A b \in Bases : DateFromBase(b, byMonth) = date
      <4> HIDE DEF y
      <4> QED BY <2>2, MapsByMonth
    <3> HIDE DEF byDay, byQuarter, byMonth
    <3> QED BY <3>1, <3>2, <3>3
  <2>5. ASSUME "weekYear" \in DOMAIN began
        PROVE  /\ IsoWeek(date) = WeekParts
               /\ DateFromMap(byWeek) = date
               /\ \A b \in Bases : DateFromBase(b, byWeek) = date
    <3>1. IsoWeek(date) = WeekParts
      BY <2>5, WeekFacts
    <3>2. WeekToDate(IsoWeek(date).year, IsoWeek(date).week, IsoWeek(date).dow) = date
      BY DEF PartsRebuild
    <3>3. WeekParts.dow = weekday
      BY DEF WeekParts
    <3>4. WeekToDate(WeekParts.year, WeekParts.week, weekday) = date
      BY <3>1, <3>2, <3>3
    <3>5. DateFromMap(byWeek) = date /\ \A b \in Bases : DateFromBase(b, byWeek) = date
      <4> DEFINE w == WeekParts.year
                 k == WeekParts.week
      <4>1. byWeek = [year |-> w, week |-> k, dayOfWeek |-> weekday] /\ WeekToDate(w, k, weekday) = date
        BY <3>4
      <4> HIDE DEF y, byDay, byQuarter, byMonth, byWeek, w, k
      <4>2. ASSUME NEW b PROVE DateFromMap(byWeek) = date /\ DateFromBase(b, byWeek) = date
        BY <4>1, MapsByWeek
      <4> QED BY <4>2
    <3> QED BY <3>1, <3>5
  <2>6. ASSUME mark # NoMark, day - mark.day < 8 - DayOfWeek(mark.day)
        PROVE  DateFromBase(mark.date, [dayOfWeek |-> weekday]) = date
    BY <2>6, SameWeek, MapsByWeekday
  <2> HIDE DEF byDay, byQuarter, byMonth, byWeek
  <2> QED BY <2>4, <2>5, <2>6 DEF CountedParts, byDay, byQuarter, byMonth, byWeek
<1> QED BY <1>1, WatchAlways, CalAlways, SumAlways, TypeAlways, BeganAlways, DatesRebuilt, PTL

\* Division of a number that is not negative.
LEMMA NatDivision ==
  ASSUME NEW a \in Nat, NEW b \in Nat \ {0}
  PROVE  a \div b \in Nat /\ a % b \in Nat /\ a = (a \div b) * b + (a % b)
  OBVIOUS

\* What is left of a time is the same whichever unit was taken off before.
LEMMA UnitInUnit ==
  ASSUME NEW t \in Nat, NEW c \in Nat \ {0}, NEW b \in Nat \ {0}, b = 60 * c
  PROVE  (t % b) % c = t % c /\ (\A q \in Nat : (q * b) % c = 0)
<1>0. t \div b \in Nat /\ t % b \in 0 .. b - 1 /\ t = (t \div b) * b + (t % b)
  OBVIOUS
<1> DEFINE q == t \div b
           r == t % b
           x == r \div c
           s == r % c
           k == 60
<1>1. q \in Int /\ r \in Nat /\ t = q * b + r
  BY <1>0
<1> HIDE DEF q, r
<1>2. x \in Int /\ s \in 0 .. c - 1 /\ r = x * c + s
  <2>1. r \in Int
    BY <1>1
  <2> QED BY <2>1, Division
<1> HIDE DEF x, s
<1>3. q * k \in Int /\ q * b = (q * k) * c
  BY <1>1
<1>4. t = (q * k + x) * c + s /\ q * k + x \in Int
  <2> DEFINE u == q * k
  <2>1. u \in Int /\ q * b = u * c
    BY <1>3
  <2> HIDE DEF u
  <2>2. (u + x) * c = u * c + x * c /\ u * c \in Int /\ x * c \in Int /\ s \in Int
    BY <1>2, <2>1
  <2>3. t = (u + x) * c + s
    BY <1>1, <1>2, <2>1, <2>2
  <2> QED BY <1>2, <2>1, <2>3 DEF u
<1>5. t % c = s
  <2> DEFINE u == q * k + x
  <2>1. u \in Int /\ t = u * c + s
    BY <1>4
  <2> HIDE DEF u
  <2> QED BY <1>2, <2>1, Divided
<1>6. ASSUME NEW p \in Nat PROVE (p * b) % c = 0
  <2> DEFINE u == p * k
             a == p * b
  <2>1. u \in Int /\ a \in Int /\ a = u * c
    OBVIOUS
  <2> HIDE DEF u, a
  <2>2. a = u * c + 0 /\ 0 \in 0 .. c - 1 /\ a \in Int
    <3>1. u * c \in Int
      BY <2>1
    <3> QED BY <2>1, <3>1
  <2> QED BY <2>1, <2>2, Divided DEF a
<1> QED BY <1>5, <1>6 DEF r, s

\* A minute is made of seconds and an hour of minutes.
LEMMA HoursAndMinutes ==
  ASSUME NEW t \in Nat
  PROVE  /\ (t % Hour) % Minute = t % Minute /\ (t % Minute) % Ns = t % Ns
         /\ \A q \in Nat : (q * Hour) % Minute = 0
<1>1. Ns \in Nat \ {0} /\ Minute \in Nat \ {0} /\ Hour \in Nat \ {0}
  BY Units
<1>2. Minute = 60 * Ns
  BY DEF Minute
<1>3. Hour = 60 * Minute
  BY DEF Hour, Minute
<1>4. (t % Minute) % Ns = t % Ns
  BY <1>1, <1>2, UnitInUnit, ZenonT(40)
<1>5. (t % Hour) % Minute = t % Minute /\ \A q \in Nat : (q * Hour) % Minute = 0
  BY <1>1, <1>3, UnitInUnit, ZenonT(40)
<1> QED BY <1>4, <1>5

\* The hours, the minutes and the seconds of a time, and what is below them.
LEMMA TimeTaken ==
  ASSUME NEW t \in Nat
  PROVE  LET h == t \div Hour
             i == (t % Hour) \div Minute
             s == (t % Minute) \div Ns
         IN  /\ h * Hour = t - (t % Hour)
             /\ (h * Hour) + i * Minute = t - (t % Minute)
             /\ ((h * Hour) + i * Minute) + s * Ns = t - (t % Ns)
             /\ (h * Hour) % Hour = 0 /\ (h * Hour) % Minute = 0
             /\ ((h * Hour) + i * Minute) % Minute = 0 /\ ((h * Hour) + i * Minute) % Ns = 0
             /\ h * Hour \in Int /\ i * Minute \in Int /\ s * Ns \in Int
<1> DEFINE h == t \div Hour
           i == (t % Hour) \div Minute
           s == (t % Minute) \div Ns
           th == t % Hour
           tm == t % Minute
           tn == t % Ns
           H == h * Hour
           M == i * Minute
           S == s * Ns
<1>0. Hour = 60 * Minute /\ Minute = 60 * Ns
  BY DEF Hour, Minute
<1>1. Ns \in Nat \ {0} /\ Minute \in Nat \ {0} /\ Hour \in Nat \ {0}
  BY Units
<1>2. h \in Nat /\ th \in Nat /\ t = H + th
  BY <1>1, NatDivision
<1>3. i \in Nat /\ th % Minute \in Nat /\ th = M + (th % Minute)
  <2> HIDE DEF th
  <2> QED BY <1>1, <1>2, NatDivision DEF th
<1>4. tm \in Nat
  BY <1>1, NatDivision
<1>5. s \in Nat /\ tm % Ns \in Nat /\ tm = S + (tm % Ns)
  <2> HIDE DEF tm
  <2> QED BY <1>1, <1>4, NatDivision DEF tm
<1>6. th % Minute = tm /\ H % Minute = 0
  <2> HIDE DEF h, i, s, tm, tn, H, M, S, th
  <2>1. (t % Hour) % Minute = t % Minute
    BY HoursAndMinutes
  <2>2. \A q \in Nat : (q * Hour) % Minute = 0
    BY HoursAndMinutes
  <2>3. (h * Hour) % Minute = 0
    BY <1>2, <2>2
  <2> QED BY <2>1, <2>3 DEF H, th, tm
<1>7. tm % Ns = tn
  <2> HIDE DEF h, i, s, tm, tn, H, M, S, th
  <2>2. (t % Minute) % Ns = t % Ns
    BY HoursAndMinutes
  <2> QED BY <2>2 DEF tm, tn
<1>8. H \in Nat /\ M \in Nat /\ S \in Nat /\ tn \in Nat
  <2>1. tn \in Nat
    BY <1>1
  <2> HIDE DEF h, i, s
  <2> QED BY <1>1, <1>2, <1>3, <1>5, <2>1
<1>9. H % Hour = 0
  <2> HIDE DEF h
  <2>1. H = h * Hour + 0 /\ 0 \in 0 .. Hour - 1 /\ H \in Int /\ h \in Int
    BY <1>1, <1>2, <1>8
  <2> HIDE DEF H
  <2> QED BY <1>1, <2>1, Divided
<1>10. (H + M) % Minute = 0 /\ (H + M) % Ns = 0
  <2> DEFINE x == 60 * h + i
             y == 60 * x
             z == H + M
  <2>1. x \in Int /\ y \in Int /\ x * Minute = z /\ y * Ns = z
    <3> HIDE DEF h, i
    <3>1. x \in Int /\ H = (60 * h) * Minute /\ (60 * h) * Minute \in Int /\ i * Minute \in Int
      BY <1>0, <1>1, <1>2, <1>3
    <3>2. x * Minute = (60 * h) * Minute + i * Minute
      BY <1>1, <1>2, <1>3
    <3>3. x * Minute = z
      BY <3>1, <3>2
    <3>4. y * Ns = x * Minute
      <4> HIDE DEF x
      <4> QED BY <1>0, <1>1, <3>1
    <3>5. y \in Int
      <4> HIDE DEF x
      <4> QED BY <3>1
    <3> QED BY <3>1, <3>3, <3>4, <3>5
  <2> HIDE DEF x, y, H, M
  <2>2. z \in Int /\ z = x * Minute + 0 /\ z = y * Ns + 0
    BY <1>1, <1>8, <2>1
  <2>3. 0 \in 0 .. Minute - 1 /\ 0 \in 0 .. Ns - 1
    BY <1>1
  <2> HIDE DEF z
  <2>4. z % Minute = 0
    BY <1>1, <2>1, <2>2, <2>3, Divided
  <2>5. z % Ns = 0
    BY <1>1, <2>1, <2>2, <2>3, Divided
  <2> QED BY <2>4, <2>5 DEF z
<1> HIDE DEF h, i, s, th, tm, tn
<1>11. H = t - th /\ H + M = t - tm /\ (H + M) + S = t - tn
  <2> HIDE DEF H, M, S
  <2> QED BY <1>2, <1>3, <1>4, <1>5, <1>6, <1>7, <1>8
<1> QED BY <1>6, <1>8, <1>9, <1>10, <1>11 DEF h, i, s, th, tm, tn

\* Cutting a moment off at a period of the calendar gives the midnight that
\* period began at, and the parts that were cut off (the weekday, the month
\* and the day, the hour, the minute and the second) give the moment back.
THEOREM PeriodsBegun == Spec => []PeriodStarts
<1>1. CalInv /\ SumInv /\ BeganInv => PeriodStarts
  <2> SUFFICES ASSUME CalInv, SumInv, BeganInv PROVE PeriodStarts
    OBVIOUS
  <2> DEFINE y == date.year
             m == date.month
             d == date.day
             h == time \div Hour
             i == (time % Hour) \div Minute
             s == (time % Minute) \div Ns
             H == h * Hour
             M == i * Minute
             S == s * Ns
  <2>1. date = D(y, m, d) /\ day \in Int /\ EpochOf(date) = day /\ weekday = DayOfWeek(day) /\ Now = At(date, time)
    BY ValidInts DEF CalInv, BeganInv, ValidDate, Now
  <2>2. time \in Nat
    BY TimesBelowDay DEF SumInv
  <2>3. FromEpoch(day) = date
    <3>1. FromEpoch(Epoch(y, m, d)) = D(y, m, d)
      BY FromEpochEpoch DEF CalInv, ValidDate
    <3> QED BY <3>1, <2>1 DEF EpochOf
  <2>4. \A p \in DOMAIN began : Truncate(p, Now) = At(began[p].date, 0)
    BY BegunTruncates
  <2>5. Override(Truncate("week", Now), "dayOfWeek", weekday) = At(date, 0)
    <3> DEFINE k == day - (weekday - 1)
               f == FromEpoch(k)
    <3>1. weekday \in Int
      BY <2>1 DEF DayOfWeek
    <3>2. Truncate("week", Now) = At(f, 0)
      <4>1. "week" \in Periods
        BY DEF Periods
      <4>2. Truncate("week", Now) = At(StartDate("week", date), 0)
        BY <2>1, <4>1, Truncated
      <4>3. StartDate("week", date) = f
        BY <2>1 DEF StartDate
      <4> QED BY <4>2, <4>3
    <3>3. k \in Int
      BY <2>1, <3>1
    <3>4. EpochOf(f) = k
      <4> HIDE DEF k
      <4> QED BY <3>3, EpochFromEpoch
    <3>5. EpochOf(f) + weekday - 1 = day
      BY <2>1, <3>1, <3>4
    <3>6. Override(At(f, 0), "dayOfWeek", weekday) = At(FromEpoch(EpochOf(f) + weekday - 1), 0)
      BY PartsOverridden
    <3> QED BY <2>3, <3>2, <3>5, <3>6
  <2>6. Override(Override(Truncate("year", Now), "month", m), "day", d) = At(date, 0)
    <3>1. Truncate("year", Now) = At(D(y, 1, 1), 0)
      <4>1. "year" \in Periods
        BY DEF Periods
      <4>2. Truncate("year", Now) = At(StartDate("year", date), 0)
        BY <2>1, <4>1, Truncated
      <4> QED BY <4>2 DEF StartDate
    <3> HIDE DEF y, m, d
    <3>2. Override(At(D(y, 1, 1), 0), "month", m) = At(D(y, m, 1), 0)
      BY OverriddenDate
    <3>3. Override(At(D(y, m, 1), 0), "day", d) = At(D(y, m, d), 0)
      BY OverriddenDate
    <3> QED BY <2>1, <3>1, <3>2, <3>3
  <2>7. /\ H = time - (time % Hour) /\ H + M = time - (time % Minute) /\ (H + M) + S = time - (time % Ns)
        /\ H % Hour = 0 /\ H % Minute = 0 /\ (H + M) % Minute = 0 /\ (H + M) % Ns = 0
        /\ H \in Int /\ M \in Int /\ S \in Int
    BY <2>2, TimeTaken
  <2>8. /\ Truncate("day", Now) = At(date, 0)
        /\ Truncate("hour", Now) = At(date, H)
        /\ Truncate("minute", Now) = At(date, H + M)
        /\ Truncate("second", Now) = At(date, (H + M) + S)
    <3> HIDE DEF H, M, S
    <3> QED BY <2>1, <2>7, TruncatedTime
  <2>9. Override(At(date, 0), "hour", h) = At(date, H)
    <3>1. 0 % Hour = 0
      BY Units
    <3>2. Override(At(date, 0), "hour", h) = At(date, h * Hour + (0 % Hour))
      BY PartsOverridden
    <3>3. h * Hour + (0 % Hour) = H
      <4> HIDE DEF h
      <4> QED BY <2>7, <3>1
    <3> QED BY <3>2, <3>3
  <2>10. Override(At(date, H), "minute", i) = At(date, H + M)
    <3>1. Override(At(date, H), "minute", i) = At(date, H - (H % Hour) + i * Minute + (H % Minute))
      BY PartsOverridden
    <3>2. H - (H % Hour) + i * Minute + (H % Minute) = H + M
      <4>1. H - (H % Hour) + M + (H % Minute) = H + M
        <5> HIDE DEF H, M
        <5> QED BY <2>7
      <4> QED BY <4>1
    <3> QED BY <3>1, <3>2
  <2>11. Override(At(date, H + M), "second", s) = At(date, (H + M) + S)
    <3> DEFINE x == H + M
    <3>1. Override(At(date, x), "second", s) = At(date, x - (x % Minute) + s * Ns + (x % Ns))
      BY PartsOverridden
    <3>2. x - (x % Minute) + S + (x % Ns) = x + S
      <4> HIDE DEF H, M, S
      <4>1. x \in Int /\ x % Minute = 0 /\ x % Ns = 0 /\ S \in Int
        BY <2>7
      <4> HIDE DEF x
      <4> QED BY <4>1
    <3> QED BY <3>1, <3>2
  <2> HIDE DEF y, m, d, h, i, s, H, M, S
  <2>12. Override(Override(Override(Truncate("day", Now), "hour", h), "minute", i), "second", s)
           = Truncate("second", Now)
    BY <2>8, <2>9, <2>10, <2>11
  <2>13. Override(Truncate("hour", Now), "minute", i) = Truncate("minute", Now)
    BY <2>8, <2>10
  <2> QED BY <2>4, <2>5, <2>6, <2>12, <2>13 DEF PeriodStarts, y, m, d, h, i, s
<1> QED BY <1>1, CalAlways, SumAlways, BeganAlways, PTL
=============================================================================
