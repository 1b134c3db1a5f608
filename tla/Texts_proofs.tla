---------------------------- MODULE Texts_proofs ----------------------------
(***************************************************************************)
(* The texts of the manifest and of checkpoint_time, for any word, any     *)
(* units of time and any calendar: a duration is accepted as the amount    *)
(* its grammar gives it, and a time as the instant it is the rendering of, *)
(* and times are in the same order as texts and as instants.               *)
(***************************************************************************)
EXTENDS CheckpointTime, SequenceTheorems, TLAPS

-----------------------------------------------------------------------------
(* Powers of ten, quotients and the largest of a set.                      *)

PowerValue(p, f, k) == IF k = 0 THEN 1 ELSE 10 * f[k - 1]
Order == INSTANCE Order_proofs WITH Value <- PowerValue

LEMMA PowersOfTen ==
    /\ PowerOfTen[0] = 1
    /\ \A k \in Nat : PowerOfTen[k] \in Nat \ {0} /\ PowerOfTen[k + 1] = 10 * PowerOfTen[k]
<1> DEFINE IsPowers(f) == f = [k \in Nat |-> PowerValue(0, f, k)]
<1>1. \E f : IsPowers(f)
  <2>1. Order!LooksBelow(0, Nat)
    BY DEF Order!LooksBelow, PowerValue
  <2> QED BY <2>1, Order!RecursiveFunction DEF Order!IsRecursive
<1>2. IsPowers(PowerOfTen)
  <2>1. PowerOfTen = CHOOSE f : IsPowers(f)
    BY DEF PowerOfTen, PowerValue
  <2> QED BY <1>1, <2>1
<1>3. PowerOfTen[0] = 1 /\ \A k \in Nat : PowerOfTen[k + 1] = 10 * PowerOfTen[k]
  BY <1>2 DEF PowerValue
<1> DEFINE S == {k \in Nat : PowerOfTen[k] \in Nat \ {0}}
<1>4. \A k \in Nat : k \in S
  <2>1. 0 \in S /\ \A k \in S : k + 1 \in S
    BY <1>3
  <2>2. S \in SUBSET Nat
    OBVIOUS
  <2> HIDE DEF S
  <2> QED BY <2>1, <2>2, Order!EveryNatural
<1> QED BY <1>3, <1>4

LEMMA PowersMultiply ==
    ASSUME NEW m \in Nat, NEW n \in Nat
    PROVE  PowerOfTen[m + n] = PowerOfTen[m] * PowerOfTen[n]
<1> DEFINE S == {k \in Nat : PowerOfTen[m + k] = PowerOfTen[m] * PowerOfTen[k]}
<1>1. 0 \in S
  BY PowersOfTen
<1>2. ASSUME NEW k \in S PROVE k + 1 \in S
  <2>1. m + (k + 1) = (m + k) + 1 /\ m + k \in Nat
    OBVIOUS
  <2>2. PowerOfTen[m + (k + 1)] = 10 * (PowerOfTen[m] * PowerOfTen[k])
    BY <2>1, PowersOfTen
  <2>3. PowerOfTen[k + 1] = 10 * PowerOfTen[k] /\ PowerOfTen[k] \in Nat /\ PowerOfTen[m] \in Nat
    BY PowersOfTen
  <2> QED BY <2>2, <2>3
<1>3. S \in SUBSET Nat
  OBVIOUS
<1>4. n \in S
  <2> HIDE DEF S
  <2> QED BY <1>1, <1>2, <1>3, Order!EveryNatural
<1> QED BY <1>4

LEMMA PerSecond == NanosPerSecond \in Nat \ {0}
BY DurationAssumption, PowersOfTen DEF NanosPerSecond

(* A number is its quotient and its remainder.                             *)
LEMMA Divided ==
    ASSUME NEW n \in Nat, NEW d \in Nat \ {0}
    PROVE  n \div d \in Nat /\ n % d \in 0 .. d - 1 /\ n = (n \div d) * d + (n % d)
<1>1. n % d \in 0 .. d - 1
  OBVIOUS
<1>2. n = d * (n \div d) + (n % d)
  OBVIOUS
<1>3. n \div d \in Nat
  OBVIOUS
<1> QED BY <1>1, <1>2, <1>3

(* Quotient and remainder are the only such numbers.                       *)
LEMMA DividedOnce ==
    ASSUME NEW q \in Int, NEW d \in Nat \ {0}, NEW r \in 0 .. d - 1
    PROVE  (q * d + r) \div d = q /\ (q * d + r) % d = r
OBVIOUS

(* Numbers between two bounds, if there are any, have a largest.           *)
LEMMA LargestExists ==
    ASSUME NEW a \in Nat, NEW b \in Nat, NEW S \in SUBSET (a .. b), S # {}
    PROVE  Max(S) \in S /\ \A k \in S : k <= Max(S)
<1> DEFINE below == {b - k : k \in S}
<1>1. PICK n \in below : \A m \in below : n <= m
  <2>1. \A k \in S : b - k \in Nat
    OBVIOUS
  <2>2. below \in SUBSET Nat /\ below # {}
    BY <2>1
  <2> HIDE DEF below
  <2> QED BY <2>2, Order!LeastNatural
<1>2. PICK k \in S : n = b - k
  OBVIOUS
<1>3. \A j \in S : k >= j
  <2> SUFFICES ASSUME NEW j \in S PROVE k >= j
    OBVIOUS
  <2>1. b - k <= b - j
    BY <1>1, <1>2
  <2> QED BY <2>1
<1>4. Max(S) \in S /\ \A j \in S : Max(S) >= j
  BY <1>2, <1>3 DEF Max
<1> QED BY <1>4

LEMMA QuotientBelow ==
    ASSUME NEW n \in Nat, NEW e \in Nat, NEW d \in Nat \ {0}, n < e, e % d = 0
    PROVE  n \div d < e \div d
<1> DEFINE q == n \div d
           u == e \div d
<1>1. q \in Nat /\ u \in Nat /\ q * d <= n /\ e = u * d
  BY Divided
<1> HIDE DEF q, u
<1>2. ASSUME q >= u PROVE FALSE
  <2>1. PICK k \in Nat : q = u + k
    <3>1. q - u \in Nat /\ q = u + (q - u)
      BY <1>1, <1>2
    <3> QED BY <3>1
  <2>2. q * d = u * d + k * d /\ k * d \in Nat
    BY <1>1, <2>1
  <2> QED BY <1>1, <2>2
<1>3. q < u
  BY <1>1, <1>2
<1> QED BY <1>3 DEF q, u

(* The remainder by a divisor of e is not changed by taking that by e.     *)
LEMMA NestedRemainder ==
    ASSUME NEW n \in Nat, NEW e \in Nat \ {0}, NEW d \in Nat \ {0}, e % d = 0
    PROVE  (n % e) % d = n % d
<1> DEFINE q == n \div e
           r == n % e
           u == e \div d
           v == r \div d
           w == r % d
<1>1. q \in Nat /\ r \in Nat /\ n = q * e + r
  BY Divided
<1>2. u \in Nat /\ e = u * d
  BY Divided
<1>3. v \in Nat /\ w \in 0 .. d - 1 /\ r = v * d + w
  BY <1>1, Divided
<1> HIDE DEF q, r, u, v, w
<1>4. n = (q * u + v) * d + w /\ q * u + v \in Int
  BY <1>1, <1>2, <1>3
<1>5. n % d = w
  BY <1>3, <1>4, DividedOnce
<1> QED BY <1>5 DEF w, r

-----------------------------------------------------------------------------
(* The calendar.                                                           *)

(* Of the instant n: the day, and the seconds of it.                       *)
Days(n) == n \div NanosPerDay
SecondsIn(n) == (n % NanosPerDay) \div NanosPerSecond

LEMMA PerDay == NanosPerDay \in Nat \ {0} /\ NanosPerDay % NanosPerSecond = 0
<1>1. SecondsPerDay \in Nat \ {0} /\ NanosPerSecond \in Nat \ {0}
  BY DurationAssumption, PerSecond
<1>2. NanosPerDay = SecondsPerDay * NanosPerSecond + 0
  BY <1>1 DEF NanosPerDay
<1>3. NanosPerDay % NanosPerSecond = 0
  BY <1>1, <1>2, DividedOnce
<1>4. SecondsPerDay * NanosPerSecond > 0
  BY <1>1
<1> QED BY <1>1, <1>2, <1>3, <1>4

LEMMA DaysAndSeconds ==
    ASSUME NEW n \in Nat
    PROVE  /\ Days(n) \in Nat /\ SecondsIn(n) \in 0 .. SecondsPerDay - 1
           /\ n = Days(n) * NanosPerDay + SecondsIn(n) * NanosPerSecond + (n % NanosPerSecond)
<1> DEFINE rest == n % NanosPerDay
<1>1. Days(n) \in Nat /\ rest \in 0 .. NanosPerDay - 1 /\ n = Days(n) * NanosPerDay + rest
  BY PerDay, Divided DEF Days
<1>2. rest \in Nat /\ rest % NanosPerSecond = n % NanosPerSecond
  <2>1. rest \in Nat
    BY <1>1, PerDay
  <2>2. rest % NanosPerSecond = n % NanosPerSecond
    BY PerDay, PerSecond, NestedRemainder
  <2> QED BY <2>1, <2>2
<1>3. /\ SecondsIn(n) \in Nat
      /\ rest = SecondsIn(n) * NanosPerSecond + (rest % NanosPerSecond)
  BY <1>2, PerSecond, Divided DEF SecondsIn
<1>4. NanosPerDay \div NanosPerSecond = SecondsPerDay
  <2>1. SecondsPerDay \in Int /\ 0 \in 0 .. NanosPerSecond - 1
    BY DurationAssumption, PerSecond
  <2>2. NanosPerDay = SecondsPerDay * NanosPerSecond + 0
    BY DurationAssumption, PerSecond DEF NanosPerDay
  <2> QED BY <2>1, <2>2, PerSecond, DividedOnce
<1>5. SecondsIn(n) < SecondsPerDay
  <2> HIDE DEF rest
  <2>1. rest \in Nat /\ rest < NanosPerDay /\ NanosPerDay \in Nat
    BY <1>1, <1>2, PerDay
  <2>2. rest \div NanosPerSecond < NanosPerDay \div NanosPerSecond
    BY <2>1, PerDay, PerSecond, QuotientBelow
  <2> QED BY <2>2, <1>4 DEF SecondsIn, rest
<1>6. SecondsPerDay \in Nat
  BY DurationAssumption
<1> HIDE DEF rest
<1>7. n = Days(n) * NanosPerDay + (SecondsIn(n) * NanosPerSecond + (n % NanosPerSecond))
  BY <1>1, <1>2, <1>3
<1>8. /\ Days(n) * NanosPerDay \in Nat /\ SecondsIn(n) * NanosPerSecond \in Nat
      /\ n % NanosPerSecond \in Nat
  BY <1>1, <1>3, PerDay, PerSecond
<1> QED BY <1>1, <1>3, <1>5, <1>6, <1>7, <1>8

YearOf(n) == Max({y \in EpochYear .. LastYear : YearStart[y] <= Days(n)})
DayOf(n) == Days(n) - YearStart[YearOf(n)]
MonthOf(n) == Max({m \in Months(YearOf(n)) : MonthStart[YearOf(n)][m] <= DayOf(n)})

LEMMA FieldsAre ==
    ASSUME NEW n
    PROVE  Fields(n) =
              << YearOf(n), MonthOf(n), DayOf(n) - MonthStart[YearOf(n)][MonthOf(n)] + 1,
                 SecondsIn(n) \div SecondsPerHour,
                 (SecondsIn(n) % SecondsPerHour) \div SecondsPerMinute,
                 SecondsIn(n) % SecondsPerMinute,
                 n % NanosPerSecond >>
BY DEF Fields, YearOf, DayOf, MonthOf, Days, SecondsIn

(* The year of an instant has its day.                                     *)
LEMMA YearHasTheDay ==
    ASSUME NEW n \in 0 .. LastInstant
    PROVE  /\ YearOf(n) \in EpochYear .. LastYear
           /\ YearOf(n) \in Years /\ YearOf(n) + 1 \in Years
           /\ DayOf(n) \in Nat
           /\ DayOf(n) < MonthStart[YearOf(n)][Len(MonthStart[YearOf(n)])]
<1> DEFINE begun == {y \in EpochYear .. LastYear : YearStart[y] <= Days(n)}
<1>1. n \in Nat /\ n <= LastInstant /\ LastInstant \in Nat
  BY CalendarAssumption
<1>2. Days(n) \in Nat /\ Days(n) * NanosPerDay <= n
  <2>1. /\ Days(n) \in Nat /\ n % NanosPerDay \in 0 .. NanosPerDay - 1
        /\ n = Days(n) * NanosPerDay + (n % NanosPerDay)
    BY <1>1, PerDay, Divided DEF Days
  <2>2. Days(n) * NanosPerDay \in Nat /\ n % NanosPerDay \in Nat
    BY <2>1, PerDay
  <2> QED BY <2>1, <2>2
<1>3. EpochYear \in begun
  BY <1>2, CalendarAssumption
<1>4. YearOf(n) \in begun /\ \A y \in begun : y <= YearOf(n)
  <2>1. begun \in SUBSET (EpochYear .. LastYear) /\ begun # {}
    BY <1>3
  <2>2. EpochYear \in Nat /\ LastYear \in Nat
    BY CalendarAssumption
  <2> HIDE DEF begun
  <2>3. Max(begun) \in begun /\ \A y \in begun : y <= Max(begun)
    BY <2>1, <2>2, LargestExists
  <2> QED BY <2>3 DEF YearOf, begun
<1> DEFINE year == YearOf(n)
<1>5. year \in EpochYear .. LastYear /\ YearStart[year] <= Days(n)
  BY <1>4
<1>6. year \in Years /\ year + 1 \in Years
  <2>1. EpochYear \in Nat /\ LastYear \in Nat
    BY CalendarAssumption
  <2> HIDE DEF year, begun
  <2> QED BY <2>1, <1>5 DEF Years
<1>7. YearStart[year] \in Int /\ YearStart[year + 1] \in Int
  BY <1>6, CalendarAssumption
<1>8. Days(n) < YearStart[year + 1]
  <2>1. CASE year + 1 \in EpochYear .. LastYear
    <3>1. year + 1 \notin begun
      <4> HIDE DEF begun
      <4>1. year \in Nat /\ ~ (year + 1 <= year)
        BY <1>5, CalendarAssumption
      <4> QED BY <4>1, <1>4
    <3> QED BY <2>1, <3>1, <1>2, <1>7
  <2>2. CASE year + 1 \notin EpochYear .. LastYear
    <3>1. year = LastYear
      BY <2>2, <1>5, CalendarAssumption
    <3> DEFINE e == YearStart[LastYear + 1]
    <3>2. e \in Int /\ Days(n) * NanosPerDay < e * NanosPerDay
      <4>1. e \in Int /\ LastInstant < e * NanosPerDay
        BY <3>1, <1>7, CalendarAssumption
      <4>2. Days(n) * NanosPerDay \in Int /\ e * NanosPerDay \in Int
        BY <4>1, <1>2, PerDay
      <4> QED BY <4>1, <4>2, <1>1, <1>2
    <3> HIDE DEF e
    <3>3. ASSUME e <= Days(n) PROVE FALSE
      <4>1. PICK k \in Nat : Days(n) = e + k
        <5>1. Days(n) - e \in Nat /\ Days(n) = e + (Days(n) - e)
          BY <3>2, <3>3, <1>2
        <5> QED BY <5>1
      <4>2. Days(n) * NanosPerDay = e * NanosPerDay + k * NanosPerDay /\ k * NanosPerDay \in Nat
        BY <3>2, <4>1, PerDay
      <4>3. e * NanosPerDay \in Int
        BY <3>2, PerDay
      <4> QED BY <3>2, <4>2, <4>3
    <3>4. Days(n) < e
      BY <3>2, <3>3, <1>2
    <3> QED BY <3>1, <3>4 DEF e
  <2> QED BY <2>1, <2>2
<1>9. /\ YearStart[year + 1] = YearStart[year] + MonthStart[year][Len(MonthStart[year])]
      /\ MonthStart[year][Len(MonthStart[year])] \in Nat
  <2>1. MonthStart[year] \in Seq(Nat) /\ Len(MonthStart[year]) - 1 >= 1
    BY <1>6, CalendarAssumption DEF Months
  <2>2. MonthStart[year][Len(MonthStart[year])] \in Nat
    BY <2>1
  <2> QED BY <2>2, <1>6, CalendarAssumption
<1> QED BY <1>2, <1>5, <1>6, <1>7, <1>8, <1>9 DEF DayOf

(* And its month, in which the days are counted from one.                  *)
LEMMA MonthHasTheDay ==
    ASSUME NEW n \in 0 .. LastInstant
    PROVE  LET starts == MonthStart[YearOf(n)]
               month == MonthOf(n)
           IN  /\ starts \in Seq(Nat)
               /\ month \in Months(YearOf(n)) /\ month \in Nat \ {0} /\ month < Len(starts)
               /\ starts[month] \in Nat /\ starts[month + 1] \in Nat
               /\ starts[month] <= DayOf(n) /\ DayOf(n) < starts[month + 1]
<1> DEFINE year == YearOf(n)
           starts == MonthStart[year]
           begun == {m \in Months(year) : starts[m] <= DayOf(n)}
           month == MonthOf(n)
<1>1. year \in Years /\ DayOf(n) \in Nat /\ DayOf(n) < starts[Len(starts)]
  BY YearHasTheDay
<1>2. starts \in Seq(Nat) /\ Months(year) # {} /\ starts[1] = 0
  BY <1>1, CalendarAssumption
<1>3. Len(starts) \in Nat /\ Months(year) = 1 .. Len(starts) - 1 /\ Len(starts) > 1
  BY <1>2 DEF Months
<1>4. month \in begun /\ \A m \in begun : m <= month
  <2>1. 1 \in begun
    BY <1>1, <1>2, <1>3
  <2>2. begun \in SUBSET (1 .. Len(starts) - 1) /\ begun # {} /\ Len(starts) - 1 \in Nat
    BY <1>3, <2>1
  <2> HIDE DEF begun, starts
  <2>3. Max(begun) \in begun /\ \A m \in begun : m <= Max(begun)
    BY <2>2, LargestExists
  <2> QED BY <2>3 DEF MonthOf, begun, starts
<1>5. month \in 1 .. Len(starts) - 1 /\ starts[month] <= DayOf(n)
  BY <1>3, <1>4
<1>6. starts[month] \in Nat /\ starts[month + 1] \in Nat
  <2> HIDE DEF starts, month, begun
  <2>1. month \in 1 .. Len(starts) /\ month + 1 \in 1 .. Len(starts)
    BY <1>3, <1>5
  <2> QED BY <2>1, <1>2
<1>7. DayOf(n) < starts[month + 1]
  <2>1. CASE month + 1 \in Months(year)
    <3>1. month + 1 \notin begun
      <4> HIDE DEF begun
      <4>1. ~ (month + 1 <= month)
        BY <1>5
      <4> QED BY <4>1, <1>4
    <3> QED BY <2>1, <3>1, <1>1, <1>6
  <2>2. CASE month + 1 \notin Months(year)
    <3>1. month + 1 = Len(starts)
      BY <2>2, <1>3, <1>5
    <3> QED BY <3>1, <1>1
  <2> QED BY <2>1, <2>2
<1> HIDE DEF starts, month, begun
<1>8. month \in Nat \ {0} /\ month < Len(starts) /\ month \in Months(year)
  BY <1>3, <1>5
<1> QED BY <1>2, <1>5, <1>6, <1>7, <1>8 DEF starts, month

(* The fields of an instant are in the calendar and make up that instant.  *)
LEMMA FieldsOfTheInstant ==
    ASSUME NEW n \in 0 .. LastInstant
    PROVE  InCalendar(Fields(n)) /\ Instant(Fields(n)) = n
<1> DEFINE year == YearOf(n)
           starts == MonthStart[year]
           month == MonthOf(n)
           day == DayOf(n)
           seconds == SecondsIn(n)
           inHour == seconds % SecondsPerHour
           h == seconds \div SecondsPerHour
           m == inHour \div SecondsPerMinute
           s == seconds % SecondsPerMinute
           ns == n % NanosPerSecond
<1>1. n \in Nat
  BY CalendarAssumption
<1>2. Fields(n) = <<year, month, day - starts[month] + 1, h, m, s, ns>>
  BY FieldsAre
<1>3. /\ SecondsPerMinute \in Nat \ {0} /\ SecondsPerHour \in Nat \ {0}
      /\ SecondsPerDay \in Nat \ {0}
      /\ SecondsPerHour % SecondsPerMinute = 0 /\ SecondsPerDay % SecondsPerHour = 0
  BY DurationAssumption
<1>4. /\ Days(n) \in Nat /\ seconds \in Nat /\ seconds < SecondsPerDay /\ ns \in Nat
      /\ n = Days(n) * NanosPerDay + seconds * NanosPerSecond + ns
  <2>1. ns \in 0 .. NanosPerSecond - 1
    BY <1>1, PerSecond, Divided
  <2> QED BY <1>1, <1>3, <2>1, PerSecond, DaysAndSeconds, SMTT(20)
<1> HIDE DEF seconds
<1>5. /\ h \in Nat /\ inHour \in Nat /\ inHour < SecondsPerHour
      /\ seconds = h * SecondsPerHour + inHour
  <2>1. h \in Nat /\ inHour \in 0 .. SecondsPerHour - 1 /\ seconds = h * SecondsPerHour + inHour
    BY <1>3, <1>4, Divided
  <2> HIDE DEF h, inHour
  <2> QED BY <2>1, <1>3
<1>6. h < SecondsPerDay \div SecondsPerHour
  BY <1>3, <1>4, QuotientBelow
<1>7. inHour % SecondsPerMinute = s
  BY <1>3, <1>4, NestedRemainder
<1>8. s \in Nat /\ s < SecondsPerMinute
  BY <1>3, <1>4, Divided
<1> HIDE DEF inHour, s
<1>9. m \in Nat /\ inHour = m * SecondsPerMinute + s
  BY <1>3, <1>5, <1>7, Divided
<1>10. m < SecondsPerHour \div SecondsPerMinute
  BY <1>3, <1>5, QuotientBelow
<1> HIDE DEF h, m, ns
<1>11. /\ YearStart[year] \in Int /\ day = Days(n) - YearStart[year] /\ day \in Nat
       /\ year \in Years
  BY YearHasTheDay, CalendarAssumption DEF DayOf
<1>12. /\ starts \in Seq(Nat) /\ month \in Months(year)
       /\ month \in Nat \ {0} /\ month < Len(starts)
       /\ starts[month] \in Nat /\ starts[month + 1] \in Nat
       /\ starts[month] <= day /\ day < starts[month + 1]
  BY MonthHasTheDay
<1> HIDE DEF year, starts, month, day
<1> DEFINE from == starts[month]
           to == starts[month + 1]
<1>12a. from \in Nat /\ to \in Nat /\ from <= day /\ day < to
  BY <1>12
<1> HIDE DEF from, to
<1>13. InCalendar(Fields(n))
  <2>1. day - from + 1 \in 1 .. to - from
    BY <1>11, <1>12a
  <2>2. InCalendar(<<year, month, day - starts[month] + 1, h, m, s, ns>>)
    BY <2>1, <1>6, <1>8, <1>10, <1>11, <1>12 DEF InCalendar, starts, from, to
  <2> QED BY <2>2, <1>2
<1>14. Instant(Fields(n)) = n
  <2>1. DaysBeforeMonth(year, month) = starts[month]
    <3>1. Len(starts) \in Nat
      BY <1>12
    <3>2. Min({month, Len(starts)}) = month
      BY <3>1, <1>12 DEF Min
    <3> QED BY <3>2, <1>12 DEF DaysBeforeMonth, starts
  <2>2. YearStart[year] + DaysBeforeMonth(year, month) + (day - starts[month] + 1) - 1 = Days(n)
    <3>1. YearStart[year] + from + (day - from + 1) - 1 = Days(n)
      BY <1>4, <1>11, <1>12a
    <3> QED BY <2>1, <3>1 DEF from
  <2>3. h * SecondsPerHour + m * SecondsPerMinute + s = seconds
    BY <1>3, <1>5, <1>8, <1>9
  <2>4. Instant(<<year, month, day - starts[month] + 1, h, m, s, ns>>) =
            Days(n) * NanosPerDay + seconds * NanosPerSecond + ns
    BY <2>2, <2>3 DEF Instant
  <2> QED BY <2>4, <1>2, <1>4
<1> QED BY <1>13, <1>14

-----------------------------------------------------------------------------
(* Times.                                                                  *)

(* What is rendered has the shape that is parsed, and its fields in it.    *)
LEMMA RenderedShape ==
    ASSUME NEW n
    PROVE  HasProfileTimeShape(RenderTime(n)) /\ ReadFields(RenderTime(n)) = Fields(n)
<1> DEFINE t == RenderTime(n)
<1>1. Len(Widths) = 7 /\ DOMAIN Widths = 1 .. 7
  BY DEF Widths
<1>2. Len(t) = 14
  BY <1>1 DEF RenderTime, Spell
<1>3. ASSUME NEW k \in 1 .. 7
      PROVE  /\ t[2 * k - 1] = Number(Fields(n)[k], Widths[k])
             /\ t[2 * k] = Letter(Literals[k])
  BY <1>1 DEF RenderTime, Spell
<1> HIDE DEF t
<1>4. ASSUME NEW k \in 1 .. 7
      PROVE  /\ IsNumber(t[2 * k - 1]) /\ t[2 * k - 1].digits = Widths[k]
             /\ t[2 * k - 1].value = Fields(n)[k]
  <2>1. t[2 * k - 1] = Number(Fields(n)[k], Widths[k])
    BY <1>3
  <2>2. IsNumber(t[2 * k - 1])
    BY <2>1 DEF Number, IsNumber
  <2>3. t[2 * k - 1].digits = Widths[k]
    BY <2>1 DEF Number
  <2>4. t[2 * k - 1].value = Fields(n)[k]
    BY <2>1 DEF Number
  <2> QED BY <2>2, <2>3, <2>4
<1>5. HasProfileTimeShape(t)
  BY <1>1, <1>2, <1>3, <1>4 DEF HasProfileTimeShape
<1>6. ReadFields(t) = [k \in 1 .. 7 |-> Fields(n)[k]]
  BY <1>1, <1>4 DEF ReadFields
<1>7. [k \in 1 .. 7 |-> Fields(n)[k]] = Fields(n)
  BY FieldsAre
<1> QED BY <1>5, <1>6, <1>7 DEF t

(* The rendering of an instant is accepted, whatever the library makes of  *)
(* fields out of range.                                                    *)
LEMMA RenderingAccepted ==
    ASSUME NEW n \in 0 .. LastInstant, NEW carries \in BOOLEAN
    PROVE  ParseCheckpointTime(RenderTime(n), carries) = {n}
<1>1. LibraryParse(ReadFields(RenderTime(n)), carries) = {n}
  BY RenderedShape, FieldsOfTheInstant DEF LibraryParse
<1> QED BY <1>1, RenderedShape DEF ParseCheckpointTime

(* checkpoint_time: parsing and rendering are inverse to each other, for   *)
(* every calendar whose years and months follow one another.  No other     *)
(* text of an instant is accepted, though the library might carry an       *)
(* excess of a field over: one slot is one instant.                        *)
THEOREM OneTextForATime == TextSpec => []AcceptsTheRendering
<1>1. AcceptsTheRendering
  <2> SUFFICES ASSUME NEW carries \in BOOLEAN
               PROVE  /\ ParseCheckpointTime(text, carries) # {} <=> text \in Renderings
                      /\ \A n \in ParseCheckpointTime(text, carries) : Rendered[n] = text
    BY DEF AcceptsTheRendering
  <2>1. \A n \in 0 .. LastInstant : Rendered[n] = RenderTime(n)
    BY DEF Rendered
  <2>2. ASSUME NEW n \in ParseCheckpointTime(text, carries)
        PROVE  n \in 0 .. LastInstant /\ Rendered[n] = text
    BY <2>1 DEF ParseCheckpointTime
  <2>3. ASSUME text \in Renderings PROVE ParseCheckpointTime(text, carries) # {}
    BY <2>1, <2>3, RenderingAccepted DEF Renderings
  <2> QED BY <2>2, <2>3 DEF Renderings
<1> QED BY <1>1, PTL

-----------------------------------------------------------------------------
(* Texts and their pieces.                                                 *)

Symbol ==
    {Letter(l) : l \in Letters \cup {"P", "T", "D", "H", "M", "S", ".", "-", ":", "Z"}}
        \cup [letter : {"digits"}, value : Nat, digits : Nat]
Text == Seq(Symbol)

(* No plus sign occurs: with one, more is accepted than the grammar has.   *)
NoPlus == "+" \notin Letters

LEMMA SymbolIs ==
    ASSUME NEW s \in Symbol
    PROVE  /\ IsNumber(s) => s.value \in Nat /\ s.digits \in Nat
           /\ \A l : l # "digits" => (s.letter = l <=> s = Letter(l))
           /\ NoPlus => s.letter # "+"
<1>1. CASE s \in [letter : {"digits"}, value : Nat, digits : Nat]
  BY <1>1 DEF Letter, IsNumber
<1>2. ASSUME NEW l \in Letters \cup {"P", "T", "D", "H", "M", "S", ".", "-", ":", "Z"},
             s = Letter(l)
      PROVE  /\ IsNumber(s) => s.value \in Nat /\ s.digits \in Nat
             /\ \A k : k # "digits" => (s.letter = k <=> s = Letter(k))
             /\ NoPlus => s.letter # "+"
  <2>1. s.letter = l /\ s.value = 0 /\ s.digits = 0
    BY <1>2 DEF Letter
  <2>2. \A k : Letter(k).letter = k
    BY DEF Letter
  <2>3. NoPlus => l # "+"
    BY DEF NoPlus
  <2> QED BY <2>1, <2>2, <2>3, <1>2
<1> QED BY <1>1, <1>2 DEF Symbol

LEMMA PieceIs ==
    ASSUME NEW t \in Text, NEW a \in 1 .. Len(t) + 1, NEW b \in a - 1 .. Len(t)
    PROVE  /\ SubSeq(t, a, b) \in Text /\ Len(SubSeq(t, a, b)) = b - a + 1
           /\ \A k \in 1 .. b - a + 1 : SubSeq(t, a, b)[k] = t[a + k - 1]
BY SubSeqProperties DEF Text

LEMMA PieceOfPiece ==
    ASSUME NEW t \in Text, NEW a \in 1 .. Len(t) + 1, NEW b \in a - 1 .. Len(t),
           NEW c \in 1 .. b - a + 2, NEW d \in c - 1 .. b - a + 1
    PROVE  SubSeq(SubSeq(t, a, b), c, d) = SubSeq(t, a + c - 1, a + d - 1)
<1> DEFINE u == SubSeq(t, a, b)
           x == SubSeq(u, c, d)
           y == SubSeq(t, a + c - 1, a + d - 1)
<1>0. Len(t) \in Nat
  BY DEF Text
<1>1. u \in Text /\ Len(u) = b - a + 1 /\ \A k \in 1 .. b - a + 1 : u[k] = t[a + k - 1]
  BY PieceIs
<1> HIDE DEF u
<1>2. x \in Text /\ Len(x) = d - c + 1 /\ \A k \in 1 .. d - c + 1 : x[k] = u[c + k - 1]
  BY <1>0, <1>1, PieceIs, SMTT(20)
<1>3. y \in Text /\ Len(y) = d - c + 1 /\ \A k \in 1 .. d - c + 1 : y[k] = t[a + c + k - 2]
  <2>1. a + c - 1 \in 1 .. Len(t) + 1 /\ a + d - 1 \in (a + c - 1) - 1 .. Len(t)
    BY <1>0
  <2>2. /\ y \in Text /\ Len(y) = (a + d - 1) - (a + c - 1) + 1
        /\ \A k \in 1 .. (a + d - 1) - (a + c - 1) + 1 : y[k] = t[(a + c - 1) + k - 1]
    BY <2>1, PieceIs
  <2> HIDE DEF y
  <2> QED BY <2>2, <1>0
<1> HIDE DEF x, y
<1>4. ASSUME NEW k \in 1 .. Len(x) PROVE x[k] = y[k]
  <2>1. k \in 1 .. d - c + 1 /\ c + k - 1 \in 1 .. b - a + 1
    BY <1>0, <1>2
  <2>4. x[k] = u[c + k - 1] /\ y[k] = t[a + c + k - 2]
    BY <2>1, <1>2, <1>3
  <2>2. u[c + k - 1] = t[a + (c + k - 1) - 1]
    BY <2>1, <1>1
  <2>3. a + (c + k - 1) - 1 = a + c + k - 2
    BY <1>0
  <2> QED BY <2>4, <2>2, <2>3
<1>5. x = y
  BY <1>2, <1>3, <1>4, SeqEqual DEF Text
<1> QED BY <1>5 DEF x, y, u

-----------------------------------------------------------------------------
(* Finding.                                                                *)

LEMMA FoundAt ==
    ASSUME NEW t \in Text, NEW l, NEW j \in 1 .. Len(t), t[j].letter = l,
           \A i \in 1 .. j - 1 : t[i].letter # l
    PROVE  Occurs(t, l) /\ Find(t, l) = j
<1>1. DOMAIN t = 1 .. Len(t) /\ Len(t) \in Nat
  BY DEF Text
<1>2. ASSUME NEW k \in DOMAIN t, t[k].letter = l, \A i \in 1 .. k - 1 : t[i].letter # l
      PROVE  k = j
  <2>1. ~ (k < j) /\ ~ (j < k)
    BY <1>1, <1>2
  <2> QED BY <2>1, <1>1
<1> QED BY <1>1, <1>2 DEF Occurs, Find

LEMMA FirstFound ==
    ASSUME NEW t \in Text, NEW l, Occurs(t, l)
    PROVE  /\ Find(t, l) \in 1 .. Len(t) /\ t[Find(t, l)].letter = l
           /\ \A i \in 1 .. Find(t, l) - 1 : t[i].letter # l
<1>1. DOMAIN t = 1 .. Len(t) /\ Len(t) \in Nat
  BY DEF Text
<1> DEFINE places == {j \in 1 .. Len(t) : t[j].letter = l}
<1>2. PICK j \in places : \A k \in places : j <= k
  <2>1. places \in SUBSET Nat /\ places # {}
    BY <1>1 DEF Occurs
  <2> HIDE DEF places
  <2> QED BY <2>1, Order!LeastNatural
<1>3. \A i \in 1 .. j - 1 : t[i].letter # l
  <2> SUFFICES ASSUME NEW i \in 1 .. j - 1, t[i].letter = l PROVE FALSE
    OBVIOUS
  <2>1. i \in places
    BY <1>1, <1>2
  <2> QED BY <2>1, <1>2
<1> QED BY <1>2, <1>3, FoundAt

LEMMA DoesNotOccur ==
    ASSUME NEW t \in Text, NEW l
    PROVE  ~Occurs(t, l) <=> \A i \in 1 .. Len(t) : t[i].letter # l
<1>1. DOMAIN t = 1 .. Len(t)
  BY DEF Text
<1> QED BY <1>1 DEF Occurs

-----------------------------------------------------------------------------
(* The components.                                                         *)

LEMMA RunParses ==
    ASSUME NoPlus, NEW t \in Text
    PROVE  ParsesAsWord(t) <=> IsRun(t) /\ Fits(t[1].value)
<1>1. t # <<>> => Len(t) \in Nat \ {0} /\ t[1] \in Symbol
  BY EmptySeq, ElementOfSeq DEF Text
<1>2. ~ (t # <<>> /\ t[1].letter = "+")
  BY <1>1, SymbolIs
<1> QED BY <1>2 DEF ParsesAsWord

(* What a component is before its text is parsed: two symbols, or none.    *)
Has(t, u) == Len(t) >= 2 /\ IsNumber(t[1]) /\ t[2].letter = u
Width(t, u) == IF Has(t, u) THEN 2 ELSE 0
Count(t, u) == IF Has(t, u) THEN t[1].value ELSE 0
Rest(t, u) == SubSeq(t, Width(t, u) + 1, Len(t))

LEMMA RestIs ==
    ASSUME NEW t \in Text, NEW u
    PROVE  /\ Width(t, u) \in {0, 2} /\ Width(t, u) <= Len(t) /\ Len(t) \in Nat
           /\ Rest(t, u) \in Text /\ Len(Rest(t, u)) = Len(t) - Width(t, u)
           /\ \A k \in 1 .. Len(t) - Width(t, u) : Rest(t, u)[k] = t[Width(t, u) + k]
           /\ Width(t, u) = 0 => Rest(t, u) = t
<1>1. Len(t) \in Nat
  BY DEF Text
<1>2. Width(t, u) \in {0, 2} /\ Width(t, u) <= Len(t)
  BY <1>1 DEF Width, Has
<1> DEFINE w == Width(t, u)
<1> HIDE DEF w
<1>3. w \in Nat /\ w <= Len(t)
  BY <1>2 DEF w
<1>4. w + 1 \in 1 .. Len(t) + 1 /\ Len(t) \in (w + 1) - 1 .. Len(t)
  BY <1>1, <1>3
<1> DEFINE r == SubSeq(t, w + 1, Len(t))
<1>5. /\ r \in Text /\ Len(r) = Len(t) - (w + 1) + 1
      /\ \A k \in 1 .. Len(t) - (w + 1) + 1 : r[k] = t[(w + 1) + k - 1]
  BY <1>4, PieceIs
<1> HIDE DEF r
<1>6. Len(r) = Len(t) - w /\ \A k \in 1 .. Len(t) - w : r[k] = t[w + k]
  BY <1>1, <1>3, <1>5
<1>7. ASSUME w = 0 PROVE r = t
  <2>1. \A k \in 1 .. Len(r) : r[k] = t[k]
    BY <1>1, <1>6, <1>7
  <2> QED BY <2>1, <1>5, <1>6, <1>7, <1>1, SeqEqual DEF Text
<1>8. Rest(t, u) = r
  BY DEF Rest, r, w
<1> QED BY <1>1, <1>2, <1>5, <1>6, <1>7, <1>8 DEF w

LEMMA CountIs ==
    ASSUME NEW t \in Text, NEW u
    PROVE  Count(t, u) \in Nat
<1>1. Has(t, u) => 1 \in 1 .. Len(t)
  BY DEF Has, Text
<1>2. Has(t, u) => t[1] \in Symbol /\ IsNumber(t[1])
  BY <1>1, ElementOfSeq DEF Has, Text
<1> QED BY <1>2, SymbolIs DEF Count

(* A component is taken where there is one, if its number fits; where the  *)
(* unit is not, none is.                                                   *)
LEMMA ComponentTaken ==
    ASSUME NoPlus, NEW t \in Text, NEW u, u # "digits"
    PROVE  LET c == TakeComponent(t, u)
           IN  /\ c.ok <=> (Has(t, u) /\ Fits(t[1].value)) \/ ~Occurs(t, u)
               /\ c.ok => c.n = Count(t, u) /\ c.rest = Rest(t, u)
               /\ Has(t, u) => Occurs(t, u)
<1>1. Len(t) \in Nat
  BY DEF Text
<1>2. ASSUME Has(t, u) PROVE Occurs(t, u) /\ Find(t, u) = 2
  <2>1. 2 \in 1 .. Len(t) /\ t[2].letter = u
    BY <1>1, <1>2 DEF Has
  <2>2. \A i \in 1 .. 2 - 1 : t[i].letter # u
    BY <1>2 DEF Has, IsNumber
  <2> QED BY <2>1, <2>2, FoundAt
<1>3. CASE ~Occurs(t, u)
  <2>1. TakeComponent(t, u) = [ok |-> TRUE, n |-> 0, rest |-> t]
    BY <1>3 DEF TakeComponent
  <2>2. ~Has(t, u)
    BY <1>2, <1>3
  <2>3. Count(t, u) = 0 /\ Rest(t, u) = t
    BY <2>2, RestIs DEF Count, Width
  <2> QED BY <1>3, <2>1, <2>2, <2>3
<1>4. CASE Occurs(t, u)
  <2> DEFINE j == Find(t, u)
             before == SubSeq(t, 1, j - 1)
  <2>1. j \in 1 .. Len(t) /\ t[j].letter = u
    BY <1>4, FirstFound
  <2> HIDE DEF j
  <2>2. /\ before \in Text /\ Len(before) = j - 1
        /\ \A k \in 1 .. j - 1 : before[k] = t[k]
    <3>1. 1 \in 1 .. Len(t) + 1 /\ j - 1 \in 1 - 1 .. Len(t)
      BY <1>1, <2>1
    <3>2. /\ before \in Text /\ Len(before) = (j - 1) - 1 + 1
          /\ \A k \in 1 .. (j - 1) - 1 + 1 : before[k] = t[1 + k - 1]
      BY <3>1, PieceIs
    <3> HIDE DEF before
    <3> QED BY <3>2, <1>1, <2>1
  <2> HIDE DEF before
  <2>3. IsRun(before) <=> Has(t, u)
    <3>1. ASSUME IsRun(before) PROVE Has(t, u)
      <4>1. Len(before) = 1 /\ IsNumber(before[1])
        BY <3>1 DEF IsRun
      <4>2. j = 2
        <5>1. j \in Int
          BY <2>1, <1>1
        <5>2. j - 1 = 1
          BY <4>1, <2>2
        <5> QED BY <5>1, <5>2
      <4>3. IsNumber(t[1])
        BY <4>1, <4>2, <2>2
      <4> QED BY <4>2, <4>3, <1>1, <2>1 DEF Has
    <3>2. ASSUME Has(t, u) PROVE IsRun(before)
      <4>1. j = 2
        BY <1>2, <3>2 DEF j
      <4> QED BY <4>1, <2>2, <3>2 DEF Has, IsRun
    <3> QED BY <3>1, <3>2
  <2>4. Has(t, u) => before[1] = t[1] /\ j = 2
    BY <1>2, <2>2 DEF j
  <2>5. IsRun(before) /\ ParsesAsWord(before) <=> Has(t, u) /\ Fits(t[1].value)
    BY <2>2, <2>3, <2>4, RunParses
  <2>6. TakeComponent(t, u) =
            IF Has(t, u) /\ Fits(t[1].value)
            THEN [ok |-> TRUE, n |-> t[1].value, rest |-> After(t, u)]
            ELSE [ok |-> FALSE, n |-> 0, rest |-> t]
    <3>1. Before(t, u) = before
      BY DEF Before, before, j
    <3> QED BY <1>4, <2>5, <3>1 DEF TakeComponent
  <2>7. Has(t, u) => After(t, u) = Rest(t, u) /\ Count(t, u) = t[1].value
    BY <1>2 DEF After, Rest, Width, Count
  <2> QED BY <1>4, <2>6, <2>7
<1> QED BY <1>2, <1>3, <1>4

(* The seconds: how many, and what the fraction is.                        *)
WholeSeconds(t) == IF t = <<>> THEN 0 ELSE t[1].value
IsFractional(t) ==
    /\ Len(t) = 4 /\ IsNumber(t[1]) /\ t[2].letter = "."
    /\ IsNumber(t[3]) /\ t[3].digits <= FractionDigits /\ t[4].letter = "S"
FractionNanos(t) ==
    IF Len(t) = 4 THEN t[3].value * PowerOfTen[FractionDigits - t[3].digits] ELSE 0

LEMMA ComponentIs ==
    ASSUME NEW t \in Text, NEW u, u # "digits"
    PROVE  IsComponent(t, u) <=> t = <<>> \/ (Has(t, u) /\ Len(t) = 2)
<1>1. Len(t) = 2 => t[2] \in Symbol
  BY DEF Text
<1>2. Len(t) = 2 => (t[2] = Letter(u) <=> t[2].letter = u)
  BY <1>1, SymbolIs
<1> QED BY <1>2 DEF IsComponent, Has

LEMMA SecondsAre ==
    ASSUME NEW t \in Text
    PROVE  IsSeconds(t) <=> t = <<>> \/ (Has(t, "S") /\ Len(t) = 2) \/ IsFractional(t)
<1>1. Len(t) = 4 => t[2] \in Symbol /\ t[4] \in Symbol
  <2>1. \A k \in 1 .. Len(t) : t[k] \in Symbol
    BY ElementOfSeq DEF Text
  <2> QED BY <2>1
<1>2. Len(t) = 4 => /\ t[2] = Letter(".") <=> t[2].letter = "."
                    /\ t[4] = Letter("S") <=> t[4].letter = "S"
  BY <1>1, SymbolIs
<1> QED BY <1>2, ComponentIs DEF IsSeconds, IsFractional

LEMMA SecondsTaken ==
    ASSUME NoPlus, NEW t \in Text
    PROVE  LET taken == TakeSeconds(t)
           IN  /\ taken.verdict = "ok" <=>
                      IsSeconds(t) /\ (t = <<>> \/ Fits(t[1].value))
               /\ taken.verdict = "ok" =>
                      taken.n = WholeSeconds(t) /\ taken.nanos = FractionNanos(t)
<1> DEFINE taken == TakeSeconds(t)
<1>1. Len(t) \in Nat /\ (t = <<>> <=> Len(t) = 0)
  BY EmptySeq DEF Text
<1>2. CASE t = <<>>
  <2>1. taken = [verdict |-> "ok", n |-> 0, nanos |-> 0]
    BY <1>2 DEF TakeSeconds
  <2>2. IsSeconds(t) /\ WholeSeconds(t) = 0 /\ FractionNanos(t) = 0
    BY <1>1, <1>2, SecondsAre DEF WholeSeconds, FractionNanos
  <2> QED BY <1>2, <2>1, <2>2
<1>3. CASE t # <<>> /\ t[Len(t)].letter # "S"
  <2>1. taken = [verdict |-> "BadDuration", n |-> 0, nanos |-> 0]
    BY <1>3 DEF TakeSeconds
  <2>2. ~IsSeconds(t)
    BY <1>1, <1>3, SecondsAre DEF Has, IsFractional
  <2> QED BY <2>1, <2>2
<1>4. CASE t # <<>> /\ t[Len(t)].letter = "S"
  <2> DEFINE s == SubSeq(t, 1, Len(t) - 1)
  <2>1. s \in Text /\ Len(s) = Len(t) - 1 /\ \A k \in 1 .. Len(t) - 1 : s[k] = t[k]
    <3>1. 1 \in 1 .. Len(t) + 1 /\ Len(t) - 1 \in 1 - 1 .. Len(t)
      BY <1>1, <1>4
    <3>2. /\ s \in Text /\ Len(s) = (Len(t) - 1) - 1 + 1
          /\ \A k \in 1 .. (Len(t) - 1) - 1 + 1 : s[k] = t[1 + k - 1]
      BY <3>1, PieceIs
    <3> HIDE DEF s
    <3> QED BY <3>2, <1>1, <1>4
  <2>2. CASE ~Occurs(s, ".")
    <3>1. taken = IF ~ParsesAsWord(s) THEN [verdict |-> "BadDuration", n |-> 0, nanos |-> 0]
                  ELSE [verdict |-> "ok", n |-> s[Len(s)].value, nanos |-> 0]
      BY <1>4, <2>2 DEF TakeSeconds
    <3> HIDE DEF s
    <3>2. ParsesAsWord(s) <=> IsRun(s) /\ Fits(s[1].value)
      BY <2>1, RunParses
    <3>3. IsRun(s) <=> Has(t, "S") /\ Len(t) = 2
      <4>1. IsRun(s) <=> Len(t) = 2 /\ IsNumber(s[1])
        BY <1>1, <2>1 DEF IsRun
      <4>2. Len(t) = 2 => s[1] = t[1]
        BY <2>1
      <4> QED BY <4>1, <4>2, <1>4 DEF Has
    <3>4. ~IsFractional(t)
      <4>1. ASSUME Len(t) = 4, t[2].letter = "." PROVE FALSE
        <5>1. 2 \in 1 .. Len(s) /\ s[2].letter = "."
          BY <4>1, <2>1
        <5> QED BY <5>1, <2>1, <2>2, DoesNotOccur
      <4> QED BY <4>1 DEF IsFractional
    <3>5. IsSeconds(t) <=> IsRun(s)
      BY <1>4, <3>3, <3>4, SecondsAre
    <3>6. IsRun(s) => /\ Len(s) = 1 /\ s[1] = t[1] /\ t[1].value = WholeSeconds(t)
                      /\ FractionNanos(t) = 0
      <4>1. IsRun(s) => Len(t) = 2 /\ Len(s) = 1
        BY <3>3 DEF IsRun
      <4> QED BY <4>1, <2>1, <1>4, SMTT(20) DEF WholeSeconds, FractionNanos
    <3> QED BY <1>4, <3>1, <3>2, <3>5, <3>6
  <2>3. CASE Occurs(s, ".")
    <3> DEFINE k == Find(s, ".")
               before == SubSeq(s, 1, k - 1)
               after == SubSeq(s, k + 1, Len(s))
    <3>1. k \in 1 .. Len(s) /\ s[k].letter = "." /\ \A i \in 1 .. k - 1 : s[i].letter # "."
      <4> HIDE DEF s
      <4> QED BY <2>1, <2>3, FirstFound
    <3>2. taken = IF ~IsRun(after) THEN [verdict |-> "BadDuration", n |-> 0, nanos |-> 0]
                  ELSE IF after[1].digits > FractionDigits
                  THEN [verdict |-> "DurationFractionTooLong", n |-> 0, nanos |-> 0]
                  ELSE IF ~ParsesAsWord(before)
                  THEN [verdict |-> "BadDuration", n |-> 0, nanos |-> 0]
                  ELSE [ verdict |-> "ok", n |-> before[Len(before)].value,
                         nanos |-> after[1].value * PowerOfTen[FractionDigits - after[1].digits] ]
      BY <1>4, <2>3 DEF TakeSeconds, Before, After, Fraction
    <3> HIDE DEF s, k
    <3>3. /\ before \in Text /\ Len(before) = k - 1
          /\ \A i \in 1 .. k - 1 : before[i] = s[i]
      <4>1. 1 \in 1 .. Len(s) + 1 /\ k - 1 \in 1 - 1 .. Len(s)
        BY <1>1, <2>1, <3>1
      <4>2. /\ before \in Text /\ Len(before) = (k - 1) - 1 + 1
            /\ \A i \in 1 .. (k - 1) - 1 + 1 : before[i] = s[1 + i - 1]
        BY <4>1, <2>1, PieceIs
      <4> HIDE DEF before
      <4> QED BY <4>2, <3>1, <2>1, <1>1
    <3>4. /\ after \in Text /\ Len(after) = Len(s) - k
          /\ \A i \in 1 .. Len(s) - k : after[i] = s[k + i]
      <4>1. k + 1 \in 1 .. Len(s) + 1 /\ Len(s) \in (k + 1) - 1 .. Len(s)
        BY <1>1, <2>1, <3>1
      <4>2. /\ after \in Text /\ Len(after) = Len(s) - (k + 1) + 1
            /\ \A i \in 1 .. Len(s) - (k + 1) + 1 : after[i] = s[(k + 1) + i - 1]
        BY <4>1, <2>1, PieceIs
      <4> HIDE DEF after
      <4> QED BY <4>2, <3>1, <2>1, <1>1
    <3> HIDE DEF before, after
    <3>5. ParsesAsWord(before) <=> IsRun(before) /\ Fits(before[1].value)
      BY <3>3, RunParses
    <3>6. ASSUME IsRun(before), IsRun(after)
          PROVE  /\ k = 2 /\ Len(t) = 4 /\ Len(before) = 1
                 /\ before[1] = t[1] /\ after[1] = t[3] /\ t[2].letter = "."
      <4>1. Len(before) = 1 /\ Len(after) = 1
        BY <3>6 DEF IsRun
      <4>2. k = 2 /\ Len(s) = 3 /\ Len(t) = 4
        <5>1. k - 1 = 1 /\ Len(s) - k = 1 /\ Len(s) = Len(t) - 1
          BY <4>1, <2>1, <3>3, <3>4
        <5>2. k \in Int /\ Len(s) \in Int /\ Len(t) \in Int
          BY <1>1, <2>1, <3>1
        <5> QED BY <5>1, <5>2
      <4>3. before[1] = s[1] /\ after[1] = s[3]
        BY <4>2, <3>3, <3>4
      <4>4. s[1] = t[1] /\ s[2] = t[2] /\ s[3] = t[3]
        BY <4>2, <2>1
      <4> QED BY <4>1, <4>2, <4>3, <4>4, <3>1
    <3>7. ASSUME IsFractional(t)
          PROVE  IsRun(before) /\ IsRun(after) /\ after[1].digits <= FractionDigits
      <4>1. Len(t) = 4 /\ Len(s) = 3 /\ s[1] = t[1] /\ s[2] = t[2] /\ s[3] = t[3]
        BY <3>7, <2>1 DEF IsFractional
      <4>2. s[2].letter = "." /\ IsNumber(s[1]) /\ IsNumber(s[3]) /\ s[3].digits <= FractionDigits
        BY <4>1, <3>7 DEF IsFractional
      <4>3. k = 2
        <5>1. 2 \in 1 .. Len(s) /\ \A i \in 1 .. 2 - 1 : s[i].letter # "."
          BY <4>1, <4>2 DEF IsNumber
        <5> QED BY <5>1, <4>2, <2>1, FoundAt DEF k
      <4>4. /\ Len(before) = 1 /\ before[1] = s[1]
            /\ Len(after) = 1 /\ after[1] = s[3]
        BY <4>1, <4>3, <3>3, <3>4
      <4> QED BY <4>2, <4>4 DEF IsRun
    <3>8. ~ (Has(t, "S") /\ Len(t) = 2)
      <4>1. ASSUME Has(t, "S"), Len(t) = 2 PROVE FALSE
        <5>1. k = 1 /\ s[1] = t[1] /\ s[1].letter = "."
          BY <4>1, <2>1, <3>1
        <5> QED BY <5>1, <4>1 DEF Has, IsNumber
      <4> QED BY <4>1
    <3>9. IsFractional(t) <=>
              IsRun(before) /\ IsRun(after) /\ after[1].digits <= FractionDigits
      <4>1. ASSUME IsRun(before), IsRun(after), after[1].digits <= FractionDigits
            PROVE  IsFractional(t)
        <5>1. Len(t) = 4 /\ before[1] = t[1] /\ after[1] = t[3] /\ t[2].letter = "."
          BY <3>6, <4>1
        <5>2. IsNumber(t[1]) /\ IsNumber(t[3]) /\ t[4].letter = "S"
          BY <5>1, <4>1, <1>4 DEF IsRun
        <5> QED BY <5>1, <5>2, <4>1 DEF IsFractional
      <4> QED BY <3>7, <4>1
    <3>10. IsSeconds(t) <=> IsFractional(t)
      BY <1>4, <3>8, SecondsAre
    <3>11. IsRun(after) => after[1].digits \in Nat
      <4>1. IsRun(after) => after[1] \in Symbol /\ IsNumber(after[1])
        <5>1. \A i \in 1 .. Len(after) : after[i] \in Symbol
          BY <3>4, ElementOfSeq DEF Text
        <5> QED BY <5>1 DEF IsRun
      <4> QED BY <4>1, SymbolIs
    <3>12. FractionDigits \in Nat
      BY DurationAssumption
    <3>13. taken.verdict = "ok" <=>
               IsRun(after) /\ after[1].digits <= FractionDigits /\ ParsesAsWord(before)
      BY <3>2, <3>11, <3>12
    <3>14. taken.verdict = "ok" =>
               /\ taken.n = before[Len(before)].value
               /\ taken.nanos = after[1].value * PowerOfTen[FractionDigits - after[1].digits]
      BY <3>2, <3>13
    <3> HIDE DEF taken
    <3>15. ASSUME IsFractional(t)
           PROVE  /\ before[Len(before)].value = WholeSeconds(t) /\ before[1] = t[1]
                  /\ after[1].value * PowerOfTen[FractionDigits - after[1].digits]
                         = FractionNanos(t)
      <4>1. Len(t) = 4 /\ Len(before) = 1 /\ before[1] = t[1] /\ after[1] = t[3]
        BY <3>6, <3>7, <3>15
      <4> QED BY <4>1, <1>4 DEF WholeSeconds, FractionNanos
    <3>16. taken.verdict = "ok" <=> IsFractional(t) /\ Fits(t[1].value)
      BY <3>5, <3>9, <3>13, <3>15
    <3> QED BY <1>4, <3>10, <3>14, <3>15, <3>16 DEF taken
  <2> QED BY <2>2, <2>3
<1> QED BY <1>2, <1>3, <1>4

-----------------------------------------------------------------------------
(* The grammar.                                                            *)

(* A component with its unit is all there is before the rest.              *)
LEMMA ComponentThenRest ==
    ASSUME NEW t \in Text, NEW u, u # "digits", NEW i \in 0 .. Len(t),
           IsComponent(SubSeq(t, 1, i), u),
           i = Len(t) \/ (i + 2 <= Len(t) /\ t[i + 2].letter # u)
    PROVE  i = Width(t, u)
<1>1. Len(t) \in Nat
  BY DEF Text
<1> DEFINE c == SubSeq(t, 1, i)
<1>2. c \in Text /\ Len(c) = i /\ \A k \in 1 .. i : c[k] = t[k]
  <2>1. 1 \in 1 .. Len(t) + 1 /\ i \in 1 - 1 .. Len(t)
    BY <1>1
  <2>2. /\ c \in Text /\ Len(c) = i - 1 + 1
        /\ \A k \in 1 .. i - 1 + 1 : c[k] = t[1 + k - 1]
    BY <2>1, PieceIs
  <2> HIDE DEF c
  <2> QED BY <2>2, <1>1
<1> HIDE DEF c
<1>3. c = <<>> \/ (Has(c, u) /\ Len(c) = 2)
  BY <1>2, ComponentIs DEF c
<1>4. CASE c = <<>>
  <2>1. i = 0
    BY <1>2, <1>4
  <2>2. ~Has(t, u)
    BY <2>1, <1>1 DEF Has
  <2> QED BY <2>1, <2>2 DEF Width
<1>5. CASE Has(c, u) /\ Len(c) = 2
  <2>1. i = 2
    BY <1>2, <1>5
  <2>2. c[1] = t[1] /\ c[2] = t[2]
    BY <1>2, <2>1
  <2>3. Has(t, u)
    BY <1>1, <1>5, <2>1, <2>2 DEF Has
  <2> QED BY <2>1, <2>3 DEF Width
<1> QED BY <1>3, <1>4, <1>5

(* The minutes and seconds after the hours, and the seconds after those.   *)
Minutes(t) == Rest(t, "H")
SecondsOf(t) == Rest(Minutes(t), "M")

LEMMA TimeParts ==
    ASSUME NEW t \in Text
    PROVE  /\ Minutes(t) \in Text /\ SecondsOf(t) \in Text
           /\ Width(t, "H") + Width(Minutes(t), "M") <= Len(t)
           /\ SecondsOf(t) = SubSeq(t, Width(t, "H") + Width(Minutes(t), "M") + 1, Len(t))
<1> DEFINE i == Width(t, "H")
           r == Minutes(t)
           w == Width(r, "M")
<1>1. /\ Len(t) \in Nat /\ i \in {0, 2} /\ i <= Len(t)
      /\ r \in Text /\ Len(r) = Len(t) - i /\ r = SubSeq(t, i + 1, Len(t))
  BY RestIs DEF Minutes, Rest
<1>2. /\ w \in {0, 2} /\ w <= Len(r)
      /\ SecondsOf(t) \in Text /\ SecondsOf(t) = SubSeq(r, w + 1, Len(r))
  BY <1>1, RestIs DEF SecondsOf, Rest
<1> HIDE DEF i, w, r
<1>3. SubSeq(r, w + 1, Len(r)) = SubSeq(t, i + w + 1, Len(t))
  <2>1. /\ i + 1 \in 1 .. Len(t) + 1 /\ Len(t) \in (i + 1) - 1 .. Len(t)
        /\ w + 1 \in 1 .. Len(t) - (i + 1) + 2
        /\ Len(r) \in (w + 1) - 1 .. Len(t) - (i + 1) + 1
    BY <1>1, <1>2
  <2>2. SubSeq(SubSeq(t, i + 1, Len(t)), w + 1, Len(r)) =
            SubSeq(t, (i + 1) + (w + 1) - 1, (i + 1) + Len(r) - 1)
    BY <2>1, PieceOfPiece
  <2>3. (i + 1) + (w + 1) - 1 = i + w + 1 /\ (i + 1) + Len(r) - 1 = Len(t)
    BY <1>1, <1>2
  <2> QED BY <2>2, <2>3, <1>1
<1>4. i + w <= Len(t)
  BY <1>1, <1>2
<1> QED BY <1>1, <1>2, <1>3, <1>4 DEF i, w, r

(* Whole seconds, or minutes, after some time with hours: no hours follow. *)
LEMMA SecondsStart ==
    ASSUME NEW t \in Text, IsSeconds(t), t # <<>>
    PROVE  Len(t) >= 2 /\ IsNumber(t[1]) /\ t[2].letter \in {"S", "."}
BY SecondsAre DEF Has, IsFractional

(* There is one way to read a time: hours if it has them, and so on.       *)
LEMMA TimeIs ==
    ASSUME NEW t \in Text
    PROVE  IsTime(t) <=> IsSeconds(SecondsOf(t))
<1>1. Len(t) \in Nat
  BY DEF Text
<1>2. ASSUME IsSeconds(SecondsOf(t)) PROVE IsTime(t)
  <2> DEFINE i == Width(t, "H")
             w == Width(Minutes(t), "M")
  <2>1. /\ i \in {0, 2} /\ i <= Len(t) /\ Minutes(t) \in Text
        /\ Len(Minutes(t)) = Len(t) - i
        /\ \A k \in 1 .. Len(t) - i : Minutes(t)[k] = t[i + k]
    BY RestIs DEF Minutes
  <2>2. /\ w \in {0, 2} /\ i + w <= Len(t)
        /\ IsSeconds(SubSeq(t, i + w + 1, Len(t)))
    <3>1. w \in {0, 2}
      BY <2>1, RestIs
    <3> QED BY <3>1, <1>2, TimeParts
  <2>3. IsComponent(SubSeq(t, 1, i), "H")
    <3> DEFINE c == SubSeq(t, 1, i)
    <3>1. c \in Text /\ Len(c) = i /\ \A k \in 1 .. i : c[k] = t[k]
      <4>1. 1 \in 1 .. Len(t) + 1 /\ i \in 1 - 1 .. Len(t)
        BY <1>1, <2>1
      <4>2. /\ c \in Text /\ Len(c) = i - 1 + 1
            /\ \A k \in 1 .. i - 1 + 1 : c[k] = t[1 + k - 1]
        BY <4>1, PieceIs
      <4> HIDE DEF c, i
      <4> QED BY <4>2, <2>1
    <3> HIDE DEF c
    <3>2. CASE ~Has(t, "H")
      <4>1. Len(c) = 0
        BY <3>1, <3>2 DEF Width
      <4> QED BY <4>1, <3>1, EmptySeq, ComponentIs DEF Text, c
    <3>3. CASE Has(t, "H")
      <4>1. Len(c) = 2 /\ c[1] = t[1] /\ c[2] = t[2]
        BY <3>1, <3>3 DEF Width
      <4>2. Has(c, "H")
        BY <4>1, <3>3 DEF Has
      <4> QED BY <4>1, <4>2, <3>1, ComponentIs DEF c
    <3> QED BY <3>2, <3>3
  <2>4. IsComponent(SubSeq(t, i + 1, i + w), "M")
    <3> DEFINE c == SubSeq(t, i + 1, i + w)
    <3>1. c \in Text /\ Len(c) = w /\ \A k \in 1 .. w : c[k] = t[i + k]
      <4> HIDE DEF i, w
      <4>1. i + 1 \in 1 .. Len(t) + 1 /\ i + w \in (i + 1) - 1 .. Len(t)
        BY <1>1, <2>1, <2>2
      <4>2. /\ c \in Text /\ Len(c) = (i + w) - (i + 1) + 1
            /\ \A k \in 1 .. (i + w) - (i + 1) + 1 : c[k] = t[(i + 1) + k - 1]
        BY <4>1, PieceIs
      <4> HIDE DEF c
      <4> QED BY <4>2, <2>1, <2>2
    <3> HIDE DEF c
    <3>2. CASE ~Has(Minutes(t), "M")
      <4>1. Len(c) = 0
        BY <3>1, <3>2 DEF Width
      <4> QED BY <4>1, <3>1, EmptySeq, ComponentIs DEF Text, c
    <3>3. CASE Has(Minutes(t), "M")
      <4>1. w = 2
        BY <3>3 DEF Width
      <4> HIDE DEF i, w
      <4>2. Len(c) = 2 /\ c[1] = t[i + 1] /\ c[2] = t[i + 2]
        BY <3>1, <4>1
      <4>3. Minutes(t)[1] = t[i + 1] /\ Minutes(t)[2] = t[i + 2]
        BY <1>1, <2>1, <2>2, <4>1
      <4>4. Has(c, "M")
        BY <4>2, <4>3, <3>3 DEF Has
      <4> QED BY <4>2, <4>4, <3>1, ComponentIs DEF c
    <3> QED BY <3>2, <3>3
  <2>5. i \in 0 .. Len(t) /\ i + w \in i .. Len(t)
    <3> HIDE DEF i, w
    <3> QED BY <1>1, <2>1, <2>2
  <2> QED BY <2>2, <2>3, <2>4, <2>5 DEF IsTime
<1>3. ASSUME IsTime(t) PROVE IsSeconds(SecondsOf(t))
  <2>1. PICK i \in 0 .. Len(t) : \E j \in i .. Len(t) :
            /\ IsComponent(SubSeq(t, 1, i), "H")
            /\ IsComponent(SubSeq(t, i + 1, j), "M")
            /\ IsSeconds(SubSeq(t, j + 1, Len(t)))
    BY <1>3 DEF IsTime
  <2>2. PICK j \in i .. Len(t) :
            /\ IsComponent(SubSeq(t, 1, i), "H")
            /\ IsComponent(SubSeq(t, i + 1, j), "M")
            /\ IsSeconds(SubSeq(t, j + 1, Len(t)))
    BY <2>1
  <2> DEFINE c == SubSeq(t, i + 1, j)
             q == SubSeq(t, j + 1, Len(t))
  <2>3. c \in Text /\ Len(c) = j - i /\ \A k \in 1 .. j - i : c[k] = t[i + k]
    <3>1. i + 1 \in 1 .. Len(t) + 1 /\ j \in (i + 1) - 1 .. Len(t)
      BY <1>1
    <3>2. /\ c \in Text /\ Len(c) = j - (i + 1) + 1
          /\ \A k \in 1 .. j - (i + 1) + 1 : c[k] = t[(i + 1) + k - 1]
      BY <3>1, PieceIs
    <3> HIDE DEF c
    <3> QED BY <3>2, <1>1
  <2>4. q \in Text /\ Len(q) = Len(t) - j /\ \A k \in 1 .. Len(t) - j : q[k] = t[j + k]
    <3>1. j + 1 \in 1 .. Len(t) + 1 /\ Len(t) \in (j + 1) - 1 .. Len(t)
      BY <1>1
    <3>2. /\ q \in Text /\ Len(q) = Len(t) - (j + 1) + 1
          /\ \A k \in 1 .. Len(t) - (j + 1) + 1 : q[k] = t[(j + 1) + k - 1]
      BY <3>1, PieceIs
    <3> HIDE DEF q
    <3> QED BY <3>2, <1>1
  <2> HIDE DEF c, q
  <2>5. j = Len(t) \/ (j + 2 <= Len(t) /\ t[j + 2].letter \in {"S", "."})
    <3>1. CASE q = <<>>
      <4>1. Len(t) - j = 0
        BY <2>4, <3>1
      <4> QED BY <4>1, <1>1
    <3>2. CASE q # <<>>
      <4>1. Len(q) >= 2 /\ q[2].letter \in {"S", "."}
        BY <2>2, <2>4, <3>2, SecondsStart DEF q
      <4>2. j + 2 <= Len(t) /\ 2 \in 1 .. Len(t) - j
        BY <4>1, <2>4, <1>1
      <4>3. q[2] = t[j + 2]
        BY <4>2, <2>4
      <4> QED BY <4>1, <4>2, <4>3
    <3> QED BY <3>1, <3>2
  <2>6. c = <<>> \/ (Has(c, "M") /\ Len(c) = 2)
    BY <2>2, <2>3, ComponentIs DEF c
  <2>7. (c = <<>> /\ j = i) \/ (j = i + 2 /\ t[i + 2].letter = "M")
    <3>1. CASE c = <<>>
      <4>1. j - i = 0
        BY <2>3, <3>1
      <4> QED BY <4>1, <1>1, <3>1
    <3>2. CASE Has(c, "M") /\ Len(c) = 2
      <4>1. j - i = 2
        BY <2>3, <3>2
      <4>2. c[2] = t[i + 2]
        BY <2>3, <4>1
      <4>3. c[2].letter = "M"
        BY <3>2 DEF Has
      <4> QED BY <4>1, <4>2, <4>3, <1>1
    <3> QED BY <2>6, <3>1, <3>2
  <2>8. i = Width(t, "H")
    <3>1. i = Len(t) \/ (i + 2 <= Len(t) /\ t[i + 2].letter # "H")
      <4>1. CASE j = i
        BY <4>1, <2>5
      <4>2. CASE j = i + 2 /\ t[i + 2].letter = "M"
        BY <4>2, <1>1
      <4> QED BY <4>1, <4>2, <2>7
    <3> QED BY <2>2, <3>1, ComponentThenRest
  <2> DEFINE r == Minutes(t)
  <2>9. /\ r \in Text /\ Len(r) = Len(t) - i /\ r = SubSeq(t, i + 1, Len(t))
        /\ \A k \in 1 .. Len(t) - i : r[k] = t[i + k]
    BY <2>8, RestIs DEF Minutes, Rest
  <2> HIDE DEF r
  <2>10. j - i = Width(r, "M")
    <3>1. j - i \in 0 .. Len(r)
      BY <1>1, <2>9
    <3>2. SubSeq(r, 1, j - i) = c
      <4>1. /\ i + 1 \in 1 .. Len(t) + 1 /\ Len(t) \in (i + 1) - 1 .. Len(t)
            /\ 1 \in 1 .. Len(t) - (i + 1) + 2 /\ j - i \in 1 - 1 .. Len(t) - (i + 1) + 1
        BY <1>1
      <4>2. SubSeq(SubSeq(t, i + 1, Len(t)), 1, j - i) =
                SubSeq(t, (i + 1) + 1 - 1, (i + 1) + (j - i) - 1)
        BY <4>1, PieceOfPiece
      <4>3. (i + 1) + 1 - 1 = i + 1 /\ (i + 1) + (j - i) - 1 = j
        BY <1>1
      <4> QED BY <4>2, <4>3, <2>9 DEF c
    <3>3. j - i = Len(r) \/ ((j - i) + 2 <= Len(r) /\ r[(j - i) + 2].letter # "M")
      <4>1. CASE j = Len(t)
        BY <4>1, <2>9
      <4>2. CASE j + 2 <= Len(t) /\ t[j + 2].letter \in {"S", "."}
        <5>1. (j - i) + 2 \in 1 .. Len(t) - i /\ i + ((j - i) + 2) = j + 2
          BY <4>2, <1>1
        <5>2. r[(j - i) + 2] = t[j + 2] /\ (j - i) + 2 <= Len(r)
          BY <5>1, <2>9, <1>1
        <5> QED BY <5>2, <4>2
      <4> QED BY <4>1, <4>2, <2>5
    <3> QED BY <2>2, <2>9, <3>1, <3>2, <3>3, ComponentThenRest DEF c
  <2>11. SecondsOf(t) = q
    <3>1. SecondsOf(t) = SubSeq(t, i + (j - i) + 1, Len(t))
      BY <2>8, <2>10, TimeParts DEF r
    <3>2. i + (j - i) + 1 = j + 1
      BY <1>1
    <3> QED BY <3>1, <3>2 DEF q
  <2> QED BY <2>2, <2>11 DEF q
<1> QED BY <1>2, <1>3

-----------------------------------------------------------------------------
(* The letters of a text.                                                  *)

LettersOf(t) == {t[k].letter : k \in 1 .. Len(t)}

LEMMA RestLetters ==
    ASSUME NEW t \in Text, NEW u
    PROVE  LettersOf(t) \subseteq {"digits", u} \cup LettersOf(Rest(t, u))
<1> SUFFICES ASSUME NEW k \in 1 .. Len(t)
             PROVE  t[k].letter \in {"digits", u} \cup LettersOf(Rest(t, u))
  BY DEF LettersOf
<1> DEFINE w == Width(t, u)
           r == Rest(t, u)
<1>1. /\ Len(t) \in Nat /\ w \in {0, 2} /\ w <= Len(t) /\ Len(r) = Len(t) - w
      /\ \A i \in 1 .. Len(t) - w : r[i] = t[w + i]
  BY RestIs
<1>2. CASE k <= w
  <2>1. Has(t, u) /\ k \in {1, 2}
    BY <1>1, <1>2 DEF Width
  <2>2. CASE k = 1
    BY <2>1, <2>2 DEF Has, IsNumber
  <2>3. CASE k = 2
    BY <2>1, <2>3 DEF Has
  <2> QED BY <2>1, <2>2, <2>3
<1>3. CASE ~ (k <= w)
  <2> HIDE DEF w, r
  <2>1. k - w \in 1 .. Len(t) - w /\ k - w \in 1 .. Len(r) /\ w + (k - w) = k
    BY <1>1, <1>3
  <2>2. r[k - w] = t[k]
    BY <1>1, <2>1
  <2>3. r[k - w].letter \in LettersOf(r)
    BY <2>1 DEF LettersOf
  <2> QED BY <2>2, <2>3 DEF r
<1> QED BY <1>2, <1>3

LEMMA OccursIsALetter ==
    ASSUME NEW t \in Text, NEW l
    PROVE  Occurs(t, l) <=> l \in LettersOf(t)
BY DoesNotOccur DEF LettersOf

LEMMA ComponentLetters ==
    ASSUME NEW t \in Text, NEW u, u # "digits", IsComponent(t, u)
    PROVE  LettersOf(t) \subseteq {"digits", u}
<1>1. Len(t) \in {0, 2} /\ (Len(t) = 2 => IsNumber(t[1]) /\ t[2].letter = u)
  BY ComponentIs, EmptySeq DEF Has, Text
<1> SUFFICES ASSUME NEW k \in 1 .. Len(t) PROVE t[k].letter \in {"digits", u}
  BY DEF LettersOf
<1>3. Len(t) = 2 /\ IsNumber(t[1]) /\ t[2].letter = u
  <2>1. Len(t) # 0
    OBVIOUS
  <2> QED BY <2>1, <1>1
<1>2. k = 1 \/ k = 2
  BY <1>3
<1>4. t[1].letter = "digits"
  BY <1>3 DEF IsNumber
<1> QED BY <1>3, <1>4, <1>2

LEMMA SecondsLetters ==
    ASSUME NEW t \in Text, IsSeconds(t)
    PROVE  LettersOf(t) \subseteq {"digits", ".", "S"}
<1>1. CASE t = <<>> \/ (Has(t, "S") /\ Len(t) = 2)
  <2>1. IsComponent(t, "S")
    BY <1>1, ComponentIs
  <2> QED BY <2>1, ComponentLetters
<1>2. CASE IsFractional(t)
  <2>1. /\ Len(t) = 4 /\ t[1].letter = "digits" /\ t[2].letter = "."
        /\ t[3].letter = "digits" /\ t[4].letter = "S"
    BY <1>2 DEF IsFractional, IsNumber
  <2> SUFFICES ASSUME NEW k \in 1 .. 4 PROVE t[k].letter \in {"digits", ".", "S"}
    BY <2>1 DEF LettersOf
  <2>2. k \in {1, 2, 3, 4}
    OBVIOUS
  <2> QED BY <2>1, <2>2
<1> QED BY <1>1, <1>2, SecondsAre

LEMMA TimeLetters ==
    ASSUME NEW t \in Text, IsTime(t)
    PROVE  /\ LettersOf(t) \subseteq {"digits", "H", "M", ".", "S"}
           /\ Has(t, "H") \/ ~Occurs(t, "H")
           /\ Has(Minutes(t), "M") \/ ~Occurs(Minutes(t), "M")
<1>1. Minutes(t) \in Text /\ SecondsOf(t) \in Text /\ IsSeconds(SecondsOf(t))
  BY TimeIs, TimeParts
<1>2. LettersOf(SecondsOf(t)) \subseteq {"digits", ".", "S"}
  BY <1>1, SecondsLetters
<1>3. LettersOf(Minutes(t)) \subseteq {"digits", "M"} \cup LettersOf(SecondsOf(t))
  BY <1>1, RestLetters DEF SecondsOf
<1>4. LettersOf(t) \subseteq {"digits", "H"} \cup LettersOf(Minutes(t))
  BY RestLetters DEF Minutes
<1>5. ~Has(t, "H") => Minutes(t) = t
  BY RestIs DEF Minutes, Width
<1>6. ~Has(Minutes(t), "M") => SecondsOf(t) = Minutes(t)
  BY <1>1, RestIs DEF SecondsOf, Width
<1>7. "H" \notin LettersOf(Minutes(t)) /\ "M" \notin LettersOf(SecondsOf(t))
  BY <1>2, <1>3
<1> QED BY <1>1, <1>2, <1>3, <1>4, <1>5, <1>6, <1>7, OccursIsALetter

-----------------------------------------------------------------------------
(* What is taken of a date and of a time.                                  *)

LEMMA FitsNothing == Fits(0)
BY DurationAssumption DEF Fits

LEMMA DateTaken ==
    ASSUME NoPlus, NEW t \in Text
    PROVE  LET d == TakeComponent(t, "D")
           IN  /\ d.ok /\ d.rest = <<>> <=> IsComponent(t, "D") /\ Fits(Count(t, "D"))
               /\ d.ok => d.n = Count(t, "D")
<1> DEFINE d == TakeComponent(t, "D")
<1>1. /\ d.ok <=> (Has(t, "D") /\ Fits(t[1].value)) \/ ~Occurs(t, "D")
      /\ d.ok => d.n = Count(t, "D") /\ d.rest = Rest(t, "D")
      /\ Has(t, "D") => Occurs(t, "D")
  BY ComponentTaken
<1> HIDE DEF d
<1>2. IsComponent(t, "D") <=> t = <<>> \/ (Has(t, "D") /\ Len(t) = 2)
  BY ComponentIs
<1>3. Rest(t, "D") = <<>> <=> t = <<>> \/ (Has(t, "D") /\ Len(t) = 2)
  <2>1. /\ Len(t) \in Nat /\ Rest(t, "D") \in Text
        /\ Len(Rest(t, "D")) = Len(t) - Width(t, "D")
    BY RestIs
  <2>2. (Rest(t, "D") = <<>> <=> Len(t) - Width(t, "D") = 0) /\ (t = <<>> <=> Len(t) = 0)
    BY <2>1, EmptySeq DEF Text
  <2>3. CASE Has(t, "D")
    <3>1. Width(t, "D") = 2 /\ Len(t) >= 2
      BY <2>3 DEF Width, Has
    <3>2. Rest(t, "D") = <<>> <=> Len(t) = 2
      <4>1. Rest(t, "D") = <<>> <=> Len(t) - 2 = 0
        BY <2>2, <3>1
      <4>2. Len(t) - 2 = 0 <=> Len(t) = 2
        BY <2>1
      <4> QED BY <4>1, <4>2
    <3>3. t # <<>>
      <4>1. Len(t) # 0
        BY <3>1
      <4> QED BY <4>1, <2>2
    <3> QED BY <2>3, <3>2, <3>3
  <2>4. CASE ~Has(t, "D")
    <3>1. Rest(t, "D") = t
      <4>1. Width(t, "D") = 0
        BY <2>4 DEF Width
      <4> QED BY <4>1, RestIs
    <3>2. Rest(t, "D") = <<>> <=> t = <<>>
      BY <3>1
    <3> QED BY <2>4, <3>2
  <2> QED BY <2>3, <2>4
<1>4. t = <<>> => ~Occurs(t, "D")
  <2>1. t = <<>> => DOMAIN t = {}
    OBVIOUS
  <2> QED BY <2>1 DEF Occurs
<1>5. /\ Has(t, "D") => Count(t, "D") = t[1].value
      /\ ~Has(t, "D") => Count(t, "D") = 0
  BY DEF Count
<1>6. CASE Has(t, "D")
  BY <1>1, <1>2, <1>3, <1>5, <1>6 DEF d
<1>7. CASE ~Has(t, "D")
  BY <1>1, <1>2, <1>3, <1>4, <1>5, <1>7, FitsNothing DEF d
<1> QED BY <1>6, <1>7

LEMMA TimeTaken ==
    ASSUME NoPlus, NEW t \in Text
    PROVE  LET h == TakeComponent(t, "H")
               m == TakeComponent(h.rest, "M")
               s == TakeSeconds(m.rest)
           IN  /\ h.ok /\ m.ok /\ s.verdict = "ok" <=>
                      /\ IsTime(t) /\ Fits(Count(t, "H")) /\ Fits(Count(Minutes(t), "M"))
                      /\ Fits(WholeSeconds(SecondsOf(t)))
               /\ h.ok => h.n = Count(t, "H")
               /\ h.ok /\ m.ok => m.n = Count(Minutes(t), "M")
               /\ h.ok /\ m.ok /\ s.verdict = "ok" =>
                      /\ s.n = WholeSeconds(SecondsOf(t))
                      /\ s.nanos = FractionNanos(SecondsOf(t))
<1> DEFINE h == TakeComponent(t, "H")
           m == TakeComponent(h.rest, "M")
           s == TakeSeconds(m.rest)
           r == Minutes(t)
           q == SecondsOf(t)
<1>1. r \in Text /\ q \in Text
  BY TimeParts
<1>2. /\ h.ok <=> (Has(t, "H") /\ Fits(t[1].value)) \/ ~Occurs(t, "H")
      /\ h.ok => h.n = Count(t, "H") /\ h.rest = r
      /\ Has(t, "H") => Occurs(t, "H")
  BY ComponentTaken DEF Minutes
<1> HIDE DEF h
<1>3. ASSUME h.ok
      PROVE  /\ m.ok <=> (Has(r, "M") /\ Fits(r[1].value)) \/ ~Occurs(r, "M")
             /\ m.ok => m.n = Count(r, "M") /\ m.rest = q
             /\ Has(r, "M") => Occurs(r, "M")
  <2>1. m = TakeComponent(r, "M")
    BY <1>2, <1>3
  <2> HIDE DEF m, r
  <2>2. q = Rest(r, "M")
    BY DEF SecondsOf, r
  <2> QED BY <1>1, <2>1, <2>2, ComponentTaken
<1> HIDE DEF m
<1>4. ASSUME h.ok, m.ok
      PROVE  /\ s.verdict = "ok" <=> IsSeconds(q) /\ (q = <<>> \/ Fits(q[1].value))
             /\ s.verdict = "ok" => s.n = WholeSeconds(q) /\ s.nanos = FractionNanos(q)
  <2>1. s = TakeSeconds(q)
    BY <1>3, <1>4
  <2> HIDE DEF s, q
  <2> QED BY <1>1, <2>1, SecondsTaken
<1> HIDE DEF s
<1>5. IsTime(t) <=> IsSeconds(q)
  BY TimeIs
<1>6. /\ (q = <<>> \/ Fits(q[1].value)) <=> Fits(WholeSeconds(q))
      /\ Count(t, "H") = IF Has(t, "H") THEN t[1].value ELSE 0
      /\ Count(r, "M") = IF Has(r, "M") THEN r[1].value ELSE 0
  BY FitsNothing DEF WholeSeconds, Count
<1>7. IsTime(t) => (Has(t, "H") \/ ~Occurs(t, "H")) /\ (Has(r, "M") \/ ~Occurs(r, "M"))
  BY TimeLetters
<1> HIDE DEF r, q
<1>8. h.ok => Fits(Count(t, "H"))
  BY <1>2, <1>6, FitsNothing
<1>9. h.ok /\ m.ok => Fits(Count(r, "M"))
  BY <1>3, <1>6, FitsNothing
<1>10. IsTime(t) /\ Fits(Count(t, "H")) => h.ok
  BY <1>2, <1>6, <1>7
<1>11. IsTime(t) /\ Fits(Count(r, "M")) /\ h.ok => m.ok
  BY <1>3, <1>6, <1>7
<1>12. h.ok /\ m.ok /\ s.verdict = "ok" <=>
           IsTime(t) /\ Fits(Count(t, "H")) /\ Fits(Count(r, "M")) /\ Fits(WholeSeconds(q))
  BY <1>4, <1>5, <1>6, <1>8, <1>9, <1>10, <1>11
<1> QED BY <1>2, <1>3, <1>4, <1>12 DEF h, m, s, r, q

-----------------------------------------------------------------------------
(* The shape of a duration: a date, and a time after the first T.          *)

DateOf(t) == IF Occurs(Tail(t), "T") THEN Before(Tail(t), "T") ELSE Tail(t)
TimeOf(t) == IF Occurs(Tail(t), "T") THEN After(Tail(t), "T") ELSE <<>>

LEMMA TailIs ==
    ASSUME NEW t \in Text, Len(t) >= 1
    PROVE  /\ Len(t) \in Nat /\ Tail(t) \in Text /\ Len(Tail(t)) = Len(t) - 1
           /\ \A k \in 1 .. Len(t) - 1 : Tail(t)[k] = t[k + 1]
           /\ Tail(t) = SubSeq(t, 2, Len(t))
<1>1. Len(t) \in Nat /\ t # <<>>
  BY EmptySeq DEF Text
<1>2. Tail(t) = SubSeq(t, 2, Len(t))
  BY <1>1, TailIsSubSeq DEF Text
<1> DEFINE r == SubSeq(t, 2, Len(t))
<1>5. 2 \in 1 .. Len(t) + 1 /\ Len(t) \in 2 - 1 .. Len(t)
  BY <1>1
<1>3. r \in Text /\ Len(r) = Len(t) - 2 + 1 /\ \A k \in 1 .. Len(t) - 2 + 1 : r[k] = t[2 + k - 1]
  BY <1>5, PieceIs
<1> HIDE DEF r
<1>4. Len(r) = Len(t) - 1 /\ \A k \in 1 .. Len(t) - 1 : r[k] = t[k + 1]
  BY <1>1, <1>3
<1> QED BY <1>1, <1>2, <1>3, <1>4 DEF r

LEMMA Timed ==
    ASSUME NEW t \in Text, NEW j \in 2 .. Len(t), t[j].letter = "T",
           \A i \in 2 .. j - 1 : t[i].letter # "T"
    PROVE  /\ Occurs(Tail(t), "T")
           /\ DateOf(t) = SubSeq(t, 2, j - 1) /\ TimeOf(t) = SubSeq(t, j + 1, Len(t))
<1> DEFINE r == Tail(t)
<1>1. /\ Len(t) \in Nat /\ r \in Text /\ Len(r) = Len(t) - 1
      /\ \A k \in 1 .. Len(t) - 1 : r[k] = t[k + 1]
      /\ r = SubSeq(t, 2, Len(t))
  <2>1. Len(t) >= 1
    BY DEF Text
  <2> QED BY <2>1, TailIs
<1>2. Occurs(r, "T") /\ Find(r, "T") = j - 1
  <2> HIDE DEF r
  <2>1. j - 1 \in 1 .. Len(r)
    BY <1>1
  <2>2. r[j - 1] = t[j]
    <3>1. j - 1 \in 1 .. Len(t) - 1 /\ (j - 1) + 1 = j
      BY <1>1
    <3> QED BY <3>1, <1>1
  <2>3. ASSUME NEW i \in 1 .. (j - 1) - 1 PROVE r[i].letter # "T"
    <3>1. i \in 1 .. Len(t) - 1 /\ i + 1 \in 2 .. j - 1
      BY <1>1
    <3> QED BY <3>1, <1>1
  <2> QED BY <1>1, <2>1, <2>2, <2>3, FoundAt
<1>3. SubSeq(r, 1, (j - 1) - 1) = SubSeq(t, 2, j - 1)
  <2>1. /\ 2 \in 1 .. Len(t) + 1 /\ Len(t) \in 2 - 1 .. Len(t)
        /\ 1 \in 1 .. Len(t) - 2 + 2 /\ (j - 1) - 1 \in 1 - 1 .. Len(t) - 2 + 1
    BY <1>1
  <2>2. SubSeq(SubSeq(t, 2, Len(t)), 1, (j - 1) - 1) = SubSeq(t, 2 + 1 - 1, 2 + ((j - 1) - 1) - 1)
    BY <2>1, PieceOfPiece
  <2>3. 2 + 1 - 1 = 2 /\ 2 + ((j - 1) - 1) - 1 = j - 1
    BY <1>1
  <2> QED BY <1>1, <2>2, <2>3
<1>4. SubSeq(r, (j - 1) + 1, Len(r)) = SubSeq(t, j + 1, Len(t))
  <2>1. /\ 2 \in 1 .. Len(t) + 1 /\ Len(t) \in 2 - 1 .. Len(t)
        /\ j \in 1 .. Len(t) - 2 + 2 /\ Len(t) - 1 \in j - 1 .. Len(t) - 2 + 1
    BY <1>1
  <2>2. SubSeq(SubSeq(t, 2, Len(t)), j, Len(t) - 1) = SubSeq(t, 2 + j - 1, 2 + (Len(t) - 1) - 1)
    BY <2>1, PieceOfPiece
  <2>3. 2 + j - 1 = j + 1 /\ 2 + (Len(t) - 1) - 1 = Len(t) /\ (j - 1) + 1 = j
    BY <1>1
  <2>4. SubSeq(r, j, Len(r)) = SubSeq(SubSeq(t, 2, Len(t)), j, Len(t) - 1)
    BY <1>1
  <2> QED BY <2>2, <2>3, <2>4
<1> HIDE DEF r
<1>5. DateOf(t) = SubSeq(r, 1, (j - 1) - 1) /\ TimeOf(t) = SubSeq(r, (j - 1) + 1, Len(r))
  BY <1>2 DEF DateOf, TimeOf, Before, After, r
<1> QED BY <1>2, <1>3, <1>4, <1>5 DEF r

(* Where the T is, if there is one, and the texts around it.               *)
LEMMA Divides ==
    ASSUME NEW t \in Text, Len(t) > 1
    PROVE  /\ DateOf(t) \in Text /\ TimeOf(t) \in Text
           /\ ~Occurs(Tail(t), "T") => DateOf(t) = Tail(t) /\ TimeOf(t) = <<>>
           /\ Occurs(Tail(t), "T") =>
                \E j \in 2 .. Len(t) :
                    /\ t[j].letter = "T" /\ \A i \in 2 .. j - 1 : t[i].letter # "T"
                    /\ DateOf(t) = SubSeq(t, 2, j - 1) /\ TimeOf(t) = SubSeq(t, j + 1, Len(t))
                    /\ Len(DateOf(t)) = j - 2 /\ Len(TimeOf(t)) = Len(t) - j
                    /\ \A k \in 1 .. j - 2 : DateOf(t)[k] = t[k + 1]
                    /\ \A k \in 1 .. Len(t) - j : TimeOf(t)[k] = t[j + k]
<1>1. /\ Len(t) \in Nat /\ Tail(t) \in Text /\ Len(Tail(t)) = Len(t) - 1
      /\ \A k \in 1 .. Len(t) - 1 : Tail(t)[k] = t[k + 1]
  <2>1. Len(t) >= 1
    BY DEF Text
  <2> QED BY <2>1, TailIs
<1>2. CASE ~Occurs(Tail(t), "T")
  <2>1. DateOf(t) = Tail(t) /\ TimeOf(t) = <<>>
    BY <1>2 DEF DateOf, TimeOf
  <2>2. <<>> \in Text
    BY DEF Text
  <2> QED BY <1>1, <1>2, <2>1, <2>2
<1>3. CASE Occurs(Tail(t), "T")
  <2> DEFINE f == Find(Tail(t), "T")
             j == f + 1
  <2>1. /\ f \in 1 .. Len(t) - 1 /\ Tail(t)[f].letter = "T"
        /\ \A i \in 1 .. f - 1 : Tail(t)[i].letter # "T"
    BY <1>1, <1>3, FirstFound
  <2> HIDE DEF f
  <2>2. j \in 2 .. Len(t) /\ t[j].letter = "T"
    <3>1. Tail(t)[f] = t[f + 1]
      BY <1>1, <2>1
    <3>2. j \in 2 .. Len(t)
      BY <1>1, <2>1
    <3> QED BY <3>1, <3>2, <2>1
  <2>3. ASSUME NEW i \in 2 .. j - 1 PROVE t[i].letter # "T"
    <3>1. i - 1 \in 1 .. f - 1 /\ i - 1 \in 1 .. Len(t) - 1 /\ (i - 1) + 1 = i
      BY <1>1, <2>1
    <3>2. Tail(t)[i - 1] = t[i]
      BY <3>1, <1>1
    <3> QED BY <2>1, <3>1, <3>2
  <2> HIDE DEF j
  <2>4. DateOf(t) = SubSeq(t, 2, j - 1) /\ TimeOf(t) = SubSeq(t, j + 1, Len(t))
    BY <2>2, <2>3, Timed
  <2> DEFINE d == SubSeq(t, 2, j - 1)
             e == SubSeq(t, j + 1, Len(t))
  <2>5. d \in Text /\ Len(d) = j - 2 /\ \A k \in 1 .. j - 2 : d[k] = t[k + 1]
    <3>1. 2 \in 1 .. Len(t) + 1 /\ j - 1 \in 2 - 1 .. Len(t)
      BY <1>1, <2>2
    <3>2. /\ d \in Text /\ Len(d) = (j - 1) - 2 + 1
          /\ \A k \in 1 .. (j - 1) - 2 + 1 : d[k] = t[2 + k - 1]
      BY <3>1, PieceIs
    <3> HIDE DEF d
    <3> QED BY <3>2, <1>1, <2>2
  <2>6. e \in Text /\ Len(e) = Len(t) - j /\ \A k \in 1 .. Len(t) - j : e[k] = t[j + k]
    <3>1. j + 1 \in 1 .. Len(t) + 1 /\ Len(t) \in (j + 1) - 1 .. Len(t)
      BY <1>1, <2>2
    <3>2. /\ e \in Text /\ Len(e) = Len(t) - (j + 1) + 1
          /\ \A k \in 1 .. Len(t) - (j + 1) + 1 : e[k] = t[(j + 1) + k - 1]
      BY <3>1, PieceIs
    <3> HIDE DEF e
    <3> QED BY <3>2, <1>1, <2>2
  <2> HIDE DEF d, e
  <2> DEFINE date == DateOf(t)
             time == TimeOf(t)
  <2>7. date = d /\ time = e
    BY <2>4 DEF d, e
  <2> HIDE DEF date, time
  <2>8. /\ date \in Text /\ Len(date) = j - 2 /\ \A k \in 1 .. j - 2 : date[k] = t[k + 1]
        /\ time \in Text /\ Len(time) = Len(t) - j /\ \A k \in 1 .. Len(t) - j : time[k] = t[j + k]
    BY <2>5, <2>6, <2>7
  <2> QED BY <1>3, <2>2, <2>3, <2>4, <2>8 DEF date, time
<1> QED BY <1>2, <1>3

LEMMA NoTime == IsTime(<<>>) /\ <<>> \in Text
<1>1. <<>> \in Text /\ Len(<<>>) = 0
  BY DEF Text
<1>2. /\ Rest(<<>>, "H") = <<>> /\ Rest(<<>>, "M") = <<>>
  <2>1. ~Has(<<>>, "H") /\ ~Has(<<>>, "M")
    BY <1>1 DEF Has
  <2> QED BY <1>1, <2>1, RestIs DEF Width
<1>3. SecondsOf(<<>>) = <<>>
  BY <1>2 DEF SecondsOf, Minutes
<1>4. IsSeconds(<<>>)
  BY <1>1, SecondsAre
<1> QED BY <1>1, <1>3, <1>4, TimeIs

(* The grammar goes by the first T.                                        *)
LEMMA Shape ==
    ASSUME NEW t \in Text, Len(t) > 1
    PROVE  WellFormed(t) <=>
              /\ t[1].letter = "P"
              /\ IsComponent(DateOf(t), "D") /\ IsTime(TimeOf(t))
              /\ Occurs(Tail(t), "T") => TimeOf(t) # <<>>
<1>1. /\ Len(t) \in Nat /\ Tail(t) \in Text /\ Len(Tail(t)) = Len(t) - 1
      /\ \A k \in 1 .. Len(t) - 1 : Tail(t)[k] = t[k + 1]
  <2>1. Len(t) >= 1
    BY DEF Text
  <2> QED BY <2>1, TailIs
<1>2. \A k \in 1 .. Len(t) : t[k] \in Symbol
  BY ElementOfSeq DEF Text
<1>3. \A k \in 1 .. Len(t) : \A l : l # "digits" => (t[k] = Letter(l) <=> t[k].letter = l)
  BY <1>2, SymbolIs
<1>4. DateOf(t) \in Text /\ TimeOf(t) \in Text
  BY Divides
<1>5. t[1] = Letter("P") <=> t[1].letter = "P"
  <2>1. 1 \in 1 .. Len(t)
    BY <1>1
  <2> QED BY <2>1, <1>3
<1>6. ASSUME t[1].letter = "P", IsComponent(DateOf(t), "D"), IsTime(TimeOf(t)),
             Occurs(Tail(t), "T") => TimeOf(t) # <<>>
      PROVE  WellFormed(t)
  <2>1. CASE ~Occurs(Tail(t), "T")
    <3>1. IsComponent(Tail(t), "D")
      BY <1>6, <2>1, Divides
    <3> QED BY <1>5, <1>6, <3>1 DEF WellFormed
  <2>2. CASE Occurs(Tail(t), "T")
    <3>1. PICK j \in 2 .. Len(t) :
              /\ t[j].letter = "T"
              /\ DateOf(t) = SubSeq(t, 2, j - 1) /\ TimeOf(t) = SubSeq(t, j + 1, Len(t))
              /\ Len(TimeOf(t)) = Len(t) - j
      BY <2>2, Divides
    <3>2. Len(TimeOf(t)) # 0
      BY <1>4, <1>6, <2>2, EmptySeq DEF Text
    <3>3. j \in 2 .. Len(t) - 1
      BY <1>1, <3>1, <3>2
    <3>4. t[j] = Letter("T")
      <4>1. j \in 1 .. Len(t)
        BY <1>1
      <4> QED BY <4>1, <3>1, <1>3
    <3>5. IsComponent(SubSeq(t, 2, j - 1), "D") /\ IsTime(SubSeq(t, j + 1, Len(t)))
      BY <1>6, <3>1
    <3> QED BY <1>5, <1>6, <3>3, <3>4, <3>5 DEF WellFormed
  <2> QED BY <2>1, <2>2
<1>7. ASSUME WellFormed(t)
      PROVE  /\ t[1].letter = "P"
             /\ IsComponent(DateOf(t), "D") /\ IsTime(TimeOf(t))
             /\ Occurs(Tail(t), "T") => TimeOf(t) # <<>>
  <2>1. t[1].letter = "P"
    BY <1>5, <1>7 DEF WellFormed
  <2>2. CASE IsComponent(Tail(t), "D")
    <3>1. LettersOf(Tail(t)) \subseteq {"digits", "D"}
      BY <1>1, <2>2, ComponentLetters
    <3>2. ~Occurs(Tail(t), "T")
      BY <1>1, <3>1, OccursIsALetter
    <3> QED BY <2>1, <2>2, <3>2, Divides, NoTime
  <2>3. ASSUME NEW j \in 2 .. Len(t) - 1, t[j] = Letter("T"),
               IsComponent(SubSeq(t, 2, j - 1), "D"), IsTime(SubSeq(t, j + 1, Len(t)))
        PROVE  /\ IsComponent(DateOf(t), "D") /\ IsTime(TimeOf(t))
               /\ TimeOf(t) # <<>>
    <3> DEFINE d == SubSeq(t, 2, j - 1)
               e == SubSeq(t, j + 1, Len(t))
    <3>1. d \in Text /\ Len(d) = j - 2 /\ \A k \in 1 .. j - 2 : d[k] = t[k + 1]
      <4>1. 2 \in 1 .. Len(t) + 1 /\ j - 1 \in 2 - 1 .. Len(t)
        BY <1>1
      <4>2. /\ d \in Text /\ Len(d) = (j - 1) - 2 + 1
            /\ \A k \in 1 .. (j - 1) - 2 + 1 : d[k] = t[2 + k - 1]
        BY <4>1, PieceIs
      <4> HIDE DEF d
      <4> QED BY <4>2, <1>1
    <3>2. e \in Text /\ Len(e) = Len(t) - j
      <4>1. j + 1 \in 1 .. Len(t) + 1 /\ Len(t) \in (j + 1) - 1 .. Len(t)
        BY <1>1
      <4>2. e \in Text /\ Len(e) = Len(t) - (j + 1) + 1
        BY <4>1, PieceIs
      <4> HIDE DEF e
      <4> QED BY <4>2, <1>1
    <3>3. LettersOf(d) \subseteq {"digits", "D"}
      BY <2>3, <3>1, ComponentLetters
    <3>4. \A i \in 2 .. j - 1 : t[i].letter # "T"
      <4> SUFFICES ASSUME NEW i \in 2 .. j - 1 PROVE t[i].letter # "T"
        OBVIOUS
      <4>1. i - 1 \in 1 .. j - 2 /\ (i - 1) + 1 = i
        BY <1>1
      <4>2. d[i - 1] = t[i] /\ i - 1 \in 1 .. Len(d)
        BY <4>1, <3>1
      <4>3. t[i].letter \in LettersOf(d)
        BY <4>2 DEF LettersOf
      <4> QED BY <4>3, <3>3
    <3>5. j \in 2 .. Len(t) /\ t[j].letter = "T"
      BY <1>1, <2>3 DEF Letter
    <3>6. DateOf(t) = d /\ TimeOf(t) = e
      BY <3>4, <3>5, Timed
    <3>7. e # <<>>
      <4>1. Len(e) # 0
        BY <1>1, <3>2
      <4> HIDE DEF e
      <4> QED BY <4>1, <3>2, EmptySeq DEF Text
    <3> QED BY <2>3, <3>6, <3>7
  <2> QED BY <1>7, <2>1, <2>2, <2>3 DEF WellFormed
<1> QED BY <1>6, <1>7

(* A duration of the grammar has no component of those it prohibits.       *)
LEMMA NothingProhibited ==
    ASSUME NEW t \in Text, Len(t) > 1, WellFormed(t)
    PROVE  ~Occurs(Tail(t), "Y") /\ ~Occurs(DateOf(t), "M")
<1>1. /\ Len(t) \in Nat /\ Tail(t) \in Text /\ Len(Tail(t)) = Len(t) - 1
      /\ \A k \in 1 .. Len(t) - 1 : Tail(t)[k] = t[k + 1]
  <2>1. Len(t) >= 1
    BY DEF Text
  <2> QED BY <2>1, TailIs
<1>2. DateOf(t) \in Text /\ TimeOf(t) \in Text
  BY Divides
<1>3. LettersOf(DateOf(t)) \subseteq {"digits", "D"}
  BY <1>2, Shape, ComponentLetters
<1>4. LettersOf(TimeOf(t)) \subseteq {"digits", "H", "M", ".", "S"}
  BY <1>2, Shape, TimeLetters
<1>5. ~Occurs(DateOf(t), "M")
  BY <1>2, <1>3, OccursIsALetter
<1>6. CASE ~Occurs(Tail(t), "T")
  <2>1. DateOf(t) = Tail(t)
    BY <1>6, Divides
  <2> QED BY <2>1, <1>1, <1>3, <1>5, OccursIsALetter
<1>7. CASE Occurs(Tail(t), "T")
  <2> DEFINE date == DateOf(t)
             time == TimeOf(t)
  <2>1. PICK j \in 2 .. Len(t) :
            /\ t[j].letter = "T"
            /\ Len(date) = j - 2 /\ Len(time) = Len(t) - j
            /\ \A k \in 1 .. j - 2 : date[k] = t[k + 1]
            /\ \A k \in 1 .. Len(t) - j : time[k] = t[j + k]
    BY <1>7, Divides
  <2> HIDE DEF date, time
  <2>2. ASSUME NEW k \in 1 .. Len(Tail(t)) PROVE Tail(t)[k].letter # "Y"
    <3>1. k \in 1 .. Len(t) - 1 /\ Tail(t)[k] = t[k + 1] /\ j \in Nat
      BY <1>1
    <3>2. CASE k + 1 < j
      <4>1. k \in 1 .. j - 2
        BY <3>1, <3>2
      <4>2. Tail(t)[k].letter \in LettersOf(date)
        BY <4>1, <3>1, <2>1 DEF LettersOf
      <4> QED BY <4>2, <1>3 DEF date
    <3>3. CASE k + 1 = j
      BY <3>1, <3>3, <2>1
    <3>4. CASE j < k + 1
      <4>1. (k + 1) - j \in 1 .. Len(t) - j /\ j + ((k + 1) - j) = k + 1
        BY <1>1, <3>1, <3>4
      <4>2. Tail(t)[k] = time[(k + 1) - j] /\ (k + 1) - j \in 1 .. Len(time)
        BY <4>1, <3>1, <2>1
      <4>3. Tail(t)[k].letter \in LettersOf(time)
        BY <4>2 DEF LettersOf
      <4> QED BY <4>3, <1>4 DEF time
    <3>5. k + 1 < j \/ k + 1 = j \/ j < k + 1
      BY <3>1
    <3> QED BY <3>2, <3>3, <3>4, <3>5
  <2>3. ~Occurs(Tail(t), "Y")
    BY <2>2, <1>1, DoesNotOccur
  <2> QED BY <2>3, <1>5
<1> QED BY <1>6, <1>7

-----------------------------------------------------------------------------
(* What the parser makes of a duration.                                    *)

Hours(t) == Count(TimeOf(t), "H")
MinutesOf(t) == Count(Minutes(TimeOf(t)), "M")
SecondsPart(t) == SecondsOf(TimeOf(t))
Coarse(t) ==
    Count(DateOf(t), "D") * SecondsPerDay + Hours(t) * SecondsPerHour
        + MinutesOf(t) * SecondsPerMinute
Total(t) ==
    (Coarse(t) + WholeSeconds(SecondsPart(t))) * NanosPerSecond + FractionNanos(SecondsPart(t))

LEMMA TimesIsMore ==
    ASSUME NEW a \in Nat, NEW b \in Nat \ {0}
    PROVE  a * b \in Nat /\ a <= a * b
<1>1. b - 1 \in Nat /\ a * (b - 1) \in Nat
  OBVIOUS
<1>2. a * b = a + a * (b - 1)
  BY <1>1
<1> QED BY <1>1, <1>2

LEMMA SecondsInNat ==
    ASSUME NEW t \in Text, IsSeconds(t)
    PROVE  WholeSeconds(t) \in Nat /\ FractionNanos(t) \in Nat
<1>0. \A k \in 1 .. Len(t) : t[k] \in Symbol
  BY ElementOfSeq DEF Text
<1>1. t # <<>> => t[1].value \in Nat
  <2> SUFFICES ASSUME t # <<>> PROVE t[1].value \in Nat
    OBVIOUS
  <2>1. Len(t) >= 2 /\ IsNumber(t[1])
    BY SecondsStart
  <2>2. 1 \in 1 .. Len(t)
    BY <2>1 DEF Text
  <2> QED BY <1>0, <2>1, <2>2, SymbolIs
<1>2. Len(t) = 4 => /\ t[3].value \in Nat /\ t[3].digits \in Nat
                    /\ t[3].digits <= FractionDigits
  <2> SUFFICES ASSUME Len(t) = 4
               PROVE  /\ t[3].value \in Nat /\ t[3].digits \in Nat
                      /\ t[3].digits <= FractionDigits
    OBVIOUS
  <2>1. IsFractional(t)
    <3>1. Len(t) # 2 /\ Len(t) # 0
      OBVIOUS
    <3>2. t # <<>>
      BY <3>1, EmptySeq DEF Text
    <3> QED BY <3>1, <3>2, SecondsAre
  <2>2. IsNumber(t[3]) /\ t[3].digits <= FractionDigits
    BY <2>1 DEF IsFractional
  <2>3. 3 \in 1 .. Len(t)
    OBVIOUS
  <2> QED BY <1>0, <2>2, <2>3, SymbolIs
<1>3. WholeSeconds(t) \in Nat
  BY <1>1 DEF WholeSeconds
<1>4. CASE Len(t) = 4
  <2>1. FractionDigits - t[3].digits \in Nat
    BY <1>2, <1>4, DurationAssumption
  <2>2. PowerOfTen[FractionDigits - t[3].digits] \in Nat
    BY <2>1, PowersOfTen
  <2>3. t[3].value * PowerOfTen[FractionDigits - t[3].digits] \in Nat
    BY <2>2, <1>2, <1>4
  <2> QED BY <1>3, <1>4, <2>3 DEF FractionNanos
<1>5. CASE Len(t) # 4
  BY <1>3, <1>5 DEF FractionNanos
<1> QED BY <1>4, <1>5

(* If the total fits the word, so does all that it is made of.             *)
LEMMA PartsFit ==
    ASSUME NEW d \in Nat, NEW h \in Nat, NEW m \in Nat, NEW s \in Nat, NEW f \in Nat,
           LET coarse == d * SecondsPerDay + h * SecondsPerHour + m * SecondsPerMinute
           IN  Fits((coarse + s) * NanosPerSecond + f)
    PROVE  /\ Fits(d * SecondsPerDay + h * SecondsPerHour + m * SecondsPerMinute)
           /\ Fits(d) /\ Fits(h) /\ Fits(m) /\ Fits(s)
<1> DEFINE x == d * SecondsPerDay
           y == h * SecondsPerHour
           z == m * SecondsPerMinute
<1>1. {SecondsPerMinute, SecondsPerHour, SecondsPerDay} \subseteq Nat \ {0} /\ MaxWord \in Nat
  BY DurationAssumption
<1>2. /\ x \in Nat /\ d <= x /\ y \in Nat /\ h <= y /\ z \in Nat /\ m <= z
  BY <1>1, TimesIsMore
<1> HIDE DEF x, y, z
<1> DEFINE c == x + y + z
<1>3. c \in Nat /\ x <= c /\ y <= c /\ z <= c
  BY <1>2
<1> DEFINE w == c + s
<1>4. w \in Nat /\ c <= w /\ s <= w
  BY <1>3
<1> HIDE DEF w
<1>5. w * NanosPerSecond \in Nat /\ w <= w * NanosPerSecond
  BY <1>4, PerSecond, TimesIsMore
<1>6. w * NanosPerSecond + f <= MaxWord
  BY DEF Fits, w, x, y, z
<1>7. w <= MaxWord
  <2> DEFINE v == w * NanosPerSecond
  <2> HIDE DEF v
  <2>1. v \in Nat /\ w <= v /\ v + f <= MaxWord
    BY <1>5, <1>6 DEF v
  <2> QED BY <2>1, <1>4, <1>1
<1>8. c <= MaxWord /\ d <= MaxWord /\ h <= MaxWord /\ m <= MaxWord /\ s <= MaxWord
  BY <1>1, <1>2, <1>3, <1>4, <1>7
<1> QED BY <1>8 DEF Fits, x, y, z

LEMMA PartsInNat ==
    ASSUME NEW t \in Text, Len(t) > 1, WellFormed(t)
    PROVE  /\ Count(DateOf(t), "D") \in Nat /\ Hours(t) \in Nat /\ MinutesOf(t) \in Nat
           /\ WholeSeconds(SecondsPart(t)) \in Nat /\ FractionNanos(SecondsPart(t)) \in Nat
           /\ Coarse(t) \in Nat /\ Total(t) \in Nat
<1>1. DateOf(t) \in Text /\ TimeOf(t) \in Text
  BY Divides
<1>2. IsTime(TimeOf(t))
  BY Shape
<1>3. Minutes(TimeOf(t)) \in Text /\ SecondsPart(t) \in Text /\ IsSeconds(SecondsPart(t))
  BY <1>1, <1>2, TimeParts, TimeIs DEF SecondsPart
<1>4. /\ Count(DateOf(t), "D") \in Nat /\ Hours(t) \in Nat /\ MinutesOf(t) \in Nat
  BY <1>1, <1>3, CountIs DEF Hours, MinutesOf
<1>5. WholeSeconds(SecondsPart(t)) \in Nat /\ FractionNanos(SecondsPart(t)) \in Nat
  BY <1>3, SecondsInNat
<1>6. Coarse(t) \in Nat
  <2>1. {SecondsPerMinute, SecondsPerHour, SecondsPerDay} \subseteq Nat
    BY DurationAssumption
  <2> QED BY <1>4, <2>1, SMTT(20) DEF Coarse
<1>7. Total(t) \in Nat
  BY <1>5, <1>6, PerSecond DEF Total
<1> QED BY <1>4, <1>5, <1>6, <1>7

LEMMA ParseIs ==
    ASSUME NoPlus, NEW t \in Text
    PROVE  /\ Parse(t).verdict = "ok" <=> WellFormed(t) /\ Fits(Total(t))
           /\ Parse(t).verdict = "ok" => Parse(t) = [verdict |-> "ok", nanos |-> Total(t)]
<1>0. Len(t) \in Nat
  BY DEF Text
<1>1. CASE ~ (Len(t) > 1 /\ t[1].letter = "P")
  <2>1. t = <<>> \/ Len(t) = 1 \/ t[1].letter # "P"
    <3>1. CASE Len(t) = 0
      BY <3>1, EmptySeq DEF Text
    <3>3. \A n \in Nat : n = 0 \/ n = 1 \/ n > 1
      OBVIOUS
    <3>2. Len(t) = 0 \/ Len(t) = 1 \/ Len(t) > 1
      BY <1>0, <3>3
    <3> QED BY <3>1, <3>2, <1>1
  <2>2. Parse(t) = Error("BadDuration")
    BY <2>1 DEF Parse
  <2>3. ~WellFormed(t)
    BY <1>1 DEF WellFormed, Letter
  <2> QED BY <2>2, <2>3 DEF Error
<1>2. CASE Len(t) > 1 /\ t[1].letter = "P"
  <2> DEFINE date == DateOf(t)
             time == TimeOf(t)
             d == TakeComponent(date, "D")
             h == TakeComponent(time, "H")
             m == TakeComponent(h.rest, "M")
             s == TakeSeconds(m.rest)
             coarse == d.n * SecondsPerDay + h.n * SecondsPerHour + m.n * SecondsPerMinute
             total == (coarse + s.n) * NanosPerSecond + s.nanos
             bad == \/ ~d.ok \/ d.rest # <<>>
                    \/ Occurs(Tail(t), "T") /\ time = <<>>
                    \/ ~h.ok \/ ~m.ok \/ ~Fits(coarse)
  <2>1. t # <<>> /\ Len(t) # 1
    <3>2. Len(t) > 1
      BY <1>2
    <3>1. Len(t) # 0 /\ Len(t) # 1
      BY <1>0, <3>2, SMTT(20)
    <3> QED BY <3>1, EmptySeq DEF Text
  <2>2. Parse(t) = IF Occurs(Tail(t), "Y") \/ Occurs(date, "M")
                   THEN Error("ProhibitedDurationComponent")
                   ELSE IF bad THEN Error("BadDuration")
                   ELSE IF s.verdict # "ok" THEN Error(s.verdict)
                   ELSE IF ~Fits(total) THEN Error("BadDuration")
                   ELSE [verdict |-> "ok", nanos |-> total]
    BY <1>2, <2>1 DEF Parse, DateOf, TimeOf
  <2>3. date \in Text /\ time \in Text
    BY <1>2, Divides
  <2>4. /\ d.ok /\ d.rest = <<>> <=> IsComponent(date, "D") /\ Fits(Count(date, "D"))
        /\ d.ok => d.n = Count(date, "D")
    BY <2>3, DateTaken
  <2>5. /\ h.ok /\ m.ok /\ s.verdict = "ok" <=>
               /\ IsTime(time) /\ Fits(Count(time, "H")) /\ Fits(Count(Minutes(time), "M"))
               /\ Fits(WholeSeconds(SecondsOf(time)))
        /\ h.ok => h.n = Count(time, "H")
        /\ h.ok /\ m.ok => m.n = Count(Minutes(time), "M")
        /\ h.ok /\ m.ok /\ s.verdict = "ok" =>
               /\ s.n = WholeSeconds(SecondsOf(time))
               /\ s.nanos = FractionNanos(SecondsOf(time))
    BY <2>3, TimeTaken
  <2>6. WellFormed(t) <=> /\ IsComponent(date, "D") /\ IsTime(time)
                          /\ Occurs(Tail(t), "T") => time # <<>>
    BY <1>2, Shape
  <2>7. WellFormed(t) => ~Occurs(Tail(t), "Y") /\ ~Occurs(date, "M")
    BY <1>2, NothingProhibited
  <2> HIDE DEF d, h, m, s, date
  <2>8. d.ok /\ h.ok /\ m.ok => coarse = Coarse(t)
    BY <2>4, <2>5 DEF Coarse, Hours, MinutesOf, date
  <2> HIDE DEF coarse
  <2>9. d.ok /\ h.ok /\ m.ok /\ s.verdict = "ok" => total = Total(t)
    BY <2>5, <2>8 DEF Total, SecondsPart
  <2> HIDE DEF total, time
  <2>10. ASSUME WellFormed(t), Fits(Total(t))
         PROVE  /\ Fits(Coarse(t)) /\ Fits(Count(date, "D")) /\ Fits(Count(time, "H"))
                /\ Fits(Count(Minutes(time), "M")) /\ Fits(WholeSeconds(SecondsOf(time)))
    <3>1. /\ Count(date, "D") \in Nat /\ Count(time, "H") \in Nat
          /\ Count(Minutes(time), "M") \in Nat /\ WholeSeconds(SecondsOf(time)) \in Nat
          /\ FractionNanos(SecondsOf(time)) \in Nat
      BY <1>2, <2>10, PartsInNat DEF date, time, Hours, MinutesOf, SecondsPart
    <3>2. LET c == Count(date, "D") * SecondsPerDay + Count(time, "H") * SecondsPerHour
                       + Count(Minutes(time), "M") * SecondsPerMinute
          IN  /\ c = Coarse(t)
              /\ Fits((c + WholeSeconds(SecondsOf(time))) * NanosPerSecond
                      + FractionNanos(SecondsOf(time)))
      BY <2>10 DEF Total, Coarse, Hours, MinutesOf, SecondsPart, date, time
    <3> QED BY <3>1, <3>2, PartsFit
  <2>11. ASSUME WellFormed(t), Fits(Total(t))
         PROVE  Parse(t) = [verdict |-> "ok", nanos |-> Total(t)]
    <3>1. d.ok /\ d.rest = <<>> /\ h.ok /\ m.ok /\ s.verdict = "ok"
      BY <2>4, <2>5, <2>6, <2>10, <2>11
    <3>2. coarse = Coarse(t) /\ total = Total(t)
      BY <3>1, <2>8, <2>9
    <3>3. ~bad
      BY <3>1, <3>2, <2>6, <2>10, <2>11
    <3> HIDE DEF bad
    <3> QED BY <2>2, <2>7, <2>11, <3>1, <3>2, <3>3
  <2>12. ASSUME Parse(t).verdict = "ok" PROVE WellFormed(t) /\ Fits(Total(t))
    <3>1. \A e : Error(e).verdict = e
      BY DEF Error
    <3>2. ~bad /\ s.verdict = "ok" /\ Fits(total)
      <4> HIDE DEF bad
      <4> QED BY <2>2, <2>12, <3>1
    <3>3. d.ok /\ d.rest = <<>> /\ h.ok /\ m.ok /\ (Occurs(Tail(t), "T") => time # <<>>)
      BY <3>2
    <3> QED BY <2>4, <2>5, <2>6, <2>9, <3>2, <3>3
  <2> QED BY <2>11, <2>12
<1> QED BY <1>1, <1>2

-----------------------------------------------------------------------------
(* What a duration amounts to, symbol by symbol.                           *)

Term(t, j) == IF IsNumber(t[j]) THEN Amount(t, j) ELSE 0
SumValue(t, f, j) == IF j = 0 THEN 0 ELSE f[j - 1] + Term(t, j)
Sums == INSTANCE Order_proofs WITH Value <- SumValue
SumTo(t) == CHOOSE f : f = [j \in 0 .. Len(t) |-> SumValue(t, f, j)]

LEMMA SumAdds ==
    ASSUME NEW t \in Text
    PROVE  /\ Nanos(t) = SumTo(t)[Len(t)] /\ SumTo(t)[0] = 0
           /\ \A j \in 1 .. Len(t) : SumTo(t)[j] = SumTo(t)[j - 1] + Term(t, j)
<1> DEFINE IsSum(f) == f = [j \in 0 .. Len(t) |-> SumValue(t, f, j)]
<1>0. Len(t) \in Nat
  BY DEF Text
<1>1. \E f : IsSum(f)
  <2>1. Sums!LooksBelow(t, 0 .. Len(t))
    <3> SUFFICES ASSUME NEW n \in 0 .. Len(t), NEW f, NEW g,
                        \A m \in 0 .. Len(t) : m < n => f[m] = g[m]
                 PROVE  SumValue(t, f, n) = SumValue(t, g, n)
      BY DEF Sums!LooksBelow
    <3>1. CASE n = 0
      BY <3>1 DEF SumValue
    <3>2. CASE n # 0
      <4>1. n - 1 \in 0 .. Len(t) /\ n - 1 < n
        BY <1>0, <3>2
      <4>2. f[n - 1] = g[n - 1]
        BY <4>1
      <4> QED BY <4>2 DEF SumValue
    <3> QED BY <3>1, <3>2
  <2>2. 0 .. Len(t) \in SUBSET Nat
    BY <1>0
  <2> QED BY <2>1, <2>2, Sums!RecursiveFunction DEF Sums!IsRecursive
<1>2. IsSum(SumTo(t))
  BY <1>1 DEF SumTo
<1>3. \A j \in 0 .. Len(t) : SumTo(t)[j] = SumValue(t, SumTo(t), j)
  BY <1>2
<1>4. SumTo(t)[0] = 0
  BY <1>0, <1>3 DEF SumValue
<1>5. ASSUME NEW j \in 1 .. Len(t) PROVE SumTo(t)[j] = SumTo(t)[j - 1] + Term(t, j)
  <2>1. j \in 0 .. Len(t) /\ j # 0
    BY <1>0
  <2> QED BY <2>1, <1>3 DEF SumValue
<1>6. Nanos(t) = SumTo(t)[Len(t)]
  BY DEF Nanos, SumTo, SumValue, Term
<1> QED BY <1>4, <1>5, <1>6

(* The text e is what follows the first a symbols.                         *)
Follows(t, a, e) ==
    /\ a \in 1 .. Len(t) /\ e \in Text /\ Len(e) = Len(t) - a
    /\ \A k \in 1 .. Len(t) - a : e[k] = t[a + k]
    /\ SumTo(t)[a] \in Nat /\ t[a].letter # "."

(* A number and its unit.                                                  *)
LEMMA UnitIs ==
    /\ Unit("D") = SecondsPerDay /\ Unit("H") = SecondsPerHour
    /\ Unit("M") = SecondsPerMinute /\ Unit("S") = 1 /\ Unit(".") = 1
BY DEF Unit

LEMMA NumberAdds ==
    ASSUME NEW t \in Text, NEW a \in 1 .. Len(t), a + 2 <= Len(t),
           SumTo(t)[a] \in Nat, t[a].letter # ".",
           IsNumber(t[a + 1]), NEW u \in {"D", "H", "M", "S", "."}, t[a + 2].letter = u
    PROVE  /\ SumTo(t)[a + 2] = SumTo(t)[a] + (t[a + 1].value * Unit(u)) * NanosPerSecond
           /\ SumTo(t)[a + 2] \in Nat /\ t[a + 1].value \in Nat
<1>0. Len(t) \in Nat
  BY DEF Text
<1>1. a + 1 \in 1 .. Len(t) /\ a + 2 \in 1 .. Len(t) /\ (a + 1) - 1 = a /\ (a + 2) - 1 = a + 1
  BY <1>0
<1>2. (a + 1) + 1 = a + 2
  BY <1>0
<1>3. t[a + 1].value \in Nat
  <2>1. t[a + 1] \in Symbol
    BY <1>1, ElementOfSeq DEF Text
  <2> QED BY <2>1, SymbolIs
<1>4. t[a] # Letter(".")
  BY DEF Letter
<1>5. Term(t, a + 1) = (t[a + 1].value * Unit(u)) * NanosPerSecond
  BY <1>1, <1>2, <1>4 DEF Term, Amount
<1>6. Term(t, a + 2) = 0
  BY DEF Term, IsNumber
<1>7. Unit(u) \in Nat
  <2>1. {SecondsPerMinute, SecondsPerHour, SecondsPerDay} \subseteq Nat
    BY DurationAssumption
  <2> QED BY <2>1, UnitIs
<1> DEFINE x == (t[a + 1].value * Unit(u)) * NanosPerSecond
<1>8. x \in Nat
  BY <1>3, <1>7, PerSecond, SMTT(20)
<1>9. SumTo(t)[a + 1] = SumTo(t)[a] + x /\ SumTo(t)[a + 2] = SumTo(t)[a + 1] + 0
  BY <1>1, <1>5, <1>6, SumAdds
<1> HIDE DEF x
<1>10. SumTo(t)[a + 2] = SumTo(t)[a] + x /\ SumTo(t)[a + 2] \in Nat
  BY <1>8, <1>9
<1> QED BY <1>3, <1>10 DEF x

LEMMA PartAdds ==
    ASSUME NEW t \in Text, NEW a, NEW e, Follows(t, a, e), NEW u \in {"D", "H", "M", "S"}
    PROVE  /\ Follows(t, a + Width(e, u), Rest(e, u))
           /\ SumTo(t)[a + Width(e, u)]
                  = SumTo(t)[a] + (Count(e, u) * Unit(u)) * NanosPerSecond
<1>0. Len(t) \in Nat
  BY DEF Text
<1>1. /\ a \in 1 .. Len(t) /\ e \in Text /\ Len(e) = Len(t) - a
      /\ \A k \in 1 .. Len(t) - a : e[k] = t[a + k]
      /\ SumTo(t)[a] \in Nat /\ t[a].letter # "."
  BY DEF Follows
<1>2. Unit(u) \in Nat
  <2>1. {SecondsPerMinute, SecondsPerHour, SecondsPerDay} \subseteq Nat
    BY DurationAssumption
  <2> QED BY <2>1, UnitIs
<1>3. CASE ~Has(e, u)
  <2>1. Width(e, u) = 0 /\ Count(e, u) = 0
    BY <1>3 DEF Width, Count
  <2>2. Rest(e, u) = e
    BY <1>1, <2>1, RestIs
  <2>3. a + Width(e, u) = a
    BY <2>1, <1>0, <1>1
  <2>4. SumTo(t)[a] = SumTo(t)[a] + (0 * Unit(u)) * NanosPerSecond
    BY <1>1, <1>2, PerSecond
  <2>5. Follows(t, a + Width(e, u), Rest(e, u))
    BY <2>2, <2>3
  <2> QED BY <2>1, <2>3, <2>4, <2>5
<1>4. CASE Has(e, u)
  <2>1. Width(e, u) = 2 /\ Count(e, u) = e[1].value
    BY <1>4 DEF Width, Count
  <2>2. Len(e) >= 2 /\ IsNumber(e[1]) /\ e[2].letter = u
    BY <1>4 DEF Has
  <2>3. 1 \in 1 .. Len(t) - a /\ 2 \in 1 .. Len(t) - a /\ a + 2 <= Len(t) /\ a + 2 \in 1 .. Len(t)
    BY <1>0, <1>1, <2>2
  <2>4. e[1] = t[a + 1] /\ e[2] = t[a + 2]
    BY <1>1, <2>3
  <2>5. IsNumber(t[a + 1]) /\ t[a + 2].letter = u
    BY <2>2, <2>4
  <2>6. /\ SumTo(t)[a + 2] = SumTo(t)[a] + (t[a + 1].value * Unit(u)) * NanosPerSecond
        /\ SumTo(t)[a + 2] \in Nat
    <3>1. u \in {"D", "H", "M", "S", "."}
      OBVIOUS
    <3> QED BY <1>1, <2>3, <2>5, <3>1, NumberAdds, Zenon
  <2>7. /\ Rest(e, u) \in Text /\ Len(Rest(e, u)) = Len(e) - 2
        /\ \A k \in 1 .. Len(e) - 2 : Rest(e, u)[k] = e[2 + k]
    <3> DEFINE w == Width(e, u)
               q == Rest(e, u)
    <3>1. q \in Text /\ Len(q) = Len(e) - w /\ \A k \in 1 .. Len(e) - w : q[k] = e[w + k]
      BY <1>1, RestIs
    <3> HIDE DEF q, w
    <3>2. w = 2
      BY <2>1 DEF w
    <3>3. q \in Text /\ Len(q) = Len(e) - 2 /\ \A k \in 1 .. Len(e) - 2 : q[k] = e[2 + k]
      BY <3>1, <3>2
    <3> QED BY <3>3 DEF q
  <2> DEFINE r == Rest(e, u)
  <2> HIDE DEF r
  <2>8. Len(r) = Len(t) - (a + 2)
    BY <1>0, <1>1, <2>7 DEF r
  <2>9. ASSUME NEW k \in 1 .. Len(t) - (a + 2) PROVE r[k] = t[(a + 2) + k]
    <3>1. k \in 1 .. Len(e) - 2 /\ 2 + k \in 1 .. Len(t) - a /\ a + (2 + k) = (a + 2) + k
      BY <1>0, <1>1
    <3>2. r[k] = e[2 + k] /\ e[2 + k] = t[a + (2 + k)]
      BY <3>1, <2>7, <1>1 DEF r
    <3> QED BY <3>1, <3>2
  <2>10. t[a + 2].letter # "."
    BY <2>5
  <2>11. Follows(t, a + 2, r)
    BY <2>3, <2>6, <2>7, <2>8, <2>9, <2>10 DEF Follows, r
  <2> QED BY <2>1, <2>4, <2>6, <2>11 DEF r
<1> QED BY <1>3, <1>4

(* A fraction of fewer digits is as many powers of ten short.              *)
LEMMA FractionIs ==
    ASSUME NEW v \in Nat, NEW k \in Nat, k <= FractionDigits
    PROVE  (v * NanosPerSecond) \div PowerOfTen[k] = v * PowerOfTen[FractionDigits - k]
<1>0. FractionDigits \in Nat
  BY DurationAssumption
<1> DEFINE m == FractionDigits - k
<1>1. m \in Nat /\ m + k = FractionDigits
  BY <1>0
<1> HIDE DEF m
<1> DEFINE p == PowerOfTen[m]
           d == PowerOfTen[k]
<1>2. NanosPerSecond = p * d /\ p \in Nat /\ d \in Nat \ {0}
  BY <1>1, PowersMultiply, PowersOfTen DEF NanosPerSecond
<1> HIDE DEF p, d
<1>3. v * NanosPerSecond = (v * p) * d + 0 /\ v * p \in Int /\ 0 \in 0 .. d - 1
  BY <1>2
<1>4. ((v * p) * d + 0) \div d = v * p
  BY <1>2, <1>3, DividedOnce
<1>5. (v * NanosPerSecond) \div d = v * p
  BY <1>3, <1>4
<1> QED BY <1>5 DEF p, d, m

LEMMA FractionAdds ==
    ASSUME NEW t \in Text, NEW a \in 1 .. Len(t), a + 4 = Len(t),
           SumTo(t)[a] \in Nat, t[a].letter # ".",
           IsNumber(t[a + 1]), t[a + 2].letter = ".", IsNumber(t[a + 3]),
           t[a + 3].digits <= FractionDigits, t[a + 4].letter = "S"
    PROVE  SumTo(t)[a + 4] = SumTo(t)[a] + t[a + 1].value * NanosPerSecond
                + t[a + 3].value * PowerOfTen[FractionDigits - t[a + 3].digits]
<1>0. Len(t) \in Nat
  BY DEF Text
<1>1. /\ a + 2 \in 1 .. Len(t) /\ a + 3 \in 1 .. Len(t) /\ a + 4 \in 1 .. Len(t) /\ a + 2 <= Len(t)
      /\ (a + 3) - 1 = a + 2 /\ (a + 4) - 1 = a + 3
  BY <1>0
<1>2. /\ SumTo(t)[a + 2] = SumTo(t)[a] + (t[a + 1].value * Unit(".")) * NanosPerSecond
      /\ SumTo(t)[a + 2] \in Nat /\ t[a + 1].value \in Nat
  BY <1>1, NumberAdds
<1> DEFINE x == t[a + 1].value
           v == t[a + 3].value
           k == t[a + 3].digits
<1>3. v \in Nat /\ k \in Nat
  <2>1. t[a + 3] \in Symbol
    BY <1>1, ElementOfSeq DEF Text
  <2> QED BY <2>1, SymbolIs
<1>4. t[a + 2] = Letter(".")
  <2>1. t[a + 2] \in Symbol
    BY <1>1, ElementOfSeq DEF Text
  <2> QED BY <2>1, SymbolIs
<1>5. Term(t, a + 3) = (v * NanosPerSecond) \div PowerOfTen[k]
  BY <1>1, <1>4 DEF Term, Amount
<1>6. Term(t, a + 4) = 0
  BY DEF Term, IsNumber
<1> DEFINE f == v * PowerOfTen[FractionDigits - k]
<1>7. f \in Nat /\ Term(t, a + 3) = f
  <2>1. k <= FractionDigits
    OBVIOUS
  <2> HIDE DEF v, k
  <2>2. FractionDigits - k \in Nat
    BY <2>1, <1>3, DurationAssumption
  <2>3. PowerOfTen[FractionDigits - k] \in Nat
    BY <2>2, PowersOfTen
  <2>4. v * PowerOfTen[FractionDigits - k] \in Nat
    BY <2>3, <1>3
  <2>5. (v * NanosPerSecond) \div PowerOfTen[k] = v * PowerOfTen[FractionDigits - k]
    BY <2>1, <1>3, FractionIs, Zenon
  <2> HIDE DEF f
  <2>6. f = v * PowerOfTen[FractionDigits - k]
    BY DEF f, v, k
  <2> QED BY <2>4, <2>5, <2>6, <1>5
<1>8. /\ SumTo(t)[a + 3] = SumTo(t)[a + 2] + Term(t, a + 3)
      /\ SumTo(t)[a + 4] = SumTo(t)[a + 3] + Term(t, a + 4)
  BY <1>1, SumAdds
<1>9. Unit(".") = 1
  BY UnitIs
<1>10. x * Unit(".") = x
  BY <1>2, <1>9
<1> HIDE DEF f, x
<1>11. SumTo(t)[a + 4] = SumTo(t)[a + 2] + f
  BY <1>2, <1>6, <1>7, <1>8
<1>12. SumTo(t)[a + 2] = SumTo(t)[a] + x * NanosPerSecond
  BY <1>2, <1>10 DEF x
<1> QED BY <1>11, <1>12 DEF f, x

LEMMA SecondsAdd ==
    ASSUME NEW t \in Text, NEW a, NEW q, Follows(t, a, q), IsSeconds(q)
    PROVE  SumTo(t)[Len(t)] =
               SumTo(t)[a] + WholeSeconds(q) * NanosPerSecond + FractionNanos(q)
<1>0. Len(t) \in Nat
  BY DEF Text
<1>1. /\ a \in 1 .. Len(t) /\ q \in Text /\ Len(q) = Len(t) - a
      /\ \A k \in 1 .. Len(t) - a : q[k] = t[a + k]
      /\ SumTo(t)[a] \in Nat /\ t[a].letter # "."
  BY DEF Follows
<1>5. a \in 1 .. Len(t) /\ Len(q) = Len(t) - a
  BY <1>1
<1>6. /\ Len(q) = 2 => a + 2 = Len(t)
      /\ Len(q) = 4 => a + 4 = Len(t) /\ {1, 2, 3, 4} \subseteq 1 .. Len(t) - a
  BY <1>0, <1>5
<1>2. CASE q = <<>>
  <2>1. Len(q) = 0
    BY <1>2
  <2>2. a = Len(t)
    BY <1>0, <1>1, <2>1
  <2>3. WholeSeconds(q) = 0 /\ FractionNanos(q) = 0
    BY <1>2, <2>1 DEF WholeSeconds, FractionNanos
  <2>4. SumTo(t)[a] = SumTo(t)[a] + 0 * NanosPerSecond + 0
    BY <1>1, PerSecond
  <2> QED BY <2>2, <2>3, <2>4
<1>3. CASE Has(q, "S") /\ Len(q) = 2
  <2>1. Width(q, "S") = 2 /\ Count(q, "S") = q[1].value
    BY <1>3 DEF Width, Count
  <2>2. a + 2 = Len(t)
    BY <1>3, <1>6
  <2>3. SumTo(t)[a + 2] = SumTo(t)[a] + (Count(q, "S") * Unit("S")) * NanosPerSecond
    BY <2>1, PartAdds
  <2>4. Count(q, "S") * Unit("S") = Count(q, "S")
    <3>1. Count(q, "S") \in Nat /\ Unit("S") = 1
      BY <1>1, CountIs, UnitIs
    <3> QED BY <3>1
  <2>5. q # <<>>
    <3>1. Len(q) # 0
      BY <1>3
    <3> QED BY <3>1, <1>1, EmptySeq DEF Text
  <2>6. WholeSeconds(q) = Count(q, "S") /\ FractionNanos(q) = 0
    BY <1>3, <2>1, <2>5 DEF WholeSeconds, FractionNanos
  <2>7. SumTo(t)[Len(t)] = SumTo(t)[a] + WholeSeconds(q) * NanosPerSecond
    BY <2>2, <2>3, <2>4, <2>6
  <2>8. WholeSeconds(q) * NanosPerSecond \in Nat
    <3>1. WholeSeconds(q) \in Nat
      BY <1>1, SecondsInNat
    <3> QED BY <3>1, PerSecond
  <2> DEFINE y == WholeSeconds(q) * NanosPerSecond
  <2> HIDE DEF y
  <2>9. SumTo(t)[a] + y = SumTo(t)[a] + y + 0
    BY <1>1, <2>8 DEF y
  <2> QED BY <2>6, <2>7, <2>9 DEF y
<1>4. CASE IsFractional(q)
  <2>1. /\ Len(q) = 4 /\ IsNumber(q[1]) /\ q[2].letter = "."
        /\ IsNumber(q[3]) /\ q[3].digits <= FractionDigits /\ q[4].letter = "S"
    BY <1>4 DEF IsFractional
  <2>2. a + 4 = Len(t) /\ {1, 2, 3, 4} \subseteq 1 .. Len(t) - a
    BY <2>1, <1>6
  <2>3. {1, 2, 3, 4} \subseteq 1 .. Len(t) - a
    BY <2>2
  <2>4. q[1] = t[a + 1] /\ q[2] = t[a + 2] /\ q[3] = t[a + 3] /\ q[4] = t[a + 4]
    BY <1>1, <2>3
  <2>5. /\ IsNumber(t[a + 1]) /\ t[a + 2].letter = "." /\ IsNumber(t[a + 3])
        /\ t[a + 3].digits <= FractionDigits /\ t[a + 4].letter = "S"
    BY <2>1, <2>4
  <2>6. SumTo(t)[a + 4] = SumTo(t)[a] + t[a + 1].value * NanosPerSecond
                + t[a + 3].value * PowerOfTen[FractionDigits - t[a + 3].digits]
    BY <1>1, <2>2, <2>5, FractionAdds
  <2>7. q # <<>>
    <3>1. Len(q) # 0
      BY <2>1
    <3> QED BY <3>1, <1>1, EmptySeq DEF Text
  <2>8. /\ WholeSeconds(q) = t[a + 1].value
        /\ FractionNanos(q) = t[a + 3].value * PowerOfTen[FractionDigits - t[a + 3].digits]
    BY <2>1, <2>4, <2>7 DEF WholeSeconds, FractionNanos
  <2> QED BY <2>2, <2>6, <2>8
<1> QED BY <1>1, <1>2, <1>3, <1>4, SecondsAre

(* Past the date and the T, the time follows.                              *)
LEMMA DateAdds ==
    ASSUME NEW t \in Text, Len(t) > 1, WellFormed(t)
    PROVE  \E a : /\ Follows(t, a, TimeOf(t))
                  /\ SumTo(t)[a] = (Count(DateOf(t), "D") * SecondsPerDay) * NanosPerSecond
<1> DEFINE e == Tail(t)
           date == DateOf(t)
           time == TimeOf(t)
<1>1. /\ Len(t) \in Nat /\ e \in Text /\ Len(e) = Len(t) - 1
      /\ \A k \in 1 .. Len(t) - 1 : e[k] = t[k + 1]
  <2>1. Len(t) >= 1
    BY DEF Text
  <2> QED BY <2>1, TailIs
<1>2. t[1].letter = "P" /\ IsComponent(date, "D") /\ IsTime(time)
  BY Shape
<1>3. date \in Text /\ time \in Text
  BY Divides
<1>4. date = <<>> \/ (Has(date, "D") /\ Len(date) = 2)
  BY <1>2, <1>3, ComponentIs
<1> HIDE DEF e, date, time
<1>5. Follows(t, 1, e) /\ SumTo(t)[1] = 0
  <2>1. 1 \in 1 .. Len(t) /\ 1 - 1 = 0
    BY <1>1
  <2>2. Term(t, 1) = 0
    BY <1>2 DEF Term, IsNumber
  <2>3. SumTo(t)[1] = SumTo(t)[1 - 1] + Term(t, 1) /\ SumTo(t)[0] = 0
    BY <2>1, SumAdds
  <2>4. SumTo(t)[1] = 0
    BY <2>1, <2>2, <2>3
  <2>5. \A k \in 1 .. Len(t) - 1 : 1 + k = k + 1
    BY <1>1
  <2>6. \A k \in 1 .. Len(t) - 1 : e[k] = t[1 + k]
    BY <1>1, <2>5
  <2>7. t[1].letter # "."
    BY <1>2
  <2> QED BY <1>1, <2>1, <2>4, <2>6, <2>7 DEF Follows
<1> DEFINE w == Width(e, "D")
           a == 1 + w
<1>6. /\ Follows(t, a, Rest(e, "D"))
      /\ SumTo(t)[a] = SumTo(t)[1] + (Count(e, "D") * SecondsPerDay) * NanosPerSecond
  BY <1>5, PartAdds, UnitIs
<1>7. Count(e, "D") \in Nat
  BY <1>1, CountIs
<1>8. SumTo(t)[a] = (Count(e, "D") * SecondsPerDay) * NanosPerSecond
  <2>1. (Count(e, "D") * SecondsPerDay) * NanosPerSecond \in Nat
    BY <1>7, PerSecond, DurationAssumption
  <2> DEFINE x == (Count(e, "D") * SecondsPerDay) * NanosPerSecond
  <2> HIDE DEF x, a
  <2>2. SumTo(t)[a] = 0 + x /\ x \in Nat
    BY <1>5, <1>6, <2>1 DEF x
  <2>3. SumTo(t)[a] = x
    BY <2>2
  <2> QED BY <2>3 DEF x
<1>9. CASE ~Occurs(e, "T")
  <2>1. date = e /\ time = <<>>
    BY <1>9, Divides DEF e, date, time
  <2>2. Rest(e, "D") = <<>>
    <3>1. CASE e = <<>>
      <4>1. Len(e) = 0
        BY <3>1
      <4>2. ~Has(e, "D")
        BY <4>1 DEF Has
      <4>3. Width(e, "D") = 0
        BY <4>2 DEF Width
      <4> QED BY <1>1, <3>1, <4>3, RestIs
    <3>2. CASE Has(e, "D") /\ Len(e) = 2
      <4>1. Width(e, "D") = 2
        BY <3>2 DEF Width
      <4>2. Rest(e, "D") \in Text /\ Len(Rest(e, "D")) = Len(e) - Width(e, "D")
        BY <1>1, RestIs
      <4>3. Len(Rest(e, "D")) = 0
        BY <4>1, <4>2, <3>2
      <4> QED BY <4>2, <4>3, EmptySeq DEF Text
    <3> QED BY <1>4, <2>1, <3>1, <3>2
  <2> QED BY <1>6, <1>8, <2>1, <2>2 DEF date, time
<1>10. CASE Occurs(e, "T")
  <2>1. PICK j \in 2 .. Len(t) :
            /\ t[j].letter = "T" /\ \A i \in 2 .. j - 1 : t[i].letter # "T"
            /\ Len(date) = j - 2 /\ Len(time) = Len(t) - j
            /\ \A k \in 1 .. j - 2 : date[k] = t[k + 1]
            /\ \A k \in 1 .. Len(t) - j : time[k] = t[j + k]
    BY <1>10, Divides DEF e, date, time
  <2>2. w = j - 2 /\ Count(e, "D") = Count(date, "D")
    <3>1. CASE date = <<>>
      <4>1. Len(date) = 0
        BY <3>1
      <4>2. j - 2 = 0 /\ j = 2
        <5>1. Len(date) = j - 2
          BY <2>1
        <5> QED BY <4>1, <5>1, <1>1
      <4>3. e[1] = t[2]
        <5>1. 1 \in 1 .. Len(t) - 1 /\ 1 + 1 = 2
          BY <1>1
        <5> QED BY <5>1, <1>1
      <4>4. ~IsNumber(e[1])
        BY <2>1, <4>2, <4>3 DEF IsNumber
      <4>5. ~Has(e, "D") /\ ~Has(date, "D")
        BY <4>1, <4>4 DEF Has
      <4> QED BY <4>2, <4>5 DEF Width, Count
    <3>2. CASE Has(date, "D") /\ Len(date) = 2
      <4>1. j - 2 = 2 /\ j \in 1 .. Len(t) /\ Len(t) \in Nat
        <5>1. Len(date) = j - 2 /\ j \in 2 .. Len(t)
          BY <2>1
        <5>2. Len(date) = 2
          BY <3>2
        <5>3. j - 2 = 2
          BY <5>1, <5>2
        <5>4. Len(t) \in Nat
          BY <1>1
        <5>5. j \in 1 .. Len(t)
          BY <5>1, <5>4
        <5> QED BY <5>3, <5>4, <5>5
      <4>2. Len(t) >= 4 /\ 1 \in 1 .. j - 2 /\ 2 \in 1 .. j - 2
        BY <4>1
      <4>3. date[1] = t[1 + 1] /\ date[2] = t[2 + 1]
        BY <2>1, <4>2
      <4>4. 1 \in 1 .. Len(t) - 1 /\ 2 \in 1 .. Len(t) - 1 /\ Len(t) - 1 >= 2
        BY <4>1, <4>2
      <4>5. e[1] = t[1 + 1] /\ e[2] = t[2 + 1] /\ Len(e) >= 2
        BY <4>4, <1>1
      <4>6. Has(e, "D")
        BY <3>2, <4>3, <4>5 DEF Has
      <4>7. w = 2 /\ Count(e, "D") = e[1].value /\ Count(date, "D") = date[1].value
        BY <3>2, <4>6 DEF Width, Count
      <4> QED BY <4>1, <4>3, <4>5, <4>7
    <3> QED BY <1>4, <3>1, <3>2
  <2>3. j - 1 = a /\ j \in 1 .. Len(t)
    BY <2>2, <1>1
  <2>4. Term(t, j) = 0
    BY <2>1 DEF Term, IsNumber
  <2>5. SumTo(t)[a] \in Nat
    BY <1>6 DEF Follows
  <2>6. SumTo(t)[j] = SumTo(t)[a]
    <3>1. SumTo(t)[j] = SumTo(t)[j - 1] + Term(t, j)
      BY <2>3, SumAdds
    <3> QED BY <3>1, <2>3, <2>4, <2>5
  <2>7. Follows(t, j, time)
    <3>1. t[j].letter # "."
      BY <2>1
    <3> QED BY <1>3, <2>1, <2>3, <2>5, <2>6, <3>1 DEF Follows
  <2> QED BY <1>8, <2>2, <2>6, <2>7 DEF date, time
<1> QED BY <1>9, <1>10

LEMMA TotalIs ==
    ASSUME NEW t \in Text, Len(t) > 1, WellFormed(t)
    PROVE  Nanos(t) = Total(t)
<1> DEFINE e == TimeOf(t)
           r == Minutes(e)
           q == SecondsOf(e)
           d == Count(DateOf(t), "D")
           h == Count(e, "H")
           m == Count(r, "M")
           s == WholeSeconds(q)
           f == FractionNanos(q)
<1>1. PICK a : Follows(t, a, e) /\ SumTo(t)[a] = (d * SecondsPerDay) * NanosPerSecond
  BY DateAdds
<1>2. IsSeconds(q)
  <2>1. IsTime(e) /\ e \in Text
    BY Shape, Divides
  <2> HIDE DEF e
  <2> QED BY <2>1, TimeIs
<1>3. d \in Nat /\ h \in Nat /\ m \in Nat /\ s \in Nat /\ f \in Nat
  BY PartsInNat DEF Hours, MinutesOf, SecondsPart
<1>4. Total(t) = (d * SecondsPerDay + h * SecondsPerHour + m * SecondsPerMinute + s)
                     * NanosPerSecond + f
  BY DEF Total, Coarse, Hours, MinutesOf, SecondsPart
<1> HIDE DEF e
<1> DEFINE b == a + Width(e, "H")
<1>5. /\ Follows(t, b, r)
      /\ SumTo(t)[b] = SumTo(t)[a] + (h * SecondsPerHour) * NanosPerSecond
  BY <1>1, PartAdds, UnitIs DEF Minutes
<1> HIDE DEF b, r
<1> DEFINE c == b + Width(r, "M")
<1>6. /\ Follows(t, c, q)
      /\ SumTo(t)[c] = SumTo(t)[b] + (m * SecondsPerMinute) * NanosPerSecond
  <2>1. q = Rest(r, "M")
    BY DEF SecondsOf, r
  <2> HIDE DEF q
  <2> QED BY <2>1, <1>5, PartAdds, UnitIs
<1> HIDE DEF c, q
<1>7. SumTo(t)[Len(t)] = SumTo(t)[c] + s * NanosPerSecond + f
  BY <1>2, <1>6, SecondsAdd
<1>8. Nanos(t) = SumTo(t)[Len(t)]
  BY SumAdds
<1> HIDE DEF d, h, m, s, f
<1> DEFINE x == d * SecondsPerDay
           y == h * SecondsPerHour
           z == m * SecondsPerMinute
<1>9. x \in Nat /\ y \in Nat /\ z \in Nat
  <2>1. {SecondsPerMinute, SecondsPerHour, SecondsPerDay} \subseteq Nat
    BY DurationAssumption
  <2> QED BY <2>1, <1>3
<1> HIDE DEF x, y, z
<1>10. Nanos(t) = x * NanosPerSecond + y * NanosPerSecond + z * NanosPerSecond
                      + s * NanosPerSecond + f
  BY <1>1, <1>5, <1>6, <1>7, <1>8 DEF x, y, z
<1>11. Total(t) = (x + y + z + s) * NanosPerSecond + f
  BY <1>4 DEF x, y, z
<1>12. (x + y + z + s) * NanosPerSecond
           = x * NanosPerSecond + y * NanosPerSecond + z * NanosPerSecond + s * NanosPerSecond
  BY <1>3, <1>9, PerSecond
<1> QED BY <1>10, <1>11, <1>12

-----------------------------------------------------------------------------
(* The texts that occur.                                                   *)

LEMMA LettersAreSymbols ==
    /\ \A l \in {"P", "T", "D", "H", "M", "S", ".", "-", ":", "Z"} : Letter(l) \in Symbol
    /\ Symbols \subseteq Symbol /\ Numbers \subseteq Symbol
    /\ \A v, w \in Nat : Number(v, w) \in Symbol
<1>1. \A l \in {"P", "T", "D", "H", "M", "S", ".", "-", ":", "Z"} : Letter(l) \in Symbol
  BY DEF Symbol
<1>2. Numbers \subseteq Symbol
  BY DurationAssumption DEF Symbol
<1>3. \A v, w \in Nat : Number(v, w) \in Symbol
  BY DEF Symbol, Number
<1>4. Symbols \subseteq Symbol
  BY <1>2 DEF Symbols, Symbol
<1> QED BY <1>1, <1>2, <1>3, <1>4

LEMMA OptionalIsText ==
    ASSUME NEW u \in {"D", "H", "M", "S"}, NEW c \in Optional(u)
    PROVE  c \in Text
<1>1. Letter(u) \in Symbol /\ Numbers \subseteq Symbol
  BY LettersAreSymbols
<1>2. CASE c = <<>>
  BY <1>2 DEF Text
<1>3. ASSUME NEW n \in Numbers, c = <<n, Letter(u)>> PROVE c \in Text
  BY <1>1, <1>3 DEF Text
<1> QED BY <1>2, <1>3 DEF Optional

LEMMA JoinIsText ==
    ASSUME NEW s \in Text, NEW t \in Text
    PROVE  s \o t \in Text
BY ConcatProperties DEF Text

LEMMA DurationIsText ==
    ASSUME Init
    PROVE  text \in Text
<1>1. PICK d \in Optional("D"), h \in Optional("H"), m \in Optional("M"), s \in Seconds :
          text = Render(d, h, m, s)
  BY DEF Init
<1>2. d \in Text /\ h \in Text /\ m \in Text
  BY OptionalIsText
<1>3. s \in Text
  <2>1. CASE s \in Optional("S")
    BY <2>1, OptionalIsText
  <2>2. ASSUME NEW n \in Numbers, NEW f \in Numbers, s = <<n, Letter("."), f, Letter("S")>>
        PROVE  s \in Text
    <3>1. n \in Symbol /\ f \in Symbol /\ Letter(".") \in Symbol /\ Letter("S") \in Symbol
      BY LettersAreSymbols
    <3> QED BY <2>2, <3>1 DEF Text
  <2> QED BY <2>1, <2>2 DEF Seconds
<1>4. <<Letter("P")>> \in Text /\ <<Letter("T")>> \in Text /\ <<>> \in Text
  <2>1. Letter("P") \in Symbol /\ Letter("T") \in Symbol
    BY LettersAreSymbols
  <2> QED BY <2>1 DEF Text
<1> DEFINE e == IF h \o m \o s = <<>> THEN <<>> ELSE <<Letter("T")>> \o h \o m \o s
<1>5. e \in Text
  <2>1. <<Letter("T")>> \o h \in Text
    BY <1>2, <1>4, JoinIsText
  <2>2. <<Letter("T")>> \o h \o m \in Text
    BY <1>2, <2>1, JoinIsText
  <2>3. <<Letter("T")>> \o h \o m \o s \in Text
    BY <1>3, <2>2, JoinIsText
  <2> QED BY <1>4, <2>3
<1>6. text = <<Letter("P")>> \o d \o e
  BY <1>1 DEF Render
<1> HIDE DEF e
<1>7. <<Letter("P")>> \o d \in Text
  BY <1>2, <1>4, JoinIsText
<1> QED BY <1>5, <1>6, <1>7, JoinIsText

LEMMA FieldsAreNumbers ==
    ASSUME NEW n \in 0 .. LastInstant
    PROVE  \A k \in 1 .. 7 : Fields(n)[k] \in Nat
<1>1. InCalendar(Fields(n))
  BY FieldsOfTheInstant
<1>2. Fields(n)[1] \in Nat /\ Fields(n)[2] \in Nat /\ Fields(n)[3] \in Nat
  <2>1. Fields(n)[1] \in Nat
    <3>1. EpochYear \in Nat \ {0} /\ LastYear \in Nat
      BY CalendarAssumption
    <3>2. \A y \in Years : y \in Nat
      BY <3>1 DEF Years
    <3> QED BY <1>1, <3>2 DEF InCalendar
  <2>2. Fields(n)[2] \in Nat
    BY <1>1 DEF InCalendar, Months
  <2>3. Fields(n)[3] \in Nat
    BY <1>1 DEF InCalendar
  <2> QED BY <2>1, <2>2, <2>3
<1>3. n \in Nat /\ SecondsIn(n) \in Nat
  <2>1. n \in Nat
    BY CalendarAssumption
  <2> QED BY <2>1, Divided, PerDay, PerSecond DEF SecondsIn
<1>4. {SecondsPerMinute, SecondsPerHour} \subseteq Nat \ {0}
  BY DurationAssumption
<1> DEFINE s == SecondsIn(n)
<1> HIDE DEF s
<1>5. s \div SecondsPerHour \in Nat /\ s % SecondsPerHour \in Nat /\ s % SecondsPerMinute \in Nat
  <2>1. s \in Nat /\ SecondsPerHour \in Nat \ {0} /\ SecondsPerMinute \in Nat \ {0}
    BY <1>3, <1>4 DEF s
  <2> QED BY <2>1
<1>6. (s % SecondsPerHour) \div SecondsPerMinute \in Nat
  BY <1>4, <1>5, Divided
<1>7. n % NanosPerSecond \in Nat
  BY <1>3, PerSecond, Divided
<1>8. /\ Fields(n)[4] = s \div SecondsPerHour
      /\ Fields(n)[5] = (s % SecondsPerHour) \div SecondsPerMinute
      /\ Fields(n)[6] = s % SecondsPerMinute /\ Fields(n)[7] = n % NanosPerSecond
  BY FieldsAre DEF s
<1> SUFFICES ASSUME NEW k \in 1 .. 7 PROVE Fields(n)[k] \in Nat
  OBVIOUS
<1>9. k \in {1, 2, 3, 4, 5, 6, 7}
  OBVIOUS
<1> QED BY <1>2, <1>5, <1>6, <1>7, <1>8, <1>9

LEMMA TimeIsText ==
    ASSUME NEW n \in 0 .. LastInstant
    PROVE  RenderTime(n) \in Text
<1> DEFINE f == Fields(n)
<1>1. \A k \in 1 .. 7 : f[k] \in Nat
  BY FieldsAreNumbers
<1>2. Len(Widths) = 7 /\ \A k \in 1 .. 7 : Widths[k] \in Nat
  <2>1. FractionDigits \in Nat
    BY DurationAssumption
  <2> QED BY <2>1 DEF Widths
<1>3. \A k \in 1 .. 7 : Letter(Literals[k]) \in Symbol
  <2>1. \A k \in 1 .. 7 : Literals[k] \in {"-", "T", ":", ".", "Z"}
    BY DEF Literals
  <2> QED BY <2>1, LettersAreSymbols
<1> HIDE DEF f
<1>4. ASSUME NEW j \in 1 .. 14
      PROVE  (IF j % 2 = 0 THEN Letter(Literals[j \div 2])
              ELSE Number(f[(j + 1) \div 2], Widths[(j + 1) \div 2])) \in Symbol
  <2>1. CASE j % 2 = 0
    <3>1. j \div 2 \in 1 .. 7
      BY <2>1
    <3> QED BY <2>1, <3>1, <1>3
  <2>2. CASE j % 2 # 0
    <3>1. (j + 1) \div 2 \in 1 .. 7
      BY <2>2
    <3> QED BY <2>2, <3>1, <1>1, <1>2, LettersAreSymbols
  <2> QED BY <2>1, <2>2
<1>5. RenderTime(n) = [j \in 1 .. 14 |-> IF j % 2 = 0 THEN Letter(Literals[j \div 2])
                                         ELSE Number(f[(j + 1) \div 2], Widths[(j + 1) \div 2])]
  <2>1. 2 * Len(Widths) = 14
    BY <1>2
  <2> QED BY <2>1 DEF RenderTime, Spell, f
<1>6. RenderTime(n) \in [1 .. 14 -> Symbol]
  BY <1>4, <1>5
<1>7. \A k \in Nat : \A u \in [1 .. k -> Symbol] : u \in Text
  BY SeqDef DEF Text
<1> QED BY <1>6, <1>7

LEMMA EditIsText ==
    ASSUME text \in Text, TextNext
    PROVE  text' \in Text
<1>0. Len(text) \in Nat /\ DOMAIN text = 1 .. Len(text)
  BY DEF Text
<1>1. ASSUME NEW j \in 1 .. Len(text) + 1
      PROVE  SubSeq(text, 1, j - 1) \in Text /\ SubSeq(text, j, Len(text)) \in Text
  <2>1. /\ 1 \in 1 .. Len(text) + 1 /\ j - 1 \in 1 - 1 .. Len(text)
        /\ Len(text) \in j - 1 .. Len(text)
    BY <1>0
  <2> QED BY <2>1, PieceIs
<1>2. ASSUME InsertSymbol PROVE text' \in Text
  <2>1. PICK j \in 1 .. Len(text) + 1, s \in Symbols : text' = InsertAt(text, j, s)
    BY <1>2 DEF InsertSymbol, Edit
  <2>2. <<s>> \in Text
    BY LettersAreSymbols DEF Text
  <2>3. SubSeq(text, 1, j - 1) \o <<s>> \in Text
    BY <1>1, <2>2, JoinIsText
  <2>4. SubSeq(text, 1, j - 1) \o <<s>> \o SubSeq(text, j, Len(text)) \in Text
    BY <1>1, <2>3, JoinIsText
  <2> QED BY <2>1, <2>4 DEF InsertAt
<1>3. ASSUME ChangeSymbol PROVE text' \in Text
  <2>1. PICK j \in DOMAIN text, s \in Symbols : text' = [text EXCEPT ![j] = s]
    BY <1>3 DEF ChangeSymbol, Edit
  <2>2. j \in 1 .. Len(text) /\ s \in Symbol
    BY <1>0, LettersAreSymbols
  <2> QED BY <2>1, <2>2, ExceptSeq DEF Text
<1>4. ASSUME RemoveSymbol PROVE text' \in Text
  <2>1. PICK j \in DOMAIN text : text' = RemoveAt(text, j)
    BY <1>4 DEF RemoveSymbol, Edit
  <2>2. j \in 1 .. Len(text) + 1 /\ j + 1 \in 1 .. Len(text) + 1
    BY <1>0
  <2>3. SubSeq(text, 1, j - 1) \in Text /\ SubSeq(text, j + 1, Len(text)) \in Text
    BY <1>1, <2>2
  <2> QED BY <2>1, <2>3, JoinIsText DEF RemoveAt
<1>5. ASSUME ChangeField PROVE text' \in Text
  <2>1. PICK j \in DOMAIN text,
             value \in (0 .. SecondsPerMinute) \cup (EpochYear - 1 .. LastYear + 1) :
            IsNumber(text[j]) /\ text' = [text EXCEPT ![j].value = value]
    BY <1>5 DEF ChangeField, Edit
  <2>2. value \in Nat
    BY CalendarAssumption
  <2>3. j \in 1 .. Len(text) /\ text[j] \in Symbol
    BY <1>0, ElementOfSeq DEF Text
  <2>4. text[j] \in [letter : {"digits"}, value : Nat, digits : Nat]
    <3>1. CASE text[j] \in [letter : {"digits"}, value : Nat, digits : Nat]
      BY <3>1
    <3>2. ASSUME NEW l, text[j] = Letter(l)
          PROVE  text[j] \in [letter : {"digits"}, value : Nat, digits : Nat]
      BY <2>1, <3>2 DEF IsNumber, Letter
    <3> QED BY <2>3, <3>1, <3>2 DEF Symbol
  <2>5. [text[j] EXCEPT !.value = value] \in Symbol
    BY <2>2, <2>4 DEF Symbol
  <2>6. text' = [text EXCEPT ![j] = [text[j] EXCEPT !.value = value]]
    BY <2>1
  <2> QED BY <2>3, <2>5, <2>6, ExceptSeq DEF Text
<1> QED BY <1>2, <1>3, <1>4, <1>5 DEF TextNext, Next

THEOREM TextsAreTexts == TextSpec => [](text \in Text)
<1>1. TextInit => text \in Text
  <2>1. ASSUME TimeInit PROVE text \in Text
    BY <2>1, TimeIsText, CalendarAssumption DEF TimeInit
  <2> QED BY <2>1, DurationIsText DEF TextInit
<1>2. text \in Text /\ [TextNext]_vars => (text \in Text)'
  BY EditIsText DEF vars
<1> QED BY <1>1, <1>2, PTL DEF TextSpec

(* Durations: whatever the texts, the units of time and the word are, the  *)
(* parser takes exactly the durations of the grammar whose total fits, and *)
(* takes them for that total.  No sign may occur: with one it takes more   *)
(* (run duration_sign).                                                    *)
THEOREM DurationsAreRead == NoPlus => (TextSpec => []AcceptsTheGrammar)
<1> SUFFICES ASSUME NoPlus PROVE TextSpec => []AcceptsTheGrammar
  OBVIOUS
<1>1. ASSUME text \in Text PROVE AcceptsTheGrammar
  <2>1. /\ Parse(text).verdict = "ok" <=> WellFormed(text) /\ Fits(Total(text))
        /\ Parse(text).verdict = "ok" => Parse(text) = [verdict |-> "ok", nanos |-> Total(text)]
    BY <1>1, ParseIs
  <2>2. WellFormed(text) => Nanos(text) = Total(text) /\ Nanos(text) \in Nat
    <3>1. WellFormed(text) => Len(text) > 1
      BY DEF WellFormed
    <3> QED BY <1>1, <3>1, TotalIs, PartsInNat
  <2> DEFINE accepted == WellFormed(text) /\ Fits(Nanos(text))
  <2>3. accepted <=> Parse(text).verdict = "ok"
    BY <2>1, <2>2
  <2>4. accepted => Parse(text) = [verdict |-> "ok", nanos |-> Nanos(text)] /\ Nanos(text) \in Nat
    BY <2>1, <2>2
  <2> HIDE DEF accepted
  <2>5. CASE ~accepted
    <3>1. Parse(text) # [verdict |-> "ok", nanos |-> 0]
      BY <2>3, <2>5
    <3> QED BY <2>3, <2>5, <3>1 DEF AcceptsTheGrammar, ParseCadence, accepted
  <2>6. CASE accepted
    <3>1. ParseCadence(text).verdict = "ok" <=> Nanos(text) # 0
      BY <2>4, <2>6 DEF ParseCadence, Error
    <3>2. Nanos(text) # 0 <=> Nanos(text) > 0
      BY <2>4, <2>6
    <3>3. Parse(text).nanos = Nanos(text)
      BY <2>4, <2>6
    <3> QED BY <2>3, <2>6, <3>1, <3>2, <3>3 DEF AcceptsTheGrammar, accepted
  <2> QED BY <2>5, <2>6
<1>2. text \in Text => AcceptsTheGrammar
  BY <1>1
<1> QED BY <1>2, TextsAreTexts, PTL

-----------------------------------------------------------------------------
(* The order of instants is that of their fields.                          *)

LEMMA DividedInOrder ==
    ASSUME NEW a \in Nat, NEW b \in Nat, NEW d \in Nat \ {0}, a < b
    PROVE  a \div d < b \div d \/ (a \div d = b \div d /\ a % d < b % d)
<1> DEFINE p == a \div d
           q == b \div d
           r == a % d
           s == b % d
<1>1. p \in Nat /\ r \in 0 .. d - 1 /\ a = p * d + r
  BY Divided
<1>2. q \in Nat /\ s \in 0 .. d - 1 /\ b = q * d + s
  BY Divided
<1> HIDE DEF p, q, r, s
<1>3. ASSUME q < p PROVE FALSE
  <2>1. PICK k \in Nat : p = (q + 1) + k
    <3>1. p - (q + 1) \in Nat /\ p = (q + 1) + (p - (q + 1))
      BY <1>1, <1>2, <1>3
    <3> QED BY <3>1
  <2>2. p * d = q * d + d + k * d /\ k * d \in Nat
    BY <1>2, <2>1
  <2>3. q * d \in Nat
    BY <1>2
  <2> DEFINE x == q * d
             y == k * d
             z == p * d
  <2> HIDE DEF x, y, z
  <2>4. x \in Nat /\ y \in Nat /\ z = x + d + y /\ a = z + r /\ b = x + s
    BY <2>2, <2>3, <1>1, <1>2 DEF x, y, z
  <2> QED BY <2>4, <1>1, <1>2
<1>4. p < q \/ p = q
  BY <1>1, <1>2, <1>3
<1>5. p = q => r < s
  <2> SUFFICES ASSUME p = q PROVE r < s
    OBVIOUS
  <2> DEFINE x == p * d
  <2>1. x \in Nat
    BY <1>1
  <2>2. a = x + r /\ b = x + s
    BY <1>1, <1>2
  <2> HIDE DEF x
  <2> QED BY <2>1, <2>2, <1>1, <1>2
<1> QED BY <1>4, <1>5 DEF p, q, r, s

LEMMA YearsInOrder ==
    ASSUME NEW m \in 0 .. LastInstant, NEW n \in 0 .. LastInstant, Days(m) < Days(n)
    PROVE  \/ YearOf(m) < YearOf(n)
           \/ /\ YearOf(m) = YearOf(n) /\ DayOf(m) < DayOf(n)
              /\ MonthOf(m) <= MonthOf(n)
<1> DEFINE begun == {y \in EpochYear .. LastYear : YearStart[y] <= Days(n)}
<1>0. EpochYear \in Nat /\ LastYear \in Nat /\ LastInstant \in Nat
  BY CalendarAssumption
<1>1. m \in Nat /\ n \in Nat /\ Days(m) \in Nat /\ Days(n) \in Nat
  <2>1. m \in Nat /\ n \in Nat
    BY <1>0
  <2> QED BY <2>1, PerDay, Divided DEF Days
<1>2. /\ YearOf(m) \in EpochYear .. LastYear /\ YearOf(n) \in EpochYear .. LastYear
      /\ YearOf(m) \in Years /\ DayOf(m) \in Nat /\ DayOf(n) \in Nat
  BY YearHasTheDay
<1>3. YearStart[YearOf(m)] \in Int
  BY <1>2, CalendarAssumption
<1>4. YearStart[YearOf(m)] <= Days(m)
  <2>1. DayOf(m) = Days(m) - YearStart[YearOf(m)]
    BY DEF DayOf
  <2> QED BY <2>1, <1>1, <1>2, <1>3
<1>5. YearOf(m) \in begun
  <2>1. YearStart[YearOf(m)] <= Days(n)
    BY <1>1, <1>3, <1>4
  <2> QED BY <2>1, <1>2
<1>6. YearOf(m) <= YearOf(n)
  <2>1. begun \in SUBSET (EpochYear .. LastYear) /\ begun # {}
    BY <1>5
  <2> HIDE DEF begun
  <2>2. \A y \in begun : y <= Max(begun)
    BY <1>0, <2>1, LargestExists
  <2> QED BY <2>2, <1>5 DEF YearOf, begun
<1>7. ASSUME YearOf(m) = YearOf(n) PROVE DayOf(m) < DayOf(n) /\ MonthOf(m) <= MonthOf(n)
  <2>1. DayOf(m) < DayOf(n)
    <3>1. DayOf(m) = Days(m) - YearStart[YearOf(m)] /\ DayOf(n) = Days(n) - YearStart[YearOf(m)]
      BY <1>7 DEF DayOf
    <3> QED BY <3>1, <1>1, <1>3
  <2> DEFINE starts == MonthStart[YearOf(n)]
             months == {k \in Months(YearOf(n)) : starts[k] <= DayOf(n)}
  <2>2. /\ starts \in Seq(Nat) /\ MonthOf(m) \in Months(YearOf(n)) /\ MonthOf(m) \in Nat \ {0}
        /\ starts[MonthOf(m)] \in Nat /\ starts[MonthOf(m)] <= DayOf(m)
    BY <1>7, MonthHasTheDay
  <2>3. MonthOf(m) \in months
    <3>1. starts[MonthOf(m)] <= DayOf(n)
      BY <1>2, <2>1, <2>2
    <3> QED BY <3>1, <2>2
  <2>4. months \in SUBSET (1 .. Len(starts) - 1) /\ months # {}
    BY <2>3 DEF Months
  <2>5. Len(starts) - 1 \in Nat
    <3>1. Len(starts) \in Nat /\ MonthOf(m) \in 1 .. Len(starts) - 1
      BY <2>2 DEF Months
    <3> QED BY <3>1
  <2> HIDE DEF months, starts
  <2>6. \A k \in months : k <= Max(months)
    BY <2>4, <2>5, LargestExists
  <2> QED BY <2>1, <2>3, <2>6 DEF MonthOf, months, starts
<1> QED BY <1>0, <1>2, <1>6, <1>7

LEMMA FieldsInOrder ==
    ASSUME NEW m \in 0 .. LastInstant, NEW n \in 0 .. LastInstant, m < n
    PROVE  \E k \in 1 .. 7 : /\ Fields(m)[k] < Fields(n)[k]
                             /\ \A i \in 1 .. k - 1 : Fields(m)[i] = Fields(n)[i]
<1> DEFINE F == Fields(m)
           G == Fields(n)
<1>0. m \in Nat /\ n \in Nat
  BY CalendarAssumption
<1>1. F = << YearOf(m), MonthOf(m), DayOf(m) - MonthStart[YearOf(m)][MonthOf(m)] + 1,
             SecondsIn(m) \div SecondsPerHour,
             (SecondsIn(m) % SecondsPerHour) \div SecondsPerMinute,
             SecondsIn(m) % SecondsPerMinute, m % NanosPerSecond >>
  BY FieldsAre
<1>2. G = << YearOf(n), MonthOf(n), DayOf(n) - MonthStart[YearOf(n)][MonthOf(n)] + 1,
             SecondsIn(n) \div SecondsPerHour,
             (SecondsIn(n) % SecondsPerHour) \div SecondsPerMinute,
             SecondsIn(n) % SecondsPerMinute, n % NanosPerSecond >>
  BY FieldsAre
<1>3. /\ {SecondsPerMinute, SecondsPerHour, SecondsPerDay} \subseteq Nat \ {0}
      /\ SecondsPerHour % SecondsPerMinute = 0
  BY DurationAssumption
<1> HIDE DEF F, G
<1>4. CASE Days(m) < Days(n)
  <2>1. CASE YearOf(m) < YearOf(n)
    <3>1. F[1] < G[1] /\ \A i \in 1 .. 1 - 1 : F[i] = G[i]
      BY <2>1, <1>1, <1>2
    <3> QED BY <3>1 DEF F, G
  <2>2. CASE YearOf(m) = YearOf(n) /\ DayOf(m) < DayOf(n) /\ MonthOf(m) <= MonthOf(n)
    <3> DEFINE start == MonthStart[YearOf(m)][MonthOf(m)]
    <3>1. /\ MonthOf(m) \in Nat /\ MonthOf(n) \in Nat /\ start \in Nat
          /\ DayOf(m) \in Nat /\ DayOf(n) \in Nat
      BY MonthHasTheDay, YearHasTheDay
    <3>2. CASE MonthOf(m) < MonthOf(n)
      <4>1. F[2] < G[2] /\ F[1] = G[1]
        BY <2>2, <3>2, <1>1, <1>2
      <4>2. \A i \in 1 .. 2 - 1 : i = 1
        OBVIOUS
      <4> QED BY <4>1, <4>2 DEF F, G
    <3>3. CASE MonthOf(m) = MonthOf(n)
      <4>1. /\ F[1] = G[1] /\ F[2] = G[2] /\ F[3] = DayOf(m) - start + 1
            /\ G[3] = DayOf(n) - start + 1
        BY <2>2, <3>3, <1>1, <1>2
      <4> HIDE DEF start
      <4>2. F[3] < G[3]
        BY <4>1, <3>1, <2>2
      <4>3. \A i \in 1 .. 3 - 1 : i = 1 \/ i = 2
        OBVIOUS
      <4> QED BY <4>1, <4>2, <4>3 DEF F, G
    <3>4. MonthOf(m) < MonthOf(n) \/ MonthOf(m) = MonthOf(n)
      BY <2>2, <3>1
    <3> QED BY <3>2, <3>3, <3>4
  <2> QED BY <1>4, <2>1, <2>2, YearsInOrder
<1>5. CASE Days(m) = Days(n) /\ m % NanosPerDay < n % NanosPerDay
  <2> DEFINE a == m % NanosPerDay
             b == n % NanosPerDay
  <2>1. /\ a \in Nat /\ b \in Nat
        /\ a % NanosPerSecond = m % NanosPerSecond /\ b % NanosPerSecond = n % NanosPerSecond
    <3>1. a \in Nat /\ b \in Nat
      BY <1>0, PerDay, Divided
    <3>2. a % NanosPerSecond = m % NanosPerSecond /\ b % NanosPerSecond = n % NanosPerSecond
      BY <1>0, PerDay, PerSecond, NestedRemainder
    <3> QED BY <3>1, <3>2
  <2>2. SecondsIn(m) = a \div NanosPerSecond /\ SecondsIn(n) = b \div NanosPerSecond
    BY DEF SecondsIn
  <2>3. \/ SecondsIn(m) < SecondsIn(n)
        \/ SecondsIn(m) = SecondsIn(n) /\ m % NanosPerSecond < n % NanosPerSecond
    <3> HIDE DEF a, b
    <3>1. a < b
      BY <1>5 DEF a, b
    <3> QED BY <2>1, <2>2, <3>1, PerSecond, DividedInOrder
  <2>4. F[1] = G[1] /\ F[2] = G[2] /\ F[3] = G[3]
    <3>1. YearOf(m) = YearOf(n)
      BY <1>5 DEF YearOf
    <3>2. DayOf(m) = DayOf(n)
      BY <1>5, <3>1 DEF DayOf
    <3>3. MonthOf(m) = MonthOf(n)
      BY <3>1, <3>2 DEF MonthOf
    <3> QED BY <3>1, <3>2, <3>3, <1>1, <1>2
  <2> DEFINE s == SecondsIn(m)
             t == SecondsIn(n)
  <2>5. s \in Nat /\ t \in Nat
    <3> HIDE DEF a, b
    <3>1. a \div NanosPerSecond \in Nat /\ b \div NanosPerSecond \in Nat
      BY <2>1, PerSecond, Divided
    <3> QED BY <2>2, <3>1
  <2> DEFINE x == s % SecondsPerHour
             y == t % SecondsPerHour
  <2>6. /\ x \in Nat /\ y \in Nat
        /\ x % SecondsPerMinute = s % SecondsPerMinute
        /\ y % SecondsPerMinute = t % SecondsPerMinute
    <3> HIDE DEF s, t
    <3>0. SecondsPerHour \in Nat \ {0}
      BY <1>3
    <3>1. x \in Nat /\ y \in Nat
      BY <2>5, <3>0
    <3>2. /\ x % SecondsPerMinute = s % SecondsPerMinute
          /\ y % SecondsPerMinute = t % SecondsPerMinute
      BY <2>5, <1>3, NestedRemainder
    <3> QED BY <3>1, <3>2
  <2>7. /\ F[4] = s \div SecondsPerHour /\ G[4] = t \div SecondsPerHour
        /\ F[5] = x \div SecondsPerMinute /\ G[5] = y \div SecondsPerMinute
        /\ F[6] = s % SecondsPerMinute /\ G[6] = t % SecondsPerMinute
        /\ F[7] = m % NanosPerSecond /\ G[7] = n % NanosPerSecond
    BY <1>1, <1>2
  <2> HIDE DEF s, t
  <2>8. CASE s < t
    <3>1. \/ s \div SecondsPerHour < t \div SecondsPerHour
          \/ s \div SecondsPerHour = t \div SecondsPerHour /\ x < y
      BY <2>5, <2>8, <1>3, DividedInOrder
    <3> HIDE DEF x, y
    <3>2. x < y => \/ x \div SecondsPerMinute < y \div SecondsPerMinute
                   \/ /\ x \div SecondsPerMinute = y \div SecondsPerMinute
                      /\ x % SecondsPerMinute < y % SecondsPerMinute
      BY <2>6, <1>3, DividedInOrder
    <3>3. \/ F[4] < G[4]
          \/ F[4] = G[4] /\ F[5] < G[5]
          \/ F[4] = G[4] /\ F[5] = G[5] /\ F[6] < G[6]
      BY <3>1, <3>2, <2>6, <2>7
    <3>4. CASE F[4] < G[4]
      <4>1. \A i \in 1 .. 4 - 1 : i = 1 \/ i = 2 \/ i = 3
        OBVIOUS
      <4> QED BY <3>4, <4>1, <2>4 DEF F, G
    <3>5. CASE F[4] = G[4] /\ F[5] < G[5]
      <4>1. \A i \in 1 .. 5 - 1 : i = 1 \/ i = 2 \/ i = 3 \/ i = 4
        OBVIOUS
      <4> QED BY <3>5, <4>1, <2>4 DEF F, G
    <3>6. CASE F[4] = G[4] /\ F[5] = G[5] /\ F[6] < G[6]
      <4>1. \A i \in 1 .. 6 - 1 : i = 1 \/ i = 2 \/ i = 3 \/ i = 4 \/ i = 5
        OBVIOUS
      <4> QED BY <3>6, <4>1, <2>4 DEF F, G
    <3> QED BY <3>3, <3>4, <3>5, <3>6
  <2>9. CASE s = t /\ m % NanosPerSecond < n % NanosPerSecond
    <3>1. F[4] = G[4] /\ F[5] = G[5] /\ F[6] = G[6] /\ F[7] < G[7]
      BY <2>7, <2>9
    <3>2. \A i \in 1 .. 7 - 1 : i = 1 \/ i = 2 \/ i = 3 \/ i = 4 \/ i = 5 \/ i = 6
      OBVIOUS
    <3> QED BY <3>1, <3>2, <2>4 DEF F, G
  <2> QED BY <2>3, <2>8, <2>9 DEF s, t
<1>6. \/ Days(m) < Days(n)
      \/ Days(m) = Days(n) /\ m % NanosPerDay < n % NanosPerDay
  BY <1>0, PerDay, DividedInOrder DEF Days
<1> QED BY <1>4, <1>5, <1>6

(* And every field fits its width.                                         *)
LEMMA FieldsFit ==
    ASSUME NEW n \in 0 .. LastInstant, NEW k \in 1 .. 7
    PROVE  /\ Fields(n)[k] \in Nat /\ Widths[k] \in Nat
           /\ Fields(n)[k] < PowerOfTen[Widths[k]]
<1> DEFINE f == Fields(n)
           starts == MonthStart[f[1]]
           two == PowerOfTen[2]
<1>1. InCalendar(f) /\ f[1] = YearOf(n) /\ YearOf(n) \in EpochYear .. LastYear
  BY FieldsOfTheInstant, FieldsAre, YearHasTheDay
<1>2. \A i \in 1 .. 7 : f[i] \in Nat
  BY FieldsAreNumbers
<1>3. /\ Widths[1] = 4 /\ Widths[2] = 2 /\ Widths[3] = 2 /\ Widths[4] = 2
      /\ Widths[5] = 2 /\ Widths[6] = 2 /\ Widths[7] = FractionDigits /\ FractionDigits \in Nat
  BY DurationAssumption DEF Widths
<1>4. two \in Nat /\ PowerOfTen[4] \in Nat
  BY PowersOfTen
<1>5. f[1] < PowerOfTen[4]
  <2>1. EpochYear \in Nat /\ LastYear \in Nat /\ LastYear < PowerOfTen[4]
    BY CalendarAssumption, WidthAssumption
  <2> HIDE DEF f
  <2> QED BY <1>1, <1>4, <2>1
<1>6. f[2] < two
  BY <1>1, WidthAssumption DEF InCalendar
<1>7. f[3] < two
  <2>1. /\ f[3] \in 1 .. starts[f[2] + 1] - starts[f[2]]
        /\ starts[f[2] + 1] - starts[f[2]] < two
    BY <1>1, WidthAssumption DEF InCalendar
  <2>2. starts[f[2]] \in Nat /\ starts[f[2] + 1] \in Nat
    BY FieldsAre, MonthHasTheDay
  <2> HIDE DEF f, starts, two
  <2> QED BY <1>2, <1>4, <2>1, <2>2
<1>8. f[4] < two /\ f[5] < two /\ f[6] < two
  <2> DEFINE hours == SecondsPerDay \div SecondsPerHour
             minutes == SecondsPerHour \div SecondsPerMinute
  <2>1. /\ hours \in 1 .. two /\ minutes \in 1 .. two /\ SecondsPerMinute \in 1 .. two
    BY WidthAssumption
  <2>2. f[4] < hours /\ f[5] < minutes /\ f[6] < SecondsPerMinute
    BY <1>1 DEF InCalendar
  <2>3. f[4] \in Nat /\ f[5] \in Nat /\ f[6] \in Nat
    BY <1>2
  <2> HIDE DEF f, two, hours, minutes
  <2> QED BY <1>4, <2>1, <2>2, <2>3
<1>9. f[7] < PowerOfTen[FractionDigits]
  <2>1. f[7] = n % NanosPerSecond /\ n \in Nat
    BY FieldsAre, CalendarAssumption
  <2>2. n % NanosPerSecond \in 0 .. NanosPerSecond - 1
    BY <2>1, PerSecond, Divided
  <2>3. f[7] < NanosPerSecond
    BY <2>1, <2>2, PerSecond
  <2> QED BY <2>3 DEF NanosPerSecond
<1> HIDE DEF f, two
<1>10. k \in {1, 2, 3, 4, 5, 6, 7}
  OBVIOUS
<1>11. f[k] < PowerOfTen[Widths[k]]
  BY <1>3, <1>5, <1>6, <1>7, <1>8, <1>9, <1>10 DEF two
<1> QED BY <1>2, <1>3, <1>10, <1>11 DEF f

-----------------------------------------------------------------------------
(* The order of numbers is that of their digits.                           *)

(* The sequence a is smaller than b where they first differ.               *)
Below(a, b) ==
    \E i \in DOMAIN a \cap DOMAIN b : a[i] < b[i] /\ \A j \in 1 .. i - 1 : a[j] = b[j]

LEMMA DividedTwice ==
    ASSUME NEW n \in Nat, NEW d \in Nat \ {0}
    PROVE  (n \div d) \div 10 = n \div (10 * d)
<1> DEFINE q == n \div d
           r == n % d
           u == q \div 10
           v == q % 10
<1>1. q \in Nat /\ r \in 0 .. d - 1 /\ n = q * d + r
  BY Divided
<1>2. u \in Nat /\ v \in 0 .. 9 /\ q = u * 10 + v
  <2>1. 10 \in Nat \ {0} /\ q \in Nat
    BY <1>1
  <2> HIDE DEF q
  <2> QED BY <2>1, Divided
<1> HIDE DEF q, r, u, v
<1> DEFINE rest == v * d + r
<1>3. n = u * (10 * d) + rest
  BY <1>1, <1>2
<1>4. rest \in 0 .. 10 * d - 1
  <2>1. \A i \in 0 .. 9 : i * d + r \in 0 .. 10 * d - 1
    <3> SUFFICES ASSUME NEW i \in 0 .. 9 PROVE i * d + r \in 0 .. 10 * d - 1
      OBVIOUS
    <3>1. i \in {0, 1, 2, 3, 4, 5, 6, 7, 8, 9}
      OBVIOUS
    <3> QED BY <1>1, <3>1
  <2> QED BY <1>2, <2>1
<1>5. 10 * d \in Nat \ {0}
  OBVIOUS
<1> HIDE DEF rest
<1>6. n \div (10 * d) = u
  <2> DEFINE e == 10 * d
  <2> HIDE DEF e
  <2>1. e \in Nat \ {0} /\ rest \in 0 .. e - 1 /\ n = u * e + rest
    BY <1>3, <1>4, <1>5 DEF e
  <2>2. n \div e = u
    BY <2>1, <1>2, DividedOnce
  <2> QED BY <2>2 DEF e
<1> QED BY <1>6 DEF u, q

(* The number v without the last digits of those of width w.               *)
Leading(v, w, i) == v \div PowerOfTen[w - i]

LEMMA LeadingDigits ==
    ASSUME NEW v \in Nat, NEW w \in Nat
    PROVE  /\ \A i \in 0 .. w : Leading(v, w, i) \in Nat
           /\ Leading(v, w, w) = v /\ (v < PowerOfTen[w] => Leading(v, w, 0) = 0)
           /\ \A i \in 1 .. w : Leading(v, w, i) \div 10 = Leading(v, w, i - 1)
<1>1. \A i \in 0 .. w : w - i \in Nat
  OBVIOUS
<1>2. ASSUME NEW i \in 0 .. w PROVE Leading(v, w, i) \in Nat
  <2>1. PowerOfTen[w - i] \in Nat \ {0}
    BY <1>1, PowersOfTen
  <2> QED BY <2>1, Divided DEF Leading
<1>3. Leading(v, w, w) = v
  <2>1. w - w = 0 /\ PowerOfTen[0] = 1 /\ v \div 1 = v
    BY PowersOfTen
  <2> QED BY <2>1 DEF Leading
<1>4. ASSUME v < PowerOfTen[w] PROVE Leading(v, w, 0) = 0
  <2> DEFINE d == PowerOfTen[w]
  <2>1. d \in Nat \ {0} /\ w - 0 = w
    BY PowersOfTen
  <2>2. Leading(v, w, 0) = v \div d
    BY <2>1 DEF Leading
  <2>3. v < d
    BY <1>4
  <2> HIDE DEF d
  <2>4. v \in 0 .. d - 1 /\ v = 0 * d + v
    BY <2>1, <2>3
  <2>5. v \div d = 0
    BY <2>1, <2>4, DividedOnce
  <2> QED BY <2>2, <2>5
<1>5. ASSUME NEW i \in 1 .. w PROVE Leading(v, w, i) \div 10 = Leading(v, w, i - 1)
  <2>1. w - i \in Nat /\ w - (i - 1) = (w - i) + 1
    OBVIOUS
  <2>2. PowerOfTen[w - i] \in Nat \ {0} /\ PowerOfTen[w - (i - 1)] = 10 * PowerOfTen[w - i]
    BY <2>1, PowersOfTen
  <2> QED BY <2>2, DividedTwice DEF Leading
<1> QED BY <1>2, <1>3, <1>4, <1>5

LEMMA DigitsInOrder ==
    ASSUME NEW w \in Nat, NEW v \in Nat, NEW u \in Nat, v < u, u < PowerOfTen[w]
    PROVE  Below(Spelling(Number(v, w)), Spelling(Number(u, w)))
<1> DEFINE P(i) == Leading(v, w, i)
           Q(i) == Leading(u, w, i)
           differ == {i \in 0 .. w : P(i) # Q(i)}
<1>1. PICK i \in differ : \A j \in differ : i <= j
  <2>1. w \in differ
    BY LeadingDigits
  <2>2. differ \in SUBSET Nat
    OBVIOUS
  <2> HIDE DEF differ
  <2> QED BY <2>1, <2>2, Order!LeastNatural
<1>2. P(0) = Q(0)
  <2>1. v < PowerOfTen[w]
    BY PowersOfTen
  <2>2. Leading(v, w, 0) = 0 /\ Leading(u, w, 0) = 0
    <3> HIDE DEF differ, P, Q
    <3>1. Leading(v, w, 0) = 0
      BY <2>1, LeadingDigits
    <3>2. Leading(u, w, 0) = 0
      BY LeadingDigits
    <3> QED BY <3>1, <3>2
  <2> QED BY <2>2
<1>3. i \in 1 .. w /\ P(i) # Q(i)
  BY <1>1, <1>2
<1>4. \A j \in 0 .. i - 1 : P(j) = Q(j)
  <2> SUFFICES ASSUME NEW j \in 0 .. i - 1, P(j) # Q(j) PROVE FALSE
    OBVIOUS
  <2>1. j \in 0 .. w /\ ~ (i <= j)
    BY <1>3
  <2> QED BY <2>1, <1>1
<1> DEFINE DigitOf(m, j) == Leading(m, w, j) % 10
<1>5. /\ Spelling(Number(v, w)) = [j \in 1 .. w |-> 48 + DigitOf(v, j)]
      /\ Spelling(Number(u, w)) = [j \in 1 .. w |-> 48 + DigitOf(u, j)]
  BY DEF Spelling, IsNumber, Number, Leading
<1>6. \A j \in 1 .. i - 1 : DigitOf(v, j) = DigitOf(u, j)
  BY <1>4
<1>7. P(i) < Q(i)
  <2> DEFINE d == PowerOfTen[w - i]
  <2>1. d \in Nat \ {0}
    BY <1>3, PowersOfTen
  <2>2. v \div d < u \div d \/ v \div d = u \div d
    BY <2>1, DividedInOrder
  <2> QED BY <2>2, <1>3 DEF Leading
<1>8. DigitOf(v, i) < DigitOf(u, i)
  <2>1. /\ P(i) \in Nat /\ Q(i) \in Nat
        /\ P(i) \div 10 = P(i - 1) /\ Q(i) \div 10 = Q(i - 1) /\ P(i - 1) \in Nat
    BY <1>3, LeadingDigits
  <2>2. P(i - 1) = Q(i - 1)
    BY <1>3, <1>4
  <2>3. 10 \in Nat \ {0}
    OBVIOUS
  <2>4. \/ P(i) \div 10 < Q(i) \div 10
        \/ P(i) \div 10 = Q(i) \div 10 /\ P(i) % 10 < Q(i) % 10
    <3> HIDE DEF P, Q
    <3> QED BY <1>7, <2>1, <2>3, DividedInOrder
  <2>5. ~ (P(i) \div 10 < Q(i) \div 10)
    <3> HIDE DEF P, Q
    <3> QED BY <2>1, <2>2
  <2> QED BY <2>4, <2>5
<1>9. DigitOf(v, i) \in Nat /\ DigitOf(u, i) \in Nat
  <2>1. P(i) \in Nat /\ Q(i) \in Nat
    BY <1>3, LeadingDigits
  <2> HIDE DEF P, Q
  <2>2. P(i) % 10 \in Nat /\ Q(i) % 10 \in Nat
    BY <2>1
  <2> QED BY <2>2 DEF P, Q
<1> HIDE DEF DigitOf, P, Q, differ
<1> DEFINE a == [j \in 1 .. w |-> 48 + DigitOf(v, j)]
           b == [j \in 1 .. w |-> 48 + DigitOf(u, j)]
<1>10. i \in DOMAIN a \cap DOMAIN b /\ a[i] < b[i]
  BY <1>3, <1>8, <1>9
<1>11. \A j \in 1 .. i - 1 : a[j] = b[j]
  BY <1>3, <1>6
<1>12. Below(a, b)
  BY <1>10, <1>11 DEF Below
<1> QED BY <1>5, <1>12

-----------------------------------------------------------------------------
(* And the order of texts is that of the symbols they differ in first.     *)

LEMMA JoinedIs ==
    ASSUME NEW p \in Seq(Int), NEW a \in Seq(Int)
    PROVE  /\ p \o a \in Seq(Int) /\ Len(p \o a) = Len(p) + Len(a)
           /\ DOMAIN (p \o a) = 1 .. Len(p) + Len(a)
           /\ \A j \in 1 .. Len(p) : (p \o a)[j] = p[j]
           /\ \A j \in 1 .. Len(a) : (p \o a)[Len(p) + j] = a[j]
<1> DEFINE c == p \o a
<1>1. /\ c \in Seq(Int) /\ Len(c) = Len(p) + Len(a)
      /\ \A j \in 1 .. Len(p) + Len(a) : c[j] = IF j <= Len(p) THEN p[j] ELSE a[j - Len(p)]
  BY ConcatProperties
<1> HIDE DEF c
<1>2. DOMAIN c = 1 .. Len(p) + Len(a)
  BY <1>1
<1>3. Len(p) \in Nat /\ Len(a) \in Nat
  OBVIOUS
<1>4. \A j \in 1 .. Len(p) : c[j] = p[j]
  BY <1>1, <1>3
<1>5. ASSUME NEW j \in 1 .. Len(a) PROVE c[Len(p) + j] = a[j]
  <2>1. /\ Len(p) + j \in 1 .. Len(p) + Len(a) /\ ~ (Len(p) + j <= Len(p))
        /\ (Len(p) + j) - Len(p) = j
    BY <1>3
  <2> QED BY <1>1, <2>1
<1> QED BY <1>1, <1>2, <1>4, <1>5 DEF c

LEMMA BelowAfter ==
    ASSUME NEW p \in Seq(Int), NEW a \in Seq(Int), NEW b \in Seq(Int), Below(a, b)
    PROVE  Below(p \o a, p \o b)
<1>1. PICK i \in DOMAIN a \cap DOMAIN b : a[i] < b[i] /\ \A j \in 1 .. i - 1 : a[j] = b[j]
  BY DEF Below
<1> DEFINE l == Len(p)
           c == p \o a
           d == p \o b
<1>2. /\ l \in Nat /\ i \in 1 .. Len(a) /\ i \in 1 .. Len(b) /\ i \in Nat \ {0}
      /\ Len(a) \in Nat /\ Len(b) \in Nat
  BY <1>1
<1>3. /\ DOMAIN c = 1 .. l + Len(a) /\ \A j \in 1 .. l : c[j] = p[j]
      /\ \A j \in 1 .. Len(a) : c[l + j] = a[j]
  BY JoinedIs
<1>4. /\ DOMAIN d = 1 .. l + Len(b) /\ \A j \in 1 .. l : d[j] = p[j]
      /\ \A j \in 1 .. Len(b) : d[l + j] = b[j]
  BY JoinedIs
<1> HIDE DEF c, d, l
<1>5. ASSUME NEW j \in 1 .. i PROVE c[l + j] = a[j] /\ d[l + j] = b[j]
  <2>1. j \in 1 .. Len(a) /\ j \in 1 .. Len(b)
    BY <1>2
  <2> QED BY <2>1, <1>3, <1>4
<1>6. l + i \in DOMAIN c \cap DOMAIN d
  <2>1. l + i \in 1 .. l + Len(a) /\ l + i \in 1 .. l + Len(b)
    BY <1>2
  <2> QED BY <2>1, <1>3, <1>4
<1>7. c[l + i] < d[l + i]
  <2>1. i \in 1 .. i
    BY <1>2
  <2> QED BY <1>1, <1>5, <2>1
<1> DEFINE h == l + i
<1>8. h \in DOMAIN c \cap DOMAIN d /\ c[h] < d[h]
  BY <1>6, <1>7
<1>9. \A k \in 1 .. h - 1 : c[k] = d[k]
  <2> SUFFICES ASSUME NEW k \in 1 .. h - 1 PROVE c[k] = d[k]
    OBVIOUS
  <2>1. CASE k \in 1 .. l
    BY <1>3, <1>4, <2>1
  <2>2. CASE k \notin 1 .. l
    <3> DEFINE j == k - l
    <3>1. j \in 1 .. i - 1 /\ j \in 1 .. i /\ l + j = k
      BY <1>2, <2>2
    <3> HIDE DEF j
    <3> QED BY <3>1, <1>1, <1>5
  <2> QED BY <2>1, <2>2
<1> HIDE DEF h
<1>10. Below(c, d)
  BY <1>8, <1>9 DEF Below
<1> QED BY <1>10 DEF c, d

LEMMA BelowBefore ==
    ASSUME NEW a \in Seq(Int), NEW b \in Seq(Int), Below(a, b),
           NEW s \in Seq(Int), NEW t \in Seq(Int)
    PROVE  Below(a \o s, b \o t)
<1>1. PICK i \in DOMAIN a \cap DOMAIN b : a[i] < b[i] /\ \A j \in 1 .. i - 1 : a[j] = b[j]
  BY DEF Below
<1> DEFINE c == a \o s
           d == b \o t
<1>2. /\ i \in 1 .. Len(a) /\ i \in 1 .. Len(b) /\ i \in Nat
      /\ Len(a) \in Nat /\ Len(b) \in Nat /\ Len(s) \in Nat /\ Len(t) \in Nat
  BY <1>1
<1>3. DOMAIN c = 1 .. Len(a) + Len(s) /\ \A j \in 1 .. Len(a) : c[j] = a[j]
  BY JoinedIs
<1>4. DOMAIN d = 1 .. Len(b) + Len(t) /\ \A j \in 1 .. Len(b) : d[j] = b[j]
  BY JoinedIs
<1> HIDE DEF c, d
<1>5. i \in DOMAIN c \cap DOMAIN d
  <2>1. i \in 1 .. Len(a) + Len(s) /\ i \in 1 .. Len(b) + Len(t)
    BY <1>2
  <2> QED BY <2>1, <1>3, <1>4
<1>6. c[i] < d[i]
  BY <1>1, <1>2, <1>3, <1>4
<1>7. \A k \in 1 .. i - 1 : c[k] = d[k]
  <2> SUFFICES ASSUME NEW k \in 1 .. i - 1 PROVE c[k] = d[k]
    OBVIOUS
  <2>1. k \in 1 .. Len(a) /\ k \in 1 .. Len(b)
    <3>1. \A x, y \in Nat : y \in 1 .. x => \A z \in 1 .. y - 1 : z \in 1 .. x
      OBVIOUS
    <3> QED BY <3>1, <1>2
  <2> QED BY <2>1, <1>1, <1>3, <1>4
<1>8. Below(c, d)
  BY <1>5, <1>6, <1>7 DEF Below
<1> QED BY <1>8 DEF c, d

LEMMA CodeIs == \A l : Code(l) \in Int
BY DEF Code

(* Digits are characters, and so is any other symbol.                      *)
LEMMA SpellingIs ==
    /\ \A l \in {"-", "T", ":", ".", "Z"} : Spelling(Letter(l)) \in Seq(Int)
    /\ \A v, w \in Nat : Spelling(Number(v, w)) \in Seq(Int)
<1>1. ASSUME NEW l \in {"-", "T", ":", ".", "Z"} PROVE Spelling(Letter(l)) \in Seq(Int)
  <2>1. ~ IsNumber(Letter(l))
    BY DEF IsNumber, Letter
  <2>2. Spelling(Letter(l)) = <<Code(Letter(l).letter)>>
    BY <2>1 DEF Spelling
  <2>3. Code(Letter(l).letter) \in Int
    BY CodeIs
  <2> HIDE DEF Spelling
  <2> QED BY <2>2, <2>3
<1>2. ASSUME NEW v \in Nat, NEW w \in Nat PROVE Spelling(Number(v, w)) \in Seq(Int)
  <2> DEFINE digit(i) == 48 + ((v \div PowerOfTen[w - i]) % 10)
  <2>1. Spelling(Number(v, w)) = [i \in 1 .. w |-> digit(i)]
    BY DEF Spelling, IsNumber, Number
  <2>2. ASSUME NEW i \in 1 .. w PROVE digit(i) \in Int
    <3>1. Leading(v, w, i) \in Nat
      BY LeadingDigits
    <3> DEFINE m == v \div PowerOfTen[w - i]
    <3>2. m \in Nat
      BY <3>1 DEF Leading
    <3> HIDE DEF m
    <3>3. 48 + (m % 10) \in Int
      BY <3>2
    <3> QED BY <3>3 DEF m
  <2> HIDE DEF digit
  <2>3. [i \in 1 .. w |-> digit(i)] \in [1 .. w -> Int]
    BY <2>2
  <2>4. \A f \in [1 .. w -> Int] : f \in Seq(Int)
    BY SeqDef
  <2> QED BY <2>1, <2>3, <2>4
<1> QED BY <1>1, <1>2

CharactersValue(t, f, j) == IF j = 0 THEN <<>> ELSE f[j - 1] \o Spelling(t[j])
Strings == INSTANCE Order_proofs WITH Value <- CharactersValue
CharactersTo(t) == CHOOSE f : f = [j \in 0 .. Len(t) |-> CharactersValue(t, f, j)]

LEMMA CharactersAdd ==
    ASSUME NEW t, Len(t) \in Nat
    PROVE  /\ Characters(t) = CharactersTo(t)[Len(t)] /\ CharactersTo(t)[0] = <<>>
           /\ \A j \in 1 .. Len(t) : CharactersTo(t)[j] = CharactersTo(t)[j - 1] \o Spelling(t[j])
<1> DEFINE AreThese(f) == f = [j \in 0 .. Len(t) |-> CharactersValue(t, f, j)]
<1>1. \E f : AreThese(f)
  <2>1. Strings!LooksBelow(t, 0 .. Len(t))
    <3> SUFFICES ASSUME NEW n \in 0 .. Len(t), NEW f, NEW g,
                        \A m \in 0 .. Len(t) : m < n => f[m] = g[m]
                 PROVE  CharactersValue(t, f, n) = CharactersValue(t, g, n)
      BY DEF Strings!LooksBelow
    <3>1. CASE n = 0
      BY <3>1 DEF CharactersValue
    <3>2. CASE n # 0
      <4>1. n - 1 \in 0 .. Len(t) /\ n - 1 < n
        BY <3>2
      <4>2. f[n - 1] = g[n - 1]
        BY <4>1
      <4> QED BY <3>2, <4>2 DEF CharactersValue
    <3> QED BY <3>1, <3>2
  <2>2. 0 .. Len(t) \in SUBSET Nat
    OBVIOUS
  <2> QED BY <2>1, <2>2, Strings!RecursiveFunction DEF Strings!IsRecursive
<1>2. AreThese(CharactersTo(t))
  BY <1>1 DEF CharactersTo
<1>3. \A j \in 0 .. Len(t) : CharactersTo(t)[j] = CharactersValue(t, CharactersTo(t), j)
  BY <1>2
<1>4. CharactersTo(t)[0] = <<>>
  BY <1>3 DEF CharactersValue
<1>5. ASSUME NEW j \in 1 .. Len(t)
      PROVE  CharactersTo(t)[j] = CharactersTo(t)[j - 1] \o Spelling(t[j])
  <2>1. j \in 0 .. Len(t) /\ j # 0
    OBVIOUS
  <2> QED BY <2>1, <1>3 DEF CharactersValue
<1>6. Characters(t) = CharactersTo(t)[Len(t)]
  BY DEF Characters, CharactersTo, CharactersValue
<1> QED BY <1>4, <1>5, <1>6

(* Texts of one length are in the order of the first symbols they differ   *)
(* in.                                                                     *)
LEMMA CharactersBelow ==
    ASSUME NEW t, NEW u, NEW l \in Nat, Len(t) = l, Len(u) = l,
           \A j \in 1 .. l : Spelling(t[j]) \in Seq(Int) /\ Spelling(u[j]) \in Seq(Int),
           NEW k \in 1 .. l, Below(Spelling(t[k]), Spelling(u[k])),
           \A j \in 1 .. k - 1 : t[j] = u[j]
    PROVE  Below(Characters(t), Characters(u))
<1> DEFINE T == CharactersTo(t)
           U == CharactersTo(u)
           S == {j \in Nat : j <= l =>
                    /\ T[j] \in Seq(Int) /\ U[j] \in Seq(Int)
                    /\ j < k => T[j] = U[j]
                    /\ k <= j => Below(T[j], U[j])}
<1>1. /\ T[0] = <<>> /\ U[0] = <<>>
      /\ \A j \in 1 .. l : T[j] = T[j - 1] \o Spelling(t[j]) /\ U[j] = U[j - 1] \o Spelling(u[j])
  BY CharactersAdd
<1> HIDE DEF T, U
<1>2. 0 \in S
  <2>1. T[0] \in Seq(Int) /\ U[0] \in Seq(Int) /\ T[0] = U[0]
    BY <1>1
  <2>2. ~ (k <= 0)
    OBVIOUS
  <2> QED BY <2>1, <2>2
<1>3. ASSUME NEW i \in S PROVE i + 1 \in S
  <2> SUFFICES ASSUME i + 1 <= l
               PROVE  /\ T[i + 1] \in Seq(Int) /\ U[i + 1] \in Seq(Int)
                      /\ i + 1 < k => T[i + 1] = U[i + 1]
                      /\ k <= i + 1 => Below(T[i + 1], U[i + 1])
    OBVIOUS
  <2> DEFINE a == Spelling(t[i + 1])
             b == Spelling(u[i + 1])
  <2>1. i \in Nat /\ i <= l /\ i + 1 \in 1 .. l /\ (i + 1) - 1 = i
    OBVIOUS
  <2>2. T[i] \in Seq(Int) /\ U[i] \in Seq(Int) /\ a \in Seq(Int) /\ b \in Seq(Int)
    BY <2>1
  <2>3. T[i + 1] = T[i] \o a /\ U[i + 1] = U[i] \o b
    BY <1>1, <2>1
  <2>4. T[i + 1] \in Seq(Int) /\ U[i + 1] \in Seq(Int)
    <3> HIDE DEF a, b
    <3> QED BY <2>2, <2>3, ConcatProperties
  <2>5. i < k => T[i] = U[i]
    BY <2>1
  <2>6. k <= i => Below(T[i], U[i])
    BY <2>1
  <2>7. CASE i + 1 < k
    <3>1. i + 1 \in 1 .. k - 1 /\ ~ (k <= i + 1) /\ i < k
      BY <2>1, <2>7
    <3>2. a = b
      BY <3>1
    <3> QED BY <2>3, <2>4, <2>5, <3>1, <3>2
  <2>8. CASE i + 1 = k
    <3>1. Below(a, b) /\ T[i] = U[i]
      BY <2>1, <2>5, <2>8
    <3> HIDE DEF a, b
    <3>2. Below(T[i] \o a, T[i] \o b)
      BY <2>2, <3>1, BelowAfter
    <3> QED BY <2>3, <2>4, <2>8, <3>1, <3>2
  <2>9. CASE k < i + 1
    <3>0. k <= i /\ ~ (i + 1 < k)
      BY <2>1, <2>9
    <3>1. Below(T[i], U[i])
      BY <2>6, <3>0
    <3> HIDE DEF a, b
    <3>2. Below(T[i] \o a, U[i] \o b)
      BY <2>2, <3>1, BelowBefore
    <3> QED BY <2>3, <2>4, <3>0, <3>2
  <2> QED BY <2>1, <2>7, <2>8, <2>9
<1>4. S \in SUBSET Nat
  OBVIOUS
<1>5. l \in S
  <2> HIDE DEF S
  <2> QED BY <1>2, <1>3, <1>4, Order!EveryNatural
<1>6. Below(T[l], U[l])
  BY <1>5
<1> QED BY <1>6, CharactersAdd DEF T, U

LEMMA RenderedSymbols ==
    ASSUME NEW n \in 0 .. LastInstant
    PROVE  /\ Len(RenderTime(n)) = 14
           /\ \A k \in 1 .. 7 : /\ RenderTime(n)[2 * k - 1] = Number(Fields(n)[k], Widths[k])
                                /\ RenderTime(n)[2 * k] = Letter(Literals[k])
<1> DEFINE t == RenderTime(n)
<1>1. Len(Widths) = 7
  BY DEF Widths
<1>2. t = [j \in 1 .. 14 |-> IF j % 2 = 0 THEN Letter(Literals[j \div 2])
                             ELSE Number(Fields(n)[(j + 1) \div 2], Widths[(j + 1) \div 2])]
  BY <1>1 DEF RenderTime, Spell
<1>3. Len(t) = 14
  BY <1>2
<1> HIDE DEF t
<1>4. ASSUME NEW k \in 1 .. 7
      PROVE  t[2 * k - 1] = Number(Fields(n)[k], Widths[k]) /\ t[2 * k] = Letter(Literals[k])
  <2>1. /\ 2 * k - 1 \in 1 .. 14 /\ 2 * k \in 1 .. 14
        /\ (2 * k - 1) % 2 = 1 /\ (2 * k) % 2 = 0
        /\ ((2 * k - 1) + 1) \div 2 = k /\ (2 * k) \div 2 = k
    OBVIOUS
  <2> QED BY <2>1, <1>2
<1> QED BY <1>3, <1>4 DEF t

LEMMA PlaceOf ==
    ASSUME NEW j \in 1 .. 14
    PROVE  \E i \in 1 .. 7 : j = 2 * i - 1 \/ j = 2 * i
<1>1. CASE j % 2 = 0
  <2>1. j \div 2 \in 1 .. 7 /\ j = 2 * (j \div 2)
    BY <1>1
  <2> QED BY <2>1
<1>2. CASE j % 2 # 0
  <2>1. (j + 1) \div 2 \in 1 .. 7 /\ j = 2 * ((j + 1) \div 2) - 1
    BY <1>2
  <2> QED BY <2>1
<1> QED BY <1>1, <1>2

LEMMA SpellingsAre ==
    ASSUME NEW n \in 0 .. LastInstant
    PROVE  \A j \in 1 .. 14 : Spelling(RenderTime(n)[j]) \in Seq(Int)
<1> DEFINE t == RenderTime(n)
<1>1. \A i \in 1 .. 7 : /\ t[2 * i - 1] = Number(Fields(n)[i], Widths[i])
                        /\ t[2 * i] = Letter(Literals[i])
  BY RenderedSymbols
<1> HIDE DEF t
<1>2. ASSUME NEW j \in 1 .. 14 PROVE Spelling(t[j]) \in Seq(Int)
  <2>1. PICK i \in 1 .. 7 : j = 2 * i - 1 \/ j = 2 * i
    BY PlaceOf
  <2>2. CASE j = 2 * i - 1
    BY <2>2, <1>1, FieldsFit, SpellingIs
  <2>3. CASE j = 2 * i
    <3>1. Literals[i] \in {"-", "T", ":", ".", "Z"}
      BY DEF Literals
    <3> QED BY <2>3, <3>1, <1>1, SpellingIs
  <2> QED BY <2>1, <2>2, <2>3
<1> QED BY <1>2 DEF t

LEMMA TimesInOrder ==
    ASSUME NEW m \in 0 .. LastInstant, NEW n \in 0 .. LastInstant, m < n
    PROVE  Below(Characters(RenderTime(m)), Characters(RenderTime(n)))
<1> DEFINE t == RenderTime(m)
           u == RenderTime(n)
<1>1. PICK k \in 1 .. 7 : /\ Fields(m)[k] < Fields(n)[k]
                          /\ \A i \in 1 .. k - 1 : Fields(m)[i] = Fields(n)[i]
  BY FieldsInOrder
<1>2. /\ Len(t) = 14 /\ Len(u) = 14
      /\ \A i \in 1 .. 7 : /\ t[2 * i - 1] = Number(Fields(m)[i], Widths[i])
                           /\ u[2 * i - 1] = Number(Fields(n)[i], Widths[i])
                           /\ t[2 * i] = Letter(Literals[i]) /\ u[2 * i] = Letter(Literals[i])
  BY RenderedSymbols
<1> HIDE DEF t, u
<1>3. \A j \in 1 .. 14 : Spelling(t[j]) \in Seq(Int) /\ Spelling(u[j]) \in Seq(Int)
  BY SpellingsAre DEF t, u
<1>5. Below(Spelling(t[2 * k - 1]), Spelling(u[2 * k - 1]))
  <2>1. /\ Widths[k] \in Nat /\ Fields(m)[k] \in Nat /\ Fields(n)[k] \in Nat
        /\ Fields(n)[k] < PowerOfTen[Widths[k]]
    BY FieldsFit
  <2>2. Below(Spelling(Number(Fields(m)[k], Widths[k])), Spelling(Number(Fields(n)[k], Widths[k])))
    BY <1>1, <2>1, DigitsInOrder
  <2> QED BY <1>2, <2>2
<1>6. ASSUME NEW j \in 1 .. (2 * k - 1) - 1 PROVE t[j] = u[j]
  <2>1. j \in 1 .. 14
    OBVIOUS
  <2>2. PICK i \in 1 .. 7 : j = 2 * i - 1 \/ j = 2 * i
    BY <2>1, PlaceOf
  <2>3. i \in 1 .. k - 1
    BY <2>2
  <2>4. Fields(m)[i] = Fields(n)[i]
    BY <1>1, <2>3
  <2> QED BY <1>2, <2>2, <2>4
<1>7. 2 * k - 1 \in 1 .. 14
  OBVIOUS
<1> DEFINE p == 2 * k - 1
<1> HIDE DEF p
<1>8. p \in 1 .. 14 /\ Below(Spelling(t[p]), Spelling(u[p])) /\ \A j \in 1 .. p - 1 : t[j] = u[j]
  BY <1>5, <1>6, <1>7 DEF p
<1>9. Below(Characters(t), Characters(u))
  BY <1>2, <1>3, <1>8, CharactersBelow
<1> QED BY <1>9 DEF t, u

LEMMA CharactersAre ==
    ASSUME NEW n \in 0 .. LastInstant
    PROVE  Characters(RenderTime(n)) \in Seq(Int)
<1> DEFINE t == RenderTime(n)
           T == CharactersTo(t)
           S == {j \in Nat : j <= 14 => T[j] \in Seq(Int)}
<1>1. Len(t) = 14 /\ \A j \in 1 .. 14 : Spelling(t[j]) \in Seq(Int)
  BY RenderedSymbols, SpellingsAre
<1> HIDE DEF t
<1>2. /\ T[0] = <<>> /\ Characters(t) = T[14]
      /\ \A j \in 1 .. 14 : T[j] = T[j - 1] \o Spelling(t[j])
  <2>1. Len(t) \in Nat
    BY <1>1
  <2>2. /\ T[0] = <<>> /\ Characters(t) = T[Len(t)]
        /\ \A j \in 1 .. Len(t) : T[j] = T[j - 1] \o Spelling(t[j])
    BY <2>1, CharactersAdd
  <2> HIDE DEF T
  <2> QED BY <1>1, <2>2
<1> HIDE DEF T
<1>3. 0 \in S
  <2>1. T[0] \in Seq(Int)
    BY <1>2
  <2> QED BY <2>1
<1>4. ASSUME NEW j \in S PROVE j + 1 \in S
  <2> SUFFICES ASSUME j + 1 <= 14 PROVE T[j + 1] \in Seq(Int)
    OBVIOUS
  <2>1. j + 1 \in 1 .. 14 /\ (j + 1) - 1 = j /\ j <= 14
    OBVIOUS
  <2>2. T[j] \in Seq(Int) /\ Spelling(t[j + 1]) \in Seq(Int)
    BY <1>1, <2>1
  <2>3. T[j + 1] = T[j] \o Spelling(t[j + 1])
    BY <1>2, <2>1
  <2> QED BY <2>2, <2>3, ConcatProperties
<1>5. S \in SUBSET Nat
  OBVIOUS
<1>6. 14 \in S
  <2> HIDE DEF S
  <2> QED BY <1>3, <1>4, <1>5, Order!EveryNatural
<1>7. T[14] \in Seq(Int)
  BY <1>6
<1> QED BY <1>2, <1>7 DEF t

(* One sequence is below another, above it or the same: no two of these.   *)
LEMMA BelowPrecedes ==
    ASSUME NEW a \in Seq(Int), NEW b \in Seq(Int), Below(a, b)
    PROVE  Precedes(a, b) /\ ~ Precedes(b, a) /\ a # b
<1>1. PICK i \in DOMAIN a \cap DOMAIN b : a[i] < b[i] /\ \A j \in 1 .. i - 1 : a[j] = b[j]
  BY DEF Below
<1>2. i \in 1 .. Len(a) /\ i \in 1 .. Len(b) /\ i \in Nat /\ a[i] \in Int /\ b[i] \in Int
  BY <1>1
<1>3. a[i] # b[i]
  BY <1>1, <1>2
<1>4. ~ IsStrictPrefix(b, a)
  <2> SUFFICES ASSUME IsPrefix(b, a) PROVE FALSE
    BY DEF IsStrictPrefix
  <2>1. Len(b) <= Len(a) /\ SubSeq(b, 1, Len(b)) = SubSeq(a, 1, Len(b))
    BY DEF IsPrefix
  <2>2. SubSeq(b, 1, Len(b))[i] = b[i] /\ SubSeq(a, 1, Len(b))[i] = a[i]
    BY <1>2, <2>1
  <2> QED BY <1>3, <2>1, <2>2
<1>5. ASSUME NEW h \in DOMAIN b \cap DOMAIN a, b[h] < a[h], \A j \in 1 .. h - 1 : b[j] = a[j]
      PROVE  FALSE
  <2>1. h \in 1 .. Len(a) /\ h \in Nat /\ h # 0 /\ a[h] \in Int /\ b[h] \in Int
    OBVIOUS
  <2>2. a[h] # b[h]
    BY <1>5, <2>1
  <2>3. ~ (h \in 1 .. i - 1)
    BY <1>1, <2>2
  <2>4. ~ (i \in 1 .. h - 1)
    BY <1>3, <1>5
  <2>5. h = i
    BY <1>2, <2>1, <2>3, <2>4
  <2> QED BY <1>1, <1>2, <1>5, <2>5
<1>6. Precedes(a, b)
  BY <1>1 DEF Precedes
<1>7. ~ Precedes(b, a)
  BY <1>4, <1>5 DEF Precedes
<1> QED BY <1>3, <1>6, <1>7

LEMMA NotBeforeItself ==
    ASSUME NEW a \in Seq(Int)
    PROVE  ~ Precedes(a, a)
<1>1. ~ IsStrictPrefix(a, a)
  BY DEF IsStrictPrefix
<1>2. \A i \in DOMAIN a : ~ (a[i] < a[i])
  <2> SUFFICES ASSUME NEW i \in DOMAIN a PROVE ~ (a[i] < a[i])
    OBVIOUS
  <2>1. a[i] \in Int
    OBVIOUS
  <2> QED BY <2>1
<1> QED BY <1>1, <1>2 DEF Precedes

(* checkpoint_time: what sorts and compares the texts sorts and compares   *)
(* the instants, for every calendar whose fields fit their widths.         *)
THEOREM TimesSortAsTexts == TextSpec => []OrderedAsText
<1>1. OrderedAsText
  <2> SUFFICES ASSUME NEW time \in ParseCheckpointTime(text, FALSE), NEW n \in Landmarks
               PROVE  LET c == Characters(text)
                      IN  /\ Precedes(c, LandmarkTexts[n]) <=> time < n
                          /\ c = LandmarkTexts[n] <=> time = n
    BY DEF OrderedAsText
  <2> DEFINE c == Characters(RenderTime(time))
             d == Characters(RenderTime(n))
  <2>1. time \in 0 .. LastInstant /\ RenderTime(time) = text
    BY DEF ParseCheckpointTime
  <2>2. n \in 0 .. LastInstant /\ LastInstant \in Nat
    BY CalendarAssumption
  <2>3. c \in Seq(Int) /\ d \in Seq(Int)
    BY <2>1, <2>2, CharactersAre
  <2>4. Characters(text) = c /\ LandmarkTexts[n] = d
    BY <2>1 DEF LandmarkTexts
  <2>5. time < n => Below(c, d)
    BY <2>1, <2>2, TimesInOrder
  <2>6. n < time => Below(d, c)
    BY <2>1, <2>2, TimesInOrder
  <2>7. time = n => c = d
    OBVIOUS
  <2>8. time < n \/ time = n \/ n < time
    BY <2>1, <2>2
  <2>9. ~ (time < n /\ n < time) /\ ~ (time < time)
    BY <2>1, <2>2
  <2> HIDE DEF c, d
  <2>10. /\ Precedes(c, d) <=> time < n
         /\ c = d <=> time = n
    <3>1. CASE time < n
      BY <3>1, <2>1, <2>2, <2>3, <2>5, BelowPrecedes
    <3>2. CASE n < time
      <4>1. ~ Precedes(c, d) /\ c # d
        BY <3>2, <2>3, <2>6, BelowPrecedes
      <4> QED BY <3>2, <4>1, <2>1, <2>2
    <3>3. CASE time = n
      <4>1. c = d /\ ~ Precedes(c, d)
        BY <3>3, <2>3, <2>7, NotBeforeItself
      <4> QED BY <3>3, <4>1, <2>9
    <3> QED BY <2>8, <3>1, <3>2, <3>3
  <2> QED BY <2>4, <2>10
<1> QED BY <1>1, PTL
=============================================================================
