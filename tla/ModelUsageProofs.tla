-------------------------- MODULE ModelUsageProofs ---------------------------
(***************************************************************************)
(* Proofs about ModelUsage and the functions of Billing, for every width   *)
(* of the quantities, set of evidence, tokens, reports and dates, and      *)
(* every bound: utc_period names the calendar's month on every day from    *)
(* 1970 on, and the metered tokens are in the month they were used in.     *)
(***************************************************************************)
EXTENDS ModelUsage, FiniteSetTheorems, TLAPS

-----------------------------------------------------------------------------
(* The calendar.                                                            *)

(* A month has 28 to 31 days, and the next begins when it is over.          *)
LEMMA MonthLengths ==
    ASSUME NEW year \in Nat, NEW month \in 1 .. 12
    PROVE  /\ DaysIn(year, month) \in 28 .. 31
           /\ DaysBefore(year, month) \in Nat
           /\ \A next \in 1 .. 12 : next = month + 1 =>
                 DaysBefore(year, next) = DaysBefore(year, month) + DaysIn(year, month)
           /\ month = 12 => DaysIn(year, month) = 31
           /\ DaysBefore(year, 1) = 0
           /\ DaysBefore(year, 12) = 334 + (IF Leap(year) THEN 1 ELSE 0)
<1>1. month \in {1, 2, 3, 4, 5, 6, 7, 8, 9, 10, 11, 12}
  OBVIOUS
<1> QED
  BY <1>1 DEF DaysIn, DaysBefore

(* A year after a leap year has one more before it.                         *)
LEMMA LeapYears ==
    ASSUME NEW year \in Nat, year >= 1970
    PROVE  /\ LeapsBefore(year) \in Int
           /\ LeapsBefore(year + 1) = LeapsBefore(year) + (IF Leap(year) THEN 1 ELSE 0)
           /\ LeapsBefore(year) >= LeapsBefore(1970)
BY DEF LeapsBefore, Leap

(* Dates and their parts.                                                   *)
LEMMA DateParts ==
    ASSUME NEW d \in Dates
    PROVE  /\ d.year \in Nat /\ d.year >= 1970
           /\ d.month \in 1 .. 12
           /\ d.day \in 1 .. 31 /\ d.day <= DaysIn(d.year, d.month)
           /\ d = [year |-> d.year, month |-> d.month, day |-> d.day]
BY DEF Dates

(* Days are counted from 1970-01-01, and the date after a date has the next *)
(* number.                                                                  *)
LEMMA DaysAreNumbered ==
    ASSUME NEW d \in Dates
    PROVE  /\ DayNumber(d) \in Nat
           /\ DayAfter(d) \in Dates
           /\ DayNumber(DayAfter(d)) = DayNumber(d) + 1
<1>0. PICK y \in Nat, m \in 1 .. 12, day_of \in 1 .. 31 :
         /\ d = [year |-> y, month |-> m, day |-> day_of]
         /\ y >= 1970
         /\ day_of <= DaysIn(y, m)
  BY DateParts
<1>1. LeapsBefore(y) \in Int
  BY <1>0, LeapYears
<1>2. LeapsBefore(1970) \in Int
  BY LeapYears
<1>3. LeapsBefore(y) >= LeapsBefore(1970)
  BY <1>0, LeapYears
<1>4. DaysIn(y, m) \in 28 .. 31
  BY MonthLengths
<1>5. DaysBefore(y, m) \in Nat
  BY MonthLengths
<1>6. DayNumber(d) = 365 * (y - 1970) + LeapsBefore(y) - LeapsBefore(1970) + DaysBefore(y, m) + day_of - 1
  BY <1>0 DEF DayNumber
<1>7. DayNumber(d) \in Nat
  BY <1>0, <1>1, <1>2, <1>3, <1>5, <1>6
<1>8. CASE day_of < DaysIn(y, m)
  <2>1. DayAfter(d) = [year |-> y, month |-> m, day |-> day_of + 1]
    BY <1>0, <1>8 DEF DayAfter
  <2>2. day_of + 1 \in 1 .. 31 /\ day_of + 1 <= DaysIn(y, m)
    BY <1>4, <1>8
  <2>3. DayAfter(d) \in Dates
    BY <1>0, <2>1, <2>2 DEF Dates
  <2>4. DayNumber(DayAfter(d)) = 365 * (y - 1970) + LeapsBefore(y) - LeapsBefore(1970)
                                 + DaysBefore(y, m) + (day_of + 1) - 1
    BY <2>1 DEF DayNumber
  <2> QED
    BY <1>1, <1>2, <1>5, <1>6, <1>7, <2>3, <2>4
<1>9. CASE ~(day_of < DaysIn(y, m)) /\ m < 12
  <2>1. DayAfter(d) = [year |-> y, month |-> m + 1, day |-> 1]
    BY <1>0, <1>9 DEF DayAfter
  <2>2. m + 1 \in 1 .. 12
    BY <1>9
  <2>3. DaysIn(y, m + 1) \in 28 .. 31
    BY <2>2, MonthLengths
  <2>4. DaysBefore(y, m + 1) = DaysBefore(y, m) + DaysIn(y, m)
    BY <2>2, MonthLengths, ZenonT(30)
  <2>5. DayAfter(d) \in Dates
    BY <1>0, <2>1, <2>2, <2>3 DEF Dates
  <2>6. DayNumber(DayAfter(d)) = 365 * (y - 1970) + LeapsBefore(y) - LeapsBefore(1970)
                                 + DaysBefore(y, m + 1) + 1 - 1
    BY <2>1 DEF DayNumber
  <2>7. day_of = DaysIn(y, m)
    BY <1>0, <1>4, <1>9
  <2>8. DayNumber(DayAfter(d)) = DayNumber(d) + 1
    BY <1>1, <1>2, <1>4, <1>5, <1>6, <2>4, <2>6, <2>7
  <2> QED
    BY <1>7, <2>5, <2>8
<1>10. CASE ~(day_of < DaysIn(y, m)) /\ ~(m < 12)
  <2>1. DayAfter(d) = [year |-> y + 1, month |-> 1, day |-> 1]
    BY <1>0, <1>10 DEF DayAfter
  <2>2. m = 12
    BY <1>10
  <2>3. day_of = 31
    BY <1>0, <1>4, <1>10, <2>2, MonthLengths
  <2>4. DaysIn(y + 1, 1) \in 28 .. 31
    BY MonthLengths
  <2>5. DaysBefore(y + 1, 1) = 0
    BY MonthLengths
  <2>6. DayAfter(d) \in Dates
    BY <1>0, <2>1, <2>4 DEF Dates
  <2>7. DayNumber(DayAfter(d)) = 365 * (y + 1 - 1970) + LeapsBefore(y + 1) - LeapsBefore(1970)
                                 + DaysBefore(y + 1, 1) + 1 - 1
    BY <2>1 DEF DayNumber
  <2>8. DaysBefore(y, 12) = 334 + (IF Leap(y) THEN 1 ELSE 0)
    BY MonthLengths
  <2>9. LeapsBefore(y + 1) = LeapsBefore(y) + (IF Leap(y) THEN 1 ELSE 0)
    BY <1>0, LeapYears
  <2>10. DayNumber(DayAfter(d)) = DayNumber(d) + 1
    BY <1>1, <1>2, <1>6, <2>2, <2>3, <2>5, <2>7, <2>8, <2>9
  <2> QED
    BY <1>7, <2>6, <2>10
<1> QED
  BY <1>8, <1>9, <1>10

(* utc_period counts in years that begin in March, so that the leap day is  *)
(* their last.  MarchMonth and MarchYear are those of a date.               *)
MarchMonth(month) == IF month > 2 THEN month - 3 ELSE month + 9
MarchYear(year, month) == IF month > 2 THEN year ELSE year - 1

(* Months before a month have 30.6 days on the average: 153 in five.        *)
LEMMA MonthOfDay ==
    ASSUME NEW year \in Nat, NEW month \in 1 .. 12, NEW d \in 1 .. DaysIn(year, month),
           NEW of_year \in Int, of_year = (153 * MarchMonth(month) + 2) \div 5 + d - 1
    PROVE  /\ (5 * of_year + 2) \div 153 = MarchMonth(month)
           /\ of_year >= 0 /\ of_year <= 365
           /\ of_year = 365 => Leap(year) /\ month = 2
<1>1. month \in {1, 2, 3, 4, 5, 6, 7, 8, 9, 10, 11, 12}
  OBVIOUS
<1> QED
  BY <1>1 DEF DaysIn, MarchMonth

(* A day of an era of 400 such years, and the year of the era it falls in:  *)
(* the leap day is there only in the years before a leap year.              *)
DaysOfEra == {e \in Nat : e <= 146096}
EraDay(y, d) == d + 365 * y + y \div 4 - y \div 100

LEMMA YearOfDay ==
    ASSUME NEW y \in 0 .. 399, NEW d \in 0 .. 365, d = 365 => Leap(y + 1)
    PROVE  /\ EraDay(y, d) \in DaysOfEra
           /\ EraYear(EraDay(y, d)) = y
<1>1. d = 365 => ((y + 1) % 4 = 0 /\ ((y + 1) % 100 # 0 \/ (y + 1) % 400 = 0))
  BY SMT DEF Leap
<1>2. EraDay(y, d) \in Nat
  BY SMT DEF EraDay
<1>3. PICK e \in Nat : e = EraDay(y, d)
  BY <1>2, SMT
<1>4. e = d + 365 * y + y \div 4 - y \div 100
  BY <1>3, SMT DEF EraDay
<1>5. e <= 146096
  BY <1>1, <1>4, SMTT(100)
<1>6. (e - e \div 1460 + e \div 36524 - e \div 146096) \div 365 = y
  BY <1>1, <1>4, SMTT(100)
<1>7. EraYear(e) = y
  BY <1>6, SMT DEF EraYear
<1>8. e \in DaysOfEra
  BY <1>3, <1>5, SMT DEF DaysOfEra
<1> QED
  BY <1>3, <1>7, <1>8, Zenon

(* utc_period on the day of a date is the year and the month of that date,  *)
(* from 1970-01-01 on, leap years, ends of centuries and of the cycle of    *)
(* 400 years included: usage is filed under the month of the calendar.      *)
THEOREM UtcPeriodIsCalendarMonth ==
    ASSUME NEW d \in Dates
    PROVE  UtcPeriod(DayNumber(d)) = Month(d)
<1>0. PICK y \in Nat, m \in 1 .. 12, day_of \in 1 .. 31 :
         /\ d.year = y /\ d.month = m /\ d.day = day_of
         /\ y >= 1970
         /\ day_of <= DaysIn(y, m)
  BY DateParts
<1> DEFINE mm == MarchMonth(m)
           doy == (153 * mm + 2) \div 5 + day_of - 1
<1>1. mm \in 0 .. 11
  BY <1>0 DEF MarchMonth
<1>2. doy \in Int
  BY <1>1
<1>3. mm = MarchMonth(m) /\ doy = (153 * MarchMonth(m) + 2) \div 5 + day_of - 1
  OBVIOUS
<1>4. day_of \in 1 .. DaysIn(y, m)
  <2>1. DaysIn(y, m) \in 28 .. 31
    BY MonthLengths
  <2> QED
    BY <1>0, <2>1
<1> HIDE DEF doy, mm
<1>5. (5 * doy + 2) \div 153 = mm
  BY <1>2, <1>3, <1>4, MonthOfDay
<1>6. doy \in 0 .. 365
  <2>1. doy >= 0 /\ doy <= 365
    BY <1>2, <1>3, <1>4, MonthOfDay, Z3
  <2> QED
    BY <1>2, <2>1
<1>7. doy = 365 => Leap(y) /\ m = 2
  BY <1>2, <1>3, <1>4, MonthOfDay
<1> DEFINE my == MarchYear(y, m)
           era == my \div 400
           yoe == my % 400
<1>8. my \in Nat /\ (m > 2 => y = my) /\ (~(m > 2) => y = my + 1)
  BY <1>0 DEF MarchYear
<1> HIDE DEF my
<1>9. era \in Nat /\ yoe \in 0 .. 399 /\ my = 400 * era + yoe
  BY <1>8
<1> HIDE DEF era, yoe
<1>10. doy = 365 => Leap(yoe + 1)
  <2>1. y = my + 1 /\ Leap(y) => Leap(yoe + 1)
    BY <1>8, <1>9 DEF Leap
  <2> QED
    BY <1>7, <1>8, <2>1
<1>11. EraDay(yoe, doy) \in DaysOfEra /\ EraYear(EraDay(yoe, doy)) = yoe
  BY <1>6, <1>9, <1>10, YearOfDay
<1>12. DayNumber(d) = 365 * (y - 1970) + LeapsBefore(y) - LeapsBefore(1970) + DaysBefore(y, m) + day_of - 1
  BY <1>0 DEF DayNumber
<1>13. DayNumber(d) + 719468 = era * 146097 + EraDay(yoe, doy)
  <2>1. m \in {1, 2, 3, 4, 5, 6, 7, 8, 9, 10, 11, 12}
    OBVIOUS
  <2>2. LeapsBefore(y) = (y - 1) \div 4 - (y - 1) \div 100 + (y - 1) \div 400
    BY SMT DEF LeapsBefore
  <2>3. LeapsBefore(1970) = 477
    BY SMT DEF LeapsBefore
  <2> DEFINE leaps == y \div 4 - y \div 100 + y \div 400
             earlier == (y - 1) \div 4 - (y - 1) \div 100 + (y - 1) \div 400
             leap == IF Leap(y) THEN 1 ELSE 0
  <2>4. leaps \in Int /\ earlier \in Int /\ leap \in Int /\ leaps = earlier + leap
    BY SMT DEF Leap
  <2>5. my \div 4 - my \div 100 + my \div 400 = 97 * era + yoe \div 4 - yoe \div 100
    BY <1>8, <1>9, SMT
  <2>6. EraDay(yoe, doy) = doy + 365 * yoe + yoe \div 4 - yoe \div 100
    BY SMT DEF EraDay
  <2>7. DaysBefore(y, m) = IF m > 2 THEN (153 * mm + 2) \div 5 + 59 + leap
                           ELSE (153 * mm + 2) \div 5 - 306
    BY <1>3, <2>1, SMT DEF MarchMonth, DaysBefore
  <2>8. m > 2 => my = y
    BY <1>8
  <2>9. ~(m > 2) => my = y - 1
    BY <1>8
  <2> DEFINE cycle == yoe \div 4 - yoe \div 100
             before == (153 * mm + 2) \div 5
  <2>10. cycle \in Int /\ before \in Int
    BY <1>1, <1>9, SMT
  <2>11. EraDay(yoe, doy) = doy + 365 * yoe + cycle
    BY <2>6
  <2>12. doy = before + day_of - 1
    BY <1>3
  <2>13. CASE m > 2
    <3>1. leaps = 97 * era + cycle
      BY <2>5, <2>8, <2>13
    <3>2. DaysBefore(y, m) = before + 59 + leap
      BY <2>7, <2>13
    <3>3. y = 400 * era + yoe
      BY <1>9, <2>8, <2>13
    <3> HIDE DEF leaps, earlier, leap, cycle, before
    <3> QED
      BY <1>9, <1>12, <2>2, <2>3, <2>4, <2>10, <2>11, <2>12, <3>1, <3>2, <3>3, SMT DEF earlier
  <2>14. CASE ~(m > 2)
    <3>1. earlier = 97 * era + cycle
      BY <2>5, <2>9, <2>14
    <3>2. DaysBefore(y, m) = before - 306
      BY <2>7, <2>14
    <3>3. y = 400 * era + yoe + 1
      BY <1>8, <1>9, <2>9, <2>14
    <3> HIDE DEF leaps, earlier, leap, cycle, before
    <3> QED
      BY <1>9, <1>12, <2>2, <2>3, <2>4, <2>10, <2>11, <2>12, <3>1, <3>2, <3>3, SMT DEF earlier
  <2> QED
    BY <2>13, <2>14
<1>14. PICK e \in Nat : e = EraDay(yoe, doy) /\ e <= 146096
  BY <1>11, SMT DEF DaysOfEra
<1>15. PICK shifted \in Nat : shifted = era * 146097 + e
  <2>1. era * 146097 + e \in Nat
    BY <1>9, <1>14, SMT
  <2> QED
    BY <2>1, SMT
<1>16. DayNumber(d) + 719468 = shifted
  BY <1>13, <1>14, <1>15, SMT
<1>17. shifted \div 146097 = era
  <2>1. era \in Int /\ e \in Int /\ 0 <= e /\ e < 146097
    BY <1>9, <1>14, SMT
  <2>2. \A er, of_era \in Int :
           0 <= of_era /\ of_era < 146097 => (er * 146097 + of_era) \div 146097 = er
    BY SMTT(60)
  <2> QED
    BY <1>15, <2>1, <2>2, SMT
<1>18. shifted - era * 146097 = e
  BY <1>9, <1>14, <1>15, SMT
<1>19. EraYear(e) = yoe
  BY <1>11, <1>14, SMT
<1>20. DayOfYear(e) = doy
  <2>1. e - (365 * yoe + yoe \div 4 - yoe \div 100) = doy
    BY <1>6, <1>9, <1>14, SMT DEF EraDay
  <2> QED
    BY <1>19, <2>1, SMT DEF DayOfYear
<1>21. MonthOf(doy) = m
  <2>1. m = IF mm < 10 THEN mm + 3 ELSE mm - 9
    BY <1>3, SMT DEF MarchMonth
  <2> QED
    BY <1>5, <2>1, SMT DEF MonthOf
<1>22. yoe + era * 400 + (IF m <= 2 THEN 1 ELSE 0) = y
  BY <1>8, <1>9, SMT
<1>23. PeriodOf(era, e) = <<y, m>>
  BY <1>19, <1>20, <1>21, <1>22, SMT DEF PeriodOf
<1>24. UtcPeriod(DayNumber(d)) = PeriodOf(era, e)
  BY <1>16, <1>17, <1>18, SMT DEF UtcPeriod
<1> QED
  BY <1>0, <1>23, <1>24, SMT DEF Month

-----------------------------------------------------------------------------
(* Units, counted.                                                          *)
LEMMA UnitsElement ==
    ASSUME NEW S, NEW f, NEW u
    PROVE  u \in Units(S, f) <=> \E e \in S : u \in {e} \X (1 .. f[e])
BY DEF Units

LEMMA UnitsSame ==
    ASSUME NEW S, NEW f, NEW g, \A e \in S : f[e] = g[e]
    PROVE  Units(S, f) = Units(S, g)
<1>1. \A u : u \in Units(S, f) <=> u \in Units(S, g)
  BY UnitsElement
<1> QED
  BY <1>1

LEMMA UnitsFinite ==
    ASSUME NEW S, IsFiniteSet(S), NEW f, \A e \in S : f[e] \in Nat
    PROVE  IsFiniteSet(Units(S, f)) /\ Cardinality(Units(S, f)) \in Nat
<1> DEFINE part(e) == {e} \X (1 .. f[e])
           parts == {part(e) : e \in S}
<1>1. \A e \in S : IsFiniteSet(part(e))
  <2> TAKE e \in S
  <2>1. IsFiniteSet({e})
    BY FS_Singleton
  <2>2. f[e] \in Int
    OBVIOUS
  <2>3. IsFiniteSet(1 .. f[e])
    BY <2>2, FS_Interval
  <2> QED
    BY <2>1, <2>3, FS_Product
<1>2. IsFiniteSet(parts)
  <2> DEFINE onto == [e \in S |-> part(e)]
  <2> HIDE DEF part
  <2>1. onto \in Surjection(S, parts)
    BY DEF Surjection
  <2> HIDE DEF onto, parts
  <2> QED
    BY <2>1, FS_Surjection
<1>3. \A T \in parts : IsFiniteSet(T)
  BY <1>1
<1>4. Units(S, f) = UNION parts
  BY DEF Units
<1> HIDE DEF parts
<1> QED
  BY <1>2, <1>3, <1>4, FS_UNION, FS_CardinalityType

LEMMA FirstCounted ==
    ASSUME NEW n \in Nat
    PROVE  IsFiniteSet(1 .. n) /\ Cardinality(1 .. n) = n
<1>1. 1 \in Int /\ n \in Int
  OBVIOUS
<1>2. IsFiniteSet(1 .. n) /\ Cardinality(1 .. n) = IF 1 > n THEN 0 ELSE n - 1 + 1
  BY <1>1, FS_Interval, Zenon
<1> QED
  BY <1>2

LEMMA UnitsAdded ==
    ASSUME NEW S, IsFiniteSet(S), NEW f, NEW i, i \notin S, \A e \in S \cup {i} : f[e] \in Nat
    PROVE  Cardinality(Units(S \cup {i}, f)) = Cardinality(Units(S, f)) + f[i]
<1> DEFINE part == {i} \X (1 .. f[i])
<1>1. Units(S \cup {i}, f) = Units(S, f) \cup part
  <2>1. \A u : u \in Units(S \cup {i}, f) <=> u \in Units(S, f) \cup part
    BY UnitsElement
  <2> QED
    BY <2>1
<1>2. Units(S, f) \cap part = {}
  <2>1. \A u \in Units(S, f) : u \notin part
    <3> TAKE u \in Units(S, f)
    <3>1. PICK e \in S : u \in {e} \X (1 .. f[e])
      BY UnitsElement
    <3>2. u[1] = e
      BY <3>1
    <3>3. u \in part => u[1] = i
      OBVIOUS
    <3> QED
      BY <3>2, <3>3
  <2> QED
    BY <2>1
<1>3. IsFiniteSet(part) /\ Cardinality(part) = f[i]
  <2>1. f[i] \in Nat
    OBVIOUS
  <2>2. IsFiniteSet({i}) /\ Cardinality({i}) = 1
    BY FS_Singleton
  <2>3. IsFiniteSet(1 .. f[i]) /\ Cardinality(1 .. f[i]) = f[i]
    BY <2>1, FirstCounted
  <2>4. IsFiniteSet(part) /\ Cardinality(part) = Cardinality({i}) * Cardinality(1 .. f[i])
    BY <2>2, <2>3, FS_Product
  <2> QED
    BY <2>1, <2>2, <2>3, <2>4
<1>4. IsFiniteSet(Units(S, f)) /\ Cardinality(Units(S, f)) \in Nat
  BY UnitsFinite
<1>5. Cardinality({}) = 0
  BY FS_EmptySet
<1> HIDE DEF part
<1>6. Cardinality(Units(S, f) \cup part) = Cardinality(Units(S, f)) + Cardinality(part) - Cardinality({})
  BY <1>2, <1>3, <1>4, FS_Union
<1> QED
  <2>1. PICK n \in Nat, k \in Nat : n = f[i] /\ k = Cardinality(Units(S, f))
    BY <1>4
  <2>2. Cardinality(Units(S \cup {i}, f)) = k + n - 0
    BY <1>1, <1>3, <1>5, <1>6, <2>1
  <2> QED
    BY <2>1, <2>2

(* As many units as elements, one or none of each: one of each.             *)
LEMMA UnitsOfOnes ==
    ASSUME NEW S, IsFiniteSet(S), NEW f, \A e \in S : f[e] \in {0, 1}
    PROVE  Cardinality(Units(S, f)) = Cardinality(S) <=> \A e \in S : f[e] > 0
<1> DEFINE ones == {e \in S : f[e] = 1}
<1>1. Units(S, f) = ones \X {1}
  <2>1. \A u : u \in Units(S, f) <=> u \in ones \X {1}
    <3> TAKE u
    <3>1. \A e \in S : f[e] = 1 => 1 .. f[e] = {1}
      OBVIOUS
    <3>2. \A e \in S : f[e] # 1 => 1 .. f[e] = {}
      OBVIOUS
    <3>3. \A e \in S : u \in {e} \X (1 .. f[e]) <=> f[e] = 1 /\ u = <<e, 1>>
      BY <3>1, <3>2
    <3> QED
      BY <3>3, UnitsElement
  <2> QED
    BY <2>1
<1>2. IsFiniteSet(ones) /\ Cardinality(ones) \in Nat
  BY FS_Subset, FS_CardinalityType
<1>3. Cardinality(Units(S, f)) = Cardinality(ones)
  <2>1. IsFiniteSet({1}) /\ Cardinality({1}) = 1
    BY FS_Singleton
  <2> HIDE DEF ones
  <2>2. Cardinality(ones \X {1}) = Cardinality(ones) * 1
    BY <1>2, <2>1, FS_Product
  <2> QED
    BY <1>1, <1>2, <2>2
<1>4. Cardinality(ones) = Cardinality(S) <=> ones = S
  BY FS_Subset
<1>5. ones = S <=> \A e \in S : f[e] > 0
  OBVIOUS
<1> QED
  BY <1>3, <1>4, <1>5

LEMMA ModPlus ==
    ASSUME NEW W \in Int, W > 0, NEW x \in Int, NEW y \in Int
    PROVE  ((x % W) + y) % W = (x + y) % W
BY Z3

-----------------------------------------------------------------------------
(* The calls and the types.                                                 *)

(* What a call has been through at each of its stages.                      *)
CallInv(call, from) ==
    /\ call.stage = "asked" => call.tokens = Unread
    /\ call.stage \in {"answered", "observed", "charged", "ok"} =>
          call.tokens # Unread /\ (from = "remote" => call.billed)
    /\ call.stage \in {"observed", "charged", "ok"} => call.observed
    /\ call.stage \in {"asked", "answered", "observed"} => call.period = NoMonth
    /\ call.stage \in {"charged", "ok"} => call.period # NoMonth
    /\ call.period # NoMonth =>
          call.observed /\ call.tokens # Unread /\ (from = "remote" => call.billed)
    /\ call.stage \in {"failed", "gone"} /\ call.tokens # Unread => call.period # NoMonth \/ call.hit
    /\ call.month = call.period

CallsInv == \A i \in DOMAIN calls : CallInv(calls[i], provider)

IInv == TypeOK /\ CallsInv

LEMMA WordPositive == Word \in Nat /\ Word > 0 /\ Word \div 2 \in Nat
BY WordAssumption, SMT

LEMMA NoMonthApart == NoMonth \notin Months
BY MonthAssumption DEF NoMonth

LEMMA TokensRead == \A tokens \in Tokens : tokens # Unread /\ tokens \in Nat
BY QuantityAssumption, WordPositive DEF Unread

(* Usage is filed under the month of the calendar.                          *)
LEMMA PeriodOfTheClock ==
    ASSUME TypeOK
    PROVE  UtcPeriod(day) = Month(date) /\ UtcPeriod(day) \in Months
<1>1. date \in Dates /\ Month(date) \in Months /\ day = DayNumber(date)
  BY DEF TypeOK
<1> QED
  BY <1>1, UtcPeriodIsCalendarMonth

LEMMA PlusType ==
    ASSUME NEW total \in Int, NEW quantity \in Int
    PROVE  Plus(total, quantity) \in Quantity
<1>1. (total + quantity) % Word \in 0 .. Word - 1
  BY WordPositive
<1> QED
  BY <1>1 DEF Plus, Quantity

LEMMA LedgerGrows ==
    ASSUME NEW entries \in Ledger, NEW kind \in Kind, NEW month \in Months, NEW quantity \in Int
    PROVE  [entries EXCEPT ![<<kind, month>>] = Plus(@, quantity)] \in Ledger
<1>1. entries[<<kind, month>>] \in Quantity
  BY DEF Ledger
<1>2. Plus(entries[<<kind, month>>], quantity) \in Quantity
  <2>1. entries[<<kind, month>>] \in Int
    BY <1>1, WordPositive DEF Quantity
  <2> QED
    BY <2>1, PlusType
<1> QED
  BY <1>2 DEF Ledger

(* One call changes.                                                        *)
LEMMA OneCall ==
    ASSUME IInv, NEW i \in DOMAIN calls, NEW new \in Call,
           calls' = [calls EXCEPT ![i] = new], CallInv(new, provider), provider' = provider
    PROVE  /\ calls' \in Seq(Call)
           /\ DOMAIN calls' = DOMAIN calls
           /\ calls'[i] = new
           /\ \A j \in DOMAIN calls : j # i => calls'[j] = calls[j]
           /\ CallsInv'
<1>1. calls \in Seq(Call)
  BY DEF IInv, TypeOK
<1>2. /\ calls' \in Seq(Call)
      /\ DOMAIN calls' = DOMAIN calls
      /\ calls'[i] = new
      /\ \A j \in DOMAIN calls : j # i => calls'[j] = calls[j]
  BY <1>1
<1>3. \A j \in DOMAIN calls : CallInv(calls[j], provider)
  BY DEF IInv, CallsInv
<1>4. \A j \in DOMAIN calls' : CallInv(calls'[j], provider')
  BY <1>2, <1>3
<1> QED
  BY <1>2, <1>4 DEF CallsInv

(* The steps of one call: what it becomes.                                  *)
Moves(i) ==
    \/ Bill(i) \/ ReceiveError(i) \/ Abandon(i)
    \/ \E tokens \in Tokens : Receive(i, tokens)
    \/ Observe(i) \/ Record(i) \/ StorageError(i)

(* A call that is not being charged keeps its month, and, once it has one,  *)
(* its tokens.                                                              *)
LEMMA MoveOfCall ==
    ASSUME IInv, NEW i \in DOMAIN calls, Moves(i)
    PROVE  \E new \in Call :
              /\ calls' = [calls EXCEPT ![i] = new]
              /\ CallInv(new, provider)
              /\ new.month = calls[i].month
              /\ new.month # NoMonth => new.tokens = calls[i].tokens
<1>1. calls[i] \in Call /\ CallInv(calls[i], provider)
  BY DEF IInv, TypeOK, CallsInv
<1>2. CASE Bill(i)
  <2> DEFINE new == [calls[i] EXCEPT !.billed = TRUE]
  <2>1. new \in Call /\ calls' = [calls EXCEPT ![i] = new]
    BY <1>1, <1>2 DEF Bill, Call
  <2>2. CallInv(new, provider) /\ new.month = calls[i].month /\ new.tokens = calls[i].tokens
    BY <1>1, <1>2 DEF Bill, Call, CallInv
  <2> QED
    BY <2>1, <2>2
<1>3. CASE ReceiveError(i)
  <2> DEFINE new == [calls[i] EXCEPT !.stage = "failed"]
  <2>1. new \in Call /\ calls' = [calls EXCEPT ![i] = new]
    BY <1>1, <1>3 DEF ReceiveError, Go, Call, Stage
  <2>2. CallInv(new, provider) /\ new.month = calls[i].month /\ new.tokens = calls[i].tokens
    BY <1>1, <1>3 DEF ReceiveError, Go, Call, CallInv
  <2> QED
    BY <2>1, <2>2
<1>4. CASE Abandon(i)
  <2> DEFINE new == [calls[i] EXCEPT !.stage = "gone"]
  <2>1. new \in Call /\ calls' = [calls EXCEPT ![i] = new]
    BY <1>1, <1>4 DEF Abandon, Go, Call, Stage
  <2>2. CallInv(new, provider) /\ new.month = calls[i].month /\ new.tokens = calls[i].tokens
    BY <1>1, <1>4 DEF Abandon, Go, Call, CallInv
  <2> QED
    BY <2>1, <2>2
<1>5. ASSUME NEW tokens \in Tokens, Receive(i, tokens)
      PROVE  \E new \in Call :
                /\ calls' = [calls EXCEPT ![i] = new]
                /\ CallInv(new, provider)
                /\ new.month = calls[i].month
                /\ new.month # NoMonth => new.tokens = calls[i].tokens
  <2> DEFINE new == [calls[i] EXCEPT !.stage = "answered", !.tokens = tokens]
  <2>1. new \in Call /\ calls' = [calls EXCEPT ![i] = new]
    BY <1>1, <1>5 DEF Receive, Go, Call, Stage
  <2>2. new.month = NoMonth /\ calls[i].month = NoMonth
    BY <1>1, <1>5 DEF Receive, Go, Call, CallInv
  <2>3. CallInv(new, provider)
    BY <1>1, <1>5, <2>2, TokensRead DEF Receive, Go, Call, CallInv
  <2> QED
    BY <2>1, <2>2, <2>3
<1>6. CASE Observe(i)
  <2> DEFINE new == [calls[i] EXCEPT !.stage = "observed", !.observed = TRUE]
  <2>1. new \in Call /\ calls' = [calls EXCEPT ![i] = new]
    BY <1>1, <1>6 DEF Observe, Go, Call, Stage
  <2>2. CallInv(new, provider) /\ new.month = calls[i].month /\ new.tokens = calls[i].tokens
    BY <1>1, <1>6 DEF Observe, Go, Call, CallInv
  <2> QED
    BY <2>1, <2>2
<1>7. CASE Record(i)
  <2> DEFINE new == [calls[i] EXCEPT !.stage = "ok"]
  <2>1. new \in Call /\ calls' = [calls EXCEPT ![i] = new]
    BY <1>1, <1>7 DEF Record, Go, Call, Stage
  <2>2. CallInv(new, provider) /\ new.month = calls[i].month /\ new.tokens = calls[i].tokens
    BY <1>1, <1>7 DEF Record, Go, Call, CallInv
  <2> QED
    BY <2>1, <2>2
<1>8. CASE StorageError(i)
  <2> DEFINE new == [calls[i] EXCEPT !.stage = "failed", !.hit = TRUE]
  <2>1. new \in Call /\ calls' = [calls EXCEPT ![i] = new]
    BY <1>1, <1>8 DEF StorageError, Go, Call, Stage
  <2>2. CallInv(new, provider) /\ new.month = calls[i].month /\ new.tokens = calls[i].tokens
    BY <1>1, <1>8 DEF StorageError, Go, Call, CallInv
  <2> QED
    BY <2>1, <2>2
<1> QED
  BY <1>2, <1>3, <1>4, <1>5, <1>6, <1>7, <1>8 DEF Moves

LEMMA ChargeOfCall ==
    ASSUME IInv, NEW i \in DOMAIN calls, Charge(i)
    PROVE  \E new \in Call :
              /\ calls' = [calls EXCEPT ![i] = new]
              /\ CallInv(new, provider)
              /\ new.month = Month(date) /\ new.tokens = calls[i].tokens
              /\ new.tokens \in Tokens
              /\ calls[i].month = NoMonth
<1>1. calls[i] \in Call /\ CallInv(calls[i], provider)
  BY DEF IInv, TypeOK, CallsInv
<1>2. UtcPeriod(day) = Month(date) /\ Month(date) \in Months /\ Month(date) # NoMonth
  BY PeriodOfTheClock, NoMonthApart DEF IInv
<1> DEFINE period == Month(date)
           new == [calls[i] EXCEPT !.stage = "charged", !.period = period, !.month = period]
<1>3. calls' = [calls EXCEPT ![i] = new] /\ calls[i].stage = "observed"
  BY <1>2 DEF Charge, Go
<1> HIDE DEF period
<1>4. period \in Months /\ period # NoMonth
  BY <1>2 DEF period
<1>5. new \in Call /\ new.month = period /\ new.tokens = calls[i].tokens
  BY <1>1, <1>4 DEF Call, Stage
<1>6. CallInv(new, provider)
  BY <1>1, <1>3, <1>4 DEF Call, CallInv
<1>7. new.tokens \in Tokens /\ calls[i].month = NoMonth
  BY <1>1, <1>3, <1>5 DEF Call, CallInv
<1> QED
  BY <1>3, <1>5, <1>6, <1>7 DEF period

-----------------------------------------------------------------------------
(* The steps of the whole.                                                  *)

(* A request to model_complete adds a call, whatever its stage.             *)
LEMMA BegunCall ==
    ASSUME IInv, NEW ids \in SUBSET EvidenceId, NEW stage, NEW tokens, Begin(ids, stage, tokens),
           \/ stage = "asked" /\ tokens = Unread
           \/ stage = "failed" /\ tokens = Unread
           \/ stage = "answered" /\ tokens \in Tokens /\ provider = "local"
    PROVE  \E new \in Call :
              /\ calls' = Append(calls, new)
              /\ CallInv(new, provider)
              /\ new.month = NoMonth
<1> DEFINE new == [stage |-> stage, evidence |-> ids, billed |-> FALSE, tokens |-> tokens,
                   observed |-> FALSE, period |-> NoMonth, month |-> NoMonth,
                   available |-> EvidenceThere(ids), hit |-> FALSE]
<1>1. calls' = Append(calls, new)
  BY DEF Begin
<1>2. EvidenceThere(ids) \in BOOLEAN
  BY DEF EvidenceThere
<1>3. new \in Call
  BY <1>2 DEF Call, Stage
<1>4. CallInv(new, provider)
  BY TokensRead DEF CallInv
<1> QED
  BY <1>1, <1>3, <1>4

LEMMA OneCallMore ==
    ASSUME IInv, NEW new \in Call, calls' = Append(calls, new), CallInv(new, provider), provider' = provider
    PROVE  /\ calls' \in Seq(Call)
           /\ DOMAIN calls' = DOMAIN calls \cup {Len(calls) + 1}
           /\ Len(calls) + 1 \notin DOMAIN calls
           /\ calls'[Len(calls) + 1] = new
           /\ \A j \in DOMAIN calls : calls'[j] = calls[j]
           /\ CallsInv'
<1>1. calls \in Seq(Call)
  BY DEF IInv, TypeOK
<1>2. /\ calls' \in Seq(Call)
      /\ DOMAIN calls' = DOMAIN calls \cup {Len(calls) + 1}
      /\ Len(calls) + 1 \notin DOMAIN calls
      /\ calls'[Len(calls) + 1] = new
      /\ \A j \in DOMAIN calls : calls'[j] = calls[j]
  BY <1>1
<1>3. \A j \in DOMAIN calls : CallInv(calls[j], provider)
  BY DEF IInv, CallsInv
<1>4. \A j \in DOMAIN calls' : CallInv(calls'[j], provider')
  BY <1>2, <1>3
<1> QED
  BY <1>2, <1>4 DEF CallsInv

(* A restart cuts the calls short and changes nothing that was charged.     *)
LEMMA RestartedCalls ==
    ASSUME IInv, Restart
    PROVE  /\ calls' \in Seq(Call)
           /\ DOMAIN calls' = DOMAIN calls
           /\ \A j \in DOMAIN calls : calls'[j].month = calls[j].month /\ calls'[j].tokens = calls[j].tokens
           /\ CallsInv'
<1>1. calls \in Seq(Call)
  BY DEF IInv, TypeOK
<1> DEFINE Cut(call) == IF Finished(call) THEN call ELSE [call EXCEPT !.stage = "gone", !.hit = TRUE]
<1>2. calls' = [j \in DOMAIN calls |-> Cut(calls[j])]
  BY DEF Restart
<1>3. ASSUME NEW call \in Call, CallInv(call, provider)
      PROVE  /\ Cut(call) \in Call /\ CallInv(Cut(call), provider)
             /\ Cut(call).month = call.month /\ Cut(call).tokens = call.tokens
  <2>1. CASE Finished(call)
    BY <1>3, <2>1
  <2>2. CASE ~Finished(call)
    <3> DEFINE cut == [call EXCEPT !.stage = "gone", !.hit = TRUE]
    <3>1. Cut(call) = cut
      BY <2>2
    <3>2. /\ cut \in Call /\ cut.month = call.month /\ cut.tokens = call.tokens
          /\ cut.stage = "gone" /\ cut.hit /\ cut.period = call.period
          /\ cut.observed = call.observed /\ cut.billed = call.billed
      BY DEF Call, Stage
    <3> HIDE DEF cut
    <3>3. CallInv(cut, provider)
      BY <1>3, <3>2 DEF CallInv
    <3> HIDE DEF Cut
    <3> QED
      BY <3>1, <3>2, <3>3
  <2> QED
    BY <2>1, <2>2
<1>4. \A j \in DOMAIN calls : calls[j] \in Call /\ CallInv(calls[j], provider)
  BY <1>1 DEF IInv, CallsInv
<1> HIDE DEF Cut
<1>5. /\ DOMAIN calls' = DOMAIN calls
      /\ \A j \in DOMAIN calls : calls'[j] = Cut(calls[j])
  BY <1>2
<1>6. \A j \in DOMAIN calls' : calls'[j] \in Call
  BY <1>3, <1>4, <1>5
<1>7. calls' \in Seq(Call)
  BY <1>1, <1>2, <1>5, <1>6
<1>8. provider' = provider
  BY DEF Restart
<1>9. \A j \in DOMAIN calls' : CallInv(calls'[j], provider')
  BY <1>3, <1>4, <1>5, <1>8
<1> QED
  BY <1>3, <1>4, <1>5, <1>7, <1>9 DEF CallsInv

(* The steps, by what they do to the calls and the ledger.                  *)
Begins ==
    \E ids \in SUBSET EvidenceId :
        \/ AskProvider(ids) \/ AskWithoutKey(ids) \/ AskLocalBlank(ids)
        \/ \E tokens \in Tokens : AskLocal(ids, tokens)

Reports ==
    \E kind \in {"Observation", "AgentRun"}, month \in Months, quantity \in Reported :
        Report(kind, month, quantity)

LEMMA StepCases ==
    [Next]_vars =>
        \/ \E e \in EvidenceId : Ingest(e)
        \/ Begins
        \/ \E i \in DOMAIN calls : Moves(i) \/ Charge(i)
        \/ Reports
        \/ Restart
        \/ Tick
        \/ UNCHANGED vars
BY DEF Next, Begins, Moves, Reports

LEMMA BeginsFacts ==
    ASSUME IInv, Begins
    PROVE  /\ calls' \in Seq(Call)
           /\ DOMAIN calls' = DOMAIN calls \cup {Len(calls) + 1}
           /\ Len(calls) + 1 \notin DOMAIN calls
           /\ calls'[Len(calls) + 1].month = NoMonth
           /\ \A j \in DOMAIN calls : calls'[j] = calls[j]
           /\ CallsInv'
           /\ model_calls' = model_calls + 1
           /\ UNCHANGED <<store, provider, lines, ledger, observations_ingested, clock, reported,
                          reports, ingests, faults>>
<1>0. PICK ids \in SUBSET EvidenceId :
         \/ AskProvider(ids) \/ AskWithoutKey(ids) \/ AskLocalBlank(ids)
         \/ \E tokens \in Tokens : AskLocal(ids, tokens)
  BY DEF Begins
<1>1. PICK stage \in Stage, tokens \in Tokens \cup {Unread} :
         /\ Begin(ids, stage, tokens)
         /\ \/ stage = "asked" /\ tokens = Unread
            \/ stage = "failed" /\ tokens = Unread
            \/ stage = "answered" /\ tokens \in Tokens /\ provider = "local"
  <2>1. Unread \in Tokens \cup {Unread} /\ {"asked", "failed", "answered"} \subseteq Stage
    BY DEF Stage
  <2>2. AskProvider(ids) => Begin(ids, "asked", Unread)
    BY DEF AskProvider
  <2>3. AskWithoutKey(ids) \/ AskLocalBlank(ids) => Begin(ids, "failed", Unread)
    BY DEF AskWithoutKey, AskLocalBlank
  <2>4. \A tokens \in Tokens : AskLocal(ids, tokens) => provider = "local" /\ Begin(ids, "answered", tokens)
    BY DEF AskLocal
  <2> QED
    BY <1>0, <2>1, <2>2, <2>3, <2>4
<1>2. PICK new \in Call : /\ calls' = Append(calls, new)
                          /\ CallInv(new, provider)
                          /\ new.month = NoMonth
  BY <1>1, BegunCall
<1>3. /\ model_calls' = model_calls + 1
      /\ UNCHANGED <<store, provider, lines, ledger, observations_ingested, clock, reported,
                     reports, ingests, faults>>
  BY <1>1 DEF Begin
<1> QED
  BY <1>2, <1>3, OneCallMore

LEMMA MovesFacts ==
    ASSUME IInv, NEW i \in DOMAIN calls, Moves(i)
    PROVE  /\ calls' \in Seq(Call)
           /\ DOMAIN calls' = DOMAIN calls
           /\ \A j \in DOMAIN calls : /\ calls'[j].month = calls[j].month
                                      /\ calls[j].month # NoMonth => calls'[j].tokens = calls[j].tokens
           /\ CallsInv'
           /\ UNCHANGED <<store, provider, lines, usage_entries, clock, reported, reports, ingests>>
<1>1. PICK new \in Call : /\ calls' = [calls EXCEPT ![i] = new]
                          /\ CallInv(new, provider)
                          /\ new.month = calls[i].month
                          /\ new.month # NoMonth => new.tokens = calls[i].tokens
  BY MoveOfCall
<1>2. UNCHANGED <<store, provider, lines, usage_entries, clock, reported, reports, ingests>>
  BY DEF Moves, Bill, ReceiveError, Abandon, Receive, Observe, Record, StorageError, Go, ledger
<1>3. /\ calls' \in Seq(Call)
      /\ DOMAIN calls' = DOMAIN calls
      /\ calls'[i] = new
      /\ \A j \in DOMAIN calls : j # i => calls'[j] = calls[j]
      /\ CallsInv'
  BY <1>1, <1>2, OneCall
<1> QED
  BY <1>1, <1>2, <1>3

LEMMA ChargeFacts ==
    ASSUME IInv, NEW i \in DOMAIN calls, Charge(i)
    PROVE  /\ calls' \in Seq(Call)
           /\ DOMAIN calls' = DOMAIN calls
           /\ calls[i].month = NoMonth /\ calls'[i].month = Month(date)
           /\ calls'[i].tokens = calls[i].tokens /\ calls[i].tokens \in Tokens
           /\ \A j \in DOMAIN calls : j # i => calls'[j] = calls[j]
           /\ CallsInv'
           /\ Month(date) \in Months
           /\ usage_entries' = [usage_entries EXCEPT ![<<"ModelToken", Month(date)>>] =
                                   Plus(@, calls[i].tokens)]
           /\ UNCHANGED <<store, provider, lines, usage, counters, clock, reported, reports, ingests, faults>>
<1>1. PICK new \in Call : /\ calls' = [calls EXCEPT ![i] = new]
                          /\ CallInv(new, provider)
                          /\ new.month = Month(date) /\ new.tokens = calls[i].tokens
                          /\ new.tokens \in Tokens
                          /\ calls[i].month = NoMonth
  BY ChargeOfCall
<1>2. UtcPeriod(day) = Month(date) /\ Month(date) \in Months
  BY PeriodOfTheClock DEF IInv
<1>3. /\ usage_entries' = [usage_entries EXCEPT ![<<"ModelToken", Month(date)>>] =
                               Plus(@, calls[i].tokens)]
      /\ UNCHANGED <<store, provider, lines, usage, counters, clock, reported, reports, ingests, faults>>
  BY <1>2 DEF Charge, Go
<1>4. /\ calls' \in Seq(Call)
      /\ DOMAIN calls' = DOMAIN calls
      /\ calls'[i] = new
      /\ \A j \in DOMAIN calls : j # i => calls'[j] = calls[j]
      /\ CallsInv'
  BY <1>1, <1>3, OneCall
<1> QED
  BY <1>1, <1>2, <1>3, <1>4

(* Every step keeps what the calls have been through.                       *)
LEMMA CallsKept == IInv /\ [Next]_vars => CallsInv' /\ calls' \in Seq(Call)
<1> SUFFICES ASSUME IInv, [Next]_vars
             PROVE  CallsInv' /\ calls' \in Seq(Call)
  OBVIOUS
<1>1. CallsInv /\ calls \in Seq(Call)
  BY DEF IInv, TypeOK
<1>2. ASSUME calls' = calls, provider' = provider
      PROVE  CallsInv' /\ calls' \in Seq(Call)
  BY <1>1, <1>2 DEF CallsInv
<1>3. ASSUME NEW e \in EvidenceId, Ingest(e)
      PROVE  CallsInv' /\ calls' \in Seq(Call)
  BY <1>2, <1>3 DEF Ingest
<1>4. CASE Begins
  BY <1>4, BeginsFacts
<1>5. ASSUME NEW i \in DOMAIN calls, Moves(i) \/ Charge(i)
      PROVE  CallsInv' /\ calls' \in Seq(Call)
  BY <1>5, MovesFacts, ChargeFacts
<1>6. CASE Reports
  BY <1>2, <1>6 DEF Reports, Report
<1>7. CASE Restart
  BY <1>7, RestartedCalls
<1>8. CASE Tick
  BY <1>2, <1>8 DEF Tick
<1>9. CASE UNCHANGED vars
  BY <1>2, <1>9 DEF vars
<1> QED
  BY <1>3, <1>4, <1>5, <1>6, <1>7, <1>8, <1>9, StepCases

LEMMA TypeInitially == Init => IInv
<1> SUFFICES ASSUME Init PROVE IInv
  OBVIOUS
<1>1. NoUsage \in Ledger /\ NoUsage \in [Kind \X Months -> Nat]
  BY WordPositive DEF NoUsage, Ledger, Quantity
<1>2. date \in Dates /\ Month(date) \in Months /\ day = DayNumber(date)
  BY DateAssumption DEF Init
<1>3. TypeOK
  BY <1>1, <1>2, BoundAssumption DEF Init, TypeOK
<1>4. CallsInv
  BY DEF Init, CallsInv
<1> QED
  BY <1>3, <1>4 DEF IInv

(* What is left of TypeOK besides the calls and the clock.                  *)
LEMMA TypeKept == IInv /\ [Next]_vars => TypeOK'
<1> SUFFICES ASSUME IInv, [Next]_vars
             PROVE  TypeOK'
  OBVIOUS
<1>1. calls' \in Seq(Call)
  BY CallsKept
<1>2. /\ store \in {"jsonl", "sqlite"}
      /\ provider \in {"remote", "keyless", "local"}
      /\ lines \in [EvidenceId -> Nat]
      /\ usage_entries \in Ledger
      /\ usage \in Ledger
      /\ model_calls \in Nat /\ observations_ingested \in Nat
      /\ date \in Dates /\ Month(date) \in Months /\ day = DayNumber(date)
      /\ reported \in [Kind \X Months -> Nat]
      /\ ticks \in 0 .. MaxTicks /\ reports \in Nat /\ ingests \in Nat /\ faults \in Nat
  BY DEF IInv, TypeOK
<1>3. ASSUME UNCHANGED clock
      PROVE  /\ date' \in Dates /\ Month(date)' \in Months /\ day' = DayNumber(date)'
             /\ ticks' \in 0 .. MaxTicks
  BY <1>2, <1>3 DEF clock
<1>4. ASSUME NEW e \in EvidenceId, Ingest(e)
      PROVE  TypeOK'
  <2>1. Lines(e) \in Nat
    BY <1>2 DEF Lines
  <2>2. lines' \in [EvidenceId -> Nat]
    BY <1>2, <1>4, <2>1 DEF Ingest
  <2> QED
    BY <1>1, <1>2, <1>3, <1>4, <2>2 DEF Ingest, ledger, TypeOK
<1>5. CASE Begins
  BY <1>1, <1>2, <1>3, <1>5, BeginsFacts DEF ledger, TypeOK
<1>6. ASSUME NEW i \in DOMAIN calls, Moves(i)
      PROVE  TypeOK'
  <2>1. usage' \in Ledger
    <3>1. CASE Record(i)
      <4>1. calls[i] \in Call /\ CallInv(calls[i], provider)
        BY DEF IInv, TypeOK, CallsInv
      <4>2. calls[i].period \in Months /\ calls[i].tokens \in Int
        BY <3>1, <4>1, TokensRead DEF Record, Go, Call, CallInv
      <4> QED
        BY <1>2, <3>1, <4>2, LedgerGrows DEF Record, Kind
    <3>2. CASE ~Record(i)
      <4>1. usage' = usage
        BY <1>6, <3>2 DEF Moves, Bill, ReceiveError, Abandon, Receive, Observe, StorageError, ledger
      <4> QED
        BY <1>2, <4>1
    <3> QED
      BY <3>1, <3>2
  <2>2. model_calls' \in Nat /\ observations_ingested' \in Nat /\ faults' \in Nat
    <3>1. model_calls' = model_calls
      BY <1>6 DEF Moves, Bill, ReceiveError, Abandon, Receive, Observe, Record, StorageError, counters
    <3>2. observations_ingested' = observations_ingested \/ observations_ingested' = observations_ingested + 1
      BY <1>6 DEF Moves, Bill, ReceiveError, Abandon, Receive, Observe, Record, StorageError, counters
    <3>3. faults' = faults \/ faults' = faults + 1
      BY <1>6 DEF Moves, Bill, ReceiveError, Abandon, Receive, Observe, Record, StorageError, Fault
    <3> QED
      BY <1>2, <3>1, <3>2, <3>3
  <2> QED
    BY <1>1, <1>2, <1>3, <1>6, <2>1, <2>2, MovesFacts DEF TypeOK
<1>7. ASSUME NEW i \in DOMAIN calls, Charge(i)
      PROVE  TypeOK'
  <2>1. usage_entries' \in Ledger
    <3>1. calls[i].tokens \in Int /\ Month(date) \in Months
      BY <1>7, ChargeFacts, TokensRead
    <3> QED
      BY <1>2, <1>7, <3>1, ChargeFacts, LedgerGrows DEF Kind
  <2> QED
    BY <1>1, <1>2, <1>3, <1>7, <2>1, ChargeFacts DEF counters, TypeOK
<1>8. CASE Reports
  <2>1. PICK kind \in {"Observation", "AgentRun"}, month \in Months, quantity \in Reported :
           Report(kind, month, quantity)
    BY <1>8 DEF Reports
  <2>2. kind \in Kind /\ quantity \in Nat
    BY QuantityAssumption, WordPositive DEF Kind, Quantity
  <2>3. usage_entries' \in Ledger /\ usage' \in Ledger
    <3>1. quantity \in Int /\ usage_entries \in Ledger /\ usage \in Ledger
      BY <1>2, <2>2
    <3>2. [usage_entries EXCEPT ![<<kind, month>>] = Plus(@, quantity)] \in Ledger
      BY <2>2, <3>1, LedgerGrows, Zenon
    <3>3. [usage EXCEPT ![<<kind, month>>] = Plus(@, quantity)] \in Ledger
      BY <2>2, <3>1, LedgerGrows, Zenon
    <3>4. /\ usage_entries' = [usage_entries EXCEPT ![<<kind, month>>] = Plus(@, quantity)]
          /\ usage' = [usage EXCEPT ![<<kind, month>>] = Plus(@, quantity)]
      BY <2>1 DEF Report
    <3> QED
      BY <3>2, <3>3, <3>4
  <2>4. reported[<<kind, month>>] + quantity \in Nat
    BY <1>2, <2>2
  <2>5. reported' \in [Kind \X Months -> Nat]
    BY <1>2, <2>1, <2>2, <2>4 DEF Report
  <2> QED
    <3>1. UNCHANGED <<store, provider, lines, counters, clock, ingests, faults>> /\ reports' = reports + 1
      BY <2>1 DEF Report
    <3>2. UNCHANGED clock
      BY <3>1
    <3>3. reports' \in Nat /\ ingests' \in Nat /\ faults' \in Nat
      BY <1>2, <3>1
    <3>4. store' \in {"jsonl", "sqlite"} /\ provider' \in {"remote", "keyless", "local"}
      BY <1>2, <3>1
    <3>5. lines' \in [EvidenceId -> Nat]
      BY <1>2, <3>1
    <3>6. model_calls' \in Nat /\ observations_ingested' \in Nat
      BY <1>2, <3>1 DEF counters
    <3> QED
      BY <1>1, <1>3, <2>3, <2>5, <3>2, <3>3, <3>4, <3>5, <3>6 DEF TypeOK
<1>9. CASE Restart
  <2>1. /\ UNCHANGED <<store, provider, lines, usage_entries, clock, reported, reports, ingests>>
        /\ usage' = usage_entries /\ model_calls' = 0 /\ observations_ingested' = 0
        /\ faults' = faults + 1
    BY <1>9 DEF Restart, Fault
  <2> QED
    BY <1>1, <1>2, <1>3, <2>1 DEF TypeOK
<1>10. CASE Tick
  <2>1. date' \in Dates /\ day' = DayNumber(date')
    <3>1. date' = DayAfter(date) /\ day' = day + 1
      BY <1>10 DEF Tick
    <3>2. DayAfter(date) \in Dates /\ DayNumber(DayAfter(date)) = DayNumber(date) + 1
      BY <1>2, DaysAreNumbered
    <3> QED
      BY <1>2, <3>1, <3>2, Zenon
  <2>2. Month(date') \in Months
    BY <1>10 DEF Tick
  <2>3. ticks' \in 0 .. MaxTicks
    BY <1>2, <1>10, BoundAssumption DEF Tick
  <2> QED
    BY <1>1, <1>2, <1>10, <2>1, <2>2, <2>3 DEF Tick, ledger, counters, TypeOK
<1>11. CASE UNCHANGED vars
  BY <1>1, <1>2, <1>3, <1>11 DEF vars, ledger, counters, TypeOK
<1> QED
  BY <1>4, <1>5, <1>6, <1>7, <1>8, <1>9, <1>10, <1>11, StepCases

LEMMA IInvAlways == Spec => []IInv
<1>1. IInv /\ [Next]_vars => IInv'
  BY CallsKept, TypeKept DEF IInv
<1> QED
  BY <1>1, TypeInitially, PTL DEF Spec

(* Every variable stays in its set: the totals of the ledger in 64 bits,    *)
(* the period of every charge among the months of the calendar, and the     *)
(* clock, which counts days, on the date of the calendar.                   *)
THEOREM TypeCorrect == Spec => []TypeOK
BY IInvAlways, PTL DEF IInv

(* model_complete charges tokens only for a call whose observation was      *)
(* accepted and, with a remote provider, only for work it did; a call       *)
(* answered 200 is charged; and work whose answer was read stays uncharged  *)
(* only when a storage error or the death of the process stopped that call. *)
THEOREM MeteredUnlessHitHolds == Spec => []MeteredUnlessHit
<1>1. IInv => MeteredUnlessHit
  <2> SUFFICES ASSUME IInv, NEW i \in DOMAIN calls
               PROVE  /\ calls[i].period # NoMonth =>
                            calls[i].observed /\ (provider = "remote" => calls[i].billed)
                      /\ calls[i].stage = "ok" => calls[i].period # NoMonth
                      /\ Finished(calls[i]) /\ calls[i].tokens # Unread =>
                            calls[i].period # NoMonth \/ calls[i].hit
    BY DEF MeteredUnlessHit
  <2>1. CallInv(calls[i], provider)
    BY DEF IInv, CallsInv
  <2> QED
    BY <2>1 DEF CallInv, Finished
<1> QED
  BY <1>1, IInvAlways, PTL

-----------------------------------------------------------------------------
(* The tokens in their months.                                              *)

(* The tokens charged while it was a month, unit by unit.                   *)
TokensOf == [i \in DOMAIN calls |-> calls[i].tokens]
Spent(month) == Units(Charged(month), TokensOf)

LEMMA SpentFinite ==
    ASSUME IInv, NEW month \in Months
    PROVE  /\ IsFiniteSet(Charged(month))
           /\ \A i \in Charged(month) : TokensOf[i] \in Nat
           /\ Cardinality(Spent(month)) \in Nat
<1>1. IsFiniteSet(DOMAIN calls)
  <2>1. DOMAIN calls = 1 .. Len(calls) /\ Len(calls) \in Nat
    BY DEF IInv, TypeOK
  <2> QED
    BY <2>1, FirstCounted
<1>2. IsFiniteSet(Charged(month))
  BY <1>1, FS_Subset DEF Charged
<1>3. \A i \in Charged(month) : TokensOf[i] \in Nat
  <2> SUFFICES ASSUME NEW i \in DOMAIN calls, calls[i].month = month
               PROVE  calls[i].tokens \in Nat
    BY DEF Charged, TokensOf
  <2>1. calls[i] \in Call /\ CallInv(calls[i], provider)
    BY DEF IInv, TypeOK, CallsInv
  <2>2. month # NoMonth
    BY NoMonthApart
  <2> QED
    BY <2>1, <2>2, TokensRead DEF Call, CallInv
<1> QED
  BY <1>2, <1>3, UnitsFinite DEF Spent

(* Nothing is spent, or unspent, when no call of the month changes.         *)
LEMMA SpentSame ==
    ASSUME NEW month \in Months,
           \A j \in DOMAIN calls' : calls'[j].month = month =>
              /\ j \in DOMAIN calls /\ calls[j].month = month
              /\ calls'[j].tokens = calls[j].tokens,
           \A j \in DOMAIN calls : calls[j].month = month =>
              j \in DOMAIN calls' /\ calls'[j].month = month
    PROVE  Spent(month)' = Spent(month)
<1>1. PICK S : S = Charged(month)'
  OBVIOUS
<1>2. PICK f : f = TokensOf'
  OBVIOUS
<1>3. Spent(month)' = Units(S, f)
  BY <1>1, <1>2 DEF Spent
<1>4. S = Charged(month)
  BY <1>1 DEF Charged
<1>5. \A j \in S : f[j] = TokensOf[j]
  BY <1>1, <1>2 DEF Charged, TokensOf
<1>6. Units(S, f) = Units(S, TokensOf)
  BY <1>5, UnitsSame
<1> QED
  BY <1>3, <1>4, <1>6 DEF Spent

(* A charge adds the tokens of its call to the month of the calendar.       *)
LEMMA SpentMore ==
    ASSUME IInv, NEW i \in DOMAIN calls, Charge(i)
    PROVE  /\ Cardinality(Spent(Month(date)))' = Cardinality(Spent(Month(date))) + calls[i].tokens
           /\ \A month \in Months : month # Month(date) => Spent(month)' = Spent(month)
<1>1. /\ DOMAIN calls' = DOMAIN calls
      /\ calls[i].month = NoMonth /\ calls'[i].month = Month(date)
      /\ calls'[i].tokens = calls[i].tokens /\ calls[i].tokens \in Nat
      /\ \A j \in DOMAIN calls : j # i => calls'[j] = calls[j]
      /\ Month(date) \in Months
      /\ date' = date
  BY ChargeFacts, TokensRead DEF clock
<1>2. PICK now \in Months : now = Month(date)
  BY <1>1
<1>3. now # NoMonth
  BY <1>2, NoMonthApart
<1>4. Month(date)' = now
  BY <1>1, <1>2 DEF Month
<1>5. \A month \in Months : month # now => Spent(month)' = Spent(month)
  <2> SUFFICES ASSUME NEW month \in Months, month # now
               PROVE  Spent(month)' = Spent(month)
    OBVIOUS
  <2>1. month # NoMonth
    BY NoMonthApart
  <2>2. \A j \in DOMAIN calls' : calls'[j].month = month =>
           /\ j \in DOMAIN calls /\ calls[j].month = month
           /\ calls'[j].tokens = calls[j].tokens
    BY <1>1, <1>2
  <2>3. \A j \in DOMAIN calls : calls[j].month = month =>
           j \in DOMAIN calls' /\ calls'[j].month = month
    BY <1>1, <2>1
  <2> QED
    BY <2>2, <2>3, SpentSame
<1>6. PICK f : f = TokensOf'
  OBVIOUS
<1>7. f = TokensOf
  BY <1>1, <1>6 DEF TokensOf
<1>8. Charged(now)' = Charged(now) \cup {i} /\ i \notin Charged(now)
  BY <1>1, <1>2, <1>3 DEF Charged
<1>9. Spent(now)' = Units(Charged(now) \cup {i}, TokensOf)
  BY <1>6, <1>7, <1>8 DEF Spent
<1>10. Cardinality(Units(Charged(now) \cup {i}, TokensOf)) = Cardinality(Units(Charged(now), TokensOf)) + TokensOf[i]
  <2>1. IsFiniteSet(Charged(now)) /\ \A j \in Charged(now) : TokensOf[j] \in Nat
    BY SpentFinite
  <2>2. TokensOf[i] \in Nat
    BY <1>1 DEF TokensOf
  <2>3. \A j \in Charged(now) \cup {i} : TokensOf[j] \in Nat
    BY <2>1, <2>2
  <2> QED
    BY <1>8, <2>1, <2>3, UnitsAdded
<1>11. Cardinality(Spent(now))' = Cardinality(Spent(now)) + calls[i].tokens
  BY <1>9, <1>10 DEF Spent, TokensOf
<1>12. Cardinality(Spent(Month(date)))' = Cardinality(Spent(now))'
  BY <1>4
<1> QED
  BY <1>2, <1>5, <1>11, <1>12

LEMMA UsageIsSpent ==
    UsageInItsMonth <=>
        \A month \in Months :
            /\ usage_entries[<<"ModelToken", month>>] = Cardinality(Spent(month)) % Word
            /\ \A kind \in {"Observation", "AgentRun"} :
                  usage_entries[<<kind, month>>] = reported[<<kind, month>>] % Word
BY DEF UsageInItsMonth, Spent, TokensOf

(* Adding to what is left of a total by Word is adding to the total.        *)
LEMMA PlusOfRest ==
    ASSUME NEW x \in Int, NEW y \in Int
    PROVE  Plus(x % Word, y) = (x + y) % Word
<1>1. Word \in Int /\ Word > 0
  BY WordPositive
<1>2. ((x % Word) + y) % Word = (x + y) % Word
  BY <1>1, ModPlus, Zenon
<1> QED
  BY <1>2 DEF Plus

LEMMA UsageKept == IInv /\ UsageInItsMonth /\ [Next]_vars => UsageInItsMonth'
<1> SUFFICES ASSUME IInv, UsageInItsMonth, [Next]_vars
             PROVE  UsageInItsMonth'
  OBVIOUS
<1>1. \A month \in Months :
         /\ usage_entries[<<"ModelToken", month>>] = Cardinality(Spent(month)) % Word
         /\ \A kind \in {"Observation", "AgentRun"} :
               usage_entries[<<kind, month>>] = reported[<<kind, month>>] % Word
  BY UsageIsSpent
<1>2. usage_entries \in Ledger /\ reported \in [Kind \X Months -> Nat]
  BY DEF IInv, TypeOK
<1>3. SUFFICES ASSUME NEW month \in Months
               PROVE  /\ usage_entries'[<<"ModelToken", month>>] = Cardinality(Spent(month))' % Word
                      /\ \A kind \in {"Observation", "AgentRun"} :
                            usage_entries'[<<kind, month>>] = reported'[<<kind, month>>] % Word
  BY DEF UsageInItsMonth, Spent, TokensOf
<1>4. month # NoMonth
  BY NoMonthApart
<1>5. ASSUME Spent(month)' = Spent(month), usage_entries' = usage_entries, reported' = reported
      PROVE  /\ usage_entries'[<<"ModelToken", month>>] = Cardinality(Spent(month))' % Word
             /\ \A kind \in {"Observation", "AgentRun"} :
                   usage_entries'[<<kind, month>>] = reported'[<<kind, month>>] % Word
  BY <1>1, <1>5
<1>6. calls' = calls => Spent(month)' = Spent(month)
  BY DEF Spent, TokensOf, Charged
<1>7. ASSUME NEW e \in EvidenceId, Ingest(e)
      PROVE  /\ usage_entries'[<<"ModelToken", month>>] = Cardinality(Spent(month))' % Word
             /\ \A kind \in {"Observation", "AgentRun"} :
                   usage_entries'[<<kind, month>>] = reported'[<<kind, month>>] % Word
  BY <1>5, <1>6, <1>7 DEF Ingest, ledger
<1>8. CASE Begins
  <2>1. /\ DOMAIN calls' = DOMAIN calls \cup {Len(calls) + 1}
        /\ calls'[Len(calls) + 1].month = NoMonth
        /\ \A j \in DOMAIN calls : calls'[j] = calls[j]
        /\ usage_entries' = usage_entries /\ reported' = reported
    BY <1>8, BeginsFacts DEF ledger
  <2>2. Spent(month)' = Spent(month)
    BY <1>4, <2>1, SpentSame
  <2> QED
    BY <1>5, <2>1, <2>2
<1>9. ASSUME NEW i \in DOMAIN calls, Moves(i)
      PROVE  /\ usage_entries'[<<"ModelToken", month>>] = Cardinality(Spent(month))' % Word
             /\ \A kind \in {"Observation", "AgentRun"} :
                   usage_entries'[<<kind, month>>] = reported'[<<kind, month>>] % Word
  <2>1. /\ DOMAIN calls' = DOMAIN calls
        /\ \A j \in DOMAIN calls : /\ calls'[j].month = calls[j].month
                                   /\ calls[j].month # NoMonth => calls'[j].tokens = calls[j].tokens
        /\ usage_entries' = usage_entries /\ reported' = reported
    BY <1>9, MovesFacts
  <2>2. Spent(month)' = Spent(month)
    BY <1>4, <2>1, SpentSame
  <2> QED
    BY <1>5, <2>1, <2>2
<1>10. ASSUME NEW i \in DOMAIN calls, Charge(i)
       PROVE  /\ usage_entries'[<<"ModelToken", month>>] = Cardinality(Spent(month))' % Word
              /\ \A kind \in {"Observation", "AgentRun"} :
                    usage_entries'[<<kind, month>>] = reported'[<<kind, month>>] % Word
  <2>1. PICK now \in Months, tokens \in Nat :
           /\ now = Month(date) /\ tokens = calls[i].tokens
           /\ usage_entries' = [usage_entries EXCEPT ![<<"ModelToken", now>>] = Plus(@, tokens)]
           /\ reported' = reported
    BY <1>10, ChargeFacts, TokensRead
  <2>2. \A kind \in {"Observation", "AgentRun"} : usage_entries'[<<kind, month>>] = usage_entries[<<kind, month>>]
    BY <1>2, <2>1 DEF Ledger
  <2>3. CASE month = now
    <3>1. PICK spent \in Nat : spent = Cardinality(Spent(month))
      BY SpentFinite
    <3>2. Cardinality(Spent(Month(date)))' = Cardinality(Spent(Month(date))) + calls[i].tokens
      BY <1>10, SpentMore
    <3>3. Month(date)' = Month(date)
      BY <1>10, ChargeFacts DEF clock, Month
    <3>4. Cardinality(Spent(month))' = spent + tokens
      BY <2>1, <2>3, <3>1, <3>2, <3>3
    <3>5. usage_entries'[<<"ModelToken", month>>] = Plus(usage_entries[<<"ModelToken", month>>], tokens)
      <4>1. <<"ModelToken", now>> \in DOMAIN usage_entries
        BY <1>2 DEF Ledger, Kind
      <4>2. usage_entries'[<<"ModelToken", now>>] = Plus(usage_entries[<<"ModelToken", now>>], tokens)
        BY <2>1, <4>1
      <4> QED
        BY <2>3, <4>2
    <3>6. usage_entries[<<"ModelToken", month>>] = spent % Word
      BY <1>1, <3>1
    <3>7. Plus(spent % Word, tokens) = (spent + tokens) % Word
      <4>1. spent \in Int /\ tokens \in Int
        BY <2>1, <3>1
      <4> QED
        BY <4>1, PlusOfRest, Zenon
    <3> QED
      BY <1>1, <2>1, <2>2, <3>4, <3>5, <3>6, <3>7
  <2>4. CASE month # now
    <3>1. Spent(month)' = Spent(month)
      BY <1>10, <2>1, <2>4, SpentMore
    <3>2. usage_entries'[<<"ModelToken", month>>] = usage_entries[<<"ModelToken", month>>]
      BY <1>2, <2>1, <2>4 DEF Ledger, Kind
    <3> QED
      BY <1>1, <2>1, <2>2, <3>1, <3>2
  <2> QED
    BY <2>3, <2>4
<1>11. CASE Reports
  <2>1. PICK kind \in {"Observation", "AgentRun"}, other \in Months, quantity \in Nat :
           /\ calls' = calls
           /\ usage_entries' = [usage_entries EXCEPT ![<<kind, other>>] = Plus(@, quantity)]
           /\ reported' = [reported EXCEPT ![<<kind, other>>] = @ + quantity]
    <3>1. \A quantity \in Reported : quantity \in Nat
      BY QuantityAssumption, WordPositive DEF Quantity
    <3>2. PICK kind \in {"Observation", "AgentRun"}, other \in Months, quantity \in Reported :
             Report(kind, other, quantity)
      BY <1>11 DEF Reports
    <3>3. /\ calls' = calls
          /\ usage_entries' = [usage_entries EXCEPT ![<<kind, other>>] = Plus(@, quantity)]
          /\ reported' = [reported EXCEPT ![<<kind, other>>] = @ + quantity]
      BY <3>2 DEF Report
    <3> QED
      BY <3>1, <3>3
  <2>2. usage_entries'[<<"ModelToken", month>>] = usage_entries[<<"ModelToken", month>>]
    BY <1>2, <2>1 DEF Ledger
  <2>3. Spent(month)' = Spent(month)
    BY <1>6, <2>1
  <2>4. ASSUME NEW k \in {"Observation", "AgentRun"}
        PROVE  usage_entries'[<<k, month>>] = reported'[<<k, month>>] % Word
    <3>1. <<k, month>> \in Kind \X Months
      BY DEF Kind
    <3>2. CASE k = kind /\ month = other
      <4>1. PICK exact \in Nat : exact = reported[<<k, month>>]
        BY <1>2, <3>1
      <4>2. usage_entries[<<k, month>>] = exact % Word
        BY <1>1, <4>1
      <4>3. /\ usage_entries'[<<k, month>>] = Plus(usage_entries[<<k, month>>], quantity)
            /\ reported'[<<k, month>>] = reported[<<k, month>>] + quantity
        BY <1>2, <2>1, <3>1, <3>2 DEF Ledger, Kind
      <4>4. Plus(exact % Word, quantity) = (exact + quantity) % Word
        <5>1. exact \in Int /\ quantity \in Int
          BY <2>1, <4>1
        <5> QED
          BY <5>1, PlusOfRest, Zenon
      <4> QED
        BY <4>1, <4>2, <4>3, <4>4
    <3>3. CASE ~(k = kind /\ month = other)
      <4>1. /\ usage_entries'[<<k, month>>] = usage_entries[<<k, month>>]
            /\ reported'[<<k, month>>] = reported[<<k, month>>]
        BY <1>2, <2>1, <3>1, <3>3 DEF Ledger
      <4> QED
        BY <1>1, <4>1
    <3> QED
      BY <3>2, <3>3
  <2> QED
    BY <1>1, <2>2, <2>3, <2>4
<1>12. CASE Restart
  <2>1. /\ DOMAIN calls' = DOMAIN calls
        /\ \A j \in DOMAIN calls : calls'[j].month = calls[j].month /\ calls'[j].tokens = calls[j].tokens
    BY <1>12, RestartedCalls
  <2>2. usage_entries' = usage_entries /\ reported' = reported
    BY <1>12 DEF Restart
  <2>3. Spent(month)' = Spent(month)
    BY <2>1, SpentSame
  <2> QED
    BY <1>5, <2>2, <2>3
<1>13. CASE Tick
  BY <1>5, <1>6, <1>13 DEF Tick, ledger
<1>14. CASE UNCHANGED vars
  BY <1>5, <1>6, <1>14 DEF vars, ledger
<1> QED
  BY <1>7, <1>8, <1>9, <1>10, <1>11, <1>12, <1>13, <1>14, StepCases

LEMMA UsageInitially == Init => UsageInItsMonth
<1> SUFFICES ASSUME Init, NEW month \in Months
             PROVE  /\ usage_entries[<<"ModelToken", month>>] = Cardinality(Spent(month)) % Word
                    /\ \A kind \in {"Observation", "AgentRun"} :
                          usage_entries[<<kind, month>>] = reported[<<kind, month>>] % Word
  BY UsageIsSpent
<1>1. Charged(month) = {}
  BY DEF Init, Charged
<1>2. Spent(month) = {}
  BY <1>1 DEF Spent, Units
<1>3. Cardinality({}) = 0
  BY FS_EmptySet
<1>4. 0 % Word = 0
  BY WordPositive
<1>5. \A kind \in Kind : usage_entries[<<kind, month>>] = 0 /\ reported[<<kind, month>>] = 0
  BY DEF Init, NoUsage
<1> QED
  BY <1>2, <1>3, <1>4, <1>5 DEF Kind

(* The ledger holds, for each month of the calendar, the tokens of the      *)
(* calls charged while it was that month and nothing else, and for the      *)
(* other kinds what was reported: whatever month a call began in, whatever  *)
(* was restarted or failed, up to the wrap-around of u64.                   *)
THEOREM UsageInItsMonthHolds == Spec => []UsageInItsMonth
BY IInvAlways, UsageInitially, UsageKept, PTL DEF Spec

-----------------------------------------------------------------------------
(* The evidence.                                                            *)

(* SQLite keeps one row of an observation, or none.                         *)
RowsInv == store = "sqlite" => \A e \in EvidenceId : lines[e] \in {0, 1}

LEMMA RowsAlways == Spec => []RowsInv
<1>1. Init => RowsInv
  BY DEF Init, RowsInv
<1>2. IInv /\ RowsInv /\ [Next]_vars => RowsInv'
  <2> SUFFICES ASSUME IInv, RowsInv, [Next]_vars
               PROVE  RowsInv'
    OBVIOUS
  <2>1. lines \in [EvidenceId -> Nat]
    BY DEF IInv, TypeOK
  <2>2. ASSUME store' = store, lines' = lines
        PROVE  RowsInv'
    BY <2>2 DEF RowsInv
  <2>3. ASSUME NEW e \in EvidenceId, Ingest(e)
        PROVE  RowsInv'
    <3>1. store = "sqlite" => Lines(e) = 1
      BY DEF Lines
    <3> QED
      BY <2>1, <2>3, <3>1 DEF Ingest, RowsInv
  <2>4. CASE Begins
    BY <2>2, <2>4, BeginsFacts
  <2>5. ASSUME NEW i \in DOMAIN calls, Moves(i) \/ Charge(i)
        PROVE  RowsInv'
    BY <2>2, <2>5, MovesFacts, ChargeFacts
  <2>6. CASE Reports
    BY <2>2, <2>6 DEF Reports, Report
  <2>7. CASE Restart
    BY <2>2, <2>7 DEF Restart
  <2>8. CASE Tick
    BY <2>2, <2>8 DEF Tick
  <2>9. CASE UNCHANGED vars
    BY <2>2, <2>9 DEF vars
  <2> QED
    BY <2>3, <2>4, <2>5, <2>6, <2>7, <2>8, <2>9, StepCases
<1> QED
  BY <1>1, <1>2, IInvAlways, PTL DEF Spec

(* validated_evidence_ids compares numbers, and on SQLite this is exact: as *)
(* many rows as distinct IDs means a row for each.                          *)
THEOREM EvidenceExactOnSqliteHolds == Spec => []EvidenceExactOnSqlite
<1>1. RowsInv => EvidenceExactOnSqlite
  <2> SUFFICES ASSUME RowsInv, store = "sqlite", NEW ids \in SUBSET EvidenceId
               PROVE  EvidenceAccepted(ids) <=> EvidenceThere(ids)
    BY DEF EvidenceExactOnSqlite
  <2>1. IsFiniteSet(ids)
    BY EvidenceAssumption, FS_Subset
  <2>2. \A e \in ids : lines[e] \in {0, 1}
    BY DEF RowsInv
  <2>3. Cardinality(Units(ids, lines)) = Cardinality(ids) <=> \A e \in ids : lines[e] > 0
    BY <2>1, <2>2, UnitsOfOnes
  <2> QED
    BY <2>3 DEF EvidenceAccepted, EvidenceThere
<1> QED
  BY <1>1, RowsAlways, PTL

-----------------------------------------------------------------------------
(* The quote.                                                               *)

LEMMA OverGrows ==
    ASSUME NEW x \in Nat, NEW y \in Nat, x <= y, NEW included \in Nat
    PROVE  Over(x, included) \in Nat /\ Over(y, included) \in Nat /\ Over(x, included) <= Over(y, included)
BY DEF Over

LEMMA ThousandsGrow ==
    ASSUME NEW x \in Nat, NEW y \in Nat, x <= y
    PROVE  Thousands(x) \in Nat /\ Thousands(y) \in Nat /\ Thousands(x) <= Thousands(y)
BY SMT DEF Thousands

LEMMA TariffOf ==
    ASSUME NEW plan \in Plan
    PROVE  /\ Tariffs[plan].included_observations \in Nat
           /\ Tariffs[plan].included_agent_runs \in Nat
           /\ Tariffs[plan].base_price \in Nat
           /\ Tariffs[plan].per_thousand \in {1, 2, 3}
           /\ Tariffs[plan].per_run \in {3, 6, 10}
BY SMT DEF Plan, Tariffs, Tariff

(* More observations and more runs never cost less, on any plan.            *)
LEMMA ExactTotalGrows ==
    ASSUME NEW plan \in Plan, NEW o1 \in Nat, NEW o2 \in Nat, o1 <= o2,
           NEW a1 \in Nat, NEW a2 \in Nat, a1 <= a2
    PROVE  /\ ExactTotal(plan, o1, a1) \in Nat /\ ExactTotal(plan, o2, a2) \in Nat
           /\ ExactTotal(plan, o1, a1) <= ExactTotal(plan, o2, a2)
<1> DEFINE tariff == Tariffs[plan]
           t1 == Thousands(Over(o1, tariff.included_observations))
           t2 == Thousands(Over(o2, tariff.included_observations))
           r1 == Over(a1, tariff.included_agent_runs)
           r2 == Over(a2, tariff.included_agent_runs)
<1>1. /\ tariff.included_observations \in Nat /\ tariff.included_agent_runs \in Nat
      /\ tariff.base_price \in Nat
      /\ tariff.per_thousand \in {1, 2, 3} /\ tariff.per_run \in {3, 6, 10}
  BY TariffOf
<1> HIDE DEF tariff
<1>2. t1 \in Nat /\ t2 \in Nat /\ t1 <= t2
  BY <1>1, OverGrows, ThousandsGrow
<1>3. r1 \in Nat /\ r2 \in Nat /\ r1 <= r2
  BY <1>1, OverGrows
<1>4. /\ ExactTotal(plan, o1, a1) = tariff.base_price + t1 * tariff.per_thousand + r1 * tariff.per_run
      /\ ExactTotal(plan, o2, a2) = tariff.base_price + t2 * tariff.per_thousand + r2 * tariff.per_run
  BY DEF ExactTotal, ObservationOverage, RunOverage, tariff
<1> HIDE DEF t1, t2, r1, r2
<1>5. t1 * tariff.per_thousand \in Nat /\ t2 * tariff.per_thousand \in Nat
      /\ t1 * tariff.per_thousand <= t2 * tariff.per_thousand
  BY <1>1, <1>2
<1>6. r1 * tariff.per_run \in Nat /\ r2 * tariff.per_run \in Nat
      /\ r1 * tariff.per_run <= r2 * tariff.per_run
  BY <1>1, <1>3
<1> QED
  BY <1>1, <1>4, <1>5, <1>6

(* Reports only add up.                                                     *)
LEMMA ReportedGrows ==
    ASSUME IInv, [Next]_vars, NEW kind \in Kind, NEW month \in Months
    PROVE  /\ reported[<<kind, month>>] \in Nat
           /\ reported'[<<kind, month>>] \in Nat
           /\ reported[<<kind, month>>] <= reported'[<<kind, month>>]
<1>1. reported \in [Kind \X Months -> Nat]
  BY DEF IInv, TypeOK
<1>2. reported[<<kind, month>>] \in Nat
  BY <1>1
<1>3. CASE Reports
  <2>1. PICK k \in {"Observation", "AgentRun"}, other \in Months, quantity \in Reported :
           Report(k, other, quantity)
    BY <1>3 DEF Reports
  <2>2. quantity \in Nat
    BY QuantityAssumption, WordPositive DEF Quantity
  <2>3. reported' = [reported EXCEPT ![<<k, other>>] = @ + quantity]
    BY <2>1 DEF Report
  <2>4. <<k, other>> = <<kind, month>> =>
           reported'[<<kind, month>>] = reported[<<kind, month>>] + quantity
    BY <1>1, <2>3
  <2>5. <<k, other>> # <<kind, month>> => reported'[<<kind, month>>] = reported[<<kind, month>>]
    BY <1>1, <2>3
  <2> QED
    BY <1>2, <2>2, <2>4, <2>5
<1>4. CASE ~Reports
  <2>1. reported' = reported
    <3>1. ASSUME NEW e \in EvidenceId, Ingest(e)
          PROVE  reported' = reported
      BY <3>1 DEF Ingest
    <3>2. Begins => reported' = reported
      BY BeginsFacts
    <3>3. ASSUME NEW i \in DOMAIN calls, Moves(i) \/ Charge(i)
          PROVE  reported' = reported
      BY <3>3, MovesFacts, ChargeFacts
    <3>4. Restart \/ Tick => reported' = reported
      BY DEF Restart, Tick
    <3>5. UNCHANGED vars => reported' = reported
      BY DEF vars
    <3> QED
      BY <1>4, <3>1, <3>2, <3>3, <3>4, <3>5, StepCases
  <2> QED
    BY <1>2, <2>1
<1> QED
  BY <1>3, <1>4

(* Using more never makes a month cheaper, on any plan and across every     *)
(* included amount and every begun thousand, as long as what was used and   *)
(* what it costs fit in u64.                                                *)
THEOREM QuoteNeverFallsHolds == Spec => QuoteNeverFalls
<1>1. IInv /\ UsageInItsMonth /\ UsageInItsMonth' /\ [Next]_vars =>
         \A plan \in Plan, month \in Months :
            Fits(month)' => Quote(plan, month)' >= Quote(plan, month)
  <2> SUFFICES ASSUME IInv, UsageInItsMonth, UsageInItsMonth', [Next]_vars,
                      NEW plan \in Plan, NEW month \in Months, Fits(month)'
               PROVE  Quote(plan, month)' >= Quote(plan, month)
    OBVIOUS
  <2>1. PICK o1 \in Nat, o2 \in Nat, a1 \in Nat, a2 \in Nat :
           /\ o1 = reported[<<"Observation", month>>] /\ o2 = reported'[<<"Observation", month>>]
           /\ a1 = reported[<<"AgentRun", month>>] /\ a2 = reported'[<<"AgentRun", month>>]
           /\ o1 <= o2 /\ a1 <= a2
    BY ReportedGrows DEF Kind
  <2>2. o2 < Word /\ a2 < Word /\ ExactTotal(plan, o2, a2) < Word
    BY <2>1 DEF Fits
  <2>3. /\ usage_entries[<<"Observation", month>>] = o1 % Word
        /\ usage_entries[<<"AgentRun", month>>] = a1 % Word
    BY <2>1 DEF UsageInItsMonth
  <2>4. /\ usage_entries'[<<"Observation", month>>] = o2 % Word
        /\ usage_entries'[<<"AgentRun", month>>] = a2 % Word
    BY <2>1 DEF UsageInItsMonth
  <2>5. \A x \in Nat : x < Word => x % Word = x
    BY WordPositive
  <2>6. o1 % Word = o1 /\ a1 % Word = a1 /\ o2 % Word = o2 /\ a2 % Word = a2
    BY <2>1, <2>2, <2>5, WordPositive
  <2>7. Quote(plan, month) = Total(plan, o1, a1)
    BY <2>3, <2>6 DEF Quote
  <2>8. Quote(plan, month)' = Total(plan, o2, a2)
    BY <2>4, <2>6 DEF Quote
  <2>9. /\ ExactTotal(plan, o1, a1) \in Nat /\ ExactTotal(plan, o2, a2) \in Nat
        /\ ExactTotal(plan, o1, a1) <= ExactTotal(plan, o2, a2)
    BY <2>1, ExactTotalGrows
  <2>10. PICK t1 \in Nat, t2 \in Nat :
            t1 = ExactTotal(plan, o1, a1) /\ t2 = ExactTotal(plan, o2, a2) /\ t1 <= t2
    BY <2>9
  <2>11. t1 < Word /\ t2 < Word
    BY <2>2, <2>10, WordPositive
  <2>12. Total(plan, o1, a1) = t1 /\ Total(plan, o2, a2) = t2
    BY <2>5, <2>10, <2>11 DEF Total
  <2> QED
    BY <2>7, <2>8, <2>10, <2>12
<1>2. IInv /\ UsageInItsMonth /\ UsageInItsMonth' /\ [Next]_vars =>
         [\A plan \in Plan, month \in Months :
             Fits(month)' => Quote(plan, month)' >= Quote(plan, month)]_vars
  BY <1>1
<1> QED
  BY <1>2, IInvAlways, UsageInItsMonthHolds, PTL DEF Spec, QuoteNeverFalls
=============================================================================
