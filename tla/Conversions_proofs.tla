--------------------------- MODULE Conversions_proofs ---------------------------
(***************************************************************************)
(* The calendar for every year it can write, metadata with any links and any  *)
(* damage to one field, the age of gc for integers of any width, the judgement *)
(* of requests for every token and limit, the links for every server, and the  *)
(* conversions of texts for texts of any length.                             *)
(***************************************************************************)
EXTENDS Conversions, SequenceTheorems, WellFoundedInduction, TLAPS

-----------------------------------------------------------------------------
(* Induction, with the set of the numbers for which something holds.          *)

LEMMA LeastNumber ==
  ASSUME NEW T \in SUBSET Nat, T # {}
  PROVE  \E n \in T : \A k \in T : n <= k
<1> DEFINE R == {p \in Nat \X Nat : p[1] < p[2]}
<1>1. OpToRel(<, Nat) = R
  BY DEF OpToRel
<1>2. IsWellFoundedOn(R, Nat)
  BY <1>1, NatLessThanWellFounded
<1>3. PICK n \in T : \A k \in T : ~(<<k, n>> \in R)
  BY <1>2, WFMin
<1>4. ASSUME NEW k \in T PROVE n <= k
  <2>1. <<k, n>> \in Nat \X Nat /\ <<k, n>>[1] = k /\ <<k, n>>[2] = n
    OBVIOUS
  <2>2. ~(k < n)
    BY <1>3, <2>1
  <2> QED
    BY <2>2
<1> QED
  BY <1>4

LEMMA Induction ==
  ASSUME NEW Q, 0 \in Q, \A n \in Nat : n \in Q => n + 1 \in Q
  PROVE  \A n \in Nat : n \in Q
<1> DEFINE T == {n \in Nat : n \notin Q}
<1> SUFFICES ASSUME T # {} PROVE FALSE
  OBVIOUS
<1>1. PICK n \in T : \A k \in T : n <= k
  BY LeastNumber, T \in SUBSET Nat
<1>2. n # 0 /\ n - 1 \in Nat /\ n - 1 \notin T
  BY <1>1
<1> QED
  BY <1>1, <1>2

-----------------------------------------------------------------------------
(* Years and months that begin in March, in eras of 400 years.               *)

(* A year that ends with the 29th of February.                               *)
EndsLeap(yoe) == (yoe + 1) % 4 = 0 /\ ((yoe + 1) % 100 = 0 => (yoe + 1) % 400 = 0)

LEMMA LeapInEra ==
  ASSUME NEW era \in Int, NEW yoe \in 0..399
  PROVE  IsLeap(yoe + era * 400 + 1) <=> EndsLeap(yoe)
<1>1. /\ (yoe + era * 400 + 1) % 4 = (yoe + 1) % 4
      /\ (yoe + era * 400 + 1) % 100 = (yoe + 1) % 100
      /\ (yoe + era * 400 + 1) % 400 = (yoe + 1) % 400
  OBVIOUS
<1> QED
  BY <1>1 DEF IsLeap, EndsLeap

LEMMA BeforeTypes ==
  ASSUME NEW y \in Int
  PROVE  BeforeYear(y) \in Int /\ BeforeMonth(y) \in Int
BY DEF BeforeYear, BeforeMonth

LEMMA YearLength ==
  ASSUME NEW yoe \in 0..399
  PROVE  /\ yoe < 399 /\ ~EndsLeap(yoe) => BeforeYear(yoe + 1) = BeforeYear(yoe) + 365
         /\ yoe < 399 /\ EndsLeap(yoe) => BeforeYear(yoe + 1) = BeforeYear(yoe) + 366
         /\ yoe = 399 => EndsLeap(yoe) /\ BeforeYear(yoe) + 366 = 146097
         /\ BeforeYear(0) = 0
BY DEF BeforeYear, EndsLeap

LEMMA Quotient ==
  ASSUME NEW x \in Int, NEW k \in {4, 5, 100, 153, 365, 400, 1460, 36524, 146096, 146097}
  PROVE  \E d \in Int : d = x \div k /\ k * d <= x /\ x < k * d + k
<1>1. x \div k \in Int
  OBVIOUS
<1>2. k * (x \div k) <= x /\ x < k * (x \div k) + k
  OBVIOUS
<1> QED
  BY <1>1, <1>2

LEMMA QuotientIs ==
  ASSUME NEW x \in Int, NEW k \in {4, 5, 100, 153, 365, 400, 1460, 36524, 146096, 146097},
         NEW d \in Int, k * d <= x, x < k * d + k
  PROVE  x \div k = d
OBVIOUS

LEMMA YearOfEraIs ==
  ASSUME NEW e \in Int, NEW y \in Int,
         365 * y <= e - e \div 1460 + e \div 36524 - e \div 146096,
         e - e \div 1460 + e \div 36524 - e \div 146096 < 365 * y + 365
  PROVE  YearOfEra(e) = y
<1> DEFINE f == e - e \div 1460 + e \div 36524 - e \div 146096
<1>1. f \in Int
  OBVIOUS
<1>2. YearOfEra(e) = f \div 365
  BY SMT DEF YearOfEra
<1>3. 365 * y <= f /\ f < 365 * y + 365
  OBVIOUS
<1> HIDE DEF f
<1> QED
  BY <1>1, <1>2, <1>3, QuotientIs

(* The formula of the code finds the year again.                             *)
YearFound(y, e) == e \in Int /\ 0 <= e /\ e <= 146096 /\ YearOfEra(e) = y

LEMMA YearOfDay ==
  ASSUME NEW y \in 0..399, NEW n \in 0..365, n = 365 => EndsLeap(y),
         NEW e, e = BeforeYear(y) + n
  PROVE  YearFound(y, e)
<1>1. PICK p \in Int : p = y \div 4 /\ 4 * p <= y /\ y < 4 * p + 4
  BY Quotient
<1>2. PICK q \in Int : q = y \div 100 /\ 100 * q <= y /\ y < 100 * q + 100
  BY Quotient
<1>3. n = 365 => y = 4 * p + 3 /\ (y = 100 * q + 99 => y = 399)
  BY <1>1, <1>2 DEF EndsLeap
<1>4. e = y * 365 + p - q + n /\ e \in Int
  BY <1>1, <1>2 DEF BeforeYear
<1>5. PICK a \in Int : a = e \div 1460 /\ 1460 * a <= e /\ e < 1460 * a + 1460
  BY <1>4, Quotient
<1>6. PICK b \in Int : b = e \div 36524 /\ 36524 * b <= e /\ e < 36524 * b + 36524
  BY <1>4, Quotient
<1>7. PICK c \in Int : c = e \div 146096 /\ 146096 * c <= e /\ e < 146096 * c + 146096
  BY <1>4, Quotient
<1>8. /\ 0 <= e /\ e <= 146096
      /\ 365 * y <= e - a + b - c
      /\ e - a + b - c < 365 * y + 365
  <2>1. /\ y \in Int /\ 0 <= y /\ y <= 399
        /\ n \in Int /\ 0 <= n /\ n <= 365
    OBVIOUS
  <2>2. 4 * p <= y /\ y < 4 * p + 4 /\ 100 * q <= y /\ y < 100 * q + 100
    BY <1>1, <1>2
  <2>3. /\ 1460 * a <= e /\ e < 1460 * a + 1460
        /\ 36524 * b <= e /\ e < 36524 * b + 36524
        /\ 146096 * c <= e /\ e < 146096 * c + 146096
    BY <1>5, <1>6, <1>7
  <2> QED
    BY <2>1, <2>2, <2>3, <1>3, <1>4, SMTT(60)
<1>9. YearOfEra(e) = y
  BY <1>4, <1>5, <1>6, <1>7, <1>8, YearOfEraIs
<1> QED
  BY <1>4, <1>8, <1>9, SMT DEF YearFound

-----------------------------------------------------------------------------
(* The d-th of the month mp after March, y years into an era: its number from    *)
(* 1970 on, and its date.                                                   *)
DayAt(era, y, mp, d) == era * 146097 + (BeforeYear(y) + (BeforeMonth(mp) + d - 1)) - 719468

DateAt(era, y, mp, d) ==
  [year |-> y + era * 400 + (IF mp < 10 THEN 0 ELSE 1),
   month |-> IF mp < 10 THEN mp + 3 ELSE mp - 9,
   day |-> d]

MonthLength(y, mp) ==
  CASE mp = 11 -> IF EndsLeap(y) THEN 29 ELSE 28
    [] mp \in {1, 3, 6, 8} -> 30
    [] OTHER -> 31

DaysOf(y, mp) == 1..MonthLength(y, mp)

MonthEnds(date, y, mp) == MonthDays(date.year, date.month) = MonthLength(y, mp)

LEMMA MonthsAgree ==
  ASSUME NEW era \in Int, NEW y \in 0..399, NEW mp \in 0..11, NEW d,
         NEW date, date = DateAt(era, y, mp, d)
  PROVE  MonthEnds(date, y, mp)
<1>1. CASE mp < 10
  BY <1>1 DEF MonthEnds, MonthDays, DateAt, MonthLength
<1>2. CASE mp = 10
  BY <1>2 DEF MonthEnds, MonthDays, DateAt, MonthLength
<1>3. CASE mp = 11
  BY <1>3, LeapInEra DEF MonthEnds, MonthDays, DateAt, MonthLength
<1> QED
  BY <1>1, <1>2, <1>3

(* The month is found again.                                               *)
MonthFound(y, mp, n) ==
  n \in 0..365 /\ (n = 365 => EndsLeap(y)) /\ (5 * n + 2) \div 153 = mp

LEMMA MonthOfDay ==
  ASSUME NEW y \in 0..399, NEW mp \in 0..11, NEW d \in DaysOf(y, mp),
         NEW n, n = BeforeMonth(mp) + d - 1
  PROVE  MonthFound(y, mp, n)
<1>1. MonthLength(y, mp) \in 28..31 /\ d \in 1..MonthLength(y, mp)
  BY DEF MonthLength, DaysOf
<1>2. /\ 0 <= n
      /\ mp # 11 => n < BeforeMonth(mp + 1)
      /\ mp = 11 => n <= 365
      /\ mp = 11 /\ n = 365 => EndsLeap(y)
  BY <1>1 DEF BeforeMonth, MonthLength
<1> QED
  BY <1>1, <1>2, QuotientIs DEF BeforeMonth, MonthFound

(* Eras are counted from the year 0 on and before it, in years and in days.     *)
EraLengths == {400, 146097}

EraAt(k, era, e, x, z) ==
  /\ k \in EraLengths /\ era \in Int /\ e \in Int /\ x \in Int /\ z \in Int
  /\ 0 <= e /\ e < k /\ x = era * k + e
  /\ z = IF x >= 0 THEN x ELSE x - (k - 1)

LEMMA QuotCuts ==
  ASSUME NEW k, NEW era, NEW e, NEW x, NEW z, EraAt(k, era, e, x, z)
  PROVE  Quot(z, k) = era
<1> USE DEF EraAt
<1> USE DEF EraLengths
<1>1. CASE era >= 0
  <2>1. x >= 0 /\ z = x /\ k * era <= x /\ x < k * era + k
    BY <1>1
  <2>2. x \div k = era
    BY <2>1, QuotientIs
  <2> QED
    BY <2>1, <2>2 DEF Quot
<1>2. CASE era < 0
  <2>1. x < 0 /\ z = x - (k - 1) /\ z < 0
    BY <1>2
  <2>2. -z \in Int /\ -era \in Int /\ k * (-era) <= -z /\ -z < k * (-era) + k
    BY <1>2, <2>1
  <2>3. (-z) \div k = -era
    BY <2>2, QuotientIs
  <2>4. Quot(z, k) = -((-z) \div k)
    BY <2>1 DEF Quot
  <2> QED
    BY <2>3, <2>4
<1> QED
  BY <1>1, <1>2

(* Every date the witnesses can name is written and read back.                 *)
LEMMA DateOfDay ==
  ASSUME NEW era \in Int, NEW y \in 0..399, NEW mp \in 0..11, NEW d \in DaysOf(y, mp),
         NEW day, day = DayAt(era, y, mp, d)
  PROVE  day \in Int /\ CivilFromDays(day) = DateAt(era, y, mp, d)
<1>1. PICK n : n = BeforeMonth(mp) + d - 1
  OBVIOUS
<1>2. n \in 0..365 /\ (n = 365 => EndsLeap(y)) /\ (5 * n + 2) \div 153 = mp
  <2>1. MonthFound(y, mp, n)
    BY <1>1, MonthOfDay, Zenon
  <2> QED
    BY <2>1, SMT DEF MonthFound
<1>3. PICK e : e = BeforeYear(y) + n
  OBVIOUS
<1>4. e \in Int /\ 0 <= e /\ e <= 146096 /\ YearOfEra(e) = y
  <2>1. YearFound(y, e)
    BY <1>2, <1>3, YearOfDay, Zenon
  <2> QED
    BY <2>1, SMT DEF YearFound
<1>5. day = era * 146097 + e - 719468
  BY <1>1, <1>3, SMT DEF DayAt
<1>6. day \in Int /\ day + 719468 = era * 146097 + e
  BY <1>4, <1>5, SMT
<1>7. Quot(IF day + 719468 >= 0 THEN day + 719468 ELSE day + 719468 - 146096, 146097) = era
  <2>1. PICK x \in Int : x = day + 719468
    BY <1>6, SMT
  <2>2. PICK k \in EraLengths : k = 146097
    BY SMT DEF EraLengths
  <2>3. PICK z \in Int : z = IF x >= 0 THEN x ELSE x - (k - 1)
    BY <2>2, SMT
  <2>4. EraAt(k, era, e, x, z)
    BY <1>4, <1>6, <2>1, <2>2, <2>3, SMT DEF EraAt
  <2>5. Quot(z, k) = era
    BY <2>4, QuotCuts, Zenon
  <2> QED
    BY <1>6, <2>1, <2>2, <2>3, <2>5, SMT
<1>8. day + 719468 - era * 146097 = e
  BY <1>4, <1>6, SMT
<1>9. CivilFromDays(day) = CivilInYear(y + era * 400, e - BeforeYear(y))
  BY <1>4, <1>6, <1>7, <1>8, SMT DEF CivilFromDays
<1>10. e - BeforeYear(y) = n
  BY <1>2, <1>3, BeforeTypes, SMT
<1>11. CivilInYear(y + era * 400, n) = DateAt(era, y, mp, d)
  <2>1. n - BeforeMonth(mp) + 1 = d
    BY <1>1, BeforeTypes, SMT DEF DaysOf
  <2> QED
    BY <1>2, <2>1, SMT DEF CivilInYear, DateAt
<1> QED
  BY <1>6, <1>9, <1>10, <1>11, SMT

LEMMA DayOfDate ==
  ASSUME NEW era \in Int, NEW y \in 0..399, NEW mp \in 0..11, NEW d \in Int
  PROVE  LET date == DateAt(era, y, mp, d)
         IN  DaysFromCivil(date.year, date.month, date.day) = DayAt(era, y, mp, d)
<1> DEFINE date == DateAt(era, y, mp, d)
           marchYear == IF date.month <= 2 THEN date.year - 1 ELSE date.year
<1>1. /\ marchYear = y + era * 400
      /\ date.month + (IF date.month > 2 THEN -3 ELSE 9) = mp
      /\ date.day = d
  BY SMT DEF DateAt
<1>2. Quot(IF marchYear >= 0 THEN marchYear ELSE marchYear - 399, 400) = era
  <2> HIDE DEF marchYear, date
  <2>1. PICK x \in Int : x = marchYear
    BY <1>1, SMT
  <2>2. PICK k \in EraLengths : k = 400
    BY SMT DEF EraLengths
  <2>3. PICK z \in Int : z = IF x >= 0 THEN x ELSE x - (k - 1)
    BY <2>2, SMT
  <2>4. EraAt(k, era, y, x, z)
    BY <1>1, <2>1, <2>2, <2>3, SMT DEF EraAt
  <2>5. Quot(z, k) = era
    BY <2>4, QuotCuts, Zenon
  <2> QED
    BY <2>1, <2>2, <2>3, <2>5, SMT
<1>3. marchYear - era * 400 = y
  BY <1>1, SMT
<1>4. DaysFromCivil(date.year, date.month, date.day)
        = era * 146097 + BeforeYear(y) + (BeforeMonth(mp) + d - 1) - 719468
  BY <1>1, <1>2, <1>3, SMT DEF DaysFromCivil
<1> QED
  BY <1>4, BeforeTypes, SMT DEF DayAt

(* The day after.                                                          *)
IsCivil(day, date) ==
  \E era \in Int, y \in 0..399, mp \in 0..11 : \E d \in DaysOf(y, mp) :
     day = DayAt(era, y, mp, d) /\ date = DateAt(era, y, mp, d)

LEMMA CivilIsNamed ==
  ASSUME NEW era \in Int, NEW y \in 0..399, NEW mp \in 0..11, NEW d \in DaysOf(y, mp),
         NEW day, day = DayAt(era, y, mp, d), NEW date, date = DateAt(era, y, mp, d)
  PROVE  IsCivil(day, date)
BY Zenon DEF IsCivil

LEMMA Reset ==
  ASSUME NEW year, NEW month, NEW d, NEW next,
         NEW date, date = [year |-> year, month |-> month, day |-> d]
  PROVE  [date EXCEPT !.day = 1, !.month = next] = [year |-> year, month |-> next, day |-> 1]
<1>1. [[year |-> year, month |-> month, day |-> d] EXCEPT !.day = 1]
        = [year |-> year, month |-> month, day |-> 1]
  OBVIOUS
<1>2. [[year |-> year, month |-> month, day |-> 1] EXCEPT !.month = next]
        = [year |-> year, month |-> next, day |-> 1]
  OBVIOUS
<1>3. [date EXCEPT !.day = 1, !.month = next] = [[date EXCEPT !.day = 1] EXCEPT !.month = next]
  OBVIOUS
<1> QED
  BY <1>1, <1>2, <1>3

Civil(year, month, d) == [year |-> year, month |-> month, day |-> d]

MonthOver(date) == ~(date.day < MonthDays(date.year, date.month))

LEMMA NextMonth ==
  ASSUME NEW year \in Int, NEW month \in 1..11, NEW d \in Int, NEW next, next = month + 1,
         NEW date, date = Civil(year, month, d), MonthOver(date)
  PROVE  Tomorrow(date) = Civil(year, next, 1)
<1>1. Tomorrow(date) = [date EXCEPT !.day = 1, !.month = date.month + 1]
  BY SMT DEF Tomorrow, Civil, MonthOver
<1>2. date.month + 1 = next
  BY SMT DEF Civil
<1> QED
  BY <1>1, <1>2, Reset, Zenon DEF Civil

LEMMA DayAfter ==
  ASSUME NEW day, NEW date, IsCivil(day, date)
  PROVE  IsCivil(day + 1, Tomorrow(date))
<1>1. PICK era \in Int, y \in 0..399, mp \in 0..11 : \E d \in DaysOf(y, mp) :
        day = DayAt(era, y, mp, d) /\ date = DateAt(era, y, mp, d)
  BY Zenon DEF IsCivil
<1>2. PICK d \in DaysOf(y, mp) :
        day = DayAt(era, y, mp, d) /\ date = DateAt(era, y, mp, d)
  BY <1>1, Zenon
<1>3. MonthLength(y, mp) \in 28..31 /\ d \in 1..MonthLength(y, mp)
  BY SMT DEF MonthLength, DaysOf
<1>4. BeforeYear(y) \in Int /\ BeforeMonth(mp) \in Int
  BY BeforeTypes, SMT
<1>5. MonthDays(date.year, date.month) = MonthLength(y, mp)
  <2>1. date = DateAt(era, y, mp, d)
    BY <1>2
  <2>2. MonthEnds(date, y, mp)
    BY <2>1, MonthsAgree, Zenon
  <2> QED
    BY <2>2 DEF MonthEnds
<1>6. date = [year |-> y + era * 400 + (IF mp < 10 THEN 0 ELSE 1),
              month |-> IF mp < 10 THEN mp + 3 ELSE mp - 9, day |-> d]
  BY <1>2, SMT DEF DateAt
<1>7. CASE d < MonthLength(y, mp)
  <2>1. d + 1 \in DaysOf(y, mp)
    BY <1>3, <1>7, SMT DEF DaysOf
  <2>2. day + 1 = DayAt(era, y, mp, d + 1)
    BY <1>2, <1>3, <1>4, SMT DEF DayAt
  <2>3. Tomorrow(date) = DateAt(era, y, mp, d + 1)
    BY <1>3, <1>5, <1>6, <1>7, SMT DEF DateAt, Tomorrow
  <2> QED
    BY <2>1, <2>2, <2>3, CivilIsNamed, Zenon
<1>8. CASE d = MonthLength(y, mp) /\ mp < 11
  <2>1. 1 \in DaysOf(y, mp + 1) /\ mp + 1 \in 0..11
    BY <1>8, SMT DEF MonthLength, DaysOf
  <2>2. BeforeMonth(mp + 1) = BeforeMonth(mp) + d
    BY <1>8, SMT DEF BeforeMonth, MonthLength
  <2>3. day + 1 = DayAt(era, y, mp + 1, 1)
    BY <1>2, <1>3, <1>4, <2>2, SMT DEF DayAt
  <2>4. Tomorrow(date) = DateAt(era, y, mp + 1, 1)
    <3>1. MonthOver(date)
      BY <1>3, <1>5, <1>6, <1>8, SMT DEF MonthOver
    <3>2. CASE mp = 9
      <4>1. date = [year |-> y + era * 400, month |-> 12, day |-> d]
        BY <1>6, <3>2, SMT
      <4>2. Tomorrow(date) = [year |-> y + era * 400 + 1, month |-> 1, day |-> 1]
        BY <3>1, <4>1, SMT DEF Tomorrow, MonthOver
      <4> QED
        BY <3>2, <4>2, SMT DEF DateAt
    <3>3. CASE mp < 9
      <4>1. date = Civil(y + era * 400, mp + 3, d)
        BY <1>6, <3>3, SMT DEF Civil
      <4>2. /\ y + era * 400 \in Int /\ mp + 3 \in 1..11 /\ d \in Int
            /\ mp + 4 = mp + 3 + 1
        BY <1>3, <3>3, SMT
      <4>3. Tomorrow(date) = Civil(y + era * 400, mp + 4, 1)
        BY <3>1, <4>1, <4>2, NextMonth, SMT
      <4> QED
        BY <3>3, <4>3, SMT DEF DateAt, Civil
    <3>4. CASE mp = 10
      <4>1. date = Civil(y + era * 400 + 1, 1, d)
        BY <1>6, <3>4, SMT DEF Civil
      <4>2. y + era * 400 + 1 \in Int /\ 1 \in 1..11 /\ 2 = 1 + 1 /\ d \in Int
        BY <1>3, SMT
      <4>3. Tomorrow(date) = Civil(y + era * 400 + 1, 2, 1)
        BY <3>1, <4>1, <4>2, NextMonth, SMT
      <4> QED
        BY <3>4, <4>3, SMT DEF DateAt, Civil
    <3> QED
      BY <1>8, <3>2, <3>3, <3>4, SMT
  <2> QED
    BY <2>1, <2>3, <2>4, CivilIsNamed, Zenon
<1>9. CASE d = MonthLength(y, mp) /\ mp = 11 /\ y < 399
  <2>1. 1 \in DaysOf(y + 1, 0) /\ y + 1 \in 0..399 /\ 0 \in 0..11
    BY <1>9, SMT DEF MonthLength, DaysOf
  <2>2. BeforeYear(y + 1) = BeforeYear(y) + BeforeMonth(11) + d /\ BeforeMonth(0) = 0
    BY <1>4, <1>9, YearLength, SMT DEF BeforeMonth, MonthLength
  <2>3. day + 1 = DayAt(era, y + 1, 0, 1)
    BY <1>2, <1>3, <1>4, <1>9, <2>2, SMT DEF DayAt
  <2>4. Tomorrow(date) = DateAt(era, y + 1, 0, 1)
    <3>1. date = Civil(y + era * 400 + 1, 2, d)
      BY <1>6, <1>9, SMT DEF Civil
    <3>2. MonthOver(date)
      BY <1>3, <1>5, <1>6, <1>9, SMT DEF MonthOver
    <3>3. y + era * 400 + 1 \in Int /\ 2 \in 1..11 /\ 3 = 2 + 1 /\ d \in Int
      BY <1>3, SMT
    <3>4. Tomorrow(date) = Civil(y + era * 400 + 1, 3, 1)
      BY <3>1, <3>2, <3>3, NextMonth, SMT
    <3> QED
      BY <1>9, <3>4, SMT DEF DateAt, Civil
  <2> QED
    BY <2>1, <2>3, <2>4, CivilIsNamed, Zenon
<1>10. CASE d = MonthLength(y, mp) /\ mp = 11 /\ y = 399
  <2>1. 1 \in DaysOf(0, 0) /\ era + 1 \in Int /\ 0 \in 0..399 /\ 0 \in 0..11
    BY SMT DEF MonthLength, DaysOf
  <2>2. 146097 = BeforeYear(y) + BeforeMonth(11) + d /\ BeforeYear(0) = 0 /\ BeforeMonth(0) = 0
    BY <1>4, <1>10, YearLength, SMT DEF BeforeMonth, MonthLength
  <2>3. day + 1 = DayAt(era + 1, 0, 0, 1)
    BY <1>2, <1>3, <1>4, <1>10, <2>2, SMT DEF DayAt
  <2>4. Tomorrow(date) = DateAt(era + 1, 0, 0, 1)
    <3>1. date = Civil(y + era * 400 + 1, 2, d)
      BY <1>6, <1>10, SMT DEF Civil
    <3>2. MonthOver(date)
      BY <1>3, <1>5, <1>6, <1>10, SMT DEF MonthOver
    <3>3. y + era * 400 + 1 \in Int /\ 2 \in 1..11 /\ 3 = 2 + 1 /\ d \in Int
      BY <1>3, SMT
    <3>4. Tomorrow(date) = Civil(y + era * 400 + 1, 3, 1)
      BY <3>1, <3>2, <3>3, NextMonth, SMT
    <3> QED
      BY <1>10, <3>4, SMT DEF DateAt, Civil
  <2> QED
    BY <2>1, <2>3, <2>4, CivilIsNamed, Zenon
<1>11. \/ d < MonthLength(y, mp)
       \/ d = MonthLength(y, mp) /\ mp < 11
       \/ d = MonthLength(y, mp) /\ mp = 11 /\ y < 399
       \/ d = MonthLength(y, mp) /\ mp = 11 /\ y = 399
  BY <1>3, SMT
<1> QED
  BY <1>7, <1>8, <1>9, <1>10, <1>11, Zenon

(* Dates that the calendar has.                                             *)
InCalendar(date) ==
  /\ date = [year |-> date.year, month |-> date.month, day |-> date.day]
  /\ date.year \in Int /\ date.month \in 1..12
  /\ date.day \in 1..MonthDays(date.year, date.month)

LEMMA CivilDates ==
  ASSUME NEW day, NEW date, IsCivil(day, date)
  PROVE  /\ day \in Int /\ CivilFromDays(day) = date
         /\ DaysFromCivil(date.year, date.month, date.day) = day
         /\ InCalendar(date)
<1>1. PICK era \in Int, y \in 0..399, mp \in 0..11 : \E d \in DaysOf(y, mp) :
        day = DayAt(era, y, mp, d) /\ date = DateAt(era, y, mp, d)
  BY Zenon DEF IsCivil
<1>2. PICK d \in DaysOf(y, mp) :
        day = DayAt(era, y, mp, d) /\ date = DateAt(era, y, mp, d)
  BY <1>1, Zenon
<1>3. day \in Int /\ CivilFromDays(day) = date
  BY <1>2, DateOfDay, Zenon
<1>4. DaysFromCivil(date.year, date.month, date.day) = day
  <2>1. d \in Int
    BY SMT DEF DaysOf, MonthLength
  <2> QED
    BY <1>2, <2>1, DayOfDate, Zenon
<1>5. date.year \in Int /\ date.month \in 1..12 /\ date.day = d
  BY <1>2, SMT DEF DateAt
<1>6. MonthDays(date.year, date.month) = MonthLength(y, mp)
  <2>1. MonthEnds(date, y, mp)
    BY <1>2, MonthsAgree, Zenon
  <2> QED
    BY <2>1 DEF MonthEnds
<1>7. date = [year |-> date.year, month |-> date.month, day |-> date.day]
  BY <1>2, SMT DEF DateAt
<1> QED
  BY <1>3, <1>4, <1>5, <1>6, <1>7, Zenon DEF InCalendar, DaysOf

(* Every day has a date, and every date a day.                                *)
YearSize(y) == IF EndsLeap(y) THEN 366 ELSE 365

EraDays == {e \in Int : 0 <= e /\ e <= 146096}

LEMMA YearOf ==
  ASSUME NEW e \in EraDays
  PROVE  \E y \in 0..399 : BeforeYear(y) <= e /\ e < BeforeYear(y) + YearSize(y)
<1>0. e \in Int /\ 0 <= e /\ e < 146097
  BY SMT DEF EraDays
<1> DEFINE Before(y) == BeforeYear(y) + YearSize(y)
           T == {y \in Nat : e < Before(y)}
<1>1. 399 \in T
  <2>1. Before(399) = 146097
    BY YearLength, 399 \in 0..399, SMT DEF YearSize
  <2> HIDE DEF Before
  <2> QED
    BY <1>0, <2>1, SMT
<1>2. PICK y \in T : \A k \in T : y <= k
  <2> HIDE DEF T
  <2>1. T \in SUBSET Nat
    BY SMT DEF T
  <2> QED
    BY <1>1, <2>1, LeastNumber, SMT
<1>3. y \in 0..399
  BY <1>1, <1>2, SMT
<1>4. e < BeforeYear(y) + YearSize(y)
  OBVIOUS
<1>5. \A k \in Nat : k < y => ~(e < BeforeYear(k) + YearSize(k))
  BY <1>2, <1>3, SMT
<1> HIDE DEF T
<1>6. BeforeYear(y) <= e
  <2>1. CASE y = 0
    BY <1>0, <1>3, <2>1, YearLength, SMT
  <2>2. CASE y > 0
    <3>1. PICK x \in 0..398 : y = x + 1
      BY <1>3, <2>2, y - 1 \in 0..398, SMT
    <3>2. ~(e < BeforeYear(x) + YearSize(x))
      BY <1>5, <3>1, SMT
    <3>3. BeforeYear(y) = BeforeYear(x) + YearSize(x)
      BY <3>1, YearLength, SMT DEF YearSize
    <3>4. BeforeYear(y) \in Int
      BY <1>3, BeforeTypes, SMT
    <3> QED
      BY <1>0, <3>2, <3>3, <3>4, SMT
  <2> QED
    BY <1>3, <2>1, <2>2, SMT
<1> QED
  BY <1>3, <1>4, <1>6, SMT

LEMMA MonthOf ==
  ASSUME NEW y \in 0..399, NEW n \in 0..(YearSize(y) - 1)
  PROVE  \E mp \in 0..11 : \E d \in DaysOf(y, mp) : n = BeforeMonth(mp) + d - 1
<1>1. n \in 0..365 /\ (n = 365 => EndsLeap(y))
  BY SMT DEF YearSize
<1>2. PICK mp \in Int : mp = (5 * n + 2) \div 153 /\ 153 * mp <= 5 * n + 2 /\ 5 * n + 2 < 153 * mp + 153
  BY <1>1, Quotient, SMT
<1>3. mp \in 0..11
  BY <1>1, <1>2, SMT
<1>4. PICK b \in Int : b = BeforeMonth(mp)
  BY <1>3, BeforeTypes, SMT
<1>5. /\ 153 * mp + 2 >= 5 * b /\ 153 * mp + 2 < 5 * b + 5
  BY <1>3, <1>4, Quotient, SMT DEF BeforeMonth
<1>6. /\ 1 <= n - b + 1
      /\ mp \in {0, 2, 4, 5, 7, 9, 10} => n - b + 1 <= 31
      /\ mp \in {1, 3, 6, 8} => n - b + 1 <= 30
      /\ mp = 11 => b = 337
  BY <1>1, <1>2, <1>3, <1>5, SMT
<1>7. n - b + 1 \in DaysOf(y, mp)
  BY <1>1, <1>3, <1>6, SMT DEF DaysOf, MonthLength
<1>8. n = BeforeMonth(mp) + (n - b + 1) - 1
  BY <1>1, <1>4, SMT
<1> QED
  BY <1>3, <1>7, <1>8, Zenon

LEMMA EveryDay ==
  ASSUME NEW day \in Int
  PROVE  \E date : IsCivil(day, date)
<1>1. PICK era \in Int : 146097 * era <= day + 719468 /\ day + 719468 < 146097 * era + 146097
  <2>1. PICK x \in Int : x = day + 719468
    BY SMT
  <2>2. PICK era \in Int : era = x \div 146097
    BY SMT
  <2>3. 146097 * era <= x /\ x < 146097 * era + 146097
    BY <2>2, SMT
  <2> QED
    BY <2>1, <2>3, SMT
<1>2. PICK e \in EraDays : e = day + 719468 - 146097 * era
  <2>1. day + 719468 - 146097 * era \in EraDays
    BY <1>1, SMT DEF EraDays
  <2> QED
    BY <2>1, SMT
<1>3. PICK y \in 0..399 : BeforeYear(y) <= e /\ e < BeforeYear(y) + YearSize(y)
  BY YearOf, Zenon
<1>4. BeforeYear(y) \in Int /\ YearSize(y) \in Int
  BY BeforeTypes, SMT DEF YearSize
<1>5. PICK n \in 0..(YearSize(y) - 1) : e = BeforeYear(y) + n
  <2>1. e - BeforeYear(y) \in 0..(YearSize(y) - 1) /\ e = BeforeYear(y) + (e - BeforeYear(y))
    BY <1>3, <1>4, SMT DEF EraDays
  <2> QED
    BY <2>1, SMT
<1>6. PICK mp \in 0..11 : \E d \in DaysOf(y, mp) : n = BeforeMonth(mp) + d - 1
  BY MonthOf, Zenon
<1>7. PICK d \in DaysOf(y, mp) : n = BeforeMonth(mp) + d - 1
  BY <1>6, Zenon
<1>8. day = DayAt(era, y, mp, d)
  <2>1. d \in Int /\ BeforeMonth(mp) \in Int
    BY BeforeTypes, SMT DEF DaysOf, MonthLength
  <2> QED
    BY <1>2, <1>4, <1>5, <1>7, <2>1, SMT DEF DayAt
<1>9. IsCivil(day, DateAt(era, y, mp, d))
  BY <1>8, CivilIsNamed, Zenon
<1> QED
  BY <1>9, Zenon

LEMMA EveryDate ==
  ASSUME NEW date, InCalendar(date)
  PROVE  IsCivil(DaysFromCivil(date.year, date.month, date.day), date)
<1>1. /\ date = [year |-> date.year, month |-> date.month, day |-> date.day]
      /\ date.year \in Int /\ date.month \in 1..12
      /\ date.day \in 1..MonthDays(date.year, date.month)
  BY DEF InCalendar
<1>2. PICK x \in Int : x = IF date.month <= 2 THEN date.year - 1 ELSE date.year
  BY <1>1, SMT
<1>3. PICK era \in Int : 400 * era <= x /\ x < 400 * era + 400
  <2>1. x \div 400 \in Int /\ 400 * (x \div 400) <= x /\ x < 400 * (x \div 400) + 400
    BY SMT
  <2> QED
    BY <2>1, SMT
<1>4. PICK y \in 0..399 : x = y + era * 400
  BY <1>3, x - era * 400 \in 0..399, SMT
<1>5. PICK mp \in 0..11 : mp = date.month + (IF date.month > 2 THEN -3 ELSE 9)
  BY <1>1, SMT
<1>6. date = DateAt(era, y, mp, date.day)
  <2>1. date.year = y + era * 400 + (IF mp < 10 THEN 0 ELSE 1)
    BY <1>1, <1>2, <1>4, <1>5, SMT
  <2>2. date.month = IF mp < 10 THEN mp + 3 ELSE mp - 9
    BY <1>1, <1>5, SMT
  <2> QED
    BY <1>1, <2>1, <2>2, Zenon DEF DateAt
<1>7. MonthDays(date.year, date.month) = MonthLength(y, mp)
  <2>1. MonthEnds(date, y, mp)
    BY <1>6, MonthsAgree, Zenon
  <2> QED
    BY <2>1 DEF MonthEnds
<1>8. date.day \in DaysOf(y, mp)
  BY <1>1, <1>7, Zenon DEF DaysOf
<1>9. date.day \in Int
  BY <1>8, SMT DEF DaysOf, MonthLength
<1>10. DaysFromCivil(date.year, date.month, date.day) = DayAt(era, y, mp, date.day)
  BY <1>6, <1>9, DayOfDate, Zenon
<1> QED
  BY <1>6, <1>8, <1>10, CivilIsNamed, Zenon

-----------------------------------------------------------------------------
(* The walk over the calendar and the clock.                                   *)

FirstYear == 1970

WalkedDays ==
  /\ input = [kind |-> "date", day |-> input.day, date |-> input.date]
  /\ IsCivil(input.day, input.date)
  /\ input.date.year \in FirstYear..LastYear

Clocks == [hour : 0..23, minute : 0..59, second : 0..59]

Seconds(clock) == 3600 * clock.hour + 60 * clock.minute + clock.second

WalkedSeconds ==
  /\ input = [kind |-> "clock", second |-> input.second, clock |-> input.clock]
  /\ input.clock \in Clocks
  /\ input.second = Seconds(input.clock)

Walked ==
  /\ input.kind = "date" => WalkedDays
  /\ input.kind = "clock" => WalkedSeconds

LEMMA Advance ==
  ASSUME NEW kind, NEW day, NEW date, NEW d, NEW e,
         NEW r, r = [kind |-> kind, day |-> day, date |-> date]
  PROVE  [r EXCEPT !.day = d, !.date = e] = [kind |-> kind, day |-> d, date |-> e]
<1>1. [[kind |-> kind, day |-> day, date |-> date] EXCEPT !.day = d]
        = [kind |-> kind, day |-> d, date |-> date]
  OBVIOUS
<1>2. [[kind |-> kind, day |-> d, date |-> date] EXCEPT !.date = e]
        = [kind |-> kind, day |-> d, date |-> e]
  OBVIOUS
<1>3. [r EXCEPT !.day = d, !.date = e] = [[r EXCEPT !.day = d] EXCEPT !.date = e]
  OBVIOUS
<1> QED
  BY <1>1, <1>2, <1>3

LEMMA Advance2 ==
  ASSUME NEW kind, NEW second, NEW clock, NEW d, NEW e,
         NEW r, r = [kind |-> kind, second |-> second, clock |-> clock]
  PROVE  [r EXCEPT !.second = d, !.clock = e] = [kind |-> kind, second |-> d, clock |-> e]
<1>1. [[kind |-> kind, second |-> second, clock |-> clock] EXCEPT !.second = d]
        = [kind |-> kind, second |-> d, clock |-> clock]
  OBVIOUS
<1>2. [[kind |-> kind, second |-> d, clock |-> clock] EXCEPT !.clock = e]
        = [kind |-> kind, second |-> d, clock |-> e]
  OBVIOUS
<1>3. [r EXCEPT !.second = d, !.clock = e] = [[r EXCEPT !.second = d] EXCEPT !.clock = e]
  OBVIOUS
<1> QED
  BY <1>1, <1>2, <1>3

LEMMA Advance3 ==
  ASSUME NEW hour, NEW minute, NEW second, NEW d, NEW e,
         NEW r, r = [hour |-> hour, minute |-> minute, second |-> second]
  PROVE  [r EXCEPT !.second = d, !.minute = e] = [hour |-> hour, minute |-> e, second |-> d]
<1>1. [[hour |-> hour, minute |-> minute, second |-> second] EXCEPT !.second = d]
        = [hour |-> hour, minute |-> minute, second |-> d]
  OBVIOUS
<1>2. [[hour |-> hour, minute |-> minute, second |-> d] EXCEPT !.minute = e]
        = [hour |-> hour, minute |-> e, second |-> d]
  OBVIOUS
<1>3. [r EXCEPT !.second = d, !.minute = e] = [[r EXCEPT !.second = d] EXCEPT !.minute = e]
  OBVIOUS
<1> QED
  BY <1>1, <1>2, <1>3

LEMMA SecondAfter ==
  ASSUME NEW clock \in Clocks, Seconds(clock) + 1 < DaySeconds
  PROVE  NextSecond(clock) \in Clocks /\ Seconds(NextSecond(clock)) = Seconds(clock) + 1
<1>1. /\ clock = [hour |-> clock.hour, minute |-> clock.minute, second |-> clock.second]
      /\ clock.hour \in 0..23 /\ clock.minute \in 0..59 /\ clock.second \in 0..59
  BY SMT DEF Clocks
<1>2. CASE clock.second < 59
  <2>1. NextSecond(clock)
          = [hour |-> clock.hour, minute |-> clock.minute, second |-> clock.second + 1]
    BY <1>1, <1>2, SMT DEF NextSecond
  <2> QED
    <3>1. NextSecond(clock) \in Clocks
      BY <1>1, <1>2, <2>1, SMT DEF Clocks
    <3>2. Seconds(NextSecond(clock)) = 3600 * clock.hour + 60 * clock.minute + (clock.second + 1)
      BY <2>1, SMT DEF Seconds
    <3>3. Seconds(clock) = 3600 * clock.hour + 60 * clock.minute + clock.second
      BY DEF Seconds
    <3>4. clock.hour \in Int /\ clock.minute \in Int /\ clock.second \in Int
      BY <1>1
    <3> QED
      BY <3>1, <3>2, <3>3, <3>4, SMT
<1>3. CASE clock.second = 59 /\ clock.minute < 59
  <2>1. NextSecond(clock)
          = [hour |-> clock.hour, minute |-> clock.minute + 1, second |-> 0]
    <3>1. NextSecond(clock) = [clock EXCEPT !.second = 0, !.minute = clock.minute + 1]
      BY <1>1, <1>3, SMT DEF NextSecond
    <3> QED
      BY <1>1, <3>1, Advance3, Zenon
  <2> QED
    BY <1>1, <1>3, <2>1, SMT DEF Clocks, Seconds
<1>4. CASE clock.second = 59 /\ clock.minute = 59
  <2>1. NextSecond(clock) = [hour |-> clock.hour + 1, minute |-> 0, second |-> 0]
    BY <1>1, <1>4, SMT DEF NextSecond
  <2>2. clock.hour < 23
    BY <1>1, <1>4, SMT DEF Seconds, DaySeconds
  <2> QED
    BY <1>1, <1>4, <2>1, <2>2, SMT DEF Clocks, Seconds
<1> QED
  BY <1>1, <1>2, <1>3, <1>4, SMT

LEMMA EpochIsCivil ==
  IsCivil(0, Epoch.date)
<1>1. 4 \in Nat /\ 369 \in 0..399 /\ 10 \in 0..11 /\ 1 \in DaysOf(369, 10)
  BY SMT DEF DaysOf, MonthLength
<1>2. BeforeYear(369) = 134774 /\ BeforeMonth(10) = 306
  BY SMT DEF BeforeYear, BeforeMonth
<1>3. 0 = DayAt(4, 369, 10, 1)
  BY <1>2, SMT DEF DayAt
<1>4. Epoch.date = DateAt(4, 369, 10, 1)
  BY SMT DEF DateAt, Epoch
<1> QED
  BY <1>1, <1>3, <1>4, CivilIsNamed, SMT

LEMMA WalkBegins ==
  Init => Walked
<1> SUFFICES ASSUME Init PROVE Walked
  OBVIOUS
<1>1. CASE input \in Cases
  BY <1>1, CaseAssumption, SMT DEF Walked
<1>2. CASE input = Epoch
  <2>1. /\ input.kind = "date" /\ input.day = 0
        /\ input.date = Epoch.date /\ input.date.year = 1970
        /\ input = [kind |-> "date", day |-> input.day, date |-> input.date]
    BY <1>2, SMT DEF Epoch
  <2>2. IsCivil(input.day, input.date)
    <3>1. input.day = 0 /\ input.date = Epoch.date
      BY <2>1
    <3> QED
      BY <3>1, EpochIsCivil
  <2>3. input.date.year \in FirstYear..LastYear
    BY <2>1, CalendarAssumption, SMT DEF FirstYear
  <2> QED
    BY <2>1, <2>2, <2>3, SMT DEF Walked, WalkedDays
<1>3. CASE input = Midnight
  BY <1>3, SMT DEF Walked, WalkedSeconds, Midnight, Clocks, Seconds
<1> QED
  BY <1>1, <1>2, <1>3 DEF Init

LEMMA WalkGoesOn ==
  Walked /\ [Next]_input => Walked'
<1> SUFFICES ASSUME Walked, [Next]_input PROVE Walked'
  OBVIOUS
<1>1. CASE NextDay
  <2>1. input.kind = "date" /\ WalkedDays
    BY <1>1, Zenon DEF Walked, NextDay
  <2>2. IsCivil(input.day + 1, Tomorrow(input.date))
    BY <2>1, DayAfter, Zenon DEF WalkedDays
  <2>3. input' = [input EXCEPT !.day = input.day + 1, !.date = Tomorrow(input.date)]
    BY <1>1, Zenon DEF NextDay
  <2>4. input' = [kind |-> "date", day |-> input.day + 1, date |-> Tomorrow(input.date)]
    BY <2>1, <2>3, Advance, Zenon DEF WalkedDays
  <2>5. /\ input'.kind = "date" /\ input'.day = input.day + 1
        /\ input'.date = Tomorrow(input.date)
        /\ input' = [kind |-> "date", day |-> input'.day, date |-> input'.date]
    BY <2>4, SMT
  <2>6. Tomorrow(input.date).year \in FirstYear..LastYear
    <3>1. Tomorrow(input.date).year <= LastYear
      BY <1>1, Zenon DEF NextDay
    <3>2. input.date.year \in FirstYear..LastYear /\ LastYear \in Int /\ FirstYear \in Int
      BY <2>1, CalendarAssumption, SMT DEF WalkedDays, FirstYear
    <3>3. Tomorrow(input.date).year \in {input.date.year, input.date.year + 1}
      <4>1. InCalendar(input.date)
        BY <2>1, CivilDates, Zenon DEF WalkedDays
      <4> QED
        BY <4>1, SMT DEF Tomorrow, InCalendar
    <3> QED
      BY <3>1, <3>2, <3>3, SMT
  <2> QED
    BY <2>2, <2>5, <2>6, SMT DEF Walked, WalkedDays
<1>2. CASE Tick
  <2>1. input.kind = "clock" /\ WalkedSeconds
    BY <1>2, Zenon DEF Walked, Tick
  <2>2. input' = [input EXCEPT !.second = input.second + 1, !.clock = NextSecond(input.clock)]
    BY <1>2, Zenon DEF Tick
  <2>3. input' = [kind |-> "clock", second |-> input.second + 1,
                  clock |-> NextSecond(input.clock)]
    BY <2>1, <2>2, Advance2, Zenon DEF WalkedSeconds
  <2>4. /\ input'.kind = "clock" /\ input'.second = input.second + 1
        /\ input'.clock = NextSecond(input.clock)
        /\ input' = [kind |-> "clock", second |-> input'.second, clock |-> input'.clock]
    BY <2>3, SMT
  <2>5. /\ NextSecond(input.clock) \in Clocks
        /\ Seconds(NextSecond(input.clock)) = Seconds(input.clock) + 1
    <3>1. Seconds(input.clock) + 1 < DaySeconds
      BY <1>2, <2>1, SMT DEF Tick, WalkedSeconds
    <3> QED
      BY <2>1, <3>1, SecondAfter DEF WalkedSeconds
  <2> QED
    BY <2>1, <2>4, <2>5, SMT DEF Walked, WalkedSeconds
<1>3. CASE UNCHANGED input
  BY <1>3, Zenon DEF Walked, WalkedDays, WalkedSeconds
<1> QED
  BY <1>1, <1>2, <1>3 DEF Next

-----------------------------------------------------------------------------
DateText(year, month, d, h, m, s) ==
  [year |-> year, month |-> month, day |-> d, hour |-> h, minute |-> m, second |-> s,
   cut |-> {}, layout |-> "rfc3339"]

Years == SmallestYear..LargestYear

InDay(h, m, s) == h * 3600 + m * 60 + s

ReadBack(text, day, second) == ParseRfc3339(text) = [ok |-> TRUE, time |-> Time(day, second)]

(* Nothing is missing in a text of six numbers.                               *)
AllThere(text) == \A i \in 1..6 : Slices[i] \in DOMAIN text

LEMMA ReadingIs ==
  ASSUME NEW text, AllThere(text)
  PROVE  ParseRfc3339(text) =
           IF /\ text.layout \notin {"length", "separators"}
              /\ text.month \in 1..12 /\ text.day \in 1..31
              /\ text.hour <= 23 /\ text.minute <= 59 /\ text.second <= 60
             THEN [ok |-> TRUE,
                   time |-> Time(DaysFromCivil(text.year, text.month, text.day),
                                 InDay(text.hour, text.minute, text.second))]
             ELSE NoTime
<1>1. ~\E i \in 1..6 : FailsAt(text, i) /\ Slices[i] \in text.cut
  BY Zenon DEF AllThere, FailsAt
<1> QED
  BY <1>1 DEF AllThere, ParseRfc3339, InDay

LEMMA YearsAre ==
  ASSUME NEW year \in Int, -999 <= year, year <= 9999
  PROVE  year \in Years
<1>1. /\ SmallestYear \in Int /\ SmallestYear <= year
      /\ LargestYear \in Int /\ year <= LargestYear
  BY SMT DEF SmallestYear, LargestYear
<1> QED
  BY <1>1, SMT DEF Years

LEMMA DateTextIs ==
  ASSUME NEW year, NEW month, NEW d, NEW h, NEW m, NEW s,
         NEW text, text = DateText(year, month, d, h, m, s)
  PROVE  /\ text.year = year /\ text.month = month /\ text.day = d
         /\ text.hour = h /\ text.minute = m /\ text.second = s
         /\ text.cut = {} /\ text.layout = "rfc3339"
         /\ AllThere(text)
<1>1. DOMAIN text = {"year", "month", "day", "hour", "minute", "second", "cut", "layout"}
  BY DEF DateText
<1>2. AllThere(text)
  BY <1>1 DEF AllThere, Slices
<1> QED
  BY <1>2 DEF DateText

LEMMA ParseIs ==
  ASSUME NEW year, NEW month \in 1..12, NEW d \in 1..31,
         NEW h \in 0..23, NEW m \in 0..59, NEW s \in 0..59,
         NEW text, text = DateText(year, month, d, h, m, s),
         NEW second, second = InDay(h, m, s),
         NEW day, day = DaysFromCivil(year, month, d)
  PROVE  ReadBack(text, day, second)
<1>1. /\ text.year = year /\ text.month = month /\ text.day = d
      /\ text.hour = h /\ text.minute = m /\ text.second = s
      /\ text.layout = "rfc3339" /\ AllThere(text)
  BY DateTextIs
<1>2. /\ text.month \in 1..12 /\ text.day \in 1..31
      /\ text.hour <= 23 /\ text.minute <= 59 /\ text.second <= 60
  BY <1>1
<1>3. ParseRfc3339(text)
        = [ok |-> TRUE,
           time |-> Time(DaysFromCivil(text.year, text.month, text.day),
                         InDay(text.hour, text.minute, text.second))]
  BY <1>1, <1>2, ReadingIs
<1>4. /\ DaysFromCivil(text.year, text.month, text.day) = day
      /\ InDay(text.hour, text.minute, text.second) = second
  BY <1>1, Zenon
<1> QED
  BY <1>3, <1>4, Zenon DEF ReadBack

DayIsRight(day, date) ==
  LET text == FormatRfc3339(Time(day, 0)) IN
  /\ [year |-> text.year, month |-> text.month, day |-> text.day] = date
  /\ ParseRfc3339(text) = [ok |-> TRUE, time |-> Time(day, 0)]

SecondIsRight(second, clock) ==
  LET text == FormatRfc3339(Time(0, second)) IN
  /\ [hour |-> text.hour, minute |-> text.minute, second |-> text.second] = clock
  /\ ParseRfc3339(text) = [ok |-> TRUE, time |-> Time(0, second)]

(* A time, its date and its clock.                                          *)
Moment(time, date, h, m, s) ==
  /\ time.day \in Int /\ time = [day |-> time.day, second |-> InDay(h, m, s)]
  /\ h \in 0..23 /\ m \in 0..59 /\ s \in 0..59
  /\ CivilFromDays(time.day) = date /\ date.year \in Years

LEMMA DateIsWritten ==
  ASSUME NEW time, NEW date, NEW h, NEW m, NEW s, Moment(time, date, h, m, s)
  PROVE  /\ FormatRfc3339(time) = DateText(date.year, date.month, date.day, h, m, s)
         /\ Time(time.day, InDay(h, m, s)) = time
<1>1. PICK second : second = InDay(h, m, s)
  OBVIOUS
<1>2. h \in 0..23 /\ m \in 0..59 /\ s \in 0..59
  BY Zenon DEF Moment
<1>3. /\ second \in Nat /\ second < 86400
      /\ second \div 3600 = h /\ (second % 3600) \div 60 = m /\ second % 60 = s
  BY <1>1, <1>2, SMT DEF InDay
<1>4. PICK day \in Int : day = time.day
  BY Zenon DEF Moment
<1>5. time = [day |-> day, second |-> second] /\ time.second = second
  BY <1>1, <1>4 DEF Moment
<1>6. CivilFromDays(day) = date /\ date.year \in Years
  BY <1>4, Zenon DEF Moment
<1>7. FormatRfc3339(time) = DateText(date.year, date.month, date.day, h, m, s)
  BY <1>3, <1>4, <1>5, <1>6, SMT DEF FormatRfc3339, DateText, Years
<1>8. Time(day, second) = [day |-> day, second |-> second]
  BY <1>3, SMT DEF Time, DaySeconds
<1> QED
  BY <1>1, <1>4, <1>5, <1>7, <1>8, Zenon

LEMMA DaysAreRight ==
  ASSUME NEW day, NEW date, IsCivil(day, date), date.year \in FirstYear..LastYear
  PROVE  DayIsRight(day, date)
<1>1. date.year \in Years
  <2>1. LastYear \in Int /\ LastYear <= 9999
    BY CalendarAssumption, SMT DEF LargestYear
  <2>2. date.year \in Int /\ 1970 <= date.year /\ date.year <= 9999
    BY <2>1, SMT DEF FirstYear
  <2> QED
    BY <2>2, YearsAre
<1>2. day \in Int /\ CivilFromDays(day) = date /\ InCalendar(date)
      /\ DaysFromCivil(date.year, date.month, date.day) = day
  BY CivilDates, Zenon
<1>3. Time(day, 0) = [day |-> day, second |-> 0]
  BY <1>2, SMT DEF Time, DaySeconds
<1>4. FormatRfc3339(Time(day, 0)) = DateText(date.year, date.month, date.day, 0, 0, 0)
  <2>1. Moment(Time(day, 0), date, 0, 0, 0)
    BY <1>1, <1>2, <1>3, SMT DEF Moment, InDay
  <2> QED
    BY <2>1, DateIsWritten
<1>5. ReadBack(FormatRfc3339(Time(day, 0)), day, 0)
  <2>1. 0 = InDay(0, 0, 0) /\ 0 \in 0..23 /\ 0 \in 0..59
    BY SMT DEF InDay
  <2>2. date.month \in 1..12 /\ date.day \in 1..31
    BY <1>2, SMT DEF InCalendar, MonthDays
  <2> QED
    BY <1>2, <1>4, <2>1, <2>2, ParseIs, Zenon
<1>6. date = [year |-> date.year, month |-> date.month, day |-> date.day]
  BY <1>2, Zenon DEF InCalendar
<1> QED
  BY <1>4, <1>5, <1>6, DateTextIs DEF DayIsRight, ReadBack

LEMMA SecondsAreRight ==
  ASSUME NEW clock \in Clocks, NEW second, second = Seconds(clock)
  PROVE  SecondIsRight(second, clock)
<1>1. /\ clock = [hour |-> clock.hour, minute |-> clock.minute, second |-> clock.second]
      /\ clock.hour \in 0..23 /\ clock.minute \in 0..59 /\ clock.second \in 0..59
  BY SMT DEF Clocks
<1>2. PICK h \in 0..23, m \in 0..59, s \in 0..59 :
        h = clock.hour /\ m = clock.minute /\ s = clock.second
  BY <1>1
<1>3. second = 3600 * h + 60 * m + s
  BY <1>2 DEF Seconds
<1>4. second \in Nat /\ second = InDay(h, m, s) /\ second < 86400
  BY <1>3, SMT DEF InDay
<1>5. Time(0, second) = [day |-> 0, second |-> second]
  BY <1>4, SMT DEF Time, DaySeconds
<1>6. PICK date : date = CivilFromDays(0)
  OBVIOUS
<1>7. date = [year |-> 1970, month |-> 1, day |-> 1]
  BY <1>6, SMT DEF CivilFromDays, CivilInYear, YearOfEra, BeforeYear, BeforeMonth, Quot
<1>8. DaysFromCivil(date.year, date.month, date.day) = 0
  BY <1>7, SMT DEF DaysFromCivil, BeforeYear, BeforeMonth, Quot
<1>9. date.year \in Years /\ date.month \in 1..12 /\ date.day \in 1..31
  <2>1. date.year \in Int /\ -999 <= date.year /\ date.year <= 9999
    BY <1>7, SMT
  <2> QED
    BY <1>7, <2>1, YearsAre
<1>10. FormatRfc3339(Time(0, second)) = DateText(date.year, date.month, date.day, h, m, s)
  <2>1. Moment(Time(0, second), date, h, m, s)
    BY <1>4, <1>5, <1>6, <1>9, SMT DEF Moment
  <2> QED
    BY <2>1, DateIsWritten
<1>11. ReadBack(FormatRfc3339(Time(0, second)), 0, second)
  <2>1. second = InDay(h, m, s)
    BY <1>4
  <2>2. PICK text : text = DateText(date.year, date.month, date.day, h, m, s)
    OBVIOUS
  <2>3. PICK day : day = DaysFromCivil(date.year, date.month, date.day)
    OBVIOUS
  <2>4. ReadBack(text, day, second)
    BY <1>9, <2>1, <2>2, <2>3, ParseIs, Zenon
  <2> QED
    BY <1>8, <1>10, <2>2, <2>3, <2>4, Zenon
<1> QED
  BY <1>1, <1>2, <1>10, <1>11, DateTextIs DEF SecondIsRight, ReadBack

(* A time that a server writes is the date and the hour it is in UTC, and is     *)
(* read back as that time: for every day up to the last year the metadata can  *)
(* hold and every second of a day (model.rs: format_rfc3339, parse_rfc3339).  *)
THEOREM DatesAreRight ==
  Spec => []CalendarIsRight
<1>1. Walked => CalendarIsRight
  <2> SUFFICES ASSUME Walked PROVE CalendarIsRight
    OBVIOUS
  <2>1. CASE input.kind = "date"
    BY <2>1, DaysAreRight, SMT DEF Walked, WalkedDays, CalendarIsRight, DayIsRight
  <2>2. CASE input.kind = "clock"
    BY <2>2, SecondsAreRight, SMT DEF Walked, WalkedSeconds, CalendarIsRight, SecondIsRight
  <2> QED
    BY <2>1, <2>2 DEF CalendarIsRight
<1> QED
  BY <1>1, WalkBegins, WalkGoesOn, PTL DEF Spec

-----------------------------------------------------------------------------
(* The cases that are no walk stay what they are.                              *)
IsCase == input.kind \in {"date", "clock"} \/ input \in Cases

LEMMA CasesStay ==
  Spec => []IsCase
<1>1. Init => IsCase
  BY DEF Init, IsCase, Epoch, Midnight
<1>2. IsCase /\ [Next]_input => IsCase'
  <2> SUFFICES ASSUME IsCase, [Next]_input PROVE IsCase'
    OBVIOUS
  <2>1. CASE NextDay
    <3>1. input' = [input EXCEPT !.day = input.day + 1, !.date = Tomorrow(input.date)]
      BY <2>1, Zenon DEF NextDay
    <3>2. input.kind = "date" /\ input \notin Cases
      BY <2>1, CaseAssumption DEF NextDay
    <3> QED
      BY <3>1, <3>2 DEF IsCase
  <2>2. CASE Tick
    <3>1. input' = [input EXCEPT !.second = input.second + 1, !.clock = NextSecond(input.clock)]
      BY <2>2, Zenon DEF Tick
    <3>2. input.kind = "clock" /\ input \notin Cases
      BY <2>2, CaseAssumption DEF Tick
    <3> QED
      BY <3>1, <3>2 DEF IsCase
  <2>3. CASE UNCHANGED input
    BY <2>3 DEF IsCase
  <2> QED
    BY <2>1, <2>2, <2>3 DEF Next
<1> QED
  BY <1>1, <1>2, PTL DEF Spec

(* Ages of gc: any number of any unit, and any time of an i64 after 1970.      *)
AgesAreTyped ==
  \A case \in Cases : case.kind = "age" =>
    case.amount \in Nat /\ case.unit \in {"d", "h", "m", "s"} /\ case.now \in 0..(I64 - 1)

(* gc keeps an age that an i64 holds, exactly; a longer one it takes for a time   *)
(* to come, and so removes valid builds, unless the product saturates: for any  *)
(* number of any unit and integers of any width (config.rs: parse_age,          *)
(* store.rs: run_gc).                                                       *)
THEOREM GcTakesTheAge ==
  ASSUME AgesAreTyped
  PROVE  Spec => []AgeSaysWhatGoes
<1>1. IsCase => AgeSaysWhatGoes
  <2> SUFFICES ASSUME IsCase, input.kind = "age" PROVE AgeSaysWhatGoes
    BY DEF AgeSaysWhatGoes
  <2>1. input.amount \in Nat /\ input.unit \in {"d", "h", "m", "s"} /\ input.now \in 0..(I64 - 1)
    BY AgesAreTyped DEF AgesAreTyped, IsCase
  <2>2. PICK seconds \in Nat : seconds = input.amount * UnitSeconds[input.unit]
    BY <2>1 DEF UnitSeconds
  <2>3. I64 \in Nat /\ I64 > 0 /\ U64 = 2 * I64
    BY RangeAssumption DEF U64
  <2>4. ParseAge(input) = IF seconds < U64 THEN seconds ELSE U64 - 1
    BY <2>2 DEF ParseAge, SaturatingMul
  <2>5. seconds < I64 => Threshold(input.now, input) = input.now - seconds
    BY <2>1, <2>3, <2>4 DEF Threshold, AsI64, SaturatingSub
  <2>6. PICK ahead \in Nat : ahead = IF seconds < U64 THEN U64 - seconds ELSE 1
    BY <2>3
  <2>7. seconds >= I64 => AsI64(ParseAge(input)) = 0 - ahead /\ ahead <= I64
    BY <2>3, <2>4, <2>6 DEF AsI64
  <2>8. seconds >= I64 => Threshold(input.now, input) =
                            IF input.now + ahead < I64 THEN input.now + ahead ELSE I64 - 1
    BY <2>1, <2>3, <2>7 DEF Threshold, SaturatingSub
  <2> QED
    BY <2>1, <2>2, <2>3, <2>5, <2>6, <2>8 DEF AgeSaysWhatGoes
<1> QED
  BY <1>1, CasesStay, PTL

-----------------------------------------------------------------------------
(* Requests: headers and fields that are there or not, of any value.           *)
OneOf(S) == {<<>>} \union {<<x>> : x \in S}

Bytes == Nat

HeadersOf == OneOf([text : BOOLEAN, bearer : BOOLEAN, token : Seq(Bytes)])

BodiesOf ==
  [json : {"bad", "list", "object"}, size : Nat, extra : BOOLEAN,
   name : OneOf(Nat), source_format : OneOf(STRING), source : OneOf(Nat),
   sign_mode : OneOf(STRING), ttl_seconds : OneOf(Int)]

RequestsAreTyped ==
  /\ AuthToken \in Seq(Bytes)
  /\ \A case \in Cases : case.kind = "request" =>
       /\ case.route \in {"health", "builds", "metadata", "download"}
       /\ case.header \in HeadersOf
       /\ case.body \in BodiesOf

(* The comparison of tokens finds equal tokens, whatever their length.         *)
LEMMA EqualTokens ==
  ASSUME NEW a \in Seq(Bytes), NEW b \in Seq(Bytes)
  PROVE  ConstantTimeEq(a, b) <=> a = b
<1>1. ASSUME ConstantTimeEq(a, b) PROVE a = b
  <2>1. Len(a) = Len(b) /\ \A i \in 1..Len(a) : ByteAt(a, i) = ByteAt(b, i)
    BY <1>1 DEF ConstantTimeEq, MaxLen
  <2>2. \A i \in 1..Len(a) : a[i] = b[i]
    BY <2>1 DEF ByteAt
  <2> QED
    BY <2>1, <2>2, SeqEqual
<1>2. ASSUME a = b PROVE ConstantTimeEq(a, b)
  BY <1>2 DEF ConstantTimeEq
<1> QED
  BY <1>1, <1>2

Authorized(header) ==
  header # <<>> /\ header[1] = [text |-> TRUE, bearer |-> TRUE, token |-> AuthToken]

LEMMA AuthorizedIs ==
  ASSUME NEW header \in HeadersOf, AuthToken \in Seq(Bytes)
  PROVE  IsAuthorized(header) <=> Authorized(header)
<1>1. CASE header = <<>>
  BY <1>1 DEF IsAuthorized, Authorized
<1>2. CASE header # <<>>
  <2>1. PICK h \in [text : BOOLEAN, bearer : BOOLEAN, token : Seq(Bytes)] : header = <<h>>
    BY <1>2 DEF HeadersOf, OneOf
  <2>2. header[1] = h /\ header # <<>>
    BY <1>2, <2>1
  <2>3. h.token \in Seq(Bytes)
    OBVIOUS
  <2>4. IsAuthorized(header) <=> h.text /\ h.bearer /\ h.token = AuthToken
    BY <2>2, <2>3, EqualTokens DEF IsAuthorized
  <2>5. h = [text |-> TRUE, bearer |-> TRUE, token |-> AuthToken]
          <=> h.text /\ h.bearer /\ h.token = AuthToken
    OBVIOUS
  <2> QED
    BY <2>2, <2>4, <2>5 DEF Authorized
<1> QED
  BY <1>1, <1>2

KeepsLimits(body) ==
  /\ body.json = "object" /\ ~body.extra /\ body.size <= BodyLimit
  /\ \E n \in 1..80, s \in 1..MaxSourceBytes : body.name = <<n>> /\ body.source = <<s>>
  /\ body.source_format = <<"cherri">>
  /\ body.sign_mode \in {<<>>, <<"anyone">>}
  /\ body.ttl_seconds # <<>> => body.ttl_seconds[1] \in MinTtl..MaxTtl

Refusals == {ValidationFailed, PayloadTooLarge, BodyTooLarge}

LEMMA RepliesDiffer ==
  /\ \A refusal \in Refusals \union {Unauthorized, NotFound} : \A what : refusal # Reached(what)
  /\ Unauthorized.code # "PAYLOAD_TOO_LARGE"
  /\ \A refusal \in Refusals : refusal.code = "PAYLOAD_TOO_LARGE" => refusal = PayloadTooLarge
  /\ Reached("submit").code # "PAYLOAD_TOO_LARGE"
BY DEF Refusals, Unauthorized, NotFound, ValidationFailed, PayloadTooLarge, BodyTooLarge,
       Reached, Reply

LEMMA TtlKeepsLimits ==
  ASSUME NEW body \in BodiesOf
  PROVE  Ttl(body) \in MinTtl..MaxTtl
           <=> (body.ttl_seconds # <<>> => body.ttl_seconds[1] \in MinTtl..MaxTtl)
<1>1. MinTtl \in Int /\ MaxTtl \in Int /\ 0 < MinTtl /\ MinTtl <= MaxTtl
  BY SMT DEF MinTtl, MaxTtl
<1>2. CASE body.ttl_seconds = <<>>
  BY <1>1, <1>2 DEF Ttl, Missing
<1>3. CASE body.ttl_seconds # <<>>
  <2>1. PICK t \in Int : t = body.ttl_seconds[1]
    BY <1>3 DEF BodiesOf, OneOf
  <2>2. Ttl(body) = IF t < 0 THEN 0 ELSE t
    BY <1>3, <2>1 DEF Ttl, Missing
  <2>3. (IF t < 0 THEN 0 ELSE t) \in MinTtl..MaxTtl <=> t \in MinTtl..MaxTtl
    BY <1>1, SMT
  <2> QED
    BY <1>3, <2>1, <2>2, <2>3, Zenon
<1> QED
  BY <1>2, <1>3, Zenon

(* The validation refuses a request that breaks a limit, and no other.         *)
LEMMA BodiesAreJudged ==
  ASSUME NEW body \in BodiesOf
  PROVE  /\ BuildHandler(body) \in Refusals \union {Reached("submit")}
         /\ BuildHandler(body) = Reached("submit") <=> KeepsLimits(body)
         /\ BuildHandler(body) = PayloadTooLarge => body.source[1] > MaxSourceBytes
<1>1. /\ body.name \in OneOf(Nat) /\ body.source \in OneOf(Nat)
      /\ body.source_format \in OneOf(STRING) /\ body.sign_mode \in OneOf(STRING)
  BY DEF BodiesOf
<1>2. body.size \in Nat /\ BodyLimit \in Nat /\ MaxSourceBytes \in Nat
  BY ApiAssumption DEF BodiesOf, BodyLimit
<1>3. /\ Reached("submit") \notin Refusals /\ PayloadTooLarge # ValidationFailed
      /\ PayloadTooLarge # BodyTooLarge
  BY DEF Refusals, ValidationFailed, PayloadTooLarge, BodyTooLarge, Reached, Reply
<1>4. CASE body.size > BodyLimit
  BY <1>2, <1>3, <1>4 DEF BuildHandler, KeepsLimits, Refusals
<1>5. CASE body.size <= BodyLimit /\ ~ParsesAsRequest(body)
  <2>1. BuildHandler(body) = ValidationFailed
    BY <1>2, <1>5 DEF BuildHandler, ParseBuildRequest
  <2>2. ~KeepsLimits(body)
    BY <1>5 DEF ParsesAsRequest, KeepsLimits, Missing
  <2> QED
    BY <1>3, <2>1, <2>2 DEF Refusals
<1>6. CASE body.size <= BodyLimit /\ ParsesAsRequest(body)
  <2>1. /\ body.json = "object" /\ ~body.extra /\ body.name # <<>> /\ body.source # <<>>
        /\ body.source_format # <<>>
    BY <1>6 DEF ParsesAsRequest, Missing
  <2>2. PICK n \in Nat, s \in Nat, f \in STRING :
          body.name = <<n>> /\ body.source = <<s>> /\ body.source_format = <<f>>
    BY <1>1, <2>1 DEF OneOf
  <2>3. body.name[1] = n /\ body.source[1] = s /\ body.source_format[1] = f
    BY <2>2
  <2>4. body.sign_mode # <<>> /\ body.sign_mode[1] # "anyone" <=> body.sign_mode \notin {<<>>, <<"anyone">>}
    BY <1>1 DEF OneOf
  <2>5. KeepsLimits(body) <=> /\ n \in 1..MaxName /\ s \in 1..MaxSourceBytes /\ f = "cherri"
                              /\ body.sign_mode \in {<<>>, <<"anyone">>}
                              /\ Ttl(body) \in MinTtl..MaxTtl
    BY <1>6, <2>1, <2>2, TtlKeepsLimits DEF KeepsLimits, MaxName
  <2>6. BuildHandler(body) = ParseBuildRequest(body)
    BY <1>2, <1>6 DEF BuildHandler
  <2>7. CASE n \notin 1..MaxName \/ f # "cherri" \/ s = 0
    <3>1. BuildHandler(body) = ValidationFailed
      BY <1>6, <2>3, <2>6, <2>7 DEF ParseBuildRequest
    <3>2. ~KeepsLimits(body)
      BY <2>5, <2>7
    <3> QED
      BY <1>3, <3>1, <3>2 DEF Refusals
  <2>8. CASE n \in 1..MaxName /\ f = "cherri" /\ s # 0
    <3>1. BuildHandler(body)
            = IF s > MaxSourceBytes THEN PayloadTooLarge
              ELSE IF \/ body.sign_mode # Missing /\ body.sign_mode[1] # "anyone"
                      \/ Ttl(body) \notin MinTtl..MaxTtl THEN ValidationFailed
              ELSE Reached("submit")
      BY <1>6, <2>3, <2>6, <2>8 DEF ParseBuildRequest
    <3>2. s \in 1..MaxSourceBytes <=> ~(s > MaxSourceBytes)
      BY <1>2, <2>8
    <3> QED
      BY <1>3, <2>3, <2>4, <2>5, <2>8, <3>1, <3>2 DEF Refusals, Missing
  <2> QED
    BY <2>7, <2>8
<1> QED
  BY <1>2, <1>4, <1>5, <1>6

(* Without the token of the configuration, all of it and nothing after it, a  *)
(* request under /api gets the same answer whatever it holds, and /health      *)
(* nothing of the tools; with it, a build is submitted just when the request   *)
(* keeps every limit: for every token, every limit of a source and every value *)
(* of the fields (http.rs: auth_middleware, health_handler; model.rs:          *)
(* parse_build_request).                                                     *)
THEOREM EveryRequestIsJudged ==
  ASSUME RequestsAreTyped
  PROVE  Spec => []RequestsAreJudged
<1>1. IsCase => RequestsAreJudged
  <2> SUFFICES ASSUME IsCase, input.kind = "request" PROVE RequestsAreJudged
    BY DEF RequestsAreJudged
  <2>1. /\ input.route \in {"health", "builds", "metadata", "download"}
        /\ input.header \in HeadersOf /\ input.body \in BodiesOf
        /\ AuthToken \in Seq(Bytes)
    BY RequestsAreTyped DEF RequestsAreTyped, IsCase
  <2>2. PICK answer : answer = Answer(input)
    OBVIOUS
  <2>3. PICK authorized \in BOOLEAN :
          /\ authorized <=> Authorized(input.header)
          /\ authorized <=> IsAuthorized(input.header)
    BY <2>1, AuthorizedIs
  <2>4. PICK judged : judged = BuildHandler(input.body)
    OBVIOUS
  <2>5. /\ judged \in Refusals \union {Reached("submit")}
        /\ judged = Reached("submit") <=> KeepsLimits(input.body)
        /\ judged = PayloadTooLarge => input.body.source[1] > MaxSourceBytes
    BY <2>1, <2>4, BodiesAreJudged
  <2>6. /\ input.route = "health" =>
             answer = IF input.header = <<>> THEN Reached("brief")
                      ELSE IF authorized THEN Reached("tools") ELSE Unauthorized
        /\ input.route = "builds" => answer = IF authorized THEN judged ELSE Unauthorized
        /\ input.route = "metadata" =>
             answer \in IF authorized THEN {Reached("metadata"), NotFound} ELSE {Unauthorized}
        /\ input.route = "download" => answer \in {Reached("download"), NotFound}
    BY <2>2, <2>3, <2>4 DEF Answer, HealthHandler, ApiRoute, Named
  <2>7. /\ Reached("submit") # Reached("tools") /\ Reached("submit") # Reached("brief")
        /\ Reached("submit") # Reached("metadata") /\ Reached("submit") # Reached("download")
        /\ Reached("tools") # Reached("brief")
        /\ Reached("tools") # Reached("metadata") /\ Reached("tools") # Reached("download")
    BY DEF Reached, Reply
  <2>8. input.route \in {"builds", "metadata"} /\ ~authorized => answer = Unauthorized
    BY <2>6
  <2>9. answer = Reached("tools") => authorized
    BY <2>1, <2>5, <2>6, <2>7, RepliesDiffer
  <2>10. input.route = "health" /\ input.header = <<>> => answer = Reached("brief")
    BY <2>6
  <2>11. answer = Reached("submit") <=>
           input.route = "builds" /\ authorized /\ KeepsLimits(input.body)
    BY <2>1, <2>5, <2>6, <2>7, RepliesDiffer
  <2>12. input.route = "builds" /\ answer.code = "PAYLOAD_TOO_LARGE" =>
           input.body.source[1] > MaxSourceBytes
    BY <2>5, <2>6, RepliesDiffer
  <2>13. MinTtl = Minute /\ MaxTtl = ThirtyDays
    BY SMT DEF MinTtl, MaxTtl, Minute, ThirtyDays
  <2> QED
    BY <2>2, <2>3, <2>8, <2>9, <2>10, <2>11, <2>12, <2>13
       DEF RequestsAreJudged, Authorized, KeepsLimits
<1> QED
  BY <1>1, CasesStay, PTL

-----------------------------------------------------------------------------
(* Times a server writes in 20 characters: a day of the years -999 to 9999, a   *)
(* second of it.                                                            *)
Writable(time) ==
  /\ time = [day |-> time.day, second |-> time.second]
  /\ \E date : IsCivil(time.day, date) /\ date.year \in Years
  /\ \E clock \in Clocks : time.second = Seconds(clock)

SameTime(text, time) == ParseRfc3339(text).ok /\ ParseRfc3339(text).time = time

LEMMA TimesAreReadBack ==
  ASSUME NEW time, Writable(time)
  PROVE  SameTime(FormatRfc3339(time), time)
<1>1. PICK date : IsCivil(time.day, date) /\ date.year \in Years
  BY Zenon DEF Writable
<1>2. PICK clock \in Clocks : time.second = Seconds(clock)
  BY Zenon DEF Writable
<1>3. PICK h \in 0..23, m \in 0..59, s \in 0..59 :
        h = clock.hour /\ m = clock.minute /\ s = clock.second
  <2>1. clock.hour \in 0..23 /\ clock.minute \in 0..59 /\ clock.second \in 0..59
    BY SMT DEF Clocks
  <2> QED
    BY <2>1
<1>4. time.second = 3600 * h + 60 * m + s
  BY <1>2, <1>3, SMT DEF Seconds
<1>5. PICK second \in Nat : second = time.second /\ second = InDay(h, m, s)
  BY <1>4, SMT DEF InDay
<1>6. PICK day : day = time.day
  OBVIOUS
<1>7. /\ day \in Int /\ CivilFromDays(day) = date /\ InCalendar(date)
      /\ DaysFromCivil(date.year, date.month, date.day) = day
  BY <1>1, <1>6, CivilDates, Zenon
<1>8. Moment(time, date, h, m, s)
  BY <1>1, <1>5, <1>6, <1>7, SMT DEF Moment, Writable
<1>9. /\ FormatRfc3339(time) = DateText(date.year, date.month, date.day, h, m, s)
      /\ Time(day, second) = time
  BY <1>5, <1>6, <1>8, DateIsWritten
<1>10. ReadBack(FormatRfc3339(time), day, second)
  <2>1. date.month \in 1..12 /\ date.day \in 1..31
    BY <1>7, SMT DEF InCalendar, MonthDays
  <2> QED
    BY <1>5, <1>7, <1>9, <2>1, ParseIs, Zenon
<1> QED
  BY <1>9, <1>10, SMT DEF ReadBack, SameTime

(* A text where a time should stand: in some slices there are numbers, in       *)
(* others half a character, and a year as a server writes it has four            *)
(* characters.                                                              *)
SliceNames == {"year", "month", "day", "hour", "minute", "second"}

TimeText(text) ==
  /\ \E numbers \in SUBSET SliceNames :
       /\ DOMAIN text = numbers \union {"cut", "layout"}
       /\ text = [f \in numbers \union {"cut", "layout"} |-> text[f]]
       /\ \A f \in numbers : text[f] \in Int
       /\ text.cut \in SUBSET (SliceNames \ numbers)
       /\ text.layout = "rfc3339" /\ "year" \in numbers => text.year \in Years
  /\ text.layout \in Layouts

LEMMA CompleteText ==
  ASSUME NEW text, TimeText(text), AllThere(text)
  PROVE  /\ text = [f \in SliceNames \union {"cut", "layout"} |-> text[f]]
         /\ \A f \in SliceNames : text[f] \in Int
         /\ text.cut = {} /\ text.layout \in Layouts
         /\ text.layout = "rfc3339" => text.year \in Years
<1>1. PICK numbers \in SUBSET SliceNames :
        /\ DOMAIN text = numbers \union {"cut", "layout"}
        /\ text = [f \in numbers \union {"cut", "layout"} |-> text[f]]
        /\ \A f \in numbers : text[f] \in Int
        /\ text.cut \in SUBSET (SliceNames \ numbers)
        /\ text.layout = "rfc3339" /\ "year" \in numbers => text.year \in Years
  BY Zenon DEF TimeText
<1>2. SliceNames \subseteq DOMAIN text
  BY DEF AllThere, Slices, SliceNames
<1>3. numbers = SliceNames
  BY <1>1, <1>2 DEF SliceNames
<1> QED
  BY <1>1, <1>3 DEF TimeText, SliceNames

LEMMA ReadIsThere ==
  ASSUME NEW text, ParseRfc3339(text).ok
  PROVE  /\ AllThere(text) /\ text.layout \notin {"length", "separators"}
         /\ text.month \in 1..12 /\ text.day \in 1..31
         /\ ParseRfc3339(text).time = Time(DaysFromCivil(text.year, text.month, text.day),
                                          InDay(text.hour, text.minute, text.second))
<1>1. AllThere(text)
  BY DEF ParseRfc3339, Panic, NoTime, AllThere
<1> QED
  BY <1>1, ReadingIs DEF NoTime

LEMMA WrittenTextStays ==
  ASSUME NEW text, TimeText(text), ParseRfc3339(text).ok, IsWritten(text)
  PROVE  FormatRfc3339(ParseRfc3339(text).time) = text
<1>1. /\ text = [f \in SliceNames \union {"cut", "layout"} |-> text[f]]
      /\ \A f \in SliceNames : text[f] \in Int
      /\ text.cut = {} /\ text.layout = "rfc3339" /\ text.year \in Years
  BY ReadIsThere, CompleteText DEF IsWritten
<1>2. PICK date : date = [year |-> text.year, month |-> text.month, day |-> text.day]
  OBVIOUS
<1>3. date.year = text.year /\ date.month = text.month /\ date.day = text.day
  BY <1>2
<1>4. InCalendar(date)
  <2>1. text.year \in Int
    BY <1>1 DEF SliceNames
  <2>2. text.month \in 1..12 /\ text.day \in 1..MonthDays(text.year, text.month)
    BY Zenon DEF IsWritten
  <2> QED
    BY <1>2, <1>3, <2>1, <2>2, Zenon DEF InCalendar
<1>5. PICK day : day = DaysFromCivil(text.year, text.month, text.day)
  OBVIOUS
<1>6. IsCivil(day, date)
  BY <1>3, <1>4, <1>5, EveryDate, Zenon
<1>7. day \in Int /\ CivilFromDays(day) = date
  BY <1>6, CivilDates, Zenon
<1>8. PICK time : time = [day |-> day, second |-> InDay(text.hour, text.minute, text.second)]
  OBVIOUS
<1>9. Moment(time, date, text.hour, text.minute, text.second)
  <2>1. time.day = day /\ date.year \in Years
    BY <1>1, <1>3, <1>8
  <2>2. text.hour \in 0..23 /\ text.minute \in 0..59 /\ text.second \in 0..59
    BY Zenon DEF IsWritten
  <2> QED
    BY <1>7, <1>8, <2>1, <2>2, Zenon DEF Moment
<1>10. /\ FormatRfc3339(time)
            = DateText(text.year, text.month, text.day, text.hour, text.minute, text.second)
       /\ Time(day, InDay(text.hour, text.minute, text.second)) = time
  <2>1. time.day = day
    BY <1>8
  <2> QED
    BY <1>3, <1>9, <2>1, DateIsWritten
<1>11. ParseRfc3339(text).time = time
  BY <1>5, <1>10, ReadIsThere, Zenon
<1>12. DateText(text.year, text.month, text.day, text.hour, text.minute, text.second) = text
  BY <1>1 DEF DateText, SliceNames
<1> QED
  BY <1>10, <1>11, <1>12, Zenon

LEMMA OnlyWrittenTextStays ==
  ASSUME NEW text, TimeText(text), ParseRfc3339(text).ok,
         FormatRfc3339(ParseRfc3339(text).time) = text
  PROVE  IsWritten(text)
<1>1. \A f \in SliceNames : text[f] \in Int
  BY ReadIsThere, CompleteText
<1>2. PICK y \in Int, m \in Int, d \in Int, h \in Int, i \in Int, s \in Int :
        /\ y = text.year /\ m = text.month /\ d = text.day
        /\ h = text.hour /\ i = text.minute /\ s = text.second
  BY <1>1 DEF SliceNames
<1>3. DaysFromCivil(y, m, d) \in Int /\ InDay(h, i, s) \in Int
  BY SMT DEF DaysFromCivil, Quot, BeforeYear, BeforeMonth, InDay
<1>4. PICK time : time = ParseRfc3339(text).time
  OBVIOUS
<1>5. time.day \in Int /\ time.second \in Nat /\ time.second < 86400
  <2>1. time = Time(DaysFromCivil(y, m, d), InDay(h, i, s))
    BY <1>2, <1>4, ReadIsThere
  <2> QED
    BY <1>3, <2>1, SMT DEF Time, DaySeconds
<1>6. PICK date : IsCivil(time.day, date)
  <2>1. time.day \in Int
    BY <1>5, SMT
  <2> QED
    BY <2>1, EveryDay, Zenon
<1>7. CivilFromDays(time.day) = date /\ InCalendar(date)
  BY <1>6, CivilDates, Zenon
<1>8. /\ text.year = date.year /\ text.month = date.month /\ text.day = date.day
      /\ text.hour = time.second \div 3600 /\ text.minute = (time.second % 3600) \div 60
      /\ text.second = time.second % 60 /\ text.layout \in {"rfc3339", "length"}
  BY <1>4, <1>7, SMT DEF FormatRfc3339
<1>9. text.hour \in 0..23 /\ text.minute \in 0..59 /\ text.second \in 0..59
  BY <1>5, <1>8, SMT
<1>10. text.month \in 1..12 /\ text.day \in 1..MonthDays(text.year, text.month)
  <2>1. text.year = date.year /\ text.month = date.month /\ text.day = date.day
    BY <1>8, SMT
  <2> QED
    BY <1>7, <2>1, Zenon DEF InCalendar
<1>11. text.layout = "rfc3339" /\ AllThere(text)
  <2>1. text.layout \in {"rfc3339", "length"}
    BY <1>8, SMT
  <2> QED
    BY <2>1, ReadIsThere
<1> QED
  BY <1>9, <1>10, <1>11, Zenon DEF IsWritten, AllThere

AreTokens(tokens) ==
  \E n \in Nat :
    /\ tokens = [i \in 1..n |-> tokens[i]]
    /\ \A i \in 1..n : LET token == tokens[i] IN
         /\ token = [hash |-> token.hash, expires_at |-> token.expires_at]
         /\ Writable(token.expires_at)

(* What a server holds of a build: any texts, any number of links.             *)
Metadata(md) ==
  /\ md = [f \in Fields |-> md[f]]
  /\ md["status"] \in Statuses
  /\ \A f \in TimeFields : Writable(md[f])
  /\ md["toolchain"] = [t \in ToolFields |-> md["toolchain"][t]]
  /\ \/ md["error"] = <<>>
     \/ \E body : md["error"] = <<body>> /\ body = [e \in ErrorFields |-> body[e]]
  /\ AreTokens(md["download_tokens"])

(* What stands in the document for the value of a field.                       *)
TokenJson(token) ==
  Json("object", [hash |-> Str(token.hash), expires_at |-> Str(FormatRfc3339(token.expires_at))])

ErrorJson(error) == IF error = <<>> THEN Null ELSE Json("object", Strings(error[1], ErrorFields))

Links(tokens) == [i \in DOMAIN tokens |-> TokenJson(tokens[i])]

Reads(doc, f, value) == FieldFrom(doc, f) = value

LEMMA DocumentFields ==
  ASSUME NEW md, NEW doc, doc = ToStorageJson(md)
  PROVE  /\ doc = [f \in Fields |-> doc[f]] /\ DOMAIN doc = Fields
         /\ \A f \in TextFields : doc[f] = Str(md[f])
         /\ \A f \in TimeFields : doc[f] = Str(FormatRfc3339(md[f]))
         /\ doc["status"] = Str(AsStr(md["status"]))
         /\ doc["toolchain"] = Json("object", Strings(md["toolchain"], ToolFields))
         /\ doc["error"] = ErrorJson(md["error"])
         /\ doc["download_tokens"] = Json("array", Links(md["download_tokens"]))
<1>1. doc = [f \in Fields |-> doc[f]] /\ DOMAIN doc = Fields
  BY DEF ToStorageJson
<1>2. \A f \in Fields : doc[f] = FieldJson(md, f)
  BY DEF ToStorageJson
<1>3. \A f \in TextFields : doc[f] = Str(md[f])
  BY <1>2 DEF FieldJson, Fields, TextFields, TimeFields
<1>4. \A f \in TimeFields : doc[f] = Str(FormatRfc3339(md[f]))
  BY <1>2 DEF FieldJson, Fields, TextFields, TimeFields
<1>5. doc["status"] = Str(AsStr(md["status"]))
  BY <1>2 DEF FieldJson, Fields, TextFields, TimeFields
<1>6. doc["toolchain"] = Json("object", Strings(md["toolchain"], ToolFields))
  BY <1>2 DEF FieldJson, Fields, TextFields, TimeFields
<1>7. doc["error"] = ErrorJson(md["error"])
  BY <1>2 DEF FieldJson, Fields, TextFields, TimeFields, ErrorJson
<1>8. doc["download_tokens"] = Json("array", Links(md["download_tokens"]))
  BY <1>2 DEF FieldJson, Fields, TextFields, TimeFields, Links, TokenJson
<1> QED
  BY <1>1, <1>3, <1>4, <1>5, <1>6, <1>7, <1>8

LEMMA LinksAreReadBack ==
  ASSUME NEW doc, NEW token, token = [hash |-> token.hash, expires_at |-> token.expires_at],
         Writable(token.expires_at)
  PROVE  IsTokenJson(TokenJson(token)) /\ TokenFromJson(doc, TokenJson(token)) = token
<1>1. PICK is : is = [hash |-> Str(token.hash),
                      expires_at |-> Str(FormatRfc3339(token.expires_at))]
  OBVIOUS
<1>2. TokenJson(token).type = "object" /\ TokenJson(token).is = is
  BY <1>1 DEF TokenJson, Json
<1>3. /\ is["hash"].type = "string" /\ is["hash"].is = token.hash
      /\ is["expires_at"].type = "string"
      /\ is["expires_at"].is = FormatRfc3339(token.expires_at)
      /\ "hash" \in DOMAIN is /\ "expires_at" \in DOMAIN is
  BY <1>1 DEF Str, Json
<1>4. SameTime(FormatRfc3339(token.expires_at), token.expires_at)
  BY TimesAreReadBack
<1>5. IsTokenJson(TokenJson(token))
  BY <1>2, <1>3, <1>4 DEF IsTokenJson, IsA, HasTime, SameTime
<1>6. TokenFromJson(doc, TokenJson(token))
        = [hash |-> token.hash, expires_at |-> token.expires_at]
  BY <1>2, <1>3, <1>4 DEF TokenFromJson, TimeIn, SameTime
<1> QED
  BY <1>5, <1>6

(* A field of the document can be read.                                       *)
FieldIsReadable(doc, f) ==
  CASE f \in TextFields -> IsA("string", doc, f)
    [] f \in TimeFields -> HasTime(doc, f)
    [] f = "status" -> IsA("string", doc, "status") /\ FromStr(doc["status"].is) # {}
    [] f = "toolchain" -> HasObject(doc, "toolchain", ToolFields)
    [] f = "error" -> ErrorIsReadable(doc)
    [] f = "download_tokens" ->
         /\ IsA("array", doc, "download_tokens")
         /\ \A i \in DOMAIN doc["download_tokens"].is : IsTokenJson(doc["download_tokens"].is[i])

LEMMA ReadableIs ==
  ASSUME NEW doc
  PROVE  /\ \A f \in TextFields : FieldIsReadable(doc, f) <=> IsA("string", doc, f)
         /\ \A f \in TimeFields : FieldIsReadable(doc, f) <=> HasTime(doc, f)
         /\ FieldIsReadable(doc, "status")
              <=> IsA("string", doc, "status") /\ FromStr(doc["status"].is) # {}
         /\ FieldIsReadable(doc, "toolchain") <=> HasObject(doc, "toolchain", ToolFields)
         /\ FieldIsReadable(doc, "error") <=> ErrorIsReadable(doc)
         /\ FieldIsReadable(doc, "download_tokens")
              <=> /\ IsA("array", doc, "download_tokens")
                  /\ \A i \in DOMAIN doc["download_tokens"].is :
                       IsTokenJson(doc["download_tokens"].is[i])
BY DEF FieldIsReadable, TextFields, TimeFields

LEMMA ReadableByFields ==
  ASSUME NEW doc
  PROVE  IsReadable(doc) <=> \A f \in Fields : FieldIsReadable(doc, f)
<1>1. ASSUME IsReadable(doc), NEW f \in Fields PROVE FieldIsReadable(doc, f)
  <2>1. f \in TextFields \union TimeFields
           \union {"status", "toolchain", "error", "download_tokens"}
    BY DEF Fields
  <2> QED
    BY <1>1, <2>1, ReadableIs DEF IsReadable, HasStrings
<1>2. ASSUME \A f \in Fields : FieldIsReadable(doc, f) PROVE IsReadable(doc)
  <2>1. /\ \A f \in TextFields \union TimeFields : FieldIsReadable(doc, f)
        /\ FieldIsReadable(doc, "status") /\ FieldIsReadable(doc, "toolchain")
        /\ FieldIsReadable(doc, "error") /\ FieldIsReadable(doc, "download_tokens")
    BY <1>2 DEF Fields
  <2> QED
    BY <2>1, ReadableIs DEF IsReadable, HasStrings
<1> QED
  BY <1>1, <1>2

LEMMA ReadableApart ==
  ASSUME NEW a, NEW b, NEW f \in Fields, f \in DOMAIN a, f \in DOMAIN b, a[f] = b[f]
  PROVE  FieldIsReadable(a, f) <=> FieldIsReadable(b, f)
<1>1. f \in TextFields \union TimeFields
         \union {"status", "toolchain", "error", "download_tokens"}
  BY DEF Fields
<1>2. CASE f \in TextFields
  BY <1>2, ReadableIs DEF IsA
<1>3. CASE f \in TimeFields
  BY <1>3, ReadableIs DEF IsA, HasTime
<1>4. CASE f = "status"
  BY <1>4, ReadableIs DEF IsA
<1>5. CASE f = "toolchain"
  BY <1>5, ReadableIs DEF IsA, HasObject
<1>6. CASE f = "error"
  BY <1>6, ReadableIs DEF IsA, HasObject, ErrorIsReadable
<1>7. CASE f = "download_tokens"
  BY <1>7, ReadableIs DEF IsA
<1> QED
  BY <1>1, <1>2, <1>3, <1>4, <1>5, <1>6, <1>7

(* What a server saved is read as it was, with any texts and any number of      *)
(* links.                                                                   *)
LEMMA SavedIsReadable ==
  ASSUME NEW md, Metadata(md), NEW doc, doc = ToStorageJson(md)
  PROVE  \A f \in Fields : FieldIsReadable(doc, f) /\ FieldFrom(doc, f) = md[f]
<1>1. /\ doc = [f \in Fields |-> doc[f]] /\ DOMAIN doc = Fields
      /\ \A f \in TextFields : doc[f] = Str(md[f])
      /\ \A f \in TimeFields : doc[f] = Str(FormatRfc3339(md[f]))
      /\ doc["status"] = Str(AsStr(md["status"]))
      /\ doc["toolchain"] = Json("object", Strings(md["toolchain"], ToolFields))
      /\ doc["error"] = ErrorJson(md["error"])
      /\ doc["download_tokens"] = Json("array", Links(md["download_tokens"]))
  BY DocumentFields
<1>2. ASSUME NEW f \in TextFields
      PROVE  IsA("string", doc, f) /\ Reads(doc, f, md[f])
  <2>1. f \in DOMAIN doc /\ doc[f] = Str(md[f])
    BY <1>1 DEF Fields
  <2>2. doc[f].type = "string" /\ doc[f].is = md[f]
    BY <2>1 DEF Str, Json
  <2>3. FieldFrom(doc, f) = doc[f].is
    BY DEF FieldFrom, TextFields, TimeFields
  <2> QED
    BY <2>1, <2>2, <2>3 DEF IsA, Reads
<1>3. ASSUME NEW f \in TimeFields
      PROVE  HasTime(doc, f) /\ Reads(doc, f, md[f])
  <2>1. SameTime(FormatRfc3339(md[f]), md[f])
    BY TimesAreReadBack DEF Metadata
  <2>2. doc[f].type = "string" /\ doc[f].is = FormatRfc3339(md[f]) /\ f \in DOMAIN doc
    <3>1. f \in DOMAIN doc /\ doc[f] = Str(FormatRfc3339(md[f]))
      BY <1>1 DEF Fields
    <3> QED
      BY <3>1 DEF Str, Json
  <2>3. HasTime(doc, f) /\ TimeIn(doc, f) = md[f]
    BY <2>1, <2>2 DEF HasTime, TimeIn, IsA, SameTime
  <2> QED
    BY <2>3 DEF Reads, FieldFrom, TextFields, TimeFields
<1>4. /\ IsA("string", doc, "status") /\ FromStr(doc["status"].is) # {}
      /\ Reads(doc, "status", md["status"])
  <2>1. /\ doc["status"].type = "string" /\ doc["status"].is = AsStr(md["status"])
        /\ "status" \in DOMAIN doc
    BY <1>1 DEF Str, Json, Fields
  <2>2. FromStr(AsStr(md["status"])) = {md["status"]}
    BY DEF FromStr, AsStr, Statuses, Metadata
  <2> QED
    BY <2>1, <2>2 DEF IsA, Reads, FieldFrom, TextFields, TimeFields
<1>5. HasObject(doc, "toolchain", ToolFields) /\ Reads(doc, "toolchain", md["toolchain"])
  <2>1. /\ doc["toolchain"].type = "object" /\ "toolchain" \in DOMAIN doc
        /\ doc["toolchain"].is = [t \in ToolFields |-> Str(md["toolchain"][t])]
    BY <1>1 DEF Json, Fields, Strings
  <2>2. \A t \in ToolFields : /\ t \in DOMAIN doc["toolchain"].is
                              /\ doc["toolchain"].is[t].type = "string"
                              /\ doc["toolchain"].is[t].is = md["toolchain"][t]
    BY <2>1 DEF Str, Json
  <2>3. [t \in ToolFields |-> doc["toolchain"].is[t].is] = md["toolchain"]
    BY <2>2 DEF Metadata
  <2> QED
    BY <2>1, <2>2, <2>3 DEF HasObject, HasStrings, IsA, Reads, FieldFrom, TextFields, TimeFields
<1>6. ErrorIsReadable(doc) /\ Reads(doc, "error", md["error"])
  <2>1. "error" \in DOMAIN doc
    BY <1>1 DEF Fields
  <2>2. CASE md["error"] = <<>>
    BY <1>1, <2>1, <2>2 DEF ErrorJson, Null, ErrorIsReadable, Reads, FieldFrom, TextFields, TimeFields
  <2>3. CASE md["error"] # <<>>
    <3>1. PICK body : md["error"] = <<body>> /\ body = [e \in ErrorFields |-> body[e]]
      BY <2>3 DEF Metadata
    <3>2. /\ doc["error"].type = "object"
          /\ doc["error"].is = [e \in ErrorFields |-> Str(body[e])]
      BY <1>1, <2>3, <3>1 DEF ErrorJson, Json, Strings
    <3>3. \A e \in ErrorFields : /\ e \in DOMAIN doc["error"].is
                                 /\ doc["error"].is[e].type = "string"
                                 /\ doc["error"].is[e].is = body[e]
      BY <3>2 DEF Str, Json
    <3>4. [e \in ErrorFields |-> doc["error"].is[e].is] = body
      BY <3>1, <3>3
    <3> QED
      BY <2>1, <3>1, <3>2, <3>3, <3>4 DEF ErrorIsReadable, HasObject, HasStrings, IsA, Reads,
         FieldFrom, TextFields, TimeFields
  <2> QED
    BY <2>2, <2>3
<1>7. /\ IsA("array", doc, "download_tokens")
      /\ \A i \in DOMAIN doc["download_tokens"].is : IsTokenJson(doc["download_tokens"].is[i])
      /\ Reads(doc, "download_tokens", md["download_tokens"])
  <2>1. PICK tokens : tokens = md["download_tokens"]
    OBVIOUS
  <2>2. PICK n \in Nat :
          /\ tokens = [i \in 1..n |-> tokens[i]]
          /\ \A i \in 1..n : LET token == tokens[i] IN
               /\ token = [hash |-> token.hash, expires_at |-> token.expires_at]
               /\ Writable(token.expires_at)
    BY <2>1 DEF Metadata, AreTokens
  <2>3. /\ doc["download_tokens"].type = "array" /\ "download_tokens" \in DOMAIN doc
        /\ doc["download_tokens"].is = [i \in 1..n |-> TokenJson(tokens[i])]
    <3>1. "download_tokens" \in DOMAIN doc /\ doc["download_tokens"] = Json("array", Links(tokens))
      BY <1>1, <2>1 DEF Fields
    <3>2. Links(tokens) = [i \in 1..n |-> TokenJson(tokens[i])]
      BY <2>2 DEF Links
    <3> QED
      BY <3>1, <3>2 DEF Json
  <2>4. \A i \in 1..n : /\ IsTokenJson(TokenJson(tokens[i]))
                        /\ TokenFromJson(doc, TokenJson(tokens[i])) = tokens[i]
    BY <2>2, LinksAreReadBack
  <2>5. [i \in DOMAIN doc["download_tokens"].is |->
           TokenFromJson(doc, doc["download_tokens"].is[i])] = tokens
    BY <2>2, <2>3, <2>4
  <2> QED
    BY <2>1, <2>3, <2>4, <2>5 DEF IsA, Reads, FieldFrom, TextFields, TimeFields
<1>8. ASSUME NEW f \in Fields
      PROVE  FieldIsReadable(doc, f) /\ FieldFrom(doc, f) = md[f]
  <2>1. f \in TextFields \union TimeFields
           \union {"status", "toolchain", "error", "download_tokens"}
    BY DEF Fields
  <2> QED
    BY <1>2, <1>3, <1>4, <1>5, <1>6, <1>7, <2>1, ReadableIs DEF Reads
<1> QED
  BY <1>8

(* A field of the document stands for that field alone.                        *)
LEMMA FieldsAreWrittenApart ==
  ASSUME NEW f \in Fields, NEW a, NEW b, a[f] = b[f]
  PROVE  FieldJson(a, f) = FieldJson(b, f)
<1>1. CASE f \in TextFields
  BY <1>1 DEF FieldJson
<1>2. CASE f \in TimeFields
  BY <1>2 DEF FieldJson, TextFields, TimeFields
<1>3. CASE f = "status"
  BY <1>3 DEF FieldJson, TextFields, TimeFields
<1>4. CASE f = "toolchain"
  BY <1>4 DEF FieldJson, TextFields, TimeFields
<1>5. CASE f = "error"
  BY <1>5 DEF FieldJson, TextFields, TimeFields
<1>6. CASE f = "download_tokens"
  BY <1>6 DEF FieldJson, TextFields, TimeFields
<1> QED
  BY <1>1, <1>2, <1>3, <1>4, <1>5, <1>6 DEF Fields

LEMMA FieldsAreReadApart ==
  ASSUME NEW f \in Fields \ {"error"}, NEW a, NEW b, a[f] = b[f]
  PROVE  FieldFrom(a, f) = FieldFrom(b, f)
<1>1. CASE f \in TextFields
  BY <1>1 DEF FieldFrom
<1>2. CASE f \in TimeFields
  BY <1>2 DEF FieldFrom, TextFields, TimeFields, TimeIn
<1>3. CASE f = "status"
  BY <1>3 DEF FieldFrom, TextFields, TimeFields
<1>4. CASE f = "toolchain"
  BY <1>4 DEF FieldFrom, TextFields, TimeFields
<1>5. CASE f = "download_tokens"
  BY <1>5 DEF FieldFrom, TextFields, TimeFields, TokenFromJson
<1> QED
  BY <1>1, <1>2, <1>3, <1>4, <1>5 DEF Fields

LEMMA ErrorIsReadApart ==
  ASSUME NEW a, NEW b, "error" \in DOMAIN a, "error" \in DOMAIN b, a["error"] = b["error"]
  PROVE  FieldFrom(a, "error") = FieldFrom(b, "error")
BY DEF FieldFrom, TextFields, TimeFields

LEMMA SavedIsLoaded ==
  ASSUME NEW doc, \A f \in Fields : FieldIsReadable(doc, f)
  PROVE  FromJson(doc) = [ok |-> TRUE, md |-> [f \in Fields |-> FieldFrom(doc, f)]]
<1>1. IsReadable(doc)
  BY ReadableByFields
<1>2. ~ReadingPanics(doc)
  <2>1. \A text : ParseRfc3339(text).ok => ParseRfc3339(text) # Panic
    BY DEF Panic
  <2>2. \A value : IsTokenJson(value) => ~TokenPanics(value)
    BY <2>1 DEF IsTokenJson, TokenPanics, HasTime, TimePanics
  <2>3. \A i \in 1..3 : TimeOrder[i] \in TimeFields
    BY DEF TimeOrder, TimeFields
  <2>4. \A i \in 1..3 : ~TimePanics(doc, TimeOrder[i])
    BY <1>1, <2>1, <2>3 DEF IsReadable, HasTime, TimePanics
  <2> QED
    BY <1>1, <2>2, <2>4 DEF IsReadable, ReadingPanics
<1> QED
  BY <1>1, <1>2 DEF FromJson

LEMMA OutcomesDiffer ==
  ASSUME NEW doc
  PROVE  /\ FromJson(doc) = Panic <=> ReadingPanics(doc)
         /\ FromJson(doc).ok =>
              /\ \A f \in Fields : FieldIsReadable(doc, f)
              /\ FromJson(doc).md = [f \in Fields |-> FieldFrom(doc, f)]
<1>1. Panic # Invalid /\ ~Panic.ok /\ ~Invalid.ok
  BY DEF Panic, Invalid
<1>2. \A md : [ok |-> TRUE, md |-> md] # Panic
  BY DEF Panic
<1> QED
  BY <1>1, <1>2, ReadableByFields DEF FromJson

LEMMA PanicIsCut ==
  ASSUME NEW text
  PROVE  ParseRfc3339(text) = Panic <=> IsCut(text)
<1>1. NoTime # Panic /\ \A time : [ok |-> TRUE, time |-> time] # Panic
  BY DEF NoTime, Panic
<1>2. ParseRfc3339(text) = Panic <=>
        text.layout # "length" /\ \E i \in 1..6 : FailsAt(text, i) /\ Slices[i] \in text.cut
  BY <1>1 DEF ParseRfc3339
<1> QED
  BY <1>2 DEF FailsAt, IsCut

-----------------------------------------------------------------------------
(* A document that is damaged in one place.                                   *)

(* A JSON value as it can stand in the place of a field: of any type; where a    *)
(* text with a time should be, a text of any numbers or none; an object where    *)
(* one should be, with some of its members, of any type; and a list of any       *)
(* such links.  Members that the code does not know are left out, for it drops  *)
(* them.                                                                    *)
IsJson(value) == value.type = "string" => value = Str(value.is)

ObjectOf(value, keys) ==
  value.type = "object" =>
    /\ value = Json("object", value.is)
    /\ \E there \in SUBSET keys :
         /\ value.is = [k \in there |-> value.is[k]]
         /\ \A k \in there : IsJson(value.is[k])

LinkFields == {"hash", "expires_at"}

LinkValue(value) ==
  /\ ObjectOf(value, LinkFields)
  /\ value.type = "object" /\ IsA("string", value.is, "expires_at") =>
       TimeText(value.is["expires_at"].is)

ListOfLinks(value) ==
  value.type = "array" =>
    /\ value = Json("array", value.is)
    /\ \E n \in Nat : /\ value.is = [i \in 1..n |-> value.is[i]]
                      /\ \A i \in 1..n : LinkValue(value.is[i])

ValueIsTyped(field, value) ==
  /\ IsJson(value)
  /\ field \in TimeFields /\ value.type = "string" => TimeText(value.is)
  /\ field = "toolchain" => ObjectOf(value, ToolFields)
  /\ field = "download_tokens" => ListOfLinks(value)

(* The metadata of a case is one a server holds, and the damage any value.      *)
MetadataIsTyped ==
  \A case \in Cases : case.kind = "metadata" =>
    Metadata(case.md) /\ case.field \in Fields /\ ValueIsTyped(case.field, case.value)

(* One field is another, or missing.                                         *)
Damage(doc, field, value) ==
  IF value.type = "missing" THEN [f \in Fields \ {field} |-> doc[f]]
  ELSE [doc EXCEPT ![field] = value]

LEMMA RestIsThere ==
  ASSUME NEW md, Metadata(md), NEW field \in Fields, NEW value,
         NEW damaged, damaged = Damage(ToStorageJson(md), field, value)
  PROVE  \A f \in Fields \ {field} :
           /\ f \in DOMAIN damaged /\ damaged[f] = FieldJson(md, f)
           /\ FieldIsReadable(damaged, f) /\ FieldFrom(damaged, f) = md[f]
<1>1. PICK doc : doc = ToStorageJson(md)
  OBVIOUS
<1>2. DOMAIN doc = Fields /\ doc = [f \in Fields |-> doc[f]]
      /\ \A f \in Fields : doc[f] = FieldJson(md, f)
  BY <1>1 DEF ToStorageJson
<1>3. \A f \in Fields : FieldIsReadable(doc, f) /\ FieldFrom(doc, f) = md[f]
  BY <1>1, SavedIsReadable
<1>4. ASSUME NEW f \in Fields \ {field}
      PROVE  /\ f \in DOMAIN damaged /\ damaged[f] = FieldJson(md, f)
             /\ FieldIsReadable(damaged, f) /\ FieldFrom(damaged, f) = md[f]
  <2>1. f \in DOMAIN damaged /\ damaged[f] = doc[f]
    BY <1>1, <1>2 DEF Damage
  <2>2. FieldIsReadable(damaged, f)
    BY <1>2, <1>3, <2>1, ReadableApart
  <2>3. FieldFrom(damaged, f) = FieldFrom(doc, f)
    BY <1>2, <2>1, FieldsAreReadApart, ErrorIsReadApart
  <2> QED
    BY <1>2, <1>3, <2>1, <2>2, <2>3
<1> QED
  BY <1>4

(* A panic comes from a time in the damaged field.                             *)
LEMMA PanicFromTime ==
  ASSUME NEW md, Metadata(md), NEW field \in Fields, NEW value,
         NEW damaged, damaged = Damage(ToStorageJson(md), field, value), ReadingPanics(damaged)
  PROVE  \E text \in TimesIn(field, value) : IsCut(text)
<1>1. \A f \in Fields \ {field} : f \in DOMAIN damaged /\ FieldIsReadable(damaged, f)
  BY RestIsThere
<1>2. field \in DOMAIN damaged => damaged[field] = value
  BY DEF Damage, ToStorageJson
<1>3. \A text : ParseRfc3339(text).ok => ParseRfc3339(text) # Panic
  BY DEF Panic
<1>4. \/ \E i \in DOMAIN damaged["download_tokens"].is :
            TokenPanics(damaged["download_tokens"].is[i])
      \/ \E f \in TimeFields : TimePanics(damaged, f)
  <2>1. \A i \in 1..3 : TimeOrder[i] \in TimeFields
    BY DEF TimeOrder, TimeFields
  <2> QED
    BY <2>1 DEF ReadingPanics
<1>5. IsA("array", damaged, "download_tokens")
  BY DEF ReadingPanics
<1>6. ASSUME NEW i \in DOMAIN damaged["download_tokens"].is,
             TokenPanics(damaged["download_tokens"].is[i])
      PROVE  \E text \in TimesIn(field, value) : IsCut(text)
  <2>1. PICK token : token = damaged["download_tokens"].is[i]
    OBVIOUS
  <2>2. /\ token.type = "object" /\ IsA("string", token.is, "expires_at")
        /\ IsCut(token.is["expires_at"].is)
    BY <1>6, <2>1, PanicIsCut DEF TokenPanics, TimePanics
  <2>3. ~IsTokenJson(token)
    BY <1>3, <1>6, <2>1 DEF TokenPanics, TimePanics, IsTokenJson, HasTime
  <2>4. field = "download_tokens"
    BY <1>1, <2>1, <2>3, ReadableIs DEF Fields
  <2>5. value.type = "array" /\ i \in DOMAIN value.is /\ token = value.is[i]
    BY <1>2, <1>5, <2>1, <2>4 DEF IsA
  <2>6. token.is["expires_at"].is \in TimesIn(field, value)
    BY <2>2, <2>4, <2>5 DEF TimesIn, TimeFields
  <2> QED
    BY <2>2, <2>6
<1>7. ASSUME NEW f \in TimeFields, TimePanics(damaged, f)
      PROVE  \E text \in TimesIn(field, value) : IsCut(text)
  <2>1. f = field
    BY <1>1, <1>3, <1>7, ReadableIs DEF TimePanics, HasTime, Fields
  <2>2. value.type = "string" /\ IsCut(value.is)
    BY <1>2, <1>7, <2>1, PanicIsCut DEF TimePanics, IsA
  <2>3. value.is \in TimesIn(field, value)
    BY <2>1, <2>2 DEF TimesIn
  <2> QED
    BY <2>2, <2>3
<1> QED
  BY <1>4, <1>6, <1>7

LEMMA CutPanics ==
  ASSUME NEW md, Metadata(md), NEW field \in TimeFields, NEW value,
         NEW damaged, damaged = Damage(ToStorageJson(md), field, value),
         NEW text \in TimesIn(field, value), IsCut(text)
  PROVE  ReadingPanics(damaged)
<1>1. field \in Fields
  BY DEF Fields
<1>2. \A f \in Fields \ {field} : FieldIsReadable(damaged, f)
  BY <1>1, RestIsThere
<1>3. value.type = "string" /\ text = value.is
  BY DEF TimesIn, TimeFields
<1>4. field \in DOMAIN damaged /\ damaged[field] = value
  BY <1>1, <1>3 DEF Damage, ToStorageJson
<1>5. TimePanics(damaged, field)
  BY <1>3, <1>4, PanicIsCut DEF TimePanics, IsA
<1>6. PICK i \in 1..3 : TimeOrder[i] = field /\ \A j \in 1..(i - 1) : TimeOrder[j] \in TimeFields \ {field}
  BY DEF TimeOrder, TimeFields
<1>7. \A j \in 1..(i - 1) : HasTime(damaged, TimeOrder[j])
  BY <1>2, <1>6, ReadableIs DEF Fields
<1>8. /\ \A f \in TextFields : IsA("string", damaged, f)
      /\ IsA("string", damaged, "status") /\ FromStr(damaged["status"].is) # {}
      /\ HasObject(damaged, "toolchain", ToolFields)
      /\ IsA("array", damaged, "download_tokens")
      /\ \A k \in DOMAIN damaged["download_tokens"].is :
           IsTokenJson(damaged["download_tokens"].is[k])
  <2>1. /\ \A f \in TextFields : FieldIsReadable(damaged, f)
        /\ FieldIsReadable(damaged, "status") /\ FieldIsReadable(damaged, "toolchain")
        /\ FieldIsReadable(damaged, "download_tokens")
    BY <1>2 DEF Fields, TextFields, TimeFields
  <2> QED
    BY <2>1, ReadableIs
<1> QED
  BY <1>5, <1>6, <1>7, <1>8 DEF ReadingPanics, HasStrings

(* What was read from the damaged field is written as it stands there, but for   *)
(* the times that nobody writes.                                             *)
Returns(field, value, md) ==
  FieldJson(md, field) = value <=> \A text \in TimesIn(field, value) : IsWritten(text)

LEMMA TextReturns ==
  ASSUME NEW field \in TextFields, NEW value, ValueIsTyped(field, value),
         NEW damaged, field \in DOMAIN damaged, damaged[field] = value,
         FieldIsReadable(damaged, field), NEW md, md[field] = FieldFrom(damaged, field)
  PROVE  Returns(field, value, md)
<1>1. value = Str(value.is)
  BY ReadableIs DEF ValueIsTyped, IsJson, IsA
<1>2. FieldJson(md, field) = value
  <2>1. FieldJson(md, field) = Str(md[field])
    BY DEF FieldJson, TextFields, TimeFields
  <2>2. md[field] = value.is
    BY DEF FieldFrom, TextFields, TimeFields
  <2> QED
    BY <1>1, <2>1, <2>2
<1>3. TimesIn(field, value) = {}
  BY DEF TimesIn, TextFields, TimeFields
<1> QED
  BY <1>2, <1>3 DEF Returns

LEMMA StatusReturns ==
  ASSUME NEW field, field = "status", NEW value, ValueIsTyped(field, value),
         NEW damaged, field \in DOMAIN damaged, damaged[field] = value,
         FieldIsReadable(damaged, field), NEW md, md[field] = FieldFrom(damaged, field)
  PROVE  Returns(field, value, md)
<1>1. value = Str(value.is) /\ FromStr(value.is) # {}
  BY ReadableIs DEF ValueIsTyped, IsJson, IsA
<1>2. md[field] = CHOOSE status \in FromStr(value.is) : TRUE
  BY DEF FieldFrom, TextFields, TimeFields
<1>3. md[field] \in FromStr(value.is)
  BY <1>1, <1>2
<1>4. AsStr(md[field]) = value.is
  BY <1>3 DEF FromStr
<1>5. FieldJson(md, field) = value
  BY <1>1, <1>4 DEF FieldJson, TextFields, TimeFields
<1>6. TimesIn(field, value) = {}
  BY DEF TimesIn, TimeFields
<1> QED
  BY <1>5, <1>6 DEF Returns

(* An object with just the members the code knows, all of them texts.          *)
LEMMA ObjectReturns ==
  ASSUME NEW keys, NEW value, value.type = "object", ObjectOf(value, keys),
         HasStrings(value.is, keys), NEW texts, texts = [k \in keys |-> value.is[k].is]
  PROVE  Json("object", Strings(texts, keys)) = value
<1>1. PICK there \in SUBSET keys :
        /\ value.is = [k \in there |-> value.is[k]]
        /\ \A k \in there : IsJson(value.is[k])
  BY DEF ObjectOf
<1>2. there = keys
  BY <1>1 DEF HasStrings, IsA
<1>3. \A k \in keys : value.is[k] = Str(texts[k])
  BY <1>1, <1>2 DEF HasStrings, IsA, IsJson
<1>4. Strings(texts, keys) = value.is
  BY <1>1, <1>2, <1>3 DEF Strings
<1> QED
  BY <1>4 DEF ObjectOf

LEMMA ToolchainReturns ==
  ASSUME NEW field, field = "toolchain", NEW value, ValueIsTyped(field, value),
         NEW damaged, field \in DOMAIN damaged, damaged[field] = value,
         FieldIsReadable(damaged, field), NEW md, md[field] = FieldFrom(damaged, field)
  PROVE  Returns(field, value, md)
<1>1. value.type = "object" /\ HasStrings(value.is, ToolFields)
  BY ReadableIs DEF HasObject, IsA
<1>2. md[field] = [t \in ToolFields |-> value.is[t].is]
  BY DEF FieldFrom, TextFields, TimeFields
<1>3. Json("object", Strings(md[field], ToolFields)) = value
  BY <1>1, <1>2, ObjectReturns DEF ValueIsTyped
<1>4. FieldJson(md, field) = value
  BY <1>3 DEF FieldJson, TextFields, TimeFields
<1>5. TimesIn(field, value) = {}
  BY DEF TimesIn, TimeFields
<1> QED
  BY <1>4, <1>5 DEF Returns

LEMMA TimeReturns ==
  ASSUME NEW field \in TimeFields, NEW value, ValueIsTyped(field, value),
         NEW damaged, field \in DOMAIN damaged, damaged[field] = value,
         FieldIsReadable(damaged, field), NEW md, md[field] = FieldFrom(damaged, field)
  PROVE  Returns(field, value, md)
<1>1. value.type = "string" /\ ParseRfc3339(value.is).ok
  BY ReadableIs DEF HasTime, IsA
<1>2. value = Str(value.is) /\ TimeText(value.is)
  BY <1>1 DEF ValueIsTyped, IsJson
<1>3. md[field] = ParseRfc3339(value.is).time
  BY DEF FieldFrom, TextFields, TimeFields, TimeIn
<1>4. FieldJson(md, field) = Str(FormatRfc3339(md[field]))
  BY DEF FieldJson, TextFields, TimeFields
<1>5. FieldJson(md, field) = value <=> FormatRfc3339(md[field]) = value.is
  BY <1>2, <1>4 DEF Str, Json
<1>6. FormatRfc3339(md[field]) = value.is <=> IsWritten(value.is)
  BY <1>1, <1>2, <1>3, WrittenTextStays, OnlyWrittenTextStays
<1>7. TimesIn(field, value) = {value.is}
  BY <1>1 DEF TimesIn
<1> QED
  BY <1>5, <1>6, <1>7 DEF Returns

LEMMA LinkReturns ==
  ASSUME NEW doc, NEW value, LinkValue(value), IsTokenJson(value),
         NEW token, token = TokenFromJson(doc, value)
  PROVE  /\ value.type = "object" /\ IsA("string", value.is, "expires_at")
         /\ TokenJson(token) = value <=> IsWritten(value.is["expires_at"].is)
<1>1. /\ value.type = "object" /\ IsA("string", value.is, "hash")
      /\ IsA("string", value.is, "expires_at") /\ ParseRfc3339(value.is["expires_at"].is).ok
  BY DEF IsTokenJson, HasTime
<1>2. PICK text : text = value.is["expires_at"].is
  OBVIOUS
<1>3. TimeText(text) /\ ParseRfc3339(text).ok
  BY <1>1, <1>2 DEF LinkValue
<1>4. token.hash = value.is["hash"].is /\ token.expires_at = ParseRfc3339(text).time
  BY <1>2 DEF TokenFromJson, TimeIn
<1>5. PICK there \in SUBSET LinkFields :
        /\ value.is = [k \in there |-> value.is[k]]
        /\ \A k \in there : IsJson(value.is[k])
  BY <1>1 DEF LinkValue, ObjectOf
<1>6. there = {"hash", "expires_at"}
  BY <1>1, <1>5 DEF IsA, LinkFields
<1>7. /\ value = Json("object", value.is)
      /\ value.is = [hash |-> value.is["hash"], expires_at |-> value.is["expires_at"]]
      /\ value.is["hash"] = Str(token.hash) /\ value.is["expires_at"] = Str(text)
  BY <1>1, <1>2, <1>4, <1>5, <1>6 DEF LinkValue, ObjectOf, IsA, IsJson
<1>8. TokenJson(token) = value <=> FormatRfc3339(token.expires_at) = text
  <2>1. PICK is : is = [hash |-> Str(token.hash), expires_at |-> Str(FormatRfc3339(token.expires_at))]
    OBVIOUS
  <2>2. TokenJson(token) = Json("object", is)
    BY <2>1 DEF TokenJson
  <2>3. TokenJson(token) = value <=> is = value.is
    BY <1>7, <2>2 DEF Json
  <2>4. is = value.is <=> is["expires_at"] = value.is["expires_at"]
    BY <1>7, <2>1
  <2>5. Str(FormatRfc3339(token.expires_at)) = Str(text) <=> FormatRfc3339(token.expires_at) = text
    BY DEF Str, Json
  <2> QED
    BY <1>7, <2>1, <2>3, <2>4, <2>5
<1>9. FormatRfc3339(token.expires_at) = text <=> IsWritten(text)
  BY <1>3, <1>4, WrittenTextStays, OnlyWrittenTextStays
<1> QED
  BY <1>1, <1>2, <1>8, <1>9

LEMMA ListReturns ==
  ASSUME NEW field, field = "download_tokens", NEW value, ValueIsTyped(field, value),
         NEW damaged, field \in DOMAIN damaged, damaged[field] = value,
         FieldIsReadable(damaged, field), NEW md, md[field] = FieldFrom(damaged, field)
  PROVE  Returns(field, value, md)
<1>1. value.type = "array" /\ \A i \in DOMAIN value.is : IsTokenJson(value.is[i])
  BY ReadableIs DEF IsA
<1>2. PICK n \in Nat : /\ value.is = [i \in 1..n |-> value.is[i]]
                       /\ \A i \in 1..n : LinkValue(value.is[i])
  BY <1>1 DEF ValueIsTyped, ListOfLinks
<1>3. value = Json("array", value.is) /\ DOMAIN value.is = 1..n
  BY <1>1, <1>2 DEF ValueIsTyped, ListOfLinks
<1>4. md[field] = [i \in 1..n |-> TokenFromJson(damaged, value.is[i])]
  BY <1>3 DEF FieldFrom, TextFields, TimeFields
<1>5. FieldJson(md, field) = Json("array", [i \in 1..n |-> TokenJson(md[field][i])])
  <2>1. DOMAIN md[field] = 1..n
    BY <1>4
  <2> QED
    BY <2>1 DEF FieldJson, TextFields, TimeFields, TokenJson
<1>6. FieldJson(md, field) = value <=> \A i \in 1..n : TokenJson(md[field][i]) = value.is[i]
  <2>1. FieldJson(md, field) = value <=> [i \in 1..n |-> TokenJson(md[field][i])] = value.is
    BY <1>3, <1>5 DEF Json
  <2> QED
    BY <1>2, <2>1
<1>7. ASSUME NEW i \in 1..n
      PROVE  /\ value.is[i].type = "object" /\ IsA("string", value.is[i].is, "expires_at")
             /\ TokenJson(md[field][i]) = value.is[i]
                  <=> IsWritten(value.is[i].is["expires_at"].is)
  <2>1. LinkValue(value.is[i]) /\ IsTokenJson(value.is[i])
    BY <1>1, <1>2, <1>3
  <2>2. md[field][i] = TokenFromJson(damaged, value.is[i])
    BY <1>4
  <2> QED
    BY <2>1, <2>2, LinkReturns
<1>8. TimesIn(field, value) = {value.is[i].is["expires_at"].is : i \in 1..n}
  <2>1. {j \in DOMAIN value.is : value.is[j].type = "object"
                                    /\ IsA("string", value.is[j].is, "expires_at")} = 1..n
    BY <1>3, <1>7
  <2>2. TimesIn(field, value) =
          {value.is[i].is["expires_at"].is :
             i \in {j \in DOMAIN value.is : value.is[j].type = "object"
                                              /\ IsA("string", value.is[j].is, "expires_at")}}
    BY <1>1 DEF TimesIn, TimeFields
  <2> QED
    BY <2>1, <2>2
<1> QED
  BY <1>6, <1>7, <1>8 DEF Returns

LEMMA FieldReturns ==
  ASSUME NEW field \in Fields, field # "error", NEW value, ValueIsTyped(field, value),
         NEW damaged, field \in DOMAIN damaged, damaged[field] = value,
         FieldIsReadable(damaged, field), NEW md, md[field] = FieldFrom(damaged, field)
  PROVE  Returns(field, value, md)
<1>1. \/ field \in TextFields \/ field \in TimeFields \/ field = "status"
      \/ field = "toolchain" \/ field = "download_tokens"
  BY DEF Fields
<1> QED
  BY <1>1, TextReturns, TimeReturns, StatusReturns, ToolchainReturns, ListReturns

LEMMA DamageIsRead ==
  ASSUME NEW md, Metadata(md), NEW field \in Fields, NEW value, ValueIsTyped(field, value),
         NEW damaged, damaged = Damage(ToStorageJson(md), field, value),
         NEW read, read = FromJson(damaged), read.ok
  PROVE  /\ \A f \in Fields \ {field} : read.md[f] = md[f]
         /\ field # "error" =>
              (ToStorageJson(read.md) = damaged
                 <=> \A text \in TimesIn(field, value) : IsWritten(text))
<1>1. /\ \A f \in Fields : FieldIsReadable(damaged, f)
      /\ read.md = [f \in Fields |-> FieldFrom(damaged, f)]
  BY OutcomesDiffer
<1>2. \A f \in Fields \ {field} :
        f \in DOMAIN damaged /\ damaged[f] = FieldJson(md, f) /\ FieldFrom(damaged, f) = md[f]
  BY RestIsThere
<1>3. \A f \in Fields \ {field} : read.md[f] = md[f]
  BY <1>1, <1>2
<1>4. ASSUME field # "error"
      PROVE  ToStorageJson(read.md) = damaged
               <=> \A text \in TimesIn(field, value) : IsWritten(text)
  <2>1. field \in DOMAIN damaged
    BY <1>1, <1>4, ReadableIs DEF Fields, IsA, HasTime, HasObject
  <2>2. value.type # "missing" /\ damaged[field] = value /\ damaged = [f \in Fields |-> damaged[f]]
    BY <2>1 DEF Damage, ToStorageJson
  <2>3. FieldIsReadable(damaged, field) /\ read.md[field] = FieldFrom(damaged, field)
    BY <1>1
  <2>4. Returns(field, value, read.md)
    BY <1>4, <2>1, <2>2, <2>3, FieldReturns
  <2>5. \A f \in Fields \ {field} : FieldJson(read.md, f) = damaged[f]
    BY <1>2, <1>3, FieldsAreWrittenApart
  <2>6. ToStorageJson(read.md) = damaged <=> FieldJson(read.md, field) = value
    <3>1. ToStorageJson(read.md) = [f \in Fields |-> FieldJson(read.md, f)]
      BY DEF ToStorageJson
    <3> QED
      BY <2>2, <2>5, <3>1
  <2> QED
    BY <2>4, <2>6 DEF Returns
<1> QED
  BY <1>3, <1>4

(* What a server saved, the next one loads, with any texts, any number of links  *)
(* and any times of four-digit years.  With any value in the place of one field  *)
(* the file is refused, or the rest is read as it was saved and the field as it  *)
(* stands there, but for times nobody writes; or the time in it makes the        *)
(* parser panic (model.rs: to_storage_json, from_json, parse_rfc3339).          *)
THEOREM SavedMetadataIsLoaded ==
  ASSUME MetadataIsTyped
  PROVE  Spec => []MetadataSurvives
<1>1. IsCase => MetadataSurvives
  <2> SUFFICES ASSUME IsCase, input.kind = "metadata" PROVE MetadataSurvives
    BY DEF MetadataSurvives
  <2>1. PICK md, field, value : md = input.md /\ field = input.field /\ value = input.value
    OBVIOUS
  <2>2. Metadata(md) /\ field \in Fields /\ ValueIsTyped(field, value)
    <3>1. input \in Cases
      BY CaseAssumption DEF IsCase
    <3> QED
      BY <2>1, <3>1, MetadataIsTyped, Zenon DEF MetadataIsTyped
  <2>3. PICK doc : doc = ToStorageJson(md)
    OBVIOUS
  <2>4. PICK damaged : damaged = Damage(doc, field, value)
    OBVIOUS
  <2>5. FromJson(doc) = [ok |-> TRUE, md |-> md]
    <3>1. \A f \in Fields : FieldIsReadable(doc, f) /\ FieldFrom(doc, f) = md[f]
      BY <2>2, <2>3, SavedIsReadable
    <3>2. FromJson(doc) = [ok |-> TRUE, md |-> [f \in Fields |-> FieldFrom(doc, f)]]
      BY <3>1, SavedIsLoaded
    <3>3. [f \in Fields |-> FieldFrom(doc, f)] = md
      BY <2>2, <3>1 DEF Metadata
    <3> QED
      BY <3>2, <3>3
  <2>6. FromJson(damaged) = Panic => \E text \in TimesIn(field, value) : IsCut(text)
    BY <2>2, <2>3, <2>4, OutcomesDiffer, PanicFromTime
  <2>7. field \in TimeFields =>
          \A text \in TimesIn(field, value) : IsCut(text) => FromJson(damaged) = Panic
    BY <2>2, <2>3, <2>4, OutcomesDiffer, CutPanics
  <2>8. FromJson(damaged).ok =>
          /\ \A f \in Fields \ {field} : FromJson(damaged).md[f] = md[f]
          /\ field # "error" =>
               (ToStorageJson(FromJson(damaged).md) = damaged
                  <=> \A text \in TimesIn(field, value) : IsWritten(text))
    BY <2>2, <2>3, <2>4, DamageIsRead
  <2> QED
    BY <2>1, <2>3, <2>4, <2>5, <2>6, <2>7, <2>8 DEF MetadataSurvives, Damage
<1> QED
  BY <1>1, CasesStay, PTL

-----------------------------------------------------------------------------
(* URLs.                                                                    *)

(* A sequence that is one and then another.                                  *)
LEMMA Joined ==
  ASSUME NEW S, NEW s \in Seq(S), NEW t \in Seq(S), NEW u \in Seq(S),
         Len(u) = Len(s) + Len(t),
         \A i \in 1..Len(s) : u[i] = s[i], \A i \in 1..Len(t) : u[Len(s) + i] = t[i]
  PROVE  s \o t = u
<1>1. /\ s \o t \in Seq(S) /\ Len(s \o t) = Len(s) + Len(t)
      /\ \A i \in 1..Len(s) + Len(t) : (s \o t)[i] = IF i <= Len(s) THEN s[i] ELSE t[i - Len(s)]
  BY ConcatProperties
<1>2. ASSUME NEW i \in 1..Len(s) + Len(t) PROVE (s \o t)[i] = u[i]
  <2>1. CASE i <= Len(s)
    BY <1>1, <2>1
  <2>2. CASE i > Len(s)
    <3>1. i - Len(s) \in 1..Len(t) /\ Len(s) + (i - Len(s)) = i
      BY <2>2
    <3>2. u[i] = t[i - Len(s)]
      BY <3>1
    <3> QED
      BY <1>1, <2>2, <3>2
  <2> QED
    BY <2>1, <2>2
<1> QED
  BY <1>1, <1>2, SeqEqual

(* Part k of a URL is its first that is p, or none is.                       *)
LEMMA FirstPart ==
  ASSUME NEW S, NEW url \in Seq(S), NEW p, NEW k \in 1..Len(url),
         url[k] = p, \A i \in 1..Len(url) : i < k => url[i] # p
  PROVE  UpTo(url, p) = SubSeq(url, 1, k - 1) /\ From(url, p) = SubSeq(url, k, Len(url))
<1> DEFINE I == {i \in 1..Len(url) : url[i] = p}
           first == IF I # {} THEN Min(I) ELSE 0
<1>1. /\ UpTo(url, p) = IF first = 0 THEN url ELSE SubSeq(url, 1, first - 1)
      /\ From(url, p) = IF first = 0 THEN <<>> ELSE SubSeq(url, first, Len(url))
  BY DEF UpTo, From, SelectInSeq
<1>2. k \in I /\ \A i \in I : k <= i
  OBVIOUS
<1>3. Min(I) = k
  <2>1. \A x \in I : (\A y \in I : x <= y) => x = k
    BY <1>2
  <2> QED
    BY <1>2, <2>1 DEF Min
<1>4. first = k /\ k # 0
  BY <1>2, <1>3
<1> QED
  BY <1>1, <1>4

LEMMA NoSuchPart ==
  ASSUME NEW S, NEW url \in Seq(S), NEW p, \A i \in 1..Len(url) : url[i] # p
  PROVE  UpTo(url, p) = url /\ AfterLast(url, p) = url
<1> DEFINE I == {i \in 1..Len(url) : url[i] = p}
           first == IF I # {} THEN Min(I) ELSE 0
           last == IF I # {} THEN Max(I) ELSE 0
<1>1. /\ UpTo(url, p) = IF first = 0 THEN url ELSE SubSeq(url, 1, first - 1)
      /\ AfterLast(url, p) = SubSeq(url, last + 1, Len(url))
  BY DEF UpTo, AfterLast, SelectInSeq, SelectLastInSeq
<1>2. I = {}
  OBVIOUS
<1>3. SubSeq(url, 0 + 1, Len(url)) = url
  OBVIOUS
<1> QED
  BY <1>1, <1>2, <1>3

(* Only the slashes behind it are trimmed.                                   *)
LEMMA OnlyLastSlashes ==
  ASSUME NEW S, NEW core \in Seq(S), core # <<>>, core[Len(core)] # "/",
         NEW slashes \in Seq({"/"}), "/" \in S
  PROVE  WithoutLastSlashes(core \o slashes) = core
<1> DEFINE url == core \o slashes
           I == {i \in 1..Len(url) : url[i] # "/"}
           last == IF I # {} THEN Max(I) ELSE 0
<1>1. WithoutLastSlashes(url) = SubSeq(url, 1, last)
  BY DEF WithoutLastSlashes, SelectLastInSeq
<1>2. /\ Len(url) = Len(core) + Len(slashes) /\ Len(core) \in Nat \ {0}
      /\ \A i \in 1..Len(core) : url[i] = core[i]
      /\ \A i \in 1..Len(url) : i > Len(core) => url[i] = "/"
  OBVIOUS
<1>3. Len(core) \in I /\ \A i \in I : i <= Len(core)
  BY <1>2
<1>4. Max(I) = Len(core)
  <2>1. \A x \in I : (\A y \in I : x >= y) => x = Len(core)
    BY <1>2, <1>3
  <2> QED
    BY <1>2, <1>3, <2>1 DEF Max
<1>5. last = Len(core)
  BY <1>3, <1>4
<1>6. SubSeq(url, 1, Len(core)) = core
  BY <1>2, SubSeqOfConcat1
<1> QED
  BY <1>1, <1>5, <1>6

(* A URL of a server and nothing behind it.                                  *)
Bare(url) ==
  /\ (\E S : "/" \in S /\ url \in Seq(S)) /\ Len(url) >= 2
  /\ url[1] \in Schemes /\ \A i \in 2..Len(url) : url[i] # "/"

LEMMA BareUrl ==
  ASSUME NEW url, Bare(url)
  PROVE  /\ HasScheme(url) /\ WithoutLastSlashes(url) = url
         /\ Authority(url) = Tail(url) /\ Tail(url) # <<>>
<1>0. PICK S : "/" \in S /\ url \in Seq(S)
  BY DEF Bare
<1>1. /\ url \in Seq(S) /\ url # <<>> /\ url[1] \in Schemes /\ Head(url) = url[1]
      /\ Len(Tail(url)) = Len(url) - 1 /\ Tail(url) \in Seq(S)
      /\ Len(url) \in Nat /\ Len(url) >= 2
      /\ \A i \in 1..Len(Tail(url)) : Tail(url)[i] = url[i + 1]
  BY <1>0 DEF Bare
<1>2. HasScheme(url) /\ WithoutScheme(url) = Tail(url)
  BY <1>1 DEF HasScheme, WithoutScheme
<1>3. \A i \in 1..Len(Tail(url)) : Tail(url)[i] # "/"
  BY <1>1 DEF Bare
<1>4. UpTo(Tail(url), "/") = Tail(url)
  BY <1>1, <1>3, NoSuchPart
<1>5. url[Len(url)] # "/"
  BY <1>1 DEF Bare
<1>6. <<>> \in Seq({"/"}) /\ url \o <<>> = url
  BY <1>1
<1>7. WithoutLastSlashes(url) = url
  <2>1. WithoutLastSlashes(url \o <<>>) = url
    BY <1>0, <1>1, <1>5, <1>6, OnlyLastSlashes, Zenon
  <2> QED
    BY <1>6, <2>1
<1>8. Authority(url) = Tail(url)
  BY <1>2, <1>4 DEF Authority
<1>9. Tail(url) # <<>>
  <2>1. Len(Tail(url)) # 0 /\ Len(<<>>) = 0
    BY <1>1
  <2> QED
    BY <2>1, Zenon
<1> QED
  BY <1>2, <1>7, <1>8, <1>9

(* A part that nothing looks into.                                           *)
Plain(p) == p \notin {"/", ":", "::1", "@", "[", "]"} \union Schemes

(* The URL of a host by name or by address, with a port or without.           *)
Server(url, host, hasPort) ==
  \E scheme, name, port :
    /\ scheme \in Schemes /\ host = <<name>> /\ Plain(port)
    /\ \/ /\ Plain(name)
          /\ url = IF hasPort THEN <<scheme, name, ":", port>> ELSE <<scheme, name>>
       \/ /\ Plain(name) \/ name = "::1"
          /\ url = IF hasPort THEN <<scheme, "[", name, "]", ":", port>>
                   ELSE <<scheme, "[", name, "]">>

Fine(url, host, hasPort) ==
  /\ Bare(url) /\ ExtractUrlHost(url) = host
  /\ AuthorityHasPort(Authority(url)) <=> hasPort

LEMMA NamedServer ==
  ASSUME NEW scheme \in Schemes, NEW name, Plain(name)
  PROVE  Fine(<<scheme, name>>, <<name>>, FALSE)
<1> DEFINE url == <<scheme, name>>
           S == {scheme, name, "/"}
<1>1. name # "/"
  BY DEF Schemes, Plain
<1>2. Bare(url)
  <2>1. "/" \in S /\ url \in Seq(S) /\ Len(url) >= 2 /\ url[1] = scheme
    OBVIOUS
  <2>2. \A i \in 2..Len(url) : url[i] # "/"
    BY <1>1
  <2> QED
    BY <2>1, <2>2 DEF Bare
<1>3. Tail(url) = <<name>>
  OBVIOUS
<1>4. Authority(url) = <<name>>
  BY <1>2, <1>3, BareUrl
<1>5. <<name>> \in Seq(S)
  BY <1>1
<1>6. UpTo(<<name>>, ":") = <<name>> /\ AfterLast(<<name>>, "@") = <<name>>
  <2>1. \A i \in 1..Len(<<name>>) : <<name>>[i] # ":" /\ <<name>>[i] # "@"
    BY DEF Plain
  <2> QED
    BY <1>5, <2>1, NoSuchPart
<1>7. ExtractUrlHost(url) = <<name>>
  BY <1>4, <1>6 DEF ExtractUrlHost, Plain
<1>8. ~AuthorityHasPort(<<name>>)
  BY <1>6 DEF AuthorityHasPort, Plain
<1> QED
  BY <1>2, <1>4, <1>7, <1>8 DEF Fine

LEMMA NamedServerWithPort ==
  ASSUME NEW scheme \in Schemes, NEW name, Plain(name), NEW port, Plain(port)
  PROVE  Fine(<<scheme, name, ":", port>>, <<name>>, TRUE)
<1> DEFINE url == <<scheme, name, ":", port>>
           S == {scheme, name, ":", port, "/"}
           authority == <<name, ":", port>>
<1>1. name # "/" /\ port # "/"
  BY DEF Schemes, Plain
<1>2. Bare(url)
  <2>1. "/" \in S /\ url \in Seq(S) /\ Len(url) >= 2 /\ url[1] = scheme
    OBVIOUS
  <2>2. \A i \in 2..Len(url) : url[i] # "/"
    BY <1>1
  <2> QED
    BY <2>1, <2>2 DEF Bare
<1>3. Tail(url) = authority
  OBVIOUS
<1>4. Authority(url) = authority
  BY <1>2, <1>3, BareUrl
<1>5. authority \in Seq(S) /\ Len(authority) = 3
  BY <1>1
<1>6. AfterLast(authority, "@") = authority
  <2>1. \A i \in 1..Len(authority) : authority[i] # "@"
    BY DEF Plain
  <2> QED
    BY <1>5, <2>1, NoSuchPart
<1>7. UpTo(authority, ":") = <<name>>
  <2>1. authority[2] = ":" /\ \A i \in 1..Len(authority) : i < 2 => authority[i] # ":"
    BY DEF Plain
  <2>2. UpTo(authority, ":") = SubSeq(authority, 1, 2 - 1)
    <3>1. 2 \in 1..Len(authority)
      BY <1>5
    <3> QED
      BY <1>5, <2>1, <3>1, FirstPart, Zenon
  <2> QED
    BY <2>2
<1>8. authority # <<>> /\ Head(authority) = name /\ name # "["
  BY DEF Plain
<1>9. ExtractUrlHost(url) = <<name>>
  BY <1>4, <1>7, <1>8 DEF ExtractUrlHost
<1>10. 2 \in DOMAIN authority /\ authority[2] = ":"
  OBVIOUS
<1> HIDE DEF authority
<1>11. AuthorityHasPort(authority)
  BY <1>6, <1>8, <1>10 DEF AuthorityHasPort
<1> QED
  BY <1>2, <1>4, <1>9, <1>11 DEF Fine

LEMMA AddressServer ==
  ASSUME NEW scheme \in Schemes, NEW address, Plain(address) \/ address = "::1"
  PROVE  Fine(<<scheme, "[", address, "]">>, <<address>>, FALSE)
<1> DEFINE url == <<scheme, "[", address, "]">>
           S == {scheme, "[", address, "]", "/"}
           authority == <<"[", address, "]">>
<1>1. address \notin {"/", "@", ":", "[", "]"}
  BY DEF Schemes, Plain
<1>2. Bare(url)
  <2>1. "/" \in S /\ url \in Seq(S) /\ Len(url) >= 2 /\ url[1] = scheme
    OBVIOUS
  <2>2. \A i \in 2..Len(url) : url[i] # "/"
    BY <1>1
  <2> QED
    BY <2>1, <2>2 DEF Bare
<1>3. Tail(url) = authority
  OBVIOUS
<1>4. Authority(url) = authority
  BY <1>2, <1>3, BareUrl
<1>5. authority \in Seq(S) /\ Len(authority) = 3
  BY <1>1
<1>6. AfterLast(authority, "@") = authority
  <2>1. \A i \in 1..Len(authority) : authority[i] # "@"
    BY <1>1
  <2> QED
    BY <1>5, <2>1, NoSuchPart
<1>7. authority # <<>> /\ Head(authority) = "[" /\ Tail(authority) = <<address, "]">>
  OBVIOUS
<1>8. UpTo(<<address, "]">>, "]") = <<address>>
  <2> DEFINE rest == <<address, "]">>
  <2>1. rest \in Seq(S) /\ Len(rest) = 2
    BY <1>1
  <2>2. rest[2] = "]" /\ \A i \in 1..Len(rest) : i < 2 => rest[i] # "]"
    BY <1>1
  <2>3. UpTo(rest, "]") = SubSeq(rest, 1, 2 - 1)
    <3>1. 2 \in 1..Len(rest)
      BY <2>1
    <3> QED
      BY <2>1, <2>2, <3>1, FirstPart, Zenon
  <2> QED
    BY <2>3
<1>9. ExtractUrlHost(url) = <<address>>
  BY <1>4, <1>7, <1>8 DEF ExtractUrlHost
<1>10. \A i \in 1..Len(authority) - 1 : ~(authority[i] = "]" /\ authority[i + 1] = ":")
  BY <1>1
<1> HIDE DEF authority
<1>11. ~AuthorityHasPort(authority)
  BY <1>6, <1>7, <1>10 DEF AuthorityHasPort
<1> QED
  BY <1>2, <1>4, <1>9, <1>11 DEF Fine

LEMMA AddressServerWithPort ==
  ASSUME NEW scheme \in Schemes, NEW address, Plain(address) \/ address = "::1",
         NEW port, Plain(port)
  PROVE  Fine(<<scheme, "[", address, "]", ":", port>>, <<address>>, TRUE)
<1> DEFINE url == <<scheme, "[", address, "]", ":", port>>
           S == {scheme, "[", address, "]", ":", port, "/"}
           authority == <<"[", address, "]", ":", port>>
<1>1. /\ address \notin {"/", "@", ":", "[", "]"}
      /\ port \notin {"/", "@"}
  BY DEF Schemes, Plain
<1>2. Bare(url)
  <2>1. "/" \in S /\ url \in Seq(S) /\ Len(url) >= 2 /\ url[1] = scheme
    OBVIOUS
  <2>2. \A i \in 2..Len(url) : url[i] # "/"
    BY <1>1
  <2> QED
    BY <2>1, <2>2 DEF Bare
<1>3. Tail(url) = authority
  OBVIOUS
<1>4. Authority(url) = authority
  BY <1>2, <1>3, BareUrl
<1>5. authority \in Seq(S) /\ Len(authority) = 5
  BY <1>1
<1>6. AfterLast(authority, "@") = authority
  <2>1. \A i \in 1..Len(authority) : authority[i] # "@"
    BY <1>1
  <2> QED
    BY <1>5, <2>1, NoSuchPart
<1>7. authority # <<>> /\ Head(authority) = "[" /\ Tail(authority) = <<address, "]", ":", port>>
  OBVIOUS
<1>8. UpTo(<<address, "]", ":", port>>, "]") = <<address>>
  <2> DEFINE rest == <<address, "]", ":", port>>
  <2>1. rest \in Seq(S) /\ Len(rest) = 4
    BY <1>1
  <2>2. rest[2] = "]" /\ \A i \in 1..Len(rest) : i < 2 => rest[i] # "]"
    BY <1>1
  <2>3. UpTo(rest, "]") = SubSeq(rest, 1, 2 - 1)
    <3>1. 2 \in 1..Len(rest)
      BY <2>1
    <3> QED
      BY <2>1, <2>2, <3>1, FirstPart, Zenon
  <2> QED
    BY <2>3
<1>9. ExtractUrlHost(url) = <<address>>
  BY <1>4, <1>7, <1>8 DEF ExtractUrlHost
<1>10. 3 \in 1..Len(authority) - 1 /\ authority[3] = "]" /\ authority[3 + 1] = ":"
  OBVIOUS
<1> HIDE DEF authority
<1>11. AuthorityHasPort(authority)
  BY <1>6, <1>7, <1>10 DEF AuthorityHasPort
<1> QED
  BY <1>2, <1>4, <1>9, <1>11 DEF Fine

LEMMA ServerIsFine ==
  ASSUME NEW url, NEW host, NEW hasPort \in BOOLEAN, Server(url, host, hasPort)
  PROVE  Fine(url, host, hasPort)
<1>1. PICK scheme, name, port :
        /\ scheme \in Schemes /\ host = <<name>> /\ Plain(port)
        /\ \/ /\ Plain(name)
              /\ url = IF hasPort THEN <<scheme, name, ":", port>> ELSE <<scheme, name>>
           \/ /\ Plain(name) \/ name = "::1"
              /\ url = IF hasPort THEN <<scheme, "[", name, "]", ":", port>>
                       ELSE <<scheme, "[", name, "]">>
  BY Zenon DEF Server
<1>2. CASE hasPort
  <2>1. hasPort = TRUE
    BY <1>2
  <2> QED
    BY <1>1, <2>1, NamedServerWithPort, AddressServerWithPort, Zenon
<1>3. CASE ~hasPort
  <2>1. hasPort = FALSE
    BY <1>3
  <2> QED
    BY <1>1, <2>1, NamedServer, AddressServer, Zenon
<1> QED
  BY <1>2, <1>3

LEMMA TwoBehindTwo ==
  ASSUME NEW a, NEW b, NEW e, NEW f
  PROVE  <<a, b>> \o <<e, f>> = <<a, b, e, f>>
<1> DEFINE S == {a, b, e, f}
           s == <<a, b>>
           t == <<e, f>>
           u == <<a, b, e, f>>
<1>1. s \in Seq(S) /\ t \in Seq(S) /\ u \in Seq(S) /\ Len(s) = 2 /\ Len(t) = 2 /\ Len(u) = 4
  OBVIOUS
<1>2. u[1] = s[1] /\ u[2] = s[2] /\ u[3] = t[1] /\ u[4] = t[2]
  OBVIOUS
<1> HIDE DEF S, s, t, u
<1>3. \A i \in 1..Len(s) : u[i] = s[i]
  BY <1>1, <1>2
<1>4. \A i \in 1..Len(t) : u[Len(s) + i] = t[i]
  BY <1>1, <1>2
<1>5. Len(u) = Len(s) + Len(t)
  BY <1>1
<1>6. s \o t = u
  BY <1>1, <1>3, <1>4, <1>5, Joined, Zenon
<1> QED
  BY <1>6 DEF s, t, u

LEMMA TwoBehindFour ==
  ASSUME NEW a, NEW b, NEW c, NEW d, NEW e, NEW f
  PROVE  <<a, b, c, d>> \o <<e, f>> = <<a, b, c, d, e, f>>
<1> DEFINE S == {a, b, c, d, e, f}
           s == <<a, b, c, d>>
           t == <<e, f>>
           u == <<a, b, c, d, e, f>>
<1>1. s \in Seq(S) /\ t \in Seq(S) /\ u \in Seq(S) /\ Len(s) = 4 /\ Len(t) = 2 /\ Len(u) = 6
  OBVIOUS
<1>2. /\ u[1] = s[1] /\ u[2] = s[2] /\ u[3] = s[3] /\ u[4] = s[4]
      /\ u[5] = t[1] /\ u[6] = t[2]
  OBVIOUS
<1> HIDE DEF S, s, t, u
<1>3. \A i \in 1..Len(s) : u[i] = s[i]
  BY <1>1, <1>2
<1>4. \A i \in 1..Len(t) : u[Len(s) + i] = t[i]
  BY <1>1, <1>2
<1>5. Len(u) = Len(s) + Len(t)
  BY <1>1
<1>6. s \o t = u
  BY <1>1, <1>3, <1>4, <1>5, Joined, Zenon
<1> QED
  BY <1>6 DEF s, t, u

(* Without a port of its own, it can be given one.                            *)
LEMMA PortAdded ==
  ASSUME NEW url, NEW host, Server(url, host, FALSE), NEW port, Plain(port)
  PROVE  Server(url \o <<":", port>>, host, TRUE)
<1>1. PICK scheme, name :
        /\ scheme \in Schemes /\ host = <<name>>
        /\ \/ Plain(name) /\ url = <<scheme, name>>
           \/ (Plain(name) \/ name = "::1") /\ url = <<scheme, "[", name, "]">>
  BY Zenon DEF Server
<1>2. CASE Plain(name) /\ url = <<scheme, name>>
  <2>1. url \o <<":", port>> = <<scheme, name, ":", port>>
    BY <1>2, TwoBehindTwo, Zenon
  <2> QED
    BY <1>1, <1>2, <2>1, Zenon DEF Server
<1>3. CASE (Plain(name) \/ name = "::1") /\ url = <<scheme, "[", name, "]">>
  <2>1. url \o <<":", port>> = <<scheme, "[", name, "]", ":", port>>
    <3>1. <<scheme, "[", name, "]">> \o <<":", port>> = <<scheme, "[", name, "]", ":", port>>
      BY TwoBehindFour
    <3> QED
      BY <1>3, <3>1, Zenon
  <2> QED
    BY <1>1, <1>3, <2>1, Zenon DEF Server
<1> QED
  BY <1>1, <1>2, <1>3

(* What the URL of a server is made into.                                    *)
NormalForm(url, hasPort, port) ==
  IF hasPort \/ port = DefaultPort(url) THEN url ELSE url \o <<":", ToString(port)>>

LEMMA NormalizedIs ==
  ASSUME NEW url, NEW host, NEW hasPort \in BOOLEAN, Server(url, host, hasPort),
         NEW slashes \in Seq({"/"}), NEW port
  PROVE  /\ WithoutLastSlashes(url \o slashes) = url
         /\ NormalizePublicBaseUrl(url \o slashes, port) = NormalForm(url, hasPort, port)
<1>1. Fine(url, host, hasPort)
  BY ServerIsFine
<1>2. Bare(url) /\ (AuthorityHasPort(Authority(url)) <=> hasPort)
  BY <1>1 DEF Fine
<1>3. Authority(url) # <<>>
  BY <1>2, BareUrl
<1>4. PICK S : "/" \in S /\ url \in Seq(S) /\ url # <<>> /\ url[Len(url)] # "/"
  <2>1. PICK S : "/" \in S /\ url \in Seq(S)
    BY <1>2 DEF Bare
  <2>2. Len(url) >= 2 /\ \A i \in 2..Len(url) : url[i] # "/"
    BY <1>2 DEF Bare
  <2>3. url # <<>> /\ Len(url) \in 2..Len(url)
    BY <2>1, <2>2
  <2> QED
    BY <2>1, <2>2, <2>3
<1>5. WithoutLastSlashes(url \o slashes) = url
  BY <1>4, OnlyLastSlashes, Zenon
<1> QED
  BY <1>2, <1>3, <1>5, Zenon DEF NormalizePublicBaseUrl, NormalForm

(* The link made of it, as the machine itself would call it.                  *)
LEMMA LocalLink ==
  ASSUME NEW url, Bare(url), NEW port
  PROVE  LocalizeServiceUrl(DownloadUrl(url, "token"), "0.0.0.0", port)
           = <<"http://", "127.0.0.1">> \o <<":", ToString(port)>> \o <<"/", "s", "/", "token">>
<1> DEFINE rest == <<"/", "s", "/", "token">>
           link == url \o rest
           path == Tail(url) \o rest
<1>1. PICK S : "/" \in S /\ url \in Seq(S)
  BY DEF Bare
<1> DEFINE T == S \union {"s", "token"}
<1>2. /\ url \in Seq(T) /\ Tail(url) \in Seq(T) /\ rest \in Seq(T) /\ Len(rest) = 4
      /\ Len(url) \in Nat /\ Len(url) >= 2 /\ Len(Tail(url)) = Len(url) - 1
      /\ \A i \in 1..Len(Tail(url)) : Tail(url)[i] = url[i + 1]
  <2>1. url \in Seq(T)
    BY <1>1
  <2>2. rest \in Seq(T) /\ Len(rest) = 4
    BY <1>1
  <2>3. Len(url) >= 2
    BY DEF Bare
  <2> QED
    BY <2>1, <2>2, <2>3
<1>3. rest[1] = "/"
  OBVIOUS
<1> HIDE DEF rest, T
<1>4. link # <<>> /\ Head(link) = url[1] /\ Tail(link) = path
  BY <1>2
<1>5. WithoutScheme(link) = path
  <2>1. url[1] \in Schemes
    BY DEF Bare
  <2> QED
    BY <1>4, <2>1 DEF WithoutScheme, HasScheme
<1>6. /\ path \in Seq(T) /\ Len(path) = Len(url) + 3 /\ path[Len(url)] = "/"
      /\ \A i \in 1..Len(path) : i < Len(url) => path[i] # "/"
  <2>1. path \in Seq(T) /\ Len(path) = Len(url) + 3 /\ path[Len(url)] = rest[1]
    <3>1. /\ path \in Seq(T) /\ Len(path) = Len(Tail(url)) + Len(rest)
          /\ \A i \in 1..Len(Tail(url)) + Len(rest) :
               path[i] = IF i <= Len(Tail(url)) THEN Tail(url)[i] ELSE rest[i - Len(Tail(url))]
      BY <1>2, ConcatProperties
    <3>2. Len(url) \in 1..Len(Tail(url)) + Len(rest) /\ Len(url) > Len(Tail(url))
          /\ Len(url) - Len(Tail(url)) = 1
      BY <1>2
    <3>3. path[Len(url)] = rest[1]
      BY <1>2, <3>1, <3>2
    <3> QED
      BY <1>2, <3>1, <3>3
  <2>2. \A i \in 1..Len(url) - 1 : path[i] = url[i + 1]
    BY <1>2
  <2>3. \A i \in 2..Len(url) : url[i] # "/"
    BY DEF Bare
  <2> QED
    BY <1>2, <1>3, <2>1, <2>2, <2>3
<1>7. From(path, "/") = SubSeq(path, Len(url), Len(path))
  <2>1. Len(url) \in 1..Len(path)
    BY <1>2, <1>6
  <2> QED
    BY <1>6, <2>1, FirstPart, Zenon
<1>8. SubSeq(path, Len(url), Len(path)) = rest
  <2>1. Len(path) = Len(Tail(url)) + Len(rest) /\ Len(url) = Len(Tail(url)) + 1
    BY <1>2, <1>6
  <2> QED
    BY <1>2, <2>1
<1>9. ExtractUrlPath(link) = rest
  BY <1>5, <1>7, <1>8 DEF ExtractUrlPath
<1>10. LocalServiceBaseUrl("0.0.0.0", port) = <<"http://", "127.0.0.1", ":", ToString(port)>>
  BY DEF LocalServiceBaseUrl
<1>11. <<"http://", "127.0.0.1", ":", ToString(port)>>
         = <<"http://", "127.0.0.1">> \o <<":", ToString(port)>>
  OBVIOUS
<1>12. DownloadUrl(url, "token") = link
  BY DEF DownloadUrl, rest
<1> QED
  BY <1>9, <1>10, <1>11, <1>12 DEF LocalizeServiceUrl, rest

(* The cases with a URL: that of a host, with as many slashes behind as one    *)
(* likes, and the number of a port is no part that is looked into.           *)
UrlsAreTyped ==
  \A case \in Cases :
    case.kind = "url" /\ ValidateHttpishUrl(case.url) =>
      /\ case.explicit \in BOOLEAN /\ Plain(ToString(case.port))
      /\ \E server : \E slashes \in Seq({"/"}) :
           case.url = server \o slashes /\ Server(server, case.host, case.explicit)

LEMMA NormalStays ==
  ASSUME NEW url, NEW host, NEW hasPort \in BOOLEAN, Server(url, host, hasPort),
         NEW port, hasPort \/ port = DefaultPort(url)
  PROVE  NormalizePublicBaseUrl(url, port) = url
<1>1. <<>> \in Seq({"/"})
  OBVIOUS
<1>2. NormalizePublicBaseUrl(url \o <<>>, port) = NormalForm(url, hasPort, port)
  BY <1>1, NormalizedIs, Zenon
<1>3. url \o <<>> = url
  <2>1. Bare(url)
    BY ServerIsFine DEF Fine
  <2>2. PICK S : url \in Seq(S)
    BY <2>1 DEF Bare
  <2> QED
    BY <2>2
<1> QED
  BY <1>2, <1>3 DEF NormalForm

LeadsTo(base, url, host, hasPort, port) ==
  /\ NormalizePublicBaseUrl(base, port) = base
  /\ ExtractUrlHost(base) = host
  /\ Bare(base)
  /\ hasPort => base = url
  /\ ~hasPort => \/ base = url \o <<":", ToString(port)>>
                 \/ base = url /\ port = DefaultPort(base)

LEMMA LinkReaches ==
  ASSUME NEW url, NEW host, NEW hasPort \in BOOLEAN, Server(url, host, hasPort),
         NEW slashes \in Seq({"/"}), NEW port, Plain(ToString(port)),
         NEW base, base = NormalizePublicBaseUrl(url \o slashes, port)
  PROVE  LeadsTo(base, url, host, hasPort, port)
<1>0. base = NormalForm(url, hasPort, port)
  BY NormalizedIs, Zenon
<1>1. base = IF hasPort \/ port = DefaultPort(url) THEN url
             ELSE url \o <<":", ToString(port)>>
  BY <1>0 DEF NormalForm
<1>2. PICK named \in BOOLEAN : /\ Server(base, host, named)
                               /\ named \/ port = DefaultPort(base)
  <2>1. CASE hasPort
    <3>1. hasPort = TRUE /\ base = url
      BY <1>1, <2>1
    <3> QED
      BY <3>1
  <2>2. CASE ~hasPort /\ port = DefaultPort(url)
    BY <1>1, <2>2
  <2>3. CASE ~hasPort /\ port # DefaultPort(url)
    <3>1. hasPort = FALSE /\ base = url \o <<":", ToString(port)>>
      BY <1>1, <2>3
    <3>2. Server(base, host, TRUE)
      BY <3>1, PortAdded
    <3> QED
      BY <3>2
  <2> QED
    BY <2>1, <2>2, <2>3
<1>3. Fine(base, host, named)
  BY <1>2, ServerIsFine
<1>4. Bare(base) /\ ExtractUrlHost(base) = host
  BY <1>3 DEF Fine
<1>5. NormalizePublicBaseUrl(base, port) = base
  BY <1>2, NormalStays, Zenon
<1> QED
  BY <1>1, <1>4, <1>5, Zenon DEF LeadsTo

(* A link made for the URL of any server leads there: with the port it names,    *)
(* else with the server's, and normalized once or twice; and it can be tried   *)
(* on the machine itself (config.rs: normalize_public_base_url,               *)
(* extract_url_host, localize_service_url).                                  *)
THEOREM LinksLeadToTheServer == UrlsAreTyped /\ Spec => []LinksReachTheService
<1> SUFFICES ASSUME UrlsAreTyped PROVE Spec => []LinksReachTheService
  OBVIOUS
<1>1. IsCase => LinksReachTheService
  <2> SUFFICES ASSUME IsCase, input.kind = "url", ValidateHttpishUrl(input.url)
               PROVE  LinksReachTheService
    BY DEF LinksReachTheService
  <2>1. /\ input.explicit \in BOOLEAN /\ Plain(ToString(input.port))
        /\ \E server : \E slashes \in Seq({"/"}) :
             input.url = server \o slashes /\ Server(server, input.host, input.explicit)
    BY Zenon DEF UrlsAreTyped, IsCase
  <2>2. PICK server, slashes :
          /\ slashes \in Seq({"/"})
          /\ input.url = server \o slashes
          /\ Server(server, input.host, input.explicit)
    BY <2>1, Zenon
  <2>3. WithoutLastSlashes(input.url) = server
    BY <2>1, <2>2, NormalizedIs, Zenon
  <2>4. PICK base : base = NormalizePublicBaseUrl(input.url, input.port)
    OBVIOUS
  <2>5. /\ NormalizePublicBaseUrl(base, input.port) = base
        /\ ExtractUrlHost(base) = input.host
        /\ Bare(base)
        /\ input.explicit => base = server
        /\ ~input.explicit => \/ base = server \o <<":", ToString(input.port)>>
                              \/ base = server /\ input.port = DefaultPort(base)
    <3>1. LeadsTo(base, server, input.host, input.explicit, input.port)
      BY <2>1, <2>2, <2>4, LinkReaches, Zenon
    <3> QED
      BY <3>1, Zenon DEF LeadsTo
  <2>6. LocalizeServiceUrl(DownloadUrl(base, "token"), "0.0.0.0", input.port)
          = <<"http://", "127.0.0.1">> \o <<":", ToString(input.port)>> \o <<"/", "s", "/", "token">>
    BY <2>5, LocalLink
  <2> QED
    BY <2>3, <2>4, <2>5, <2>6, Zenon DEF LinksReachTheService
<1> QED
  BY <1>1, CasesStay, PTL

-----------------------------------------------------------------------------
(* Machines that take one character after the other.                          *)

Machine(name, arg) == [name |-> name, arg |-> arg]

(* What machine m makes of its state s and the next character.                 *)
After(m, s, ch) ==
  CASE m.name = "quoted" -> ReadOn(s, ch)
    [] m.name = "entities" -> XmlReadOn(s, ch)
    [] m.name = "comment" -> ScanOn(s, ch, m.arg)
    [] m.name = "replace" -> s \o (IF ch = m.arg.of THEN m.arg.by ELSE <<ch>>)
    [] m.name = "escape" -> Replaced(s, ch[1], <<Ampersand, ch[2]>>)

(* The text takes machine m from state a to state b.                          *)
Takes(m, a, text, b) ==
  \E r : /\ r[0] = a /\ r[Len(text)] = b
         /\ \A i \in 1..Len(text) : r[i] = After(m, r[i - 1], text[i])

LEMMA TakesNothing ==
  ASSUME NEW m, NEW a
  PROVE  Takes(m, a, <<>>, a)
<1> DEFINE r == [i \in {0} |-> a]
<1>1. r[0] = a /\ Len(<<>>) = 0 /\ 1..Len(<<>>) = {}
  OBVIOUS
<1> HIDE DEF r
<1>2. r[Len(<<>>)] = a /\ \A i \in 1..Len(<<>>) : r[i] = After(m, r[i - 1], <<>>[i])
  BY <1>1
<1> QED
  BY <1>1, <1>2, Zenon DEF Takes

LEMMA TakesOne ==
  ASSUME NEW m, NEW a, NEW ch, NEW b, b = After(m, a, ch)
  PROVE  Takes(m, a, <<ch>>, b)
<1> DEFINE r == [i \in {0, 1} |-> IF i = 0 THEN a ELSE b]
           t == <<ch>>
<1>1. r[0] = a /\ r[1] = b /\ Len(t) = 1 /\ t[1] = ch /\ 1 - 1 = 0
  OBVIOUS
<1> HIDE DEF r, t
<1>2. r[Len(t)] = b
  BY <1>1
<1>3. \A i \in 1..Len(t) : r[i] = After(m, r[i - 1], t[i])
  <2>1. \A i \in 1..Len(t) : i = 1
    BY <1>1
  <2> QED
    BY <1>1, <2>1
<1>4. Takes(m, a, t, b)
  BY <1>1, <1>2, <1>3, Zenon DEF Takes
<1> QED
  BY <1>4 DEF t

LEMMA TakesOn ==
  ASSUME NEW m, NEW a, NEW b, NEW c, NEW S, NEW s \in Seq(S), NEW t \in Seq(S),
         Takes(m, a, s, b), Takes(m, b, t, c)
  PROVE  Takes(m, a, s \o t, c)
<1>1. PICK r : /\ r[0] = a /\ r[Len(s)] = b
               /\ \A i \in 1..Len(s) : r[i] = After(m, r[i - 1], s[i])
  BY Zenon DEF Takes
<1>2. PICK q : /\ q[0] = b /\ q[Len(t)] = c
               /\ \A i \in 1..Len(t) : q[i] = After(m, q[i - 1], t[i])
  BY Zenon DEF Takes
<1>3. PICK u : u = s \o t
  OBVIOUS
<1>4. PICK x : x = [i \in 0..Len(u) |-> IF i <= Len(s) THEN r[i] ELSE q[i - Len(s)]]
  OBVIOUS
<1>5. /\ Len(u) = Len(s) + Len(t) /\ Len(s) \in Nat /\ Len(t) \in Nat
      /\ \A i \in 1..Len(s) : u[i] = s[i]
      /\ \A i \in Len(s) + 1..Len(u) : u[i] = t[i - Len(s)]
  BY <1>3, ConcatProperties
<1>6. /\ \A i \in 0..Len(s) : x[i] = r[i]
      /\ \A i \in Len(s)..Len(u) : x[i] = q[i - Len(s)]
  <2>1. \A i \in 0..Len(s) : x[i] = r[i]
    BY <1>4, <1>5
  <2>2. ASSUME NEW i \in Len(s)..Len(u) PROVE x[i] = q[i - Len(s)]
    <3>1. CASE i = Len(s)
      BY <1>1, <1>2, <1>5, <2>1, <3>1
    <3>2. CASE i > Len(s)
      BY <1>4, <1>5, <3>2
    <3> QED
      BY <1>5, <3>1, <3>2
  <2> QED
    BY <2>1, <2>2
<1>7. x[0] = a /\ x[Len(u)] = c
  <2>1. 0 \in 0..Len(s) /\ Len(u) \in Len(s)..Len(u) /\ Len(u) - Len(s) = Len(t)
    BY <1>5
  <2>2. x[Len(u)] = q[Len(t)]
    BY <1>6, <2>1
  <2> QED
    BY <1>1, <1>2, <1>6, <2>1, <2>2
<1>8. ASSUME NEW i \in 1..Len(u)
      PROVE  x[i] = After(m, x[i - 1], u[i])
  <2>1. CASE i <= Len(s)
    <3>1. i \in 1..Len(s) /\ i \in 0..Len(s) /\ i - 1 \in 0..Len(s)
      BY <1>5, <2>1
    <3>2. x[i] = r[i] /\ x[i - 1] = r[i - 1] /\ u[i] = s[i]
      BY <1>5, <1>6, <3>1
    <3> QED
      BY <1>1, <3>1, <3>2
  <2>2. CASE i > Len(s)
    <3>1. /\ i \in Len(s) + 1..Len(u) /\ i \in Len(s)..Len(u) /\ i - 1 \in Len(s)..Len(u)
          /\ i - Len(s) \in 1..Len(t) /\ (i - 1) - Len(s) = (i - Len(s)) - 1
      BY <1>5, <2>2
    <3>2. x[i] = q[i - Len(s)] /\ x[i - 1] = q[(i - Len(s)) - 1] /\ u[i] = t[i - Len(s)]
      BY <1>5, <1>6, <3>1
    <3> QED
      BY <1>2, <3>1, <3>2
  <2> QED
    BY <1>5, <2>1, <2>2
<1>9. Takes(m, a, u, c)
  BY <1>7, <1>8, Zenon DEF Takes
<1> QED
  BY <1>3, <1>9

(* A machine does the same on the same text.                                  *)
LEMMA TakesToOne ==
  ASSUME NEW m, NEW a, NEW S, NEW text \in Seq(S), NEW b, NEW c,
         Takes(m, a, text, b), Takes(m, a, text, c)
  PROVE  b = c
<1>1. PICK r : /\ r[0] = a /\ r[Len(text)] = b
               /\ \A i \in 1..Len(text) : r[i] = After(m, r[i - 1], text[i])
  BY Zenon DEF Takes
<1>2. PICK q : /\ q[0] = a /\ q[Len(text)] = c
               /\ \A i \in 1..Len(text) : q[i] = After(m, q[i - 1], text[i])
  BY Zenon DEF Takes
<1> DEFINE Q == {n \in Nat : n <= Len(text) => r[n] = q[n]}
<1>3. 0 \in Q
  BY <1>1, <1>2
<1>4. ASSUME NEW n \in Nat, n \in Q PROVE n + 1 \in Q
  <2> SUFFICES ASSUME n + 1 <= Len(text) PROVE r[n + 1] = q[n + 1]
    OBVIOUS
  <2>1. n + 1 \in 1..Len(text) /\ (n + 1) - 1 = n /\ r[n] = q[n]
    BY <1>4
  <2> QED
    BY <1>1, <1>2, <2>1
<1> HIDE DEF Q
<1>5. \A n \in Nat : n \in Q
  BY <1>3, <1>4, Induction
<1>6. Len(text) \in Q /\ Len(text) \in Nat
  BY <1>5
<1> QED
  BY <1>1, <1>2, <1>6 DEF Q

-----------------------------------------------------------------------------
(* A fold over a sequence is where its machine ends.                          *)

(* g is the value of the fold on each set of places.                          *)
IsFold(g, m, a, text, n) ==
  \A s \in SUBSET (1..n) :
    g[s] = IF s = {} THEN a ELSE After(m, g[s \ {Max(s)}], text[Max(s)])

LEMMA MaxIs ==
  ASSUME NEW n \in Nat, NEW s \in SUBSET (1..n), n \in s
  PROVE  Max(s) = n
<1>1. n \in s /\ \A y \in s : n >= y
  OBVIOUS
<1>2. \A x \in s : (\A y \in s : x >= y) => x = n
  BY <1>1
<1> QED
  BY <1>1, <1>2 DEF Max

LEMMA FoldExists ==
  ASSUME NEW m, NEW a, NEW text, NEW n \in Nat
  PROVE  \E g : g = [s \in SUBSET (1..n) |-> g[s]] /\ IsFold(g, m, a, text, n)
<1> DEFINE Q == {k \in Nat : \E g : g = [s \in SUBSET (1..k) |-> g[s]] /\ IsFold(g, m, a, text, k)}
<1>1. 0 \in Q
  <2> DEFINE g == [s \in SUBSET (1..0) |-> a]
  <2>1. \A s \in SUBSET (1..0) : s = {} /\ g[s] = a
    OBVIOUS
  <2>2. g = [s \in SUBSET (1..0) |-> g[s]]
    OBVIOUS
  <2> HIDE DEF g
  <2>3. IsFold(g, m, a, text, 0)
    BY <2>1 DEF IsFold
  <2> QED
    BY <2>2, <2>3
<1>2. ASSUME NEW k \in Nat, k \in Q PROVE k + 1 \in Q
  <2>1. PICK g : IsFold(g, m, a, text, k)
    BY <1>2
  <2>2. PICK h : h = [s \in SUBSET (1..k + 1) |->
                        IF k + 1 \in s THEN After(m, g[s \ {k + 1}], text[k + 1]) ELSE g[s]]
    OBVIOUS
  <2>3. \A s \in SUBSET (1..k + 1) :
          h[s] = IF k + 1 \in s THEN After(m, g[s \ {k + 1}], text[k + 1]) ELSE g[s]
    BY <2>2
  <2>4. h = [s \in SUBSET (1..k + 1) |-> h[s]]
    BY <2>2
  <2>5. \A s \in SUBSET (1..k + 1) :
          k + 1 \notin s => s \in SUBSET (1..k) /\ h[s] = g[s]
    BY <2>3
  <2>6. ASSUME NEW s \in SUBSET (1..k + 1)
        PROVE  h[s] = IF s = {} THEN a ELSE After(m, h[s \ {Max(s)}], text[Max(s)])
    <3>1. CASE k + 1 \in s
      <4>1. Max(s) = k + 1
        BY <3>1, MaxIs
      <4>2. s # {} /\ s \ {k + 1} \in SUBSET (1..k + 1) /\ k + 1 \notin s \ {k + 1}
        BY <3>1
      <4>3. h[s \ {k + 1}] = g[s \ {k + 1}]
        BY <2>5, <4>2
      <4>4. h[s] = After(m, g[s \ {k + 1}], text[k + 1])
        BY <2>3, <3>1
      <4> QED
        BY <4>1, <4>2, <4>3, <4>4
    <3>2. CASE k + 1 \notin s
      <4>1. s \in SUBSET (1..k) /\ h[s] = g[s]
        BY <2>5, <3>2
      <4>2. g[s] = IF s = {} THEN a ELSE After(m, g[s \ {Max(s)}], text[Max(s)])
        BY <2>1, <4>1 DEF IsFold
      <4>3. s \ {Max(s)} \in SUBSET (1..k + 1) /\ k + 1 \notin s \ {Max(s)}
        BY <3>2
      <4>4. h[s \ {Max(s)}] = g[s \ {Max(s)}]
        BY <2>5, <4>3
      <4> QED
        BY <4>1, <4>2, <4>4
    <3> QED
      BY <3>1, <3>2
  <2>7. IsFold(h, m, a, text, k + 1)
    BY <2>6 DEF IsFold
  <2> QED
    BY <2>4, <2>7
<1> HIDE DEF Q
<1>3. n \in Q
  BY <1>1, <1>2, Induction
<1> QED
  BY <1>3 DEF Q

LEMMA FoldIs ==
  ASSUME NEW g, NEW m, NEW a, NEW b, NEW S, NEW text \in Seq(S),
         IsFold(g, m, a, text, Len(text)), Takes(m, a, text, b)
  PROVE  g[1..Len(text)] = b
<1>1. PICK r : /\ r[0] = a /\ r[Len(text)] = b
               /\ \A i \in 1..Len(text) : r[i] = After(m, r[i - 1], text[i])
  BY Zenon DEF Takes
<1> DEFINE Q == {n \in Nat : n <= Len(text) => g[1..n] = r[n]}
<1>2. 0 \in Q
  <2>1. 1..0 = {} /\ {} \in SUBSET (1..Len(text))
    OBVIOUS
  <2>2. g[{}] = a
    BY <2>1 DEF IsFold
  <2> QED
    BY <1>1, <2>1, <2>2
<1>3. ASSUME NEW n \in Nat, n \in Q PROVE n + 1 \in Q
  <2> SUFFICES ASSUME n + 1 <= Len(text) PROVE g[1..n + 1] = r[n + 1]
    OBVIOUS
  <2>1. /\ 1..n + 1 \in SUBSET (1..Len(text)) /\ 1..n + 1 # {} /\ n + 1 \in 1..n + 1
        /\ (1..n + 1) \ {n + 1} = 1..n
    OBVIOUS
  <2>2. Max(1..n + 1) = n + 1
    BY <2>1, MaxIs
  <2>3. g[1..n + 1] = After(m, g[(1..n + 1) \ {Max(1..n + 1)}], text[Max(1..n + 1)])
    BY <2>1 DEF IsFold
  <2>4. g[1..n] = r[n]
    BY <1>3
  <2>5. n + 1 \in 1..Len(text) /\ (n + 1) - 1 = n
    OBVIOUS
  <2> QED
    BY <1>1, <2>1, <2>2, <2>3, <2>4, <2>5
<1> HIDE DEF Q
<1>4. Len(text) \in Q /\ Len(text) \in Nat
  BY <1>2, <1>3, Induction
<1> QED
  BY <1>1, <1>4 DEF Q

Quoted == Machine("quoted", 0)

Markup == Machine("entities", 0)

Escaping == Machine("escape", 0)

Comment(quotes) == Machine("comment", quotes)

(* A text in quotes that is read to the end.                                  *)
LEMMA ReadIs ==
  ASSUME NEW S, NEW text \in Seq(S), NEW a, NEW b, Takes(Quoted, a, text, b)
  PROVE  FoldLeft(ReadOn, a, text) = b
<1> DEFINE D == SUBSET DOMAIN text
           h == CHOOSE h : h = [s \in D |->
                  IF s = {} THEN a ELSE ReadOn(h[s \ {Max(s)}], text[Max(s)])]
<1>1. FoldLeft(ReadOn, a, text) = h[DOMAIN text]
  BY DEF FoldLeft, MapThenFoldSet
<1>2. DOMAIN text = 1..Len(text) /\ Len(text) \in Nat
  OBVIOUS
<1>3. \A s, ch : After(Quoted, s, ch) = ReadOn(s, ch)
  BY DEF After, Quoted, Machine
<1>4. PICK g : g = [s \in D |-> g[s]] /\ IsFold(g, Quoted, a, text, Len(text))
  BY <1>2, FoldExists
<1>5. \A s \in D : g[s] = IF s = {} THEN a ELSE ReadOn(g[s \ {Max(s)}], text[Max(s)])
  BY <1>2, <1>3, <1>4 DEF IsFold
<1>6. g = [s \in D |-> IF s = {} THEN a ELSE ReadOn(g[s \ {Max(s)}], text[Max(s)])]
  BY <1>4, <1>5
<1>7. h = [s \in D |-> IF s = {} THEN a ELSE ReadOn(h[s \ {Max(s)}], text[Max(s)])]
  BY <1>6, Zenon
<1> HIDE DEF h
<1>8. \A s \in D : h[s] = IF s = {} THEN a ELSE ReadOn(h[s \ {Max(s)}], text[Max(s)])
  BY <1>7, Zenon
<1>9. ASSUME NEW s \in D
      PROVE  h[s] = IF s = {} THEN a ELSE After(Quoted, h[s \ {Max(s)}], text[Max(s)])
  <2>1. h[s] = IF s = {} THEN a ELSE ReadOn(h[s \ {Max(s)}], text[Max(s)])
    BY <1>8, Zenon
  <2>2. After(Quoted, h[s \ {Max(s)}], text[Max(s)]) = ReadOn(h[s \ {Max(s)}], text[Max(s)])
    BY <1>3, Zenon
  <2> QED
    BY <2>1, <2>2, Zenon
<1>10. IsFold(h, Quoted, a, text, Len(text))
  <2>1. D = SUBSET (1..Len(text))
    BY <1>2
  <2> QED
    BY <1>9, <2>1, Zenon DEF IsFold
<1> QED
  BY <1>1, <1>2, <1>10, FoldIs

(* A text of a property list.                                                *)
LEMMA MarkupIs ==
  ASSUME NEW S, NEW text \in Seq(S), NEW a, NEW b, Takes(Markup, a, text, b)
  PROVE  FoldLeft(XmlReadOn, a, text) = b
<1> DEFINE D == SUBSET DOMAIN text
           h == CHOOSE h : h = [s \in D |->
                  IF s = {} THEN a ELSE XmlReadOn(h[s \ {Max(s)}], text[Max(s)])]
<1>1. FoldLeft(XmlReadOn, a, text) = h[DOMAIN text]
  BY DEF FoldLeft, MapThenFoldSet
<1>2. DOMAIN text = 1..Len(text) /\ Len(text) \in Nat
  OBVIOUS
<1>3. \A s, ch : After(Markup, s, ch) = XmlReadOn(s, ch)
  BY DEF After, Markup, Machine
<1>4. PICK g : g = [s \in D |-> g[s]] /\ IsFold(g, Markup, a, text, Len(text))
  BY <1>2, FoldExists
<1>5. \A s \in D : g[s] = IF s = {} THEN a ELSE XmlReadOn(g[s \ {Max(s)}], text[Max(s)])
  BY <1>2, <1>3, <1>4 DEF IsFold
<1>6. g = [s \in D |-> IF s = {} THEN a ELSE XmlReadOn(g[s \ {Max(s)}], text[Max(s)])]
  BY <1>4, <1>5
<1>7. h = [s \in D |-> IF s = {} THEN a ELSE XmlReadOn(h[s \ {Max(s)}], text[Max(s)])]
  BY <1>6, Zenon
<1> HIDE DEF h
<1>8. \A s \in D : h[s] = IF s = {} THEN a ELSE XmlReadOn(h[s \ {Max(s)}], text[Max(s)])
  BY <1>7, Zenon
<1>9. ASSUME NEW s \in D
      PROVE  h[s] = IF s = {} THEN a ELSE After(Markup, h[s \ {Max(s)}], text[Max(s)])
  <2>1. h[s] = IF s = {} THEN a ELSE XmlReadOn(h[s \ {Max(s)}], text[Max(s)])
    BY <1>8, Zenon
  <2>2. After(Markup, h[s \ {Max(s)}], text[Max(s)]) = XmlReadOn(h[s \ {Max(s)}], text[Max(s)])
    BY <1>3, Zenon
  <2> QED
    BY <2>1, <2>2, Zenon
<1>10. IsFold(h, Markup, a, text, Len(text))
  <2>1. D = SUBSET (1..Len(text))
    BY <1>2
  <2> QED
    BY <1>9, <2>1, Zenon DEF IsFold
<1> QED
  BY <1>1, <1>2, <1>10, FoldIs

(* A line that is looked through for a comment.                               *)
LEMMA CommentIs ==
  ASSUME NEW S, NEW text \in Seq(S), NEW b, NEW quotes, Takes(Comment(quotes), Scan, text, b)
  PROVE  StripComment(text, quotes) = IF b.cut = 0 THEN text ELSE SubSeq(text, 1, b.cut - 1)
<1> DEFINE D == SUBSET DOMAIN text
           h == CHOOSE h : h = [s \in D |->
                  IF s = {} THEN Scan ELSE ScanOn(h[s \ {Max(s)}], text[Max(s)], quotes)]
<1>1. StripComment(text, quotes) =
        IF h[DOMAIN text].cut = 0 THEN text ELSE SubSeq(text, 1, h[DOMAIN text].cut - 1)
  BY DEF StripComment, FoldLeft, MapThenFoldSet
<1>2. DOMAIN text = 1..Len(text) /\ Len(text) \in Nat
  OBVIOUS
<1>3. \A s, ch : After(Comment(quotes), s, ch) = ScanOn(s, ch, quotes)
  BY DEF After, Comment, Machine
<1>4. PICK g : g = [s \in D |-> g[s]] /\ IsFold(g, Comment(quotes), Scan, text, Len(text))
  BY <1>2, FoldExists
<1>5. \A s \in D : g[s] = IF s = {} THEN Scan ELSE ScanOn(g[s \ {Max(s)}], text[Max(s)], quotes)
  BY <1>2, <1>3, <1>4 DEF IsFold
<1>6. g = [s \in D |-> IF s = {} THEN Scan ELSE ScanOn(g[s \ {Max(s)}], text[Max(s)], quotes)]
  BY <1>4, <1>5
<1>7. h = [s \in D |-> IF s = {} THEN Scan ELSE ScanOn(h[s \ {Max(s)}], text[Max(s)], quotes)]
  BY <1>6, Zenon
<1> HIDE DEF h
<1>8. \A s \in D : h[s] = IF s = {} THEN Scan ELSE ScanOn(h[s \ {Max(s)}], text[Max(s)], quotes)
  BY <1>7, Zenon
<1>9. ASSUME NEW s \in D
      PROVE  h[s] = IF s = {} THEN Scan ELSE After(Comment(quotes), h[s \ {Max(s)}], text[Max(s)])
  <2>1. h[s] = IF s = {} THEN Scan ELSE ScanOn(h[s \ {Max(s)}], text[Max(s)], quotes)
    BY <1>8, Zenon
  <2>2. After(Comment(quotes), h[s \ {Max(s)}], text[Max(s)]) = ScanOn(h[s \ {Max(s)}], text[Max(s)], quotes)
    BY <1>3, Zenon
  <2> QED
    BY <2>1, <2>2, Zenon
<1>10. IsFold(h, Comment(quotes), Scan, text, Len(text))
  <2>1. D = SUBSET (1..Len(text))
    BY <1>2
  <2> QED
    BY <1>9, <2>1, Zenon DEF IsFold
<1>11. h[DOMAIN text] = b
  BY <1>2, <1>10, FoldIs
<1> QED
  BY <1>1, <1>11, Zenon

(* A text in which one character after the other becomes an entity.           *)
LEMMA EscapingIs ==
  ASSUME NEW S, Entities \in Seq(S), NEW text, NEW b, Takes(Escaping, text, Entities, b)
  PROVE  XmlEscape(text) = b
<1> DEFINE D == SUBSET DOMAIN Entities
           h == CHOOSE h : h = [s \in D |->
                  IF s = {} THEN text ELSE Replaced(h[s \ {Max(s)}], Entities[Max(s)][1], <<Ampersand, Entities[Max(s)][2]>>)]
<1>1. XmlEscape(text) = h[DOMAIN Entities]
  BY DEF XmlEscape, FoldLeft, MapThenFoldSet
<1>2. DOMAIN Entities = 1..Len(Entities) /\ Len(Entities) \in Nat
  OBVIOUS
<1>3. \A s, ch : After(Escaping, s, ch) = Replaced(s, ch[1], <<Ampersand, ch[2]>>)
  BY DEF After, Escaping, Machine
<1>4. PICK g : g = [s \in D |-> g[s]] /\ IsFold(g, Escaping, text, Entities, Len(Entities))
  BY <1>2, FoldExists
<1>5. \A s \in D : g[s] = IF s = {} THEN text ELSE Replaced(g[s \ {Max(s)}], Entities[Max(s)][1], <<Ampersand, Entities[Max(s)][2]>>)
  BY <1>2, <1>3, <1>4 DEF IsFold
<1>6. g = [s \in D |-> IF s = {} THEN text ELSE Replaced(g[s \ {Max(s)}], Entities[Max(s)][1], <<Ampersand, Entities[Max(s)][2]>>)]
  BY <1>4, <1>5
<1>7. h = [s \in D |-> IF s = {} THEN text ELSE Replaced(h[s \ {Max(s)}], Entities[Max(s)][1], <<Ampersand, Entities[Max(s)][2]>>)]
  BY <1>6, Zenon
<1> HIDE DEF h
<1>8. \A s \in D : h[s] = IF s = {} THEN text ELSE Replaced(h[s \ {Max(s)}], Entities[Max(s)][1], <<Ampersand, Entities[Max(s)][2]>>)
  BY <1>7, Zenon
<1>9. ASSUME NEW s \in D
      PROVE  h[s] = IF s = {} THEN text ELSE After(Escaping, h[s \ {Max(s)}], Entities[Max(s)])
  <2>1. h[s] = IF s = {} THEN text ELSE Replaced(h[s \ {Max(s)}], Entities[Max(s)][1], <<Ampersand, Entities[Max(s)][2]>>)
    BY <1>8, Zenon
  <2>2. After(Escaping, h[s \ {Max(s)}], Entities[Max(s)]) = Replaced(h[s \ {Max(s)}], Entities[Max(s)][1], <<Ampersand, Entities[Max(s)][2]>>)
    BY <1>3, Zenon
  <2> QED
    BY <2>1, <2>2, Zenon
<1>10. IsFold(h, Escaping, text, Entities, Len(Entities))
  <2>1. D = SUBSET (1..Len(Entities))
    BY <1>2
  <2> QED
    BY <1>9, <2>1, Zenon DEF IsFold
<1> QED
  BY <1>1, <1>2, <1>10, FoldIs

-----------------------------------------------------------------------------
(* A text that is put together of pieces.                                     *)

(* f[i] is the first i pieces.                                               *)
JoinsUp(f, p, n) == f[0] = <<>> /\ \A i \in 1..n : f[i] = f[i - 1] \o p[i]

LEMMA JoinsExist ==
  ASSUME NEW p, NEW n \in Nat
  PROVE  \E f : JoinsUp(f, p, n)
<1> DEFINE Q == {k \in Nat : \E f : JoinsUp(f, p, k)}
<1>1. 0 \in Q
  <2> DEFINE f == [i \in {0} |-> <<>>]
  <2>1. f[0] = <<>> /\ 1..0 = {}
    OBVIOUS
  <2> HIDE DEF f
  <2>2. JoinsUp(f, p, 0)
    BY <2>1 DEF JoinsUp
  <2> QED
    BY <2>2
<1>2. ASSUME NEW k \in Nat, k \in Q PROVE k + 1 \in Q
  <2>1. PICK f : JoinsUp(f, p, k)
    BY <1>2
  <2>2. PICK h : h = [i \in 0..k + 1 |-> IF i = k + 1 THEN f[k] \o p[k + 1] ELSE f[i]]
    OBVIOUS
  <2>3. h[k + 1] = f[k] \o p[k + 1] /\ \A i \in 0..k : h[i] = f[i]
    BY <2>2
  <2>4. ASSUME NEW i \in 1..k + 1 PROVE h[i] = h[i - 1] \o p[i]
    <3>1. CASE i = k + 1
      <4>1. i - 1 = k /\ k \in 0..k
        BY <3>1
      <4> QED
        BY <2>3, <3>1, <4>1
    <3>2. CASE i <= k
      <4>1. i \in 1..k /\ i \in 0..k /\ i - 1 \in 0..k
        BY <3>2
      <4>2. f[i] = f[i - 1] \o p[i]
        BY <2>1, <4>1 DEF JoinsUp
      <4> QED
        BY <2>3, <4>1, <4>2
    <3>3. i = k + 1 \/ i <= k
      OBVIOUS
    <3> QED
      BY <3>1, <3>2, <3>3, Zenon
  <2>5. h[0] = <<>>
    <3>1. 0 \in 0..k /\ f[0] = <<>>
      BY <2>1 DEF JoinsUp
    <3> QED
      BY <2>3, <3>1
  <2>6. JoinsUp(h, p, k + 1)
    BY <2>4, <2>5 DEF JoinsUp
  <2> QED
    BY <2>6
<1> HIDE DEF Q
<1>3. n \in Q
  BY <1>1, <1>2, Induction
<1> QED
  BY <1>3 DEF Q

LEMMA JoinsTyped ==
  ASSUME NEW S, NEW p \in Seq(Seq(S)), NEW f, JoinsUp(f, p, Len(p)), NEW n \in 0..Len(p)
  PROVE  f[n] \in Seq(S)
<1> DEFINE Q == {k \in Nat : k <= Len(p) => f[k] \in Seq(S)}
<1>1. 0 \in Q
  <2>1. f[0] = <<>> /\ <<>> \in Seq(S)
    BY DEF JoinsUp
  <2> QED
    BY <2>1
<1>2. ASSUME NEW k \in Nat, k \in Q PROVE k + 1 \in Q
  <2> SUFFICES ASSUME k + 1 <= Len(p) PROVE f[k + 1] \in Seq(S)
    OBVIOUS
  <2>1. k + 1 \in 1..Len(p) /\ (k + 1) - 1 = k /\ f[k] \in Seq(S)
    BY <1>2
  <2>2. f[k + 1] = f[k] \o p[k + 1]
    BY <2>1 DEF JoinsUp
  <2>3. p[k + 1] \in Seq(S)
    BY <2>1, ElementOfSeq, Zenon
  <2> QED
    BY <2>1, <2>2, <2>3, ConcatProperties
<1> HIDE DEF Q
<1>3. \A k \in Nat : k \in Q
  BY <1>1, <1>2, Induction
<1>4. n \in Nat /\ n <= Len(p)
  OBVIOUS
<1> QED
  BY <1>3, <1>4 DEF Q

LEMMA FlattenIs ==
  ASSUME NEW S, NEW p \in Seq(Seq(S)), NEW f, JoinsUp(f, p, Len(p))
  PROVE  FlattenSeq(p) = f[Len(p)]
<1>1. CASE Len(p) = 0
  <2>1. p = <<>>
    BY <1>1
  <2>2. FlattenSeq(p) = p
    BY <1>1 DEF FlattenSeq
  <2> QED
    BY <1>1, <2>1, <2>2 DEF JoinsUp
<1>2. CASE Len(p) # 0
  <2> DEFINE D == 1..Len(p)
             h == CHOOSE h : h = [i \in D |-> IF i = 1 THEN p[i] ELSE h[i - 1] \o p[i]]
             g == [i \in D |-> f[i]]
  <2>1. FlattenSeq(p) = h[Len(p)]
    BY <1>2 DEF FlattenSeq
  <2>2. ASSUME NEW i \in D PROVE g[i] = IF i = 1 THEN p[i] ELSE g[i - 1] \o p[i]
    <3>0. g[i] = f[i] /\ i \in Nat \ {0} /\ i \in 1..Len(p)
      OBVIOUS
    <3>1. g[i] = f[i - 1] \o p[i]
      BY <3>0, Zenon DEF JoinsUp
    <3>2. CASE i = 1
      <4>0. f[0] = <<>> /\ i - 1 = 0
        BY <3>2 DEF JoinsUp
      <4>1. f[i - 1] = <<>> /\ p[i] \in Seq(S)
        BY <4>0, ElementOfSeq
      <4> QED
        BY <3>1, <4>1, <3>2, ConcatEmptySeq
    <3>3. CASE i # 1
      <4>1. i - 1 \in D
        BY <3>0, <3>3
      <4> QED
        BY <3>1, <3>3, <4>1
    <3> QED
      BY <3>2, <3>3
  <2>3. g = [i \in D |-> IF i = 1 THEN p[i] ELSE g[i - 1] \o p[i]]
    BY <2>2
  <2>4. h = [i \in D |-> IF i = 1 THEN p[i] ELSE h[i - 1] \o p[i]]
    BY <2>3, Zenon
  <2> HIDE DEF h
  <2>5. \A i \in D : h[i] = IF i = 1 THEN p[i] ELSE h[i - 1] \o p[i]
    BY <2>4, Zenon
  <2> DEFINE Q == {k \in Nat : k + 1 <= Len(p) => h[k + 1] = g[k + 1]}
  <2>6. 0 \in Q
    <3>1. 1 \in D /\ 0 + 1 = 1
      BY <1>2
    <3>2. h[1] = p[1] /\ g[1] = p[1]
      BY <2>2, <2>5, <3>1
    <3> QED
      BY <3>1, <3>2
  <2>7. ASSUME NEW k \in Nat, k \in Q PROVE k + 1 \in Q
    <3> SUFFICES ASSUME k + 1 + 1 <= Len(p) PROVE h[k + 1 + 1] = g[k + 1 + 1]
      OBVIOUS
    <3>1. k + 1 + 1 \in D /\ (k + 1 + 1) - 1 = k + 1 /\ k + 1 + 1 # 1
      OBVIOUS
    <3>2. h[k + 1] = g[k + 1]
      BY <2>7
    <3>3. /\ h[k + 1 + 1] = h[(k + 1 + 1) - 1] \o p[k + 1 + 1]
          /\ g[k + 1 + 1] = g[(k + 1 + 1) - 1] \o p[k + 1 + 1]
      BY <2>2, <2>5, <3>1
    <3> QED
      BY <3>1, <3>2, <3>3
  <2>8. Len(p) - 1 \in Nat /\ (Len(p) - 1) + 1 = Len(p) /\ Len(p) \in D
    BY <1>2
  <2> HIDE DEF Q
  <2>9. Len(p) - 1 \in Q
    BY <2>6, <2>7, <2>8, Induction
  <2>10. h[Len(p)] = g[Len(p)]
    BY <2>8, <2>9 DEF Q
  <2> QED
    BY <2>1, <2>8, <2>10
<1> QED
  BY <1>1, <1>2

(* A machine that goes from state to state with each piece.                    *)
LEMMA TakesPieces ==
  ASSUME NEW S, NEW p \in Seq(Seq(S)), NEW m, NEW g,
         \A i \in 1..Len(p) : Takes(m, g[i - 1], p[i], g[i])
  PROVE  /\ FlattenSeq(p) \in Seq(S)
         /\ Takes(m, g[0], FlattenSeq(p), g[Len(p)])
<1>0. Len(p) \in Nat
  OBVIOUS
<1>1. PICK f : JoinsUp(f, p, Len(p))
  BY <1>0, JoinsExist, Zenon
<1>2. \A n \in 0..Len(p) : f[n] \in Seq(S)
  BY <1>1, JoinsTyped
<1> DEFINE Q == {k \in Nat : k <= Len(p) => Takes(m, g[0], f[k], g[k])}
<1>3. 0 \in Q
  <2>1. f[0] = <<>>
    BY <1>1 DEF JoinsUp
  <2>2. Takes(m, g[0], f[0], g[0])
    BY <2>1, TakesNothing
  <2> QED
    BY <2>2
<1>4. ASSUME NEW k \in Nat, k \in Q PROVE k + 1 \in Q
  <2> SUFFICES ASSUME k + 1 <= Len(p) PROVE Takes(m, g[0], f[k + 1], g[k + 1])
    OBVIOUS
  <2>1. k + 1 \in 1..Len(p) /\ k \in 0..Len(p) /\ (k + 1) - 1 = k
    OBVIOUS
  <2>2. f[k + 1] = f[k] \o p[k + 1]
    BY <1>1, <2>1 DEF JoinsUp
  <2>3. p[k + 1] \in Seq(S) /\ f[k] \in Seq(S)
    BY <1>2, <2>1, ElementOfSeq, Zenon
  <2>4. Takes(m, g[0], f[k], g[k]) /\ Takes(m, g[k], p[k + 1], g[k + 1])
    BY <1>4, <2>1
  <2> QED
    BY <2>2, <2>3, <2>4, TakesOn
<1> HIDE DEF Q
<1>5. \A k \in Nat : k \in Q
  BY <1>3, <1>4, Induction
<1>6. Len(p) \in Q /\ Len(p) \in 0..Len(p)
  BY <1>0, <1>5
<1>7. FlattenSeq(p) = f[Len(p)]
  BY <1>1, FlattenIs
<1> QED
  BY <1>0, <1>2, <1>6, <1>7 DEF Q

-----------------------------------------------------------------------------
(* str::replace.                                                            *)

Replacing(of, by) == Machine("replace", [of |-> of, by |-> by])

(* What one character becomes.                                               *)
InPlace(ch, of, by) == IF ch = of THEN by ELSE <<ch>>

LEMMA ReplacingStep ==
  ASSUME NEW a, NEW ch, NEW of, NEW by
  PROVE  After(Replacing(of, by), a, ch) = a \o InPlace(ch, of, by)
BY DEF After, Replacing, Machine, InPlace

Pieces(text, of, by) == [i \in DOMAIN text |-> InPlace(text[i], of, by)]

LEMMA PiecesTyped ==
  ASSUME NEW S, NEW text \in Seq(S), NEW of, NEW by \in Seq(S)
  PROVE  /\ Pieces(text, of, by) \in Seq(Seq(S)) /\ Len(Pieces(text, of, by)) = Len(text)
         /\ \A i \in 1..Len(text) : Pieces(text, of, by)[i] = InPlace(text[i], of, by)
<1>1. DOMAIN text = 1..Len(text) /\ Len(text) \in Nat
  OBVIOUS
<1>2. ASSUME NEW i \in 1..Len(text) PROVE InPlace(text[i], of, by) \in Seq(S)
  <2>1. text[i] \in S
    BY ElementOfSeq
  <2>2. <<text[i]>> \in Seq(S)
    BY <2>1
  <2> QED
    BY <2>2 DEF InPlace
<1> QED
  BY <1>1, <1>2 DEF Pieces

LEMMA ReplacedTakes ==
  ASSUME NEW S, NEW text \in Seq(S), NEW of, NEW by \in Seq(S)
  PROVE  /\ Replaced(text, of, by) \in Seq(S)
         /\ Takes(Replacing(of, by), <<>>, text, Replaced(text, of, by))
<1>1. PICK p : p = Pieces(text, of, by)
  OBVIOUS
<1>2. /\ p \in Seq(Seq(S)) /\ Len(p) = Len(text) /\ Len(p) \in Nat
      /\ \A i \in 1..Len(text) : p[i] = InPlace(text[i], of, by)
  BY <1>1, PiecesTyped
<1>3. Replaced(text, of, by) = FlattenSeq(p)
  BY <1>1 DEF Replaced, Pieces, InPlace
<1>4. PICK f : JoinsUp(f, p, Len(p))
  BY <1>2, JoinsExist, Zenon
<1>5. FlattenSeq(p) = f[Len(p)] /\ f[Len(p)] \in Seq(S)
  BY <1>2, <1>4, FlattenIs, JoinsTyped
<1>6. ASSUME NEW i \in 1..Len(text)
      PROVE  f[i] = After(Replacing(of, by), f[i - 1], text[i])
  <2>1. f[i] = f[i - 1] \o p[i]
    BY <1>2, <1>4 DEF JoinsUp
  <2>2. p[i] = InPlace(text[i], of, by)
    BY <1>2
  <2>3. After(Replacing(of, by), f[i - 1], text[i]) = f[i - 1] \o InPlace(text[i], of, by)
    BY ReplacingStep, Zenon
  <2> QED
    BY <2>1, <2>2, <2>3
<1>7. f[0] = <<>> /\ f[Len(text)] = Replaced(text, of, by)
  BY <1>2, <1>3, <1>4, <1>5 DEF JoinsUp
<1>8. Takes(Replacing(of, by), <<>>, text, Replaced(text, of, by))
  BY <1>6, <1>7, Zenon DEF Takes
<1> QED
  BY <1>3, <1>5, <1>8

(* Piece by piece.                                                          *)
LEMMA ReplacedPieces ==
  ASSUME NEW S, NEW p \in Seq(Seq(S)), NEW q \in Seq(Seq(S)), Len(p) = Len(q),
         NEW of, NEW by \in Seq(S),
         \A i \in 1..Len(p) : \A a \in Seq(S) : Takes(Replacing(of, by), a, p[i], a \o q[i])
  PROVE  Replaced(FlattenSeq(p), of, by) = FlattenSeq(q)
<1>1. Len(q) \in Nat
  OBVIOUS
<1>2. PICK f : JoinsUp(f, q, Len(q))
  BY <1>1, JoinsExist, Zenon
<1>3. FlattenSeq(q) = f[Len(q)] /\ \A n \in 0..Len(q) : f[n] \in Seq(S)
  BY <1>2, FlattenIs, JoinsTyped
<1>4. ASSUME NEW i \in 1..Len(p)
      PROVE  Takes(Replacing(of, by), f[i - 1], p[i], f[i])
  <2>1. f[i - 1] \in Seq(S)
    BY <1>1, <1>3
  <2>2. f[i] = f[i - 1] \o q[i]
    BY <1>2 DEF JoinsUp
  <2> QED
    BY <2>1, <2>2
<1>5. /\ FlattenSeq(p) \in Seq(S)
      /\ Takes(Replacing(of, by), f[0], FlattenSeq(p), f[Len(p)])
  BY <1>4, TakesPieces
<1>6. f[0] = <<>>
  BY <1>2 DEF JoinsUp
<1>7. Takes(Replacing(of, by), <<>>, FlattenSeq(p), Replaced(FlattenSeq(p), of, by))
  BY <1>5, ReplacedTakes
<1> QED
  BY <1>3, <1>5, <1>6, <1>7, TakesToOne

-----------------------------------------------------------------------------
(* Texts in quotes.                                                         *)

Inside(out) == [out |-> out, escaped |-> FALSE, at |-> "inside"]

Escaped(out) == [out |-> out, escaped |-> TRUE, at |-> "inside"]

AtEnd(out) == [out |-> out, escaped |-> FALSE, at |-> "end"]

LEMMA QuotedSteps ==
  ASSUME NEW out
  PROVE  /\ \A ch : ch \notin {Quote, Backslash, Newline, Control} =>
                      After(Quoted, Inside(out), ch) = Inside(Append(out, ch))
         /\ After(Quoted, Inside(out), Backslash) = Escaped(out)
         /\ After(Quoted, Inside(out), Quote) = AtEnd(out)
         /\ \A ch \in {Quote, Backslash} :
              After(Quoted, Escaped(out), ch) = Inside(out \o <<ch>>)
         /\ After(Quoted, Escaped(out), "n") = Inside(out \o <<Newline>>)
         /\ After(Quoted, Escaped(out), "u001b") = Inside(out \o <<Control>>)
<1>1. \A s, ch : After(Quoted, s, ch) = ReadOn(s, ch)
  BY DEF After, Quoted, Machine
<1>2. ASSUME NEW ch, ch \notin {Quote, Backslash, Newline, Control}
      PROVE  ReadOn(Inside(out), ch) = Inside(Append(out, ch))
  BY <1>2 DEF ReadOn, Inside, Quote, Backslash, Newline, Control
<1>3. ReadOn(Inside(out), Backslash) = Escaped(out)
  BY DEF ReadOn, Inside, Escaped, Quote, Backslash, Newline, Control
<1>4. ReadOn(Inside(out), Quote) = AtEnd(out)
  BY DEF ReadOn, Inside, AtEnd, Quote, Backslash, Newline, Control
<1>5. ASSUME NEW ch, NEW u, Unescaped(ch) = <<u>>
      PROVE  ReadOn(Escaped(out), ch) = Inside(out \o <<u>>)
  <2>1. <<u>> # <<>>
    OBVIOUS
  <2> QED
    BY <1>5, <2>1 DEF ReadOn, Inside, Escaped
<1>6. /\ \A ch \in {Quote, Backslash} : Unescaped(ch) = <<ch>>
      /\ Unescaped("n") = <<Newline>> /\ Unescaped("u001b") = <<Control>>
  BY DEF Unescaped, Quote, Backslash
<1> QED
  BY <1>1, <1>2, <1>3, <1>4, <1>5, <1>6

(* A character as it is written in quotes, and how it is read again.           *)
Escape(ch) ==
  CASE ch \in {Quote, Backslash} -> <<Backslash, ch>>
    [] ch = Newline -> <<Backslash, "n">>
    [] ch = Control -> <<Backslash, "u001b">>
    [] OTHER -> <<ch>>

LEMMA TakesTwo ==
  ASSUME NEW m, NEW a, NEW ch1, NEW b, b = After(m, a, ch1),
         NEW ch2, NEW c, c = After(m, b, ch2)
  PROVE  Takes(m, a, <<ch1, ch2>>, c)
<1> DEFINE r == [i \in {0, 1, 2} |-> IF i = 0 THEN a ELSE IF i = 1 THEN b ELSE c]
           t == <<ch1, ch2>>
<1>1. /\ r[0] = a /\ r[1] = b /\ r[2] = c /\ Len(t) = 2 /\ t[1] = ch1 /\ t[2] = ch2
      /\ 1 - 1 = 0 /\ 2 - 1 = 1
  OBVIOUS
<1> HIDE DEF r, t
<1>2. r[Len(t)] = c
  BY <1>1
<1>3. \A i \in 1..Len(t) : r[i] = After(m, r[i - 1], t[i])
  <2>1. \A i \in 1..Len(t) : i = 1 \/ i = 2
    BY <1>1
  <2> QED
    BY <1>1, <2>1
<1>4. Takes(m, a, t, c)
  BY <1>1, <1>2, <1>3, Zenon DEF Takes
<1> QED
  BY <1>4 DEF t

LEMMA EscapeIsRead ==
  ASSUME NEW S, NEW out \in Seq(S), NEW ch \in S
  PROVE  Takes(Quoted, Inside(out), Escape(ch), Inside(Append(out, ch)))
<1>1. Append(out, ch) = out \o <<ch>>
  BY AppendIsConcat
<1>2. CASE ch \in {Quote, Backslash}
  <2>1. Takes(Quoted, Inside(out), <<Backslash, ch>>, Inside(out \o <<ch>>))
    BY <1>2, QuotedSteps, TakesTwo, Zenon
  <2>2. Escape(ch) = <<Backslash, ch>>
    BY <1>2 DEF Escape, Newline, Control, Quote, Backslash
  <2> QED
    BY <1>1, <2>1, <2>2, Zenon
<1>3. CASE ch = Newline
  <2>1. Takes(Quoted, Inside(out), <<Backslash, "n">>, Inside(out \o <<Newline>>))
    BY QuotedSteps, TakesTwo, Zenon
  <2>2. Escape(ch) = <<Backslash, "n">>
    BY <1>3 DEF Escape, Newline, Control, Quote, Backslash
  <2> QED
    BY <1>1, <1>3, <2>1, <2>2, Zenon
<1>4. CASE ch = Control
  <2>1. Takes(Quoted, Inside(out), <<Backslash, "u001b">>, Inside(out \o <<Control>>))
    BY QuotedSteps, TakesTwo, Zenon
  <2>2. Escape(ch) = <<Backslash, "u001b">>
    BY <1>4 DEF Escape, Newline, Control, Quote, Backslash
  <2> QED
    BY <1>1, <1>4, <2>1, <2>2, Zenon
<1>5. CASE ch \notin {Quote, Backslash, Newline, Control}
  <2>1. Takes(Quoted, Inside(out), <<ch>>, Inside(Append(out, ch)))
    BY <1>5, QuotedSteps, TakesOne, Zenon
  <2>2. Escape(ch) = <<ch>>
    BY <1>5 DEF Escape
  <2> QED
    BY <2>1, <2>2, Zenon
<1> QED
  BY <1>2, <1>3, <1>4, <1>5, Zenon

(* A text in quotes, of which each piece is read as the character it stands for. *)
LEMMA QuotedText ==
  ASSUME NEW S, Quote \in S, NEW text \in Seq(S), NEW p \in Seq(Seq(S)), Len(p) = Len(text),
         \A i \in 1..Len(p) : p[i] = Escape(text[i])
  PROVE  ReadsAs(InQuotes(FlattenSeq(p)), text)
<1> DEFINE g == [i \in 0..Len(p) |-> Inside(SubSeq(text, 1, i))]
<1>1. Len(text) \in Nat /\ Len(p) \in Nat
  OBVIOUS
<1>2. ASSUME NEW i \in 1..Len(p) PROVE Takes(Quoted, g[i - 1], p[i], g[i])
  <2>1. g[i - 1] = Inside(SubSeq(text, 1, i - 1)) /\ g[i] = Inside(SubSeq(text, 1, i))
    BY <1>1
  <2>2. /\ SubSeq(text, 1, i - 1) \in Seq(S) /\ text[i] \in S
        /\ SubSeq(text, 1, i) = Append(SubSeq(text, 1, i - 1), text[i])
    OBVIOUS
  <2> QED
    BY <2>1, <2>2, EscapeIsRead
<1>3. FlattenSeq(p) \in Seq(S) /\ Takes(Quoted, g[0], FlattenSeq(p), g[Len(p)])
  <2> HIDE DEF g
  <2> QED
    BY <1>2, TakesPieces
<1>4. g[0] = Reading /\ g[Len(p)] = Inside(text)
  <2>1. SubSeq(text, 1, 0) = <<>> /\ SubSeq(text, 1, Len(text)) = text
    OBVIOUS
  <2>2. g[0] = Inside(SubSeq(text, 1, 0)) /\ g[Len(p)] = Inside(SubSeq(text, 1, Len(text)))
    BY <1>1
  <2> QED
    BY <2>1, <2>2 DEF Inside, Reading
<1> HIDE DEF g
<1>5. PICK flat : flat = FlattenSeq(p)
  OBVIOUS
<1>6. Takes(Quoted, Inside(text), <<Quote>>, AtEnd(text))
  BY QuotedSteps, TakesOne, Zenon
<1>7. <<Quote>> \in Seq(S) /\ flat \in Seq(S)
  BY <1>3, <1>5
<1>8. flat \o <<Quote>> \in Seq(S) /\ Takes(Quoted, Reading, flat \o <<Quote>>, AtEnd(text))
  BY <1>3, <1>4, <1>5, <1>6, <1>7, TakesOn, ConcatProperties
<1>9. FoldLeft(ReadOn, Reading, flat \o <<Quote>>) = AtEnd(text)
  BY <1>8, ReadIs
<1>10. /\ InQuotes(flat) # <<>> /\ Head(InQuotes(flat)) = Quote
       /\ Tail(InQuotes(flat)) = flat \o <<Quote>>
  BY <1>7 DEF InQuotes
<1> QED
  BY <1>5, <1>9, <1>10, Zenon DEF ReadsAs, AtEnd

(* The pieces of a text, each as it is written in quotes.                      *)
Written(text) == [i \in DOMAIN text |-> Escape(text[i])]

LEMMA WrittenTyped ==
  ASSUME NEW S, {Quote, Backslash, "n", "u001b"} \subseteq S, NEW text \in Seq(S)
  PROVE  /\ Written(text) \in Seq(Seq(S)) /\ Len(Written(text)) = Len(text)
         /\ \A i \in 1..Len(text) : Written(text)[i] = Escape(text[i])
<1>1. DOMAIN text = 1..Len(text) /\ Len(text) \in Nat
  OBVIOUS
<1>2. ASSUME NEW ch \in S PROVE Escape(ch) \in Seq(S)
  <2>1. /\ <<Backslash, ch>> \in Seq(S) /\ <<ch>> \in Seq(S)
        /\ <<Backslash, "n">> \in Seq(S) /\ <<Backslash, "u001b">> \in Seq(S)
    OBVIOUS
  <2> QED
    BY <2>1, Zenon DEF Escape
<1>3. \A i \in 1..Len(text) : Escape(text[i]) \in Seq(S)
  BY <1>2, ElementOfSeq
<1> QED
  BY <1>1, <1>3 DEF Written

(* json_escape.                                                             *)
LEMMA JsonIsRead ==
  ASSUME NEW S, {Quote, Backslash, "n", "u001b"} \subseteq S, NEW text \in Seq(S)
  PROVE  ReadsAs(InQuotes(JsonEscape(text)), text)
<1>1. JsonEscape(text) = FlattenSeq(Written(text))
  BY DEF JsonEscape, Written, Escape
<1>2. /\ Written(text) \in Seq(Seq(S)) /\ Len(Written(text)) = Len(text)
      /\ \A i \in 1..Len(Written(text)) : Written(text)[i] = Escape(text[i])
  BY WrittenTyped
<1>3. ReadsAs(InQuotes(FlattenSeq(Written(text))), text)
  BY <1>2, QuotedText
<1> QED
  BY <1>1, <1>3

OneLine(text) == {Newline, Control} \intersect ToSet(text) = {}

LEMMA OneLineChars ==
  ASSUME NEW S, NEW text \in Seq(S), OneLine(text), NEW i \in 1..Len(text)
  PROVE  /\ text[i] \in {Quote, Backslash} => Escape(text[i]) = <<Backslash, text[i]>>
         /\ text[i] \notin {Quote, Backslash} => Escape(text[i]) = <<text[i]>>
<1>1. text[i] \notin {Newline, Control}
  <2>1. i \in DOMAIN text
    OBVIOUS
  <2> QED
    BY <2>1 DEF OneLine, ToSet
<1> QED
  BY <1>1 DEF Escape

(* format_config_value_for_key escapes quotes and backslashes, and nothing else. *)
ConfigEscape(ch) == IF ch \in {Quote, Backslash} THEN <<Backslash, ch>> ELSE <<ch>>

ConfigWritten(text) == [i \in DOMAIN text |-> ConfigEscape(text[i])]

LEMMA ConfigTyped ==
  ASSUME NEW S, Backslash \in S, NEW text \in Seq(S)
  PROVE  /\ ConfigWritten(text) \in Seq(Seq(S)) /\ Len(ConfigWritten(text)) = Len(text)
         /\ \A i \in 1..Len(text) : ConfigWritten(text)[i] = ConfigEscape(text[i])
<1>1. DOMAIN text = 1..Len(text) /\ Len(text) \in Nat
  OBVIOUS
<1>2. ASSUME NEW ch \in S PROVE ConfigEscape(ch) \in Seq(S)
  <2>1. <<Backslash, ch>> \in Seq(S) /\ <<ch>> \in Seq(S)
    OBVIOUS
  <2> QED
    BY <2>1, Zenon DEF ConfigEscape
<1>3. \A i \in 1..Len(text) : ConfigEscape(text[i]) \in Seq(S)
  BY <1>2, ElementOfSeq
<1> QED
  BY <1>1, <1>3 DEF ConfigWritten

(* A text without line breaks and control characters is written as in JSON.     *)
LEMMA OneLineWritten ==
  ASSUME NEW S, NEW text \in Seq(S), OneLine(text)
  PROVE  ConfigWritten(text) = Written(text)
<1>1. ASSUME NEW i \in DOMAIN text PROVE ConfigEscape(text[i]) = Escape(text[i])
  <2>1. i \in 1..Len(text)
    OBVIOUS
  <2> QED
    BY <2>1, OneLineChars, Zenon DEF ConfigEscape
<1> QED
  BY <1>1, Zenon DEF ConfigWritten, Written

LEMMA ConfigValueIs ==
  ASSUME NEW S, {Quote, Backslash} \subseteq S, NEW text \in Seq(S)
  PROVE  FormatConfigValue(text) = InQuotes(FlattenSeq(ConfigWritten(text)))
<1> DEFINE double == <<Backslash, Backslash>>
           quoted == <<Backslash, Quote>>
<1>1. double \in Seq(S) /\ quoted \in Seq(S)
  OBVIOUS
<1> HIDE DEF double, quoted
<1>2. PICK p : p = Pieces(text, Backslash, double)
  OBVIOUS
<1>3. /\ p \in Seq(Seq(S)) /\ Len(p) = Len(text)
      /\ \A i \in 1..Len(text) : p[i] = InPlace(text[i], Backslash, double)
  BY <1>1, <1>2, PiecesTyped
<1>4. PICK q : q = ConfigWritten(text)
  OBVIOUS
<1>5. /\ q \in Seq(Seq(S)) /\ Len(q) = Len(text)
      /\ \A i \in 1..Len(text) : q[i] = ConfigEscape(text[i])
  BY <1>4, ConfigTyped
<1>6. Replaced(text, Backslash, double) = FlattenSeq(p)
  BY <1>2 DEF Replaced, Pieces, InPlace
<1>7. ASSUME NEW i \in 1..Len(p), NEW a \in Seq(S)
      PROVE  Takes(Replacing(Quote, quoted), a, p[i], a \o q[i])
  <2>1. PICK ch : ch = text[i]
    OBVIOUS
  <2>2. p[i] = InPlace(ch, Backslash, double) /\ q[i] = ConfigEscape(ch) /\ ch \in S
    BY <1>3, <1>5, <2>1, ElementOfSeq
  <2>3. /\ ch \in {Quote, Backslash} => ConfigEscape(ch) = <<Backslash, ch>>
        /\ ch \notin {Quote, Backslash} => ConfigEscape(ch) = <<ch>>
    BY DEF ConfigEscape
  <2>4. CASE ch = Backslash
    <3>1. p[i] = <<Backslash, Backslash>> /\ q[i] = <<Backslash, Backslash>>
      BY <2>2, <2>3, <2>4 DEF InPlace, double
    <3>2. InPlace(Backslash, Quote, quoted) = <<Backslash>>
      BY DEF InPlace, Backslash, Quote
    <3>3. /\ After(Replacing(Quote, quoted), a, Backslash) = a \o <<Backslash>>
          /\ After(Replacing(Quote, quoted), a \o <<Backslash>>, Backslash)
               = (a \o <<Backslash>>) \o <<Backslash>>
      BY <3>2, ReplacingStep
    <3>4. (a \o <<Backslash>>) \o <<Backslash>> = a \o <<Backslash, Backslash>>
      OBVIOUS
    <3>5. Takes(Replacing(Quote, quoted), a, <<Backslash, Backslash>>, (a \o <<Backslash>>) \o <<Backslash>>)
      BY <3>3, TakesTwo, Zenon
    <3> QED
      BY <3>1, <3>4, <3>5
  <2>5. CASE ch = Quote
    <3>1. Backslash # Quote
      BY DEF Backslash, Quote
    <3>2. p[i] = <<Quote>> /\ q[i] = quoted
      BY <2>2, <2>3, <2>5, <3>1 DEF InPlace, quoted
    <3>3. After(Replacing(Quote, quoted), a, Quote) = a \o quoted
      BY ReplacingStep, Zenon DEF InPlace
    <3>4. Takes(Replacing(Quote, quoted), a, <<Quote>>, a \o quoted)
      BY <3>3, TakesOne, Zenon
    <3> QED
      BY <3>2, <3>4
  <2>6. CASE ch \notin {Quote, Backslash}
    <3>1. p[i] = <<ch>> /\ q[i] = <<ch>>
      BY <2>2, <2>3, <2>6 DEF InPlace
    <3>2. After(Replacing(Quote, quoted), a, ch) = a \o <<ch>>
      BY <2>6, ReplacingStep, Zenon DEF InPlace
    <3>3. Takes(Replacing(Quote, quoted), a, <<ch>>, a \o <<ch>>)
      BY <3>2, TakesOne, Zenon
    <3> QED
      BY <3>1, <3>3
  <2> QED
    BY <2>4, <2>5, <2>6
<1>8. Replaced(FlattenSeq(p), Quote, quoted) = FlattenSeq(q)
  BY <1>1, <1>3, <1>5, <1>7, ReplacedPieces
<1> QED
  BY <1>4, <1>6, <1>8 DEF FormatConfigValue, double, quoted

-----------------------------------------------------------------------------
(* Texts that are not read, or not as what they were.                         *)

Stopped(out, escaped, at) == [out |-> out, escaped |-> escaped, at |-> at]

(* State b of the reader, in which out has been read.                          *)
HasRead(b, out) ==
  \/ b = Inside(out)
  \/ b = Escaped(out)
  \/ \E escaped, at : at # "inside" /\ b = Stopped(out, escaped, at)

IsBad(b) == b.at = "bad"

LEMMA StoppedSteps ==
  ASSUME NEW out, NEW escaped, NEW at, at # "inside", NEW ch
  PROVE  After(Quoted, Stopped(out, escaped, at), ch) = Stopped(out, escaped, "bad")
<1>1. PICK b : b = Stopped(out, escaped, at)
  OBVIOUS
<1>2. b.at # "inside" /\ [b EXCEPT !.at = "bad"] = Stopped(out, escaped, "bad")
  BY <1>1 DEF Stopped
<1>3. ReadOn(b, ch) = [b EXCEPT !.at = "bad"]
  BY <1>2, Zenon DEF ReadOn
<1> QED
  BY <1>1, <1>2, <1>3 DEF After, Quoted, Machine

LEMMA UnreadSteps ==
  ASSUME NEW out
  PROVE  /\ \A ch \in {Newline, Control} :
              After(Quoted, Inside(out), ch) = Stopped(out, FALSE, "bad")
         /\ \A ch : \/ \E u \in {Quote, Backslash, Newline, Control} :
                         After(Quoted, Escaped(out), ch) = Inside(out \o <<u>>)
                    \/ After(Quoted, Escaped(out), ch) = Stopped(out, TRUE, "bad")
<1>1. \A s, ch : After(Quoted, s, ch) = ReadOn(s, ch)
  BY DEF After, Quoted, Machine
<1>2. ASSUME NEW ch \in {Newline, Control}
      PROVE  ReadOn(Inside(out), ch) = Stopped(out, FALSE, "bad")
  BY <1>2 DEF ReadOn, Inside, Stopped, Quote, Backslash, Newline, Control
<1>3. ASSUME NEW ch, Unescaped(ch) = <<>>
      PROVE  ReadOn(Escaped(out), ch) = Stopped(out, TRUE, "bad")
  BY <1>3 DEF ReadOn, Escaped, Stopped
<1>4. ASSUME NEW ch, NEW u, Unescaped(ch) = <<u>>
      PROVE  ReadOn(Escaped(out), ch) = Inside(out \o <<u>>)
  <2>1. <<u>> # <<>>
    OBVIOUS
  <2> QED
    BY <1>4, <2>1 DEF ReadOn, Inside, Escaped
<1>5. ASSUME NEW ch
      PROVE  \/ \E u \in {Quote, Backslash, Newline, Control} : Unescaped(ch) = <<u>>
             \/ Unescaped(ch) = <<>>
  <2>1. ch \in {Quote, Backslash} => Unescaped(ch) = <<ch>>
    BY DEF Unescaped, Quote, Backslash
  <2>2. ch \notin {Quote, Backslash} /\ ch = "n" => Unescaped(ch) = <<Newline>>
    BY DEF Unescaped
  <2>3. ch \notin {Quote, Backslash} /\ ch # "n" /\ ch = "u001b" => Unescaped(ch) = <<Control>>
    BY DEF Unescaped
  <2>4. ch \notin {Quote, Backslash} /\ ch # "n" /\ ch # "u001b" => Unescaped(ch) = <<>>
    BY DEF Unescaped
  <2>5. ch \in {Quote, Backslash} => ch \in {Quote, Backslash, Newline, Control}
    OBVIOUS
  <2>6. Newline \in {Quote, Backslash, Newline, Control} /\ Control \in {Quote, Backslash, Newline, Control}
    OBVIOUS
  <2> QED
    BY <2>1, <2>2, <2>3, <2>4, <2>5, <2>6, Zenon
<1>6. ASSUME NEW ch
      PROVE  \/ \E u \in {Quote, Backslash, Newline, Control} : ReadOn(Escaped(out), ch) = Inside(out \o <<u>>)
             \/ ReadOn(Escaped(out), ch) = Stopped(out, TRUE, "bad")
  BY <1>3, <1>4, <1>5, Zenon
<1> QED
  BY <1>1, <1>2, <1>6, Zenon

(* One character, or a backslash before one that it escapes.                    *)
IsPiece(q, S) ==
  \/ \E ch \in S : q = <<ch>>
  \/ \E ch \in {Quote, Backslash} : q = <<Backslash, ch>>

(* One character adds at most one to what has been read, and a reader that is   *)
(* at a bad place stays there.                                                *)
LEMMA OneMore ==
  ASSUME NEW S, {Quote, Backslash, Newline, Control} \subseteq S, NEW out \in Seq(S),
         NEW b, HasRead(b, out), NEW ch \in S
  PROVE  \E more \in Seq(S) : /\ HasRead(After(Quoted, b, ch), more)
                              /\ Len(more) <= Len(out) + 1
                              /\ IsBad(b) => IsBad(After(Quoted, b, ch))
<1>1. /\ out \in Seq(S) /\ Len(out) <= Len(out) + 1
      /\ \A u \in S : out \o <<u>> \in Seq(S) /\ Len(out \o <<u>>) <= Len(out) + 1
  OBVIOUS
<1>2. \A o, e : IsBad(Stopped(o, e, "bad"))
  BY DEF IsBad, Stopped
<1>3. ~IsBad(Inside(out)) /\ ~IsBad(Escaped(out))
  BY DEF IsBad, Inside, Escaped
<1>4. \A e, at : at # "inside" => HasRead(Stopped(out, e, at), out)
  BY Zenon DEF HasRead
<1>5. CASE b = Inside(out)
  <2>1. CASE ch \notin {Quote, Backslash, Newline, Control}
    <3>1. Append(out, ch) = out \o <<ch>>
      BY AppendIsConcat
    <3>2. After(Quoted, b, ch) = Inside(out \o <<ch>>)
      BY <1>5, <2>1, <3>1, QuotedSteps, Zenon
    <3> QED
      BY <1>1, <1>3, <1>5, <3>2, Zenon DEF HasRead
  <2>2. CASE ch = Backslash
    <3>1. After(Quoted, b, ch) = Escaped(out)
      BY <1>5, <2>2, QuotedSteps, Zenon
    <3> QED
      BY <1>1, <1>3, <1>5, <3>1, Zenon DEF HasRead
  <2>3. CASE ch = Quote
    <3>1. After(Quoted, b, ch) = Stopped(out, FALSE, "end")
      BY <1>5, <2>3, QuotedSteps, Zenon DEF AtEnd, Stopped
    <3> QED
      BY <1>1, <1>3, <1>4, <1>5, <3>1, Zenon
  <2>4. CASE ch \in {Newline, Control}
    <3>1. After(Quoted, b, ch) = Stopped(out, FALSE, "bad")
      BY <1>5, <2>4, UnreadSteps, Zenon
    <3> QED
      BY <1>1, <1>3, <1>4, <1>5, <3>1, Zenon
  <2> QED
    BY <2>1, <2>2, <2>3, <2>4, Zenon
<1>6. CASE b = Escaped(out)
  <2>1. CASE After(Quoted, b, ch) = Stopped(out, TRUE, "bad")
    BY <1>1, <1>3, <1>4, <1>6, <2>1, Zenon
  <2>2. ASSUME NEW u \in {Quote, Backslash, Newline, Control}, After(Quoted, b, ch) = Inside(out \o <<u>>)
        PROVE  \E more \in Seq(S) : /\ HasRead(After(Quoted, b, ch), more)
                                    /\ Len(more) <= Len(out) + 1
                                    /\ IsBad(b) => IsBad(After(Quoted, b, ch))
    <3>1. u \in S
      OBVIOUS
    <3> QED
      BY <1>1, <1>3, <1>6, <2>2, <3>1, Zenon DEF HasRead
  <2> QED
    BY <1>6, <2>1, <2>2, UnreadSteps, Zenon
<1>7. CASE \E escaped, at : at # "inside" /\ b = Stopped(out, escaped, at)
  <2>1. PICK escaped, at : at # "inside" /\ b = Stopped(out, escaped, at)
    BY <1>7, Zenon
  <2>2. After(Quoted, b, ch) = Stopped(out, escaped, "bad")
    BY <2>1, StoppedSteps, Zenon
  <2> QED
    BY <1>1, <1>2, <1>4, <2>2, Zenon
<1> QED
  BY <1>5, <1>6, <1>7, Zenon DEF HasRead

(* So does a piece of two.                                                   *)
LEMMA OnePieceMore ==
  ASSUME NEW S, {Quote, Backslash, Newline, Control} \subseteq S, NEW out \in Seq(S),
         NEW b, HasRead(b, out), NEW q, IsPiece(q, S)
  PROVE  \E c : \E more \in Seq(S) : /\ Takes(Quoted, b, q, c) /\ HasRead(c, more)
                                     /\ Len(more) <= Len(out) + 1
                                     /\ IsBad(b) => IsBad(c)
<1>1. CASE \E ch \in S : q = <<ch>>
  <2>1. PICK ch \in S : q = <<ch>>
    BY <1>1
  <2>2. PICK c : c = After(Quoted, b, ch)
    OBVIOUS
  <2>3. Takes(Quoted, b, q, c)
    BY <2>1, <2>2, TakesOne, Zenon
  <2> QED
    BY <2>2, <2>3, OneMore
<1>2. CASE \E ch \in {Quote, Backslash} : q = <<Backslash, ch>>
  <2>1. PICK ch \in {Quote, Backslash} : q = <<Backslash, ch>>
    BY <1>2
  <2>2. PICK mid, c : mid = After(Quoted, b, Backslash) /\ c = After(Quoted, mid, ch)
    OBVIOUS
  <2>3. Takes(Quoted, b, q, c)
    BY <2>1, <2>2, TakesTwo, Zenon
  <2>4. Backslash \in S /\ ch \in S
    OBVIOUS
  <2>5. Len(out) \in Nat /\ Len(out) <= Len(out) + 1
    OBVIOUS
  <2>6. CASE b = Inside(out)
    <3>1. c = Inside(out \o <<ch>>)
      BY <2>2, <2>6, QuotedSteps, Zenon
    <3>2. out \o <<ch>> \in Seq(S) /\ Len(out \o <<ch>>) <= Len(out) + 1
      BY <2>4
    <3>3. ~IsBad(b)
      BY <2>6 DEF IsBad, Inside
    <3> QED
      BY <2>3, <3>1, <3>2, <3>3, Zenon DEF HasRead
  <2>7. CASE b = Escaped(out)
    <3>1. mid = Inside(out \o <<Backslash>>)
      BY <2>2, <2>7, QuotedSteps, Zenon
    <3>2. PICK more : more = out \o <<Backslash>>
      OBVIOUS
    <3>3. more \in Seq(S) /\ Len(more) <= Len(out) + 1
      BY <2>4, <3>2
    <3>4. c = Escaped(more) \/ c = Stopped(more, FALSE, "end")
      BY <2>2, <3>1, <3>2, QuotedSteps, Zenon DEF AtEnd, Stopped
    <3>5. HasRead(c, more)
      <4>1. "end" # "inside"
        OBVIOUS
      <4> QED
        BY <3>4, <4>1, Zenon DEF HasRead
    <3>6. ~IsBad(b)
      BY <2>7 DEF IsBad, Escaped
    <3> QED
      BY <2>3, <3>3, <3>5, <3>6, Zenon
  <2>8. CASE \E escaped, at : at # "inside" /\ b = Stopped(out, escaped, at)
    <3>1. PICK escaped, at : at # "inside" /\ b = Stopped(out, escaped, at)
      BY <2>8, Zenon
    <3>2. "bad" # "inside"
      OBVIOUS
    <3>3. c = Stopped(out, escaped, "bad")
      BY <2>2, <3>1, <3>2, StoppedSteps, Zenon
    <3>4. IsBad(c) /\ HasRead(c, out)
      <4>1. IsBad(c)
        BY <3>3 DEF IsBad, Stopped
      <4> QED
        BY <3>2, <3>3, <4>1, Zenon DEF HasRead
    <3> QED
      BY <2>3, <2>5, <3>4, Zenon
  <2> QED
    BY <2>6, <2>7, <2>8, Zenon DEF HasRead
<1> QED
  BY <1>1, <1>2, Zenon DEF IsPiece

(* What the first n pieces take the reader to: at most n - lost characters, and  *)
(* a bad place if the text is spoilt.                                        *)
ReadsUpTo(text, n, lost, spoilt, S) ==
  \E b : \E out \in Seq(S) : /\ Takes(Quoted, Reading, text, b) /\ HasRead(b, out)
                             /\ Len(out) + lost <= n
                             /\ spoilt => IsBad(b)

LEMMA ReadsOn ==
  ASSUME NEW S, {Quote, Backslash, Newline, Control} \subseteq S,
         NEW text \in Seq(S), NEW n \in Nat, NEW lost \in Nat, NEW spoilt,
         ReadsUpTo(text, n, lost, spoilt, S), NEW q \in Seq(S), IsPiece(q, S)
  PROVE  ReadsUpTo(text \o q, n + 1, lost, spoilt, S)
<1>1. PICK b : \E out \in Seq(S) : /\ Takes(Quoted, Reading, text, b) /\ HasRead(b, out)
                                   /\ Len(out) + lost <= n
                                   /\ spoilt => IsBad(b)
  BY Zenon DEF ReadsUpTo
<1>2. PICK out \in Seq(S) : /\ Takes(Quoted, Reading, text, b) /\ HasRead(b, out)
                            /\ Len(out) + lost <= n
                            /\ spoilt => IsBad(b)
  BY <1>1, Zenon
<1>3. PICK c : \E more \in Seq(S) : /\ Takes(Quoted, b, q, c) /\ HasRead(c, more)
                                    /\ Len(more) <= Len(out) + 1
                                    /\ IsBad(b) => IsBad(c)
  BY <1>2, OnePieceMore, Zenon
<1>4. PICK more \in Seq(S) : /\ Takes(Quoted, b, q, c) /\ HasRead(c, more)
                             /\ Len(more) <= Len(out) + 1
                             /\ IsBad(b) => IsBad(c)
  BY <1>3, Zenon
<1>5. Takes(Quoted, Reading, text \o q, c)
  BY <1>2, <1>4, TakesOn, Zenon
<1>6. Len(more) + lost <= n + 1
  <2>1. Len(more) \in Nat /\ Len(out) \in Nat
    OBVIOUS
  <2> QED
    BY <1>2, <1>4, <2>1
<1> QED
  BY <1>2, <1>4, <1>5, <1>6, Zenon DEF ReadsUpTo

(* From the first k pieces to all of them.                                     *)
LEMMA ReadsPieces ==
  ASSUME NEW S, {Quote, Backslash, Newline, Control} \subseteq S,
         NEW p \in Seq(Seq(S)), \A i \in 1..Len(p) : IsPiece(p[i], S),
         NEW f, JoinsUp(f, p, Len(p)), NEW k \in 0..Len(p), NEW lost \in Nat, NEW spoilt,
         ReadsUpTo(f[k], k, lost, spoilt, S)
  PROVE  ReadsUpTo(FlattenSeq(p), Len(p), lost, spoilt, S)
<1> DEFINE Q == {n \in Nat : k <= n /\ n <= Len(p) => ReadsUpTo(f[n], n, lost, spoilt, S)}
<1>0. k \in Nat /\ Len(p) \in Nat
  OBVIOUS
<1>1. 0 \in Q
  <2> SUFFICES ASSUME k <= 0 PROVE ReadsUpTo(f[0], 0, lost, spoilt, S)
    OBVIOUS
  <2>1. k = 0
    BY <1>0
  <2> QED
    BY <2>1
<1>2. ASSUME NEW n \in Nat, n \in Q PROVE n + 1 \in Q
  <2> SUFFICES ASSUME k <= n + 1, n + 1 <= Len(p)
               PROVE  ReadsUpTo(f[n + 1], n + 1, lost, spoilt, S)
    OBVIOUS
  <2>1. CASE k = n + 1
    BY <2>1
  <2>2. CASE k # n + 1
    <3>1. /\ n + 1 \in 1..Len(p) /\ n \in 0..Len(p) /\ (n + 1) - 1 = n
          /\ ReadsUpTo(f[n], n, lost, spoilt, S)
      BY <1>0, <1>2, <2>2
    <3>2. f[n + 1] = f[n] \o p[n + 1]
      BY <3>1 DEF JoinsUp
    <3>3. f[n] \in Seq(S) /\ p[n + 1] \in Seq(S) /\ IsPiece(p[n + 1], S)
      BY <3>1, JoinsTyped, ElementOfSeq, Zenon
    <3> QED
      BY <3>1, <3>2, <3>3, ReadsOn
  <2> QED
    BY <2>1, <2>2
<1> HIDE DEF Q
<1>3. Len(p) \in Q
  BY <1>0, <1>1, <1>2, Induction
<1>4. FlattenSeq(p) = f[Len(p)]
  BY FlattenIs
<1> QED
  BY <1>0, <1>3, <1>4 DEF Q

(* Behind the closing quote nothing more has been read.                        *)
LEMMA ReadEnds ==
  ASSUME NEW S, Quote \in S, NEW flat \in Seq(S), NEW n \in Nat, NEW lost \in Nat, NEW spoilt,
         ReadsUpTo(flat, n, lost, spoilt, S)
  PROVE  /\ \A text \in Seq(S) : Len(text) + lost > n => ~ReadsAs(InQuotes(flat), text)
         /\ spoilt => ~IsRead(InQuotes(flat))
<1>1. PICK b : \E out \in Seq(S) : /\ Takes(Quoted, Reading, flat, b) /\ HasRead(b, out)
                                   /\ Len(out) + lost <= n
                                   /\ spoilt => IsBad(b)
  BY Zenon DEF ReadsUpTo
<1>2. PICK out \in Seq(S) : /\ Takes(Quoted, Reading, flat, b) /\ HasRead(b, out)
                            /\ Len(out) + lost <= n
                            /\ spoilt => IsBad(b)
  BY <1>1, Zenon
<1>3. PICK c : c = After(Quoted, b, Quote)
  OBVIOUS
<1>4. Takes(Quoted, b, <<Quote>>, c) /\ <<Quote>> \in Seq(S)
  BY <1>3, TakesOne
<1>5. flat \o <<Quote>> \in Seq(S) /\ Takes(Quoted, Reading, flat \o <<Quote>>, c)
  BY <1>2, <1>4, TakesOn, ConcatProperties
<1>6. FoldLeft(ReadOn, Reading, flat \o <<Quote>>) = c
  BY <1>5, ReadIs
<1>7. Tail(InQuotes(flat)) = flat \o <<Quote>>
  BY <1>4 DEF InQuotes
<1>8. \/ c = AtEnd(out) /\ ~IsBad(b)
      \/ c.at # "end"
  <2>1. CASE b = Inside(out)
    BY <1>3, <2>1, QuotedSteps DEF IsBad, Inside
  <2>2. CASE b = Escaped(out)
    <3>1. c = Inside(out \o <<Quote>>)
      BY <1>3, <2>2, QuotedSteps, Zenon
    <3> QED
      BY <3>1 DEF Inside
  <2>3. CASE \E escaped, at : at # "inside" /\ b = Stopped(out, escaped, at)
    <3>1. PICK escaped, at : at # "inside" /\ b = Stopped(out, escaped, at)
      BY <2>3, Zenon
    <3>2. c = Stopped(out, escaped, "bad")
      BY <1>3, <3>1, StoppedSteps, Zenon
    <3> QED
      BY <3>2 DEF Stopped
  <2> QED
    BY <1>2, <2>1, <2>2, <2>3, Zenon DEF HasRead
<1>9. spoilt => ~IsRead(InQuotes(flat))
  <2>1. spoilt => c.at # "end"
    BY <1>2, <1>8, Zenon
  <2> QED
    BY <1>6, <1>7, <2>1, Zenon DEF IsRead
<1>10. ASSUME NEW text \in Seq(S), Len(text) + lost > n, ReadsAs(InQuotes(flat), text)
       PROVE  FALSE
  <2>1. c = AtEnd(text)
    BY <1>6, <1>7, <1>10, Zenon DEF ReadsAs, AtEnd
  <2>2. c.at = "end" /\ c.out = text
    BY <2>1 DEF AtEnd
  <2>3. c = AtEnd(out)
    BY <1>8, <2>2
  <2>4. text = out
    BY <2>2, <2>3 DEF AtEnd
  <2>5. Len(out) + lost > n
    BY <1>10, <2>4
  <2>6. Len(out) \in Nat
    OBVIOUS
  <2> QED
    BY <1>2, <2>5, <2>6
<1> QED
  BY <1>9, <1>10

(* A text of which the first pieces are read and the next one is a character     *)
(* that may not stand in quotes, or a backslash of its own.                      *)
Unread == {Newline, Control, Backslash}

LEMMA StopsShort ==
  ASSUME NEW S, {Quote, Backslash, Newline, Control} \subseteq S, NEW text \in Seq(S),
         NEW p \in Seq(Seq(S)), Len(p) = Len(text),
         \A i \in 1..Len(p) : IsPiece(p[i], S),
         NEW first \in 1..Len(p), text[first] \in Unread, p[first] = <<text[first]>>,
         \A i \in 1..Len(p) : i < first => p[i] = Escape(text[i])
  PROVE  /\ FlattenSeq(p) \in Seq(S)
         /\ ~ReadsAs(InQuotes(FlattenSeq(p)), text)
         /\ text[first] # Backslash => ~IsRead(InQuotes(FlattenSeq(p)))
<1>0. Len(p) \in Nat /\ first \in Nat /\ Len(p) \in 0..Len(p)
  OBVIOUS
<1>1. PICK f : JoinsUp(f, p, Len(p))
  BY <1>0, JoinsExist, Zenon
<1>2. FlattenSeq(p) = f[Len(p)] /\ \A n \in 0..Len(p) : f[n] \in Seq(S)
  BY <1>1, FlattenIs, JoinsTyped
<1> DEFINE Q == {n \in Nat : n < first => Takes(Quoted, Reading, f[n], Inside(SubSeq(text, 1, n)))}
<1>3. 0 \in Q
  <2>1. f[0] = <<>> /\ SubSeq(text, 1, 0) = <<>>
    BY <1>1 DEF JoinsUp
  <2>2. Reading = Inside(<<>>)
    BY DEF Reading, Inside
  <2> QED
    BY <2>1, <2>2, TakesNothing
<1>4. ASSUME NEW n \in Nat, n \in Q PROVE n + 1 \in Q
  <2> SUFFICES ASSUME n + 1 < first
               PROVE  Takes(Quoted, Reading, f[n + 1], Inside(SubSeq(text, 1, n + 1)))
    OBVIOUS
  <2>1. n + 1 \in 1..Len(p) /\ n \in 0..Len(p) /\ (n + 1) - 1 = n
    BY <1>0
  <2>2. f[n + 1] = f[n] \o p[n + 1] /\ p[n + 1] = Escape(text[n + 1])
    BY <1>1, <2>1 DEF JoinsUp
  <2>3. f[n] \in Seq(S) /\ p[n + 1] \in Seq(S)
    BY <1>2, <2>1, ElementOfSeq, Zenon
  <2>4. /\ SubSeq(text, 1, n) \in Seq(S) /\ text[n + 1] \in S
        /\ SubSeq(text, 1, n + 1) = Append(SubSeq(text, 1, n), text[n + 1])
    BY <2>1
  <2>5. Takes(Quoted, Inside(SubSeq(text, 1, n)), p[n + 1], Inside(SubSeq(text, 1, n + 1)))
    BY <2>2, <2>4, EscapeIsRead
  <2>6. Takes(Quoted, Reading, f[n], Inside(SubSeq(text, 1, n)))
    BY <1>0, <1>4
  <2> QED
    BY <2>2, <2>3, <2>5, <2>6, TakesOn
<1> HIDE DEF Q
<1>5. PICK k \in Nat : k = first - 1
  BY <1>0
<1>6. k \in Q
  BY <1>3, <1>4, Induction
<1>7. PICK out : out = SubSeq(text, 1, k)
  OBVIOUS
<1>8. out \in Seq(S) /\ Len(out) = k /\ Takes(Quoted, Reading, f[k], Inside(out))
  BY <1>0, <1>5, <1>6, <1>7 DEF Q
<1>9. PICK b : b = After(Quoted, Inside(out), text[first])
  OBVIOUS
<1>10. HasRead(b, out) /\ (text[first] # Backslash => IsBad(b))
  <2>1. CASE text[first] = Backslash
    <3>1. b = Escaped(out)
      BY <1>9, <2>1, QuotedSteps, Zenon
    <3> QED
      BY <2>1, <3>1, Zenon DEF HasRead
  <2>2. CASE text[first] \in {Newline, Control}
    <3>1. b = Stopped(out, FALSE, "bad")
      BY <1>9, <2>2, UnreadSteps, Zenon
    <3>2. "bad" # "inside" /\ IsBad(Stopped(out, FALSE, "bad"))
      BY DEF IsBad, Stopped
    <3> QED
      BY <3>1, <3>2, Zenon DEF HasRead
  <2> QED
    BY <2>1, <2>2, Zenon DEF Unread
<1>11. Takes(Quoted, Reading, f[first], b)
  <2>1. Takes(Quoted, Inside(out), p[first], b)
    BY <1>9, TakesOne, Zenon
  <2>2. f[first] = f[k] \o p[first] /\ k \in 0..Len(p)
    <3>1. first - 1 = k /\ k \in 0..Len(p)
      BY <1>0, <1>5
    <3> QED
      BY <1>1, <3>1 DEF JoinsUp
  <2>3. f[k] \in Seq(S) /\ p[first] \in Seq(S)
    BY <1>2, <2>2, ElementOfSeq, Zenon
  <2> QED
    BY <1>8, <2>1, <2>2, <2>3, TakesOn, Zenon
<1>12. PICK spoilt : spoilt = (text[first] # Backslash)
  OBVIOUS
<1>13. ReadsUpTo(f[first], first, 1, spoilt, S)
  <2>1. Len(out) + 1 <= first
    BY <1>0, <1>5, <1>8
  <2> QED
    BY <1>8, <1>10, <1>11, <1>12, <2>1, Zenon DEF ReadsUpTo
<1>14. ReadsUpTo(FlattenSeq(p), Len(p), 1, spoilt, S)
  <2>1. first \in 0..Len(p) /\ 1 \in Nat
    BY <1>0
  <2> QED
    BY <1>1, <1>13, <2>1, ReadsPieces
<1>15. FlattenSeq(p) \in Seq(S) /\ Len(text) + 1 > Len(p)
  BY <1>0, <1>2
<1>16. ~ReadsAs(InQuotes(FlattenSeq(p)), text) /\ (spoilt => ~IsRead(InQuotes(FlattenSeq(p))))
  <2>1. Quote \in S /\ 1 \in Nat
    OBVIOUS
  <2> QED
    BY <1>0, <1>14, <1>15, <2>1, ReadEnds, Zenon
<1> QED
  BY <1>12, <1>15, <1>16, Zenon

LEMMA FirstOne ==
  ASSUME NEW S, NEW text \in Seq(S), NEW T, T \intersect ToSet(text) # {}
  PROVE  \E first \in 1..Len(text) : /\ text[first] \in T
                                     /\ \A i \in 1..Len(text) : i < first => text[i] \notin T
<1> DEFINE P == {i \in 1..Len(text) : text[i] \in T}
<1>1. DOMAIN text = 1..Len(text) /\ 1..Len(text) \subseteq Nat
  OBVIOUS
<1>2. P # {} /\ P \in SUBSET Nat
  BY <1>1 DEF ToSet
<1>3. PICK n \in P : \A k \in P : n <= k
  BY <1>2, LeastNumber
<1> QED
  BY <1>3

(* A line break or a control character in a value of the configuration.         *)
LEMMA ConfigIsUnread ==
  ASSUME NEW S, {Quote, Backslash, Newline, Control} \subseteq S, NEW text \in Seq(S),
         ~OneLine(text)
  PROVE  ~IsRead(FormatConfigValue(text))
<1>1. {Newline, Control} \intersect ToSet(text) # {}
  BY DEF OneLine
<1>2. PICK first \in 1..Len(text) :
        /\ text[first] \in {Newline, Control}
        /\ \A i \in 1..Len(text) : i < first => text[i] \notin {Newline, Control}
  BY <1>1, FirstOne
<1>3. PICK p : p = ConfigWritten(text)
  OBVIOUS
<1>4. /\ p \in Seq(Seq(S)) /\ Len(p) = Len(text)
      /\ \A i \in 1..Len(p) : p[i] = ConfigEscape(text[i])
  BY <1>3, ConfigTyped
<1>5. ASSUME NEW i \in 1..Len(p) PROVE IsPiece(p[i], S)
  <2>1. text[i] \in S
    BY <1>4, ElementOfSeq
  <2>2. p[i] = ConfigEscape(text[i])
    BY <1>4
  <2> QED
    BY <2>1, <2>2, Zenon DEF IsPiece, ConfigEscape
<1>6. ASSUME NEW i \in 1..Len(p), i < first PROVE p[i] = Escape(text[i])
  <2>1. text[i] \notin {Newline, Control}
    BY <1>2, <1>4, <1>6
  <2> QED
    BY <1>4, <2>1 DEF ConfigEscape, Escape
<1>7. /\ p[first] = <<text[first]>> /\ text[first] \in Unread /\ text[first] # Backslash
      /\ first \in 1..Len(p)
  BY <1>2, <1>4 DEF ConfigEscape, Unread, Newline, Control, Backslash, Quote
<1>8. ~IsRead(InQuotes(FlattenSeq(p)))
  BY <1>4, <1>5, <1>6, <1>7, StopsShort
<1>9. FormatConfigValue(text) = InQuotes(FlattenSeq(p))
  BY <1>3, ConfigValueIs
<1> QED
  BY <1>8, <1>9

-----------------------------------------------------------------------------
(* Comments.                                                                *)

(* The state of the scan of a line.                                          *)
ScanAt(q, e, c, n) == [quote |-> q, escaped |-> e, cut |-> c, seen |-> n]

SawOne(s) == [s EXCEPT !.seen = @ + 1]

WithQuote(s, x) == [s EXCEPT !.quote = x]

WithEscaped(s, x) == [s EXCEPT !.escaped = x]

WithCut(s, x) == [s EXCEPT !.cut = x]

(* Its fields, and what the scan changes of them.                             *)
LEMMA ScanFields ==
  ASSUME NEW q, NEW e, NEW c, NEW n
  PROVE  /\ ScanAt(q, e, c, n).quote = q /\ ScanAt(q, e, c, n).escaped = e
         /\ ScanAt(q, e, c, n).cut = c /\ ScanAt(q, e, c, n).seen = n
BY SMT DEF ScanAt

LEMMA ScanChanges ==
  ASSUME NEW q, NEW e, NEW c, NEW n, NEW x
  PROVE  /\ WithQuote(ScanAt(q, e, c, n), x) = ScanAt(x, e, c, n)
         /\ WithEscaped(ScanAt(q, e, c, n), x) = ScanAt(q, x, c, n)
         /\ WithCut(ScanAt(q, e, c, n), x) = ScanAt(q, e, x, n)
BY SMT DEF ScanAt, WithQuote, WithEscaped, WithCut

LEMMA ScanCounts ==
  ASSUME NEW q, NEW e, NEW c, NEW n, NEW next, next = n + 1
  PROVE  SawOne(ScanAt(q, e, c, n)) = ScanAt(q, e, c, next)
<1>1. PICK s : s = ScanAt(q, e, c, n)
  OBVIOUS
<1>2. s.seen = n /\ [s EXCEPT !.seen = next] = ScanAt(q, e, c, next)
  BY <1>1, SMT DEF ScanAt
<1>3. [s EXCEPT !.seen = @ + 1] = ScanAt(q, e, c, next)
  BY <1>2
<1> QED
  BY <1>1, <1>3, Zenon DEF SawOne

LEMMA ScanOnIs ==
  ASSUME NEW s, NEW ch, NEW quotes
  PROVE  /\ s.cut > 0 => ScanOn(s, ch, quotes) = SawOne(s)
         /\ s.cut = 0 /\ ~(s.cut > 0) =>
              /\ s.escaped => ScanOn(s, ch, quotes) = WithEscaped(SawOne(s), FALSE)
              /\ ~s.escaped /\ s.quote = Quote /\ ch = Backslash /\ s.quote # ch /\ s.quote # "none" =>
                   ScanOn(s, ch, quotes) = WithEscaped(SawOne(s), TRUE)
              /\ ~s.escaped /\ ch # Backslash /\ s.quote = ch /\ s.quote # "none" =>
                   ScanOn(s, ch, quotes) = WithQuote(SawOne(s), "none")
              /\ ~s.escaped /\ s.quote = "none" /\ s.quote # Quote /\ s.quote # ch =>
                   /\ ch \in quotes /\ ch # Hash => ScanOn(s, ch, quotes) = WithQuote(SawOne(s), ch)
                   /\ ch \notin quotes /\ ch = Hash =>
                        ScanOn(s, ch, quotes) = WithCut(SawOne(s), SawOne(s).seen)
                   /\ ch \notin quotes /\ ch # Hash => ScanOn(s, ch, quotes) = SawOne(s)
              /\ ~s.escaped /\ s.quote # "none" /\ s.quote # ch /\ ch # Backslash =>
                   ScanOn(s, ch, quotes) = SawOne(s)
<1>1. s.cut > 0 => ~(s.cut = 0)
  BY DEF ScanOn
<1> QED
  BY <1>1, Zenon DEF ScanOn, SawOne, WithQuote, WithEscaped, WithCut


AtLine(n) == ScanAt("none", FALSE, 0, n)

InValue(n) == ScanAt(Quote, FALSE, 0, n)

AfterBackslash(n) == ScanAt(Quote, TRUE, 0, n)

CutAt(c, n) == ScanAt("none", FALSE, c, n)

(* The characters are told apart.                                            *)
LEMMA Marks ==
  /\ "none" # Quote /\ "none" # Space /\ "none" # Hash
  /\ Quote # Hash /\ Quote # Backslash /\ Space # Hash /\ ~(0 > 0)
BY DEF Quote, Backslash, Hash, Space

(* The quote that opens a value.                                           *)
LEMMA ScanOpens ==
  ASSUME NEW quotes, NEW n, Quote \in quotes
  PROVE  ScanOn(AtLine(n), Quote, quotes) = InValue(n + 1)
<1>1. PICK f, t : f = FALSE /\ t = TRUE
  OBVIOUS
<1>2. PICK next : next = n + 1
  OBVIOUS
<1>3. PICK s, saw : s = ScanAt("none", f, 0, n) /\ saw = ScanAt("none", f, 0, next)
  OBVIOUS
<1>4. s.quote = "none" /\ s.escaped = f /\ s.cut = 0 /\ saw.seen = next
  BY <1>3, ScanFields
<1>5. SawOne(s) = saw
  BY <1>2, <1>3, ScanCounts
<1>6. ScanOn(s, Quote, quotes) = WithQuote(saw, Quote)
  BY <1>1, <1>4, <1>5, ScanOnIs, Marks, Zenon
<1>7. WithQuote(saw, Quote) = ScanAt(Quote, f, 0, next)
  BY <1>3, ScanChanges
<1> QED
  BY <1>1, <1>2, <1>3, <1>6, <1>7, Zenon DEF AtLine, InValue, AfterBackslash, CutAt

(* The quote that closes it.                                               *)
LEMMA ScanCloses ==
  ASSUME NEW quotes, NEW n
  PROVE  ScanOn(InValue(n), Quote, quotes) = AtLine(n + 1)
<1>1. PICK f, t : f = FALSE /\ t = TRUE
  OBVIOUS
<1>2. PICK next : next = n + 1
  OBVIOUS
<1>3. PICK s, saw : s = ScanAt(Quote, f, 0, n) /\ saw = ScanAt(Quote, f, 0, next)
  OBVIOUS
<1>4. s.quote = Quote /\ s.escaped = f /\ s.cut = 0 /\ saw.seen = next
  BY <1>3, ScanFields
<1>5. SawOne(s) = saw
  BY <1>2, <1>3, ScanCounts
<1>6. /\ s.cut = 0 /\ ~(s.cut > 0) /\ ~s.escaped
      /\ s.quote = Quote /\ s.quote # "none" /\ Quote # Backslash
  BY <1>1, <1>4, Marks, Zenon
<1>7. ScanOn(s, Quote, quotes) = WithQuote(saw, "none")
  BY <1>1, <1>5, <1>6, ScanOnIs, Marks, Zenon
<1>8. WithQuote(saw, "none") = ScanAt("none", f, 0, next)
  BY <1>3, ScanChanges
<1> QED
  BY <1>1, <1>2, <1>3, <1>7, <1>8, Zenon DEF AtLine, InValue, AfterBackslash, CutAt

(* A blank outside of a value.                                             *)
LEMMA ScanSpace ==
  ASSUME NEW quotes, NEW n, Space \notin quotes
  PROVE  ScanOn(AtLine(n), Space, quotes) = AtLine(n + 1)
<1>1. PICK f, t : f = FALSE /\ t = TRUE
  OBVIOUS
<1>2. PICK next : next = n + 1
  OBVIOUS
<1>3. PICK s, saw : s = ScanAt("none", f, 0, n) /\ saw = ScanAt("none", f, 0, next)
  OBVIOUS
<1>4. s.quote = "none" /\ s.escaped = f /\ s.cut = 0 /\ saw.seen = next
  BY <1>3, ScanFields
<1>5. SawOne(s) = saw
  BY <1>2, <1>3, ScanCounts
<1>6. ScanOn(s, Space, quotes) = saw
  BY <1>1, <1>4, <1>5, ScanOnIs, Marks, Zenon
<1> QED
  BY <1>1, <1>2, <1>3, <1>6, Zenon DEF AtLine, InValue, AfterBackslash, CutAt

(* A hash there.                                                           *)
LEMMA ScanHash ==
  ASSUME NEW quotes, NEW n, Hash \notin quotes
  PROVE  ScanOn(AtLine(n), Hash, quotes) = CutAt(n + 1, n + 1)
<1>1. PICK f, t : f = FALSE /\ t = TRUE
  OBVIOUS
<1>2. PICK next : next = n + 1
  OBVIOUS
<1>3. PICK s, saw : s = ScanAt("none", f, 0, n) /\ saw = ScanAt("none", f, 0, next)
  OBVIOUS
<1>4. s.quote = "none" /\ s.escaped = f /\ s.cut = 0 /\ saw.seen = next
  BY <1>3, ScanFields
<1>5. SawOne(s) = saw
  BY <1>2, <1>3, ScanCounts
<1>6. ScanOn(s, Hash, quotes) = WithCut(saw, saw.seen)
  BY <1>1, <1>4, <1>5, ScanOnIs, Marks, Zenon
<1>7. WithCut(saw, saw.seen) = ScanAt("none", f, next, next)
  BY <1>3, <1>4, ScanChanges
<1> QED
  BY <1>1, <1>2, <1>3, <1>6, <1>7, Zenon DEF AtLine, InValue, AfterBackslash, CutAt

(* A character in a value.                                                 *)
LEMMA ScanInside ==
  ASSUME NEW quotes, NEW n, NEW ch, ch \notin {Quote, Backslash}
  PROVE  ScanOn(InValue(n), ch, quotes) = InValue(n + 1)
<1>1. PICK f, t : f = FALSE /\ t = TRUE
  OBVIOUS
<1>2. PICK next : next = n + 1
  OBVIOUS
<1>3. PICK s, saw : s = ScanAt(Quote, f, 0, n) /\ saw = ScanAt(Quote, f, 0, next)
  OBVIOUS
<1>4. s.quote = Quote /\ s.escaped = f /\ s.cut = 0 /\ saw.seen = next
  BY <1>3, ScanFields
<1>5. SawOne(s) = saw
  BY <1>2, <1>3, ScanCounts
<1>6. /\ s.cut = 0 /\ ~(s.cut > 0) /\ ~s.escaped
      /\ s.quote = Quote /\ s.quote # "none" /\ Quote # Backslash
  BY <1>1, <1>4, Marks, Zenon
<1>7. ScanOn(s, ch, quotes) = saw
  BY <1>1, <1>5, <1>6, ScanOnIs, Marks, Zenon
<1> QED
  BY <1>1, <1>2, <1>3, <1>7, Zenon DEF AtLine, InValue, AfterBackslash, CutAt

(* A backslash in a value.                                                 *)
LEMMA ScanBackslash ==
  ASSUME NEW quotes, NEW n
  PROVE  ScanOn(InValue(n), Backslash, quotes) = AfterBackslash(n + 1)
<1>1. PICK f, t : f = FALSE /\ t = TRUE
  OBVIOUS
<1>2. PICK next : next = n + 1
  OBVIOUS
<1>3. PICK s, saw : s = ScanAt(Quote, f, 0, n) /\ saw = ScanAt(Quote, f, 0, next)
  OBVIOUS
<1>4. s.quote = Quote /\ s.escaped = f /\ s.cut = 0 /\ saw.seen = next
  BY <1>3, ScanFields
<1>5. SawOne(s) = saw
  BY <1>2, <1>3, ScanCounts
<1>6. ScanOn(s, Backslash, quotes) = WithEscaped(saw, TRUE)
  BY <1>1, <1>4, <1>5, ScanOnIs, Marks, Zenon
<1>7. WithEscaped(saw, t) = ScanAt(Quote, t, 0, next)
  BY <1>3, ScanChanges
<1> QED
  BY <1>1, <1>2, <1>3, <1>6, <1>7, Zenon DEF AtLine, InValue, AfterBackslash, CutAt

(* What is behind it stands for itself.                                    *)
LEMMA ScanEscaped ==
  ASSUME NEW quotes, NEW n, NEW ch
  PROVE  ScanOn(AfterBackslash(n), ch, quotes) = InValue(n + 1)
<1>1. PICK f, t : f = FALSE /\ t = TRUE
  OBVIOUS
<1>2. PICK next : next = n + 1
  OBVIOUS
<1>3. PICK s, saw : s = ScanAt(Quote, t, 0, n) /\ saw = ScanAt(Quote, t, 0, next)
  OBVIOUS
<1>4. s.quote = Quote /\ s.escaped = t /\ s.cut = 0 /\ saw.seen = next
  BY <1>3, ScanFields
<1>5. SawOne(s) = saw
  BY <1>2, <1>3, ScanCounts
<1>6. ScanOn(s, ch, quotes) = WithEscaped(saw, FALSE)
  BY <1>1, <1>4, <1>5, ScanOnIs, Marks, Zenon
<1>7. WithEscaped(saw, f) = ScanAt(Quote, f, 0, next)
  BY <1>3, ScanChanges
<1> QED
  BY <1>1, <1>2, <1>3, <1>6, <1>7, Zenon DEF AtLine, InValue, AfterBackslash, CutAt

(* Behind the cut nothing counts.                                          *)
LEMMA ScanPastCut ==
  ASSUME NEW quotes, NEW n, NEW ch, NEW c \in Nat, c > 0
  PROVE  ScanOn(CutAt(c, n), ch, quotes) = CutAt(c, n + 1)
<1>1. PICK f, t : f = FALSE /\ t = TRUE
  OBVIOUS
<1>2. PICK next : next = n + 1
  OBVIOUS
<1>3. PICK s, saw : s = ScanAt("none", f, c, n) /\ saw = ScanAt("none", f, c, next)
  OBVIOUS
<1>4. s.quote = "none" /\ s.escaped = f /\ s.cut = c /\ saw.seen = next
  BY <1>3, ScanFields
<1>5. SawOne(s) = saw
  BY <1>2, <1>3, ScanCounts
<1>6. ScanOn(s, ch, quotes) = saw
  BY <1>1, <1>4, <1>5, ScanOnIs, Marks, Zenon
<1> QED
  BY <1>1, <1>2, <1>3, <1>6, Zenon DEF AtLine, InValue, AfterBackslash, CutAt

(* What one character makes of the state of the scan.                          *)
LEMMA CommentAdvances ==
  ASSUME NEW quotes, NEW s, NEW ch, NEW next, ScanOn(s, ch, quotes) = next
  PROVE  next = After(Comment(quotes), s, ch)
BY DEF After, Comment, Machine

LEMMA ScanTakes ==
  ASSUME NEW quotes, NEW s, NEW ch, NEW next, ScanOn(s, ch, quotes) = next
  PROVE  Takes(Comment(quotes), s, <<ch>>, next)
BY CommentAdvances, TakesOne, Zenon

LEMMA ScanStarts == Scan = AtLine(0)
BY Zenon DEF Scan, AtLine, ScanAt

(* A character in a value leaves the value open.                              *)
LEMMA ValueStaysOpen ==
  ASSUME NEW quotes, Quote \in quotes, Space \notin quotes, Hash \notin quotes,
         NEW n \in Nat, NEW ch
  PROVE  Takes(Comment(quotes), InValue(n), Escape(ch), InValue(n + Len(Escape(ch))))
<1>1. ASSUME NEW next
      PROVE  Takes(Comment(quotes), InValue(n), <<Backslash, next>>, InValue(n + 1 + 1))
  <2> DEFINE k == n + 1
  <2> HIDE DEF k
  <2>1. ScanOn(InValue(n), Backslash, quotes) = AfterBackslash(k)
    BY ScanBackslash DEF k
  <2>2. ScanOn(AfterBackslash(k), next, quotes) = InValue(k + 1)
    BY ScanEscaped
  <2>3. Takes(Comment(quotes), InValue(n), <<Backslash, next>>, InValue(k + 1))
    BY <2>1, <2>2, CommentAdvances, TakesTwo, Zenon
  <2> QED
    BY <2>3 DEF k
<1>2. ASSUME NEW next, Escape(ch) = <<Backslash, next>>
      PROVE  Takes(Comment(quotes), InValue(n), Escape(ch), InValue(n + Len(Escape(ch))))
  <2>1. Len(<<Backslash, next>>) = 2 /\ n + 2 = n + 1 + 1
    OBVIOUS
  <2> QED
    BY <1>1, <1>2, <2>1, Zenon
<1>3. CASE ch \in {Quote, Backslash, Newline, Control}
  <2>1. \E next : Escape(ch) = <<Backslash, next>>
    BY <1>3 DEF Escape, Quote, Backslash, Newline, Control
  <2> QED
    BY <1>2, <2>1
<1>4. CASE ch \notin {Quote, Backslash, Newline, Control}
  <2>1. Escape(ch) = <<ch>> /\ Len(<<ch>>) = 1
    BY <1>4 DEF Escape
  <2>2. ScanOn(InValue(n), ch, quotes) = InValue(n + 1)
    BY <1>4, ScanInside, Zenon
  <2>3. Takes(Comment(quotes), InValue(n), <<ch>>, InValue(n + 1))
    BY <2>2, ScanTakes, Zenon
  <2> QED
    BY <2>1, <2>3, Zenon
<1> QED
  BY <1>3, <1>4

LEMMA ValueIsScanned ==
  ASSUME NEW quotes, Quote \in quotes, Space \notin quotes, Hash \notin quotes,
         NEW S, {Quote, Backslash, "n", "u001b"} \subseteq S, NEW text \in Seq(S),
         NEW flat, flat = FlattenSeq(Written(text))
  PROVE  flat \in Seq(S) /\ Takes(Comment(quotes), InValue(1), flat, InValue(1 + Len(flat)))
<1>1. PICK p : p = Written(text)
  OBVIOUS
<1>2. /\ p \in Seq(Seq(S)) /\ Len(p) = Len(text) /\ Len(p) \in Nat
      /\ \A i \in 1..Len(text) : p[i] = Escape(text[i])
  BY <1>1, WrittenTyped
<1>3. PICK f : JoinsUp(f, p, Len(p))
  BY <1>2, JoinsExist, Zenon
<1>4. flat = f[Len(p)] /\ \A n \in 0..Len(p) : f[n] \in Seq(S)
  BY <1>1, <1>2, <1>3, FlattenIs, JoinsTyped
<1>5. PICK g : g = [i \in 0..Len(p) |-> InValue(1 + Len(f[i]))]
  OBVIOUS
<1>6. ASSUME NEW i \in 1..Len(p) PROVE Takes(Comment(quotes), g[i - 1], p[i], g[i])
  <2>1. f[i] = f[i - 1] \o p[i] /\ p[i] = Escape(text[i])
    BY <1>2, <1>3 DEF JoinsUp
  <2>2. f[i - 1] \in Seq(S) /\ p[i] \in Seq(S)
    BY <1>2, <1>4, ElementOfSeq
  <2>3. Len(f[i]) = Len(f[i - 1]) + Len(p[i]) /\ Len(f[i - 1]) \in Nat /\ Len(p[i]) \in Nat
    BY <2>1, <2>2, ConcatProperties
  <2>4. 1 + Len(f[i]) = (1 + Len(f[i - 1])) + Len(p[i]) /\ 1 + Len(f[i - 1]) \in Nat
    <3>1. PICK x \in Nat, y \in Nat : x = Len(f[i - 1]) /\ y = Len(p[i])
      BY <2>3
    <3>2. Len(f[i]) = x + y
      BY <2>3, <3>1, Zenon
    <3>3. 1 + (x + y) = (1 + x) + y /\ 1 + x \in Nat
      OBVIOUS
    <3> QED
      BY <3>1, <3>2, <3>3, Zenon
  <2>5. g[i - 1] = InValue(1 + Len(f[i - 1])) /\ g[i] = InValue(1 + Len(f[i]))
    BY <1>2, <1>5
  <2>6. Takes(Comment(quotes), InValue(1 + Len(f[i - 1])), Escape(text[i]),
              InValue((1 + Len(f[i - 1])) + Len(Escape(text[i]))))
    BY <2>4, ValueStaysOpen, Zenon
  <2> QED
    BY <2>1, <2>4, <2>5, <2>6
<1>7. Takes(Comment(quotes), g[0], FlattenSeq(p), g[Len(p)])
  BY <1>2, <1>6, TakesPieces
<1>8. g[0] = InValue(1) /\ g[Len(p)] = InValue(1 + Len(flat))
  <2>1. f[0] = <<>> /\ 1 + Len(<<>>) = 1
    BY <1>3 DEF JoinsUp
  <2>2. g[0] = InValue(1 + Len(f[0])) /\ g[Len(p)] = InValue(1 + Len(f[Len(p)]))
    BY <1>2, <1>5
  <2> QED
    BY <1>4, <2>1, <2>2
<1>9. f[Len(p)] \in Seq(S)
  BY <1>2, <1>4
<1> QED
  BY <1>1, <1>4, <1>7, <1>8, <1>9

LEMMA CommentIsSkipped ==
  ASSUME NEW quotes, Quote \in quotes, Space \notin quotes, Hash \notin quotes,
         NEW S, NEW text \in Seq(S), NEW c \in Nat, c > 0
  PROVE  Takes(Comment(quotes), CutAt(c, c), text, CutAt(c, c + Len(text)))
<1> DEFINE r == [i \in 0..Len(text) |-> CutAt(c, c + i)]
<1>1. Len(text) \in Nat
  OBVIOUS
<1>2. r[0] = CutAt(c, c) /\ r[Len(text)] = CutAt(c, c + Len(text))
  <2>1. c + 0 = c
    OBVIOUS
  <2> QED
    BY <1>1, <2>1
<1>3. ASSUME NEW i \in 1..Len(text)
      PROVE  r[i] = After(Comment(quotes), r[i - 1], text[i])
  <2> DEFINE k == c + (i - 1)
  <2>1. k + 1 = c + i
    OBVIOUS
  <2>2. r[i] = CutAt(c, k + 1) /\ r[i - 1] = CutAt(c, k)
    BY <1>1, <2>1
  <2> HIDE DEF k
  <2>3. ScanOn(CutAt(c, k), text[i], quotes) = CutAt(c, k + 1)
    BY ScanPastCut, Zenon
  <2>4. CutAt(c, k + 1) = After(Comment(quotes), CutAt(c, k), text[i])
    BY <2>3, CommentAdvances, Zenon
  <2> QED
    BY <2>2, <2>4, Zenon
<1> HIDE DEF r
<1> QED
  BY <1>2, <1>3, Zenon DEF Takes

IsJoin(u, s, t) == u = s \o t

LEMMA Regroup ==
  ASSUME NEW S, NEW a \in Seq(S), NEW b \in Seq(S), NEW c \in Seq(S),
         NEW ab, IsJoin(ab, a, b), NEW abc, IsJoin(abc, ab, c), NEW bc, IsJoin(bc, b, c)
  PROVE  IsJoin(abc, a, bc)
BY ConcatAssociative DEF IsJoin

(* The second part begins where the first ends.                              *)
AsLong(u, s, t) == Len(u) = Len(s) + Len(t)

LEMMA LengthOfBoth ==
  ASSUME NEW S, NEW a \in Seq(S), NEW b \in Seq(S), NEW ab, IsJoin(ab, a, b)
  PROVE  ab \in Seq(S) /\ AsLong(ab, a, b) /\ Len(a) \in Nat /\ Len(b) \in Nat
BY ConcatProperties DEF IsJoin, AsLong

LEMMA FirstPartOf ==
  ASSUME NEW S, NEW s \in Seq(S), NEW t \in Seq(S), NEW u, IsJoin(u, s, t)
  PROVE  SubSeq(u, 1, Len(s)) = s
<1>1. /\ u \in Seq(S) /\ Len(u) = Len(s) + Len(t) /\ Len(s) \in Nat /\ Len(t) \in Nat
      /\ \A i \in 1..Len(s) : u[i] = s[i]
  BY ConcatProperties DEF IsJoin
<1>2. PICK v : v = SubSeq(u, 1, Len(s))
  OBVIOUS
<1>3. v \in Seq(S) /\ Len(v) = Len(s) /\ \A i \in 1..Len(s) : v[i] = u[i]
  BY <1>1, <1>2
<1>4. \A i \in 1..Len(s) : v[i] = s[i]
  BY <1>1, <1>3
<1>5. v = s
  BY <1>3, <1>4, SeqEqual
<1> QED
  BY <1>2, <1>5

(* A comment behind a value in quotes is cut off.                              *)
LEMMA CommentIsStripped ==
  ASSUME NEW quotes, Quote \in quotes, Space \notin quotes, Hash \notin quotes,
         NEW S, {Quote, Backslash, "n", "u001b", Space, Hash} \subseteq S,
         NEW text \in Seq(S), NEW rest \in Seq(S),
         NEW line, line = InQuotes(FlattenSeq(Written(text)))
  PROVE  StripComment(line \o (<<Space, Hash>> \o rest), quotes) = line \o <<Space>>
<1> DEFINE m == Comment(quotes)
<1>1. PICK flat : flat = FlattenSeq(Written(text))
  OBVIOUS
<1>2. flat \in Seq(S) /\ Takes(m, InValue(1), flat, InValue(1 + Len(flat)))
  BY <1>1, ValueIsScanned
<1>3. PICK k \in Nat : k = 1 + Len(flat)
  BY <1>2
<1>4. PICK c0 \in Nat, c1 \in Nat, c \in Nat : c0 = k + 1 /\ c1 = c0 + 1 /\ c = c1 + 1
  OBVIOUS
<1>5. PICK q, b, h : q = <<Quote>> /\ b = <<Space>> /\ h = <<Hash>>
  OBVIOUS
<1>6. q \in Seq(S) /\ b \in Seq(S) /\ h \in Seq(S) /\ Len(q) = 1 /\ Len(b) = 1
  BY <1>5
<1>7. /\ Takes(m, Scan, q, InValue(1)) /\ Takes(m, InValue(1), flat, InValue(k))
      /\ Takes(m, InValue(k), q, AtLine(c0)) /\ Takes(m, AtLine(c0), b, AtLine(c1))
      /\ Takes(m, AtLine(c1), h, CutAt(c, c))
      /\ Takes(m, CutAt(c, c), rest, CutAt(c, c + Len(rest)))
  <2>1. ScanOn(AtLine(0), Quote, quotes) = InValue(1)
    <3>1. 0 + 1 = 1
      OBVIOUS
    <3> QED
      BY <3>1, ScanOpens
  <2>2. Takes(m, Scan, q, InValue(1))
    BY <1>5, <2>1, ScanStarts, ScanTakes, Zenon
  <2>3. Takes(m, InValue(1), flat, InValue(k))
    BY <1>2, <1>3
  <2>4. Takes(m, InValue(k), q, AtLine(c0))
    BY <1>4, <1>5, ScanCloses, ScanTakes, Zenon
  <2>5. Takes(m, AtLine(c0), b, AtLine(c1))
    BY <1>4, <1>5, ScanSpace, ScanTakes, Zenon
  <2>6. Takes(m, AtLine(c1), h, CutAt(c, c))
    BY <1>4, <1>5, ScanHash, ScanTakes, Zenon
  <2>7. Takes(m, CutAt(c, c), rest, CutAt(c, c + Len(rest)))
    <3>1. c > 0
      BY <1>4
    <3> QED
      BY <3>1, CommentIsSkipped
  <2> QED
    BY <2>2, <2>3, <2>4, <2>5, <2>6, <2>7
<1> HIDE DEF m
<1>8. PICK s1, s2, s3, s4, s5 :
        s1 = q \o flat /\ s2 = s1 \o q /\ s3 = s2 \o b /\ s4 = s3 \o h /\ s5 = s4 \o rest
  OBVIOUS
<1>9. s1 \in Seq(S) /\ s2 \in Seq(S) /\ s3 \in Seq(S) /\ s4 \in Seq(S) /\ s5 \in Seq(S)
  BY <1>2, <1>6, <1>8, ConcatProperties
<1>10. /\ IsJoin(s1, q, flat) /\ IsJoin(s2, s1, q) /\ IsJoin(s3, s2, b)
      /\ IsJoin(s4, s3, h) /\ IsJoin(s5, s4, rest)
  BY <1>8, Zenon DEF IsJoin
<1>11. Takes(m, Scan, s5, CutAt(c, c + Len(rest)))
  <2>1. Takes(m, Scan, s1, InValue(k))
    BY <1>2, <1>6, <1>7, <1>8, TakesOn
  <2>2. Takes(m, Scan, s2, AtLine(c0))
    BY <1>6, <1>7, <1>8, <1>9, <2>1, TakesOn
  <2>3. Takes(m, Scan, s3, AtLine(c1))
    BY <1>6, <1>7, <1>8, <1>9, <2>2, TakesOn
  <2>4. Takes(m, Scan, s4, CutAt(c, c))
    BY <1>6, <1>7, <1>8, <1>9, <2>3, TakesOn
  <2> QED
    BY <1>6, <1>7, <1>8, <1>9, <2>4, TakesOn
<1>12. line = s2 /\ line \o (<<Space, Hash>> \o rest) = s5
  <2>1. line = s2
    BY <1>1, <1>5, <1>8 DEF InQuotes
  <2>2. PICK bh, rh : IsJoin(bh, b, h) /\ IsJoin(rh, bh, rest)
    BY Zenon DEF IsJoin
  <2>3. <<Space, Hash>> = bh
    BY <1>5, <2>2 DEF IsJoin
  <2>4. IsJoin(s4, s2, bh)
    BY <1>6, <1>9, <1>10, <2>2, Regroup, Zenon
  <2>5. bh \in Seq(S)
    BY <1>6, <2>2, LengthOfBoth, Zenon
  <2>6. IsJoin(s5, s2, rh)
    BY <1>9, <1>10, <2>2, <2>4, <2>5, Regroup, Zenon
  <2> QED
    BY <2>1, <2>2, <2>3, <2>6, Zenon DEF IsJoin
<1>13. StripComment(s5, quotes) =
         IF CutAt(c, c + Len(rest)).cut = 0 THEN s5 ELSE SubSeq(s5, 1, CutAt(c, c + Len(rest)).cut - 1)
  <2>1. Takes(Comment(quotes), Scan, s5, CutAt(c, c + Len(rest)))
    BY <1>11 DEF m
  <2> QED
    BY <1>9, <2>1, CommentIs, Zenon
<1>14. CutAt(c, c + Len(rest)).cut = c /\ c # 0
  <2>1. \A f, x : ScanAt("none", f, c, x).cut = c
    BY ScanFields
  <2>2. CutAt(c, c + Len(rest)).cut = c
    BY <2>1, Zenon DEF CutAt
  <2>3. c # 0
    BY <1>4
  <2> QED
    BY <2>2, <2>3
<1>15. StripComment(s5, quotes) = SubSeq(s5, 1, c - 1)
  BY <1>13, <1>14, Zenon
<1>16. c - 1 = Len(s3)
  <2>1. AsLong(s1, q, flat) /\ Len(flat) \in Nat
    BY <1>2, <1>6, <1>10, LengthOfBoth, Zenon
  <2>2. AsLong(s2, s1, q)
    BY <1>6, <1>9, <1>10, LengthOfBoth, Zenon
  <2>3. AsLong(s3, s2, b)
    BY <1>6, <1>9, <1>10, LengthOfBoth, Zenon
  <2>4. Len(s1) = 1 + Len(flat) /\ Len(s2) = Len(s1) + 1 /\ Len(s3) = Len(s2) + 1
    BY <1>6, <2>1, <2>2, <2>3, Zenon DEF AsLong
  <2>5. PICK l \in Nat : l = Len(flat)
    BY <2>1
  <2> QED
    BY <1>3, <1>4, <2>4, <2>5
<1>17. SubSeq(s5, 1, Len(s3)) = s3
  <2>1. PICK hr : IsJoin(hr, h, rest)
    BY Zenon DEF IsJoin
  <2>2. hr \in Seq(S)
    BY <1>6, <2>1, LengthOfBoth, Zenon
  <2>3. IsJoin(s5, s3, hr)
    BY <1>6, <1>9, <1>10, <2>1, Regroup, Zenon
  <2> QED
    BY <1>9, <2>2, <2>3, FirstPartOf, Zenon
<1> QED
  BY <1>5, <1>8, <1>12, <1>15, <1>16, <1>17

LEMMA FlattenOfOnes ==
  ASSUME NEW S, NEW text \in Seq(S), NEW p \in Seq(Seq(S)), Len(p) = Len(text),
         \A i \in 1..Len(p) : p[i] = <<text[i]>>
  PROVE  FlattenSeq(p) = text
<1>1. PICK f : f = [i \in 0..Len(p) |-> SubSeq(text, 1, i)]
  OBVIOUS
<1>2. Len(p) \in Nat /\ f[0] = <<>> /\ f[Len(p)] = text
  <2>1. SubSeq(text, 1, 0) = <<>> /\ SubSeq(text, 1, Len(text)) = text
    OBVIOUS
  <2>2. /\ Len(p) \in Nat /\ 0 \in 0..Len(p) /\ Len(p) \in 0..Len(p)
    OBVIOUS
  <2>3. f[0] = SubSeq(text, 1, 0) /\ f[Len(p)] = SubSeq(text, 1, Len(p))
    BY <1>1, <2>2
  <2> QED
    BY <2>1, <2>2, <2>3, Zenon
<1>3. ASSUME NEW i \in 1..Len(p) PROVE f[i] = f[i - 1] \o p[i]
  <2>1. f[i - 1] = SubSeq(text, 1, i - 1) /\ f[i] = SubSeq(text, 1, i)
    <3>1. i \in 0..Len(p) /\ i - 1 \in 0..Len(p)
      BY <1>2
    <3> QED
      BY <1>1, <3>1
  <2>2. /\ SubSeq(text, 1, i - 1) \in Seq(S) /\ text[i] \in S
        /\ SubSeq(text, 1, i) = Append(SubSeq(text, 1, i - 1), text[i])
    OBVIOUS
  <2> QED
    BY <2>1, <2>2, AppendIsConcat
<1>4. JoinsUp(f, p, Len(p))
  BY <1>2, <1>3 DEF JoinsUp
<1> QED
  BY <1>2, <1>4, FlattenIs

-----------------------------------------------------------------------------
(* The migration of the legacy file.                                         *)

(* Pieces of a value that is not in quotes.                                    *)
LEMMA MigratedPieces ==
  ASSUME NEW S, {Quote, Backslash} \subseteq S, NEW text \in Seq(S), ~HasQuotes(text)
  PROVE  \E p \in Seq(Seq(S)) :
           /\ MigratedValue(text) = InQuotes(FlattenSeq(p)) /\ Len(p) = Len(text)
           /\ \A i \in 1..Len(p) : p[i] = InPlace(text[i], Quote, <<Backslash, Quote>>)
<1> DEFINE quoted == <<Backslash, Quote>>
<1>1. quoted \in Seq(S)
  OBVIOUS
<1> HIDE DEF quoted
<1>2. PICK p : p = Pieces(text, Quote, quoted)
  OBVIOUS
<1>3. MigratedValue(text) = InQuotes(FlattenSeq(p))
  BY <1>2, Zenon DEF MigratedValue, Replaced, Pieces, InPlace, quoted
<1>4. /\ p \in Seq(Seq(S)) /\ Len(p) = Len(text)
      /\ \A i \in 1..Len(text) : p[i] = InPlace(text[i], Quote, quoted)
  BY <1>1, <1>2, PiecesTyped
<1> QED
  BY <1>3, <1>4 DEF quoted

(* One that comes out as it went in.                                          *)
LEMMA MigratedIsRead ==
  ASSUME NEW S, {Quote, Backslash} \subseteq S, NEW text \in Seq(S),
         OneLine(text), Backslash \notin ToSet(text), ~HasQuotes(text)
  PROVE  ReadsAs(MigratedValue(text), text)
<1>1. PICK p \in Seq(Seq(S)) :
        /\ MigratedValue(text) = InQuotes(FlattenSeq(p)) /\ Len(p) = Len(text)
        /\ \A i \in 1..Len(p) : p[i] = InPlace(text[i], Quote, <<Backslash, Quote>>)
  BY MigratedPieces, Zenon
<1>2. ASSUME NEW i \in 1..Len(p) PROVE p[i] = Escape(text[i])
  <2>1. i \in 1..Len(text) /\ i \in DOMAIN text
    BY <1>1
  <2>2. text[i] # Backslash
    BY <2>1 DEF ToSet
  <2>3. /\ text[i] \in {Quote, Backslash} => Escape(text[i]) = <<Backslash, text[i]>>
        /\ text[i] \notin {Quote, Backslash} => Escape(text[i]) = <<text[i]>>
    BY <2>1, OneLineChars
  <2>4. p[i] = InPlace(text[i], Quote, <<Backslash, Quote>>)
    BY <1>1
  <2> QED
    BY <2>2, <2>3, <2>4, Zenon DEF InPlace
<1>3. ReadsAs(InQuotes(FlattenSeq(p)), text)
  BY <1>1, <1>2, QuotedText
<1> QED
  BY <1>1, <1>3

(* One with a line break, a control character or a backslash.                   *)
LEMMA MigratedIsOther ==
  ASSUME NEW S, {Quote, Backslash, Newline, Control} \subseteq S, NEW text \in Seq(S),
         Unread \intersect ToSet(text) # {}, ~HasQuotes(text)
  PROVE  ~ReadsAs(MigratedValue(text), text)
<1>1. PICK p \in Seq(Seq(S)) :
        /\ MigratedValue(text) = InQuotes(FlattenSeq(p)) /\ Len(p) = Len(text)
        /\ \A i \in 1..Len(p) : p[i] = InPlace(text[i], Quote, <<Backslash, Quote>>)
  BY MigratedPieces, Zenon
<1>2. PICK first \in 1..Len(text) :
        /\ text[first] \in Unread
        /\ \A i \in 1..Len(text) : i < first => text[i] \notin Unread
  BY FirstOne
<1>3. ASSUME NEW i \in 1..Len(p) PROVE IsPiece(p[i], S)
  <2>1. text[i] \in S
    BY <1>1, ElementOfSeq
  <2>2. p[i] = InPlace(text[i], Quote, <<Backslash, Quote>>)
    BY <1>1
  <2>3. Quote \in {Quote, Backslash}
    OBVIOUS
  <2> QED
    BY <2>1, <2>2, <2>3, Zenon DEF IsPiece, InPlace
<1>4. ASSUME NEW i \in 1..Len(p), i < first PROVE p[i] = Escape(text[i])
  <2>1. text[i] \notin Unread
    BY <1>1, <1>2, <1>4
  <2>2. p[i] = InPlace(text[i], Quote, <<Backslash, Quote>>)
    BY <1>1
  <2> QED
    BY <2>1, <2>2 DEF Unread, Escape, InPlace
<1>5. first \in 1..Len(p) /\ p[first] = <<text[first]>>
  <2>1. text[first] # Quote
    BY <1>2 DEF Unread, Newline, Control, Backslash, Quote
  <2> QED
    BY <1>1, <1>2, <2>1 DEF InPlace
<1>6. ~ReadsAs(InQuotes(FlattenSeq(p)), text)
  BY <1>1, <1>2, <1>3, <1>4, <1>5, StopsShort
<1> QED
  BY <1>1, <1>6

(* No text in quotes is read as itself: what is read is shorter.                *)
LEMMA QuotedIsOther ==
  ASSUME NEW S, {Quote, Backslash, Newline, Control} \subseteq S, NEW text \in Seq(S),
         text # <<>>
  PROVE  ~ReadsAs(text, text)
<1>1. PICK t : t = Tail(text)
  OBVIOUS
<1>2. t \in Seq(S) /\ Len(t) \in Nat /\ Len(text) = Len(t) + 1
  BY <1>1
<1>3. PICK p : p = [i \in 1..Len(t) |-> <<t[i]>>]
  OBVIOUS
<1>4. \A i \in 1..Len(t) : t[i] \in S /\ <<t[i]>> \in Seq(S)
  BY <1>2, ElementOfSeq
<1>5. p \in Seq(Seq(S)) /\ Len(p) = Len(t) /\ \A i \in 1..Len(p) : p[i] = <<t[i]>>
  BY <1>2, <1>3, <1>4
<1>6. FlattenSeq(p) = t
  BY <1>2, <1>5, FlattenOfOnes
<1>7. \A i \in 1..Len(p) : IsPiece(p[i], S)
  BY <1>4, <1>5, Zenon DEF IsPiece
<1>8. PICK f : JoinsUp(f, p, Len(p))
  BY <1>2, <1>5, JoinsExist, Zenon
<1>9. ReadsUpTo(f[0], 0, 0, FALSE, S)
  <2>1. f[0] = <<>> /\ Takes(Quoted, Reading, <<>>, Reading)
    BY <1>8, TakesNothing DEF JoinsUp
  <2>2. HasRead(Reading, <<>>)
    <3>1. Reading = Inside(<<>>)
      BY DEF Reading, Inside
    <3> QED
      BY <3>1, Zenon DEF HasRead
  <2>3. <<>> \in Seq(S) /\ Len(<<>>) + 0 <= 0
    OBVIOUS
  <2> QED
    BY <2>1, <2>2, <2>3, Zenon DEF ReadsUpTo
<1>10. ReadsUpTo(t, Len(t), 0, FALSE, S)
  <2>1. 0 \in 0..Len(p) /\ 0 \in Nat
    BY <1>2, <1>5
  <2>2. ReadsUpTo(FlattenSeq(p), Len(p), 0, FALSE, S)
    BY <1>5, <1>7, <1>8, <1>9, <2>1, ReadsPieces
  <2> QED
    BY <1>5, <1>6, <2>2
<1>11. PICK b : \E out \in Seq(S) : /\ Takes(Quoted, Reading, t, b) /\ HasRead(b, out)
                                    /\ Len(out) + 0 <= Len(t)
                                    /\ FALSE => IsBad(b)
  BY <1>10, Zenon DEF ReadsUpTo
<1>12. PICK out \in Seq(S) : /\ Takes(Quoted, Reading, t, b) /\ HasRead(b, out)
                             /\ Len(out) + 0 <= Len(t)
  BY <1>11, Zenon
<1>13. FoldLeft(ReadOn, Reading, t) = b
  BY <1>2, <1>12, ReadIs
<1>14. SUFFICES ASSUME ReadsAs(text, text) PROVE FALSE
  OBVIOUS
<1>15. b = AtEnd(text)
  BY <1>1, <1>13, <1>14, Zenon DEF ReadsAs, AtEnd
<1>16. b.out = text
  BY <1>15 DEF AtEnd
<1>17. b.out = out
  <2>1. CASE b = Inside(out)
    BY <2>1 DEF Inside
  <2>2. CASE b = Escaped(out)
    BY <2>2 DEF Escaped
  <2>3. CASE \E escaped, at : at # "inside" /\ b = Stopped(out, escaped, at)
    BY <2>3 DEF Stopped
  <2> QED
    BY <1>12, <2>1, <2>2, <2>3, Zenon DEF HasRead
<1>18. Len(out) \in Nat /\ Len(out) = Len(text)
  BY <1>16, <1>17
<1> QED
  BY <1>2, <1>12, <1>18

LEMMA MigratedStays ==
  ASSUME NEW S, Quote \in S, NEW flat \in Seq(S), NEW line, line = InQuotes(flat)
  PROVE  MigratedValue(line) = line
<1>1. line # <<>> /\ line[1] = Quote /\ line[Len(line)] = Quote
  BY DEF InQuotes
<1> QED
  BY <1>1, Zenon DEF MigratedValue, HasQuotes, Last

-----------------------------------------------------------------------------
(* The property list.                                                       *)

(* The text of character ch after the first n entities.                        *)
Marked(ch, n) ==
  CASE ch = Ampersand /\ n > 0 -> <<Ampersand, "amp;">>
    [] ch = Less /\ n > 1 -> <<Ampersand, "lt;">>
    [] ch = Quote /\ n > 2 -> <<Ampersand, "quot;">>
    [] ch = Apostrophe /\ n > 3 -> <<Ampersand, "apos;">>
    [] OTHER -> <<ch>>

MarkedText(text, n) == [i \in DOMAIN text |-> Marked(text[i], n)]

MarkupSigns == {Quote, Ampersand, "amp;", "lt;", "quot;", "apos;"}

LEMMA EntitiesAre ==
  /\ Len(Entities) = 4 /\ \E S : Entities \in Seq(S)
  /\ Entities[1] = <<Ampersand, "amp;">> /\ Entities[2] = <<Less, "lt;">>
  /\ Entities[3] = <<Quote, "quot;">> /\ Entities[4] = <<Apostrophe, "apos;">>
<1>1. PICK e1, e2, e3, e4 : /\ e1 = <<Ampersand, "amp;">> /\ e2 = <<Less, "lt;">>
                            /\ e3 = <<Quote, "quot;">> /\ e4 = <<Apostrophe, "apos;">>
  OBVIOUS
<1>2. PICK e : e = <<e1, e2, e3, e4>>
  OBVIOUS
<1>3. e = Entities
  BY <1>1, <1>2, Zenon DEF Entities
<1>4. /\ Len(e) = 4 /\ e \in Seq({e1, e2, e3, e4})
      /\ e[1] = e1 /\ e[2] = e2 /\ e[3] = e3 /\ e[4] = e4
  BY <1>2
<1> QED
  BY <1>1, <1>3, <1>4, Zenon

LEMMA EntityParts ==
  /\ Entities[1][1] = Ampersand /\ Entities[1][2] = "amp;"
  /\ Entities[2][1] = Less /\ Entities[2][2] = "lt;"
  /\ Entities[3][1] = Quote /\ Entities[3][2] = "quot;"
  /\ Entities[4][1] = Apostrophe /\ Entities[4][2] = "apos;"
<1>1. Entities[1][1] = Ampersand /\ Entities[1][2] = "amp;"
  <2>1. PICK e, y : e = Entities[1] /\ y = "amp;"
    OBVIOUS
  <2>2. e = <<Ampersand, y>>
    BY <2>1, EntitiesAre, Zenon
  <2>3. e[1] = Ampersand /\ e[2] = y
    BY <2>2
  <2> QED
    BY <2>1, <2>3, Zenon
<1>2. Entities[2][1] = Less /\ Entities[2][2] = "lt;"
  <2>1. PICK e, y : e = Entities[2] /\ y = "lt;"
    OBVIOUS
  <2>2. e = <<Less, y>>
    BY <2>1, EntitiesAre, Zenon
  <2>3. e[1] = Less /\ e[2] = y
    BY <2>2
  <2> QED
    BY <2>1, <2>3, Zenon
<1>3. Entities[3][1] = Quote /\ Entities[3][2] = "quot;"
  <2>1. PICK e, y : e = Entities[3] /\ y = "quot;"
    OBVIOUS
  <2>2. e = <<Quote, y>>
    BY <2>1, EntitiesAre, Zenon
  <2>3. e[1] = Quote /\ e[2] = y
    BY <2>2
  <2> QED
    BY <2>1, <2>3, Zenon
<1>4. Entities[4][1] = Apostrophe /\ Entities[4][2] = "apos;"
  <2>1. PICK e, y : e = Entities[4] /\ y = "apos;"
    OBVIOUS
  <2>2. e = <<Apostrophe, y>>
    BY <2>1, EntitiesAre, Zenon
  <2>3. e[1] = Apostrophe /\ e[2] = y
    BY <2>2
  <2> QED
    BY <2>1, <2>3, Zenon
<1> QED
  BY <1>1, <1>2, <1>3, <1>4, Zenon

LEMMA MarkedTyped ==
  ASSUME NEW S, MarkupSigns \subseteq S, NEW text \in Seq(S), NEW n
  PROVE  /\ MarkedText(text, n) \in Seq(Seq(S)) /\ Len(MarkedText(text, n)) = Len(text)
         /\ \A i \in 1..Len(text) : MarkedText(text, n)[i] = Marked(text[i], n)
<1>1. DOMAIN text = 1..Len(text) /\ Len(text) \in Nat
  OBVIOUS
<1>2. ASSUME NEW ch \in S PROVE Marked(ch, n) \in Seq(S)
  <2>1. \A x, y \in S : <<x>> \in Seq(S) /\ <<x, y>> \in Seq(S)
    OBVIOUS
  <2>2. Ampersand \in S /\ "amp;" \in S /\ "lt;" \in S /\ "quot;" \in S /\ "apos;" \in S
    BY Zenon DEF MarkupSigns
  <2> QED
    BY <2>1, <2>2, Zenon DEF Marked
<1>3. \A i \in 1..Len(text) : Marked(text[i], n) \in Seq(S)
  BY <1>2, ElementOfSeq
<1> QED
  BY <1>1, <1>3 DEF MarkedText

(* What one replacement makes of the text old of a character.                   *)
Turns(ch, old, new, of, by) ==
  \/ ch = of /\ old = <<ch>> /\ new = by
  \/ ch # of /\ old = <<ch>> /\ new = old
  \/ new = old /\ \E entity : entity # of /\ Ampersand # of /\ old = <<Ampersand, entity>>

LEMMA TurnTakes ==
  ASSUME NEW S, NEW a \in Seq(S), NEW ch \in S, NEW old \in Seq(S), NEW new, NEW of, NEW by,
         Turns(ch, old, new, of, by)
  PROVE  Takes(Replacing(of, by), a, old, a \o new)
<1>1. CASE ch = of /\ old = <<ch>> /\ new = by
  <2>1. a \o by = After(Replacing(of, by), a, ch)
    BY <1>1, ReplacingStep, Zenon DEF InPlace
  <2> QED
    BY <1>1, <2>1, TakesOne, Zenon
<1>2. CASE ch # of /\ old = <<ch>> /\ new = old
  <2>1. InPlace(ch, of, by) = <<ch>>
    BY <1>2, Zenon DEF InPlace
  <2>2. After(Replacing(of, by), a, ch) = a \o InPlace(ch, of, by)
    BY ReplacingStep, Zenon
  <2> QED
    BY <1>2, <2>1, <2>2, TakesOne, Zenon
<1>3. ASSUME NEW entity, entity # of, Ampersand # of, old = <<Ampersand, entity>>, new = old
      PROVE  Takes(Replacing(of, by), a, old, a \o new)
  <2>1. InPlace(Ampersand, of, by) = <<Ampersand>> /\ InPlace(entity, of, by) = <<entity>>
    BY <1>3, Zenon DEF InPlace
  <2>2. /\ After(Replacing(of, by), a, Ampersand) = a \o InPlace(Ampersand, of, by)
        /\ After(Replacing(of, by), a \o <<Ampersand>>, entity)
             = (a \o <<Ampersand>>) \o InPlace(entity, of, by)
    BY ReplacingStep, Zenon
  <2>3. Takes(Replacing(of, by), a, <<Ampersand, entity>>, (a \o <<Ampersand>>) \o <<entity>>)
    BY <2>1, <2>2, TakesTwo, Zenon
  <2>4. Ampersand \in S /\ entity \in S
    <3>1. /\ old[1] = Ampersand /\ old[2] = entity /\ Len(old) = 2
          /\ 1 \in 1..Len(old) /\ 2 \in 1..Len(old)
      BY <1>3
    <3>2. old[1] \in S /\ old[2] \in S
      BY <3>1, ElementOfSeq, Zenon
    <3> QED
      BY <3>1, <3>2, Zenon
  <2>5. (a \o <<Ampersand>>) \o <<entity>> = a \o <<Ampersand, entity>>
    <3>1. PICK x, y, z : x = <<Ampersand>> /\ y = <<entity>> /\ z = <<Ampersand, entity>>
      OBVIOUS
    <3>2. x \in Seq(S) /\ y \in Seq(S) /\ z = x \o y
      BY <2>4, <3>1
    <3>3. (a \o x) \o y = a \o (x \o y)
      BY <3>2, ConcatAssociative
    <3> QED
      BY <3>1, <3>2, <3>3, Zenon
  <2> QED
    BY <1>3, <2>3, <2>5, Zenon
<1> QED
  BY <1>1, <1>2, <1>3 DEF Turns

LEMMA SignsDiffer ==
  /\ Ampersand # Less /\ Ampersand # Quote /\ Ampersand # Apostrophe
  /\ Less # Quote /\ Less # Apostrophe /\ Quote # Apostrophe
BY DEF Ampersand, Less, Quote, Apostrophe

LEMMA FirstNumbers ==
  /\ ~(0 > 0) /\ 1 > 0 /\ 2 > 0 /\ 3 > 0 /\ 4 > 0
  /\ ~(0 > 1) /\ ~(1 > 1) /\ 2 > 1 /\ 3 > 1 /\ 4 > 1
  /\ ~(0 > 2) /\ ~(1 > 2) /\ ~(2 > 2) /\ 3 > 2 /\ 4 > 2
  /\ ~(0 > 3) /\ ~(1 > 3) /\ ~(2 > 3) /\ ~(3 > 3) /\ 4 > 3
OBVIOUS

LEMMA MarkedTurns ==
  ASSUME NEW ch
  PROVE  /\ Turns(ch, Marked(ch, 0), Marked(ch, 1), Ampersand, <<Ampersand, "amp;">>)
         /\ Turns(ch, Marked(ch, 1), Marked(ch, 2), Less, <<Ampersand, "lt;">>)
         /\ Turns(ch, Marked(ch, 2), Marked(ch, 3), Quote, <<Ampersand, "quot;">>)
         /\ Turns(ch, Marked(ch, 3), Marked(ch, 4), Apostrophe, <<Ampersand, "apos;">>)
<1>1. CASE ch \notin {Ampersand, Less, Quote, Apostrophe}
  <2>1. \A n : Marked(ch, n) = <<ch>>
    BY <1>1 DEF Marked
  <2> QED
    BY <1>1, <2>1, Zenon DEF Turns
<1>2. CASE ch = Ampersand
  <2>1. /\ Marked(ch, 0) = <<ch>> /\ Marked(ch, 1) = <<Ampersand, "amp;">>
        /\ Marked(ch, 2) = <<Ampersand, "amp;">> /\ Marked(ch, 3) = <<Ampersand, "amp;">>
        /\ Marked(ch, 4) = <<Ampersand, "amp;">>
    BY <1>2, SignsDiffer, FirstNumbers, Zenon DEF Marked
  <2>2. "amp;" \notin {Less, Quote, Apostrophe} /\ Ampersand \notin {Less, Quote, Apostrophe}
    BY DEF Ampersand, Less, Quote, Apostrophe
  <2> QED
    BY <1>2, <2>1, <2>2, Zenon DEF Turns
<1>3. CASE ch = Less
  <2>1. /\ Marked(ch, 0) = <<ch>> /\ Marked(ch, 1) = <<ch>>
        /\ Marked(ch, 2) = <<Ampersand, "lt;">> /\ Marked(ch, 3) = <<Ampersand, "lt;">>
        /\ Marked(ch, 4) = <<Ampersand, "lt;">>
    BY <1>3, SignsDiffer, FirstNumbers, Zenon DEF Marked
  <2>2. /\ "lt;" \notin {Quote, Apostrophe} /\ Ampersand \notin {Quote, Apostrophe}
        /\ Less # Ampersand
    BY DEF Ampersand, Less, Quote, Apostrophe
  <2> QED
    BY <1>3, <2>1, <2>2, Zenon DEF Turns
<1>4. CASE ch = Quote
  <2>1. /\ Marked(ch, 0) = <<ch>> /\ Marked(ch, 1) = <<ch>> /\ Marked(ch, 2) = <<ch>>
        /\ Marked(ch, 3) = <<Ampersand, "quot;">> /\ Marked(ch, 4) = <<Ampersand, "quot;">>
    BY <1>4, SignsDiffer, FirstNumbers, Zenon DEF Marked
  <2>2. /\ "quot;" # Apostrophe /\ Ampersand # Apostrophe
        /\ Quote # Ampersand /\ Quote # Less
    BY DEF Ampersand, Less, Quote, Apostrophe
  <2> QED
    BY <1>4, <2>1, <2>2, Zenon DEF Turns
<1>5. CASE ch = Apostrophe
  <2>1. /\ Marked(ch, 0) = <<ch>> /\ Marked(ch, 1) = <<ch>> /\ Marked(ch, 2) = <<ch>>
        /\ Marked(ch, 3) = <<ch>> /\ Marked(ch, 4) = <<Ampersand, "apos;">>
    BY <1>5, SignsDiffer, FirstNumbers, Zenon DEF Marked
  <2>2. Apostrophe \notin {Ampersand, Less, Quote}
    BY DEF Ampersand, Less, Quote, Apostrophe
  <2> QED
    BY <1>5, <2>1, <2>2, Zenon DEF Turns
<1> QED
  BY <1>1, <1>2, <1>3, <1>4, <1>5, Zenon

(* Text new is text old, with by for each of.                                  *)
Becomes(new, old, of, by) == new = Replaced(old, of, by)

LEMMA MarkedOn ==
  ASSUME NEW S, MarkupSigns \subseteq S, NEW text \in Seq(S), NEW n, NEW k,
         NEW of, NEW by \in Seq(S), \A ch : Turns(ch, Marked(ch, n), Marked(ch, k), of, by)
  PROVE  Becomes(FlattenSeq(MarkedText(text, k)), FlattenSeq(MarkedText(text, n)), of, by)
<1>1. PICK p, q : p = MarkedText(text, n) /\ q = MarkedText(text, k)
  OBVIOUS
<1>2. /\ p \in Seq(Seq(S)) /\ q \in Seq(Seq(S)) /\ Len(p) = Len(text) /\ Len(q) = Len(text)
      /\ \A i \in 1..Len(text) : p[i] = Marked(text[i], n) /\ q[i] = Marked(text[i], k)
  BY <1>1, MarkedTyped
<1>3. ASSUME NEW i \in 1..Len(p), NEW a \in Seq(S)
      PROVE  Takes(Replacing(of, by), a, p[i], a \o q[i])
  <2>1. /\ p[i] = Marked(text[i], n) /\ q[i] = Marked(text[i], k) /\ text[i] \in S
    BY <1>2, ElementOfSeq
  <2>2. Turns(text[i], p[i], q[i], of, by)
    BY <2>1, Zenon
  <2>3. p[i] \in Seq(S)
    BY <1>2, ElementOfSeq
  <2> QED
    BY <2>1, <2>2, <2>3, TurnTakes, Zenon
<1>4. Replaced(FlattenSeq(p), of, by) = FlattenSeq(q)
  BY <1>2, <1>3, ReplacedPieces
<1> QED
  BY <1>1, <1>4 DEF Becomes

(* xml_escape.                                                              *)
LEMMA XmlEscapeIs ==
  ASSUME NEW S, MarkupSigns \union {Less, Apostrophe} \subseteq S, NEW text \in Seq(S)
  PROVE  XmlEscape(text) = FlattenSeq(MarkedText(text, 4))
<1> DEFINE F(n) == FlattenSeq(MarkedText(text, n))
<1>0. MarkupSigns \subseteq S
  OBVIOUS
<1>1. F(0) = text
  <2>1. \A ch : Marked(ch, 0) = <<ch>>
    BY FirstNumbers, Zenon DEF Marked
  <2>2. PICK p : p = MarkedText(text, 0)
    OBVIOUS
  <2>3. /\ p \in Seq(Seq(S)) /\ Len(p) = Len(text)
        /\ \A i \in 1..Len(text) : p[i] = Marked(text[i], 0)
    BY <1>0, <2>2, MarkedTyped
  <2>4. \A i \in 1..Len(p) : p[i] = <<text[i]>>
    BY <2>1, <2>3
  <2> QED
    BY <2>2, <2>3, <2>4, FlattenOfOnes
<1>2. PICK b1, b2, b3, b4 : /\ b1 = <<Ampersand, "amp;">> /\ b2 = <<Ampersand, "lt;">>
                            /\ b3 = <<Ampersand, "quot;">> /\ b4 = <<Ampersand, "apos;">>
  OBVIOUS
<1>3. b1 \in Seq(S) /\ b2 \in Seq(S) /\ b3 \in Seq(S) /\ b4 \in Seq(S)
  <2>1. \A x, y \in S : <<x, y>> \in Seq(S)
    OBVIOUS
  <2>2. Ampersand \in S /\ "amp;" \in S /\ "lt;" \in S /\ "quot;" \in S /\ "apos;" \in S
    BY <1>0, Zenon DEF MarkupSigns
  <2> QED
    BY <1>2, <2>1, <2>2, Zenon
<1>4. /\ \A ch : Turns(ch, Marked(ch, 0), Marked(ch, 1), Ampersand, b1)
      /\ \A ch : Turns(ch, Marked(ch, 1), Marked(ch, 2), Less, b2)
      /\ \A ch : Turns(ch, Marked(ch, 2), Marked(ch, 3), Quote, b3)
      /\ \A ch : Turns(ch, Marked(ch, 3), Marked(ch, 4), Apostrophe, b4)
  BY <1>2, MarkedTurns, Zenon
<1>5. Becomes(F(1), F(0), Ampersand, b1)
  BY <1>0, <1>3, <1>4, MarkedOn, Zenon
<1>6. Becomes(F(2), F(1), Less, b2)
  BY <1>0, <1>3, <1>4, MarkedOn, Zenon
<1>7. Becomes(F(3), F(2), Quote, b3)
  BY <1>0, <1>3, <1>4, MarkedOn, Zenon
<1>8. Becomes(F(4), F(3), Apostrophe, b4)
  BY <1>0, <1>3, <1>4, MarkedOn, Zenon
<1> HIDE DEF F
<1>9. \A s, ch : After(Escaping, s, ch) = Replaced(s, ch[1], <<Ampersand, ch[2]>>)
  BY DEF After, Escaping, Machine
<1>10. PICK r : r = [i \in 0..4 |-> F(i)]
  OBVIOUS
<1>11. r[0] = F(0) /\ r[1] = F(1) /\ r[2] = F(2) /\ r[3] = F(3) /\ r[4] = F(4)
  BY <1>10
<1>12. /\ F(1) = After(Escaping, F(0), Entities[1]) /\ F(2) = After(Escaping, F(1), Entities[2])
       /\ F(3) = After(Escaping, F(2), Entities[3]) /\ F(4) = After(Escaping, F(3), Entities[4])
  <2>1. F(1) = After(Escaping, F(0), Entities[1])
    BY <1>2, <1>5, <1>9, EntityParts, Zenon DEF Becomes
  <2>2. F(2) = After(Escaping, F(1), Entities[2])
    BY <1>2, <1>6, <1>9, EntityParts, Zenon DEF Becomes
  <2>3. F(3) = After(Escaping, F(2), Entities[3])
    BY <1>2, <1>7, <1>9, EntityParts, Zenon DEF Becomes
  <2>4. F(4) = After(Escaping, F(3), Entities[4])
    BY <1>2, <1>8, <1>9, EntityParts, Zenon DEF Becomes
  <2> QED
    BY <2>1, <2>2, <2>3, <2>4
<1>13. \A i \in 1..4 : r[i] = After(Escaping, r[i - 1], Entities[i])
  <2>1. \A i \in 1..4 : i = 1 \/ i = 2 \/ i = 3 \/ i = 4
    OBVIOUS
  <2>2. 1 - 1 = 0 /\ 2 - 1 = 1 /\ 3 - 1 = 2 /\ 4 - 1 = 3
    OBVIOUS
  <2> QED
    BY <1>11, <1>12, <2>1, <2>2, Zenon
<1>14. Takes(Escaping, text, Entities, F(4))
  <2>1. Len(Entities) = 4
    BY EntitiesAre
  <2> QED
    BY <1>1, <1>11, <1>13, <2>1, Zenon DEF Takes
<1>15. XmlEscape(text) = F(4)
  BY <1>14, EntitiesAre, EscapingIs
<1> QED
  BY <1>15 DEF F

LEMMA MarkupSteps ==
  ASSUME NEW out
  PROVE  /\ \A ch : ch # Ampersand => After(Markup, Inside(out), ch) = Inside(Append(out, ch))
         /\ After(Markup, Inside(out), Ampersand) = Escaped(out)
         /\ \A i \in 1..4 : After(Markup, Escaped(out), Entities[i][2])
                              = Inside(out \o <<Entities[i][1]>>)
<1>1. \A s, ch : After(Markup, s, ch) = XmlReadOn(s, ch)
  BY DEF After, Markup, Machine
<1>2. ASSUME NEW ch, ch # Ampersand
      PROVE  XmlReadOn(Inside(out), ch) = Inside(Append(out, ch))
  BY <1>2 DEF XmlReadOn, Inside
<1>3. XmlReadOn(Inside(out), Ampersand) = Escaped(out)
  BY DEF XmlReadOn, Inside, Escaped
<1>4. ASSUME NEW i \in 1..4
      PROVE  XmlReadOn(Escaped(out), Entities[i][2]) = Inside(out \o <<Entities[i][1]>>)
  <2>1. {j \in DOMAIN Entities : Entities[j][2] = Entities[i][2]} = {i}
    <3>1. DOMAIN Entities = 1..4
      <4>1. PICK T : Entities \in Seq(T)
        BY EntitiesAre
      <4>2. Len(Entities) = 4
        BY EntitiesAre, Zenon
      <4> QED
        BY <4>1, <4>2
    <3>2. ASSUME NEW j \in 1..4, Entities[j][2] = Entities[i][2] PROVE j = i
      <4>1. \A k \in 1..4 : k = 1 \/ k = 2 \/ k = 3 \/ k = 4
        OBVIOUS
      <4>2. /\ Entities[1][2] # Entities[2][2] /\ Entities[1][2] # Entities[3][2]
            /\ Entities[1][2] # Entities[4][2] /\ Entities[2][2] # Entities[3][2]
            /\ Entities[2][2] # Entities[4][2] /\ Entities[3][2] # Entities[4][2]
        BY EntityParts
      <4> QED
        BY <3>2, <4>1, <4>2, Zenon
    <3> QED
      BY <3>1, <3>2
  <2>2. (CHOOSE j \in {i} : TRUE) = i
    OBVIOUS
  <2> QED
    BY <2>1, <2>2 DEF XmlReadOn, Inside, Escaped
<1> QED
  BY <1>1, <1>2, <1>3, <1>4

LEMMA MarkedIsRead ==
  ASSUME NEW S, NEW out \in Seq(S), NEW ch \in S
  PROVE  Takes(Markup, Inside(out), Marked(ch, 4), Inside(Append(out, ch)))
<1>1. Append(out, ch) = out \o <<ch>>
  BY AppendIsConcat
<1>2. ASSUME NEW i \in 1..4, Entities[i][1] = ch
      PROVE  Takes(Markup, Inside(out), <<Ampersand, Entities[i][2]>>, Inside(Append(out, ch)))
  BY <1>1, <1>2, MarkupSteps, TakesTwo, Zenon
<1>3. 1 \in 1..4 /\ 2 \in 1..4 /\ 3 \in 1..4 /\ 4 \in 1..4
  OBVIOUS
<1>4. /\ ch = Ampersand => Marked(ch, 4) = <<Ampersand, "amp;">>
      /\ ch = Less => Marked(ch, 4) = <<Ampersand, "lt;">>
      /\ ch = Quote => Marked(ch, 4) = <<Ampersand, "quot;">>
      /\ ch = Apostrophe => Marked(ch, 4) = <<Ampersand, "apos;">>
  BY FirstNumbers, SignsDiffer, Zenon DEF Marked
<1>5. CASE ch = Ampersand
  BY <1>2, <1>3, <1>4, <1>5, EntityParts, Zenon
<1>6. CASE ch = Less
  BY <1>2, <1>3, <1>4, <1>6, EntityParts, Zenon
<1>7. CASE ch = Quote
  BY <1>2, <1>3, <1>4, <1>7, EntityParts, Zenon
<1>8. CASE ch = Apostrophe
  BY <1>2, <1>3, <1>4, <1>8, EntityParts, Zenon
<1>9. CASE ch \notin {Ampersand, Less, Quote, Apostrophe}
  <2>1. Marked(ch, 4) = <<ch>>
    BY <1>9, Zenon DEF Marked
  <2>2. Takes(Markup, Inside(out), <<ch>>, Inside(Append(out, ch)))
    BY <1>9, MarkupSteps, TakesOne, Zenon
  <2> QED
    BY <2>1, <2>2, Zenon
<1> QED
  BY <1>5, <1>6, <1>7, <1>8, <1>9, Zenon

LEMMA XmlIsRead ==
  ASSUME NEW S, MarkupSigns \union {Less, Apostrophe} \subseteq S, NEW text \in Seq(S)
  PROVE  XmlRead(XmlEscape(text)) = text
<1>1. PICK p : p = MarkedText(text, 4)
  OBVIOUS
<1>2. /\ p \in Seq(Seq(S)) /\ Len(p) = Len(text) /\ Len(p) \in Nat
      /\ \A i \in 1..Len(text) : p[i] = Marked(text[i], 4)
  BY <1>1, MarkedTyped
<1> DEFINE g == [i \in 0..Len(p) |-> Inside(SubSeq(text, 1, i))]
<1>3. ASSUME NEW i \in 1..Len(p) PROVE Takes(Markup, g[i - 1], p[i], g[i])
  <2>1. g[i - 1] = Inside(SubSeq(text, 1, i - 1)) /\ g[i] = Inside(SubSeq(text, 1, i))
    BY <1>2
  <2>2. /\ SubSeq(text, 1, i - 1) \in Seq(S) /\ text[i] \in S
        /\ SubSeq(text, 1, i) = Append(SubSeq(text, 1, i - 1), text[i])
    BY <1>2
  <2>3. p[i] = Marked(text[i], 4)
    BY <1>2
  <2> QED
    BY <2>1, <2>2, <2>3, MarkedIsRead
<1>4. FlattenSeq(p) \in Seq(S) /\ Takes(Markup, g[0], FlattenSeq(p), g[Len(p)])
  <2> HIDE DEF g
  <2> QED
    BY <1>2, <1>3, TakesPieces
<1>5. g[0] = Reading /\ g[Len(p)] = Inside(text)
  <2>1. SubSeq(text, 1, 0) = <<>> /\ SubSeq(text, 1, Len(text)) = text
    OBVIOUS
  <2>2. g[0] = Inside(SubSeq(text, 1, 0)) /\ g[Len(p)] = Inside(SubSeq(text, 1, Len(text)))
    BY <1>2
  <2> QED
    BY <2>1, <2>2 DEF Inside, Reading
<1> HIDE DEF g
<1>6. FoldLeft(XmlReadOn, Reading, FlattenSeq(p)) = Inside(text)
  BY <1>4, <1>5, MarkupIs
<1>7. XmlEscape(text) = FlattenSeq(p)
  BY <1>1, XmlEscapeIs
<1>8. Inside(text).out = text
  BY DEF Inside
<1> QED
  BY <1>6, <1>7, <1>8 DEF XmlRead

-----------------------------------------------------------------------------
(* The name of a download.                                                   *)

LEMMA GreatestNumber ==
  ASSUME NEW n \in Nat, NEW T \in SUBSET (1..n), T # {}
  PROVE  \E k \in T : \A j \in T : k >= j
<1> DEFINE U == {k \in Nat : \A j \in T : j <= k}
<1>1. n \in U
  OBVIOUS
<1>2. PICK u \in U : \A k \in U : u <= k
  BY <1>1, LeastNumber, U \in SUBSET Nat
<1>3. PICK j \in T : TRUE
  OBVIOUS
<1>4. u \in Nat /\ u >= 1 /\ \A i \in T : i <= u
  BY <1>2, <1>3
<1>5. u \in T
  <2> SUFFICES ASSUME u \notin T PROVE FALSE
    OBVIOUS
  <2>1. \A i \in T : i <= u - 1
    BY <1>4
  <2>2. u - 1 \in U
    BY <1>4, <2>1
  <2> QED
    BY <1>2, <1>4, <2>2
<1>6. \A i \in T : u >= i
  BY <1>4
<1> QED
  BY <1>5, <1>6

LEMMA TrimmedTyped ==
  ASSUME NEW S, NEW text \in Seq(S), NEW chars
  PROVE  Trimmed(text, chars) \in Seq(S)
<1> DEFINE kept == {i \in DOMAIN text : text[i] \notin chars}
           first == CHOOSE i \in kept : \A j \in kept : i <= j
           last == CHOOSE i \in kept : \A j \in kept : i >= j
<1>1. kept \in SUBSET (1..Len(text)) /\ kept \in SUBSET Nat /\ Len(text) \in Nat
  OBVIOUS
<1>2. Trimmed(text, chars) = IF kept = {} THEN <<>> ELSE SubSeq(text, first, last)
  BY DEF Trimmed
<1> HIDE DEF kept
<1>3. CASE kept = {}
  <2>1. <<>> \in Seq(S)
    OBVIOUS
  <2> QED
    BY <1>2, <1>3, <2>1, Zenon
<1>4. CASE kept # {}
  <2>1. first \in kept
    BY <1>1, <1>4, LeastNumber, Zenon
  <2>2. last \in kept
    BY <1>1, <1>4, GreatestNumber, Zenon
  <2> HIDE DEF first, last
  <2>3. first \in 1..Len(text) /\ last \in 1..Len(text)
    BY <1>1, <2>1, <2>2
  <2>4. SubSeq(text, first, last) \in Seq(S)
    BY <2>3
  <2> QED
    BY <1>2, <1>4, <2>4, Zenon
<1> QED
  BY <1>3, <1>4

LEMMA NameIsFine ==
  ASSUME NEW S, NEW text \in Seq(S), NEW longest \in Nat \ {0},
         NEW name, name = SafeFilename(text, longest)
  PROVE  name # <<>> /\ Len(name) <= longest /\ ToSet(name) \intersect Spoils = {}
<1> DEFINE T == (S \union {"_", "shortcut"}) \ Spoils
           trimmed == Trimmed(text, {Space, Newline})
           replaced == [i \in DOMAIN trimmed |-> IF trimmed[i] \in Spoils THEN "_" ELSE trimmed[i]]
           bare == Trimmed(replaced, {".", Space, "_"})
           end == IF Len(bare) < longest THEN Len(bare) ELSE longest
<1>1. "_" \in T /\ "shortcut" \in T
  BY DEF Spoils, Newline, Control, Quote, Backslash
<1>2. trimmed \in Seq(S)
  BY TrimmedTyped
<1>3. name = IF bare = <<>> THEN <<"shortcut">> ELSE SubSeq(bare, 1, end)
  BY DEF SafeFilename
<1>4. \A x \in S : x \in Spoils \/ x \in T
  OBVIOUS
<1> HIDE DEF T, trimmed
<1>5. replaced \in Seq(T)
  <2>1. DOMAIN trimmed = 1..Len(trimmed) /\ Len(trimmed) \in Nat
    BY <1>2
  <2>2. PICK f : f = [i \in 1..Len(trimmed) |-> IF trimmed[i] \in Spoils THEN "_" ELSE trimmed[i]]
    OBVIOUS
  <2>3. ASSUME NEW i \in 1..Len(trimmed) PROVE f[i] \in T
    <3>1. trimmed[i] \in S
      BY <1>2, ElementOfSeq
    <3>2. f[i] = IF trimmed[i] \in Spoils THEN "_" ELSE trimmed[i]
      BY <2>2
    <3> QED
      BY <1>1, <1>4, <3>1, <3>2, Zenon
  <2>4. f \in [1..Len(trimmed) -> T]
    <3>1. f = [i \in 1..Len(trimmed) |-> f[i]]
      BY <2>2
    <3> QED
      BY <2>3, <3>1
  <2>5. f \in Seq(T)
    BY <2>1, <2>4
  <2> QED
    BY <2>1, <2>2, <2>5, Zenon
<1> HIDE DEF replaced
<1>6. bare \in Seq(T)
  BY <1>5, TrimmedTyped
<1> HIDE DEF bare
<1>7. name \in Seq(T) /\ name # <<>> /\ Len(name) <= longest
  <2>1. CASE bare = <<>>
    <3>1. PICK word \in T : word = "shortcut"
      BY <1>1
    <3>2. name = <<word>>
      BY <1>3, <2>1, <3>1, Zenon
    <3> QED
      BY <3>2
  <2>2. CASE bare # <<>>
    <3>1. Len(bare) \in Nat /\ Len(bare) > 0
      BY <1>6, <2>2
    <3>2. end \in 1..Len(bare) /\ end <= longest
      BY <3>1
    <3> HIDE DEF end
    <3>3. name = SubSeq(bare, 1, end)
      BY <1>3, <2>2, Zenon
    <3>4. name \in Seq(T) /\ Len(name) = end /\ name # <<>>
      BY <1>6, <3>2, <3>3
    <3> QED
      BY <3>2, <3>4
  <2> QED
    BY <2>1, <2>2
<1>8. ToSet(name) \subseteq T
  BY <1>7, ElementOfSeq DEF ToSet
<1> QED
  BY <1>7, <1>8 DEF T

-----------------------------------------------------------------------------
(* The cases with a text: any text over any characters.                        *)
TextsAreTyped ==
  \A case \in Cases : case.kind = "text" => \E S : case.text \in Seq(S)

(* A text of any length, over any characters, comes out of JSON and of the        *)
(* property list as it went in; out of a line that config set wrote, just if it  *)
(* has no line breaks and control characters; and out of the migration, just if  *)
(* it has no backslashes either and is not in quotes.  No comment behind a value *)
(* is taken for a part of it, the migration leaves what config set wrote alone,  *)
(* and the name of a download never spoils its header (model.rs: json_escape;    *)
(* config.rs: format_config_value_for_key, strip_line_comment, the migration,    *)
(* xml_escape; operator.rs: strip_config_comment; store.rs: safe_filename).      *)
THEOREM TextsComeBack == TextsAreTyped /\ Spec => []TextSurvives
<1> SUFFICES ASSUME TextsAreTyped PROVE Spec => []TextSurvives
  OBVIOUS
<1>1. IsCase => TextSurvives
  <2> SUFFICES ASSUME IsCase, input.kind = "text" PROVE TextSurvives
    BY DEF TextSurvives
  <2>1. PICK text : text = input.text
    OBVIOUS
  <2>2. \E S : text \in Seq(S)
    BY <2>1, Zenon DEF TextsAreTyped, IsCase
  <2>3. PICK R : text \in Seq(R)
    BY <2>2, Zenon
  <2>4. PICK S : S = R \union MarkupSigns \union
                       {Less, Apostrophe, Backslash, Newline, Control, "n", "u001b", Space, Hash}
    OBVIOUS
  <2>5. /\ text \in Seq(S) /\ {Quote, Backslash, "n", "u001b"} \subseteq S /\ Quote \in S
        /\ {Quote, Backslash} \subseteq S /\ {Quote, Backslash, Newline, Control} \subseteq S
        /\ {Quote, Backslash, "n", "u001b", Space, Hash} \subseteq S
        /\ MarkupSigns \union {Less, Apostrophe} \subseteq S
    <3>1. Quote \in MarkupSigns /\ R \subseteq S
      BY <2>4 DEF MarkupSigns
    <3>2. text \in Seq(S)
      BY <2>3, <3>1
    <3> QED
      BY <2>4, <3>1, <3>2
  <2>6. PICK line, comment, name :
          /\ line = FormatConfigValue(text) /\ comment = <<Space, Hash>> \o text
          /\ name = SafeFilename(text, LongestName)
    OBVIOUS
  <2>7. ReadsAs(InQuotes(JsonEscape(text)), text)
    BY <2>5, JsonIsRead, Zenon
  <2>8. line = InQuotes(FlattenSeq(ConfigWritten(text))) /\ FlattenSeq(ConfigWritten(text)) \in Seq(S)
    <3>1. PICK p : p = ConfigWritten(text)
      OBVIOUS
    <3>2. p \in Seq(Seq(S)) /\ Len(p) \in Nat
      BY <2>5, <3>1, ConfigTyped
    <3>3. PICK f : JoinsUp(f, p, Len(p))
      BY <3>2, JoinsExist, Zenon
    <3>4. FlattenSeq(p) = f[Len(p)] /\ f[Len(p)] \in Seq(S)
      BY <3>2, <3>3, FlattenIs, JoinsTyped
    <3> QED
      BY <2>5, <2>6, <3>1, <3>4, ConfigValueIs
  <2>9. OneLine(text) => line = InQuotes(FlattenSeq(Written(text)))
    BY <2>5, <2>8, OneLineWritten
  <2>10. OneLine(text) => ReadsAs(line, text)
    <3>1. /\ Written(text) \in Seq(Seq(S)) /\ Len(Written(text)) = Len(text)
          /\ \A i \in 1..Len(Written(text)) : Written(text)[i] = Escape(text[i])
      BY <2>5, WrittenTyped
    <3>2. ReadsAs(InQuotes(FlattenSeq(Written(text))), text)
      BY <2>5, <3>1, QuotedText
    <3> QED
      BY <2>9, <3>2, Zenon
  <2>11. ~OneLine(text) => ~IsRead(line)
    BY <2>5, <2>6, ConfigIsUnread, Zenon
  <2>12. /\ Quote \in {Quote, Apostrophe} /\ Space \notin {Quote, Apostrophe} /\ Hash \notin {Quote, Apostrophe}
         /\ Quote \in {Quote} /\ Space \notin {Quote} /\ Hash \notin {Quote}
    BY DEF Quote, Apostrophe, Space, Hash
  <2>13. ASSUME OneLine(text), NEW quotes, Quote \in quotes, Space \notin quotes, Hash \notin quotes
         PROVE  StripComment(line \o comment, quotes) = line \o <<Space>>
    BY <2>5, <2>6, <2>9, <2>13, CommentIsStripped
  <2>14. OneLine(text) => /\ StripComment(line \o comment, {Quote, Apostrophe}) = line \o <<Space>>
                          /\ StripComment(line \o comment, {Quote}) = line \o <<Space>>
    BY <2>12, <2>13, Zenon
  <2>15. OneLine(text) /\ Backslash \notin ToSet(text) /\ ~HasQuotes(text)
           => ReadsAs(MigratedValue(text), text)
    BY <2>5, MigratedIsRead, Zenon
  <2>16. ~OneLine(text) \/ Backslash \in ToSet(text) => Unread \intersect ToSet(text) # {}
    BY DEF OneLine, Unread
  <2>17. Unread \intersect ToSet(text) # {} /\ ~HasQuotes(text) => ~ReadsAs(MigratedValue(text), text)
    BY <2>5, MigratedIsOther, Zenon
  <2>18. HasQuotes(text) => ~ReadsAs(MigratedValue(text), text)
    <3>1. HasQuotes(text) => text # <<>> /\ MigratedValue(text) = text
      BY Zenon DEF MigratedValue, HasQuotes
    <3>2. text # <<>> => ~ReadsAs(text, text)
      BY <2>5, QuotedIsOther, Zenon
    <3> QED
      BY <3>1, <3>2, Zenon
  <2>19. ReadsAs(MigratedValue(text), text) <=>
           OneLine(text) /\ Backslash \notin ToSet(text) /\ ~HasQuotes(text)
    BY <2>15, <2>16, <2>17, <2>18, Zenon
  <2>20. MigratedValue(line) = line
    BY <2>5, <2>8, MigratedStays
  <2>21. XmlRead(XmlEscape(text)) = text
    BY <2>5, XmlIsRead
  <2>22. name # <<>> /\ Len(name) <= LongestName /\ ToSet(name) \intersect Spoils = {}
    BY <2>5, <2>6, NameAssumption, NameIsFine
  <2> QED
    BY <2>1, <2>6, <2>7, <2>10, <2>11, <2>14, <2>19, <2>20, <2>21, <2>22, Zenon
       DEF TextSurvives, OneLine, StripConfigComment, StripLineComment
<1> QED
  BY <1>1, CasesStay, PTL
=============================================================================
