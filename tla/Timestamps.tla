------------------------------- MODULE Timestamps -------------------------------
(***************************************************************************)
(* Times as the metadata and the answers carry them.  A time is a day and a  *)
(* second of it (timestamp.div_euclid(86_400), rem_euclid), its text a        *)
(* record of the six numbers and of how they are laid out.                   *)
(***************************************************************************)
EXTENDS Integers

DaySeconds == 86400

Time(day, second) == [day |-> day + second \div DaySeconds, second |-> second % DaySeconds]

(* Division of Rust, which cuts towards zero.                                *)
Quot(a, b) == IF a >= 0 THEN a \div b ELSE -((-a) \div b)

\* Fault: every fourth year of an era is a leap year.
YearOfEraJulian(doe) == (doe - doe \div 1460) \div 365

(* Years begin in March, in eras of 400.                                     *)
YearOfEra(doe) == (doe - doe \div 1460 + doe \div 36524 - doe \div 146096) \div 365

\* Days of an era before a year, and of a year before a month.
BeforeYear(yoe) == yoe * 365 + yoe \div 4 - yoe \div 100

BeforeMonth(mp) == (153 * mp + 2) \div 5

CivilInYear(year, doy) ==
  LET mp == (5 * doy + 2) \div 153
      m == mp + (IF mp < 10 THEN 3 ELSE -9)
  IN [year |-> year + (IF m <= 2 THEN 1 ELSE 0), month |-> m, day |-> doy - BeforeMonth(mp) + 1]

(* civil_from_days.                                                         *)
CivilFromDays(days) ==
  LET z == days + 719468
      era == Quot(IF z >= 0 THEN z ELSE z - 146096, 146097)
      doe == z - era * 146097
      yoe == YearOfEra(doe)
  IN CivilInYear(yoe + era * 400, doe - BeforeYear(yoe))

(* days_from_civil.                                                         *)
DaysFromCivil(year, month, day) ==
  LET y == IF month <= 2 THEN year - 1 ELSE year
      era == Quot(IF y >= 0 THEN y ELSE y - 399, 400)
      yoe == y - era * 400
      mp == month + (IF month > 2 THEN -3 ELSE 9)
      doy == BeforeMonth(mp) + day - 1
  IN era * 146097 + BeforeYear(yoe) + doy - 719468

(* The text of a time: the numbers that stand in its slices, where they are    *)
(* numbers; the slices that begin or end inside a character of several bytes; *)
(* and how it is laid out, as rfc3339, with signs before the numbers, with     *)
(* other separators, or in another length than the 20 characters.             *)
Slices == <<"year", "month", "day", "hour", "minute", "second">>

Layouts == {"rfc3339", "signs", "separators", "length"}

\* Years of four characters.
SmallestYear == -999

LargestYear == 9999

FormatRfc3339(time) ==
  LET date == CivilFromDays(time.day) IN
  [year |-> date.year, month |-> date.month, day |-> date.day,
   hour |-> time.second \div 3600, minute |-> (time.second % 3600) \div 60,
   second |-> time.second % 60,
   cut |-> {}, layout |-> IF date.year \in SmallestYear..LargestYear THEN "rfc3339" ELSE "length"]

NoTime == [ok |-> FALSE, panics |-> FALSE]

Panic == [ok |-> FALSE, panics |-> TRUE]

\* The slices are cut and read in their order, up to the first that fails.
FailsAt(text, i) ==
  /\ Slices[i] \notin DOMAIN text
  /\ \A j \in 1..(i - 1) : Slices[j] \in DOMAIN text

(* parse_rfc3339: to cut a text inside of a character is a panic.             *)
ParseRfc3339(text) ==
  IF text.layout # "length" /\ \E i \in 1..6 : FailsAt(text, i) /\ Slices[i] \in text.cut THEN Panic
  ELSE IF /\ text.layout \notin {"length", "separators"}
          /\ \A i \in 1..6 : Slices[i] \in DOMAIN text
          /\ text.month \in 1..12 /\ text.day \in 1..31
          /\ text.hour <= 23 /\ text.minute <= 59 /\ text.second <= 60
    THEN [ok |-> TRUE,
          time |-> Time(DaysFromCivil(text.year, text.month, text.day),
                        text.hour * 3600 + text.minute * 60 + text.second)]
    ELSE NoTime
=============================================================================
