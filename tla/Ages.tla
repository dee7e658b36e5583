---------------------------------- MODULE Ages ----------------------------------
(***************************************************************************)
(* The age that a build has to have expired by for gc to remove it.          *)
(***************************************************************************)
EXTENDS Integers

CONSTANTS I64 \* 2^63: the numbers of an i64 are those from -I64 to I64 - 1

ASSUME RangeAssumption == I64 \in Nat \ {0}

U64 == 2 * I64

UnitSeconds == [d |-> 86400, h |-> 3600, m |-> 60, s |-> 1]

\* Fault: the product wraps around.
WrappingMul(amount, by) == (amount * by) % U64

SaturatingMul(amount, by) == IF amount * by < U64 THEN amount * by ELSE U64 - 1

(* parse_age.                                                               *)
ParseAge(age) == SaturatingMul(age.amount, UnitSeconds[age.unit])

(* as i64.                                                                  *)
AsI64(n) == IF n < I64 THEN n ELSE n - U64

SaturatingSub(a, b) ==
  CASE a - b >= I64 -> I64 - 1
    [] a - b < -I64 -> -I64
    [] OTHER -> a - b

(* run_gc removes what has expired before this time.                         *)
Threshold(now, age) == SaturatingSub(now, AsI64(ParseAge(age)))
=============================================================================
