------------------------------ MODULE Computed ------------------------------
(* The values that flow through a graph: f64 numbers, and the Computed       *)
(* results of nodes (a number, or the reason why there is none).             *)
(*                                                                           *)
(* A number is an exact rational <<numerator, denominator>> in lowest terms: *)
(* rounding is left out, and a comparison the code makes against EPSILON is  *)
(* one against zero.  The denominator is 0 for what IEEE 754 adds: <<0, 0>>  *)
(* is NaN, <<1, 0>> and <<-1, 0>> are the infinities.  With the usual rules  *)
(* for fractions a NaN then spreads by itself, 0/0 is NaN, and no comparison *)
(* with NaN is true.                                                         *)
EXTENDS Integers, Sequences, SequencesExt

gcd[a \in Nat, b \in Nat] == IF b = 0 THEN a ELSE gcd[b, a % b]
Mag(n) == IF n < 0 THEN -n ELSE n
Sgn(n) == IF n > 0 THEN 1 ELSE IF n = 0 THEN 0 ELSE -1

\* The fraction n / d, in lowest terms.
Frac(n, d) ==
  IF d = 0 THEN <<Sgn(n), 0>>
  ELSE LET g == gcd[Mag(n), Mag(d)] IN <<(Sgn(d) * n) \div g, Mag(d) \div g>>

Q(n) == <<n, 1>>
Zero == Q(0)
NaN == <<0, 0>>
Infinity == <<1, 0>>
NegInfinity == <<-1, 0>>
IsFinite(a) == a[2] # 0

Add(a, b) == IF a[2] = 0 /\ a = b THEN a ELSE Frac(a[1] * b[2] + b[1] * a[2], a[2] * b[2])
Neg(a) == <<-a[1], a[2]>>
Sub(a, b) == Add(a, Neg(b))
Mul(a, b) == Frac(a[1] * b[1], a[2] * b[2])
Div(a, b) == Frac(a[1] * b[2], a[2] * b[1])
Pow(a, n) == FoldLeft(Mul, Q(1), [i \in 1..n |-> a])
SumSeq(s) == FoldLeft(Add, Zero, s)

Less(a, b) == IF a[2] = 0 /\ b[2] = 0 THEN a[1] = -1 /\ b[1] = 1 ELSE a[1] * b[2] < b[1] * a[2]
AtMost(a, b) == Less(a, b) \/ (a # NaN /\ a = b)
Abs(a) == <<Mag(a[1]), a[2]>>
\* f64::total_cmp on the values the models feed: NaN comes after every number.
TotalBefore(a, b) == Less(a, b) \/ (a # NaN /\ b = NaN)
\* f64::max and f64::min ignore a NaN operand.
FMax(a, b) == IF a = NaN \/ Less(a, b) THEN b ELSE a
FMin(a, b) == IF a = NaN \/ Less(b, a) THEN b ELSE a

-----------------------------------------------------------------------------
Ok(v) == [ok |-> TRUE, v |-> v]
Err(why) == [ok |-> FALSE, v |-> <<why>>]

FiniteOrWarming(v) == IF IsFinite(v) THEN Ok(v) ELSE Err("WarmingUp")
\* What an Option becomes.
SomeOrWarming(found, v) == IF found THEN Ok(v) ELSE Err("WarmingUp")
=============================================================================
