----------------------------- MODULE EventTime -----------------------------
(***************************************************************************)
(* Event time: i64 milliseconds with the saturating operations the code    *)
(* uses (saturating_add, saturating_sub). TimeMin and TimeMax stand for    *)
(* i64::MIN and i64::MAX; None is the Option::None of every Option<i64>.   *)
(***************************************************************************)
EXTENDS Integers

CONSTANTS TimeMin, TimeMax, None

ASSUME TimeAssumption ==
  /\ TimeMin \in Int /\ TimeMax \in Int
  /\ TimeMin <= 0 /\ 0 <= TimeMax
  /\ None \notin Int

Time == TimeMin .. TimeMax

\* i64::clamp(lo, hi) for lo <= hi.
Clamp(x, lo, hi) == IF x < lo THEN lo ELSE IF x > hi THEN hi ELSE x

\* i64::saturating_add / i64::saturating_sub.
SatAdd(a, b) == Clamp(a + b, TimeMin, TimeMax)
SatSub(a, b) == Clamp(a - b, TimeMin, TimeMax)

\* opt.map_or(t, |m| m.max(t))
MaxOr(opt, t) == IF opt = None \/ opt < t THEN t ELSE opt
=============================================================================
