------------------------------ MODULE Trackers ------------------------------
(* The operators of tflo-ops that remember earlier samples: previous and     *)
(* lagged values, derivatives, cumulative statistics, previous values per    *)
(* key; and the conditioning primitives, which are sliding windows whose     *)
(* statistic is applied to the sample that was just pushed.                  *)
EXTENDS Windows, FiniteSets

-----------------------------------------------------------------------------
(* LagBuffer: keep the newest op.most entries (10000 in the code), then drop *)
(* from the front while the second entry is already as old as the lag.       *)
WrongPushLagStrict(op, buf, e) ==
  LET all == Append(buf, e)
      k   == SelectInSubSeq(all, 2, Len(all), LAMBDA f : f.ts >= e.ts - op.size)
  IN SubSeq(all, IF k = 0 THEN Len(all) ELSE k - 1, Len(all))
PushLag(op, buf, e) ==
  LET all    == Append(buf, e)
      capped == SubSeq(all, IF Len(all) > op.most THEN Len(all) - op.most + 1 ELSE 1, Len(all))
      target == e.ts - op.size
      k      == SelectInSubSeq(capped, 2, Len(capped), LAMBDA f : f.ts > target)
  IN SubSeq(capped, IF k = 0 THEN Len(capped) ELSE k - 1, Len(capped))
Lagged(op, buf) ==
  SomeOrWarming(buf[1].ts <= Last(buf).ts - op.size, buf[1].x)
DeltaOf(lagged, e) == IF lagged.ok THEN Ok(Sub(e.x, lagged.v)) ELSE lagged

\* A change per second, ts being in milliseconds.
Slope(dv, dt) == Div(Mul(dv, Q(1000)), Q(dt))
Derivative(prev, e) ==
  IF prev = <<>> THEN Err("WarmingUp")
  ELSE IF e.ts <= prev[1].ts THEN Err("ZeroTimeDelta")
  ELSE Ok(Slope(Sub(e.x, prev[1].x), e.ts - prev[1].ts))

(* AccelerationStep: prev is the last sample, velocity the last velocity     *)
(* that was a number.  A NaN velocity leaves velocity as it is, while the    *)
(* time the next one is measured from moves on.  With a velocity time has    *)
(* moved, so ZeroTimeDelta is never reached.                                 *)
EmptyAcceleration == [prev |-> <<>>, velocity |-> <<>>]
Velocity(s, e) == LET d == Derivative(s.prev, e) IN IF d.ok THEN d.v ELSE NaN
Acceleration(s, e) ==
  LET now == Velocity(s, e)
  IN [st  |-> [prev |-> <<e>>, velocity |-> IF now = NaN THEN s.velocity ELSE <<now>>],
      out |-> IF now = NaN \/ s.velocity = <<>> \/ s.prev = <<>> THEN Err("WarmingUp")
              ELSE IF e.ts <= s.prev[1].ts THEN Err("ZeroTimeDelta")
              ELSE Ok(Slope(Sub(now, s.velocity[1]), e.ts - s.prev[1].ts))]

WrongPctChangeUnguarded(prev, e) ==
  IF prev = <<>> THEN Err("WarmingUp") ELSE Ok(Mul(Div(Sub(e.x, prev[1].x), prev[1].x), Q(100)))
PctChange(prev, e) ==
  IF prev = <<>> THEN Err("WarmingUp")
  ELSE IF prev[1].x = Zero THEN Err("DivideByZero")
  ELSE Ok(Mul(Div(Sub(e.x, prev[1].x), prev[1].x), Q(100)))
\* ln is increasing and 0 at 1: the ratio itself stands for its logarithm.
LogReturn(prev, e) ==
  IF prev = <<>> THEN Err("WarmingUp")
  ELSE IF ~Less(Zero, prev[1].x) \/ ~Less(Zero, e.x) THEN Err("DomainError")
  ELSE Ok(Div(e.x, prev[1].x))

-----------------------------------------------------------------------------
(* The cumulative statistics; the mean is updated from the mean before.      *)
CumulativeStart == [cumsum |-> Zero, cumprod |-> Q(1), cummax |-> NegInfinity, cummin |-> Infinity]
Cumulate(kind, acc, v) ==
  CASE kind = "cumsum"  -> Add(acc, v)
    [] kind = "cumprod" -> Mul(acc, v)
    [] kind = "cummax"  -> IF Less(acc, v) THEN v ELSE acc
    [] kind = "cummin"  -> IF Less(v, acc) THEN v ELSE acc
EmptyMean == [count |-> 0, mean |-> Zero]
PushMean(s, v) ==
  [count |-> s.count + 1, mean |-> Add(s.mean, Div(Sub(v, s.mean), Q(s.count + 1)))]

-----------------------------------------------------------------------------
(* PrevByOp and PrevByTracker: a map from a key to its last value.  The      *)
(* tracker may bound its keys: update then evicts one that iteration of the  *)
(* HashMap comes to first, which may be any.                                 *)
PutKey(m, key, v) == [k \in DOMAIN m \cup {key} |-> IF k = key THEN v ELSE m[k]]
PrevBy(m, key) == IF key \in DOMAIN m THEN Ok(m[key]) ELSE Err("WarmingUp")
UpdateBounded(m, key, v, maxKeys) ==
  IF key \notin DOMAIN m /\ Cardinality(DOMAIN m) >= maxKeys /\ m # <<>>
  THEN {PutKey([k \in DOMAIN m \ {gone} |-> m[k]], key, v) : gone \in DOMAIN m}
  ELSE {PutKey(m, key, v)}

-----------------------------------------------------------------------------
(* Conditioning: e has just been pushed to w.                                *)
RemoveDc(w, e) == Sub(e.x, Avg(w, 1))
RemoveBaseline(op, w, e) ==
  LET i == (op.q[1] * (Len(w.sorted) - 1)) \div op.q[2] IN Sub(e.x, w.sorted[i + 1])
NormalizeRange(w, e) ==
  LET range == Sub(MaxOf(w), MinOf(w))
  IN IF range = Zero THEN Frac(1, 2) ELSE Div(Sub(e.x, MinOf(w)), range)
\* The signed square of the z-score; the clamp at 0 hides a NaN, as in Variance.
ZScore(w, e) ==
  LET var == FMax(Sub(Avg(w, 3), Pow(Avg(w, 1), 2)), Zero)
      d   == Sub(e.x, Avg(w, 1))
  IN IF var = Zero THEN Zero ELSE Div(Mul(d, Abs(d)), var)

\* LinearRegressor::coefficients, predict and r_squared over the pairs of the window.
Coefficients(w) ==
  LET varX  == Sub(Avg(w, 3), Pow(Avg(w, 1), 2))
      slope == IF varX = Zero THEN Zero ELSE Div(Sub(Avg(w, 5), Mul(Avg(w, 1), Avg(w, 2))), varX)
  IN IF Len(w.buf) < 2 THEN [slope |-> Zero, intercept |-> Zero]
     ELSE [slope |-> slope, intercept |-> Sub(Avg(w, 2), Mul(slope, Avg(w, 1)))]
Predict(w, x) == Add(Mul(Coefficients(w).slope, x), Coefficients(w).intercept)
RSquared(w) ==
  LET total    == SumSeq([i \in DOMAIN w.buf |-> Pow(Sub(w.buf[i].y, Avg(w, 2)), 2)])
      residual == SumSeq([i \in DOMAIN w.buf |-> Pow(Sub(w.buf[i].y, Predict(w, w.buf[i].x)), 2)])
  IN IF Len(w.buf) < 2 THEN Zero ELSE IF total = Zero THEN Q(1) ELSE Sub(Q(1), Div(residual, total))

-----------------------------------------------------------------------------
(* WelfordAccumulator: count, mean, and m2, the sum of the squared distances *)
(* from the mean; values enter, leave, and accumulators are merged.          *)
EmptyAcc == [count |-> 0, mean |-> Zero, m2 |-> Zero]
AccPush(a, v) ==
  LET mean == Add(a.mean, Div(Sub(v, a.mean), Q(a.count + 1)))
  IN [count |-> a.count + 1, mean |-> mean, m2 |-> Add(a.m2, Mul(Sub(v, a.mean), Sub(v, mean)))]
AccRemove(a, v) ==
  LET mean == Div(Sub(Mul(a.mean, Q(a.count)), v), Q(a.count - 1))
  IN IF a.count <= 1 THEN EmptyAcc
     ELSE [count |-> a.count - 1, mean |-> mean, m2 |-> Sub(a.m2, Mul(Sub(v, a.mean), Sub(v, mean)))]
AccMerge(a, b) ==
  LET n == a.count + b.count  d == Sub(b.mean, a.mean)
  IN IF b.count = 0 THEN a ELSE IF a.count = 0 THEN b
     ELSE [count |-> n,
           mean  |-> Add(a.mean, Mul(d, Frac(b.count, n))),
           m2    |-> Add(Add(a.m2, b.m2), Mul(Mul(d, d), Frac(a.count * b.count, n)))]
AccAll(values) == FoldLeft(AccPush, EmptyAcc, values)

(* WelfordWindow: after op.most additions and removals the accumulator is    *)
(* computed anew from the values of the window.                              *)
EmptyWelford == [buf |-> <<>>, acc |-> EmptyAcc, ops |-> 0]
PushWelford(op, w, e) ==
  LET all  == Append(w.buf, e)
      k    == TimeEvicted(op, all)
      rest == SubSeq(all, k + 1, Len(all))
      acc  == FoldLeft(LAMBDA a, g : AccRemove(a, g.x), AccPush(w.acc, e.x), SubSeq(all, 1, k))
  IN IF w.ops + 1 + k >= op.most
     THEN [buf |-> rest, acc |-> AccAll([i \in DOMAIN rest |-> rest[i].x]), ops |-> 0]
     ELSE [buf |-> rest, acc |-> acc, ops |-> w.ops + 1 + k]
WelfordVariance(w) == IF w.acc.count < 2 THEN NaN ELSE FMax(Div(w.acc.m2, Q(w.acc.count)), Zero)

\* GainOffsetCalibrator: the line through two calibration points.
FromTwoPoints(raw1, ref1, raw2, ref2) ==
  IF raw1 = raw2 THEN [gain |-> Zero, offset |-> ref1]
  ELSE LET gain == Div(Sub(ref2, ref1), Sub(raw2, raw1))
       IN [gain |-> gain, offset |-> Sub(ref1, Mul(gain, raw1))]
Calibrate(c, raw) == Add(Mul(raw, c.gain), c.offset)
Uncalibrate(c, v) == Div(Sub(v, c.offset), c.gain)
=============================================================================
