-------------------------- MODULE OperatorMeaning ---------------------------
(* What the operators promise, stated over the history of accepted samples   *)
(* without any of the state the operators keep.                              *)
EXTENDS Operators

xs == [i \in DOMAIN fed |-> fed[i].x]
InOrderFed == \A i, j \in DOMAIN fed : i < j => fed[i].ts <= fed[j].ts
NaNIn(h) == \E i \in DOMAIN h : h[i].x = NaN \/ h[i].y = NaN

\* The samples a window speaks of, when time does not run backwards.
Recent(h) ==
  IF op.form = "time" THEN SelectSeq(h, LAMBDA e : e.ts >= Last(h).ts - op.size)
  ELSE LET n == IF op.size = 0 THEN 1 ELSE op.size
       IN SubSeq(h, IF Len(h) > n THEN Len(h) - n + 1 ELSE 1, Len(h))

SumBy(F(_), h) == SumSeq([i \in DOMAIN h |-> F(h[i])])
MeanBy(F(_), h) == Div(SumBy(F, h), Q(Len(h)))
MeanX(h) == MeanBy(LAMBDA e : e.x, h)
MeanY(h) == MeanBy(LAMBDA e : e.y, h)
CentralMoment(h, k) == MeanBy(LAMBDA e : Pow(Sub(e.x, MeanX(h)), k), h)
CentralY(h) == MeanBy(LAMBDA e : Pow(Sub(e.y, MeanY(h)), 2), h)
CrossMoment(h) == MeanBy(LAMBDA e : Mul(Sub(e.x, MeanX(h)), Sub(e.y, MeanY(h))), h)
SignedSquare(v) == Mul(v, Abs(v))

\* The k-th smallest value: fewer than k are below it, at least k are not above.
Kth(h, k) ==
  CHOOSE v \in {h[i].x : i \in DOMAIN h} :
    /\ Len(SelectSeq(h, LAMBDA e : Less(e.x, v))) < k
    /\ Len(SelectSeq(h, LAMBDA e : AtMost(e.x, v))) >= k
QuantileBy(h, q) ==
  LET k == (q[1] * (Len(h) - 1)) \div q[2]
      f == Sub(Mul(q, Q(Len(h) - 1)), Q(k))
  IN IF f = Zero THEN Kth(h, k + 1)
     ELSE Add(Kth(h, k + 1), Mul(f, Sub(Kth(h, k + 2), Kth(h, k + 1))))

\* The changes of the value between neighbours that lie in the window.
Changes(h) == [i \in 1..Len(h) - 1 |-> [ts |-> h[i + 1].ts, x |-> Sub(h[i + 1].x, h[i].x), y |-> Zero]]
RelativeStrength(h) ==
  LET up   == SumBy(LAMBDA c : FMax(c.x, Zero), h)
      down == Neg(SumBy(LAMBDA c : FMin(c.x, Zero), h))
  IN IF Add(up, down) = Zero THEN Q(50) ELSE Mul(Q(100), Div(up, Add(up, down)))

\* Exponential weights without a recurrence: the seed and each later value have
\* lost a factor keep for every value after them.
Weighted(seed, later, keep, take) ==
  Add(Mul(Pow(keep, Len(later)), seed),
      SumSeq([i \in DOMAIN later |-> Mul(Mul(take, Pow(keep, Len(later) - i)), later[i])]))
SeedAndRest(v, n) == Weighted(Div(SumSeq(SubSeq(v, 1, op.size)), Q(op.size)),
                              SubSeq(v, op.size + 1, Len(v)), n, Sub(Q(1), n))
TimeWeighted(h) ==
  Add(Mul(Decay(op, Last(h).ts - h[1].ts), h[1].x),
      SumSeq([i \in 1..Len(h) - 1 |->
                Mul(Sub(Decay(op, Last(h).ts - h[i + 1].ts), Decay(op, Last(h).ts - h[i].ts)), h[i + 1].x)]))

-----------------------------------------------------------------------------
(* The statistic of the recent samples, by its textbook definition.          *)
Statistic(r) ==
  LET n == Len(r)  e == Last(r)
      NeedsSpread(k, v) == IF n < k \/ CentralMoment(r, 2) = Zero THEN NaN ELSE v
  IN CASE op.kind = "sum" -> SumBy(LAMBDA f : f.x, r)
       [] op.kind = "mean" -> MeanX(r)
       [] op.kind = "count" -> Q(n)
       [] op.kind = "variance" -> IF n < 2 THEN NaN ELSE CentralMoment(r, 2)
       [] op.kind = "skewness" ->
            NeedsSpread(3, Mul(Div(CentralMoment(r, 3), CentralMoment(r, 2)),
                               Div(Abs(CentralMoment(r, 3)), Pow(CentralMoment(r, 2), 2))))
       [] op.kind = "kurtosis" ->
            NeedsSpread(4, Sub(Div(CentralMoment(r, 4), Pow(CentralMoment(r, 2), 2)), Q(3)))
       [] op.kind = "max" -> Kth(r, n)
       [] op.kind = "min" -> Kth(r, 1)
       [] op.kind = "median" -> QuantileBy(r, Frac(1, 2))
       [] op.kind = "quantile" -> QuantileBy(r, op.q)
       [] op.kind = "rank" -> Frac(Cardinality({i \in DOMAIN r : Less(r[i].x, e.x)}), IF n = 1 THEN 1 ELSE n - 1)
       [] op.kind = "wma" ->      \* the mean of the sums of all suffixes
            Div(SumSeq([i \in DOMAIN r |-> SumBy(LAMBDA f : f.x, SubSeq(r, i, n))]), Q((n * (n + 1)) \div 2))
       [] op.kind = "covariance" -> IF n < 2 THEN NaN ELSE CrossMoment(r)
       [] op.kind = "correlation" ->
            IF n < 2 \/ CentralMoment(r, 2) = Zero \/ CentralY(r) = Zero THEN NaN
            ELSE Mul(Div(CrossMoment(r), CentralMoment(r, 2)), Div(Abs(CrossMoment(r)), CentralY(r)))
       [] op.kind = "dc" -> Sub(e.x, MeanX(r))
       [] op.kind = "baseline" -> Sub(e.x, Kth(r, 1 + ((op.q[1] * (n - 1)) \div op.q[2])))
       [] op.kind = "range" -> IF Kth(r, 1) = Kth(r, n) THEN Frac(1, 2)
                               ELSE Div(Sub(e.x, Kth(r, 1)), Sub(Kth(r, n), Kth(r, 1)))
       [] op.kind = "zscore" -> IF CentralMoment(r, 2) = Zero THEN Zero
                                ELSE Div(SignedSquare(Sub(e.x, MeanX(r))), CentralMoment(r, 2))

Average(h) ==
  CASE op.kind = "ema" /\ op.form = "time" -> TimeWeighted(h)
    [] op.kind = "ema" /\ op.form = "count" ->
         IF Len(h) < op.size THEN NaN ELSE SeedAndRest(xs, Frac(op.size - 1, op.size + 1))
    [] op.kind = "rsi_wilder" ->
         LET c    == Changes(h)
             Avgd(F(_)) == SeedAndRest([i \in DOMAIN c |-> F(c[i].x)], Frac(op.size - 1, op.size))
             up   == Avgd(LAMBDA v : FMax(v, Zero))
             down == Avgd(LAMBDA v : FMax(Neg(v), Zero))
         IN IF Len(c) < op.size THEN NaN
            ELSE IF Add(up, down) = Zero THEN Q(50) ELSE Mul(Q(100), Div(up, Add(up, down)))
    [] op.kind = "rsi" -> IF Len(h) < 2 THEN NaN ELSE RelativeStrength(Recent(Changes(h)))


Averages == {"ema", "rsi", "rsi_wilder"}
Statistics == (SumKinds \ {"rsi"}) \cup OrderKinds \cup {"covariance", "correlation"} \cup Conditioners

(* Samples in time order: a window operator returns the statistic of the     *)
(* samples of its window, although it only ever adds the newest one and      *)
(* subtracts what leaves.  A NaN counts while it is in the window if the     *)
(* statistic is read from the values; the sums never get rid of one.         *)
WindowsAreTheirStatistic ==
  (/\ accepted /\ InOrderFed /\ op.kind \in Statistics /\ ~NaNIn(Recent(fed))
   /\ NaNIn(fed) => op.kind \in OrderKinds \ {"baseline"}
   /\ op.kind = "wma" => op.form = "count")
  => out = IF op.kind \in Conditioners THEN Ok(Statistic(Recent(fed)))
           ELSE FiniteOrWarming(Statistic(Recent(fed)))

(* The averages that keep no window have the closed form of their weights.   *)
AveragesAreWeighted ==
  (accepted /\ InOrderFed /\ op.kind \in Averages /\ ~NaNIn(fed)) =>
    out = FiniteOrWarming(Average(fed))

(* Late samples: a time window may keep what a later cutoff would have       *)
(* dropped, but it is always the newest part of the stream and never lost a  *)
(* sample that is within the window of any sample up to now.                 *)
LateSamplesEvictNothingFresh ==
  (fed # <<>> /\ op.kind \in (Statistics \cup PairKinds)) =>
    /\ IsSuffix(st.buf, fed)
    /\ op.form = "time" =>
         \A i \in 1..Len(fed) - Len(st.buf) :
           \E j \in i..Len(fed) : fed[i].ts < fed[j].ts - op.size

(* The regression line is the least-squares line: its residuals over the     *)
(* window sum to zero and are orthogonal to x.  With two points it is the    *)
(* two-point calibration, which has an inverse.                              *)
ResidualsAreOrthogonal ==
  (op.kind = "regressor" /\ Len(st.buf) >= 2) =>
    LET Residual(e) == Sub(e.y, Predict(st, e.x))
    IN /\ SumBy(Residual, st.buf) = Zero
       /\ SumBy(LAMBDA e : Mul(Residual(e), e.x), st.buf) = Zero
       /\ AtMost(Zero, RSquared(st)) /\ AtMost(RSquared(st), Q(1))
       /\ Len(st.buf) = 2 /\ st.buf[1].x # st.buf[2].x =>
            LET c == FromTwoPoints(st.buf[1].x, st.buf[1].y, st.buf[2].x, st.buf[2].y)
            IN /\ c = [gain |-> Coefficients(st).slope, offset |-> Coefficients(st).intercept]
               /\ c.gain # Zero => \A i \in DOMAIN fed : Uncalibrate(c, Calibrate(c, fed[i].x)) = fed[i].x

(* Welford's accumulator, which values enter and leave and which is computed *)
(* anew now and then, is at every moment that of the window's values; and    *)
(* two accumulators of the parts of a stream merge into that of the whole.   *)
WelfordIsExact ==
  (op.kind = "welford" /\ fed # <<>>) =>
    LET r == st.buf  m2(h) == Mul(CentralMoment(h, 2), Q(Len(h)))
    IN /\ st.acc = [count |-> Len(r), mean |-> MeanX(r), m2 |-> m2(r)]
       /\ InOrderFed => r = Recent(fed)
       /\ \A k \in 0..Len(fed) :
            AccMerge(AccAll(SubSeq(xs, 1, k)), AccAll(SubSeq(xs, k + 1, Len(fed)))) = AccAll(xs)
(* Whatever series is pushed, a window is worth what its definition says of  *)
(* the history: the incremental sums, orders, weights, fits and accumulators *)
(* and the eviction by time or count never come apart from it.               *)
WindowsMeanTheirHistory ==
  /\ WindowsAreTheirStatistic
  /\ AveragesAreWeighted
  /\ LateSamplesEvictNothingFresh
  /\ ResidualsAreOrthogonal
  /\ WelfordIsExact
-----------------------------------------------------------------------------
n == Len(fed)
\* The sample a lag of op.size reaches back to, if the buffer still has it.
Reached == {i \in DOMAIN fed : fed[i].ts <= Now - op.size}
LaggedValue ==
  IF Reached = {} \/ Max(Reached) <= n - op.most THEN Err("WarmingUp") ELSE Ok(xs[Max(Reached)])
\* The samples at which there is a velocity: time has moved since the one before.
Moving == {i \in 2..n : fed[i].ts > fed[i - 1].ts}
VelocityAt(i) == Slope(Sub(xs[i], xs[i - 1]), fed[i].ts - fed[i - 1].ts)
SameKey == {i \in 1..n - 1 : fed[i].y = fed[n].y}

\* Where time stands the rate says so.  The acceleration does not: it takes a
\* velocity that is not there for one that is still to come.
LookBack ==
  CASE op.kind = "prev" -> IF n < 2 THEN Err("WarmingUp") ELSE Ok(xs[n - 1])
    [] op.kind = "lag" -> LaggedValue
    [] op.kind = "delta" -> IF LaggedValue.ok THEN Ok(Sub(xs[n], LaggedValue.v)) ELSE LaggedValue
    [] op.kind = "rate" -> IF n < 2 THEN Err("WarmingUp")
                           ELSE IF n \notin Moving THEN Err("ZeroTimeDelta") ELSE Ok(VelocityAt(n))
    [] op.kind = "acceleration" ->
         IF n \notin Moving \/ Moving = {n} THEN Err("WarmingUp")
         ELSE Ok(Slope(Sub(VelocityAt(n), VelocityAt(Max(Moving \ {n}))), fed[n].ts - fed[n - 1].ts))
    [] op.kind = "pct_change" ->
         IF n < 2 THEN Err("WarmingUp") ELSE IF xs[n - 1] = Zero THEN Err("DivideByZero")
         ELSE Ok(Mul(Q(100), Sub(Div(xs[n], xs[n - 1]), Q(1))))
    [] op.kind = "log_return" ->
         IF n < 2 THEN Err("WarmingUp")
         ELSE IF AtMost(FMin(xs[n], xs[n - 1]), Zero) THEN Err("DomainError") ELSE Ok(Div(xs[n], xs[n - 1]))
    [] op.kind = "cumsum" -> Ok(SumSeq(xs))
    [] op.kind = "cumprod" -> Ok(FoldLeft(Mul, Q(1), xs))
    [] op.kind = "cummax" -> Ok(Kth(fed, n))
    [] op.kind = "cummin" -> Ok(Kth(fed, 1))
    [] op.kind = "cummean" -> Ok(MeanX(fed))
    [] op.kind = "prev_by" -> IF SameKey = {} THEN Err("WarmingUp") ELSE Ok(xs[Max(SameKey)])
    [] op.kind = "momentum" -> IF n <= op.size THEN Err("WarmingUp") ELSE Ok(Sub(xs[n], xs[n - op.size]))
    [] op.kind = "zscore_node" ->
         IF Len(Recent(fed)) < 2 THEN Err("WarmingUp")
         ELSE IF CentralMoment(Recent(fed), 2) = Zero THEN Err("DivideByZero")
         ELSE Ok(Div(SignedSquare(Sub(xs[n], MeanX(Recent(fed)))), CentralMoment(Recent(fed), 2)))

LookBackKinds == Cumulatives \cup
  {"prev", "lag", "delta", "rate", "acceleration", "pct_change", "log_return", "cummean", "prev_by",
   "momentum", "zscore_node"}

(* Samples in time order: lags, derivatives, cumulative values and chains of *)
(* nodes return what they are named for, or the reason why there is nothing  *)
(* to return: too early, standing time, a zero base, an argument outside the *)
(* domain; for the acceleration over standing time, too early.  An absent    *)
(* input in between does not shift what they look back to.                   *)
TrackersLookBack ==
  (accepted /\ InOrderFed /\ op.kind \in LookBackKinds /\ ~NaNIn(fed)) => out = LookBack

(* A bounded map of previous values never holds more than its bound, holds   *)
(* the key just seen, and for no key anything but its newest value.          *)
KeysAreBounded ==
  (op.kind = "prev_by_bounded" /\ accepted) =>
    /\ Cardinality(DOMAIN st) <= (IF op.size = 0 THEN 1 ELSE op.size)
    /\ fed[n].y \in DOMAIN st
    /\ \A k \in DOMAIN st : st[k] = xs[Max({i \in 1..n : fed[i].y = k})]
    /\ out.ok => SameKey # {} /\ out.v = xs[Max(SameKey)]

-----------------------------------------------------------------------------
\* The samples from i on up to n - 1 are all high, and a longer stretch is not.
High(i) == IF op.kind = "runt" THEN AtMost(op.low, xs[i]) ELSE AtMost(op.q, xs[i])
PulseStarts == {i \in 1..n - 1 : (\A j \in i..n - 1 : High(j)) /\ (i > 1 => ~High(i - 1))}
PulseVerdict ==
  LET i == CHOOSE k \in PulseStarts : TRUE
      width == fed[n].ts - fed[i].ts
      peak == Kth(SubSeq(fed, i, n - 1), n - i)
  IN CASE op.kind = "glitch" -> IF width < op.size THEN "Rejected" ELSE "ValidPulse"
       [] op.kind = "pulse" -> IF width \in op.size..op.most THEN "Valid"
                               ELSE IF width < op.size THEN "TooShort" ELSE "TooLong"
       [] op.kind = "runt" -> <<IF Less(peak, op.high) THEN "Runt" ELSE "ValidPulse", peak>>

(* Constant threshold: the side of a hysteresis comparator is that of the    *)
(* last sample that was a margin away, or of the first sample.               *)
Decisive(i) == AtMost(op.q, Abs(Sub(xs[i], fed[i].y)))
SideBefore ==
  LET D == {i \in 1..n - 1 : Decisive(i)} \cup {1}
  IN AtMost(fed[Max(D)].y, xs[Max(D)])
HysteresisEdge ==
  IF n < 2 \/ ~Decisive(n) \/ SideBefore = AtMost(fed[n].y, xs[n]) THEN "None"
  ELSE IF SideBefore THEN "Falling" ELSE "Rising"

\* Was the signal on or above the threshold at sample i?
Over(i) == AtMost(fed[i].y, xs[i])
CrossingEdge ==
  IF n < 2 \/ Over(n) = Over(n - 1) THEN "None"
  ELSE IF Over(n) THEN IF op.mode = "Under" THEN "None" ELSE "Rising"
  ELSE IF op.mode = "Above" THEN "None" ELSE "Falling"

\* The window is left by its lower or upper edge, and entered by either.
InWindow(v) == AtMost(op.low, v) /\ AtMost(v, op.high)
WindowCrossing ==
  IF n < 2 \/ InWindow(xs[n]) = InWindow(xs[n - 1]) THEN "None"
  ELSE IF InWindow(xs[n]) THEN "EnteredWindow"
  ELSE IF Less(xs[n - 1], xs[n]) THEN "ExitedHigh" ELSE "ExitedLow"

(* Every pulse is judged when it ends, by its own first sample, its width    *)
(* and its peak; crossings are reported once per change of side, and with a  *)
(* margin only after the signal has gone the whole way.                      *)
DetectorsJudgeEveryPulse ==
  (accepted /\ ~NaNIn(fed)) =>
    CASE op.kind \in {"glitch", "pulse", "runt"} ->
           out = IF PulseStarts # {} /\ ~High(n) THEN PulseVerdict
                 ELSE IF op.kind = "runt" THEN NoRunt ELSE "None"
      [] op.kind = "hysteresis" -> out = HysteresisEdge
      [] op.kind = "cross" -> out = CrossingEdge
      [] op.kind = "window_detect" -> out = WindowCrossing
      [] OTHER -> TRUE

(* A missing value is typed: finite samples never make a node return NaN or  *)
(* an infinity as a value.  (Not so the indicators that are scans, and       *)
(* plain division: README.md.)                                               *)
FiniteStaysFinite ==
  /\ op.kind \notin DetectorKinds \cup {"stochastic", "williams"}
  /\ op.kind \in IndicatorKinds => op.kind \in BarKinds \cup {"kama", "atr"}
  /\ \A i \in DOMAIN fed : IsFinite(xs[i])
  /\ out.ok
  => IsFinite(out.v)

(* What a tracker, a keyed tracker or a detector carries from one sample to  *)
(* the next is what its definition looks back to, absent inputs, ties and    *)
(* evicted keys included; and where there is no value to return, it returns  *)
(* a reason and never a NaN.                                                 *)
StateLooksBack ==
  /\ TrackersLookBack
  /\ KeysAreBounded
  /\ DetectorsJudgeEveryPulse
  /\ FiniteStaysFinite

-----------------------------------------------------------------------------
(* Indicators.                                                               *)
Defined == accepted /\ op.kind \notin DetectorKinds /\ out.ok /\ IsFinite(out.v)
Between(lo, hi) == AtMost(lo, out.v) /\ AtMost(out.v, hi)
Upwards(i) == IF Less(xs[i - 1], xs[i]) THEN 1 ELSE IF Less(xs[i], xs[i - 1]) THEN -1 ELSE 0
Bars == op.kind \in BarKinds \cup {"atr"} =>
  \A i \in DOMAIN fed : AtMost(fed[i].z, xs[i]) /\ AtMost(xs[i], fed[i].y)

(* An oscillator stays in its range and an average within the values it      *)
(* averages, whatever the series; the bars must have low <= close <= high.   *)
IndicatorsStayInRange ==
  Defined /\ Bars =>
    CASE op.kind \in {"stochrsi_k", "stochrsi_d", "mfi", "adx", "plus_di", "minus_di", "stochastic"} ->
           Between(Zero, Q(100))
      [] op.kind = "cmo" -> Between(Q(-100), Q(100))
      [] op.kind = "williams" -> Between(Q(-100), Zero)
      [] op.kind \in {"trima", "kama", "vwap"} -> Between(Kth(fed, 1), Kth(fed, n))
      [] op.kind = "atr" -> AtMost(Zero, out.v)
      [] OTHER -> TRUE

\* The first sample at which an indicator has a value.
FirstValue ==
  CASE op.kind = "trima" -> op.size
    [] op.kind = "dema" -> 2 * op.size - 1
    [] op.kind = "tema" -> 3 * op.size - 2
    [] op.kind = "trix" -> 3 * op.size - 1
    [] op.kind = "ppo" -> op.most
    [] op.kind \in MacdKinds -> op.most + op.third - 1
    [] op.kind = "slope" -> op.size
    [] op.kind \in {"kama", "cmo", "atr", "mfi", "plus_di", "minus_di"} -> op.size + 1
    [] op.kind = "adx" -> 2 * op.size
    [] op.kind = "stochrsi_k" -> op.size + op.most
    [] op.kind = "stochrsi_d" -> op.size + op.most + op.third - 1
Lined == {"trima", "dema", "tema", "ppo", "slope"} \cup MacdKinds

(* On a straight line an average of averages has no error: dema and tema     *)
(* return the line, trima its middle, macd the lags' difference, and nothing *)
(* remains for the histogram.  An indicator has a value from its first       *)
(* possible sample on and not before.                                        *)
StraightLinesAreExact ==
  LET step == Sub(xs[2], xs[1])
      line == n >= 2 /\ \A i \in 2..n : Sub(xs[i], xs[i - 1]) = step
      half(k) == Mul(step, Frac(k, 2))
      value == CASE op.kind \in {"dema", "tema"} -> xs[n]
                 [] op.kind = "trima" -> Sub(xs[n], half(op.size - 1))
                 [] op.kind \in {"line", "signal"} -> half(op.most - op.size)
                 [] op.kind = "histogram" -> Zero
                 [] op.kind = "slope" -> step
                 [] op.kind = "ppo" ->
                      LET slow == Sub(xs[n], half(op.most - 1))
                      IN IF slow = Zero THEN Zero ELSE Mul(Q(100), Div(half(op.most - op.size), slow))
  IN /\ accepted /\ op.kind \in Lined \cup {"kama", "cmo", "atr", "mfi", "adx", "plus_di", "minus_di", "stochrsi_k", "stochrsi_d"}
           => (Defined <=> n >= FirstValue)
     /\ Defined /\ op.kind \in Lined /\ line => out.v = value

\* A weighted mean of values by weights.
WeightedMean(weight(_), value(_), I) ==
  Div(MapThenFoldSet(Add, Zero, LAMBDA i : Mul(weight(i), value(i)), LAMBDA S : CHOOSE i \in S : TRUE, I),
      MapThenFoldSet(Add, Zero, weight, LAMBDA S : CHOOSE i \in S : TRUE, I))
\* The averages of Wilder of the gains, the losses and the true ranges.
WilderOf(v) == SeedAndRest(v, Frac(op.size - 1, op.size))
GainsOf(sign) == [i \in 1..n - 1 |-> FMax(Mul(Q(sign), Sub(xs[i + 1], xs[i])), Zero)]
Ranges == [i \in 1..n - 1 |-> Sub(FMax(fed[i + 1].y, xs[i]), FMin(fed[i + 1].z, xs[i]))]
Flow(sign) == SumSeq([i \in 1..op.size |->
                 IF Upwards(n - op.size + i) = sign THEN Mul(xs[n - op.size + i], fed[n - op.size + i].y) ELSE Zero])
WindowX == Recent(fed)

(* The indicators with a running state have the closed form of their         *)
(* definition over the series: on-balance volume is the volume signed by the *)
(* direction of each close, money flow the share of the rising flow, cmo the *)
(* balance of Wilder's averages, atr Wilder's average of the true ranges.    *)
IndicatorsAreTheirDefinition ==
  Defined /\ Bars =>
    CASE op.kind = "obv" ->
           out.v = SumSeq([i \in 1..n |-> IF i = 1 THEN fed[1].y ELSE Mul(Q(Upwards(i)), fed[i].y)])
      [] op.kind = "vwap" -> out.v = WeightedMean(LAMBDA i : fed[i].y, LAMBDA i : xs[i], 1..n)
      [] op.kind = "mfi" ->
           out.v = IF Add(Flow(1), Flow(-1)) = Zero THEN Q(50)
                   ELSE Mul(Q(100), Div(Flow(1), Add(Flow(1), Flow(-1))))
      [] op.kind = "cmo" ->
           LET up == WilderOf(GainsOf(1))  down == WilderOf(GainsOf(-1))
           IN out.v = IF Add(up, down) = Zero THEN Zero
                      ELSE Mul(Q(100), Div(Sub(up, down), Add(up, down)))
      [] op.kind = "atr" -> out.v = WilderOf(Ranges)
      [] op.kind = "williams" ->
           out.v = Mul(Q(-100), Div(Sub(Kth(WindowX, Len(WindowX)), xs[n]),
                                    Sub(Kth(WindowX, Len(WindowX)), Kth(WindowX, 1))))
      [] op.kind = "stochastic" ->
           Sub(Q(100), out.v) = Mul(Q(100), Div(Sub(Kth(WindowX, Len(WindowX)), xs[n]),
                                                Sub(Kth(WindowX, Len(WindowX)), Kth(WindowX, 1))))
      [] op.kind = "cci" ->
           LET dev == MeanBy(LAMBDA e : Abs(Sub(e.x, MeanX(WindowX))), WindowX)
           IN Mul(out.v, dev) = Div(Sub(xs[n], MeanX(WindowX)), Frac(3, 200))
      [] OTHER -> TRUE

(* An indicator is its textbook formula from its first possible sample on,   *)
(* and stays in the range the formula has.                                   *)
IndicatorsAreTheirFormula ==
  /\ IndicatorsStayInRange
  /\ StraightLinesAreExact
  /\ IndicatorsAreTheirDefinition
=============================================================================
