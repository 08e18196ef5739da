----------------------------- MODULE MCOperators ----------------------------
(* The operators of OperatorMeaning with small windows, and the samples each *)
(* is fed: values in which ties, extremes, zeros, signs and NaN occur, times *)
(* that stand still, step, jump and run backwards, and absent inputs.        *)
EXTENDS OperatorMeaning

Missing == Err("FilteredOut")
One  == {Ok(Zero)}                     \* no second input
V3   == {Ok(Q(0)), Ok(Q(1)), Ok(Q(3))}
VNaN == {Ok(Q(1)), Ok(Q(3)), Ok(NaN)}
VNeg == {Ok(Q(-1)), Ok(Q(0)), Ok(Q(2)), Missing}

Base(kind) == [kind |-> kind, form |-> "count", size |-> 2, q |-> Frac(1, 3), most |-> 3, third |-> 2, mode |-> "Both",
               low |-> Q(1), high |-> Q(3), length |-> 4, dts |-> {1}, xs |-> V3, ys |-> One, zs |-> One]

Counted(kinds, size) ==
  {[Base(k) EXCEPT !.size = size, !.length = 5] : k \in kinds}
   \cup {[Base(k) EXCEPT !.size = size, !.xs = VNaN] : k \in kinds}
\* Samples that tie, are late or NaN, for one statistic of each way of computing it.
LateKinds == {"variance", "rsi", "max", "median", "wma", "dc"}
Timed(kinds) ==
  {[Base(k) EXCEPT !.form = "time", !.dts = {1, 3}, !.xs = {Ok(Q(0)), Ok(Q(2))}] : k \in kinds}
   \cup {[Base(k) EXCEPT !.form = "time", !.dts = {0, 1, 3}, !.xs = {Ok(Q(0)), Ok(Q(2))}] : k \in kinds \cap LateKinds}
   \cup {[Base(k) EXCEPT !.form = "time", !.dts = {-2, 1, 2}, !.xs = {Ok(Q(1)), Ok(NaN)}] : k \in kinds \cap LateKinds}

WindowOps ==
  UNION {Counted(SumKinds \cup OrderKinds, z) : z \in {0, 2}} \cup Counted({"skewness", "kurtosis", "median", "wma"}, 4)
   \cup Counted(Conditioners, 3) \cup Timed(SumKinds \cup OrderKinds \cup {"dc"})
PairOps ==
  {[Base(k) EXCEPT !.ys = V3, !.length = 3] : k \in PairKinds}
   \cup {[Base(k) EXCEPT !.size = 3, !.ys = {Ok(Q(0)), Ok(Q(2))}] : k \in PairKinds}
AverageOps ==
  {[Base(k) EXCEPT !.size = z, !.length = 5] : k \in {"ema", "rsi_wilder", "rsi"}, z \in {1, 2, 3}}
   \cup {[Base("ema") EXCEPT !.form = "time", !.size = 1, !.dts = {0, 1, 2}]}
TrackerOps ==
  {[Base(k) EXCEPT !.xs = {Ok(Q(0)), Ok(Q(2)), Missing}, !.dts = {0, 2}] : k \in {"rate", "acceleration"}}
   \cup {[Base(k) EXCEPT !.xs = VNeg] : k \in {"pct_change", "log_return"}}
   \cup {[Base(k) EXCEPT !.xs = VNeg] : k \in Cumulatives \cup {"prev", "cummean", "momentum", "zscore_node"}}
   \cup {[Base(k) EXCEPT !.xs = {Ok(Q(1)), Ok(Q(2))}, !.dts = {0, 1, 2}] : k \in {"lag", "delta"}}
   \cup {[Base("prev_by") EXCEPT !.ys = {Ok(Q(0)), Ok(Q(1)), Missing}]}
   \cup {[Base("prev_by_bounded") EXCEPT !.size = z, !.xs = {Ok(Q(1)), Ok(Q(2))}, !.ys = V3] : z \in {0, 1, 2}}
   \cup {[Base(k) EXCEPT !.length = 1, !.xs = VNeg \cup {Ok(NaN)}] : k \in {"sqrt", "ln"}}
   \cup {[Base("welford") EXCEPT !.form = "time", !.most = m, !.dts = {0, 1, 3}, !.xs = {Ok(Q(1)), Ok(Q(3))}] : m \in {2, 9}}
DetectorOps ==
  {[Base("cross") EXCEPT !.mode = m, !.ys = {Ok(Q(1)), Ok(Q(2))}, !.xs = {Ok(Q(0)), Ok(Q(2)), Missing}] : m \in {"Both", "Above", "Under"}}
   \cup {[Base("hysteresis") EXCEPT !.q = Q(1), !.ys = {Ok(Q(2))}, !.xs = {Ok(Q(i)) : i \in 0..4}, !.length = 5]}
   \cup {[Base(k) EXCEPT !.q = Q(1), !.dts = {1, 2}] : k \in {"glitch", "pulse"}}
   \cup {[Base("runt") EXCEPT !.xs = {Ok(Q(i)) : i \in 0..4}, !.length = 5]}
   \cup {[Base("window_detect") EXCEPT !.xs = {Ok(Q(i)) : i \in 0..4}]}

(* Series of up to 6 values; the periods are in size, most and third.        *)
IndicatorOps ==
  {[Base(k) EXCEPT !.length = 6] : k \in {"trima", "dema", "tema", "trix", "cmo", "cci", "slope"}}
   \cup {[Base("kama") EXCEPT !.size = z, !.xs = {Ok(Q(0)), Ok(Q(1))}] : z \in {2, 3}}
   \cup {[Base(k) EXCEPT !.size = 3, !.length = 6] : k \in {"trima", "cmo", "cci", "slope"}}
   \cup {[Base(k) EXCEPT !.length = 6] : k \in {"stochastic", "williams", "ppo", "stochrsi_k", "stochrsi_d"} \cup MacdKinds}
   \cup {[Base(k) EXCEPT !.ys = {Ok(Q(1)), Ok(Q(2))}, !.length = 4] : k \in {"obv", "mfi", "vwap"}}
   \cup {[Base(k) EXCEPT !.ys = {Ok(Q(1)), Ok(Q(5))}, !.zs = {Ok(Q(1)), Ok(Q(3))}, !.xs = {Ok(Q(1)), Ok(Q(4))},
                          !.length = IF k = "adx" THEN 4 ELSE 3] : k \in BarKinds \cup {"atr"}}

(* Straight lines, rising and falling, for the averages of averages: from    *)
(* the third sample on the values of a LineOp go on by the same step.        *)
LineOps ==
  {[Base(k) EXCEPT !.mode = "Line", !.size = z, !.xs = {Ok(Q(i)) : i \in 0..7}, !.length = 8] : k \in Lined, z \in {2, 3}}
StaysOnLine ==
  LET h == fed'
  IN op.mode = "Line" /\ Len(h) >= 3 => Sub(h[Len(h)].x, h[Len(h) - 1].x) = Sub(h[2].x, h[1].x)

AllOps == LineOps \cup WindowOps \cup PairOps \cup AverageOps \cup TrackerOps \cup DetectorOps \cup IndicatorOps
=============================================================================
