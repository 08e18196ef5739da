----------------------------- MODULE Operators ------------------------------
(* One operator node of a tflo graph fed sample after sample, and what its   *)
(* output must be, stated over the whole history of accepted samples.  The   *)
(* operator is a member of Ops; besides its parameters its record gives the  *)
(* time steps, values, second and third inputs (dts, xs, ys, zs) it is tried  *)
(* with, and the length of the history.                                      *)
EXTENDS Indicators, FiniteSetsExt

CONSTANT Ops

VARIABLES op,      \* the operator under test
          st,      \* its state
          fed,     \* the samples it accepted: [ts, x, y, z]
          out,     \* what its last evaluation returned
          accepted \* whether that evaluation had all its inputs
vars == <<op, st, fed, out, accepted>>

-----------------------------------------------------------------------------
(* Dispatch: the initial state of an operator and one evaluation.            *)
SumKinds    == {"sum", "mean", "variance", "skewness", "kurtosis", "rsi"}
OrderKinds  == {"count", "max", "min", "median", "quantile", "rank", "wma"}
PairKinds   == {"covariance", "correlation", "regressor"}
Conditioners == {"dc", "baseline", "range", "zscore"}
Cumulatives == {"cumsum", "cumprod", "cummax", "cummin"}
WindowKinds == SumKinds \cup OrderKinds \cup PairKinds \cup Conditioners \cup {"zscore_node"}
DetectorKinds == {"cross", "hysteresis", "glitch", "pulse", "runt", "window_detect"}
\* Indicators that compute their last value from the whole series.
MacdKinds   == {"line", "signal", "histogram"}
StochOutput == [stochrsi_k |-> "k", stochrsi_d |-> "d"]
StochKinds  == DOMAIN StochOutput
DirectionOutput == [plus_di |-> "plus", minus_di |-> "minus"]
DirectionKinds  == DOMAIN DirectionOutput
BarKinds    == DirectionKinds \cup {"adx"}
SeriesKinds == MacdKinds \cup BarKinds \cup StochKinds \cup {"trima", "dema", "tema", "ppo", "trix", "kama"}
StepKinds   == {"obv", "mfi", "cci", "slope", "cmo", "atr", "vwap"}
IndicatorKinds == SeriesKinds \cup StepKinds

Read(o, w) ==
  CASE o.kind = "sum" -> w.sums[1]
    [] o.kind = "mean" -> Avg(w, 1)
    [] o.kind = "variance" -> Variance(w)
    [] o.kind = "skewness" -> Skewness(w)
    [] o.kind = "kurtosis" -> Kurtosis(w)
    [] o.kind = "rsi" -> Rsi(w)
    [] o.kind = "count" -> N(w)
    [] o.kind = "max" -> MaxOf(w)
    [] o.kind = "min" -> MinOf(w)
    [] o.kind = "median" -> Quantile(Sorted(o, w), Frac(1, 2))
    [] o.kind = "quantile" -> Quantile(Sorted(o, w), o.q)
    [] o.kind = "rank" -> Rank(w)
    [] o.kind = "wma" -> Wma(o, w)
    [] o.kind = "covariance" -> Covariance(w)
    [] o.kind = "correlation" -> Correlation(w)

Condition(o, w, e) ==
  CASE o.kind = "dc" -> RemoveDc(w, e)
    [] o.kind = "baseline" -> RemoveBaseline(o, w, e)
    [] o.kind = "range" -> NormalizeRange(w, e)
    [] o.kind = "zscore" -> ZScore(w, e)

StartTracker(o) ==
  CASE o.kind \in Cumulatives -> CumulativeStart[o.kind]
    [] o.kind = "cummean" -> EmptyMean
    [] o.kind = "acceleration" -> EmptyAcceleration
    [] o.kind = "momentum" -> [i \in 1..o.size |-> <<>>]
    [] OTHER -> <<>>
StartDetector(o) ==
  CASE o.kind \in {"hysteresis", "window_detect"} -> "Unknown"
    [] o.kind = "runt" -> NoPulse
    [] OTHER -> <<>>
StartIndicator(o) ==
  CASE o.kind = "obv" -> EmptyObv
    [] o.kind = "mfi" -> EmptyMfi
    [] o.kind = "cmo" -> EmptyWilder
    [] o.kind = "atr" -> EmptyAtr
    [] o.kind = "vwap" -> [price |-> Zero, volume |-> Zero]
    [] OTHER -> <<>>
Start(o) ==
  CASE o.kind \in WindowKinds \cup {"stochastic", "williams"} -> EmptyWindow
    [] o.kind \in IndicatorKinds -> StartIndicator(o)
    [] o.kind = "welford" -> EmptyWelford
    [] o.kind = "ema" -> EmptyEma
    [] o.kind = "rsi_wilder" -> EmptyWilder
    [] o.kind \in DetectorKinds -> StartDetector(o)
    [] OTHER -> StartTracker(o)

\* Composites::zscore: (x - sma) / std through SafeDivOp, as its signed square.
ZScoreNode(w, e) ==
  LET centred == Map2(Sub, Ok(e.x), FiniteOrWarming(Avg(w, 1)))
      var     == FiniteOrWarming(Variance(w))
  IN SafeDiv(Map2(LAMBDA d, u : Mul(d, Abs(d)), centred, centred), var)

(* Composites::momentum: a chain of prev nodes.  A stage whose input is      *)
(* absent returns that reason and keeps its state.                           *)
StageIn(s, e, i) ==
  IF i = 1 THEN Ok(e.x)
  ELSE IF \E j \in 1..i - 1 : s[j] = <<>> THEN Err("WarmingUp") ELSE Ok(s[i - 1][1])
PassStages(s, e) ==
  [i \in DOMAIN s |-> IF StageIn(s, e, i).ok THEN <<StageIn(s, e, i).v>> ELSE s[i]]
Momentum(o, s, e) == Goes(PassStages(s, e), Map2(Sub, Ok(e.x), StageIn(s, e, o.size + 1)))

WindowRead(o, w, e) ==
  Goes(w, CASE o.kind = "regressor" -> Ok(Predict(w, e.x))
            [] o.kind \in Conditioners -> Ok(Condition(o, w, e))
            [] o.kind = "zscore_node" -> ZScoreNode(w, e)
            [] OTHER -> FiniteOrWarming(Read(o, w)))
WindowStep(o, s, e) == WindowRead(o, IF o.kind = "rsi" THEN PushRsi(o, s, e) ELSE Push(o, s, e), e)

AverageRead(o, s) ==
  Goes(s, FiniteOrWarming(IF o.kind = "ema" THEN EmaValue(o, s) ELSE WilderValue(o, s)))
AverageStep(o, s, e) ==
  AverageRead(o, IF o.kind = "rsi_wilder" THEN WilderRsi(o, s, e)
                 ELSE IF o.form = "count" THEN CountEma(o, s, e) ELSE TimeEma(o, s, e))

TrackerStep(o, s, e) ==
  LET acc  == Cumulate(o.kind, s, e.x)
      mean == PushMean(s, e.x)
      lag  == PushLag(o, s, e)
  IN CASE o.kind = "prev" -> Goes(<<e>>, IF s = <<>> THEN Err("WarmingUp") ELSE Ok(s[1].x))
       [] o.kind = "lag" -> Goes(lag, Lagged(o, lag))
       [] o.kind = "delta" -> Goes(lag, DeltaOf(Lagged(o, lag), e))
       [] o.kind = "rate" -> Goes(<<e>>, Derivative(s, e))
       [] o.kind = "acceleration" -> Acceleration(s, e)
       [] o.kind \in Cumulatives -> Goes(acc, Ok(acc))
       [] o.kind = "cummean" -> Goes(mean, Ok(mean.mean))
       [] o.kind = "pct_change" -> Goes(<<e>>, PctChange(s, e))
       [] o.kind = "log_return" -> Goes(<<e>>, LogReturn(s, e))
       [] o.kind = "prev_by" -> Goes(PutKey(s, e.y, e.x), PrevBy(s, e.y))
       [] o.kind = "momentum" -> Momentum(o, s, e)

DetectorStep(o, s, e) ==
  CASE o.kind = "cross" -> Cross(o, s, e)
    [] o.kind = "hysteresis" -> Hysteresis(o, s, e)
    [] o.kind = "glitch" -> Glitch(o, s, e)
    [] o.kind = "pulse" -> PulseWidth(o, s, e)
    [] o.kind = "runt" -> Runt(o, s, e)
    [] o.kind = "window_detect" -> WindowEvent(o, s, e)

SeriesValue(o, bars) ==
  LET s == [i \in DOMAIN bars |-> bars[i].x]
  IN CASE o.kind \in MacdKinds -> Macd(s, o.size, o.most, o.third, o.kind)
       [] o.kind = "trima" -> Trima(s, o.size)
       [] o.kind = "dema" -> Dema(s, o.size)
       [] o.kind = "tema" -> Tema(s, o.size)
       [] o.kind = "ppo" -> Ppo(s, o.size, o.most)
       [] o.kind = "trix" -> Trix(s, o.size)
       [] o.kind = "kama" -> Kama(s, o.size)
       [] o.kind \in StochKinds -> StochRsi(s, o.size, o.most, o.third, StochOutput[o.kind])
       [] o.kind = "adx" -> Adx(bars, o.size)
       [] o.kind \in DirectionKinds -> DirectionalIndex(bars, o.size, DirectionOutput[o.kind])
\* The scans return what they have, the nodes over bars a typed absence.
SeriesOut(o, v) == IF o.kind \in BarKinds \cup {"kama"} THEN FiniteOrWarming(v) ELSE Ok(v)
IndicatorStep(o, s, e) ==
  LET bars == Append(s, e)
  IN CASE o.kind \in SeriesKinds -> Goes(bars, SeriesOut(o, SeriesValue(o, bars)))
       [] o.kind = "obv" -> Obv(s, e)
       [] o.kind = "mfi" -> Mfi(o, s, e)
       [] o.kind = "cci" -> Cci(o, s, e)
       [] o.kind = "slope" -> SlopeN(o, s, e)
       [] o.kind = "cmo" -> Cmo(o, s, e)
       [] o.kind = "atr" -> Atr(o, s, e)
       [] o.kind = "vwap" -> Vwap(s, e)

\* The stateless nodes, and the primitives that graphs do not use.
OtherStep(o, s, e) ==
  LET w == Push(o, s, e)  acc == PushWelford(o, s, e)
  IN CASE o.kind = "sqrt" -> Goes(s, SquareRoot(e.x))
       [] o.kind = "ln" -> Goes(s, Logarithm(e.x))
       [] o.kind = "stochastic" -> Goes(w, StochasticK(w, e))
       [] o.kind = "williams" -> Goes(w, WilliamsR(w, e))
       [] o.kind = "welford" -> Goes(acc, FiniteOrWarming(WelfordVariance(acc)))

Step(o, s, e) ==
  CASE o.kind \in WindowKinds -> WindowStep(o, s, e)
    [] o.kind \in IndicatorKinds -> IndicatorStep(o, s, e)
    [] o.kind \in {"sqrt", "ln", "stochastic", "williams", "welford"} -> OtherStep(o, s, e)
    [] o.kind \in {"ema", "rsi_wilder"} -> AverageStep(o, s, e)
    [] o.kind \in DetectorKinds -> DetectorStep(o, s, e)
    [] OTHER -> TrackerStep(o, s, e)

(* An evaluation: an absent input leaves the state alone; it goes out again, *)
(* or, from a detector, there is no event.  The set of the possible results: *)
(* a full prev_by map forgets any one of its keys.                           *)
Absent(x, y, z) == IF ~x.ok THEN x ELSE IF ~y.ok THEN y ELSE z
Evals(o, s, e, ok, absent) ==
  IF ~ok THEN {Goes(s, IF o.kind \in DetectorKinds THEN "None" ELSE absent)}
  ELSE IF o.kind = "prev_by_bounded"
  THEN {Goes(m, PrevBy(s, e.y)) : m \in UpdateBounded(s, e.y, e.x, o.size)}
  ELSE {Step(o, s, e)}

-----------------------------------------------------------------------------
Init ==
  /\ op \in Ops
  /\ st = Start(op)
  /\ fed = <<>>
  /\ out = IF op.kind \in DetectorKinds THEN "None" ELSE Err("WarmingUp")
  /\ accepted = FALSE

Now == IF fed = <<>> THEN 0 ELSE Last(fed).ts

Feed(dt, x, y, z) ==
  LET ok == x.ok /\ y.ok /\ z.ok
      e  == [ts |-> Now + dt, x |-> x.v, y |-> y.v, z |-> z.v]
  IN /\ Len(fed) < op.length
     /\ \E r \in Evals(op, st, e, ok, Absent(x, y, z)) : st' = r.st /\ out' = r.out
     /\ accepted' = ok
     /\ fed' = IF ok THEN Append(fed, e) ELSE fed
     /\ UNCHANGED op

Next == \E dt \in op.dts, x \in op.xs, y \in op.ys, z \in op.zs : Feed(dt, x, y, z)
Spec == Init /\ [][Next]_vars
=============================================================================
