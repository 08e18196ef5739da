----------------------------- MODULE Indicators -----------------------------
(* The technical indicators of tflo-fintech.  Most of them keep the whole    *)
(* series and compute the last value of the indicator from it at each        *)
(* sample; they return NaN, as a value, until the series is long enough.     *)
(* A sample has the close (or value) x, the high y, which is the volume for  *)
(* the indicators of volume, and the low z.  Series hold no NaN.             *)
EXTENDS Detectors

Latest(s) == IF s = <<>> THEN NaN ELSE Last(s)
Part(s, k, n) == SubSeq(s, k, k + n - 1)
Series(s, Of(_)) == [i \in DOMAIN s |-> Of(s[i])]

(* ema_series from its first value on: the mean of the first period values,  *)
(* then exponential smoothing.                                               *)
EmaSeries(s, period) ==
  IF period = 0 \/ Len(s) < period THEN <<>>
  ELSE LET a == Frac(2, period + 1)
           next(out, v) == Append(out, Add(Mul(a, v), Mul(Sub(Q(1), a), Last(out))))
       IN FoldLeft(next, <<Div(SumSeq(Part(s, 1, period)), Q(period))>>, SubSeq(s, period + 1, Len(s)))

TriangleWeight(period, i) == Q(IF 2 * i <= period + 1 THEN i ELSE period + 1 - i)
Trima(s, period) ==
  IF period = 0 \/ Len(s) < period THEN NaN
  ELSE LET w == Part(s, Len(s) - period + 1, period)
       IN Div(SumSeq([i \in DOMAIN w |-> Mul(w[i], TriangleWeight(period, i))]),
              SumSeq([i \in DOMAIN w |-> TriangleWeight(period, i)]))

(* The series smoothed k times; the averages of averages.                   *)
EmaTimes(s, period, k) == FoldLeft(LAMBDA e, i : EmaSeries(e, period), s, [i \in 1..k |-> i])
IfAny(e, value) == IF e = <<>> THEN NaN ELSE value
Percent(part, whole) == Mul(Div(part, whole), Q(100))
DoubleEma(e1, e2) == IfAny(e2, Sub(Mul(Q(2), Last(e1)), Last(e2)))
Dema(s, period) == DoubleEma(EmaTimes(s, period, 1), EmaTimes(s, period, 2))
TripleEma(e1, e2, e3) == IfAny(e3, Add(Mul(Q(3), Sub(Last(e1), Last(e2))), Last(e3)))
Tema(s, period) == TripleEma(EmaTimes(s, period, 1), EmaTimes(s, period, 2), EmaTimes(s, period, 3))
PercentOver(f, l) ==
  IF f = <<>> \/ l = <<>> THEN NaN
  ELSE IF Last(l) = Zero THEN Zero ELSE Percent(Sub(Last(f), Last(l)), Last(l))
Ppo(s, fast, slow) == PercentOver(EmaSeries(s, fast), EmaSeries(s, slow))
LastChange(e) ==
  IF Len(e) < 2 \/ e[Len(e) - 1] = Zero THEN NaN
  ELSE Percent(Sub(Last(e), e[Len(e) - 1]), e[Len(e) - 1])
Trix(s, period) == LastChange(EmaTimes(s, period, 3))

(* macd_last.  The line starts with the slow average, so a fast period that  *)
(* is not the shorter one leaves a hole at its start, and there is no value. *)
Spread(f, l, lead) == [i \in DOMAIN l |-> Sub(f[i + lead], l[i])]
MacdLine(s, fast, slow) ==
  IF fast = 0 \/ fast > slow THEN <<>> ELSE Spread(EmaSeries(s, fast), EmaSeries(s, slow), slow - fast)
MacdOf(line, sig, output) ==
  IF sig = <<>> THEN NaN
  ELSE CASE output = "line" -> Last(line) [] output = "signal" -> Last(sig)
         [] output = "histogram" -> Sub(Last(line), Last(sig))
MacdOut(line, signal, output) == MacdOf(line, EmaSeries(line, signal), output)
Macd(s, fast, slow, signal, output) == MacdOut(MacdLine(s, fast, slow), signal, output)

(* rsi_series: Wilder's averages of the gains and losses, from the first.    *)
SmoothBoth(op, n, avg, v) ==
  [up   |-> Smooth(op, n, avg.up, Gain(v)),
   down |-> Smooth(op, n, avg.down, Gain(Neg(v)))]
WilderSeries(op, d) ==
  LET seed == FoldLeft(LAMBDA avg, v : SmoothBoth(op, 0, avg, v), [up |-> Zero, down |-> Zero], Part(d, 1, op.size))
  IN FoldLeft(LAMBDA out, v : Append(out, SmoothBoth(op, op.size + 1, Last(out), v)),
              <<seed>>, SubSeq(d, op.size + 1, Len(d)))
RsiSeries(s, period) ==
  IF period = 0 \/ Len(s) <= period THEN <<>>
  ELSE Series(WilderSeries([size |-> period], [i \in 1..Len(s) - 1 |-> Sub(s[i + 1], s[i])]),
              LAMBDA avg : RsiOf(avg.up, avg.down))
InRange(v, lo, hi) == IF hi = lo THEN Zero ELSE Percent(Sub(v, lo), Sub(hi, lo))
KOf(w) == InRange(Last(w), FoldLeft(FMin, Infinity, w), FoldLeft(FMax, NegInfinity, w))
FastK(r, fastk) == [i \in 1..Len(r) - fastk + 1 |-> KOf(Part(r, i, fastk))]
StochOf(k, fastd, output) ==
  IF output = "k" THEN Latest(k)
  ELSE IF Len(k) < fastd THEN NaN ELSE Div(SumSeq(Part(k, Len(k) - fastd + 1, fastd)), Q(fastd))
StochRsi(s, period, fastk, fastd, output) == StochOf(FastK(RsiSeries(s, period), fastk), fastd, output)

(* kama_last: smoothing by the efficiency of the last period changes.        *)
Kama(s, period) ==
  LET change(i) == Abs(Sub(s[i], s[i - period]))
      path(i)   == SumSeq([j \in 1..period |-> Abs(Sub(s[i - j + 1], s[i - j]))])
      ratio(i)  == IF path(i) = Zero THEN Zero ELSE Div(change(i), path(i))
      rate(i)   == Pow(Add(Mul(ratio(i), Sub(Frac(2, 3), Frac(2, 31))), Frac(2, 31)), 2)
  IN IF Len(s) <= period \/ period = 0 THEN NaN
     ELSE FoldLeft(LAMBDA k, i : Add(k, Mul(rate(i), Sub(s[i], k))), s[period],
                   [j \in 1..Len(s) - period |-> j + period])

-----------------------------------------------------------------------------
(* Bars: true range and directional movement.                                *)
WrongTrueRangeIgnoresGap(bar, prevClose) == Sub(bar.y, bar.z)
TrueRange(bar, prevClose) ==
  FMax(FMax(Sub(bar.y, bar.z), Abs(Sub(bar.y, prevClose))), Abs(Sub(bar.z, prevClose)))
Move(bar, prev) ==
  LET up == Sub(bar.y, prev.y)  down == Sub(prev.z, bar.z)
  IN [plus  |-> IF Less(Zero, up) /\ Less(down, up) THEN up ELSE Zero,
      minus |-> IF Less(Zero, down) /\ Less(up, down) THEN down ELSE Zero,
      tr    |-> TrueRange(bar, prev.x)]
Moves(bars) == [i \in 1..Len(bars) - 1 |-> Move(bars[i + 1], bars[i])]

(* Wilder's sums of the moves: the first period - 1 are added up, then each  *)
(* new one replaces a share of the sum.                                      *)
Keep(period, sum) == Sub(sum, Div(sum, Q(period)))
FieldWise(a, b, F(_, _)) == [f \in DOMAIN a |-> F(a[f], b[f])]
Directional(m, period) ==
  FoldLeft(LAMBDA out, v : Append(out, FieldWise(Last(out), v, LAMBDA sum, new : Add(Keep(period, sum), new))),
           <<FoldLeft(LAMBDA sum, v : FieldWise(sum, v, Add), [plus |-> Zero, minus |-> Zero, tr |-> Zero],
                      Part(m, 1, period - 1))>>,
           SubSeq(m, period, Len(m)))

\* A bar without range keeps the indicator of the bar before.
DirectionalIndex(bars, period, part) ==
  IF period < 1 \/ Len(bars) <= period THEN NaN
  ELSE FoldLeft(LAMBDA di, sum : IF sum.tr = Zero THEN di ELSE Percent(sum[part], sum.tr),
                Zero, Tail(Directional(Moves(bars), period)))

Dx(sum) ==
  IF sum.tr = Zero \/ Add(sum.plus, sum.minus) = Zero THEN <<>>
  ELSE <<Percent(Abs(Sub(sum.minus, sum.plus)), Add(sum.minus, sum.plus))>>
AdxOf(sums, period) ==
  FoldLeft(LAMBDA adx, dx : Div(Add(Mul(adx, Q(period - 1)), dx), Q(period)),
           Div(SumSeq(FlattenSeq(Series(Part(sums, 1, period), Dx))), Q(period)),
           FlattenSeq(Series(SubSeq(sums, period + 1, Len(sums)), Dx)))
Adx(bars, period) ==
  IF period < 2 \/ Len(bars) < 2 * period THEN NaN
  ELSE AdxOf(Tail(Directional(Moves(bars), period)), period)

(* AtrNode, whose average does stay in the state.                            *)
EmptyAtr == [bars |-> <<>>, atr |-> <<>>]
Atr(op, s, e) ==
  LET bars == Append(s.bars, e)
      n    == Len(bars)
      seed == Div(SumSeq([i \in 1..op.size |-> TrueRange(bars[i + 1], bars[i].x)]), Q(op.size))
      next == Div(Add(Mul(s.atr[1], Q(op.size - 1)), TrueRange(e, bars[n - 1].x)), Q(op.size))
      atr  == IF n < op.size + 1 THEN <<>> ELSE IF s.atr = <<>> THEN <<seed>> ELSE <<next>>
  IN Goes([bars |-> bars, atr |-> atr], SomeOrWarming(atr # <<>>, Latest(atr)))

-----------------------------------------------------------------------------
(* The indicators with a state of their own.                                 *)
EmptyObv == [prev |-> <<>>, obv |-> Zero]
Obv(s, e) ==
  LET obv == IF s.prev = <<>> THEN e.y
             ELSE IF Less(s.prev[1], e.x) THEN Add(s.obv, e.y)
             ELSE IF Less(e.x, s.prev[1]) THEN Sub(s.obv, e.y) ELSE s.obv
  IN Goes([prev |-> <<e.x>>, obv |-> obv], Ok(obv))

(* Money flow: the last period positive and negative flows and their sums.   *)
EmptyMfi == [prev |-> <<>>, flows |-> <<>>, up |-> Zero, down |-> Zero]
Mfi(op, s, e) ==
  LET raw   == Mul(e.x, e.y)
      up    == IF Less(s.prev[1], e.x) THEN raw ELSE Zero
      down  == IF Less(e.x, s.prev[1]) THEN raw ELSE Zero
      all   == Append(s.flows, <<up, down>>)
      old   == IF Len(all) > op.size THEN Head(all) ELSE <<Zero, Zero>>
      st    == [prev |-> <<e.x>>, flows |-> IF Len(all) > op.size THEN Tail(all) ELSE all,
                up |-> Sub(Add(s.up, up), old[1]), down |-> Sub(Add(s.down, down), old[2])]
  IN IF op.size = 0 THEN Goes(s, Ok(NaN))
     ELSE IF s.prev = <<>> THEN Goes([s EXCEPT !.prev = <<e.x>>], Ok(NaN))
     ELSE Goes(st, Ok(IF Len(st.flows) < op.size THEN NaN ELSE RsiOf(st.up, st.down)))

LastN(op, s, v) == LET all == Append(s, v) IN IF Len(all) > op.size THEN Tail(all) ELSE all
Cci(op, s, e) ==
  LET w    == LastN(op, s, e.x)
      mean == Div(SumSeq(w), Q(op.size))
      dev  == Div(SumSeq(Series(w, LAMBDA v : Abs(Sub(v, mean)))), Q(op.size))
  IN Goes(w, Ok(IF Len(w) < op.size THEN NaN
                ELSE IF dev = Zero THEN Zero ELSE Div(Sub(e.x, mean), Mul(Frac(3, 200), dev))))
\* The slope of the line through the last period values, one unit apart.
SlopeN(op, s, e) ==
  LET w     == LastN(op, s, e.x)
      n     == op.size
      sumX  == (n * (n - 1)) \div 2
      sumX2 == (n * (n - 1) * (2 * n - 1)) \div 6
      sumXY == SumSeq([i \in DOMAIN w |-> Mul(Q(i - 1), w[i])])
      denom == n * sumX2 - sumX * sumX
  IN IF n = 0 THEN Goes(s, Ok(NaN))
     ELSE Goes(w, Ok(IF Len(w) < n \/ denom = 0 THEN NaN
                     ELSE Div(Sub(Mul(Q(n), sumXY), Mul(Q(sumX), SumSeq(w))), Q(denom))))
Cmo(op, s, e) ==
  LET w     == WilderRsi(op, s, e)
      total == Add(w.gain, w.loss)
  IN Goes(w, Ok(IF op.size = 0 \/ w.n < op.size THEN NaN
                ELSE IF total = Zero THEN Zero ELSE Div(Mul(Q(100), Sub(w.gain, w.loss)), total)))

(* Compositions of window, cumulative and prev nodes.  The value's own       *)
(* window, or those of the highs and the lows.                               *)
StochasticK(w, e) == Map2(Div, Ok(Mul(Q(100), Sub(e.x, MinOf(w)))), Ok(Sub(MaxOf(w), MinOf(w))))
WilliamsR(w, e) == Map2(Div, Ok(Mul(Q(-100), Sub(MaxOf(w), e.x))), Ok(Sub(MaxOf(w), MinOf(w))))
Vwap(s, e) ==
  LET st == [price |-> Add(s.price, Mul(e.x, e.y)), volume |-> Add(s.volume, e.y)]
  IN Goes(st, Ok(Div(st.price, st.volume)))
=============================================================================
