------------------------------ MODULE Windows -------------------------------
(* The sliding windows of tflo-ops: what one push does to the state of a     *)
(* window operator, and what its statistic reads from that state.            *)
(*                                                                           *)
(* An operator is a record [kind, form, size]: form is "time" (entries not   *)
(* older than size) or "count" (the last size entries).  The sums a window   *)
(* keeps are updated with each push and eviction and never recomputed, as in *)
(* the code; the model keeps all of them in one tuple, of which a statistic  *)
(* reads those its own window type has.  A statistic whose code takes a      *)
(* square root (std, skewness, correlation) is given as its signed square.   *)
EXTENDS Computed

(* What an entry adds to the running sums: x, y, x^2, y^2 and xy (a pair     *)
(* window; a plain one keeps the first and the third), x^3 and x^4.          *)
PairTerms(e) == <<e.x, e.y, Mul(e.x, e.x), Mul(e.y, e.y), Mul(e.x, e.y)>>
MomentTerms(e) == <<Pow(e.x, 3), Pow(e.x, 4)>>
Terms(e) == PairTerms(e) \o MomentTerms(e)
TotalTerms(s) == [i \in 1..7 |-> SumSeq([j \in DOMAIN s |-> Terms(s[j])[i]])]

EmptyWindow == [buf |-> <<>>, sums |-> [i \in 1..7 |-> Zero], sorted |-> <<>>, prev |-> <<>>]

(* MedianCountWindow's second copy of the window, kept in total order.       *)
InsertSorted(s, v) ==
  InsertAt(s, 1 + Len(SelectSeq(s, LAMBDA u : TotalBefore(u, v))), v)
InOrder(s) == FoldLeft(InsertSorted, <<>>, s)

(* How many entries leave when all, with the new entry last, is the content: *)
(* a time window drops from the front while the front is older than the      *)
(* cutoff, a count window drops the front when it was full (and not empty).  *)
WrongTimeEvictedStrict(op, all) == SelectInSeq(all, LAMBDA e : e.ts > Last(all).ts - op.size) - 1
TimeEvicted(op, all) == SelectInSeq(all, LAMBDA e : e.ts >= Last(all).ts - op.size) - 1
CountEvicted(op, all) == IF Len(all) > 1 /\ Len(all) > op.size THEN 1 ELSE 0
Evicted(op, all) == IF op.form = "time" THEN TimeEvicted(op, all) ELSE CountEvicted(op, all)

Push(op, w, e) ==
  LET all  == Append(w.buf, e)
      k    == Evicted(op, all)
      gone == SubSeq(all, 1, k)
      rest == FoldLeft(LAMBDA s, g : RemoveFirst(s, g.x), w.sorted, gone)
      out  == TotalTerms(gone)
      in   == Terms(e)
  IN [w EXCEPT !.buf = SubSeq(all, k + 1, Len(all)),
               !.sums = [i \in 1..7 |-> Sub(Add(w.sums[i], in[i]), out[i])],
               !.sorted = IF op.form = "count" THEN InsertSorted(rest, e.x) ELSE <<>>]

(* The RSI windows hold the gain and the loss of each change of the value.   *)
Gain(change) == IF Less(Zero, change) THEN change ELSE Zero
Loss(change) == IF Less(Zero, change) THEN Zero ELSE Neg(change)
PushRsi(op, w, e) ==
  LET change == Sub(e.x, w.prev[1])
      moved  == IF w.prev = <<>> THEN w
                ELSE Push(op, w, [ts |-> e.ts, x |-> Gain(change), y |-> Loss(change)])
  IN [moved EXCEPT !.prev = <<e.x>>]

-----------------------------------------------------------------------------
(* The statistics.                                                           *)
N(w) == Q(Len(w.buf))
Avg(w, i) == Div(w.sums[i], N(w))
\* f64::max(NaN, 0.0) is 0.0: the clamp also hides a sum that has become NaN.
Variance(w) == IF Len(w.buf) < 2 THEN NaN ELSE FMax(Sub(Avg(w, 3), Pow(Avg(w, 1), 2)), Zero)
MaxOf(w) == FoldLeft(LAMBDA m, e : FMax(m, e.x), NegInfinity, w.buf)
MinOf(w) == FoldLeft(LAMBDA m, e : FMin(m, e.x), Infinity, w.buf)

Skewness(w) ==
  LET mean == Avg(w, 1)
      var  == Sub(Avg(w, 3), Pow(mean, 2))
      m3   == Add(Sub(Avg(w, 6), Mul(Mul(Q(3), mean), Avg(w, 3))), Mul(Q(2), Pow(mean, 3)))
  IN IF Len(w.buf) < 3 \/ AtMost(var, Zero) THEN NaN
     ELSE Mul(Div(m3, var), Div(Abs(m3), Pow(var, 2)))

Kurtosis(w) ==
  LET mean == Avg(w, 1)
      var  == Sub(Avg(w, 3), Pow(mean, 2))
      m4   == Sub(Add(Sub(Avg(w, 7), Mul(Mul(Q(4), mean), Avg(w, 6))),
                      Mul(Mul(Q(6), Pow(mean, 2)), Avg(w, 3))),
                  Mul(Q(3), Pow(mean, 4)))
  IN IF Len(w.buf) < 4 \/ AtMost(var, Zero) THEN NaN ELSE Sub(Div(m4, Pow(var, 2)), Q(3))

Covariance(w) ==
  IF Len(w.buf) < 2 THEN NaN ELSE Sub(Avg(w, 5), Mul(Avg(w, 1), Avg(w, 2)))
Correlation(w) ==
  LET varX == Sub(Avg(w, 3), Pow(Avg(w, 1), 2))
      varY == Sub(Avg(w, 4), Pow(Avg(w, 2), 2))
  IN IF Len(w.buf) < 2 \/ AtMost(varX, Zero) \/ AtMost(varY, Zero) THEN NaN
     ELSE Mul(Div(Covariance(w), varX), Div(Abs(Covariance(w)), varY))

\* Linear interpolation between the two order statistics next to q * (n - 1).
Quantile(sorted, q) ==
  LET pos   == Mul(q, Q(Len(sorted) - 1))
      lower == pos[1] \div pos[2]
      frac  == Sub(pos, Q(lower))
  IN IF sorted = <<>> THEN NaN
     ELSE IF frac = Zero THEN sorted[lower + 1]
     ELSE Add(Mul(sorted[lower + 1], Sub(Q(1), frac)), Mul(sorted[lower + 2], frac))
Sorted(op, w) == IF op.form = "count" THEN w.sorted ELSE InOrder([i \in DOMAIN w.buf |-> w.buf[i].x])
Rank(w) ==
  LET below == SelectSeq(w.buf, LAMBDA e : Less(e.x, Last(w.buf).x))
  IN Frac(Len(below), IF Len(w.buf) > 1 THEN Len(w.buf) - 1 ELSE 1)

\* Weights 1..n by position, or the relative time since the oldest entry plus a thousandth.
WeightOf(op, w, i) ==
  LET oldest == w.buf[1].ts
      span   == Last(w.buf).ts - oldest
  IN IF op.form = "count" THEN Q(i)
     ELSE IF span <= 0 THEN Q(1)
     ELSE Add(Frac(w.buf[i].ts - oldest, span), Frac(1, 1000))
Wma(op, w) ==
  Div(SumSeq([i \in DOMAIN w.buf |-> Mul(WeightOf(op, w, i), w.buf[i].x)]),
      SumSeq([i \in DOMAIN w.buf |-> WeightOf(op, w, i)]))

RsiOf(gain, loss) ==
  IF loss = Zero THEN IF gain = Zero THEN Q(50) ELSE Q(100)
  ELSE Sub(Q(100), Div(Q(100), Add(Q(1), Div(gain, loss))))
Rsi(w) == IF w.buf = <<>> THEN NaN ELSE RsiOf(Avg(w, 1), Avg(w, 2))

-----------------------------------------------------------------------------
(* The averages without a buffer: CountEma, TimeEma and RsiWilder.           *)
EmptyEma == [n |-> 0, seed |-> Zero, value |-> Zero, ts |-> 0]

CountEma(op, s, e) ==
  LET seed == Add(s.seed, e.x)
      a    == Frac(2, op.size + 1)
  IN CASE s.n + 1 < op.size -> [s EXCEPT !.n = @ + 1, !.seed = seed]
       [] s.n + 1 >= op.size /\ (s.n = 0 \/ s.n < op.size) ->
            [s EXCEPT !.n = @ + 1, !.seed = seed, !.value = Div(seed, Q(op.size))]
       [] OTHER -> [s EXCEPT !.n = @ + 1, !.value = Add(Mul(a, e.x), Mul(Sub(Q(1), a), @))]

(* e^(-dt / halflife), by 2^(-dt / size): what matters here is that it is 1  *)
(* at 0, decreases, and turns sums into products.                            *)
Decay(op, dt) == Div(Q(1), Pow(Q(2), dt \div op.size))
TimeEma(op, s, e) ==
  LET d == Decay(op, e.ts - s.ts)
  IN [s EXCEPT !.n = 1, !.ts = e.ts,
               !.value = IF s.n = 0 THEN e.x
                         ELSE IF e.ts > s.ts THEN Add(Mul(Sub(Q(1), d), e.x), Mul(d, @)) ELSE @]
EmaValue(op, s) == IF s.n = 0 \/ (op.form = "count" /\ s.n < op.size) THEN NaN ELSE s.value

EmptyWilder == [prev |-> <<>>, n |-> 0, gain |-> Zero, loss |-> Zero]
\* The two averages: the plain mean of the first size changes, then Wilder's smoothing.
Smooth(op, n, avg, v) ==
  IF n <= op.size THEN Add(avg, Div(v, Q(op.size)))
  ELSE Div(Add(Mul(avg, Q(op.size - 1)), v), Q(op.size))
WilderRsi(op, s, e) ==
  LET change == Sub(e.x, s.prev[1])
  IN CASE op.size = 0 -> s
       [] op.size > 0 /\ s.prev = <<>> -> [s EXCEPT !.prev = <<e.x>>]
       [] OTHER -> [prev |-> <<e.x>>, n |-> s.n + 1,
                    gain |-> Smooth(op, s.n + 1, s.gain, IF Less(Zero, change) THEN change ELSE Zero),
                    loss |-> Smooth(op, s.n + 1, s.loss, IF Less(change, Zero) THEN Neg(change) ELSE Zero)]
WilderValue(op, s) == IF op.size = 0 \/ s.n < op.size THEN NaN ELSE RsiOf(s.gain, s.loss)
=============================================================================
