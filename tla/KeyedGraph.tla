----------------------------- MODULE KeyedGraph -----------------------------
(***************************************************************************)
(* The execution of a computation graph for one key: KeyedGraphState of    *)
(* tflo-core/src/keyed.rs, with its timer service (timer.rs), the firing   *)
(* of due timers (compile/eval/mod.rs) and the three operators that use    *)
(* timers: session_sum and tumbling_sum (tflo-ops ops/session_tumbling.rs) *)
(* and pulse_width (ops/detectors/pulse_width.rs).                         *)
(*                                                                         *)
(* Records are identified by the number of their arrival. A record carries *)
(* a high, a low or an absent input; a sum is the set of records in it.    *)
(* The timer heap is the set of the timers that are not tombstoned.        *)
(***************************************************************************)
EXTENDS EventTime, SequencesExt, HeapOrder

CONSTANTS
  Setups,       \* what to run, [graph, policy, max_lateness]
  MAX_LATENESS_MS,
  Gap, BucketSize, MinWidth, MaxWidth,
  Values,       \* the inputs a record may carry, of High, Low and Absent
  Timestamps, Watermarks,
  MaxArrivals   \* bound of the model: step is called at most so often

High == "high"
Low == "low"
Absent == "absent"

ASSUME KeyedAssumption ==
  /\ Setups \subseteq [graph : Seq({"session", "tumbling", "pulse"}),
                       policy : {"Error", "Drop", "Buffer"}, max_lateness : Time]
  /\ MAX_LATENESS_MS \in Time
  /\ Gap \in Nat /\ BucketSize \in Nat \ {0} /\ MinWidth \in Nat /\ MaxWidth \in Nat
  /\ {Gap, BucketSize, MinWidth, MaxWidth} \subseteq Time
  /\ MinWidth <= MaxWidth
  /\ Values \subseteq {High, Low, Absent}
  /\ Timestamps \subseteq Time /\ Watermarks \subseteq Time
  /\ MaxArrivals \in Nat

\* What a node has for its output when it has one: a sum, or a verdict.
SumOutput == [sum : SUBSET (1 .. MaxArrivals)]
VerdictOutput == [verdict : {"TooShort", "Valid", "TooLong"}, width : Time]

ASSUME OutputAssumption == None \notin SumOutput \cup VerdictOutput

VARIABLES
  graph,      \* the operator of each node; chosen once
  policy, max_lateness, \* the OutOfOrderPolicy; chosen once
  last_ts, pending, pending_seq, max_ts_seen, late_records,
  ops,        \* per node: [open, acc, start, due]
  timers,     \* the live timers [ts, seq, node]
  next_seq,   \* the timer service's sequence counter
  store,      \* the latest output of each node
  emitted,    \* history: the items returned so far, [ts, value]
  processed,  \* history: the records run through the graph, in that order
  arrivals,   \* history: the number of calls of step
  refused,    \* history: the records dropped as late or refused with an error
  flushed     \* history: flush has been called

bufferVars == <<last_ts, pending, pending_seq, max_ts_seen>>
graphVars == <<ops, timers, next_seq, store, emitted>>
setupVars == <<graph, policy, max_lateness>>
vars == <<setupVars, bufferVars, late_records, graphVars, processed, arrivals, refused, flushed>>

Node == DOMAIN graph

\* A node between windows (or pulses): open tells that one is running, due is
\* pending_timer_fire_ts, start is pulse_start_ts and acc the sum.
Idle == [open |-> FALSE, acc |-> {}, start |-> None, due |-> None]

Init ==
  /\ \E s \in Setups : graph = s.graph /\ policy = s.policy /\ max_lateness = s.max_lateness
  /\ last_ts = None /\ max_ts_seen = None
  /\ pending = {} /\ pending_seq = 0
  /\ late_records = <<>>
  /\ ops = [n \in Node |-> Idle]
  /\ timers = {} /\ next_seq = 0
  /\ store = [n \in Node |-> None]
  /\ emitted = <<>> /\ processed = <<>> /\ arrivals = 0 /\ refused = {}
  /\ flushed = FALSE

-----------------------------------------------------------------------------
(* The graph: pure functions on g = [ops, timers, next_seq, store, out]. *)

G == [ops |-> ops, timers |-> timers, next_seq |-> next_seq, store |-> store, out |-> emitted]

Becomes(g) ==
  /\ ops' = g.ops /\ timers' = g.timers /\ next_seq' = g.next_seq
  /\ store' = g.store /\ emitted' = g.out

WrongRegister(g, node, ts) ==
  [g EXCEPT !.timers = @ \cup {[ts |-> ts, seq |-> g.next_seq, node |-> node]}]

\* TimerService::register and delete. The operators below hold one live timer
\* each, so delete never has to choose.
Register(g, node, ts) ==
  [g EXCEPT !.timers = @ \cup {[ts |-> ts, seq |-> g.next_seq, node |-> node]},
            !.next_seq = @ + 1]

WrongDelete(g, node, ts) == g

Delete(g, node, ts) ==
  LET live == {t \in g.timers : t.node = node /\ t.ts = ts}
  IN  [g EXCEPT !.timers = IF live = {} THEN @ ELSE @ \ {CHOOSE t \in live : TRUE}]

\* One output item: the stored outputs of all nodes at time ts.
EmitAt(g, ts) == [g EXCEPT !.out = Append(@, [ts |-> ts, value |-> g.store])]

WrongEvalSession(g, node, r) ==
  LET op     == g.ops[node]
      fireTs == SatAdd(r.ts, Gap)
      freed  == IF op.due = None THEN g ELSE Delete(g, node, op.due)
  IN  [Register(freed, node, fireTs) EXCEPT
         !.ops[node] = [op EXCEPT !.open = TRUE, !.due = IF op.open THEN @ ELSE fireTs,
                                  !.acc = (IF op.open THEN @ ELSE {}) \cup {r.rec}],
         !.store[node] = None]

EvalSession(g, node, r) ==
  LET op     == g.ops[node]
      fireTs == SatAdd(r.ts, Gap)
      freed  == IF op.due = None THEN g ELSE Delete(g, node, op.due)
  IN  [Register(freed, node, fireTs) EXCEPT
         !.ops[node] = [op EXCEPT !.open = TRUE, !.due = fireTs,
                                  !.acc = (IF op.open THEN @ ELSE {}) \cup {r.rec}],
         !.store[node] = None]

\* i64 division truncates toward zero.
DivTrunc(a, b) == IF a >= 0 THEN a \div b ELSE -((-a) \div b)

WrongNextBucketEdge(ts) ==
  Clamp(DivTrunc(SatAdd(ts, BucketSize - 1), BucketSize) * BucketSize, TimeMin, TimeMax)

NextBucketEdge(ts) ==
  Clamp(SatAdd(DivTrunc(ts, BucketSize), 1) * BucketSize, TimeMin, TimeMax)

EvalTumbling(g, node, r) ==
  LET op   == [g.ops[node] EXCEPT !.acc = @ \cup {r.rec}]
      edge == NextBucketEdge(r.ts)
  IN  IF op.open THEN [g EXCEPT !.ops[node] = op, !.store[node] = None]
      ELSE [Register(g, node, edge) EXCEPT
              !.ops[node] = [op EXCEPT !.open = TRUE, !.due = edge],
              !.store[node] = None]

Classify(width) ==
  IF width < MinWidth THEN "TooShort" ELSE IF width > MaxWidth THEN "TooLong" ELSE "Valid"

WrongEvalPulse(g, node, r) ==
  LET op     == g.ops[node]
      fireTs == SatAdd(r.ts, MaxWidth)
      width  == SatSub(r.ts, op.start)
  IN  CASE ~op.open /\ r.val = High ->
             [Register(g, node, fireTs) EXCEPT
                !.ops[node] = [op EXCEPT !.open = TRUE, !.start = r.ts, !.due = fireTs],
                !.store[node] = None]
        [] op.open /\ r.val = Low ->
             [Delete(g, node, op.due) EXCEPT
                !.ops[node] = Idle, !.store[node] = [verdict |-> Classify(width), width |-> width]]
        [] OTHER -> [g EXCEPT !.store[node] = None]

EvalPulse(g, node, r) ==
  LET op     == g.ops[node]
      fireTs == SatAdd(SatAdd(r.ts, MaxWidth), 1)
      width  == SatSub(r.ts, op.start)
  IN  CASE ~op.open /\ r.val = High ->
             [Register(g, node, fireTs) EXCEPT
                !.ops[node] = [op EXCEPT !.open = TRUE, !.start = r.ts, !.due = fireTs],
                !.store[node] = None]
        [] op.open /\ r.val = Low ->
             [Delete(g, node, op.due) EXCEPT
                !.ops[node] = Idle, !.store[node] = [verdict |-> Classify(width), width |-> width]]
        [] OTHER -> [g EXCEPT !.store[node] = None]

\* eval_with_ctx of a node. An absent input touches neither state nor timers.
EvalNode(g, node, r) ==
  CASE r.val = Absent -> [g EXCEPT !.store[node] = None]
    [] r.val # Absent /\ graph[node] = "session" -> EvalSession(g, node, r)
    [] r.val # Absent /\ graph[node] = "tumbling" -> EvalTumbling(g, node, r)
    [] r.val # Absent /\ graph[node] = "pulse" -> EvalPulse(g, node, r)

\* step_with_context_and_timers.
StepGraph(g, r) ==
  EmitAt(FoldLeft(LAMBDA h, node : EvalNode(h, node, r), g, [n \in Node |-> n]), r.ts)

WrongOnTimer(g, t) ==
  LET op     == g.ops[t.node]
      live   == op.open /\ op.due = t.ts
      output == IF graph[t.node] = "pulse" THEN [verdict |-> "TooLong", width |-> MaxWidth]
                ELSE [sum |-> op.acc]
  IN  EmitAt([g EXCEPT !.ops[t.node] = IF live THEN [Idle EXCEPT !.acc = op.acc] ELSE @,
                       !.store[t.node] = IF live THEN output ELSE None], t.ts)

\* on_timer ignores a fire that is not the one the node waits for; otherwise the
\* window closes. Every fire makes an item of the outputs stored for all nodes.
OnTimer(g, t) ==
  LET op     == g.ops[t.node]
      live   == op.open /\ op.due = t.ts
      output == IF graph[t.node] = "pulse" THEN [verdict |-> "TooLong", width |-> MaxWidth]
                ELSE [sum |-> op.acc]
  IN  EmitAt([g EXCEPT !.ops[t.node] = IF live THEN Idle ELSE @,
                       !.store[t.node] = IF live THEN output ELSE None], t.ts)

\* fire_due_timers: all due timers are popped, then each is fired.
FireDueTimers(g, watermark) ==
  LET due == {t \in g.timers : t.ts <= watermark}
  IN  FoldLeft(OnTimer, [g EXCEPT !.timers = @ \ due], PopOrder(due))

WrongRunOne(g, r) == FireDueTimers(StepGraph(g, r), r.ts)

RunOne(g, r) == StepGraph(FireDueTimers(g, r.ts), r)

\* End of stream: every timer left is registered again and fired by itself.
FireAll(g) ==
  LET left == PopOrder(g.timers)
  IN  FoldLeft(OnTimer, [g EXCEPT !.timers = {}, !.next_seq = @ + Len(left)], left)

-----------------------------------------------------------------------------
(* KeyedGraphState *)

Behind(ts) == last_ts # None /\ ts < last_ts

BadLateness == policy = "Buffer" /\ max_lateness \notin 0 .. MAX_LATENESS_MS

Arrive(r) ==
  /\ ~flushed
  /\ arrivals < MaxArrivals
  /\ r.rec = arrivals + 1
  /\ arrivals' = arrivals + 1
  /\ UNCHANGED <<setupVars, flushed>>

\* The records of rs run through the graph one after the other.
RunAll(rs) ==
  /\ Becomes(FoldLeft(RunOne, G, rs))
  /\ processed' = processed \o rs

RecordOf(e) == [ts |-> e.ts, val |-> e.val, rec |-> e.rec]

\* drain_until on a heap that holds S, and the frontier it leaves.
DrainUntil(S, watermark) ==
  LET out == PopOrder({e \in S : e.ts <= watermark})
  IN  /\ pending' = {e \in S : e.ts > watermark}
      /\ last_ts' = IF out = <<>> THEN last_ts ELSE out[Len(out)].ts
      /\ RunAll([i \in DOMAIN out |-> RecordOf(out[i])])

\* step returns an error and changes nothing.
StepRefused(r) ==
  /\ Arrive(r)
  /\ BadLateness \/ (policy = "Error" /\ Behind(r.ts))
  /\ refused' = refused \cup {r}
  /\ UNCHANGED <<bufferVars, late_records, graphVars, processed>>

\* step of a late record under Drop and Buffer.
StepLate(r) ==
  /\ Arrive(r)
  /\ policy # "Error" /\ ~BadLateness /\ Behind(r.ts)
  /\ late_records' = Append(late_records, r)
  /\ refused' = refused \cup {r}
  /\ UNCHANGED <<bufferVars, graphVars, processed>>

\* step of a timely record under Error and Drop.
StepThrough(r) ==
  /\ Arrive(r)
  /\ policy # "Buffer" /\ ~Behind(r.ts)
  /\ last_ts' = r.ts
  /\ RunAll(<<r>>)
  /\ UNCHANGED <<pending, pending_seq, max_ts_seen, late_records, refused>>

WrongStepBufferedLosesSeq(r) ==
  /\ Arrive(r)
  /\ policy = "Buffer" /\ ~BadLateness /\ ~Behind(r.ts)
  /\ UNCHANGED pending_seq
  /\ max_ts_seen' = MaxOr(max_ts_seen, r.ts)
  /\ DrainUntil(pending \cup {[ts |-> r.ts, seq |-> -r.rec, val |-> r.val, rec |-> r.rec]},
                SatSub(MaxOr(max_ts_seen, r.ts), max_lateness))
  /\ UNCHANGED <<late_records, refused>>

\* step of a timely record under Buffer.
StepBuffered(r) ==
  /\ Arrive(r)
  /\ policy = "Buffer" /\ ~BadLateness /\ ~Behind(r.ts)
  /\ pending_seq' = pending_seq + 1
  /\ max_ts_seen' = MaxOr(max_ts_seen, r.ts)
  /\ DrainUntil(pending \cup {[ts |-> r.ts, seq |-> pending_seq, val |-> r.val, rec |-> r.rec]},
                SatSub(MaxOr(max_ts_seen, r.ts), max_lateness))
  /\ UNCHANGED <<late_records, refused>>

Step(r) == StepRefused(r) \/ StepLate(r) \/ StepThrough(r) \/ StepBuffered(r)

\* advance_event_time_watermark: fires timers, and leaves the buffered records.
\* A watermark behind the frontier is refused with an error, without effect.
AdvanceEventTimeWatermark(ts) ==
  /\ ~Behind(ts)
  /\ last_ts' = ts
  /\ max_ts_seen' = MaxOr(max_ts_seen, ts)
  /\ Becomes(FireDueTimers(G, ts))
  /\ UNCHANGED <<setupVars, pending, pending_seq, late_records, processed, arrivals, refused, flushed>>

\* flush: the buffered records, then the timers that are left.
Flush ==
  /\ ~flushed
  /\ flushed' = TRUE
  /\ pending' = {}
  /\ LET out     == PopOrder(pending)
         rs      == [i \in DOMAIN out |-> RecordOf(out[i])]
         drained == FoldLeft(RunOne, G, rs)
         final   == FireAll(drained)
         fired   == [i \in 1 .. Len(final.out) - Len(drained.out) |->
                       final.out[Len(drained.out) + i].ts]
     IN  /\ Becomes(final)
         /\ processed' = processed \o rs
         /\ last_ts' = FoldLeft(MaxOr, IF out = <<>> THEN last_ts ELSE Last(out).ts, fired)
  /\ UNCHANGED <<setupVars, pending_seq, max_ts_seen, late_records, arrivals, refused>>

TakeLateRecords ==
  /\ late_records' = <<>>
  /\ UNCHANGED <<setupVars, bufferVars, graphVars, processed, arrivals, refused, flushed>>

\* The sums do not tell a high input from a low one.
Inputs == IF \E n \in Node : graph[n] = "pulse" THEN Values ELSE Values \ {Low}

Next ==
  \/ \E ts \in Timestamps, val \in Inputs :
       Step([ts |-> ts, val |-> val, rec |-> arrivals + 1])
  \/ \E ts \in Watermarks : AdvanceEventTimeWatermark(ts)
  \/ Flush
  \/ TakeLateRecords

Spec == Init /\ [][Next]_vars

\* The driver of tflo-wasm: it advances the watermark no further than step itself
\* releases records, and at the end, after flush, to any later time.
ReleaseWatermark == SatSub(max_ts_seen, max_lateness)

DriverAdvances ==
  \/ ~flushed /\ max_ts_seen # None /\ AdvanceEventTimeWatermark(ReleaseWatermark)
  \/ flushed /\ \E ts \in Watermarks : AdvanceEventTimeWatermark(ts)

DrivenNext ==
  \/ \E ts \in Timestamps, val \in Inputs :
       Step([ts |-> ts, val |-> val, rec |-> arrivals + 1])
  \/ DriverAdvances
  \/ Flush
  \/ TakeLateRecords

DrivenSpec == Init /\ [][DrivenNext]_vars

\* Its input ends, and then it flushes: the only step that sets flushed is Flush.
EndOfInput == ~flushed /\ flushed' = TRUE

FairSpec == DrivenSpec /\ WF_flushed(EndOfInput)

-----------------------------------------------------------------------------
(* Properties *)

Record == [ts : Timestamps, val : Values, rec : 1 .. MaxArrivals]

Output == {None} \cup SumOutput \cup VerdictOutput

\* Every variable keeps its type.
TypeOK ==
  /\ [graph |-> graph, policy |-> policy, max_lateness |-> max_lateness] \in Setups
  /\ last_ts \in Time \cup {None} /\ max_ts_seen \in Time \cup {None}
  /\ pending_seq \in 0 .. MaxArrivals
  /\ pending \subseteq [ts : Timestamps, seq : 0 .. MaxArrivals - 1, val : Values,
                        rec : 1 .. MaxArrivals]
  /\ late_records \in Seq(Record) /\ processed \in Seq(Record)
  /\ refused \subseteq Record
  /\ arrivals \in 0 .. MaxArrivals /\ flushed \in BOOLEAN
  /\ next_seq \in Nat
  /\ timers \subseteq [ts : Time, seq : 0 .. next_seq - 1, node : Node]
  /\ ops \in [Node -> [open : BOOLEAN, acc : SUBSET (1 .. MaxArrivals),
                       start : Time \cup {None}, due : Time \cup {None}]]
  /\ store \in [Node -> Output]
  /\ emitted \in Seq([ts : Time, value : [Node -> Output]])

\* Timers follow the windows. None is lost and none leaks: a node waits for exactly
\* one while its window or pulse is open, however often it was deleted and
\* registered again, and for none between windows; a leaked timer makes spurious
\* items, a lost one leaves the window open for ever. And those of the past have
\* all fired, whether a record, a watermark or the end of the stream moved the
\* frontier.
TimersFollowTheWindows ==
  /\ \A n \in Node :
       LET own == {t \in timers : t.node = n}
       IN  IF ops[n].open THEN \E t \in own : own = {t} /\ t.ts = ops[n].due
           ELSE own = {}
  /\ \A t \in timers : last_ts # None /\ last_ts < t.ts

\* Items leave in the order of event time, those that timers make between those
\* that records make (run_one: "downstream consumers see the canonical
\* event-time order").
EmissionsInEventTimeOrder ==
  \A i, j \in DOMAIN emitted : i < j => emitted[i].ts <= emitted[j].ts

\* The records that reached the operators with an input, by their place in the run.
Present == {i \in DOMAIN processed : processed[i].val # Absent}

\* The sums node n has emitted, by the item that carries them, and its open one.
SumsOf(n) == {i \in DOMAIN emitted : emitted[i].value[n] # None}
FirstSumsOf(n) ==
  {i \in SumsOf(n) : \A j \in 1 .. i - 1 : emitted[j].value[n] # emitted[i].value[n]}
ClosedSums(n) == {emitted[i].value[n].sum : i \in SumsOf(n)}
OpenSum(n) == IF ops[n].open THEN {ops[n].acc} ELSE {}

\* The sessions of the processed records: maximal runs without a gap. One starts
\* with a record a gap or more after all before it.
Sessions ==
  LET starts == {i \in Present : \A j \in Present :
                   j < i => processed[i].ts >= SatAdd(processed[j].ts, Gap)}
      SessionFrom(i) == {k \in Present : i <= k /\ starts \cap (i + 1) .. k = {}}
  IN  {{processed[k].rec : k \in SessionFrom(i)} : i \in starts}

\* Windows split the records where their operators are to split them. session_sum's
\* are the sessions: timers cancelled and set again, timers that fire before a
\* record, by a watermark or at the end of the stream cut the records where a gap is
\* and nowhere else, and a sum is first emitted at the time of its last record plus
\* the gap. tumbling_sum's are the buckets aligned to multiples of the size, each
\* first emitted at its edge, and a record on an edge opens the next bucket: so says
\* next_bucket_edge ("a record at ts belongs to the bucket ending at
\* ceil((ts + 1) / size) * size"), and its test; the module's ceil(ts / size) * size
\* does not.
WindowsSplitTheRecords ==
  LET BucketOf(r) == r.ts \div BucketSize
      Inputted == {processed[k] : k \in Present}
      Bucket(b) == {r.rec : r \in {q \in Inputted : BucketOf(q) = b}}
      Summed(n, i) == {r \in Inputted : r.rec \in emitted[i].value[n].sum}
  IN  \A n \in Node :
        /\ graph[n] = "session" =>
             /\ ClosedSums(n) \cup OpenSum(n) = Sessions
             /\ \A i \in FirstSumsOf(n) :
                  emitted[i].ts = SatAdd(Max({r.ts : r \in Summed(n, i)}), Gap)
        /\ graph[n] = "tumbling" =>
             /\ ClosedSums(n) \cup OpenSum(n) = {Bucket(BucketOf(r)) : r \in Inputted}
             /\ \A i \in FirstSumsOf(n) : \A r \in Summed(n, i) :
                  emitted[i].ts = (BucketOf(r) + 1) * BucketSize

\* Each window is emitted once ("Emit the running sum once on the inactivity
\* gap"): no two items carry the same record in sums of the same node.
OneEmissionPerWindow ==
  \A n \in Node : graph[n] \in {"session", "tumbling"} =>
    \A i, j \in SumsOf(n) :
      i # j => emitted[i].value[n].sum \cap emitted[j].value[n].sum = {}

\* Pulses are judged. A verdict is about a pulse there was: TooLong comes from the
\* timer alone, after more than MaxWidth without a low record; the others from the
\* first low record after the rise, with the width of that pulse. And none is missed:
\* every high record lies in the pulse that is open or in one that has its verdict,
\* also when no record ends the pulse.
PulsesAreJudged ==
  \A n \in Node : graph[n] = "pulse" =>
    LET verdicts == {i \in DOMAIN emitted : emitted[i].value[n] # None}
    IN  /\ \A i \in verdicts :
             LET item == emitted[i].value[n]
                 rise == IF item.verdict = "TooLong" THEN emitted[i].ts - MaxWidth - 1
                         ELSE emitted[i].ts - item.width
             IN  \E h \in Present :
                   /\ processed[h].val = High /\ processed[h].ts = rise
                   /\ IF item.verdict = "TooLong"
                      THEN \A k \in Present :
                             h <= k /\ processed[k].ts < emitted[i].ts => processed[k].val = High
                      ELSE \E k \in Present :
                             /\ h < k /\ processed[k].val = Low /\ processed[k].ts = emitted[i].ts
                             /\ \A m \in Present : h <= m /\ m < k => processed[m].val = High
                             /\ item.width <= MaxWidth
                             /\ item.verdict = "Valid" <=> item.width >= MinWidth
        /\ \A h \in Present : processed[h].val = High =>
             \/ ops[n].open /\ ops[n].start <= processed[h].ts
             \/ \E i \in verdicts :
                  emitted[i].ts - emitted[i].value[n].width - 1 <= processed[h].ts
                    /\ processed[h].ts <= emitted[i].ts

\* With the driver's watermarks the reordering in front of the graph is an ordered
\* delivery stage: the graph sees the accepted records in (ts, arrival) order, and
\* only records behind what was delivered or announced are refused.
Plain(r) == [ts |-> r.ts, rec |-> r.rec]

Delivery == INSTANCE OrderedDelivery WITH
  Records   <- [ts : Timestamps, rec : 1 .. MaxArrivals],
  held      <- {Plain(e) : e \in pending},
  delivered <- [i \in DOMAIN processed |-> Plain(processed[i])],
  refused   <- {Plain(r) : r \in refused},
  frontier  <- last_ts

ImplementsOrderedDelivery == Delivery!Spec

\* With a driver that flushes at the end of its input, no window stays open for
\* ever: each has a timer, and flush fires it.
OpenWindowsClose ==
  LET closed == \A n \in Node : ~ops[n].open
  IN  ~closed ~> closed
=============================================================================
