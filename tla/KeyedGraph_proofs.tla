------------------------ MODULE KeyedGraph_proofs -------------------------
(***************************************************************************)
(* The execution of a graph for one key is correct for every graph of the  *)
(* three timer operators, every policy, gap, width and lateness, and every *)
(* set of records and watermarks: timers follow the windows, a window is   *)
(* emitted once, items leave in the order of event time, the sums are the  *)
(* sessions and the buckets of the records, every pulse is judged, and the *)
(* reordering in front of the graph implements OrderedDelivery.            *)
(*                                                                         *)
(* The first part is about the pure functions on the graph's state, from   *)
(* EvalNode to FireAll; the second carries invariants through the          *)
(* operations of KeyedGraphState: GraphInv, and on top of it OnceInv,      *)
(* OrderInv and DeliverInv. The rest does both again for what the sums and *)
(* the verdicts tell of the records, from Splits and Judged to TellInv.    *)
(***************************************************************************)
EXTENDS KeyedGraph, HeapOrder_proofs

-----------------------------------------------------------------------------
(* The state of the graph, and what its helpers do. *)

\* The types of a node's state, a timer, an item and the graph's state.
OpState == [open : BOOLEAN, acc : SUBSET (1 .. MaxArrivals),
            start : Time \cup {None}, due : Time \cup {None}]
Timer == [ts : Time, seq : Nat, node : Node]
Item == [ts : Time, value : [Node -> Output]]
GraphState == [ops : [Node -> OpState], timers : SUBSET Timer, next_seq : Nat,
               store : [Node -> Output], out : Seq(Item)]

\* The timers T follow the windows of the operators o: the first part of
\* TimersFollowTheWindows.
Own(T, n) == {t \in T : t.node = n}
Waits(op, own) == IF op.open THEN \E t \in own : own = {t} /\ t.ts = op.due ELSE own = {}
Follows(o, T) == \A n \in Node : Waits(o[n], Own(T, n))

\* An open pulse has its start.
PulsesStarted(o) == \A n \in Node : graph[n] = "pulse" /\ o[n].open => o[n].start \in Time

\* Timestamps are integers, and clamping yields one.
LEMMA TimeIsInt == Time \subseteq Int /\ \A x \in Int : Clamp(x, TimeMin, TimeMax) \in Time
BY TimeAssumption DEF Time, Clamp

\* Saturating arithmetic stays within the timestamps.
LEMMA Saturates ==
  ASSUME NEW a \in Int, NEW b \in Int
  PROVE  SatAdd(a, b) \in Time /\ SatSub(a, b) \in Time
BY TimeIsInt DEF SatAdd, SatSub

\* The updates of the graph's state that the operators make.
WithTimers(g, T) == [g EXCEPT !.timers = T]
Sets(g, node, op, output) == [g EXCEPT !.ops[node] = op, !.store[node] = output]

\* Deleting the timer a node waits for frees the node of timers.
LEMMA DeleteOwn ==
  ASSUME NEW g \in GraphState, NEW node \in Node, Follows(g.ops, g.timers), g.ops[node].open
  PROVE  Delete(g, node, g.ops[node].due) = WithTimers(g, {t \in g.timers : t.node # node})
<1> DEFINE live == {t \in g.timers : t.node = node /\ t.ts = g.ops[node].due}
           own == {t \in g.timers : t.node = node}
<1>1. PICK t \in own : own = {t} /\ t.ts = g.ops[node].due
  BY Zenon DEF Follows, Waits, Own
<1>2. live = {t}
  BY <1>1
<1>3. (CHOOSE u \in live : TRUE) = t
  BY <1>2
<1>4. g.timers \ {t} = {u \in g.timers : u.node # node}
  BY <1>1
<1> QED
  BY <1>2, <1>3, <1>4 DEF Delete, WithTimers

\* A node between windows has no timer to delete.
LEMMA DeleteNone ==
  ASSUME NEW g \in GraphState, NEW node \in Node, NEW ts, Follows(g.ops, g.timers), ~g.ops[node].open
  PROVE  Delete(g, node, ts) = g /\ {t \in g.timers : t.node # node} = g.timers
<1>1. {t \in g.timers : t.node = node} = {}
  BY Zenon DEF Follows, Waits, Own
<1>2. {t \in g.timers : t.node = node /\ t.ts = ts} = {}
  BY <1>1
<1>3. g = [g EXCEPT !.timers = g.timers]
  BY DEF GraphState
<1> QED
  BY <1>1, <1>2, <1>3 DEF Delete

\* A timer is set for later than the record that sets it, but for a gap of zero
\* and at the end of time.
NeverSaturated == Gap # 0 /\ TimeMax \notin Timestamps

\* A saturating sum is not before its first operand.
LEMMA AddsLater ==
  ASSUME NEW ts \in Time, NEW d \in Nat
  PROVE  /\ SatAdd(ts, d) \in Time /\ ts <= SatAdd(ts, d)
         /\ ts # TimeMax /\ d # 0 => ts < SatAdd(ts, d)
BY TimeAssumption DEF SatAdd, Clamp, Time

\* Euclidean division, as the bucket edges use it.
LEMMA Quotient ==
  ASSUME NEW a \in Nat, NEW b \in Nat \ {0}
  PROVE  /\ a \div b \in Nat /\ a \div b <= a
         /\ (a \div b) * b <= a /\ a < (a \div b + 1) * b
<1> DEFINE q == a \div b
<1>1. b \in Int /\ a \in Int /\ b > 0 /\ b >= 1 /\ 0 <= a
  OBVIOUS
<1>2. q \in Int
  BY <1>1
<1>3. b * q <= a /\ b * q > a - b
  BY <1>1
<1> HIDE DEF q
<1>4. b * q = q * b /\ (q + 1) * b = q * b + b
  BY <1>1, <1>2
<1>5. q >= 0
  <2> SUFFICES ASSUME q <= -1 PROVE FALSE
    BY <1>2
  <2>1. b * q <= b * (-1)
    BY <1>1, <1>2
  <2> QED
    BY <1>1, <1>2, <1>3, <2>1
<1>6. q <= b * q
  <2>1. 0 <= (b - 1) * q
    BY <1>1, <1>2, <1>5
  <2> QED
    BY <1>1, <1>2, <2>1
<1>7. q * b \in Int /\ (q + 1) * b \in Int
  BY <1>1, <1>2
<1>8. q \in Nat /\ q <= a /\ q * b <= a /\ a < (q + 1) * b
  <2>1. b * q \in Int
    BY <1>1, <1>2
  <2> QED
    BY <1>1, <1>2, <1>3, <1>4, <1>5, <1>6, <1>7, <2>1
<1> QED
  BY <1>8 DEF q

\* The edge of a record's bucket is after the record.
LEMMA BucketLater ==
  ASSUME NEW ts \in Time
  PROVE  /\ NextBucketEdge(ts) \in Time /\ ts <= NextBucketEdge(ts)
         /\ ts # TimeMax => ts < NextBucketEdge(ts)
<1> DEFINE q == DivTrunc(ts, BucketSize)
           edge == NextBucketEdge(ts)
<1>0. /\ BucketSize \in Nat \ {0} /\ ts \in Int /\ TimeMin \in Int /\ TimeMax \in Int
      /\ TimeMin <= 0 /\ 0 <= TimeMax /\ TimeMin <= ts /\ ts <= TimeMax
  BY KeyedAssumption, TimeAssumption DEF Time
<1>1. /\ q \in Int /\ TimeMin <= q /\ q <= TimeMax
      /\ (q + 1) * BucketSize \in Int /\ ts < (q + 1) * BucketSize
  <2>1. CASE ts >= 0
    <3>1. ts \in Nat /\ q = ts \div BucketSize
      BY <1>0, <2>1 DEF DivTrunc
    <3>2. q \in Nat /\ q <= ts /\ ts < (q + 1) * BucketSize
      BY <1>0, <3>1, Quotient
    <3> HIDE DEF q
    <3> QED
      BY <1>0, <3>2
  <2>2. CASE ts < 0
    <3> DEFINE p == (-ts) \div BucketSize
    <3>1. -ts \in Nat /\ q = -p
      BY <1>0, <2>2 DEF DivTrunc
    <3>2. p \in Nat /\ p <= -ts /\ p * BucketSize <= -ts
      BY <1>0, <3>1, Quotient
    <3> HIDE DEF q, p
    <3>3. (q + 1) * BucketSize = BucketSize - p * BucketSize
      BY <1>0, <3>1, <3>2
    <3>4. p * BucketSize \in Int
      BY <1>0, <3>2
    <3> QED
      BY <1>0, <3>1, <3>2, <3>3, <3>4
  <2> QED
    BY <1>0, <2>1, <2>2
<1> HIDE DEF q
<1>2. edge = Clamp(SatAdd(q, 1) * BucketSize, TimeMin, TimeMax)
  BY DEF NextBucketEdge, q
<1>3. CASE q + 1 <= TimeMax
  <2>1. SatAdd(q, 1) = q + 1
    BY <1>0, <1>1, <1>3 DEF SatAdd, Clamp
  <2> QED
    BY <1>0, <1>1, <1>2, <2>1 DEF Clamp, Time
<1>4. CASE q + 1 > TimeMax
  <2>1. SatAdd(q, 1) = TimeMax
    BY <1>0, <1>1, <1>4 DEF SatAdd, Clamp
  <2>2. TimeMax <= TimeMax * BucketSize /\ TimeMax * BucketSize \in Int
    <3>1. 0 <= TimeMax * (BucketSize - 1)
      BY <1>0
    <3> QED
      BY <1>0, <3>1
  <2>3. edge = TimeMax
    BY <1>0, <1>2, <2>1, <2>2 DEF Clamp
  <2> QED
    BY <1>0, <2>3 DEF Time
<1> QED
  BY <1>0, <1>1, <1>3, <1>4

-----------------------------------------------------------------------------
(* Evaluating a node keeps the timers following the windows. *)

\* Follows, after an update of one node and its timers.
LEMMA FollowsWith ==
  ASSUME NEW o \in [Node -> OpState], NEW T, Follows(o, T), NEW node \in Node, NEW op, NEW U,
         \A n \in Node \ {node} : Own(U, n) = Own(T, n), Waits(op, Own(U, node))
  PROVE  Follows([o EXCEPT ![node] = op], U)
<1> DEFINE p == [o EXCEPT ![node] = op]
<1>1. p[node] = op /\ \A n \in Node \ {node} : p[n] = o[n]
  OBVIOUS
<1> HIDE DEF p
<1>2. Follows(p, U)
  BY <1>1 DEF Follows
<1> QED
  BY <1>2 DEF p

\* A node that opens its window with one timer.
LEMMA FollowsOpened ==
  ASSUME NEW o \in [Node -> OpState], NEW T, Follows(o, T),
         NEW node \in Node, NEW op, op.open, NEW u, u.node = node, u.ts = op.due
  PROVE  Follows([o EXCEPT ![node] = op], {t \in T : t.node # node} \cup {u})
<1> DEFINE U == {t \in T : t.node # node} \cup {u}
<1>1. Own(U, node) = {u} /\ \A n \in Node \ {node} : Own(U, n) = Own(T, n)
  BY DEF Own
<1> HIDE DEF U
<1>2. Waits(op, Own(U, node))
  BY Zenon, <1>1 DEF Waits
<1>3. Follows([o EXCEPT ![node] = op], U)
  BY <1>1, <1>2, FollowsWith
<1> QED
  BY <1>3 DEF U

\* A node that closes its window, and has no timer left.
LEMMA FollowsClosed ==
  ASSUME NEW o \in [Node -> OpState], NEW T, Follows(o, T),
         NEW node \in Node, NEW op, ~op.open
  PROVE  Follows([o EXCEPT ![node] = op], {t \in T : t.node # node})
<1> DEFINE U == {t \in T : t.node # node}
<1>1. Own(U, node) = {} /\ \A n \in Node \ {node} : Own(U, n) = Own(T, n)
  BY DEF Own
<1> HIDE DEF U
<1>2. Waits(op, Own(U, node))
  BY Zenon, <1>1 DEF Waits
<1>3. Follows([o EXCEPT ![node] = op], U)
  BY <1>1, <1>2, FollowsWith
<1> QED
  BY <1>3 DEF U

\* A node that changes neither.
LEMMA FollowsKept ==
  ASSUME NEW o \in [Node -> OpState], NEW T, Follows(o, T),
         NEW node \in Node, NEW op, op.open <=> o[node].open, op.due = o[node].due
  PROVE  Follows([o EXCEPT ![node] = op], T)
<1>1. Waits(o[node], Own(T, node))
  BY DEF Follows
<1>2. Waits(op, Own(T, node))
  BY Zenon, <1>1 DEF Waits
<1> QED
  BY <1>2, FollowsWith

\* What evaluating a node may do to the graph's state.
Later(t, ts) == ts <= t /\ (NeverSaturated => ts < t)

Evaluates(g, node, r, h) ==
  /\ h \in GraphState
  /\ h.out = g.out
  /\ g.next_seq <= h.next_seq
  /\ \A t \in h.timers :
       t \in g.timers \/ (t.seq = g.next_seq /\ g.next_seq < h.next_seq /\ t.node = node /\ Later(t.ts, r.ts))
  /\ Follows(h.ops, h.timers)
  /\ PulsesStarted(h.ops)
  /\ \A n \in Node : h.ops[n].acc \subseteq g.ops[n].acc \cup {r.rec}
  /\ graph[node] # "pulse" => h.store[node] = None

\* Either way a node has no timer after the delete that EvalSession begins with.
LEMMA Freed ==
  ASSUME NEW g \in GraphState, NEW node \in Node, Follows(g.ops, g.timers)
  PROVE  (IF g.ops[node].due = None THEN g ELSE Delete(g, node, g.ops[node].due))
           = WithTimers(g, {t \in g.timers : t.node # node})
<1> DEFINE due == g.ops[node].due
<1>1. CASE g.ops[node].open
  <2>1. PICK t \in Own(g.timers, node) : t.ts = due
    BY Zenon, <1>1 DEF Follows, Waits
  <2>2. due # None
    BY <2>1, TimeAssumption DEF Own, GraphState, Timer, Time
  <2> QED
    BY <1>1, <2>2, DeleteOwn
<1>2. CASE ~g.ops[node].open
  <2>1. Delete(g, node, due) = g /\ {t \in g.timers : t.node # node} = g.timers
    BY <1>2, DeleteNone
  <2>2. g = WithTimers(g, g.timers)
    BY DEF GraphState, WithTimers
  <2> QED
    BY <2>1, <2>2
<1> QED
  BY <1>1, <1>2

\* A node sets a timer, and takes a new state.
Opens(g, node, T, fireTs, op) ==
  [ops |-> [g.ops EXCEPT ![node] = op],
   timers |-> T \cup {[ts |-> fireTs, seq |-> g.next_seq, node |-> node]},
   next_seq |-> g.next_seq + 1, store |-> [g.store EXCEPT ![node] = None], out |-> g.out]

\* The fields of an update of one node.
LEMMA SetsFields ==
  ASSUME NEW g \in GraphState, NEW node \in Node, NEW op \in OpState, NEW o \in Output
  PROVE  Sets(g, node, op, o)
           = [ops |-> [g.ops EXCEPT ![node] = op], timers |-> g.timers, next_seq |-> g.next_seq,
              store |-> [g.store EXCEPT ![node] = o], out |-> g.out]
<1> DEFINE h == Sets(g, node, op, o)
<1>1. h = [g EXCEPT !.ops[node] = op, !.store[node] = o]
  BY DEF Sets
<1> HIDE DEF h
<1> QED
  BY <1>1 DEF GraphState, h

\* Register, then the update of the node.
LEMMA RegisterOpens ==
  ASSUME NEW g \in GraphState, NEW node \in Node, NEW T \in SUBSET Timer, NEW fireTs \in Time,
         NEW op \in OpState
  PROVE  Sets(Register(WithTimers(g, T), node, fireTs), node, op, None) = Opens(g, node, T, fireTs, op)
<1> DEFINE U == T \cup {[ts |-> fireTs, seq |-> g.next_seq, node |-> node]}
           m == [g EXCEPT !.timers = U, !.next_seq = g.next_seq + 1]
<1>1. Register(WithTimers(g, T), node, fireTs) = m
  BY DEF Register, GraphState, WithTimers
<1>2. U \in SUBSET Timer /\ None \in Output
  BY DEF GraphState, Timer, Output
<1> HIDE DEF U
<1>3. /\ m.ops = g.ops /\ m.timers = U /\ m.next_seq = g.next_seq + 1
      /\ m.store = g.store /\ m.out = g.out
  BY <1>2 DEF GraphState
<1>4. m \in GraphState
  <2>1. g.next_seq + 1 \in Nat
    BY DEF GraphState
  <2> QED
    BY <1>2, <2>1 DEF GraphState
<1> HIDE DEF m
<1>5. Sets(m, node, op, None)
        = [ops |-> [g.ops EXCEPT ![node] = op], timers |-> U, next_seq |-> g.next_seq + 1,
           store |-> [g.store EXCEPT ![node] = None], out |-> g.out]
  BY <1>2, <1>3, <1>4, SetsFields
<1> QED
  BY <1>1, <1>5, Zenon DEF Opens, U

\* The parts of Evaluates for a node that takes the state op.
LEMMA SetEvaluates ==
  ASSUME NEW g \in GraphState, PulsesStarted(g.ops), NEW node \in Node, NEW r, NEW op \in OpState,
         op.acc \subseteq g.ops[node].acc \cup {r.rec}, graph[node] = "pulse" /\ op.open => op.start \in Time
  PROVE  LET o == [g.ops EXCEPT ![node] = op]
         IN  /\ o \in [Node -> OpState] /\ PulsesStarted(o)
             /\ \A n \in Node : o[n].acc \subseteq g.ops[n].acc \cup {r.rec}
<1> DEFINE o == [g.ops EXCEPT ![node] = op]
<1>1. g.ops \in [Node -> OpState]
  BY DEF GraphState
<1>2. o \in [Node -> OpState] /\ o[node] = op /\ \A n \in Node \ {node} : o[n] = g.ops[n]
  BY <1>1
<1> HIDE DEF o
<1>3. \A n \in Node : o[n].acc \subseteq g.ops[n].acc \cup {r.rec}
  BY <1>2
<1>4. PulsesStarted(o)
  BY Zenon, <1>2 DEF PulsesStarted
<1> QED
  BY <1>2, <1>3, <1>4 DEF o

\* A node that sets a timer evaluates.
LEMMA OpensEvaluates ==
  ASSUME NEW g \in GraphState, Follows(g.ops, g.timers), PulsesStarted(g.ops),
         NEW node \in Node, NEW r \in Record, NEW fireTs \in Time, Later(fireTs, r.ts),
         NEW op \in OpState, op.open, op.due = fireTs,
         op.acc \subseteq g.ops[node].acc \cup {r.rec}, graph[node] = "pulse" => op.start \in Time
  PROVE  Evaluates(g, node, r, Opens(g, node, {t \in g.timers : t.node # node}, fireTs, op))
<1> DEFINE o == [g.ops EXCEPT ![node] = op]
           u == [ts |-> fireTs, seq |-> g.next_seq, node |-> node]
           T == {t \in g.timers : t.node # node} \cup {u}
           s == [g.store EXCEPT ![node] = None]
           h == Opens(g, node, {t \in g.timers : t.node # node}, fireTs, op)
<1>1. /\ o \in [Node -> OpState] /\ PulsesStarted(o)
      /\ \A n \in Node : o[n].acc \subseteq g.ops[n].acc \cup {r.rec}
  BY SetEvaluates
<1>2. Follows(o, T)
  <2>1. g.ops \in [Node -> OpState] /\ u.node = node /\ u.ts = op.due
    BY DEF GraphState
  <2> HIDE DEF u
  <2> QED
    BY <2>1, FollowsOpened
<1>3. T \in SUBSET Timer /\ g.next_seq + 1 \in Nat /\ g.next_seq < g.next_seq + 1
  BY DEF GraphState, Timer
<1>4. s \in [Node -> Output] /\ s[node] = None
  BY DEF GraphState, Output
<1>5. \A t \in T : t \in g.timers \/ (t.seq = g.next_seq /\ t.node = node /\ Later(t.ts, r.ts))
  OBVIOUS
<1>6. h = [ops |-> o, timers |-> T, next_seq |-> g.next_seq + 1, store |-> s, out |-> g.out]
  BY Zenon DEF Opens
<1> HIDE DEF o, u, T, s, h
<1>7. h \in GraphState
  BY <1>1, <1>3, <1>4, <1>6 DEF GraphState
<1>8. h.ops = o /\ h.timers = T /\ h.next_seq = g.next_seq + 1 /\ h.store = s /\ h.out = g.out
  BY <1>6
<1>9. g.next_seq \in Nat
  BY DEF GraphState
<1>10. Evaluates(g, node, r, h)
  BY <1>1, <1>2, <1>3, <1>4, <1>5, <1>7, <1>8, <1>9 DEF Evaluates
<1> QED
  BY <1>10 DEF h

\* One lemma per operator.
LEMMA SessionEvaluates ==
  ASSUME NEW g \in GraphState, Follows(g.ops, g.timers), PulsesStarted(g.ops),
         NEW node \in Node, graph[node] = "session",
         NEW r \in Record
  PROVE  Evaluates(g, node, r, EvalSession(g, node, r))
<1> DEFINE op == g.ops[node]
           fireTs == SatAdd(r.ts, Gap)
           T == {t \in g.timers : t.node # node}
           u == [ts |-> fireTs, seq |-> g.next_seq, node |-> node]
           op1 == [op EXCEPT !.open = TRUE, !.due = fireTs,
                             !.acc = (IF op.open THEN @ ELSE {}) \cup {r.rec}]
           h == Opens(g, node, T, fireTs, op1)
<1>1. r.ts \in Time /\ r.rec \in 1 .. MaxArrivals /\ Gap \in Nat
  BY KeyedAssumption DEF Record
<1>2. fireTs \in Time /\ Later(fireTs, r.ts)
  BY <1>1, AddsLater DEF Later, NeverSaturated, Record
<1>3. op \in OpState /\ op1 \in OpState /\ op1.open /\ op1.due = fireTs /\ op1.acc \subseteq op.acc \cup {r.rec}
  BY <1>1, <1>2 DEF GraphState, OpState
<1>4. T \in SUBSET Timer
  BY DEF GraphState
<1>5. EvalSession(g, node, r) = h
  <2> DEFINE freed == IF op.due = None THEN g ELSE Delete(g, node, op.due)
  <2>1. EvalSession(g, node, r) = Sets(Register(freed, node, fireTs), node, op1, None)
    BY Zenon DEF EvalSession, Sets
  <2>2. freed = WithTimers(g, T)
    BY Freed
  <2> HIDE DEF freed, op1, fireTs, T
  <2> QED
    BY <1>2, <1>3, <1>4, <2>1, <2>2, RegisterOpens
<1>6. graph[node] # "pulse"
  OBVIOUS
<1> HIDE DEF op1, fireTs
<1> QED
  BY <1>2, <1>3, <1>5, <1>6, OpensEvaluates

\* A node that leaves its timers alone evaluates.
LEMMA SetsEvaluates ==
  ASSUME NEW g \in GraphState, PulsesStarted(g.ops),
         NEW node \in Node, NEW r \in Record, NEW T \in SUBSET g.timers,
         NEW op \in OpState, Follows([g.ops EXCEPT ![node] = op], T),
         op.acc \subseteq g.ops[node].acc \cup {r.rec},
         graph[node] = "pulse" /\ op.open => op.start \in Time,
         NEW output \in Output, graph[node] # "pulse" => output = None
  PROVE  Evaluates(g, node, r, Sets(WithTimers(g, T), node, op, output))
<1> DEFINE o == [g.ops EXCEPT ![node] = op]
           s == [g.store EXCEPT ![node] = output]
           m == WithTimers(g, T)
           h == Sets(m, node, op, output)
<1>1. /\ o \in [Node -> OpState] /\ PulsesStarted(o)
      /\ \A n \in Node : o[n].acc \subseteq g.ops[n].acc \cup {r.rec}
  BY SetEvaluates
<1>2. s \in [Node -> Output] /\ s[node] = output
  BY DEF GraphState
<1>3. /\ m \in GraphState /\ m.ops = g.ops /\ m.timers = T /\ m.next_seq = g.next_seq
      /\ m.store = g.store /\ m.out = g.out
  BY DEF GraphState, WithTimers
<1> HIDE DEF m
<1>4. h = [ops |-> o, timers |-> T, next_seq |-> g.next_seq, store |-> s, out |-> g.out]
  BY <1>3, SetsFields
<1> HIDE DEF o, s, h
<1>5. g.next_seq \in Nat /\ g.timers \in SUBSET Timer /\ g.out \in Seq(Item)
  BY DEF GraphState
<1>6. h \in GraphState
  BY <1>1, <1>2, <1>4, <1>5 DEF GraphState
<1>7. h.ops = o /\ h.timers = T /\ h.next_seq = g.next_seq /\ h.store = s /\ h.out = g.out
  BY <1>4
<1>8. Follows(o, T)
  BY DEF o
<1>9. Evaluates(g, node, r, h)
  BY <1>1, <1>2, <1>5, <1>6, <1>7, <1>8 DEF Evaluates
<1> QED
  BY <1>9 DEF h, m

LEMMA SkipEvaluates ==
  ASSUME NEW g \in GraphState, Follows(g.ops, g.timers), PulsesStarted(g.ops),
         NEW node \in Node, NEW r \in Record
  PROVE  Evaluates(g, node, r, [g EXCEPT !.store[node] = None])
<1> DEFINE op == g.ops[node]
           h == [g EXCEPT !.store[node] = None]
<1>1. g.ops \in [Node -> OpState] /\ g.timers \in SUBSET Timer /\ None \in Output
  BY DEF GraphState, Output
<1>2. g = WithTimers(g, g.timers) /\ [g.ops EXCEPT ![node] = op] = g.ops
  BY <1>1 DEF GraphState, WithTimers
<1>3. op \in OpState /\ op.acc \subseteq g.ops[node].acc \cup {r.rec}
  BY <1>1
<1>4. h = [ops |-> g.ops, timers |-> g.timers, next_seq |-> g.next_seq,
           store |-> [g.store EXCEPT ![node] = None], out |-> g.out]
  BY <1>1 DEF GraphState
<1>5. graph[node] = "pulse" /\ op.open => op.start \in Time
  BY Zenon DEF PulsesStarted
<1> HIDE DEF op, h
<1>6. h = Sets(WithTimers(g, g.timers), node, op, None)
  <2>1. Sets(g, node, op, None)
          = [ops |-> [g.ops EXCEPT ![node] = op], timers |-> g.timers, next_seq |-> g.next_seq,
             store |-> [g.store EXCEPT ![node] = None], out |-> g.out]
    BY <1>1, <1>3, SetsFields
  <2> QED
    BY Zenon, <1>2, <1>4, <2>1
<1>7. Follows([g.ops EXCEPT ![node] = op], g.timers)
  BY <1>2
<1> QED
  BY <1>1, <1>2, <1>3, <1>5, <1>6, <1>7, SetsEvaluates DEF h

LEMMA TumblingEvaluates ==
  ASSUME NEW g \in GraphState, Follows(g.ops, g.timers), PulsesStarted(g.ops),
         NEW node \in Node, graph[node] = "tumbling",
         NEW r \in Record
  PROVE  Evaluates(g, node, r, EvalTumbling(g, node, r))
<1> DEFINE op == [g.ops[node] EXCEPT !.acc = @ \cup {r.rec}]
           edge == NextBucketEdge(r.ts)
           op1 == [op EXCEPT !.open = TRUE, !.due = edge]
           T == {t \in g.timers : t.node # node}
<1>1. r.ts \in Time /\ r.rec \in 1 .. MaxArrivals /\ g.ops \in [Node -> OpState] /\ None \in Output
  BY KeyedAssumption DEF Record, GraphState, Output
<1>2. edge \in Time /\ Later(edge, r.ts)
  BY <1>1, BucketLater DEF Later, NeverSaturated, Record
<1>3. /\ op \in OpState /\ (op.open <=> g.ops[node].open) /\ op.due = g.ops[node].due
      /\ op.acc \subseteq g.ops[node].acc \cup {r.rec}
  BY <1>1 DEF OpState
<1>4. op1 \in OpState /\ op1.open /\ op1.due = edge /\ op1.acc = op.acc
  BY <1>2, <1>3 DEF OpState
<1>5. graph[node] # "pulse"
  OBVIOUS
<1> HIDE DEF op, op1, edge
<1>6. CASE g.ops[node].open
  <2>1. EvalTumbling(g, node, r) = Sets(g, node, op, None)
    BY Zenon, <1>3, <1>6 DEF EvalTumbling, Sets, op
  <2>2. g = WithTimers(g, g.timers)
    BY DEF GraphState, WithTimers
  <2>3. Follows([g.ops EXCEPT ![node] = op], g.timers)
    BY <1>1, <1>3, FollowsKept
  <2> QED
    BY <1>1, <1>3, <1>5, <2>1, <2>2, <2>3, SetsEvaluates
<1>7. CASE ~g.ops[node].open
  <2>1. EvalTumbling(g, node, r) = Sets(Register(g, node, edge), node, op1, None)
    BY Zenon, <1>3, <1>7 DEF EvalTumbling, Sets, op, op1, edge
  <2>2. g = WithTimers(g, T)
    <3>1. T = g.timers
      BY <1>7, DeleteNone
    <3> QED
      BY <3>1 DEF GraphState, WithTimers
  <2>3. T \in SUBSET Timer
    BY DEF GraphState
  <2>4. EvalTumbling(g, node, r) = Opens(g, node, T, edge, op1)
    BY <1>2, <1>4, <2>1, <2>2, <2>3, RegisterOpens
  <2> QED
    BY <1>2, <1>3, <1>4, <1>5, <2>4, OpensEvaluates
<1> QED
  BY <1>6, <1>7

LEMMA PulseEvaluates ==
  ASSUME NEW g \in GraphState, Follows(g.ops, g.timers), PulsesStarted(g.ops),
         NEW node \in Node, graph[node] = "pulse",
         NEW r \in Record
  PROVE  Evaluates(g, node, r, EvalPulse(g, node, r))
<1> DEFINE op == g.ops[node]
           fireTs == SatAdd(SatAdd(r.ts, MaxWidth), 1)
           width == SatSub(r.ts, op.start)
           op1 == [op EXCEPT !.open = TRUE, !.start = r.ts, !.due = fireTs]
           verdict == [verdict |-> Classify(width), width |-> width]
           T == {t \in g.timers : t.node # node}
<1>1. /\ r.ts \in Time /\ r.rec \in 1 .. MaxArrivals /\ MaxWidth \in Nat
      /\ g.ops \in [Node -> OpState] /\ op \in OpState /\ None \in Output
  BY KeyedAssumption DEF Record, GraphState, Output
<1>2. fireTs \in Time /\ Later(fireTs, r.ts)
  <2>1. SatAdd(r.ts, MaxWidth) \in Time /\ r.ts <= SatAdd(r.ts, MaxWidth)
    BY <1>1, AddsLater
  <2>2. /\ fireTs \in Time /\ SatAdd(r.ts, MaxWidth) <= fireTs
        /\ SatAdd(r.ts, MaxWidth) # TimeMax => SatAdd(r.ts, MaxWidth) < fireTs
    BY <2>1, AddsLater
  <2>3. r.ts <= TimeMax /\ (NeverSaturated => r.ts # TimeMax) /\ TimeMax \in Int
    BY <1>1, TimeAssumption DEF Time, NeverSaturated, Record
  <2> DEFINE mid == SatAdd(r.ts, MaxWidth)
  <2>4. mid \in Int /\ fireTs \in Int /\ r.ts \in Int
    BY <1>1, <2>1, <2>2, TimeIsInt
  <2> HIDE DEF fireTs, mid
  <2>5. r.ts <= mid /\ mid <= fireTs /\ (mid # TimeMax => mid < fireTs)
    BY <2>1, <2>2 DEF fireTs, mid
  <2>6. r.ts <= fireTs /\ (r.ts # TimeMax => r.ts < fireTs)
    BY <2>3, <2>4, <2>5
  <2> QED
    BY <2>2, <2>3, <2>6 DEF Later, fireTs
<1>3. CASE ~op.open /\ r.val = High
  <2>1. EvalPulse(g, node, r) = Sets(Register(g, node, fireTs), node, op1, None)
    BY Zenon, <1>3 DEF EvalPulse, Sets
  <2>2. op1 \in OpState /\ op1.open /\ op1.due = fireTs /\ op1.acc = op.acc /\ op1.start \in Time
    BY <1>1, <1>2 DEF OpState
  <2> HIDE DEF op1, fireTs
  <2>3. g = WithTimers(g, T)
    <3>1. T = g.timers
      BY <1>3, DeleteNone
    <3> QED
      BY <3>1 DEF GraphState, WithTimers
  <2>4. T \in SUBSET Timer
    BY DEF GraphState
  <2>5. EvalPulse(g, node, r) = Opens(g, node, T, fireTs, op1)
    BY <1>2, <2>1, <2>2, <2>3, <2>4, RegisterOpens
  <2>6. op1.acc \subseteq g.ops[node].acc \cup {r.rec}
    BY <2>2
  <2> QED
    BY <1>2, <2>2, <2>5, <2>6, OpensEvaluates
<1>4. CASE op.open /\ r.val = Low
  <2>1. High # Low
    BY DEF High, Low
  <2>2. EvalPulse(g, node, r) = Sets(Delete(g, node, op.due), node, Idle, verdict)
    BY Zenon, <1>4 DEF EvalPulse, Sets
  <2>3. Delete(g, node, op.due) = WithTimers(g, T)
    BY <1>4, DeleteOwn
  <2>4. Idle \in OpState /\ ~Idle.open /\ Idle.acc = {}
    BY DEF Idle, OpState
  <2>5. verdict \in Output
    <3>1. op.start \in Time
      BY <1>4 DEF PulsesStarted
    <3>2. width \in Time /\ Classify(width) \in {"TooShort", "Valid", "TooLong"}
      BY <1>1, <3>1, TimeIsInt, Saturates DEF Classify
    <3> HIDE DEF width
    <3> QED
      BY <3>2 DEF Output, VerdictOutput
  <2>6. Follows([g.ops EXCEPT ![node] = Idle], T)
    BY <1>1, <2>4, FollowsClosed
  <2>7. T \in SUBSET g.timers /\ Idle.acc \subseteq g.ops[node].acc \cup {r.rec}
    BY <2>4
  <2> HIDE DEF verdict, T
  <2> QED
    BY <2>2, <2>3, <2>4, <2>5, <2>6, <2>7, SetsEvaluates
<1>5. CASE ~(~op.open /\ r.val = High) /\ ~(op.open /\ r.val = Low)
  <2>1. EvalPulse(g, node, r) = [g EXCEPT !.store[node] = None]
    BY Zenon, <1>5 DEF EvalPulse
  <2> QED
    BY <2>1, SkipEvaluates
<1> QED
  BY <1>3, <1>4, <1>5

Graphs == Seq({"session", "tumbling", "pulse"})

\* eval_with_ctx, whatever the operator and the input.
LEMMA NodeEvaluates ==
  ASSUME graph \in Graphs,
         NEW g \in GraphState, Follows(g.ops, g.timers), PulsesStarted(g.ops),
         NEW node \in Node, NEW r \in Record
  PROVE  Evaluates(g, node, r, EvalNode(g, node, r))
<1>1. graph[node] \in {"session", "tumbling", "pulse"}
  BY DEF Graphs, Node
<1>2. CASE r.val = Absent
  <2>1. EvalNode(g, node, r) = [g EXCEPT !.store[node] = None]
    BY Zenon, <1>2 DEF EvalNode
  <2> QED
    BY <2>1, SkipEvaluates
<1>3. CASE r.val # Absent /\ graph[node] = "session"
  <2>1. EvalNode(g, node, r) = EvalSession(g, node, r)
    BY <1>3 DEF EvalNode
  <2> QED
    BY <1>3, <2>1, SessionEvaluates
<1>4. CASE r.val # Absent /\ graph[node] = "tumbling"
  <2>1. EvalNode(g, node, r) = EvalTumbling(g, node, r)
    BY <1>4 DEF EvalNode
  <2> QED
    BY <1>4, <2>1, TumblingEvaluates
<1>5. CASE r.val # Absent /\ graph[node] = "pulse"
  <2>1. EvalNode(g, node, r) = EvalPulse(g, node, r)
    BY <1>5 DEF EvalNode
  <2> QED
    BY <1>5, <2>1, PulseEvaluates
<1> QED
  BY <1>1, <1>2, <1>3, <1>4, <1>5

-----------------------------------------------------------------------------
(* The folds of the model, taken one step at a time. *)

\* OnTimer over the timers popped, as a first-order operator.
FireInTurn(base, seq) == FoldLeft(OnTimer, base, seq)

CanFire(S, E, base, n, seq) ==
  /\ \A g \in S, t \in E : OnTimer(g, t) \in S
  /\ base \in S /\ n \in Nat /\ seq \in [1 .. n -> E]

\* The fold of fire_due_timers is a function that takes one timer at a time.
LEMMA OnTimerFolds ==
  ASSUME NEW S, NEW E, NEW base, NEW n, NEW seq, CanFire(S, E, base, n, seq)
  PROVE  \E f \in [0 .. n -> S] :
           /\ f[0] = base
           /\ \A i \in 1 .. n : f[i] = OnTimer(f[i - 1], seq[i])
           /\ FireInTurn(base, seq) = f[n]
<1>0. /\ \A g \in S, t \in E : OnTimer(g, t) \in S
      /\ base \in S /\ n \in Nat /\ seq \in [1 .. n -> E]
  BY DEF CanFire
<1> DEFINE op == [x \in S \X E |-> OnTimer(x[1], x[2])]
           F == CHOOSE k : k = [s \in SUBSET DOMAIN seq |->
                  IF s = {} THEN base ELSE OnTimer(k[s \ {Max(s)}], seq[Max(s)])]
           f == [i \in 0 .. n |-> F[1 .. i]]
           P == {i \in 0 .. n : f[i] \in S}
<1>1. op \in [S \X E -> S]
  BY <1>0
<1>2. PICK h \in [SUBSET (1 .. n) -> S] : IsFold(h, op, base, seq, n)
  BY <1>0, <1>1, FoldExists
<1>3. h = [s \in SUBSET DOMAIN seq |->
             IF s = {} THEN base ELSE OnTimer(h[s \ {Max(s)}], seq[Max(s)])]
  <2> HIDE DEF op
  <2>1. ASSUME NEW s \in SUBSET (1 .. n), s # {}
        PROVE  h[s] = OnTimer(h[s \ {Max(s)}], seq[Max(s)])
    <3>1. Max(s) \in 1 .. n /\ s \ {Max(s)} \in SUBSET (1 .. n)
      BY <1>0, <2>1, MaxIn
    <3>2. h[s \ {Max(s)}] \in S /\ seq[Max(s)] \in E
      BY <1>0, <3>1
    <3>3. op[<<h[s \ {Max(s)}], seq[Max(s)]>>] = OnTimer(h[s \ {Max(s)}], seq[Max(s)])
      BY <1>0, <3>2 DEF op
    <3> QED
      BY <1>0, <1>2, <2>1, <3>3 DEF IsFold
  <2>2. h[{}] = base
    BY <1>0, <1>2 DEF IsFold
  <2> QED
    BY <1>0, <2>1, <2>2
<1> HIDE DEF op
<1>4. F = [s \in SUBSET DOMAIN seq |->
             IF s = {} THEN base ELSE OnTimer(F[s \ {Max(s)}], seq[Max(s)])]
  BY <1>0, <1>3
<1>5. FireInTurn(base, seq) = F[1 .. n]
  <2>1. FireInTurn(base, seq) = F[DOMAIN seq]
    BY DEF FireInTurn, FoldLeft, MapThenFoldSet
  <2> QED
    BY <1>0, <2>1
<1> HIDE DEF F
<1>6. f[0] = base
  <2>1. (1 .. 0) = {} /\ 0 \in 0 .. n /\ {} \in SUBSET DOMAIN seq
    BY <1>0
  <2> QED
    BY <1>0, <1>4, <2>1
<1>7. ASSUME NEW i \in 1 .. n
      PROVE  f[i] = OnTimer(f[i - 1], seq[i])
  <2>1. i \in 0 .. n /\ i - 1 \in 0 .. n /\ (1 .. i) \in SUBSET DOMAIN seq
    BY <1>0, <1>7
  <2> QED
    BY <1>0, <1>4, <2>1, MaxOfPrefix, FirstNumbers
<1>8. 0 .. n \subseteq P
  <2>1. 0 \in P
    BY <1>0, <1>6
  <2>2. ASSUME NEW i \in 0 .. n - 1, i \in P
        PROVE  i + 1 \in P
    <3>1. i + 1 \in 1 .. n /\ (i + 1) - 1 = i /\ i + 1 \in 0 .. n
      BY <1>0, <2>2
    <3>2. f[i + 1] = OnTimer(f[i], seq[i + 1]) /\ seq[i + 1] \in E /\ f[i] \in S
      BY <1>0, <1>7, <2>2, <3>1
    <3> QED
      BY <1>0, <3>1, <3>2
  <2> HIDE DEF P
  <2> QED
    BY <1>0, <2>1, <2>2, CountUp
<1>9. f \in [0 .. n -> S] /\ f[n] = F[1 .. n]
  BY <1>0, <1>8
<1> HIDE DEF f
<1> QED
  BY <1>0, <1>5, <1>6, <1>7, <1>9

\* RunOne over the records, likewise.
RunInTurn(base, seq) == FoldLeft(RunOne, base, seq)

CanRun(S, E, base, n, seq) ==
  /\ \A g \in S, r \in E : RunOne(g, r) \in S
  /\ base \in S /\ n \in Nat /\ seq \in [1 .. n -> E]

\* So is the fold over the records that are run,
LEMMA RunOneFolds ==
  ASSUME NEW S, NEW E, NEW base, NEW n, NEW seq, CanRun(S, E, base, n, seq)
  PROVE  \E f \in [0 .. n -> S] :
           /\ f[0] = base
           /\ \A i \in 1 .. n : f[i] = RunOne(f[i - 1], seq[i])
           /\ RunInTurn(base, seq) = f[n]
<1>0. /\ \A g \in S, r \in E : RunOne(g, r) \in S
      /\ base \in S /\ n \in Nat /\ seq \in [1 .. n -> E]
  BY DEF CanRun
<1> DEFINE op == [x \in S \X E |-> RunOne(x[1], x[2])]
           F == CHOOSE k : k = [s \in SUBSET DOMAIN seq |->
                  IF s = {} THEN base ELSE RunOne(k[s \ {Max(s)}], seq[Max(s)])]
           f == [i \in 0 .. n |-> F[1 .. i]]
           P == {i \in 0 .. n : f[i] \in S}
<1>1. op \in [S \X E -> S]
  BY <1>0
<1>2. PICK h \in [SUBSET (1 .. n) -> S] : IsFold(h, op, base, seq, n)
  BY <1>0, <1>1, FoldExists
<1>3. h = [s \in SUBSET DOMAIN seq |->
             IF s = {} THEN base ELSE RunOne(h[s \ {Max(s)}], seq[Max(s)])]
  <2> HIDE DEF op
  <2>1. ASSUME NEW s \in SUBSET (1 .. n), s # {}
        PROVE  h[s] = RunOne(h[s \ {Max(s)}], seq[Max(s)])
    <3>1. Max(s) \in 1 .. n /\ s \ {Max(s)} \in SUBSET (1 .. n)
      BY <1>0, <2>1, MaxIn
    <3>2. h[s \ {Max(s)}] \in S /\ seq[Max(s)] \in E
      BY <1>0, <3>1
    <3>3. op[<<h[s \ {Max(s)}], seq[Max(s)]>>] = RunOne(h[s \ {Max(s)}], seq[Max(s)])
      BY <1>0, <3>2 DEF op
    <3> QED
      BY <1>0, <1>2, <2>1, <3>3 DEF IsFold
  <2>2. h[{}] = base
    BY <1>0, <1>2 DEF IsFold
  <2> QED
    BY <1>0, <2>1, <2>2
<1> HIDE DEF op
<1>4. F = [s \in SUBSET DOMAIN seq |->
             IF s = {} THEN base ELSE RunOne(F[s \ {Max(s)}], seq[Max(s)])]
  BY <1>0, <1>3
<1>5. RunInTurn(base, seq) = F[1 .. n]
  <2>1. RunInTurn(base, seq) = F[DOMAIN seq]
    BY DEF RunInTurn, FoldLeft, MapThenFoldSet
  <2> QED
    BY <1>0, <2>1
<1> HIDE DEF F
<1>6. f[0] = base
  <2>1. (1 .. 0) = {} /\ 0 \in 0 .. n /\ {} \in SUBSET DOMAIN seq
    BY <1>0
  <2> QED
    BY <1>0, <1>4, <2>1
<1>7. ASSUME NEW i \in 1 .. n
      PROVE  f[i] = RunOne(f[i - 1], seq[i])
  <2>1. i \in 0 .. n /\ i - 1 \in 0 .. n /\ (1 .. i) \in SUBSET DOMAIN seq
    BY <1>0, <1>7
  <2> QED
    BY <1>0, <1>4, <2>1, MaxOfPrefix, FirstNumbers
<1>8. 0 .. n \subseteq P
  <2>1. 0 \in P
    BY <1>0, <1>6
  <2>2. ASSUME NEW i \in 0 .. n - 1, i \in P
        PROVE  i + 1 \in P
    <3>1. i + 1 \in 1 .. n /\ (i + 1) - 1 = i /\ i + 1 \in 0 .. n
      BY <1>0, <2>2
    <3>2. f[i + 1] = RunOne(f[i], seq[i + 1]) /\ seq[i + 1] \in E /\ f[i] \in S
      BY <1>0, <1>7, <2>2, <3>1
    <3> QED
      BY <1>0, <3>1, <3>2
  <2> HIDE DEF P
  <2> QED
    BY <1>0, <2>1, <2>2, CountUp
<1>9. f \in [0 .. n -> S] /\ f[n] = F[1 .. n]
  BY <1>0, <1>8
<1> HIDE DEF f
<1> QED
  BY <1>0, <1>5, <1>6, <1>7, <1>9

\* MaxOr over times, likewise.
MaxInTurn(base, seq) == FoldLeft(MaxOr, base, seq)

CanMax(S, E, base, n, seq) ==
  /\ \A m \in S, t \in E : MaxOr(m, t) \in S
  /\ base \in S /\ n \in Nat /\ seq \in [1 .. n -> E]

\* and the fold over the times at which flush fires timers,
LEMMA MaxOrFolds ==
  ASSUME NEW S, NEW E, NEW base, NEW n, NEW seq, CanMax(S, E, base, n, seq)
  PROVE  \E f \in [0 .. n -> S] :
           /\ f[0] = base
           /\ \A i \in 1 .. n : f[i] = MaxOr(f[i - 1], seq[i])
           /\ MaxInTurn(base, seq) = f[n]
<1>0. /\ \A m \in S, t \in E : MaxOr(m, t) \in S
      /\ base \in S /\ n \in Nat /\ seq \in [1 .. n -> E]
  BY DEF CanMax
<1> DEFINE op == [x \in S \X E |-> MaxOr(x[1], x[2])]
           F == CHOOSE k : k = [s \in SUBSET DOMAIN seq |->
                  IF s = {} THEN base ELSE MaxOr(k[s \ {Max(s)}], seq[Max(s)])]
           f == [i \in 0 .. n |-> F[1 .. i]]
           P == {i \in 0 .. n : f[i] \in S}
<1>1. op \in [S \X E -> S]
  BY <1>0
<1>2. PICK h \in [SUBSET (1 .. n) -> S] : IsFold(h, op, base, seq, n)
  BY <1>0, <1>1, FoldExists
<1>3. h = [s \in SUBSET DOMAIN seq |->
             IF s = {} THEN base ELSE MaxOr(h[s \ {Max(s)}], seq[Max(s)])]
  <2> HIDE DEF op
  <2>1. ASSUME NEW s \in SUBSET (1 .. n), s # {}
        PROVE  h[s] = MaxOr(h[s \ {Max(s)}], seq[Max(s)])
    <3>1. Max(s) \in 1 .. n /\ s \ {Max(s)} \in SUBSET (1 .. n)
      BY <1>0, <2>1, MaxIn
    <3>2. h[s \ {Max(s)}] \in S /\ seq[Max(s)] \in E
      BY <1>0, <3>1
    <3>3. op[<<h[s \ {Max(s)}], seq[Max(s)]>>] = MaxOr(h[s \ {Max(s)}], seq[Max(s)])
      BY <1>0, <3>2 DEF op
    <3> QED
      BY <1>0, <1>2, <2>1, <3>3 DEF IsFold
  <2>2. h[{}] = base
    BY <1>0, <1>2 DEF IsFold
  <2> QED
    BY <1>0, <2>1, <2>2
<1> HIDE DEF op
<1>4. F = [s \in SUBSET DOMAIN seq |->
             IF s = {} THEN base ELSE MaxOr(F[s \ {Max(s)}], seq[Max(s)])]
  BY <1>0, <1>3
<1>5. MaxInTurn(base, seq) = F[1 .. n]
  <2>1. MaxInTurn(base, seq) = F[DOMAIN seq]
    BY DEF MaxInTurn, FoldLeft, MapThenFoldSet
  <2> QED
    BY <1>0, <2>1
<1> HIDE DEF F
<1>6. f[0] = base
  <2>1. (1 .. 0) = {} /\ 0 \in 0 .. n /\ {} \in SUBSET DOMAIN seq
    BY <1>0
  <2> QED
    BY <1>0, <1>4, <2>1
<1>7. ASSUME NEW i \in 1 .. n
      PROVE  f[i] = MaxOr(f[i - 1], seq[i])
  <2>1. i \in 0 .. n /\ i - 1 \in 0 .. n /\ (1 .. i) \in SUBSET DOMAIN seq
    BY <1>0, <1>7
  <2> QED
    BY <1>0, <1>4, <2>1, MaxOfPrefix, FirstNumbers
<1>8. 0 .. n \subseteq P
  <2>1. 0 \in P
    BY <1>0, <1>6
  <2>2. ASSUME NEW i \in 0 .. n - 1, i \in P
        PROVE  i + 1 \in P
    <3>1. i + 1 \in 1 .. n /\ (i + 1) - 1 = i /\ i + 1 \in 0 .. n
      BY <1>0, <2>2
    <3>2. f[i + 1] = MaxOr(f[i], seq[i + 1]) /\ seq[i + 1] \in E /\ f[i] \in S
      BY <1>0, <1>7, <2>2, <3>1
    <3> QED
      BY <1>0, <3>1, <3>2
  <2> HIDE DEF P
  <2> QED
    BY <1>0, <2>1, <2>2, CountUp
<1>9. f \in [0 .. n -> S] /\ f[n] = F[1 .. n]
  BY <1>0, <1>8
<1> HIDE DEF f
<1> QED
  BY <1>0, <1>5, <1>6, <1>7, <1>9

\* F is the function whose last value is the fold of StepGraph.
IsNodeFold(F, base, seq, r) ==
  F = [s \in SUBSET DOMAIN seq |->
         IF s = {} THEN base ELSE EvalNode(F[s \ {Max(s)}], seq[Max(s)], r)]

\* and the fold over the nodes of the graph.
LEMMA NodeFoldExists ==
  ASSUME NEW S, NEW E, NEW r, \A g \in S, node \in E : EvalNode(g, node, r) \in S,
         NEW base \in S, NEW n \in Nat, NEW seq \in [1 .. n -> E]
  PROVE  \E h : IsNodeFold(h, base, seq, r)
<1> DEFINE op == [x \in S \X E |-> EvalNode(x[1], x[2], r)]
<1>1. op \in [S \X E -> S]
  OBVIOUS
<1>2. PICK h \in [SUBSET (1 .. n) -> S] : IsFold(h, op, base, seq, n)
  BY <1>1, FoldExists
<1>3. h = [s \in SUBSET DOMAIN seq |->
             IF s = {} THEN base ELSE EvalNode(h[s \ {Max(s)}], seq[Max(s)], r)]
  <2> HIDE DEF op
  <2>1. ASSUME NEW s \in SUBSET (1 .. n), s # {}
        PROVE  h[s] = EvalNode(h[s \ {Max(s)}], seq[Max(s)], r)
    <3>1. Max(s) \in 1 .. n /\ s \ {Max(s)} \in SUBSET (1 .. n)
      BY <2>1, MaxIn
    <3>2. h[s \ {Max(s)}] \in S /\ seq[Max(s)] \in E
      BY <3>1
    <3>3. op[<<h[s \ {Max(s)}], seq[Max(s)]>>] = EvalNode(h[s \ {Max(s)}], seq[Max(s)], r)
      BY <3>2 DEF op
    <3> QED
      BY <1>2, <2>1, <3>3 DEF IsFold
  <2>2. h[{}] = base
    BY <1>2 DEF IsFold
  <2> QED
    BY <2>1, <2>2
<1> QED
  BY <1>3 DEF IsNodeFold

NodeFoldOf(F, S, n, base, seq, r) ==
  /\ \A g \in S, node \in Node : EvalNode(g, node, r) \in S
  /\ base \in S /\ n \in Nat /\ seq \in [1 .. n -> Node]
  /\ IsNodeFold(F, base, seq, r)

LEMMA NodeFoldRuns ==
  ASSUME NEW S, NEW r, NEW base, NEW n, NEW seq, NEW F, NodeFoldOf(F, S, n, base, seq, r)
  PROVE  \E f \in [0 .. n -> S] :
           /\ f[0] = base
           /\ \A i \in 1 .. n : f[i] = EvalNode(f[i - 1], seq[i], r)
           /\ f[n] = F[DOMAIN seq]
<1>1. /\ \A g \in S, node \in Node : EvalNode(g, node, r) \in S
      /\ base \in S /\ n \in Nat /\ seq \in [1 .. n -> Node]
      /\ IsNodeFold(F, base, seq, r)
  BY DEF NodeFoldOf
<1> DEFINE f == [i \in 0 .. n |-> F[1 .. i]]
           P == {i \in 0 .. n : f[i] \in S}
<1>6. f[0] = base
  <2>1. (1 .. 0) = {} /\ 0 \in 0 .. n /\ {} \in SUBSET DOMAIN seq
    BY <1>1
  <2> QED
    BY <1>1, <2>1 DEF IsNodeFold
<1>7. ASSUME NEW i \in 1 .. n
      PROVE  f[i] = EvalNode(f[i - 1], seq[i], r)
  <2>1. i \in 0 .. n /\ i - 1 \in 0 .. n /\ (1 .. i) \in SUBSET DOMAIN seq
    BY <1>1, <1>7
  <2> QED
    BY <1>1, <2>1, MaxOfPrefix, FirstNumbers DEF IsNodeFold
<1>8. 0 .. n \subseteq P
  <2>1. 0 \in P
    BY <1>1, <1>6
  <2>2. ASSUME NEW i \in 0 .. n - 1, i \in P
        PROVE  i + 1 \in P
    <3>1. i + 1 \in 1 .. n /\ (i + 1) - 1 = i /\ i + 1 \in 0 .. n
      BY <1>1, <2>2
    <3>2. f[i + 1] = EvalNode(f[i], seq[i + 1], r) /\ seq[i + 1] \in Node /\ f[i] \in S
      BY <1>1, <1>7, <2>2, <3>1
    <3> QED
      BY <1>1, <3>1, <3>2
  <2> HIDE DEF P
  <2> QED
    BY <1>1, <2>1, <2>2, CountUp
<1>9. f \in [0 .. n -> S] /\ f[n] = F[1 .. n]
  BY <1>1, <1>8
<1> HIDE DEF f
<1> QED
  BY <1>1, <1>6, <1>7, <1>9

CanEval(S, r, base) == base \in S /\ \A g \in S, node \in Node : EvalNode(g, node, r) \in S

LEMMA StepGraphFolds ==
  ASSUME graph \in Graphs, NEW S, NEW r, NEW base, CanEval(S, r, base)
  PROVE  \E f \in [0 .. Len(graph) -> S] :
           /\ f[0] = base
           /\ \A i \in 1 .. Len(graph) : f[i] = EvalNode(f[i - 1], i, r)
           /\ StepGraph(base, r) = EmitAt(f[Len(graph)], r.ts)
<1> DEFINE seq == [n \in Node |-> n]
           F == CHOOSE k : k = [s \in SUBSET DOMAIN seq |->
                  IF s = {} THEN base ELSE EvalNode(k[s \ {Max(s)}], seq[Max(s)], r)]
<1>0. base \in S /\ \A g \in S, node \in Node : EvalNode(g, node, r) \in S
  BY DEF CanEval
<1>1. Len(graph) \in Nat /\ Node = 1 .. Len(graph)
  BY DEF Graphs, Node
<1>2. StepGraph(base, r) = EmitAt(F[DOMAIN seq], r.ts)
  BY DEF StepGraph, FoldLeft, MapThenFoldSet
<1>3. seq \in [1 .. Len(graph) -> Node] /\ \A i \in 1 .. Len(graph) : seq[i] = i
  BY <1>1
<1> HIDE DEF seq
<1>4. IsNodeFold(F, base, seq, r)
  <2>1. \E h : IsNodeFold(h, base, seq, r)
    BY <1>0, <1>1, <1>3, NodeFoldExists
  <2> QED
    BY <2>1 DEF IsNodeFold
<1> HIDE DEF F
<1>5. PICK f \in [0 .. Len(graph) -> S] :
        /\ f[0] = base
        /\ \A i \in 1 .. Len(graph) : f[i] = EvalNode(f[i - 1], seq[i], r)
        /\ f[Len(graph)] = F[DOMAIN seq]
  <2>1. NodeFoldOf(F, S, Len(graph), base, seq, r)
    BY <1>0, <1>1, <1>3, <1>4 DEF NodeFoldOf
  <2> QED
    BY <2>1, NodeFoldRuns
<1> QED
  BY <1>2, <1>3, <1>5

-----------------------------------------------------------------------------
(* Timers that fire, one after the other. *)

\* Each window is emitted once, for a graph of one session or tumbling sum: the sums
\* emitted so far and the open one are of records in R, and no two share a record.
OneSum == Len(graph) = 1 /\ graph[1] # "pulse"

OncePer(g, R) ==
  OneSum =>
    /\ g.ops[1].acc \subseteq R
    /\ \A i \in DOMAIN g.out : g.out[i].value[1] # None =>
         g.out[i].value[1].sum \subseteq R /\ g.out[i].value[1].sum \cap g.ops[1].acc = {}
    /\ \A i, j \in DOMAIN g.out :
         i # j /\ g.out[i].value[1] # None /\ g.out[j].value[1] # None =>
           g.out[i].value[1].sum \cap g.out[j].value[1].sum = {}

KeepsOnce(g, h) == \A R : OncePer(g, R) => OncePer(h, R)

\* An item is appended with the sum s of records in Q, or with none, and the open
\* sum becomes a; Q is the open sum or new.
LEMMA OnceAppended ==
  ASSUME NEW g \in GraphState, NEW R, OncePer(g, R), NEW h \in GraphState, NEW item,
         h.out = Append(g.out, item), NEW Q, Q \subseteq R,
         OneSum => /\ h.ops[1].acc \subseteq Q
                   /\ \/ item.value[1] = None
                      \/ item.value[1].sum \subseteq Q /\ h.ops[1].acc = {},
         OneSum => \A i \in DOMAIN g.out :
                     g.out[i].value[1] # None => g.out[i].value[1].sum \cap Q = {}
  PROVE  OncePer(h, R)
<1> SUFFICES ASSUME OneSum PROVE OncePer(h, R)
  BY DEF OncePer
<1> DEFINE n == Len(g.out)
<1>1. g.out \in Seq(Item) /\ n \in Nat
  BY DEF GraphState
<1>2. /\ DOMAIN g.out = 1 .. n /\ DOMAIN h.out = 1 .. n + 1 /\ h.out[n + 1] = item
      /\ \A i \in 1 .. n : h.out[i] = g.out[i]
  BY <1>1
<1> DEFINE S(i) == h.out[i].value[1].sum
           None1(i) == h.out[i].value[1] = None
<1>3. \A i \in 1 .. n : ~None1(i) => S(i) \subseteq R /\ S(i) \cap Q = {}
  BY <1>2 DEF OncePer
<1>4. \A i, j \in 1 .. n : i # j /\ ~None1(i) /\ ~None1(j) => S(i) \cap S(j) = {}
  <2> SUFFICES ASSUME NEW i \in 1 .. n, NEW j \in 1 .. n, i # j, ~None1(i), ~None1(j)
               PROVE  S(i) \cap S(j) = {}
    OBVIOUS
  <2>1. i \in DOMAIN g.out /\ j \in DOMAIN g.out /\ h.out[i] = g.out[i] /\ h.out[j] = g.out[j]
    BY <1>2
  <2>2. g.out[i].value[1] # None /\ g.out[j].value[1] # None
    BY <2>1
  <2>3. g.out[i].value[1].sum \cap g.out[j].value[1].sum = {}
    BY <2>1, <2>2 DEF OncePer
  <2> QED
    BY <2>1, <2>3
<1>5. None1(n + 1) \/ (S(n + 1) \subseteq Q /\ h.ops[1].acc = {})
  BY <1>2
<1>6. h.ops[1].acc \subseteq Q
  OBVIOUS
<1>7. \A i \in 1 .. n + 1 : i \in 1 .. n \/ i = n + 1
  BY <1>1
<1> HIDE DEF S, None1, n
<1>8. \A i \in 1 .. n + 1 : ~None1(i) => S(i) \subseteq R /\ S(i) \cap h.ops[1].acc = {}
  BY <1>3, <1>5, <1>6, <1>7
<1>9. \A i, j \in 1 .. n + 1 : i # j /\ ~None1(i) /\ ~None1(j) => S(i) \cap S(j) = {}
  BY <1>3, <1>4, <1>5, <1>7
<1> QED
  BY <1>2, <1>6, <1>8, <1>9 DEF OncePer, S, None1

\* What the firing of one of the timers T does.
Fires(g, T, t, h) ==
  /\ h \in GraphState /\ h.timers = g.timers /\ h.next_seq = g.next_seq
  /\ PulsesStarted(h.ops) /\ Follows(h.ops, T \ {t})
  /\ h.out = Append(g.out, [ts |-> t.ts, value |-> h.store])
  /\ h.ops = [g.ops EXCEPT ![t.node] = Idle]
  /\ graph[t.node] # "pulse" => h.store[t.node] = [sum |-> g.ops[t.node].acc]

\* on_timer keeps Follows for the timers that are left.
LEMMA OnTimerFires ==
  ASSUME graph \in Graphs, NEW g \in GraphState, PulsesStarted(g.ops),
         NEW T, Follows(g.ops, T), NEW t \in Timer, t \in T
  PROVE  Fires(g, T, t, OnTimer(g, t))
<1> DEFINE op == g.ops[t.node]
           output == IF graph[t.node] = "pulse" THEN [verdict |-> "TooLong", width |-> MaxWidth]
                     ELSE [sum |-> op.acc]
           m == Sets(g, t.node, Idle, output)
           o == [g.ops EXCEPT ![t.node] = Idle]
           s == [g.store EXCEPT ![t.node] = output]
           h == OnTimer(g, t)
<1>1. t.node \in Node /\ g.ops \in [Node -> OpState] /\ g.store \in [Node -> Output] /\ t.ts \in Time
  BY DEF Timer, GraphState
<1>2. op.open /\ op.due = t.ts /\ Own(T, t.node) = {t}
  <2>1. PICK u \in Own(T, t.node) : op.open /\ Own(T, t.node) = {u} /\ u.ts = op.due
    <3>1. t \in Own(T, t.node)
      BY DEF Own
    <3> QED
      BY Zenon, <1>1, <3>1 DEF Follows, Waits
  <2>2. u = t
    BY <2>1 DEF Own
  <2> QED
    BY <2>1, <2>2
<1>3. output \in Output
  BY <1>1, KeyedAssumption DEF Output, SumOutput, VerdictOutput, OpState
<1>4. Idle \in OpState /\ ~Idle.open /\ Idle.acc = {}
  BY DEF Idle, OpState
<1>5. h = EmitAt(m, t.ts)
  BY Zenon, <1>2 DEF OnTimer, Sets
<1>6. m = [ops |-> o, timers |-> g.timers, next_seq |-> g.next_seq, store |-> s, out |-> g.out]
  BY <1>1, <1>3, <1>4, SetsFields
<1>7. o \in [Node -> OpState] /\ o[t.node] = Idle /\ \A n \in Node \ {t.node} : o[n] = g.ops[n]
  BY <1>1, <1>4
<1>8. s \in [Node -> Output] /\ s[t.node] = output
  BY <1>1, <1>3
<1>9. Follows(o, T \ {t})
  <2>1. Own(T \ {t}, t.node) = {} /\ \A n \in Node \ {t.node} : Own(T \ {t}, n) = Own(T, n)
    BY <1>2 DEF Own
  <2>2. Waits(Idle, Own(T \ {t}, t.node))
    BY Zenon, <1>4, <2>1 DEF Waits
  <2> QED
    BY <1>1, <2>1, <2>2, FollowsWith
<1>10. PulsesStarted(o)
  BY Zenon, <1>4, <1>7 DEF PulsesStarted
<1> HIDE DEF output, m, o, s
<1>12. h = [ops |-> o, timers |-> g.timers, next_seq |-> g.next_seq, store |-> s,
            out |-> Append(g.out, [ts |-> t.ts, value |-> s])]
  <2>1. m \in GraphState /\ m.out = g.out /\ m.store = s
    BY <1>6, <1>7, <1>8 DEF GraphState
  <2> QED
    BY <1>5, <1>6, <2>1 DEF EmitAt, GraphState
<1>13. Append(g.out, [ts |-> t.ts, value |-> s]) \in Seq(Item)
  BY <1>1, <1>8 DEF GraphState, Item
<1> HIDE DEF h
<1>14. h \in GraphState
  BY <1>7, <1>8, <1>12, <1>13 DEF GraphState
<1>15. graph[t.node] # "pulse" => output = [sum |-> op.acc]
  BY DEF output
<1> QED
  BY <1>8, <1>9, <1>10, <1>12, <1>14, <1>15 DEF h, o, Fires

\* A fire emits the open sum or none.
LEMMA FiresOnce ==
  ASSUME graph \in Graphs, NEW g \in GraphState, NEW T, NEW t \in Timer, NEW h, Fires(g, T, t, h)
  PROVE  KeepsOnce(g, h)
<1> SUFFICES ASSUME NEW R, OncePer(g, R) PROVE OncePer(h, R)
  BY DEF KeepsOnce
<1> DEFINE item == [ts |-> t.ts, value |-> h.store]
           Q == g.ops[1].acc
<1>1. /\ h \in GraphState /\ h.out = Append(g.out, item) /\ h.ops = [g.ops EXCEPT ![t.node] = Idle]
      /\ graph[t.node] # "pulse" => h.store[t.node] = [sum |-> g.ops[t.node].acc]
  BY DEF Fires
<1>2. item.value = h.store
  OBVIOUS
<1> HIDE DEF item
<1>3. OneSum => Q \subseteq R /\ \A i \in DOMAIN g.out :
                  g.out[i].value[1] # None => g.out[i].value[1].sum \cap Q = {}
  BY DEF OncePer
<1>4. OneSum => h.ops[1].acc = {} /\ item.value[1].sum = Q
  <2> SUFFICES ASSUME OneSum PROVE h.ops[1].acc = {} /\ item.value[1].sum = Q
    OBVIOUS
  <2>1. t.node = 1 /\ 1 \in Node
    BY DEF OneSum, Graphs, Node, Timer
  <2>2. h.ops[1] = Idle
    BY <1>1, <2>1 DEF GraphState
  <2>3. h.store[1] = [sum |-> Q]
    BY <1>1, <2>1 DEF OneSum
  <2> QED
    BY <1>2, <2>2, <2>3 DEF Idle
<1>5. CASE OneSum
  <2> HIDE DEF Q
  <2>1. Q \subseteq R
    BY <1>3, <1>5
  <2> QED
    BY <1>1, <1>3, <1>4, <1>5, <2>1, OnceAppended
<1>6. CASE ~OneSum
  BY <1>6 DEF OncePer
<1> QED
  BY <1>5, <1>6

\* on_timer keeps the type of the graph's state.
LEMMA OnTimerType ==
  ASSUME graph \in Graphs, NEW g \in GraphState, NEW t \in Timer
  PROVE  OnTimer(g, t) \in GraphState
<1> DEFINE op == g.ops[t.node]
           live == op.open /\ op.due = t.ts
           op1 == IF live THEN Idle ELSE op
           output == IF graph[t.node] = "pulse" THEN [verdict |-> "TooLong", width |-> MaxWidth]
                     ELSE [sum |-> op.acc]
           output1 == IF live THEN output ELSE None
           m == Sets(g, t.node, op1, output1)
<1>1. t.node \in Node /\ g.ops \in [Node -> OpState] /\ g.store \in [Node -> Output] /\ t.ts \in Time
  BY DEF Timer, GraphState
<1>2. output \in Output /\ None \in Output
  BY <1>1, KeyedAssumption DEF Output, SumOutput, VerdictOutput, OpState
<1>3. Idle \in OpState /\ op \in OpState
  BY <1>1 DEF Idle, OpState
<1>4. OnTimer(g, t) = EmitAt(m, t.ts)
  BY Zenon DEF OnTimer, Sets
<1> HIDE DEF output, op, live
<1>5. op1 \in OpState /\ output1 \in Output
  BY <1>2, <1>3
<1> HIDE DEF op1, output1
<1>6. m = [ops |-> [g.ops EXCEPT ![t.node] = op1], timers |-> g.timers, next_seq |-> g.next_seq,
           store |-> [g.store EXCEPT ![t.node] = output1], out |-> g.out]
  BY <1>1, <1>5, SetsFields
<1> HIDE DEF m
<1>7. m \in GraphState
  BY <1>1, <1>5, <1>6 DEF GraphState
<1> DEFINE h == [m EXCEPT !.out = Append(m.out, [ts |-> t.ts, value |-> m.store])]
<1>8. Append(m.out, [ts |-> t.ts, value |-> m.store]) \in Seq(Item)
  BY <1>1, <1>7 DEF GraphState, Item
<1>9. h \in GraphState
  BY <1>7, <1>8 DEF GraphState
<1> QED
  BY <1>4, <1>9 DEF EmitAt

\* The state after the first i of the popped timers have fired.
Fired(b, popped, i, h) ==
  /\ h \in GraphState /\ h.timers = b.timers /\ h.next_seq = b.next_seq
  /\ PulsesStarted(h.ops)
  /\ Follows(h.ops, b.timers \cup {popped[j] : j \in i + 1 .. Len(popped)})
  /\ Len(h.out) = Len(b.out) + i
  /\ \A j \in 1 .. Len(b.out) : h.out[j] = b.out[j]
  /\ \A j \in 1 .. i : h.out[Len(b.out) + j].ts = popped[j].ts
  /\ KeepsOnce(b, h)

\* The next timer fires.
LEMMA NextFired ==
  ASSUME graph \in Graphs, NEW b \in GraphState, NEW popped \in Seq(Timer),
         \A i, j \in DOMAIN popped : i < j => popped[i] # popped[j],
         \A j \in DOMAIN popped : popped[j] \notin b.timers,
         NEW i \in 1 .. Len(popped), NEW h, Fired(b, popped, i - 1, h)
  PROVE  Fired(b, popped, i, OnTimer(h, popped[i]))
<1> DEFINE t == popped[i]
           T == b.timers \cup {popped[j] : j \in (i - 1) + 1 .. Len(popped)}
           k == OnTimer(h, t)
<1>1. t \in Timer /\ t \in T /\ (i - 1) + 1 = i /\ i \in DOMAIN popped /\ Len(popped) \in Nat
  OBVIOUS
<1>2. T \ {t} = b.timers \cup {popped[j] : j \in i + 1 .. Len(popped)}
  <2>1. \A j \in i + 1 .. Len(popped) : j \in i .. Len(popped) /\ popped[j] # t
    BY <1>1
  <2>2. \A j \in i .. Len(popped) : j = i \/ j \in i + 1 .. Len(popped)
    BY <1>1
  <2>3. t \notin b.timers
    BY <1>1
  <2> HIDE DEF t
  <2> QED
    BY <1>1, <2>1, <2>2, <2>3 DEF t
<1> HIDE DEF T, t
<1>3. /\ h \in GraphState /\ h.timers = b.timers /\ h.next_seq = b.next_seq /\ PulsesStarted(h.ops)
      /\ Follows(h.ops, T) /\ Len(h.out) = Len(b.out) + (i - 1)
      /\ \A j \in 1 .. Len(b.out) : h.out[j] = b.out[j]
      /\ \A j \in 1 .. i - 1 : h.out[Len(b.out) + j].ts = popped[j].ts
      /\ KeepsOnce(b, h)
  BY DEF Fired, T
<1>4. /\ k \in GraphState /\ k.timers = h.timers /\ k.next_seq = h.next_seq
      /\ PulsesStarted(k.ops) /\ Follows(k.ops, T \ {t})
      /\ k.out = Append(h.out, [ts |-> t.ts, value |-> k.store])
      /\ KeepsOnce(h, k)
  <2>1. graph \in Graphs /\ h \in GraphState /\ PulsesStarted(h.ops) /\ Follows(h.ops, T)
        /\ t \in Timer /\ t \in T
    BY <1>1, <1>3
  <2>2. Fires(h, T, t, k)
    BY <2>1, OnTimerFires
  <2> HIDE DEF k
  <2> QED
    BY <2>1, <2>2, FiresOnce DEF Fires
<1> HIDE DEF k
<1>5. h.out \in Seq(Item) /\ b.out \in Seq(Item)
  BY <1>3 DEF GraphState
<1>6. /\ Len(k.out) = Len(b.out) + i
      /\ \A j \in 1 .. Len(b.out) : k.out[j] = b.out[j]
      /\ \A j \in 1 .. i : k.out[Len(b.out) + j].ts = popped[j].ts
  <2> DEFINE item == [ts |-> t.ts, value |-> k.store]
  <2>1. /\ Len(k.out) = Len(h.out) + 1 /\ k.out[Len(h.out) + 1] = item
        /\ \A j \in 1 .. Len(h.out) : k.out[j] = h.out[j]
    BY <1>4, <1>5
  <2>2. item.ts = t.ts
    OBVIOUS
  <2> HIDE DEF item
  <2>3. Len(b.out) \in Nat /\ i \in Nat /\ i >= 1
    BY <1>1, <1>5
  <2>4. Len(k.out) = Len(b.out) + i
    BY <1>3, <2>1, <2>3
  <2>5. ASSUME NEW j \in 1 .. Len(b.out)
        PROVE  k.out[j] = b.out[j]
    <3>1. j \in 1 .. Len(h.out)
      BY <1>3, <2>3, <2>5
    <3> QED
      BY <1>3, <2>1, <3>1
  <2>6. ASSUME NEW j \in 1 .. i
        PROVE  k.out[Len(b.out) + j].ts = popped[j].ts
    <3>1. CASE j = i
      <4>1. Len(h.out) + 1 = Len(b.out) + j
        BY <1>3, <2>3, <3>1
      <4> QED
        BY <2>1, <2>2, <3>1, <4>1 DEF t
    <3>2. CASE j # i
      <4>1. j \in 1 .. i - 1 /\ Len(b.out) + j \in 1 .. Len(h.out)
        BY <1>3, <2>3, <3>2
      <4> QED
        BY <1>3, <2>1, <4>1
    <3> QED
      BY <3>1, <3>2
  <2> QED
    BY <2>4, <2>5, <2>6
<1>7. KeepsOnce(b, k)
  BY <1>3, <1>4 DEF KeepsOnce
<1>8. Fired(b, popped, i, k)
  BY <1>2, <1>3, <1>4, <1>6, <1>7 DEF Fired
<1> QED
  BY <1>8 DEF k, t

\* All of them.
LEMMA Firing ==
  ASSUME graph \in Graphs, NEW b \in GraphState, PulsesStarted(b.ops),
         NEW T \in SUBSET Timer, Heap(T), T \cap b.timers = {}, Follows(b.ops, b.timers \cup T)
  PROVE  LET popped == PopOrder(T)
         IN  Fired(b, popped, Len(popped), FireInTurn(b, popped))
<1> DEFINE popped == PopOrder(T)
<1>1. /\ popped \in Seq(T)
      /\ \A i, j \in DOMAIN popped : i < j => Before(popped[i], popped[j])
      /\ \A e \in T : \E i \in DOMAIN popped : popped[i] = e
  BY PopOrderCorrect
<1>2. \A i, j \in DOMAIN popped : i < j => popped[i] # popped[j]
  <2>1. \A e \in T : ~Before(e, e)
    BY BeforeOrder
  <2> QED
    BY <1>1, <2>1
<1> HIDE DEF popped
<1> DEFINE n == Len(popped)
<1>3. popped \in Seq(Timer) /\ n \in Nat /\ popped \in [1 .. n -> Timer] /\ DOMAIN popped = 1 .. n
  BY <1>1
<1>4. \A j \in DOMAIN popped : popped[j] \notin b.timers
  BY <1>1
<1>5. \A g \in GraphState, t \in Timer : OnTimer(g, t) \in GraphState
  BY OnTimerType
<1>6. PICK f \in [0 .. n -> GraphState] :
        /\ f[0] = b
        /\ \A i \in 1 .. n : f[i] = OnTimer(f[i - 1], popped[i])
        /\ FireInTurn(b, popped) = f[n]
  <2>1. CanFire(GraphState, Timer, b, n, popped)
    BY <1>3, <1>5 DEF CanFire
  <2> QED
    BY <2>1, OnTimerFolds
<1> DEFINE P == {i \in 0 .. n : Fired(b, popped, i, f[i])}
<1>7. 0 \in P
  <2>1. {popped[j] : j \in 0 + 1 .. Len(popped)} = T
    BY <1>1, <1>3
  <2>2. b.out \in Seq(Item)
    BY DEF GraphState
  <2>3. Fired(b, popped, 0, b)
    BY <2>1, <2>2 DEF Fired, KeepsOnce
  <2> QED
    BY <1>3, <1>6, <2>3
<1>8. ASSUME NEW i \in 0 .. n - 1, i \in P
      PROVE  i + 1 \in P
  <2>1. i + 1 \in 1 .. n /\ (i + 1) - 1 = i /\ i + 1 \in 0 .. n
    BY <1>3, <1>8
  <2>2. Fired(b, popped, i + 1, OnTimer(f[i], popped[i + 1]))
    BY <1>2, <1>3, <1>4, <1>8, <2>1, NextFired
  <2> QED
    BY <1>6, <2>1, <2>2
<1> HIDE DEF P
<1>9. n \in P
  <2>1. 0 .. n \subseteq P
    BY <1>3, <1>7, <1>8, CountUp
  <2> QED
    BY <1>3, <2>1
<1> QED
  BY <1>6, <1>9 DEF P, popped

-----------------------------------------------------------------------------
(* What holds of the graph's state between two records. *)

\* The state of the graph between two records.
Registered(T, k) ==
  /\ IsFiniteSet(T)
  /\ \A t \in T : t.seq < k
  /\ \A t, u \in T : t.seq = u.seq => t = u

\* Types, unique timers, timers that follow the windows, pulses with a start.
Consistent(g) ==
  /\ g \in GraphState
  /\ Follows(g.ops, g.timers) /\ PulsesStarted(g.ops)
  /\ Registered(g.timers, g.next_seq)

\* Fewer timers are registered as well.
LEMMA RegisteredSubset ==
  ASSUME NEW T \in SUBSET Timer, NEW k \in Nat, Registered(T, k), NEW U \in SUBSET T
  PROVE  Registered(U, k) /\ Heap(U)
<1>1. IsFiniteSet(U)
  BY FS_Subset DEF Registered
<1>2. \A t \in U : t.ts \in Int /\ t.seq \in Int
  <2>1. \A t \in Timer : t.ts \in Time /\ t.seq \in Nat
    BY DEF Timer
  <2>2. \A x \in Time : x \in Int
    BY TimeIsInt
  <2>3. \A t \in U : t \in Timer
    OBVIOUS
  <2>4. \A x \in Nat : x \in Int
    OBVIOUS
  <2> QED
    BY <2>1, <2>2, <2>3, <2>4
<1> QED
  BY <1>1, <1>2 DEF Registered, Heap

\* Evaluating a node keeps the state consistent.
LEMMA EvaluatesConsistent ==
  ASSUME NEW g, Consistent(g), NEW node \in Node, NEW r, NEW h, Evaluates(g, node, r, h)
  PROVE  Consistent(h)
<1> DEFINE own == Own(h.timers, node)
<1>1. /\ h \in GraphState /\ g.next_seq <= h.next_seq
      /\ \A t \in h.timers : t \in g.timers \/ (t.seq = g.next_seq /\ g.next_seq < h.next_seq /\ t.node = node)
      /\ Follows(h.ops, h.timers) /\ PulsesStarted(h.ops)
  BY DEF Evaluates
<1>2. /\ g \in GraphState /\ IsFiniteSet(g.timers) /\ \A t \in g.timers : t.seq < g.next_seq
      /\ \A t, u \in g.timers : t.seq = u.seq => t = u
  BY DEF Consistent, Registered
<1>3. /\ g.next_seq \in Nat /\ h.next_seq \in Nat
      /\ \A t \in g.timers : t.seq \in Nat /\ t.ts \in Time
      /\ \A t \in h.timers : t.seq \in Nat
  BY <1>1, <1>2 DEF GraphState, Timer
<1>4. own = {} \/ \E u \in own : own = {u}
  BY Zenon, <1>1 DEF Follows, Waits
<1>5. IsFiniteSet(own)
  <2> HIDE DEF own
  <2>1. CASE own = {}
    BY <2>1, FS_EmptySet
  <2>2. CASE \E u \in own : own = {u}
    BY <2>2, FS_Singleton
  <2> QED
    BY <1>4, <2>1, <2>2
<1>6. IsFiniteSet(h.timers)
  <2>1. IsFiniteSet(g.timers \cup own)
    BY <1>2, <1>5, FS_Union
  <2>2. h.timers \subseteq g.timers \cup own
    BY <1>1 DEF Own
  <2> QED
    BY <2>1, <2>2, FS_Subset
<1>7. \A t \in h.timers : t.seq < h.next_seq
  BY <1>1, <1>2, <1>3
<1>8. ASSUME NEW t \in h.timers, NEW u \in h.timers, t.seq = u.seq
      PROVE  t = u
  <2>1. CASE t \in g.timers /\ u \in g.timers
    BY <1>2, <1>8, <2>1
  <2>2. CASE t \notin g.timers /\ u \notin g.timers
    <3>1. t \in own /\ u \in own
      BY <1>1, <2>2 DEF Own
    <3> HIDE DEF own
    <3> QED
      BY <1>4, <3>1
  <2>3. CASE t \in g.timers /\ u \notin g.timers
    BY <1>1, <1>2, <1>3, <1>8, <2>3
  <2>4. CASE t \notin g.timers /\ u \in g.timers
    BY <1>1, <1>2, <1>3, <1>8, <2>4
  <2> QED
    BY <2>1, <2>2, <2>3, <2>4
<1> QED
  BY <1>1, <1>6, <1>7, <1>8 DEF Consistent, Registered

\* What step_with_context_and_timers does, but for its item.
Stepped(g, r, h) ==
  /\ Consistent(h) /\ h.out = g.out
  /\ \A t \in h.timers : t \in g.timers \/ Later(t.ts, r.ts)
  /\ \A n \in Node : h.ops[n].acc \subseteq g.ops[n].acc \cup {r.rec}

\* step_with_context_and_timers evaluates every node and emits one item.
LEMMA StepGraphSteps ==
  ASSUME graph \in Graphs, NEW g, Consistent(g), NEW r \in Record
  PROVE  \E h : /\ Stepped(g, r, h) /\ StepGraph(g, r) = EmitAt(h, r.ts)
                /\ OneSum => h.store[1] = None
<1> DEFINE S == {h \in GraphState : Stepped(g, r, h)}
           n == Len(graph)
<1>1. ASSUME NEW h \in S, NEW node \in Node
      PROVE  EvalNode(h, node, r) \in S
  <2> DEFINE k == EvalNode(h, node, r)
  <2>1. h \in GraphState /\ Stepped(g, r, h) /\ Consistent(h)
    BY <1>1 DEF Stepped
  <2>2. Follows(h.ops, h.timers) /\ PulsesStarted(h.ops)
    BY <2>1 DEF Consistent
  <2>3. Evaluates(h, node, r, k)
    BY <1>1, <2>1, <2>2, NodeEvaluates
  <2> HIDE DEF k
  <2>4. Consistent(k)
    BY <1>1, <2>1, <2>3, EvaluatesConsistent
  <2>5. k \in GraphState /\ Stepped(g, r, k)
    BY <2>1, <2>3, <2>4 DEF Stepped, Evaluates
  <2> QED
    BY <2>5 DEF k
<1>2. g \in S
  BY DEF Stepped, Consistent
<1> HIDE DEF S
<1>3. PICK f \in [0 .. n -> S] :
        /\ f[0] = g
        /\ \A i \in 1 .. n : f[i] = EvalNode(f[i - 1], i, r)
        /\ StepGraph(g, r) = EmitAt(f[n], r.ts)
  <2>1. CanEval(S, r, g)
    BY <1>1, <1>2 DEF CanEval
  <2> QED
    BY <2>1, StepGraphFolds
<1>4. n \in Nat /\ n \in 0 .. n
  BY DEF Graphs
<1>5. f[n] \in S
  BY <1>3, <1>4
<1>6. OneSum => f[n].store[1] = None
  <2> SUFFICES ASSUME OneSum PROVE f[n].store[1] = None
    OBVIOUS
  <2>1. n = 1 /\ 1 \in Node /\ graph[1] # "pulse"
    BY DEF OneSum, Graphs, Node
  <2>2. f[1] = EvalNode(g, 1, r)
    BY <1>3, <2>1
  <2>3. Evaluates(g, 1, r, EvalNode(g, 1, r))
    BY <2>1, NodeEvaluates DEF Consistent
  <2> QED
    BY <2>1, <2>2, <2>3 DEF Evaluates
<1> QED
  BY <1>3, <1>5, <1>6 DEF S

-----------------------------------------------------------------------------
(* The firing of the due timers, a record, and both. *)

\* h emits after g one item for each timer of T, in their order.
Emits(g, h, T) ==
  /\ Len(g.out) <= Len(h.out)
  /\ \A j \in 1 .. Len(g.out) : h.out[j] = g.out[j]
  /\ \A j \in Len(g.out) + 1 .. Len(h.out) : \E t \in T : h.out[j].ts = t.ts
  /\ \A i, j \in Len(g.out) + 1 .. Len(h.out) : i < j => h.out[i].ts <= h.out[j].ts

\* Firing popped timers emits one item for each.
LEMMA FiringEmits ==
  ASSUME graph \in Graphs, NEW b \in GraphState, PulsesStarted(b.ops),
         NEW T \in SUBSET Timer, Heap(T), T \cap b.timers = {}, Follows(b.ops, b.timers \cup T)
  PROVE  LET h == FireInTurn(b, PopOrder(T))
         IN  /\ h \in GraphState /\ h.timers = b.timers /\ h.next_seq = b.next_seq
             /\ PulsesStarted(h.ops) /\ Follows(h.ops, b.timers)
             /\ Emits(b, h, T) /\ KeepsOnce(b, h)
<1> DEFINE popped == PopOrder(T)
           n == Len(popped)
           h == FireInTurn(b, PopOrder(T))
           m == Len(b.out)
<1>1. /\ popped \in Seq(T)
      /\ \A i, j \in DOMAIN popped : i < j => Before(popped[i], popped[j])
  BY PopOrderCorrect
<1>2. Fired(b, popped, n, h)
  BY Firing
<1> HIDE DEF popped, h
<1>3. n \in Nat /\ DOMAIN popped = 1 .. n /\ m \in Nat /\ \A i \in 1 .. n : popped[i] \in T
  BY <1>1 DEF GraphState
<1>4. /\ h \in GraphState /\ h.timers = b.timers /\ h.next_seq = b.next_seq
      /\ PulsesStarted(h.ops)
      /\ Follows(h.ops, b.timers \cup {popped[j] : j \in n + 1 .. n})
      /\ Len(h.out) = m + n
      /\ \A j \in 1 .. m : h.out[j] = b.out[j]
      /\ \A j \in 1 .. n : h.out[m + j].ts = popped[j].ts
      /\ KeepsOnce(b, h)
  BY <1>2 DEF Fired
<1>5. b.timers \cup {popped[j] : j \in n + 1 .. n} = b.timers
  BY <1>3
<1> HIDE DEF n, m
<1>6. \A j \in m + 1 .. m + n : j - m \in 1 .. n /\ m + (j - m) = j
  BY <1>3
<1>7. \A j \in m + 1 .. m + n : h.out[j].ts = popped[j - m].ts
  <2> SUFFICES ASSUME NEW j \in m + 1 .. m + n PROVE h.out[j].ts = popped[j - m].ts
    OBVIOUS
  <2>1. j - m \in 1 .. n /\ m + (j - m) = j
    BY <1>6
  <2>2. h.out[m + (j - m)].ts = popped[j - m].ts
    BY <1>4, <2>1
  <2> QED
    BY <2>1, <2>2
<1>8. ASSUME NEW i \in 1 .. n, NEW j \in 1 .. n, i < j
      PROVE  popped[i].ts <= popped[j].ts
  <2>1. Before(popped[i], popped[j])
    BY <1>1, <1>3, <1>8
  <2>2. popped[i].ts \in Int /\ popped[j].ts \in Int
    BY <1>3 DEF Heap
  <2> QED
    BY <2>1, <2>2 DEF Before
<1>9. \A i, j \in m + 1 .. m + n : i < j => h.out[i].ts <= h.out[j].ts
  <2> SUFFICES ASSUME NEW i \in m + 1 .. m + n, NEW j \in m + 1 .. m + n, i < j
               PROVE  h.out[i].ts <= h.out[j].ts
    OBVIOUS
  <2>1. i - m < j - m
    BY <1>3
  <2> QED
    BY <1>6, <1>7, <1>8, <2>1
<1>10. \A j \in m + 1 .. m + n : \E t \in T : h.out[j].ts = t.ts
  BY <1>3, <1>6, <1>7
<1>11. Emits(b, h, T)
  BY <1>3, <1>4, <1>9, <1>10 DEF Emits, m
<1> QED
  BY <1>4, <1>5, <1>11 DEF h

\* fire_due_timers fires what is due, and leaves the rest.
LEMMA FireDueTimersFires ==
  ASSUME graph \in Graphs, NEW g, Consistent(g), NEW watermark \in Time
  PROVE  LET h == FireDueTimers(g, watermark)
             due == {t \in g.timers : t.ts <= watermark}
         IN  /\ Consistent(h) /\ h.timers = g.timers \ due
             /\ Emits(g, h, due) /\ KeepsOnce(g, h)
<1> DEFINE due == {t \in g.timers : t.ts <= watermark}
           b == [g EXCEPT !.timers = g.timers \ due]
           h == FireInTurn(b, PopOrder(due))
<1>1. /\ g \in GraphState /\ Follows(g.ops, g.timers) /\ PulsesStarted(g.ops)
      /\ Registered(g.timers, g.next_seq) /\ g.timers \in SUBSET Timer /\ g.next_seq \in Nat
  BY DEF Consistent, GraphState
<1>2. FireDueTimers(g, watermark) = h
  BY DEF FireDueTimers, FireInTurn
<1>3. due \in SUBSET g.timers /\ g.timers \ due \in SUBSET g.timers
  OBVIOUS
<1> HIDE DEF due
<1>4. Heap(due) /\ Registered(g.timers \ due, g.next_seq)
  BY <1>1, <1>3, RegisteredSubset
<1>5. /\ b \in GraphState /\ b.timers = g.timers \ due /\ b.ops = g.ops
      /\ b.next_seq = g.next_seq /\ b.out = g.out
  BY <1>1, <1>3 DEF GraphState
<1> HIDE DEF b
<1>6. b.timers \cup due = g.timers /\ due \cap b.timers = {} /\ due \in SUBSET Timer
  BY <1>1, <1>3, <1>5
<1>7. /\ h \in GraphState /\ h.timers = b.timers /\ h.next_seq = b.next_seq
      /\ PulsesStarted(h.ops) /\ Follows(h.ops, b.timers)
      /\ Emits(b, h, due) /\ KeepsOnce(b, h)
  BY <1>1, <1>4, <1>5, <1>6, FiringEmits
<1> HIDE DEF h
<1>8. Consistent(h)
  BY <1>4, <1>5, <1>7 DEF Consistent
<1>9. Emits(g, h, due)
  BY <1>5, <1>7 DEF Emits
<1>10. KeepsOnce(g, h)
  BY <1>5, <1>7 DEF KeepsOnce, OncePer
<1> QED
  BY <1>2, <1>5, <1>7, <1>8, <1>9, <1>10 DEF due

Emptied(g, k) == [g EXCEPT !.timers = {}, !.next_seq = k]

LEMMA EmptiedState ==
  ASSUME NEW g \in GraphState, NEW k \in Nat
  PROVE  /\ Emptied(g, k) \in GraphState /\ Emptied(g, k).timers = {}
         /\ Emptied(g, k).ops = g.ops /\ Emptied(g, k).out = g.out
<1> DEFINE b == Emptied(g, k)
<1>1. b = [g EXCEPT !.timers = {}, !.next_seq = k]
  BY DEF Emptied
<1>2. {} \in SUBSET Timer
  OBVIOUS
<1> HIDE DEF b
<1>3. b = [ops |-> g.ops, timers |-> {}, next_seq |-> k, store |-> g.store, out |-> g.out]
  BY <1>1 DEF GraphState
<1>4. g.ops \in [Node -> OpState] /\ g.store \in [Node -> Output] /\ g.out \in Seq(Item)
  BY DEF GraphState
<1>5. b \in GraphState
  BY <1>2, <1>3, <1>4 DEF GraphState
<1> QED
  BY <1>3, <1>5 DEF b

\* At the end of the stream every timer fires.
LEMMA FireAllFires ==
  ASSUME graph \in Graphs, NEW g, Consistent(g)
  PROVE  LET h == FireAll(g)
         IN  /\ Consistent(h) /\ h.timers = {}
             /\ Emits(g, h, g.timers) /\ KeepsOnce(g, h)
<1> DEFINE left == PopOrder(g.timers)
           b == [g EXCEPT !.timers = {}, !.next_seq = g.next_seq + Len(left)]
           h == FireInTurn(b, PopOrder(g.timers))
<1>1. /\ g \in GraphState /\ Follows(g.ops, g.timers) /\ PulsesStarted(g.ops)
      /\ Registered(g.timers, g.next_seq) /\ g.timers \in SUBSET Timer /\ g.next_seq \in Nat
  BY DEF Consistent, GraphState
<1>2. FireAll(g) = h
  BY DEF FireAll, FireInTurn
<1>3. Heap(g.timers)
  BY <1>1, RegisteredSubset
<1>4. Len(left) \in Nat
  BY <1>3, PopOrderCorrect
<1> HIDE DEF left
<1>5. /\ b \in GraphState /\ b.timers = {} /\ b.ops = g.ops /\ b.out = g.out
  <2> DEFINE k == g.next_seq + Len(left)
  <2>1. k \in Nat /\ b = Emptied(g, k)
    BY <1>1, <1>4 DEF Emptied
  <2> HIDE DEF k, b
  <2> QED
    BY <1>1, <2>1, EmptiedState
<1> HIDE DEF b
<1>6. b.timers \cup g.timers = g.timers /\ g.timers \cap b.timers = {}
  BY <1>5
<1>7. /\ h \in GraphState /\ h.timers = b.timers /\ h.next_seq = b.next_seq
      /\ PulsesStarted(h.ops) /\ Follows(h.ops, b.timers)
      /\ Emits(b, h, g.timers) /\ KeepsOnce(b, h)
  BY <1>1, <1>3, <1>5, <1>6, FiringEmits
<1> HIDE DEF h
<1>8. Registered({}, h.next_seq)
  BY FS_EmptySet DEF Registered
<1>9. Consistent(h)
  BY <1>5, <1>7, <1>8 DEF Consistent
<1>10. Emits(g, h, g.timers)
  BY <1>5, <1>7 DEF Emits
<1>11. KeepsOnce(g, h)
  BY <1>5, <1>7 DEF KeepsOnce, OncePer
<1> QED
  BY <1>2, <1>5, <1>7, <1>9, <1>10, <1>11

-----------------------------------------------------------------------------
(* The order of the items. *)

\* The timers are later than x, and the items are in order and none later than x.
Clear(g, x) == \A t \in g.timers : x # None /\ Later(t.ts, x)

Sorted(g, x) ==
  /\ \A i, j \in DOMAIN g.out : i < j => g.out[i].ts <= g.out[j].ts
  /\ \A i \in DOMAIN g.out : x # None /\ g.out[i].ts <= x

NotAfter(x, y) == x = None \/ x <= y

\* Items have times.
LEMMA ItemTimes ==
  ASSUME NEW g \in GraphState
  PROVE  /\ g.out \in Seq(Item) /\ Len(g.out) \in Nat /\ DOMAIN g.out = 1 .. Len(g.out)
         /\ \A i \in 1 .. Len(g.out) : g.out[i].ts \in Time /\ g.out[i].ts \in Int
<1>1. g.out \in Seq(Item)
  BY DEF GraphState
<1>2. Len(g.out) \in Nat /\ DOMAIN g.out = 1 .. Len(g.out)
  BY <1>1
<1>3. ASSUME NEW i \in 1 .. Len(g.out)
      PROVE  g.out[i].ts \in Time /\ g.out[i].ts \in Int
  <2>1. g.out[i] \in Item
    BY <1>1
  <2>2. g.out[i].ts \in Time
    BY <2>1 DEF Item
  <2> QED
    BY <2>2, TimeIsInt
<1> QED
  BY <1>1, <1>2, <1>3

\* The items of timers not after x are in order with those before.
LEMMA EmitsSorted ==
  ASSUME NEW g \in GraphState, NEW h \in GraphState, NEW T \in SUBSET Timer, Emits(g, h, T),
         NEW x \in Time \cup {None}, Sorted(g, x), NEW y \in Time, NotAfter(x, y),
         \A t \in T : NotAfter(x, t.ts),
         \A j \in Len(g.out) + 1 .. Len(h.out) : h.out[j].ts <= y
  PROVE  Sorted(h, y)
<1> DEFINE n == Len(g.out)
           m == Len(h.out)
<1>1. /\ n \in Nat /\ DOMAIN g.out = 1 .. n /\ \A i \in 1 .. n : g.out[i].ts \in Int
      /\ m \in Nat /\ DOMAIN h.out = 1 .. m /\ \A i \in 1 .. m : h.out[i].ts \in Int
  BY ItemTimes
<1>2. y \in Int /\ y # None /\ (x # None => x \in Int)
  BY TimeIsInt, TimeAssumption
<1>3. /\ n <= m /\ \A j \in 1 .. n : h.out[j] = g.out[j]
      /\ \A j \in n + 1 .. m : \E t \in T : h.out[j].ts = t.ts
      /\ \A i, j \in n + 1 .. m : i < j => h.out[i].ts <= h.out[j].ts
      /\ \A j \in n + 1 .. m : h.out[j].ts <= y
  BY DEF Emits
<1> HIDE DEF n, m
<1>4. \A i \in 1 .. m : i \in 1 .. n \/ i \in n + 1 .. m
  BY <1>1
<1>5. ASSUME NEW i \in 1 .. n
      PROVE  i \in 1 .. m /\ x # None /\ h.out[i].ts <= x /\ x <= y
  <2>1. i \in DOMAIN g.out /\ h.out[i] = g.out[i] /\ i \in 1 .. m
    BY <1>1, <1>3
  <2>2. x # None /\ g.out[i].ts <= x
    BY <2>1 DEF Sorted
  <2> QED
    BY <2>1, <2>2 DEF NotAfter
<1>6. ASSUME NEW j \in n + 1 .. m
      PROVE  (x = None \/ x <= h.out[j].ts) /\ h.out[j].ts <= y
  BY <1>3 DEF NotAfter
<1>7. \A i \in 1 .. m : h.out[i].ts <= y
  BY <1>1, <1>2, <1>4, <1>5, <1>6
<1>8. ASSUME NEW i \in 1 .. m, NEW j \in 1 .. m, i < j
      PROVE  h.out[i].ts <= h.out[j].ts
  <2>1. CASE i \in 1 .. n /\ j \in 1 .. n
    BY <1>1, <1>3, <1>8, <2>1 DEF Sorted
  <2>2. CASE i \in 1 .. n /\ j \in n + 1 .. m
    <3>1. x # None /\ h.out[i].ts <= x
      BY <1>5, <2>2
    <3>2. x <= h.out[j].ts
      BY <1>6, <2>2, <3>1
    <3> QED
      BY <1>1, <1>2, <3>1, <3>2
  <2>3. CASE i \in n + 1 .. m /\ j \in n + 1 .. m
    BY <1>3, <1>8, <2>3
  <2>4. ~(i \in n + 1 .. m /\ j \in 1 .. n)
    BY <1>1, <1>8
  <2> QED
    BY <1>4, <2>1, <2>2, <2>3, <2>4
<1> QED
  BY <1>1, <1>2, <1>7, <1>8 DEF Sorted

\* So is one more item, of a time not before x.
LEMMA AppendSorted ==
  ASSUME NEW g \in GraphState, NEW h, NEW y \in Time, Sorted(g, y),
         NEW item, item.ts = y, h.out = Append(g.out, item)
  PROVE  Sorted(h, y)
<1> DEFINE n == Len(g.out)
<1>1. n \in Nat /\ g.out \in Seq(Item) /\ DOMAIN g.out = 1 .. n
  BY ItemTimes
<1>2. /\ DOMAIN h.out = 1 .. n + 1 /\ h.out[n + 1] = item
      /\ \A i \in 1 .. n : h.out[i] = g.out[i]
  BY <1>1
<1>3. y \in Int /\ y # None
  BY TimeIsInt, TimeAssumption
<1> HIDE DEF n
<1>4. \A i \in 1 .. n + 1 : i \in 1 .. n \/ i = n + 1
  BY <1>1
<1>5. \A i \in 1 .. n + 1 : h.out[i].ts <= y
  BY <1>1, <1>2, <1>3, <1>4 DEF Sorted
<1>6. ASSUME NEW i \in 1 .. n + 1, NEW j \in 1 .. n + 1, i < j
      PROVE  h.out[i].ts <= h.out[j].ts
  <2>1. CASE j = n + 1
    BY <1>2, <1>5, <2>1
  <2>2. CASE j \in 1 .. n
    <3>1. i \in 1 .. n
      BY <1>1, <1>6, <2>2
    <3> QED
      BY <1>1, <1>2, <1>6, <2>2, <3>1 DEF Sorted
  <2> QED
    BY <1>4, <2>1, <2>2
<1> QED
  BY <1>2, <1>3, <1>5, <1>6 DEF Sorted

\* The item of a record.
LEMMA EmitAtEmits ==
  ASSUME NEW g, Consistent(g), NEW ts \in Time
  PROVE  LET h == EmitAt(g, ts)
         IN  /\ Consistent(h) /\ h.timers = g.timers /\ h.ops = g.ops
             /\ h.out = Append(g.out, [ts |-> ts, value |-> g.store])
<1> DEFINE out == Append(g.out, [ts |-> ts, value |-> g.store])
           h == EmitAt(g, ts)
<1>1. g \in GraphState
  BY DEF Consistent
<1>2. h = [g EXCEPT !.out = out]
  BY <1>1 DEF EmitAt
<1>3. out \in Seq(Item)
  BY <1>1 DEF GraphState, Item
<1> HIDE DEF h, out
<1>4. h = [ops |-> g.ops, timers |-> g.timers, next_seq |-> g.next_seq, store |-> g.store, out |-> out]
  BY <1>1, <1>2 DEF GraphState
<1>5. h \in GraphState
  BY <1>1, <1>3, <1>4 DEF GraphState
<1>6. Consistent(h)
  BY <1>4, <1>5 DEF Consistent
<1> QED
  BY <1>4, <1>6 DEF h, out

-----------------------------------------------------------------------------
(* A record, and a run of records. *)

Ran(g, r, h) ==
  /\ Consistent(h) /\ Clear(h, r.ts)
  /\ \A x \in Time \cup {None} : Sorted(g, x) /\ Clear(g, x) /\ NotAfter(x, r.ts) => Sorted(h, r.ts)
  /\ \A R : OncePer(g, R) /\ r.rec \notin R => OncePer(h, R \cup {r.rec})

\* Firing up to a watermark keeps the order.
LEMMA FiringSorted ==
  ASSUME NEW g, Consistent(g), NEW h, Consistent(h), NEW y \in Time,
         Emits(g, h, {t \in g.timers : t.ts <= y}),
         NEW x \in Time \cup {None}, Sorted(g, x), Clear(g, x), NotAfter(x, y)
  PROVE  Sorted(h, y)
<1> DEFINE due == {t \in g.timers : t.ts <= y}
<1>1. g \in GraphState /\ h \in GraphState
  BY DEF Consistent
<1>2. due \in SUBSET Timer
  BY <1>1 DEF GraphState
<1>3. \A t \in due : NotAfter(x, t.ts) /\ t.ts <= y
  BY DEF Clear, Later, NotAfter
<1> HIDE DEF due
<1>4. Emits(g, h, due)
  BY DEF due
<1>5. \A j \in Len(g.out) + 1 .. Len(h.out) : h.out[j].ts <= y
  BY <1>3, <1>4 DEF Emits
<1> QED
  BY <1>1, <1>2, <1>3, <1>4, <1>5, EmitsSorted

\* What is not due at ts is later than ts.
LEMMA NotDueIsLater ==
  ASSUME NEW g, Consistent(g), NEW h, NEW y \in Time,
         h.timers = g.timers \ {t \in g.timers : t.ts <= y}
  PROVE  Clear(h, y)
<1>1. \A t \in g.timers : t.ts \in Int
  BY TimeIsInt DEF Consistent, GraphState, Timer
<1>2. y \in Int /\ y # None
  BY TimeIsInt, TimeAssumption
<1> QED
  BY <1>1, <1>2 DEF Clear, Later

\* A new record keeps each window emitted once.
LEMMA StepOnce ==
  ASSUME graph \in Graphs, NEW m, Consistent(m), NEW r \in Record,
         NEW k, Stepped(m, r, k), OneSum => k.store[1] = None,
         NEW h, Consistent(h), h.ops = k.ops, NEW item, item.value = k.store, h.out = Append(k.out, item),
         NEW R, OncePer(m, R), r.rec \notin R
  PROVE  OncePer(h, R \cup {r.rec})
<1> DEFINE Q == m.ops[1].acc \cup {r.rec}
           R1 == R \cup {r.rec}
<1>1. m \in GraphState /\ h \in GraphState /\ k.out = m.out /\ h.out = Append(m.out, item)
  BY DEF Consistent, Stepped
<1>2. CASE ~OneSum
  BY <1>2 DEF OncePer
<1>3. CASE OneSum
  <2>1. 1 \in Node
    BY <1>3 DEF OneSum, Node, Graphs
  <2>2. m.ops[1].acc \subseteq R
    BY <1>3 DEF OncePer
  <2>3. Q \subseteq R1
    BY <2>2
  <2>4. h.ops[1].acc \subseteq Q
    BY <2>1 DEF Stepped
  <2>5. item.value[1] = None
    BY <1>3
  <2>6. \A i \in DOMAIN m.out : m.out[i].value[1] # None => m.out[i].value[1].sum \cap Q = {}
    BY <1>3 DEF OncePer
  <2>7. OncePer(m, R1)
    BY <1>3 DEF OncePer
  <2> HIDE DEF Q, R1
  <2>8. OncePer(h, R1)
    BY <1>1, <2>3, <2>4, <2>5, <2>6, <2>7, OnceAppended
  <2> QED
    BY <2>8 DEF R1
<1> QED
  BY <1>2, <1>3

\* run_one: the due timers, then the record.
LEMMA RunOneRuns ==
  ASSUME graph \in Graphs, NEW g, Consistent(g), NEW r \in Record
  PROVE  Ran(g, r, RunOne(g, r))
<1> DEFINE m == FireDueTimers(g, r.ts)
           h == RunOne(g, r)
<1>1. r.ts \in Time
  BY KeyedAssumption DEF Record
<1>2. /\ Consistent(m) /\ m.timers = g.timers \ {t \in g.timers : t.ts <= r.ts}
      /\ Emits(g, m, {t \in g.timers : t.ts <= r.ts}) /\ KeepsOnce(g, m)
  BY <1>1, FireDueTimersFires
<1>3. h = StepGraph(m, r)
  BY DEF RunOne
<1> HIDE DEF m, h
<1>4. PICK k : /\ Stepped(m, r, k) /\ h = EmitAt(k, r.ts)
               /\ OneSum => k.store[1] = None
  BY <1>2, <1>3, StepGraphSteps
<1> DEFINE item == [ts |-> r.ts, value |-> k.store]
<1>5. /\ Consistent(k) /\ k.out = m.out
      /\ \A t \in k.timers : t \in m.timers \/ Later(t.ts, r.ts)
  BY <1>4 DEF Stepped
<1>6. /\ Consistent(h) /\ h.timers = k.timers /\ h.ops = k.ops /\ h.out = Append(k.out, item)
  BY <1>1, <1>4, <1>5, EmitAtEmits
<1>7. item.ts = r.ts /\ item.value = k.store
  OBVIOUS
<1> HIDE DEF item
<1>8. Clear(h, r.ts)
  <2>1. Clear(m, r.ts)
    BY <1>1, <1>2, NotDueIsLater
  <2>2. r.ts # None
    BY <1>1, TimeIsInt, TimeAssumption
  <2> QED
    BY <1>5, <1>6, <2>1, <2>2 DEF Clear
<1>9. ASSUME NEW x \in Time \cup {None}, Sorted(g, x), Clear(g, x), NotAfter(x, r.ts)
      PROVE  Sorted(h, r.ts)
  <2>1. Sorted(m, r.ts)
    BY <1>1, <1>2, <1>9, FiringSorted
  <2>2. m \in GraphState /\ h.out = Append(m.out, item)
    BY <1>2, <1>5, <1>6 DEF Consistent
  <2> QED
    BY <1>1, <1>7, <2>1, <2>2, AppendSorted
<1>10. ASSUME NEW R, OncePer(g, R), r.rec \notin R
       PROVE  OncePer(h, R \cup {r.rec})
  <2>1. OncePer(m, R)
    BY <1>2, <1>10 DEF KeepsOnce
  <2> QED
    BY <1>2, <1>4, <1>6, <1>7, <1>10, <2>1, StepOnce
<1>11. Ran(g, r, h)
  BY <1>6, <1>8, <1>9, <1>10 DEF Ran
<1> QED
  BY <1>11 DEF h

\* The records rs are in event-time order and not behind x; their numbers are new.
InTime(g, x, rs) ==
  /\ x \in Time \cup {None} /\ Sorted(g, x) /\ Clear(g, x)
  /\ \A i \in DOMAIN rs : NotAfter(x, rs[i].ts)
  /\ \A i, j \in DOMAIN rs : i < j => rs[i].ts <= rs[j].ts

NewTo(g, R, rs) ==
  /\ OncePer(g, R)
  /\ \A i \in DOMAIN rs : rs[i].rec \notin R
  /\ \A i, j \in DOMAIN rs : i # j => rs[i].rec # rs[j].rec

Recs(rs, i) == {rs[j].rec : j \in 1 .. i}

\* The state h after the first i records of rs.
RanTo(g, x, R, rs, i, h) ==
  /\ Consistent(h)
  /\ IF i = 0 THEN h = g ELSE Clear(h, rs[i].ts)
  /\ InTime(g, x, rs) => Sorted(h, IF i = 0 THEN x ELSE rs[i].ts)
  /\ NewTo(g, R, rs) => OncePer(h, R \cup Recs(rs, i))

\* One more of the records is run.
LEMMA RunNext ==
  ASSUME graph \in Graphs, NEW g, NEW rs \in Seq(Record), NEW x, NEW R,
         NEW i \in 1 .. Len(rs), NEW h, RanTo(g, x, R, rs, i - 1, h)
  PROVE  RanTo(g, x, R, rs, i, RunOne(h, rs[i]))
<1> DEFINE r == rs[i]
           k == RunOne(h, rs[i])
<1>1. r \in Record /\ i \in DOMAIN rs /\ i - 1 \in 0 .. Len(rs) /\ i # 0
      /\ (i - 1 # 0 => i - 1 \in DOMAIN rs /\ i - 1 < i)
  OBVIOUS
<1>2. Consistent(h)
  BY DEF RanTo
<1>3. Ran(h, r, k)
  BY <1>1, <1>2, RunOneRuns
<1> HIDE DEF k
<1>4. Consistent(k) /\ Clear(k, r.ts)
  BY <1>3 DEF Ran
<1>5. ASSUME InTime(g, x, rs)
      PROVE  Sorted(k, r.ts)
  <2>1. CASE i - 1 = 0
    <3>1. h = g
      BY <2>1 DEF RanTo
    <3>2. x \in Time \cup {None} /\ Sorted(h, x) /\ Clear(h, x) /\ NotAfter(x, r.ts)
      BY <1>1, <1>5, <3>1 DEF InTime
    <3> QED
      BY <1>3, <3>2 DEF Ran
  <2>2. CASE i - 1 # 0
    <3> DEFINE y == rs[i - 1].ts
    <3>1. Sorted(h, y) /\ Clear(h, y)
      BY <1>5, <2>2 DEF RanTo
    <3>2. rs[i - 1] \in Record
      BY <1>1, <2>2
    <3>3. y \in Time
      BY <3>2, KeyedAssumption DEF Record
    <3>4. NotAfter(y, r.ts)
      BY <1>1, <1>5, <2>2 DEF InTime, NotAfter
    <3> HIDE DEF y, r
    <3> QED
      BY <1>3, <3>1, <3>3, <3>4 DEF Ran
  <2> QED
    BY <2>1, <2>2
<1>6. ASSUME NewTo(g, R, rs)
      PROVE  OncePer(k, R \cup Recs(rs, i))
  <2> DEFINE R1 == R \cup Recs(rs, i - 1)
  <2>1. OncePer(h, R1)
    BY <1>6 DEF RanTo
  <2>2. r.rec \notin R1
    <3>1. \A j \in 1 .. i - 1 : j \in DOMAIN rs /\ j # i
      BY <1>1
    <3> QED
      BY <1>1, <1>6, <3>1 DEF NewTo, Recs
  <2>3. R1 \cup {r.rec} = R \cup Recs(rs, i)
    <3>1. \A j \in 1 .. i : j = i \/ j \in 1 .. i - 1
      BY <1>1
    <3>2. i \in 1 .. i /\ \A j \in 1 .. i - 1 : j \in 1 .. i
      BY <1>1
    <3> QED
      BY <3>1, <3>2 DEF Recs
  <2> HIDE DEF R1, r
  <2>4. OncePer(k, R1 \cup {r.rec})
    BY <1>3, <2>1, <2>2 DEF Ran
  <2> QED
    BY <2>3, <2>4
<1>7. RanTo(g, x, R, rs, i, k)
  BY <1>1, <1>4, <1>5, <1>6 DEF RanTo
<1> QED
  BY <1>7 DEF k

\* All of them are run.
LEMMA RunInTurnRuns ==
  ASSUME graph \in Graphs, NEW g, Consistent(g), NEW rs \in Seq(Record), NEW x, NEW R
  PROVE  RanTo(g, x, R, rs, Len(rs), RunInTurn(g, rs))
<1> DEFINE n == Len(rs)
           S == {h \in GraphState : Consistent(h)}
<1>1. n \in Nat /\ rs \in [1 .. n -> Record]
  OBVIOUS
<1>2. \A h \in S, r \in Record : RunOne(h, r) \in S
  BY RunOneRuns DEF Ran, Consistent
<1>3. g \in S
  BY DEF Consistent
<1> HIDE DEF S, n
<1>4. PICK f \in [0 .. n -> S] :
        /\ f[0] = g
        /\ \A i \in 1 .. n : f[i] = RunOne(f[i - 1], rs[i])
        /\ RunInTurn(g, rs) = f[n]
  <2>1. CanRun(S, Record, g, n, rs)
    BY <1>1, <1>2, <1>3 DEF CanRun
  <2> QED
    BY <2>1, RunOneFolds
<1> DEFINE P == {i \in 0 .. n : RanTo(g, x, R, rs, i, f[i])}
<1>5. 0 \in P
  <2>1. Recs(rs, 0) = {}
    BY DEF Recs
  <2>2. RanTo(g, x, R, rs, 0, g)
    BY <2>1 DEF RanTo, InTime, NewTo
  <2> QED
    BY <1>1, <1>4, <2>2
<1>6. ASSUME NEW i \in 0 .. n - 1, i \in P
      PROVE  i + 1 \in P
  <2>1. i + 1 \in 1 .. n /\ (i + 1) - 1 = i /\ i + 1 \in 0 .. n
    BY <1>1
  <2>2. RanTo(g, x, R, rs, i + 1, RunOne(f[i], rs[i + 1]))
    BY <1>6, <2>1, RunNext DEF n
  <2> QED
    BY <1>4, <2>1, <2>2
<1> HIDE DEF P
<1>7. n \in P
  <2>1. 0 .. n \subseteq P
    BY <1>1, <1>5, <1>6, CountUp
  <2> QED
    BY <1>1, <2>1
<1> QED
  BY <1>4, <1>7 DEF P, n

-----------------------------------------------------------------------------
(* The reorder buffer, and the invariant GraphInv. *)

\* A record in the reorder buffer.
Entry == [ts : Timestamps, seq : Nat, val : Values, rec : 1 .. MaxArrivals]

\* What the reorder buffer may hold when its next sequence number is k.
Queued(S, k) ==
  /\ S \subseteq Entry /\ IsFiniteSet(S)
  /\ \A e \in S : e.seq < k
  /\ \A e, f \in S : e.seq = f.seq => e = f

SetupOK == [graph |-> graph, policy |-> policy, max_lateness |-> max_lateness] \in Setups

\* The variables around the graph.
BufferOK ==
  /\ last_ts \in Time \cup {None} /\ max_ts_seen \in Time \cup {None}
  /\ arrivals \in 0 .. MaxArrivals /\ pending_seq \in 0 .. arrivals
  /\ Queued(pending, pending_seq)
  /\ late_records \in Seq(Record) /\ processed \in Seq(Record)
  /\ refused \subseteq Record /\ flushed \in BOOLEAN

\* The inductive invariant: the state is consistent and no timer is of the past.
GraphInv == SetupOK /\ BufferOK /\ Consistent(G) /\ Clear(G, last_ts)

\* The setup is one the code can be given.
LEMMA SetupType ==
  ASSUME SetupOK
  PROVE  graph \in Graphs /\ policy \in {"Error", "Drop", "Buffer"} /\ max_lateness \in Time
<1> DEFINE s == [graph |-> graph, policy |-> policy, max_lateness |-> max_lateness]
<1>1. s \in Setups /\ s.graph = graph /\ s.policy = policy /\ s.max_lateness = max_lateness
  BY DEF SetupOK
<1>2. s \in [graph : Graphs, policy : {"Error", "Drop", "Buffer"}, max_lateness : Time]
  BY <1>1, KeyedAssumption DEF Graphs
<1> HIDE DEF s
<1> QED
  BY <1>1, <1>2

\* The fields of a buffered entry.
LEMMA EntryFields ==
  ASSUME NEW e \in Entry
  PROVE  /\ e.ts \in Timestamps /\ e.ts \in Time /\ e.ts \in Int
         /\ e.seq \in Nat /\ e.seq \in Int /\ e.rec \in 1 .. MaxArrivals
         /\ RecordOf(e) \in Record /\ RecordOf(e).ts = e.ts /\ RecordOf(e).rec = e.rec
<1>1. e.ts \in Timestamps /\ e.seq \in Nat /\ e.val \in Values /\ e.rec \in 1 .. MaxArrivals
  BY DEF Entry
<1>2. e.ts \in Time /\ e.ts \in Int
  BY <1>1, KeyedAssumption, TimeIsInt
<1>3. \A k \in Nat : k \in Int
  OBVIOUS
<1>4. RecordOf(e) \in Record /\ RecordOf(e).ts = e.ts /\ RecordOf(e).rec = e.rec
  BY <1>1 DEF RecordOf, Record
<1> QED
  BY <1>1, <1>2, <1>3, <1>4

\* A part of the buffer is a heap that can be popped.
LEMMA QueuedPart ==
  ASSUME NEW k, NEW S, Queued(S, k), NEW T \in SUBSET S
  PROVE  Queued(T, k) /\ Heap(T)
<1>1. IsFiniteSet(T) /\ T \subseteq Entry
  BY FS_Subset DEF Queued
<1>2. \A e \in T : e.ts \in Int /\ e.seq \in Int
  BY <1>1, EntryFields
<1> QED
  BY <1>1, <1>2 DEF Queued, Heap

\* The buffer takes an entry with the next sequence number.
LEMMA QueuedMore ==
  ASSUME NEW k \in Nat, NEW S, Queued(S, k), NEW e \in Entry, e.seq = k
  PROVE  Queued(S \cup {e}, k + 1)
<1>1. IsFiniteSet(S \cup {e})
  BY FS_AddElement DEF Queued
<1>2. \A f \in S : f.seq \in Nat /\ f.seq < k
  BY EntryFields DEF Queued
<1> QED
  BY <1>1, <1>2 DEF Queued

\* The records that leave the buffer when D is popped.
RecordsOf(D) == LET out == PopOrder(D) IN [i \in DOMAIN out |-> RecordOf(out[i])]

\* Popping yields every entry once, in the order of the heap.
LEMMA RecordsOfHeap ==
  ASSUME NEW D, D \subseteq Entry, Heap(D)
  PROVE  LET out == PopOrder(D)
             rs == RecordsOf(D)
         IN  /\ rs \in Seq(Record) /\ Len(rs) \in Nat /\ Len(out) = Len(rs) /\ DOMAIN rs = 1 .. Len(rs)
             /\ DOMAIN out = 1 .. Len(rs)
             /\ \A i \in 1 .. Len(rs) : out[i] \in D /\ rs[i] = RecordOf(out[i])
             /\ \A i, j \in 1 .. Len(rs) : i < j => Before(out[i], out[j]) /\ rs[i].ts <= rs[j].ts
             /\ \A e \in D : \E i \in 1 .. Len(rs) : out[i] = e
             /\ out = <<>> <=> Len(rs) = 0
<1> DEFINE out == PopOrder(D)
           rs == RecordsOf(D)
           n == Len(out)
<1>1. /\ out \in Seq(D)
      /\ \A i, j \in DOMAIN out : i < j => Before(out[i], out[j])
      /\ \A e \in D : \E i \in DOMAIN out : out[i] = e
  BY PopOrderCorrect
<1>2. rs = [i \in DOMAIN out |-> RecordOf(out[i])]
  BY DEF RecordsOf
<1> HIDE DEF out, rs
<1>3. n \in Nat /\ DOMAIN out = 1 .. n /\ \A i \in 1 .. n : out[i] \in D
  BY <1>1
<1>4. \A i \in 1 .. n : rs[i] = RecordOf(out[i]) /\ RecordOf(out[i]) \in Record
  BY <1>2, <1>3, EntryFields
<1>5. rs = [i \in 1 .. n |-> RecordOf(out[i])]
  BY <1>2, <1>3
<1>6. rs \in Seq(Record) /\ Len(rs) = n /\ DOMAIN rs = 1 .. n
  BY <1>3, <1>4, <1>5
<1>7. ASSUME NEW i \in 1 .. n, NEW j \in 1 .. n, i < j
      PROVE  Before(out[i], out[j]) /\ rs[i].ts <= rs[j].ts
  <2>1. Before(out[i], out[j])
    BY <1>1, <1>3, <1>7
  <2>2. /\ out[i].ts \in Int /\ out[j].ts \in Int
        /\ rs[i].ts = out[i].ts /\ rs[j].ts = out[j].ts
    BY <1>3, <1>4, EntryFields
  <2> QED
    BY <2>1, <2>2 DEF Before
<1>8. out = <<>> <=> n = 0
  BY <1>1
<1> QED
  BY <1>1, <1>3, <1>4, <1>6, <1>7, <1>8 DEF out, rs

-----------------------------------------------------------------------------
(* The graph after an operation, in its terms. *)

\* G is the record of the variables.
LEMMA GraphFields ==
  /\ G.ops = ops /\ G.timers = timers /\ G.next_seq = next_seq /\ G.store = store /\ G.out = emitted
  /\ G'.ops = ops' /\ G'.timers = timers' /\ G'.next_seq = next_seq' /\ G'.store = store' /\ G'.out = emitted'
BY DEF G

\* Becomes assigns it.
LEMMA BecomesIt ==
  ASSUME NEW h \in GraphState, Becomes(h)
  PROVE  G' = h
<1>1. h = [ops |-> h.ops, timers |-> h.timers, next_seq |-> h.next_seq, store |-> h.store, out |-> h.out]
  BY DEF GraphState
<1> QED
  BY <1>1 DEF Becomes, G

\* RunAll runs its records.
LEMMA RunAllRuns ==
  ASSUME graph \in Graphs, Consistent(G), NEW rs \in Seq(Record), RunAll(rs), NEW x, NEW R
  PROVE  RanTo(G, x, R, rs, Len(rs), G') /\ processed' = processed \o rs
<1>1. Becomes(RunInTurn(G, rs)) /\ processed' = processed \o rs
  BY DEF RunAll, RunInTurn
<1>2. RanTo(G, x, R, rs, Len(rs), RunInTurn(G, rs))
  BY RunInTurnRuns
<1>3. RunInTurn(G, rs) \in GraphState
  BY <1>2 DEF RanTo, Consistent
<1>4. G' = RunInTurn(G, rs)
  BY <1>1, <1>3, BecomesIt
<1> QED
  BY <1>1, <1>2, <1>4

\* Consistent and Clear of the next state, from those of its parts.
LEMMA SameGraph ==
  ASSUME UNCHANGED graph, Consistent(G')
  PROVE  Consistent(G)'
<1>1. Node' = Node
  BY DEF Node
<1>2. GraphState' = GraphState
  BY <1>1 DEF GraphState, Timer, Item
<1>3. /\ G' \in GraphState /\ Follows(G'.ops, G'.timers) /\ PulsesStarted(G'.ops)
      /\ Registered(G'.timers, G'.next_seq)
  BY DEF Consistent
<1>4. (G \in GraphState)'
  BY <1>2, <1>3
<1>5. Follows(G.ops, G.timers)'
  BY <1>1, <1>3 DEF Follows
<1>6. PulsesStarted(G.ops)'
  BY <1>1, <1>3 DEF PulsesStarted
<1>7. Registered(G.timers, G.next_seq)'
  BY <1>3 DEF Registered
<1> QED
  BY <1>4, <1>5, <1>6, <1>7 DEF Consistent

\* They hold where the graph is left alone.
LEMMA StillConsistent ==
  ASSUME UNCHANGED graphVars, UNCHANGED graph, Consistent(G)
  PROVE  Consistent(G)'
<1>1. G' = G
  BY DEF graphVars, G
<1>2. Consistent(G')
  BY <1>1
<1> QED
  BY <1>2, SameGraph

-----------------------------------------------------------------------------
(* GraphInv is inductive: one lemma per operation. *)

\* GraphInv holds initially.
LEMMA GraphInit == Init => GraphInv
<1> SUFFICES ASSUME Init PROVE GraphInv
  OBVIOUS
<1>1. SetupOK
  <2>1. PICK s \in Setups : graph = s.graph /\ policy = s.policy /\ max_lateness = s.max_lateness
    BY DEF Init
  <2>2. s \in [graph : Graphs, policy : {"Error", "Drop", "Buffer"}, max_lateness : Time]
    BY KeyedAssumption DEF Graphs
  <2>3. s = [graph |-> s.graph, policy |-> s.policy, max_lateness |-> s.max_lateness]
    BY <2>2
  <2> QED
    BY <2>1, <2>3 DEF SetupOK
<1>2. graph \in Graphs
  BY <1>1, SetupType
<1>3. BufferOK
  <2>1. 0 \in 0 .. MaxArrivals /\ 0 \in 0 .. 0
    BY KeyedAssumption
  <2>2. Queued({}, 0)
    BY FS_EmptySet DEF Queued
  <2>3. <<>> \in Seq(Record)
    OBVIOUS
  <2> QED
    BY <2>1, <2>2, <2>3 DEF Init, BufferOK
<1>4. Consistent(G)
  <2>1. Idle \in OpState /\ ~Idle.open
    BY DEF Idle, OpState
  <2>2. None \in Output
    BY DEF Output
  <2>3. ops \in [Node -> OpState] /\ store \in [Node -> Output]
    BY <2>1, <2>2 DEF Init
  <2>4. timers \in SUBSET Timer /\ next_seq \in Nat /\ emitted \in Seq(Item)
    BY DEF Init
  <2>5. G \in GraphState
    BY <2>3, <2>4 DEF G, GraphState
  <2>6. \A n \in Node : ~ops[n].open /\ Own(timers, n) = {}
    BY <2>1 DEF Init, Own
  <2>7. Follows(ops, timers)
    BY Zenon, <2>6 DEF Follows, Waits
  <2>8. PulsesStarted(ops)
    BY Zenon, <2>6 DEF PulsesStarted
  <2>9. Registered(timers, next_seq)
    BY FS_EmptySet DEF Init, Registered
  <2> QED
    BY <2>5, <2>7, <2>8, <2>9, GraphFields DEF Consistent
<1>5. Clear(G, last_ts)
  BY GraphFields DEF Init, Clear
<1> QED
  BY <1>1, <1>3, <1>4, <1>5 DEF GraphInv

\* The record of a call of step is well-typed.
LEMMA ArrivalRecord ==
  ASSUME BufferOK, NEW ts \in Timestamps, NEW val \in Inputs, NEW r,
         r = [ts |-> ts, val |-> val, rec |-> arrivals + 1], Arrive(r)
  PROVE  /\ r \in Record /\ r.ts \in Time /\ r.val \in Values /\ r.rec = arrivals + 1
         /\ arrivals' = arrivals + 1
         /\ arrivals \in Nat /\ arrivals + 1 \in 1 .. MaxArrivals /\ MaxArrivals \in Nat
         /\ UNCHANGED <<setupVars, flushed>>
<1>1. val \in Values
  BY DEF Inputs
<1>2. arrivals \in Nat /\ arrivals + 1 \in 1 .. MaxArrivals /\ MaxArrivals \in Nat
  BY KeyedAssumption DEF BufferOK, Arrive
<1>3. r \in Record
  BY <1>1, <1>2 DEF Record
<1>4. r.ts \in Time
  BY KeyedAssumption
<1> QED
  BY <1>1, <1>2, <1>3, <1>4 DEF Arrive

\* No operation changes the setup.
LEMMA SetupKept ==
  ASSUME SetupOK, UNCHANGED setupVars
  PROVE  SetupOK' /\ UNCHANGED graph
BY DEF SetupOK, setupVars

\* GraphInv where the graph is left alone.
LEMMA GraphUnchanged ==
  ASSUME GraphInv, UNCHANGED graphVars, UNCHANGED setupVars, UNCHANGED last_ts, BufferOK'
  PROVE  GraphInv'
<1>1. SetupOK' /\ UNCHANGED graph
  BY SetupKept DEF GraphInv
<1>2. Consistent(G)'
  BY <1>1, StillConsistent DEF GraphInv
<1>3. Clear(G, last_ts)'
  <2>1. timers' = timers
    BY DEF graphVars
  <2> QED
    BY <2>1, GraphFields DEF GraphInv, Clear
<1> QED
  BY <1>1, <1>2, <1>3 DEF GraphInv

LEMMA GraphRefused ==
  ASSUME GraphInv, NEW ts \in Timestamps, NEW val \in Inputs,
         StepRefused([ts |-> ts, val |-> val, rec |-> arrivals + 1])
  PROVE  GraphInv'
<1> DEFINE r == [ts |-> ts, val |-> val, rec |-> arrivals + 1]
<1>1. Arrive(r) /\ refused' = refused \cup {r} /\ UNCHANGED <<bufferVars, late_records, graphVars, processed>>
  BY DEF StepRefused
<1>2. /\ r \in Record /\ arrivals' = arrivals + 1 /\ arrivals \in Nat
      /\ arrivals + 1 \in 1 .. MaxArrivals /\ MaxArrivals \in Nat /\ UNCHANGED <<setupVars, flushed>>
  <2> HIDE DEF r
  <2> QED
    BY <1>1, ArrivalRecord DEF GraphInv, r
<1> HIDE DEF r
<1>3. BufferOK'
  BY <1>1, <1>2 DEF GraphInv, BufferOK, bufferVars
<1> QED
  BY <1>1, <1>2, <1>3, GraphUnchanged DEF bufferVars

LEMMA GraphLate ==
  ASSUME GraphInv, NEW ts \in Timestamps, NEW val \in Inputs,
         StepLate([ts |-> ts, val |-> val, rec |-> arrivals + 1])
  PROVE  GraphInv'
<1> DEFINE r == [ts |-> ts, val |-> val, rec |-> arrivals + 1]
<1>1. /\ Arrive(r) /\ refused' = refused \cup {r} /\ late_records' = Append(late_records, r)
      /\ UNCHANGED <<bufferVars, graphVars, processed>>
  BY DEF StepLate
<1>2. /\ r \in Record /\ arrivals' = arrivals + 1 /\ arrivals \in Nat
      /\ arrivals + 1 \in 1 .. MaxArrivals /\ MaxArrivals \in Nat /\ UNCHANGED <<setupVars, flushed>>
  <2> HIDE DEF r
  <2> QED
    BY <1>1, ArrivalRecord DEF GraphInv, r
<1> HIDE DEF r
<1>3. BufferOK'
  BY <1>1, <1>2 DEF GraphInv, BufferOK, bufferVars
<1> QED
  BY <1>1, <1>2, <1>3, GraphUnchanged DEF bufferVars

LEMMA GraphTakesLate ==
  ASSUME GraphInv, TakeLateRecords
  PROVE  GraphInv'
<1>1. /\ late_records' = <<>>
      /\ UNCHANGED <<setupVars, bufferVars, graphVars, processed, arrivals, refused, flushed>>
  BY DEF TakeLateRecords
<1>2. BufferOK'
  BY <1>1 DEF GraphInv, BufferOK, bufferVars
<1> QED
  BY <1>1, <1>2, GraphUnchanged DEF bufferVars

\* After a run of records that ends at the new frontier.
LEMMA GraphAfterRun ==
  ASSUME GraphInv, NEW rs \in Seq(Record), RunAll(rs), UNCHANGED setupVars,
         last_ts' = IF rs = <<>> THEN last_ts ELSE rs[Len(rs)].ts, BufferOK'
  PROVE  GraphInv'
<1>1. SetupOK' /\ UNCHANGED graph /\ graph \in Graphs
  BY SetupKept, SetupType DEF GraphInv
<1>2. RanTo(G, None, {}, rs, Len(rs), G')
  BY <1>1, RunAllRuns DEF GraphInv
<1>3. Consistent(G)'
  BY <1>1, <1>2, SameGraph DEF RanTo
<1>4. Clear(G', last_ts')
  BY <1>2 DEF RanTo, GraphInv
<1>5. Clear(G, last_ts)'
  BY <1>4 DEF Clear
<1> QED
  BY <1>1, <1>3, <1>5 DEF GraphInv

LEMMA GraphThrough ==
  ASSUME GraphInv, NEW ts \in Timestamps, NEW val \in Inputs,
         StepThrough([ts |-> ts, val |-> val, rec |-> arrivals + 1])
  PROVE  GraphInv'
<1> DEFINE r == [ts |-> ts, val |-> val, rec |-> arrivals + 1]
<1>1. /\ Arrive(r) /\ last_ts' = r.ts /\ RunAll(<<r>>)
      /\ UNCHANGED <<pending, pending_seq, max_ts_seen, late_records, refused>>
  BY DEF StepThrough
<1>2. /\ r \in Record /\ r.ts \in Time /\ arrivals' = arrivals + 1 /\ arrivals \in Nat
      /\ arrivals + 1 \in 1 .. MaxArrivals /\ MaxArrivals \in Nat /\ UNCHANGED <<setupVars, flushed>>
  <2> HIDE DEF r
  <2> QED
    BY <1>1, ArrivalRecord DEF GraphInv, r
<1> HIDE DEF r
<1> DEFINE rs == <<r>>
<1>3. rs \in Seq(Record) /\ last_ts' = IF rs = <<>> THEN last_ts ELSE rs[Len(rs)].ts
  BY <1>1, <1>2
<1>4. processed' = processed \o rs
  BY <1>1 DEF RunAll
<1>5. RunAll(rs)
  BY <1>1
<1> HIDE DEF rs
<1>6. processed' \in Seq(Record)
  BY <1>3, <1>4 DEF GraphInv, BufferOK
<1>7. BufferOK'
  BY <1>1, <1>2, <1>6 DEF GraphInv, BufferOK
<1> QED
  BY <1>2, <1>3, <1>5, <1>7, GraphAfterRun

\* What drain_until does to the buffer and to the graph.
LEMMA Drains ==
  ASSUME NEW k, NEW S, Queued(S, k), NEW watermark, DrainUntil(S, watermark)
  PROVE  LET rs == RecordsOf({e \in S : e.ts <= watermark})
         IN  /\ RunAll(rs) /\ rs \in Seq(Record) /\ processed' = processed \o rs
             /\ last_ts' = IF rs = <<>> THEN last_ts ELSE rs[Len(rs)].ts
             /\ Queued(pending', k)
<1> DEFINE D == {e \in S : e.ts <= watermark}
           rs == RecordsOf(D)
           out == PopOrder(D)
<1>1. /\ pending' = {e \in S : e.ts > watermark}
      /\ last_ts' = IF out = <<>> THEN last_ts ELSE out[Len(out)].ts
      /\ RunAll(rs)
  BY DEF DrainUntil, RecordsOf
<1>2. D \in SUBSET S /\ pending' \in SUBSET S
  BY <1>1
<1> HIDE DEF D
<1>3. D \subseteq Entry /\ Heap(D) /\ Queued(pending', k)
  BY <1>2, QueuedPart DEF Queued
<1>4. /\ rs \in Seq(Record) /\ Len(rs) \in Nat /\ Len(out) = Len(rs)
      /\ \A i \in 1 .. Len(rs) : out[i] \in D /\ rs[i] = RecordOf(out[i])
      /\ out = <<>> <=> Len(rs) = 0
  BY <1>3, RecordsOfHeap
<1> HIDE DEF rs, out
<1>5. rs = <<>> <=> Len(rs) = 0
  BY <1>4
<1>6. rs # <<>> => out[Len(out)].ts = rs[Len(rs)].ts
  <2> SUFFICES ASSUME rs # <<>> PROVE out[Len(out)].ts = rs[Len(rs)].ts
    OBVIOUS
  <2>1. Len(rs) \in 1 .. Len(rs)
    BY <1>4, <1>5
  <2>2. out[Len(rs)] \in Entry /\ rs[Len(rs)] = RecordOf(out[Len(rs)])
    BY <1>3, <1>4, <2>1
  <2> QED
    BY <1>4, <2>2, EntryFields
<1>7. processed' = processed \o rs
  BY <1>1 DEF RunAll
<1> QED
  BY <1>1, <1>3, <1>4, <1>5, <1>6, <1>7 DEF rs, D

\* The frontier that a run of records leaves.
LEMMA FrontierIsTime ==
  ASSUME NEW rs \in Seq(Record), NEW x \in Time \cup {None}
  PROVE  (IF rs = <<>> THEN x ELSE rs[Len(rs)].ts) \in Time \cup {None}
<1>1. CASE rs # <<>>
  <2>1. Len(rs) \in DOMAIN rs
    BY <1>1
  <2>2. rs[Len(rs)] \in Record
    BY <2>1
  <2> QED
    BY <1>1, <2>2, KeyedAssumption DEF Record
<1> QED
  BY <1>1

LEMMA GraphBuffered ==
  ASSUME GraphInv, NEW ts \in Timestamps, NEW val \in Inputs,
         StepBuffered([ts |-> ts, val |-> val, rec |-> arrivals + 1])
  PROVE  GraphInv'
<1> DEFINE r == [ts |-> ts, val |-> val, rec |-> arrivals + 1]
           e == [ts |-> r.ts, seq |-> pending_seq, val |-> r.val, rec |-> r.rec]
           w == SatSub(MaxOr(max_ts_seen, r.ts), max_lateness)
<1>1. /\ Arrive(r) /\ pending_seq' = pending_seq + 1 /\ max_ts_seen' = MaxOr(max_ts_seen, r.ts)
      /\ DrainUntil(pending \cup {e}, w)
      /\ UNCHANGED <<late_records, refused>>
  BY DEF StepBuffered
<1>2. /\ r \in Record /\ r.ts \in Time /\ r.val \in Values /\ r.rec = arrivals + 1
      /\ arrivals' = arrivals + 1 /\ arrivals \in Nat
      /\ arrivals + 1 \in 1 .. MaxArrivals /\ MaxArrivals \in Nat /\ UNCHANGED <<setupVars, flushed>>
  <2> HIDE DEF r
  <2> QED
    BY <1>1, ArrivalRecord DEF GraphInv, r
<1>3. r.ts \in Timestamps
  OBVIOUS
<1> HIDE DEF r
<1>4. /\ pending_seq \in Nat /\ pending_seq <= arrivals /\ Queued(pending, pending_seq)
      /\ last_ts \in Time \cup {None} /\ max_ts_seen \in Time \cup {None}
      /\ late_records \in Seq(Record) /\ processed \in Seq(Record) /\ refused \subseteq Record /\ flushed \in BOOLEAN
  BY <1>2 DEF GraphInv, BufferOK
<1>5. e \in Entry /\ e.seq = pending_seq
  BY <1>2, <1>3, <1>4 DEF Entry
<1> HIDE DEF e, w
<1>6. Queued(pending \cup {e}, pending_seq + 1)
  BY <1>4, <1>5, QueuedMore
<1>7. PICK rs \in Seq(Record) :
        /\ RunAll(rs) /\ processed' = processed \o rs
        /\ last_ts' = IF rs = <<>> THEN last_ts ELSE rs[Len(rs)].ts
        /\ Queued(pending', pending_seq + 1)
  BY <1>1, <1>6, Drains
<1>8. max_ts_seen' \in Time \cup {None}
  BY <1>1, <1>2, <1>4 DEF MaxOr
<1>9. last_ts' \in Time \cup {None} /\ processed' \in Seq(Record)
  BY <1>4, <1>7, FrontierIsTime
<1>10. BufferOK'
  <2>1. arrivals + 1 \in 0 .. MaxArrivals /\ pending_seq + 1 \in 0 .. arrivals + 1
    BY <1>2, <1>4
  <2> QED
    BY <1>1, <1>2, <1>4, <1>7, <1>8, <1>9, <2>1 DEF BufferOK
<1> QED
  BY <1>2, <1>7, <1>10, GraphAfterRun

LEMMA GraphAdvanced ==
  ASSUME GraphInv, NEW ts \in Time, AdvanceEventTimeWatermark(ts)
  PROVE  GraphInv' /\ Consistent(G') /\ Emits(G, G', {t \in G.timers : t.ts <= ts}) /\ KeepsOnce(G, G')
<1>1. /\ last_ts' = ts /\ max_ts_seen' = MaxOr(max_ts_seen, ts)
      /\ Becomes(FireDueTimers(G, ts))
      /\ UNCHANGED <<setupVars, pending, pending_seq, late_records, processed, arrivals, refused, flushed>>
  BY DEF AdvanceEventTimeWatermark
<1>2. SetupOK' /\ UNCHANGED graph /\ graph \in Graphs /\ Consistent(G)
  BY <1>1, SetupKept, SetupType DEF GraphInv
<1> DEFINE h == FireDueTimers(G, ts)
<1>3. /\ Consistent(h) /\ h.timers = G.timers \ {t \in G.timers : t.ts <= ts}
      /\ Emits(G, h, {t \in G.timers : t.ts <= ts}) /\ KeepsOnce(G, h)
  BY <1>2, FireDueTimersFires
<1> HIDE DEF h
<1>4. G' = h
  BY <1>1, <1>3, BecomesIt DEF Consistent, h
<1>5. Clear(G', last_ts')
  BY <1>1, <1>2, <1>3, <1>4, NotDueIsLater
<1>6. BufferOK'
  BY <1>1 DEF GraphInv, BufferOK, MaxOr
<1>7. Consistent(G)' /\ Clear(G, last_ts)'
  <2>1. Consistent(G')
    BY <1>3, <1>4
  <2> QED
    BY <1>2, <1>5, <2>1, SameGraph DEF Clear
<1> QED
  BY <1>2, <1>3, <1>4, <1>6, <1>7 DEF GraphInv

\* m is no earlier than base and the first i times.
UpperOf(base, seq, i, m) ==
  /\ m \in Time \cup {None}
  /\ base # None => m # None /\ base <= m
  /\ \A j \in 1 .. i : m # None /\ seq[j] <= m

\* The fold of MaxOr is an upper bound.
LEMMA MaxInTurnIs ==
  ASSUME NEW base \in Time \cup {None}, NEW seq \in Seq(Time)
  PROVE  UpperOf(base, seq, Len(seq), MaxInTurn(base, seq))
<1> DEFINE n == Len(seq)
           S == Time \cup {None}
<1>1. n \in Nat /\ seq \in [1 .. n -> Time]
  OBVIOUS
<1>2. \A m \in S, t \in Time : MaxOr(m, t) \in S
  BY DEF MaxOr
<1>3. PICK f \in [0 .. n -> S] :
        /\ f[0] = base
        /\ \A i \in 1 .. n : f[i] = MaxOr(f[i - 1], seq[i])
        /\ MaxInTurn(base, seq) = f[n]
  <2>1. CanMax(S, Time, base, n, seq)
    BY <1>1, <1>2 DEF CanMax
  <2> QED
    BY <2>1, MaxOrFolds
<1> DEFINE P == {i \in 0 .. n : UpperOf(base, seq, i, f[i])}
<1> HIDE DEF n
<1>4. 0 \in P
  <2>1. base # None => base \in Int
    BY TimeIsInt
  <2>2. UpperOf(base, seq, 0, base)
    BY <2>1 DEF UpperOf
  <2> QED
    BY <1>1, <1>3, <2>2
<1>5. ASSUME NEW i \in 0 .. n - 1, i \in P
      PROVE  i + 1 \in P
  <2> DEFINE k == i + 1
             m == f[i]
             t == seq[k]
  <2>1. k \in 1 .. n /\ k - 1 = i /\ k \in 0 .. n /\ \A j \in 1 .. k : j = k \/ j \in 1 .. i
    BY <1>1
  <2>2. f[k] = MaxOr(m, t) /\ t \in Time /\ t \in Int /\ t # None
    BY <1>1, <1>3, <2>1, TimeIsInt, TimeAssumption
  <2>3. UpperOf(base, seq, i, m)
    BY <1>5
  <2>4. (m # None => m \in Int) /\ (base # None => base \in Int) /\ m \in Time \cup {None}
        /\ \A j \in 1 .. i : seq[j] \in Int
    BY <1>1, <2>1, <2>3, TimeIsInt DEF UpperOf
  <2> HIDE DEF k, m, P
  <2>5. UpperOf(base, seq, k, MaxOr(m, t))
    <3>1. CASE m = None \/ m < t
      <4>1. MaxOr(m, t) = t
        BY <3>1 DEF MaxOr
      <4>2. \A j \in 1 .. i : seq[j] <= t
        BY <2>2, <2>3, <2>4, <3>1 DEF UpperOf
      <4>3. base # None => base <= t
        BY <2>2, <2>3, <2>4, <3>1 DEF UpperOf
      <4>4. t <= t
        BY <2>2
      <4> HIDE DEF t
      <4>5. \A j \in 1 .. k : seq[j] <= t
        BY <2>1, <4>2, <4>4 DEF t
      <4> QED
        BY <2>2, <4>1, <4>3, <4>5 DEF UpperOf
    <3>2. CASE ~(m = None \/ m < t)
      <4>1. MaxOr(m, t) = m /\ t <= m
        BY <2>2, <2>4, <3>2 DEF MaxOr
      <4>2. \A j \in 1 .. k : seq[j] <= m
        BY <2>1, <2>3, <4>1 DEF UpperOf
      <4> QED
        BY <2>3, <2>4, <3>2, <4>1, <4>2 DEF UpperOf
    <3> QED
      BY <3>1, <3>2
  <2> QED
    BY <2>1, <2>2, <2>5 DEF P, k
<1> HIDE DEF P
<1>6. n \in P
  <2>1. 0 .. n \subseteq P
    BY <1>1, <1>4, <1>5, CountUp
  <2> QED
    BY <1>1, <2>1
<1> QED
  BY <1>3, <1>6 DEF P, n

\* The times of the items that h emitted after d.
Fresh(d, h) == [i \in 1 .. Len(h.out) - Len(d.out) |-> h.out[Len(d.out) + i].ts]

\* What flush does: it runs the records rs, and from the state d they lead to it
\* fires the timers that are left.
Flushes(rs, d) ==
  /\ Consistent(G') /\ G'.timers = {}
  /\ Emits(d, G', d.timers) /\ KeepsOnce(d, G')
  /\ last_ts' \in Time \cup {None}
  /\ LET base == IF rs = <<>> THEN last_ts ELSE rs[Len(rs)].ts
     IN  base # None => last_ts' # None /\ base <= last_ts'
  /\ \A j \in Len(d.out) + 1 .. Len(emitted') : last_ts' # None /\ emitted'[j].ts <= last_ts'

\* What flush does to the graph: it runs the buffer, then fires every timer.
LEMMA GraphFlushed ==
  ASSUME GraphInv, Flush, NEW x, NEW R
  PROVE  LET rs == RecordsOf(pending)
             d  == RunInTurn(G, rs)
         IN  /\ rs \in Seq(Record) /\ RanTo(G, x, R, rs, Len(rs), d)
             /\ processed' = processed \o rs
             /\ Flushes(rs, d)
<1> DEFINE out == PopOrder(pending)
           rs == RecordsOf(pending)
           d == RunInTurn(G, rs)
           h == FireAll(d)
           base == IF out = <<>> THEN last_ts ELSE Last(out).ts
<1>1. /\ Becomes(h) /\ processed' = processed \o rs
      /\ last_ts' = MaxInTurn(base, Fresh(d, h))
      /\ UNCHANGED graph
  BY DEF Flush, RecordsOf, RunInTurn, MaxInTurn, Fresh, setupVars
<1>2. graph \in Graphs /\ Consistent(G) /\ last_ts \in Time \cup {None} /\ Queued(pending, pending_seq)
  BY SetupType DEF GraphInv, BufferOK
<1>3. pending \subseteq Entry /\ Heap(pending)
  BY <1>2, QueuedPart DEF Queued
<1>4. /\ rs \in Seq(Record) /\ Len(rs) \in Nat /\ Len(out) = Len(rs)
      /\ \A i \in 1 .. Len(rs) : out[i] \in pending /\ rs[i] = RecordOf(out[i])
      /\ out = <<>> <=> Len(rs) = 0
  BY <1>3, RecordsOfHeap
<1> HIDE DEF rs, out
<1>5. RanTo(G, x, R, rs, Len(rs), d)
  BY <1>2, <1>4, RunInTurnRuns
<1>6. Consistent(d)
  BY <1>5 DEF RanTo
<1> HIDE DEF d
<1>7. Consistent(h) /\ h.timers = {} /\ Emits(d, h, d.timers) /\ KeepsOnce(d, h)
  BY <1>2, <1>6, FireAllFires
<1> HIDE DEF h
<1>8. G' = h
  BY <1>1, <1>7, BecomesIt DEF Consistent
<1>9. base = IF rs = <<>> THEN last_ts ELSE rs[Len(rs)].ts
  <2>1. CASE rs = <<>>
    BY <1>4, <2>1
  <2>2. CASE rs # <<>>
    <3>1. Len(rs) \in 1 .. Len(rs) /\ out # <<>>
      BY <1>4, <2>2
    <3>2. Last(out) = out[Len(rs)]
      BY <1>4 DEF Last
    <3>3. out[Len(rs)] \in Entry /\ rs[Len(rs)] = RecordOf(out[Len(rs)])
      BY <1>3, <1>4, <3>1
    <3> QED
      BY <2>2, <3>1, <3>2, <3>3, EntryFields
  <2> QED
    BY <2>1, <2>2
<1>10. base \in Time \cup {None}
  BY <1>2, <1>4, <1>9, FrontierIsTime
<1> HIDE DEF base
<1> DEFINE n == Len(d.out)
           m == Len(h.out)
           fresh == Fresh(d, h)
<1>11. n \in Nat /\ m \in Nat /\ n <= m /\ \A j \in 1 .. m : h.out[j].ts \in Time
  <2>1. d \in GraphState /\ h \in GraphState
    BY <1>6, <1>7 DEF Consistent
  <2> QED
    BY <1>7, <2>1, ItemTimes DEF Emits
<1>12. fresh = [i \in 1 .. m - n |-> h.out[n + i].ts]
  BY DEF Fresh
<1> HIDE DEF n, m, fresh
<1>13. \A i \in 1 .. m - n : h.out[n + i].ts \in Time
  <2>1. \A i \in 1 .. m - n : n + i \in 1 .. m
    BY <1>11
  <2> QED
    BY <1>11, <2>1
<1>14. fresh \in Seq(Time) /\ Len(fresh) = m - n
  <2>1. m - n \in Nat
    BY <1>11
  <2>2. fresh \in [1 .. m - n -> Time]
    BY <1>12, <1>13
  <2> QED
    BY <2>1, <2>2
<1>15. UpperOf(base, fresh, m - n, last_ts')
  <2>1. last_ts' = MaxInTurn(base, fresh)
    BY <1>1 DEF fresh
  <2> QED
    BY <1>10, <1>14, <2>1, MaxInTurnIs
<1>16. ASSUME NEW j \in n + 1 .. m
       PROVE  last_ts' # None /\ emitted'[j].ts <= last_ts'
  <2>1. j - n \in 1 .. m - n /\ n + (j - n) = j
    BY <1>11
  <2>2. last_ts' # None /\ fresh[j - n] <= last_ts'
    BY <1>15, <2>1 DEF UpperOf
  <2>3. fresh[j - n] = h.out[j]. ts
    BY <1>12, <2>1
  <2> QED
    BY <1>8, <2>2, <2>3, GraphFields
<1>17. Flushes(rs, d)
  <2>1. Len(emitted') = m
    BY <1>8, GraphFields DEF m
  <2>2. last_ts' \in Time \cup {None} /\ (base # None => last_ts' # None /\ base <= last_ts')
    BY <1>15 DEF UpperOf
  <2> QED
    BY <1>7, <1>8, <1>9, <1>16, <2>1, <2>2 DEF Flushes, n
<1> QED
  BY <1>1, <1>4, <1>5, <1>17 DEF rs, d

LEMMA GraphFlush ==
  ASSUME GraphInv, Flush
  PROVE  GraphInv'
<1> DEFINE rs == RecordsOf(pending)
           d == RunInTurn(G, rs)
<1>1. /\ rs \in Seq(Record) /\ processed' = processed \o rs /\ Flushes(rs, d)
  BY GraphFlushed
<1> HIDE DEF rs, d
<1>2. /\ flushed' = TRUE /\ pending' = {}
      /\ UNCHANGED <<setupVars, pending_seq, max_ts_seen, late_records, arrivals, refused>>
  BY DEF Flush
<1>3. SetupOK' /\ UNCHANGED graph
  BY <1>2, SetupKept DEF GraphInv
<1>4. Consistent(G') /\ G'.timers = {} /\ last_ts' \in Time \cup {None}
  BY <1>1 DEF Flushes
<1>5. Consistent(G)'
  BY <1>3, <1>4, SameGraph
<1>6. Clear(G, last_ts)'
  BY <1>4 DEF Clear
<1>7. BufferOK'
  <2>1. Queued({}, pending_seq)
    BY FS_EmptySet DEF Queued
  <2>2. processed' \in Seq(Record)
    BY <1>1 DEF GraphInv, BufferOK
  <2> QED
    BY <1>2, <1>4, <2>1, <2>2 DEF GraphInv, BufferOK
<1> QED
  BY <1>3, <1>5, <1>6, <1>7 DEF GraphInv

LEMMA GraphStep ==
  ASSUME GraphInv, NEW ts \in Timestamps, NEW val \in Inputs,
         Step([ts |-> ts, val |-> val, rec |-> arrivals + 1])
  PROVE  GraphInv'
<1> DEFINE r == [ts |-> ts, val |-> val, rec |-> arrivals + 1]
<1>1. StepRefused(r) \/ StepLate(r) \/ StepThrough(r) \/ StepBuffered(r)
  BY DEF Step
<1> QED
  BY <1>1, GraphRefused, GraphLate, GraphThrough, GraphBuffered

LEMMA GraphStutters ==
  ASSUME GraphInv, UNCHANGED vars
  PROVE  GraphInv'
<1>1. UNCHANGED <<setupVars, bufferVars, late_records, graphVars, processed, arrivals, refused, flushed>>
  BY DEF vars
<1>2. BufferOK'
  BY <1>1 DEF GraphInv, BufferOK, bufferVars
<1> QED
  BY <1>1, <1>2, GraphUnchanged DEF bufferVars

\* Every watermark is a timestamp.
LEMMA WatermarksAreTimes ==
  /\ Watermarks \subseteq Time
  /\ GraphInv /\ max_ts_seen # None => ReleaseWatermark \in Time
<1>1. Watermarks \subseteq Time
  BY KeyedAssumption
<1>2. GraphInv /\ max_ts_seen # None => ReleaseWatermark \in Time
  <2> SUFFICES ASSUME GraphInv, max_ts_seen # None PROVE ReleaseWatermark \in Time
    OBVIOUS
  <2>1. max_ts_seen \in Time /\ max_lateness \in Time
    BY SetupType DEF GraphInv, BufferOK
  <2> QED
    BY <2>1, TimeIsInt, Saturates DEF ReleaseWatermark
<1> QED
  BY <1>1, <1>2

\* GraphInv is inductive, with any watermarks and with the driver's.
LEMMA GraphNext == GraphInv /\ [Next]_vars => GraphInv'
<1> SUFFICES ASSUME GraphInv, [Next]_vars PROVE GraphInv'
  OBVIOUS
<1>1. CASE \E ts \in Timestamps, val \in Inputs : Step([ts |-> ts, val |-> val, rec |-> arrivals + 1])
  BY <1>1, GraphStep
<1>2. CASE \E ts \in Watermarks : AdvanceEventTimeWatermark(ts)
  BY <1>2, GraphAdvanced, WatermarksAreTimes
<1>3. CASE Flush
  BY <1>3, GraphFlush
<1>4. CASE TakeLateRecords
  BY <1>4, GraphTakesLate
<1>5. CASE UNCHANGED vars
  BY <1>5, GraphStutters
<1> QED
  BY <1>1, <1>2, <1>3, <1>4, <1>5 DEF Next

LEMMA GraphDrivenNext == GraphInv /\ [DrivenNext]_vars => GraphInv'
<1> SUFFICES ASSUME GraphInv, [DrivenNext]_vars PROVE GraphInv'
  OBVIOUS
<1>1. CASE \E ts \in Timestamps, val \in Inputs : Step([ts |-> ts, val |-> val, rec |-> arrivals + 1])
  BY <1>1, GraphStep
<1>2. CASE DriverAdvances
  BY <1>2, GraphAdvanced, WatermarksAreTimes DEF DriverAdvances
<1>3. CASE Flush
  BY <1>3, GraphFlush
<1>4. CASE TakeLateRecords
  BY <1>4, GraphTakesLate
<1>5. CASE UNCHANGED vars
  BY <1>5, GraphStutters
<1> QED
  BY <1>1, <1>2, <1>3, <1>4, <1>5 DEF DrivenNext

LEMMA GraphHolds == Spec => []GraphInv
BY GraphInit, GraphNext, PTL DEF Spec

LEMMA GraphDrivenHolds == DrivenSpec => []GraphInv
BY GraphInit, GraphDrivenNext, PTL DEF DrivenSpec

\* GraphInv contains the type invariant.
LEMMA GraphIsTyped == GraphInv => TypeOK
<1> SUFFICES ASSUME GraphInv PROVE TypeOK
  OBVIOUS
<1>1. /\ MaxArrivals \in Nat /\ arrivals \in 0 .. MaxArrivals /\ pending_seq \in 0 .. arrivals
  BY KeyedAssumption DEF GraphInv, BufferOK
<1>2. pending_seq \in 0 .. MaxArrivals
  BY <1>1
<1>3. pending \subseteq [ts : Timestamps, seq : 0 .. MaxArrivals - 1, val : Values, rec : 1 .. MaxArrivals]
  <2> SUFFICES ASSUME NEW e \in pending
               PROVE  e \in [ts : Timestamps, seq : 0 .. MaxArrivals - 1, val : Values, rec : 1 .. MaxArrivals]
    OBVIOUS
  <2>1. e \in Entry /\ e.seq < pending_seq
    BY DEF GraphInv, BufferOK, Queued
  <2>2. e.seq \in 0 .. MaxArrivals - 1
    BY <1>1, <2>1 DEF Entry
  <2> QED
    BY <2>1, <2>2 DEF Entry
<1>4. timers \subseteq [ts : Time, seq : 0 .. next_seq - 1, node : Node] /\ next_seq \in Nat
  <2>1. next_seq \in Nat /\ timers \subseteq Timer /\ \A t \in timers : t.seq < next_seq
    BY GraphFields DEF GraphInv, Consistent, GraphState, Registered
  <2> SUFFICES ASSUME NEW t \in timers
               PROVE  t \in [ts : Time, seq : 0 .. next_seq - 1, node : Node]
    BY <2>1
  <2>2. t \in Timer /\ t.seq \in 0 .. next_seq - 1
    BY <2>1 DEF Timer
  <2> QED
    BY <2>2 DEF Timer
<1>5. ops \in [Node -> OpState] /\ store \in [Node -> Output] /\ emitted \in Seq(Item)
  BY GraphFields DEF GraphInv, Consistent, GraphState
<1>6. [graph |-> graph, policy |-> policy, max_lateness |-> max_lateness] \in Setups
  BY DEF GraphInv, SetupOK
<1>7. /\ last_ts \in Time \cup {None} /\ max_ts_seen \in Time \cup {None}
      /\ late_records \in Seq(Record) /\ processed \in Seq(Record)
      /\ refused \subseteq Record /\ flushed \in BOOLEAN
  BY DEF GraphInv, BufferOK
<1> HIDE KeyedAssumption
<1> QED
  BY <1>1, <1>2, <1>3, <1>4, <1>5, <1>6, <1>7 DEF TypeOK, OpState, Item

\* Whatever records and watermarks come, every variable of KeyedGraphState keeps its
\* type; in particular saturation keeps every timer and every item within i64.
THEOREM TypeCorrect == Spec => []TypeOK
BY GraphHolds, GraphIsTyped, PTL

\* While its window or pulse is open a node waits for exactly one timer, between
\* windows for none, and no timer is of the past: register, delete and the firing of
\* fire_due_timers and flush neither lose a timer nor leak one.
THEOREM WindowsKeepTheirTimers ==
  ASSUME NeverSaturated
  PROVE  Spec => []TimersFollowTheWindows
<1>1. GraphInv => TimersFollowTheWindows
  <2> SUFFICES ASSUME GraphInv PROVE TimersFollowTheWindows
    OBVIOUS
  <2>1. Follows(ops, timers) /\ Clear(G, last_ts)
    BY GraphFields DEF GraphInv, Consistent
  <2>2. \A t \in timers : last_ts # None /\ last_ts < t.ts
    BY <2>1, GraphFields DEF Clear, Later
  <2>3. \A n \in Node :
          LET own == {t \in timers : t.node = n}
          IN  IF ops[n].open THEN \E t \in own : own = {t} /\ t.ts = ops[n].due
              ELSE own = {}
    BY Zenon, <2>1 DEF Follows, Waits, Own
  <2> QED
    BY Zenon, <2>2, <2>3 DEF TimersFollowTheWindows
<1> QED
  BY <1>1, GraphHolds, PTL

\* The same without the hypothesis on saturation: a timer may then be due at the
\* frontier itself, and no earlier.
TimersKeepUp ==
  /\ Follows(ops, timers)
  /\ \A t \in timers : last_ts # None /\ last_ts <= t.ts

\* Timers follow the windows for a gap of zero and at the end of time too: the delete
\* and register of the operators leave each open window its one timer.
THEOREM TimersNeverLag == Spec => []TimersKeepUp
<1>1. GraphInv => TimersKeepUp
  BY GraphFields DEF GraphInv, Consistent, Clear, Later, TimersKeepUp
<1> QED
  BY <1>1, GraphHolds, PTL

-----------------------------------------------------------------------------
(* Each window is emitted once: no record is run twice. *)

\* The numbers of the records that have been run.
Done == Recs(processed, Len(processed))

\* The entries of S are distinct records, none of R and none later than the k-th.
Unread(S, R, k) ==
  /\ \A e \in S : e.rec \notin R /\ e.rec <= k
  /\ \A e, f \in S : e.rec = f.rec => e = f

\* No record that is buffered has been run, and OncePer holds.
OnceInv ==
  /\ GraphInv
  /\ Unread(pending, Done, arrivals)
  /\ \A k \in Done : k <= arrivals
  /\ OncePer(G, Done)

\* The numbers of the records run so far.
LEMMA DoneSoFar ==
  ASSUME processed \in Seq(Record)
  PROVE  Done \subseteq 1 .. MaxArrivals /\ (UNCHANGED processed => Done' = Done)
         /\ \A rs \in Seq(Record) : processed' = processed \o rs => Done' = Done \cup Recs(rs, Len(rs))
<1>1. Done \subseteq 1 .. MaxArrivals
  <2> SUFFICES ASSUME NEW j \in 1 .. Len(processed) PROVE processed[j].rec \in 1 .. MaxArrivals
    BY DEF Done, Recs
  <2>1. processed[j] \in Record
    OBVIOUS
  <2> QED
    BY <2>1 DEF Record
<1>2. UNCHANGED processed => Done' = Done
  BY DEF Done, Recs
<1>3. ASSUME NEW rs \in Seq(Record), processed' = processed \o rs
      PROVE  Done' = Done \cup Recs(rs, Len(rs))
  <2> DEFINE n == Len(processed)
             m == Len(rs)
             p == processed \o rs
  <2>1. n \in Nat /\ m \in Nat /\ Len(p) = n + m
    OBVIOUS
  <2>2. \A j \in 1 .. n : p[j] = processed[j]
    OBVIOUS
  <2>3. \A j \in 1 .. m : p[n + j] = rs[j]
    OBVIOUS
  <2> HIDE DEF n, m, p
  <2>4. Recs(p, n + m) = Recs(processed, n) \cup Recs(rs, m)
    <3>1. ASSUME NEW j \in 1 .. n + m
          PROVE  p[j].rec \in Recs(processed, n) \cup Recs(rs, m)
      <4>1. CASE j \in 1 .. n
        BY <2>2, <4>1 DEF Recs
      <4>2. CASE j \notin 1 .. n
        <5>1. j - n \in 1 .. m /\ n + (j - n) = j
          BY <2>1, <4>2
        <5>2. p[j] = rs[j - n]
          BY <2>3, <5>1
        <5> QED
          BY <5>1, <5>2 DEF Recs
      <4> QED
        BY <4>1, <4>2
    <3>2. ASSUME NEW j \in 1 .. n
          PROVE  processed[j].rec \in Recs(p, n + m)
      <4>1. j \in 1 .. n + m
        BY <2>1
      <4> QED
        BY <2>2, <4>1 DEF Recs
    <3>3. ASSUME NEW j \in 1 .. m
          PROVE  rs[j].rec \in Recs(p, n + m)
      <4>1. n + j \in 1 .. n + m
        BY <2>1
      <4>2. p[n + j].rec = rs[j].rec
        BY <2>3
      <4> QED
        BY <4>1, <4>2 DEF Recs
    <3>4. /\ \A k \in Recs(p, n + m) : \E j \in 1 .. n + m : k = p[j].rec
          /\ \A k \in Recs(processed, n) : \E j \in 1 .. n : k = processed[j].rec
          /\ \A k \in Recs(rs, m) : \E j \in 1 .. m : k = rs[j].rec
      BY DEF Recs
    <3> QED
      BY <3>1, <3>2, <3>3, <3>4
  <2> QED
    BY <1>3, <2>1, <2>4 DEF Done, n, m, p
<1> QED
  BY <1>1, <1>2, <1>3

\* A part D of the buffer is popped.
LEMMA PoppedRecs ==
  ASSUME NEW D, D \subseteq Entry, Heap(D)
  PROVE  LET rs == RecordsOf(D)
         IN  /\ Recs(rs, Len(rs)) = {e.rec : e \in D}
             /\ \A g, R, k : OncePer(g, R) /\ Unread(D, R, k) => NewTo(g, R, rs)
<1> DEFINE rs == RecordsOf(D)
           out == PopOrder(D)
           n == Len(rs)
<1>1. /\ rs \in Seq(Record) /\ n \in Nat /\ DOMAIN rs = 1 .. n
      /\ \A i \in 1 .. n : out[i] \in D /\ rs[i] = RecordOf(out[i])
      /\ \A i, j \in 1 .. n : i < j => Before(out[i], out[j])
      /\ \A e \in D : \E i \in 1 .. n : out[i] = e
  BY RecordsOfHeap
<1>2. \A e \in D : ~Before(e, e)
  BY BeforeOrder
<1> HIDE DEF rs, out, n
<1>3. \A i \in 1 .. n : rs[i].rec = out[i].rec
  BY <1>1, EntryFields
<1>4. Recs(rs, n) = {e.rec : e \in D}
  BY <1>1, <1>3 DEF Recs
<1>5. ASSUME NEW g, NEW R, NEW k, OncePer(g, R), Unread(D, R, k)
      PROVE  NewTo(g, R, rs)
  <2>1. ASSUME NEW i \in 1 .. n, NEW j \in 1 .. n, i # j
        PROVE  rs[i].rec # rs[j].rec
    <3>1. i < j \/ j < i
      BY <2>1
    <3>2. out[i] # out[j]
      BY <1>1, <1>2, <3>1
    <3>3. out[i].rec # out[j].rec
      BY <1>1, <1>5, <3>2 DEF Unread
    <3> QED
      BY <1>3, <3>3
  <2>2. \A i \in 1 .. n : rs[i].rec \notin R
    BY <1>1, <1>3, <1>5 DEF Unread
  <2> QED
    BY <1>1, <1>5, <2>1, <2>2 DEF NewTo
<1> QED
  BY <1>4, <1>5 DEF rs, n

\* OncePer of the next state, from those of its parts.
LEMMA SameOnce ==
  ASSUME UNCHANGED graph, OncePer(G', Done')
  PROVE  OncePer(G, Done)'
<1> DEFINE R == Done'
<1> HIDE DEF R
<1>1. OncePer(G', R)
  BY DEF R
<1>2. OneSum' = OneSum
  BY DEF OneSum
<1>3. OncePer(G', R) <=> (OneSum =>
    /\ G'.ops[1].acc \subseteq R
    /\ \A i \in DOMAIN G'.out : G'.out[i].value[1] # None =>
         G'.out[i].value[1].sum \subseteq R /\ G'.out[i].value[1].sum \cap G'.ops[1].acc = {}
    /\ \A i, j \in DOMAIN G'.out :
         i # j /\ G'.out[i].value[1] # None /\ G'.out[j].value[1] # None =>
           G'.out[i].value[1].sum \cap G'.out[j].value[1].sum = {})
  BY Zenon DEF OncePer
<1> QED
  BY <1>1, <1>2, <1>3 DEF OncePer, R

\* The records of D, a part of S, are run, and the rest of S is what is left.
LEMMA OnceRun ==
  ASSUME OnceInv, GraphInv', UNCHANGED graph,
         NEW k \in Nat, NEW S, Queued(S, k), NEW n \in Nat, Unread(S, Done, n), arrivals <= n,
         NEW D \in SUBSET S, pending' = S \ D, arrivals' = n,
         processed' = processed \o RecordsOf(D),
         OncePer(G', Done \cup Recs(RecordsOf(D), Len(RecordsOf(D))))
  PROVE  OnceInv'
<1>1. D \subseteq Entry /\ Heap(D)
  BY QueuedPart DEF Queued
<1> DEFINE rs == RecordsOf(D)
<1>2. rs \in Seq(Record)
  BY <1>1, RecordsOfHeap
<1>3. Recs(rs, Len(rs)) = {e.rec : e \in D}
  BY <1>1, PoppedRecs
<1>4. processed \in Seq(Record) /\ arrivals \in Nat
  BY DEF OnceInv, GraphInv, BufferOK
<1>5. Done' = Done \cup Recs(rs, Len(rs))
  BY <1>2, <1>4, DoneSoFar
<1> HIDE DEF rs
<1>6. Unread(pending, Done, arrivals)'
  BY <1>3, <1>5 DEF Unread
<1>7. \A i \in Done' : i <= arrivals'
  <2>1. \A i \in Done : i <= arrivals /\ i \in Int
    <3>1. \A i \in 1 .. MaxArrivals : i \in Int
      BY KeyedAssumption
    <3> QED
      BY <1>4, <3>1, DoneSoFar DEF OnceInv
  <2>2. \A e \in D : e.rec <= n
    BY DEF Unread
  <2> QED
    BY <1>3, <1>4, <1>5, <2>1, <2>2
<1>8. OncePer(G, Done)'
  <2>1. OncePer(G', Done')
    BY <1>5 DEF rs
  <2> QED
    BY <2>1, SameOnce
<1> QED
  BY <1>6, <1>7, <1>8 DEF OnceInv

\* OnceInv where no record is run.
LEMMA OnceKept ==
  ASSUME OnceInv, GraphInv', UNCHANGED graph, UNCHANGED <<pending, processed>>,
         arrivals' = arrivals \/ arrivals' = arrivals + 1, OncePer(G', Done)
  PROVE  OnceInv'
<1>1. Done' = Done
  BY DoneSoFar DEF GraphInv, BufferOK
<1>2. arrivals \in Nat /\ (\A e \in pending : e.rec \in Int) /\ (\A k \in Done : k \in Int)
  <2>1. processed \in Seq(Record) /\ pending \subseteq Entry /\ arrivals \in Nat /\ MaxArrivals \in Nat
    BY KeyedAssumption DEF OnceInv, GraphInv, BufferOK, Queued
  <2>2. Done \subseteq 1 .. MaxArrivals /\ \A e \in pending : e.rec \in 1 .. MaxArrivals
    BY <2>1, DoneSoFar, EntryFields
  <2>3. \A k \in 1 .. MaxArrivals : k \in Int
    BY <2>1
  <2> QED
    BY <2>1, <2>2, <2>3
<1>3. Unread(pending, Done, arrivals)' /\ \A k \in Done' : k <= arrivals'
  BY <1>1, <1>2 DEF OnceInv, Unread
<1>4. OncePer(G, Done)'
  BY <1>1, SameOnce
<1> QED
  BY <1>3, <1>4 DEF OnceInv

LEMMA OnceInit == Init => OnceInv
<1> SUFFICES ASSUME Init PROVE OnceInv
  OBVIOUS
<1>1. GraphInv
  BY GraphInit
<1>2. Done = {}
  BY DEF Init, Done, Recs
<1>3. Unread(pending, Done, arrivals)
  BY DEF Init, Unread
<1>4. OncePer(G, Done)
  <2> SUFFICES ASSUME OneSum PROVE OncePer(G, Done)
    BY DEF OncePer
  <2>1. 1 \in Node
    BY SetupType DEF OneSum, GraphInv, Node, Graphs
  <2>2. ops[1].acc = {} /\ DOMAIN emitted = {}
    BY <2>1 DEF Init, Idle
  <2> QED
    BY <1>2, <2>2, GraphFields DEF OncePer
<1> QED
  BY <1>1, <1>2, <1>3, <1>4 DEF OnceInv

LEMMA GraphStays ==
  ASSUME UNCHANGED graphVars
  PROVE  G' = G
BY DEF graphVars, G

LEMMA OnceThrough ==
  ASSUME OnceInv, GraphInv', NEW ts \in Timestamps, NEW val \in Inputs,
         StepThrough([ts |-> ts, val |-> val, rec |-> arrivals + 1])
  PROVE  OnceInv'
<1> DEFINE r == [ts |-> ts, val |-> val, rec |-> arrivals + 1]
           rs == <<r>>
           n == arrivals + 1
<1>0. GraphInv /\ BufferOK /\ graph \in Graphs /\ Consistent(G)
  BY SetupType DEF OnceInv, GraphInv
<1>1. /\ Arrive(r) /\ RunAll(rs) /\ UNCHANGED <<pending, pending_seq, max_ts_seen, late_records, refused>>
  BY DEF StepThrough
<1>2. /\ r \in Record /\ r.rec = n /\ arrivals' = n /\ arrivals \in Nat /\ UNCHANGED graph
  <2> HIDE DEF r
  <2> QED
    BY <1>0, <1>1, ArrivalRecord DEF r, setupVars
<1> HIDE DEF r
<1>3. rs \in Seq(Record) /\ Len(rs) = 1 /\ DOMAIN rs = 1 .. 1 /\ rs[1] = r
  BY <1>2
<1> HIDE DEF rs
<1>4. processed \in Seq(Record) /\ \A k \in Done : k <= arrivals /\ k \in Int
  <2>1. processed \in Seq(Record) /\ MaxArrivals \in Nat
    BY <1>0, KeyedAssumption DEF BufferOK
  <2>2. \A k \in 1 .. MaxArrivals : k \in Int
    BY <2>1
  <2> QED
    BY <2>1, <2>2, DoneSoFar DEF OnceInv
<1>5. NewTo(G, Done, rs)
  <2>1. n \notin Done
    BY <1>2, <1>4
  <2> QED
    BY <1>2, <1>3, <2>1 DEF NewTo, OnceInv
<1>6. RanTo(G, None, Done, rs, Len(rs), G') /\ processed' = processed \o rs
  BY <1>0, <1>1, <1>3, RunAllRuns
<1>7. OncePer(G', Done \cup Recs(rs, Len(rs)))
  BY <1>5, <1>6 DEF RanTo
<1>8. Recs(rs, Len(rs)) = {n}
  BY <1>2, <1>3 DEF Recs
<1>9. Done' = Done \cup {n}
  BY <1>3, <1>4, <1>6, <1>8, DoneSoFar
<1>10. Unread(pending, Done, arrivals)' /\ \A k \in Done' : k <= arrivals'
  <2>1. \A e \in pending : e.rec \in Int
    <3>1. \A e \in pending : e.rec \in 1 .. MaxArrivals
      BY <1>0, EntryFields DEF BufferOK, Queued
    <3>2. \A k \in 1 .. MaxArrivals : k \in Int
      BY KeyedAssumption
    <3> QED
      BY <3>1, <3>2
  <2> QED
    BY <1>1, <1>2, <1>4, <1>9, <2>1 DEF OnceInv, Unread
<1>11. OncePer(G, Done)'
  BY <1>2, <1>7, <1>8, <1>9, SameOnce
<1> QED
  BY <1>10, <1>11 DEF OnceInv

LEMMA OnceBuffered ==
  ASSUME OnceInv, GraphInv', NEW ts \in Timestamps, NEW val \in Inputs,
         StepBuffered([ts |-> ts, val |-> val, rec |-> arrivals + 1])
  PROVE  OnceInv'
<1> DEFINE r == [ts |-> ts, val |-> val, rec |-> arrivals + 1]
           e == [ts |-> r.ts, seq |-> pending_seq, val |-> r.val, rec |-> r.rec]
           w == SatSub(MaxOr(max_ts_seen, r.ts), max_lateness)
           S == pending \cup {e}
           D == {f \in S : f.ts <= w}
           n == arrivals + 1
<1>0. GraphInv /\ BufferOK /\ graph \in Graphs /\ Consistent(G)
  BY SetupType DEF OnceInv, GraphInv
<1>1. Arrive(r) /\ DrainUntil(S, w)
  BY DEF StepBuffered
<1>2. /\ r \in Record /\ r.val \in Values /\ r.ts \in Time /\ r.rec = n /\ arrivals' = n
      /\ arrivals \in Nat /\ n \in Nat /\ n \in 1 .. MaxArrivals /\ UNCHANGED graph
  <2> HIDE DEF r
  <2> QED
    BY <1>0, <1>1, ArrivalRecord DEF r, setupVars
<1>3. r.ts \in Timestamps
  OBVIOUS
<1> HIDE DEF r
<1>4. pending_seq \in Nat /\ Queued(pending, pending_seq) /\ processed \in Seq(Record)
  BY <1>0 DEF BufferOK
<1>5. e \in Entry /\ e.seq = pending_seq /\ e.rec = n
  BY <1>2, <1>3, <1>4 DEF Entry
<1>6. w \in Int
  BY <1>0, <1>2, TimeIsInt, Saturates, SetupType DEF GraphInv, BufferOK, MaxOr
<1> HIDE DEF e, w
<1>7. Queued(S, pending_seq + 1) /\ pending_seq + 1 \in Nat
  BY <1>4, <1>5, QueuedMore
<1>8. Unread(S, Done, n) /\ arrivals <= n
  <2>1. \A k \in Done : k <= arrivals /\ k \in Int
    <3>1. \A k \in 1 .. MaxArrivals : k \in Int
      BY KeyedAssumption
    <3> QED
      BY <1>4, <3>1, DoneSoFar DEF OnceInv
  <2>2. \A f \in pending : f.rec \in Int
    <3>1. \A f \in pending : f.rec \in 1 .. MaxArrivals
      BY <1>4, EntryFields DEF Queued
    <3>2. \A k \in 1 .. MaxArrivals : k \in Int
      BY KeyedAssumption
    <3> QED
      BY <3>1, <3>2
  <2> QED
    BY <1>2, <1>5, <2>1, <2>2 DEF OnceInv, Unread
<1>9. D \in SUBSET S /\ pending' = S \ D
  <2>1. \A f \in S : f.ts \in Int
    BY <1>7, EntryFields DEF Queued
  <2> QED
    BY <1>1, <1>6, <2>1 DEF DrainUntil
<1>10. RunAll(RecordsOf(D)) /\ RecordsOf(D) \in Seq(Record) /\ processed' = processed \o RecordsOf(D)
  BY <1>1, <1>7, Drains
<1> HIDE DEF S, D
<1>11. D \subseteq Entry /\ Heap(D)
  BY <1>7, <1>9, QueuedPart DEF Queued
<1>12. NewTo(G, Done, RecordsOf(D))
  <2>1. Unread(D, Done, n)
    BY <1>8, <1>9 DEF Unread
  <2>2. OncePer(G, Done)
    BY DEF OnceInv
  <2> QED
    BY <1>11, <2>1, <2>2, PoppedRecs
<1> DEFINE rs == RecordsOf(D)
<1>13. RanTo(G, None, Done, rs, Len(rs), G')
  BY <1>0, <1>10, RunAllRuns
<1>14. OncePer(G', Done \cup Recs(RecordsOf(D), Len(RecordsOf(D))))
  BY <1>12, <1>13 DEF RanTo
<1> QED
  BY <1>2, <1>7, <1>8, <1>9, <1>10, <1>14, OnceRun

LEMMA OnceFlush ==
  ASSUME OnceInv, GraphInv', Flush
  PROVE  OnceInv'
<1> DEFINE rs == RecordsOf(pending)
           d == RunInTurn(G, rs)
<1>0. GraphInv /\ BufferOK
  BY DEF OnceInv, GraphInv
<1>1. /\ RanTo(G, None, Done, rs, Len(rs), d) /\ processed' = processed \o RecordsOf(pending)
      /\ Flushes(rs, d)
  BY <1>0, GraphFlushed
<1>2. pending' = {} /\ UNCHANGED <<graph, arrivals>>
  BY DEF Flush, setupVars
<1>3. Queued(pending, pending_seq) /\ pending_seq \in Nat /\ arrivals \in Nat
  BY <1>0 DEF BufferOK
<1>4. pending \subseteq Entry /\ Heap(pending)
  BY <1>3, QueuedPart DEF Queued
<1>5. Unread(pending, Done, arrivals) /\ OncePer(G, Done)
  BY DEF OnceInv
<1>6. NewTo(G, Done, RecordsOf(pending))
  BY <1>4, <1>5, PoppedRecs
<1> HIDE DEF d
<1>7. OncePer(d, Done \cup Recs(rs, Len(rs)))
  BY <1>1, <1>6 DEF RanTo
<1>8. OncePer(G', Done \cup Recs(RecordsOf(pending), Len(RecordsOf(pending))))
  BY <1>1, <1>7 DEF Flushes, KeepsOnce
<1>9. pending \in SUBSET pending /\ pending' = pending \ pending /\ arrivals <= arrivals
  BY <1>2, <1>3
<1> QED
  BY <1>1, <1>2, <1>3, <1>5, <1>8, <1>9, OnceRun

LEMMA OnceStep ==
  ASSUME OnceInv, GraphInv', NEW ts \in Timestamps, NEW val \in Inputs,
         Step([ts |-> ts, val |-> val, rec |-> arrivals + 1])
  PROVE  OnceInv'
<1> DEFINE r == [ts |-> ts, val |-> val, rec |-> arrivals + 1]
<1>1. CASE StepRefused(r) \/ StepLate(r)
  <2>1. /\ arrivals' = arrivals + 1 /\ UNCHANGED setupVars /\ UNCHANGED graphVars
        /\ UNCHANGED bufferVars /\ UNCHANGED processed
    BY <1>1 DEF StepRefused, StepLate, Arrive
  <2>2. G' = G /\ UNCHANGED graph /\ UNCHANGED pending
    BY <2>1, GraphStays DEF setupVars, bufferVars
  <2> QED
    BY <2>1, <2>2, OnceKept DEF OnceInv
<1>2. CASE StepThrough(r)
  BY <1>2, OnceThrough
<1>3. CASE StepBuffered(r)
  BY <1>3, OnceBuffered
<1> QED
  BY <1>1, <1>2, <1>3 DEF Step

LEMMA OnceAdvanced ==
  ASSUME OnceInv, GraphInv', NEW ts \in Time, AdvanceEventTimeWatermark(ts)
  PROVE  OnceInv'
<1>1. KeepsOnce(G, G')
  BY GraphAdvanced DEF OnceInv
<1>2. UNCHANGED graph /\ UNCHANGED <<pending, processed>> /\ arrivals' = arrivals
  BY DEF AdvanceEventTimeWatermark, setupVars
<1>3. OncePer(G', Done)
  BY <1>1 DEF KeepsOnce, OnceInv
<1> QED
  BY <1>2, <1>3, OnceKept

LEMMA OnceIdle ==
  ASSUME OnceInv, GraphInv', TakeLateRecords \/ UNCHANGED vars
  PROVE  OnceInv'
<1>1. UNCHANGED setupVars /\ UNCHANGED graphVars /\ UNCHANGED bufferVars /\ UNCHANGED <<processed, arrivals>>
  BY DEF TakeLateRecords, vars
<1>2. G' = G /\ UNCHANGED graph /\ UNCHANGED <<pending, processed>> /\ arrivals' = arrivals
  BY <1>1, GraphStays DEF setupVars, bufferVars
<1> QED
  BY <1>2, OnceKept DEF OnceInv

\* OnceInv is inductive.
LEMMA OnceNext == OnceInv /\ [Next]_vars => OnceInv'
<1> SUFFICES ASSUME OnceInv, [Next]_vars PROVE OnceInv'
  OBVIOUS
<1>0. GraphInv'
  BY GraphNext DEF OnceInv
<1>1. CASE \E ts \in Timestamps, val \in Inputs : Step([ts |-> ts, val |-> val, rec |-> arrivals + 1])
  BY <1>0, <1>1, OnceStep
<1>2. CASE \E ts \in Watermarks : AdvanceEventTimeWatermark(ts)
  BY <1>0, <1>2, OnceAdvanced, WatermarksAreTimes
<1>3. CASE Flush
  BY <1>0, <1>3, OnceFlush
<1>4. CASE TakeLateRecords \/ UNCHANGED vars
  BY <1>0, <1>4, OnceIdle
<1> QED
  BY <1>1, <1>2, <1>3, <1>4 DEF Next

\* A graph of one session_sum or tumbling_sum emits no record in two sums: neither the
\* delete and register of a longer session, nor a late timer, nor the end of the
\* stream emits a window again.
THEOREM WindowsAreEmittedOnce ==
  ASSUME \A s \in Setups : Len(s.graph) = 1
  PROVE  Spec => []OneEmissionPerWindow
<1>1. OnceInv => OneEmissionPerWindow
  <2> SUFFICES ASSUME OnceInv, NEW n \in Node, graph[n] \in {"session", "tumbling"},
                      NEW i \in SumsOf(n), NEW j \in SumsOf(n), i # j
               PROVE  emitted[i].value[n].sum \cap emitted[j].value[n].sum = {}
    BY DEF OneEmissionPerWindow
  <2>1. graph \in Graphs /\ Len(graph) = 1
    <3>1. GraphInv /\ SetupOK
      BY DEF OnceInv, GraphInv
    <3> DEFINE s == [graph |-> graph, policy |-> policy, max_lateness |-> max_lateness]
    <3>2. s \in Setups /\ s.graph = graph
      BY <3>1 DEF SetupOK
    <3> HIDE DEF s
    <3> QED
      BY <3>1, <3>2, SetupType
  <2>2. n = 1 /\ OneSum
    BY <2>1 DEF OneSum, Node, Graphs
  <2>3. OncePer(G, Done)
    BY DEF OnceInv
  <2> QED
    BY <2>2, <2>3, GraphFields DEF OncePer, SumsOf
<1> QED
  BY <1>1, OnceInit, OnceNext, PTL DEF Spec

-----------------------------------------------------------------------------
(* Items leave in the order of event time. *)

\* What is buffered is neither behind the frontier nor due at the watermark.
Awaits(e) ==
  /\ policy = "Buffer" /\ ~BadLateness /\ ~flushed
  /\ max_ts_seen # None /\ ReleaseWatermark < e.ts
  /\ ~Behind(e.ts)

\* The items are in order up to the frontier, and what is buffered awaits.
OrderInv ==
  /\ GraphInv
  /\ Sorted(G, last_ts)
  /\ \A e \in pending : Awaits(e)

\* Sorted of the next state, from those of its parts.
LEMMA SortedSame ==
  ASSUME NEW y, y = last_ts', Sorted(G', y)
  PROVE  Sorted(G, last_ts)'
BY DEF Sorted

\* Behind, in terms of the frontier.
LEMMA BehindIsAfter ==
  ASSUME GraphInv, NEW ts \in Time
  PROVE  ~Behind(ts) <=> NotAfter(last_ts, ts)
<1>1. ts \in Int /\ last_ts \in Time \cup {None} /\ \A x \in Time : x \in Int
  BY TimeIsInt DEF GraphInv, BufferOK
<1> QED
  BY <1>1 DEF Behind, NotAfter

\* Records in order and not behind the frontier are run, and the frontier follows.
LEMMA OrderRun ==
  ASSUME OrderInv, UNCHANGED graph, NEW rs \in Seq(Record), RunAll(rs),
         \A i \in 1 .. Len(rs) : ~Behind(rs[i].ts),
         \A i, j \in 1 .. Len(rs) : i < j => rs[i].ts <= rs[j].ts,
         last_ts' = IF rs = <<>> THEN last_ts ELSE rs[Len(rs)].ts
  PROVE  Sorted(G, last_ts)'
<1>1. GraphInv /\ graph \in Graphs /\ Consistent(G) /\ last_ts \in Time \cup {None}
  BY SetupType DEF OrderInv, GraphInv, BufferOK
<1>2. DOMAIN rs = 1 .. Len(rs) /\ \A i \in 1 .. Len(rs) : rs[i].ts \in Time
  <2>1. \A i \in 1 .. Len(rs) : rs[i] \in Record
    OBVIOUS
  <2> QED
    BY <2>1, KeyedAssumption DEF Record
<1>3. InTime(G, last_ts, rs)
  <2>1. \A i \in 1 .. Len(rs) : NotAfter(last_ts, rs[i].ts)
    BY <1>1, <1>2, BehindIsAfter
  <2> QED
    BY <1>1, <1>2, <2>1 DEF InTime, OrderInv, GraphInv
<1>4. RanTo(G, last_ts, {}, rs, Len(rs), G')
  BY <1>1, RunAllRuns
<1>5. Sorted(G', last_ts')
  <2>1. rs = <<>> <=> Len(rs) = 0
    OBVIOUS
  <2> QED
    BY <1>3, <1>4, <2>1 DEF RanTo
<1> QED
  BY <1>5, SortedSame

\* OrderInv holds initially, and one lemma per operation.
LEMMA OrderInit == Init => OrderInv
<1> SUFFICES ASSUME Init PROVE OrderInv
  OBVIOUS
<1>1. GraphInv
  BY GraphInit
<1>2. Sorted(G, last_ts)
  BY GraphFields DEF Init, Sorted
<1> QED
  BY <1>1, <1>2 DEF Init, OrderInv

LEMMA OrderThrough ==
  ASSUME OrderInv, GraphInv', NEW ts \in Timestamps, NEW val \in Inputs,
         StepThrough([ts |-> ts, val |-> val, rec |-> arrivals + 1])
  PROVE  OrderInv'
<1> DEFINE r == [ts |-> ts, val |-> val, rec |-> arrivals + 1]
           rs == <<r>>
<1>0. GraphInv /\ BufferOK
  BY DEF OrderInv, GraphInv
<1>1. /\ Arrive(r) /\ RunAll(rs) /\ last_ts' = r.ts /\ policy # "Buffer" /\ ~Behind(r.ts)
      /\ UNCHANGED <<pending, pending_seq, max_ts_seen, late_records, refused>>
  BY DEF StepThrough
<1>2. /\ r \in Record /\ UNCHANGED graph
  <2> HIDE DEF r
  <2> QED
    BY <1>0, <1>1, ArrivalRecord DEF r, setupVars
<1> HIDE DEF r
<1>3. rs \in Seq(Record) /\ Len(rs) = 1 /\ rs # <<>> /\ \A i \in 1 .. 1 : rs[i] = r
  BY <1>2
<1> HIDE DEF rs
<1>4. Sorted(G, last_ts)'
  BY <1>1, <1>2, <1>3, OrderRun
<1>5. pending' = {}
  BY <1>1 DEF OrderInv, Awaits
<1> QED
  BY <1>4, <1>5 DEF OrderInv

LEMMA OrderBuffered ==
  ASSUME OrderInv, GraphInv', NEW ts \in Timestamps, NEW val \in Inputs,
         StepBuffered([ts |-> ts, val |-> val, rec |-> arrivals + 1])
  PROVE  OrderInv'
<1> DEFINE r == [ts |-> ts, val |-> val, rec |-> arrivals + 1]
           e == [ts |-> r.ts, seq |-> pending_seq, val |-> r.val, rec |-> r.rec]
           w == SatSub(MaxOr(max_ts_seen, r.ts), max_lateness)
           S == pending \cup {e}
           D == {f \in S : f.ts <= w}
           rs == RecordsOf(D)
           out == PopOrder(D)
<1>0. GraphInv /\ BufferOK
  BY DEF OrderInv, GraphInv
<1>1. /\ Arrive(r) /\ DrainUntil(S, w) /\ max_ts_seen' = MaxOr(max_ts_seen, r.ts)
      /\ policy = "Buffer" /\ ~BadLateness /\ ~Behind(r.ts) /\ ~flushed
  BY DEF StepBuffered, Arrive
<1>2. /\ r \in Record /\ r.val \in Values /\ r.ts \in Time /\ r.rec \in 1 .. MaxArrivals
      /\ UNCHANGED <<setupVars, flushed>>
  <2> HIDE DEF r
  <2> QED
    BY <1>0, <1>1, ArrivalRecord DEF r
<1>3. r.ts \in Timestamps
  OBVIOUS
<1> HIDE DEF r
<1>4. pending_seq \in Nat /\ Queued(pending, pending_seq)
  BY <1>0 DEF BufferOK
<1>5. e \in Entry /\ e.seq = pending_seq /\ e.ts = r.ts
  BY <1>2, <1>3, <1>4 DEF Entry
<1>6. max_ts_seen' \in Time /\ max_ts_seen' # None /\ w = ReleaseWatermark' /\ w \in Time /\ w \in Int
  <2>1. max_ts_seen' \in Time
    BY <1>0, <1>1, <1>2 DEF BufferOK, MaxOr
  <2>2. w = ReleaseWatermark'
    BY <1>1, <1>2 DEF ReleaseWatermark, setupVars
  <2>3. w \in Time
    <3>1. max_lateness \in Int /\ MaxOr(max_ts_seen, r.ts) \in Int
      BY <1>0, <1>1, <2>1, TimeIsInt, SetupType DEF GraphInv
    <3> QED
      BY <3>1, Saturates
  <2> QED
    BY <2>1, <2>2, <2>3, TimeIsInt, TimeAssumption
<1> HIDE DEF e, w
<1>7. Queued(S, pending_seq + 1)
  BY <1>4, <1>5, QueuedMore
<1>8. /\ RunAll(rs) /\ rs \in Seq(Record)
      /\ last_ts' = IF rs = <<>> THEN last_ts ELSE rs[Len(rs)].ts
  <2> HIDE DEF S
  <2>0. DrainUntil(S, w) /\ Queued(S, pending_seq + 1)
    BY <1>1, <1>7
  <2>1. LET q == RecordsOf({f \in S : f.ts <= w})
        IN  /\ RunAll(q) /\ q \in Seq(Record) /\ processed' = processed \o q
            /\ last_ts' = IF q = <<>> THEN last_ts ELSE q[Len(q)].ts
    BY <2>0, Drains
  <2> QED
    BY <2>1
<1>9. pending' = {f \in S : f.ts > w}
  BY <1>1 DEF DrainUntil
<1>10. D \in SUBSET S /\ pending' \in SUBSET S
  BY <1>9
<1>11. \A f \in S : ~Behind(f.ts)
  BY <1>1, <1>5 DEF OrderInv, Awaits
<1>12. \A f \in D : f.ts <= w
  OBVIOUS
<1>13. \A f \in pending' : f \in S /\ f.ts > w
  BY <1>9
<1> HIDE DEF S, D
<1>14. D \subseteq Entry /\ Heap(D)
  BY <1>7, <1>10, QueuedPart DEF Queued
<1>15. /\ Len(rs) \in Nat
       /\ \A i \in 1 .. Len(rs) : out[i] \in D /\ rs[i] = RecordOf(out[i])
       /\ \A i, j \in 1 .. Len(rs) : i < j => rs[i].ts <= rs[j].ts
  BY <1>14, RecordsOfHeap
<1> HIDE DEF rs, out
<1>16. \A i \in 1 .. Len(rs) : rs[i].ts = out[i].ts /\ ~Behind(rs[i].ts) /\ rs[i].ts <= w
  <2> TAKE i \in 1 .. Len(rs)
  <2>1. out[i] \in D /\ out[i] \in Entry /\ out[i] \in S /\ rs[i] = RecordOf(out[i])
    BY <1>10, <1>14, <1>15
  <2> QED
    BY <1>11, <1>12, <2>1, EntryFields
<1>17. Sorted(G, last_ts)'
  BY <1>2, <1>8, <1>15, <1>16, OrderRun DEF setupVars
<1>18. ASSUME NEW f \in pending'
       PROVE  Awaits(f)'
  <2>1. f \in S /\ f.ts > w /\ f.ts \in Int
    BY <1>7, <1>13, EntryFields DEF Queued
  <2>2. ~(last_ts' # None /\ f.ts < last_ts')
    <3>1. CASE rs = <<>>
      BY <1>8, <1>11, <2>1, <3>1 DEF Behind
    <3>2. CASE rs # <<>>
      <4>1. Len(rs) \in 1 .. Len(rs)
        BY <1>8, <3>2
      <4>2. last_ts' <= w /\ last_ts' \in Int
        <5>1. rs[Len(rs)] \in Record
          BY <1>8, <4>1
        <5>2. rs[Len(rs)].ts \in Time
          BY <5>1, KeyedAssumption DEF Record
        <5> QED
          BY <1>8, <1>16, <3>2, <4>1, <5>2, TimeIsInt
      <4> QED
        BY <1>6, <2>1, <4>2
    <3> QED
      BY <3>1, <3>2
  <2>3. policy' = "Buffer" /\ ~BadLateness' /\ ~flushed'
    BY <1>1, <1>2 DEF BadLateness, setupVars
  <2>4. ~Behind(f.ts)'
    BY <2>2 DEF Behind
  <2>5. (ReleaseWatermark < f.ts)'
    BY <1>6, <2>1
  <2> QED
    BY <1>6, <2>3, <2>4, <2>5 DEF Awaits
<1> QED
  BY <1>17, <1>18 DEF OrderInv

\* A watermark that no buffered record is behind.
LEMMA OrderAdvanced ==
  ASSUME OrderInv, GraphInv', NEW ts \in Time, AdvanceEventTimeWatermark(ts),
         pending # {} => ts = ReleaseWatermark
  PROVE  OrderInv'
<1>0. GraphInv /\ last_ts \in Time \cup {None}
  BY DEF OrderInv, GraphInv, BufferOK
<1>1. /\ last_ts' = ts /\ ~Behind(ts) /\ max_ts_seen' = MaxOr(max_ts_seen, ts)
      /\ UNCHANGED <<setupVars, pending, flushed>>
  BY DEF AdvanceEventTimeWatermark
<1>2. Consistent(G) /\ Consistent(G') /\ Emits(G, G', {t \in G.timers : t.ts <= ts})
  BY <1>0, GraphAdvanced DEF GraphInv
<1>3. NotAfter(last_ts, ts)
  BY <1>0, <1>1, BehindIsAfter
<1>4. Sorted(G', ts)
  <2>1. Sorted(G, last_ts) /\ Clear(G, last_ts)
    BY DEF OrderInv, GraphInv
  <2> QED
    BY <1>0, <1>2, <1>3, <2>1, FiringSorted
<1>5. Sorted(G, last_ts)'
  BY <1>1, <1>4, SortedSame
<1>6. ASSUME NEW e \in pending
      PROVE  Awaits(e)'
  <2>1. /\ policy = "Buffer" /\ ~BadLateness /\ ~flushed
        /\ max_ts_seen # None /\ ReleaseWatermark < e.ts /\ ts = ReleaseWatermark
    BY DEF OrderInv, Awaits
  <2>2. max_ts_seen \in Time /\ max_lateness \in 0 .. MAX_LATENESS_MS /\ MAX_LATENESS_MS \in Int
    BY <1>0, <2>1, KeyedAssumption, TimeIsInt DEF GraphInv, BufferOK, BadLateness
  <2>3. ts <= max_ts_seen
    BY <2>1, <2>2, TimeAssumption DEF ReleaseWatermark, SatSub, Clamp, Time
  <2>4. max_ts_seen' = max_ts_seen
    <3>1. max_ts_seen \in Int /\ ts \in Int
      BY <2>2, TimeIsInt
    <3> QED
      BY <1>1, <2>1, <2>3, <3>1 DEF MaxOr
  <2>5. ReleaseWatermark' = ReleaseWatermark /\ BadLateness' = BadLateness /\ policy' = policy /\ flushed' = flushed
    BY <1>1, <2>4 DEF ReleaseWatermark, BadLateness, setupVars
  <2>6. ~Behind(e.ts)'
    <3>1. e.ts \in Int /\ ts \in Int
      BY <1>0, EntryFields, TimeIsInt DEF GraphInv, BufferOK, Queued
    <3> QED
      BY <1>1, <2>1, <3>1 DEF Behind
  <2> QED
    BY <2>1, <2>4, <2>5, <2>6 DEF Awaits
<1> QED
  BY <1>1, <1>5, <1>6 DEF OrderInv

LEMMA OrderFlush ==
  ASSUME OrderInv, GraphInv', Flush
  PROVE  OrderInv'
<1> DEFINE rs == RecordsOf(pending)
           out == PopOrder(pending)
           d == RunInTurn(G, rs)
           x == IF rs = <<>> THEN last_ts ELSE rs[Len(rs)].ts
<1>0. GraphInv /\ last_ts \in Time \cup {None}
  BY DEF OrderInv, GraphInv, BufferOK
<1>1. pending \subseteq Entry /\ Heap(pending)
  BY <1>0, QueuedPart DEF GraphInv, BufferOK, Queued
<1>2. /\ rs \in Seq(Record) /\ RanTo(G, last_ts, {}, rs, Len(rs), d) /\ Flushes(rs, d)
  BY <1>0, GraphFlushed
<1>3. /\ Len(rs) \in Nat /\ DOMAIN rs = 1 .. Len(rs)
      /\ \A i \in 1 .. Len(rs) : out[i] \in pending /\ rs[i] = RecordOf(out[i])
      /\ \A i, j \in 1 .. Len(rs) : i < j => rs[i].ts <= rs[j].ts
  BY <1>1, RecordsOfHeap
<1> HIDE DEF rs, out, d
<1>4. InTime(G, last_ts, rs)
  <2>1. \A i \in 1 .. Len(rs) : NotAfter(last_ts, rs[i].ts)
    <3> TAKE i \in 1 .. Len(rs)
    <3>1. out[i] \in pending /\ out[i] \in Entry /\ rs[i] = RecordOf(out[i])
      BY <1>1, <1>3
    <3>2. rs[i].ts = out[i].ts /\ rs[i].ts \in Time
      BY <3>1, EntryFields
    <3>3. ~Behind(rs[i].ts)
      BY <3>1, <3>2 DEF OrderInv, Awaits
    <3> QED
      BY <1>0, <3>2, <3>3, BehindIsAfter
  <2> QED
    BY <1>0, <1>3, <2>1 DEF InTime, OrderInv, GraphInv
<1>5. Sorted(d, x) /\ Clear(d, x) /\ Consistent(d)
  <2>1. rs = <<>> <=> Len(rs) = 0
    BY <1>2
  <2> QED
    BY <1>2, <1>4, <2>1 DEF RanTo, InTime
<1>6. x \in Time \cup {None}
  BY <1>0, <1>2, FrontierIsTime
<1>7. /\ Consistent(G') /\ Emits(d, G', d.timers) /\ last_ts' \in Time \cup {None}
      /\ x # None => last_ts' # None /\ x <= last_ts'
      /\ \A j \in Len(d.out) + 1 .. Len(emitted') : last_ts' # None /\ emitted'[j].ts <= last_ts'
  BY <1>2 DEF Flushes
<1> HIDE DEF x
<1>8. d \in GraphState /\ G' \in GraphState
  BY <1>5, <1>7 DEF Consistent
<1>9. d.timers \in SUBSET Timer
  BY <1>8 DEF GraphState
<1>10. ASSUME last_ts' # None
       PROVE  Sorted(G, last_ts)'
  <2>1. \A t \in d.timers : NotAfter(x, t.ts)
    BY <1>5 DEF Clear, Later, NotAfter
  <2>2. NotAfter(x, last_ts') /\ last_ts' \in Time
    BY <1>7, <1>10 DEF NotAfter
  <2>3. \A j \in Len(d.out) + 1 .. Len(G'.out) : G'.out[j].ts <= last_ts'
    BY <1>7, GraphFields
  <2>4. Sorted(G', last_ts')
    BY <1>5, <1>6, <1>7, <1>8, <1>9, <2>1, <2>2, <2>3, EmitsSorted
  <2> QED
    BY <2>4, SortedSame
<1>11. ASSUME last_ts' = None
       PROVE  Sorted(G, last_ts)'
  <2>1. x = None
    BY <1>7, <1>11
  <2>2. /\ Len(d.out) \in Nat /\ DOMAIN d.out = 1 .. Len(d.out)
        /\ Len(G'.out) \in Nat /\ DOMAIN G'.out = 1 .. Len(G'.out)
    BY <1>8, ItemTimes
  <2>3. Len(d.out) = 0
    <3>1. DOMAIN d.out = {}
      BY <1>5, <2>1 DEF Sorted
    <3> QED
      BY <2>2, <3>1
  <2>4. Len(G'.out) = 0
    BY <1>7, <1>11, <2>2, <2>3, GraphFields
  <2>5. DOMAIN G'.out = {}
    BY <2>2, <2>4
  <2>6. Sorted(G', last_ts')
    BY <2>5 DEF Sorted
  <2> QED
    BY <2>6, SortedSame
<1>12. pending' = {}
  BY DEF Flush
<1> QED
  BY <1>10, <1>11, <1>12 DEF OrderInv

LEMMA OrderKept ==
  ASSUME OrderInv, GraphInv', UNCHANGED graphVars, UNCHANGED bufferVars, UNCHANGED <<setupVars, flushed>>
  PROVE  OrderInv'
<1>1. G' = G /\ last_ts' = last_ts /\ max_ts_seen' = max_ts_seen /\ pending' = pending
  BY GraphStays DEF bufferVars
<1>2. Sorted(G, last_ts)'
  <2>1. Sorted(G', last_ts)
    BY <1>1 DEF OrderInv
  <2> QED
    BY <1>1, <2>1, SortedSame
<1>3. \A e \in pending : Awaits(e)'
  BY <1>1 DEF OrderInv, Awaits, Behind, BadLateness, ReleaseWatermark, setupVars
<1> QED
  BY <1>1, <1>2, <1>3 DEF OrderInv

LEMMA OrderStep ==
  ASSUME OrderInv, GraphInv', NEW ts \in Timestamps, NEW val \in Inputs,
         Step([ts |-> ts, val |-> val, rec |-> arrivals + 1])
  PROVE  OrderInv'
<1> DEFINE r == [ts |-> ts, val |-> val, rec |-> arrivals + 1]
<1>1. CASE StepRefused(r) \/ StepLate(r)
  <2>1. UNCHANGED <<setupVars, flushed>> /\ UNCHANGED graphVars /\ UNCHANGED bufferVars
    BY <1>1 DEF StepRefused, StepLate, Arrive
  <2> QED
    BY <2>1, OrderKept
<1>2. CASE StepThrough(r)
  BY <1>2, OrderThrough
<1>3. CASE StepBuffered(r)
  BY <1>3, OrderBuffered
<1> QED
  BY <1>1, <1>2, <1>3 DEF Step

LEMMA OrderIdle ==
  ASSUME OrderInv, GraphInv', TakeLateRecords \/ UNCHANGED vars
  PROVE  OrderInv'
<1>1. UNCHANGED <<setupVars, flushed>> /\ UNCHANGED graphVars /\ UNCHANGED bufferVars
  BY DEF TakeLateRecords, vars
<1> QED
  BY <1>1, OrderKept

\* The driver's watermarks are behind no buffered record.
LEMMA DriverWatermark ==
  ASSUME OrderInv, DriverAdvances
  PROVE  \E ts \in Time : AdvanceEventTimeWatermark(ts) /\ (pending # {} => ts = ReleaseWatermark)
<1>1. CASE ~flushed /\ max_ts_seen # None /\ AdvanceEventTimeWatermark(ReleaseWatermark)
  BY <1>1, WatermarksAreTimes DEF OrderInv
<1>2. CASE flushed /\ \E ts \in Watermarks : AdvanceEventTimeWatermark(ts)
  <2>1. pending = {}
    BY <1>2 DEF OrderInv, Awaits
  <2> QED
    BY <1>2, <2>1, WatermarksAreTimes
<1> QED
  BY <1>1, <1>2 DEF DriverAdvances

\* OrderInv is inductive with the driver's watermarks.
LEMMA OrderDrivenNext == OrderInv /\ [DrivenNext]_vars => OrderInv'
<1> SUFFICES ASSUME OrderInv, [DrivenNext]_vars PROVE OrderInv'
  OBVIOUS
<1>0. GraphInv'
  BY GraphDrivenNext DEF OrderInv
<1>1. CASE \E ts \in Timestamps, val \in Inputs : Step([ts |-> ts, val |-> val, rec |-> arrivals + 1])
  BY <1>0, <1>1, OrderStep
<1>2. CASE DriverAdvances
  <2>1. PICK ts : ts \in Time /\ AdvanceEventTimeWatermark(ts) /\ (pending # {} => ts = ReleaseWatermark)
    BY <1>2, DriverWatermark
  <2> QED
    BY <1>0, <2>1, OrderAdvanced
<1>3. CASE Flush
  BY <1>0, <1>3, OrderFlush
<1>4. CASE TakeLateRecords \/ UNCHANGED vars
  BY <1>0, <1>4, OrderIdle
<1> QED
  BY <1>1, <1>2, <1>3, <1>4 DEF DrivenNext

LEMMA OrderIsOrder == OrderInv => EmissionsInEventTimeOrder
BY GraphFields DEF OrderInv, Sorted, EmissionsInEventTimeOrder

\* With the driver of tflo-wasm the items leave in the order of event time, under
\* every policy: those of timers between those of records, and after flush too.
THEOREM DrivenEmissionsAreOrdered == DrivenSpec => []EmissionsInEventTimeOrder
BY OrderInit, OrderDrivenNext, OrderIsOrder, PTL DEF DrivenSpec

\* Without a buffer any watermark will do.
NoBuffer == \A s \in Setups : s.policy = "Buffer" => s.max_lateness \notin 0 .. MAX_LATENESS_MS

LEMMA NothingBuffered ==
  ASSUME NoBuffer, OrderInv
  PROVE  pending = {}
<1> DEFINE s == [graph |-> graph, policy |-> policy, max_lateness |-> max_lateness]
<1>1. s \in Setups /\ s.policy = policy /\ s.max_lateness = max_lateness
  BY DEF OrderInv, GraphInv, SetupOK
<1> HIDE DEF s
<1>2. policy = "Buffer" => BadLateness
  BY <1>1 DEF NoBuffer, BadLateness
<1> QED
  BY <1>2 DEF OrderInv, Awaits

LEMMA OrderUnbufferedNext == NoBuffer /\ OrderInv /\ [Next]_vars => OrderInv'
<1> SUFFICES ASSUME NoBuffer, OrderInv, [Next]_vars PROVE OrderInv'
  OBVIOUS
<1>0. GraphInv'
  BY GraphNext DEF OrderInv
<1>1. CASE \E ts \in Timestamps, val \in Inputs : Step([ts |-> ts, val |-> val, rec |-> arrivals + 1])
  BY <1>0, <1>1, OrderStep
<1>2. CASE \E ts \in Watermarks : AdvanceEventTimeWatermark(ts)
  BY <1>0, <1>2, NothingBuffered, OrderAdvanced, WatermarksAreTimes
<1>3. CASE Flush
  BY <1>0, <1>3, OrderFlush
<1>4. CASE TakeLateRecords \/ UNCHANGED vars
  BY <1>0, <1>4, OrderIdle
<1> QED
  BY <1>1, <1>2, <1>3, <1>4 DEF Next

\* Under Error and Drop the items leave in the order of event time whatever the
\* watermarks are.
THEOREM UnbufferedEmissionsAreOrdered ==
  ASSUME NoBuffer
  PROVE  Spec => []EmissionsInEventTimeOrder
BY OrderInit, OrderUnbufferedNext, OrderIsOrder, PTL DEF Spec

-----------------------------------------------------------------------------
(* With the driver's watermarks the execution implements OrderedDelivery. *)

\* What a consumer sees of a record, and the order it may expect.
PlainRecord == [ts : Timestamps, rec : 1 .. MaxArrivals]

Earlier(r, q) == r.ts < q.ts \/ (r.ts = q.ts /\ r.rec < q.rec)

\* p is in that order.
InOrder(p) == \A i, j \in 1 .. Len(p) : i < j => Earlier(p[i], p[j])

\* The records of p.
Handed(p) == {Plain(p[i]) : i \in 1 .. Len(p)}

\* All that p handed over is earlier than the records of S.
AheadOf(p, S) == \A i \in 1 .. Len(p) : \A s \in S : Earlier(p[i], s)

\* rs is Q, in order.
Turn(rs, Q) ==
  /\ rs \in Seq(Record) /\ InOrder(rs)
  /\ \A i \in 1 .. Len(rs) : Plain(rs[i]) \in Q
  /\ \A q \in Q : \E i \in 1 .. Len(rs) : Plain(rs[i]) = q

\* What the consumer sees of a record: its timestamp and its number.
LEMMA PlainFields ==
  /\ \A r : Plain(r).ts = r.ts /\ Plain(r).rec = r.rec
  /\ \A r \in Record : Plain(r) \in PlainRecord
  /\ \A e \in Entry : Plain(e) \in PlainRecord
  /\ \A q \in PlainRecord : q.ts \in Int /\ q.rec \in Int /\ Plain(q) = q
<1>1. \A r : Plain(r).ts = r.ts /\ Plain(r).rec = r.rec
  BY DEF Plain
<1>2. \A r \in Record : Plain(r) \in PlainRecord
  BY DEF Plain, Record, PlainRecord
<1>3. \A e \in Entry : Plain(e) \in PlainRecord
  BY DEF Plain, Entry, PlainRecord
<1>4. ASSUME NEW q \in PlainRecord
      PROVE  q.ts \in Int /\ q.rec \in Int /\ Plain(q) = q
  <2>1. q.ts \in Timestamps /\ q.rec \in 1 .. MaxArrivals /\ q = [ts |-> q.ts, rec |-> q.rec]
    BY DEF PlainRecord
  <2>2. Timestamps \subseteq Int /\ 1 .. MaxArrivals \subseteq Int
    BY KeyedAssumption, TimeIsInt
  <2> QED
    BY <2>1, <2>2 DEF Plain
<1> QED
  BY <1>1, <1>2, <1>3, <1>4

LEMMA EarlierPlain ==
  ASSUME NEW r, NEW q
  PROVE  /\ Earlier(Plain(r), q) <=> Earlier(r, q)
         /\ Earlier(r, Plain(q)) <=> Earlier(r, q)
BY PlainFields DEF Earlier

\* No record is earlier than itself.
LEMMA EarlierIsStrict ==
  ASSUME NEW q \in PlainRecord
  PROVE  ~Earlier(q, q)
BY PlainFields DEF Earlier

\* r extends p with the records of Q, and those of S that are left come later.
GivesOut(p, S, Q, r) ==
  /\ r \in Seq(Record) /\ Len(r) \in Nat /\ Len(p) <= Len(r)
  /\ \A i \in 1 .. Len(p) : r[i] = p[i]
  /\ \A i \in Len(p) + 1 .. Len(r) : Plain(r[i]) \in Q
  /\ InOrder(r) /\ AheadOf(r, S \ Q)
  /\ Handed(r) = Handed(p) \cup Q /\ Handed(r) \cap (S \ Q) = {}

\* Handing over the earliest records of S, after p.
LEMMA Handing ==
  ASSUME NEW p \in Seq(Record), InOrder(p), NEW S \in SUBSET PlainRecord, NEW Q \in SUBSET S,
         NEW rs, Turn(rs, Q), AheadOf(p, S), \A q \in Q, s \in S \ Q : Earlier(q, s)
  PROVE  GivesOut(p, S, Q, p \o rs)
<1> DEFINE r == p \o rs
           n == Len(p)
           m == Len(rs)
<1>1. /\ rs \in Seq(Record) /\ InOrder(rs) /\ \A i \in 1 .. m : Plain(rs[i]) \in Q
      /\ \A q \in Q : \E i \in 1 .. m : Plain(rs[i]) = q
  BY DEF Turn
<1>2. n \in Nat /\ m \in Nat /\ r \in Seq(Record) /\ Len(r) = n + m
  BY <1>1
<1>3. \A i \in 1 .. n : r[i] = p[i]
  OBVIOUS
<1>4. \A i \in 1 .. m : r[n + i] = rs[i]
  BY <1>1
<1> HIDE DEF r, n, m
<1>5. ASSUME NEW i \in n + 1 .. n + m
      PROVE  i - n \in 1 .. m /\ n + (i - n) = i
  BY <1>2
<1>6. ASSUME NEW i \in n + 1 .. n + m
      PROVE  r[i] = rs[i - n] /\ Plain(r[i]) \in Q
  <2>1. i - n \in 1 .. m /\ r[n + (i - n)] = rs[i - n] /\ n + (i - n) = i
    BY <1>4, <1>5
  <2> QED
    BY <1>1, <2>1
<1>7. \A i \in 1 .. n + m : i \in 1 .. n \/ i \in n + 1 .. n + m
  BY <1>2
<1>8. InOrder(r)
  <2> SUFFICES ASSUME NEW i \in 1 .. n + m, NEW j \in 1 .. n + m, i < j
               PROVE  Earlier(r[i], r[j])
    BY <1>2 DEF InOrder
  <2>1. CASE i \in 1 .. n /\ j \in 1 .. n
    BY <1>3, <2>1 DEF InOrder, n
  <2>2. CASE i \in 1 .. n /\ j \in n + 1 .. n + m
    <3>1. Earlier(p[i], Plain(r[j]))
      BY <1>6, <2>2 DEF AheadOf, n
    <3> QED
      BY <1>3, <2>2, <3>1, EarlierPlain
  <2>3. CASE i \in n + 1 .. n + m /\ j \in n + 1 .. n + m
    <3>1. i - n \in 1 .. m /\ j - n \in 1 .. m /\ i - n < j - n
      BY <1>2, <1>5, <2>3
    <3>2. Earlier(rs[i - n], rs[j - n])
      BY <1>1, <3>1 DEF InOrder, m
    <3> QED
      BY <1>6, <2>3, <3>2
  <2>4. ~(i \in n + 1 .. n + m /\ j \in 1 .. n)
    BY <1>2
  <2> QED
    BY <1>7, <2>1, <2>2, <2>3, <2>4
<1>9. AheadOf(r, S \ Q)
  <2> SUFFICES ASSUME NEW i \in 1 .. n + m, NEW s \in S \ Q
               PROVE  Earlier(r[i], s)
    BY <1>2 DEF AheadOf
  <2>1. CASE i \in 1 .. n
    BY <1>3, <2>1 DEF AheadOf, n
  <2>2. CASE i \in n + 1 .. n + m
    <3>1. Earlier(Plain(r[i]), s)
      BY <1>6, <2>2
    <3> QED
      BY <3>1, EarlierPlain
  <2> QED
    BY <1>7, <2>1, <2>2
<1>10. Handed(r) = Handed(p) \cup Q
  <2>1. ASSUME NEW i \in 1 .. n + m
        PROVE  Plain(r[i]) \in Handed(p) \cup Q
    BY <1>3, <1>6, <1>7 DEF Handed, n
  <2>2. ASSUME NEW i \in 1 .. n
        PROVE  Plain(p[i]) \in Handed(r)
    <3>1. i \in 1 .. n + m
      BY <1>2
    <3> QED
      BY <1>2, <1>3, <3>1 DEF Handed
  <2>3. ASSUME NEW q \in Q
        PROVE  q \in Handed(r)
    <3>1. PICK i \in 1 .. m : Plain(rs[i]) = q
      BY <1>1
    <3>2. n + i \in 1 .. n + m
      BY <1>2
    <3>3. Plain(r[n + i]) = q
      BY <1>4, <3>1
    <3> QED
      BY <1>2, <3>2, <3>3 DEF Handed
  <2>4. /\ \A k \in Handed(r) : \E i \in 1 .. n + m : k = Plain(r[i])
        /\ \A k \in Handed(p) : \E i \in 1 .. n : k = Plain(p[i])
    BY <1>2 DEF Handed, n
  <2> QED
    BY <2>1, <2>2, <2>3, <2>4
<1>11. Handed(r) \cap (S \ Q) = {}
  <2> SUFFICES ASSUME NEW s \in S \ Q, s \in Handed(r) PROVE FALSE
    OBVIOUS
  <2>1. PICK i \in 1 .. n + m : s = Plain(r[i])
    BY <1>2 DEF Handed
  <2>2. Earlier(r[i], s)
    BY <1>2, <1>9 DEF AheadOf
  <2>3. Earlier(s, s)
    BY <2>1, <2>2, EarlierPlain
  <2> QED
    BY <2>3, EarlierIsStrict
<1>12. n <= n + m /\ n + m \in Nat
  BY <1>2
<1> QED
  BY <1>2, <1>3, <1>6, <1>8, <1>9, <1>10, <1>11, <1>12 DEF GivesOut, r, n, m

\* Sequence numbers order the buffered entries as their arrivals do.
Numbered(S) == \A e, f \in S : e.seq < f.seq => e.rec < f.rec

\* Popping a part of the buffer hands it over in order.
LEMMA TurnOfHeap ==
  ASSUME NEW D, D \subseteq Entry, Heap(D), Numbered(D)
  PROVE  Turn(RecordsOf(D), {Plain(e) : e \in D})
<1> DEFINE rs == RecordsOf(D)
           out == PopOrder(D)
           n == Len(rs)
           Q == {Plain(e) : e \in D}
<1>1. /\ rs \in Seq(Record) /\ n \in Nat
      /\ \A i \in 1 .. n : out[i] \in D /\ rs[i] = RecordOf(out[i])
      /\ \A i, j \in 1 .. n : i < j => Before(out[i], out[j])
      /\ \A e \in D : \E i \in 1 .. n : out[i] = e
  BY RecordsOfHeap
<1> HIDE DEF rs, out, n
<1>2. \A i \in 1 .. n : rs[i].ts = out[i].ts /\ rs[i].rec = out[i].rec /\ out[i] \in Entry
  BY <1>1, EntryFields
<1>3. \A i \in 1 .. n : Plain(rs[i]) = Plain(out[i])
  BY <1>2 DEF Plain
<1>4. ASSUME NEW i \in 1 .. n, NEW j \in 1 .. n, i < j
      PROVE  Earlier(rs[i], rs[j])
  <2>1. Before(out[i], out[j]) /\ out[i] \in D /\ out[j] \in D
    BY <1>1, <1>4
  <2>2. out[i].seq < out[j].seq => out[i].rec < out[j].rec
    BY <2>1 DEF Numbered
  <2> QED
    BY <1>2, <2>1, <2>2 DEF Before, Earlier
<1>5. Turn(rs, Q)
  BY <1>1, <1>3, <1>4 DEF Turn, InOrder, n
<1> QED
  BY <1>5 DEF rs

\* The views that OrderedDelivery is instantiated with.
HeldView == {Plain(e) : e \in pending}
DeliveredView == [i \in DOMAIN processed |-> Plain(processed[i])]
RefusedView == {Plain(r) : r \in refused}

\* What was handed over is in order, not after the frontier and before what is held;
\* the buffer is numbered in the order of arrival; refused records have arrived.
ViewInv ==
  /\ InOrder(processed)
  /\ AheadOf(processed, HeldView)
  /\ \A i \in 1 .. Len(processed) : last_ts # None /\ processed[i].ts <= last_ts
  /\ Numbered(pending)
  /\ \A r \in refused : r.rec <= arrivals

\* The invariant of the refinement.
DeliverInv == OrderInv /\ OnceInv /\ ViewInv

\* The view of a sequence of records.
LEMMA PlainSequence ==
  ASSUME NEW p \in Seq(Record)
  PROVE  LET v == [i \in DOMAIN p |-> Plain(p[i])]
         IN  /\ DOMAIN v = 1 .. Len(p) /\ Len(v) = Len(p) /\ Len(p) \in Nat
             /\ \A i \in 1 .. Len(p) : v[i] = Plain(p[i])
             /\ Delivery!DeliveredSet(v) = Handed(p)
<1> DEFINE v == [i \in DOMAIN p |-> Plain(p[i])]
<1>1. DOMAIN v = 1 .. Len(p) /\ Len(p) \in Nat
  OBVIOUS
<1>2. Len(v) = Len(p)
  <2>1. v \in [1 .. Len(p) -> Handed(p)]
    BY DEF Handed
  <2> HIDE DEF v
  <2>2. v \in Seq(Handed(p))
    BY <1>1, <2>1
  <2> QED
    BY <1>1, <2>2
<1>3. \A i \in 1 .. Len(p) : v[i] = Plain(p[i])
  BY <1>1
<1>4. Delivery!DeliveredSet(v) = Handed(p)
  BY <1>1 DEF Handed, Delivery!DeliveredSet
<1> QED
  BY <1>1, <1>2, <1>3, <1>4

\* Of the held and the arriving records, S, the records of Q are handed over by rs.
LEMMA HandsOver ==
  ASSUME DeliverInv, GraphInv', NEW rs, processed' = processed \o rs,
         NEW A, NEW S \in SUBSET PlainRecord, S = HeldView \cup A, AheadOf(processed, S),
         NEW Q \in SUBSET S, Turn(rs, Q), HeldView' = S \ Q,
         \A q \in Q, s \in S \ Q : Earlier(q, s),
         \A q \in Q : ~Behind(q.ts), UNCHANGED refused
  PROVE  /\ Delivery!Deliver(A)
         /\ InOrder(processed') /\ AheadOf(processed', HeldView')
<1> DEFINE p == processed
           r == p \o rs
           v == [i \in DOMAIN p |-> Plain(p[i])]
           w == [i \in DOMAIN r |-> Plain(r[i])]
<1>1. p \in Seq(Record) /\ InOrder(p)
  BY DEF DeliverInv, ViewInv, OrderInv, GraphInv, BufferOK
<1>2. /\ r \in Seq(Record) /\ Len(r) \in Nat /\ Len(p) <= Len(r)
      /\ \A i \in 1 .. Len(p) : r[i] = p[i]
      /\ \A i \in Len(p) + 1 .. Len(r) : Plain(r[i]) \in Q
      /\ InOrder(r) /\ AheadOf(r, S \ Q)
      /\ Handed(r) = Handed(p) \cup Q /\ Handed(r) \cap (S \ Q) = {}
  <2>1. GivesOut(p, S, Q, p \o rs)
    BY <1>1, Handing
  <2> HIDE DEF r
  <2>2. GivesOut(p, S, Q, r)
    BY <2>1 DEF r
  <2> QED
    BY <2>2 DEF GivesOut
<1>3. /\ DOMAIN v = 1 .. Len(p) /\ Len(v) = Len(p) /\ Len(p) \in Nat
      /\ \A i \in 1 .. Len(p) : v[i] = Plain(p[i])
      /\ Delivery!DeliveredSet(v) = Handed(p)
  BY <1>1, PlainSequence
<1>4. /\ DOMAIN w = 1 .. Len(r) /\ Len(w) = Len(r)
      /\ \A i \in 1 .. Len(r) : w[i] = Plain(r[i])
      /\ Delivery!DeliveredSet(w) = Handed(r)
  BY <1>2, PlainSequence
<1>5. DeliveredView = v /\ DeliveredView' = w
  BY DEF DeliveredView
<1>6. processed' = r
  OBVIOUS
<1> HIDE DEF r, v, w
<1>7. Delivery!Extends(v, w)
  <2>1. \A i \in 1 .. Len(p) : i \in 1 .. Len(r)
    BY <1>2, <1>3
  <2>2. \A i \in 1 .. Len(p) : w[i] = v[i]
    BY <1>2, <1>3, <1>4, <2>1
  <2> QED
    BY <1>2, <1>3, <1>4, <2>2 DEF Delivery!Extends
<1>8. Delivery!InDeliveryOrder(w)
  <2> SUFFICES ASSUME NEW i \in 1 .. Len(r), NEW j \in 1 .. Len(r), i < j
               PROVE  Delivery!Precedes(w[i], w[j])
    BY <1>4 DEF Delivery!InDeliveryOrder
  <2>1. Earlier(r[i], r[j])
    BY <1>2 DEF InOrder
  <2>2. Earlier(w[i], w[j])
    BY <1>4, <2>1, EarlierPlain
  <2> QED
    BY <2>2 DEF Earlier, Delivery!Precedes
<1>9. \A i \in Len(v) + 1 .. Len(w) : ~Delivery!Behind(w[i].ts)
  <2> SUFFICES ASSUME NEW i \in Len(p) + 1 .. Len(r) PROVE ~Delivery!Behind(w[i].ts)
    BY <1>3, <1>4
  <2>1. i \in 1 .. Len(r)
    BY <1>2, <1>3
  <2>2. w[i] \in Q
    BY <1>2, <1>4, <2>1
  <2> QED
    BY <2>2 DEF Delivery!Behind, Behind
<1>10. /\ HeldView' \cup Delivery!DeliveredSet(w) = HeldView \cup A \cup Delivery!DeliveredSet(v)
       /\ HeldView' \cap Delivery!DeliveredSet(w) = {}
  BY <1>2, <1>3, <1>4
<1>11. Delivery!Deliver(A)
  BY <1>5, <1>7, <1>8, <1>9, <1>10 DEF Delivery!Deliver, DeliveredView, HeldView
<1>12. InOrder(processed') /\ AheadOf(processed', HeldView')
  BY <1>2, <1>6
<1> QED
  BY <1>11, <1>12

\* The frontier follows the records handed over.
LEMMA FrontierFollows ==
  ASSUME DeliverInv, GraphInv', NEW rs \in Seq(Record), processed' = processed \o rs,
         InOrder(processed'), NEW x, x = IF rs = <<>> THEN last_ts ELSE rs[Len(rs)].ts
  PROVE  /\ last_ts' = x => Delivery!FrontierFollows
         /\ \A i \in 1 .. Len(processed') : x # None /\ processed'[i].ts <= x
<1> DEFINE p == processed
           r == p \o rs
           w == [i \in DOMAIN r |-> Plain(r[i])]
           n == Len(p)
           m == Len(rs)
<1>1. p \in Seq(Record) /\ n \in Nat /\ m \in Nat /\ r \in Seq(Record) /\ Len(r) = n + m
  BY DEF DeliverInv, OrderInv, GraphInv, BufferOK
<1>2. \A i \in 1 .. m : r[n + i] = rs[i]
  BY <1>1
<1>3. processed' = r
  OBVIOUS
<1>4. /\ Len(DeliveredView) = n
      /\ Len(DeliveredView') = n + m /\ DeliveredView' = w
      /\ \A i \in 1 .. n + m : w[i] = Plain(r[i])
  <2>1. LET v == [i \in DOMAIN p |-> Plain(p[i])] IN Len(v) = n
    BY <1>1, PlainSequence
  <2>2. Len(w) = Len(r) /\ \A i \in 1 .. Len(r) : w[i] = Plain(r[i])
    BY <1>1, PlainSequence
  <2> QED
    BY <1>1, <2>1, <2>2 DEF DeliveredView
<1>5. rs = <<>> <=> m = 0
  BY <1>1
<1>6. Delivery!FrontierFollows <=>
        last_ts' = IF DeliveredView' = DeliveredView THEN last_ts
                   ELSE DeliveredView'[Len(DeliveredView')].ts
  BY DEF Delivery!FrontierFollows, DeliveredView
<1>7. CASE rs = <<>>
  <2>1. r = p
    BY <1>1, <1>7
  <2>2. DeliveredView' = DeliveredView /\ x = last_ts
    BY <1>3, <1>7, <2>1 DEF DeliveredView
  <2>3. \A i \in 1 .. n : last_ts # None /\ p[i].ts <= last_ts
    BY DEF DeliverInv, ViewInv
  <2> QED
    BY <1>3, <1>6, <2>1, <2>2, <2>3
<1>8. CASE rs # <<>>
  <2> HIDE DEF r, w
  <2>1. m # 0 /\ m \in 1 .. m /\ n + m \in 1 .. n + m
    BY <1>1, <1>5, <1>8
  <2>2. x = r[n + m].ts
    BY <1>2, <1>8, <2>1
  <2>3. DeliveredView' # DeliveredView
    BY <1>1, <1>4, <2>1
  <2>4. DeliveredView'[Len(DeliveredView')].ts = r[n + m].ts
    BY <1>4, <2>1, PlainFields
  <2>5. \A i \in 1 .. n + m : r[i].ts \in Time
    <3>1. \A i \in 1 .. n + m : r[i] \in Record
      BY <1>1
    <3> QED
      BY <3>1, KeyedAssumption DEF Record
  <2>6. x # None /\ \A i \in 1 .. n + m : r[i].ts \in Int
    BY <2>1, <2>2, <2>5, TimeIsInt, TimeAssumption
  <2>7. ASSUME NEW i \in 1 .. n + m
        PROVE  r[i].ts <= x
    <3>1. CASE i = n + m
      BY <2>2, <2>6, <3>1
    <3>2. CASE i # n + m
      <4>1. Earlier(r[i], r[n + m])
        <5>1. InOrder(r) /\ Len(r) = n + m
          BY <1>1, <1>3
        <5>2. n \in Nat /\ m \in Nat
          BY <1>1
        <5>3. i < n + m
          <6> HIDE DEF n, m
          <6> QED
            BY <3>2, <5>2
        <5> QED
          BY <2>1, <5>1, <5>3 DEF InOrder
      <4>2. r[i].ts \in Int /\ r[n + m].ts \in Int
        BY <2>1, <2>6
      <4> QED
        BY <2>2, <4>1, <4>2 DEF Earlier
    <3> QED
      BY <3>1, <3>2
  <2> QED
    BY <1>1, <1>3, <1>6, <2>2, <2>3, <2>4, <2>6, <2>7
<1> QED
  BY <1>7, <1>8

\* ViewInv of the next state, from those of its parts.
LEMMA ViewSame ==
  ASSUME InOrder(processed'), AheadOf(processed', HeldView'),
         \A i \in 1 .. Len(processed') : last_ts' # None /\ processed'[i].ts <= last_ts',
         \A e, f \in pending' : e.seq < f.seq => e.rec < f.rec,
         \A r \in refused' : r.rec <= arrivals'
  PROVE  ViewInv'
<1>1. InOrder(processed)'
  BY DEF InOrder
<1>2. AheadOf(processed, HeldView)'
  BY DEF AheadOf
<1>3. Numbered(pending)'
  BY DEF Numbered
<1> QED
  BY <1>1, <1>2, <1>3 DEF ViewInv

\* The views of the entries of T.
Plains(T) == {Plain(e) : e \in T}

\* The buffered records and their views.
LEMMA Held ==
  ASSUME DeliverInv
  PROVE  /\ HeldView = Plains(pending) /\ HeldView \in SUBSET PlainRecord
         /\ pending \subseteq Entry /\ processed \in Seq(Record) /\ refused \subseteq Record
         /\ arrivals \in Nat /\ \A k \in 1 .. MaxArrivals : k \in Int
<1>1. GraphInv /\ BufferOK /\ pending \subseteq Entry
  BY DEF DeliverInv, OrderInv, GraphInv, BufferOK, Queued
<1>2. \A k \in 1 .. MaxArrivals : k \in Int
  BY KeyedAssumption
<1> QED
  BY <1>1, <1>2, PlainFields DEF HeldView, Plains, BufferOK

\* The record that arrives is new.
LEMMA NewRecord ==
  ASSUME DeliverInv, NEW r \in Record, r.rec = arrivals + 1
  PROVE  /\ Plain(r) \notin HeldView \cup Delivery!DeliveredSet(DeliveredView) \cup RefusedView
         /\ ~Behind(r.ts) => AheadOf(processed, HeldView \cup {Plain(r)})
<1>1. /\ HeldView = Plains(pending) /\ processed \in Seq(Record) /\ refused \subseteq Record
      /\ arrivals \in Nat /\ pending \subseteq Entry /\ \A k \in 1 .. MaxArrivals : k \in Int
  BY Held
<1>2. \A e \in pending : e.rec <= arrivals /\ e.rec \in Int
  BY <1>1, EntryFields DEF DeliverInv, OnceInv, Unread
<1>3. \A q \in refused : q.rec <= arrivals /\ q.rec \in Int
  BY <1>1 DEF DeliverInv, ViewInv, Record
<1>4. \A i \in 1 .. Len(processed) : processed[i] \in Record
  BY <1>1
<1>5. \A i \in 1 .. Len(processed) : /\ processed[i].rec <= arrivals /\ processed[i].rec \in Int
                                     /\ processed[i].ts \in Int
  <2> TAKE i \in 1 .. Len(processed)
  <2>1. processed[i].rec \in Done
    BY DEF Done, Recs
  <2>2. processed[i].rec \in Int /\ processed[i].ts \in Int
    BY <1>1, <1>4, KeyedAssumption, TimeIsInt DEF Record
  <2> QED
    BY <2>1, <2>2 DEF DeliverInv, OnceInv
<1>6. Plain(r).rec = arrivals + 1
  BY PlainFields
<1>7. Plain(r) \notin HeldView
  BY <1>1, <1>2, <1>6, PlainFields DEF HeldView
<1>8. Plain(r) \notin RefusedView
  BY <1>1, <1>3, <1>6, PlainFields DEF RefusedView
<1>9. Plain(r) \notin Delivery!DeliveredSet(DeliveredView)
  <2>1. Delivery!DeliveredSet(DeliveredView) = Handed(processed)
    BY <1>1, PlainSequence DEF DeliveredView
  <2>2. \A i \in 1 .. Len(processed) : Plain(processed[i]) # Plain(r)
    BY <1>1, <1>5, <1>6, PlainFields
  <2> QED
    BY <2>1, <2>2 DEF Handed
<1>10. ASSUME ~Behind(r.ts)
       PROVE  AheadOf(processed, HeldView \cup {Plain(r)})
  <2>1. r.ts \in Int
    BY KeyedAssumption, TimeIsInt DEF Record
  <2>2. last_ts \in Time \cup {None}
    BY DEF DeliverInv, OrderInv, GraphInv, BufferOK
  <2>3. ASSUME NEW i \in 1 .. Len(processed)
        PROVE  Earlier(processed[i], Plain(r))
    <3>1. last_ts # None /\ processed[i].ts <= last_ts
      BY DEF DeliverInv, ViewInv
    <3>2. last_ts \in Int /\ last_ts <= r.ts
      BY <1>10, <2>1, <2>2, <3>1, TimeIsInt DEF Behind
    <3>3. Earlier(processed[i], r)
      BY <1>1, <1>5, <2>1, <3>1, <3>2 DEF Earlier
    <3> QED
      BY <3>3, EarlierPlain
  <2> QED
    BY <2>3 DEF AheadOf, DeliverInv, ViewInv
<1> QED
  BY <1>7, <1>8, <1>9, <1>10

\* One lemma per operation: its step of OrderedDelivery, and ViewInv.
LEMMA DeliverThrough ==
  ASSUME DeliverInv, OrderInv', OnceInv', NEW ts \in Timestamps, NEW val \in Inputs,
         StepThrough([ts |-> ts, val |-> val, rec |-> arrivals + 1])
  PROVE  ViewInv' /\ Delivery!Accept(Plain([ts |-> ts, val |-> val, rec |-> arrivals + 1]))
<1> DEFINE r == [ts |-> ts, val |-> val, rec |-> arrivals + 1]
           rs == <<r>>
           Q == {Plain(r)}
<1>0. GraphInv' /\ BufferOK
  BY DEF DeliverInv, OrderInv, GraphInv
<1>1. /\ Arrive(r) /\ RunAll(rs) /\ last_ts' = r.ts /\ policy # "Buffer" /\ ~Behind(r.ts)
      /\ UNCHANGED <<pending, refused>>
  BY DEF StepThrough
<1>2. /\ r \in Record /\ r.rec = arrivals + 1 /\ arrivals' = arrivals + 1
  <2> HIDE DEF r
  <2> QED
    BY <1>0, <1>1, ArrivalRecord DEF r
<1> HIDE DEF r
<1>3. pending = {} /\ HeldView = {} /\ HeldView' = {}
  <2>1. pending = {}
    BY <1>1 DEF DeliverInv, OrderInv, Awaits
  <2> QED
    BY <1>1, <2>1 DEF HeldView
<1>4. rs \in Seq(Record) /\ Len(rs) = 1 /\ rs # <<>> /\ rs[1] = r
  BY <1>2
<1>5. processed' = processed \o rs
  BY <1>1 DEF RunAll
<1> HIDE DEF rs
<1>6. Turn(rs, Q)
  BY <1>4 DEF Turn, InOrder
<1>7. /\ Plain(r) \notin HeldView \cup Delivery!DeliveredSet(DeliveredView) \cup RefusedView
      /\ AheadOf(processed, HeldView \cup {Plain(r)})
  BY <1>1, <1>2, NewRecord
<1>8. Q \in SUBSET PlainRecord /\ Q = HeldView \cup {Plain(r)} /\ HeldView' = Q \ Q
  BY <1>2, <1>3, PlainFields
<1>9. \A q \in Q : ~Behind(q.ts)
  BY <1>1, PlainFields
<1> HIDE DEF Q
<1>10. Delivery!Deliver({Plain(r)}) /\ InOrder(processed') /\ AheadOf(processed', HeldView')
  BY <1>0, <1>1, <1>5, <1>6, <1>7, <1>8, <1>9, HandsOver
<1>11. /\ Delivery!FrontierFollows
       /\ \A i \in 1 .. Len(processed') : last_ts' # None /\ processed'[i].ts <= last_ts'
  <2>1. last_ts' = IF rs = <<>> THEN last_ts ELSE rs[Len(rs)].ts
    BY <1>1, <1>4
  <2> QED
    BY <1>0, <1>4, <1>5, <1>10, <2>1, FrontierFollows
<1>12. Delivery!Accept(Plain(r))
  BY <1>7, <1>10, <1>11 DEF Delivery!Accept, HeldView, DeliveredView, RefusedView
<1>13. ViewInv'
  <2>1. \A q \in refused' : q.rec <= arrivals'
    BY <1>1, <1>2, Held DEF DeliverInv, ViewInv, Record
  <2>2. pending' = {}
    BY <1>1, <1>3
  <2> QED
    BY <1>10, <1>11, <2>1, <2>2, ViewSame
<1> QED
  BY <1>12, <1>13 DEF r

\* The entries of S up to time w are earlier than the rest.
UpTo(S, w) == {f \in S : f.ts <= w}
From(S, w) == {f \in S : f.ts > w}

\* The views of the entries up to w, and of those after w.
LEMMA SplitByTime ==
  ASSUME NEW S, S \subseteq Entry, \A e, f \in S : e.rec = f.rec => e = f, NEW w \in Int
  PROVE  /\ Plains(S) \in SUBSET PlainRecord /\ Plains(UpTo(S, w)) \in SUBSET Plains(S)
         /\ Plains(From(S, w)) = Plains(S) \ Plains(UpTo(S, w))
         /\ \A q \in Plains(UpTo(S, w)), s \in Plains(S) \ Plains(UpTo(S, w)) : Earlier(q, s)
<1> DEFINE D == {f \in S : f.ts <= w}
<1>0. D = UpTo(S, w) /\ {f \in S : f.ts > w} = From(S, w)
  BY DEF UpTo, From
<1>1. \A f \in S : f.ts \in Int /\ Plain(f) \in PlainRecord /\ Plain(f).ts = f.ts /\ Plain(f).rec = f.rec
  BY EntryFields, PlainFields
<1>2. Plains(S) \in SUBSET PlainRecord
  BY <1>1 DEF Plains
<1>3. Plains(D) \in SUBSET Plains(S)
  BY DEF Plains
<1>4. \A f \in S : ~(f.ts <= w) <=> f.ts > w
  BY <1>1
<1>5. Plains({f \in S : f.ts > w}) = Plains(S) \ Plains(D)
  <2>1. ASSUME NEW f \in S, f.ts > w
        PROVE  Plain(f) \in Plains(S) /\ Plain(f) \notin Plains(D)
    <3>1. ASSUME NEW d \in D, Plain(d) = Plain(f)
          PROVE  FALSE
      <4>1. d \in S /\ d.ts <= w /\ d.rec = f.rec
        BY <1>1, <3>1
      <4>2. d = f
        BY <4>1
      <4> QED
        BY <1>4, <2>1, <4>1, <4>2
    <3> QED
      BY <3>1 DEF Plains
  <2>2. ASSUME NEW f \in S, Plain(f) \notin Plains(D)
        PROVE  f.ts > w
    <3>1. f \notin D
      BY <2>2 DEF Plains
    <3> QED
      BY <1>4, <3>1
  <2> QED
    BY <2>1, <2>2 DEF Plains
<1>6. ASSUME NEW q \in Plains(D), NEW s \in Plains(S) \ Plains(D)
      PROVE  Earlier(q, s)
  <2>1. PICK d \in D : q = Plain(d)
    BY DEF Plains
  <2>2. PICK f \in S : s = Plain(f) /\ f.ts > w
    BY <1>5 DEF Plains
  <2>3. q.ts = d.ts /\ s.ts = f.ts /\ d.ts <= w /\ d.ts \in Int /\ f.ts \in Int
    BY <1>1, <2>1, <2>2
  <2> QED
    BY <2>2, <2>3 DEF Earlier
<1> QED
  BY <1>0, <1>2, <1>3, <1>5, <1>6

LEMMA DeliverBuffered ==
  ASSUME DeliverInv, OrderInv', OnceInv', NEW ts \in Timestamps, NEW val \in Inputs,
         StepBuffered([ts |-> ts, val |-> val, rec |-> arrivals + 1])
  PROVE  ViewInv' /\ Delivery!Accept(Plain([ts |-> ts, val |-> val, rec |-> arrivals + 1]))
<1> DEFINE r == [ts |-> ts, val |-> val, rec |-> arrivals + 1]
           e == [ts |-> r.ts, seq |-> pending_seq, val |-> r.val, rec |-> r.rec]
           w == SatSub(MaxOr(max_ts_seen, r.ts), max_lateness)
           S == pending \cup {e}
           D == {f \in S : f.ts <= w}
           rs == RecordsOf(D)
<1>0. GraphInv /\ GraphInv' /\ BufferOK
  BY DEF DeliverInv, OrderInv, GraphInv
<1>1. Arrive(r) /\ DrainUntil(S, w) /\ ~Behind(r.ts) /\ UNCHANGED refused
  BY DEF StepBuffered
<1>2. /\ r \in Record /\ r.val \in Values /\ r.ts \in Time /\ r.rec = arrivals + 1
      /\ r.rec \in 1 .. MaxArrivals /\ arrivals' = arrivals + 1
  <2> HIDE DEF r
  <2> QED
    BY <1>0, <1>1, ArrivalRecord DEF r
<1>3. r.ts \in Timestamps
  OBVIOUS
<1> HIDE DEF r
<1>4. pending_seq \in Nat /\ Queued(pending, pending_seq)
  BY <1>0 DEF BufferOK
<1>5. e \in Entry /\ e.seq = pending_seq /\ e.ts = r.ts /\ e.rec = arrivals + 1 /\ Plain(e) = Plain(r)
  BY <1>2, <1>3, <1>4 DEF Entry, Plain
<1>6. w \in Int
  BY <1>0, <1>2, TimeIsInt, Saturates, SetupType DEF GraphInv, BufferOK, MaxOr
<1> HIDE DEF e, w
<1>7. Queued(S, pending_seq + 1) /\ S \subseteq Entry
  <2>1. Queued(S, pending_seq + 1)
    BY <1>4, <1>5, QueuedMore
  <2> QED
    BY <2>1 DEF Queued
<1>8. /\ RunAll(rs) /\ rs \in Seq(Record) /\ processed' = processed \o rs
      /\ last_ts' = IF rs = <<>> THEN last_ts ELSE rs[Len(rs)].ts
  <2> HIDE DEF S
  <2>0. DrainUntil(S, w) /\ Queued(S, pending_seq + 1)
    BY <1>1, <1>7
  <2>1. LET q == RecordsOf({f \in S : f.ts <= w})
        IN  /\ RunAll(q) /\ q \in Seq(Record) /\ processed' = processed \o q
            /\ last_ts' = IF q = <<>> THEN last_ts ELSE q[Len(q)].ts
    BY <2>0, Drains
  <2> QED
    BY <2>1
<1>9. \A f \in pending : /\ f.rec <= arrivals /\ f.rec \in Int
                         /\ f.seq < pending_seq /\ f.seq \in Int
  <2>1. arrivals \in Nat /\ \A k \in 1 .. MaxArrivals : k \in Int
    BY Held
  <2> QED
    BY <1>4, <2>1, EntryFields DEF DeliverInv, OnceInv, Unread, Queued
<1>10. arrivals \in Nat
  BY Held
<1>11. \A f, g \in S : f.rec = g.rec => f = g
  BY <1>5, <1>9, <1>10 DEF DeliverInv, OnceInv, Unread
<1>12. Numbered(S)
  BY <1>4, <1>5, <1>9, <1>10 DEF DeliverInv, ViewInv, Numbered
<1>13. /\ Plains(S) \in SUBSET PlainRecord /\ Plains(D) \in SUBSET Plains(S)
       /\ Plains(From(S, w)) = Plains(S) \ Plains(D)
       /\ \A q \in Plains(D), s \in Plains(S) \ Plains(D) : Earlier(q, s)
  <2>1. D = UpTo(S, w)
    BY DEF UpTo
  <2> HIDE DEF D, S
  <2> QED
    BY <1>6, <1>7, <1>11, <2>1, SplitByTime
<1>14. /\ Plains(S) = HeldView \cup {Plain(r)}
       /\ pending' = {f \in S : f.ts > w} /\ HeldView' = Plains(From(S, w))
  BY <1>1, <1>5 DEF Plains, HeldView, DrainUntil, From
<1>15. \A q \in Plains(D) : ~Behind(q.ts)
  <2>1. \A f \in S : ~Behind(f.ts)
    BY <1>1, <1>5 DEF DeliverInv, OrderInv, Awaits
  <2> QED
    BY <2>1, PlainFields DEF Plains
<1>16. D \in SUBSET S /\ pending' \in SUBSET S
  BY <1>14
<1> HIDE DEF S, D
<1>17. Turn(rs, Plains(D))
  <2>1. D \subseteq Entry /\ Heap(D)
    BY <1>7, <1>16, QueuedPart DEF Queued
  <2>2. Numbered(D)
    BY <1>12, <1>16 DEF Numbered
  <2> QED
    BY <2>1, <2>2, TurnOfHeap DEF Plains
<1>18. /\ Plain(r) \notin HeldView \cup Delivery!DeliveredSet(DeliveredView) \cup RefusedView
       /\ AheadOf(processed, Plains(S))
  BY <1>1, <1>2, <1>14, NewRecord
<1> HIDE DEF rs
<1>19. Delivery!Deliver({Plain(r)}) /\ InOrder(processed') /\ AheadOf(processed', HeldView')
  <2>1. HeldView' = Plains(S) \ Plains(D)
    BY <1>13, <1>14
  <2> QED
    BY <1>0, <1>1, <1>8, <1>13, <1>14, <1>15, <1>17, <1>18, <2>1, HandsOver
<1>20. /\ Delivery!FrontierFollows
       /\ \A i \in 1 .. Len(processed') : last_ts' # None /\ processed'[i].ts <= last_ts'
  BY <1>0, <1>8, <1>19, FrontierFollows
<1>21. Delivery!Accept(Plain(r))
  BY <1>18, <1>19, <1>20 DEF Delivery!Accept, HeldView, DeliveredView, RefusedView
<1>22. ViewInv'
  <2>1. \A q \in refused' : q.rec <= arrivals'
    BY <1>1, <1>2, Held DEF DeliverInv, ViewInv, Record
  <2>2. \A f, g \in pending' : f.seq < g.seq => f.rec < g.rec
    BY <1>12, <1>16 DEF Numbered
  <2> QED
    BY <1>19, <1>20, <2>1, <2>2, ViewSame
<1> QED
  BY <1>21, <1>22 DEF r

LEMMA DeliverRefused ==
  ASSUME DeliverInv, NEW ts \in Timestamps, NEW val \in Inputs, ~BadLateness,
         LET r == [ts |-> ts, val |-> val, rec |-> arrivals + 1] IN StepRefused(r) \/ StepLate(r)
  PROVE  ViewInv' /\ Delivery!Refuse(Plain([ts |-> ts, val |-> val, rec |-> arrivals + 1]))
<1> DEFINE r == [ts |-> ts, val |-> val, rec |-> arrivals + 1]
<1>0. BufferOK
  BY DEF DeliverInv, OrderInv, GraphInv
<1>1. /\ Arrive(r) /\ Behind(r.ts) /\ refused' = refused \cup {r}
      /\ UNCHANGED <<pending, last_ts, processed>>
  BY DEF StepRefused, StepLate, bufferVars
<1>2. r \in Record /\ r.rec = arrivals + 1 /\ arrivals' = arrivals + 1
  <2> HIDE DEF r
  <2> QED
    BY <1>0, <1>1, ArrivalRecord DEF r
<1> HIDE DEF r
<1>3. Plain(r) \notin HeldView \cup Delivery!DeliveredSet(DeliveredView) \cup RefusedView
  BY <1>2, NewRecord
<1>4. HeldView' = HeldView /\ DeliveredView' = DeliveredView /\ RefusedView' = RefusedView \cup {Plain(r)}
  BY <1>1 DEF HeldView, DeliveredView, RefusedView
<1>5. Delivery!Behind(Plain(r).ts)
  BY <1>1, PlainFields DEF Delivery!Behind, Behind
<1>6. Delivery!Refuse(Plain(r))
  BY <1>1, <1>3, <1>4, <1>5 DEF Delivery!Refuse, HeldView, DeliveredView, RefusedView
<1>7. ViewInv'
  <2>1. \A q \in refused' : q.rec <= arrivals'
    <3>1. \A q \in refused : q.rec <= arrivals /\ q.rec \in Int
      BY Held DEF DeliverInv, ViewInv, Record
    <3>2. arrivals \in Nat
      BY Held
    <3> QED
      BY <1>1, <1>2, <3>1, <3>2
  <2>2. InOrder(processed') /\ AheadOf(processed', HeldView')
    BY <1>1, <1>4 DEF DeliverInv, ViewInv
  <2>3. /\ \A i \in 1 .. Len(processed') : last_ts' # None /\ processed'[i].ts <= last_ts'
        /\ \A e, f \in pending' : e.seq < f.seq => e.rec < f.rec
    BY <1>1 DEF DeliverInv, ViewInv, Numbered
  <2> QED
    BY <2>1, <2>2, <2>3, ViewSame
<1> QED
  BY <1>6, <1>7 DEF r

LEMMA DeliverIdle ==
  ASSUME DeliverInv, TakeLateRecords \/ UNCHANGED vars
  PROVE  ViewInv' /\ UNCHANGED Delivery!deliveryVars
<1>1. UNCHANGED <<pending, last_ts, processed, refused, arrivals>>
  BY DEF TakeLateRecords, vars, bufferVars
<1>2. HeldView' = HeldView
  BY <1>1 DEF HeldView
<1>3. InOrder(processed') /\ AheadOf(processed', HeldView')
  BY <1>1, <1>2 DEF DeliverInv, ViewInv
<1>4. /\ \A i \in 1 .. Len(processed') : last_ts' # None /\ processed'[i].ts <= last_ts'
      /\ \A e, f \in pending' : e.seq < f.seq => e.rec < f.rec
      /\ \A q \in refused' : q.rec <= arrivals'
  BY <1>1 DEF DeliverInv, ViewInv, Numbered
<1>5. ViewInv'
  BY <1>3, <1>4, ViewSame
<1> QED
  BY <1>1, <1>5 DEF Delivery!deliveryVars

\* A watermark that no buffered record is behind is announced.
LEMMA DeliverAdvanced ==
  ASSUME DeliverInv, GraphInv', NEW ts \in Time, AdvanceEventTimeWatermark(ts),
         pending # {} => ts = ReleaseWatermark
  PROVE  ViewInv' /\ (Delivery!Announce \/ UNCHANGED Delivery!deliveryVars)
<1>1. /\ last_ts' = ts /\ ~Behind(ts)
      /\ UNCHANGED <<pending, processed, refused, arrivals>>
  BY DEF AdvanceEventTimeWatermark
<1>2. ts \in Int /\ ts # None /\ (last_ts # None => last_ts \in Int /\ last_ts <= ts)
  <2>1. last_ts \in Time \cup {None} /\ ts \in Int
    BY TimeIsInt DEF DeliverInv, OrderInv, GraphInv, BufferOK
  <2> QED
    BY <1>1, <2>1, TimeIsInt, TimeAssumption DEF Behind
<1>3. \A q \in HeldView : ts <= q.ts
  <2>1. ASSUME NEW e \in pending
        PROVE  ts <= Plain(e).ts
    <3>1. ts < e.ts /\ e.ts \in Int
      BY Held, EntryFields DEF DeliverInv, OrderInv, Awaits
    <3> QED
      BY <1>2, <3>1, PlainFields
  <2> QED
    BY <2>1 DEF HeldView
<1>4. HeldView' = HeldView /\ DeliveredView' = DeliveredView /\ RefusedView' = RefusedView
  BY <1>1 DEF HeldView, DeliveredView, RefusedView
<1>5. ViewInv'
  <2>1. \A i \in 1 .. Len(processed') : last_ts' # None /\ processed'[i].ts <= last_ts'
    <3>1. \A i \in 1 .. Len(processed) : processed[i].ts \in Int
      <4>1. \A i \in 1 .. Len(processed) : processed[i] \in Record
        BY Held
      <4> QED
        BY <4>1, KeyedAssumption, TimeIsInt DEF Record
    <3>2. \A i \in 1 .. Len(processed) : last_ts # None /\ processed[i].ts <= last_ts
      BY DEF DeliverInv, ViewInv
    <3> QED
      BY <1>1, <1>2, <3>1, <3>2
  <2>2. InOrder(processed') /\ AheadOf(processed', HeldView')
    BY <1>1, <1>4 DEF DeliverInv, ViewInv
  <2>3. /\ \A e, f \in pending' : e.seq < f.seq => e.rec < f.rec
        /\ \A q \in refused' : q.rec <= arrivals'
    BY <1>1 DEF DeliverInv, ViewInv, Numbered
  <2> QED
    BY <2>1, <2>2, <2>3, ViewSame
<1>6. CASE last_ts' = last_ts
  <2>1. UNCHANGED Delivery!deliveryVars
    BY <1>4, <1>6 DEF Delivery!deliveryVars, HeldView, DeliveredView, RefusedView
  <2> QED
    BY <1>5, <2>1
<1>7. CASE last_ts' # last_ts
  <2>1. Delivery!Announce
    BY <1>1, <1>3, <1>4, <1>7
       DEF Delivery!Announce, Delivery!Behind, Behind, HeldView, DeliveredView, RefusedView
  <2> QED
    BY <1>5, <2>1
<1> QED
  BY <1>6, <1>7

LEMMA DeliverFlush ==
  ASSUME DeliverInv, OrderInv', Flush
  PROVE  ViewInv' /\ Delivery!Close
<1> DEFINE rs == RecordsOf(pending)
           d == RunInTurn(G, rs)
           x == IF rs = <<>> THEN last_ts ELSE rs[Len(rs)].ts
<1>0. GraphInv /\ GraphInv'
  BY DEF DeliverInv, OrderInv
<1>1. rs \in Seq(Record) /\ processed' = processed \o rs /\ Flushes(rs, d)
  BY <1>0, GraphFlushed
<1>2. pending' = {} /\ HeldView' = {} /\ UNCHANGED <<arrivals, refused>>
  BY DEF Flush, HeldView
<1>3. Queued(pending, pending_seq)
  BY <1>0 DEF GraphInv, BufferOK
<1>4. pending \subseteq Entry /\ Heap(pending)
  BY <1>3, QueuedPart DEF Queued
<1>5. Turn(rs, HeldView)
  BY <1>4, TurnOfHeap DEF HeldView, DeliverInv, ViewInv
<1>6. x # None => last_ts' # None /\ x <= last_ts'
  BY <1>1 DEF Flushes
<1> HIDE DEF rs, d
<1>7. \A q \in HeldView : ~Behind(q.ts)
  <2>1. \A e \in pending : ~Behind(e.ts)
    BY DEF DeliverInv, OrderInv, Awaits
  <2> QED
    BY <2>1, PlainFields DEF HeldView
<1>8. Delivery!Deliver({}) /\ InOrder(processed') /\ AheadOf(processed', HeldView')
  <2>1. /\ HeldView \in SUBSET PlainRecord /\ HeldView \in SUBSET HeldView
        /\ HeldView = HeldView \cup {} /\ HeldView' = HeldView \ HeldView
    BY <1>2, Held
  <2>2. AheadOf(processed, HeldView)
    BY DEF DeliverInv, ViewInv
  <2>3. \A q \in HeldView, s \in HeldView \ HeldView : Earlier(q, s)
    OBVIOUS
  <2> QED
    BY <1>0, <1>1, <1>2, <1>5, <1>7, <2>1, <2>2, <2>3, HandsOver
<1>9. \A i \in 1 .. Len(processed') : x # None /\ processed'[i].ts <= x
  BY <1>0, <1>1, <1>8, FrontierFollows
<1>10. x \in Time \cup {None} /\ last_ts \in Time \cup {None} /\ last_ts' \in Time \cup {None}
  BY <1>0, <1>1, FrontierIsTime DEF GraphInv, BufferOK
<1>11. last_ts # None => x # None /\ last_ts <= x
  <2> SUFFICES ASSUME last_ts # None PROVE x # None /\ last_ts <= x
    OBVIOUS
  <2>1. CASE rs = <<>>
    BY <1>10, <2>1, TimeIsInt
  <2>2. CASE rs # <<>>
    <3>1. Len(rs) \in 1 .. Len(rs) /\ rs[Len(rs)] \in Record
      BY <1>1, <2>2
    <3>2. rs[Len(rs)].ts \in Time
      BY <3>1, KeyedAssumption DEF Record
    <3>3. Plain(rs[Len(rs)]) \in HeldView
      BY <1>5, <3>1 DEF Turn
    <3>4. ~Behind(rs[Len(rs)].ts)
      BY <1>7, <3>3, PlainFields
    <3> DEFINE y == rs[Len(rs)].ts
    <3>5. x = y /\ y \in Time /\ ~Behind(y)
      BY <2>2, <3>2, <3>4
    <3> HIDE DEF x, y
    <3>6. y \in Int /\ last_ts \in Int
      BY <1>10, <3>5, TimeIsInt
    <3> QED
      BY <3>5, <3>6, TimeAssumption DEF Behind
  <2> QED
    BY <2>1, <2>2
<1>12. last_ts # None => last_ts <= last_ts'
  <2> HIDE DEF x
  <2> SUFFICES ASSUME last_ts # None PROVE last_ts <= last_ts'
    OBVIOUS
  <2>1. /\ x # None /\ last_ts <= x /\ last_ts' # None /\ x <= last_ts'
    BY <1>6, <1>11
  <2>2. last_ts \in Int /\ x \in Int /\ last_ts' \in Int
    BY <1>10, <2>1, TimeIsInt
  <2> QED
    BY <2>1, <2>2
<1>13. Delivery!Close
  BY <1>2, <1>8, <1>12 DEF Delivery!Close, HeldView
<1>14. ViewInv'
  <2>1. \A i \in 1 .. Len(processed') : last_ts' # None /\ processed'[i].ts <= last_ts'
    <3> TAKE i \in 1 .. Len(processed')
    <3>1. x # None /\ processed'[i].ts <= x
      BY <1>9
    <3>2. processed'[i] \in Record
      <4>1. processed' \in Seq(Record)
        BY <1>0 DEF GraphInv, BufferOK
      <4> QED
        BY <4>1
    <3>3. processed'[i].ts \in Int
      BY <3>2, KeyedAssumption, TimeIsInt DEF Record
    <3> HIDE DEF x
    <3> QED
      BY <1>6, <1>10, <3>1, <3>3, TimeIsInt
  <2>2. \A q \in refused' : q.rec <= arrivals'
    BY <1>2 DEF DeliverInv, ViewInv
  <2>3. pending' = {}
    BY <1>2
  <2> QED
    BY <1>8, <2>1, <2>2, <2>3, ViewSame
<1> QED
  BY <1>13, <1>14

\* Every lateness to run with is one the code accepts.
ValidLateness == \A s \in Setups : s.policy = "Buffer" => s.max_lateness \in 0 .. MAX_LATENESS_MS

\* The initial states.
LEMMA DeliverInit == Init => DeliverInv /\ Delivery!Init
<1> SUFFICES ASSUME Init PROVE DeliverInv /\ Delivery!Init
  OBVIOUS
<1>1. OrderInv /\ OnceInv
  BY OrderInit, OnceInit
<1>2. pending = {} /\ processed = <<>> /\ refused = {} /\ last_ts = None
  BY DEF Init
<1>3. ViewInv
  BY <1>2 DEF ViewInv, InOrder, AheadOf, Numbered
<1>4. Delivery!Init
  BY <1>2 DEF Delivery!Init
<1> QED
  BY <1>1, <1>3, <1>4 DEF DeliverInv

\* Every step is a step of an ordered delivery, or none at all.
LEMMA StepDelivers ==
  ASSUME ValidLateness, DeliverInv, [DrivenNext]_vars
  PROVE  DeliverInv' /\ [Delivery!Next]_(Delivery!deliveryVars)
<1>0. OrderInv' /\ GraphInv'
  BY OrderDrivenNext DEF DeliverInv, OrderInv
<1>1. ASSUME NEW ts \in Timestamps, NEW val \in Inputs,
             Step([ts |-> ts, val |-> val, rec |-> arrivals + 1])
      PROVE  DeliverInv' /\ Delivery!Next
  <2> DEFINE r == [ts |-> ts, val |-> val, rec |-> arrivals + 1]
             Offered == [ts : Timestamps, rec : 1 .. MaxArrivals]
  <2>1. OnceInv'
    BY <1>0, <1>1, OnceStep DEF DeliverInv
  <2>2. Plain(r) \in Offered
    <3>1. BufferOK /\ Arrive(r)
      BY <1>1 DEF DeliverInv, OrderInv, GraphInv, Step, StepRefused, StepLate, StepThrough, StepBuffered
    <3>2. r \in Record
      <4> HIDE DEF r
      <4> QED
        BY <3>1, ArrivalRecord DEF r
    <3> QED
      BY <3>2, PlainFields DEF PlainRecord
  <2>3. ~BadLateness
    <3> DEFINE s == [graph |-> graph, policy |-> policy, max_lateness |-> max_lateness]
    <3>1. s \in Setups /\ s.policy = policy /\ s.max_lateness = max_lateness
      BY DEF DeliverInv, OrderInv, GraphInv, SetupOK
    <3> HIDE DEF s
    <3> QED
      BY <3>1 DEF ValidLateness, BadLateness
  <2>4. ViewInv' /\ (Delivery!Accept(Plain(r)) \/ Delivery!Refuse(Plain(r)))
    BY <1>0, <1>1, <2>1, <2>3, DeliverRefused, DeliverThrough, DeliverBuffered DEF Step
  <2>5. \E q \in Offered : Delivery!Accept(q) \/ Delivery!Refuse(q)
    BY <2>2, <2>4
  <2> QED
    BY <1>0, <2>1, <2>4, <2>5 DEF DeliverInv, Delivery!Next
<1>2. CASE DriverAdvances
  <2>1. PICK ts : ts \in Time /\ AdvanceEventTimeWatermark(ts) /\ (pending # {} => ts = ReleaseWatermark)
    BY <1>2, DriverWatermark DEF DeliverInv
  <2>2. OnceInv'
    BY <1>0, <2>1, OnceAdvanced DEF DeliverInv
  <2>3. ViewInv' /\ (Delivery!Announce \/ UNCHANGED Delivery!deliveryVars)
    BY <1>0, <2>1, DeliverAdvanced
  <2> QED
    BY <1>0, <2>2, <2>3 DEF DeliverInv, Delivery!Next
<1>3. CASE Flush
  <2>1. OnceInv'
    BY <1>0, <1>3, OnceFlush DEF DeliverInv
  <2>2. ViewInv' /\ Delivery!Close
    BY <1>0, <1>3, DeliverFlush
  <2> QED
    BY <1>0, <2>1, <2>2 DEF DeliverInv, Delivery!Next
<1>4. CASE TakeLateRecords \/ UNCHANGED vars
  <2>1. OnceInv'
    BY <1>0, <1>4, OnceIdle DEF DeliverInv
  <2> QED
    BY <1>0, <1>4, <2>1, DeliverIdle DEF DeliverInv
<1> QED
  BY <1>1, <1>2, <1>3, <1>4 DEF DrivenNext

\* With the driver of tflo-wasm, what the graph sees is an ordered delivery: each
\* record that step accepts is run once, in (ts, arrival) order, none is lost in the
\* buffer, and step refuses only what is behind a delivery or an announced watermark.
THEOREM GraphSeesAnOrderedDelivery ==
  ASSUME ValidLateness
  PROVE  DrivenSpec => ImplementsOrderedDelivery
<1>1. Init => DeliverInv /\ Delivery!Init
  BY DeliverInit
<1>2. DeliverInv /\ [DrivenNext]_vars => DeliverInv' /\ [Delivery!Next]_(Delivery!deliveryVars)
  BY StepDelivers
<1> QED
  BY <1>1, <1>2, PTL DEF DrivenSpec, ImplementsOrderedDelivery, Delivery!Spec

-----------------------------------------------------------------------------
(* Where the windows of a run of records are. *)

\* The edges of the buckets of all timestamps are times, and no timestamp is before 0,
\* where i64 division would put two buckets into one.
BucketsFit ==
  \A ts \in Timestamps : 0 <= ts /\ (ts \div BucketSize + 1) * BucketSize <= TimeMax

\* The operators that emit sums, and the end of the window whose last record is at ts.
Sums(c) == c = "session" \/ (c = "tumbling" /\ BucketsFit)
Due(c, ts) == IF c = "session" THEN SatAdd(ts, Gap) ELSE NextBucketEdge(ts)

\* Where nothing saturates, the edge of a bucket is a multiple of the size.
LEMMA BucketEdge ==
  ASSUME BucketsFit, NEW ts \in Timestamps
  PROVE  /\ NextBucketEdge(ts) = (ts \div BucketSize + 1) * BucketSize
         /\ NextBucketEdge(ts) \in Time /\ ts < NextBucketEdge(ts)
         /\ ts \in Nat /\ ts \div BucketSize \in Nat
<1> DEFINE q == ts \div BucketSize
           edge == (q + 1) * BucketSize
<1>1. ts \in Time /\ 0 <= ts /\ edge <= TimeMax
  BY KeyedAssumption DEF BucketsFit
<1>2. /\ BucketSize \in Nat \ {0} /\ TimeMin \in Int /\ TimeMax \in Int /\ TimeMin <= 0
      /\ ts \in Nat /\ BucketSize \in Int /\ 1 <= BucketSize
  BY <1>1, KeyedAssumption, TimeAssumption DEF Time
<1>3. q \in Nat /\ ts < edge
  BY <1>2, Quotient
<1>4. DivTrunc(ts, BucketSize) = q
  BY <1>1 DEF DivTrunc
<1> HIDE DEF q
<1>5. edge \in Int /\ q + 1 <= edge
  <2>1. 0 <= (q + 1) * (BucketSize - 1)
    BY <1>2, <1>3
  <2> QED
    BY <1>2, <1>3, <2>1
<1>6. SatAdd(q, 1) = q + 1
  BY <1>1, <1>2, <1>3, <1>5 DEF SatAdd, Clamp
<1> HIDE DEF edge
<1>7. NextBucketEdge(ts) = edge
  <2>1. NextBucketEdge(ts) = Clamp(edge, TimeMin, TimeMax)
    BY <1>4, <1>6 DEF NextBucketEdge, edge
  <2> QED
    BY <1>1, <1>2, <1>3, <1>5, <2>1 DEF Clamp
<1> QED
  BY <1>1, <1>2, <1>3, <1>5, <1>7 DEF edge, q, Time

\* Timestamps below an edge are in its bucket or in an earlier one.
LEMMA BucketOrder ==
  ASSUME BucketsFit, NEW a \in Timestamps, NEW b \in Timestamps
  PROVE  /\ a <= b => a \div BucketSize <= b \div BucketSize
         /\ b < NextBucketEdge(a) <=> b \div BucketSize <= a \div BucketSize
<1> DEFINE p == a \div BucketSize
           q == b \div BucketSize
           edge == NextBucketEdge(a)
<1>1. /\ p \in Nat /\ q \in Nat /\ a \in Nat /\ b \in Nat /\ BucketSize \in Nat \ {0}
      /\ edge = (p + 1) * BucketSize
  BY BucketEdge, KeyedAssumption
<1>2. p * BucketSize <= a /\ a < (p + 1) * BucketSize /\ q * BucketSize <= b /\ b < (q + 1) * BucketSize
  BY <1>1, Quotient
<1> HIDE DEF p, q, edge
<1>3. ASSUME NEW x \in Nat, NEW y \in Nat, x + 1 <= y
      PROVE  (x + 1) * BucketSize <= y * BucketSize
  <2>1. 0 <= (y - (x + 1)) * BucketSize
    BY <1>1, <1>3
  <2> QED
    BY <1>1, <2>1
<1>4. \A x \in Nat : x * BucketSize \in Int /\ (x + 1) * BucketSize = x * BucketSize + BucketSize
  BY <1>1
<1>5. ASSUME a <= b PROVE p <= q
  <2> SUFFICES ASSUME q + 1 <= p PROVE FALSE
    BY <1>1
  <2>1. (q + 1) * BucketSize <= p * BucketSize
    BY <1>1, <1>3
  <2>2. (q + 1) * BucketSize \in Int /\ p * BucketSize \in Int
    BY <1>1
  <2> QED
    BY <1>1, <1>2, <1>5, <2>1, <2>2
<1>6. ASSUME b < edge PROVE q <= p
  <2> SUFFICES ASSUME p + 1 <= q PROVE FALSE
    BY <1>1
  <2>1. (p + 1) * BucketSize <= q * BucketSize
    BY <1>1, <1>3
  <2>2. (p + 1) * BucketSize \in Int /\ q * BucketSize \in Int
    BY <1>1
  <2> QED
    BY <1>1, <1>2, <1>6, <2>1, <2>2
<1>7. ASSUME q <= p PROVE b < edge
  <2>1. (q + 1) * BucketSize <= (p + 1) * BucketSize
    BY <1>1, <1>3, <1>7
  <2>2. (p + 1) * BucketSize \in Int /\ (q + 1) * BucketSize \in Int
    BY <1>1
  <2> QED
    BY <1>1, <1>2, <2>1, <2>2
<1> QED
  BY <1>5, <1>6, <1>7 DEF p, q, edge

\* The end of a window is a time, later records end it later, and a record before the
\* end of a bucket does not move it.
LEMMA DueOrder ==
  ASSUME NEW c, Sums(c), NEW a \in Timestamps, NEW b \in Timestamps, a <= b
  PROVE  /\ Due(c, a) \in Time /\ Due(c, a) \in Int /\ Due(c, a) <= Due(c, b)
         /\ c # "session" /\ b < Due(c, a) => Due(c, b) = Due(c, a)
<1>1. CASE c = "session"
  BY <1>1, KeyedAssumption, TimeAssumption DEF Due, SatAdd, Clamp, Time
<1>2. CASE c # "session" /\ BucketsFit
  <2> DEFINE p == a \div BucketSize
             q == b \div BucketSize
  <2>1. Due(c, a) = (p + 1) * BucketSize /\ Due(c, b) = (q + 1) * BucketSize /\ Due(c, a) \in Time /\ Due(c, b) \in Time
    BY <1>2, BucketEdge DEF Due
  <2>2. p \in Nat /\ q \in Nat /\ p <= q /\ (b < Due(c, a) => q <= p) /\ BucketSize \in Nat
    BY <1>2, BucketEdge, BucketOrder, KeyedAssumption DEF Due
  <2> HIDE DEF p, q
  <2>3. (p + 1) * BucketSize <= (q + 1) * BucketSize
    <3>1. 0 <= (q - p) * BucketSize
      BY <2>2
    <3> QED
      BY <2>2, <3>1
  <2>4. b < Due(c, a) => p = q
    BY <2>2
  <2>5. Due(c, a) \in Int
    BY <2>1, TimeIsInt
  <2> QED
    BY <2>1, <2>3, <2>4, <2>5
<1> QED
  BY <1>1, <1>2 DEF Sums

\* The records of p with an input, by their place. A window starts with a record that
\* no earlier window reaches, and has the records up to the next start.
At(p) == {i \in DOMAIN p : p[i].val # Absent}
Starts(p, c) == {i \in At(p) : \A j \in At(p) : j < i => Due(c, p[j].ts) <= p[i].ts}
Part(p, c, i) == {k \in At(p) : i <= k /\ Starts(p, c) \cap (i + 1) .. k = {}}
Window(p, c, i) == {p[k].rec : k \in Part(p, c, i)}

\* The records are in the order of their times, none is after x, and none came twice.
Ordered(p, x) ==
  /\ \A i, j \in DOMAIN p : i < j => p[i].ts <= p[j].ts
  /\ \A i \in DOMAIN p : x # None /\ p[i].ts <= x
Distinct(p) == \A i, j \in DOMAIN p : p[i].rec = p[j].rec => i = j

\* One more record.
LEMMA OneMore ==
  ASSUME NEW p \in Seq(Record), NEW r \in Record
  PROVE  LET q == Append(p, r)
             N == Len(p) + 1
         IN  /\ Len(p) \in Nat /\ N \in Nat /\ At(p) \subseteq 1 .. Len(p) /\ N \notin At(p)
             /\ q \in Seq(Record) /\ Len(q) = N /\ DOMAIN q = 1 .. N /\ DOMAIN p = 1 .. Len(p)
             /\ q[N] = r /\ \A k \in 1 .. Len(p) : q[k] = p[k]
             /\ At(q) = IF r.val = Absent THEN At(p) ELSE At(p) \cup {N}
<1> DEFINE q == Append(p, r)
           N == Len(p) + 1
<1>1. /\ q \in Seq(Record) /\ Len(q) = N /\ Len(p) \in Nat /\ DOMAIN q = 1 .. N /\ DOMAIN p = 1 .. Len(p)
      /\ q[N] = r /\ \A k \in 1 .. Len(p) : q[k] = p[k]
  OBVIOUS
<1> HIDE DEF q
<1>2. At(p) = {k \in 1 .. Len(p) : p[k].val # Absent} /\ At(q) = {k \in 1 .. N : q[k].val # Absent}
  BY <1>1 DEF At
<1>3. \A k : k \in 1 .. N <=> k \in 1 .. Len(p) \/ k = N
  BY <1>1
<1>4. N \notin 1 .. Len(p)
  BY <1>1
<1> QED
  BY <1>1, <1>2, <1>3, <1>4 DEF q

\* The times of the records.
LEMMA AtTimes ==
  ASSUME NEW p \in Seq(Record), NEW i \in At(p)
  PROVE  /\ i \in Nat /\ i \in 1 .. Len(p) /\ i \in DOMAIN p /\ p[i] \in Record /\ p[i].val # Absent
         /\ p[i].ts \in Timestamps /\ p[i].ts \in Int /\ p[i].rec \in 1 .. MaxArrivals
<1>1. i \in DOMAIN p /\ p[i].val # Absent /\ DOMAIN p = 1 .. Len(p) /\ Len(p) \in Nat
  BY DEF At
<1>2. p[i] \in Record
  BY <1>1
<1>3. p[i].ts \in Timestamps /\ p[i].ts \in Time /\ p[i].rec \in 1 .. MaxArrivals
  BY <1>2, KeyedAssumption DEF Record
<1>4. p[i].ts \in Int
  BY <1>3, TimeIsInt
<1>5. i \in Nat /\ i \in 1 .. Len(p)
  BY <1>1
<1> QED
  BY <1>1, <1>2, <1>3, <1>4, <1>5

\* A record without an input changes no window.
LEMMA WindowsSkip ==
  ASSUME NEW p \in Seq(Record), NEW r \in Record, r.val = Absent, NEW c
  PROVE  LET q == Append(p, r)
         IN  /\ At(q) = At(p) /\ Starts(q, c) = Starts(p, c)
             /\ \A i : Part(q, c, i) = Part(p, c, i) /\ Window(q, c, i) = Window(p, c, i)
             /\ \A k \in At(p) : q[k] = p[k]
<1> DEFINE q == Append(p, r)
<1>1. At(q) = At(p) /\ \A k \in At(p) : q[k] = p[k]
  BY OneMore
<1> HIDE DEF q
<1>2. Starts(q, c) = Starts(p, c)
  BY <1>1 DEF Starts
<1>3. \A i : Part(q, c, i) = Part(p, c, i)
  BY <1>1, <1>2 DEF Part
<1>4. ASSUME NEW i
      PROVE  Window(q, c, i) = Window(p, c, i)
  <2>1. \A k \in Part(p, c, i) : q[k].rec = p[k].rec
    BY <1>1 DEF Part
  <2> QED
    BY <1>3, <2>1 DEF Window
<1> QED
  BY <1>1, <1>2, <1>3, <1>4 DEF q

\* Whether the next record, behind no end or in the newest window, is a start.
LEMMA NextStarts ==
  ASSUME NEW p \in Seq(Record), NEW r \in Record, r.val # Absent, NEW c
  PROVE  LET q == Append(p, r)
             N == Len(p) + 1
         IN  /\ Starts(q, c) \ {N} = Starts(p, c) /\ N \notin Starts(p, c)
             /\ N \in Starts(q, c) <=> \A j \in At(p) : Due(c, p[j].ts) <= r.ts
<1> DEFINE q == Append(p, r)
           N == Len(p) + 1
<1>1. /\ Len(p) \in Nat /\ At(p) \subseteq 1 .. Len(p) /\ N \notin At(p)
      /\ q[N] = r /\ \A k \in At(p) : q[k] = p[k]
      /\ At(q) = At(p) \cup {N}
  BY OneMore
<1> HIDE DEF q
<1>2. \A i \in At(p) : i \in Nat /\ i < N
  BY <1>1
<1>3. ASSUME NEW i \in At(p)
      PROVE  i \in Starts(q, c) <=> i \in Starts(p, c)
  <2>1. ~(N < i)
    BY <1>1, <1>2
  <2> QED
    BY <1>1, <2>1 DEF Starts
<1>4. N \in Starts(q, c) <=> \A j \in At(p) : Due(c, p[j].ts) <= r.ts
  <2>1. ~(N < N)
    BY <1>1
  <2> QED
    BY <1>1, <1>2, <2>1 DEF Starts
<1>5. Starts(q, c) \subseteq At(p) \cup {N} /\ Starts(p, c) \subseteq At(p)
  BY <1>1 DEF Starts
<1> QED
  BY <1>1, <1>3, <1>4, <1>5 DEF q

\* A record behind no end starts a window of its own.
LEMMA WindowsStart ==
  ASSUME NEW p \in Seq(Record), NEW r \in Record, r.val # Absent, NEW c,
         \A j \in At(p) : Due(c, p[j].ts) <= r.ts
  PROVE  LET q == Append(p, r)
             N == Len(p) + 1
         IN  /\ Starts(q, c) = Starts(p, c) \cup {N}
             /\ \A i \in Starts(p, c) : Part(q, c, i) = Part(p, c, i) /\ Window(q, c, i) = Window(p, c, i)
             /\ Part(q, c, N) = {N} /\ Window(q, c, N) = {r.rec}
<1> DEFINE q == Append(p, r)
           N == Len(p) + 1
<1>1. /\ Len(p) \in Nat /\ At(p) \subseteq 1 .. Len(p) /\ N \notin At(p) /\ N \in Nat
      /\ q[N] = r /\ \A k \in At(p) : q[k] = p[k]
      /\ At(q) = At(p) \cup {N}
  BY OneMore
<1>2. Starts(q, c) = Starts(p, c) \cup {N}
  BY NextStarts
<1> HIDE DEF q
<1>3. \A i \in At(p) : i \in Nat /\ i < N
  BY <1>1
<1> DEFINE M == N
<1> HIDE DEF N
<1>4. ASSUME NEW i \in Starts(p, c)
      PROVE  Part(q, c, i) = Part(p, c, i) /\ Window(q, c, i) = Window(p, c, i)
  <2>1. i \in At(p) /\ i \in Nat /\ i < N
    BY <1>3 DEF Starts
  <2>2. N \notin Part(q, c, i)
    <3>1. N \in (i + 1) .. N
      BY <1>1, <2>1
    <3> QED
      BY <1>2, <3>1 DEF Part
  <2>3. ASSUME NEW k \in At(p)
        PROVE  k \in Part(q, c, i) <=> k \in Part(p, c, i)
    <3>1. N \notin (i + 1) .. k
      BY <1>1, <1>3, <2>1
    <3> QED
      BY <1>1, <1>2, <3>1 DEF Part
  <2>4. Part(q, c, i) = Part(p, c, i)
    BY <1>1, <2>2, <2>3 DEF Part
  <2>5. \A k \in Part(p, c, i) : q[k].rec = p[k].rec
    BY <1>1 DEF Part
  <2> QED
    BY <2>4, <2>5 DEF Window
<1>5. Part(q, c, N) = {N}
  <2>1. (N + 1) .. N = {} /\ N <= N
    BY <1>1
  <2>2. \A k \in At(p) : ~(N <= k)
    BY <1>1, <1>3
  <2> QED
    BY <1>1, <2>1, <2>2 DEF Part
<1>6. Window(q, c, N) = {r.rec}
  BY <1>1, <1>5 DEF Window
<1> QED
  BY <1>2, <1>4, <1>5, <1>6 DEF q, N

\* A record before the end of the newest window joins it.
LEMMA WindowsJoin ==
  ASSUME NEW p \in Seq(Record), NEW r \in Record, r.val # Absent, NEW c,
         ~ \A j \in At(p) : Due(c, p[j].ts) <= r.ts
  PROVE  LET q == Append(p, r)
             N == Len(p) + 1
             Newest(i) == \A j \in Starts(p, c) : j <= i
         IN  /\ Starts(q, c) = Starts(p, c)
             /\ \A i \in Starts(p, c) : ~Newest(i) =>
                  Part(q, c, i) = Part(p, c, i) /\ Window(q, c, i) = Window(p, c, i)
             /\ \A i \in Starts(p, c) : Newest(i) =>
                  Part(q, c, i) = Part(p, c, i) \cup {N} /\ Window(q, c, i) = Window(p, c, i) \cup {r.rec}
<1> DEFINE q == Append(p, r)
           N == Len(p) + 1
           Newest(i) == \A j \in Starts(p, c) : j <= i
<1>1. /\ Len(p) \in Nat /\ At(p) \subseteq 1 .. Len(p) /\ N \notin At(p) /\ N \in Nat
      /\ q[N] = r /\ \A k \in At(p) : q[k] = p[k]
      /\ At(q) = At(p) \cup {N}
  BY OneMore
<1>2. Starts(q, c) = Starts(p, c)
  <2>1. Starts(q, c) \ {N} = Starts(p, c) /\ N \notin Starts(q, c)
    BY NextStarts
  <2> QED
    BY <2>1
<1> HIDE DEF q
<1>3. \A i \in At(p) : i \in Nat /\ i < N
  BY <1>1
<1>4. Starts(p, c) \subseteq At(p)
  BY DEF Starts
<1> HIDE DEF N
<1>5. ASSUME NEW i \in Starts(p, c), NEW k \in At(p)
      PROVE  k \in Part(q, c, i) <=> k \in Part(p, c, i)
  BY <1>1, <1>2 DEF Part
<1>6. ASSUME NEW i \in Starts(p, c)
      PROVE  N \in Part(q, c, i) <=> Newest(i)
  <2>1. i \in Nat /\ i <= N /\ N \in At(q)
    BY <1>1, <1>3, <1>4
  <2>2. \A j \in Starts(p, c) : j \in (i + 1) .. N <=> ~(j <= i)
    BY <1>1, <1>3, <1>4, <2>1
  <2> QED
    BY <1>2, <2>1, <2>2 DEF Part
<1>7. \A i \in Starts(p, c) : Part(q, c, i) = IF Newest(i) THEN Part(p, c, i) \cup {N} ELSE Part(p, c, i)
  <2> TAKE i \in Starts(p, c)
  <2>1. Part(q, c, i) \subseteq At(p) \cup {N} /\ Part(p, c, i) \subseteq At(p)
    BY <1>1 DEF Part
  <2> HIDE DEF Newest
  <2> QED
    BY <1>5, <1>6, <2>1
<1>8. \A i : \A k \in Part(p, c, i) : q[k].rec = p[k].rec
  BY <1>1 DEF Part
<1>9. \A i \in Starts(p, c) :
        Window(q, c, i) = IF Newest(i) THEN Window(p, c, i) \cup {r.rec} ELSE Window(p, c, i)
  <2> TAKE i \in Starts(p, c)
  <2> HIDE DEF Newest
  <2>1. CASE Newest(i)
    BY <1>1, <1>7, <1>8, <2>1 DEF Window
  <2>2. CASE ~Newest(i)
    BY <1>7, <1>8, <2>2 DEF Window
  <2> QED
    BY <2>1, <2>2
<1> QED
  BY <1>2, <1>7, <1>9 DEF q, N

-----------------------------------------------------------------------------
(* The windows that a node has open or has emitted are those of the records. *)

\* The window that starts at i is the newest; its last record is at k.
Newest(p, c, i) == \A j \in Starts(p, c) : j <= i
EndsAt(p, c, i, k) == k \in Part(p, c, i) /\ \A m \in Part(p, c, i) : m <= k

\* The state op of a node while its window is open, and between windows.
OpenSplit(op, p, c) ==
  op.open =>
    \E i \in Starts(p, c), k \in At(p) :
      /\ Newest(p, c, i) /\ EndsAt(p, c, i, k) /\ \A m \in At(p) : m <= k
      /\ op.acc = Window(p, c, i) /\ op.due = Due(c, p[k].ts)
ShutSplit(op, p, x, c) ==
  ~op.open => op.acc = {} /\ \A k \in At(p) : x # None /\ Due(c, p[k].ts) <= x

\* S is a window that no record can join any more, and it ends at ts.
Final(op, p, c, S, ts) ==
  \E i \in Starts(p, c), k \in At(p) :
    /\ EndsAt(p, c, i, k) /\ S = Window(p, c, i) /\ ts = Due(c, p[k].ts)
    /\ op.open => ~Newest(p, c, i)

\* The window that starts at i is still open.
Runs(op, p, c, i) == op.open /\ Newest(p, c, i)

\* A node of session_sum or tumbling_sum takes the record r.
Takes(op, c, r, op2) ==
  IF r.val = Absent THEN op2 = op
  ELSE /\ op2.open
       /\ op2.due = IF op.open /\ c # "session" THEN op.due ELSE Due(c, r.ts)
       /\ op2.acc = (IF op.open \/ c # "session" THEN op.acc ELSE {}) \cup {r.rec}

\* A window is over before the end of every later one.
LEMMA AllDue ==
  ASSUME NEW p \in Seq(Record), NEW x, Ordered(p, x), NEW c, Sums(c),
         NEW k \in At(p), \A m \in At(p) : m <= k
  PROVE  \A m \in At(p) : Due(c, p[m].ts) \in Int /\ p[m].ts <= p[k].ts /\ Due(c, p[m].ts) <= Due(c, p[k].ts)
<1> TAKE m \in At(p)
<1>1. /\ m \in DOMAIN p /\ k \in DOMAIN p /\ m \in Nat /\ k \in Nat /\ m <= k
      /\ p[m].ts \in Timestamps /\ p[k].ts \in Timestamps /\ p[k].ts \in Int
  BY AtTimes
<1>2. p[m].ts <= p[k].ts
  <2>1. CASE m = k
    BY <1>1, <2>1
  <2>2. CASE m # k
    BY <1>1, <2>2 DEF Ordered
  <2> QED
    BY <2>1, <2>2
<1> QED
  BY <1>1, <1>2, DueOrder

\* The state of the node and the final windows after a record without an input.
LEMMA SkipSplits ==
  ASSUME NEW p \in Seq(Record), NEW r \in Record, r.val = Absent, NEW c, NEW op,
         OpenSplit(op, p, c), NEW x, ShutSplit(op, p, x, c), NEW y, \A z \in Int : x # None /\ z <= x => y # None /\ z <= y,
         \A m \in At(p) : Due(c, p[m].ts) \in Int
  PROVE  LET q == Append(p, r)
         IN  /\ OpenSplit(op, q, c) /\ ShutSplit(op, q, y, c)
             /\ \A S, ts : Final(op, p, c, S, ts) => Final(op, q, c, S, ts)
             /\ \A i \in Starts(q, c) :
                  i \in Starts(p, c) /\ Window(q, c, i) = Window(p, c, i) /\ (Runs(op, p, c, i) => Runs(op, q, c, i))
<1> DEFINE q == Append(p, r)
<1>1. /\ At(q) = At(p) /\ Starts(q, c) = Starts(p, c)
      /\ \A i : Part(q, c, i) = Part(p, c, i) /\ Window(q, c, i) = Window(p, c, i)
      /\ \A k \in At(p) : q[k] = p[k]
  BY WindowsSkip
<1> HIDE DEF q
<1>2. \A i, k : (Newest(q, c, i) <=> Newest(p, c, i)) /\ (EndsAt(q, c, i, k) <=> EndsAt(p, c, i, k))
  BY <1>1 DEF Newest, EndsAt
<1>3. OpenSplit(op, q, c)
  BY <1>1, <1>2 DEF OpenSplit
<1>4. ShutSplit(op, q, y, c)
  BY <1>1 DEF ShutSplit
<1>5. ASSUME NEW S, NEW ts, Final(op, p, c, S, ts)
      PROVE  Final(op, q, c, S, ts)
  <2>1. PICK i \in Starts(p, c), k \in At(p) :
          /\ EndsAt(p, c, i, k) /\ S = Window(p, c, i) /\ ts = Due(c, p[k].ts)
          /\ op.open => ~Newest(p, c, i)
    BY <1>5 DEF Final
  <2>2. /\ EndsAt(q, c, i, k) /\ S = Window(q, c, i) /\ ts = Due(c, q[k].ts)
        /\ op.open => ~Newest(q, c, i)
    BY <1>1, <1>2, <2>1
  <2> QED
    BY <1>1, <2>2 DEF Final
<1> QED
  BY <1>1, <1>2, <1>3, <1>4, <1>5 DEF q, Runs

\* After a record that starts a window.
LEMMA StartSplits ==
  ASSUME NEW p \in Seq(Record), NEW r \in Record, r.val # Absent, NEW c, Sums(c), NEW op, ~op.open,
         \A j \in At(p) : Due(c, p[j].ts) <= r.ts, op.acc = {}, NEW op2, Takes(op, c, r, op2)
  PROVE  LET q == Append(p, r)
         IN  /\ OpenSplit(op2, q, c)
             /\ \A S, ts : Final(op, p, c, S, ts) => Final(op2, q, c, S, ts)
             /\ \A i \in Starts(q, c) : ~Runs(op2, q, c, i) =>
                  i \in Starts(p, c) /\ Window(q, c, i) = Window(p, c, i) /\ ~Runs(op, p, c, i)
<1> DEFINE q == Append(p, r)
           N == Len(p) + 1
<1>1. /\ Starts(q, c) = Starts(p, c) \cup {N}
      /\ \A i \in Starts(p, c) : Part(q, c, i) = Part(p, c, i) /\ Window(q, c, i) = Window(p, c, i)
      /\ Part(q, c, N) = {N} /\ Window(q, c, N) = {r.rec}
  BY WindowsStart
<1>2. /\ Len(p) \in Nat /\ At(p) \subseteq 1 .. Len(p) /\ q[N] = r /\ \A k \in At(p) : q[k] = p[k]
      /\ At(q) = At(p) \cup {N} /\ N \in Nat
  BY OneMore
<1> HIDE DEF q
<1>3. (\A k \in At(p) : k < N /\ k <= N /\ ~(N <= k)) /\ Starts(p, c) \subseteq At(p) /\ N <= N
  BY <1>2 DEF Starts
<1> HIDE DEF N
<1>4. Newest(q, c, N) /\ \A i \in Starts(p, c) : ~Newest(q, c, i)
  BY <1>1, <1>3 DEF Newest
<1>5. OpenSplit(op2, q, c)
  <2>1. EndsAt(q, c, N, N)
    BY <1>1, <1>3 DEF EndsAt
  <2>2. \A m \in At(q) : m <= N
    BY <1>2, <1>3
  <2>3. op2.acc = Window(q, c, N) /\ op2.due = Due(c, q[N].ts)
    BY <1>1, <1>2 DEF Takes
  <2> QED
    BY <1>1, <1>2, <1>4, <2>1, <2>2, <2>3 DEF OpenSplit
<1>6. ASSUME NEW S, NEW ts, Final(op, p, c, S, ts)
      PROVE  Final(op2, q, c, S, ts)
  <2>1. PICK i \in Starts(p, c), k \in At(p) :
          EndsAt(p, c, i, k) /\ S = Window(p, c, i) /\ ts = Due(c, p[k].ts)
    BY <1>6 DEF Final
  <2>2. EndsAt(q, c, i, k)
    BY <1>1, <2>1 DEF EndsAt
  <2>3. S = Window(q, c, i) /\ ts = Due(c, q[k].ts)
    BY <1>1, <1>2, <2>1
  <2> QED
    BY <1>1, <1>2, <1>4, <2>2, <2>3 DEF Final
<1>7. op2.open
  BY DEF Takes
<1> QED
  BY <1>1, <1>4, <1>5, <1>6, <1>7 DEF q, Runs

\* After a record that joins the window that is open.
LEMMA JoinSplits ==
  ASSUME NEW p \in Seq(Record), NEW x, Ordered(p, x), NEW r \in Record, r.val # Absent,
         \A m \in At(p) : p[m].ts <= r.ts,
         NEW c, Sums(c), NEW op, op.open, OpenSplit(op, p, c), r.ts < op.due,
         NEW op2, Takes(op, c, r, op2)
  PROVE  LET q == Append(p, r)
         IN  /\ OpenSplit(op2, q, c)
             /\ \A S, ts : Final(op, p, c, S, ts) => Final(op2, q, c, S, ts)
             /\ \A i \in Starts(q, c) : ~Runs(op2, q, c, i) =>
                  i \in Starts(p, c) /\ Window(q, c, i) = Window(p, c, i) /\ ~Runs(op, p, c, i)
<1> DEFINE q == Append(p, r)
           N == Len(p) + 1
<1>1. PICK i \in Starts(p, c), k \in At(p) :
        /\ Newest(p, c, i) /\ EndsAt(p, c, i, k) /\ \A m \in At(p) : m <= k
        /\ op.acc = Window(p, c, i) /\ op.due = Due(c, p[k].ts)
  BY DEF OpenSplit
<1>2. r.ts \in Timestamps /\ r.ts \in Int /\ p[k].ts \in Timestamps /\ p[k].ts \in Int /\ p[k].ts <= r.ts
  <2>1. r.ts \in Timestamps /\ r.ts \in Time
    BY KeyedAssumption DEF Record
  <2>2. r.ts \in Int
    BY <2>1, TimeIsInt
  <2> QED
    BY <2>1, <2>2, AtTimes
<1>3. /\ Due(c, p[k].ts) \in Int
      /\ c # "session" => Due(c, r.ts) = Due(c, p[k].ts)
  <2> DEFINE a == p[k].ts
             b == r.ts
  <2>1. a \in Timestamps /\ b \in Timestamps /\ a <= b /\ b < Due(c, a)
    BY <1>1, <1>2
  <2> HIDE DEF a, b
  <2>2. /\ Due(c, a) \in Int
        /\ c # "session" /\ b < Due(c, a) => Due(c, b) = Due(c, a)
    BY <2>1, DueOrder
  <2> QED
    BY <2>1, <2>2 DEF a, b
<1>4. ~ \A j \in At(p) : Due(c, p[j].ts) <= r.ts
  BY <1>1, <1>2, <1>3
<1>5. /\ Starts(q, c) = Starts(p, c)
      /\ \A j \in Starts(p, c) : ~Newest(p, c, j) =>
           Part(q, c, j) = Part(p, c, j) /\ Window(q, c, j) = Window(p, c, j)
      /\ \A j \in Starts(p, c) : Newest(p, c, j) =>
           Part(q, c, j) = Part(p, c, j) \cup {N} /\ Window(q, c, j) = Window(p, c, j) \cup {r.rec}
  BY <1>4, WindowsJoin DEF Newest
<1>6. /\ Len(p) \in Nat /\ At(p) \subseteq 1 .. Len(p) /\ q[N] = r /\ \A m \in At(p) : q[m] = p[m]
      /\ At(q) = At(p) \cup {N} /\ N \in Nat
  BY OneMore
<1> HIDE DEF q
<1>7. (\A m \in At(p) : m <= N) /\ Starts(p, c) \subseteq At(p) /\ N <= N
  BY <1>6 DEF Starts
<1> HIDE DEF N
<1>8. \A j : Newest(q, c, j) <=> Newest(p, c, j)
  BY <1>5 DEF Newest
<1>9. OpenSplit(op2, q, c)
  <2>1. EndsAt(q, c, i, N)
    <3>1. Part(q, c, i) = Part(p, c, i) \cup {N} /\ Part(p, c, i) \subseteq At(p)
      BY <1>1, <1>5 DEF Part
    <3> QED
      BY <1>7, <3>1 DEF EndsAt
  <2>2. \A m \in At(q) : m <= N
    BY <1>6, <1>7
  <2>3. op2.acc = Window(q, c, i)
    BY <1>1, <1>5 DEF Takes
  <2>4. op2.due = Due(c, q[N].ts)
    BY <1>1, <1>3, <1>6 DEF Takes
  <2> QED
    BY <1>1, <1>5, <1>6, <1>8, <2>1, <2>2, <2>3, <2>4 DEF OpenSplit
<1>10. ASSUME NEW S, NEW ts, Final(op, p, c, S, ts)
       PROVE  Final(op2, q, c, S, ts)
  <2>1. PICK j \in Starts(p, c), l \in At(p) :
          EndsAt(p, c, j, l) /\ S = Window(p, c, j) /\ ts = Due(c, p[l].ts) /\ ~Newest(p, c, j)
    BY <1>10 DEF Final
  <2>2. EndsAt(q, c, j, l)
    BY <1>5, <2>1 DEF EndsAt
  <2>3. S = Window(q, c, j) /\ ts = Due(c, q[l].ts)
    BY <1>5, <1>6, <2>1
  <2> QED
    BY <1>5, <1>6, <1>8, <2>1, <2>2, <2>3 DEF Final
<1>11. op2.open
  BY DEF Takes
<1> QED
  BY <1>5, <1>8, <1>9, <1>10, <1>11 DEF q, Runs

\* An item carries S as the sum of node n; every sum is final, and the first item
\* that carries it leaves when its window ends.
Carried(out, n, S) == \E j \in DOMAIN out : out[j].value[n] # None /\ out[j].value[n].sum = S
AllFinal(out, n, op, p, c) ==
  \A j \in DOMAIN out : out[j].value[n] # None =>
    \E l \in DOMAIN out : /\ l <= j /\ out[l].value[n] = out[j].value[n]
                          /\ Final(op, p, c, out[j].value[n].sum, out[l].ts)

\* What holds of a node n of session_sum or tumbling_sum in the state g after the
\* records p, when the frontier is x: its open window and the sums it has emitted are
\* the windows of the records, and what it has stored it has emitted.
Splits(g, p, x, n) ==
  LET c == graph[n]
  IN  /\ OpenSplit(g.ops[n], p, c) /\ ShutSplit(g.ops[n], p, x, c)
      /\ \A i \in Starts(p, c) : Runs(g.ops[n], p, c, i) \/ Carried(g.out, n, Window(p, c, i))
      /\ AllFinal(g.out, n, g.ops[n], p, c)
      /\ g.store[n] # None => \E j \in DOMAIN g.out : g.out[j].value[n] = g.store[n]

StayFinal(op, p, op2, q, c) == \A S, ts : Final(op, p, c, S, ts) => Final(op2, q, c, S, ts)
MayFollow(out, n, item, op, p, c) ==
  \/ item.value[n] = None
  \/ \E j \in DOMAIN out : out[j].value[n] = item.value[n]
  \/ Final(op, p, c, item.value[n].sum, item.ts)

Appended(out, out2, n, item, op, p, c) ==
  /\ AllFinal(out2, n, op, p, c)
  /\ \A S : Carried(out, n, S) => Carried(out2, n, S)
  /\ \A v : (\E j \in DOMAIN out : out[j].value[n] = v) => \E j \in DOMAIN out2 : out2[j].value[n] = v
  /\ \E j \in DOMAIN out2 : out2[j].value[n] = item.value[n]
  /\ item.value[n] # None => Carried(out2, n, item.value[n].sum)

\* One more item.
LEMMA AppendFinal ==
  ASSUME NEW out \in Seq(Item), NEW item, NEW n, NEW op, NEW p, NEW c, AllFinal(out, n, op, p, c),
         NEW op2, NEW q, StayFinal(op, p, op2, q, c), MayFollow(out, n, item, op2, q, c),
         NEW out2, out2 = Append(out, item)
  PROVE  Appended(out, out2, n, item, op2, q, c)
<1> DEFINE M == Len(out) + 1
<1>1. /\ DOMAIN out = 1 .. Len(out) /\ DOMAIN out2 = 1 .. M /\ Len(out) \in Nat /\ M \in Nat
      /\ out2[M] = item /\ \A j \in 1 .. Len(out) : out2[j] = out[j]
  OBVIOUS
<1>2. /\ \A j \in DOMAIN out : j \in DOMAIN out2 /\ j <= M /\ out2[j] = out[j]
      /\ \A j \in DOMAIN out2 : j \in DOMAIN out \/ j = M
      /\ M \in DOMAIN out2 /\ M <= M
  BY <1>1
<1>3. \A j, l, m \in DOMAIN out : j <= l /\ l <= m => j <= m
  BY <1>1
<1> HIDE DEF M
<1>4. ASSUME NEW j \in DOMAIN out, out[j].value[n] # None
      PROVE  \E l \in DOMAIN out : /\ l <= j /\ out[l].value[n] = out[j].value[n]
                                   /\ Final(op2, q, c, out[j].value[n].sum, out[l].ts)
  BY <1>4 DEF AllFinal, StayFinal
<1>5. ASSUME NEW j \in DOMAIN out2, out2[j].value[n] # None
      PROVE  \E l \in DOMAIN out2 : /\ l <= j /\ out2[l].value[n] = out2[j].value[n]
                                    /\ Final(op2, q, c, out2[j].value[n].sum, out2[l].ts)
  <2>1. CASE j \in DOMAIN out
    BY <1>2, <1>4, <1>5, <2>1
  <2>2. CASE j = M /\ \E m \in DOMAIN out : out[m].value[n] = item.value[n]
    <3>1. PICK m \in DOMAIN out : out[m].value[n] = item.value[n]
      BY <2>2
    <3>2. out2[j] = item /\ out[m].value[n] # None
      BY <1>1, <1>5, <2>2, <3>1
    <3>3. PICK l \in DOMAIN out : /\ l <= m /\ out[l].value[n] = out[m].value[n]
                                  /\ Final(op2, q, c, out[m].value[n].sum, out[l].ts)
      BY <1>4, <3>2
    <3> QED
      BY <1>2, <2>2, <3>1, <3>2, <3>3
  <2>3. CASE j = M /\ Final(op2, q, c, item.value[n].sum, item.ts)
    BY <1>1, <1>2, <2>3
  <2>4. MayFollow(out, n, item, op2, q, c)
    OBVIOUS
  <2> QED
    BY <1>1, <1>2, <1>5, <2>1, <2>2, <2>3, <2>4 DEF MayFollow
<1>6. AllFinal(out2, n, op2, q, c)
  BY <1>5 DEF AllFinal
<1> QED
  BY <1>1, <1>2, <1>6 DEF Appended, Carried

\* The frontier is no earlier than x.
LEMMA FrontierMoves ==
  ASSUME NEW x \in Time \cup {None}, NEW y \in Time, NotAfter(x, y)
  PROVE  y # None /\ \A z \in Int : x # None /\ z <= x => y # None /\ z <= y
<1>1. \A z \in Time : z \in Int
  BY TimeIsInt
<1>2. y \in Int /\ y # None /\ (x # None => x \in Int)
  BY <1>1, TimeAssumption
<1> QED
  BY <1>2 DEF NotAfter

LEMMA DueIsInt ==
  ASSUME NEW p \in Seq(Record), NEW c, Sums(c)
  PROVE  \A m \in At(p) : Due(c, p[m].ts) \in Int
<1> TAKE m \in At(p)
<1>1. p[m].ts \in Timestamps /\ p[m].ts <= p[m].ts
  BY AtTimes
<1> QED
  BY <1>1, DueOrder

\* An item that leaves while the node stays as it is keeps the windows split.
LEMMA TickSplits ==
  ASSUME NEW g \in GraphState, NEW p \in Seq(Record), NEW x \in Time \cup {None}, NEW n, Sums(graph[n]),
         Splits(g, p, x, n), NEW y \in Time, NotAfter(x, y), NEW h, NEW item,
         h.ops[n] = g.ops[n], h.out = Append(g.out, item), item.value[n] = h.store[n],
         h.store[n] = g.store[n] \/ h.store[n] = None
  PROVE  Splits(h, p, y, n)
<1> DEFINE c == graph[n]
           op == g.ops[n]
<1>1. /\ OpenSplit(op, p, c) /\ ShutSplit(op, p, x, c) /\ AllFinal(g.out, n, op, p, c)
      /\ \A i \in Starts(p, c) : Runs(op, p, c, i) \/ Carried(g.out, n, Window(p, c, i))
      /\ g.store[n] # None => \E j \in DOMAIN g.out : g.out[j].value[n] = g.store[n]
  BY DEF Splits
<1>2. g.out \in Seq(Item)
  BY DEF GraphState
<1>3. MayFollow(g.out, n, item, op, p, c) /\ StayFinal(op, p, op, p, c)
  BY <1>1 DEF MayFollow, StayFinal
<1> HIDE DEF op, c
<1>4. /\ AllFinal(h.out, n, op, p, c)
      /\ \A S : Carried(g.out, n, S) => Carried(h.out, n, S)
      /\ \E j \in DOMAIN h.out : h.out[j].value[n] = item.value[n]
  <2>1. Appended(g.out, h.out, n, item, op, p, c)
    BY <1>1, <1>2, <1>3, AppendFinal
  <2> QED
    BY <2>1 DEF Appended
<1>5. ShutSplit(op, p, y, c)
  BY <1>1, FrontierMoves, DueIsInt DEF ShutSplit, c
<1> QED
  BY <1>1, <1>4, <1>5 DEF Splits, op, c

\* Nor does the close of the window.
LEMMA CloseSplits ==
  ASSUME NEW g \in GraphState, NEW p \in Seq(Record), NEW z, Ordered(p, z),
         NEW x \in Time \cup {None}, NEW n, Sums(graph[n]),
         Splits(g, p, x, n), g.ops[n].open, NEW y \in Time, g.ops[n].due <= y, NEW h, NEW item,
         h.ops[n] = Idle, h.out = Append(g.out, item), item.value[n] = h.store[n],
         item.ts = g.ops[n].due, h.store[n] = [sum |-> g.ops[n].acc]
  PROVE  Splits(h, p, y, n)
<1> DEFINE c == graph[n]
           op == g.ops[n]
<1>1. /\ OpenSplit(op, p, c) /\ AllFinal(g.out, n, op, p, c)
      /\ \A i \in Starts(p, c) : Runs(op, p, c, i) \/ Carried(g.out, n, Window(p, c, i))
  BY DEF Splits
<1>2. g.out \in Seq(Item)
  BY DEF GraphState
<1>3. PICK i \in Starts(p, c), k \in At(p) :
        /\ Newest(p, c, i) /\ EndsAt(p, c, i, k) /\ \A m \in At(p) : m <= k
        /\ op.acc = Window(p, c, i) /\ op.due = Due(c, p[k].ts)
  BY <1>1 DEF OpenSplit
<1>4. ~Idle.open /\ Idle.acc = {}
  BY DEF Idle
<1>5. item.value[n] = [sum |-> op.acc] /\ item.value[n].sum = op.acc
  OBVIOUS
<1>6. item.value[n] # None
  <2>1. op.acc \in SUBSET (1 .. MaxArrivals)
    <3>1. \A m \in Part(p, c, i) : p[m].rec \in 1 .. MaxArrivals
      BY AtTimes DEF Part
    <3> QED
      BY <1>3, <3>1 DEF Window
  <2>2. [sum |-> op.acc] \in SumOutput
    BY <2>1 DEF SumOutput
  <2> QED
    BY <1>5, <2>2, OutputAssumption
<1> HIDE DEF c
<1>7. StayFinal(op, p, Idle, p, c)
  BY <1>4 DEF StayFinal, Final
<1>8. MayFollow(g.out, n, item, Idle, p, c)
  BY <1>3, <1>4, <1>5 DEF MayFollow, Final
<1>9. /\ AllFinal(h.out, n, Idle, p, c)
      /\ \A S : Carried(g.out, n, S) => Carried(h.out, n, S)
      /\ \E j \in DOMAIN h.out : h.out[j].value[n] = item.value[n]
      /\ Carried(h.out, n, item.value[n].sum)
  <2>1. Appended(g.out, h.out, n, item, Idle, p, c)
    BY <1>1, <1>2, <1>7, <1>8, AppendFinal
  <2> QED
    BY <1>6, <2>1 DEF Appended
<1>10. ShutSplit(Idle, p, y, c)
  <2>1. \A m \in At(p) : Due(c, p[m].ts) \in Int /\ Due(c, p[m].ts) <= op.due
    BY <1>3, AllDue DEF c
  <2>2. op.due \in Int /\ y \in Int /\ y # None
    BY <1>3, <2>1, TimeIsInt, TimeAssumption
  <2> QED
    BY <1>4, <2>1, <2>2 DEF ShutSplit
<1>11. \A j \in Starts(p, c) : Carried(h.out, n, Window(p, c, j))
  <2> TAKE j \in Starts(p, c)
  <2>1. CASE Runs(op, p, c, j)
    <3>1. i = j
      <4>1. i \in Nat /\ j \in Nat
        BY AtTimes DEF Starts
      <4> QED
        BY <1>3, <2>1, <4>1 DEF Runs, Newest
    <3> QED
      BY <1>3, <1>5, <1>9, <3>1
  <2> QED
    BY <1>1, <1>9, <2>1
<1>12. OpenSplit(Idle, p, c)
  BY <1>4 DEF OpenSplit
<1> QED
  BY <1>9, <1>10, <1>11, <1>12 DEF Splits, c

\* A record that the node takes, and the item of the record.
LEMMA RecordSplits ==
  ASSUME NEW g \in GraphState, NEW p \in Seq(Record), NEW r \in Record,
         NEW x \in Time \cup {None}, Ordered(p, x), NotAfter(x, r.ts), NEW n, Sums(graph[n]),
         Splits(g, p, x, n), g.ops[n].open => r.ts < g.ops[n].due, NEW h, NEW item,
         Takes(g.ops[n], graph[n], r, h.ops[n]), h.out = Append(g.out, item),
         item.value[n] = None, h.store[n] = None
  PROVE  Splits(h, Append(p, r), r.ts, n)
<1> DEFINE c == graph[n]
           op == g.ops[n]
           op2 == h.ops[n]
           q == Append(p, r)
<1>1. /\ OpenSplit(op, p, c) /\ ShutSplit(op, p, x, c) /\ AllFinal(g.out, n, op, p, c)
      /\ \A i \in Starts(p, c) : Runs(op, p, c, i) \/ Carried(g.out, n, Window(p, c, i))
  BY DEF Splits
<1>2. g.out \in Seq(Item)
  BY DEF GraphState
<1>3. r.ts \in Time /\ r.ts \in Int /\ r.ts # None
  <2>1. r.ts \in Time
    BY KeyedAssumption DEF Record
  <2> QED
    BY <2>1, TimeIsInt, TimeAssumption
<1>4. \A z \in Int : x # None /\ z <= x => r.ts # None /\ z <= r.ts
  BY <1>3, FrontierMoves
<1>5. \A m \in At(p) : Due(c, p[m].ts) \in Int
  BY DueIsInt
<1>6. Sums(c) /\ Takes(op, c, r, op2) /\ (op.open => r.ts < op.due)
  OBVIOUS
<1> HIDE DEF c, op, op2, q
<1> DEFINE Moved == /\ OpenSplit(op2, q, c) /\ ShutSplit(op2, q, r.ts, c) /\ StayFinal(op, p, op2, q, c)
                    /\ \A i \in Starts(q, c) : ~Runs(op2, q, c, i) =>
                         i \in Starts(p, c) /\ Window(q, c, i) = Window(p, c, i) /\ ~Runs(op, p, c, i)
<1>7. Moved
  <2>1. CASE r.val = Absent
    <3>1. op2 = op
      BY <1>6, <2>1 DEF Takes
    <3>2. /\ OpenSplit(op, q, c) /\ ShutSplit(op, q, r.ts, c)
          /\ \A S, ts : Final(op, p, c, S, ts) => Final(op, q, c, S, ts)
          /\ \A i \in Starts(q, c) :
                  i \in Starts(p, c) /\ Window(q, c, i) = Window(p, c, i) /\ (Runs(op, p, c, i) => Runs(op, q, c, i))
      BY <1>1, <1>4, <1>5, <2>1, SkipSplits DEF q
    <3> QED
      BY <3>1, <3>2 DEF StayFinal
  <2>2. CASE r.val # Absent
    <3>1. op2.open /\ ShutSplit(op2, q, r.ts, c)
      BY <1>6, <2>2 DEF Takes, ShutSplit
    <3>2. CASE ~op.open
      <4>1. op.acc = {} /\ \A m \in At(p) : Due(c, p[m].ts) <= r.ts
        BY <1>1, <1>4, <1>5, <3>2 DEF ShutSplit
      <4>2. /\ OpenSplit(op2, q, c)
            /\ \A S, ts : Final(op, p, c, S, ts) => Final(op2, q, c, S, ts)
            /\ \A i \in Starts(q, c) : ~Runs(op2, q, c, i) =>
                  i \in Starts(p, c) /\ Window(q, c, i) = Window(p, c, i) /\ ~Runs(op, p, c, i)
        BY <1>6, <2>2, <3>2, <4>1, StartSplits DEF q
      <4> QED
        BY <3>1, <4>2 DEF StayFinal
    <3>3. CASE op.open
      <4>1. \A m \in At(p) : p[m].ts <= r.ts
        <5> TAKE m \in At(p)
        <5>1. m \in DOMAIN p /\ p[m].ts \in Int
          BY AtTimes
        <5> QED
          BY <1>4, <5>1 DEF Ordered
      <4>2. /\ OpenSplit(op2, q, c)
            /\ \A S, ts : Final(op, p, c, S, ts) => Final(op2, q, c, S, ts)
            /\ \A i \in Starts(q, c) : ~Runs(op2, q, c, i) =>
                  i \in Starts(p, c) /\ Window(q, c, i) = Window(p, c, i) /\ ~Runs(op, p, c, i)
        BY <1>1, <1>6, <2>2, <3>3, <4>1, JoinSplits DEF q
      <4> QED
        BY <3>1, <4>2 DEF StayFinal
    <3> QED
      BY <3>2, <3>3
  <2> QED
    BY <2>1, <2>2
<1>8. MayFollow(g.out, n, item, op2, q, c)
  BY DEF MayFollow
<1>9. Appended(g.out, h.out, n, item, op2, q, c)
  BY <1>1, <1>2, <1>7, <1>8, AppendFinal
<1>10. \A i \in Starts(q, c) : Runs(op2, q, c, i) \/ Carried(h.out, n, Window(q, c, i))
  <2> TAKE i \in Starts(q, c)
  <2>1. CASE ~Runs(op2, q, c, i)
    <3>1. i \in Starts(p, c) /\ Window(q, c, i) = Window(p, c, i) /\ ~Runs(op, p, c, i)
      BY <1>7, <2>1
    <3> QED
      BY <1>1, <1>9, <3>1 DEF Appended
  <2> QED
    BY <2>1
<1>11. AllFinal(h.out, n, op2, q, c)
  BY <1>9 DEF Appended
<1> QED
  BY <1>7, <1>10, <1>11 DEF Splits, c, op2, q

-----------------------------------------------------------------------------
(* The verdicts are about the pulses of the records. *)

\* No pulse's timer saturates.
PulsesFit == \A ts \in Timestamps : ts + MaxWidth + 1 <= TimeMax

\* The verdict v at ts is right about a pulse that the record at h starts.
AboutPulse(p, ts, v, h) ==
  /\ p[h].val = High
  /\ p[h].ts = IF v.verdict = "TooLong" THEN ts - MaxWidth - 1 ELSE ts - v.width
  /\ IF v.verdict = "TooLong" THEN \A k \in At(p) : h <= k /\ p[k].ts < ts => p[k].val = High
     ELSE \E k \in At(p) : /\ h < k /\ p[k].val = Low /\ p[k].ts = ts
                           /\ \A m \in At(p) : h <= m /\ m < k => p[m].val = High
                           /\ v.width <= MaxWidth
                           /\ v.verdict = "Valid" <=> v.width >= MinWidth

\* An item of out has a verdict about a pulse that a record at ts lies in.
Judges(out, ts) ==
  \E i \in DOMAIN out : /\ out[i].value[1] # None
                        /\ out[i].ts - out[i].value[1].width - 1 <= ts /\ ts <= out[i].ts

\* The state of pulse_width while a pulse is open.
OpenPulse(op, p) ==
  op.open =>
    \E h \in At(p) :
      /\ p[h].val = High /\ op.start = p[h].ts /\ op.due = p[h].ts + MaxWidth + 1
      /\ \A k \in At(p) : (h <= k => p[k].val = High) /\ p[k].ts <= op.due

Held1(op, ts) == op.open /\ op.start <= ts

\* What holds of a graph of pulse_width alone in the state g after the records p, when
\* the frontier is x.
Judged(g, p, x) ==
  /\ OpenPulse(g.ops[1], p)
  /\ \A i \in DOMAIN g.out : g.out[i].value[1] # None =>
       /\ x # None /\ g.out[i].ts <= x
       /\ \E h \in At(p) : AboutPulse(p, g.out[i].ts, g.out[i].value[1], h)
  /\ \A h \in At(p) : p[h].val = High => Held1(g.ops[1], p[h].ts) \/ Judges(g.out, p[h].ts)

\* Two inputs are not the same.
LEMMA InputsDiffer == High # Low /\ High # Absent /\ Low # Absent
BY DEF High, Low, Absent

\* out2 is out and one more item.
OneMoreItem(out, out2, item) ==
  /\ \A ts : Judges(out, ts) => Judges(out2, ts)
  /\ \A i \in DOMAIN out2 : (i \in DOMAIN out /\ out2[i] = out[i]) \/ out2[i] = item
  /\ \E i \in DOMAIN out2 : out2[i] = item
  /\ \A i \in DOMAIN out : out[i].ts \in Int

LEMMA AppendJudges ==
  ASSUME NEW out \in Seq(Item), NEW item, NEW out2, out2 = Append(out, item)
  PROVE  OneMoreItem(out, out2, item)
<1>1. /\ DOMAIN out = 1 .. Len(out) /\ DOMAIN out2 = 1 .. Len(out) + 1 /\ Len(out) \in Nat
      /\ out2[Len(out) + 1] = item /\ \A j \in 1 .. Len(out) : out2[j] = out[j]
  OBVIOUS
<1>2. \A i \in DOMAIN out2 : i \in DOMAIN out \/ i = Len(out) + 1
  BY <1>1
<1>3. \A i \in DOMAIN out : i \in DOMAIN out2
  BY <1>1
<1>4. \A i \in DOMAIN out : out[i].ts \in Int
  <2> TAKE i \in DOMAIN out
  <2>1. out[i] \in Item
    OBVIOUS
  <2>2. out[i].ts \in Time
    BY <2>1 DEF Item
  <2> QED
    BY <2>2, TimeIsInt
<1>5. \E i \in DOMAIN out2 : out2[i] = item
  <2>1. Len(out) + 1 \in DOMAIN out2
    BY <1>1
  <2> QED
    BY <1>1, <2>1
<1>6. \A ts : Judges(out, ts) => Judges(out2, ts)
  BY <1>1, <1>3 DEF Judges
<1> QED
  BY <1>1, <1>2, <1>4, <1>5, <1>6 DEF OneMoreItem

\* An item without a verdict.
LEMMA TickJudged ==
  ASSUME NEW g \in GraphState, NEW p, NEW x \in Time \cup {None}, Judged(g, p, x),
         NEW y \in Time, NotAfter(x, y), NEW h, NEW item,
         h.ops[1] = g.ops[1], h.out = Append(g.out, item), item.value[1] = None
  PROVE  Judged(h, p, y)
<1>1. g.out \in Seq(Item)
  BY DEF GraphState
<1>2. /\ \A ts : Judges(g.out, ts) => Judges(h.out, ts)
      /\ \A i \in DOMAIN h.out : (i \in DOMAIN g.out /\ h.out[i] = g.out[i]) \/ h.out[i] = item
      /\ \A i \in DOMAIN g.out : g.out[i].ts \in Int
  <2>1. OneMoreItem(g.out, h.out, item)
    BY <1>1, AppendJudges
  <2> QED
    BY <2>1 DEF OneMoreItem
<1>3. \A z \in Int : x # None /\ z <= x => y # None /\ z <= y
  BY FrontierMoves
<1>4. ASSUME NEW i \in DOMAIN h.out, h.out[i].value[1] # None
      PROVE  /\ y # None /\ h.out[i].ts <= y
             /\ \E k \in At(p) : AboutPulse(p, h.out[i].ts, h.out[i].value[1], k)
  <2>1. i \in DOMAIN g.out /\ h.out[i] = g.out[i]
    BY <1>2, <1>4
  <2> QED
    BY <1>2, <1>3, <1>4, <2>1 DEF Judged
<1> QED
  BY <1>2, <1>4 DEF Judged

\* The pulse is too long.
LEMMA FireJudged ==
  ASSUME NEW g \in GraphState, NEW p \in Seq(Record), NEW x \in Time \cup {None}, Judged(g, p, x),
         NEW y \in Time, NotAfter(x, y), g.ops[1].open, g.ops[1].due <= y, NEW h, NEW item,
         h.ops[1] = Idle, h.out = Append(g.out, item), item.ts = g.ops[1].due,
         item.value[1] = [verdict |-> "TooLong", width |-> MaxWidth]
  PROVE  Judged(h, p, y)
<1> DEFINE op == g.ops[1]
           v == item.value[1]
<1>1. g.out \in Seq(Item)
  BY DEF GraphState
<1>2. /\ \A ts : Judges(g.out, ts) => Judges(h.out, ts)
      /\ \A i \in DOMAIN h.out : (i \in DOMAIN g.out /\ h.out[i] = g.out[i]) \/ h.out[i] = item
      /\ \A i \in DOMAIN g.out : g.out[i].ts \in Int
      /\ \E i \in DOMAIN h.out : h.out[i] = item
  <2>1. OneMoreItem(g.out, h.out, item)
    BY <1>1, AppendJudges
  <2> QED
    BY <2>1 DEF OneMoreItem
<1>3. y # None /\ \A z \in Int : x # None /\ z <= x => y # None /\ z <= y
  BY FrontierMoves
<1>4. PICK k \in At(p) :
        /\ p[k].val = High /\ op.start = p[k].ts /\ op.due = p[k].ts + MaxWidth + 1
        /\ \A m \in At(p) : (k <= m => p[m].val = High) /\ p[m].ts <= op.due
  BY DEF Judged, OpenPulse
<1>5. p[k].ts \in Int /\ MaxWidth \in Nat /\ \A m \in At(p) : p[m].ts \in Int
  BY AtTimes, KeyedAssumption
<1>6. v.verdict = "TooLong" /\ v.width = MaxWidth /\ v # None
  <2>1. v \in VerdictOutput
    BY KeyedAssumption DEF VerdictOutput
  <2> QED
    BY <2>1, OutputAssumption
<1> HIDE DEF op, v
<1>7. AboutPulse(p, item.ts, v, k)
  <2>1. p[k].ts = item.ts - MaxWidth - 1
    BY <1>4, <1>5 DEF op
  <2> QED
    BY <1>4, <1>6, <2>1 DEF AboutPulse
<1>8. ASSUME NEW i \in DOMAIN h.out, h.out[i].value[1] # None
      PROVE  /\ y # None /\ h.out[i].ts <= y
             /\ \E m \in At(p) : AboutPulse(p, h.out[i].ts, h.out[i].value[1], m)
  <2>1. CASE i \in DOMAIN g.out /\ h.out[i] = g.out[i]
    BY <1>2, <1>3, <1>8, <2>1 DEF Judged
  <2>2. CASE h.out[i] = item
    BY <1>3, <1>7, <2>2 DEF v, op
  <2> QED
    BY <1>2, <2>1, <2>2
<1>9. ASSUME NEW m \in At(p), p[m].val = High
      PROVE  Judges(h.out, p[m].ts)
  <2>1. CASE Held1(op, p[m].ts)
    <3>1. p[k].ts <= p[m].ts /\ p[m].ts <= item.ts /\ item.ts = p[k].ts + MaxWidth + 1
      BY <1>4, <2>1 DEF Held1, op
    <3>2. item.ts - v.width - 1 <= p[m].ts
      BY <1>5, <1>6, <3>1
    <3>3. PICK i \in DOMAIN h.out : h.out[i] = item
      BY <1>2
    <3>4. item.value[1] # None /\ item.ts - item.value[1].width - 1 <= p[m].ts
      BY <1>6, <3>2 DEF v
    <3> HIDE DEF v
    <3> QED
      BY <3>1, <3>3, <3>4 DEF Judges
  <2>2. CASE Judges(g.out, p[m].ts)
    BY <1>2, <2>2
  <2> QED
    BY <1>9, <2>1, <2>2 DEF Judged, op
<1>10. OpenPulse(Idle, p)
  BY DEF OpenPulse, Idle
<1> QED
  BY <1>8, <1>9, <1>10 DEF Judged

\* pulse_width takes the record r and stores v.
Rises(op, r) == ~op.open /\ r.val = High
Falls(op, r) == op.open /\ r.val = Low
PulseTakes(op, r, op2, v) ==
  \/ /\ Rises(op, r) /\ v = None
     /\ op2.open /\ op2.start = r.ts /\ op2.due = SatAdd(SatAdd(r.ts, MaxWidth), 1)
  \/ /\ Falls(op, r) /\ op2 = Idle
     /\ v = [verdict |-> Classify(SatSub(r.ts, op.start)), width |-> SatSub(r.ts, op.start)]
  \/ ~Rises(op, r) /\ ~Falls(op, r) /\ op2 = op /\ v = None

\* A pulse that was judged stays so.
LEMMA StillAbout ==
  ASSUME NEW p \in Seq(Record), NEW r \in Record, NEW ts \in Int, ts <= r.ts, NEW v,
         NEW h \in At(p), AboutPulse(p, ts, v, h)
  PROVE  AboutPulse(Append(p, r), ts, v, h)
<1> DEFINE q == Append(p, r)
           N == Len(p) + 1
<1>1. /\ Len(p) \in Nat /\ At(p) \subseteq 1 .. Len(p) /\ q[N] = r /\ \A k \in At(p) : q[k] = p[k]
      /\ At(q) \subseteq At(p) \cup {N} /\ At(p) \subseteq At(q) /\ N \in Nat
  BY OneMore
<1>2. r.ts \in Int
  <2>1. r.ts \in Time
    BY KeyedAssumption DEF Record
  <2> QED
    BY <2>1, TimeIsInt
<1>3. \A k \in At(p) : k \in Nat /\ k < N /\ ~(N < k)
  BY <1>1
<1> HIDE DEF q, N
<1>4. q[h].val = High /\ q[h].ts = p[h].ts
  BY <1>1 DEF AboutPulse
<1>5. CASE v.verdict = "TooLong"
  <2>1. \A k \in At(q) : h <= k /\ q[k].ts < ts => q[k].val = High
    <3> TAKE k \in At(q)
    <3>1. CASE k \in At(p)
      BY <1>1, <1>5, <3>1 DEF AboutPulse
    <3>2. CASE k = N
      BY <1>1, <1>2, <3>2
    <3> QED
      BY <1>1, <3>1, <3>2
  <2> QED
    BY <1>4, <1>5, <2>1 DEF AboutPulse, q
<1>6. CASE v.verdict # "TooLong"
  <2>1. PICK k \in At(p) : /\ h < k /\ p[k].val = Low /\ p[k].ts = ts
                           /\ \A m \in At(p) : h <= m /\ m < k => p[m].val = High
                           /\ v.width <= MaxWidth
                           /\ v.verdict = "Valid" <=> v.width >= MinWidth
    BY <1>6 DEF AboutPulse
  <2>2. \A m \in At(q) : h <= m /\ m < k => q[m].val = High
    BY <1>1, <1>3, <2>1
  <2>3. k \in At(q) /\ q[k] = p[k]
    BY <1>1
  <2> QED
    BY <1>4, <1>6, <2>1, <2>2, <2>3 DEF AboutPulse, q
<1> QED
  BY <1>5, <1>6

\* A record that pulse_width takes, and the item of the record.
LEMMA RecordJudged ==
  ASSUME PulsesFit, NEW g \in GraphState, NEW p \in Seq(Record), NEW r \in Record,
         NEW x \in Time \cup {None}, Ordered(p, x), NotAfter(x, r.ts), Judged(g, p, x),
         g.ops[1].open => r.ts < g.ops[1].due, NEW h, NEW item,
         PulseTakes(g.ops[1], r, h.ops[1], item.value[1]), item.ts = r.ts, h.out = Append(g.out, item)
  PROVE  Judged(h, Append(p, r), r.ts)
<1> DEFINE op == g.ops[1]
           op2 == h.ops[1]
           v == item.value[1]
           q == Append(p, r)
           N == Len(p) + 1
<1>1. g.out \in Seq(Item)
  BY DEF GraphState
<1>2. /\ \A ts : Judges(g.out, ts) => Judges(h.out, ts)
      /\ \A i \in DOMAIN h.out : (i \in DOMAIN g.out /\ h.out[i] = g.out[i]) \/ h.out[i] = item
      /\ \A i \in DOMAIN g.out : g.out[i].ts \in Int
      /\ \E i \in DOMAIN h.out : h.out[i] = item
  <2>1. OneMoreItem(g.out, h.out, item)
    BY <1>1, AppendJudges
  <2> QED
    BY <2>1 DEF OneMoreItem
<1>3. r.ts \in Time /\ r.ts \in Timestamps /\ r.val \in {High, Low, Absent}
  BY KeyedAssumption DEF Record
<1>4. r.ts \in Int /\ r.ts # None /\ \A z \in Int : x # None /\ z <= x => z <= r.ts
  BY <1>3, FrontierMoves, TimeIsInt
<1>5. /\ Len(p) \in Nat /\ At(p) \subseteq 1 .. Len(p) /\ q[N] = r /\ \A k \in At(p) : q[k] = p[k]
      /\ At(q) = (IF r.val = Absent THEN At(p) ELSE At(p) \cup {N}) /\ N \in Nat /\ q \in Seq(Record)
  BY OneMore
<1>6. \A k \in At(p) : k \in Nat /\ k < N /\ ~(N <= k) /\ p[k].ts \in Int /\ p[k].ts <= r.ts
  <2> TAKE k \in At(p)
  <2>1. k \in DOMAIN p /\ p[k].ts \in Int
    BY AtTimes
  <2> QED
    BY <1>4, <1>5, <2>1 DEF Ordered
<1> HIDE DEF q, N
<1>7. OpenPulse(op, p) /\ \A k \in At(p) : p[k].val = High => Held1(op, p[k].ts) \/ Judges(g.out, p[k].ts)
  BY DEF Judged
<1>8. PulseTakes(op, r, op2, v) /\ (op.open => r.ts < op.due)
  OBVIOUS
<1>9. MaxWidth \in Nat /\ MinWidth \in Nat /\ TimeMin \in Int /\ TimeMax \in Int /\ TimeMin <= 0
      /\ MaxWidth <= TimeMax
  BY KeyedAssumption, TimeAssumption DEF Time
<1>10. ASSUME NEW i \in DOMAIN h.out, h.out[i].value[1] # None,
              v # None => \E k \in At(q) : AboutPulse(q, r.ts, v, k)
       PROVE  /\ r.ts # None /\ h.out[i].ts <= r.ts
              /\ \E k \in At(q) : AboutPulse(q, h.out[i].ts, h.out[i].value[1], k)
  <2>1. CASE i \in DOMAIN g.out /\ h.out[i] = g.out[i]
    <3>1. /\ g.out[i].ts \in Int /\ x # None /\ g.out[i].ts <= x
          /\ \E k \in At(p) : AboutPulse(p, g.out[i].ts, g.out[i].value[1], k)
      BY <1>2, <1>10, <2>1 DEF Judged
    <3>2. g.out[i].ts <= r.ts
      BY <1>4, <3>1
    <3>3. PICK k \in At(p) : AboutPulse(p, g.out[i].ts, g.out[i].value[1], k)
      BY <3>1
    <3>4. AboutPulse(q, g.out[i].ts, g.out[i].value[1], k)
      BY <3>1, <3>2, <3>3, StillAbout DEF q
    <3> QED
      BY <1>4, <1>5, <2>1, <3>2, <3>3, <3>4
  <2>2. CASE h.out[i] = item
    BY <1>4, <1>10, <2>2
  <2> QED
    BY <1>2, <2>1, <2>2
<1> HIDE DEF op, op2, v
<1>11. CASE Rises(op, r)
  <2>1. op2.open /\ op2.start = r.ts /\ op2.due = SatAdd(SatAdd(r.ts, MaxWidth), 1) /\ v = None
    BY <1>8, <1>11, InputsDiffer DEF PulseTakes, Rises, Falls
  <2>2. op2.due = r.ts + MaxWidth + 1
    <3>1. r.ts + MaxWidth + 1 <= TimeMax /\ TimeMin <= r.ts
      BY <1>3 DEF PulsesFit, Time
    <3> QED
      BY <1>4, <1>9, <2>1, <3>1 DEF SatAdd, Clamp
  <2>3. r.val = High /\ At(q) = At(p) \cup {N}
    BY <1>5, <1>11, InputsDiffer DEF Rises
  <2>4. OpenPulse(op2, q)
    <3>1. \A k \in At(q) : (N <= k => q[k].val = High) /\ q[k].ts <= op2.due
      BY <1>4, <1>5, <1>6, <1>9, <2>2, <2>3
    <3>2. N \in At(q) /\ q[N].val = High /\ op2.start = q[N].ts /\ op2.due = q[N].ts + MaxWidth + 1
      BY <1>5, <2>1, <2>2, <2>3
    <3> QED
      BY <3>1, <3>2 DEF OpenPulse
  <2>5. ASSUME NEW k \in At(q), q[k].val = High
        PROVE  Held1(op2, q[k].ts) \/ Judges(h.out, q[k].ts)
    <3>1. CASE k \in At(p)
      <4>1. ~Held1(op, p[k].ts)
        BY <1>11 DEF Rises, Held1
      <4> QED
        BY <1>2, <1>5, <1>7, <2>5, <3>1, <4>1
    <3>2. CASE k = N
      BY <1>4, <1>5, <2>1, <3>2 DEF Held1
    <3> QED
      BY <2>3, <3>1, <3>2
  <2> QED
    BY <1>10, <2>1, <2>4, <2>5 DEF Judged, op2, q
<1>12. CASE Falls(op, r)
  <2> DEFINE width == SatSub(r.ts, op.start)
  <2>1. op2 = Idle /\ v = [verdict |-> Classify(width), width |-> width]
    BY <1>8, <1>12, InputsDiffer DEF PulseTakes, Rises, Falls
  <2>2. PICK k \in At(p) :
          /\ p[k].val = High /\ op.start = p[k].ts /\ op.due = p[k].ts + MaxWidth + 1
          /\ \A m \in At(p) : (k <= m => p[m].val = High) /\ p[m].ts <= op.due
    BY <1>7, <1>12 DEF OpenPulse, Falls
  <2>3. width = r.ts - p[k].ts /\ 0 <= width /\ width <= MaxWidth /\ width \in Int
    <3>1. r.ts < p[k].ts + MaxWidth + 1 /\ p[k].ts \in Int /\ p[k].ts <= r.ts
      BY <1>6, <1>8, <1>12, <2>2 DEF Falls
    <3> QED
      BY <1>4, <1>9, <2>2, <3>1 DEF SatSub, Clamp
  <2> HIDE DEF width
  <2>4. /\ v.verdict = Classify(width) /\ v.width = width /\ v # None
        /\ v.verdict # "TooLong" /\ (v.verdict = "Valid" <=> width >= MinWidth)
    <3>1. Classify(width) \in {"TooShort", "Valid"} /\ (Classify(width) = "Valid" <=> width >= MinWidth)
      BY <1>9, <2>3 DEF Classify
    <3>2. width \in Time
      BY <1>9, <2>3 DEF Time
    <3>3. v \in VerdictOutput
      BY <2>1, <3>1, <3>2 DEF VerdictOutput
    <3> QED
      BY <2>1, <3>1, <3>3, OutputAssumption
  <2>5. r.val = Low /\ At(q) = At(p) \cup {N}
    BY <1>5, <1>12, InputsDiffer DEF Falls
  <2>6. AboutPulse(q, r.ts, v, k)
    <3>1. q[k].val = High /\ q[k].ts = r.ts - v.width
      BY <1>4, <1>5, <1>6, <2>2, <2>3, <2>4
    <3>2. /\ N \in At(q) /\ k < N /\ q[N].val = Low /\ q[N].ts = r.ts
          /\ \A m \in At(q) : k <= m /\ m < N => q[m].val = High
      BY <1>5, <1>6, <2>2, <2>5
    <3> QED
      BY <2>3, <2>4, <3>1, <3>2 DEF AboutPulse
  <2>7. ASSUME NEW m \in At(q), q[m].val = High
        PROVE  Judges(h.out, q[m].ts)
    <3>1. m \in At(p) /\ q[m] = p[m]
      BY <1>5, <2>5, <2>7, InputsDiffer
    <3>2. CASE Held1(op, p[m].ts)
      <4>1. p[k].ts <= p[m].ts /\ p[m].ts <= r.ts /\ p[m].ts \in Int /\ p[k].ts \in Int
        BY <1>6, <2>2, <3>1, <3>2 DEF Held1
      <4>2. r.ts - width - 1 <= p[m].ts
        BY <1>4, <2>3, <4>1
      <4>3. PICK i \in DOMAIN h.out : h.out[i] = item
        BY <1>2
      <4>4. item.value[1] # None /\ item.value[1].width = width
        BY <2>4 DEF v
      <4> QED
        BY <3>1, <4>1, <4>2, <4>3, <4>4 DEF Judges
    <3>3. CASE Judges(g.out, p[m].ts)
      BY <1>2, <3>1, <3>3
    <3> QED
      BY <1>7, <2>7, <3>1, <3>2, <3>3
  <2>8. OpenPulse(op2, q)
    BY <2>1 DEF OpenPulse, Idle
  <2>9. k \in At(q)
    BY <2>5
  <2> QED
    BY <1>10, <2>6, <2>7, <2>8, <2>9 DEF Judged, op2, q
<1>13. CASE ~Rises(op, r) /\ ~Falls(op, r)
  <2>1. op2 = op /\ v = None
    BY <1>8, <1>13 DEF PulseTakes
  <2>2. ASSUME NEW k \in At(q)
        PROVE  (k \in At(p) /\ q[k] = p[k]) \/ (k = N /\ q[k] = r /\ r.val # Absent)
    BY <1>5
  <2>3. OpenPulse(op, q)
    <3> SUFFICES ASSUME op.open PROVE OpenPulse(op, q)
      BY DEF OpenPulse
    <3>1. r.val \in {High, Absent}
      BY <1>3, <1>13 DEF Falls
    <3>2. PICK k \in At(p) :
            /\ p[k].val = High /\ op.start = p[k].ts /\ op.due = p[k].ts + MaxWidth + 1
            /\ \A m \in At(p) : (k <= m => p[m].val = High) /\ p[m].ts <= op.due
      BY <1>7 DEF OpenPulse
    <3>3. k \in At(q) /\ q[k] = p[k]
      BY <1>5
    <3>4. op.due \in Int /\ r.ts <= op.due
      <4>1. p[k].ts \in Int
        BY <1>6
      <4> QED
        BY <1>4, <1>8, <1>9, <3>2, <4>1
    <3>5. \A m \in At(q) : (k <= m => q[m].val = High) /\ q[m].ts <= op.due
      BY <2>2, <3>1, <3>2, <3>4
    <3> QED
      BY <3>2, <3>3, <3>5 DEF OpenPulse
  <2>4. ASSUME NEW k \in At(q), q[k].val = High
        PROVE  Held1(op, q[k].ts) \/ Judges(h.out, q[k].ts)
    <3>1. CASE k \in At(p) /\ q[k] = p[k]
      BY <1>2, <1>7, <2>4, <3>1
    <3>2. CASE k = N /\ q[k] = r
      <4>1. op.open
        BY <1>13, <2>4, <3>2 DEF Rises
      <4>2. PICK m \in At(p) : op.start = p[m].ts
        BY <1>7, <4>1 DEF OpenPulse
      <4> QED
        BY <1>6, <3>2, <4>1, <4>2 DEF Held1
    <3> QED
      BY <2>2, <3>1, <3>2
  <2> QED
    BY <1>10, <2>1, <2>3, <2>4 DEF Judged, op2, q
<1> QED
  BY <1>11, <1>12, <1>13

-----------------------------------------------------------------------------
(* What each node makes of a record. *)

\* h is g but for the state and the output of one node.
Local(g, node, h, op, v) ==
  /\ h.out = g.out
  /\ \A m \in Node : /\ h.ops[m] = IF m = node THEN op ELSE g.ops[m]
                     /\ h.store[m] = IF m = node THEN v ELSE g.store[m]

\* A node of the operator c takes a record.
NodeTakes(c, op, r, op2, v) ==
  IF c = "pulse" THEN PulseTakes(op, r, op2, v) ELSE Takes(op, c, r, op2) /\ v = None

Took(g, node, r, h) ==
  \E op, v : Local(g, node, h, op, v) /\ NodeTakes(graph[node], g.ops[node], r, op, v)

LEMMA OpensLocal ==
  ASSUME NEW g \in GraphState, NEW node \in Node, NEW T, NEW fireTs, NEW op
  PROVE  Local(g, node, Opens(g, node, T, fireTs, op), op, None)
<1> DEFINE h == Opens(g, node, T, fireTs, op)
<1>1. g.ops \in [Node -> OpState] /\ g.store \in [Node -> Output]
  BY DEF GraphState
<1>2. h.ops = [g.ops EXCEPT ![node] = op] /\ h.store = [g.store EXCEPT ![node] = None] /\ h.out = g.out
  BY DEF Opens
<1> HIDE DEF h
<1> QED
  BY <1>1, <1>2 DEF Local, h

LEMMA SetsLocal ==
  ASSUME NEW g \in GraphState, NEW node \in Node, NEW T \in SUBSET g.timers,
         NEW op \in OpState, NEW v \in Output
  PROVE  Local(g, node, Sets(WithTimers(g, T), node, op, v), op, v)
<1> DEFINE m == WithTimers(g, T)
           h == Sets(m, node, op, v)
<1>1. g.ops \in [Node -> OpState] /\ g.store \in [Node -> Output]
  BY DEF GraphState
<1>2. m \in GraphState /\ m.ops = g.ops /\ m.store = g.store /\ m.out = g.out
  BY DEF GraphState, WithTimers
<1> HIDE DEF m
<1>3. h.ops = [g.ops EXCEPT ![node] = op] /\ h.store = [g.store EXCEPT ![node] = v] /\ h.out = g.out
  BY <1>2, SetsFields
<1> HIDE DEF h
<1> QED
  BY <1>1, <1>3 DEF Local, h, m

LEMMA SkipLocal ==
  ASSUME NEW g \in GraphState, NEW node \in Node
  PROVE  Local(g, node, [g EXCEPT !.store[node] = None], g.ops[node], None)
<1> DEFINE h == [g EXCEPT !.store[node] = None]
<1>1. g.ops \in [Node -> OpState] /\ g.store \in [Node -> Output]
  BY DEF GraphState
<1>2. h.ops = g.ops /\ h.store = [g.store EXCEPT ![node] = None] /\ h.out = g.out
  BY DEF GraphState
<1> HIDE DEF h
<1> QED
  BY <1>1, <1>2 DEF Local, h

LEMMA SessionTook ==
  ASSUME NEW g \in GraphState, Follows(g.ops, g.timers), NEW node \in Node, graph[node] = "session",
         NEW r \in Record, r.val # Absent
  PROVE  Took(g, node, r, EvalSession(g, node, r))
<1> DEFINE op == g.ops[node]
           fireTs == SatAdd(r.ts, Gap)
           T == {t \in g.timers : t.node # node}
           op1 == [op EXCEPT !.open = TRUE, !.due = fireTs,
                             !.acc = (IF op.open THEN @ ELSE {}) \cup {r.rec}]
           freed == IF op.due = None THEN g ELSE Delete(g, node, op.due)
           h == Opens(g, node, T, fireTs, op1)
<1>1. r.ts \in Time /\ r.rec \in 1 .. MaxArrivals /\ Gap \in Nat
  BY KeyedAssumption DEF Record
<1>2. fireTs \in Time
  BY <1>1, AddsLater
<1>3. op \in OpState /\ op1 \in OpState
  BY <1>1, <1>2 DEF GraphState, OpState
<1>4. T \in SUBSET Timer
  BY DEF GraphState
<1>5. NodeTakes(graph[node], op, r, op1, None)
  BY <1>3 DEF NodeTakes, Takes, Due, OpState
<1>6. EvalSession(g, node, r) = Sets(Register(freed, node, fireTs), node, op1, None)
  BY Zenon DEF EvalSession, Sets
<1>7. freed = WithTimers(g, T)
  BY Freed
<1> HIDE DEF freed, op1, fireTs, T, h
<1>8. EvalSession(g, node, r) = h
  BY <1>2, <1>3, <1>4, <1>6, <1>7, RegisterOpens DEF h
<1>9. Local(g, node, h, op1, None)
  BY OpensLocal DEF h
<1> QED
  BY <1>5, <1>8, <1>9 DEF Took

LEMMA TumblingTook ==
  ASSUME NEW g \in GraphState, Follows(g.ops, g.timers), NEW node \in Node, graph[node] = "tumbling",
         NEW r \in Record, r.val # Absent
  PROVE  Took(g, node, r, EvalTumbling(g, node, r))
<1> DEFINE op == [g.ops[node] EXCEPT !.acc = @ \cup {r.rec}]
           edge == NextBucketEdge(r.ts)
           op1 == [op EXCEPT !.open = TRUE, !.due = edge]
<1>1. r.ts \in Time /\ r.rec \in 1 .. MaxArrivals /\ g.ops \in [Node -> OpState] /\ None \in Output
  BY KeyedAssumption DEF Record, GraphState, Output
<1>2. edge \in Time
  BY <1>1, BucketLater
<1>3. op \in OpState /\ op.open = g.ops[node].open /\ op.due = g.ops[node].due
      /\ op.acc = g.ops[node].acc \cup {r.rec}
  BY <1>1 DEF OpState
<1>4. op1 \in OpState /\ op1.open /\ op1.due = edge /\ op1.acc = op.acc
  BY <1>2, <1>3 DEF OpState
<1> HIDE DEF op, op1
<1>5. WithTimers(g, g.timers) = g /\ g.timers \in SUBSET g.timers /\ g.timers \in SUBSET Timer
  BY DEF GraphState, WithTimers
<1>6. CASE g.ops[node].open
  <2>1. EvalTumbling(g, node, r) = Sets(WithTimers(g, g.timers), node, op, None)
    <3>1. EvalTumbling(g, node, r) = Sets(g, node, op, None)
      BY Zenon, <1>3, <1>6 DEF EvalTumbling, Sets, op
    <3> QED
      BY <1>5, <3>1
  <2>2. Local(g, node, EvalTumbling(g, node, r), op, None)
    BY <1>1, <1>3, <1>5, <2>1, SetsLocal
  <2>3. NodeTakes(graph[node], g.ops[node], r, op, None)
    BY <1>3, <1>6 DEF NodeTakes, Takes
  <2> QED
    BY <2>2, <2>3 DEF Took
<1>7. CASE ~g.ops[node].open
  <2>1. EvalTumbling(g, node, r) = Sets(Register(WithTimers(g, g.timers), node, edge), node, op1, None)
    <3>1. EvalTumbling(g, node, r) = Sets(Register(g, node, edge), node, op1, None)
      BY Zenon, <1>3, <1>7 DEF EvalTumbling, Sets, op, op1
    <3> QED
      BY <1>5, <3>1
  <2> HIDE DEF edge
  <2>2. EvalTumbling(g, node, r) = Opens(g, node, g.timers, edge, op1)
    BY <1>2, <1>4, <1>5, <2>1, RegisterOpens
  <2>3. Local(g, node, EvalTumbling(g, node, r), op1, None)
    BY <2>2, OpensLocal
  <2>4. NodeTakes(graph[node], g.ops[node], r, op1, None)
    BY <1>3, <1>4, <1>7 DEF NodeTakes, Takes, Due, edge
  <2> QED
    BY <2>3, <2>4 DEF Took
<1> QED
  BY <1>6, <1>7

LEMMA PulseTook ==
  ASSUME NEW g \in GraphState, Follows(g.ops, g.timers), PulsesStarted(g.ops),
         NEW node \in Node, graph[node] = "pulse", NEW r \in Record
  PROVE  Took(g, node, r, EvalPulse(g, node, r))
<1> DEFINE op == g.ops[node]
           fireTs == SatAdd(SatAdd(r.ts, MaxWidth), 1)
           width == SatSub(r.ts, op.start)
           op1 == [op EXCEPT !.open = TRUE, !.start = r.ts, !.due = fireTs]
           verdict == [verdict |-> Classify(width), width |-> width]
           T == {t \in g.timers : t.node # node}
<1>1. /\ r.ts \in Time /\ MaxWidth \in Nat /\ g.ops \in [Node -> OpState] /\ op \in OpState
      /\ g.timers \in SUBSET Timer
  BY KeyedAssumption DEF Record, GraphState
<1>2. fireTs \in Time
  <2>1. SatAdd(r.ts, MaxWidth) \in Time
    BY <1>1, AddsLater
  <2> QED
    BY <2>1, AddsLater
<1>3. CASE Rises(op, r)
  <2>1. EvalPulse(g, node, r) = Sets(Register(g, node, fireTs), node, op1, None)
    BY Zenon, <1>3 DEF EvalPulse, Sets, Rises
  <2>2. op1 \in OpState /\ op1.open /\ op1.start = r.ts /\ op1.due = fireTs
    BY <1>1, <1>2 DEF OpState
  <2>3. g = WithTimers(g, g.timers)
    BY DEF GraphState, WithTimers
  <2> HIDE DEF op1, fireTs
  <2>4. EvalPulse(g, node, r) = Opens(g, node, g.timers, fireTs, op1)
    BY <1>1, <1>2, <2>1, <2>2, <2>3, RegisterOpens
  <2>5. Local(g, node, EvalPulse(g, node, r), op1, None)
    BY <2>4, OpensLocal
  <2>6. NodeTakes(graph[node], op, r, op1, None)
    BY <1>3, <2>2 DEF NodeTakes, PulseTakes, fireTs
  <2> QED
    BY <2>5, <2>6 DEF Took
<1>4. CASE Falls(op, r)
  <2>1. High # Low
    BY InputsDiffer
  <2>2. EvalPulse(g, node, r) = Sets(Delete(g, node, op.due), node, Idle, verdict)
    BY Zenon, <1>4, <2>1 DEF EvalPulse, Sets, Falls
  <2>3. Delete(g, node, op.due) = WithTimers(g, T)
    BY <1>4, DeleteOwn DEF Falls
  <2>4. Idle \in OpState
    BY DEF Idle, OpState
  <2>5. verdict \in Output
    <3>1. op.start \in Time
      BY <1>4 DEF PulsesStarted, Falls
    <3>2. width \in Time /\ Classify(width) \in {"TooShort", "Valid", "TooLong"}
      BY <1>1, <3>1, TimeIsInt, Saturates DEF Classify
    <3> HIDE DEF width
    <3> QED
      BY <3>2 DEF Output, VerdictOutput
  <2>6. NodeTakes(graph[node], op, r, Idle, verdict)
    BY <1>4 DEF NodeTakes, PulseTakes
  <2> HIDE DEF verdict
  <2>7. T \in SUBSET g.timers
    OBVIOUS
  <2> HIDE DEF T
  <2>8. Local(g, node, EvalPulse(g, node, r), Idle, verdict)
    BY <2>2, <2>3, <2>4, <2>5, <2>7, SetsLocal
  <2> QED
    BY <2>6, <2>8 DEF Took
<1>5. CASE ~Rises(op, r) /\ ~Falls(op, r)
  <2>1. EvalPulse(g, node, r) = [g EXCEPT !.store[node] = None]
    BY Zenon, <1>5 DEF EvalPulse, Rises, Falls
  <2>2. Local(g, node, EvalPulse(g, node, r), op, None)
    BY <2>1, SkipLocal
  <2>3. NodeTakes(graph[node], op, r, op, None)
    BY <1>5 DEF NodeTakes, PulseTakes
  <2> QED
    BY <2>2, <2>3 DEF Took
<1> QED
  BY <1>3, <1>4, <1>5

\* eval_with_ctx, whatever the operator and the input.
LEMMA NodeTook ==
  ASSUME graph \in Graphs, NEW g \in GraphState, Follows(g.ops, g.timers), PulsesStarted(g.ops),
         NEW node \in Node, NEW r \in Record
  PROVE  Took(g, node, r, EvalNode(g, node, r))
<1>1. graph[node] \in {"session", "tumbling", "pulse"}
  BY DEF Graphs, Node
<1>2. CASE r.val = Absent
  <2>1. EvalNode(g, node, r) = [g EXCEPT !.store[node] = None]
    BY Zenon, <1>2 DEF EvalNode
  <2>2. Local(g, node, EvalNode(g, node, r), g.ops[node], None)
    BY <2>1, SkipLocal
  <2>3. NodeTakes(graph[node], g.ops[node], r, g.ops[node], None)
    BY <1>2, InputsDiffer DEF NodeTakes, Takes, PulseTakes, Rises, Falls
  <2> QED
    BY <2>2, <2>3 DEF Took
<1>3. CASE r.val # Absent /\ graph[node] = "session"
  <2>1. EvalNode(g, node, r) = EvalSession(g, node, r)
    BY <1>3 DEF EvalNode
  <2> QED
    BY <1>3, <2>1, SessionTook
<1>4. CASE r.val # Absent /\ graph[node] = "tumbling"
  <2>1. EvalNode(g, node, r) = EvalTumbling(g, node, r)
    BY <1>4 DEF EvalNode
  <2> QED
    BY <1>4, <2>1, TumblingTook
<1>5. CASE r.val # Absent /\ graph[node] = "pulse"
  <2>1. EvalNode(g, node, r) = EvalPulse(g, node, r)
    BY <1>5 DEF EvalNode
  <2> QED
    BY <1>5, <2>1, PulseTook
<1> QED
  BY <1>1, <1>2, <1>3, <1>4, <1>5

-----------------------------------------------------------------------------
(* What holds of the whole graph, and the firing of timers. *)

\* A graph of pulse_width alone, where no deadline saturates.
LonePulse == Len(graph) = 1 /\ graph[1] = "pulse" /\ PulsesFit

\* The graph in the state g tells what the records p are, when the frontier is x.
Told(g, p, x) ==
  /\ Ordered(p, x)
  /\ \A n \in Node : Sums(graph[n]) => Splits(g, p, x, n)
  /\ LonePulse => Judged(g, p, x)

\* The times of records are integers.
LEMMA RecordTimes ==
  ASSUME NEW p \in Seq(Record)
  PROVE  \A i \in DOMAIN p : p[i] \in Record /\ p[i].ts \in Time /\ p[i].ts \in Int
<1> TAKE i \in DOMAIN p
<1>1. p[i] \in Record
  OBVIOUS
<1>2. p[i].ts \in Time
  BY <1>1, KeyedAssumption DEF Record
<1> QED
  BY <1>1, <1>2, TimeIsInt

\* The frontier moves on.
LEMMA ToldLater ==
  ASSUME NEW g \in GraphState, NEW p \in Seq(Record), NEW x \in Time \cup {None}, Told(g, p, x),
         NEW y \in Time, NotAfter(x, y), NEW h, h.ops = g.ops, h.store = g.store, h.out = g.out
  PROVE  Told(h, p, y)
<1>1. y # None /\ \A z \in Int : x # None /\ z <= x => y # None /\ z <= y
  BY FrontierMoves
<1>2. Ordered(p, y)
  BY <1>1, RecordTimes DEF Told, Ordered
<1>3. ASSUME NEW n \in Node, Sums(graph[n])
      PROVE  Splits(h, p, y, n)
  <2>1. Splits(g, p, x, n) /\ \A m \in At(p) : Due(graph[n], p[m].ts) \in Int
    BY <1>3, DueIsInt DEF Told
  <2>2. ShutSplit(g.ops[n], p, y, graph[n])
    BY <1>1, <2>1 DEF Splits, ShutSplit
  <2> QED
    BY <2>1, <2>2 DEF Splits
<1>4. ASSUME LonePulse
      PROVE  Judged(h, p, y)
  <2>1. Judged(g, p, x) /\ \A i \in DOMAIN g.out : g.out[i].ts \in Int
    BY <1>4, ItemTimes DEF Told
  <2> QED
    BY <1>1, <2>1 DEF Judged
<1> QED
  BY <1>2, <1>3, <1>4 DEF Told

\* What on_timer does, whether the timer is the one the node waits for or not.
TimerDoes(g, t, h) ==
  LET op   == g.ops[t.node]
      live == op.open /\ op.due = t.ts
  IN  /\ h \in GraphState /\ h.out = Append(g.out, [ts |-> t.ts, value |-> h.store])
      /\ \A n \in Node : n # t.node => h.ops[n] = g.ops[n] /\ h.store[n] = g.store[n]
      /\ live => /\ h.ops[t.node] = Idle
                 /\ h.store[t.node] = IF graph[t.node] = "pulse"
                                      THEN [verdict |-> "TooLong", width |-> MaxWidth]
                                      ELSE [sum |-> op.acc]
      /\ ~live => h.ops[t.node] = op /\ h.store[t.node] = None

LEMMA OnTimerDoes ==
  ASSUME graph \in Graphs, NEW g \in GraphState, NEW t \in Timer
  PROVE  TimerDoes(g, t, OnTimer(g, t))
<1> DEFINE op == g.ops[t.node]
           live == op.open /\ op.due = t.ts
           op1 == IF live THEN Idle ELSE op
           output == IF graph[t.node] = "pulse" THEN [verdict |-> "TooLong", width |-> MaxWidth]
                     ELSE [sum |-> op.acc]
           output1 == IF live THEN output ELSE None
           m == Sets(g, t.node, op1, output1)
           h == OnTimer(g, t)
<1>1. t.node \in Node /\ g.ops \in [Node -> OpState] /\ g.store \in [Node -> Output] /\ t.ts \in Time
  BY DEF Timer, GraphState
<1>2. output \in Output /\ None \in Output
  BY <1>1, KeyedAssumption DEF Output, SumOutput, VerdictOutput, OpState
<1>3. Idle \in OpState /\ op \in OpState
  BY <1>1 DEF Idle, OpState
<1>4. h = EmitAt(m, t.ts)
  BY Zenon DEF OnTimer, Sets
<1>5. h \in GraphState
  BY OnTimerType
<1> HIDE DEF output, op, live, h
<1>6. op1 \in OpState /\ output1 \in Output
  BY <1>2, <1>3
<1>7. (live => op1 = Idle /\ output1 = output) /\ (~live => op1 = op /\ output1 = None)
  OBVIOUS
<1> HIDE DEF op1, output1
<1>8. m = [ops |-> [g.ops EXCEPT ![t.node] = op1], timers |-> g.timers, next_seq |-> g.next_seq,
           store |-> [g.store EXCEPT ![t.node] = output1], out |-> g.out]
  BY <1>1, <1>6, SetsFields
<1>9. /\ m.ops[t.node] = op1 /\ m.store[t.node] = output1 /\ m.out = g.out
      /\ \A n \in Node : n # t.node => m.ops[n] = g.ops[n] /\ m.store[n] = g.store[n]
  BY <1>1, <1>8
<1>10. m \in GraphState
  BY <1>1, <1>6, <1>8 DEF GraphState
<1> HIDE DEF m
<1>11. h.ops = m.ops /\ h.store = m.store /\ h.out = Append(m.out, [ts |-> t.ts, value |-> h.store])
  BY <1>4, <1>10 DEF EmitAt, GraphState
<1> QED
  BY <1>5, <1>7, <1>9, <1>11 DEF TimerDoes, h, output, op, live

\* A timer not after y fires.
LEMMA OnTimerTells ==
  ASSUME graph \in Graphs, NEW g \in GraphState, NEW p \in Seq(Record), NEW y \in Time,
         Told(g, p, y), NEW t \in Timer, t.ts <= y
  PROVE  Told(OnTimer(g, t), p, y)
<1> DEFINE h == OnTimer(g, t)
           op == g.ops[t.node]
           item == [ts |-> t.ts, value |-> h.store]
<1>1. TimerDoes(g, t, h)
  BY OnTimerDoes
<1> HIDE DEF h
<1>2. t.node \in Node /\ y \in Int /\ NotAfter(y, y)
  <2>1. t.node \in Node /\ y \in Int
    BY TimeIsInt DEF Timer
  <2> QED
    BY <2>1 DEF NotAfter
<1>3. h.out = Append(g.out, item)
  BY <1>1 DEF TimerDoes
<1>4. item.ts = t.ts /\ item.value = h.store
  OBVIOUS
<1>5. \A n \in Node : n # t.node => h.ops[n] = g.ops[n] /\ h.store[n] = g.store[n]
  BY <1>1 DEF TimerDoes
<1>6. op.open /\ op.due = t.ts =>
        /\ h.ops[t.node] = Idle
        /\ graph[t.node] = "pulse" => h.store[t.node] = [verdict |-> "TooLong", width |-> MaxWidth]
        /\ graph[t.node] # "pulse" => h.store[t.node] = [sum |-> op.acc]
  BY <1>1 DEF TimerDoes
<1>7. ~(op.open /\ op.due = t.ts) => h.ops[t.node] = op /\ h.store[t.node] = None
  BY <1>1 DEF TimerDoes
<1> HIDE DEF item
<1>8. Ordered(p, y)
  BY DEF Told
<1>9. ASSUME NEW n \in Node, Sums(graph[n])
      PROVE  Splits(h, p, y, n)
  <2>1. Splits(g, p, y, n) /\ item.value[n] = h.store[n] /\ y \in Time \cup {None}
    BY <1>4, <1>9 DEF Told
  <2>2. CASE n = t.node /\ op.open /\ op.due = t.ts
    <3>1. graph[t.node] # "pulse"
      BY <1>9, <2>2 DEF Sums
    <3>2. /\ g.ops[n].open /\ g.ops[n].due <= y /\ h.ops[n] = Idle /\ item.ts = g.ops[n].due
          /\ h.store[n] = [sum |-> g.ops[n].acc]
      BY <1>4, <1>6, <2>2, <3>1
    <3> QED
      BY <1>3, <1>8, <1>9, <2>1, <3>2, CloseSplits
  <2>3. CASE ~(n = t.node /\ op.open /\ op.due = t.ts)
    <3>1. h.ops[n] = g.ops[n] /\ (h.store[n] = g.store[n] \/ h.store[n] = None)
      BY <1>5, <1>7, <2>3
    <3> QED
      BY <1>2, <1>3, <1>9, <2>1, <3>1, TickSplits
  <2> QED
    BY <2>2, <2>3
<1>10. ASSUME LonePulse
       PROVE  Judged(h, p, y)
  <2>1. t.node = 1 /\ graph[1] = "pulse" /\ Judged(g, p, y) /\ y \in Time \cup {None}
    BY <1>2, <1>10 DEF LonePulse, Node, Graphs, Told
  <2>2. CASE op.open /\ op.due = t.ts
    <3>1. /\ g.ops[1].open /\ g.ops[1].due <= y /\ h.ops[1] = Idle /\ item.ts = g.ops[1].due
          /\ item.value[1] = [verdict |-> "TooLong", width |-> MaxWidth]
      BY <1>4, <1>6, <2>1, <2>2
    <3> QED
      BY <1>2, <1>3, <2>1, <3>1, FireJudged
  <2>3. CASE ~(op.open /\ op.due = t.ts)
    <3>1. h.ops[1] = g.ops[1] /\ item.value[1] = None
      BY <1>4, <1>7, <2>1, <2>3
    <3> QED
      BY <1>2, <1>3, <2>1, <3>1, TickJudged
  <2> QED
    BY <2>2, <2>3
<1>11. Told(h, p, y)
  BY <1>8, <1>9, <1>10 DEF Told
<1> QED
  BY <1>11 DEF h

\* So do several, in their order.
LEMMA FiringTells ==
  ASSUME graph \in Graphs, NEW b \in GraphState, NEW p \in Seq(Record), NEW y \in Time,
         Told(b, p, y), NEW T \in SUBSET Timer, Heap(T), \A t \in T : t.ts <= y
  PROVE  Told(FireInTurn(b, PopOrder(T)), p, y)
<1> DEFINE popped == PopOrder(T)
           n == Len(popped)
           S == {g \in GraphState : Told(g, p, y)}
           E == {t \in Timer : t.ts <= y}
<1>1. popped \in Seq(T)
  BY PopOrderCorrect
<1> HIDE DEF popped
<1>2. n \in Nat /\ popped \in [1 .. n -> E]
  <2>1. n \in Nat /\ popped \in [1 .. n -> T]
    BY <1>1
  <2>2. T \subseteq E
    OBVIOUS
  <2> HIDE DEF n, E
  <2> QED
    BY <2>1, <2>2
<1>3. ASSUME NEW g \in S, NEW t \in E
      PROVE  OnTimer(g, t) \in S
  <2>1. g \in GraphState /\ Told(g, p, y) /\ t \in Timer /\ t.ts <= y
    OBVIOUS
  <2>2. OnTimer(g, t) \in GraphState /\ Told(OnTimer(g, t), p, y)
    BY <2>1, OnTimerType, OnTimerTells
  <2> QED
    BY <2>2
<1>4. b \in S
  OBVIOUS
<1>5. \A g \in S : Told(g, p, y)
  OBVIOUS
<1> HIDE DEF S, E, n
<1>6. CanFire(S, E, b, n, popped)
  BY <1>2, <1>3, <1>4 DEF CanFire
<1>7. PICK f \in [0 .. n -> S] : FireInTurn(b, popped) = f[n]
  BY <1>6, OnTimerFolds
<1>8. n \in 0 .. n
  BY <1>2
<1> QED
  BY <1>5, <1>7, <1>8 DEF popped

\* fire_due_timers, up to a watermark not after y.
LEMMA FireDueTimersTells ==
  ASSUME graph \in Graphs, NEW g, Consistent(g), NEW p \in Seq(Record), NEW x \in Time \cup {None},
         Told(g, p, x), NEW y \in Time, NotAfter(x, y), NEW watermark \in Time, watermark <= y
  PROVE  Told(FireDueTimers(g, watermark), p, y)
<1> DEFINE due == {t \in g.timers : t.ts <= watermark}
           b == [g EXCEPT !.timers = g.timers \ due]
<1>1. /\ g \in GraphState /\ Registered(g.timers, g.next_seq)
      /\ g.timers \in SUBSET Timer /\ g.next_seq \in Nat
  BY DEF Consistent, GraphState
<1>2. FireDueTimers(g, watermark) = FireInTurn(b, PopOrder(due))
  BY DEF FireDueTimers, FireInTurn
<1>3. \A t \in due : t.ts <= y
  <2>1. watermark \in Int /\ y \in Int
    BY TimeIsInt
  <2>2. \A t \in due : t.ts \in Time /\ t.ts <= watermark
    BY <1>1 DEF Timer
  <2> HIDE DEF due
  <2>3. \A t \in due : t.ts \in Int
    BY <2>2, TimeIsInt
  <2> QED
    BY <2>1, <2>2, <2>3
<1>4. due \in SUBSET g.timers /\ g.timers \ due \in SUBSET g.timers
  OBVIOUS
<1> HIDE DEF due
<1>5. Heap(due) /\ due \in SUBSET Timer
  BY <1>1, <1>4, RegisteredSubset
<1>6. b \in GraphState /\ b.ops = g.ops /\ b.store = g.store /\ b.out = g.out
  BY <1>1, <1>4 DEF GraphState
<1> HIDE DEF b
<1>7. Told(b, p, y)
  BY <1>1, <1>6, ToldLater
<1> QED
  BY <1>2, <1>3, <1>5, <1>6, <1>7, FiringTells

\* At the end of the stream.
LEMMA FireAllTells ==
  ASSUME graph \in Graphs, NEW g, Consistent(g), NEW p \in Seq(Record), NEW x \in Time \cup {None},
         Told(g, p, x)
  PROVE  TimeMax \in Time /\ Told(FireAll(g), p, TimeMax)
<1> DEFINE left == PopOrder(g.timers)
           k == g.next_seq + Len(left)
           b == [g EXCEPT !.timers = {}, !.next_seq = g.next_seq + Len(left)]
<1>1. /\ g \in GraphState /\ Registered(g.timers, g.next_seq)
      /\ g.timers \in SUBSET Timer /\ g.next_seq \in Nat
  BY DEF Consistent, GraphState
<1>2. FireAll(g) = FireInTurn(b, PopOrder(g.timers))
  BY DEF FireAll, FireInTurn
<1>3. Heap(g.timers)
  BY <1>1, RegisteredSubset
<1>4. k \in Nat
  BY <1>1, <1>3, PopOrderCorrect
<1>5. b = Emptied(g, k)
  BY DEF Emptied
<1> HIDE DEF k, b
<1>6. b \in GraphState /\ b.ops = g.ops /\ b.out = g.out
  BY <1>1, <1>4, <1>5, EmptiedState
<1>7. b.store = g.store
  BY <1>1, <1>5 DEF Emptied, GraphState
<1>8. TimeMax \in Time /\ \A y \in Time : y <= TimeMax
  BY TimeAssumption DEF Time
<1>9. NotAfter(x, TimeMax)
  BY <1>8 DEF NotAfter
<1>10. Told(b, p, TimeMax)
  BY <1>1, <1>6, <1>7, <1>8, <1>9, ToldLater
<1>11. \A t \in g.timers : t.ts <= TimeMax
  BY <1>1, <1>8 DEF Timer
<1> QED
  BY <1>1, <1>2, <1>3, <1>6, <1>8, <1>10, <1>11, FiringTells

-----------------------------------------------------------------------------
(* A record, and a run of records. *)

\* The first i nodes have taken the record r.
TookTo(g, r, i, h) ==
  /\ h.out = g.out
  /\ \A n \in Node : IF n <= i THEN NodeTakes(graph[n], g.ops[n], r, h.ops[n], h.store[n])
                     ELSE h.ops[n] = g.ops[n]

\* All have, and their outputs are in an item.
StepTook(g, r, h) ==
  /\ h.out = Append(g.out, [ts |-> r.ts, value |-> h.store])
  /\ \A n \in Node : NodeTakes(graph[n], g.ops[n], r, h.ops[n], h.store[n])

LEMMA NextTook ==
  ASSUME graph \in Graphs, NEW g, NEW r, NEW i \in Nat, i + 1 \in Node, NEW h, TookTo(g, r, i, h),
         NEW k, Took(h, i + 1, r, k)
  PROVE  TookTo(g, r, i + 1, k)
<1>1. PICK op, v : Local(h, i + 1, k, op, v) /\ NodeTakes(graph[i + 1], h.ops[i + 1], r, op, v)
  BY DEF Took
<1>2. /\ h.out = g.out /\ ~(i + 1 <= i) /\ h.ops[i + 1] = g.ops[i + 1]
  BY DEF TookTo
<1>3. /\ k.out = h.out /\ k.ops[i + 1] = op /\ k.store[i + 1] = v
      /\ \A n \in Node : n # i + 1 => k.ops[n] = h.ops[n] /\ k.store[n] = h.store[n]
  BY <1>1 DEF Local
<1>4. ASSUME NEW n \in Node
      PROVE  IF n <= i + 1 THEN NodeTakes(graph[n], g.ops[n], r, k.ops[n], k.store[n])
             ELSE k.ops[n] = g.ops[n]
  <2>1. n \in Nat
    BY DEF Node, Graphs
  <2>2. CASE n = i + 1
    BY <1>1, <1>2, <1>3, <2>2
  <2>3. CASE n # i + 1
    <3>1. n <= i + 1 <=> n <= i
      BY <2>1, <2>3
    <3>2. k.ops[n] = h.ops[n] /\ k.store[n] = h.store[n]
      BY <1>3, <2>3
    <3> QED
      BY <3>1, <3>2 DEF TookTo
  <2> QED
    BY <2>2, <2>3
<1> QED
  BY <1>2, <1>3, <1>4 DEF TookTo

\* step_with_context_and_timers.
LEMMA StepGraphTook ==
  ASSUME graph \in Graphs, NEW g, Consistent(g), NEW r \in Record
  PROVE  StepTook(g, r, StepGraph(g, r))
<1> DEFINE S == {h \in GraphState : Consistent(h)}
           n == Len(graph)
<1>1. ASSUME NEW h \in S, NEW node \in Node
      PROVE  EvalNode(h, node, r) \in S /\ Took(h, node, r, EvalNode(h, node, r))
  <2>1. h \in GraphState /\ Consistent(h) /\ Follows(h.ops, h.timers) /\ PulsesStarted(h.ops)
    BY DEF Consistent
  <2>2. Evaluates(h, node, r, EvalNode(h, node, r)) /\ Took(h, node, r, EvalNode(h, node, r))
    BY <2>1, NodeEvaluates, NodeTook
  <2>3. Consistent(EvalNode(h, node, r))
    BY <2>1, <2>2, EvaluatesConsistent
  <2> QED
    BY <2>2, <2>3 DEF Consistent
<1>2. g \in S
  BY DEF Consistent
<1>3. \A h \in S : h \in GraphState /\ Consistent(h)
  OBVIOUS
<1> HIDE DEF S
<1>4. PICK f \in [0 .. n -> S] :
        /\ f[0] = g
        /\ \A i \in 1 .. n : f[i] = EvalNode(f[i - 1], i, r)
        /\ StepGraph(g, r) = EmitAt(f[n], r.ts)
  <2>1. CanEval(S, r, g)
    BY <1>1, <1>2 DEF CanEval
  <2> QED
    BY <2>1, StepGraphFolds
<1>5. n \in Nat /\ Node = 1 .. n
  BY DEF Graphs, Node
<1> HIDE DEF n
<1> DEFINE P == {i \in 0 .. n : TookTo(g, r, i, f[i])}
<1>6. 0 \in P
  <2>1. \A m \in Node : ~(m <= 0)
    BY <1>5
  <2> QED
    BY <1>4, <1>5, <2>1 DEF TookTo
<1>7. ASSUME NEW i \in 0 .. n - 1, i \in P
      PROVE  i + 1 \in P
  <2>1. i + 1 \in 1 .. n /\ (i + 1) - 1 = i /\ i + 1 \in 0 .. n /\ i \in 0 .. n /\ i \in Nat /\ i + 1 \in Node
    BY <1>5, <1>7
  <2>2. f[i] \in S /\ TookTo(g, r, i, f[i])
    BY <1>4, <1>7, <2>1
  <2>3. f[i + 1] = EvalNode(f[i], i + 1, r)
    BY <1>4, <2>1
  <2>4. Took(f[i], i + 1, r, f[i + 1])
    BY <1>1, <2>1, <2>2, <2>3
  <2>5. TookTo(g, r, i + 1, f[i + 1])
    BY <2>1, <2>2, <2>4, NextTook
  <2> QED
    BY <2>1, <2>5
<1>8. TookTo(g, r, n, f[n]) /\ Consistent(f[n])
  <2> HIDE DEF P
  <2>1. 0 .. n \subseteq P
    BY <1>5, <1>6, <1>7, CountUp
  <2>2. n \in P
    BY <1>5, <2>1
  <2>3. f[n] \in S
    BY <1>4, <1>5
  <2> QED
    BY <1>3, <2>2, <2>3 DEF P
<1>9. \A m \in Node : NodeTakes(graph[m], g.ops[m], r, f[n].ops[m], f[n].store[m])
  <2>1. \A m \in Node : m <= n
    BY <1>5
  <2> QED
    BY <1>8, <2>1 DEF TookTo
<1> DEFINE k == f[n]
           h == EmitAt(k, r.ts)
<1>10. h.ops = k.ops /\ h.store = k.store /\ h.out = Append(k.out, [ts |-> r.ts, value |-> k.store])
  BY <1>8 DEF EmitAt, Consistent, GraphState
<1>11. k.out = g.out /\ StepGraph(g, r) = h
  BY <1>4, <1>8 DEF TookTo
<1> HIDE DEF h
<1> QED
  BY <1>9, <1>10, <1>11 DEF StepTook

\* run_one of the next record.
LEMMA RunOneTells ==
  ASSUME graph \in Graphs, NEW g, Consistent(g), NEW p \in Seq(Record), NEW x \in Time \cup {None},
         Told(g, p, x), NEW r \in Record, NotAfter(x, r.ts)
  PROVE  Told(RunOne(g, r), Append(p, r), r.ts)
<1> DEFINE m == FireDueTimers(g, r.ts)
           y == r.ts
           h == RunOne(g, r)
           item == [ts |-> r.ts, value |-> h.store]
           q == Append(p, r)
<1>1. y \in Time /\ y \in Int /\ y \in Time \cup {None} /\ y # None /\ y <= y /\ NotAfter(y, y)
  <2>1. r.ts \in Time
    BY KeyedAssumption DEF Record
  <2>2. r.ts \in Int
    BY <2>1, TimeIsInt
  <2> QED
    BY <2>1, <2>2, TimeAssumption DEF NotAfter
<1>2. Consistent(m) /\ m.timers = g.timers \ {t \in g.timers : t.ts <= y}
  BY <1>1, FireDueTimersFires
<1>3. Told(m, p, y)
  BY <1>1, FireDueTimersTells
<1>4. StepTook(m, r, h)
  <2>1. h = StepGraph(m, r)
    BY DEF RunOne
  <2> HIDE DEF m, h
  <2> QED
    BY <1>2, <2>1, StepGraphTook
<1> HIDE DEF m, h
<1>5. h.out = Append(m.out, item) /\ item.ts = r.ts /\ item.value = h.store
  BY <1>4 DEF StepTook
<1> HIDE DEF item
<1>6. ASSUME NEW n \in Node, m.ops[n].open
      PROVE  r.ts < m.ops[n].due
  <2>1. PICK t \in Own(m.timers, n) : t.ts = m.ops[n].due
    BY Zenon, <1>2, <1>6 DEF Consistent, Follows, Waits
  <2>2. t \in g.timers /\ ~(t.ts <= y)
    BY <1>2, <2>1 DEF Own
  <2>3. t.ts \in Time
    BY <2>2 DEF Consistent, GraphState, Timer
  <2>4. t.ts \in Int
    BY <2>3, TimeIsInt
  <2> QED
    BY <1>1, <2>1, <2>2, <2>4
<1>7. m \in GraphState /\ Ordered(p, r.ts) /\ r.ts \in Time \cup {None} /\ NotAfter(r.ts, r.ts)
  BY <1>1, <1>2, <1>3 DEF Consistent, Told
<1>8. ASSUME NEW n \in Node, Sums(graph[n])
      PROVE  Splits(h, q, r.ts, n)
  <2>1. graph[n] # "pulse" /\ Splits(m, p, r.ts, n)
    BY <1>3, <1>8 DEF Sums, Told
  <2>2. Takes(m.ops[n], graph[n], r, h.ops[n]) /\ h.store[n] = None /\ item.value[n] = None
    <3>1. NodeTakes(graph[n], m.ops[n], r, h.ops[n], h.store[n])
      BY <1>4 DEF StepTook
    <3> QED
      BY <1>5, <2>1, <3>1 DEF NodeTakes
  <2>3. m.ops[n].open => r.ts < m.ops[n].due
    BY <1>6
  <2> QED
    BY <1>5, <1>7, <1>8, <2>1, <2>2, <2>3, RecordSplits
<1>9. ASSUME LonePulse
      PROVE  Judged(h, q, r.ts)
  <2>1. 1 \in Node /\ graph[1] = "pulse" /\ PulsesFit /\ Judged(m, p, r.ts)
    BY <1>3, <1>9 DEF LonePulse, Node, Graphs, Told
  <2>2. PulseTakes(m.ops[1], r, h.ops[1], item.value[1])
    <3>1. NodeTakes(graph[1], m.ops[1], r, h.ops[1], h.store[1])
      BY <1>4, <2>1 DEF StepTook
    <3> QED
      BY <1>5, <2>1, <3>1 DEF NodeTakes
  <2>3. m.ops[1].open => r.ts < m.ops[1].due
    BY <1>6, <2>1
  <2> QED
    BY <1>5, <1>7, <2>1, <2>2, <2>3, RecordJudged
<1>10. Ordered(q, r.ts)
  <2> DEFINE N == Len(p) + 1
  <2>1. /\ Len(p) \in Nat /\ q[N] = r /\ DOMAIN q = 1 .. N /\ DOMAIN p = 1 .. Len(p)
        /\ \A k \in 1 .. Len(p) : q[k] = p[k]
    BY OneMore
  <2>2. \A i \in 1 .. N : i = N \/ i \in 1 .. Len(p)
    BY <2>1
  <2>3. \A i \in 1 .. N : r.ts # None /\ q[i].ts <= r.ts
    BY <1>1, <1>7, <2>1, <2>2 DEF Ordered
  <2>4. ASSUME NEW i \in 1 .. N, NEW j \in 1 .. N, i < j
        PROVE  q[i].ts <= q[j].ts
    <3>1. CASE j = N
      BY <2>1, <2>3, <3>1
    <3>2. CASE j # N
      <4>1. i \in 1 .. Len(p) /\ j \in 1 .. Len(p)
        BY <2>1, <2>4, <3>2
      <4> QED
        BY <1>7, <2>1, <2>4, <4>1 DEF Ordered
    <3> QED
      BY <3>1, <3>2
  <2> HIDE DEF q, N
  <2> QED
    BY <2>1, <2>3, <2>4 DEF Ordered
<1>11. Told(h, q, r.ts)
  BY <1>8, <1>9, <1>10 DEF Told
<1> QED
  BY <1>11 DEF h

\* The sequence p with the first i elements of rs after it.
Joined(p, rs, i) == [k \in 1 .. Len(p) + i |-> IF k <= Len(p) THEN p[k] ELSE rs[k - Len(p)]]

LEMMA JoinedIs ==
  ASSUME NEW p \in Seq(Record), NEW rs \in Seq(Record)
  PROVE  /\ Joined(p, rs, 0) = p /\ Joined(p, rs, Len(rs)) = p \o rs
         /\ \A i \in 0 .. Len(rs) : Joined(p, rs, i) \in Seq(Record)
         /\ \A i \in 1 .. Len(rs) : Joined(p, rs, i) = Append(Joined(p, rs, i - 1), rs[i])
<1> DEFINE n == Len(p)
<1>1. n \in Nat /\ Len(rs) \in Nat /\ DOMAIN p = 1 .. n
  OBVIOUS
<1>2. \A k \in 1 .. n : p[k] \in Record
  OBVIOUS
<1>3. \A k \in 1 .. Len(rs) : rs[k] \in Record
  OBVIOUS
<1>4. Joined(p, rs, 0) = p
  BY DEF Joined
<1>6. ASSUME NEW i \in 0 .. Len(rs)
      PROVE  Joined(p, rs, i) \in Seq(Record)
  <2>1. ASSUME NEW k \in 1 .. n + i
        PROVE  (IF k <= n THEN p[k] ELSE rs[k - n]) \in Record
    <3>1. CASE k <= n
      BY <1>1, <1>2, <3>1
    <3>2. CASE ~(k <= n)
      <4>1. k - n \in 1 .. Len(rs)
        BY <1>1, <3>2
      <4> QED
        BY <1>3, <3>2, <4>1
    <3> QED
      BY <3>1, <3>2
  <2>2. n + i \in Nat
    BY <1>1
  <2> QED
    BY <2>1, <2>2 DEF Joined
<1>5. Joined(p, rs, Len(rs)) = p \o rs
  <2> DEFINE a == Joined(p, rs, Len(rs))
             b == p \o rs
  <2>1. a \in Seq(Record) /\ b \in Seq(Record)
    BY <1>1, <1>6
  <2>2. /\ Len(b) = n + Len(rs) /\ \A k \in 1 .. n : b[k] = p[k]
        /\ \A k \in 1 .. Len(rs) : b[n + k] = rs[k]
    OBVIOUS
  <2>3. a = [k \in 1 .. n + Len(rs) |-> IF k <= n THEN p[k] ELSE rs[k - n]]
    BY DEF Joined
  <2> HIDE DEF a, b, n
  <2>4. Len(a) = n + Len(rs)
    BY <1>1, <2>1, <2>3
  <2>5. ASSUME NEW k \in 1 .. n + Len(rs)
        PROVE  a[k] = b[k]
    <3>1. CASE k <= n
      <4>1. k \in 1 .. n
        BY <1>1, <3>1
      <4> QED
        BY <2>2, <2>3, <3>1, <4>1
    <3>2. CASE ~(k <= n)
      <4>1. k - n \in 1 .. Len(rs) /\ n + (k - n) = k
        BY <1>1, <3>2
      <4>2. b[n + (k - n)] = rs[k - n]
        BY <2>2, <4>1
      <4> QED
        BY <2>3, <3>2, <4>1, <4>2
    <3> QED
      BY <3>1, <3>2
  <2>6. a = b
    BY <2>1, <2>2, <2>4, <2>5
  <2> QED
    BY <2>6 DEF a, b
<1>7. ASSUME NEW i \in 1 .. Len(rs)
      PROVE  Joined(p, rs, i) = Append(Joined(p, rs, i - 1), rs[i])
  <2> DEFINE a == Joined(p, rs, i - 1)
             b == Joined(p, rs, i)
  <2>1. i - 1 \in 0 .. Len(rs) /\ n + (i - 1) \in Nat /\ n + (i - 1) + 1 = n + i
    BY <1>1
  <2>2. a = [k \in 1 .. n + (i - 1) |-> IF k <= n THEN p[k] ELSE rs[k - n]]
    BY DEF Joined
  <2>3. b = [k \in 1 .. n + i |-> IF k <= n THEN p[k] ELSE rs[k - n]]
    BY DEF Joined
  <2>4. a \in Seq(Record) /\ b \in Seq(Record)
    BY <1>6, <2>1
  <2> HIDE DEF a, b, n
  <2>5. Len(a) = n + (i - 1) /\ Len(b) = n + i
    BY <1>1, <2>1, <2>2, <2>3, <2>4
  <2>6. \A k \in 1 .. n + (i - 1) : b[k] = a[k]
    <3>1. \A k \in 1 .. n + (i - 1) : k \in 1 .. n + i
      BY <1>1
    <3> QED
      BY <2>2, <2>3, <3>1
  <2>7. b[n + i] = rs[i]
    <3>1. n + i \in 1 .. n + i /\ ~(n + i <= n) /\ (n + i) - n = i
      BY <1>1
    <3> QED
      BY <2>3, <3>1
  <2> DEFINE c == Append(a, rs[i])
  <2>8. /\ c \in Seq(Record) /\ Len(c) = n + i /\ c[n + i] = rs[i]
        /\ \A k \in 1 .. n + (i - 1) : c[k] = a[k]
    <3>1. rs[i] \in Record
      BY <1>1, <1>3
    <3>2. /\ c \in Seq(Record) /\ Len(c) = Len(a) + 1 /\ c[Len(a) + 1] = rs[i]
          /\ \A k \in 1 .. Len(a) : c[k] = a[k]
      BY <2>4, <3>1
    <3> HIDE DEF c
    <3>3. Len(a) + 1 = n + i
      BY <1>1, <2>1, <2>5
    <3> QED
      BY <2>5, <3>2, <3>3
  <2> HIDE DEF c
  <2>9. \A k \in 1 .. n + i : b[k] = c[k]
    <3>1. \A k \in 1 .. n + i : k = n + i \/ k \in 1 .. n + (i - 1)
      BY <1>1
    <3> QED
      BY <2>6, <2>7, <2>8, <3>1
  <2>10. b = c
    BY <2>4, <2>5, <2>8, <2>9
  <2> QED
    BY <2>10 DEF a, b, c
<1> QED
  BY <1>4, <1>5, <1>6, <1>7

\* The frontier after the first i records of rs.
After(x, rs, i) == IF i = 0 THEN x ELSE rs[i].ts

\* The records rs are in order, and not behind x.
Timely(x, rs) ==
  /\ \A i \in 1 .. Len(rs) : NotAfter(x, rs[i].ts)
  /\ \A i, j \in 1 .. Len(rs) : i < j => rs[i].ts <= rs[j].ts

\* A run of records.
LEMMA RunTells ==
  ASSUME graph \in Graphs, NEW g, Consistent(g), NEW p \in Seq(Record), NEW x \in Time \cup {None},
         Told(g, p, x), NEW rs \in Seq(Record), Timely(x, rs)
  PROVE  Told(RunInTurn(g, rs), p \o rs, After(x, rs, Len(rs)))
<1> DEFINE S == {h \in GraphState : Consistent(h)}
           n == Len(rs)
<1>1. n \in Nat /\ rs \in [1 .. n -> Record]
  OBVIOUS
<1>2. \A h \in S, r \in Record : RunOne(h, r) \in S
  BY RunOneRuns DEF Ran, Consistent
<1>3. g \in S
  BY DEF Consistent
<1>4. \A h \in S : Consistent(h)
  OBVIOUS
<1> HIDE DEF S
<1>5. PICK f \in [0 .. n -> S] :
        /\ f[0] = g
        /\ \A i \in 1 .. n : f[i] = RunOne(f[i - 1], rs[i])
        /\ RunInTurn(g, rs) = f[n]
  <2>1. CanRun(S, Record, g, n, rs)
    BY <1>1, <1>2, <1>3 DEF CanRun
  <2> QED
    BY <2>1, RunOneFolds
<1> DEFINE P == {i \in 0 .. n : Told(f[i], Joined(p, rs, i), After(x, rs, i))}
<1>6. 0 \in P
  <2>1. Told(f[0], Joined(p, rs, 0), After(x, rs, 0))
    BY <1>5, JoinedIs DEF After
  <2> QED
    BY <1>1, <2>1
<1>7. ASSUME NEW i \in 0 .. n - 1, i \in P
      PROVE  i + 1 \in P
  <2> DEFINE r == rs[i + 1]
             z == After(x, rs, i)
             q == Joined(p, rs, i)
  <2>1. i + 1 \in 1 .. n /\ (i + 1) - 1 = i /\ i + 1 \in 0 .. n /\ i \in 0 .. n /\ i + 1 # 0
    BY <1>1, <1>7
  <2>2. r \in Record
    BY <1>1, <2>1
  <2>3. f[i] \in S /\ Told(f[i], q, z)
    BY <1>5, <1>7, <2>1
  <2>4. q \in Seq(Record) /\ Joined(p, rs, i + 1) = Append(q, r)
    BY <2>1, JoinedIs
  <2>5. z \in Time \cup {None} /\ NotAfter(z, r.ts)
    <3>1. CASE i = 0
      BY <2>1, <3>1 DEF After, Timely
    <3>2. CASE i # 0
      <4>1. i \in 1 .. n /\ i < i + 1
        BY <1>1, <2>1, <3>2
      <4>2. z = rs[i].ts /\ rs[i] \in Record
        BY <1>1, <3>2, <4>1 DEF After
      <4>3. z \in Time
        BY <4>2, KeyedAssumption DEF Record
      <4>4. rs[i].ts <= rs[i + 1].ts
        BY <2>1, <4>1 DEF Timely
      <4> QED
        BY <4>2, <4>3, <4>4 DEF NotAfter
    <3> QED
      BY <3>1, <3>2
  <2>6. f[i + 1] = RunOne(f[i], r)
    BY <1>5, <2>1
  <2>7. After(x, rs, i + 1) = r.ts
    BY <2>1 DEF After
  <2> HIDE DEF z, q, r
  <2>8. Consistent(f[i])
    BY <1>4, <2>3
  <2>9. Told(RunOne(f[i], r), Append(q, r), r.ts)
    BY <2>2, <2>3, <2>4, <2>5, <2>8, RunOneTells
  <2>10. Told(f[i + 1], Joined(p, rs, i + 1), After(x, rs, i + 1))
    BY <2>4, <2>6, <2>7, <2>9
  <2> QED
    BY <2>1, <2>10
<1>8. Told(f[n], Joined(p, rs, n), After(x, rs, n))
  <2> HIDE DEF P
  <2>1. 0 .. n \subseteq P
    BY <1>1, <1>6, <1>7, CountUp
  <2>2. n \in P
    BY <1>1, <2>1
  <2> QED
    BY <2>2 DEF P
<1> QED
  BY <1>5, <1>8, JoinedIs

-----------------------------------------------------------------------------
(* The invariant: what the graph tells of the records it has processed. *)

\* After flush no window is left that a frontier could close.
Frontier == IF flushed THEN TimeMax ELSE last_ts

TellInv ==
  /\ OrderInv /\ OnceInv
  /\ Distinct(processed)
  /\ Told(G, processed, Frontier)

\* Told and Distinct of the next state, from those of its parts.
LEMMA ToldSame ==
  ASSUME UNCHANGED graph, NEW p, p = processed', NEW x, x = Frontier', NEW h, h = G', Told(h, p, x)
  PROVE  Told(G, processed, Frontier)'
<1>1. Node' = Node /\ LonePulse' = LonePulse
  BY DEF Node, LonePulse
<1>2. Ordered(processed, Frontier)'
  BY DEF Told, Ordered
<1>3. ASSUME NEW n \in Node, Sums(graph[n])
      PROVE  Splits(G, processed, Frontier, n)'
  <2>1. Splits(h, p, x, n) /\ graph'[n] = graph[n]
    BY <1>3 DEF Told
  <2>2. Splits(G', processed', Frontier', n)
    BY <2>1
  <2>3. OpenSplit(G'.ops[n], processed', graph'[n]) => OpenSplit(G.ops[n], processed, graph[n])'
    BY DEF OpenSplit, Newest, EndsAt, Window, Part, Starts, At
  <2>4. ShutSplit(G'.ops[n], processed', Frontier', graph'[n]) => ShutSplit(G.ops[n], processed, Frontier, graph[n])'
    BY DEF ShutSplit, At
  <2>5. AllFinal(G'.out, n, G'.ops[n], processed', graph'[n]) => AllFinal(G.out, n, G.ops[n], processed, graph[n])'
    BY DEF AllFinal, Final, Newest, EndsAt, Window, Part, Starts, At
  <2>6. (\A i \in Starts(processed', graph'[n]) :
           Runs(G'.ops[n], processed', graph'[n], i) \/ Carried(G'.out, n, Window(processed', graph'[n], i)))
        => (\A i \in Starts(processed, graph[n]) :
           Runs(G.ops[n], processed, graph[n], i) \/ Carried(G.out, n, Window(processed, graph[n], i)))'
    BY DEF Carried, Runs, Newest, Window, Part, Starts, At
  <2> QED
    BY <2>1, <2>2, <2>3, <2>4, <2>5, <2>6 DEF Splits
<1>4. LonePulse => Judged(G, processed, Frontier)'
  BY DEF Told, Judged, OpenPulse, AboutPulse, Judges, Held1, At
<1> QED
  BY <1>1, <1>2, <1>3, <1>4 DEF Told

\* Records that are new.
LEMMA MoreDistinct ==
  ASSUME processed \in Seq(Record), Distinct(processed), NEW rs \in Seq(Record), NEW g, NewTo(g, Done, rs),
         processed' = processed \o rs
  PROVE  Distinct(processed)'
<1> DEFINE p == processed
           q == processed \o rs
           n == Len(processed)
           m == Len(rs)
<1>1. /\ n \in Nat /\ m \in Nat /\ DOMAIN p = 1 .. n /\ DOMAIN rs = 1 .. m /\ DOMAIN q = 1 .. n + m
      /\ \A i \in 1 .. n : q[i] = p[i]
      /\ \A i \in 1 .. m : q[n + i] = rs[i]
  OBVIOUS
<1>2. \A i \in 1 .. n : p[i].rec \in Done
  BY DEF Done, Recs
<1>3. /\ \A i \in 1 .. m : rs[i].rec \notin Done
      /\ \A i, j \in 1 .. m : i # j => rs[i].rec # rs[j].rec
  BY <1>1 DEF NewTo
<1>4. \A i, j \in 1 .. n : p[i].rec = p[j].rec => i = j
  BY <1>1 DEF Distinct
<1> HIDE DEF p, q, n, m
<1>5. ASSUME NEW i \in 1 .. n + m, i \notin 1 .. n
      PROVE  i - n \in 1 .. m /\ q[i] = rs[i - n]
  <2>1. i - n \in 1 .. m /\ n + (i - n) = i
    BY <1>1, <1>5
  <2> QED
    BY <1>1, <2>1
<1>6. ASSUME NEW i \in 1 .. n + m, NEW j \in 1 .. n + m, q[i].rec = q[j].rec
      PROVE  i = j
  <2>1. CASE i \in 1 .. n /\ j \in 1 .. n
    BY <1>1, <1>4, <1>6, <2>1
  <2>2. CASE i \in 1 .. n /\ j \notin 1 .. n
    BY <1>1, <1>2, <1>3, <1>5, <1>6, <2>2
  <2>3. CASE i \notin 1 .. n /\ j \in 1 .. n
    BY <1>1, <1>2, <1>3, <1>5, <1>6, <2>3
  <2>4. CASE i \notin 1 .. n /\ j \notin 1 .. n
    <3>1. i - n = j - n
      BY <1>3, <1>5, <1>6, <2>4
    <3> QED
      BY <1>1, <3>1
  <2> QED
    BY <2>1, <2>2, <2>3, <2>4
<1> QED
  BY <1>1, <1>6 DEF Distinct, q

\* What is popped from the buffer is in order.
LEMMA PoppedTimely ==
  ASSUME GraphInv, NEW D, D \subseteq Entry, Heap(D), \A f \in D : ~Behind(f.ts)
  PROVE  Timely(last_ts, RecordsOf(D))
<1> DEFINE rs == RecordsOf(D)
           out == PopOrder(D)
<1>1. /\ Len(rs) \in Nat
      /\ \A i \in 1 .. Len(rs) : out[i] \in D /\ rs[i] = RecordOf(out[i])
      /\ \A i, j \in 1 .. Len(rs) : i < j => rs[i].ts <= rs[j].ts
  BY RecordsOfHeap
<1> HIDE DEF rs, out
<1>2. \A i \in 1 .. Len(rs) : NotAfter(last_ts, rs[i].ts)
  <2> TAKE i \in 1 .. Len(rs)
  <2>1. out[i] \in D /\ out[i] \in Entry /\ rs[i] = RecordOf(out[i])
    BY <1>1
  <2>2. rs[i].ts = out[i].ts /\ rs[i].ts \in Time
    BY <2>1, EntryFields
  <2>3. ~Behind(rs[i].ts)
    BY <2>1, <2>2
  <2> QED
    BY <2>2, <2>3, BehindIsAfter
<1>3. Timely(last_ts, rs)
  BY <1>1, <1>2 DEF Timely
<1> QED
  BY <1>3 DEF rs

\* The numbers of records are integers, and none is later than arrivals.
LEMMA NumbersSoFar ==
  ASSUME OnceInv
  PROVE  /\ arrivals \in Nat
         /\ \A k \in Done : k <= arrivals /\ k \in Int
         /\ \A f \in pending : f.rec <= arrivals /\ f.rec \in Int
<1>1. arrivals \in Nat /\ processed \in Seq(Record) /\ pending \subseteq Entry
  BY DEF OnceInv, GraphInv, BufferOK, Queued
<1>2. \A k \in 1 .. MaxArrivals : k \in Int
  BY KeyedAssumption
<1>3. Done \subseteq 1 .. MaxArrivals /\ \A f \in pending : f.rec \in 1 .. MaxArrivals
  BY <1>1, DoneSoFar, EntryFields
<1> QED
  BY <1>1, <1>2, <1>3 DEF OnceInv, Unread

\* A run of records that are new, in order and not behind the frontier.
LEMMA TellRun ==
  ASSUME TellInv, ~flushed, UNCHANGED <<graph, flushed>>, NEW rs \in Seq(Record), RunAll(rs),
         Timely(last_ts, rs), NewTo(G, Done, rs),
         last_ts' = IF rs = <<>> THEN last_ts ELSE rs[Len(rs)].ts
  PROVE  Distinct(processed)' /\ Told(G, processed, Frontier)'
<1>1. /\ GraphInv /\ graph \in Graphs /\ Consistent(G) /\ processed \in Seq(Record)
      /\ last_ts \in Time \cup {None}
  BY SetupType DEF TellInv, OrderInv, GraphInv, BufferOK
<1>2. Becomes(RunInTurn(G, rs)) /\ processed' = processed \o rs
  BY DEF RunAll, RunInTurn
<1>3. RanTo(G, None, {}, rs, Len(rs), RunInTurn(G, rs))
  BY <1>1, RunInTurnRuns
<1>4. G' = RunInTurn(G, rs)
  BY <1>2, <1>3, BecomesIt DEF RanTo, Consistent
<1>5. Told(G, processed, last_ts)
  BY DEF TellInv, Frontier
<1> DEFINE x == After(last_ts, rs, Len(rs))
<1>6. Told(RunInTurn(G, rs), processed \o rs, x)
  BY <1>1, <1>5, RunTells
<1>7. Frontier' = x
  <2>1. Frontier' = last_ts'
    BY DEF Frontier
  <2>2. rs = <<>> <=> Len(rs) = 0
    OBVIOUS
  <2> QED
    BY <2>1, <2>2 DEF After
<1> HIDE DEF x
<1>8. Told(G, processed, Frontier)'
  BY <1>2, <1>4, <1>6, <1>7, ToldSame
<1>9. Distinct(processed)'
  BY <1>1, <1>2, MoreDistinct DEF TellInv
<1> QED
  BY <1>8, <1>9

LEMMA TellThrough ==
  ASSUME TellInv, NEW ts \in Timestamps, NEW val \in Inputs,
         StepThrough([ts |-> ts, val |-> val, rec |-> arrivals + 1])
  PROVE  Distinct(processed)' /\ Told(G, processed, Frontier)'
<1> DEFINE r == [ts |-> ts, val |-> val, rec |-> arrivals + 1]
           rs == <<r>>
<1>0. GraphInv /\ BufferOK /\ OnceInv /\ OncePer(G, Done)
  BY DEF TellInv, OnceInv, GraphInv
<1>1. /\ Arrive(r) /\ RunAll(rs) /\ last_ts' = r.ts /\ ~Behind(r.ts) /\ ~flushed
  BY DEF StepThrough, Arrive
<1>2. /\ r \in Record /\ r.ts \in Time /\ r.rec = arrivals + 1 /\ UNCHANGED <<setupVars, flushed>>
  <2> HIDE DEF r
  <2> QED
    BY <1>0, <1>1, ArrivalRecord DEF r
<1> HIDE DEF r
<1>3. UNCHANGED <<graph, flushed>>
  BY <1>2 DEF setupVars
<1>4. rs \in Seq(Record) /\ Len(rs) = 1 /\ DOMAIN rs = 1 .. 1 /\ rs # <<>> /\ rs[1] = r
  BY <1>2
<1> HIDE DEF rs
<1>5. Timely(last_ts, rs)
  <2>1. NotAfter(last_ts, r.ts)
    BY <1>0, <1>1, <1>2, BehindIsAfter
  <2> QED
    BY <1>4, <2>1 DEF Timely
<1>6. NewTo(G, Done, rs)
  <2>1. r.rec \notin Done
    BY <1>0, <1>2, NumbersSoFar
  <2> QED
    BY <1>0, <1>4, <2>1 DEF NewTo
<1>7. last_ts' = IF rs = <<>> THEN last_ts ELSE rs[Len(rs)].ts
  BY <1>1, <1>4
<1> QED
  BY <1>1, <1>3, <1>4, <1>5, <1>6, <1>7, TellRun

LEMMA TellBuffered ==
  ASSUME TellInv, NEW ts \in Timestamps, NEW val \in Inputs,
         StepBuffered([ts |-> ts, val |-> val, rec |-> arrivals + 1])
  PROVE  Distinct(processed)' /\ Told(G, processed, Frontier)'
<1> DEFINE r == [ts |-> ts, val |-> val, rec |-> arrivals + 1]
           e == [ts |-> r.ts, seq |-> pending_seq, val |-> r.val, rec |-> r.rec]
           w == SatSub(MaxOr(max_ts_seen, r.ts), max_lateness)
           S == pending \cup {e}
           D == {f \in S : f.ts <= w}
           rs == RecordsOf(D)
<1>0. GraphInv /\ BufferOK /\ OnceInv /\ OncePer(G, Done)
  BY DEF TellInv, OnceInv, GraphInv
<1>1. Arrive(r) /\ DrainUntil(S, w) /\ ~Behind(r.ts) /\ ~flushed
  BY DEF StepBuffered, Arrive
<1>2. /\ r \in Record /\ r.val \in Values /\ r.ts \in Time /\ r.rec = arrivals + 1
      /\ r.rec \in 1 .. MaxArrivals /\ UNCHANGED <<setupVars, flushed>>
  <2> HIDE DEF r
  <2> QED
    BY <1>0, <1>1, ArrivalRecord DEF r
<1>3. r.ts \in Timestamps
  OBVIOUS
<1> HIDE DEF r
<1>4. pending_seq \in Nat /\ Queued(pending, pending_seq)
  BY <1>0 DEF BufferOK
<1>5. e \in Entry /\ e.seq = pending_seq /\ e.ts = r.ts /\ e.rec = arrivals + 1
  BY <1>2, <1>3, <1>4 DEF Entry
<1> HIDE DEF e, w
<1>6. Queued(S, pending_seq + 1)
  BY <1>4, <1>5, QueuedMore
<1>7. RunAll(rs) /\ rs \in Seq(Record) /\ last_ts' = IF rs = <<>> THEN last_ts ELSE rs[Len(rs)].ts
  <2> HIDE DEF S
  <2>0. DrainUntil(S, w) /\ Queued(S, pending_seq + 1)
    BY <1>1, <1>6
  <2>1. LET q == RecordsOf({f \in S : f.ts <= w})
        IN  /\ RunAll(q) /\ q \in Seq(Record) /\ processed' = processed \o q
            /\ last_ts' = IF q = <<>> THEN last_ts ELSE q[Len(q)].ts
    BY <2>0, Drains
  <2> QED
    BY <2>1
<1>8. \A f \in S : ~Behind(f.ts)
  BY <1>1, <1>5 DEF TellInv, OrderInv, Awaits
<1>9. Unread(S, Done, arrivals + 1)
  BY <1>0, <1>5, NumbersSoFar DEF OnceInv, Unread
<1>10. D \in SUBSET S
  OBVIOUS
<1> HIDE DEF S, D
<1>11. D \subseteq Entry /\ Heap(D)
  BY <1>6, <1>10, QueuedPart DEF Queued
<1>12. Timely(last_ts, RecordsOf(D))
  BY <1>0, <1>8, <1>10, <1>11, PoppedTimely
<1>13. NewTo(G, Done, RecordsOf(D))
  <2>1. Unread(D, Done, arrivals + 1)
    BY <1>9, <1>10 DEF Unread
  <2> QED
    BY <1>0, <1>11, <2>1, PoppedRecs
<1>14. UNCHANGED <<graph, flushed>>
  BY <1>2 DEF setupVars
<1> QED
  BY <1>1, <1>7, <1>12, <1>13, <1>14, TellRun

LEMMA TellFlush ==
  ASSUME TellInv, Flush
  PROVE  Distinct(processed)' /\ Told(G, processed, Frontier)'
<1> DEFINE rs == RecordsOf(pending)
           d == RunInTurn(G, rs)
           h == FireAll(d)
           x == After(last_ts, rs, Len(rs))
<1>0. /\ GraphInv /\ graph \in Graphs /\ Consistent(G) /\ processed \in Seq(Record) /\ OnceInv
      /\ OncePer(G, Done) /\ last_ts \in Time \cup {None}
  BY SetupType DEF TellInv, OnceInv, GraphInv, BufferOK
<1>1. /\ Becomes(h) /\ processed' = processed \o rs /\ UNCHANGED graph /\ ~flushed /\ flushed'
  BY DEF Flush, RecordsOf, RunInTurn, setupVars
<1>2. pending \subseteq Entry /\ Heap(pending)
  BY <1>0, QueuedPart DEF GraphInv, BufferOK, Queued
<1>3. rs \in Seq(Record)
  BY <1>2, RecordsOfHeap
<1>4. Timely(last_ts, RecordsOf(pending))
  <2>1. \A f \in pending : ~Behind(f.ts)
    BY DEF TellInv, OrderInv, Awaits
  <2> QED
    BY <1>0, <1>2, <2>1, PoppedTimely
<1>5. NewTo(G, Done, RecordsOf(pending))
  BY <1>0, <1>2, PoppedRecs DEF OnceInv
<1>6. Told(G, processed, last_ts)
  BY <1>1 DEF TellInv, Frontier
<1>7. Timely(last_ts, rs) /\ NewTo(G, Done, rs)
  BY <1>4, <1>5
<1> HIDE DEF rs
<1>8. RanTo(G, None, {}, rs, Len(rs), d)
  BY <1>0, <1>3, RunInTurnRuns
<1>9. Told(d, processed \o rs, x)
  BY <1>0, <1>3, <1>6, <1>7, RunTells
<1>10. x \in Time \cup {None}
  <2>1. x = IF rs = <<>> THEN last_ts ELSE rs[Len(rs)].ts
    <3>1. rs = <<>> <=> Len(rs) = 0
      BY <1>3
    <3> QED
      BY <3>1 DEF After
  <2> HIDE DEF x
  <2> QED
    BY <1>0, <1>3, <2>1, FrontierIsTime
<1>11. processed \o rs \in Seq(Record)
  BY <1>0, <1>3
<1> HIDE DEF d, x
<1>12. Consistent(d)
  BY <1>8 DEF RanTo
<1>13. Consistent(h) /\ Told(h, processed \o rs, TimeMax)
  BY <1>0, <1>9, <1>10, <1>11, <1>12, FireAllFires, FireAllTells
<1> HIDE DEF h
<1>14. G' = h /\ Frontier' = TimeMax
  BY <1>1, <1>13, BecomesIt DEF Consistent, Frontier
<1>15. Told(G, processed, Frontier)'
  BY <1>1, <1>13, <1>14, ToldSame
<1>16. Distinct(processed)'
  BY <1>0, <1>1, <1>3, <1>7, MoreDistinct DEF TellInv
<1> QED
  BY <1>15, <1>16

LEMMA TellAdvanced ==
  ASSUME TellInv, NEW ts \in Time, AdvanceEventTimeWatermark(ts)
  PROVE  Distinct(processed)' /\ Told(G, processed, Frontier)'
<1> DEFINE h == FireDueTimers(G, ts)
           x == Frontier
           y == Frontier'
<1>0. /\ GraphInv /\ graph \in Graphs /\ Consistent(G) /\ processed \in Seq(Record)
      /\ last_ts \in Time \cup {None} /\ flushed \in BOOLEAN
  BY SetupType DEF TellInv, OnceInv, GraphInv, BufferOK
<1>1. /\ last_ts' = ts /\ ~Behind(ts) /\ Becomes(h)
      /\ UNCHANGED graph /\ UNCHANGED <<processed, flushed>>
  BY DEF AdvanceEventTimeWatermark, setupVars
<1>2. TimeMax \in Time /\ TimeMax \in Int /\ ts \in Int /\ ts <= TimeMax
  BY TimeAssumption DEF Time
<1>3. x \in Time \cup {None} /\ y \in Time /\ NotAfter(x, y) /\ ts <= y
  <2>1. CASE flushed
    BY <1>1, <1>2, <2>1 DEF Frontier, NotAfter
  <2>2. CASE ~flushed
    <3>1. NotAfter(last_ts, ts)
      BY <1>0, <1>1, BehindIsAfter
    <3> QED
      BY <1>0, <1>1, <1>2, <2>2, <3>1 DEF Frontier
  <2> QED
    BY <2>1, <2>2
<1>4. Told(G, processed, x) /\ Distinct(processed)
  BY DEF TellInv
<1> HIDE DEF x, y
<1>5. Consistent(h)
  BY <1>0, FireDueTimersFires
<1>6. Told(h, processed, y)
  BY <1>0, <1>3, <1>4, FireDueTimersTells
<1> HIDE DEF h
<1>7. G' = h
  BY <1>1, <1>5, BecomesIt DEF Consistent
<1>8. Told(G, processed, Frontier)'
  <2>1. y = Frontier'
    BY DEF y
  <2> QED
    BY <1>1, <1>6, <1>7, <2>1, ToldSame
<1> QED
  BY <1>1, <1>4, <1>8 DEF Distinct

\* Where nothing is run and no timer fires.
LEMMA TellKept ==
  ASSUME TellInv, UNCHANGED graphVars, UNCHANGED graph, UNCHANGED <<processed, last_ts, flushed>>
  PROVE  Distinct(processed)' /\ Told(G, processed, Frontier)'
<1>1. G' = G /\ Frontier' = Frontier
  BY GraphStays DEF Frontier
<1> DEFINE x == Frontier
<1>2. Told(G, processed, x) /\ x = Frontier' /\ Distinct(processed)
  BY <1>1 DEF TellInv
<1> HIDE DEF x
<1>3. Told(G, processed, Frontier)'
  BY <1>1, <1>2, ToldSame
<1> QED
  BY <1>2, <1>3 DEF Distinct

LEMMA TellInit == Init => TellInv
<1> SUFFICES ASSUME Init PROVE TellInv
  OBVIOUS
<1>1. OrderInv /\ OnceInv
  BY OrderInit, OnceInit
<1>2. processed = <<>> /\ DOMAIN processed = {} /\ At(processed) = {}
  BY DEF Init, At
<1>3. /\ DOMAIN G.out = {} /\ \A n \in Node : G.ops[n] = Idle /\ G.store[n] = None
  BY GraphFields DEF Init
<1>4. ~Idle.open /\ Idle.acc = {}
  BY DEF Idle
<1>5. Ordered(processed, Frontier) /\ Distinct(processed)
  BY <1>2 DEF Ordered, Distinct
<1>6. ASSUME NEW n \in Node
      PROVE  Splits(G, processed, Frontier, n)
  <2>1. \A c : Starts(processed, c) = {}
    BY <1>2 DEF Starts
  <2> QED
    BY <1>2, <1>3, <1>4, <2>1 DEF Splits, OpenSplit, ShutSplit, AllFinal
<1>7. LonePulse => Judged(G, processed, Frontier)
  <2> SUFFICES ASSUME LonePulse PROVE Judged(G, processed, Frontier)
    OBVIOUS
  <2>1. 1 \in Node
    BY <1>1, SetupType DEF LonePulse, OnceInv, GraphInv, Node, Graphs
  <2> QED
    BY <1>2, <1>3, <1>4, <2>1 DEF Judged, OpenPulse
<1> QED
  BY <1>1, <1>5, <1>6, <1>7 DEF TellInv, Told

LEMMA TellStep ==
  ASSUME TellInv, NEW ts \in Timestamps, NEW val \in Inputs,
         Step([ts |-> ts, val |-> val, rec |-> arrivals + 1])
  PROVE  Distinct(processed)' /\ Told(G, processed, Frontier)'
<1> DEFINE r == [ts |-> ts, val |-> val, rec |-> arrivals + 1]
<1>1. CASE StepRefused(r) \/ StepLate(r)
  <2>1. /\ UNCHANGED graphVars /\ UNCHANGED graph /\ UNCHANGED <<processed, last_ts, flushed>>
    BY <1>1 DEF StepRefused, StepLate, Arrive, setupVars, bufferVars
  <2> QED
    BY <2>1, TellKept
<1>2. CASE StepThrough(r)
  BY <1>2, TellThrough
<1>3. CASE StepBuffered(r)
  BY <1>3, TellBuffered
<1> QED
  BY <1>1, <1>2, <1>3 DEF Step

LEMMA TellIdle ==
  ASSUME TellInv, TakeLateRecords \/ UNCHANGED vars
  PROVE  Distinct(processed)' /\ Told(G, processed, Frontier)'
<1>1. /\ UNCHANGED graphVars /\ UNCHANGED graph /\ UNCHANGED <<processed, last_ts, flushed>>
  BY DEF TakeLateRecords, vars, setupVars, bufferVars
<1> QED
  BY <1>1, TellKept

\* TellInv is inductive with the driver's watermarks,
LEMMA TellDrivenNext == TellInv /\ [DrivenNext]_vars => TellInv'
<1> SUFFICES ASSUME TellInv, [DrivenNext]_vars PROVE TellInv'
  OBVIOUS
<1>0. OrderInv /\ OrderInv' /\ GraphInv' /\ OnceInv
  BY OrderDrivenNext DEF TellInv, OrderInv
<1>1. CASE \E ts \in Timestamps, val \in Inputs : Step([ts |-> ts, val |-> val, rec |-> arrivals + 1])
  BY <1>0, <1>1, OnceStep, TellStep DEF TellInv
<1>2. CASE DriverAdvances
  <2>1. PICK ts \in Time : AdvanceEventTimeWatermark(ts)
    BY <1>0, <1>2, DriverWatermark
  <2> QED
    BY <1>0, <2>1, OnceAdvanced, TellAdvanced DEF TellInv
<1>3. CASE Flush
  BY <1>0, <1>3, OnceFlush, TellFlush DEF TellInv
<1>4. CASE TakeLateRecords \/ UNCHANGED vars
  BY <1>0, <1>4, OnceIdle, TellIdle DEF TellInv
<1> QED
  BY <1>1, <1>2, <1>3, <1>4 DEF DrivenNext

\* and without a buffer with any.
LEMMA TellUnbufferedNext == NoBuffer /\ TellInv /\ [Next]_vars => TellInv'
<1> SUFFICES ASSUME NoBuffer, TellInv, [Next]_vars PROVE TellInv'
  OBVIOUS
<1>0. OrderInv' /\ OnceInv'
  BY OrderUnbufferedNext, OnceNext DEF TellInv
<1>1. CASE \E ts \in Timestamps, val \in Inputs : Step([ts |-> ts, val |-> val, rec |-> arrivals + 1])
  BY <1>0, <1>1, TellStep DEF TellInv
<1>2. CASE \E ts \in Watermarks : AdvanceEventTimeWatermark(ts)
  BY <1>0, <1>2, TellAdvanced, WatermarksAreTimes DEF TellInv
<1>3. CASE Flush
  BY <1>0, <1>3, TellFlush DEF TellInv
<1>4. CASE TakeLateRecords \/ UNCHANGED vars
  BY <1>0, <1>4, TellIdle DEF TellInv
<1> QED
  BY <1>1, <1>2, <1>3, <1>4 DEF Next

-----------------------------------------------------------------------------
(* What the invariant says of the emitted sums and verdicts. *)

WindowsOf(p, c) == {Window(p, c, i) : i \in Starts(p, c)}

\* An item leaves with the sum S at ts: S is a window, and ts is where it ends.
Ends(p, c, S, ts) ==
  \E i \in Starts(p, c), k \in At(p) :
    EndsAt(p, c, i, k) /\ S = Window(p, c, i) /\ ts = Due(c, p[k].ts)

\* The sums a node has emitted and its open one are the windows of the records.
LEMMA SumsAreWindows ==
  ASSUME TellInv, NEW n \in Node, Sums(graph[n])
  PROVE  /\ ClosedSums(n) \cup OpenSum(n) = WindowsOf(processed, graph[n])
         /\ \A i \in FirstSumsOf(n) :
              Ends(processed, graph[n], emitted[i].value[n].sum, emitted[i].ts)
<1> DEFINE c == graph[n]
           p == processed
           op == ops[n]
<1>1. Splits(G, p, Frontier, n) /\ G.ops = ops /\ G.out = emitted
  BY GraphFields DEF TellInv, Told
<1>2. /\ OpenSplit(op, p, c) /\ AllFinal(emitted, n, op, p, c)
      /\ \A i \in Starts(p, c) : Runs(op, p, c, i) \/ Carried(emitted, n, Window(p, c, i))
  BY <1>1 DEF Splits
<1>3. p \in Seq(Record) /\ emitted \in Seq(Item)
  BY GraphFields DEF TellInv, OrderInv, GraphInv, BufferOK, Consistent, GraphState
<1>4. DOMAIN emitted = 1 .. Len(emitted) /\ Len(emitted) \in Nat
  BY <1>3
<1> HIDE DEF c, p, op
<1>5. \A i \in Starts(p, c) : i \in Nat
  BY <1>3, AtTimes DEF Starts
<1>6. ClosedSums(n) = {emitted[i].value[n].sum : i \in {j \in DOMAIN emitted : emitted[j].value[n] # None}}
  BY DEF ClosedSums, SumsOf
<1>7. OpenSum(n) = IF op.open THEN {op.acc} ELSE {}
  BY DEF OpenSum, op
<1>8. \A S \in ClosedSums(n) : S \in WindowsOf(p, c)
  BY <1>2, <1>6 DEF AllFinal, Final, WindowsOf
<1>9. \A S \in OpenSum(n) : S \in WindowsOf(p, c)
  BY <1>2, <1>7 DEF OpenSplit, WindowsOf
<1>10. ASSUME NEW i \in Starts(p, c)
       PROVE  Window(p, c, i) \in ClosedSums(n) \cup OpenSum(n)
  <2>1. CASE Runs(op, p, c, i)
    <3>1. PICK j \in Starts(p, c) : Newest(p, c, j) /\ op.acc = Window(p, c, j)
      BY <1>2, <2>1 DEF Runs, OpenSplit
    <3>2. i <= j /\ j <= i
      BY <2>1, <3>1 DEF Runs, Newest
    <3>3. i = j
      BY <1>5, <3>2
    <3> QED
      BY <1>7, <2>1, <3>1, <3>3 DEF Runs
  <2>2. CASE Carried(emitted, n, Window(p, c, i))
    BY <1>6, <2>2 DEF Carried
  <2> QED
    BY <1>2, <2>1, <2>2
<1>11. ClosedSums(n) \cup OpenSum(n) = WindowsOf(p, c)
  BY <1>8, <1>9, <1>10 DEF WindowsOf
<1>12. ASSUME NEW i \in FirstSumsOf(n)
       PROVE  Ends(p, c, emitted[i].value[n].sum, emitted[i].ts)
  <2>1. /\ i \in DOMAIN emitted /\ emitted[i].value[n] # None
        /\ \A j \in 1 .. i - 1 : emitted[j].value[n] # emitted[i].value[n]
    BY DEF FirstSumsOf, SumsOf
  <2>2. PICK l \in DOMAIN emitted : /\ l <= i /\ emitted[l].value[n] = emitted[i].value[n]
                                    /\ Final(op, p, c, emitted[i].value[n].sum, emitted[l].ts)
    BY <1>2, <2>1 DEF AllFinal
  <2>3. l = i
    <3>1. l \notin 1 .. i - 1
      BY <2>1, <2>2
    <3> QED
      BY <1>4, <2>1, <2>2, <3>1
  <2> QED
    BY <2>2, <2>3 DEF Final, Ends
<1> QED
  BY <1>11, <1>12 DEF p, c

\* The records of a sum are those of its window, each told by its number.
LEMMA RecordsOfSum ==
  ASSUME NEW p \in Seq(Record), Distinct(p), NEW c, NEW i
  PROVE  {r \in {p[k] : k \in At(p)} : r.rec \in Window(p, c, i)} = {p[k] : k \in Part(p, c, i)}
<1>1. \A m \in At(p) : p[m].rec \in Window(p, c, i) <=> m \in Part(p, c, i)
  BY DEF Window, Part, At, Distinct
<1>2. Part(p, c, i) \subseteq At(p)
  BY DEF Part
<1> QED
  BY <1>1, <1>2

\* The records of a window are in order, and the last is the latest.
LEMMA LastIsLatest ==
  ASSUME NEW p \in Seq(Record), NEW x, Ordered(p, x), NEW c, NEW i, NEW k, EndsAt(p, c, i, k)
  PROVE  /\ k \in At(p) /\ k \in Part(p, c, i)
         /\ \A m \in Part(p, c, i) : m \in At(p) /\ p[m].ts <= p[k].ts
         /\ Max({r.ts : r \in {p[m] : m \in Part(p, c, i)}}) = p[k].ts
<1>1. k \in Part(p, c, i) /\ \A m \in Part(p, c, i) : m <= k /\ m \in At(p)
  BY DEF EndsAt, Part
<1>2. \A m \in Part(p, c, i) : m \in DOMAIN p /\ m \in Nat /\ p[m].ts \in Int
  BY <1>1, AtTimes
<1>3. ASSUME NEW m \in Part(p, c, i)
      PROVE  p[m].ts <= p[k].ts
  <2>1. m = k \/ m < k
    BY <1>1, <1>2
  <2> QED
    BY <1>1, <1>2, <2>1 DEF Ordered
<1> DEFINE S == {r.ts : r \in {p[m] : m \in Part(p, c, i)}}
           a == p[k].ts
<1>4. a \in S /\ S \subseteq Int /\ \A y \in S : a >= y
  BY <1>1, <1>2, <1>3
<1> HIDE DEF S, a
<1>5. \A y \in S : (\A z \in S : y >= z) => y = a
  BY <1>4
<1>6. Max(S) = a
  BY <1>4, <1>5 DEF Max
<1> QED
  BY <1>1, <1>3, <1>6 DEF S, a
\* The windows of session_sum are the sessions.
LEMMA WindowsAreSessions == WindowsOf(processed, "session") = Sessions
<1> DEFINE p == processed
           starts == {i \in Present : \A j \in Present : j < i => p[i].ts >= SatAdd(p[j].ts, Gap)}
           SessionFrom(i) == {k \in Present : i <= k /\ starts \cap (i + 1) .. k = {}}
<1>1. At(p) = Present
  BY DEF At, Present
<1>2. Starts(p, "session") = starts
  BY <1>1 DEF Starts, Due
<1>3. \A i : Part(p, "session", i) = SessionFrom(i)
  BY <1>1, <1>2 DEF Part
<1>4. Sessions = {{p[k].rec : k \in SessionFrom(i)} : i \in starts}
  BY DEF Sessions
<1> HIDE DEF starts, SessionFrom
<1>5. \A i : Window(p, "session", i) = {p[k].rec : k \in SessionFrom(i)}
  BY <1>3 DEF Window
<1> QED
  BY <1>2, <1>4, <1>5 DEF WindowsOf

\* A bucket of p starts with its first record and has all the records of the bucket.
BucketAt(p, k) == p[k].ts \div BucketSize

LEMMA Buckets ==
  ASSUME BucketsFit, NEW p \in Seq(Record), NEW x, Ordered(p, x)
  PROVE  /\ \A m \in At(p) : \E s \in Starts(p, "tumbling") : BucketAt(p, s) = BucketAt(p, m)
         /\ \A i \in Starts(p, "tumbling") :
              Part(p, "tumbling", i) = {m \in At(p) : BucketAt(p, m) = BucketAt(p, i)}
<1> DEFINE Bu(k) == BucketAt(p, k)
           St == Starts(p, "tumbling")
<1>1. \A k \in At(p) : k \in Nat /\ k \in DOMAIN p /\ p[k].ts \in Timestamps /\ p[k].ts \in Int
  BY AtTimes
<1>2. \A k \in At(p) : Bu(k) \in Nat /\ NextBucketEdge(p[k].ts) \in Int
  <2> TAKE k \in At(p)
  <2>1. p[k].ts \div BucketSize \in Nat /\ NextBucketEdge(p[k].ts) \in Time
    BY <1>1, BucketEdge
  <2> QED
    BY <2>1, TimeIsInt DEF BucketAt
<1>3. ASSUME NEW j \in At(p), NEW k \in At(p), j <= k
      PROVE  Bu(j) <= Bu(k)
  <2>1. p[j].ts <= p[k].ts
    <3>1. j = k \/ j < k
      BY <1>1, <1>3
    <3> QED
      BY <1>1, <3>1 DEF Ordered
  <2> QED
    BY <1>1, <2>1, BucketOrder DEF BucketAt
<1>4. ASSUME NEW j \in At(p), NEW k \in At(p)
      PROVE  NextBucketEdge(p[j].ts) <= p[k].ts <=> Bu(j) < Bu(k)
  <2>1. p[k].ts < NextBucketEdge(p[j].ts) <=> Bu(k) <= Bu(j)
    BY <1>1, BucketOrder DEF BucketAt
  <2> HIDE DEF Bu
  <2> QED
    BY <1>1, <1>2, <2>1
<1>5. St = {i \in At(p) : \A j \in At(p) : j < i => Bu(j) < Bu(i)}
  <2>1. St = {i \in At(p) : \A j \in At(p) : j < i => NextBucketEdge(p[j].ts) <= p[i].ts}
    BY DEF Starts, Due
  <2> HIDE DEF Bu, St
  <2> QED
    BY <1>4, <2>1
<1> HIDE DEF Bu, St
<1>6. ASSUME NEW m \in At(p)
      PROVE  \E s \in St : s <= m /\ Bu(s) = Bu(m)
  <2> DEFINE S == {k \in At(p) : Bu(k) = Bu(m)}
  <2>1. S \in SUBSET Nat /\ S # {} /\ m \in S
    BY <1>1
  <2>2. PICK s \in S : \A k \in S : s <= k
    BY <2>1, LeastNumber
  <2>3. s \in At(p) /\ Bu(s) = Bu(m) /\ s <= m
    BY <2>1, <2>2
  <2>4. ASSUME NEW j \in At(p), j < s
        PROVE  Bu(j) < Bu(s)
    <3>1. j \notin S
      BY <1>1, <2>2, <2>3, <2>4
    <3>2. Bu(j) # Bu(s) /\ j <= s
      BY <1>1, <2>3, <2>4, <3>1
    <3> QED
      BY <1>2, <1>3, <2>3, <3>2
  <2> QED
    BY <1>5, <2>3, <2>4
<1>7. ASSUME NEW i \in St
      PROVE  Part(p, "tumbling", i) = {m \in At(p) : Bu(m) = Bu(i)}
  <2>1. i \in At(p) /\ i \in Nat
    BY <1>1, <1>5
  <2>2. ASSUME NEW m \in At(p), i <= m, St \cap (i + 1) .. m = {}
        PROVE  Bu(m) = Bu(i)
    <3>1. PICK s \in St : s <= m /\ Bu(s) = Bu(m)
      BY <1>6
    <3>2. s \in At(p) /\ s \notin (i + 1) .. m
      BY <1>5, <2>2, <3>1
    <3>3. s <= i
      BY <1>1, <2>1, <3>1, <3>2
    <3>4. Bu(s) <= Bu(i) /\ Bu(i) <= Bu(m)
      BY <1>3, <2>1, <2>2, <3>2, <3>3
    <3> QED
      BY <1>2, <2>1, <3>1, <3>4
  <2>3. ASSUME NEW m \in At(p), Bu(m) = Bu(i)
        PROVE  i <= m /\ St \cap (i + 1) .. m = {}
    <3>1. i <= m
      <4>1. ~(m < i)
        BY <1>2, <1>5, <2>1, <2>3
      <4>2. m \in Nat
        BY <1>1
      <4> QED
        BY <2>1, <4>1, <4>2
    <3>2. ASSUME NEW j \in St, j \in (i + 1) .. m
          PROVE  FALSE
      <4>1. j \in At(p) /\ i < j /\ j <= m
        BY <1>1, <1>5, <2>1, <3>2
      <4>2. Bu(i) < Bu(j)
        BY <1>5, <2>1, <4>1
      <4>3. Bu(j) <= Bu(m)
        BY <1>3, <4>1
      <4> QED
        BY <1>2, <2>1, <2>3, <4>1, <4>2, <4>3
    <3> QED
      BY <3>1, <3>2
  <2>4. Part(p, "tumbling", i) = {m \in At(p) : i <= m /\ St \cap (i + 1) .. m = {}}
    BY DEF Part, St
  <2> QED
    BY <2>2, <2>3, <2>4
<1> QED
  BY <1>6, <1>7 DEF Bu, St
\* The windows of tumbling_sum are the buckets.
LEMMA WindowsAreBuckets ==
  ASSUME BucketsFit, NEW p \in Seq(Record), NEW x, Ordered(p, x)
  PROVE  LET Inputted == {p[k] : k \in At(p)}
             Bucket(b) == {r.rec : r \in {q \in Inputted : q.ts \div BucketSize = b}}
         IN  WindowsOf(p, "tumbling") = {Bucket(b) : b \in {r.ts \div BucketSize : r \in Inputted}}
<1> DEFINE Inputted == {p[k] : k \in At(p)}
           Bucket(b) == {r.rec : r \in {q \in Inputted : q.ts \div BucketSize = b}}
           St == Starts(p, "tumbling")
<1>1. /\ \A m \in At(p) : \E s \in St : BucketAt(p, s) = BucketAt(p, m)
      /\ \A i \in St : Part(p, "tumbling", i) = {m \in At(p) : BucketAt(p, m) = BucketAt(p, i)}
  BY Buckets
<1>2. \A b : Bucket(b) = {p[m].rec : m \in {k \in At(p) : BucketAt(p, k) = b}}
  BY DEF BucketAt
<1>3. St \subseteq At(p)
  BY DEF Starts
<1> HIDE DEF St, Bucket
<1>4. \A i \in St : Window(p, "tumbling", i) = Bucket(BucketAt(p, i))
  BY <1>1, <1>2 DEF Window
<1>5. WindowsOf(p, "tumbling") = {Bucket(BucketAt(p, i)) : i \in St}
  BY <1>4 DEF WindowsOf, St
<1>6. {Bucket(b) : b \in {r.ts \div BucketSize : r \in Inputted}} = {Bucket(BucketAt(p, i)) : i \in At(p)}
  BY DEF BucketAt
<1>7. {Bucket(BucketAt(p, i)) : i \in St} = {Bucket(BucketAt(p, i)) : i \in At(p)}
  BY <1>1, <1>3
<1> QED
  BY <1>5, <1>6, <1>7 DEF Bucket

\* The hypotheses of the theorems: tumbling_sum runs where BucketsFit, and pulse_width
\* runs in a graph of its own, where no deadline saturates.
WindowsFit == (\E s \in Setups : \E n \in DOMAIN s.graph : s.graph[n] = "tumbling") => BucketsFit
PulsesAlone ==
  \A s \in Setups : (\E n \in DOMAIN s.graph : s.graph[n] = "pulse") => Len(s.graph) = 1 /\ PulsesFit

LEMMA TellsTheWindows == WindowsFit /\ TellInv => WindowsSplitTheRecords
<1> SUFFICES ASSUME WindowsFit, TellInv PROVE WindowsSplitTheRecords
  OBVIOUS
<1> DEFINE p == processed
           BucketOf(r) == r.ts \div BucketSize
           Inputted == {p[k] : k \in Present}
           Bucket(b) == {r.rec : r \in {q \in Inputted : BucketOf(q) = b}}
           Summed(n, i) == {r \in Inputted : r.rec \in emitted[i].value[n].sum}
<1>1. p \in Seq(Record) /\ Distinct(p) /\ Ordered(p, Frontier) /\ At(p) = Present
  BY DEF TellInv, Told, OrderInv, GraphInv, BufferOK, At, Present
<1>2. \E s \in Setups : s.graph = graph
  <2> DEFINE s == [graph |-> graph, policy |-> policy, max_lateness |-> max_lateness]
  <2>1. s \in Setups /\ s.graph = graph
    BY DEF TellInv, OrderInv, GraphInv, SetupOK
  <2> QED
    BY <2>1
<1>3. ASSUME NEW n \in Node, graph[n] = "session"
      PROVE  /\ ClosedSums(n) \cup OpenSum(n) = Sessions
             /\ \A i \in FirstSumsOf(n) :
                  emitted[i].ts = SatAdd(Max({r.ts : r \in Summed(n, i)}), Gap)
  <2>1. /\ ClosedSums(n) \cup OpenSum(n) = WindowsOf(p, "session")
        /\ \A i \in FirstSumsOf(n) : Ends(p, "session", emitted[i].value[n].sum, emitted[i].ts)
    BY <1>3, SumsAreWindows DEF Sums
  <2>2. ASSUME NEW i \in FirstSumsOf(n)
        PROVE  emitted[i].ts = SatAdd(Max({r.ts : r \in Summed(n, i)}), Gap)
    <3>1. PICK j \in Starts(p, "session"), k \in At(p) :
            /\ EndsAt(p, "session", j, k) /\ emitted[i].value[n].sum = Window(p, "session", j)
            /\ emitted[i].ts = Due("session", p[k].ts)
      BY <2>1 DEF Ends
    <3>2. Summed(n, i) = {p[m] : m \in Part(p, "session", j)}
      <4>1. {q \in {p[m] : m \in At(p)} : q.rec \in Window(p, "session", j)}
              = {p[m] : m \in Part(p, "session", j)}
        BY <1>1, RecordsOfSum
      <4> QED
        BY <1>1, <3>1, <4>1
    <3>3. Max({r.ts : r \in {p[m] : m \in Part(p, "session", j)}}) = p[k].ts
      BY <1>1, <3>1, LastIsLatest
    <3> HIDE DEF p, Summed
    <3> QED
      BY <3>1, <3>2, <3>3 DEF Due
  <2> QED
    BY <2>1, <2>2, WindowsAreSessions
<1>4. ASSUME NEW n \in Node, graph[n] = "tumbling"
      PROVE  /\ ClosedSums(n) \cup OpenSum(n) = {Bucket(BucketOf(r)) : r \in Inputted}
             /\ \A i \in FirstSumsOf(n) : \A r \in Summed(n, i) :
                  emitted[i].ts = (BucketOf(r) + 1) * BucketSize
  <2>1. BucketsFit
    BY <1>2, <1>4 DEF WindowsFit, Node
  <2>2. /\ ClosedSums(n) \cup OpenSum(n) = WindowsOf(p, "tumbling")
        /\ \A i \in FirstSumsOf(n) : Ends(p, "tumbling", emitted[i].value[n].sum, emitted[i].ts)
    BY <1>4, <2>1, SumsAreWindows DEF Sums
  <2>3. WindowsOf(p, "tumbling") = {Bucket(BucketOf(r)) : r \in Inputted}
    <3>1. WindowsOf(p, "tumbling")
            = {{r.rec : r \in {q \in {p[k] : k \in At(p)} : q.ts \div BucketSize = b}} :
                 b \in {r.ts \div BucketSize : r \in {p[k] : k \in At(p)}}}
      BY <1>1, <2>1, WindowsAreBuckets
    <3>2. Inputted = {p[k] : k \in At(p)}
      BY <1>1
    <3> HIDE DEF p, Inputted
    <3>3. WindowsOf(p, "tumbling") = {Bucket(b) : b \in {BucketOf(r) : r \in Inputted}}
      BY <3>1, <3>2
    <3> HIDE DEF Bucket, BucketOf
    <3> QED
      BY <3>3
  <2>4. ASSUME NEW i \in FirstSumsOf(n), NEW r \in Summed(n, i)
        PROVE  emitted[i].ts = (BucketOf(r) + 1) * BucketSize
    <3>1. PICK j \in Starts(p, "tumbling"), k \in At(p) :
            /\ EndsAt(p, "tumbling", j, k) /\ emitted[i].value[n].sum = Window(p, "tumbling", j)
            /\ emitted[i].ts = Due("tumbling", p[k].ts)
      BY <2>2 DEF Ends
    <3>2. Summed(n, i) = {p[m] : m \in Part(p, "tumbling", j)}
      <4>1. {q \in {p[m] : m \in At(p)} : q.rec \in Window(p, "tumbling", j)}
              = {p[m] : m \in Part(p, "tumbling", j)}
        BY <1>1, RecordsOfSum
      <4> QED
        BY <1>1, <3>1, <4>1
    <3>3. PICK m \in Part(p, "tumbling", j) : r = p[m]
      BY <3>2
    <3>4. Part(p, "tumbling", j) = {l \in At(p) : BucketAt(p, l) = BucketAt(p, j)}
      BY <1>1, <2>1, Buckets
    <3>5. BucketAt(p, m) = BucketAt(p, k)
      BY <3>1, <3>3, <3>4 DEF EndsAt
    <3>6. p[k].ts \in Timestamps
      BY <1>1, AtTimes
    <3>7. NextBucketEdge(p[k].ts) = (BucketAt(p, k) + 1) * BucketSize
      BY <2>1, <3>6, BucketEdge DEF BucketAt
    <3>8. emitted[i].ts = (BucketAt(p, m) + 1) * BucketSize
      BY <3>1, <3>5, <3>7 DEF Due
    <3> QED
      BY <3>3, <3>8 DEF BucketAt
  <2> QED
    BY <2>2, <2>3, <2>4
<1> HIDE DEF p, BucketOf, Inputted, Bucket, Summed
<1> QED
  BY <1>3, <1>4 DEF WindowsSplitTheRecords, p, BucketOf, Inputted, Bucket, Summed

LEMMA TellsThePulses == PulsesAlone /\ TellInv => PulsesAreJudged
<1> SUFFICES ASSUME PulsesAlone, TellInv, NEW n \in Node, graph[n] = "pulse"
             PROVE  LET verdicts == {i \in DOMAIN emitted : emitted[i].value[n] # None}
                        p == processed
                    IN  /\ \A i \in verdicts :
                             LET item == emitted[i].value[n]
                                 rise == IF item.verdict = "TooLong" THEN emitted[i].ts - MaxWidth - 1
                                         ELSE emitted[i].ts - item.width
                             IN  \E h \in Present :
                                   /\ p[h].val = High /\ p[h].ts = rise
                                   /\ IF item.verdict = "TooLong"
                                      THEN \A k \in Present :
                                             h <= k /\ p[k].ts < emitted[i].ts => p[k].val = High
                                      ELSE \E k \in Present :
                                             /\ h < k /\ p[k].val = Low /\ p[k].ts = emitted[i].ts
                                             /\ \A m \in Present : h <= m /\ m < k => p[m].val = High
                                             /\ item.width <= MaxWidth
                                             /\ item.verdict = "Valid" <=> item.width >= MinWidth
                        /\ \A h \in Present : p[h].val = High =>
                             \/ ops[n].open /\ ops[n].start <= p[h].ts
                             \/ \E i \in verdicts :
                                  emitted[i].ts - emitted[i].value[n].width - 1 <= p[h].ts
                                    /\ p[h].ts <= emitted[i].ts
  BY DEF PulsesAreJudged
<1> DEFINE s == [graph |-> graph, policy |-> policy, max_lateness |-> max_lateness]
<1>1. s \in Setups /\ s.graph = graph /\ graph \in Graphs
  BY SetupType DEF TellInv, OrderInv, GraphInv, SetupOK
<1>2. DOMAIN graph = 1 .. Len(graph) /\ n \in DOMAIN graph
  BY <1>1 DEF Graphs, Node
<1> HIDE DEF s
<1>3. Len(graph) = 1 /\ PulsesFit
  BY <1>1, <1>2 DEF PulsesAlone
<1>4. n = 1
  BY <1>2, <1>3
<1>5. LonePulse
  BY <1>3, <1>4 DEF LonePulse
<1>6. Judged(G, processed, Frontier) /\ G.ops = ops /\ G.out = emitted /\ At(processed) = Present
  BY <1>5, GraphFields DEF TellInv, Told, At, Present
<1>7. /\ \A i \in DOMAIN emitted : emitted[i].value[n] # None =>
           \E h \in Present : AboutPulse(processed, emitted[i].ts, emitted[i].value[n], h)
      /\ \A h \in Present : processed[h].val = High =>
           Held1(ops[n], processed[h].ts) \/ Judges(emitted, processed[h].ts)
  BY <1>4, <1>6 DEF Judged
<1>8. ASSUME NEW i \in DOMAIN emitted, NEW h, AboutPulse(processed, emitted[i].ts, emitted[i].value[n], h)
      PROVE  LET item == emitted[i].value[n]
                 p == processed
             IN  /\ p[h].val = High
                 /\ p[h].ts = IF item.verdict = "TooLong" THEN emitted[i].ts - MaxWidth - 1
                              ELSE emitted[i].ts - item.width
                 /\ IF item.verdict = "TooLong"
                    THEN \A k \in Present : h <= k /\ p[k].ts < emitted[i].ts => p[k].val = High
                    ELSE \E k \in Present :
                           /\ h < k /\ p[k].val = Low /\ p[k].ts = emitted[i].ts
                           /\ \A m \in Present : h <= m /\ m < k => p[m].val = High
                           /\ item.width <= MaxWidth
                           /\ item.verdict = "Valid" <=> item.width >= MinWidth
  BY <1>6, <1>8 DEF AboutPulse
<1>9. \A ts : Judges(emitted, ts) =>
        \E i \in {j \in DOMAIN emitted : emitted[j].value[n] # None} :
          emitted[i].ts - emitted[i].value[n].width - 1 <= ts /\ ts <= emitted[i].ts
  BY <1>4 DEF Judges
<1> QED
  BY <1>7, <1>8, <1>9 DEF Held1

\* Whatever timers were cancelled, set again or fired by records, by the driver's
\* watermarks or by flush, the sums are exactly the sessions and the buckets of the
\* records run through the graph, and each is first emitted at the end of its window.
THEOREM WindowsAreRight ==
  ASSUME WindowsFit
  PROVE  DrivenSpec => []WindowsSplitTheRecords
BY TellInit, TellDrivenNext, TellsTheWindows, PTL DEF DrivenSpec

\* So they are under Error and Drop, whatever the watermarks are.
THEOREM UnbufferedWindowsAreRight ==
  ASSUME WindowsFit, NoBuffer
  PROVE  Spec => []WindowsSplitTheRecords
BY TellInit, TellUnbufferedNext, TellsTheWindows, PTL DEF Spec

\* pulse_width judges every pulse, and no pulse that was not there, with the driver's
\* watermarks.
THEOREM PulsesAreRight ==
  ASSUME PulsesAlone
  PROVE  DrivenSpec => []PulsesAreJudged
BY TellInit, TellDrivenNext, TellsThePulses, PTL DEF DrivenSpec

\* So it does under Error and Drop, whatever the watermarks are.
THEOREM UnbufferedPulsesAreRight ==
  ASSUME PulsesAlone, NoBuffer
  PROVE  Spec => []PulsesAreJudged
BY TellInit, TellUnbufferedNext, TellsThePulses, PTL DEF Spec
=============================================================================
