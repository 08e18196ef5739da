------------------------------ MODULE KeyedIter ------------------------------
(* TFloKeyedIter: the keyed graphs of all keys behind one iterator, and the  *)
(* stream of async.rs, which does the same.  The graph of a key is a small   *)
(* one that returns every record and wants a timer Delay after it: what a    *)
(* KeyedGraphState does with windows and detectors is in KeyedGraph.  The    *)
(* map of graphs is walked in any order.                                     *)
EXTENDS Integers, Sequences, SequencesExt, FiniteSets

CONSTANTS Keys, Policies, Times, Delay, Lateness,
          MaxRecords, MaxWatermarks,    \* bounds on records and on watermarks
          None

VARIABLES policy, graphs,   \* graphs: of the keys seen so far
          ready_queue, flushed,
          records,          \* what the wrapped iterator has given
          returned,         \* what next has returned
          watermarks, reached, \* how many watermarks; the last accepted one and its keys
          ended             \* next has returned None
vars == <<policy, graphs, ready_queue, flushed, records, returned, watermarks, reached, ended>>

NewGraph == [last_ts |-> None, max_ts_seen |-> None, pending |-> {}, timers |-> {}, late |-> {}]
Init ==
  /\ policy \in Policies
  /\ graphs = <<>>
  /\ ready_queue = <<>> /\ flushed = FALSE
  /\ records = <<>> /\ returned = <<>>
  /\ watermarks = 0 /\ reached = [ts |-> None, keys |-> {}]
  /\ ended = FALSE

-----------------------------------------------------------------------------
(* One key's KeyedGraphState: functions to the new state and the results.    *)
MaxOr(a, b) == IF a = None \/ a < b THEN b ELSE a
InTimeOrder(S) == SetToSortSeq(S, LAMBDA a, b : a.ts < b.ts \/ (a.ts = b.ts /\ a.id < b.id))
Results(kind, k, S) ==
  LET s == InTimeOrder(S) IN [i \in DOMAIN s |-> [kind |-> kind, key |-> k, ts |-> s[i].ts, id |-> s[i].id]]

FireDue(g, k, ts) ==
  LET due == {t \in g.timers : t.ts <= ts}
  IN [g |-> [g EXCEPT !.timers = @ \ due], items |-> Results("timer", k, due)]
RunOne(g, k, r) ==
  LET f == FireDue(g, k, r.ts)
  IN [g |-> [f.g EXCEPT !.timers = @ \cup {[ts |-> r.ts + Delay, id |-> r.id]}, !.last_ts = r.ts],
      items |-> f.items \o Results("value", k, {r})]
RunAll(g, k, S) ==
  FoldLeft(LAMBDA a, r : LET s == RunOne(a.g, k, r) IN [g |-> s.g, items |-> a.items \o s.items],
           [g |-> g, items |-> <<>>], InTimeOrder(S))

Behind(g, ts) == g.last_ts # None /\ ts < g.last_ts
Step(g, k, r) ==
  IF Behind(g, r.ts)
  THEN IF policy = "Error" THEN [g |-> g, items |-> Results("error", k, {r})]
       ELSE [g |-> [g EXCEPT !.late = @ \cup {r}], items |-> <<>>]
  ELSE IF policy # "Buffer" THEN RunOne(g, k, r)
  ELSE LET highest == MaxOr(g.max_ts_seen, r.ts)
           due == {e \in g.pending \cup {r} : e.ts <= highest - Lateness}
       IN RunAll([g EXCEPT !.max_ts_seen = highest, !.pending = (@ \cup {r}) \ due], k, due)
Advance(g, k, ts) ==
  FireDue([g EXCEPT !.last_ts = ts, !.max_ts_seen = MaxOr(@, ts)], k, ts)
WrongFlushKey(g, k) == RunAll([g EXCEPT !.pending = {}], k, g.pending)
FlushKey(g, k) ==
  LET drained == RunAll([g EXCEPT !.pending = {}], k, g.pending)
      left == drained.g.timers
  IN [g |-> [drained.g EXCEPT !.timers = {}, !.last_ts = FoldSet(LAMBDA t, m : MaxOr(m, t.ts), @, left)],
      items |-> drained.items \o Results("timer", k, left)]

-----------------------------------------------------------------------------
\* next serves the queue before it takes another record.
NextReady ==
  /\ ready_queue # <<>>
  /\ returned' = Append(returned, Head(ready_queue))
  /\ ready_queue' = Tail(ready_queue)
  /\ UNCHANGED <<policy, graphs, flushed, records, watermarks, reached, ended>>

GraphOf(k) == IF k \in DOMAIN graphs THEN graphs[k] ELSE NewGraph
NextRecord(k, ts) ==
  /\ ready_queue = <<>> /\ ~flushed /\ Len(records) < MaxRecords
  /\ LET r == [ts |-> ts, id |-> Len(records) + 1]
         s == Step(GraphOf(k), k, r)
     IN /\ records' = Append(records, [key |-> k, ts |-> ts])
        /\ graphs' = [m \in DOMAIN graphs \cup {k} |-> IF m = k THEN s.g ELSE graphs[m]]
        /\ ready_queue' = s.items
  /\ UNCHANGED <<policy, flushed, returned, watermarks, reached, ended>>

\* Results of several keys are queued key after key, in the map's order.
InOrderOf(order, items) == FlattenSeq([i \in DOMAIN order |-> items[order[i]]])

NextFlush ==
  /\ ready_queue = <<>> /\ ~flushed
  /\ flushed' = TRUE
  /\ LET f == [k \in DOMAIN graphs |-> FlushKey(graphs[k], k)]
     IN /\ graphs' = [k \in DOMAIN graphs |-> f[k].g]
        /\ \E order \in SetToAllKPermutations(DOMAIN graphs) :
             /\ Len(order) = Cardinality(DOMAIN graphs)
             /\ ready_queue' = InOrderOf(order, [k \in DOMAIN graphs |-> f[k].items])
  /\ UNCHANGED <<policy, records, returned, watermarks, reached, ended>>

NextNone ==
  /\ ready_queue = <<>> /\ flushed /\ ~ended
  /\ ended' = TRUE
  /\ UNCHANGED <<policy, graphs, ready_queue, flushed, records, returned, watermarks, reached>>

(* A watermark goes to the keys in the map's order and stops at the first    *)
(* key that is ahead of it.                                                  *)
AdvanceEventTimeWatermark(ts) ==
  /\ watermarks < MaxWatermarks
  /\ watermarks' = watermarks + 1
  /\ LET ahead == {k \in DOMAIN graphs : Behind(graphs[k], ts)}
         a == [k \in DOMAIN graphs \ ahead |-> Advance(graphs[k], k, ts)]
     IN \E order \in SetToAllKPermutations(DOMAIN graphs \ ahead) :
          /\ ahead = {} => Len(order) = Cardinality(DOMAIN graphs)
          /\ graphs' = [k \in DOMAIN graphs |-> IF k \in ToSet(order) THEN a[k].g ELSE graphs[k]]
          /\ ready_queue' = ready_queue \o InOrderOf(order, [k \in DOMAIN a |-> a[k].items])
          /\ reached' = IF ahead = {} THEN [ts |-> ts, keys |-> DOMAIN graphs] ELSE reached
  /\ UNCHANGED <<policy, flushed, records, returned, ended>>

Next ==
  \/ NextReady
  \/ \E k \in Keys, ts \in Times : NextRecord(k, ts)
  \/ NextFlush
  \/ NextNone
  \/ \E ts \in Times : AdvanceEventTimeWatermark(ts)

Spec == Init /\ [][Next]_vars

-----------------------------------------------------------------------------
Answers == returned \o ready_queue
Ids(kind) == {Answers[i].id : i \in {i \in DOMAIN Answers : Answers[i].kind = kind}}
Held == UNION {{r.id : r \in graphs[k].pending} : k \in DOMAIN graphs}
Late == UNION {{r.id : r \in graphs[k].late} : k \in DOMAIN graphs}
InOrder(s) == \A i \in 1..Len(s) - 1 : s[i].ts <= s[i + 1].ts

(* Each record is answered once: with its value, with an error, on the late  *)
(* list, or it is still buffered.  The timer it asked for fires once, and at *)
(* the end of the input nothing is left behind in any key.  What is returned *)
(* of a key is of its own records, and comes in time order whatever the      *)
(* other keys do (errors apart, and watermarks over buffered records, whose  *)
(* disorder run keyed_watermark_over_buffer shows).  A watermark that was    *)
(* accepted has left no due timer in any key there was.                      *)
EachKeyGetsItsAnswers ==
  LET calm == policy # "Buffer" \/ watermarks = 0
  IN /\ Ids("value") \cup Ids("error") \cup Late \cup Held = DOMAIN records
     /\ Cardinality(Ids("value")) + Cardinality(Ids("error")) + Cardinality(Late) + Cardinality(Held)
          = Len(records)
     /\ \A i, j \in DOMAIN Answers :
          Answers[i].kind = Answers[j].kind /\ Answers[i].id = Answers[j].id => i = j
     /\ Ids("timer") \subseteq Ids("value")
     /\ flushed => Ids("timer") = Ids("value") /\ Held = {}
     /\ \A i \in DOMAIN Answers : records[Answers[i].id].key = Answers[i].key
     /\ calm => \A k \in DOMAIN graphs :
                  InOrder(SelectSeq(Answers, LAMBDA x : x.key = k /\ x.kind # "error"))
     /\ calm => \A k \in reached.keys : \A t \in graphs[k].timers : t.ts > reached.ts
=============================================================================
