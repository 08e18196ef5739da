------------------------------- MODULE MCEdges -------------------------------
(* The smaller components of the system, each on its own and all in one run: *)
(* part chooses which of them runs, the others stay where they begin.        *)
EXTENDS Services

INSTANCE GraphPrograms

CONSTANT Parts

VARIABLES part              \* the component that runs
VARIABLES adaptor, pos, kept, out, ended
adaptorVars == <<adaptor, pos, kept, out, ended>>
VARIABLES policy, graphs, ready_queue, flushed, iter_records, returned, watermarks, reached, iter_ended
iterVars == <<policy, graphs, ready_queue, flushed, iter_records, returned, watermarks, reached, iter_ended>>
VARIABLES program, graph, shown, outputs, snapshotted, restarts
graphVars == <<program, graph, shown, outputs, snapshotted, restarts>>
VARIABLES doc, calls, rust, js, built
patternVars == <<doc, calls, rust, js, built>>
VARIABLES script_kind, script_at, item, policies, input, holder, poisoned, answers, eval_errors, eval_timeouts, judged, taken, changes
scriptVars == <<script_kind, script_at, item, policies, input, holder, poisoned, answers, eval_errors, eval_timeouts, judged, taken, changes>>
VARIABLES rules, file, added, routed
ruleVars == <<rules, file, added, routed>>
VARIABLES op, st, fed, computed, accepted
opVars == <<op, st, fed, computed, accepted>>

-----------------------------------------------------------------------------
(* The adaptors, over every short stream of items.                           *)
ItemsOf(T, K) == [ts : T, key : K]
StreamsOf(T, K, n) == UNION {[1..k -> ItemsOf(T, K)] : k \in 0..n}
Alone(S) == {<<s>> : s \in S}
Two(S, T) == {<<s, t>> : s \in S, t \in T}
Same(S) == {<<s, t, s>> : s, t \in S}
Wraps(kind, windows, sources) ==
  [kind : {kind}, window : windows, sources : sources,
   policy : {[sorted |-> FALSE, max_gap |-> None, error |-> {}, reject |-> {}]}]
ValidationPolicies ==
  [sorted : BOOLEAN, max_gap : {None, 1}, error : {{}, {"NaN", "Negative"}}, reject : {{}, {"NaN"}}]
Adaptors ==
  UNION {
    Wraps("join", {0, 1}, Two(StreamsOf({0, 1, 3}, {"a"}, 2), StreamsOf({0, 1, 2, 4}, {"a"}, 3))),
    Wraps("merge", {0}, Two(StreamsOf({0, 1, 2}, {"a"}, 2), StreamsOf({0, 1, 2}, {"a"}, 2))
                        \cup Same(StreamsOf({0, 1}, {"a"}, 2))),
    Wraps("rate_limit", {0, 2}, Alone(StreamsOf(0..3, {"a"}, 4))),
    Wraps("keep_last", {0, 2}, Alone(StreamsOf(0..3, {"a"}, 4))),
    Wraps("dedupe", {0, 2}, Alone(StreamsOf(0..2, {"a", "b"}, 4))),
    Wraps("batch", {0, 2}, Alone(StreamsOf(0..4, {"a"}, 3))),
    Wraps("group", {0}, Alone(StreamsOf({0}, {"a", "b"}, 3))),
    [kind : {"validated"}, window : {0}, policy : ValidationPolicies,
     sources : Alone(StreamsOf({0, 1, 3}, {"NaN", "Negative", "Fine"}, 2)
                   \cup StreamsOf({0, 1, 3}, {"NaN", "Fine"}, 3))]}

Adaptor == INSTANCE Combinators
Iter == INSTANCE KeyedIter
  WITH Policies <- {"Error", "Drop", "Buffer"}, Times <- {1, 2, 4}, Delay <- 2, Lateness <- 1,
       MaxRecords <- 3, MaxWatermarks <- 1, records <- iter_records, ended <- iter_ended

Graph == INSTANCE ComputeGraph
  WITH Programs <- PlainPrograms \cup ZippedMaps, Records <- {Q(-1), Q(1), Q(3)}, MaxRecords <- 3,
       MaxRestarts <- 1, Call <- ClosureOf, fed <- shown, out <- outputs, saved <- snapshotted

\* Documents with no, one and two further steps, guards that are missing,
\* empty, too many or do not compile, and bounds below zero.
Patterns ==
  [when : {"w"}, then : {<<>>, <<"t">>, <<"t", "t">>, <<"bad", "t">>},
   not_between : {<<>>, <<"g">>, <<"", "g">>, <<"g", "bad", "x">>},
   not_then : {None, "n"}, within : {None, -1, 5}]
Pattern == INSTANCE PatternBuilder
  WITH MaxCalls <- 3, Bounds <- {0, 5}, Counts <- {<<0, 0>>, <<2, 1>>, <<1, 2>>}, Documents <- Patterns

\* Two Rego filters share the engine; what runs a script of its own runs beside one.
Script(script, maps, strict, budget) == [script |-> script, maps |-> maps, strict |-> strict, budget |-> budget]
Rego(strict, budget) == Script("rego", FALSE, strict, budget)
OwnScripts ==
  {Script("cel", FALSE, FALSE, None), Script("cel", FALSE, TRUE, None), Script("cel", FALSE, TRUE, 1)}
   \cup {Script("rhai", maps, strict, None) : maps, strict \in BOOLEAN}
Paired(k, l) == [w \in Workers |-> IF w = CHOOSE v \in Workers : TRUE THEN k ELSE l]
ScriptKinds ==
  {Paired(k, l) : k \in {Rego(FALSE, 1), Rego(TRUE, None)}, l \in {Rego(FALSE, None), Rego(TRUE, 0)}}
   \cup {Paired(k, Rego(FALSE, None)) : k \in OwnScripts}
Verdicts == {"true", "false", "other", "fails"}
Scripts == INSTANCE ScriptedStreams
  WITH Streams <- Workers, Kinds <- ScriptKinds, MaxItems <- 2, MaxChanges <- 2,
       Items <- [cel |-> Verdicts, rhai |-> Verdicts, rego |-> {"a", "b"}],
       Directories <- {<<"a", "broken", "default">>, <<"default">>, <<"failing">>},
       kind <- script_kind, at <- script_at, out <- answers

Rule(name, condition, priority) == [name |-> name, condition |-> condition, priority |-> priority]
FileRules == {Rule("a", {1}, 2), Rule("b", {1, 2}, None), Rule("c", {1}, 2), Rule("d", None, 1)}
Rules == INSTANCE RuleEngine
  WITH Files <- {None, <<Rule("a", {1}, 2), Rule("c", {1}, 2), Rule("e", {2}, 1)>>}
                 \cup UNION {[1..k -> FileRules] : k \in 1..2},
       Extra <- {Rule("x", {1, 2}, 1), Rule("d", None, 1)}, RoutedItems <- {1, 2}, Unset <- 9, MaxRules <- 4

Catalogue == INSTANCE MCOperators
  WITH Ops <- {}, out <- computed
Operator == INSTANCE OperatorMeaning
  WITH Ops <- Catalogue!AllOps, out <- computed
-----------------------------------------------------------------------------
(* A component that does not run begins in one fixed state.                  *)
Fixed(S) == {CHOOSE x \in S : TRUE}
Init ==
  /\ part \in Parts
  /\ adaptor \in IF part = "adaptor" THEN Adaptors ELSE Fixed(Adaptors)
  /\ key \in IF part = "dedup" THEN [Workers -> Keys] ELSE Fixed([Workers -> Keys])
  /\ policy \in IF part = "iter" THEN {"Error", "Drop", "Buffer"} ELSE {"Drop"}
  /\ capacity \in IF part = "mqtt" THEN Capacities ELSE {0}
  /\ program \in IF part = "graph" THEN PlainPrograms ELSE ZippedMaps
  /\ doc \in IF part = "pattern" THEN Patterns \cup {None} ELSE {None}
  /\ script_kind \in IF part = "scripts" THEN ScriptKinds ELSE {Paired(Rego(TRUE, None), Rego(FALSE, None))}
  /\ op \in IF part = "operator" THEN Catalogue!AllOps ELSE Fixed(Catalogue!WindowOps)
  /\ ServicesInit
  /\ Adaptor!Init /\ Iter!Init /\ Graph!Init /\ Pattern!Init /\ Scripts!Init /\ Rules!Init /\ Operator!Init

edgeVars == <<adaptorVars, iterVars, graphVars, patternVars, scriptVars, ruleVars, opVars>>
Next ==
  \/ part = "dedup"  /\ DedupStep  /\ UNCHANGED <<part, edgeVars>>
  \/ part = "shard"  /\ ShardStep  /\ UNCHANGED <<part, edgeVars>>
  \/ part = "mqtt"   /\ MqttStep   /\ UNCHANGED <<part, edgeVars>>
  \/ part = "timers" /\ TimersStep /\ UNCHANGED <<part, edgeVars>>
  \/ part = "sink"   /\ SinkStep   /\ UNCHANGED <<part, edgeVars>>
  \/ /\ part = "adaptor" /\ Adaptor!Next
     /\ UNCHANGED <<part, serviceVars, iterVars, graphVars, patternVars, scriptVars, ruleVars, opVars>>
  \/ /\ part = "iter" /\ Iter!Next
     /\ UNCHANGED <<part, serviceVars, adaptorVars, graphVars, patternVars, scriptVars, ruleVars, opVars>>
  \/ /\ part \in {"graph", "zipped"} /\ Graph!Next
     /\ UNCHANGED <<part, serviceVars, adaptorVars, iterVars, patternVars, scriptVars, ruleVars, opVars>>
  \/ /\ part = "pattern" /\ Pattern!Next
     /\ UNCHANGED <<part, serviceVars, adaptorVars, iterVars, graphVars, scriptVars, ruleVars, opVars>>
  \/ /\ part = "scripts" /\ Scripts!Next
     /\ UNCHANGED <<part, serviceVars, adaptorVars, iterVars, graphVars, patternVars, ruleVars, opVars>>
  \/ /\ part = "rules" /\ Rules!Next
     /\ UNCHANGED <<part, serviceVars, adaptorVars, iterVars, graphVars, patternVars, scriptVars, opVars>>
  \/ /\ part = "operator" /\ Operator!Next /\ Catalogue!StaysOnLine
     /\ UNCHANGED <<part, serviceVars, adaptorVars, iterVars, graphVars, patternVars, scriptVars, ruleVars>>

vars == <<part, serviceVars, edgeVars>>
\* Batcher's Fairness.
SinkFairness ==
  /\ WF_sinkVars(part = "sink" /\ Sink!Elapse)
  /\ WF_sinkVars(part = "sink" /\ Sink!Tick)
  /\ WF_sinkVars(part = "sink" /\ \E ok \in BOOLEAN : Sink!WriteReturns(Ticker, ok))
Spec == Init /\ [][Next]_vars /\ SinkFairness

-----------------------------------------------------------------------------
(* The properties, each stated with its component; those of the services are *)
(* in Services.                                                              *)

(* Join, merge, rate limits, deduplication, batches, groups and validation   *)
(* return what their definitions over the whole input say.                   *)
AdaptorsMeanTheirDefinition == part = "adaptor" => Adaptor!AdaptorsMeanTheirDefinition

(* A line leaves the batcher's buffer in the end, as long as tick is called. *)
BufferedLinesAreFlushed == Sink!BufferedLinesAreFlushed

(* Behind the keyed iterator every record is answered once, by its own key.  *)
EachKeyGetsItsAnswers == part = "iter" => Iter!EachKeyGetsItsAnswers

(* A graph computes its program, also after a restore.                       *)
GraphsComputeTheirProgram == part \in {"graph", "zipped"} => Graph!GraphsComputeTheirProgram

(* A pattern means the calls it was built by, natively and in the browser.   *)
PatternsMeanTheirCalls == part = "pattern" => Pattern!PatternsMeanTheirCalls

(* A filter or map by script returns each item's own verdict, also when many *)
(* share one policy engine; and rules are asked as their file orders them.   *)
ScriptsDecideAsLoaded ==
  part \in {"scripts", "rules"} => Scripts!EveryItemHasItsVerdict /\ Rules!RulesFollowTheirFile

(* Operators mean what their definitions say of the history of samples.      *)
WindowsMeanTheirHistory == part = "operator" => Operator!WindowsMeanTheirHistory
StateLooksBack == part = "operator" => Operator!StateLooksBack
IndicatorsAreTheirFormula == part = "operator" => Operator!IndicatorsAreTheirFormula
=============================================================================
