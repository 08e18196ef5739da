----------------------------- MODULE ComputeGraph -----------------------------
(***************************************************************************)
(* A compiled graph of computations, tflo-core/src/compile: built node by  *)
(* node, composed with other graphs (zip, map, fold), stepped over records,*)
(* snapshotted and restored after a restart, also into a graph of another  *)
(* program.                                                                *)
(*                                                                         *)
(* Closures are external: Call(f, arguments). A stateful one returns its   *)
(* next state and its result. Outputs are extracted as Computed.           *)
(***************************************************************************)
EXTENDS Computed, FiniteSets

CONSTANTS
  Programs,     \* the programs that are tried, see below
  Records,
  MaxRecords,   \* bounds of the model: records, restarts
  MaxRestarts,
  Call(_, _),
  None

VARIABLES
  program,  \* what the graph was built by
  graph,    \* the compiled graph
  fed,      \* history: the records the nodes stand for; None after a restore that failed midway
  out,      \* the latest step's outputs, None when it returned WarmingUp
  saved,    \* the latest snapshot, with the program and the history it was taken of; or None
  restarts

vars == <<program, graph, fed, out, saved, restarts>>

-----------------------------------------------------------------------------
(* Building. A base is [nodes, outputs, warmup]; nodes are numbered from 0 *)
(* as they are added and read only nodes added before.                     *)

Compile(base) ==
  [nodes        |-> [i \in DOMAIN base.nodes |-> [id |-> i - 1, op |-> base.nodes[i],
                                                   inputs |-> base.nodes[i].inputs,
                                                   state |-> base.nodes[i].init]],
   composed     |-> <<>>,     \* the composition nodes
   outputs      |-> base.outputs,
   store        |-> <<>>,
   records_seen |-> 0,
   min_warmup   |-> base.warmup,
   fingerprint  |-> None]

MaxNodeId(g) ==
  LET ids == {0} \cup {g.nodes[i].id : i \in DOMAIN g.nodes} \cup {g.composed[i].id : i \in DOMAIN g.composed}
  IN  CHOOSE m \in ids : \A i \in ids : i <= m

OffsetIds(ids, offset) == [k \in DOMAIN ids |-> ids[k] + offset]

OffsetNode(node, offset) ==
  [node EXCEPT !.id = @ + offset, !.inputs = OffsetIds(@, offset)]

WrongOffsetNode(node, offset) ==
  [node EXCEPT !.id = @ + offset,
               !.inputs = IF Len(@) < 2 THEN OffsetIds(@, offset) ELSE <<@[1] + offset, @[2]>>]

\* What every composition starts over with.
Composed(g) == [g EXCEPT !.store = <<>>, !.records_seen = 0, !.fingerprint = None]

\* The composition nodes of the other graph get new numbers, but their
\* closures go on reading the numbers they were made with.
ZipGraphs(g, other) ==
  LET offset == MaxNodeId(g) + 1
  IN  [Composed(g) EXCEPT
         !.nodes = @ \o [i \in DOMAIN other.nodes |-> OffsetNode(other.nodes[i], offset)],
         !.composed = @ \o [i \in DOMAIN other.composed |->
                              [other.composed[i] EXCEPT !.id = @ + offset]],
         !.outputs = @ \o OffsetIds(other.outputs, offset),
         !.min_warmup = IF other.min_warmup > @ THEN other.min_warmup ELSE @]

\* map and fold: a node over the outputs so far, which is then the output.
Over(g, c) ==
  [Composed(g) EXCEPT
     !.composed = Append(@, [id |-> MaxNodeId(g) + 1, reads |-> g.outputs, kind |-> c.kind,
                             f |-> c.f, state |-> c.init]),
     !.outputs = <<MaxNodeId(g) + 1>>]

\* The Debug form of the nodes, in order: what a closure or a plugin computes
\* is not part of it.
Fingerprint(g) ==
  [i \in DOMAIN g.nodes |->
     <<g.nodes[i].id, g.nodes[i].op.kind, g.nodes[i].inputs,
       IF g.nodes[i].op.kind = "const" THEN g.nodes[i].op.init ELSE Zero>>]

\* A program: two bases, or one, with what is laid over each and over both.
Build(p) ==
  LET left  == FoldLeft(Over, Compile(p.left), p.over_left)
      right == FoldLeft(Over, Compile(p.right), p.over_right)
      g     == FoldLeft(Over, IF p.right = None THEN left ELSE ZipGraphs(left, right), p.over)
  IN  [g EXCEPT !.fingerprint = IF p.stamped THEN Fingerprint(g) ELSE None]

-----------------------------------------------------------------------------
(* Stepping.                                                               *)

GetComputed(store, id) == IF id \in DOMAIN store THEN store[id] ELSE Err("WarmingUp")
StoreValue(store, id, v) == [i \in DOMAIN store \cup {id} |-> IF i = id THEN v ELSE store[i]]

\* The reason of the first input that is absent.
FirstAbsent(inputs) == inputs[CHOOSE k \in DOMAIN inputs :
                                ~inputs[k].ok /\ \A j \in 1..(k - 1) : inputs[j].ok]
Values(inputs) == [k \in DOMAIN inputs |-> inputs[k].v]

WrongEvalScan(op, state, inputs) ==
  Call(op.f, <<state>> \o [k \in DOMAIN inputs |-> IF inputs[k].ok THEN inputs[k].v ELSE Zero])

\* A scan passes an absent input on and keeps its state.
EvalScan(op, state, inputs) ==
  IF \E k \in DOMAIN inputs : ~inputs[k].ok THEN <<state, FirstAbsent(inputs)>>
  ELSE Call(op.f, <<state>> \o Values(inputs))

\* The next state of a node and its value.
EvalNode(op, state, inputs, record) ==
  LET stateless(v) == <<state, v>>
      absent == \E k \in DOMAIN inputs : ~inputs[k].ok
  IN  CASE op.kind = "prop" -> stateless(Ok(Call(op.f, <<record>>)))
        [] op.kind = "const" -> stateless(Ok(op.init))
        [] op.kind \in {"map", "map2"} ->
             stateless(IF absent THEN FirstAbsent(inputs) ELSE Ok(Call(op.f, Values(inputs))))
        [] op.kind = "filter" ->
             stateless(IF absent THEN FirstAbsent(inputs)
                       ELSE IF Call(op.f, Values(inputs)) THEN inputs[1] ELSE Err("FilteredOut"))
        [] op.kind = "filter_map" ->
             stateless(IF absent THEN FirstAbsent(inputs)
                       ELSE IF Call(op.f, Values(inputs)) = <<>> THEN Err("FilteredOut")
                       ELSE Ok(Call(op.f, Values(inputs))[1]))
        [] op.kind \in {"scan", "scan2"} -> EvalScan(op, state, inputs)
        [] op.kind = "plugin" -> Call(op.f, <<state>> \o inputs)

EvalNodes(g, record) ==
  FoldLeft(LAMBDA acc, node :
             LET inputs == [k \in DOMAIN node.inputs |-> GetComputed(acc.store, node.inputs[k])]
                 result == EvalNode(node.op, node.state, inputs, record)
             IN  [nodes |-> Append(acc.nodes, [node EXCEPT !.state = result[1]]),
                  store |-> StoreValue(acc.store, node.id, result[2])],
           [nodes |-> <<>>, store |-> <<>>], g.nodes)

Extract(store, ids) ==
  IF \A k \in DOMAIN ids : ids[k] \in DOMAIN store THEN [k \in DOMAIN ids |-> store[ids[k]]] ELSE None

\* A composition node that cannot read its inputs leaves no value.
EvalComposed(acc, c) ==
  LET input == Extract(acc.store, c.reads)
      value == IF c.kind = "map" THEN Call(c.f, input) ELSE Call(c.f, <<c.state>> \o input)
  IN  IF input = None THEN [acc EXCEPT !.composed = Append(@, c)]
      ELSE [composed |-> Append(acc.composed,
                                [c EXCEPT !.state = IF c.kind = "fold" THEN value ELSE @]),
            store    |-> StoreValue(acc.store, c.id, value)]

\* step_raw: the graph after one record.
Evaluated(g, record) ==
  LET base == EvalNodes(g, record)
      over == FoldLeft(EvalComposed, [composed |-> <<>>, store |-> base.store], g.composed)
  IN  [g EXCEPT !.records_seen = @ + 1, !.nodes = base.nodes,
                !.composed = over.composed, !.store = over.store]

-----------------------------------------------------------------------------
(* Snapshots.                                                              *)

Stateful(node) == node.op.kind \in {"scan", "scan2", "plugin"}
Variant(op) == IF op.kind \in {"scan", "scan2", "plugin"} THEN op.kind ELSE "stateless"

\* Refused for a fold, a scan without codec, a plugin without save.
Checkpointable(g) ==
  /\ \A i \in DOMAIN g.composed : g.composed[i].kind # "fold"
  /\ \A i \in DOMAIN g.nodes : Stateful(g.nodes[i]) => g.nodes[i].op.saved

Snapshot(g) ==
  [records_seen |-> g.records_seen, min_warmup |-> g.min_warmup,
   output_count |-> Len(g.outputs), fingerprint |-> g.fingerprint,
   node_states  |-> [i \in DOMAIN g.nodes |->
                       [variant |-> Variant(g.nodes[i].op),
                        state   |-> IF Stateful(g.nodes[i]) THEN g.nodes[i].state ELSE Zero]]]

\* The nodes that cannot take their part of a snapshot. Bytes of another
\* operator's state decode or do not: Loads(i) says.
Rejects(g, s, Loads(_)) ==
  {i \in DOMAIN g.nodes :
     \/ Variant(g.nodes[i].op) # s.node_states[i].variant
     \/ Stateful(g.nodes[i]) /\ (~Loads(i) \/ (g.nodes[i].op.kind # "plugin" /\ ~g.nodes[i].op.saved))}

SameShape(g, s) ==
  /\ g.fingerprint = None \/ s.fingerprint = None \/ g.fingerprint = s.fingerprint
  /\ Len(g.nodes) = Len(s.node_states)
  /\ Len(g.outputs) = s.output_count

Loaded(g, s, n) ==
  [g EXCEPT !.nodes = [i \in DOMAIN @ |->
                         IF i <= n /\ Stateful(@[i]) THEN [@[i] EXCEPT !.state = s.node_states[i].state]
                         ELSE @[i]]]

Restored(g, s) ==
  [Loaded(g, s, Len(g.nodes)) EXCEPT !.records_seen = s.records_seen, !.min_warmup = s.min_warmup,
                                     !.store = <<>>]

WrongRestored(g, s) == [Loaded(g, s, Len(g.nodes)) EXCEPT !.store = <<>>]

-----------------------------------------------------------------------------
(* The machine.                                                            *)

Init ==
  /\ program \in Programs
  /\ graph = Build(program)
  /\ fed = <<>> /\ out = None /\ saved = None /\ restarts = 0

\* Bound of the model: a graph that begins anew after a restart is Init again.
Runs == fed # None /\ Len(fed) < MaxRecords /\ (restarts = 0 \/ graph # Build(program))

\* step_with_context: a record of the warm-up is counted and shown to no node.
Step ==
  /\ Runs
  /\ \E r \in Records :
       IF graph.records_seen + 1 < graph.min_warmup
       THEN /\ graph' = [graph EXCEPT !.records_seen = @ + 1]
            /\ out' = None
            /\ UNCHANGED fed
       ELSE /\ graph' = Evaluated(graph, r)
            /\ out' = Extract(graph'.store, graph.outputs)
            /\ fed' = Append(fed, r)
  /\ UNCHANGED <<program, saved, restarts>>

\* step_raw: not held up by the warm-up.
StepRaw ==
  /\ Runs
  /\ graph.records_seen + 1 < graph.min_warmup
  /\ \E r \in Records :
       /\ graph' = Evaluated(graph, r)
       /\ out' = Extract(graph'.store, graph.outputs)
       /\ fed' = Append(fed, r)
  /\ UNCHANGED <<program, saved, restarts>>

TakeSnapshot ==
  /\ fed # None /\ saved = None
  /\ Checkpointable(graph)
  /\ saved' = [shot |-> Snapshot(graph), program |-> program, fed |-> fed]
  /\ UNCHANGED <<program, graph, fed, out, restarts>>

\* The process is started again, perhaps with another program.
Restart ==
  /\ restarts < MaxRestarts
  /\ saved # None
  /\ \E p \in Programs :
       /\ p = program \/ (p.stamped /\ program.stamped)
       /\ program' = p
       /\ graph' = Build(p)
  /\ fed' = <<>> /\ out' = None /\ restarts' = restarts + 1
  /\ UNCHANGED saved

\* A state of the same operator always decodes.
Decodes(i) ==
  LET before == Build(saved.program).nodes
  IN  IF i \in DOMAIN before /\ before[i].op.f = graph.nodes[i].op.f THEN {TRUE} ELSE BOOLEAN

Restore ==
  /\ fed = <<>> /\ restarts > 0 /\ saved # None
  /\ graph = Build(program)
  /\ SameShape(graph, saved.shot)
  /\ \E loads \in [DOMAIN graph.nodes -> BOOLEAN] :
       /\ \A i \in DOMAIN loads : loads[i] \in Decodes(i)
       /\ LET rejects == Rejects(graph, saved.shot, LAMBDA i : loads[i])
              first   == CHOOSE i \in rejects : \A j \in rejects : i <= j
          IN  IF rejects = {}
              THEN /\ graph' = Restored(graph, saved.shot)
                   /\ fed' = saved.fed
              ELSE /\ graph' = Loaded(graph, saved.shot, first - 1)
                   /\ fed' = None
  /\ out' = None
  /\ UNCHANGED <<program, saved, restarts>>

Next == Step \/ StepRaw \/ TakeSnapshot \/ Restart \/ Restore

Spec == Init /\ [][Next]_vars

-----------------------------------------------------------------------------
(* What a program means: how it turns the series of records into a series  *)
(* of outputs, without stores, numbers of nodes or states that are kept.   *)

\* The state of a stateful closure after the first k of a series of arguments,
\* and its result on the k-th; a scan skips the arguments that are absent.
After(op, args, k) ==
  FoldLeft(LAMBDA acc, a :
             IF op.kind # "plugin" /\ \E j \in DOMAIN a : ~a[j].ok THEN <<acc[1], FirstAbsent(a)>>
             ELSE Call(op.f, <<acc[1]>> \o (IF op.kind = "plugin" THEN a ELSE Values(a))),
           <<op.init, Zero>>, SubSeq(args, 1, k))

BaseSeries(base, h) ==
  LET N[i \in 1..Len(base.nodes)] ==
        LET op   == base.nodes[i]
            args == [k \in DOMAIN h |-> [j \in DOMAIN op.inputs |-> N[op.inputs[j] + 1][k]]]
        IN  [k \in DOMAIN h |->
               IF Variant(op) = "stateless" THEN EvalNode(op, Zero, args[k], h[k])[2]
               ELSE After(op, args, k)[2]]
  IN  [k \in DOMAIN h |-> [j \in DOMAIN base.outputs |-> N[base.outputs[j] + 1][k]]]

OverSeries(series, c) ==
  [k \in DOMAIN series |->
     <<IF c.kind = "map" THEN Call(c.f, series[k])
       ELSE FoldLeft(LAMBDA acc, v : Call(c.f, <<acc>> \o v), c.init, SubSeq(series, 1, k))>>]

ProgramSeries(p, h) ==
  LET left  == FoldLeft(OverSeries, BaseSeries(p.left, h), p.over_left)
      right == FoldLeft(OverSeries, BaseSeries(p.right, h), p.over_right)
      both  == IF p.right = None THEN left ELSE [k \in DOMAIN h |-> left[k] \o right[k]]
  IN  FoldLeft(OverSeries, both, p.over)

OpsOf(p) == [i \in DOMAIN Build(p).nodes |-> Build(p).nodes[i].op]

(* A graph computes its program: what a step returns is what the program   *)
(* makes of the whole series of records its nodes have been shown, also in *)
(* a graph that was restored, whose series goes on where the snapshot was  *)
(* taken. A restore into another program is not accepted when nodes were   *)
(* added, removed, exchanged for another kind or wired otherwise.          *)
GraphsComputeTheirProgram ==
  /\ fed # None /\ out # None /\ (saved # None /\ restarts > 0 => saved.program = program) =>
       out = Last(ProgramSeries(program, fed))
  /\ fed # None /\ fed # <<>> /\ out = None =>
       \/ graph.records_seen < graph.min_warmup
       \/ graph.store = <<>>
  /\ saved # None /\ restarts > 0 /\ fed # None /\ fed # <<>> /\ graph.store = <<>> =>
       \* accepted just now
       /\ Len(OpsOf(program)) = Len(OpsOf(saved.program))
       /\ \A i \in DOMAIN OpsOf(program) :
            LET a == OpsOf(program)[i]  b == OpsOf(saved.program)[i]
            IN  a.kind = b.kind /\ a.inputs = b.inputs
=============================================================================
