# A TLA+ model of tflo

tflo is a Rust library for computations over event-time streams: graphs of
operators fed record by record, windows and detectors that need timers, a
pattern matcher for complex events (CEP), scripted filters, and the connectors
and stores around them. This directory models what decides whether a result is
right: the order of events and calls, what is kept between two of them, and
what failures and concurrent tasks do to it. TLC checks the models on small
instances, and TLAPS proves the reorder buffer, the CEP matcher, the keyed graph,
the checkpointer and five of the smaller components for every instance. Paths below
are those of the repository's crates; `PROJECT.json` gives the lines behind each
definition.

## The system

| Part | State | Operations | What is hard | What makes it correct |
|---|---|---|---|---|
| Reorder buffer (`tflo-core/src/reorder.rs`) | heap of records, frontier, greatest time seen, late list | step, advance_watermark, flush, take_late, next_release_clock | lateness at the boundary, ties, saturation, a stream that goes quiet | event-time order; each record released, held or late; nothing within the lateness window dropped |
| CEP matcher (`tflo-cep/src/engine.rs`) | partial matches in flight, drop counters, optional reorder buffer | push_at, tick, flush, reset, next_deadline | deadlines against events of the same instant, absence, repetition, the bound on partials, ticks against buffered events | the reported matches are those of the stream, whatever the ticks; one outcome for each opening |
| Pattern builders (`tflo-cep/src/pattern.rs`, `spec.rs`, `tflo-cep-wasm`) | steps, pending guards, deferred error | when, then, not_then, not_between, within, times, next, emit, compile | modifiers on the wrong step, an error in the middle | the compiled pattern means the calls, natively and in the browser |
| Keyed graph (`tflo-core/src/keyed.rs`, `compile/eval/mod.rs`, window operators of `tflo-ops`) | frontier, heap of buffered records, timers, operator state, output store | step under three out-of-order policies, advance_event_time_watermark, flush, take_late_records | timers between records, re-armed timers, watermarks over buffered records | each window emitted once, over the right records, in event-time order; each pulse judged |
| Timer service (`tflo-core/src/timer.rs`) | heap array with tombstones | register, delete, pop_due, drain_all, snapshot, restore | a tombstone among equal timers | each timer fires once unless deleted, in order |
| Keyed iterator and stream (`keyed.rs`, `async.rs`) | one keyed graph per key, ready queue | next, advance_event_time_watermark | one failing key, the order of the queue | flushed once; each answer is of its key's record |
| Graph compiler and evaluator (`tflo-core/src/compile`, `builder.rs`, `comp`) | nodes, their state, value store, compositions | compile, zip, map, fold, step, snapshot, restore, fingerprint | renumbered nodes, restore into another program | a graph computes its program, also after a restore |
| Windows, trackers, conditioning, detectors, indicators (`tflo-ops`, `tflo-fintech`) | buffers and running sums, previous values, automata | one sample | eviction at the boundary, sums never recomputed, NaN, absent inputs, state left from before | the value is the definition's, over the whole history |
| Checkpointer (`tflo-core/src/state.rs`) over a state and a cursor store (`tflo-state-files`) | consecutive failures, counters; snapshot and cursor of each key | commit, reset_circuit; save, load | crash between two writes, a timeout racing an answer, late writes, a breaker shared by keys | the cursor never ahead of the state; no event lost; every commit returns |
| Kafka connector (`tflo-connect-kafka`, `tflo-core/src/shard.rs`) | owned partitions, epoch, offsets | poll, apply_rebalance, commit_offset | rebalance against events in flight, asynchronous commits | an event passes the fence only under the ownership it was stamped under; an offset committed only over events that met their end |
| MQTT connector (`tflo-connect-mqtt`) | bounded window of packet ids | observe_qos2, to_bytes, from_bytes | eviction, reused ids, a cursor from before a crash | the window holds exactly the newest ids |
| Influx sink (`tflo-sink-influx`) | buffered lines, their age | push, flush, tick, drop | failing and cancelled writes, concurrent flushes | every line has one place or end; a quiet buffer is flushed |
| Deduplicator (`tflo-core/src/dedup.rs`) | cache, store | should_emit, mark_emitted | check then act, crash between the two | only what was emitted is suppressed; nothing known is repeated |
| Combinators and validation (`tflo-core/src/combinators`, `iter_ext.rs`, `validation`) | small buffers | next | eviction, equal times, refused records | equal to a definition over the whole input |
| Scripting (`tflo-cel`, `tflo-rhai`, `tflo-rego`) | loaded rules, a policy engine shared by filters, counters | next, load, clear, add_rule, evaluate | one engine, one input document, several threads; a load that fails half-way | each item has its own verdict, on the policies loaded then |
| S3 store, Arrow ingest, checkpoint policies, bindings, errors | none that interacts | | | |

A caller owns a graph or a matcher and calls it from one thread: within these
there is no concurrency, and the interleavings that matter are those of calls
(records, watermarks, ticks, flush). Several tasks share a checkpointer, a
batcher, a deduplicator, a shard router and a Rego engine; the first three wait
for a store or a server while the others go on. The CEP matcher contains a
reorder buffer; the keyed graph has its own copy of the same logic under the
policy `Buffer`; keyed graphs sit behind the keyed iterator; operators run as
nodes of a compiled graph; the WebAssembly bindings and the connectors drive
them.

## Modules

    EventTime       saturating i64 time          HeapOrder   heaps with a total order
        \_______________________  _________________/          (+ _proofs)
                                \/
    OrderedDelivery <---- ReorderBuffer <---- CepRuntime       PatternBuilder
          ^                (+ _proofs)          (INSTANCE,
          |                                      + _proofs <- CepMatching_proofs
       KeyedGraph                                          <- CepMeaning_proofs)
       (+ _proofs)                               Checkpoint (+ _proofs)

    Computed --> ComputeGraph <-- GraphPrograms
    Computed --> Windows --> Trackers --> Detectors --> Indicators
                  --> Operators --> OperatorMeaning <-- MCOperators

    HeapOrder --> TimerHeap
    Deduplicator  ShardFence  MqttCursor  TimerHeap  Batcher --> Services (+ _proofs)
    Services  KeyedIter  Combinators  PatternBuilder  ComputeGraph
    ScriptedStreams  RuleEngine  MCOperators                     --> MCEdges

Order and time:

* `OrderedDelivery` is the abstract specification: what a reordering stage
  promises its consumer. It knows the records that are held, delivered and
  refused, and the frontier. `ReorderBuffer` and `KeyedGraph` under `Buffer`
  both implement it (`ImplementsOrderedDelivery`).
* `HeapOrder` holds the order of heap entries and `PopOrder`, the sequence in
  which a heap of distinct entries is emptied. A `BinaryHeap` is modelled as
  the set of its entries. `HeapOrder_proofs` proves `PopOrder` right, and has what
  the proofs need of folds.
* `EventTime` has i64 time with narrower limits, `TimeMin` and `TimeMax`, and
  the saturating operations on it.
* `ReorderBuffer` has one action for each method. `pending`, `pending_seq`,
  `last_ts`, `max_ts_seen` and `late` are the struct's fields; `arrivals`,
  `released`, `dropped` and `flushed` are history.
* `KeyedGraph` is `KeyedGraphState` together with the timers, their firing and
  three operators. A sum is the set of the records in it, so that a property can
  say which records a window holds. `Spec` lets the caller do anything;
  `DrivenSpec` is the caller in `tflo-wasm/src/lib.rs` (`drive_tumbling`).
* `TimerHeap` is the timer service in detail: entries, tombstones, and a delete
  that may take any of several equal timers, as the heap's array order makes it.
  `KeyedGraph` uses the set of live timers it stands for. A pop and a drain empty
  the heap in `HeapOrder`'s order.
* `KeyedIter` puts many keys behind one iterator: the ready queue, the map of
  graphs walked in any order, the single flush, the watermark that stops at the
  first key that refuses it. Each key has a small graph of one timer.

Patterns:

* `CepRuntime` is `Runtime<E, M>`: matching is a chain of pure functions on
  `[flights, out, drops]` with the names of the methods (`AdvanceDeadlines`,
  `AdvancePartials`, `AdvanceOne`, `TryOpenNew`, `MatchOne`), and the actions
  `Push`, `Tick`, `Flush` and `Reset` apply them. An event is a model value, a
  predicate is evaluated by the constant `Evaluate`. The pattern is chosen in
  the initial state, so that one run covers several patterns. Declaratively,
  `MatchesOf` says what the matches of a stream are, without the engine.
* `PatternBuilder` makes each call on the native and on the browser's builder;
  the property gives the meaning of the list of calls and compares all three.

Graphs and operators:

* `Computed` has the numbers: exact rationals with NaN and the infinities, and
  the `Computed` results (a value, or the reason why there is none).
* `ComputeGraph` builds, composes, steps, snapshots and restores a graph; a
  node's closure is the constant `Call`. `GraphPrograms` has the programs.
* `Windows`, `Trackers`, `Detectors` and `Indicators` are the operators as
  functions from a state and a sample to a state and a value; `Operators` feeds
  one operator sample after sample and routes absent inputs around it.
  `OperatorMeaning` says what the value must be from the history alone, and
  `MCOperators` lists the instances that are tried.

Edges, one module each, with their tasks, failures and crashes:

* `Checkpoint` is `Checkpointer::commit` for keys that share a checkpointer.
  The state of a graph is the sequence of events applied to it, a cursor is how
  many events were consumed. A write is outstanding from the call until it lands
  or fails, so a crash, a timeout or another commit can come in between.
* `ShardFence`: the broker's rebalances and lost or overtaken offset commits, the
  router, and the consumer that stamps, checks, handles and commits.
* `Batcher`: tasks that push, flush and tick; the write is outstanding meanwhile
  and succeeds, fails, or is cancelled with its task.
* `Deduplicator`: tasks between should_emit, the sink and mark_emitted, over a
  store that may fail, or write and lose the answer.
* `MqttCursor`: a broker that numbers, repeats and reuses packet identifiers.
* `Combinators`: the adaptors and the validated iterator, one action for each item
  taken.
* `ScriptedStreams`: filters and maps by script; the threads of Rego filters
  interleave at set_input and eval_query, behind the mutex that holds both.
  `RuleEngine`: CEL's rules, their file, priorities and routers.

`Services` puts five of these side by side (deduplicator, shard fence, MQTT cursor,
timers, batcher): they share no variable, and `ServicesSpec` lets one of them take a
step at a time. It is there to be reasoned about: one module states their five
properties, and one module proves them.

`MC*` modules only give values to the constants. `MCEdges` extends `Services` and
holds the other components that do not interact, and `part` chooses the one that
runs: one run then asks them all, and what it costs is the sum of their state
spaces.

Definitions named `Wrong...` are faulty variants of the definition after them.
No specification uses them: each shows that some property notices that fault.

## Runs

| Run | Question | Bounds |
|---|---|---|
| `reorder_buffer` | is every order of arrivals, clock readings, flushes and drains of the late list delivered in order, with nothing lost, and does a quiet stream drain? | 4 records, 4 timestamps of which one is the least representable, lateness 2, every clock reading |
| `cep_matching` | are the reported matches those of the stream, whatever the ticks and, behind the reorder buffer, whatever the order of arrival? | 10 patterns (absence, adjacency, guards, correlation, repetition) and 4 over late and reordered events, 4 events, 4 instants, 2 partials in flight |
| `cep_ticks` | whatever the caller does: one outcome per opening, nothing overdue after a tick; and does a driver that sleeps until next_deadline resolve every wait? | 3 patterns (one a bounded repetition at the end), 2 events, a reset, ticks at 4 instants |
| `keyed_timers` | windows, verdicts, timers and order of emission under `Drop` and `Error`, with watermarks at any time | 4 records at 4 times, absent inputs, 3 watermarks; gap 2, bucket 3, pulses of 2 to 3 |
| `keyed_buffered` | the same under `Buffer` with the driver's watermarks: ordered delivery, each window emitted once, and all windows closed in the end | 4 records, lateness 2 |
| `checkpoint` | is recovery sound after any mixture of failures, timeouts and a crash, are the shared breaker and the counters right, and does every commit return? | 2 keys, 2 events each, 3 commits, 1 crash, threshold 1 |
| `edges` | does each of the smaller components do what its definition says? (table below) | see below |
| `cep_tick_over_buffer`, `keyed_watermark_over_buffer`, `keyed_two_outputs`, `checkpoint_late_write`, `graph_zip` | does the code do what its documentation says there? It does not: see the findings | smallest that shows it |

The properties of `edges`:

| Property | Component | What it says | Bounds |
|---|---|---|---|
| `AdaptorsMeanTheirDefinition` | `Combinators` | each adaptor returns what its definition over the whole input says, although it keeps little of it | every stream of up to 2 to 4 items (by adaptor) over 3 to 5 times, out of order too |
| `EveryLineAccountedFor`, `BufferedLinesAreFlushed` | `Batcher` | every line is buffered, in flight, written, failed with an error to its task, refused, or counted as dropped: one of these; a line leaves the buffer in the end | a pusher and the ticker, lines of size 1 and 2, flush at 4, at most 4 buffered, 3 pushes |
| `OnlyMarkedKeysAreSuppressed` | `Deduplicator` | what is suppressed reached the sink, a crash notwithstanding; what is emitted again was not marked when its check began | 2 tasks, 4 records, 2 keys, 1 crash |
| `RebalancesAreFenced` | `ShardFence` | an event passes the fence only under the ownership it was stamped under; the committed offset skips nothing, however commits are lost or reordered | 2 partitions of 2 events, 3 rebalances |
| `EachKeyGetsItsAnswers` | `KeyedIter` | each record is answered once, under its key, in order, and its timer fires once; an accepted watermark leaves nothing due | 2 keys, 3 records, 1 watermark, 3 policies |
| `EveryTimerFiresOnce` | `TimerHeap` | each time and node gets as many firings as registrations less deletes that met one, in order; nothing due is left | 2 nodes, 2 times, 3 timers |
| `WindowRecognisesRedeliveries` | `MqttCursor` | the window is exactly the newest identifiers told to be new, across a restart too | 3 identifiers, windows of 0 to 2 out of capacities 0 to 3, 4 messages, 1 crash |
| `GraphsComputeTheirProgram` | `ComputeGraph` | a step gives what the program means on the records so far, also after a restore, which refuses a snapshot if nodes were added, removed, rewired or changed kind | 8 programs, 3 records, 1 restart |
| `PatternsMeanTheirCalls` | `PatternBuilder` | both builders make what the calls mean, or both fail | every 3 calls and 96 documents |
| `ScriptsDecideAsLoaded` | `ScriptedStreams`, `RuleEngine` | an item's answer is its own verdict under the policies in force when it was evaluated, counters included: true, denied, undefined, which is denied and no error, or an error; rules are asked by priority and file order | 2 streams, 2 items, 2 changes of the policies; files of up to 3 rules, 2 items |
| `WindowsMeanTheirHistory`, `StateLooksBack`, `IndicatorsAreTheirFormula` | operators | each value is the definition's over the whole history of accepted samples | 177 instances, all series of 3 to 8 samples of a few values each, chosen per operator |

Why the bounds are enough. The heap orders pairs, so two records with a tie and
one that arrives late exercise it; four leave room for a release between two
arrivals. Four instants allow an event before, at and after a deadline of length
1 or 2. Four records make a window that is extended, closed and opened again,
with a late record. Two partials in flight make the bound of the matcher bite
on the third opening. A second crash only repeats the first: recovery forgets
all volatile state, and what it starts from is a pair of durable values that the
first crash already makes arbitrary. A batcher that is full after two lines
meets its limits with the third. Three rebalances take a partition away, give it
back, and disturb another one's events in flight. An operator with a window of
2 or 3 fills, evicts and refills within its series, and its values include
ties, zeros, both signs and, where the operator accepts them, NaN.

The bounds on arrivals, calls and crashes (`MaxArrivals`, `MaxCalls`,
`MaxCrashes`, `MaxEvents`, `MaxResets`, `MaxRecords`, `MaxPushes`, ...) are in
the guards. The runs of the core that reach them stop calling step, but never
deadlock: a watermark, a flush of an empty buffer, or a reset of the circuit
remains possible, as it is in the code. `edges` and `graph_zip` do not check
deadlock, because an iterator that is used up really stops.

## Fairness

* `ReorderBuffer!FairSpec` and `CepRuntime!FairSpec`: weak fairness of the
  driver's wake-up alone, at `next_release_clock` and just past
  `next_deadline`, which is what the two methods exist for. No record is assumed
  to arrive.
* `KeyedGraph!FairSpec`: the input of `drive_tumbling` is a finite slice, so its
  loop ends and flush is called.
* `Checkpoint!FairSpec`: weak fairness of the deadline's timer and of the
  restart of a process that has died. Nothing is assumed of the stores, which
  may never answer.
* `Batcher!Fairness` (`SinkFairness` in `MCEdges`): time passes, the task that
  calls tick goes on doing so, as the example in the documentation does from an
  interval timer, and the HTTP client answers that task, with success or an error.
  The sink bounds no write itself: if the client never answers, what it was given
  stays in flight. Nothing is assumed of those who push or flush.

## Findings

Each is shown by a run whose only property quotes the source.

* **A tick runs ahead of the reorder buffer** (`cep_tick_over_buffer`). `tick`
  releases up to `now - max_lateness` but sweeps deadlines at `now`. An absence
  is reported while the event that refutes it is in the buffer. Driving with
  ticks then differs from the batch run that the doc calls byte-identical.
* **A watermark runs ahead of the buffer** (`keyed_watermark_over_buffer`).
  `advance_event_time_watermark` fires timers and moves `last_ts` past buffered
  records; their items come out later with earlier times. The driver in
  `tflo-wasm` avoids this: its watermark never exceeds what step released, and
  `keyed_buffered` shows that this is enough.
* **Two timer outputs in one graph** (`keyed_two_outputs`). Every fire emits the
  stored outputs of all nodes, so when two timers fire in a row the second item
  repeats the first one's sum.
* **A save that outlives its deadline** (`checkpoint_late_write`). The file
  store's write runs on in the blocking pool; landing after a later commit, it
  takes the snapshot back behind the durable cursor. `checkpoint` shows that
  this is the only cause: without surviving writes the order is never reversed.
* **zip leaves the closures behind** (`graph_zip`). `zip` is said to
  offset all node ids of the right graph so that the two never collide, but a map
  or fold over that graph has its input ids in a closure, which keeps the old
  ones: it then reads nodes of the left graph.

Met while modelling, without a run of their own. The models follow the code in
each of these; where a property does not hold for such a case, the property or
its inputs say so.

*Matcher and builders.* `next_deadline` returns the last instant that is still
in time, so a driver that ticks exactly then makes no progress (the model's
driver wakes one later). A bounded terminal repetition that has its minimum is
dropped by a tick past its bound (`engine.rs:492-502`) and completed by flush
without one (`engine.rs:403-414`), although `engine.rs:432` says that "a
`tick`-driven run is byte-identical" to a batch one: the proof that it is (see
`TicksAreSafe` below) excludes such patterns, and of the runs only `cep_ticks` has
one. `reset` does not clear the reorder buffer. A `not_between`
guard that no `then` follows is silently lost; a second `when` replaces the
first step with its modifiers; a pattern without `when` is accepted if it has any
step, unlike what the browser's documentation says. Automatic step names differ
between the two builders after a named step.

*Keyed graph and timers.* An error in the middle of a drain discards what the
same call has released (`keyed.rs:335`); no node of the models returns one.
`last_ts` is also moved by records, so the iterator's watermark fails at the
first key that is ahead of it and the keys behind it in the map do not see it.
`delete` takes the first match in heap array order, not the earliest registered.
The timers are not part of the graph's snapshot, although `timer.rs:19` says so.
`next_bucket_edge` and `batch` round toward zero before the epoch and merge two
buckets there; the runs use times from zero on. The module doc of the session and
tumbling sums (`session_tumbling.rs:9-12`) puts a bucket's edge at `ceil(ts/size)*size`,
so that a record on an edge ends its bucket, and has a tumbling sum re-register for the
next edge when it fires. The function's doc (`:150-151`), the code and its test
(`:361-366`) put that record into the bucket it begins, and it is the next record that
registers the next timer. `WindowsSplitTheRecords` states the latter.

*Graphs.* The fingerprint prints a plugin as its inputs only, so exchanging two
plugins on the same inputs keeps it; a fold over a graph is not in its snapshot;
a restore that fails half-way leaves the earlier nodes loaded; a plugin's saved
bytes include its configuration, so a restore brings back old window sizes.

*Operators.* Sums are poisoned for ever by one NaN where order statistics
recover, and variance, deviation and z-score read 0 from then on. The time EMA's
comment speaks of a half-life, its factor is `1 - e^(-dt/halflife)`, and a late
sample takes its `last_ts` back. `PrevByTracker::delta` inserts keys past
`max_keys`. The baseline corrector may remove the wrong element when it meets a
NaN. A lag buffer of 10000 entries forgets a value that is still within its lag.
`trackers.rs:10-11` says of every tracker derivative that `dt <= 0` yields
`ZeroTimeDelta`; acceleration yields `WarmingUp` there, since it asks for a velocity first
and gets none (`trackers.rs:175-186`), and its own `ZeroTimeDelta` branch is never
taken. `StateLooksBack` states the code's answer; nothing tells a caller that time
stood still from a tracker still warming up. Some nodes return a NaN as a value (trackers, ATR with period 0, stochastic %K on
a flat range); MACD with a fast period above the slow one never has a value.

*Edges.* The snapshot written before a crash is not the orphan that
`state.rs` describes: there is one snapshot per key, so recovery loads the new one
and applies the events since the old cursor twice; at-least-once (`NoEventLost`)
holds all the same. A failed write of the batcher loses its lines without
counting them, and `flush_at` above the buffer's bound without ticks wedges it.
`compose_key` of the deduplicator maps different keys to one string and there is
no window. The MQTT window keeps completed identifiers: with the default size,
larger than the number of identifiers, every reuse is suppressed for ever. The
epoch fence also drops events in flight of partitions that stay owned; rebalances
reach the router through a channel, so a revoke is not synchronous. The validated
iterator refuses everything after one gap above `max_gap`.

*Scripts.* A rule's `enabled` is never read. `add_rule` appends behind the sorted
rules whatever its priority. A policy directory that fails at one file keeps the
files loaded before it. A Rego query that no policy decides is a denial and no error: the
result set is empty and `extract_bool` makes it `Ok(false)` (`value_codec.rs:80-87`,
as `filter.rs:431-435` says), so that filters whose policies were cleared refuse every
item without counting one error. The models take the engine's answer to be the empty set there;
if regorus, which is not part of the repository, answered with an `Undefined` in
it, that would become a null (`value_codec.rs:46`) and count as an error.

## Proofs

`ReorderBuffer_proofs` proves the buffer for every set of timestamps and clock
readings, every lateness and every number of arrivals, from `TimeAssumption` and
`ReorderAssumption` (timestamps, clocks and limits are times, and the limits of
time are around zero) alone:

| Theorem | Statement |
|---|---|
| `TypeCorrect` | `Spec => []TypeOK` |
| `ReleasesInOrder` | `Spec => []InEventTimeOrder` |
| `NothingLostOrRepeated` | `Spec => []EveryRecordAccountedFor` |
| `AgedRecordsLeave` | `Spec => []HeapWithinWindow` |
| `LatenessIsHonoured` | `Spec => LatenessHonoured` |
| `Implementation` | `Spec => ImplementsOrderedDelivery` |

`InEventTimeOrder` is not inductive: nothing in it says that what is still in the
heap comes after what has been released. `OrderInv` says besides that the frontier
is the time of the last record released (`Frontier`), that everything in the heap
comes after everything released (`AheadOfFrontier`), that sequence numbers are
distinct and below the counter, and that they follow the arrivals. A step then
releases a prefix of the heap's order, and what it leaves is greater. The one fact
about sequences this needs is `PopOrderCorrect` in `HeapOrder_proofs`: popping a
finite heap of distinct entries yields each of them once, in order. It is proved
by showing that `Rank` is a bijection to `1 .. Cardinality(S)`. `AccountInv` adds
that the arrivals are split between the records known to the buffer and those
dropped; with it each step maps to a step of `OrderedDelivery`, or to none.
`WindowInv` adds that until a flush the frontier is at most the watermark of the
greatest time seen: a record behind the frontier is then behind the window, and
where the subtraction saturates no record can be behind it.

`KeyedGraph_proofs` proves the execution of a graph for one key, for every set of
setups (graphs of any number of the three timer operators, policies, latenesses),
every gap, bucket size and range of widths, and every set of timestamps and
watermarks, from `TimeAssumption` and `KeyedAssumption`:

| Theorem | Statement | If |
|---|---|---|
| `TypeCorrect` | `Spec => []TypeOK` | |
| `WindowsKeepTheirTimers` | `Spec => []TimersFollowTheWindows` | the gap is not zero and no record bears the last instant of time |
| `TimersNeverLag` | `Spec => []TimersKeepUp` | |
| `WindowsAreEmittedOnce` | `Spec => []OneEmissionPerWindow` | each graph has one node |
| `DrivenEmissionsAreOrdered` | `DrivenSpec => []EmissionsInEventTimeOrder` | |
| `UnbufferedEmissionsAreOrdered` | `Spec => []EmissionsInEventTimeOrder` | no setup has a buffer |
| `GraphSeesAnOrderedDelivery` | `DrivenSpec => ImplementsOrderedDelivery` | a `Buffer` policy has a lateness the code accepts |
| `WindowsAreRight` | `DrivenSpec => []WindowsSplitTheRecords` | where `tumbling_sum` runs: no timestamp is before 0, no bucket edge saturates |
| `UnbufferedWindowsAreRight` | `Spec => []WindowsSplitTheRecords` | the same, and no setup has a buffer |
| `PulsesAreRight` | `DrivenSpec => []PulsesAreJudged` | where `pulse_width` runs: it is the only node, no deadline saturates |
| `UnbufferedPulsesAreRight` | `Spec => []PulsesAreJudged` | the same, and no setup has a buffer |

Each condition marks a place where the code behaves otherwise. A session with gap
zero, or one opened at the last instant, sets a timer that is due at the time of its
own record, so that the timer is at the frontier and not beyond it; `TimersNeverLag`
says what remains true then. `keyed_two_outputs` violates the fourth with two
nodes, and `keyed_watermark_over_buffer` the order of items under `Buffer` with
watermarks of the caller's choice. With a lateness out of range `step` refuses every
record, timely ones too, which no ordered delivery may do. Before 0 the bucket number
is rounded toward zero, so that two of the documented buckets become one, and where an
edge or a deadline saturates a timer fires before its window ends. A second node would
repeat a verdict, as `keyed_two_outputs` shows for sums. `keyed_timers` runs
`WindowsSplitTheRecords` and `PulsesAreJudged` under `Spec` without a buffer, the case
of the `Unbuffered` theorems. Besides, `OutputAssumption` says that the model value
`None` is neither a sum nor a verdict.

The proof has three parts. The first is about the pure functions on the graph's state,
without a word about behaviours: `Evaluates` says what evaluating one node may do,
with a lemma for each operator; `Fires`, `Emits` and `RanTo` say what the folds over
due timers, over nodes and over records do. These folds are the community modules'
`FoldLeft`, whose definition is a recursive function over sets of indices: the
section on folds in `HeapOrder_proofs` shows that this function exists and takes the
elements one at a time in order (`FoldExists`, `FirstNumbers`), by least-number
arguments (`LeastNumber`, `CountUp`) in place of an induction theorem that takes an
operator.

The second part carries invariants through the operations. `GraphInv` says that the
state is `Consistent` (an open node has exactly one timer, with the fire time the node
waits for; sequence numbers of timers are distinct; an open pulse has its start), that
no timer is behind the frontier, and that the reorder buffer is numbered. It has to
hold inside an operation too, between two records of a drain, hence it is stated of
the graph's state and not of the variables alone. `OnceInv` adds that the records in
the buffer are not those already run and that every sum, emitted or open, holds only
records that were run, none shared with another sum. `OrderInv` adds that items are in
order up to the frontier and that what is buffered is neither behind the frontier nor
due: that a caller's watermark may break the second part, and nothing else does, is
why the order is proved for the driver or without a buffer. `DeliverInv` adds what the
refinement needs: everything handed to the graph is earlier, by time and arrival, than
everything held.

The third part, for windows and pulses, says what the state of a node tells of the
records run so far (`Told`). `Splits` does so for a sum: the open window is the
newest of the sessions or buckets of the records and its timer is where that one
ends; while none is open no window reaches past the frontier; every other window has
been emitted; and an emitted sum is `Final`, a window that no record can join any
more, first emitted where it ends. The property alone is not inductive, it does not
know where the open window ends. `Judged` does the same for a pulse: the open one
began with a high record, has had no low one, and its timer is the width past its
start. The windows are defined on the indices of the sequence of records (`Starts`,
`Part`, `Window`), so that one more record changes them by a lemma for each case
(`WindowsSkip`, `WindowsStart`, `WindowsJoin`) and no induction over the records is
needed. Then come the item of a record, the item of a timer and the close of a
window (`RecordSplits`, `TickSplits`, `CloseSplits`, and the same for verdicts), the
folds again, and `TellInv`, which puts it on top of `OrderInv` and `OnceInv` with
the frontier at the end of time once flush has run. That records come in order,
which `OrderInv` gives for the driver or without a buffer, is what makes a window
once closed stay closed. `Buckets` shows at the end that the windows of
`tumbling_sum`, which `Starts` cuts where a record reaches the end of an earlier
one, are the multiples of the bucket size.

`Checkpoint_proofs` proves for every number of keys, events, calls and crashes,
from `CheckpointAssumption` alone:

| Theorem | Statement | If |
|---|---|---|
| `TypeCorrect` | `Spec => []TypeOK` | |
| `BreakerHolds` | `Spec => []BreakerLimitsFailures` | |
| `FailuresAreCounted` | `Spec => []FailuresCountedOnce` | |
| `RecoveryIsSound` | `Spec => []CursorNeverAheadOfState` | no write of a snapshot survives its timeout |
| `ProcessingIsAtLeastOnce` | `Spec => []NoEventLost` | no write of a snapshot survives its timeout |
| `ProgressIsKept` | `Spec => DurableProgressIsKept` | no write survives its timeout |

The conditions are the right ones: `checkpoint_late_write` violates the fourth
without it, and a cursor write that survives may land after a later one. The
invariant `RecoveryInv` speaks of the cursors that a key *claims*, those durable
and those being written: each is covered by the durable snapshot and is at most
the cursor of the commit that is running, so a snapshot that replaces the durable
one covers it too. That a snapshot being written belongs to a running commit, and
is durable when it is no longer being written, ties the two legs together; it is
what fails when a write survives. Failures are counted as a set of calls: a call
that has failed is not running any more and its number is not given out again, so
no call is counted twice.

`CepRuntime_proofs` proves the matcher for every set of patterns (whatever their
number of steps, windows, guards and repetitions), every predicate, event, lateness,
capacity of the in-flight set and number of calls, with and without the reorder
buffer, from `TimeAssumption` and `CepAssumption`. The latter says of a pattern what
the builder enforces: it has a step, a repetition has `1 <= min <= max`, and only the
last step may be an absence, since only `not_then` makes one, it ends the pattern.

| Theorem | Statement |
|---|---|
| `EachOpeningHasOneOutcome` | `Spec => []OneOutcomePerOpening` |
| `TicksSweep` | `Spec => TickLeavesNothingOverdue` |
| `CepMatching_proofs`: `DrivenRunsAreBatchRuns` | `Spec => [](TicksAreSafe => DrivenRunEqualsBatchRun)` |
| `CepMeaning_proofs`: `UntickedRunEmitsTheMatches` | `Spec => [](~runtime.ticked => EmitsExactlyTheMatches)` |
| `CepMeaning_proofs`: `TickedRunInTimeOrderEmitsTheMatches` | `Spec => [](~Reordering /\ InOrder => EmitsExactlyTheMatches)` |

`OneOutcomePerOpening` is not inductive: it does not say that a partial was opened by
an event the matcher has seen, so the next event could be one that is open already,
nor that the events seen are distinct, so "the order they were opened in" could mean
nothing. `CepInv` keeps an account (`Accounts`) over the events matched so far: every
match and every partial in flight opens with one of them, no two of these with the
same, and the partials are in the order in which these events came. The proof follows
the code from the inside out. `AdvanceOneType` says what one partial makes of one event:
it keeps its first capture and, if it stays, waits for a step that is still there. A
sweep (`advance_deadlines`, `advance_partials`, the end in `flush`) keeps some partials
in their order and turns others into matches; that this keeps the account is shown
once (`SettlesAccounts`), and each sweep is an instance of it. An event then adds at most
one opening, its own (`try_open_new`), and the events of a call are a fold over that.
That these events are distinct is the reorder buffer's doing: `CepRuntime_proofs` takes
`ReorderBuffer_proofs` by INSTANCE, shows that the matcher drives the buffer only
through its operations, and has the events matched follow the records released,
which `Buf!OrderInv` keeps apart. `TicksSweep` rests on the last sweep of a tick,
which also meets the partials that the tick's own releases have opened.

The other three theorems say what the matcher finds, not only that it keeps its books,
and they hold of every state: what counts is what would have been found if the stream
ended there.

`CepMatching_proofs` compares the runtime with a batch run: one pass over the
accepted events in event-time order, and a flush. `TicksAreSafe` says that if the
runtime is driven by ticks at all, then it has no reorder buffer, its ticks and events
do not go back in time, and its pattern does not end in a bounded repetition. The
first is what `cep_tick_over_buffer` shows to be needed, the last is the divergence
described under the findings. A runtime without ticks meets it always, in whatever
order its records arrive. A tick sweeps deadlines before the event at which the batch
run would: so the invariant `DrivenInv` says that the runtime is what the batch run
over the events matched becomes when its deadlines are swept up to some time that has
passed (`LikeBatch`), and after flush that it has found the same (`ClosedLikeBatch`).
`Mirrors` says that two states have the same partials, matches and count of evicted
ones. Everything rests on three lemmas about sweeps: two sweeps are one at the later
time (`SweepTwice`), an event does the same to a state and to that state swept no
later than the event (`MatchAfterSweep`), and so does the flush, unless the pattern ends in a
bounded repetition (`ConcludeAfterSweep`).

`CepMeaning_proofs` compares the batch run with `MatchesOf`, which says without any
engine what a match is: positions in the stream, each the first that decides its step,
within the time of its step, with nothing forbidden in between. A path is such a tuple
up to some step. It *awaits* the next step as long as no event has decided it,
*ends* in a match, or *fails*: an event decided against it, or its time is over.
`Faithful` is what the batch run keeps event by event: each partial is a path that
awaits its step (`Tracks`), each match reported is one of the stream, and every opening
event is evicted, underway, reported, or the first of a path that failed. As the steps
of an opening's path are determined one by one, it has at most one path to a match
(`OneMatch`), and so a match that is not reported is one of an evicted opening, which
`MaxInFlight` counted (`MissedIsEvicted`). The flush ends the partials that await an absence.
`DrivenRunsAreBatchRuns` carries all this over to driven runs. The property is about
patterns whose steps do not repeat and a runtime that was not reset. It is a theorem of
every run without ticks, with or without the reorder buffer and in any order of arrival,
and of every run, ticked or not, that has no buffer and whose times never go back. For the runs in
between, ticks over a reorder buffer or among times that go back, it is not proved,
and with a buffer it is false: `cep_tick_over_buffer` is a run in which an absence
is reported that the stream does not have.

`Services_proofs` proves five of the components behind `MCEdges`; the run `edges`
checks the same formulas of their instances, under the same names:

| Theorem | Statement | If |
|---|---|---|
| `DeduplicationIsSound` | `ServicesSpec => []OnlyMarkedKeysAreSuppressed` | |
| `FencingIsSound` | `ServicesSpec => RebalancesAreFenced` | |
| `WindowIsExact` | `ServicesSpec => []WindowRecognisesRedeliveries` | capacities are natural numbers |
| `TimersFireOnce` | `ServicesSpec => []EveryTimerFiresOnce` | times are integers |
| `LinesAreAccountedFor` | `ServicesSpec => []EveryLineAccountedFor` | sizes and the buffer's bound are natural numbers |

They hold for every number of tasks, keys, partitions, identifiers, timers, lines,
rebalances and crashes. The conditions are the types of the code's fields. Each
component has an invariant of its own, kept by its own steps, and the other
components' steps leave its variables alone.

The deduplicator's invariant is that marks follow the sink and that no marker is taken
back: what a check read before it waited for the store is still true when it returns.
The fence's is that a stamp with the present epoch tells the present tenure, and that
all offsets before a position, a commit or an acknowledgement under way have met their
end. The MQTT window is the end of the sequence of new identifiers, and so is the one
in the saved cursor, each for its own past.

The timers' invariant is a ledger for each time and node: what is in the heap without
its tombstones, plus what has fired, is what is owed, which counts registrations less
the deletes that met one. A snapshot has the same ledger for its own past, since a
restore goes back to it. What a pop may fire next follows what has fired before, and
that `pop_due` meets the entries in order is `PopOrderCorrect`.

The batcher's invariant says of each line that it has one place or end, and that the
buffer's size is the sum of its lines. Sums are folds over a set, in an order
nobody knows: `SumExists` shows that the fold's function exists and takes elements one
at a time, and `TotalIsSum` that any order gives the same total, by counting up
(`CountUp`), so that the lines a flush takes away and those that stay add up to what
was there.

Only model-checked:

* liveness (`QuietStreamDrains`, `NoBoundedWaitForever`, `EveryEventReachesTheMatcher`,
  `OpenWindowsClose`, `EveryCommitReturns`, `BufferedLinesAreFlushed`), which is beyond
  the prover;
* bounded repetitions under ticks, which `cep_ticks` runs, and of which
  `DrivenRunEqualsBatchRun` is false;
* `KeyedIter`, for which no proof has been written;
* the remaining modules behind `MCEdges`: `Combinators`, `ComputeGraph`,
  `PatternBuilder`, `ScriptedStreams`, `RuleEngine` and the operators, whose properties
  compare functions that are recursive over the data, which would take induction
  over it.

`Checkpoint!TypeOK` and `KeyedGraph!TypeOK` are proved and not in a run's list of
properties.

## Not modelled

* Rounding of floating point: `Computed` is exact, so sums that drift by rounding,
  and comparisons with a tolerance, are outside. A statistic that takes a square
  root (deviation, skewness, correlation) is given by its signed square.
* Formatting and parsing: line protocol, Arrow columns, JSON snapshots, hex file
  and object names, the text of scripts. The interpreters of CEL, Rhai and Rego
  are third-party; what a script says of an item is an input.
* Network and disk below the stores' interfaces: the S3 store has one object per
  key with replace semantics, which is the store `Checkpoint` assumes; the Kafka
  cursor store keeps a cursor in a compacted topic.
* `CheckpointPolicy` decides when a caller commits; in `Checkpoint` a commit is
  possible at any time. The synchronous checkpointer of `keyed.rs` runs the same
  two writes without a deadline.
* The bindings' marshalling, and accessors, builders and type-level plumbing
  (`Signal`, error types, the extension traits that only construct a node).
* In `KeyedGraph` a graph consists of timer operators side by side: nodes without
  timers neither hold nor move time, and they are in `ComputeGraph` and
  `Operators`. No node returns an error in the middle of a drain.
* Where several types repeat one algorithm (a window by time and by count, a node
  for each arity, the strict form of each adaptor, the tracker with a timestamp)
  one definition stands for all of them and the map names the lines of one. Over
  half of the repository's lines are tests, documentation and examples.

## Plan

Done: the core (`ReorderBuffer`, `CepRuntime`, `KeyedGraph`, `Checkpoint`) and its
proofs, among them that the matcher finds what its pattern means, and the components
around it, five of them proved. Left, in this order:

1. That the reordering inside `CepRuntime` implements `OrderedDelivery` too, and type
   correctness of the variables that `CepInv` says nothing of (`resets`).
2. `KeyedIter`'s account of answers for any number of keys, and that `TimerHeap`
   implements the set of timers `KeyedGraph` uses.
3. A pipeline from consumer to durable state: `ShardFence` composed with
   `Checkpoint`.
