----------------------------- MODULE CepRuntime -----------------------------
(***************************************************************************)
(* The streaming pattern matcher, tflo-cep/src/engine.rs: Runtime.         *)
(*                                                                         *)
(* A pattern is a sequence of steps. An event that satisfies the first     *)
(* (when) step opens a partial match; every later event is offered to each *)
(* partial in flight, which captures it, skips it, dies or completes. The  *)
(* wait for a step may be bounded in event time: past that deadline a      *)
(* negative (not_then) step succeeds and a positive one is abandoned. Time *)
(* passes with the events and with tick.                                   *)
(*                                                                         *)
(* The optional reorder buffer in front of the matcher is ReorderBuffer.   *)
(* Names and the emit callback are left out: a match is the sequence of    *)
(* captured events. A step without repeated(..) is a repeat of 1 to 1,     *)
(* which the engine treats alike.                                          *)
(***************************************************************************)
EXTENDS EventTime, SequencesExt

CONSTANTS
  Timestamps, Clocks, RequestedLateness, MAX_LATENESS_MS, MaxArrivals,
  Runtimes,          \* the runtimes that are tried, see below
  Evaluate(_, _, _), \* predicate, event, events captured so far
  MAX_IN_FLIGHT,
  MaxResets          \* bound of the model on the calls of reset

\* What the pattern builder makes of a step: 1 <= min <= max (RepeatSpec). It lets
\* only the last step be negative (NotThenNotTerminal).
IsStep(step) ==
  /\ step.within \in Time \cup {None}
  /\ step.negative \in BOOLEAN /\ step.next \in BOOLEAN
  /\ step.min \in Nat /\ step.max \in Nat
  /\ 1 <= step.min /\ step.min <= step.max

ASSUME CepAssumption ==
  /\ Timestamps \subseteq Time
  /\ Clocks \subseteq Time
  /\ RequestedLateness \in Time
  /\ MAX_LATENESS_MS \in Time /\ MAX_LATENESS_MS >= 0
  /\ MaxArrivals \in Nat /\ MaxResets \in Nat
  /\ MAX_IN_FLIGHT \in Nat \ {0}
  /\ \A r \in Runtimes :
       /\ r.pattern # <<>> /\ r.pattern \in Seq(Range(r.pattern))
       /\ \A k \in DOMAIN r.pattern :
            IsStep(r.pattern[k]) /\ (r.pattern[k].negative => k = Len(r.pattern))

VARIABLES
  runtime,    \* the runtime and how it is driven; chosen once
  in_flight,  \* the partial matches, oldest first
  drops,      \* the drop counter, by DropReason
  emitted,    \* history: every match returned so far, in order
  log,        \* history: the events pushed, in arrival order
  matched,    \* history: the events match_one has seen, in that order
  now,        \* history: the time argument of the latest call
  resets,     \* history: the number of calls of reset
  \* the reorder buffer (see ReorderBuffer)
  pending, pending_seq, last_ts, max_ts_seen, late,
  arrivals, released, dropped, flushed

Buffer == INSTANCE ReorderBuffer

pattern == runtime.pattern        \* compiled.steps: a sequence of Step records
Reordering == runtime.reordering  \* with_reorder(RequestedLateness) was called
InOrder == runtime.inOrder        \* the caller's times never go backwards
Events == runtime.events          \* the payloads it may push

engineVars == <<runtime, in_flight, drops, emitted>>
callVars == <<log, matched, now, resets>>
bufferVars == <<pending, pending_seq, last_ts, max_ts_seen, late>>
streamVars == <<arrivals, released, dropped, flushed>>
vars == <<engineVars, callVars, bufferVars, streamVars>>

DropReason == {"MaxInFlight", "Deadline", "Late"}

Init ==
  /\ runtime \in Runtimes
  /\ in_flight = <<>>
  /\ drops = [r \in DropReason |-> 0]
  /\ emitted = <<>>
  /\ log = <<>> /\ matched = <<>> /\ now = TimeMin /\ resets = 0
  /\ Buffer!Init

-----------------------------------------------------------------------------
(* The matcher: pure functions on [flights, out, drops]. An event is a     *)
(* record [ev, ts, rec].                                                   *)

Holds(p, e, captures) == Evaluate(p, e.ev, [i \in DOMAIN captures |-> captures[i].ev])

Awaited(pm) == pattern[pm.next]

Satisfies(pm, e) == Holds(Awaited(pm).pred, e, pm.captures)

Forbids(pm, e) == Awaited(pm).forbidden # None /\ Holds(Awaited(pm).forbidden, e, pm.captures)

NextDeadlineFor(k, ts) ==
  IF k > Len(pattern) \/ pattern[k].within = None THEN None
  ELSE SatAdd(ts, pattern[k].within)

Expired(pm, ts) == pm.deadline # None /\ ts > pm.deadline

\* The elements of s at the positions in T, in their order.
Picked(s, T) ==
  LET n == Cardinality(T)
      p == CHOOSE p \in [1 .. n -> T] : \A j, k \in 1 .. n : j < k => p[j] < p[k]
  IN  [k \in 1 .. n |-> s[p[k]]]

Captures(partials) == [i \in DOMAIN partials |-> partials[i].captures]

Overdue(st, ts) == {i \in DOMAIN st.flights : Expired(st.flights[i], ts)}
Firing(st, ts) == {i \in Overdue(st, ts) : Awaited(st.flights[i]).negative}

WrongAdvanceDeadlines(st, ts) ==
  [st EXCEPT !.out = @ \o Captures(Picked(st.flights, Firing(st, ts)))]

AdvanceDeadlines(st, ts) ==
  LET lost == Overdue(st, ts) \ Firing(st, ts)
  IN  [flights |-> Picked(st.flights, DOMAIN st.flights \ Overdue(st, ts)),
       out     |-> st.out \o Captures(Picked(st.flights, Firing(st, ts))),
       drops   |-> [st.drops EXCEPT !["Deadline"] = @ + Cardinality(lost)]]

AdvanceStep(pm, ts) ==
  [pm EXCEPT !.next = @ + 1, !.count = 0, !.deadline = NextDeadlineFor(pm.next + 1, ts)]

Completed(pm) == pm.next > Len(pattern)

Disposed(disposition, pm) == [disposition |-> disposition, pm |-> pm]

KeepOrComplete(pm) == Disposed(IF Completed(pm) THEN "Complete" ELSE "Keep", pm)

\* A repetition that has its minimum ends at the first event it does not match.
EndsRepetition(pm, e) ==
  /\ ~Awaited(pm).negative
  /\ ~Satisfies(pm, e) /\ ~Forbids(pm, e)
  /\ pm.count >= Awaited(pm).min

\* One pass of the loop in advance_one that does not end a repetition.
Offer(pm, e) ==
  LET step     == Awaited(pm)
      captured == [pm EXCEPT !.captures = Append(@, e), !.count = @ + 1]
  IN  CASE step.negative ->
             Disposed(IF Satisfies(pm, e) THEN "Remove" ELSE "Keep", pm)
        [] ~step.negative /\ Satisfies(pm, e) ->
             IF captured.count >= step.max THEN KeepOrComplete(AdvanceStep(captured, e.ts))
             ELSE Disposed("Keep", captured)
        [] OTHER ->
             Disposed(IF Forbids(pm, e) \/ step.next THEN "Remove" ELSE "Keep", pm)

\* The event that ends a repetition is offered to the following step as well.
AdvanceOne(pm, e) ==
  IF ~EndsRepetition(pm, e) THEN Offer(pm, e)
  ELSE LET onward == AdvanceStep(pm, e.ts)
       IN  IF Completed(onward) THEN Disposed("Complete", onward) ELSE Offer(onward, e)

\* Partials are visited youngest first; those that stay keep their places.
AdvancePartials(st, e) ==
  LET results    == [i \in DOMAIN st.flights |-> AdvanceOne(st.flights[i], e)]
      advanced   == [i \in DOMAIN results |-> results[i].pm]
      Meeting(d) == {i \in DOMAIN results : results[i].disposition = d}
  IN  [flights |-> Picked(advanced, Meeting("Keep")),
       out     |-> st.out \o Captures(Reverse(Picked(advanced, Meeting("Complete")))),
       drops   |-> st.drops]

NewPartial(e) ==
  [captures |-> <<e>>, next |-> 2, deadline |-> NextDeadlineFor(2, e.ts), count |-> 0]

TryOpenNew(st, e) ==
  IF ~Holds(pattern[1].pred, e, <<>>) THEN st
  ELSE IF Len(pattern) = 1 THEN [st EXCEPT !.out = Append(@, <<e>>)]
  ELSE IF Len(st.flights) < MAX_IN_FLIGHT
       THEN [st EXCEPT !.flights = Append(@, NewPartial(e))]
  ELSE [flights |-> Append(Tail(st.flights), NewPartial(e)),
        out     |-> st.out,
        drops   |-> [st.drops EXCEPT !["MaxInFlight"] = @ + 1]]

WrongMatchOneOpensFirst(st, e) ==
  AdvancePartials(TryOpenNew(AdvanceDeadlines(st, e.ts), e), e)

MatchOne(st, e) == TryOpenNew(AdvancePartials(AdvanceDeadlines(st, e.ts), e), e)

\* The function has TLC evaluate each state once.
MatchAll(st, events) ==
  FoldLeft(LAMBDA s, e : [x \in {s} |-> MatchOne(x, e)][s], st, events)

\* At end of stream a pending negative succeeds, and so does a last repetition
\* that has its minimum.
ConcludesAtEnd(pm) ==
  \/ Awaited(pm).negative
  \/ pm.next = Len(pattern) /\ pm.count >= Awaited(pm).min

Conclude(st) ==
  LET done == {i \in DOMAIN st.flights : ConcludesAtEnd(st.flights[i])}
  IN  [flights |-> Picked(st.flights, DOMAIN st.flights \ done),
       out     |-> st.out \o Captures(Picked(st.flights, done)),
       drops   |-> st.drops]

-----------------------------------------------------------------------------
(* The runtime's operations. *)

Matcher == [flights |-> in_flight, out |-> <<>>, drops |-> drops]

\* The call leaves the matcher in st and returns st.out.
Becomes(st) ==
  /\ in_flight' = st.flights
  /\ emitted' = emitted \o st.out
  /\ drops' = st.drops
  /\ UNCHANGED runtime

EventAt(events, e) == [ev |-> events[e.rec], ts |-> e.ts, rec |-> e.rec]

EventsAt(events, entries) == [i \in DOMAIN entries |-> EventAt(events, entries[i])]

\* What a call of the reorder buffer returns.
JustReleased == SubSeq(released', Len(released) + 1, Len(released'))

At(t) ==
  /\ now' = t
  /\ InOrder => now <= t

\* push_at without a reorder buffer.
PushDirect(ev, ts) ==
  /\ ~Reordering
  /\ arrivals < MaxArrivals /\ ~flushed
  /\ arrivals' = arrivals + 1
  /\ At(ts)
  /\ log' = Append(log, ev)
  /\ LET e == [ev |-> ev, ts |-> ts, rec |-> arrivals + 1]
     IN  /\ Becomes(MatchOne(Matcher, e))
         /\ matched' = Append(matched, e)
  /\ UNCHANGED <<resets, bufferVars, released, dropped, flushed>>

\* push_at with one: the event releases itself and others, or is too late.
PushReordered(ev, ts) ==
  /\ Reordering
  /\ ~flushed
  /\ Buffer!StepBuffered(ts)
  /\ At(ts)
  /\ log' = Append(log, ev)
  /\ LET events == EventsAt(log', JustReleased)
     IN  /\ Becomes(MatchAll(Matcher, events))
         /\ matched' = matched \o events
  /\ UNCHANGED resets

PushLate(ev, ts) ==
  /\ Reordering
  /\ ~flushed
  /\ Buffer!Divert(ts)
  /\ late' = <<>>
  /\ At(ts)
  /\ log' = Append(log, ev)
  /\ drops' = [drops EXCEPT !["Late"] = @ + 1]
  /\ UNCHANGED <<runtime, in_flight, emitted, matched, resets>>

Push(ev, ts) == PushDirect(ev, ts) \/ PushReordered(ev, ts) \/ PushLate(ev, ts)

WrongTickOffByOne(t) ==
  /\ At(t)
  /\ IF Reordering THEN Buffer!AdvanceWatermark(t) ELSE UNCHANGED <<bufferVars, streamVars>>
  /\ LET events == EventsAt(log, JustReleased)
     IN  /\ Becomes(AdvanceDeadlines(MatchAll(Matcher, events), t + 1))
         /\ matched' = matched \o events
  /\ UNCHANGED <<log, resets>>
WrongTickSweepsFirst(t) ==
  /\ At(t)
  /\ IF Reordering THEN Buffer!AdvanceWatermark(t) ELSE UNCHANGED <<bufferVars, streamVars>>
  /\ LET events == EventsAt(log, JustReleased)
     IN  /\ Becomes(MatchAll(AdvanceDeadlines(Matcher, t), events))
         /\ matched' = matched \o events
  /\ UNCHANGED <<log, resets>>

\* tick: the watermark moves, its releases are matched, then deadlines are swept.
Tick(t) ==
  /\ At(t)
  /\ IF Reordering THEN Buffer!AdvanceWatermark(t) ELSE UNCHANGED <<bufferVars, streamVars>>
  /\ \E events \in {EventsAt(log, JustReleased)} :
       \E st \in {MatchAll(Matcher, events)} :
         /\ Becomes(AdvanceDeadlines(st, t))
         /\ matched' = matched \o events
  /\ UNCHANGED <<log, resets>>

\* flush: end of stream.
Flush ==
  /\ IF Reordering THEN Buffer!Flush
     ELSE flushed' = TRUE /\ UNCHANGED <<bufferVars, arrivals, released, dropped>>
  /\ LET events == EventsAt(log, JustReleased)
     IN  /\ Becomes(Conclude(MatchAll(Matcher, events)))
         /\ matched' = matched \o events
  /\ UNCHANGED <<log, now, resets>>

\* reset: forgets the partial matches, and nothing else.
Reset ==
  /\ resets < MaxResets
  /\ resets' = resets + 1
  /\ in_flight' = <<>>
  /\ UNCHANGED <<runtime, drops, emitted, log, matched, now, bufferVars, streamVars>>

Next ==
  \/ \E ev \in Events, ts \in Timestamps : Push(ev, ts)
  \/ runtime.ticked /\ \E t \in Clocks : Tick(t)
  \/ Flush
  \/ Reset

Spec == Init /\ [][Next]_vars

WrongNextDeadlineIgnoresPartials == Buffer!NextReleaseClock
WrongNextDeadlineIgnoresBuffer ==
  LET armed == {in_flight[i].deadline : i \in DOMAIN in_flight}
  IN  IF armed \subseteq {None} THEN None ELSE Min(armed \ {None})

\* next_deadline: when the caller should tick next.
NextDeadline ==
  LET armed == {in_flight[i].deadline : i \in DOMAIN in_flight} \cup {Buffer!NextReleaseClock}
  IN  IF armed \subseteq {None} THEN None ELSE Min(armed \ {None})

\* A driver that wakes when next_deadline has just passed.
WakeAfterDeadline ==
  NextDeadline # None /\ \E t \in Clocks : t = NextDeadline + 1 /\ Tick(t)

FairSpec == Spec /\ WF_vars(WakeAfterDeadline)

-----------------------------------------------------------------------------
(* Properties *)

\* A partial in flight waits for a step of the pattern, has not yet taken all the
\* matches that step can take, and is armed exactly if the step is bounded.
Waiting ==
  \A i \in DOMAIN in_flight :
    /\ in_flight[i].next \in 2 .. Len(pattern)
    /\ in_flight[i].count < Awaited(in_flight[i]).max
    /\ in_flight[i].deadline = None <=> Awaited(in_flight[i]).within = None

\* What flush() would leave and return if it were called now.
Finished ==
  Conclude(MatchAll([flights |-> in_flight, out |-> emitted, drops |-> drops],
                    EventsAt(log, Buffer!PopOrder(pending))))

\* The accepted events in the order the matcher has seen or will see them.
Timeline == matched \o EventsAt(log, Buffer!PopOrder(pending))

\* A batch run: the events alone, one after the other, and flush.
Batch(events) ==
  Conclude(MatchAll([flights |-> <<>>, out |-> <<>>, drops |-> [r \in DropReason |-> 0]], events))

\* Driving the runtime with ticks, and shuffling the arrivals of a reordering
\* one, changes nothing about which matches are found: they are those of a
\* batch run over the events in event-time order (tick, with_reorder).
DrivenRunEqualsBatchRun ==
  resets = 0 /\ Batch(Timeline).drops["MaxInFlight"] = 0
    => ToSet(Finished.out) = ToSet(Batch(Timeline).out)

\* The meaning of a pattern without repetitions, independent of the engine. E is
\* the stream and c[k] the position of the event captured for step k.
Positives == IF Len(pattern) > 1 /\ pattern[Len(pattern)].negative THEN Len(pattern) - 1 ELSE Len(pattern)

Captured(E, c, k) == [j \in 1 .. k |-> E[c[j]]]

InTime(E, step, start, x) ==
  step.within = None \/ \A y \in start + 1 .. x : E[y].ts <= SatAdd(E[start].ts, step.within)

IsNextCapture(E, c, k) ==
  LET step     == pattern[k]
      captures == Captured(E, c, k - 1)
  IN  /\ c[k - 1] < c[k]
      /\ Holds(step.pred, E[c[k]], captures)
      /\ InTime(E, step, c[k - 1], c[k])
      /\ \A x \in c[k - 1] + 1 .. c[k] - 1 :
           /\ ~step.next
           /\ ~Holds(step.pred, E[x], captures)
           /\ step.forbidden # None => ~Holds(step.forbidden, E[x], captures)

IsAbsent(E, c, k) ==
  \A x \in c[k - 1] + 1 .. Len(E) :
    Holds(pattern[k].pred, E[x], Captured(E, c, k - 1)) => ~InTime(E, pattern[k], c[k - 1], x)

MatchesOf(E) ==
  {Captured(E, c, Positives) : c \in
    {c \in [1 .. Positives -> DOMAIN E] :
      /\ Holds(pattern[1].pred, E[c[1]], <<>>)
      /\ \A k \in 2 .. Positives : IsNextCapture(E, c, k)
      /\ \A k \in Positives + 1 .. Len(pattern) : IsAbsent(E, c, k)}}

\* The runtime reports the matches of the stream and no others; a match it misses
\* is one it has counted as evicted from the bounded set of partials.
EmitsExactlyTheMatches ==
  (\A k \in DOMAIN pattern : pattern[k].max = 1) /\ resets = 0
    => /\ ToSet(Finished.out) \subseteq MatchesOf(Timeline)
       /\ Cardinality(MatchesOf(Timeline) \ ToSet(Finished.out)) <= Finished.drops["MaxInFlight"]

\* An opening event has one outcome: while its partial is in flight nothing has
\* been emitted for it, and it is emitted at most once, however ticks, events,
\* flush and reset interleave. Partials are kept in the order they were opened, and
\* each waits for something that can still come.
OneOutcomePerOpening ==
  LET opening(m) == m[1].rec
      openings   == [i \in DOMAIN emitted |-> opening(emitted[i])]
                    \o [i \in DOMAIN in_flight |-> opening(in_flight[i].captures)]
      place(n)   == CHOOSE x \in DOMAIN matched : matched[x].rec = n
  IN  /\ IsInjective(openings)
      /\ \A i, j \in DOMAIN in_flight :
           i < j => place(opening(in_flight[i].captures)) < place(opening(in_flight[j].captures))
      /\ Waiting

\* A tick resolves everything that is overdue at its time, the partials that its
\* own releases have opened or advanced included; so a second tick finds nothing.
TickLeavesNothingOverdue ==
  [][\A t \in Clocks : Tick(t) => \A i \in DOMAIN in_flight' : ~Expired(in_flight'[i], t)]_vars

\* With a driver that wakes after next_deadline, no bounded wait goes on for
\* ever on a quiet stream: absences are reported and dead partials dropped.
NoBoundedWaitForever ==
  \A n \in 1 .. MaxArrivals :
    LET waiting == \E i \in DOMAIN in_flight :
                     in_flight[i].captures[1].rec = n /\ in_flight[i].deadline # None
    IN  waiting ~> ~waiting

\* With the same driver every event reaches the matcher or is dropped as late.
EveryEventReachesTheMatcher ==
  \A n \in 1 .. MaxArrivals :
    n <= arrivals ~> n \in {e.rec : e \in ToSet(matched)} \cup {r.rec : r \in dropped}
=============================================================================
