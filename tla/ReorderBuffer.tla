--------------------------- MODULE ReorderBuffer ---------------------------
(***************************************************************************)
(* The event-time reorder buffer, tflo-core/src/reorder.rs.                *)
(*                                                                         *)
(* Records arrive in any order; the buffer releases them in timestamp      *)
(* order, waiting Lateness for stragglers. A record behind the released    *)
(* frontier last_ts is recorded as late instead. A record is identified by *)
(* the number of its arrival (rec); its payload never influences the       *)
(* buffer.                                                                 *)
(*                                                                         *)
(* released and dropped are history variables: all the calls have returned *)
(* so far, in order, and every record ever diverted to the late list.      *)
(***************************************************************************)
EXTENDS HeapOrder, EventTime

CONSTANTS
  Timestamps,        \* the timestamps a caller may pass to step
  Clocks,            \* the clock readings a caller may pass to advance_watermark
  RequestedLateness, \* the argument of ReorderBuffer::new
  MAX_LATENESS_MS,   \* the 24h ceiling
  MaxArrivals        \* bound of the model: step is called at most so often

ASSUME ReorderAssumption ==
  /\ Timestamps \subseteq Time
  /\ Clocks \subseteq Time
  /\ RequestedLateness \in Time
  /\ MAX_LATENESS_MS \in Time /\ MAX_LATENESS_MS >= 0
  /\ MaxArrivals \in Nat

VARIABLES
  pending,      \* the heap: a set of entries [ts, seq, rec]
  pending_seq,  \* the next entry's seq
  last_ts,      \* released frontier: ts of the most recently released record
  max_ts_seen,  \* highest timestamp or clock reading seen
  late,         \* records behind the frontier, until take_late drains them
  arrivals,     \* history: number of calls of step
  released,     \* history: the entries returned by the calls so far
  dropped,      \* history: the records that ever entered late
  flushed       \* history: flush has been called

bufferVars == <<pending, pending_seq, last_ts, max_ts_seen, late>>
historyVars == <<arrivals, released, dropped, flushed>>
vars == <<bufferVars, historyVars>>

Lateness == Clamp(RequestedLateness, 0, MAX_LATENESS_MS)

Entry == [ts : Timestamps, seq : Nat, rec : 1 .. MaxArrivals]
LateRecord == [ts : Timestamps, rec : 1 .. MaxArrivals]

Init ==
  /\ pending = {}
  /\ pending_seq = 0
  /\ last_ts = None
  /\ max_ts_seen = None
  /\ late = <<>>
  /\ arrivals = 0
  /\ released = <<>>
  /\ dropped = {}
  /\ flushed = FALSE

-----------------------------------------------------------------------------

\* Variants named Wrong... are deliberate faults: each breaks a property below.
WrongBehindNever(ts) == FALSE
WrongBehindEqual(ts) == last_ts # None /\ ts <= last_ts

Behind(ts) == last_ts # None /\ ts < last_ts

\* The frontier after the entries of out have been popped one by one.
FrontierAfter(out) == IF out = <<>> THEN last_ts ELSE out[Len(out)].ts

\* Pops the entries of S one by one and returns them.
PopAll(S) ==
  LET out == PopOrder(S)
  IN  /\ last_ts' = FrontierAfter(out)
      /\ released' = released \o out

WrongDrainLosesTie(S, watermark) ==
  /\ pending' = {e \in S : e.ts > watermark}
  /\ PopAll({e \in S : e.ts < watermark})
WrongDrainStrict(S, watermark) ==
  /\ pending' = {e \in S : e.ts >= watermark}
  /\ PopAll({e \in S : e.ts < watermark})

\* drain_until on a heap that holds the entries of S.
DrainUntil(S, watermark) ==
  /\ pending' = {e \in S : e.ts > watermark}
  /\ PopAll({e \in S : e.ts <= watermark})

\* The record that step(ts) would put on the late list.
Straggler(ts) == [ts |-> ts, rec |-> arrivals + 1]

\* What step does with a record behind the frontier, but for the late list.
Divert(ts) ==
  /\ Behind(ts)
  /\ arrivals < MaxArrivals
  /\ arrivals' = arrivals + 1
  /\ dropped' = dropped \cup {Straggler(ts)}
  /\ UNCHANGED <<pending, pending_seq, last_ts, max_ts_seen, released, flushed>>

\* step: a record behind the frontier becomes late and releases nothing.
StepLate(ts) == Divert(ts) /\ late' = Append(late, Straggler(ts))

WrongStepFrontier(ts) ==
  /\ ~Behind(ts)
  /\ arrivals < MaxArrivals
  /\ arrivals' = arrivals + 1
  /\ pending_seq' = pending_seq + 1
  /\ max_ts_seen' = MaxOr(max_ts_seen, ts)
  /\ LET S == pending \cup {[ts |-> ts, seq |-> pending_seq, rec |-> arrivals + 1]}
         watermark == SatSub(MaxOr(max_ts_seen, ts), Lateness)
     IN  /\ pending' = {e \in S : e.ts > watermark}
         /\ released' = released \o PopOrder({e \in S : e.ts <= watermark})
         /\ last_ts' = watermark
  /\ UNCHANGED <<late, dropped, flushed>>

\* step: any other record enters the heap and the watermark follows it.
StepBuffered(ts) ==
  /\ ~Behind(ts)
  /\ arrivals < MaxArrivals
  /\ arrivals' = arrivals + 1
  /\ pending_seq' = pending_seq + 1
  /\ max_ts_seen' = MaxOr(max_ts_seen, ts)
  /\ LET entry == [ts |-> ts, seq |-> pending_seq, rec |-> arrivals + 1]
     IN  DrainUntil(pending \cup {entry}, SatSub(MaxOr(max_ts_seen, ts), Lateness))
  /\ UNCHANGED <<late, dropped, flushed>>

Step(ts) == StepLate(ts) \/ StepBuffered(ts)

WrongAdvanceNoLateness(now) ==
  /\ max_ts_seen' = MaxOr(max_ts_seen, now)
  /\ DrainUntil(pending, now)
  /\ UNCHANGED <<pending_seq, late, arrivals, dropped, flushed>>

\* advance_watermark: the clock moves the watermark; no record arrives.
AdvanceWatermark(now) ==
  /\ max_ts_seen' = MaxOr(max_ts_seen, now)
  /\ DrainUntil(pending, SatSub(now, Lateness))
  /\ UNCHANGED <<pending_seq, late, arrivals, dropped, flushed>>

\* flush: end of stream, everything left is released.
Flush ==
  /\ pending' = {}
  /\ PopAll(pending)
  /\ flushed' = TRUE
  /\ UNCHANGED <<pending_seq, max_ts_seen, late, arrivals, dropped>>

\* take_late: the caller drains the late side output.
TakeLate ==
  /\ late' = <<>>
  /\ UNCHANGED <<pending, pending_seq, last_ts, max_ts_seen, historyVars>>

WrongNextReleaseClock == IF pending = {} THEN None ELSE Earliest(pending).ts

\* next_release_clock: when the earliest buffered record ages out.
NextReleaseClock ==
  IF pending = {} THEN None ELSE SatAdd(Earliest(pending).ts, Lateness)

Next ==
  \/ \E ts \in Timestamps : Step(ts)
  \/ \E now \in Clocks : AdvanceWatermark(now)
  \/ Flush
  \/ TakeLate

Spec == Init /\ [][Next]_vars

-----------------------------------------------------------------------------
(* Properties *)

RecsOf(S) == {e.rec : e \in S}
ReleasedSet == {released[i] : i \in DOMAIN released}

\* Every field keeps its shape; a frontier, once set, is a record's timestamp.
TypeOK ==
  /\ pending \subseteq Entry
  /\ pending_seq \in Nat
  /\ last_ts \in Timestamps \cup {None}
  /\ max_ts_seen \in Timestamps \cup Clocks \cup {None}
  /\ late \in Seq(LateRecord)
  /\ arrivals \in 0 .. MaxArrivals
  /\ released \in Seq(Entry)
  /\ dropped \subseteq LateRecord
  /\ flushed \in BOOLEAN

\* Over all calls together, and not only within one returned Vec, records come
\* out in timestamp order, ties in arrival order: what drain_until and flush
\* must achieve jointly with the late check of step.
InEventTimeOrder ==
  \A i, j \in DOMAIN released : i < j => Before(released[i], released[j])

\* Each record handed to step is in exactly one place: still buffered, released
\* once, or reported late. None is lost and none is released twice.
EveryRecordAccountedFor ==
  /\ RecsOf(pending) \cup RecsOf(ReleasedSet) \cup RecsOf(dropped) = 1 .. arrivals
  /\ RecsOf(pending) \cap RecsOf(ReleasedSet) = {}
  /\ RecsOf(dropped) \cap (RecsOf(pending) \cup RecsOf(ReleasedSet)) = {}
  /\ \A i, j \in DOMAIN released : released[i].rec = released[j].rec => i = j

\* Nothing that has aged past the lateness window stays buffered: after every
\* call of step, advance_watermark or flush the heap holds only records inside
\* (max_ts_seen - max_lateness, max_ts_seen], whichever clock moved the watermark.
HeapWithinWindow ==
  \A e \in pending :
    e.ts > SatSub(max_ts_seen, Lateness) /\ e.ts <= max_ts_seen

\* A record no more than max_lateness behind everything seen so far is never
\* dropped: only an end-of-stream flush may move the frontier past the watermark.
LatenessHonoured ==
  [][\A r \in dropped' \ dropped : flushed \/ r.ts < max_ts_seen - Lateness]_vars

\* The buffer is an event-time reordering stage in the sense of OrderedDelivery.
Delivery == INSTANCE OrderedDelivery WITH
  Records   <- LateRecord,
  held      <- {[ts |-> e.ts, rec |-> e.rec] : e \in pending},
  delivered <- [i \in DOMAIN released |-> [ts |-> released[i].ts, rec |-> released[i].rec]],
  refused   <- dropped,
  frontier  <- last_ts

ImplementsOrderedDelivery == Delivery!Spec

\* A driver that wakes at next_release_clock and advances the watermark to it.
DriverTick ==
  /\ NextReleaseClock \in Clocks
  /\ AdvanceWatermark(NextReleaseClock)

FairSpec == Spec /\ WF_vars(DriverTick)

\* A quiet stream still drains: with the driver's wake-ups alone, and no further
\* record, every buffered record is eventually released.
QuietStreamDrains ==
  \A n \in 1 .. MaxArrivals : n \in RecsOf(pending) ~> n \in RecsOf(ReleasedSet)
=============================================================================
