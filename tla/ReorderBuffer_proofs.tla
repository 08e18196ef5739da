------------------------ MODULE ReorderBuffer_proofs ------------------------
(***************************************************************************)
(* The reorder buffer is correct for every set of timestamps and clock     *)
(* readings, every lateness and every number of arrivals: records come out *)
(* once, in event-time order, none is lost, none within the lateness is    *)
(* dropped, and the buffer implements OrderedDelivery.                     *)
(***************************************************************************)
EXTENDS ReorderBuffer, HeapOrder_proofs

-----------------------------------------------------------------------------
(* The inductive invariant, by parts. *)

\* The frontier is the timestamp of the last record that came out.
Frontier ==
  IF released = <<>> THEN last_ts = None ELSE last_ts = released[Len(released)].ts

\* Whatever is buffered leaves the heap after everything that already left.
AheadOfFrontier ==
  \A i \in DOMAIN released : \A e \in pending : Before(released[i], e)

\* Every entry the buffer accepted, still buffered or released.
Known == pending \cup ReleasedSet

\* Sequence numbers are fresh and never reused, and they order the entries as
\* their arrivals do.
SeqFresh ==
  /\ \A e \in Known : e.seq < pending_seq /\ e.rec <= arrivals
  /\ \A r \in dropped : r.rec <= arrivals

SeqFollowsArrival ==
  \A e, f \in Known :
    /\ e.seq = f.seq => e = f
    /\ e.seq < f.seq <=> e.rec < f.rec

\* The output only ever grows at its end.
ReleasedGrows ==
  /\ Len(released) <= Len(released')
  /\ DOMAIN released \subseteq DOMAIN released'
  /\ \A i \in DOMAIN released : released'[i] = released[i]

\* The frontier moves, if at all, to the time of a record not past the watermark.
FrontierMovesTo(watermark) ==
  last_ts' = last_ts \/ (last_ts' \in Int /\ last_ts' <= watermark)

OrderInv ==
  /\ TypeOK
  /\ Heap(pending)
  /\ Frontier
  /\ AheadOfFrontier
  /\ InEventTimeOrder
  /\ SeqFresh
  /\ SeqFollowsArrival

-----------------------------------------------------------------------------
(* Event time *)

LEMMA ClampType ==
  ASSUME NEW x \in Int, NEW lo \in Int, NEW hi \in Int, lo <= hi
  PROVE  Clamp(x, lo, hi) \in lo .. hi
BY DEF Clamp

LEMMA LatenessType == Lateness \in Nat
BY ReorderAssumption, TimeAssumption DEF Lateness, Clamp, Time

LEMMA SatSubType ==
  ASSUME NEW t \in Time
  PROVE  SatSub(t, Lateness) \in Int
<1>1. t - Lateness \in Int
  BY LatenessType, TimeAssumption DEF Time
<1>2. QED BY <1>1, ClampType, TimeAssumption DEF SatSub

LEMMA TimestampsAreInts == Timestamps \subseteq Int /\ Clocks \subseteq Int
BY ReorderAssumption, TimeAssumption DEF Time

LEMMA EntryFields ==
  ASSUME NEW e \in Entry
  PROVE  /\ e.ts \in Timestamps /\ e.ts \in Int
         /\ e.seq \in Nat /\ e.rec \in 1 .. MaxArrivals /\ e.rec \in Int
<1>1. e.ts \in Timestamps /\ e.seq \in Nat /\ e.rec \in 1 .. MaxArrivals
  BY DEF Entry
<1>2. MaxArrivals \in Nat
  BY ReorderAssumption
<1>3. e.ts \in Int
  BY <1>1, TimestampsAreInts
<1>4. \A k \in 1 .. MaxArrivals : k \in Int
  BY <1>2
<1>5. QED BY <1>1, <1>3, <1>4

\* A part of a heap is a heap, and one entry with a fresh seq may join it.
LEMMA SubHeap ==
  ASSUME NEW S, Heap(S), NEW T \in SUBSET S
  PROVE  Heap(T)
BY FS_Subset DEF Heap

LEMMA HeapPush ==
  ASSUME NEW S, Heap(S), NEW e, e.ts \in Int, e.seq \in Int,
         \A f \in S : f.seq < e.seq
  PROVE  Heap(S \cup {e})
<1>1. IsFiniteSet(S \cup {e})
  BY FS_AddElement DEF Heap
<1>2. \A f \in S : f.seq # e.seq
  BY DEF Heap
<1>3. QED BY <1>1, <1>2 DEF Heap

-----------------------------------------------------------------------------
\* What popping a set of entries off the heap does to the output: the core of
\* drain_until and flush. D leaves, all of it ahead of what came out before.
LEMMA PopAllStep ==
  ASSUME NEW D, D \subseteq Entry, Heap(D),
         released \in Seq(Entry), Frontier, InEventTimeOrder,
         \A i \in DOMAIN released : \A e \in D : Before(released[i], e),
         PopAll(D)
  PROVE  /\ released' \in Seq(Entry)
         /\ Frontier'
         /\ InEventTimeOrder'
         /\ ReleasedGrows
         /\ \A i \in DOMAIN released' : i \in DOMAIN released \/ released'[i] \in D
         /\ \A e \in D : \E i \in DOMAIN released' \ DOMAIN released : released'[i] = e
<1> DEFINE out == PopOrder(D)
           n == Len(released)
           m == Len(out)
<1>1. /\ out \in Seq(D) /\ out \in Seq(Entry)
      /\ \A i, j \in DOMAIN out : i < j => Before(out[i], out[j])
      /\ \A e \in D : \E i \in DOMAIN out : out[i] = e
  BY PopOrderCorrect
<1>2. /\ n \in Nat /\ m \in Nat
      /\ DOMAIN released = 1 .. n /\ DOMAIN out = 1 .. m
  BY <1>1
<1>3. released' = released \o out /\ last_ts' = FrontierAfter(out)
  BY DEF PopAll
<1> HIDE DEF out
<1>4. /\ released' \in Seq(Entry) /\ Len(released') = n + m
      /\ DOMAIN released' = 1 .. n + m
      /\ \A i \in 1 .. n : released'[i] = released[i]
      /\ \A i \in 1 .. m : released'[n + i] = out[i]
  BY <1>1, <1>2, <1>3
<1>5. \A i \in n + 1 .. n + m : released'[i] = out[i - n] /\ i - n \in 1 .. m
  <2> TAKE i \in n + 1 .. n + m
  <2>1. i - n \in 1 .. m /\ n + (i - n) = i
    BY <1>2
  <2>2. QED BY <1>4, <2>1
<1>6. \A i \in n + 1 .. n + m : released'[i] \in D
  BY <1>1, <1>2, <1>5
<1>7. InEventTimeOrder'
  <2> SUFFICES ASSUME NEW i \in 1 .. n + m, NEW j \in 1 .. n + m, i < j
               PROVE  Before(released'[i], released'[j])
    BY <1>4 DEF InEventTimeOrder
  <2>1. CASE j <= n
    <3>1. i \in 1 .. n /\ j \in 1 .. n
      BY <2>1, <1>2
    <3>2. QED BY <3>1, <1>2, <1>4 DEF InEventTimeOrder
  <2>2. CASE i <= n /\ j > n
    <3>1. i \in 1 .. n /\ j \in n + 1 .. n + m
      BY <2>2, <1>2
    <3>2. QED BY <3>1, <1>2, <1>4, <1>6
  <2>3. CASE i > n
    <3>1. i \in n + 1 .. n + m /\ j \in n + 1 .. n + m /\ i - n < j - n
      BY <2>3, <1>2
    <3>2. QED BY <3>1, <1>1, <1>2, <1>5
  <2>4. QED BY <2>1, <2>2, <2>3, <1>2
<1>8. Frontier'
  <2>1. CASE out = <<>>
    <3>1. released' = released /\ last_ts' = last_ts
      BY <2>1, <1>3 DEF FrontierAfter
    <3>2. QED BY <3>1 DEF Frontier
  <2>2. CASE out # <<>>
    <3>1. m \in 1 .. m /\ last_ts' = out[m].ts
      BY <2>2, <1>1, <1>2, <1>3 DEF FrontierAfter
    <3>2. released'[n + m] = out[m] /\ released' # <<>>
      BY <3>1, <1>2, <1>4
    <3>3. QED BY <3>1, <3>2, <1>4 DEF Frontier
  <2>3. QED BY <2>1, <2>2
<1>9. \A e \in D : \E i \in DOMAIN released' \ DOMAIN released : released'[i] = e
  <2> TAKE e \in D
  <2>1. PICK i \in 1 .. m : out[i] = e
    BY <1>1, <1>2
  <2>2. n + i \in DOMAIN released' /\ n + i \notin DOMAIN released /\ released'[n + i] = e
    BY <2>1, <1>2, <1>4
  <2>3. QED BY <2>2
<1>10. \A i \in DOMAIN released' : i \in DOMAIN released \/ released'[i] \in D
  <2> TAKE i \in DOMAIN released'
  <2>1. i \in 1 .. n \/ i \in n + 1 .. n + m
    BY <1>2, <1>4
  <2>2. QED BY <2>1, <1>2, <1>6
<1>11. ReleasedGrows
  BY <1>2, <1>4 DEF ReleasedGrows
<1>12. QED BY <1>2, <1>4, <1>7, <1>8, <1>9, <1>10, <1>11

\* drain_until: everything up to the watermark leaves, the rest stays ahead of it.
LEMMA DrainUntilStep ==
  ASSUME NEW S, S \subseteq Entry, Heap(S), NEW watermark \in Int,
         released \in Seq(Entry), Frontier, InEventTimeOrder,
         \A i \in DOMAIN released : \A e \in S : Before(released[i], e),
         DrainUntil(S, watermark)
  PROVE  /\ released' \in Seq(Entry)
         /\ Frontier'
         /\ InEventTimeOrder'
         /\ AheadOfFrontier'
         /\ Heap(pending') /\ pending' \subseteq S
         /\ ReleasedGrows
         /\ Known' = S \cup ReleasedSet
         /\ FrontierMovesTo(watermark)
<1> DEFINE D == {e \in S : e.ts <= watermark}
<1>1. D \in SUBSET S /\ pending' \in SUBSET S /\ Heap(D) /\ Heap(pending')
  BY SubHeap DEF DrainUntil
<1>2. D = S \ pending'
  BY EntryFields DEF DrainUntil
<1>3. \A d \in D : \A e \in pending' : Before(d, e)
  BY EntryFields DEF DrainUntil, Before
<1>4. PopAll(D) /\ D \subseteq Entry
  BY DEF DrainUntil
<1> HIDE DEF D
<1>5. /\ released' \in Seq(Entry)
      /\ Frontier'
      /\ InEventTimeOrder'
      /\ ReleasedGrows
      /\ \A i \in DOMAIN released' : i \in DOMAIN released \/ released'[i] \in D
      /\ \A e \in D : \E i \in DOMAIN released' \ DOMAIN released : released'[i] = e
  BY <1>1, <1>4, PopAllStep
<1>6. AheadOfFrontier'
  BY <1>1, <1>3, <1>5 DEF AheadOfFrontier, ReleasedGrows
<1>7. Known' = S \cup ReleasedSet
  <2>1. ReleasedSet' = ReleasedSet \cup D
    BY <1>5 DEF ReleasedSet, ReleasedGrows
  <2>2. QED BY <2>1, <1>1, <1>2 DEF Known
<1>8. FrontierMovesTo(watermark)
  <2> USE DEF FrontierMovesTo
  <2>1. CASE released' = <<>>
    <3>1. released = <<>>
      BY <2>1, <1>5 DEF ReleasedGrows
    <3>2. QED BY <2>1, <3>1, <1>5 DEF Frontier
  <2>2. CASE released' # <<>>
    <3> DEFINE k == Len(released')
    <3>1. k \in DOMAIN released' /\ last_ts' = released'[k].ts
      BY <2>2, <1>5 DEF Frontier
    <3>2. CASE k \in DOMAIN released
      <4>1. k = Len(released) /\ released # <<>> /\ released'[k] = released[k]
        BY <3>2, <1>5 DEF ReleasedGrows
      <4>2. QED BY <3>1, <4>1 DEF Frontier
    <3>3. CASE released'[k] \in D
      BY <3>1, <3>3, EntryFields DEF D
    <3>4. QED BY <3>1, <3>2, <3>3, <1>5
  <2>3. QED BY <2>1, <2>2
<1>9. QED BY <1>1, <1>2, <1>5, <1>6, <1>7, <1>8

\* A record that is not late may join the heap without overtaking the output.
LEMMA NotBehindIsAhead ==
  ASSUME OrderInv, NEW ts \in Timestamps, ~Behind(ts), NEW n
  PROVE  LET entry == [ts |-> ts, seq |-> pending_seq, rec |-> n]
         IN  \A i \in DOMAIN released : Before(released[i], entry)
<1> DEFINE entry == [ts |-> ts, seq |-> pending_seq, rec |-> n]
<1> SUFFICES ASSUME NEW i \in DOMAIN released
             PROVE  Before(released[i], entry)
  OBVIOUS
<1>1. released \in Seq(Entry) /\ released # <<>>
  BY DEF OrderInv, TypeOK
<1>2. Len(released) \in DOMAIN released /\ DOMAIN released = 1 .. Len(released)
  BY <1>1
<1> DEFINE last == released[Len(released)]
<1>3. last \in Entry /\ released[i] \in Entry
  BY <1>1, <1>2
<1>4. last_ts = last.ts /\ last_ts # None
  BY <1>1, <1>3, EntryFields, TimeAssumption DEF OrderInv, Frontier
<1>5. last.ts <= ts
  BY <1>3, <1>4, EntryFields, TimestampsAreInts DEF Behind
<1>6. released[i].ts <= last.ts
  <2>1. CASE i = Len(released)
    BY <2>1, <1>3, EntryFields
  <2>2. CASE i # Len(released)
    <3>1. i < Len(released)
      BY <2>2, <1>1, <1>2
    <3>2. Before(released[i], last)
      BY <3>1, <1>2 DEF OrderInv, InEventTimeOrder
    <3>3. QED BY <3>2, <1>3, EntryFields DEF Before
  <2>3. QED BY <2>1, <2>2
<1>7. released[i].seq < pending_seq
  BY DEF OrderInv, SeqFresh, Known, ReleasedSet
<1>8. entry.ts = ts /\ entry.seq = pending_seq
  OBVIOUS
<1>9. released[i].ts \in Int /\ last.ts \in Int /\ ts \in Int
  BY <1>3, EntryFields, TimestampsAreInts
<1>10. released[i].ts <= ts
  BY <1>5, <1>6, <1>9
<1>11. QED BY <1>7, <1>8, <1>9, <1>10 DEF Before

\* The frontier a drain leaves behind is again the timestamp of a record.
LEMMA FrontierType ==
  ASSUME NEW out \in Seq(Entry), NEW f,
         IF out = <<>> THEN f = None ELSE f = out[Len(out)].ts
  PROVE  f \in Timestamps \cup {None}
<1>1. CASE out = <<>>
  BY <1>1
<1>2. CASE out # <<>>
  <2>1. Len(out) \in DOMAIN out /\ out[Len(out)] \in Entry
    BY <1>2
  <2>2. QED BY <1>2, <2>1, EntryFields
<1>3. QED BY <1>1, <1>2

-----------------------------------------------------------------------------
(* The invariant is inductive: one lemma per operation. *)

LEMMA InitOrder == Init => OrderInv
<1> SUFFICES ASSUME Init PROVE OrderInv
  OBVIOUS
<1>1. TypeOK
  <2>1. 0 \in 0 .. MaxArrivals
    BY ReorderAssumption
  <2>2. <<>> \in Seq(LateRecord) /\ <<>> \in Seq(Entry)
    OBVIOUS
  <2> HIDE ReorderAssumption, TimeAssumption
  <2>3. QED BY <2>1, <2>2 DEF Init, TypeOK
<1>2. Heap(pending)
  BY FS_EmptySet DEF Init, Heap
<1>3. Frontier /\ AheadOfFrontier /\ InEventTimeOrder
  BY DEF Init, Frontier, AheadOfFrontier, InEventTimeOrder
<1>4. SeqFresh /\ SeqFollowsArrival
  BY DEF Init, SeqFresh, SeqFollowsArrival, Known, ReleasedSet
<1>5. QED BY <1>1, <1>2, <1>3, <1>4 DEF OrderInv

\* A record behind the frontier only moves to the dropped ones, whatever is made of
\* the late list: step appends it, push_at drains it at once.
LEMMA DivertOrder ==
  ASSUME OrderInv, NEW ts \in Timestamps, Divert(ts), late' \in Seq(LateRecord)
  PROVE  OrderInv' /\ Known' = Known
<1> DEFINE record == [ts |-> ts, rec |-> arrivals + 1]
<1>1. arrivals \in Nat /\ arrivals + 1 \in 1 .. MaxArrivals
  BY ReorderAssumption DEF OrderInv, TypeOK, Divert, Straggler
<1>2. record \in LateRecord
  BY <1>1 DEF LateRecord
<1>3. arrivals' = arrivals + 1 /\ dropped' = dropped \cup {record}
  BY DEF Divert, Straggler
<1>4. UNCHANGED <<pending, pending_seq, last_ts, max_ts_seen, released, flushed>>
  BY DEF Divert
<1>5. TypeOK'
  BY <1>1, <1>2, <1>3, <1>4, ReorderAssumption DEF OrderInv, TypeOK
<1>6. Frontier' /\ AheadOfFrontier' /\ InEventTimeOrder' /\ Heap(pending)'
  BY <1>4 DEF OrderInv, Frontier, AheadOfFrontier, InEventTimeOrder
<1>7. Known' = Known
  BY <1>4 DEF Known, ReleasedSet
<1>8. \A e \in Known : e.rec \in Int
  BY EntryFields DEF Known, ReleasedSet, OrderInv, TypeOK
<1>9. \A r \in dropped : r.rec \in Int
  BY ReorderAssumption DEF OrderInv, TypeOK, LateRecord
<1>10. SeqFresh'
  BY <1>1, <1>3, <1>4, <1>7, <1>8, <1>9 DEF OrderInv, SeqFresh
<1>11. SeqFollowsArrival'
  BY <1>7 DEF OrderInv, SeqFollowsArrival
<1>12. QED BY <1>5, <1>6, <1>7, <1>10, <1>11 DEF OrderInv

\* step on a record behind the frontier only reports it.
LEMMA StepLateOrder ==
  ASSUME OrderInv, NEW ts \in Timestamps, StepLate(ts)
  PROVE  OrderInv' /\ Known' = Known
<1>1. Divert(ts) /\ late' = Append(late, Straggler(ts))
  BY DEF StepLate
<1>2. Straggler(ts) \in LateRecord
  BY <1>1, ReorderAssumption DEF OrderInv, TypeOK, Divert, Straggler, LateRecord
<1>3. late' \in Seq(LateRecord)
  BY <1>1, <1>2 DEF OrderInv, TypeOK
<1>4. QED BY <1>1, <1>3, DivertOrder

\* step on any other record: it joins the heap, then the watermark drains it.
LEMMA StepBufferedOrder ==
  ASSUME OrderInv, NEW ts \in Timestamps, StepBuffered(ts)
  PROVE  /\ OrderInv' /\ ReleasedGrows
         /\ Known' = Known \cup {[ts |-> ts, seq |-> pending_seq, rec |-> arrivals + 1]}
         /\ FrontierMovesTo(SatSub(MaxOr(max_ts_seen, ts), Lateness))
<1> DEFINE entry == [ts |-> ts, seq |-> pending_seq, rec |-> arrivals + 1]
           S == pending \cup {entry}
           watermark == SatSub(MaxOr(max_ts_seen, ts), Lateness)
<1>1. /\ arrivals' = arrivals + 1 /\ pending_seq' = pending_seq + 1
      /\ max_ts_seen' = MaxOr(max_ts_seen, ts)
      /\ DrainUntil(S, watermark)
      /\ UNCHANGED <<late, dropped, flushed>>
  BY DEF StepBuffered
<1>2. arrivals \in Nat /\ pending_seq \in Nat /\ arrivals + 1 \in 1 .. MaxArrivals
  BY ReorderAssumption DEF OrderInv, TypeOK, StepBuffered
<1>3. entry \in Entry
  BY <1>2 DEF Entry
<1>4. entry.ts = ts /\ entry.seq = pending_seq /\ entry.rec = arrivals + 1
  OBVIOUS
<1>5. MaxOr(max_ts_seen, ts) \in Timestamps \cup Clocks
  <2>1. max_ts_seen \in Timestamps \cup Clocks \cup {None}
    BY DEF OrderInv, TypeOK
  <2>2. QED BY <2>1 DEF MaxOr
<1>6. watermark \in Int
  BY <1>5, SatSubType, ReorderAssumption
<1>7. S \subseteq Entry
  BY <1>3 DEF OrderInv, TypeOK
<1>8. Heap(S)
  <2>1. \A f \in pending : f.seq < pending_seq
    BY DEF OrderInv, SeqFresh, Known
  <2>2. entry.ts \in Int /\ entry.seq \in Int
    BY <1>2, <1>4, TimestampsAreInts
  <2>3. QED BY <1>4, <2>1, <2>2, HeapPush DEF OrderInv
<1>9. \A i \in DOMAIN released : \A e \in S : Before(released[i], e)
  <2>1. ~Behind(ts)
    BY DEF StepBuffered
  <2>2. \A i \in DOMAIN released : Before(released[i], entry)
    BY <2>1, NotBehindIsAhead
  <2>3. QED BY <2>2 DEF OrderInv, AheadOfFrontier
<1> HIDE DEF entry, S, watermark
<1>10. released \in Seq(Entry) /\ Frontier /\ InEventTimeOrder
  BY DEF OrderInv, TypeOK
<1>11. /\ released' \in Seq(Entry)
       /\ Frontier' /\ InEventTimeOrder' /\ AheadOfFrontier'
       /\ Heap(pending') /\ pending' \subseteq S
       /\ Known' = S \cup ReleasedSet
       /\ ReleasedGrows
       /\ FrontierMovesTo(watermark)
  BY <1>1, <1>6, <1>7, <1>8, <1>9, <1>10, DrainUntilStep
<1>12. Known' = Known \cup {entry}
  BY <1>11 DEF S, Known
<1>13. \A e \in Known : e.seq \in Int /\ e.rec \in Int /\ e.seq < pending_seq /\ e.rec <= arrivals
  BY EntryFields DEF Known, ReleasedSet, OrderInv, TypeOK, SeqFresh
<1>14. SeqFresh'
  <2>1. \A r \in dropped : r.rec \in Int
    BY ReorderAssumption DEF OrderInv, TypeOK, LateRecord
  <2>2. QED BY <1>1, <1>2, <1>4, <1>12, <1>13, <2>1 DEF SeqFresh, OrderInv
<1>15. SeqFollowsArrival'
  BY <1>2, <1>4, <1>12, <1>13 DEF SeqFollowsArrival, OrderInv
<1>16. TypeOK'
  <2>1. last_ts' \in Timestamps \cup {None}
    BY <1>11, FrontierType DEF Frontier
  <2>2. pending' \subseteq Entry
    BY <1>7, <1>11
  <2>3. QED BY <1>1, <1>2, <1>5, <1>11, <2>1, <2>2 DEF OrderInv, TypeOK
<1>17. QED BY <1>11, <1>12, <1>14, <1>15, <1>16 DEF OrderInv, entry, watermark

\* advance_watermark releases what the clock has aged out and nothing else.
LEMMA AdvanceWatermarkOrder ==
  ASSUME OrderInv, NEW now \in Clocks, AdvanceWatermark(now)
  PROVE  OrderInv' /\ Known' = Known /\ ReleasedGrows /\ FrontierMovesTo(SatSub(now, Lateness))
<1> DEFINE watermark == SatSub(now, Lateness)
<1>1. /\ max_ts_seen' = MaxOr(max_ts_seen, now)
      /\ DrainUntil(pending, watermark)
      /\ UNCHANGED <<pending_seq, late, arrivals, dropped, flushed>>
  BY DEF AdvanceWatermark
<1>2. watermark \in Int
  BY SatSubType, ReorderAssumption
<1> HIDE DEF watermark
<1>3. /\ released' \in Seq(Entry)
      /\ Frontier' /\ InEventTimeOrder' /\ AheadOfFrontier'
      /\ Heap(pending') /\ pending' \subseteq pending
      /\ Known' = Known /\ ReleasedGrows
      /\ FrontierMovesTo(watermark)
  BY <1>1, <1>2, DrainUntilStep DEF OrderInv, TypeOK, AheadOfFrontier, Known
<1>4. max_ts_seen' \in Timestamps \cup Clocks \cup {None}
  BY <1>1 DEF OrderInv, TypeOK, MaxOr
<1>5. TypeOK'
  <2>1. last_ts' \in Timestamps \cup {None}
    BY <1>3, FrontierType DEF Frontier
  <2>2. QED BY <1>1, <1>3, <1>4, <2>1 DEF OrderInv, TypeOK
<1>6. SeqFresh' /\ SeqFollowsArrival'
  BY <1>1, <1>3 DEF OrderInv, SeqFresh, SeqFollowsArrival
<1>7. QED BY <1>3, <1>5, <1>6 DEF OrderInv, watermark

\* flush empties the heap onto the output.
LEMMA FlushOrder ==
  ASSUME OrderInv, Flush
  PROVE  OrderInv' /\ Known' = Known /\ ReleasedGrows
<1>1. /\ pending' = {} /\ flushed' = TRUE /\ PopAll(pending)
      /\ UNCHANGED <<pending_seq, max_ts_seen, late, arrivals, dropped>>
  BY DEF Flush
<1>2. /\ released' \in Seq(Entry)
      /\ Frontier' /\ InEventTimeOrder'
      /\ ReleasedGrows
      /\ \A i \in DOMAIN released' : i \in DOMAIN released \/ released'[i] \in pending
      /\ \A e \in pending : \E i \in DOMAIN released' \ DOMAIN released : released'[i] = e
  BY <1>1, PopAllStep DEF OrderInv, TypeOK, AheadOfFrontier
<1>3. Known' = Known
  BY <1>1, <1>2 DEF Known, ReleasedSet, ReleasedGrows
<1>4. AheadOfFrontier' /\ Heap(pending')
  BY <1>1, FS_EmptySet DEF AheadOfFrontier, Heap
<1>5. TypeOK'
  <2>1. last_ts' \in Timestamps \cup {None}
    BY <1>2, FrontierType DEF Frontier
  <2>2. flushed' \in BOOLEAN
    BY <1>1
  <2>3. pending' \subseteq Entry
    BY <1>1
  <2>4. UNCHANGED <<pending_seq, max_ts_seen, late, arrivals, dropped>>
    BY <1>1
  <2>5. QED BY <1>2, <2>1, <2>2, <2>3, <2>4 DEF OrderInv, TypeOK
<1>6. SeqFresh' /\ SeqFollowsArrival'
  BY <1>1, <1>3 DEF OrderInv, SeqFresh, SeqFollowsArrival
<1>7. QED BY <1>2, <1>3, <1>4, <1>5, <1>6 DEF OrderInv

\* take_late and stuttering touch neither the heap nor the output.
LEMMA TakeLateOrder ==
  ASSUME OrderInv, TakeLate \/ UNCHANGED vars
  PROVE  OrderInv' /\ Known' = Known
<1>1. UNCHANGED <<pending, pending_seq, last_ts, max_ts_seen, arrivals, released, dropped, flushed>>
  BY DEF TakeLate, vars, bufferVars, historyVars
<1>2. late' \in Seq(LateRecord)
  <2>1. late' = late \/ late' = <<>>
    BY DEF TakeLate, vars, bufferVars, historyVars
  <2>2. late \in Seq(LateRecord) /\ <<>> \in Seq(LateRecord)
    BY DEF OrderInv, TypeOK
  <2>3. QED BY <2>1, <2>2
<1>3. QED
  BY <1>1, <1>2 DEF OrderInv, TypeOK, Frontier, AheadOfFrontier, InEventTimeOrder,
     SeqFresh, SeqFollowsArrival, Known, ReleasedSet

\* The order part of the invariant, and with it the type invariant, always holds.
LEMMA OrderInvariant == Spec => []OrderInv
<1>1. OrderInv /\ [Next]_vars => OrderInv'
  <2> SUFFICES ASSUME OrderInv, [Next]_vars PROVE OrderInv'
    OBVIOUS
  <2>1. ASSUME NEW ts \in Timestamps, Step(ts) PROVE OrderInv'
    BY <2>1, StepLateOrder, StepBufferedOrder DEF Step
  <2>2. ASSUME NEW now \in Clocks, AdvanceWatermark(now) PROVE OrderInv'
    BY <2>2, AdvanceWatermarkOrder
  <2>3. CASE Flush
    BY <2>3, FlushOrder
  <2>4. CASE TakeLate \/ UNCHANGED vars
    BY <2>4, TakeLateOrder
  <2>5. QED BY <2>1, <2>2, <2>3, <2>4 DEF Next
<1>2. QED BY <1>1, InitOrder, PTL DEF Spec

\* Type correctness of the reorder buffer, for every instance.
THEOREM TypeCorrect == Spec => []TypeOK
<1>1. OrderInv => TypeOK
  BY DEF OrderInv
<1>2. QED BY <1>1, OrderInvariant, PTL

\* Everything the buffer ever returns is in event-time order, ties by arrival.
THEOREM ReleasesInOrder == Spec => []InEventTimeOrder
<1>1. OrderInv => InEventTimeOrder
  BY DEF OrderInv
<1>2. QED BY <1>1, OrderInvariant, PTL

-----------------------------------------------------------------------------
(* No record is lost, and none is released twice. *)

\* Every arrival is known to the buffer or was dropped, and not both.
Conserved ==
  /\ RecsOf(Known) \cup RecsOf(dropped) = 1 .. arrivals
  /\ RecsOf(Known) \cap RecsOf(dropped) = {}

AccountInv == OrderInv /\ Conserved

LEMMA RecsType ==
  ASSUME OrderInv
  PROVE  /\ \A e \in Known : e \in Entry /\ e.rec \in Nat /\ e.rec <= arrivals
         /\ \A r \in dropped : r.rec \in Nat /\ r.rec <= arrivals
         /\ arrivals \in Nat
<1>1. arrivals \in Nat /\ SeqFresh
  BY ReorderAssumption DEF OrderInv, TypeOK
<1>2. Known \subseteq Entry
  BY DEF OrderInv, TypeOK, Known, ReleasedSet
<1>3. \A r \in dropped : r.rec \in Nat
  BY ReorderAssumption DEF OrderInv, TypeOK, LateRecord
<1> QED
  BY <1>1, <1>2, <1>3, ReorderAssumption DEF SeqFresh, Entry

\* A new arrival joins one side; everything else leaves both sides alone.
LEMMA NextAccountInv ==
  ASSUME AccountInv, [Next]_vars
  PROVE  AccountInv'
<1> USE DEF AccountInv
<1>0. \A n \in 1 .. arrivals : n # arrivals + 1
  BY RecsType
<1>1. ASSUME NEW ts \in Timestamps, StepLate(ts) PROVE AccountInv'
  <2>1. OrderInv' /\ Known' = Known
    BY <1>1, StepLateOrder
  <2>2. arrivals' = arrivals + 1 /\ RecsOf(dropped') = RecsOf(dropped) \cup {arrivals + 1}
    BY <1>1 DEF StepLate, Divert, Straggler, RecsOf
  <2>3. 1 .. arrivals' = (1 .. arrivals) \cup {arrivals + 1}
    BY <2>2, RecsType
  <2>4. RecsOf(Known)' = RecsOf(Known) /\ RecsOf(dropped)' = RecsOf(dropped')
    BY <2>1 DEF RecsOf
  <2> QED
    BY <1>0, <2>1, <2>2, <2>3, <2>4 DEF Conserved
<1>2. ASSUME NEW ts \in Timestamps, StepBuffered(ts) PROVE AccountInv'
  <2> DEFINE entry == [ts |-> ts, seq |-> pending_seq, rec |-> arrivals + 1]
  <2>1. OrderInv' /\ Known' = Known \cup {entry} /\ entry.rec = arrivals + 1
    BY <1>2, StepBufferedOrder
  <2> HIDE DEF entry
  <2>2. RecsOf(Known)' = RecsOf(Known) \cup {arrivals + 1}
    BY <2>1 DEF RecsOf
  <2>3. arrivals' = arrivals + 1 /\ dropped' = dropped
    BY <1>2 DEF StepBuffered
  <2>4. 1 .. arrivals' = (1 .. arrivals) \cup {arrivals + 1}
    BY <2>3, RecsType
  <2>5. RecsOf(dropped)' = RecsOf(dropped)
    BY <2>3 DEF RecsOf
  <2> QED
    BY <1>0, <2>1, <2>2, <2>4, <2>5 DEF Conserved
<1>3. ASSUME OrderInv', Known' = Known, arrivals' = arrivals, dropped' = dropped
      PROVE  AccountInv'
  BY <1>3 DEF Conserved, RecsOf
<1>4. ASSUME NEW now \in Clocks, AdvanceWatermark(now) PROVE AccountInv'
  BY <1>3, <1>4, AdvanceWatermarkOrder DEF AdvanceWatermark
<1>5. CASE Flush
  BY <1>3, <1>5, FlushOrder DEF Flush
<1>6. CASE TakeLate \/ UNCHANGED vars
  BY <1>3, <1>6, TakeLateOrder DEF TakeLate, vars, historyVars
<1> QED
  BY <1>1, <1>2, <1>4, <1>5, <1>6 DEF Next, Step

LEMMA AccountInvariant == Spec => []AccountInv
<1>1. Init => AccountInv
  BY InitOrder DEF Init, AccountInv, Conserved, Known, ReleasedSet, RecsOf
<1> QED
  BY <1>1, NextAccountInv, PTL DEF Spec

LEMMA RecIdentifies == OrderInv => \A e, f \in Known : e.rec = f.rec => e = f
<1> SUFFICES ASSUME OrderInv, NEW e \in Known, NEW f \in Known, e.rec = f.rec
             PROVE  e = f
  OBVIOUS
<1>1. e.seq \in Int /\ f.seq \in Int /\ e.rec \in Int
  BY RecsType, EntryFields
<1> QED
  BY <1>1 DEF OrderInv, SeqFollowsArrival

LEMMA BufferedNotReleased == OrderInv => pending \cap ReleasedSet = {}
<1> SUFFICES ASSUME OrderInv, NEW i \in DOMAIN released, released[i] \in pending PROVE FALSE
  BY DEF ReleasedSet
<1>1. Before(released[i], released[i])
  BY DEF OrderInv, AheadOfFrontier
<1>2. released[i] \in Entry
  BY DEF OrderInv, TypeOK
<1> QED
  BY <1>1, <1>2, EntryFields DEF Before

\* Each record handed to step is in exactly one place: buffered, returned once, or
\* on the late list, through any sequence of calls.
THEOREM NothingLostOrRepeated == Spec => []EveryRecordAccountedFor
<1>1. AccountInv => EveryRecordAccountedFor
  <2> SUFFICES ASSUME AccountInv PROVE EveryRecordAccountedFor
    OBVIOUS
  <2>0. OrderInv /\ Conserved
    BY DEF AccountInv
  <2>1. RecsOf(Known) = RecsOf(pending) \cup RecsOf(ReleasedSet)
    BY DEF RecsOf, Known
  <2>2. RecsOf(pending) \cap RecsOf(ReleasedSet) = {}
    BY <2>0, RecIdentifies, BufferedNotReleased DEF RecsOf, Known
  <2>3. \A i, j \in DOMAIN released : released[i].rec = released[j].rec => i = j
    <3> SUFFICES ASSUME NEW i \in DOMAIN released, NEW j \in DOMAIN released, i < j,
                        released[i].rec = released[j].rec
                 PROVE  FALSE
      BY <2>0 DEF OrderInv, TypeOK
    <3>1. released[i] \in Entry /\ released[i] = released[j]
      BY <2>0, RecIdentifies DEF Known, ReleasedSet, OrderInv, TypeOK
    <3>2. Before(released[i], released[j])
      BY <2>0 DEF OrderInv, InEventTimeOrder
    <3> QED
      BY <3>1, <3>2, EntryFields DEF Before
  <2> QED
    BY <2>0, <2>1, <2>2, <2>3 DEF Conserved, EveryRecordAccountedFor
<1> QED
  BY <1>1, AccountInvariant, PTL

-----------------------------------------------------------------------------
(* The buffer implements OrderedDelivery. *)

\* What a consumer sees of an entry.
Seen(e) == [ts |-> e.ts, rec |-> e.rec]

HeldView == {Seen(e) : e \in pending}
DeliveredView == [i \in DOMAIN released |-> Seen(released[i])]

\* What the views are, in terms of the buffer's own sets.
Views ==
  /\ released \in Seq(Entry) /\ pending \subseteq Entry
  /\ Len(DeliveredView) = Len(released) /\ DOMAIN DeliveredView = DOMAIN released
  /\ Delivery!DeliveredSet(DeliveredView) = {Seen(e) : e \in ReleasedSet}
  /\ HeldView \cup Delivery!DeliveredSet(DeliveredView) = {Seen(e) : e \in Known}
  /\ HeldView \cap Delivery!DeliveredSet(DeliveredView) = {}

LEMMA ViewsAreMapped == OrderInv => Views
<1> SUFFICES ASSUME OrderInv PROVE Views
  OBVIOUS
<1>1. /\ released \in Seq(Entry) /\ pending \subseteq Entry
      /\ DOMAIN released = 1 .. Len(released) /\ Len(released) \in Nat
  BY DEF OrderInv, TypeOK
<1>2. DOMAIN DeliveredView = DOMAIN released /\ Len(DeliveredView) = Len(released)
  <2> DEFINE R == {Seen(released[i]) : i \in DOMAIN released}
  <2>1. DeliveredView \in [1 .. Len(released) -> R]
    BY <1>1 DEF DeliveredView
  <2> HIDE DEF R
  <2>2. DeliveredView \in Seq(R) /\ Len(DeliveredView) = Len(released)
    BY <1>1, <2>1
  <2> QED
    BY <1>1, <2>1, <2>2
<1>3. Delivery!DeliveredSet(DeliveredView) = {Seen(e) : e \in ReleasedSet}
  BY <1>2 DEF DeliveredView, Delivery!DeliveredSet, ReleasedSet
<1>4. HeldView \cap Delivery!DeliveredSet(DeliveredView) = {}
  <2> SUFFICES ASSUME NEW e \in pending, NEW f \in ReleasedSet, Seen(e) = Seen(f)
               PROVE  FALSE
    BY <1>3 DEF HeldView
  <2>1. e.rec = f.rec
    BY DEF Seen
  <2> QED
    BY <2>1, RecIdentifies, BufferedNotReleased DEF Known
<1> QED
  BY <1>1, <1>2, <1>3, <1>4 DEF Views, HeldView, Known

\* A step that only releases hands over in order, nothing from behind the frontier.
LEMMA ReleaseDelivers ==
  ASSUME AccountInv, AccountInv', ReleasedGrows, UNCHANGED dropped,
         NEW A, {Seen(e) : e \in Known'} = {Seen(e) : e \in Known} \cup A
  PROVE  Delivery!Deliver(A) /\ Delivery!FrontierFollows
<1>0. OrderInv /\ OrderInv' /\ Views /\ Views'
  <2>1. Views'
    BY ViewsAreMapped, PTL DEF AccountInv
  <2> QED
    BY <2>1, ViewsAreMapped DEF AccountInv
<1>1. Delivery!Extends(DeliveredView, DeliveredView')
  BY <1>0 DEF Views, Delivery!Extends, DeliveredView, ReleasedGrows
<1>2. Delivery!InDeliveryOrder(DeliveredView')
  <2> SUFFICES ASSUME NEW i \in DOMAIN released', NEW j \in DOMAIN released', i < j
               PROVE  Delivery!Precedes(Seen(released'[i]), Seen(released'[j]))
    BY DEF Delivery!InDeliveryOrder, DeliveredView
  <2>1. Before(released'[i], released'[j])
    BY <1>0 DEF OrderInv, InEventTimeOrder
  <2>2. released'[i].seq < released'[j].seq <=> released'[i].rec < released'[j].rec
    BY <1>0 DEF OrderInv, SeqFollowsArrival, Known, ReleasedSet
  <2> QED
    BY <2>1, <2>2 DEF Before, Delivery!Precedes, Seen
<1> DEFINE n == Len(released)
           m == Len(released')
<1>3. /\ n \in Nat /\ m \in Nat /\ n <= m
      /\ DOMAIN released = 1 .. n /\ DOMAIN released' = 1 .. m
      /\ released \in Seq(Entry) /\ released' \in Seq(Entry)
      /\ \A i \in 1 .. n : released'[i] = released[i]
  BY <1>0 DEF OrderInv, TypeOK, ReleasedGrows
<1>4. \A i \in n + 1 .. m : ~Delivery!Behind(DeliveredView'[i].ts)
  <2> SUFFICES ASSUME NEW i \in n + 1 .. m, last_ts # None
               PROVE  ~(released'[i].ts < last_ts)
    BY <1>3 DEF Delivery!Behind, DeliveredView, Seen
  <2>1. released # <<>> /\ last_ts = released[n].ts
    BY <1>0 DEF OrderInv, Frontier
  <2>2. n \in 1 .. n /\ n < i /\ n \in 1 .. m /\ i \in 1 .. m
    BY <1>3, <2>1
  <2>3. Before(released'[n], released'[i])
    BY <1>0, <1>3, <2>2 DEF OrderInv, InEventTimeOrder
  <2>4. released'[n].ts \in Int /\ released'[i].ts \in Int /\ released'[n] = released[n]
    BY <1>3, <2>2, EntryFields
  <2> QED
    BY <2>1, <2>3, <2>4 DEF Before
<1>5. /\ HeldView' \cup Delivery!DeliveredSet(DeliveredView')
           = HeldView \cup A \cup Delivery!DeliveredSet(DeliveredView)
      /\ HeldView' \cap Delivery!DeliveredSet(DeliveredView') = {}
  BY <1>0 DEF Views
<1>6. Delivery!FrontierFollows
  <2>1. Frontier /\ Frontier' /\ Len(DeliveredView) = n /\ Len(DeliveredView') = m
    BY <1>0 DEF OrderInv, Views
  <2>0. Delivery!FrontierFollows <=>
          last_ts' = IF DeliveredView' = DeliveredView THEN last_ts
                     ELSE DeliveredView'[Len(DeliveredView')].ts
    BY DEF Delivery!FrontierFollows, DeliveredView, Seen
  <2>2. CASE DeliveredView' = DeliveredView
    <3>1. m = n /\ (released' = <<>> <=> released = <<>>)
      <4>1. m = n
        BY <2>1, <2>2
      <4>2. (n = 0 <=> released = <<>>) /\ (m = 0 <=> released' = <<>>)
        BY <1>3
      <4> QED
        BY <4>1, <4>2
    <3>2. CASE released = <<>>
      BY <2>0, <2>1, <2>2, <3>1, <3>2 DEF Frontier
    <3>3. CASE released # <<>>
      <4>1. n \in 1 .. n
        BY <1>3, <3>3
      <4>2. last_ts' = last_ts
        BY <1>3, <2>1, <3>1, <3>3, <4>1 DEF Frontier
      <4> QED
        BY <2>0, <2>2, <4>2
    <3> QED
      BY <3>2, <3>3
  <2>3. CASE DeliveredView' # DeliveredView
    <3>1. m # 0
      <4> SUFFICES ASSUME m = 0 PROVE released' = released
        BY <2>3 DEF DeliveredView
      <4> QED
        BY <1>3
    <3>2. m \in 1 .. m /\ released' # <<>>
      BY <1>3, <3>1
    <3>3. last_ts' = DeliveredView'[m].ts
      BY <1>3, <2>1, <3>2 DEF Frontier, DeliveredView, Seen
    <3> QED
      BY <2>0, <2>1, <2>3, <3>3
  <2> QED
    BY <2>2, <2>3
<1> QED
  BY <1>0, <1>1, <1>2, <1>3, <1>4, <1>5, <1>6
     DEF Delivery!Deliver, DeliveredView, HeldView, Seen, Views

\* Every step of the buffer is a step of an ordered delivery, or none at all.
LEMMA StepImplements ==
  ASSUME AccountInv, AccountInv', [Next]_vars
  PROVE  [Delivery!Next]_(Delivery!deliveryVars)
<1> DEFINE NotOffered(r) == /\ r \notin HeldView \cup Delivery!DeliveredSet(DeliveredView)
                            /\ r \notin dropped
<1>0. OrderInv /\ Views
  BY ViewsAreMapped DEF AccountInv
<1>1. ASSUME NEW ts \in Timestamps PROVE NotOffered(Straggler(ts))
  <2>1. \A e \in Known : Seen(e).rec \in Nat /\ Seen(e).rec <= arrivals
    BY <1>0, RecsType DEF Seen
  <2>2. \A r \in dropped : r.rec \in Nat /\ r.rec <= arrivals
    BY <1>0, RecsType
  <2>3. Straggler(ts).rec = arrivals + 1 /\ arrivals \in Nat
    BY <1>0, RecsType DEF Straggler
  <2> QED
    BY <1>0, <2>1, <2>2, <2>3 DEF Views
<1>2. ASSUME NEW ts \in Timestamps, arrivals < MaxArrivals PROVE Straggler(ts) \in LateRecord
  BY <1>0, <1>2, RecsType, ReorderAssumption DEF Straggler, LateRecord
<1>3. ASSUME NEW ts \in Timestamps, StepLate(ts)
      PROVE  \E r \in LateRecord : Delivery!Refuse(r)
  <2> PICK r : r = Straggler(ts)
    OBVIOUS
  <2>1. Behind(ts) /\ dropped' = dropped \cup {r} /\ arrivals < MaxArrivals
        /\ UNCHANGED <<pending, released, last_ts>>
    BY <1>3 DEF StepLate, Divert
  <2>2. Delivery!Behind(r.ts)
    BY <2>1 DEF Behind, Delivery!Behind, Straggler
  <2>3. Delivery!Refuse(r)
    BY <1>1, <2>1, <2>2 DEF Delivery!Refuse, HeldView, DeliveredView, Seen
  <2> QED
    BY <1>2, <2>1, <2>3
<1>4. ASSUME NEW ts \in Timestamps, StepBuffered(ts)
      PROVE  \E r \in LateRecord : Delivery!Accept(r)
  <2> PICK r : r = Straggler(ts)
    OBVIOUS
  <2> DEFINE entry == [ts |-> ts, seq |-> pending_seq, rec |-> arrivals + 1]
  <2>1. ReleasedGrows /\ Known' = Known \cup {entry}
    BY <1>0, <1>4, StepBufferedOrder
  <2>2. Seen(entry) = r
    BY DEF Seen, Straggler
  <2> HIDE DEF entry
  <2>3. {Seen(e) : e \in Known'} = {Seen(e) : e \in Known} \cup {r}
    BY <2>1, <2>2
  <2>4. UNCHANGED dropped /\ arrivals < MaxArrivals
    BY <1>4 DEF StepBuffered
  <2>5. Delivery!Deliver({r}) /\ Delivery!FrontierFollows
    BY <2>1, <2>3, <2>4, ReleaseDelivers
  <2>6. Delivery!Accept(r)
    BY <1>1, <2>5 DEF Delivery!Accept, HeldView, DeliveredView, Seen
  <2> QED
    BY <1>2, <2>4, <2>6
<1>5. ASSUME Known' = Known, ReleasedGrows, UNCHANGED dropped
      PROVE  Delivery!Deliver({}) /\ Delivery!FrontierFollows
  BY <1>5, ReleaseDelivers
<1>6. ASSUME NEW now \in Clocks, AdvanceWatermark(now)
      PROVE  Delivery!Deliver({}) /\ Delivery!FrontierFollows
  BY <1>0, <1>5, <1>6, AdvanceWatermarkOrder DEF AdvanceWatermark
<1>7. CASE Flush
  BY <1>0, <1>5, <1>7, FlushOrder DEF Flush, Delivery!Next
<1>8. CASE TakeLate \/ UNCHANGED vars
  BY <1>8 DEF TakeLate, vars, bufferVars, historyVars, Delivery!deliveryVars
<1> QED
  BY <1>3, <1>4, <1>6, <1>7, <1>8 DEF Next, Step, Delivery!Next

\* The buffer is an event-time reordering stage: its calls hand records over in
\* (ts, arrival) order, each once, and drop none that is not behind the frontier.
THEOREM Implementation == Spec => ImplementsOrderedDelivery
<1>1. Init => Delivery!Init
  BY DEF Init, Delivery!Init
<1>2. AccountInv /\ AccountInv' /\ [Next]_vars => [Delivery!Next]_(Delivery!deliveryVars)
  BY StepImplements
<1> QED
  BY <1>1, <1>2, AccountInvariant, PTL DEF Spec, ImplementsOrderedDelivery, Delivery!Spec

-----------------------------------------------------------------------------
(* The lateness window. *)

\* Until the stream is flushed the frontier stays behind the watermark.
FrontierWithinWindow ==
  ~flushed /\ last_ts # None =>
    max_ts_seen # None /\ last_ts <= SatSub(max_ts_seen, Lateness)

WindowInv ==
  /\ OrderInv
  /\ pending # {} => max_ts_seen # None
  /\ HeapWithinWindow
  /\ FrontierWithinWindow

LEMMA SatSubMonotonic ==
  ASSUME NEW a \in Int, NEW b \in Int, a <= b
  PROVE  SatSub(a, Lateness) <= SatSub(b, Lateness)
BY LatenessType, TimeAssumption DEF SatSub, Clamp

\* The greatest time seen only grows.
LEMMA MaxSeenGrows ==
  ASSUME OrderInv, NEW t \in Time
  PROVE  /\ MaxOr(max_ts_seen, t) \in Int /\ t <= MaxOr(max_ts_seen, t)
         /\ max_ts_seen # None => max_ts_seen \in Int /\ max_ts_seen <= MaxOr(max_ts_seen, t)
         /\ MaxOr(max_ts_seen, t) # None
BY ReorderAssumption, TimeAssumption DEF OrderInv, TypeOK, MaxOr, Time

LEMMA SatSubInt ==
  ASSUME NEW a \in Int
  PROVE  SatSub(a, Lateness) \in Int
BY LatenessType, TimeAssumption DEF SatSub, Clamp

\* A watermark that follows the greatest time seen keeps the frontier behind it.
LEMMA FrontierStaysBehind ==
  ASSUME FrontierWithinWindow, OrderInv, NEW seen \in Int, seen # None,
         max_ts_seen # None => max_ts_seen \in Int /\ max_ts_seen <= seen,
         max_ts_seen' = seen, flushed' = flushed,
         FrontierMovesTo(SatSub(seen, Lateness))
  PROVE  FrontierWithinWindow'
<1> SUFFICES ASSUME ~flushed, last_ts' # None
             PROVE  last_ts' <= SatSub(seen, Lateness)
  BY DEF FrontierWithinWindow
<1>1. CASE last_ts' = last_ts
  <2>1. max_ts_seen # None /\ last_ts <= SatSub(max_ts_seen, Lateness)
    BY <1>1 DEF FrontierWithinWindow
  <2>2. SatSub(max_ts_seen, Lateness) <= SatSub(seen, Lateness)
    BY <2>1, SatSubMonotonic
  <2>3. last_ts \in Int
    BY <1>1, TimestampsAreInts DEF OrderInv, TypeOK
  <2> QED
    BY <1>1, <2>1, <2>2, <2>3, SatSubInt
<1> QED
  BY <1>1 DEF FrontierMovesTo

LEMMA NextWindowInv ==
  ASSUME WindowInv, [Next]_vars
  PROVE  WindowInv'
<1> USE DEF WindowInv
<1>0. \A e \in pending : e \in Entry /\ e.ts \in Int
  BY EntryFields DEF OrderInv, TypeOK
<1>1. ASSUME NEW ts \in Timestamps, StepLate(ts) PROVE WindowInv'
  <2>1. OrderInv' /\ UNCHANGED <<pending, last_ts, max_ts_seen, flushed>>
    BY <1>1, StepLateOrder DEF StepLate, Divert
  <2> QED
    BY <2>1 DEF HeapWithinWindow, FrontierWithinWindow
<1>2. ASSUME NEW ts \in Timestamps, StepBuffered(ts) PROVE WindowInv'
  <2> DEFINE entry == [ts |-> ts, seq |-> pending_seq, rec |-> arrivals + 1]
             S == pending \cup {entry}
             seen == MaxOr(max_ts_seen, ts)
  <2>1. OrderInv' /\ entry.ts = ts
    BY <1>2, StepBufferedOrder
  <2>2. max_ts_seen' = seen /\ DrainUntil(S, SatSub(seen, Lateness)) /\ flushed' = flushed
    BY <1>2 DEF StepBuffered
  <2>3. seen \in Int /\ ts \in Int /\ ts <= seen /\ seen # None
        /\ (max_ts_seen # None => max_ts_seen \in Int /\ max_ts_seen <= seen)
    BY MaxSeenGrows, TimestampsAreInts, ReorderAssumption
  <2> HIDE DEF entry, seen
  <2>4. \A e \in S : e.ts \in Int /\ e.ts <= seen
    BY <1>0, <2>1, <2>3 DEF HeapWithinWindow
  <2>5. pending' = {e \in S : e.ts > SatSub(seen, Lateness)}
    BY <2>2 DEF DrainUntil
  <2>6. HeapWithinWindow'
    BY <2>2, <2>4, <2>5 DEF HeapWithinWindow
  <2>7. FrontierMovesTo(SatSub(seen, Lateness))
    BY <1>2, StepBufferedOrder DEF seen
  <2>8. FrontierWithinWindow'
    BY <2>2, <2>3, <2>7, FrontierStaysBehind
  <2> QED
    BY <2>1, <2>2, <2>3, <2>6, <2>8
<1>3. ASSUME NEW now \in Clocks, AdvanceWatermark(now) PROVE WindowInv'
  <2> DEFINE seen == MaxOr(max_ts_seen, now)
  <2>1. OrderInv'
    BY <1>3, AdvanceWatermarkOrder
  <2>2. /\ max_ts_seen' = seen /\ flushed' = flushed
        /\ pending' = {e \in pending : e.ts > SatSub(now, Lateness)}
    BY <1>3 DEF AdvanceWatermark, DrainUntil
  <2>3. seen \in Int /\ now \in Int /\ now <= seen /\ seen # None
        /\ (max_ts_seen # None => max_ts_seen \in Int /\ max_ts_seen <= seen)
        /\ (seen = now \/ seen = max_ts_seen)
    BY MaxSeenGrows, TimestampsAreInts, ReorderAssumption DEF MaxOr
  <2> HIDE DEF seen
  <2>4. HeapWithinWindow'
    <3> SUFFICES ASSUME NEW e \in pending'
                 PROVE  e.ts > SatSub(seen, Lateness) /\ e.ts <= seen
      BY <2>2 DEF HeapWithinWindow
    <3>1. e \in pending /\ e.ts > SatSub(now, Lateness) /\ e.ts \in Int
      BY <1>0, <2>2
    <3>2. max_ts_seen # None /\ e.ts > SatSub(max_ts_seen, Lateness) /\ e.ts <= max_ts_seen
      BY <3>1 DEF HeapWithinWindow
    <3> QED
      BY <2>3, <3>1, <3>2
  <2>5. FrontierMovesTo(SatSub(now, Lateness))
    BY <1>3, AdvanceWatermarkOrder
  <2>6. FrontierMovesTo(SatSub(seen, Lateness))
    <3>1. SatSub(now, Lateness) <= SatSub(seen, Lateness)
      BY <2>3, SatSubMonotonic
    <3>2. SatSub(now, Lateness) \in Int /\ SatSub(seen, Lateness) \in Int
      BY <2>3, SatSubInt
    <3> QED
      BY <2>5, <3>1, <3>2 DEF FrontierMovesTo
  <2>7. FrontierWithinWindow'
    BY <2>2, <2>3, <2>6, FrontierStaysBehind
  <2> QED
    BY <2>1, <2>2, <2>3, <2>4, <2>7
<1>4. CASE Flush
  <2>1. OrderInv' /\ pending' = {} /\ flushed'
    BY <1>4, FlushOrder DEF Flush
  <2> QED
    BY <2>1 DEF HeapWithinWindow, FrontierWithinWindow
<1>5. CASE TakeLate \/ UNCHANGED vars
  <2>1. OrderInv' /\ UNCHANGED <<pending, last_ts, max_ts_seen, flushed>>
    BY <1>5, TakeLateOrder DEF TakeLate, vars, bufferVars, historyVars
  <2> QED
    BY <2>1 DEF HeapWithinWindow, FrontierWithinWindow
<1> QED
  BY <1>1, <1>2, <1>3, <1>4, <1>5 DEF Next, Step

LEMMA WindowInvariant == Spec => []WindowInv
<1>1. Init => WindowInv
  BY InitOrder DEF Init, WindowInv, HeapWithinWindow, FrontierWithinWindow
<1> QED
  BY <1>1, NextWindowInv, PTL DEF Spec

\* Whichever clock moved the watermark, no record that has aged past the lateness
\* window stays in the heap.
THEOREM AgedRecordsLeave == Spec => []HeapWithinWindow
<1>1. WindowInv => HeapWithinWindow
  BY DEF WindowInv
<1> QED
  BY <1>1, WindowInvariant, PTL

\* A record no more than max_lateness behind everything seen so far is never
\* dropped, saturation at the ends of i64 included, until the stream is flushed.
THEOREM LatenessIsHonoured == Spec => LatenessHonoured
<1>1. ASSUME WindowInv, [Next]_vars, NEW r \in dropped' \ dropped, ~flushed
      PROVE  r.ts < max_ts_seen - Lateness
  <2>1. PICK ts \in Timestamps : StepLate(ts)
    BY <1>1 DEF Next, Step, StepBuffered, AdvanceWatermark, Flush, TakeLate, vars, historyVars
  <2>2. r.ts = ts /\ last_ts # None /\ ts < last_ts
    BY <1>1, <2>1 DEF StepLate, Divert, Behind, Straggler
  <2>3. max_ts_seen # None /\ last_ts <= SatSub(max_ts_seen, Lateness)
    BY <1>1, <2>2 DEF WindowInv, FrontierWithinWindow
  <2>4. ts \in Time /\ last_ts \in Int /\ max_ts_seen \in Int
    BY <1>1, <2>2, <2>3, ReorderAssumption, TimestampsAreInts DEF WindowInv, OrderInv, TypeOK
  <2>5. ts < SatSub(max_ts_seen, Lateness)
    BY <2>2, <2>3, <2>4, SatSubInt DEF Time
  <2>6. ts < max_ts_seen - Lateness
    BY <2>4, <2>5, LatenessType, TimeAssumption DEF SatSub, Clamp, Time
  <2> QED
    BY <2>2, <2>6
<1>2. WindowInv /\ [Next]_vars =>
        [\A r \in dropped' \ dropped : flushed \/ r.ts < max_ts_seen - Lateness]_vars
  BY <1>1
<1> QED
  BY <1>2, WindowInvariant, PTL DEF Spec, LatenessHonoured
=============================================================================
