------------------------- MODULE CepRuntime_proofs -------------------------
(***************************************************************************)
(* The pattern matcher is correct for every pattern, predicate, stream,    *)
(* clock, lateness and limit: an opening event has one outcome, whatever   *)
(* ticks, events, flushes and resets do in between, and a tick leaves no   *)
(* partial match that is overdue.                                          *)
(*                                                                         *)
(* The proof goes the way of the code, from the inside out: what one       *)
(* partial makes of one event (AdvanceOne), what a sweep over all of them  *)
(* makes of their order and of the matches (AdvanceDeadlines,              *)
(* AdvancePartials, Conclude), one event (MatchOne), the events of a call  *)
(* (MatchAll), the call (Tick, Push, Flush). The reorder buffer comes in   *)
(* by the lemmas of ReorderBuffer_proofs.                                  *)
(***************************************************************************)
EXTENDS CepRuntime, HeapOrder_proofs

-----------------------------------------------------------------------------
(* The elements at some positions of a sequence, in order. *)

\* p lists the c numbers of T from the least to the greatest.
Lists(p, c, T) ==
  /\ p \in [1 .. c -> T]
  /\ \A j, k \in 1 .. c : j < k => p[j] < p[k]
  /\ \A i \in T : \E k \in 1 .. c : p[k] = i

\* p is the list by which Picked(s, T) takes the elements of s at T.
IsPick(p, s, T) ==
  /\ Lists(p, Cardinality(T), T)
  /\ Picked(s, T) = [k \in 1 .. Cardinality(T) |-> s[p[k]]]

\* A set of positions is finite.
LEMMA PositionsFinite ==
  ASSUME NEW n \in Nat, NEW T \in SUBSET (1 .. n)
  PROVE  IsFiniteSet(T) /\ Cardinality(T) \in Nat
<1>1. IsFiniteSet(1 .. n)
  BY FS_Interval
<1>2. IsFiniteSet(T)
  BY <1>1, FS_Subset
<1> QED
  BY <1>2, FS_CardinalityType

\* Picked takes the elements at the positions of T, each once and in order.
LEMMA PickedInOrder ==
  ASSUME NEW n \in Nat, NEW T \in SUBSET (1 .. n), NEW s
  PROVE  \E p : IsPick(p, s, T)
<1> DEFINE c == Cardinality(T)
           entry(i) == [ts |-> i, seq |-> i]
           H == {entry(i) : i \in T}
           h == PopOrder(H)
           Increases(p) == \A j, k \in 1 .. c : j < k => p[j] < p[k]
<1>0. \A i \in T : i \in Int
  OBVIOUS
<1>1. IsFiniteSet(T) /\ c \in Nat
  BY PositionsFinite
<1>2. IsFiniteSet(H) /\ Cardinality(H) = c
  <2> DEFINE f == [i \in T |-> entry(i)]
  <2>1. f \in Bijection(T, H)
    <3>1. f \in [T -> H]
      OBVIOUS
    <3>2. \A i, j \in T : f[i] = f[j] => i = j
      <4> SUFFICES ASSUME NEW i \in T, NEW j \in T, f[i] = f[j] PROVE i = j
        OBVIOUS
      <4>1. entry(i).ts = entry(j).ts
        OBVIOUS
      <4> QED
        BY <4>1
    <3>3. \A e \in H : \E i \in T : f[i] = e
      OBVIOUS
    <3> HIDE DEF f, H
    <3> QED
      BY <3>1, <3>2, <3>3 DEF Bijection, Injection, Surjection, IsInjective
  <2> HIDE DEF f, H
  <2> QED
    BY <1>1, <2>1, FS_Bijection DEF ExistsBijection
<1>3. Heap(H)
  <2>1. \A e \in H : e.ts \in Int /\ e.seq \in Int
    BY <1>0
  <2>2. \A e, f \in H : e.seq = f.seq => e = f
    OBVIOUS
  <2> QED
    BY <1>2, <2>1, <2>2 DEF Heap
<1>4. h \in Seq(H) /\ DOMAIN h = 1 .. c /\ \A j, k \in 1 .. c : j < k => Before(h[j], h[k])
  <2>1. DOMAIN h = 1 .. c
    BY <1>2 DEF PopOrder
  <2> HIDE DEF H, h
  <2> QED
    BY <1>3, <2>1, PopOrderCorrect DEF h
<1> DEFINE q == [k \in 1 .. c |-> h[k].ts]
<1>5. q \in [1 .. c -> T] /\ Increases(q)
  <2>1. \A k \in 1 .. c : h[k] \in H
    <3> HIDE DEF H, h
    <3>1. h \in Seq(H)
      BY <1>4
    <3>2. \A k \in DOMAIN h : h[k] \in H
      BY <3>1
    <3> QED
      BY <1>4, <3>2
  <2>2. \A k \in 1 .. c : h[k].ts \in T /\ h[k].ts \in Int /\ h[k].seq = h[k].ts
    <3> HIDE DEF h
    <3> QED
      BY <1>0, <2>1
  <2>3. \A j, k \in 1 .. c : j < k => h[j].ts < h[k].ts
    <3> HIDE DEF h, H
    <3> QED
      BY <1>4, <2>2 DEF Before
  <2> HIDE DEF h, H
  <2> QED
    BY <2>2, <2>3
<1> DEFINE p == CHOOSE p \in [1 .. c -> T] : Increases(p)
<1> HIDE DEF h, H, q
<1>6. p \in [1 .. c -> T] /\ Increases(p)
  BY <1>5
<1>7. Picked(s, T) = [k \in 1 .. c |-> s[p[k]]]
  BY DEF Picked
<1> HIDE DEF p
<1>8. \A i \in T : \E k \in 1 .. c : p[k] = i
  <2>1. p \in Injection(1 .. c, T)
    <3>1. ASSUME NEW j \in 1 .. c, NEW k \in 1 .. c, p[j] = p[k]
          PROVE  j = k
      <4>1. p[j] \in Int
        BY <1>0, <1>6
      <4>2. ~(p[j] < p[k]) /\ ~(p[k] < p[j])
        BY <3>1, <4>1
      <4>3. ~(j < k) /\ ~(k < j)
        BY <1>6, <4>2
      <4> QED
        BY <1>1, <4>3
    <3> QED
      BY <1>6, <3>1 DEF Injection, IsInjective
  <2>2. IsFiniteSet(1 .. c) /\ Cardinality(1 .. c) = c
    <3> HIDE DEF c
    <3>1. 1 \in Int /\ c \in Int
      BY <1>1
    <3>2. Cardinality(1 .. c) = IF 1 > c THEN 0 ELSE c - 1 + 1
      BY <3>1, FS_Interval
    <3>3. IsFiniteSet(1 .. c)
      BY <3>1, FS_Interval
    <3> QED
      BY <1>1, <3>2, <3>3
  <2>3. p \in Surjection(1 .. c, T)
    BY <1>1, <2>1, <2>2, FS_Injection
  <2> QED
    BY <2>3 DEF Surjection
<1> QED
  BY <1>1, <1>6, <1>7, <1>8 DEF Lists, IsPick

-----------------------------------------------------------------------------
(* What a partial match makes of one event. *)

\* The payloads, the events the matcher sees, its matches and its partial matches.
AllEvents == UNION {r.events : r \in Runtimes}
Event == [ev : AllEvents, ts : Timestamps, rec : 1 .. MaxArrivals]
Match == Seq(Event) \ {<<>>}
Partial == [captures : Match, next : Nat, deadline : Time \cup {None}, count : Nat]

\* The conjunct Waiting of OneOutcomePerOpening, of one partial.
Waits(pm) ==
  /\ pm.next \in 2 .. Len(pattern)
  /\ pm.count < Awaited(pm).max
  /\ pm.deadline = None <=> Awaited(pm).within = None

\* The partials that may be in flight.
InFlight == {pm \in Partial : Waits(pm)}

\* What offering an event to a partial may make of it.
Advances(pm, r) ==
  /\ r.disposition \in {"Keep", "Complete", "Remove"}
  /\ r.pm \in Partial
  /\ r.pm.captures[1] = pm.captures[1]
  /\ r.disposition = "Keep" => Waits(r.pm)

\* A pattern has at least one step, and each is as the builder makes them.
LEMMA PatternType ==
  ASSUME runtime \in Runtimes
  PROVE  /\ Len(pattern) \in Nat /\ 1 <= Len(pattern) /\ DOMAIN pattern = 1 .. Len(pattern)
         /\ \A k \in 1 .. Len(pattern) : IsStep(pattern[k])
<1>1. pattern # <<>> /\ pattern \in Seq(Range(pattern)) /\ \A k \in DOMAIN pattern : IsStep(pattern[k])
  BY CepAssumption DEF pattern
<1> QED
  BY <1>1

\* Times are integers, and None is not one of them.
LEMMA TimesAreInts == Time \subseteq Int /\ None \notin Time /\ Timestamps \subseteq Time
BY TimeAssumption, CepAssumption DEF Time

\* Saturating addition stays within the times.
LEMMA SatAddType ==
  ASSUME NEW a \in Time, NEW b \in Time
  PROVE  SatAdd(a, b) \in Time
BY TimeAssumption DEF SatAdd, Clamp, Time

\* next_deadline_for: a deadline is set exactly for a bounded step.
LEMMA DeadlineType ==
  ASSUME runtime \in Runtimes, NEW k \in Nat, 1 <= k, NEW ts \in Time
  PROVE  /\ NextDeadlineFor(k, ts) \in Time \cup {None}
         /\ k <= Len(pattern) => (NextDeadlineFor(k, ts) = None <=> pattern[k].within = None)
<1>1. CASE k > Len(pattern)
  BY <1>1, PatternType DEF NextDeadlineFor
<1>2. CASE k <= Len(pattern)
  <2>1. pattern[k].within \in Time \cup {None}
    BY <1>2, PatternType DEF IsStep
  <2>2. pattern[k].within # None => SatAdd(ts, pattern[k].within) \in Time
    BY <2>1, SatAddType
  <2> QED
    BY <1>2, <2>2, PatternType, TimesAreInts DEF NextDeadlineFor
<1> QED
  BY <1>1, <1>2, PatternType

\* The fields of a partial.
LEMMA PartialFields ==
  ASSUME NEW pm \in Partial
  PROVE  /\ pm.captures \in Seq(Event) /\ pm.captures # <<>>
         /\ pm.next \in Nat /\ pm.count \in Nat /\ pm.deadline \in Time \cup {None}
BY DEF Partial, Match

\* advance_step: the partial goes on to the next step and waits for it, if there is one.
LEMMA AdvanceStepType ==
  ASSUME runtime \in Runtimes, NEW pm \in Partial, 1 <= pm.next, NEW ts \in Time
  PROVE  /\ AdvanceStep(pm, ts) \in Partial
         /\ AdvanceStep(pm, ts).captures = pm.captures
         /\ ~Completed(AdvanceStep(pm, ts)) => Waits(AdvanceStep(pm, ts))
<1> DEFINE k == pm.next + 1
           d == NextDeadlineFor(k, ts)
           q == AdvanceStep(pm, ts)
<1>1. k \in Nat /\ 2 <= k
  BY PartialFields
<1>2. d \in Time \cup {None} /\ (k <= Len(pattern) => (d = None <=> pattern[k].within = None))
  BY <1>1, DeadlineType
<1> HIDE DEF d
<1>3. q.next = k /\ q.count = 0 /\ q.deadline = d /\ q.captures = pm.captures /\ q \in Partial
  BY <1>1, <1>2 DEF AdvanceStep, Partial, d
<1> HIDE DEF q
<1>4. ASSUME ~Completed(q) PROVE Waits(q)
  <2>1. k \in 2 .. Len(pattern)
    BY <1>1, <1>3, <1>4, PatternType DEF Completed
  <2>2. IsStep(pattern[k])
    BY <2>1, PatternType
  <2>3. 0 < pattern[k].max
    BY <2>2 DEF IsStep
  <2> QED
    BY <1>2, <1>3, <2>1, <2>3 DEF Waits, Awaited
<1> QED
  BY <1>3, <1>4 DEF q

\* Offering the event to one step.
LEMMA OfferType ==
  ASSUME runtime \in Runtimes, NEW pm \in InFlight, NEW e \in Event
  PROVE  Advances(pm, Offer(pm, e))
<1> DEFINE step == Awaited(pm)
           captured == [pm EXCEPT !.captures = Append(@, e), !.count = @ + 1]
           r == Offer(pm, e)
<1>0. /\ pm \in Partial /\ Waits(pm) /\ e.ts \in Time
      /\ pm.next \in 2 .. Len(pattern) /\ pm.count < step.max
  BY TimesAreInts DEF InFlight, Event, Waits
<1>1. step.negative \in BOOLEAN /\ step.max \in Nat
  BY <1>0, PatternType DEF Awaited, IsStep
<1>2. /\ captured.next = pm.next /\ captured.deadline = pm.deadline
      /\ captured.count = pm.count + 1 /\ captured.captures = Append(pm.captures, e)
  BY <1>0 DEF Partial
<1>3. captured \in Partial /\ captured.captures[1] = pm.captures[1]
  <2>1. Append(pm.captures, e) \in Match /\ Append(pm.captures, e)[1] = pm.captures[1]
    BY <1>0, PartialFields DEF Match
  <2>2. pm.count + 1 \in Nat
    BY <1>0, PartialFields
  <2> QED
    BY <1>0, <1>2, <2>1, <2>2 DEF Partial
<1> HIDE DEF captured
<1>4. CASE step.negative
  <2>1. r = Disposed(IF Satisfies(pm, e) THEN "Remove" ELSE "Keep", pm)
    BY <1>4 DEF Offer
  <2> QED
    BY <1>0, <2>1 DEF Disposed, Advances
<1>5. CASE ~step.negative /\ Satisfies(pm, e)
  <2>1. r = IF captured.count >= step.max THEN KeepOrComplete(AdvanceStep(captured, e.ts))
            ELSE Disposed("Keep", captured)
    BY <1>5 DEF Offer, captured
  <2>2. CASE captured.count >= step.max
    <3> DEFINE q == AdvanceStep(captured, e.ts)
    <3>1. q \in Partial /\ q.captures = captured.captures /\ (~Completed(q) => Waits(q))
      <4>1. 1 <= captured.next
        BY <1>0, <1>2
      <4> QED
        BY <1>0, <1>3, <4>1, AdvanceStepType
    <3> HIDE DEF q
    <3>2. r = Disposed(IF Completed(q) THEN "Complete" ELSE "Keep", q)
      BY <2>1, <2>2 DEF KeepOrComplete, q
    <3> QED
      BY <1>3, <3>1, <3>2 DEF Disposed, Advances
  <2>3. CASE ~(captured.count >= step.max)
    <3>1. Waits(captured)
      <4>1. captured.count < step.max
        BY <1>0, <1>1, <1>2, <2>3, PartialFields
      <4> QED
        BY <1>0, <1>2, <4>1 DEF Waits, Awaited
    <3> QED
      BY <1>3, <2>1, <2>3, <3>1 DEF Disposed, Advances
  <2> QED
    BY <2>2, <2>3
<1>6. CASE ~step.negative /\ ~Satisfies(pm, e)
  <2>1. r = Disposed(IF Forbids(pm, e) \/ step.next THEN "Remove" ELSE "Keep", pm)
    BY <1>6 DEF Offer
  <2> QED
    BY <1>0, <2>1 DEF Disposed, Advances
<1> QED
  BY <1>4, <1>5, <1>6

\* advance_one: a repetition that ends offers the event to two steps in a row.
LEMMA AdvanceOneType ==
  ASSUME runtime \in Runtimes, NEW pm \in InFlight, NEW e \in Event
  PROVE  Advances(pm, AdvanceOne(pm, e))
<1> DEFINE q == AdvanceStep(pm, e.ts)
<1>1. q \in Partial /\ q.captures = pm.captures /\ (~Completed(q) => Waits(q))
  <2>1. pm \in Partial /\ pm.next \in 2 .. Len(pattern) /\ Len(pattern) \in Nat
    BY PatternType DEF InFlight, Waits
  <2>2. 1 <= pm.next
    BY <2>1
  <2>3. e.ts \in Time
    BY TimesAreInts DEF Event
  <2> QED
    BY <2>1, <2>2, <2>3, AdvanceStepType
<1> HIDE DEF q
<1>2. CASE ~EndsRepetition(pm, e)
  BY <1>2, OfferType DEF AdvanceOne
<1>3. CASE EndsRepetition(pm, e) /\ Completed(q)
  <2>1. AdvanceOne(pm, e) = Disposed("Complete", q)
    BY <1>3 DEF AdvanceOne, q
  <2> QED
    BY <1>1, <2>1 DEF Disposed, Advances
<1>4. CASE EndsRepetition(pm, e) /\ ~Completed(q)
  <2>1. AdvanceOne(pm, e) = Offer(q, e)
    BY <1>4 DEF AdvanceOne, q
  <2>2. q \in InFlight
    BY <1>1, <1>4 DEF InFlight
  <2>3. Advances(q, Offer(q, e))
    BY <2>2, OfferType
  <2> QED
    BY <1>1, <2>1, <2>3 DEF Advances
<1> QED
  BY <1>2, <1>3, <1>4

-----------------------------------------------------------------------------
(* The account of the openings, and the sweeps that keep it. *)

\* The states of the matcher.
State ==
  {st \in [flights : Seq(InFlight), out : Seq(Match), drops : [DropReason -> Nat]] :
     Len(st.flights) <= MAX_IN_FLIGHT}

\* The record that opened a match, the records of the events m, that m has each
\* once, and that it has a before b.
Opening(captures) == captures[1].rec
Recs(m) == {m[i].rec : i \in DOMAIN m}
Distinct(m) == \A i, j \in DOMAIN m : m[i].rec = m[j].rec => i = j
Precedes(m, a, b) == \E x, y \in DOMAIN m : x < y /\ m[x].rec = a /\ m[y].rec = b

\* The partials and matches of st, found after the events m, open with events of m
\* that are not among those of earlier matches, no two with the same.
Accounts(st, m, earlier) ==
  /\ \A i \in DOMAIN st.out : Opening(st.out[i]) \in Recs(m) \ earlier
  /\ \A i, j \in DOMAIN st.out : Opening(st.out[i]) = Opening(st.out[j]) => i = j
  /\ \A i \in DOMAIN st.flights : Opening(st.flights[i].captures) \in Recs(m) \ earlier
  /\ \A i \in DOMAIN st.flights, j \in DOMAIN st.out :
       Opening(st.flights[i].captures) # Opening(st.out[j])
  /\ \A i, j \in DOMAIN st.flights :
       i < j => Precedes(m, Opening(st.flights[i].captures), Opening(st.flights[j].captures))

\* Some partials stay, possibly advanced, in their order; others become matches.
Settles(st, g, K, D, p, a, q, b, st2) ==
  /\ g \in [DOMAIN st.flights -> Partial]
  /\ \A i \in DOMAIN st.flights : g[i].captures[1] = st.flights[i].captures[1]
  /\ K \in SUBSET DOMAIN st.flights /\ D \in SUBSET DOMAIN st.flights /\ K \cap D = {}
  /\ \A i \in K : Waits(g[i])
  /\ a \in Nat /\ p \in [1 .. a -> K] /\ \A j, k \in 1 .. a : j < k => p[j] < p[k]
  /\ b \in Nat /\ q \in [1 .. b -> D] /\ \A j, k \in 1 .. b : q[j] = q[k] => j = k
  /\ st2.flights = [k \in 1 .. a |-> g[p[k]]]
  /\ st2.out = st.out \o [k \in 1 .. b |-> g[q[k]].captures]

\* The fields of a state.
LEMMA StateFields ==
  ASSUME NEW st \in State
  PROVE  /\ st.flights \in Seq(InFlight) /\ Len(st.flights) \in Nat /\ Len(st.flights) <= MAX_IN_FLIGHT
         /\ DOMAIN st.flights = 1 .. Len(st.flights)
         /\ \A i \in DOMAIN st.flights : st.flights[i] \in Partial /\ Waits(st.flights[i])
         /\ st.out \in Seq(Match) /\ Len(st.out) \in Nat /\ DOMAIN st.out = 1 .. Len(st.out)
         /\ st.drops \in [DropReason -> Nat]
<1>1. st.flights \in Seq(InFlight) /\ st.out \in Seq(Match) /\ st.drops \in [DropReason -> Nat]
      /\ Len(st.flights) <= MAX_IN_FLIGHT
  BY DEF State
<1>2. \A i \in DOMAIN st.flights : st.flights[i] \in InFlight
  <2>1. st.flights \in Seq(InFlight)
    BY <1>1
  <2> QED
    BY <2>1
<1> QED
  BY <1>1, <1>2 DEF InFlight

\* Concatenation, index by index.
LEMMA ConcatItems ==
  ASSUME NEW S, NEW s \in Seq(S), NEW t \in Seq(S)
  PROVE  /\ s \o t \in Seq(S) /\ Len(s \o t) = Len(s) + Len(t)
         /\ DOMAIN (s \o t) = 1 .. Len(s) + Len(t)
         /\ \A i \in 1 .. Len(s) : (s \o t)[i] = s[i]
         /\ \A k \in 1 .. Len(t) : (s \o t)[Len(s) + k] = t[k]
         /\ \A i \in DOMAIN (s \o t) :
              i \in 1 .. Len(s) \/ \E k \in 1 .. Len(t) : i = Len(s) + k
<1>1. /\ s \o t \in Seq(S) /\ Len(s \o t) = Len(s) + Len(t)
      /\ DOMAIN (s \o t) = 1 .. Len(s) + Len(t)
      /\ Len(s) \in Nat /\ Len(t) \in Nat
  OBVIOUS
<1>2. ASSUME NEW i \in DOMAIN (s \o t), i \notin 1 .. Len(s)
      PROVE  \E k \in 1 .. Len(t) : i = Len(s) + k
  <2>1. i - Len(s) \in 1 .. Len(t) /\ i = Len(s) + (i - Len(s))
    BY <1>1, <1>2
  <2> QED
    BY <2>1
<1> QED
  BY <1>1, <1>2

\* An increasing list is of at most as many numbers as there are.
LEMMA IncreasingLength ==
  ASSUME NEW n \in Nat, NEW a \in Nat, NEW p \in [1 .. a -> 1 .. n],
         \A j, k \in 1 .. a : j < k => p[j] < p[k]
  PROVE  a <= n
<1>1. ASSUME NEW j \in 1 .. a, NEW k \in 1 .. a, p[j] = p[k] PROVE j = k
  <2>1. p[j] \in Int /\ p[k] \in Int /\ j \in Int /\ k \in Int
    OBVIOUS
  <2>2. ~(j < k) /\ ~(k < j)
    BY <1>1, <2>1
  <2> QED
    BY <2>1, <2>2
<1>2. p \in Injection(1 .. a, 1 .. n)
  BY <1>1 DEF Injection, IsInjective
<1>3. IsFiniteSet(1 .. n) /\ Cardinality(1 .. n) = n /\ Cardinality(1 .. a) = a
  <2>1. 1 \in Int /\ n \in Int /\ a \in Int
    OBVIOUS
  <2>2. Cardinality(1 .. n) = IF 1 > n THEN 0 ELSE n - 1 + 1
    BY <2>1, FS_Interval
  <2>3. Cardinality(1 .. a) = IF 1 > a THEN 0 ELSE a - 1 + 1
    BY <2>1, FS_Interval
  <2>4. IsFiniteSet(1 .. n)
    BY <2>1, FS_Interval
  <2> QED
    BY <2>2, <2>3, <2>4
<1> QED
  BY <1>2, <1>3, FS_Injection

\* What comes of such a sweep is a state again,
LEMMA SettlesType ==
  ASSUME NEW st \in State, NEW g, NEW K, NEW D, NEW p, NEW a, NEW q, NEW b, NEW fl, NEW out, NEW d,
         Settles(st, g, K, D, p, a, q, b, [flights |-> fl, out |-> out, drops |-> d]),
         d \in [DropReason -> Nat]
  PROVE  [flights |-> fl, out |-> out, drops |-> d] \in State
<1> DEFINE new == [k \in 1 .. b |-> g[q[k]].captures]
           n == Len(st.flights)
<1>1. /\ g \in [1 .. n -> Partial]
      /\ K \in SUBSET (1 .. n) /\ D \in SUBSET (1 .. n) /\ \A i \in K : Waits(g[i])
      /\ a \in Nat /\ p \in [1 .. a -> K] /\ \A j, k \in 1 .. a : j < k => p[j] < p[k]
      /\ b \in Nat /\ q \in [1 .. b -> D]
      /\ fl = [k \in 1 .. a |-> g[p[k]]] /\ out = st.out \o new
  BY StateFields DEF Settles
<1>2. \A k \in 1 .. a : g[p[k]] \in InFlight
  BY <1>1 DEF InFlight
<1>3. fl \in Seq(InFlight) /\ Len(fl) = a
  BY <1>1, <1>2
<1>4. a <= n
  <2>1. p \in [1 .. a -> 1 .. n] /\ n \in Nat
    BY <1>1, StateFields
  <2> QED
    BY <1>1, <2>1, IncreasingLength
<1>5. \A k \in 1 .. b : g[q[k]].captures \in Match
  BY <1>1 DEF Partial
<1>6. new \in Seq(Match)
  BY <1>1, <1>5
<1>7. out \in Seq(Match)
  <2> HIDE DEF new
  <2> QED
    BY <1>1, <1>6, StateFields, ConcatItems
<1>8. a <= MAX_IN_FLIGHT
  BY <1>1, <1>4, StateFields, CepAssumption
<1> QED
  BY <1>3, <1>7, <1>8 DEF State

\* and keeps the account: nothing is emitted that was also kept, nothing twice, and
\* the partials that stay are in the order in which they were opened.
LEMMA SettlesAccounts ==
  ASSUME NEW st \in State, NEW m \in Seq(Event), NEW earlier, Distinct(m), Accounts(st, m, earlier),
         NEW g, NEW K, NEW D, NEW p, NEW a, NEW q, NEW b, NEW st2,
         Settles(st, g, K, D, p, a, q, b, st2)
  PROVE  Accounts(st2, m, earlier)
<1> DEFINE new == [k \in 1 .. b |-> g[q[k]].captures]
           n == Len(st.flights)
           open(i) == Opening(st.flights[i].captures)
<1>1. /\ g \in [1 .. n -> Partial]
      /\ K \in SUBSET (1 .. n) /\ D \in SUBSET (1 .. n) /\ K \cap D = {}
      /\ \A i \in 1 .. n : g[i].captures[1] = st.flights[i].captures[1]
      /\ a \in Nat /\ p \in [1 .. a -> K] /\ \A j, k \in 1 .. a : j < k => p[j] < p[k]
      /\ b \in Nat /\ q \in [1 .. b -> D] /\ \A j, k \in 1 .. b : q[j] = q[k] => j = k
      /\ st2.flights = [k \in 1 .. a |-> g[p[k]]] /\ st2.out = st.out \o new
      /\ n \in Nat /\ DOMAIN st.flights = 1 .. n
  BY StateFields DEF Settles
<1>2. \A i \in 1 .. n : Opening(g[i].captures) = open(i)
  BY <1>1 DEF Opening
<1>3. new \in Seq(Match) /\ Len(new) = b /\ \A k \in 1 .. b : new[k] = g[q[k]].captures
  <2>1. \A k \in 1 .. b : g[q[k]].captures \in Match
    BY <1>1 DEF Partial
  <2> QED
    BY <1>1, <2>1
<1>4. \A k \in 1 .. b : q[k] \in 1 .. n /\ q[k] \notin K /\ Opening(new[k]) = open(q[k])
  BY <1>1, <1>2, <1>3
<1>5. DOMAIN st2.flights = 1 .. a
      /\ \A k \in 1 .. a : p[k] \in K /\ p[k] \in 1 .. n /\ Opening(st2.flights[k].captures) = open(p[k])
  BY <1>1, <1>2
<1> DEFINE old == 1 .. Len(st.out)
           later(i) == \E k \in 1 .. b : i = Len(st.out) + k
<1>6. /\ Len(st.out) \in Nat /\ DOMAIN st.out = old
      /\ \A i \in DOMAIN st2.out : i \in old \/ later(i)
      /\ \A i \in old : st2.out[i] = st.out[i]
      /\ \A k \in 1 .. b : st2.out[Len(st.out) + k] = new[k]
  <2> HIDE DEF new
  <2>1. st.out \in Seq(Match) /\ Len(st.out) \in Nat /\ DOMAIN st.out = old
    BY StateFields
  <2>2. st2.out = st.out \o new /\ new \in Seq(Match) /\ Len(new) = b
    BY <1>1, <1>3
  <2>3. /\ \A i \in DOMAIN (st.out \o new) : i \in old \/ \E k \in 1 .. Len(new) : i = Len(st.out) + k
        /\ \A i \in old : (st.out \o new)[i] = st.out[i]
        /\ \A k \in 1 .. Len(new) : (st.out \o new)[Len(st.out) + k] = new[k]
    BY <2>1, <2>2, ConcatItems
  <2> QED
    BY <2>1, <2>2, <2>3
<1>7. \A i, j \in 1 .. n : open(i) = open(j) => i = j
  <2> SUFFICES ASSUME NEW i \in 1 .. n, NEW j \in 1 .. n, i < j, open(i) = open(j) PROVE FALSE
    BY <1>1
  <2>1. PICK x \in DOMAIN m, y \in DOMAIN m : x < y /\ m[x].rec = open(i) /\ m[y].rec = open(j)
    BY <1>1 DEF Accounts, Precedes
  <2>2. x = y
    BY <2>1 DEF Distinct
  <2>3. x \in Nat
    OBVIOUS
  <2> QED
    BY <2>1, <2>2, <2>3
<1>8. \A i \in 1 .. n : open(i) \in Recs(m) \ earlier /\ \A j \in old : open(i) # Opening(st.out[j])
  BY <1>1, <1>6 DEF Accounts
<1> HIDE DEF open, new, old
<1>9. \A k \in 1 .. b : st2.out[Len(st.out) + k] = new[k] /\ Opening(st2.out[Len(st.out) + k]) = open(q[k])
  BY <1>4, <1>6
<1>10. \A i \in DOMAIN st2.out : Opening(st2.out[i]) \in Recs(m) \ earlier
  <2> SUFFICES ASSUME NEW i \in DOMAIN st2.out PROVE Opening(st2.out[i]) \in Recs(m) \ earlier
    OBVIOUS
  <2>1. CASE i \in old
    BY <1>6, <2>1 DEF Accounts
  <2>2. ASSUME NEW k \in 1 .. b, i = Len(st.out) + k PROVE Opening(st2.out[i]) \in Recs(m) \ earlier
    BY <1>4, <1>8, <1>9, <2>2
  <2> QED
    BY <1>6, <2>1, <2>2
<1>11. \A i, j \in DOMAIN st2.out : Opening(st2.out[i]) = Opening(st2.out[j]) => i = j
  <2> SUFFICES ASSUME NEW i \in DOMAIN st2.out, NEW j \in DOMAIN st2.out,
                      Opening(st2.out[i]) = Opening(st2.out[j])
               PROVE  i = j
    OBVIOUS
  <2>1. CASE i \in old /\ j \in old
    BY <1>6, <2>1 DEF Accounts
  <2>2. ASSUME NEW k \in 1 .. b, i = Len(st.out) + k, j \in old PROVE FALSE
    BY <1>4, <1>6, <1>8, <1>9, <2>2
  <2>3. ASSUME NEW k \in 1 .. b, j = Len(st.out) + k, i \in old PROVE FALSE
    BY <1>4, <1>6, <1>8, <1>9, <2>3
  <2>4. ASSUME NEW k \in 1 .. b, i = Len(st.out) + k, NEW l \in 1 .. b, j = Len(st.out) + l
        PROVE  i = j
    <3>1. q[k] = q[l]
      BY <1>4, <1>7, <1>9, <2>4
    <3> QED
      BY <1>1, <2>4, <3>1
  <2> QED
    BY <1>6, <2>1, <2>2, <2>3, <2>4
<1>12. \A i \in DOMAIN st2.flights : Opening(st2.flights[i].captures) \in Recs(m) \ earlier
  BY <1>5, <1>8
<1>13. \A i \in DOMAIN st2.flights, j \in DOMAIN st2.out :
         Opening(st2.flights[i].captures) # Opening(st2.out[j])
  <2> SUFFICES ASSUME NEW i \in DOMAIN st2.flights, NEW j \in DOMAIN st2.out,
                      Opening(st2.flights[i].captures) = Opening(st2.out[j])
               PROVE  FALSE
    OBVIOUS
  <2>1. p[i] \in K /\ p[i] \in 1 .. n /\ Opening(st2.flights[i].captures) = open(p[i])
    BY <1>5
  <2>2. CASE j \in old
    BY <1>6, <1>8, <2>1, <2>2
  <2>3. ASSUME NEW k \in 1 .. b, j = Len(st.out) + k PROVE FALSE
    <3>1. open(p[i]) = open(q[k])
      BY <1>9, <2>1, <2>3
    <3>2. q[k] \in 1 .. n /\ q[k] \notin K
      BY <1>4
    <3>3. p[i] = q[k]
      BY <1>7, <2>1, <3>1, <3>2
    <3> QED
      BY <2>1, <3>2, <3>3
  <2>4. j \in old \/ later(j)
    BY <1>6
  <2> QED
    BY <2>2, <2>3, <2>4
<1>14. \A i, j \in DOMAIN st2.flights :
         i < j => Precedes(m, Opening(st2.flights[i].captures), Opening(st2.flights[j].captures))
  <2> SUFFICES ASSUME NEW i \in 1 .. a, NEW j \in 1 .. a, i < j
               PROVE  Precedes(m, open(p[i]), open(p[j]))
    BY <1>5
  <2>1. p[i] < p[j] /\ p[i] \in 1 .. n /\ p[j] \in 1 .. n
    BY <1>1, <1>5
  <2> QED
    BY <1>1, <2>1 DEF Accounts, open
<1> QED
  BY <1>10, <1>11, <1>12, <1>13, <1>14 DEF Accounts

\* The state is a State and the account of its openings is right.
Good(st, m, earlier) == st \in State /\ Accounts(st, m, earlier)

\* What a sweep of the partials leaves: those in K stay, those in D become matches.
LEMMA SweepSettles ==
  ASSUME NEW st \in State, NEW g \in [DOMAIN st.flights -> Partial],
         \A i \in DOMAIN st.flights : g[i].captures[1] = st.flights[i].captures[1],
         NEW K \in SUBSET DOMAIN st.flights, NEW D \in SUBSET DOMAIN st.flights, K \cap D = {},
         \A i \in K : Waits(g[i]), NEW d
  PROVE  /\ \E p, a, q, b :
              Settles(st, g, K, D, p, a, q, b,
                      [flights |-> Picked(g, K), out |-> st.out \o Captures(Picked(g, D)), drops |-> d])
         /\ \E p, a, q, b :
              Settles(st, g, K, D, p, a, q, b,
                      [flights |-> Picked(g, K), out |-> st.out \o Captures(Reverse(Picked(g, D))), drops |-> d])
<1> DEFINE n == Len(st.flights)
           a == Cardinality(K)
           b == Cardinality(D)
<1>1. n \in Nat /\ DOMAIN st.flights = 1 .. n
  BY StateFields
<1>2. a \in Nat /\ \E p : IsPick(p, g, K)
  <2> HIDE DEF n
  <2>1. K \in SUBSET (1 .. n) /\ n \in Nat
    BY <1>1
  <2> QED
    BY <2>1, PositionsFinite, PickedInOrder
<1>3. b \in Nat /\ \E q : IsPick(q, g, D)
  <2> HIDE DEF n
  <2>1. D \in SUBSET (1 .. n) /\ n \in Nat
    BY <1>1
  <2> QED
    BY <2>1, PositionsFinite, PickedInOrder
<1>4. PICK p : Lists(p, a, K) /\ Picked(g, K) = [k \in 1 .. a |-> g[p[k]]]
  BY <1>2 DEF IsPick
<1>5. PICK q : Lists(q, b, D) /\ Picked(g, D) = [k \in 1 .. b |-> g[q[k]]]
  BY <1>3 DEF IsPick
<1> HIDE DEF a, b
<1>6. q \in [1 .. b -> D] /\ \A j, k \in 1 .. b : q[j] = q[k] => j = k
  <2>1. \A i \in D : i \in Int
    BY <1>1
  <2>2. \A j \in 1 .. b : q[j] \in D /\ q[j] \in Int
    BY <1>5, <2>1 DEF Lists
  <2>3. ASSUME NEW j \in 1 .. b, NEW k \in 1 .. b, q[j] = q[k] PROVE j = k
    <3>1. ~(q[j] < q[k]) /\ ~(q[k] < q[j])
      BY <2>2, <2>3
    <3>2. ~(j < k) /\ ~(k < j)
      BY <1>5, <3>1 DEF Lists
    <3> QED
      BY <1>3, <3>2
  <2> QED
    BY <1>5, <2>3 DEF Lists
<1>7. Captures(Picked(g, D)) = [k \in 1 .. b |-> g[q[k]].captures]
  BY <1>5 DEF Captures
<1> DEFINE r == [k \in 1 .. b |-> q[b - k + 1]]
<1>8. r \in [1 .. b -> D] /\ \A j, k \in 1 .. b : r[j] = r[k] => j = k
  <2>1. \A k \in 1 .. b : b - k + 1 \in 1 .. b
    BY <1>3
  <2>2. \A k \in 1 .. b : r[k] = q[b - k + 1] /\ r[k] \in D
    BY <1>6, <2>1
  <2>3. ASSUME NEW j \in 1 .. b, NEW k \in 1 .. b, r[j] = r[k] PROVE j = k
    <3>1. b - j + 1 = b - k + 1
      BY <1>6, <2>1, <2>2, <2>3
    <3> QED
      BY <1>3, <3>1
  <2> QED
    BY <2>2, <2>3
<1>9. Captures(Reverse(Picked(g, D))) = [k \in 1 .. b |-> g[r[k]].captures]
  <2> DEFINE s == Picked(g, D)
  <2>1. Len(s) = b /\ \A k \in 1 .. b : s[k] = g[q[k]]
    BY <1>3, <1>5
  <2>2. Reverse(s) = [k \in 1 .. b |-> s[(b - k) + 1]]
    <3> HIDE DEF s
    <3> QED
      BY <2>1 DEF Reverse
  <2>3. \A k \in 1 .. b : s[(b - k) + 1] = g[r[k]]
    <3> SUFFICES ASSUME NEW k \in 1 .. b PROVE s[(b - k) + 1] = g[r[k]]
      OBVIOUS
    <3> DEFINE x == (b - k) + 1
    <3>1. x \in 1 .. b
      BY <1>3
    <3>2. r[k] = q[x]
      BY <3>1
    <3> HIDE DEF s, r, x
    <3>3. s[x] = g[r[k]]
      BY <2>1, <3>1, <3>2
    <3> QED
      BY <3>3 DEF x
  <2>4. Reverse(s) = [k \in 1 .. b |-> g[r[k]]]
    <3> HIDE DEF s, r
    <3> QED
      BY <2>2, <2>3
  <2> HIDE DEF s, r
  <2> QED
    BY <2>4 DEF Captures, s
<1> HIDE DEF r
<1>10. p \in [1 .. a -> K] /\ \A j, k \in 1 .. a : j < k => p[j] < p[k]
  BY <1>4 DEF Lists
<1>11. Settles(st, g, K, D, p, a, q, b,
               [flights |-> Picked(g, K), out |-> st.out \o Captures(Picked(g, D)), drops |-> d])
  BY <1>2, <1>3, <1>4, <1>6, <1>7, <1>10 DEF Settles
<1>12. Settles(st, g, K, D, p, a, r, b,
               [flights |-> Picked(g, K), out |-> st.out \o Captures(Reverse(Picked(g, D))), drops |-> d])
  BY <1>2, <1>3, <1>4, <1>8, <1>9, <1>10 DEF Settles
<1> QED
  BY <1>11, <1>12

\* An operation that opens no match keeps the account of the openings.
Keeps(st, st2) ==
  /\ st2 \in State
  /\ \A m \in Seq(Event), earlier \in SUBSET Nat :
       Distinct(m) /\ Accounts(st, m, earlier) => Accounts(st2, m, earlier)

\* A sweep turns the partials of st into g; those in K stay, those in D become matches.
Sweeps(st, g, K, D) ==
  /\ g \in [DOMAIN st.flights -> Partial]
  /\ \A i \in DOMAIN st.flights : g[i].captures[1] = st.flights[i].captures[1]
  /\ K \in SUBSET DOMAIN st.flights /\ D \in SUBSET DOMAIN st.flights /\ K \cap D = {}
  /\ \A i \in K : Waits(g[i])

\* The state after a sweep, with the matches oldest first or youngest first.
Swept(st, g, K, D, d) ==
  [flights |-> Picked(g, K), out |-> st.out \o Captures(Picked(g, D)), drops |-> d]
SweptBack(st, g, K, D, d) ==
  [flights |-> Picked(g, K), out |-> st.out \o Captures(Reverse(Picked(g, D))), drops |-> d]

\* Both keep the account.
LEMMA SweepKeeps ==
  ASSUME NEW st \in State, NEW g, NEW K, NEW D, Sweeps(st, g, K, D), NEW d \in [DropReason -> Nat]
  PROVE  Keeps(st, Swept(st, g, K, D, d)) /\ Keeps(st, SweptBack(st, g, K, D, d))
<1>1. ASSUME NEW fl, NEW out, NEW p, NEW a, NEW q, NEW b,
             Settles(st, g, K, D, p, a, q, b, [flights |-> fl, out |-> out, drops |-> d])
      PROVE  Keeps(st, [flights |-> fl, out |-> out, drops |-> d])
  <2> DEFINE st2 == [flights |-> fl, out |-> out, drops |-> d]
  <2>1. st2 \in State
    BY <1>1, SettlesType
  <2> HIDE DEF st2
  <2>2. ASSUME NEW m \in Seq(Event), NEW earlier \in SUBSET Nat, Distinct(m), Accounts(st, m, earlier)
        PROVE  Accounts(st2, m, earlier)
    BY <1>1, <2>2, SettlesAccounts DEF st2
  <2> QED
    BY <2>1, <2>2 DEF Keeps, st2
<1>2. Keeps(st, Swept(st, g, K, D, d))
  <2>1. PICK p, a, q, b :
          Settles(st, g, K, D, p, a, q, b,
                  [flights |-> Picked(g, K), out |-> st.out \o Captures(Picked(g, D)), drops |-> d])
    BY SweepSettles DEF Sweeps
  <2> QED
    BY <1>1, <2>1 DEF Swept
<1>3. Keeps(st, SweptBack(st, g, K, D, d))
  <2>1. PICK p, a, q, b :
          Settles(st, g, K, D, p, a, q, b,
                  [flights |-> Picked(g, K), out |-> st.out \o Captures(Reverse(Picked(g, D))), drops |-> d])
    BY SweepSettles DEF Sweeps
  <2> QED
    BY <1>1, <2>1 DEF SweptBack
<1> QED
  BY <1>2, <1>3

\* The partials in flight, as a function on their positions.
LEMMA FlightsFunction ==
  ASSUME NEW st \in State
  PROVE  /\ st.flights \in [DOMAIN st.flights -> Partial]
         /\ \A i \in DOMAIN st.flights : Waits(st.flights[i])
<1>1. \A i \in DOMAIN st.flights : st.flights[i] \in Partial /\ Waits(st.flights[i])
  BY StateFields
<1>2. st.flights = [i \in DOMAIN st.flights |-> st.flights[i]]
  <2>1. st.flights \in Seq(InFlight)
    BY StateFields
  <2> QED
    BY <2>1
<1> QED
  BY <1>1, <1>2

\* advance_deadlines is such a sweep,
LEMMA AdvanceDeadlinesKeeps ==
  ASSUME runtime \in Runtimes, NEW st \in State, NEW ts
  PROVE  Keeps(st, AdvanceDeadlines(st, ts))
<1> DEFINE D == Firing(st, ts)
           K == DOMAIN st.flights \ Overdue(st, ts)
           lost == Overdue(st, ts) \ D
           d == [st.drops EXCEPT !["Deadline"] = @ + Cardinality(lost)]
<1>1. D \in SUBSET DOMAIN st.flights /\ K \in SUBSET DOMAIN st.flights /\ K \cap D = {}
  BY DEF Firing, Overdue
<1>2. Cardinality(lost) \in Nat
  <2>1. DOMAIN st.flights = 1 .. Len(st.flights) /\ Len(st.flights) \in Nat
    BY StateFields
  <2>2. lost \in SUBSET (1 .. Len(st.flights))
    BY <2>1 DEF Overdue
  <2> HIDE DEF lost
  <2> QED
    BY <2>1, <2>2, PositionsFinite
<1>3. d \in [DropReason -> Nat]
  <2> HIDE DEF lost
  <2>1. st.drops \in [DropReason -> Nat] /\ "Deadline" \in DropReason
    BY StateFields DEF DropReason
  <2> QED
    BY <1>2, <2>1
<1>4. AdvanceDeadlines(st, ts) = Swept(st, st.flights, K, D, d)
  BY DEF AdvanceDeadlines, Swept
<1> HIDE DEF d, D, K
<1>5. Sweeps(st, st.flights, K, D)
  BY <1>1, FlightsFunction DEF Sweeps
<1> QED
  BY <1>3, <1>4, <1>5, SweepKeeps

\* so is the loop over the partials in match_one,
LEMMA AdvancePartialsKeeps ==
  ASSUME runtime \in Runtimes, NEW st \in State, NEW e \in Event
  PROVE  Keeps(st, AdvancePartials(st, e))
<1> DEFINE results == [i \in DOMAIN st.flights |-> AdvanceOne(st.flights[i], e)]
           g == [i \in DOMAIN results |-> results[i].pm]
           K == {i \in DOMAIN results : results[i].disposition = "Keep"}
           D == {i \in DOMAIN results : results[i].disposition = "Complete"}
<1>1. AdvancePartials(st, e)
        = SweptBack(st, g, K, D, st.drops)
  BY DEF AdvancePartials, SweptBack
<1>2. \A i \in DOMAIN st.flights : Advances(st.flights[i], results[i])
  <2>1. \A i \in DOMAIN st.flights : st.flights[i] \in InFlight
    BY StateFields DEF InFlight
  <2> QED
    BY <2>1, AdvanceOneType
<1>3. DOMAIN results = DOMAIN st.flights
  OBVIOUS
<1> HIDE DEF results
<1>4. g \in [DOMAIN st.flights -> Partial] /\ \A i \in DOMAIN st.flights : g[i] = results[i].pm
  BY <1>2, <1>3 DEF Advances
<1>5. \A i \in DOMAIN st.flights : g[i].captures[1] = st.flights[i].captures[1]
  BY <1>2, <1>4 DEF Advances
<1>6. K \in SUBSET DOMAIN st.flights /\ D \in SUBSET DOMAIN st.flights /\ K \cap D = {}
  BY <1>3
<1>7. \A i \in K : Waits(g[i])
  BY <1>2, <1>3, <1>4 DEF Advances
<1> HIDE DEF g, K, D
<1>8. Sweeps(st, g, K, D)
  BY <1>4, <1>5, <1>6, <1>7 DEF Sweeps
<1> QED
  BY <1>1, <1>8, StateFields, SweepKeeps

\* and so is flush.
LEMMA ConcludeKeeps ==
  ASSUME runtime \in Runtimes, NEW st \in State
  PROVE  Keeps(st, Conclude(st))
<1> DEFINE D == {i \in DOMAIN st.flights : ConcludesAtEnd(st.flights[i])}
           K == DOMAIN st.flights \ D
<1>1. Conclude(st) = Swept(st, st.flights, K, D, st.drops)
  BY DEF Conclude, Swept
<1>2. D \in SUBSET DOMAIN st.flights /\ K \in SUBSET DOMAIN st.flights /\ K \cap D = {}
  OBVIOUS
<1> HIDE DEF D, K
<1>3. Sweeps(st, st.flights, K, D)
  BY <1>2, FlightsFunction DEF Sweeps
<1> QED
  BY <1>1, <1>3, StateFields, SweepKeeps

-----------------------------------------------------------------------------
(* One event, and the events of one call. *)

\* Matching an event extends the account by an opening with that event.
Opens(st, e, st2) ==
  /\ st2 \in State
  /\ \A m \in Seq(Event), earlier \in SUBSET Nat :
       Distinct(m) /\ earlier \subseteq Recs(m) /\ e.rec \notin Recs(m) /\ Accounts(st, m, earlier)
         => Accounts(st2, Append(m, e), earlier)

\* Appending, index by index.
LEMMA AppendItems ==
  ASSUME NEW S, NEW m \in Seq(S), NEW e \in S
  PROVE  /\ Append(m, e) \in Seq(S) /\ Len(m) \in Nat /\ Len(Append(m, e)) = Len(m) + 1
         /\ DOMAIN m = 1 .. Len(m) /\ DOMAIN Append(m, e) = 1 .. Len(m) + 1
         /\ \A i \in 1 .. Len(m) : Append(m, e)[i] = m[i] /\ i # Len(m) + 1
         /\ Append(m, e)[Len(m) + 1] = e
         /\ \A i \in DOMAIN Append(m, e) : i \in 1 .. Len(m) \/ i = Len(m) + 1
OBVIOUS

\* One event more adds its record,
LEMMA RecsAppend ==
  ASSUME NEW m \in Seq(Event), NEW e \in Event
  PROVE  Recs(Append(m, e)) = Recs(m) \cup {e.rec}
<1>1. ASSUME NEW x \in Recs(Append(m, e)) PROVE x \in Recs(m) \cup {e.rec}
  BY <1>1, AppendItems DEF Recs
<1>2. ASSUME NEW x \in Recs(m) PROVE x \in Recs(Append(m, e))
  <2>1. PICK i \in 1 .. Len(m) : m[i].rec = x
    BY <1>2, AppendItems DEF Recs
  <2>2. i \in DOMAIN Append(m, e) /\ Append(m, e)[i].rec = x
    BY <2>1, AppendItems
  <2> QED
    BY <2>2 DEF Recs
<1>3. e.rec \in Recs(Append(m, e))
  <2>1. Len(m) + 1 \in DOMAIN Append(m, e) /\ Append(m, e)[Len(m) + 1] = e
    BY AppendItems
  <2> QED
    BY <2>1 DEF Recs
<1> QED
  BY <1>1, <1>2, <1>3

\* which comes after all the others.
LEMMA PrecedesAppend ==
  ASSUME NEW m \in Seq(Event), NEW e \in Event
  PROVE  /\ \A a, b : Precedes(m, a, b) => Precedes(Append(m, e), a, b)
         /\ \A a \in Recs(m) : Precedes(Append(m, e), a, e.rec)
<1>1. ASSUME NEW a, NEW b, Precedes(m, a, b) PROVE Precedes(Append(m, e), a, b)
  <2>1. PICK x, y \in 1 .. Len(m) : x < y /\ m[x].rec = a /\ m[y].rec = b
    BY <1>1, AppendItems DEF Precedes
  <2>2. x \in DOMAIN Append(m, e) /\ y \in DOMAIN Append(m, e)
        /\ Append(m, e)[x] = m[x] /\ Append(m, e)[y] = m[y]
    BY <2>1, AppendItems
  <2> QED
    BY <2>1, <2>2 DEF Precedes
<1>2. ASSUME NEW a \in Recs(m) PROVE Precedes(Append(m, e), a, e.rec)
  <2>1. PICK x \in 1 .. Len(m) : m[x].rec = a
    BY <1>2, AppendItems DEF Recs
  <2>2. /\ x \in DOMAIN Append(m, e) /\ Len(m) + 1 \in DOMAIN Append(m, e) /\ x < Len(m) + 1
        /\ Append(m, e)[x] = m[x] /\ Append(m, e)[Len(m) + 1] = e
    BY <2>1, AppendItems
  <2> QED
    BY <2>1, <2>2 DEF Precedes
<1> QED
  BY <1>1, <1>2

\* An event that opens nothing.
LEMMA AccountsAppend ==
  ASSUME NEW st, NEW m \in Seq(Event), NEW e \in Event, NEW earlier, Accounts(st, m, earlier)
  PROVE  Accounts(st, Append(m, e), earlier)
BY RecsAppend, PrecedesAppend DEF Accounts

\* Its partial is the youngest; the oldest may have been evicted (by is then 1).
LEMMA OpensPartial ==
  ASSUME runtime \in Runtimes, NEW st \in State, NEW e \in Event, 2 <= Len(pattern),
         NEW by \in 0 .. Len(st.flights), Len(st.flights) - by < MAX_IN_FLIGHT,
         NEW fl, Len(fl) = Len(st.flights) - by, fl \in Seq(InFlight),
         \A k \in 1 .. Len(fl) : fl[k] = st.flights[k + by],
         NEW d \in [DropReason -> Nat]
  PROVE  Opens(st, e, [flights |-> Append(fl, NewPartial(e)), out |-> st.out, drops |-> d])
<1> DEFINE new == NewPartial(e)
           st2 == [flights |-> Append(fl, new), out |-> st.out, drops |-> d]
           n == Len(fl)
<1>1. new \in InFlight /\ Opening(new.captures) = e.rec
  <2> DEFINE dl == NextDeadlineFor(2, e.ts)
  <2>1. e.ts \in Time
    BY TimesAreInts DEF Event
  <2>2. dl \in Time \cup {None} /\ (dl = None <=> pattern[2].within = None)
    BY <2>1, DeadlineType
  <2>3. <<e>> \in Match
    BY DEF Match
  <2> HIDE DEF dl
  <2>4. new.captures = <<e>> /\ new.next = 2 /\ new.deadline = dl /\ new.count = 0
    BY DEF NewPartial, dl
  <2>5. new \in Partial
    BY <2>2, <2>3 DEF NewPartial, Partial, dl
  <2>6. 2 \in 2 .. Len(pattern) /\ 0 < pattern[2].max
    BY PatternType DEF IsStep
  <2>7. Waits(new)
    BY <2>2, <2>4, <2>6 DEF Waits, Awaited
  <2> QED
    BY <2>4, <2>5, <2>7 DEF InFlight, Opening
<1>2. /\ Append(fl, new) \in Seq(InFlight) /\ n \in Nat /\ Len(Append(fl, new)) = n + 1
      /\ DOMAIN Append(fl, new) = 1 .. n + 1
      /\ \A i \in 1 .. n : Append(fl, new)[i] = fl[i] /\ i # n + 1
      /\ Append(fl, new)[n + 1] = new
      /\ \A i \in DOMAIN Append(fl, new) : i \in 1 .. n \/ i = n + 1
  <2> HIDE DEF new
  <2> QED
    BY SMTT(30), <1>1, AppendItems
<1> HIDE DEF new
<1>3. n + 1 <= MAX_IN_FLIGHT /\ st.out \in Seq(Match) /\ Len(st.flights) \in Nat
      /\ DOMAIN st.flights = 1 .. Len(st.flights)
  BY <1>2, StateFields, CepAssumption
<1>4. st2 \in State
  BY <1>2, <1>3 DEF State
<1>5. ASSUME NEW m \in Seq(Event), NEW earlier \in SUBSET Nat,
             earlier \subseteq Recs(m), e.rec \notin Recs(m), Accounts(st, m, earlier)
      PROVE  Accounts(st2, Append(m, e), earlier)
  <2> DEFINE open(i) == Opening(st.flights[i].captures)
             M == Append(m, e)
  <2>1. \A k \in 1 .. n : k + by \in DOMAIN st.flights /\ k + by \in Nat /\ fl[k] = st.flights[k + by]
    BY <1>2, <1>3
  <2>2. Recs(M) = Recs(m) \cup {e.rec} /\ e.rec \notin earlier
    BY <1>5, RecsAppend
  <2>3. st2.flights = Append(fl, new) /\ st2.out = st.out
    OBVIOUS
  <2>4. \A i \in 1 .. n : Opening(st2.flights[i].captures) = open(i + by) /\ i + by \in DOMAIN st.flights
    BY <1>2, <2>1, <2>3
  <2>5. Opening(st2.flights[n + 1].captures) = e.rec
    BY <1>1, <1>2, <2>3
  <2>6. DOMAIN st2.flights = 1 .. n + 1 /\ \A i \in 1 .. n + 1 : i \in 1 .. n \/ i = n + 1
    BY <1>2, <2>3
  <2> HIDE DEF st2, open, M
  <2>7. \A i \in DOMAIN st.flights : open(i) \in Recs(m) \ earlier /\ open(i) # e.rec
    BY <1>5 DEF Accounts, open
  <2>8. \A i \in DOMAIN st2.flights : Opening(st2.flights[i].captures) \in Recs(M) \ earlier
    <3> SUFFICES ASSUME NEW i \in DOMAIN st2.flights
                 PROVE  Opening(st2.flights[i].captures) \in Recs(M) \ earlier
      OBVIOUS
    <3>1. CASE i \in 1 .. n
      <4>1. open(i + by) \in Recs(m) \ earlier
        BY <2>4, <2>7, <3>1
      <4> QED
        BY <2>2, <2>4, <3>1, <4>1
    <3>2. CASE i = n + 1
      BY <2>2, <2>5, <3>2
    <3> QED
      BY <2>6, <3>1, <3>2
  <2>9. /\ \A i \in DOMAIN st2.out : Opening(st2.out[i]) \in Recs(M) \ earlier
        /\ \A i, j \in DOMAIN st2.out : Opening(st2.out[i]) = Opening(st2.out[j]) => i = j
    BY <1>5, <2>2, <2>3 DEF Accounts
  <2>10. \A i \in DOMAIN st2.flights, j \in DOMAIN st2.out :
           Opening(st2.flights[i].captures) # Opening(st2.out[j])
    <3> SUFFICES ASSUME NEW i \in DOMAIN st2.flights, NEW j \in DOMAIN st2.out
                 PROVE  Opening(st2.flights[i].captures) # Opening(st2.out[j])
      OBVIOUS
    <3>1. CASE i \in 1 .. n
      <4>1. i + by \in DOMAIN st.flights /\ j \in DOMAIN st.out
            /\ Opening(st2.flights[i].captures) = Opening(st.flights[i + by].captures)
        BY <2>3, <2>4, <3>1 DEF open
      <4>2. \A k \in DOMAIN st.flights, l \in DOMAIN st.out :
              Opening(st.flights[k].captures) # Opening(st.out[l])
        BY <1>5 DEF Accounts
      <4> QED
        BY <2>3, <4>1, <4>2
    <3>2. CASE i = n + 1
      <4>1. Opening(st.out[j]) \in Recs(m)
        BY <1>5, <2>3 DEF Accounts
      <4> QED
        BY <1>5, <2>3, <2>5, <3>2, <4>1
    <3> QED
      BY <2>6, <3>1, <3>2
  <2>11. \A i, j \in DOMAIN st2.flights :
           i < j => Precedes(M, Opening(st2.flights[i].captures), Opening(st2.flights[j].captures))
    <3> SUFFICES ASSUME NEW i \in 1 .. n + 1, NEW j \in 1 .. n + 1, i < j
                 PROVE  Precedes(M, Opening(st2.flights[i].captures), Opening(st2.flights[j].captures))
      BY <2>6
    <3>1. i \in 1 .. n
      BY <1>2
    <3>2. CASE j \in 1 .. n
      <4>1. i + by < j + by
        BY <1>2
      <4>2. Precedes(m, open(i + by), open(j + by))
        BY <1>5, <2>4, <3>1, <3>2, <4>1 DEF Accounts, open
      <4> QED
        BY <2>4, <3>1, <3>2, <4>2, PrecedesAppend DEF M
    <3>3. CASE j = n + 1
      <4>1. open(i + by) \in Recs(m)
        BY <2>4, <2>7, <3>1
      <4> QED
        BY <2>4, <2>5, <3>1, <3>3, <4>1, PrecedesAppend DEF M
    <3> QED
      BY <2>6, <3>2, <3>3
  <2> QED
    BY <2>8, <2>9, <2>10, <2>11 DEF Accounts, M
<1> HIDE DEF st2
<1>6. Opens(st, e, st2)
  BY <1>4, <1>5 DEF Opens
<1> QED
  BY <1>6 DEF st2, new

\* The record that a state is.
LEMMA StateIs ==
  ASSUME NEW st \in State
  PROVE  st = [flights |-> st.flights, out |-> st.out, drops |-> st.drops]
BY DEF State

\* Replacing one field of a state.
LEMMA ReplacedOut ==
  ASSUME NEW st \in State, NEW x
  PROVE  [st EXCEPT !.out = x] = [flights |-> st.flights, out |-> x, drops |-> st.drops]
BY DEF State

LEMMA ReplacedFlights ==
  ASSUME NEW st \in State, NEW x
  PROVE  [st EXCEPT !.flights = x] = [flights |-> x, out |-> st.out, drops |-> st.drops]
BY DEF State

\* try_open_new: nothing is opened, a match of one step is emitted at once, or a
\* partial is added, for which the oldest may be evicted.
LEMMA TryOpenNewOpens ==
  ASSUME runtime \in Runtimes, NEW st \in State, NEW e \in Event
  PROVE  Opens(st, e, TryOpenNew(st, e))
<1> DEFINE n == Len(st.flights)
<1>0. /\ n \in Nat /\ n <= MAX_IN_FLIGHT /\ st.flights \in Seq(InFlight) /\ st.out \in Seq(Match)
      /\ st.drops \in [DropReason -> Nat] /\ MAX_IN_FLIGHT \in Nat \ {0}
  BY StateFields, CepAssumption
<1>1. CASE ~Holds(pattern[1].pred, e, <<>>)
  <2>1. TryOpenNew(st, e) = st
    BY <1>1 DEF TryOpenNew
  <2> QED
    BY <2>1, AccountsAppend DEF Opens
<1>2. CASE Holds(pattern[1].pred, e, <<>>) /\ Len(pattern) = 1
  <2> DEFINE st2 == [flights |-> st.flights, out |-> Append(st.out, <<e>>), drops |-> st.drops]
  <2>1. TryOpenNew(st, e) = st2
    BY <1>2, ReplacedOut DEF TryOpenNew
  <2>2. Append(st.out, <<e>>) \in Seq(Match) /\ <<e>> \in Match /\ Opening(<<e>>) = e.rec
    BY <1>0 DEF Match, Opening
  <2>3. st2 \in State
    BY <1>0, <2>2 DEF State
  <2>4. /\ st2.flights = st.flights /\ st2.out = Append(st.out, <<e>>) /\ Len(st.out) \in Nat
        /\ DOMAIN st2.out = 1 .. Len(st.out) + 1 /\ DOMAIN st.out = 1 .. Len(st.out)
        /\ \A i \in 1 .. Len(st.out) : st2.out[i] = st.out[i]
        /\ st2.out[Len(st.out) + 1] = <<e>>
        /\ \A i \in DOMAIN st2.out : i \in 1 .. Len(st.out) \/ i = Len(st.out) + 1
    BY <1>0, <2>2, AppendItems
  <2> HIDE DEF st2
  <2>5. ASSUME NEW m \in Seq(Event), NEW earlier \in SUBSET Nat, earlier \subseteq Recs(m),
               e.rec \notin Recs(m), Accounts(st, m, earlier)
        PROVE  Accounts(st2, Append(m, e), earlier)
    <3> DEFINE M == Append(m, e)
    <3>1. Accounts(st, M, earlier)
      BY <2>5, AccountsAppend
    <3>2. Recs(M) = Recs(m) \cup {e.rec} /\ e.rec \notin earlier
      BY <2>5, RecsAppend
    <3>3. /\ \A i \in DOMAIN st.out : Opening(st.out[i]) # e.rec
          /\ \A i \in DOMAIN st.flights : Opening(st.flights[i].captures) # e.rec
      BY <2>5 DEF Accounts
    <3> HIDE DEF M
    <3>4. \A i \in DOMAIN st2.out : Opening(st2.out[i]) \in Recs(M) \ earlier
      BY <2>2, <2>4, <3>1, <3>2 DEF Accounts
    <3>5. \A i, j \in DOMAIN st2.out : Opening(st2.out[i]) = Opening(st2.out[j]) => i = j
      <4> SUFFICES ASSUME NEW i \in DOMAIN st2.out, NEW j \in DOMAIN st2.out,
                          Opening(st2.out[i]) = Opening(st2.out[j])
                   PROVE  i = j
        OBVIOUS
      <4>1. CASE i \in 1 .. Len(st.out) /\ j \in 1 .. Len(st.out)
        BY <2>4, <3>1, <4>1 DEF Accounts
      <4>2. CASE i \in 1 .. Len(st.out) /\ j = Len(st.out) + 1
        BY <2>2, <2>4, <3>3, <4>2
      <4>3. CASE j \in 1 .. Len(st.out) /\ i = Len(st.out) + 1
        BY <2>2, <2>4, <3>3, <4>3
      <4> QED
        BY <2>4, <4>1, <4>2, <4>3
    <3>6. \A i \in DOMAIN st2.flights, j \in DOMAIN st2.out :
            Opening(st2.flights[i].captures) # Opening(st2.out[j])
      <4> SUFFICES ASSUME NEW i \in DOMAIN st2.flights, NEW j \in DOMAIN st2.out
                   PROVE  Opening(st2.flights[i].captures) # Opening(st2.out[j])
        OBVIOUS
      <4>1. CASE j \in 1 .. Len(st.out)
        BY <2>4, <3>1, <4>1 DEF Accounts
      <4>2. CASE j = Len(st.out) + 1
        BY <2>2, <2>4, <3>3, <4>2
      <4> QED
        BY <2>4, <4>1, <4>2
    <3> QED
      BY <2>4, <3>1, <3>4, <3>5, <3>6 DEF Accounts, M
  <2> QED
    BY <2>1, <2>3, <2>5 DEF Opens
<1>3. CASE Holds(pattern[1].pred, e, <<>>) /\ Len(pattern) # 1 /\ n < MAX_IN_FLIGHT
  <2>1. TryOpenNew(st, e)
          = [flights |-> Append(st.flights, NewPartial(e)), out |-> st.out, drops |-> st.drops]
    BY <1>3, ReplacedFlights DEF TryOpenNew
  <2>2. 0 \in 0 .. n /\ n - 0 = n /\ \A k \in 1 .. n : k + 0 = k
    BY <1>0
  <2>3. 2 <= Len(pattern)
    BY <1>3, PatternType
  <2>4. \A k \in 1 .. n : st.flights[k] = st.flights[k + 0]
    BY <2>2
  <2> HIDE DEF n
  <2>5. Len(st.flights) = Len(st.flights) - 0 /\ Len(st.flights) - 0 < MAX_IN_FLIGHT
    BY <1>0, <1>3, <2>2 DEF n
  <2> QED
    BY SMTT(30), <1>0, <2>1, <2>2, <2>3, <2>4, <2>5, OpensPartial DEF n
<1>4. CASE Holds(pattern[1].pred, e, <<>>) /\ Len(pattern) # 1 /\ ~(n < MAX_IN_FLIGHT)
  <2> DEFINE d == [st.drops EXCEPT !["MaxInFlight"] = @ + 1]
             fl == Tail(st.flights)
  <2>1. TryOpenNew(st, e) = [flights |-> Append(fl, NewPartial(e)), out |-> st.out, drops |-> d]
    BY <1>4 DEF TryOpenNew
  <2>2. n # 0 /\ 1 \in 0 .. n /\ n - 1 < MAX_IN_FLIGHT
    BY <1>0, <1>4
  <2>3. 2 <= Len(pattern)
    BY <1>4, PatternType
  <2>4. fl \in Seq(InFlight) /\ Len(fl) = n - 1 /\ \A k \in 1 .. Len(fl) : fl[k] = st.flights[k + 1]
    BY <1>0, <2>2
  <2>5. d \in [DropReason -> Nat]
    BY <1>0 DEF DropReason
  <2> HIDE DEF fl, d
  <2> QED
    BY <2>1, <2>2, <2>3, <2>4, <2>5, OpensPartial
<1> QED
  BY <1>1, <1>2, <1>3, <1>4

\* Matching one event.
LEMMA MatchOneOpens ==
  ASSUME runtime \in Runtimes, NEW st \in State, NEW e \in Event
  PROVE  Opens(st, e, MatchOne(st, e))
<1> DEFINE s1 == AdvanceDeadlines(st, e.ts)
           s2 == AdvancePartials(s1, e)
<1>1. Keeps(st, s1)
  BY AdvanceDeadlinesKeeps
<1> HIDE DEF s1
<1>2. s1 \in State
  BY <1>1 DEF Keeps
<1>3. Keeps(s1, s2)
  BY <1>2, AdvancePartialsKeeps
<1> HIDE DEF s2
<1>4. Opens(s2, e, TryOpenNew(s2, e))
  BY <1>3, TryOpenNewOpens DEF Keeps
<1>5. MatchOne(st, e) = TryOpenNew(s2, e)
  BY DEF MatchOne, s1, s2
<1> QED
  BY <1>1, <1>3, <1>4, <1>5 DEF Keeps, Opens

\* FoldLeft of MatchOne is defined on the states S and the events seq of E,
CanMatch(S, E, base, n, seq) ==
  /\ \A g \in S, r \in E : MatchOne(g, r) \in S
  /\ base \in S /\ n \in Nat /\ seq \in [1 .. n -> E]

\* and goes through them one at a time.
LEMMA MatchOneFolds ==
  ASSUME NEW S, NEW E, NEW base, NEW n, NEW seq, CanMatch(S, E, base, n, seq)
  PROVE  \E f \in [0 .. n -> S] :
           /\ f[0] = base
           /\ \A i \in 1 .. n : f[i] = MatchOne(f[i - 1], seq[i])
           /\ MatchAll(base, seq) = f[n]
<1>0. /\ \A g \in S, r \in E : MatchOne(g, r) \in S
      /\ base \in S /\ n \in Nat /\ seq \in [1 .. n -> E]
  BY DEF CanMatch
<1> DEFINE op == [x \in S \X E |-> MatchOne(x[1], x[2])]
           Once(x, e) == [y \in {x} |-> MatchOne(y, e)][x]
           F == CHOOSE k : k = [s \in SUBSET DOMAIN seq |->
                  IF s = {} THEN base ELSE Once(k[s \ {Max(s)}], seq[Max(s)])]
           f == [i \in 0 .. n |-> F[1 .. i]]
           P == {i \in 0 .. n : f[i] \in S}
<1>1. op \in [S \X E -> S]
  BY <1>0
<1>2. PICK h \in [SUBSET (1 .. n) -> S] : IsFold(h, op, base, seq, n)
  BY <1>0, <1>1, FoldExists
<1>3. h = [s \in SUBSET DOMAIN seq |->
             IF s = {} THEN base ELSE Once(h[s \ {Max(s)}], seq[Max(s)])]
  <2> HIDE DEF op
  <2>1. ASSUME NEW s \in SUBSET (1 .. n), s # {}
        PROVE  h[s] = MatchOne(h[s \ {Max(s)}], seq[Max(s)])
    <3>1. Max(s) \in 1 .. n /\ s \ {Max(s)} \in SUBSET (1 .. n)
      BY <1>0, <2>1, MaxIn
    <3>2. h[s \ {Max(s)}] \in S /\ seq[Max(s)] \in E
      BY <1>0, <3>1
    <3>3. op[<<h[s \ {Max(s)}], seq[Max(s)]>>] = MatchOne(h[s \ {Max(s)}], seq[Max(s)])
      BY <1>0, <3>2 DEF op
    <3> QED
      BY <1>0, <1>2, <2>1, <3>3 DEF IsFold
  <2>2. h[{}] = base
    BY <1>0, <1>2 DEF IsFold
  <2> QED
    BY <1>0, <2>1, <2>2
<1> HIDE DEF op
<1>4. F = [s \in SUBSET DOMAIN seq |->
             IF s = {} THEN base ELSE Once(F[s \ {Max(s)}], seq[Max(s)])]
  BY <1>0, <1>3
<1>5. MatchAll(base, seq) = F[1 .. n]
  <2>1. MatchAll(base, seq) = F[DOMAIN seq]
    BY DEF MatchAll, FoldLeft, MapThenFoldSet
  <2> QED
    BY <1>0, <2>1
<1> HIDE DEF F
<1>6. f[0] = base
  <2>1. (1 .. 0) = {} /\ 0 \in 0 .. n /\ {} \in SUBSET DOMAIN seq
    BY <1>0
  <2> QED
    BY <1>0, <1>4, <2>1
<1>7. ASSUME NEW i \in 1 .. n
      PROVE  f[i] = MatchOne(f[i - 1], seq[i])
  <2>1. i \in 0 .. n /\ i - 1 \in 0 .. n /\ (1 .. i) \in SUBSET DOMAIN seq
    BY <1>0, <1>7
  <2>2. \A x, e : Once(x, e) = MatchOne(x, e)
    OBVIOUS
  <2>3. f[i] = F[1 .. i] /\ f[i - 1] = F[1 .. i - 1]
    BY <1>0, <2>1
  <2>4. F[1 .. i] = Once(F[1 .. i - 1], seq[i])
    <3> HIDE DEF Once, f
    <3> QED
      BY <1>0, <1>4, <2>1, MaxOfPrefix, FirstNumbers
  <2> HIDE DEF Once, f
  <2> QED
    BY <2>2, <2>3, <2>4
<1>8. 0 .. n \subseteq P
  <2>1. 0 \in P
    BY <1>0, <1>6
  <2>2. ASSUME NEW i \in 0 .. n - 1, i \in P
        PROVE  i + 1 \in P
    <3>1. i + 1 \in 1 .. n /\ (i + 1) - 1 = i /\ i + 1 \in 0 .. n
      BY <1>0, <2>2
    <3>2. f[i + 1] = MatchOne(f[i], seq[i + 1]) /\ seq[i + 1] \in E /\ f[i] \in S
      BY <1>0, <1>7, <2>2, <3>1
    <3> QED
      BY <1>0, <3>1, <3>2
  <2> HIDE DEF P
  <2> QED
    BY <1>0, <2>1, <2>2, CountUp
<1>9. f \in [0 .. n -> S] /\ f[n] = F[1 .. n]
  BY <1>0, <1>8
<1> HIDE DEF f
<1> QED
  BY <1>0, <1>5, <1>6, <1>7, <1>9

\* The first k of a sequence of events.
Prefix(M, k) == SubSeq(M, 1, k)

\* It is a sequence of events,
LEMMA PrefixItems ==
  ASSUME NEW M \in Seq(Event), NEW k \in 0 .. Len(M)
  PROVE  /\ Prefix(M, k) \in Seq(Event) /\ Len(Prefix(M, k)) = k /\ DOMAIN Prefix(M, k) = 1 .. k
         /\ \A i \in 1 .. k : Prefix(M, k)[i] = M[i] /\ i \in DOMAIN M
         /\ DOMAIN M = 1 .. Len(M)
BY DEF Prefix

\* grows by one event at a time,
LEMMA PrefixNext ==
  ASSUME NEW M \in Seq(Event), NEW k \in 0 .. Len(M), k + 1 <= Len(M)
  PROVE  Prefix(M, k + 1) = Append(Prefix(M, k), M[k + 1]) /\ M[k + 1] \in Event
<1>1. M[k + 1] \in Event
  OBVIOUS
<1>2. Prefix(M, k + 1) \in Seq(Event) /\ DOMAIN Prefix(M, k + 1) = 1 .. k + 1
      /\ \A i \in 1 .. k + 1 : Prefix(M, k + 1)[i] = M[i]
  <2>1. k + 1 \in 0 .. Len(M)
    OBVIOUS
  <2> QED
    BY <2>1, PrefixItems
<1>3. /\ Append(Prefix(M, k), M[k + 1]) \in Seq(Event) /\ DOMAIN Append(Prefix(M, k), M[k + 1]) = 1 .. k + 1
      /\ \A i \in 1 .. k : Append(Prefix(M, k), M[k + 1])[i] = M[i]
      /\ Append(Prefix(M, k), M[k + 1])[k + 1] = M[k + 1]
  <2> DEFINE s == Prefix(M, k)
             e == M[k + 1]
  <2>1. s \in Seq(Event) /\ Len(s) = k /\ \A i \in 1 .. k : s[i] = M[i]
    BY PrefixItems
  <2> HIDE DEF s, e
  <2>2. e \in Event
    BY <1>1 DEF e
  <2>3. /\ Append(s, e) \in Seq(Event) /\ DOMAIN Append(s, e) = 1 .. k + 1
        /\ \A i \in 1 .. k : Append(s, e)[i] = s[i]
        /\ Append(s, e)[k + 1] = e
    BY <2>1, <2>2, AppendItems
  <2> QED
    BY <2>1, <2>3 DEF s, e
<1>4. \A i \in 1 .. k + 1 : i \in 1 .. k \/ i = k + 1
  OBVIOUS
<1>5. \A i \in 1 .. k + 1 : Prefix(M, k + 1)[i] = Append(Prefix(M, k), M[k + 1])[i]
  BY <1>2, <1>3, <1>4
<1> QED
  <2> DEFINE s == Prefix(M, k + 1)
             t == Append(Prefix(M, k), M[k + 1])
  <2>1. s \in Seq(Event) /\ t \in Seq(Event) /\ DOMAIN s = 1 .. k + 1 /\ DOMAIN t = 1 .. k + 1
        /\ \A i \in 1 .. k + 1 : s[i] = t[i]
    BY <1>2, <1>3, <1>5
  <2> HIDE DEF s, t
  <2>2. s = t
    BY <2>1
  <2> QED
    BY <1>1, <2>2 DEF s, t

\* and has none twice if M has not.
LEMMA PrefixDistinct ==
  ASSUME NEW M \in Seq(Event), Distinct(M), NEW k \in 0 .. Len(M)
  PROVE  /\ Distinct(Prefix(M, k))
         /\ k + 1 <= Len(M) => M[k + 1].rec \notin Recs(Prefix(M, k))
<1>1. Distinct(Prefix(M, k))
  BY PrefixItems DEF Distinct
<1>2. ASSUME k + 1 <= Len(M) PROVE M[k + 1].rec \notin Recs(Prefix(M, k))
  <2>1. k + 1 \in DOMAIN M /\ \A i \in 1 .. k : i # k + 1
    BY <1>2
  <2> QED
    BY <2>1, PrefixItems DEF Distinct, Recs
<1> QED
  BY <1>1, <1>2

\* Matching the events of a call, one after the other.
OpensAll(st, events, st2) ==
  /\ st2 \in State
  /\ \A m \in Seq(Event), earlier \in SUBSET Nat :
       Distinct(m \o events) /\ earlier \subseteq Recs(m) /\ Accounts(st, m, earlier)
         => Accounts(st2, m \o events, earlier)

\* By induction on the number of events matched.
LEMMA MatchAllOpens ==
  ASSUME runtime \in Runtimes, NEW st \in State, NEW events \in Seq(Event)
  PROVE  OpensAll(st, events, MatchAll(st, events))
<1> DEFINE n == Len(events)
<1>1. n \in Nat /\ events \in [1 .. n -> Event]
  OBVIOUS
<1> HIDE DEF n
<1>2. PICK f \in [0 .. n -> State] :
        /\ f[0] = st
        /\ \A i \in 1 .. n : f[i] = MatchOne(f[i - 1], events[i])
        /\ MatchAll(st, events) = f[n]
  <2>1. \A g \in State, e \in Event : MatchOne(g, e) \in State
    BY MatchOneOpens DEF Opens
  <2>2. CanMatch(State, Event, st, n, events)
    BY <1>1, <2>1 DEF CanMatch
  <2> QED
    BY <2>2, MatchOneFolds
<1>3. f[n] \in State
  BY <1>1, <1>2
<1>4. ASSUME NEW m \in Seq(Event), NEW earlier \in SUBSET Nat,
             Distinct(m \o events), earlier \subseteq Recs(m), Accounts(st, m, earlier)
      PROVE  Accounts(f[n], m \o events, earlier)
  <2> DEFINE M == m \o events
             l == Len(m)
             P == {i \in 0 .. n : Accounts(f[i], Prefix(M, l + i), earlier)}
  <2>1. /\ M \in Seq(Event) /\ l \in Nat /\ Len(M) = l + n /\ \A i \in 1 .. n : M[l + i] = events[i]
        /\ \A i \in 1 .. l : M[i] = m[i]
    BY <1>1, ConcatItems DEF n
  <2>2. Prefix(M, l) = m
    <3>1. Prefix(M, l) \in Seq(Event) /\ Len(Prefix(M, l)) = l /\ \A i \in 1 .. l : Prefix(M, l)[i] = M[i]
      <4> HIDE DEF M, l
      <4>1. l \in 0 .. Len(M)
        BY <1>1, <2>1
      <4> QED
        BY <2>1, <4>1, PrefixItems
    <3>2. \A i \in 1 .. l : Prefix(M, l)[i] = m[i]
      BY <2>1, <3>1
    <3> DEFINE s == Prefix(M, l)
    <3> HIDE DEF s
    <3>3. s \in Seq(Event) /\ Len(s) = Len(m) /\ \A i \in 1 .. Len(m) : s[i] = m[i]
      BY <3>1, <3>2 DEF s
    <3>4. s = m
      BY <3>3
    <3> QED
      BY <3>4 DEF s
  <2> HIDE DEF M, l
  <2>3. 0 \in P
    BY <1>1, <1>2, <1>4, <2>1, <2>2
  <2>4. ASSUME NEW i \in 0 .. n - 1, i \in P PROVE i + 1 \in P
    <3> DEFINE k == l + i
               e == M[k + 1]
    <3>1. /\ k \in 0 .. Len(M) /\ k + 1 <= Len(M) /\ i + 1 \in 1 .. n /\ (i + 1) - 1 = i
          /\ k + 1 = l + (i + 1) /\ i \in 0 .. n
      <4> HIDE DEF P, e
      <4>1. i \in Int /\ 0 <= i /\ i <= n - 1 /\ n \in Int /\ l \in Int /\ 0 <= l /\ Len(M) = l + n
        BY <1>1, <2>1
      <4> QED
        BY <4>1
    <3>2. f[i + 1] = MatchOne(f[i], e) /\ f[i] \in State
      BY <1>2, <2>1, <3>1
    <3>3. Prefix(M, k + 1) = Append(Prefix(M, k), e) /\ e \in Event /\ Prefix(M, k) \in Seq(Event)
      <4> HIDE DEF k
      <4> QED
        BY <2>1, <3>1, PrefixNext, PrefixItems
    <3>4. Distinct(Prefix(M, k)) /\ e.rec \notin Recs(Prefix(M, k))
      <4> HIDE DEF k
      <4>1. Distinct(M)
        BY <1>4 DEF M
      <4> QED
        BY <2>1, <3>1, <4>1, PrefixDistinct
    <3>5. earlier \subseteq Recs(Prefix(M, k))
      <4>1. \A j \in DOMAIN m : j \in 1 .. k /\ M[j] = m[j]
        <5>1. DOMAIN m = 1 .. l
          BY DEF l
        <5>2. l <= k /\ l \in Int /\ k \in Int
          BY <1>1, <2>1
        <5>3. 1 .. l \subseteq 1 .. k
          BY <5>2
        <5> QED
          BY <2>1, <5>1, <5>3
      <4> HIDE DEF k
      <4>2. \A j \in 1 .. k : j \in DOMAIN Prefix(M, k) /\ Prefix(M, k)[j] = M[j]
        BY <2>1, <3>1, PrefixItems
      <4> QED
        BY <1>4, <4>1, <4>2 DEF Recs
    <3>6. Accounts(f[i], Prefix(M, k), earlier)
      BY <2>4
    <3> HIDE DEF k, e
    <3>7. Opens(f[i], e, MatchOne(f[i], e))
      BY <3>2, <3>3, MatchOneOpens
    <3>8. Accounts(f[i + 1], Prefix(M, k + 1), earlier)
      BY <3>2, <3>3, <3>4, <3>5, <3>6, <3>7 DEF Opens
    <3> QED
      BY <3>1, <3>8 DEF k
  <2>5. 0 .. n \subseteq P
    <3> HIDE DEF P
    <3> QED
      BY <1>1, <2>3, <2>4, CountUp
  <2>6. Accounts(f[n], Prefix(M, l + n), earlier)
    BY <1>1, <2>5
  <2>7. Prefix(M, l + n) = M
    BY <2>1 DEF Prefix
  <2> QED
    BY <2>6, <2>7 DEF M
<1> QED
  BY <1>2, <1>3, <1>4 DEF OpensAll

-----------------------------------------------------------------------------
(* The reorder buffer: its operations are those of ReorderBuffer_proofs. *)

\* The lemmas of ReorderBuffer_proofs are about the same buffer as Buffer of CepRuntime,
\* under other names: every operation, and every operator it uses, is the same.
Buf == INSTANCE ReorderBuffer_proofs

LEMMA SamePopOrder == \A S : Buffer!PopOrder(S) = Buf!PopOrder(S)
BY Zenon DEF Buffer!PopOrder, Buf!PopOrder, Buffer!Rank, Buf!Rank, Buffer!Before, Buf!Before,
   Buffer!Cardinality, Buf!Cardinality, Buffer!IsFiniteSet, Buf!IsFiniteSet

LEMMA SamePopAll == \A S : Buffer!PopAll(S) <=> Buf!PopAll(S)
BY Zenon, SamePopOrder DEF Buffer!PopAll, Buf!PopAll, Buffer!FrontierAfter, Buf!FrontierAfter

LEMMA SameSatSub == \A a, b : Buffer!SatSub(a, b) = Buf!SatSub(a, b)
BY Zenon DEF Buffer!SatSub, Buf!SatSub, Buffer!Clamp, Buf!Clamp

LEMMA SameMaxOr == \A a, b : Buffer!MaxOr(a, b) = Buf!MaxOr(a, b)
BY Zenon DEF Buffer!MaxOr, Buf!MaxOr

LEMMA SameLateness == Buffer!Lateness = Buf!Lateness
BY Zenon DEF Buffer!Lateness, Buf!Lateness, Buffer!Clamp, Buf!Clamp

LEMMA SameDrain == \A S, w : Buffer!DrainUntil(S, w) <=> Buf!DrainUntil(S, w)
BY Zenon, SamePopAll DEF Buffer!DrainUntil, Buf!DrainUntil

LEMMA SameStepBuffered == \A ts : Buffer!StepBuffered(ts) <=> Buf!StepBuffered(ts)
BY Zenon, SameSatSub, SameMaxOr, SameLateness, SameDrain DEF Buffer!StepBuffered, Buf!StepBuffered, Buffer!Behind, Buf!Behind

LEMMA SameDivert == \A ts : Buffer!Divert(ts) <=> Buf!Divert(ts)
BY Zenon DEF Buffer!Divert, Buf!Divert, Buffer!Behind, Buf!Behind, Buffer!Straggler, Buf!Straggler

LEMMA SameAdvance == \A t : Buffer!AdvanceWatermark(t) <=> Buf!AdvanceWatermark(t)
BY Zenon, SameSatSub, SameMaxOr, SameLateness, SameDrain DEF Buffer!AdvanceWatermark, Buf!AdvanceWatermark

LEMMA SameFlush == Buffer!Flush <=> Buf!Flush
BY Zenon, SamePopAll DEF Buffer!Flush, Buf!Flush

LEMMA SameInit == Buffer!Init <=> Buf!Init
BY Zenon DEF Buffer!Init, Buf!Init

-----------------------------------------------------------------------------
(* A call of the runtime. *)

\* The matcher with everything it has emitted.
SoFar == [flights |-> in_flight, out |-> emitted, drops |-> drops]

\* A sweep after the events keeps their account.
LEMMA OpensThenKeeps ==
  ASSUME NEW st, NEW events \in Seq(Event), NEW s1, NEW s2, OpensAll(st, events, s1), Keeps(s1, s2)
  PROVE  OpensAll(st, events, s2)
<1>1. s2 \in State
  BY DEF Keeps
<1>2. ASSUME NEW m \in Seq(Event), NEW earlier \in SUBSET Nat,
             Distinct(m \o events), earlier \subseteq Recs(m), Accounts(st, m, earlier)
      PROVE  Accounts(s2, m \o events, earlier)
  <2>1. m \o events \in Seq(Event)
    BY ConcatItems
  <2>2. Accounts(s1, m \o events, earlier)
    BY <1>2 DEF OpensAll
  <2> QED
    BY <1>2, <2>1, <2>2 DEF Keeps
<1> QED
  BY <1>1, <1>2 DEF OpensAll

\* One event is a call with one event.
LEMMA OpensOne ==
  ASSUME NEW st, NEW e \in Event, NEW s1, Opens(st, e, s1)
  PROVE  OpensAll(st, <<e>>, s1)
<1>1. s1 \in State
  BY DEF Opens
<1>2. ASSUME NEW m \in Seq(Event), NEW earlier \in SUBSET Nat,
             Distinct(m \o <<e>>), earlier \subseteq Recs(m), Accounts(st, m, earlier)
      PROVE  Accounts(s1, m \o <<e>>, earlier)
  <2>1. m \o <<e>> = Append(m, e)
    OBVIOUS
  <2> DEFINE M == Append(m, e)
  <2>2. M = Prefix(M, Len(M)) /\ M \in Seq(Event) /\ Len(M) = Len(m) + 1 /\ Len(m) \in Nat
        /\ M[Len(m) + 1] = e /\ DOMAIN M = 1 .. Len(m) + 1 /\ DOMAIN m = 1 .. Len(m)
        /\ \A i \in 1 .. Len(m) : M[i] = m[i]
    BY AppendItems DEF Prefix
  <2>3. Distinct(M)
    BY <1>2, <2>1
  <2> HIDE DEF M
  <2>4. \A i \in 1 .. Len(m) : i \in DOMAIN M /\ i # Len(m) + 1
    BY <2>2
  <2>5. Len(m) + 1 \in DOMAIN M
    BY <2>2
  <2>6. Distinct(m)
    BY <2>2, <2>3, <2>4 DEF Distinct
  <2>7. e.rec \notin Recs(m)
    BY <2>2, <2>3, <2>4, <2>5 DEF Distinct, Recs
  <2>8. Accounts(s1, M, earlier)
    BY <1>2, <2>6, <2>7 DEF Opens, M
  <2> QED
    BY <2>1, <2>8 DEF M
<1> QED
  BY <1>1, <1>2 DEF OpensAll

\* More events keep what was there, in its order.
LEMMA ConcatRecs ==
  ASSUME NEW m \in Seq(Event), NEW events \in Seq(Event)
  PROVE  /\ m \o events \in Seq(Event)
         /\ Recs(m) \subseteq Recs(m \o events)
         /\ \A a, b : Precedes(m, a, b) => Precedes(m \o events, a, b)
<1> DEFINE M == m \o events
<1>1. M \in Seq(Event) /\ \A i \in DOMAIN m : i \in DOMAIN M /\ M[i] = m[i]
  <2>1. /\ M \in Seq(Event) /\ DOMAIN M = 1 .. Len(m) + Len(events)
        /\ \A i \in 1 .. Len(m) : M[i] = m[i]
    BY ConcatItems
  <2>2. DOMAIN m = 1 .. Len(m) /\ Len(m) \in Nat /\ Len(events) \in Nat
    OBVIOUS
  <2> HIDE DEF M
  <2> QED
    BY <2>1, <2>2
<1> HIDE DEF M
<1>2. Recs(m) \subseteq Recs(M)
  BY <1>1 DEF Recs
<1>3. \A a, b : Precedes(m, a, b) => Precedes(M, a, b)
  BY <1>1 DEF Precedes
<1> QED
  BY <1>1, <1>2, <1>3 DEF M

\* A call that returns what the matcher makes of its events: what it has emitted
\* before stays emitted, and nothing is emitted for it again.
LEMMA CallAccounts ==
  ASSUME runtime \in Runtimes, SoFar \in State, matched \in Seq(Event), Accounts(SoFar, matched, {}),
         NEW events \in Seq(Event), Distinct(matched \o events),
         NEW st2, OpensAll(Matcher, events, st2), Becomes(st2), matched' = matched \o events
  PROVE  runtime' = runtime /\ SoFar' \in State /\ Accounts(SoFar', matched', {})
<1> DEFINE earlier == {Opening(emitted[i]) : i \in DOMAIN emitted}
           M == matched \o events
<1>1. /\ SoFar.flights = in_flight /\ SoFar.out = emitted /\ SoFar.drops = drops
      /\ Matcher.flights = in_flight /\ Matcher.out = <<>>
  BY DEF SoFar, Matcher
<1>2. M \in Seq(Event) /\ Recs(matched) \subseteq Recs(M)
  BY ConcatRecs
<1>3. earlier \subseteq Recs(matched)
  BY <1>1 DEF Accounts
<1>4. Recs(matched) \in SUBSET Nat
  <2>1. \A i \in DOMAIN matched : matched[i] \in Event
    OBVIOUS
  <2>2. \A i \in DOMAIN matched : matched[i].rec \in Nat
    BY <2>1, CepAssumption DEF Event
  <2> QED
    BY <2>2 DEF Recs
<1>5. Accounts(Matcher, matched, earlier)
  <2>1. \A i \in DOMAIN Matcher.flights : Opening(Matcher.flights[i].captures) \in Recs(matched) \ earlier
    BY <1>1 DEF Accounts
  <2>2. \A i, j \in DOMAIN Matcher.flights :
          i < j => Precedes(matched, Opening(Matcher.flights[i].captures), Opening(Matcher.flights[j].captures))
    BY <1>1 DEF Accounts
  <2>3. DOMAIN Matcher.out = {}
    BY <1>1
  <2> HIDE DEF earlier
  <2> QED
    BY <2>1, <2>2, <2>3 DEF Accounts
<1>6. Accounts(st2, M, earlier) /\ st2 \in State
  BY <1>3, <1>4, <1>5 DEF OpensAll
<1> DEFINE all == emitted \o st2.out
           N == [flights |-> st2.flights, out |-> all, drops |-> st2.drops]
<1>7. /\ emitted \in Seq(Match) /\ st2.out \in Seq(Match) /\ st2.drops \in [DropReason -> Nat]
      /\ st2.flights \in Seq(InFlight) /\ Len(st2.flights) <= MAX_IN_FLIGHT
      /\ DOMAIN emitted = 1 .. Len(emitted) /\ DOMAIN st2.out = 1 .. Len(st2.out)
  BY <1>1, <1>6, StateFields
<1>8. /\ all \in Seq(Match)
      /\ \A i \in 1 .. Len(emitted) : all[i] = emitted[i]
      /\ \A k \in 1 .. Len(st2.out) : all[Len(emitted) + k] = st2.out[k]
      /\ \A i \in DOMAIN all : i \in 1 .. Len(emitted) \/ \E k \in 1 .. Len(st2.out) : i = Len(emitted) + k
  BY <1>7, ConcatItems
<1>9. SoFar' = N /\ runtime' = runtime /\ matched' = M
  BY DEF SoFar, Becomes
<1>10. N \in State
  <2> HIDE DEF all
  <2> QED
    BY <1>7, <1>8 DEF State
<1>11. N.flights = st2.flights /\ N.out = all
  OBVIOUS
<1> HIDE DEF earlier, M, all, N
<1>12. /\ \A i \in 1 .. Len(emitted) : Opening(emitted[i]) \in earlier /\ Opening(emitted[i]) \in Recs(M)
       /\ \A i, j \in 1 .. Len(emitted) : Opening(emitted[i]) = Opening(emitted[j]) => i = j
  <2>1. \A i \in DOMAIN emitted : Opening(emitted[i]) \in Recs(matched)
    BY <1>1 DEF Accounts
  <2>2. \A i, j \in DOMAIN emitted : Opening(emitted[i]) = Opening(emitted[j]) => i = j
    BY <1>1 DEF Accounts
  <2> QED
    BY <1>2, <1>7, <2>1, <2>2 DEF earlier
<1>13. /\ \A k \in 1 .. Len(st2.out) : Opening(st2.out[k]) \in Recs(M) \ earlier
       /\ \A k, l \in 1 .. Len(st2.out) : Opening(st2.out[k]) = Opening(st2.out[l]) => k = l
  BY <1>6, <1>7 DEF Accounts
<1>14. \A i \in DOMAIN N.out : Opening(N.out[i]) \in Recs(M) \ {}
  BY <1>8, <1>11, <1>12, <1>13
<1>15. \A i, j \in DOMAIN N.out : Opening(N.out[i]) = Opening(N.out[j]) => i = j
  <2> SUFFICES ASSUME NEW i \in DOMAIN all, NEW j \in DOMAIN all, Opening(all[i]) = Opening(all[j])
               PROVE  i = j
    BY <1>11
  <2>1. CASE i \in 1 .. Len(emitted) /\ j \in 1 .. Len(emitted)
    BY <1>8, <1>12, <2>1
  <2>2. ASSUME NEW k \in 1 .. Len(st2.out), j = Len(emitted) + k, i \in 1 .. Len(emitted) PROVE FALSE
    BY <1>8, <1>12, <1>13, <2>2
  <2>3. ASSUME NEW k \in 1 .. Len(st2.out), i = Len(emitted) + k, j \in 1 .. Len(emitted) PROVE FALSE
    BY <1>8, <1>12, <1>13, <2>3
  <2>4. ASSUME NEW k \in 1 .. Len(st2.out), i = Len(emitted) + k,
               NEW l \in 1 .. Len(st2.out), j = Len(emitted) + l
        PROVE  i = j
    BY <1>8, <1>13, <2>4
  <2> QED
    BY <1>8, <2>1, <2>2, <2>3, <2>4
<1>16. \A i \in DOMAIN N.flights : Opening(N.flights[i].captures) \in Recs(M) \ {}
  BY <1>6, <1>11 DEF Accounts
<1>17. \A i \in DOMAIN N.flights, j \in DOMAIN N.out :
         Opening(N.flights[i].captures) # Opening(N.out[j])
  <2> SUFFICES ASSUME NEW i \in DOMAIN st2.flights, NEW j \in DOMAIN all
               PROVE  Opening(st2.flights[i].captures) # Opening(all[j])
    BY <1>11
  <2>1. CASE j \in 1 .. Len(emitted)
    <3>1. Opening(st2.flights[i].captures) \notin earlier
      BY <1>6 DEF Accounts
    <3> QED
      BY <1>8, <1>12, <2>1, <3>1
  <2>2. ASSUME NEW k \in 1 .. Len(st2.out), j = Len(emitted) + k
        PROVE  Opening(st2.flights[i].captures) # Opening(all[j])
    <3>1. Opening(st2.flights[i].captures) # Opening(st2.out[k])
      BY <1>6, <1>7 DEF Accounts
    <3> QED
      BY <1>8, <2>2, <3>1
  <2> QED
    BY <1>8, <2>1, <2>2
<1>18. \A i, j \in DOMAIN N.flights :
         i < j => Precedes(M, Opening(N.flights[i].captures), Opening(N.flights[j].captures))
  BY <1>6, <1>11 DEF Accounts
<1>19. Accounts(N, M, {})
  BY <1>14, <1>15, <1>16, <1>17, <1>18 DEF Accounts
<1> QED
  BY <1>9, <1>10, <1>19

-----------------------------------------------------------------------------
(* What the buffer has released. *)

\* The constants are as ReorderBuffer assumes them.
LEMMA BufferConstants ==
  /\ Timestamps \subseteq Buf!Time /\ Clocks \subseteq Buf!Time /\ RequestedLateness \in Buf!Time
  /\ MAX_LATENESS_MS \in Buf!Time /\ MAX_LATENESS_MS >= 0 /\ MaxArrivals \in Nat
  /\ TimeMin \in Int /\ TimeMax \in Int /\ TimeMin <= 0 /\ 0 <= TimeMax /\ None \notin Int
BY CepAssumption, TimeAssumption DEF Buf!Time, Time

\* Every operation of the buffer keeps its invariant and only adds to what it has released.
LEMMA BufferInit == Buffer!Init => Buf!OrderInv
BY SameInit, BufferConstants, Buf!InitOrder

LEMMA BufferStep ==
  ASSUME Buf!OrderInv, NEW ts \in Timestamps, Buffer!StepBuffered(ts)
  PROVE  Buf!OrderInv' /\ Buf!ReleasedGrows
BY SameStepBuffered, BufferConstants, Buf!StepBufferedOrder

LEMMA BufferDivert ==
  ASSUME Buf!OrderInv, NEW ts \in Timestamps, Buffer!Divert(ts), late' = <<>>
  PROVE  Buf!OrderInv'
<1>1. late' \in Seq(Buf!LateRecord)
  OBVIOUS
<1> QED
  BY <1>1, SameDivert, BufferConstants, Buf!DivertOrder

LEMMA BufferAdvance ==
  ASSUME Buf!OrderInv, NEW t \in Clocks, Buffer!AdvanceWatermark(t)
  PROVE  Buf!OrderInv' /\ Buf!ReleasedGrows
BY SameAdvance, BufferConstants, Buf!AdvanceWatermarkOrder

LEMMA BufferFlush ==
  ASSUME Buf!OrderInv, Buffer!Flush
  PROVE  Buf!OrderInv' /\ Buf!ReleasedGrows
BY SameFlush, BufferConstants, Buf!FlushOrder

\* What the buffer's invariant says of the records it has released.
RecordsReleased ==
  /\ released \in Seq(Buf!Entry) /\ arrivals \in 0 .. MaxArrivals
  /\ \A i \in DOMAIN released :
       released[i].ts \in Timestamps /\ released[i].rec \in 1 .. arrivals
  /\ \A i, j \in DOMAIN released : released[i].rec = released[j].rec => i = j

\* They are distinct, because they leave the buffer in a strict order.
LEMMA ReleasedRecords == Buf!OrderInv => RecordsReleased
<1> SUFFICES ASSUME Buf!OrderInv PROVE RecordsReleased
  OBVIOUS
<1>1. released \in Seq(Buf!Entry) /\ arrivals \in 0 .. MaxArrivals
  BY DEF Buf!OrderInv, Buf!TypeOK
<1>2. \A i \in DOMAIN released : released[i] \in Buf!Entry
  BY <1>1
<1>3. \A i \in DOMAIN released : released[i] \in Buf!Known
  BY DEF Buf!Known, Buf!ReleasedSet
<1>4. \A i \in DOMAIN released : released[i].rec <= arrivals
  BY <1>3 DEF Buf!OrderInv, Buf!SeqFresh
<1>5. ASSUME NEW i \in DOMAIN released
      PROVE  released[i].ts \in Timestamps /\ released[i].ts \in Int /\ released[i].seq \in Int
             /\ released[i].rec \in 1 .. arrivals
  <2>1. released[i].ts \in Timestamps /\ released[i].seq \in Nat /\ released[i].rec \in 1 .. MaxArrivals
    BY <1>2 DEF Buf!Entry
  <2>2. released[i].rec \in Nat /\ 1 <= released[i].rec /\ arrivals \in Nat
    BY <1>1, <2>1, CepAssumption
  <2>3. released[i].rec \in 1 .. arrivals
    BY <1>4, <2>2
  <2>4. released[i].ts \in Int
    BY <2>1, TimesAreInts
  <2> QED
    BY <2>1, <2>3, <2>4
<1>6. ASSUME NEW i \in DOMAIN released, NEW j \in DOMAIN released, released[i].rec = released[j].rec
      PROVE  i = j
  <2>1. released[i] = released[j]
    BY <1>3, <1>6, BufferConstants, Buf!RecIdentifies
  <2>2. ~Buf!Before(released[i], released[j]) /\ ~Buf!Before(released[j], released[i])
    BY <1>5, <2>1 DEF Buf!Before
  <2>3. ~(i < j) /\ ~(j < i)
    BY <2>2 DEF Buf!OrderInv, Buf!InEventTimeOrder
  <2>4. i \in Int /\ j \in Int
    BY <1>1
  <2> QED
    BY <2>3, <2>4
<1> QED
  BY <1>1, <1>5, <1>6 DEF RecordsReleased

\* And after the step.
LEMMA ReleasedRecordsNext == (Buf!OrderInv)' => RecordsReleased'
BY ReleasedRecords, PTL

-----------------------------------------------------------------------------
(* The invariant, and one lemma per operation. *)

\* With a reorder buffer the matcher has seen what the buffer has released; without
\* one, every event that was pushed.
SeesReleased ==
  /\ Len(matched) = Len(released)
  /\ \A i \in 1 .. Len(released) : matched[i].rec = released[i].rec

SeesPushed ==
  /\ Len(matched) = arrivals
  /\ \A i \in 1 .. arrivals : matched[i].rec = i

\* The inductive invariant: the account of the openings over the events matched so far,
\* none of them twice, and where those events come from.
CepInv ==
  /\ runtime \in Runtimes /\ SoFar \in State
  /\ matched \in Seq(Event) /\ Distinct(matched) /\ Accounts(SoFar, matched, {})
  /\ log \in Seq(AllEvents) /\ Len(log) = arrivals /\ arrivals \in 0 .. MaxArrivals
  /\ Reordering => Buf!OrderInv /\ SeesReleased
  /\ ~Reordering => released = <<>> /\ SeesPushed

\* The event of a record that was pushed.
LEMMA EventAtType ==
  ASSUME NEW L \in Seq(AllEvents), Len(L) <= MaxArrivals,
         NEW x, x.ts \in Timestamps, x.rec \in 1 .. Len(L)
  PROVE  EventAt(L, x) \in Event /\ EventAt(L, x).rec = x.rec
<1>1. L[x.rec] \in AllEvents /\ x.rec \in 1 .. MaxArrivals
  BY CepAssumption
<1> QED
  BY <1>1 DEF EventAt, Event

\* What a sequence has after its first n elements.
LEMMA RestItems ==
  ASSUME NEW S, NEW s \in Seq(S), NEW n \in Nat, n <= Len(s)
  PROVE  LET rest == SubSeq(s, n + 1, Len(s))
         IN  /\ DOMAIN rest = 1 .. Len(s) - n /\ Len(rest) = Len(s) - n
             /\ \A k \in 1 .. Len(s) - n : rest[k] = s[n + k] /\ n + k \in 1 .. Len(s)
<1> DEFINE rest == SubSeq(s, n + 1, Len(s))
<1>1. rest \in Seq(S) /\ Len(rest) = (IF n + 1 <= Len(s) THEN Len(s) - (n + 1) + 1 ELSE 0)
      /\ \A k \in 1 .. Len(rest) : rest[k] = s[n + 1 + k - 1]
  OBVIOUS
<1> HIDE DEF rest
<1>2. Len(rest) = Len(s) - n /\ Len(s) \in Nat
  BY <1>1
<1>3. \A k \in 1 .. Len(s) - n : n + 1 + k - 1 = n + k /\ n + k \in 1 .. Len(s)
  BY <1>2
<1>4. DOMAIN rest = 1 .. Len(rest)
  BY <1>1
<1>5. \A k \in 1 .. Len(s) - n : rest[k] = s[n + k] /\ n + k \in 1 .. Len(s)
  BY <1>1, <1>2, <1>3
<1> QED
  BY <1>2, <1>4, <1>5 DEF rest

\* The events of a call are those the buffer has just released.
LEMMA ReleasedEvents ==
  ASSUME released \in Seq(Buf!Entry), matched \in Seq(Event), SeesReleased,
         Buf!OrderInv', Buf!ReleasedGrows,
         NEW L \in Seq(AllEvents), Len(L) = arrivals',
         matched' = matched \o EventsAt(L, JustReleased)
  PROVE  /\ EventsAt(L, JustReleased) \in Seq(Event)
         /\ matched' \in Seq(Event) /\ Distinct(matched') /\ SeesReleased'
<1> DEFINE n == Len(released)
           N == Len(released')
           new == JustReleased
           events == EventsAt(L, new)
<1>1. /\ released' \in Seq(Buf!Entry) /\ arrivals' \in 0 .. MaxArrivals
      /\ DOMAIN released' = 1 .. N /\ N \in Nat
      /\ \A i \in 1 .. N : released'[i].ts \in Timestamps /\ released'[i].rec \in 1 .. arrivals'
      /\ \A i, j \in 1 .. N : released'[i].rec = released'[j].rec => i = j
  <2>1. RecordsReleased'
    BY ReleasedRecordsNext
  <2>2. /\ released' \in Seq(Buf!Entry) /\ arrivals' \in 0 .. MaxArrivals
        /\ \A i \in DOMAIN released' :
             released'[i].ts \in Timestamps /\ released'[i].rec \in 1 .. arrivals'
        /\ \A i, j \in DOMAIN released' : released'[i].rec = released'[j].rec => i = j
    BY <2>1 DEF RecordsReleased
  <2>3. DOMAIN released' = 1 .. N /\ N \in Nat
    BY <2>2
  <2> QED
    BY <2>2, <2>3
<1>2. n \in Nat /\ n <= N /\ DOMAIN released = 1 .. n /\ \A i \in 1 .. n : released'[i] = released[i]
  BY DEF Buf!ReleasedGrows
<1>3. /\ DOMAIN new = 1 .. N - n /\ Len(new) = N - n
      /\ \A k \in 1 .. N - n : new[k] = released'[n + k] /\ n + k \in 1 .. N
  <2>1. new = SubSeq(released', n + 1, N)
    BY DEF JustReleased
  <2> HIDE DEF new
  <2> QED
    BY <1>1, <1>2, <2>1, RestItems
<1> HIDE DEF new
<1>4. ASSUME NEW k \in 1 .. N - n
      PROVE  EventAt(L, new[k]) \in Event /\ EventAt(L, new[k]).rec = released'[n + k].rec
  <2>1. Len(L) <= MaxArrivals
    BY <1>1, CepAssumption
  <2> QED
    BY <1>1, <1>3, <2>1, EventAtType
<1>5. /\ events \in Seq(Event) /\ Len(events) = N - n
      /\ \A k \in 1 .. N - n : events[k].rec = released'[n + k].rec
  <2>1. N - n \in Nat
    BY <1>1, <1>2
  <2> QED
    BY <1>3, <1>4, <2>1 DEF EventsAt
<1> HIDE DEF events
<1>6. matched' = matched \o events
  BY DEF events, new
<1>7. /\ matched' \in Seq(Event) /\ Len(matched') = n + (N - n) /\ DOMAIN matched' = 1 .. n + (N - n)
      /\ \A i \in 1 .. n : matched'[i] = matched[i]
      /\ \A k \in 1 .. N - n : matched'[n + k] = events[k]
      /\ \A i \in DOMAIN matched' : i \in 1 .. n \/ \E k \in 1 .. N - n : i = n + k
  <2> DEFINE M == matched \o events
             l == Len(matched)
             r == Len(events)
  <2>1. /\ M \in Seq(Event) /\ Len(M) = l + r /\ DOMAIN M = 1 .. l + r
        /\ \A i \in 1 .. l : M[i] = matched[i]
        /\ \A k \in 1 .. r : M[l + k] = events[k]
        /\ \A i \in DOMAIN M : i \in 1 .. l \/ \E k \in 1 .. r : i = l + k
    <3>1. events \in Seq(Event) /\ matched \in Seq(Event)
      BY <1>5
    <3> QED
      BY <3>1, ConcatItems
  <2>2. l = n /\ r = N - n
    BY <1>5 DEF SeesReleased
  <2> HIDE DEF M, l, r
  <2>3. matched' = M
    BY <1>6 DEF M
  <2> QED
    BY <2>1, <2>2, <2>3
<1>8. Len(matched') = N /\ DOMAIN matched' = 1 .. N
  <2>1. n + (N - n) = N
    BY <1>1, <1>2
  <2> QED
    BY <1>7, <2>1
<1>9. \A i \in 1 .. N : matched'[i].rec = released'[i].rec
  <2> SUFFICES ASSUME NEW i \in 1 .. N PROVE matched'[i].rec = released'[i].rec
    OBVIOUS
  <2>1. CASE i \in 1 .. n
    BY <1>2, <1>7, <2>1 DEF SeesReleased
  <2>2. ASSUME NEW k \in 1 .. N - n, i = n + k PROVE matched'[i].rec = released'[i].rec
    BY <1>5, <1>7, <2>2
  <2> QED
    BY <1>7, <1>8, <2>1, <2>2
<1>10. Distinct(matched')
  BY <1>1, <1>8, <1>9 DEF Distinct
<1>11. SeesReleased'
  BY <1>8, <1>9 DEF SeesReleased
<1> QED
  BY <1>5, <1>7, <1>10, <1>11 DEF events, new

\* A call starts from a state.
LEMMA MatcherState == CepInv => Matcher \in State
<1> SUFFICES ASSUME CepInv PROVE Matcher \in State
  OBVIOUS
<1>1. SoFar \in State /\ SoFar.flights = in_flight /\ SoFar.drops = drops
  BY DEF CepInv, SoFar
<1>2. in_flight \in Seq(InFlight) /\ Len(in_flight) <= MAX_IN_FLIGHT /\ drops \in [DropReason -> Nat]
  BY <1>1, StateFields
<1> QED
  BY <1>2 DEF State, Matcher

\* A runtime is given events of its own.
LEMMA EventsKnown == ASSUME runtime \in Runtimes, NEW ev \in Events PROVE ev \in AllEvents
BY DEF Events, AllEvents

\* What a call makes of the events it is given.
LEMMA MatcherOpens ==
  ASSUME CepInv, NEW events \in Seq(Event), NEW t
  PROVE  LET st == MatchAll(Matcher, events)
         IN  /\ OpensAll(Matcher, events, st)
             /\ OpensAll(Matcher, events, AdvanceDeadlines(st, t))
             /\ OpensAll(Matcher, events, Conclude(st))
<1> DEFINE st == MatchAll(Matcher, events)
<1>1. runtime \in Runtimes
  BY DEF CepInv
<1>2. OpensAll(Matcher, events, st)
  BY <1>1, MatcherState, MatchAllOpens
<1> HIDE DEF st
<1>3. st \in State
  BY <1>2 DEF OpensAll
<1>4. Keeps(st, AdvanceDeadlines(st, t)) /\ Keeps(st, Conclude(st))
  BY <1>1, <1>3, AdvanceDeadlinesKeeps, ConcludeKeeps
<1>5. OpensAll(Matcher, events, AdvanceDeadlines(st, t))
  BY <1>2, <1>4, OpensThenKeeps
<1>6. OpensAll(Matcher, events, Conclude(st))
  BY <1>2, <1>4, OpensThenKeeps
<1> QED
  BY <1>2, <1>5, <1>6 DEF st

\* A call that matches what the buffer has released by it, if there is a buffer.
LEMMA NothingReleased ==
  ASSUME released = <<>>, released' = <<>>, NEW L
  PROVE  EventsAt(L, JustReleased) = <<>>
<1>1. JustReleased = <<>>
  BY DEF JustReleased
<1> QED
  BY <1>1 DEF EventsAt

\* The events of any call are new to the matcher.
LEMMA CallEvents ==
  ASSUME CepInv,
         log' \in Seq(AllEvents), Len(log') = arrivals',
         Reordering => (Buf!OrderInv)' /\ Buf!ReleasedGrows,
         ~Reordering => released' = released,
         matched' = matched \o EventsAt(log', JustReleased)
  PROVE  /\ EventsAt(log', JustReleased) \in Seq(Event)
         /\ matched' \in Seq(Event) /\ Distinct(matched')
         /\ Reordering => SeesReleased'
         /\ ~Reordering => released' = <<>> /\ matched' = matched
<1>1. CASE Reordering
  <2>1. released \in Seq(Buf!Entry)
    BY <1>1, ReleasedRecords DEF CepInv, RecordsReleased
  <2>2. matched \in Seq(Event) /\ SeesReleased
    BY <1>1 DEF CepInv
  <2> QED
    BY <1>1, <2>1, <2>2, ReleasedEvents
<1>2. CASE ~Reordering
  <2>1. released = <<>> /\ released' = <<>> /\ matched \in Seq(Event) /\ Distinct(matched)
    BY <1>2 DEF CepInv
  <2>2. EventsAt(log', JustReleased) = <<>>
    BY <2>1, NothingReleased
  <2>3. matched' = matched
    BY <2>1, <2>2
  <2> QED
    BY <1>2, <2>1, <2>2, <2>3
<1> QED
  BY <1>1, <1>2

\* What is a state depends on the runtime, which never changes.
LEMMA SameRuntime ==
  ASSUME runtime' = runtime
  PROVE  State' = State /\ (Reordering' <=> Reordering)
<1>1. pattern' = pattern
  BY DEF pattern
<1>2. \A pm : Waits(pm)' <=> Waits(pm)
  BY <1>1 DEF Waits, Awaited
<1>3. InFlight' = InFlight
  BY <1>2 DEF InFlight
<1> QED
  BY <1>3 DEF State, Reordering

\* So every call that matches the released events keeps the invariant.
LEMMA CallInv ==
  ASSUME CepInv,
         log' \in Seq(AllEvents), Len(log') = arrivals', arrivals' \in 0 .. MaxArrivals,
         Reordering => (Buf!OrderInv)' /\ Buf!ReleasedGrows,
         ~Reordering => released' = released /\ arrivals' = arrivals,
         matched' = matched \o EventsAt(log', JustReleased),
         NEW st2, OpensAll(Matcher, EventsAt(log', JustReleased), st2), Becomes(st2)
  PROVE  CepInv'
<1> DEFINE events == EventsAt(log', JustReleased)
<1>1. /\ events \in Seq(Event)
      /\ matched' \in Seq(Event) /\ Distinct(matched')
      /\ Reordering => SeesReleased'
      /\ ~Reordering => released' = <<>> /\ matched' = matched
  BY CallEvents
<1>2. /\ runtime \in Runtimes /\ SoFar \in State /\ matched \in Seq(Event)
      /\ Accounts(SoFar, matched, {})
  BY DEF CepInv
<1>3. Distinct(matched \o events) /\ matched' = matched \o events
  BY <1>1
<1> HIDE DEF events
<1>4. OpensAll(Matcher, events, st2)
  BY DEF events
<1>5. runtime' = runtime /\ SoFar' \in State /\ Accounts(SoFar', matched', {})
  BY <1>1, <1>2, <1>3, <1>4, CallAccounts
<1>6. (SoFar \in State)' /\ Accounts(SoFar, matched, {})' /\ Distinct(matched)' /\ (Reordering' <=> Reordering)
  <2>1. State' = State /\ (Reordering' <=> Reordering)
    BY <1>5, SameRuntime
  <2>2. Accounts(SoFar, matched, {})'
    BY <1>5 DEF Accounts, Precedes, Recs
  <2>3. Distinct(matched)'
    BY <1>1 DEF Distinct
  <2> QED
    BY <1>5, <2>1, <2>2, <2>3
<1>7. ~Reordering => SeesPushed'
  BY <1>1 DEF CepInv, SeesPushed
<1>8. (runtime \in Runtimes)' /\ (matched \in Seq(Event))' /\ (log \in Seq(AllEvents))'
  BY <1>1, <1>2, <1>5
<1>9. (Reordering => Buf!OrderInv /\ SeesReleased)' /\ (~Reordering => released = <<>> /\ SeesPushed)'
  BY <1>1, <1>6, <1>7
<1> QED
  BY <1>6, <1>8, <1>9 DEF CepInv

\* The matcher sees one event more.
LEMMA PushDirectInv ==
  ASSUME CepInv, NEW ev \in Events, NEW ts \in Timestamps, PushDirect(ev, ts)
  PROVE  CepInv'
<1> DEFINE e == [ev |-> ev, ts |-> ts, rec |-> arrivals + 1]
<1>1. /\ ~Reordering /\ arrivals < MaxArrivals /\ arrivals' = arrivals + 1
      /\ log' = Append(log, ev) /\ released' = released
      /\ Becomes(MatchOne(Matcher, e)) /\ matched' = Append(matched, e)
  BY DEF PushDirect
<1>2. /\ runtime \in Runtimes /\ SoFar \in State /\ matched \in Seq(Event)
      /\ Accounts(SoFar, matched, {}) /\ log \in Seq(AllEvents) /\ Len(log) = arrivals
      /\ arrivals \in 0 .. MaxArrivals /\ released = <<>> /\ SeesPushed
  BY <1>1 DEF CepInv
<1>3. arrivals \in Nat /\ arrivals + 1 \in 1 .. MaxArrivals /\ arrivals' \in 0 .. MaxArrivals
  BY <1>1, <1>2, CepAssumption
<1>4. ev \in AllEvents /\ e \in Event /\ e.rec = arrivals + 1
  BY <1>2, <1>3, EventsKnown DEF Event
<1> HIDE DEF e
<1>5. log' \in Seq(AllEvents) /\ Len(log') = arrivals'
  BY <1>1, <1>2, <1>4
<1>6. /\ matched' = matched \o <<e>> /\ <<e>> \in Seq(Event)
      /\ matched' \in Seq(Event) /\ DOMAIN matched' = 1 .. arrivals + 1 /\ Len(matched') = arrivals + 1
      /\ \A i \in 1 .. arrivals : matched'[i] = matched[i]
      /\ matched'[arrivals + 1] = e
  <2>1. Len(matched) = arrivals
    BY <1>2 DEF SeesPushed
  <2>2. /\ Append(matched, e) \in Seq(Event) /\ Len(Append(matched, e)) = Len(matched) + 1
        /\ DOMAIN Append(matched, e) = 1 .. Len(matched) + 1
        /\ \A i \in 1 .. Len(matched) : Append(matched, e)[i] = matched[i]
        /\ Append(matched, e)[Len(matched) + 1] = e
    BY <1>2, <1>4, AppendItems
  <2>3. Append(matched, e) = matched \o <<e>> /\ <<e>> \in Seq(Event)
    BY <1>2, <1>4
  <2> QED
    BY <1>1, <2>1, <2>2, <2>3
<1>7. \A i \in 1 .. arrivals + 1 : matched'[i].rec = i
  <2>1. \A i \in 1 .. arrivals + 1 : i \in 1 .. arrivals \/ i = arrivals + 1
    BY <1>3
  <2> QED
    BY <1>2, <1>4, <1>6, <2>1 DEF SeesPushed
<1>8. Distinct(matched')
  BY <1>6, <1>7 DEF Distinct
<1>9. OpensAll(Matcher, <<e>>, MatchOne(Matcher, e))
  BY <1>2, <1>4, MatcherState, MatchOneOpens, OpensOne
<1>10. runtime' = runtime /\ SoFar' \in State /\ Accounts(SoFar', matched', {})
  <2> DEFINE st2 == MatchOne(Matcher, e)
             events == <<e>>
  <2>1. OpensAll(Matcher, events, st2) /\ Becomes(st2) /\ matched' = matched \o events
        /\ Distinct(matched \o events) /\ events \in Seq(Event)
    BY <1>1, <1>6, <1>8, <1>9
  <2> HIDE DEF st2, events
  <2> QED
    BY <1>2, <2>1, CallAccounts
<1>11. State' = State /\ (Reordering' <=> Reordering)
  BY <1>10, SameRuntime
<1>12. SeesPushed'
  BY <1>1, <1>6, <1>7 DEF SeesPushed
<1>13. Accounts(SoFar, matched, {})' /\ Distinct(matched)'
  BY <1>8, <1>10 DEF Accounts, Precedes, Recs, Distinct
<1> QED
  BY <1>1, <1>2, <1>3, <1>5, <1>6, <1>10, <1>11, <1>12, <1>13 DEF CepInv

\* push_at with a reorder buffer: the event goes in, and others may come out.
LEMMA PushReorderedInv ==
  ASSUME CepInv, NEW ev \in Events, NEW ts \in Timestamps, PushReordered(ev, ts)
  PROVE  CepInv'
<1> DEFINE events == EventsAt(log', JustReleased)
           st2 == MatchAll(Matcher, events)
<1>1. /\ Reordering /\ Buffer!StepBuffered(ts) /\ log' = Append(log, ev)
      /\ Becomes(st2) /\ matched' = matched \o events
  BY DEF PushReordered
<1>2. Buf!OrderInv /\ log \in Seq(AllEvents) /\ Len(log) = arrivals /\ ev \in AllEvents
      /\ arrivals \in 0 .. MaxArrivals
  BY <1>1, EventsKnown DEF CepInv
<1>3. (Buf!OrderInv)' /\ Buf!ReleasedGrows
  BY <1>1, <1>2, BufferStep
<1>4. arrivals' = arrivals + 1 /\ arrivals' \in 0 .. MaxArrivals
  BY <1>1, <1>2, CepAssumption DEF Buffer!StepBuffered
<1>5. log' \in Seq(AllEvents) /\ Len(log') = arrivals'
  BY <1>1, <1>2, <1>4
<1>6. events \in Seq(Event)
  BY <1>1, <1>3, <1>5, CallEvents
<1> HIDE DEF events
<1>7. OpensAll(Matcher, events, st2)
  BY <1>6, MatcherOpens
<1> HIDE DEF st2
<1> QED
  BY <1>1, <1>3, <1>4, <1>5, <1>7, CallInv DEF events

\* tick: the releases are matched, then the deadlines are swept.
LEMMA TickInv ==
  ASSUME CepInv, NEW t \in Clocks, Tick(t)
  PROVE  CepInv'
<1> DEFINE events == EventsAt(log', JustReleased)
           st2 == AdvanceDeadlines(MatchAll(Matcher, events), t)
<1>1. /\ IF Reordering THEN Buffer!AdvanceWatermark(t) ELSE UNCHANGED <<bufferVars, streamVars>>
      /\ log' = log /\ Becomes(st2) /\ matched' = matched \o events
  BY DEF Tick
<1>2. (Reordering => Buf!OrderInv) /\ log \in Seq(AllEvents) /\ Len(log) = arrivals
      /\ arrivals \in 0 .. MaxArrivals
  BY DEF CepInv
<1>3. Reordering => (Buf!OrderInv)' /\ Buf!ReleasedGrows
  BY <1>1, <1>2, BufferAdvance
<1>4. arrivals' = arrivals /\ (~Reordering => released' = released)
  BY <1>1 DEF Buffer!AdvanceWatermark, streamVars
<1>5. log' \in Seq(AllEvents) /\ Len(log') = arrivals' /\ arrivals' \in 0 .. MaxArrivals
  BY <1>1, <1>2, <1>4
<1>6. events \in Seq(Event)
  BY <1>1, <1>3, <1>4, <1>5, CallEvents
<1> HIDE DEF events
<1>7. OpensAll(Matcher, events, st2)
  BY <1>6, MatcherOpens
<1> HIDE DEF st2
<1> QED
  BY <1>1, <1>3, <1>4, <1>5, <1>7, CallInv DEF events

\* flush: all that is buffered is matched, and what can succeed does.
LEMMA FlushInv ==
  ASSUME CepInv, Flush
  PROVE  CepInv'
<1> DEFINE events == EventsAt(log', JustReleased)
           st2 == Conclude(MatchAll(Matcher, events))
<1>1. /\ IF Reordering THEN Buffer!Flush
         ELSE flushed' = TRUE /\ UNCHANGED <<bufferVars, arrivals, released, dropped>>
      /\ log' = log /\ Becomes(st2) /\ matched' = matched \o events
  BY DEF Flush
<1>2. (Reordering => Buf!OrderInv) /\ log \in Seq(AllEvents) /\ Len(log) = arrivals
      /\ arrivals \in 0 .. MaxArrivals
  BY DEF CepInv
<1>3. Reordering => (Buf!OrderInv)' /\ Buf!ReleasedGrows
  BY <1>1, <1>2, BufferFlush
<1>4. arrivals' = arrivals /\ (~Reordering => released' = released)
  BY <1>1 DEF Buffer!Flush
<1>5. log' \in Seq(AllEvents) /\ Len(log') = arrivals' /\ arrivals' \in 0 .. MaxArrivals
  BY <1>1, <1>2, <1>4
<1>6. events \in Seq(Event)
  BY <1>1, <1>3, <1>4, <1>5, CallEvents
<1> HIDE DEF events
<1>7. OpensAll(Matcher, events, st2)
  BY <1>6, MatcherOpens
<1> HIDE DEF st2
<1> QED
  BY <1>1, <1>3, <1>4, <1>5, <1>7, CallInv DEF events

\* Neither of these emits anything.
LEMMA QuietInv ==
  ASSUME CepInv, runtime' = runtime, emitted' = emitted, matched' = matched, released' = released,
         drops' \in [DropReason -> Nat], in_flight' = in_flight \/ in_flight' = <<>>,
         log' \in Seq(AllEvents), Len(log') = arrivals', arrivals' \in 0 .. MaxArrivals,
         Reordering => (Buf!OrderInv)', ~Reordering => arrivals' = arrivals
  PROVE  CepInv'
<1>1. /\ runtime \in Runtimes /\ SoFar \in State /\ matched \in Seq(Event) /\ Distinct(matched)
      /\ Accounts(SoFar, matched, {})
      /\ Reordering => SeesReleased
      /\ ~Reordering => released = <<>> /\ SeesPushed
  BY DEF CepInv
<1>2. /\ SoFar.flights = in_flight /\ SoFar.out = emitted
      /\ SoFar' = [flights |-> in_flight', out |-> emitted, drops |-> drops']
  BY DEF SoFar
<1>3. emitted \in Seq(Match) /\ in_flight' \in Seq(InFlight) /\ Len(in_flight') <= MAX_IN_FLIGHT
  <2>1. emitted \in Seq(Match) /\ in_flight \in Seq(InFlight) /\ Len(in_flight) <= MAX_IN_FLIGHT
    BY <1>1, <1>2, StateFields
  <2>2. <<>> \in Seq(InFlight) /\ Len(<<>>) <= MAX_IN_FLIGHT
    BY CepAssumption
  <2> QED
    BY <2>1, <2>2
<1> DEFINE N == [flights |-> in_flight', out |-> emitted, drops |-> drops']
<1>4. N \in State
  BY <1>3 DEF State
<1>5. Accounts(N, matched, {})
  <2>1. N.flights = in_flight' /\ N.out = emitted
    OBVIOUS
  <2> HIDE DEF N
  <2>2. CASE in_flight' = in_flight
    BY <1>1, <1>2, <2>1, <2>2 DEF Accounts
  <2>3. CASE in_flight' = <<>>
    <3>1. DOMAIN N.flights = {}
      BY <2>1, <2>3
    <3> QED
      BY <1>1, <1>2, <2>1, <3>1 DEF Accounts
  <2> QED
    BY <2>2, <2>3
<1>6. State' = State /\ (Reordering' <=> Reordering)
  BY SameRuntime
<1>7. (SoFar \in State)'
  BY <1>2, <1>4, <1>6
<1>8. Accounts(SoFar, matched, {})' /\ Distinct(matched)'
  <2> HIDE DEF N
  <2>1. SoFar' = N
    BY <1>2 DEF N
  <2>2. Accounts(SoFar', matched', {})
    BY <1>5, <2>1
  <2> QED
    BY <1>1, <2>2 DEF Accounts, Precedes, Recs, Distinct
<1>9. (Reordering => SeesReleased') /\ (~Reordering => released' = <<>> /\ SeesPushed')
  BY <1>1 DEF SeesReleased, SeesPushed
<1>10. (Reordering => Buf!OrderInv /\ SeesReleased)' /\ (~Reordering => released = <<>> /\ SeesPushed)'
  BY <1>6, <1>9
<1>11. (runtime \in Runtimes)' /\ (matched \in Seq(Event))'
  BY <1>1
<1> QED
  BY <1>7, <1>8, <1>10, <1>11 DEF CepInv

\* push_at with an event that is too late: it is counted,
LEMMA PushLateInv ==
  ASSUME CepInv, NEW ev \in Events, NEW ts \in Timestamps, PushLate(ev, ts)
  PROVE  CepInv'
<1>1. /\ Reordering /\ Buffer!Divert(ts) /\ late' = <<>> /\ log' = Append(log, ev)
      /\ drops' = [drops EXCEPT !["Late"] = @ + 1]
      /\ UNCHANGED <<runtime, in_flight, emitted, matched>>
  BY DEF PushLate
<1>2. Buf!OrderInv /\ log \in Seq(AllEvents) /\ Len(log) = arrivals /\ ev \in AllEvents
      /\ arrivals \in 0 .. MaxArrivals /\ SoFar \in State
  BY <1>1, EventsKnown DEF CepInv
<1>3. (Buf!OrderInv)'
  BY <1>1, <1>2, BufferDivert
<1>4. arrivals' = arrivals + 1 /\ arrivals' \in 0 .. MaxArrivals /\ released' = released
  BY <1>1, <1>2, CepAssumption DEF Buffer!Divert
<1>5. log' \in Seq(AllEvents) /\ Len(log') = arrivals'
  BY <1>1, <1>2, <1>4
<1>6. drops' \in [DropReason -> Nat]
  <2>1. drops \in [DropReason -> Nat]
    BY <1>2, StateFields DEF SoFar
  <2> QED
    BY <1>1, <2>1 DEF DropReason
<1> QED
  BY <1>1, <1>3, <1>4, <1>5, <1>6, QuietInv

\* and reset: the partials are forgotten.
LEMMA ResetInv ==
  ASSUME CepInv, Reset \/ UNCHANGED vars
  PROVE  CepInv'
<1>1. /\ UNCHANGED <<runtime, drops, emitted, log, matched, bufferVars, streamVars>>
      /\ in_flight' = <<>> \/ in_flight' = in_flight
  BY DEF Reset, vars, engineVars, callVars
<1>2. UNCHANGED <<pending, pending_seq, last_ts, max_ts_seen, late, arrivals, released, dropped, flushed>>
  BY <1>1 DEF bufferVars, streamVars
<1>3. SoFar \in State /\ log \in Seq(AllEvents) /\ Len(log) = arrivals /\ arrivals \in 0 .. MaxArrivals
      /\ (Reordering => Buf!OrderInv)
  BY DEF CepInv
<1>4. drops \in [DropReason -> Nat]
  BY <1>3, StateFields DEF SoFar
<1>5. Buf!OrderInv => (Buf!OrderInv)'
  <2>1. UNCHANGED Buf!vars
    BY <1>2 DEF Buf!vars, Buf!bufferVars, Buf!historyVars
  <2> QED
    BY <2>1, BufferConstants, Buf!TakeLateOrder
<1> QED
  BY <1>1, <1>2, <1>3, <1>4, <1>5, QuietInv

-----------------------------------------------------------------------------
(* The theorems. *)

\* At first there is nothing to account for.
LEMMA InitCepInv == Init => CepInv
<1> SUFFICES ASSUME Init PROVE CepInv
  OBVIOUS
<1>1. /\ runtime \in Runtimes /\ in_flight = <<>> /\ emitted = <<>> /\ log = <<>> /\ matched = <<>>
      /\ drops = [r \in DropReason |-> 0] /\ arrivals = 0 /\ released = <<>> /\ Buffer!Init
  BY DEF Init, Buffer!Init
<1>2. Buf!OrderInv
  BY <1>1, BufferInit
<1>3. SoFar \in State /\ SoFar.flights = <<>> /\ SoFar.out = <<>>
  BY <1>1, CepAssumption DEF SoFar, State
<1>4. Accounts(SoFar, matched, {})
  <2> DEFINE N == SoFar
  <2>1. DOMAIN N.flights = {} /\ DOMAIN N.out = {}
    BY <1>3
  <2> HIDE DEF N
  <2>2. Accounts(N, matched, {})
    BY <2>1 DEF Accounts
  <2> QED
    BY <2>2 DEF N
<1>5. matched \in Seq(Event) /\ Distinct(matched) /\ log \in Seq(AllEvents) /\ Len(log) = arrivals
      /\ arrivals \in 0 .. MaxArrivals
  BY <1>1, CepAssumption DEF Distinct
<1>6. SeesReleased /\ SeesPushed
  BY <1>1 DEF SeesReleased, SeesPushed
<1> QED
  BY <1>1, <1>2, <1>3, <1>4, <1>5, <1>6 DEF CepInv

\* Every operation keeps the invariant.
LEMMA NextCepInv == CepInv /\ [Next]_vars => CepInv'
<1> SUFFICES ASSUME CepInv, [Next]_vars PROVE CepInv'
  OBVIOUS
<1>1. ASSUME NEW ev \in Events, NEW ts \in Timestamps, Push(ev, ts) PROVE CepInv'
  BY <1>1, PushDirectInv, PushReorderedInv, PushLateInv DEF Push
<1>2. ASSUME NEW t \in Clocks, Tick(t) PROVE CepInv'
  BY <1>2, TickInv
<1>3. CASE Flush
  BY <1>3, FlushInv
<1>4. CASE Reset \/ UNCHANGED vars
  BY <1>4, ResetInv
<1> QED
  BY <1>1, <1>2, <1>3, <1>4 DEF Next

\* So it always holds.
LEMMA Invariant == Spec => []CepInv
BY InitCepInv, NextCepInv, PTL DEF Spec

\* Two lists with no element in common, and none twice in either.
LEMMA ConcatInjective ==
  ASSUME NEW S, NEW s \in Seq(S), NEW t \in Seq(S),
         \A i, j \in 1 .. Len(s) : s[i] = s[j] => i = j,
         \A i, j \in 1 .. Len(t) : t[i] = t[j] => i = j,
         \A i \in 1 .. Len(t), j \in 1 .. Len(s) : t[i] # s[j]
  PROVE  IsInjective(s \o t)
<1> DEFINE u == s \o t
<1>1. /\ \A i \in 1 .. Len(s) : u[i] = s[i]
      /\ \A k \in 1 .. Len(t) : u[Len(s) + k] = t[k]
      /\ \A i \in DOMAIN u : i \in 1 .. Len(s) \/ \E k \in 1 .. Len(t) : i = Len(s) + k
  BY ConcatItems
<1> HIDE DEF u
<1> SUFFICES ASSUME NEW i \in DOMAIN u, NEW j \in DOMAIN u, u[i] = u[j] PROVE i = j
  BY DEF IsInjective, u
<1>2. CASE i \in 1 .. Len(s) /\ j \in 1 .. Len(s)
  BY <1>1, <1>2
<1>3. ASSUME NEW k \in 1 .. Len(t), i = Len(s) + k, j \in 1 .. Len(s) PROVE FALSE
  BY <1>1, <1>3
<1>4. ASSUME NEW k \in 1 .. Len(t), j = Len(s) + k, i \in 1 .. Len(s) PROVE FALSE
  BY <1>1, <1>4
<1>5. ASSUME NEW k \in 1 .. Len(t), i = Len(s) + k, NEW l \in 1 .. Len(t), j = Len(s) + l PROVE i = j
  <2>1. t[k] = t[l]
    BY <1>1, <1>5
  <2> QED
    BY <1>5, <2>1
<1> QED
  BY <1>1, <1>2, <1>3, <1>4, <1>5

\* The account of the openings is what OneOutcomePerOpening says.
LEMMA InvOneOutcome == CepInv => OneOutcomePerOpening
<1> SUFFICES ASSUME CepInv PROVE OneOutcomePerOpening
  OBVIOUS
<1> DEFINE opening(m) == m[1].rec
           s == [i \in DOMAIN emitted |-> opening(emitted[i])]
           t == [i \in DOMAIN in_flight |-> opening(in_flight[i].captures)]
           place(n) == CHOOSE x \in DOMAIN matched : matched[x].rec = n
<1>1. SoFar \in State /\ Accounts(SoFar, matched, {}) /\ Distinct(matched) /\ matched \in Seq(Event)
      /\ SoFar.flights = in_flight /\ SoFar.out = emitted
  BY DEF CepInv, SoFar
<1>2. /\ in_flight \in Seq(InFlight) /\ emitted \in Seq(Match)
      /\ DOMAIN in_flight = 1 .. Len(in_flight) /\ DOMAIN emitted = 1 .. Len(emitted)
      /\ \A i \in DOMAIN in_flight : in_flight[i] \in Partial /\ Waits(in_flight[i])
  BY <1>1, StateFields
<1>3. /\ \A i \in DOMAIN emitted : opening(emitted[i]) \in Recs(matched)
      /\ \A i, j \in DOMAIN emitted : opening(emitted[i]) = opening(emitted[j]) => i = j
      /\ \A i \in DOMAIN in_flight : opening(in_flight[i].captures) \in Recs(matched)
      /\ \A i \in DOMAIN in_flight, j \in DOMAIN emitted :
           opening(in_flight[i].captures) # opening(emitted[j])
      /\ \A i, j \in DOMAIN in_flight :
           i < j => Precedes(matched, opening(in_flight[i].captures), opening(in_flight[j].captures))
  BY <1>1 DEF Accounts, Opening
<1>4. ASSUME NEW a, NEW b, Precedes(matched, a, b)
      PROVE  place(a) \in Int /\ place(b) \in Int /\ place(a) < place(b)
  <2>1. PICK x, y \in DOMAIN matched : x < y /\ matched[x].rec = a /\ matched[y].rec = b
    BY <1>4 DEF Precedes
  <2>2. place(a) \in DOMAIN matched /\ matched[place(a)].rec = a
    BY <2>1
  <2>3. place(b) \in DOMAIN matched /\ matched[place(b)].rec = b
    BY <2>1
  <2> HIDE DEF place
  <2>4. place(a) = x /\ place(b) = y
    BY <1>1, <2>1, <2>2, <2>3 DEF Distinct
  <2>5. x \in Int /\ y \in Int
    BY <1>1
  <2> QED
    BY <2>1, <2>4, <2>5
<1>5. \A i, j \in DOMAIN in_flight : i < j =>
        place(opening(in_flight[i].captures)) < place(opening(in_flight[j].captures))
  <2> HIDE DEF place, opening
  <2> QED
    BY <1>3, <1>4
<1>6. Waiting
  BY <1>2 DEF Waiting, Waits
<1>7. IsInjective(s \o t)
  <2>1. s \in Seq(Recs(matched)) /\ t \in Seq(Recs(matched)) /\ Len(s) = Len(emitted) /\ Len(t) = Len(in_flight)
        /\ (\A i \in 1 .. Len(s) : s[i] = opening(emitted[i]))
        /\ \A i \in 1 .. Len(t) : t[i] = opening(in_flight[i].captures)
    <3> HIDE DEF opening
    <3>1. Len(emitted) \in Nat /\ Len(in_flight) \in Nat
      BY <1>2
    <3> QED
      BY <1>2, <1>3, <3>1
  <2>2. \A i, j \in 1 .. Len(s) : s[i] = s[j] => i = j
    <3> HIDE DEF opening, s, t
    <3> QED
      BY <1>2, <1>3, <2>1
  <2>3. ASSUME NEW i \in 1 .. Len(t), NEW j \in 1 .. Len(s) PROVE t[i] # s[j]
    <3>1. i \in DOMAIN in_flight /\ t[i] = opening(in_flight[i].captures)
      BY <1>2, <2>1
    <3>2. j \in DOMAIN emitted /\ s[j] = opening(emitted[j])
      BY <1>2, <2>1
    <3> HIDE DEF opening, s, t
    <3> QED
      BY <1>3, <3>1, <3>2
  <2>4. \A i, j \in 1 .. Len(t) : t[i] = t[j] => i = j
    <3> SUFFICES ASSUME NEW i \in 1 .. Len(t), NEW j \in 1 .. Len(t), t[i] = t[j], i < j PROVE FALSE
      <4>1. Len(t) \in Nat
        BY <2>1, <1>2
      <4> HIDE DEF t
      <4> QED
        BY <4>1
    <3> HIDE DEF opening, s, t
    <3>1. Precedes(matched, t[i], t[j])
      BY <1>2, <1>3, <2>1
    <3>2. PICK x, y \in DOMAIN matched : x < y /\ matched[x].rec = t[i] /\ matched[y].rec = t[j]
      BY <3>1 DEF Precedes
    <3>3. x = y /\ x \in Int
      BY <1>1, <3>2 DEF Distinct
    <3> QED
      BY <3>2, <3>3
  <2> HIDE DEF s, t
  <2>5. s \in Seq(Recs(matched)) /\ t \in Seq(Recs(matched))
    BY <2>1
  <2> QED
    BY <2>2, <2>3, <2>4, <2>5, ConcatInjective
<1> QED
  BY <1>5, <1>6, <1>7 DEF OneOutcomePerOpening

\* However pushes, ticks, flushes and resets interleave, an event that opens a match is
\* emitted at most once and not while its partial is still in flight; the partials
\* stay in the order in which they were opened, so that the one evicted from a full
\* set is the oldest, and each waits for a step that can still take an event
\* (match_one, advance_one, advance_deadlines, try_open_new, flush).
THEOREM EachOpeningHasOneOutcome == Spec => []OneOutcomePerOpening
BY Invariant, InvOneOutcome, PTL

\* A sweep leaves what is not overdue.
LEMMA SweptIsNotOverdue ==
  ASSUME NEW st \in State, NEW ts, NEW i \in DOMAIN AdvanceDeadlines(st, ts).flights
  PROVE  ~Expired(AdvanceDeadlines(st, ts).flights[i], ts)
<1> DEFINE K == DOMAIN st.flights \ Overdue(st, ts)
<1>1. AdvanceDeadlines(st, ts).flights = Picked(st.flights, K)
  BY DEF AdvanceDeadlines
<1>2. Len(st.flights) \in Nat /\ K \in SUBSET (1 .. Len(st.flights)) /\ DOMAIN st.flights = 1 .. Len(st.flights)
  BY StateFields
<1>3. \A k \in K : ~Expired(st.flights[k], ts)
  BY DEF Overdue
<1> HIDE DEF K
<1>4. PICK p : IsPick(p, st.flights, K)
  BY <1>2, PickedInOrder
<1>5. i \in 1 .. Cardinality(K) /\ p[i] \in K /\ Picked(st.flights, K)[i] = st.flights[p[i]]
  BY <1>1, <1>4 DEF IsPick, Lists
<1> QED
  BY <1>1, <1>3, <1>5

\* So a tick does, the partials its own releases have opened included.
LEMMA TickSweeps ==
  ASSUME CepInv, NEW t \in Clocks, Tick(t), NEW i \in DOMAIN in_flight'
  PROVE  ~Expired(in_flight'[i], t)
<1> DEFINE events == EventsAt(log', JustReleased)
           st == MatchAll(Matcher, events)
<1>1. /\ IF Reordering THEN Buffer!AdvanceWatermark(t) ELSE UNCHANGED <<bufferVars, streamVars>>
      /\ log' = log /\ Becomes(AdvanceDeadlines(st, t)) /\ matched' = matched \o events
  BY DEF Tick
<1>2. (Reordering => Buf!OrderInv) /\ log \in Seq(AllEvents) /\ Len(log) = arrivals
  BY DEF CepInv
<1>3. Reordering => (Buf!OrderInv)' /\ Buf!ReleasedGrows
  BY <1>1, <1>2, BufferAdvance
<1>4. arrivals' = arrivals /\ (~Reordering => released' = released)
  BY <1>1 DEF Buffer!AdvanceWatermark, streamVars
<1>5. log' \in Seq(AllEvents) /\ Len(log') = arrivals'
  BY <1>1, <1>2, <1>4
<1>6. events \in Seq(Event)
  BY <1>1, <1>3, <1>4, <1>5, CallEvents
<1> HIDE DEF events
<1>7. st \in State
  BY <1>6, MatcherOpens DEF OpensAll
<1> HIDE DEF st
<1>8. in_flight' = AdvanceDeadlines(st, t).flights
  BY <1>1 DEF Becomes
<1> QED
  BY <1>7, <1>8, SweptIsNotOverdue

\* After tick(t) no partial is in flight whose deadline has passed at t, whatever the
\* tick has itself released from the buffer and matched: the sweep comes last.
THEOREM TicksSweep == Spec => TickLeavesNothingOverdue
<1>1. CepInv /\ [Next]_vars =>
        [\A t \in Clocks : Tick(t) => \A i \in DOMAIN in_flight' : ~Expired(in_flight'[i], t)]_vars
  BY TickSweeps
<1> QED
  BY <1>1, Invariant, PTL DEF Spec, TickLeavesNothingOverdue
=============================================================================
