------------------------- MODULE CepMatching_proofs -------------------------
(***************************************************************************)
(* A driven run finds what a batch run finds: for every runtime, and any   *)
(* calls of push_at, tick and flush between two resets, the matches are    *)
(* those of one pass over the accepted events in event-time order.         *)
(*                                                                         *)
(* A tick sweeps the deadlines before an event does it that a batch run    *)
(* would sweep them at, and a sweep does the same earlier or later: so the *)
(* runtime is, up to the next event, a batch run over what it has matched  *)
(* whose deadlines have been swept (LikeBatch), and after flush it has     *)
(* found the same. Mirrors relates two such states of the matcher.         *)
(***************************************************************************)
EXTENDS CepRuntime_proofs

-----------------------------------------------------------------------------
(* Elements taken from a sequence, and taken again from those. *)

\* Where two increasing lists of the same numbers first differ, neither is below.
LEMMA ListsMeet ==
  ASSUME NEW c \in Nat, NEW T \in SUBSET Int, NEW p, NEW q, Lists(p, c, T), Lists(q, c, T),
         NEW m \in 1 .. c, \A k \in 1 .. c : k < m => p[k] = q[k]
  PROVE  ~(p[m] < q[m])
<1> SUFFICES ASSUME p[m] < q[m] PROVE FALSE
  OBVIOUS
<1>1. p \in [1 .. c -> T] /\ q \in [1 .. c -> T] /\ \A k \in 1 .. c : p[k] \in Int /\ q[k] \in Int
  BY DEF Lists
<1>2. PICK j \in 1 .. c : q[j] = p[m]
  BY <1>1 DEF Lists
<1>3. CASE j < m
  <2>1. p[j] < p[m] /\ p[j] = q[j]
    BY <1>3 DEF Lists
  <2> QED
    BY <1>1, <1>2, <2>1
<1>4. CASE ~(j < m)
  <2>1. j = m \/ m < j
    BY <1>4
  <2>2. q[j] = q[m] \/ q[m] < q[j]
    BY <2>1 DEF Lists
  <2> QED
    BY <1>1, <1>2, <2>2
<1> QED
  BY <1>3, <1>4

\* So they are the same.
LEMMA ListsAgree ==
  ASSUME NEW c \in Nat, NEW T \in SUBSET Int, NEW p, NEW q, Lists(p, c, T), Lists(q, c, T)
  PROVE  p = q
<1> DEFINE D == {k \in 1 .. c : p[k] # q[k]}
<1>1. D = {}
  <2> SUFFICES ASSUME D # {} PROVE FALSE
    OBVIOUS
  <2>1. D \in SUBSET Nat
    OBVIOUS
  <2>2. PICK m \in D : \A k \in D : m <= k
    <3> HIDE DEF D
    <3> QED
      BY <2>1, LeastNumber
  <2>3. m \in 1 .. c /\ \A k \in 1 .. c : k < m => p[k] = q[k]
    BY <2>2
  <2>4. ~(p[m] < q[m]) /\ ~(q[m] < p[m])
    BY <2>3, ListsMeet
  <2>5. p[m] \in Int /\ q[m] \in Int
    BY <2>3 DEF Lists
  <2> QED
    BY <2>2, <2>4, <2>5
<1> QED
  BY <1>1 DEF Lists

\* Whatever list of T one has, it is the one that Picked follows.
LEMMA PickedIs ==
  ASSUME NEW n \in Nat, NEW T \in SUBSET (1 .. n), NEW s, NEW c \in Nat, NEW q, Lists(q, c, T)
  PROVE  c = Cardinality(T) /\ IsPick(q, s, T)
<1>1. T \in SUBSET Int
  OBVIOUS
<1>2. c = Cardinality(T)
  <2>1. ASSUME NEW j \in 1 .. c, NEW k \in 1 .. c, q[j] = q[k] PROVE j = k
    <3>1. q[j] \in Int /\ q[k] \in Int
      BY <1>1 DEF Lists
    <3>2. ~(j < k) /\ ~(k < j)
      BY <2>1, <3>1 DEF Lists
    <3> QED
      BY <3>2
  <2>2. q \in Bijection(1 .. c, T)
    BY <2>1 DEF Lists, Bijection, Injection, Surjection, IsInjective
  <2>3. IsFiniteSet(1 .. c) /\ Cardinality(1 .. c) = c
    <3>1. 1 \in Int /\ c \in Int
      OBVIOUS
    <3>2. IsFiniteSet(1 .. c) /\ Cardinality(1 .. c) = IF 1 > c THEN 0 ELSE c - 1 + 1
      BY <3>1, FS_Interval
    <3> QED
      BY <3>2
  <2> QED
    BY <2>2, <2>3, FS_Bijection DEF ExistsBijection
<1>3. PICK p : IsPick(p, s, T)
  BY PickedInOrder
<1>4. p = q
  <2>1. Lists(p, c, T)
    BY <1>2, <1>3 DEF IsPick
  <2> QED
    BY <1>1, <2>1, ListsAgree
<1> QED
  BY <1>2, <1>3, <1>4 DEF IsPick

\* Picking all positions.
LEMMA PickedAll ==
  ASSUME NEW n \in Nat, NEW S, NEW s \in [1 .. n -> S]
  PROVE  Picked(s, 1 .. n) = s
<1> DEFINE q == [k \in 1 .. n |-> k]
<1>1. Lists(q, n, 1 .. n)
  BY DEF Lists
<1> HIDE DEF q
<1>2. n = Cardinality(1 .. n) /\ IsPick(q, s, 1 .. n)
  <2>1. (1 .. n) \in SUBSET (1 .. n)
    OBVIOUS
  <2> QED
    BY <1>1, <2>1, PickedIs
<1>3. Picked(s, 1 .. n) = [k \in 1 .. n |-> s[k]]
  BY <1>2 DEF q, IsPick
<1> QED
  BY <1>3

\* Of the positions that p lists, the places of those in U.
Places(p, T, U) == {k \in 1 .. Cardinality(T) : p[k] \in U}

\* Picking from what was picked.
LEMMA PickedTwice ==
  ASSUME NEW n \in Nat, NEW T \in SUBSET (1 .. n), NEW s, NEW U \in SUBSET T,
         NEW p, IsPick(p, s, T)
  PROVE  Picked(Picked(s, T), Places(p, T, U)) = Picked(s, U)
<1> DEFINE a == Cardinality(T)
           G == Picked(s, T)
           V == {k \in 1 .. a : p[k] \in U}
           b == Cardinality(V)
<1>1. a \in Nat /\ Lists(p, a, T) /\ G = [k \in 1 .. a |-> s[p[k]]]
  BY PositionsFinite DEF IsPick
<1>2. V \in SUBSET (1 .. a)
  OBVIOUS
<1> HIDE DEF a, G, V
<1>3. PICK q : IsPick(q, G, V)
  BY <1>1, <1>2, PickedInOrder
<1>4. b \in Nat /\ Lists(q, b, V) /\ Picked(G, V) = [k \in 1 .. b |-> G[q[k]]]
  BY <1>1, <1>2, <1>3, PositionsFinite DEF IsPick
<1> HIDE DEF b
<1> DEFINE r == [k \in 1 .. b |-> p[q[k]]]
<1>5. \A k \in 1 .. b : q[k] \in V /\ q[k] \in 1 .. a /\ p[q[k]] \in U
  BY <1>4 DEF Lists, V
<1>6. Lists(r, b, U)
  <2>1. r \in [1 .. b -> U]
    BY <1>5
  <2>2. \A j, k \in 1 .. b : j < k => r[j] < r[k]
    BY <1>1, <1>4, <1>5 DEF Lists
  <2>3. ASSUME NEW i \in U PROVE \E k \in 1 .. b : r[k] = i
    <3>1. PICK x \in 1 .. a : p[x] = i
      BY <1>1 DEF Lists
    <3>2. x \in V
      BY <3>1 DEF V
    <3>3. PICK k \in 1 .. b : q[k] = x
      BY <1>4, <3>2 DEF Lists
    <3> QED
      BY <3>1, <3>3
  <2> QED
    BY <2>1, <2>2, <2>3 DEF Lists
<1>7. Picked(s, U) = [k \in 1 .. b |-> s[r[k]]]
  <2> HIDE DEF r
  <2>1. U \in SUBSET (1 .. n)
    OBVIOUS
  <2>2. b = Cardinality(U) /\ IsPick(r, s, U)
    BY <1>4, <1>6, <2>1, PickedIs
  <2> QED
    BY <2>2 DEF IsPick
<1>8. Picked(G, V) = [k \in 1 .. b |-> s[r[k]]]
  BY <1>1, <1>4, <1>5
<1> QED
  BY <1>7, <1>8 DEF G, V, a, Places

\* The matches of the partials at the positions T, in either order.
LEMMA TakenMatches ==
  ASSUME NEW n \in Nat, NEW g \in [1 .. n -> Partial], NEW T \in SUBSET (1 .. n)
  PROVE  /\ Captures(Picked(g, T)) \in Seq(Match)
         /\ ToSet(Captures(Picked(g, T))) = {g[i].captures : i \in T}
         /\ Captures(Reverse(Picked(g, T))) \in Seq(Match)
         /\ ToSet(Captures(Reverse(Picked(g, T)))) = {g[i].captures : i \in T}
<1> DEFINE c == Cardinality(T)
           h == Picked(g, T)
<1>1. c \in Nat
  BY PositionsFinite
<1>2. PICK p : IsPick(p, g, T)
  BY PickedInOrder
<1>3. /\ h = [k \in 1 .. c |-> g[p[k]]] /\ p \in [1 .. c -> T]
      /\ \A i \in T : \E k \in 1 .. c : p[k] = i
  BY <1>2 DEF IsPick, Lists
<1>4. \A i \in T : g[i] \in Partial /\ g[i].captures \in Match
  BY DEF Partial
<1> HIDE DEF c
<1>5. Captures(h) = [k \in 1 .. c |-> g[p[k]].captures]
  BY <1>3 DEF Captures
<1>6. Len(h) = c
  BY <1>1, <1>3
<1>7. Captures(Reverse(h)) = [k \in 1 .. c |-> g[p[c - k + 1]].captures]
  <2>1. \A k \in 1 .. c : c - k + 1 \in 1 .. c
    BY <1>1
  <2>2. Reverse(h) = [k \in 1 .. c |-> h[c - k + 1]]
    <3> HIDE DEF h
    <3> QED
      BY <1>6 DEF Reverse
  <2>3. Reverse(h) = [k \in 1 .. c |-> g[p[c - k + 1]]]
    <3>1. \A k \in 1 .. c : h[c - k + 1] = g[p[c - k + 1]]
      BY <1>3, <2>1
    <3> HIDE DEF h
    <3> QED
      BY <2>2, <3>1
  <2> HIDE DEF h
  <2> QED
    BY <2>3 DEF Captures
<1> HIDE DEF h
<1> DEFINE M == {g[i].captures : i \in T}
<1>8. Captures(h) \in Seq(Match) /\ ToSet(Captures(h)) = M
  <2>1. Captures(h) \in Seq(Match)
    <3>1. \A k \in 1 .. c : g[p[k]].captures \in Match
      BY <1>3, <1>4
    <3> QED
      BY <1>1, <1>5, <3>1
  <2>2. ToSet(Captures(h)) = {g[p[k]].captures : k \in 1 .. c}
    BY <1>5 DEF ToSet
  <2>3. {g[p[k]].captures : k \in 1 .. c} = M
    BY <1>3
  <2> QED
    BY <2>1, <2>2, <2>3
<1>9. Captures(Reverse(h)) \in Seq(Match) /\ ToSet(Captures(Reverse(h))) = M
  <2>1. \A k \in 1 .. c : c - k + 1 \in 1 .. c /\ c - (c - k + 1) + 1 = k
    BY <1>1
  <2>2. Captures(Reverse(h)) \in Seq(Match)
    <3>1. \A k \in 1 .. c : g[p[c - k + 1]].captures \in Match
      BY <1>3, <1>4, <2>1
    <3> QED
      BY <1>1, <1>7, <3>1
  <2>3. ToSet(Captures(Reverse(h))) = {g[p[c - k + 1]].captures : k \in 1 .. c}
    BY <1>7 DEF ToSet
  <2>4. {g[p[c - k + 1]].captures : k \in 1 .. c} \subseteq M
    BY <1>3, <2>1
  <2>5. ASSUME NEW i \in T PROVE \E k \in 1 .. c : g[p[c - k + 1]].captures = g[i].captures
    <3>1. PICK k \in 1 .. c : p[k] = i
      BY <1>3
    <3>2. c - k + 1 \in 1 .. c /\ p[c - (c - k + 1) + 1] = i
      BY <2>1, <3>1
    <3> DEFINE j == c - k + 1
    <3> HIDE DEF j
    <3>3. j \in 1 .. c /\ p[c - j + 1] = i
      BY <3>2 DEF j
    <3> QED
      BY <3>3
  <2>6. M \subseteq {g[p[c - k + 1]].captures : k \in 1 .. c}
    BY <2>5
  <2> QED
    BY <2>2, <2>3, <2>4, <2>6
<1> QED
  BY <1>8, <1>9 DEF h

\* The elements of a concatenation.
LEMMA ConcatSet ==
  ASSUME NEW S, NEW s \in Seq(S), NEW t \in Seq(S)
  PROVE  ToSet(s \o t) = ToSet(s) \cup ToSet(t)
<1> DEFINE u == s \o t
<1>1. /\ DOMAIN u = 1 .. Len(s) + Len(t)
      /\ \A i \in 1 .. Len(s) : u[i] = s[i]
      /\ \A k \in 1 .. Len(t) : u[Len(s) + k] = t[k]
      /\ \A i \in DOMAIN u : i \in 1 .. Len(s) \/ \E k \in 1 .. Len(t) : i = Len(s) + k
  BY ConcatItems
<1>2. DOMAIN s = 1 .. Len(s) /\ DOMAIN t = 1 .. Len(t) /\ Len(s) \in Nat /\ Len(t) \in Nat
  OBVIOUS
<1>3. /\ \A i \in 1 .. Len(s) : i \in DOMAIN u
      /\ \A k \in 1 .. Len(t) : Len(s) + k \in DOMAIN u
  BY <1>1, <1>2
<1> HIDE DEF u
<1>4. ASSUME NEW i \in DOMAIN u PROVE u[i] \in ToSet(s) \cup ToSet(t)
  <2>1. CASE i \in 1 .. Len(s)
    BY <1>1, <1>2, <2>1 DEF ToSet
  <2>2. ASSUME NEW k \in 1 .. Len(t), i = Len(s) + k PROVE u[i] \in ToSet(t)
    BY <1>1, <1>2, <2>2 DEF ToSet
  <2> QED
    BY <1>1, <2>1, <2>2
<1>5. \A x \in ToSet(u) : x \in ToSet(s) \cup ToSet(t)
  BY <1>4 DEF ToSet
<1>6. \A x \in ToSet(s) \cup ToSet(t) : x \in ToSet(u)
  BY <1>1, <1>2, <1>3 DEF ToSet
<1> QED
  BY <1>5, <1>6 DEF u

\* Appending is concatenation.
LEMMA AppendOne ==
  ASSUME NEW S, NEW s \in Seq(S), NEW x \in S
  PROVE  Append(s, x) = s \o <<x>> /\ <<x>> \in Seq(S)
OBVIOUS

LEMMA AppendSet ==
  ASSUME NEW S, NEW s \in Seq(S), NEW x \in S
  PROVE  ToSet(Append(s, x)) = ToSet(s) \cup {x}
<1> DEFINE one == <<x>>
<1>1. ToSet(one) = {x}
  BY DEF ToSet
<1>2. Append(s, x) = s \o one /\ one \in Seq(S)
  BY AppendOne
<1> HIDE DEF one
<1>3. ToSet(s \o one) = ToSet(s) \cup ToSet(one)
  BY <1>2, ConcatSet
<1> QED
  BY <1>1, <1>2, <1>3

-----------------------------------------------------------------------------
(* Two states of the matcher that behave alike. *)

\* st has the partials of b and has found what b has but for the matches X, which
\* were found before.
Mirrors(st, b, X) ==
  /\ st.flights = b.flights
  /\ ToSet(b.out) = X \cup ToSet(st.out)
  /\ st.drops["MaxInFlight"] = b.drops["MaxInFlight"]

\* The matches that a sweep, or the loop in match_one, adds.
LEMMA AddedMatches ==
  ASSUME runtime \in Runtimes, NEW st \in State
  PROVE  /\ \A ts : Captures(Picked(st.flights, Firing(st, ts))) \in Seq(Match)
         /\ \A ts : ToSet(Captures(Picked(st.flights, Firing(st, ts))))
                    = {st.flights[i].captures : i \in Firing(st, ts)}
         /\ LET done == {i \in DOMAIN st.flights : ConcludesAtEnd(st.flights[i])}
            IN  /\ Captures(Picked(st.flights, done)) \in Seq(Match)
                /\ ToSet(Captures(Picked(st.flights, done))) = {st.flights[i].captures : i \in done}
<1>1. st.flights \in [1 .. Len(st.flights) -> Partial] /\ Len(st.flights) \in Nat
      /\ DOMAIN st.flights = 1 .. Len(st.flights)
  BY FlightsFunction, StateFields
<1>2. \A ts : Firing(st, ts) \in SUBSET (1 .. Len(st.flights))
  BY <1>1 DEF Firing, Overdue
<1> DEFINE done == {i \in DOMAIN st.flights : ConcludesAtEnd(st.flights[i])}
<1>3. done \in SUBSET (1 .. Len(st.flights))
  BY <1>1
<1> HIDE DEF done
<1>4. /\ Captures(Picked(st.flights, done)) \in Seq(Match)
      /\ ToSet(Captures(Picked(st.flights, done))) = {st.flights[i].captures : i \in done}
  BY <1>1, <1>3, TakenMatches
<1>5. ASSUME NEW ts
      PROVE  /\ Captures(Picked(st.flights, Firing(st, ts))) \in Seq(Match)
             /\ ToSet(Captures(Picked(st.flights, Firing(st, ts))))
                    = {st.flights[i].captures : i \in Firing(st, ts)}
  BY <1>1, <1>2, TakenMatches
<1> QED
  BY <1>4, <1>5 DEF done

\* What the loop in match_one makes of the partials.
Advanced(st, e) == [i \in DOMAIN st.flights |-> AdvanceOne(st.flights[i], e).pm]
Meeting(st, e, d) == {i \in DOMAIN st.flights : AdvanceOne(st.flights[i], e).disposition = d}

LEMMA PartialsLoop ==
  ASSUME runtime \in Runtimes, NEW st \in State, NEW e \in Event
  PROVE  /\ AdvancePartials(st, e)
              = [flights |-> Picked(Advanced(st, e), Meeting(st, e, "Keep")),
                 out     |-> st.out \o Captures(Reverse(Picked(Advanced(st, e), Meeting(st, e, "Complete")))),
                 drops   |-> st.drops]
         /\ Advanced(st, e) \in [1 .. Len(st.flights) -> Partial]
         /\ \A d : Meeting(st, e, d) \in SUBSET (1 .. Len(st.flights))
         /\ Captures(Reverse(Picked(Advanced(st, e), Meeting(st, e, "Complete")))) \in Seq(Match)
         /\ ToSet(Captures(Reverse(Picked(Advanced(st, e), Meeting(st, e, "Complete")))))
              = {Advanced(st, e)[i].captures : i \in Meeting(st, e, "Complete")}
<1>0. DOMAIN st.flights = 1 .. Len(st.flights) /\ Len(st.flights) \in Nat
      /\ \A i \in DOMAIN st.flights : st.flights[i] \in InFlight
  BY StateFields DEF InFlight
<1>1. \A i \in DOMAIN st.flights : AdvanceOne(st.flights[i], e).pm \in Partial
  <2>1. \A i \in DOMAIN st.flights : Advances(st.flights[i], AdvanceOne(st.flights[i], e))
    BY <1>0, AdvanceOneType
  <2> QED
    BY <2>1 DEF Advances
<1>2. Advanced(st, e) \in [1 .. Len(st.flights) -> Partial]
  BY <1>0, <1>1 DEF Advanced
<1>3. \A d : Meeting(st, e, d) \in SUBSET (1 .. Len(st.flights))
  BY <1>0 DEF Meeting
<1>4. AdvancePartials(st, e)
        = [flights |-> Picked(Advanced(st, e), Meeting(st, e, "Keep")),
           out     |-> st.out \o Captures(Reverse(Picked(Advanced(st, e), Meeting(st, e, "Complete")))),
           drops   |-> st.drops]
  <2> DEFINE results == [i \in DOMAIN st.flights |-> AdvanceOne(st.flights[i], e)]
             g == [i \in DOMAIN results |-> results[i].pm]
             M(d) == {i \in DOMAIN results : results[i].disposition = d}
  <2>1. g = Advanced(st, e)
    BY DEF Advanced
  <2>2. \A d : M(d) = Meeting(st, e, d)
    BY DEF Meeting
  <2>3. AdvancePartials(st, e)
          = [flights |-> Picked(g, M("Keep")),
             out     |-> st.out \o Captures(Reverse(Picked(g, M("Complete")))),
             drops   |-> st.drops]
    BY DEF AdvancePartials
  <2> HIDE DEF g, M
  <2> QED
    BY <2>1, <2>2, <2>3
<1>5. /\ Captures(Reverse(Picked(Advanced(st, e), Meeting(st, e, "Complete")))) \in Seq(Match)
      /\ ToSet(Captures(Reverse(Picked(Advanced(st, e), Meeting(st, e, "Complete")))))
           = {Advanced(st, e)[i].captures : i \in Meeting(st, e, "Complete")}
  BY <1>0, <1>2, <1>3, TakenMatches
<1> QED
  BY <1>2, <1>3, <1>4, <1>5

\* Adding the same matches to both.
LEMMA AddsAlike ==
  ASSUME NEW st \in State, NEW b \in State, NEW X, Mirrors(st, b, X),
         NEW fl, NEW new \in Seq(Match), NEW d, NEW c, d["MaxInFlight"] = c["MaxInFlight"]
  PROVE  Mirrors([flights |-> fl, out |-> st.out \o new, drops |-> d],
                 [flights |-> fl, out |-> b.out \o new, drops |-> c], X)
<1>1. st.out \in Seq(Match) /\ b.out \in Seq(Match)
  BY StateFields
<1>2. ToSet(st.out \o new) = ToSet(st.out) \cup ToSet(new)
  BY <1>1, ConcatSet
<1>3. ToSet(b.out \o new) = ToSet(b.out) \cup ToSet(new)
  BY <1>1, ConcatSet
<1> QED
  BY <1>2, <1>3 DEF Mirrors

\* Every step of the matcher keeps two such states alike: the sweep of the deadlines,
LEMMA AdvanceDeadlinesMirrors ==
  ASSUME runtime \in Runtimes, NEW st \in State, NEW b \in State, NEW X, Mirrors(st, b, X), NEW ts
  PROVE  Mirrors(AdvanceDeadlines(st, ts), AdvanceDeadlines(b, ts), X)
<1> DEFINE n == Cardinality(Overdue(st, ts) \ Firing(st, ts))
           d(s) == [s.drops EXCEPT !["Deadline"] = @ + n]
           fl == Picked(st.flights, DOMAIN st.flights \ Overdue(st, ts))
           new == Captures(Picked(st.flights, Firing(st, ts)))
<1>1. st.flights = b.flights
  BY DEF Mirrors
<1>2. Overdue(b, ts) = Overdue(st, ts) /\ Firing(b, ts) = Firing(st, ts)
  BY <1>1 DEF Overdue, Firing
<1>3. AdvanceDeadlines(st, ts) = [flights |-> fl, out |-> st.out \o new, drops |-> d(st)]
  BY DEF AdvanceDeadlines
<1>4. AdvanceDeadlines(b, ts) = [flights |-> fl, out |-> b.out \o new, drops |-> d(b)]
  BY <1>1, <1>2 DEF AdvanceDeadlines
<1>5. new \in Seq(Match)
  BY AddedMatches
<1>6. d(st)["MaxInFlight"] = d(b)["MaxInFlight"]
  <2> HIDE DEF n
  <2>1. /\ st.drops \in [DropReason -> Nat] /\ b.drops \in [DropReason -> Nat]
        /\ st.drops["MaxInFlight"] = b.drops["MaxInFlight"] /\ "MaxInFlight" \in DropReason
    BY StateFields DEF Mirrors, DropReason
  <2> QED
    BY <2>1
<1> HIDE DEF d, fl, new
<1> QED
  BY <1>3, <1>4, <1>5, <1>6, AddsAlike

\* the loop over the partials,
LEMMA AdvancePartialsMirrors ==
  ASSUME runtime \in Runtimes, NEW st \in State, NEW b \in State, NEW X, Mirrors(st, b, X), NEW e \in Event
  PROVE  Mirrors(AdvancePartials(st, e), AdvancePartials(b, e), X)
<1> DEFINE fl == Picked(Advanced(st, e), Meeting(st, e, "Keep"))
           new == Captures(Reverse(Picked(Advanced(st, e), Meeting(st, e, "Complete"))))
<1>1. st.flights = b.flights /\ st.drops["MaxInFlight"] = b.drops["MaxInFlight"]
  BY DEF Mirrors
<1>2. Advanced(b, e) = Advanced(st, e) /\ \A d : Meeting(b, e, d) = Meeting(st, e, d)
  BY <1>1 DEF Advanced, Meeting
<1>3. AdvancePartials(st, e) = [flights |-> fl, out |-> st.out \o new, drops |-> st.drops]
      /\ new \in Seq(Match)
  BY PartialsLoop
<1>4. AdvancePartials(b, e) = [flights |-> fl, out |-> b.out \o new, drops |-> b.drops]
  BY <1>2, PartialsLoop
<1> HIDE DEF fl, new
<1> QED
  BY <1>1, <1>3, <1>4, AddsAlike

\* the opening,
LEMMA TryOpenNewMirrors ==
  ASSUME runtime \in Runtimes, NEW st \in State, NEW b \in State, NEW X, Mirrors(st, b, X), NEW e \in Event
  PROVE  Mirrors(TryOpenNew(st, e), TryOpenNew(b, e), X)
<1> DEFINE kept == Append(st.flights, NewPartial(e))
           shifted == Append(Tail(st.flights), NewPartial(e))
           d(s) == [s.drops EXCEPT !["MaxInFlight"] = @ + 1]
<1>1. st.flights = b.flights /\ st.drops["MaxInFlight"] = b.drops["MaxInFlight"]
      /\ ToSet(b.out) = X \cup ToSet(st.out)
  BY DEF Mirrors
<1>2. CASE ~Holds(pattern[1].pred, e, <<>>)
  BY <1>2 DEF TryOpenNew
<1>3. CASE Holds(pattern[1].pred, e, <<>>) /\ Len(pattern) = 1
  <2>1. /\ TryOpenNew(st, e) = [flights |-> st.flights, out |-> Append(st.out, <<e>>), drops |-> st.drops]
        /\ TryOpenNew(b, e) = [flights |-> b.flights, out |-> Append(b.out, <<e>>), drops |-> b.drops]
    BY <1>3, ReplacedOut DEF TryOpenNew
  <2>2. <<e>> \in Match /\ st.out \in Seq(Match) /\ b.out \in Seq(Match)
    BY StateFields DEF Match
  <2>3. /\ Append(st.out, <<e>>) = st.out \o <<<<e>>>> /\ Append(b.out, <<e>>) = b.out \o <<<<e>>>>
        /\ <<<<e>>>> \in Seq(Match)
    BY <2>2, AppendOne
  <2> DEFINE new == <<<<e>>>>
  <2> HIDE DEF new
  <2>4. Mirrors([flights |-> st.flights, out |-> st.out \o new, drops |-> st.drops],
                [flights |-> st.flights, out |-> b.out \o new, drops |-> b.drops], X)
    BY <1>1, <2>3, AddsAlike DEF new
  <2> QED
    BY <1>1, <2>1, <2>3, <2>4 DEF new
<1>4. CASE Holds(pattern[1].pred, e, <<>>) /\ Len(pattern) # 1 /\ Len(st.flights) < MAX_IN_FLIGHT
  <2>1. /\ TryOpenNew(st, e) = [flights |-> kept, out |-> st.out, drops |-> st.drops]
        /\ TryOpenNew(b, e) = [flights |-> kept, out |-> b.out, drops |-> b.drops]
    BY <1>1, <1>4, ReplacedFlights DEF TryOpenNew
  <2> HIDE DEF kept
  <2> QED
    BY <1>1, <2>1 DEF Mirrors
<1>5. CASE Holds(pattern[1].pred, e, <<>>) /\ Len(pattern) # 1 /\ ~(Len(st.flights) < MAX_IN_FLIGHT)
  <2>1. /\ TryOpenNew(st, e) = [flights |-> shifted, out |-> st.out, drops |-> d(st)]
        /\ TryOpenNew(b, e) = [flights |-> shifted, out |-> b.out, drops |-> d(b)]
    BY <1>1, <1>5 DEF TryOpenNew
  <2>2. d(st)["MaxInFlight"] = d(b)["MaxInFlight"]
    <3>1. /\ st.drops \in [DropReason -> Nat] /\ b.drops \in [DropReason -> Nat] /\ "MaxInFlight" \in DropReason
      BY StateFields DEF DropReason
    <3> QED
      BY <1>1, <3>1
  <2> HIDE DEF shifted, d
  <2> QED
    BY <1>1, <2>1, <2>2 DEF Mirrors
<1> QED
  BY <1>2, <1>3, <1>4, <1>5

\* so matching an event,
LEMMA MatchOneMirrors ==
  ASSUME runtime \in Runtimes, NEW st \in State, NEW b \in State, NEW X, Mirrors(st, b, X), NEW e \in Event
  PROVE  Mirrors(MatchOne(st, e), MatchOne(b, e), X)
<1>1. AdvanceDeadlines(st, e.ts) \in State /\ AdvanceDeadlines(b, e.ts) \in State
  BY AdvanceDeadlinesKeeps DEF Keeps
<1>2. Mirrors(AdvanceDeadlines(st, e.ts), AdvanceDeadlines(b, e.ts), X)
  BY AdvanceDeadlinesMirrors
<1> DEFINE s1 == AdvanceDeadlines(st, e.ts)
           b1 == AdvanceDeadlines(b, e.ts)
           s2 == AdvancePartials(s1, e)
           b2 == AdvancePartials(b1, e)
<1>3. MatchOne(st, e) = TryOpenNew(s2, e) /\ MatchOne(b, e) = TryOpenNew(b2, e)
  BY DEF MatchOne
<1> HIDE DEF s1, b1
<1>4. s2 \in State /\ b2 \in State
  BY <1>1, AdvancePartialsKeeps DEF Keeps, s1, b1
<1>5. Mirrors(s2, b2, X)
  BY <1>1, <1>2, AdvancePartialsMirrors DEF s1, b1
<1> HIDE DEF s2, b2
<1> QED
  BY <1>3, <1>4, <1>5, TryOpenNewMirrors

\* and the end of the stream.
LEMMA ConcludeMirrors ==
  ASSUME runtime \in Runtimes, NEW st \in State, NEW b \in State, NEW X, Mirrors(st, b, X)
  PROVE  Mirrors(Conclude(st), Conclude(b), X)
<1> DEFINE done == {i \in DOMAIN st.flights : ConcludesAtEnd(st.flights[i])}
           fl == Picked(st.flights, DOMAIN st.flights \ done)
           new == Captures(Picked(st.flights, done))
<1>1. st.flights = b.flights /\ st.drops["MaxInFlight"] = b.drops["MaxInFlight"]
  BY DEF Mirrors
<1>2. Conclude(st) = [flights |-> fl, out |-> st.out \o new, drops |-> st.drops]
  BY DEF Conclude
<1>3. Conclude(b) = [flights |-> fl, out |-> b.out \o new, drops |-> b.drops]
  BY <1>1 DEF Conclude
<1>4. new \in Seq(Match)
  BY AddedMatches
<1> HIDE DEF fl, new
<1> QED
  BY <1>1, <1>2, <1>3, <1>4, AddsAlike

-----------------------------------------------------------------------------
(* Matching a sequence of events. *)

\* f has the states of the matcher, from st on, event by event.
IsRun(f, st, E) ==
  /\ f \in [0 .. Len(E) -> State] /\ f[0] = st
  /\ \A i \in 1 .. Len(E) : f[i] = MatchOne(f[i - 1], E[i])

\* match_all goes through such states,
LEMMA MatchAllRuns ==
  ASSUME runtime \in Runtimes, NEW st \in State, NEW E \in Seq(Event)
  PROVE  /\ \E f : IsRun(f, st, E) /\ MatchAll(st, E) = f[Len(E)]
         /\ MatchAll(st, E) \in State
<1> DEFINE n == Len(E)
<1>1. n \in Nat /\ E \in [1 .. n -> Event]
  OBVIOUS
<1>2. \A g \in State, e \in Event : MatchOne(g, e) \in State
  BY MatchOneOpens DEF Opens
<1> HIDE DEF n
<1>3. CanMatch(State, Event, st, n, E)
  BY <1>1, <1>2 DEF CanMatch
<1>4. PICK f \in [0 .. n -> State] :
        /\ f[0] = st
        /\ \A i \in 1 .. n : f[i] = MatchOne(f[i - 1], E[i])
        /\ MatchAll(st, E) = f[n]
  BY <1>3, MatchOneFolds
<1>5. IsRun(f, st, E) /\ MatchAll(st, E) = f[Len(E)] /\ f[n] \in State
  BY <1>1, <1>4 DEF IsRun, n
<1> QED
  BY <1>4, <1>5

\* and there is only one way through them.
LEMMA RunsAgree ==
  ASSUME NEW st, NEW E \in Seq(Event), NEW f, NEW g, IsRun(f, st, E), IsRun(g, st, E)
  PROVE  f[Len(E)] = g[Len(E)]
<1> DEFINE n == Len(E)
           P == {i \in 0 .. n : f[i] = g[i]}
<1>1. n \in Nat
  OBVIOUS
<1>2. /\ f[0] = st /\ \A i \in 1 .. n : f[i] = MatchOne(f[i - 1], E[i])
      /\ g[0] = st /\ \A i \in 1 .. n : g[i] = MatchOne(g[i - 1], E[i])
  BY DEF IsRun
<1> HIDE DEF n
<1>3. 0 \in P
  BY <1>1, <1>2
<1>4. ASSUME NEW i \in 0 .. n - 1, i \in P PROVE i + 1 \in P
  <2>1. i + 1 \in 1 .. n /\ i + 1 \in 0 .. n /\ (i + 1) - 1 = i
    BY <1>1, <1>4
  <2>2. f[i + 1] = MatchOne(f[i], E[i + 1]) /\ g[i + 1] = MatchOne(g[i], E[i + 1])
    BY <1>2, <2>1
  <2> QED
    BY <1>4, <2>1, <2>2
<1>5. 0 .. n \subseteq P
  <2> HIDE DEF P
  <2> QED
    BY <1>1, <1>3, <1>4, CountUp
<1>6. n \in P
  BY <1>1, <1>5
<1> QED
  BY <1>6 DEF n

\* No event, and one.
LEMMA MatchAllNone ==
  ASSUME runtime \in Runtimes, NEW st \in State
  PROVE  MatchAll(st, <<>>) = st
<1>1. <<>> \in Seq(Event) /\ Len(<<>>) = 0
  OBVIOUS
<1>2. PICK f : IsRun(f, st, <<>>) /\ MatchAll(st, <<>>) = f[Len(<<>>)]
  BY <1>1, MatchAllRuns
<1> QED
  BY <1>1, <1>2 DEF IsRun

LEMMA MatchAllShort ==
  ASSUME runtime \in Runtimes, NEW st \in State, NEW e \in Event
  PROVE  MatchAll(st, <<e>>) = MatchOne(st, e)
<1>1. <<e>> \in Seq(Event) /\ Len(<<e>>) = 1 /\ <<e>>[1] = e
  OBVIOUS
<1>2. PICK f : IsRun(f, st, <<e>>) /\ MatchAll(st, <<e>>) = f[Len(<<e>>)]
  BY <1>1, MatchAllRuns
<1>3. f[0] = st /\ f[1] = MatchOne(f[1 - 1], <<e>>[1])
  BY <1>1, <1>2 DEF IsRun
<1> QED
  BY <1>1, <1>2, <1>3

\* Some events and then some more.
LEMMA MatchAllConcat ==
  ASSUME runtime \in Runtimes, NEW st \in State, NEW E \in Seq(Event), NEW F \in Seq(Event)
  PROVE  MatchAll(st, E \o F) = MatchAll(MatchAll(st, E), F)
<1> DEFINE n == Len(E)
           m == Len(F)
           M == E \o F
           mid == MatchAll(st, E)
<1>1. PICK f : IsRun(f, st, E) /\ mid = f[n]
  BY MatchAllRuns
<1>2. mid \in State
  BY MatchAllRuns
<1> HIDE DEF mid
<1>3. PICK g : IsRun(g, mid, F) /\ MatchAll(mid, F) = g[m]
  BY <1>2, MatchAllRuns
<1>4. /\ M \in Seq(Event) /\ Len(M) = n + m /\ n \in Nat /\ m \in Nat
      /\ \A i \in 1 .. n : M[i] = E[i]
      /\ \A k \in 1 .. m : M[n + k] = F[k]
  BY ConcatItems
<1>5. PICK h : IsRun(h, st, M) /\ MatchAll(st, M) = h[Len(M)]
  BY <1>4, MatchAllRuns
<1> DEFINE j == [i \in 0 .. n + m |-> IF i <= n THEN f[i] ELSE g[i - n]]
<1>6. /\ \A i \in 0 .. n : f[i] \in State
      /\ f[0] = st /\ \A i \in 1 .. n : f[i] = MatchOne(f[i - 1], E[i])
      /\ \A i \in 0 .. m : g[i] \in State
      /\ g[0] = f[n] /\ \A i \in 1 .. m : g[i] = MatchOne(g[i - 1], F[i])
  BY <1>1, <1>3 DEF IsRun
<1> HIDE DEF n, m, M
<1>7. IsRun(j, st, M)
  <2>1. \A i \in 0 .. n + m : j[i] \in State
    <3> SUFFICES ASSUME NEW i \in 0 .. n + m PROVE j[i] \in State
      OBVIOUS
    <3>1. CASE i <= n
      <4>1. i \in 0 .. n /\ j[i] = f[i]
        BY <1>4, <3>1
      <4> QED
        BY <1>6, <4>1
    <3>2. CASE ~(i <= n)
      <4>1. i - n \in 0 .. m /\ j[i] = g[i - n]
        BY <1>4, <3>2
      <4> QED
        BY <1>6, <4>1
    <3> QED
      BY <3>1, <3>2
  <2>2. j[0] = st
    BY <1>4, <1>6
  <2>3. ASSUME NEW i \in 1 .. n + m PROVE j[i] = MatchOne(j[i - 1], M[i])
    <3>1. CASE i <= n
      <4>1. i \in 1 .. n /\ j[i] = f[i] /\ j[i - 1] = f[i - 1]
        BY <1>4, <3>1
      <4> QED
        BY <1>4, <1>6, <4>1
    <3>2. CASE i = n + 1
      <4>1. 1 \in 1 .. m /\ j[i] = g[1] /\ j[i - 1] = f[n]
        BY <1>4, <3>2
      <4>2. g[1] = MatchOne(g[0], F[1])
        BY <1>6, <4>1
      <4> QED
        BY <1>4, <1>6, <3>2, <4>1, <4>2
    <3>3. CASE i > n + 1
      <4> DEFINE k == i - n
      <4>1. k \in 1 .. m /\ i = n + k /\ j[i] = g[k] /\ j[i - 1] = g[k - 1]
        <5>1. k \in 1 .. m /\ i = n + k /\ ~(i <= n) /\ ~(i - 1 <= n) /\ (i - 1) - n = k - 1
              /\ i \in 0 .. n + m /\ i - 1 \in 0 .. n + m
          BY <1>4, <3>3
        <5> QED
          BY <5>1
      <4>2. g[k] = MatchOne(g[k - 1], F[k]) /\ M[n + k] = F[k]
        BY <1>4, <1>6, <4>1
      <4> QED
        BY <4>1, <4>2
    <3> QED
      BY <1>4, <2>3, <3>1, <3>2, <3>3
  <2>4. j = [i \in 0 .. n + m |-> j[i]]
    OBVIOUS
  <2> HIDE DEF j
  <2>5. j \in [0 .. n + m -> State]
    BY <2>1, <2>4
  <2> QED
    BY <1>4, <2>2, <2>3, <2>5 DEF IsRun
<1>8. j[n + m] = g[m]
  <2>1. CASE m = 0
    BY <1>4, <1>6, <2>1
  <2>2. CASE m # 0
    BY <1>4, <2>2
  <2> QED
    BY <2>1, <2>2
<1> HIDE DEF j
<1>9. MatchAll(st, M) = g[m]
  BY <1>4, <1>5, <1>7, <1>8, RunsAgree
<1> QED
  BY <1>3, <1>9 DEF M, mid, m

\* Two states that behave alike still do after the same events.
LEMMA MatchAllMirrors ==
  ASSUME runtime \in Runtimes, NEW st \in State, NEW b \in State, NEW X, Mirrors(st, b, X), NEW E \in Seq(Event)
  PROVE  Mirrors(MatchAll(st, E), MatchAll(b, E), X)
<1> DEFINE n == Len(E)
<1>1. PICK f : IsRun(f, st, E) /\ MatchAll(st, E) = f[n]
  BY MatchAllRuns
<1>2. PICK g : IsRun(g, b, E) /\ MatchAll(b, E) = g[n]
  BY MatchAllRuns
<1>3. n \in Nat /\ \A i \in 1 .. n : E[i] \in Event
  OBVIOUS
<1>4. /\ \A i \in 0 .. n : f[i] \in State /\ g[i] \in State
      /\ f[0] = st /\ \A i \in 1 .. n : f[i] = MatchOne(f[i - 1], E[i])
      /\ g[0] = b /\ \A i \in 1 .. n : g[i] = MatchOne(g[i - 1], E[i])
  BY <1>1, <1>2 DEF IsRun
<1> DEFINE P == {i \in 0 .. n : Mirrors(f[i], g[i], X)}
<1> HIDE DEF n
<1>5. 0 \in P
  BY <1>3, <1>4
<1>6. ASSUME NEW i \in 0 .. n - 1, i \in P PROVE i + 1 \in P
  <2>1. i + 1 \in 1 .. n /\ i + 1 \in 0 .. n /\ (i + 1) - 1 = i /\ i \in 0 .. n
    BY <1>3, <1>6
  <2>2. /\ f[i + 1] = MatchOne(f[i], E[i + 1]) /\ g[i + 1] = MatchOne(g[i], E[i + 1])
        /\ f[i] \in State /\ g[i] \in State /\ E[i + 1] \in Event
    BY <1>3, <1>4, <2>1
  <2>3. Mirrors(f[i], g[i], X)
    BY <1>6
  <2>4. Mirrors(f[i + 1], g[i + 1], X)
    BY <2>2, <2>3, MatchOneMirrors
  <2> QED
    BY <2>1, <2>4
<1>7. 0 .. n \subseteq P
  <2> HIDE DEF P
  <2> QED
    BY <1>3, <1>5, <1>6, CountUp
<1>8. n \in P
  BY <1>3, <1>7
<1> QED
  BY <1>1, <1>2, <1>8

-----------------------------------------------------------------------------
(* Sweeping the deadlines earlier than the code would. *)

\* Alike to what is alike.
LEMMA MirrorsOfMirrors ==
  ASSUME NEW st, NEW b, NEW c, NEW X, NEW Y, Mirrors(st, b, X), Mirrors(b, c, Y)
  PROVE  Mirrors(st, c, X \cup Y)
BY DEF Mirrors

\* What a sweep has found, and what the end of the stream finds.
LEMMA SweptMatches ==
  ASSUME runtime \in Runtimes, NEW st \in State, NEW ts
  PROVE  /\ ToSet(AdvanceDeadlines(st, ts).out)
              = ToSet(st.out) \cup {st.flights[i].captures : i \in Firing(st, ts)}
         /\ AdvanceDeadlines(st, ts).drops["MaxInFlight"] = st.drops["MaxInFlight"]
         /\ ToSet(Conclude(st).out)
              = ToSet(st.out) \cup {st.flights[i].captures :
                                     i \in {j \in DOMAIN st.flights : ConcludesAtEnd(st.flights[j])}}
         /\ Conclude(st).drops = st.drops
<1> DEFINE done == {j \in DOMAIN st.flights : ConcludesAtEnd(st.flights[j])}
           n == Cardinality(Overdue(st, ts) \ Firing(st, ts))
           swept == Captures(Picked(st.flights, Firing(st, ts)))
           last == Captures(Picked(st.flights, done))
<1>1. /\ AdvanceDeadlines(st, ts).out = st.out \o swept
      /\ AdvanceDeadlines(st, ts).drops = [st.drops EXCEPT !["Deadline"] = @ + n]
      /\ Conclude(st).out = st.out \o last /\ Conclude(st).drops = st.drops
  BY DEF AdvanceDeadlines, Conclude
<1>2. /\ st.out \in Seq(Match)
      /\ swept \in Seq(Match) /\ ToSet(swept) = {st.flights[i].captures : i \in Firing(st, ts)}
      /\ last \in Seq(Match) /\ ToSet(last) = {st.flights[i].captures : i \in done}
  BY StateFields, AddedMatches
<1>3. st.drops \in [DropReason -> Nat] /\ "MaxInFlight" \in DropReason
  BY StateFields DEF DropReason
<1> HIDE DEF n, swept, last
<1>4. [st.drops EXCEPT !["Deadline"] = @ + n]["MaxInFlight"] = st.drops["MaxInFlight"]
  BY <1>3
<1>5. ToSet(st.out \o swept) = ToSet(st.out) \cup ToSet(swept)
  BY <1>2, ConcatSet
<1>6. ToSet(st.out \o last) = ToSet(st.out) \cup ToSet(last)
  BY <1>2, ConcatSet
<1> HIDE DEF done
<1>7. ToSet(AdvanceDeadlines(st, ts).out) = ToSet(st.out) \cup {st.flights[i].captures : i \in Firing(st, ts)}
  BY <1>1, <1>2, <1>5
<1>8. ToSet(Conclude(st).out) = ToSet(st.out) \cup {st.flights[i].captures : i \in done}
  BY <1>1, <1>2, <1>6
<1> QED
  BY <1>1, <1>4, <1>7, <1>8 DEF done

\* What a sweep at ts leaves: the k-th that stays is the p[k]-th there was.
Leaves(st, ts, p, c) ==
  LET left == AdvanceDeadlines(st, ts).flights
      stays == DOMAIN st.flights \ Overdue(st, ts)
  IN  /\ c \in Nat /\ DOMAIN left = 1 .. c /\ p \in [1 .. c -> stays]
      /\ \A k \in 1 .. c : left[k] = st.flights[p[k]]
      /\ \A i \in stays : \E k \in 1 .. c : p[k] = i
      /\ \A U \in SUBSET stays : Picked(left, {k \in 1 .. c : p[k] \in U}) = Picked(st.flights, U)

LEMMA SweepLeaves ==
  ASSUME NEW st \in State, NEW ts
  PROVE  \E p, c : Leaves(st, ts, p, c)
<1> DEFINE F == st.flights
           n == Len(F)
           stays == DOMAIN F \ Overdue(st, ts)
           c == Cardinality(stays)
<1>1. n \in Nat /\ stays \in SUBSET (1 .. n)
  BY StateFields
<1>2. AdvanceDeadlines(st, ts).flights = Picked(F, stays)
  BY DEF AdvanceDeadlines
<1> HIDE DEF F, n, stays
<1>3. PICK p : IsPick(p, F, stays)
  BY <1>1, PickedInOrder
<1>4. /\ c \in Nat /\ Picked(F, stays) = [k \in 1 .. c |-> F[p[k]]]
      /\ p \in [1 .. c -> stays] /\ \A i \in stays : \E k \in 1 .. c : p[k] = i
  BY <1>1, <1>3, PositionsFinite DEF IsPick, Lists
<1>5. ASSUME NEW U \in SUBSET stays
      PROVE  Picked(Picked(F, stays), {k \in 1 .. c : p[k] \in U}) = Picked(F, U)
  <2>1. Picked(Picked(F, stays), Places(p, stays, U)) = Picked(F, U)
    BY <1>1, <1>3, PickedTwice
  <2> QED
    BY <2>1 DEF Places
<1>6. \A k \in 1 .. c : Picked(F, stays)[k] = F[p[k]]
  BY <1>4
<1>7. DOMAIN Picked(F, stays) = 1 .. c
  BY <1>4
<1> HIDE DEF c
<1>8. Leaves(st, ts, p, c)
  BY <1>2, <1>4, <1>5, <1>6, <1>7 DEF Leaves, stays, F
<1> QED
  BY <1>8

\* What is overdue at a time is so at every later one.
LEMMA OverdueLater ==
  ASSUME NEW st \in State, NEW t1 \in Time, NEW t2 \in Time, t1 <= t2
  PROVE  Overdue(st, t1) \subseteq Overdue(st, t2) /\ Firing(st, t1) \subseteq Firing(st, t2)
<1>1. ASSUME NEW i \in DOMAIN st.flights, Expired(st.flights[i], t1) PROVE Expired(st.flights[i], t2)
  <2>1. st.flights[i].deadline \in Time \cup {None}
    BY StateFields, PartialFields
  <2>2. t1 \in Int /\ t2 \in Int /\ (st.flights[i].deadline # None => st.flights[i].deadline \in Int)
    BY <2>1, TimesAreInts
  <2> QED
    BY <1>1, <2>2 DEF Expired
<1> QED
  BY <1>1 DEF Overdue, Firing

\* A sweep makes no difference to a later one,
LEMMA SweepTwice ==
  ASSUME runtime \in Runtimes, NEW b \in State, NEW t1 \in Time, NEW t2 \in Time, t1 <= t2
  PROVE  Mirrors(AdvanceDeadlines(AdvanceDeadlines(b, t1), t2), AdvanceDeadlines(b, t2), {})
<1> DEFINE a == AdvanceDeadlines(b, t1)
           F == b.flights
           T == DOMAIN F \ Overdue(b, t1)
           U == DOMAIN F \ Overdue(b, t2)
<1>1. a \in State
  BY AdvanceDeadlinesKeeps DEF Keeps
<1>2. Overdue(b, t1) \subseteq Overdue(b, t2) /\ Firing(b, t1) \subseteq Firing(b, t2) /\ U \in SUBSET T
  BY OverdueLater
<1>3. PICK p, c : Leaves(b, t1, p, c)
  BY SweepLeaves
<1>4. /\ c \in Nat /\ DOMAIN a.flights = 1 .. c /\ p \in [1 .. c -> T]
      /\ \A k \in 1 .. c : a.flights[k] = F[p[k]] /\ p[k] \in T /\ p[k] \in DOMAIN F
      /\ \A i \in T : \E k \in 1 .. c : p[k] = i
      /\ Picked(a.flights, {k \in 1 .. c : p[k] \in U}) = Picked(F, U)
  BY <1>2, <1>3 DEF Leaves
<1>5. AdvanceDeadlines(a, t2).flights = AdvanceDeadlines(b, t2).flights
  <2>1. DOMAIN a.flights \ Overdue(a, t2) = {k \in 1 .. c : p[k] \in U}
    <3>1. \A k \in 1 .. c : Expired(a.flights[k], t2) <=> p[k] \in Overdue(b, t2)
      BY <1>4 DEF Overdue
    <3> QED
      BY <1>4, <3>1 DEF Overdue
  <2>2. AdvanceDeadlines(a, t2).flights = Picked(a.flights, DOMAIN a.flights \ Overdue(a, t2))
    BY DEF AdvanceDeadlines
  <2>3. AdvanceDeadlines(b, t2).flights = Picked(F, U)
    BY DEF AdvanceDeadlines
  <2> QED
    BY <1>4, <2>1, <2>2, <2>3
<1> DEFINE one == {F[i].captures : i \in Firing(b, t1)}
           two == {a.flights[k].captures : k \in Firing(a, t2)}
           all == {F[i].captures : i \in Firing(b, t2)}
<1>6. one \cup two = all
  <2>1. \A k \in 1 .. c : k \in Firing(a, t2) <=> p[k] \in Firing(b, t2)
    BY <1>4 DEF Firing, Overdue
  <2>2. \A i \in Firing(b, t2) : i \in Firing(b, t1) \/ i \in T
    BY DEF Firing, Overdue
  <2>3. \A k \in Firing(a, t2) : k \in 1 .. c
    BY <1>4 DEF Firing, Overdue
  <2> HIDE DEF a, F, T, U
  <2>4. one \subseteq all
    BY <1>2
  <2>5. two \subseteq all
    BY <1>4, <2>1, <2>3
  <2>6. ASSUME NEW i \in Firing(b, t2) PROVE F[i].captures \in one \cup two
    <3>1. CASE i \in Firing(b, t1)
      BY <3>1
    <3>2. CASE i \in T
      <4>1. PICK k \in 1 .. c : p[k] = i
        BY <1>4, <3>2
      <4>2. k \in Firing(a, t2) /\ a.flights[k] = F[i]
        BY <1>4, <2>1, <2>6, <4>1
      <4> QED
        BY <4>2
    <3> QED
      BY <2>2, <2>6, <3>1, <3>2
  <2> QED
    BY <2>4, <2>5, <2>6
<1>7. /\ ToSet(a.out) = ToSet(b.out) \cup one
      /\ ToSet(AdvanceDeadlines(a, t2).out) = ToSet(a.out) \cup two
      /\ ToSet(AdvanceDeadlines(b, t2).out) = ToSet(b.out) \cup all
      /\ AdvanceDeadlines(a, t2).drops["MaxInFlight"] = AdvanceDeadlines(b, t2).drops["MaxInFlight"]
  <2>1. /\ ToSet(a.out) = ToSet(b.out) \cup one
        /\ a.drops["MaxInFlight"] = b.drops["MaxInFlight"]
    BY SweptMatches
  <2>2. /\ ToSet(AdvanceDeadlines(b, t2).out) = ToSet(b.out) \cup all
        /\ AdvanceDeadlines(b, t2).drops["MaxInFlight"] = b.drops["MaxInFlight"]
    BY SweptMatches
  <2> HIDE DEF a
  <2>3. /\ ToSet(AdvanceDeadlines(a, t2).out) = ToSet(a.out) \cup two
        /\ AdvanceDeadlines(a, t2).drops["MaxInFlight"] = a.drops["MaxInFlight"]
    BY <1>1, SweptMatches
  <2> QED
    BY <2>1, <2>2, <2>3
<1> HIDE DEF a, one, two, all
<1>8. Mirrors(AdvanceDeadlines(a, t2), AdvanceDeadlines(b, t2), {})
  BY <1>5, <1>6, <1>7 DEF Mirrors
<1> QED
  BY <1>8 DEF a

\* so none to what an event does that comes after it,
LEMMA MatchAfterSweep ==
  ASSUME runtime \in Runtimes, NEW b \in State, NEW t \in Time, NEW e \in Event, t <= e.ts
  PROVE  Mirrors(MatchOne(AdvanceDeadlines(b, t), e), MatchOne(b, e), {})
<1> DEFINE a == AdvanceDeadlines(b, t)
           a1 == AdvanceDeadlines(a, e.ts)
           b1 == AdvanceDeadlines(b, e.ts)
           a2 == AdvancePartials(a1, e)
           b2 == AdvancePartials(b1, e)
<1>1. a \in State /\ b1 \in State
  BY AdvanceDeadlinesKeeps DEF Keeps
<1>2. Mirrors(a1, b1, {})
  <2>1. e.ts \in Time
    BY TimesAreInts DEF Event
  <2> QED
    BY <2>1, SweepTwice
<1>3. MatchOne(a, e) = TryOpenNew(a2, e) /\ MatchOne(b, e) = TryOpenNew(b2, e)
  BY DEF MatchOne
<1> HIDE DEF a
<1>4. a1 \in State
  BY <1>1, AdvanceDeadlinesKeeps DEF Keeps
<1> HIDE DEF a1, b1
<1>5. a2 \in State /\ b2 \in State
  BY <1>1, <1>4, AdvancePartialsKeeps DEF Keeps
<1>6. Mirrors(a2, b2, {})
  BY <1>1, <1>2, <1>4, AdvancePartialsMirrors
<1> HIDE DEF a2, b2
<1>7. Mirrors(MatchOne(a, e), MatchOne(b, e), {})
  BY <1>3, <1>5, <1>6, TryOpenNewMirrors
<1> QED
  BY <1>7 DEF a

\* and at the beginning of time there is nothing to sweep.
LEMMA SweepAtStart ==
  ASSUME runtime \in Runtimes, NEW b \in State
  PROVE  Mirrors(AdvanceDeadlines(b, TimeMin), b, {})
<1> DEFINE n == Len(b.flights)
<1>1. n \in Nat /\ DOMAIN b.flights = 1 .. n /\ b.flights \in [1 .. n -> Partial]
  BY StateFields, FlightsFunction
<1>2. Overdue(b, TimeMin) = {}
  <2> SUFFICES ASSUME NEW i \in DOMAIN b.flights, Expired(b.flights[i], TimeMin) PROVE FALSE
    BY DEF Overdue
  <2>1. b.flights[i].deadline \in Time \cup {None}
    BY StateFields, PartialFields
  <2> QED
    BY <2>1, TimeAssumption DEF Expired, Time
<1>3. AdvanceDeadlines(b, TimeMin).flights = b.flights
  <2>1. AdvanceDeadlines(b, TimeMin).flights = Picked(b.flights, 1 .. n)
    BY <1>1, <1>2 DEF AdvanceDeadlines
  <2> HIDE DEF n
  <2> QED
    BY <1>1, <2>1, PickedAll
<1>4. Firing(b, TimeMin) = {}
  BY <1>2 DEF Firing
<1>5. /\ ToSet(AdvanceDeadlines(b, TimeMin).out) = ToSet(b.out)
      /\ AdvanceDeadlines(b, TimeMin).drops["MaxInFlight"] = b.drops["MaxInFlight"]
  <2>1. {b.flights[i].captures : i \in Firing(b, TimeMin)} = {}
    BY <1>4
  <2> QED
    BY <2>1, SweptMatches
<1> QED
  BY <1>3, <1>5 DEF Mirrors

-----------------------------------------------------------------------------
(* The end of the stream. *)

\* A last step that may be repeated, with a deadline: past it the engine drops even
\* a partial that has its minimum, where flush would have completed it.
EndsInBoundedRepetition ==
  LET last == pattern[Len(pattern)]
  IN  ~last.negative /\ last.within # None /\ last.min < last.max

\* No other partial that flush would complete is lost to a sweep,
LEMMA ConcludeAfterSweep ==
  ASSUME runtime \in Runtimes, ~EndsInBoundedRepetition, NEW b \in State, NEW t
  PROVE  /\ ToSet(Conclude(AdvanceDeadlines(b, t)).out) = ToSet(Conclude(b).out)
         /\ Conclude(AdvanceDeadlines(b, t)).drops["MaxInFlight"] = Conclude(b).drops["MaxInFlight"]
<1> DEFINE a == AdvanceDeadlines(b, t)
           F == b.flights
           T == DOMAIN F \ Overdue(b, t)
           D(s) == {j \in DOMAIN s.flights : ConcludesAtEnd(s.flights[j])}
<1>1. a \in State
  BY AdvanceDeadlinesKeeps DEF Keeps
<1>2. PICK p, c : Leaves(b, t, p, c)
  BY SweepLeaves
<1>3. /\ DOMAIN a.flights = 1 .. c /\ p \in [1 .. c -> T]
      /\ \A k \in 1 .. c : a.flights[k] = F[p[k]] /\ p[k] \in T /\ p[k] \in DOMAIN F
      /\ \A i \in T : \E k \in 1 .. c : p[k] = i
  BY <1>2 DEF Leaves
<1>4. Firing(b, t) \subseteq D(b)
  BY DEF Firing, Overdue, ConcludesAtEnd
<1>5. ASSUME NEW i \in D(b), i \notin T PROVE i \in Firing(b, t)
  <2> DEFINE pm == F[i]
  <2>1. i \in DOMAIN F /\ Expired(pm, t) /\ ConcludesAtEnd(pm) /\ i \in Overdue(b, t)
    BY <1>5 DEF Overdue
  <2>2. pm \in Partial /\ Waits(pm)
    BY <2>1, StateFields
  <2> HIDE DEF pm
  <2>3. CASE Awaited(pm).negative
    BY <2>1, <2>3 DEF Firing, pm
  <2>4. CASE ~Awaited(pm).negative
    <3>1. pm.next = Len(pattern) /\ pm.count >= Awaited(pm).min
      BY <2>1, <2>4 DEF ConcludesAtEnd
    <3>2. pm.count < Awaited(pm).max /\ pm.deadline # None /\ Awaited(pm).within # None
      BY <2>1, <2>2 DEF Waits, Expired
    <3>3. Awaited(pm).min \in Nat /\ Awaited(pm).max \in Nat /\ pm.count \in Nat
      <4>1. pm.next \in 1 .. Len(pattern)
        BY <3>1, PatternType
      <4> QED
        BY <2>2, <4>1, PatternType, PartialFields DEF Awaited, IsStep
    <3>4. Awaited(pm).min < Awaited(pm).max
      BY <3>1, <3>2, <3>3
    <3> QED
      BY <2>4, <3>1, <3>2, <3>4 DEF EndsInBoundedRepetition, Awaited
  <2> QED
    BY <2>3, <2>4
<1> DEFINE fired == {F[i].captures : i \in Firing(b, t)}
           left == {a.flights[k].captures : k \in D(a)}
           all == {F[i].captures : i \in D(b)}
<1>6. fired \cup left = all
  <2>1. \A k \in 1 .. c : k \in D(a) <=> p[k] \in D(b)
    BY <1>3
  <2>2. \A k \in D(a) : k \in 1 .. c
    BY <1>3
  <2> HIDE DEF a, F, T, D
  <2>3. fired \subseteq all
    BY <1>4
  <2>4. left \subseteq all
    BY <1>3, <2>1, <2>2
  <2>5. ASSUME NEW i \in D(b) PROVE F[i].captures \in fired \cup left
    <3>1. CASE i \notin T
      BY <1>5, <2>5, <3>1
    <3>2. CASE i \in T
      <4>1. PICK k \in 1 .. c : p[k] = i
        BY <1>3, <3>2
      <4>2. k \in D(a) /\ a.flights[k] = F[i]
        BY <1>3, <2>1, <2>5, <4>1
      <4> QED
        BY <4>2
    <3> QED
      BY <3>1, <3>2
  <2> QED
    BY <2>3, <2>4, <2>5
<1>7. /\ ToSet(a.out) = ToSet(b.out) \cup fired /\ a.drops["MaxInFlight"] = b.drops["MaxInFlight"]
      /\ ToSet(Conclude(b).out) = ToSet(b.out) \cup all /\ Conclude(b).drops = b.drops
  BY SweptMatches
<1>8. ToSet(Conclude(a).out) = ToSet(a.out) \cup left /\ Conclude(a).drops = a.drops
  <2> HIDE DEF a
  <2> QED
    BY <1>1, SweptMatches
<1> HIDE DEF a, fired, left, all
<1>9. ToSet(Conclude(a).out) = ToSet(Conclude(b).out)
      /\ Conclude(a).drops["MaxInFlight"] = Conclude(b).drops["MaxInFlight"]
  BY <1>6, <1>7, <1>8
<1> QED
  BY <1>9 DEF a

\* and after flush nothing is left that flush would complete.
LEMMA NothingConcludesTwice ==
  ASSUME NEW st \in State, NEW i \in DOMAIN Conclude(st).flights
  PROVE  ~ConcludesAtEnd(Conclude(st).flights[i])
<1> DEFINE K == DOMAIN st.flights \ {j \in DOMAIN st.flights : ConcludesAtEnd(st.flights[j])}
<1>1. Conclude(st).flights = Picked(st.flights, K)
  BY DEF Conclude
<1>2. Len(st.flights) \in Nat /\ K \in SUBSET (1 .. Len(st.flights))
  BY StateFields
<1>3. \A k \in K : ~ConcludesAtEnd(st.flights[k])
  OBVIOUS
<1> HIDE DEF K
<1>4. PICK p : IsPick(p, st.flights, K)
  BY <1>2, PickedInOrder
<1>5. i \in 1 .. Cardinality(K) /\ p[i] \in K /\ Picked(st.flights, K)[i] = st.flights[p[i]]
  BY <1>1, <1>4 DEF IsPick, Lists
<1> QED
  BY <1>1, <1>3, <1>5

-----------------------------------------------------------------------------
(* The matcher depends on the runtime, which never changes. *)

\* What a step of a partial is, after the call.
LEMMA SameSteps ==
  ASSUME runtime' = runtime
  PROVE  /\ \A pm, e : AdvanceOne(pm, e)' = AdvanceOne(pm, e)
         /\ \A st, ts : AdvanceDeadlines(st, ts)' = AdvanceDeadlines(st, ts)
         /\ \A st : Conclude(st)' = Conclude(st)
         /\ \A pm : ConcludesAtEnd(pm)' <=> ConcludesAtEnd(pm)
         /\ \A e : NewPartial(e)' = NewPartial(e)
<1>1. pattern' = pattern
  BY DEF pattern
<1>2. \A k, ts : NextDeadlineFor(k, ts)' = NextDeadlineFor(k, ts)
  BY <1>1 DEF NextDeadlineFor
<1>3. \A pm : Awaited(pm)' = Awaited(pm)
  BY <1>1 DEF Awaited
<1>4. /\ \A pm, e : Satisfies(pm, e)' <=> Satisfies(pm, e)
      /\ \A pm, e : Forbids(pm, e)' <=> Forbids(pm, e)
  BY <1>3 DEF Satisfies, Forbids
<1>5. \A pm, ts : AdvanceStep(pm, ts)' = AdvanceStep(pm, ts)
  BY <1>2 DEF AdvanceStep
<1>6. \A pm : Completed(pm)' <=> Completed(pm)
  BY <1>1 DEF Completed
<1>7. \A pm : KeepOrComplete(pm)' = KeepOrComplete(pm)
  BY <1>6 DEF KeepOrComplete
<1>8. \A pm, e : EndsRepetition(pm, e)' <=> EndsRepetition(pm, e)
  BY <1>3, <1>4 DEF EndsRepetition
<1>9. \A pm, e : Offer(pm, e)' = Offer(pm, e)
  BY <1>3, <1>4, <1>5, <1>7 DEF Offer
<1>10. \A pm, e : AdvanceOne(pm, e)' = AdvanceOne(pm, e)
  BY <1>5, <1>6, <1>8, <1>9 DEF AdvanceOne
<1>11. \A st, ts : Firing(st, ts)' = Firing(st, ts)
  BY <1>3 DEF Firing
<1>12. \A st, ts : AdvanceDeadlines(st, ts)' = AdvanceDeadlines(st, ts)
  BY <1>11 DEF AdvanceDeadlines
<1>13. \A pm : ConcludesAtEnd(pm)' <=> ConcludesAtEnd(pm)
  BY <1>1, <1>3 DEF ConcludesAtEnd
<1>14. \A st : Conclude(st)' = Conclude(st)
  BY <1>13 DEF Conclude
<1>15. \A e : NewPartial(e)' = NewPartial(e)
  BY <1>2 DEF NewPartial
<1> QED
  BY <1>10, <1>12, <1>13, <1>14, <1>15

\* What an event does, after the call.
LEMMA SameMatchOne ==
  ASSUME runtime' = runtime
  PROVE  \A st, e : MatchOne(st, e)' = MatchOne(st, e)
<1>1. \A pm, e : AdvanceOne(pm, e)' = AdvanceOne(pm, e)
  BY SameSteps
<1>2. pattern' = pattern
  BY DEF pattern
<1>3. \A st, e : AdvancePartials(st, e)' = AdvancePartials(st, e)
  BY <1>1 DEF AdvancePartials
<1>4. ASSUME NEW st, NEW e PROVE TryOpenNew(st, e)' = TryOpenNew(st, e)
  <2>1. NewPartial(e)' = NewPartial(e)
    BY SameSteps
  <2>2. Holds(pattern[1].pred, e, <<>>)' <=> Holds(pattern[1].pred, e, <<>>)
    BY <1>2 DEF Holds
  <2>3. (Len(pattern) = 1)' <=> Len(pattern) = 1
    BY <1>2
  <2> QED
    BY <2>1, <2>2, <2>3, Zenon DEF TryOpenNew
<1>5. \A st, ts : AdvanceDeadlines(st, ts)' = AdvanceDeadlines(st, ts)
  BY SameSteps
<1> QED
  BY <1>3, <1>4, <1>5 DEF MatchOne

\* What the events of a call do, after it.
MatchesAllByRuns ==
  runtime \in Runtimes =>
    \A st \in State, E \in Seq(Event) : \E f : IsRun(f, st, E) /\ MatchAll(st, E) = f[Len(E)]

LEMMA MatchAllByRunsNext == MatchesAllByRuns'
<1>1. MatchesAllByRuns
  BY MatchAllRuns DEF MatchesAllByRuns
<1> QED
  BY <1>1, PTL

LEMMA SameMatchAll ==
  ASSUME runtime \in Runtimes, runtime' = runtime, NEW st \in State, NEW E \in Seq(Event)
  PROVE  MatchAll(st, E)' = MatchAll(st, E)
<1>1. State' = State
  BY SameRuntime
<1>2. PICK f : IsRun(f, st, E)' /\ MatchAll(st, E)' = f[Len(E)]
  BY <1>1, MatchAllByRunsNext DEF MatchesAllByRuns
<1>3. IsRun(f, st, E)
  <2>1. /\ f \in [0 .. Len(E) -> State'] /\ f[0] = st
        /\ \A i \in 1 .. Len(E) : f[i] = MatchOne(f[i - 1], E[i])'
    BY <1>2 DEF IsRun
  <2> QED
    BY <1>1, <2>1, SameMatchOne DEF IsRun
<1>4. PICK g : IsRun(g, st, E) /\ MatchAll(st, E) = g[Len(E)]
  BY MatchAllRuns
<1> QED
  BY <1>2, <1>3, <1>4, RunsAgree

-----------------------------------------------------------------------------
(* A driven run and the batch run over the events it has matched. *)

\* The matcher at the beginning of a batch run, and after the events E of one.
Empty == [flights |-> <<>>, out |-> <<>>, drops |-> [r \in DropReason |-> 0]]
After(E) == MatchAll(Empty, E)

LEMMA BatchRun ==
  ASSUME runtime \in Runtimes, NEW E \in Seq(Event)
  PROVE  /\ Empty \in State /\ After(E) \in State /\ Batch(E) = Conclude(After(E))
         /\ Batch(E) \in State
<1>1. Empty \in State
  BY CepAssumption DEF Empty, State
<1>2. After(E) \in State
  BY <1>1, MatchAllRuns DEF After
<1>3. Batch(E) = Conclude(After(E))
  BY DEF Batch, After, Empty
<1> QED
  BY <1>1, <1>2, <1>3, ConcludeKeeps DEF Keeps

\* It goes on from where it is.
LEMMA AfterMore ==
  ASSUME runtime \in Runtimes, NEW E \in Seq(Event), NEW F \in Seq(Event)
  PROVE  After(E \o F) = MatchAll(After(E), F)
<1>1. Empty \in State
  BY BatchRun
<1> QED
  BY <1>1, MatchAllConcat DEF After

LEMMA AfterOne ==
  ASSUME runtime \in Runtimes, NEW E \in Seq(Event), NEW e \in Event
  PROVE  After(Append(E, e)) = MatchOne(After(E), e)
<1> DEFINE one == <<e>>
<1>1. Append(E, e) = E \o one /\ one \in Seq(Event)
  BY AppendOne
<1>2. After(E) \in State
  BY BatchRun
<1>3. MatchAll(After(E), one) = MatchOne(After(E), e)
  BY <1>2, MatchAllShort
<1> HIDE DEF one
<1>4. After(E \o one) = MatchAll(After(E), one)
  BY <1>1, AfterMore
<1> QED
  BY <1>1, <1>3, <1>4

\* Ticks come without a reorder buffer, never go back, and the last step is not a
\* repetition that could be cut short by its deadline.
TicksAreSafe == runtime.ticked => ~Reordering /\ InOrder /\ ~EndsInBoundedRepetition

\* The same matches, and as many partials evicted.
SameFindings(st, b) ==
  ToSet(st.out) = ToSet(b.out) /\ st.drops["MaxInFlight"] = b.drops["MaxInFlight"]

\* Until flush the runtime is as the batch run is after the same events, but that
\* ticks may have swept the deadlines up to some time already.
LikeBatch ==
  \E t \in Time :
    /\ t = TimeMin \/ (runtime.ticked /\ t <= now)
    /\ Mirrors(SoFar, AdvanceDeadlines(After(matched), t), {})

\* After flush it has found what the batch run has, and nothing is left to find.
ClosedLikeBatch ==
  /\ pending = {}
  /\ \A i \in DOMAIN in_flight : ~ConcludesAtEnd(in_flight[i])
  /\ SameFindings(SoFar, Batch(matched))

DrivenInv ==
  /\ now \in Time /\ resets \in Nat
  /\ ~Reordering => pending = {}
  /\ resets = 0 /\ TicksAreSafe => IF flushed THEN ClosedLikeBatch ELSE LikeBatch

\* After a call the runtime is the same and so is the batch run.
LEMMA LikeBatchNext ==
  ASSUME CepInv, runtime' = runtime, matched' \in Seq(Event), NEW t \in Time,
         t = TimeMin \/ (runtime.ticked /\ t <= now'),
         Mirrors(SoFar', AdvanceDeadlines(After(matched'), t), {})
  PROVE  LikeBatch'
<1>1. runtime \in Runtimes /\ Empty \in State
  BY BatchRun DEF CepInv
<1>2. After(matched)' = After(matched')
  BY <1>1, SameMatchAll DEF After, Empty
<1>3. AdvanceDeadlines(After(matched), t)' = AdvanceDeadlines(After(matched'), t)
  BY <1>2, SameSteps
<1>4. Mirrors(SoFar, AdvanceDeadlines(After(matched), t), {})'
  BY <1>3 DEF Mirrors
<1>5. (t = TimeMin \/ (runtime.ticked /\ t <= now))'
  OBVIOUS
<1> QED
  BY <1>4, <1>5 DEF LikeBatch

LEMMA ClosedNext ==
  ASSUME CepInv, runtime' = runtime, matched' \in Seq(Event), pending' = {},
         \A i \in DOMAIN in_flight' : ~ConcludesAtEnd(in_flight'[i]),
         SameFindings(SoFar', Batch(matched'))
  PROVE  ClosedLikeBatch'
<1>1. runtime \in Runtimes /\ Empty \in State
  BY BatchRun DEF CepInv
<1>2. After(matched)' = After(matched')
  BY <1>1, SameMatchAll DEF After, Empty
<1>3. Batch(matched)' = Conclude(After(matched))'
  BY DEF Batch, After, Empty
<1>4. Conclude(After(matched))' = Conclude(After(matched'))
  BY <1>2, SameSteps
<1>5. Batch(matched)' = Batch(matched')
  BY <1>3, <1>4 DEF Batch, After, Empty
<1>6. (\A i \in DOMAIN in_flight : ~ConcludesAtEnd(in_flight[i]))'
  BY SameSteps
<1>7. SameFindings(SoFar, Batch(matched))'
  BY <1>5 DEF SameFindings
<1> QED
  BY <1>6, <1>7 DEF ClosedLikeBatch

\* With what was emitted before, the matcher of a call is the matcher so far.
LEMMA MatcherMirrors ==
  ASSUME CepInv
  PROVE  Matcher \in State /\ SoFar \in State /\ Mirrors(Matcher, SoFar, ToSet(emitted))
<1>1. Matcher \in State /\ SoFar \in State
  BY MatcherState DEF CepInv
<1>2. ToSet(<<>>) = {}
  BY DEF ToSet
<1> QED
  BY <1>1, <1>2 DEF Mirrors, Matcher, SoFar

LEMMA BecomesMirrors ==
  ASSUME CepInv, NEW st \in State, NEW b, Becomes(st), Mirrors(st, b, ToSet(emitted))
  PROVE  Mirrors(SoFar', b, {})
<1>1. emitted \in Seq(Match) /\ st.out \in Seq(Match)
  BY MatcherMirrors, StateFields DEF SoFar
<1>2. ToSet(emitted \o st.out) = ToSet(emitted) \cup ToSet(st.out)
  BY <1>1, ConcatSet
<1>3. /\ SoFar'.flights = st.flights /\ SoFar'.out = emitted \o st.out /\ SoFar'.drops = st.drops
  BY DEF SoFar, Becomes
<1> QED
  BY <1>2, <1>3 DEF Mirrors

\* An event that comes no earlier than the latest tick.
LEMMA LikeBatchAfterEvent ==
  ASSUME CepInv, NEW e \in Event, NEW t \in Time, t <= e.ts,
         Mirrors(SoFar, AdvanceDeadlines(After(matched), t), {}),
         Becomes(MatchOne(Matcher, e)), matched' = Append(matched, e)
  PROVE  LikeBatch'
<1> DEFINE b == After(matched)
           c == After(matched')
           a == AdvanceDeadlines(b, t)
<1>1. runtime \in Runtimes /\ matched \in Seq(Event) /\ matched' \in Seq(Event)
  BY AppendItems DEF CepInv
<1>2. Matcher \in State /\ SoFar \in State /\ Mirrors(Matcher, SoFar, ToSet(emitted))
  BY MatcherMirrors
<1>3. b \in State /\ c \in State /\ Empty \in State
  BY <1>1, BatchRun
<1>4. c = MatchOne(b, e)
  BY <1>1, AfterOne
<1> HIDE DEF b, c
<1>5. a \in State
  BY <1>1, <1>3, AdvanceDeadlinesKeeps DEF Keeps
<1>6. Mirrors(MatchOne(a, e), c, {})
  BY <1>1, <1>3, <1>4, MatchAfterSweep
<1>7. Mirrors(MatchOne(SoFar, e), MatchOne(a, e), {})
  <2>1. Mirrors(SoFar, a, {})
    BY DEF b
  <2> HIDE DEF a
  <2> QED
    BY <1>1, <1>2, <1>5, <2>1, MatchOneMirrors
<1>8. Mirrors(MatchOne(Matcher, e), MatchOne(SoFar, e), ToSet(emitted))
  BY <1>1, <1>2, MatchOneMirrors
<1>9. Mirrors(MatchOne(Matcher, e), c, ToSet(emitted))
  <2>1. Mirrors(MatchOne(Matcher, e), MatchOne(a, e), ToSet(emitted) \cup {})
    BY <1>7, <1>8, MirrorsOfMirrors
  <2>2. Mirrors(MatchOne(Matcher, e), c, (ToSet(emitted) \cup {}) \cup {})
    BY <1>6, <2>1, MirrorsOfMirrors
  <2>3. (ToSet(emitted) \cup {}) \cup {} = ToSet(emitted)
    OBVIOUS
  <2> QED
    BY <2>2, <2>3
<1>10. MatchOne(Matcher, e) \in State
  BY <1>1, <1>2, MatchOneOpens DEF Opens
<1>11. Mirrors(SoFar', c, {})
  BY <1>9, <1>10, BecomesMirrors
<1>12. Mirrors(AdvanceDeadlines(c, TimeMin), c, {})
  BY <1>1, <1>3, SweepAtStart
<1>13. Mirrors(SoFar', AdvanceDeadlines(c, TimeMin), {})
  BY <1>11, <1>12 DEF Mirrors
<1>14. TimeMin \in Time /\ runtime' = runtime
  BY TimeAssumption DEF Time, Becomes
<1> QED
  BY <1>1, <1>13, <1>14, LikeBatchNext DEF c

\* Events that come before any tick.
LEMMA LikeBatchAfterEvents ==
  ASSUME CepInv, NEW events \in Seq(Event),
         Mirrors(SoFar, AdvanceDeadlines(After(matched), TimeMin), {}),
         Becomes(MatchAll(Matcher, events)), matched' = matched \o events
  PROVE  LikeBatch'
<1> DEFINE b == After(matched)
           c == After(matched')
<1>1. runtime \in Runtimes /\ matched \in Seq(Event) /\ matched' \in Seq(Event)
  BY ConcatItems DEF CepInv
<1>2. Matcher \in State /\ SoFar \in State /\ Mirrors(Matcher, SoFar, ToSet(emitted))
  BY MatcherMirrors
<1>3. b \in State /\ c \in State
  BY <1>1, BatchRun
<1>4. c = MatchAll(b, events)
  BY <1>1, AfterMore
<1>5. Mirrors(SoFar, b, {})
  <2>1. Mirrors(AdvanceDeadlines(b, TimeMin), b, {})
    BY <1>1, <1>3, SweepAtStart
  <2> QED
    BY <2>1 DEF Mirrors
<1> HIDE DEF b, c
<1>6. Mirrors(Matcher, b, ToSet(emitted))
  BY <1>2, <1>5 DEF Mirrors
<1>7. Mirrors(MatchAll(Matcher, events), c, ToSet(emitted))
  BY <1>1, <1>2, <1>3, <1>4, <1>6, MatchAllMirrors
<1>8. MatchAll(Matcher, events) \in State
  BY <1>1, <1>2, MatchAllRuns
<1>9. Mirrors(SoFar', c, {})
  BY <1>7, <1>8, BecomesMirrors
<1>10. Mirrors(AdvanceDeadlines(c, TimeMin), c, {})
  BY <1>1, <1>3, SweepAtStart
<1>11. Mirrors(SoFar', AdvanceDeadlines(c, TimeMin), {})
  BY <1>9, <1>10 DEF Mirrors
<1>12. TimeMin \in Time /\ runtime' = runtime
  BY TimeAssumption DEF Time, Becomes
<1> QED
  BY <1>1, <1>11, <1>12, LikeBatchNext DEF c

\* A tick.
LEMMA LikeBatchAfterTick ==
  ASSUME CepInv, NEW t0 \in Time, NEW t \in Time, t0 <= t, runtime.ticked, t <= now',
         Mirrors(SoFar, AdvanceDeadlines(After(matched), t0), {}),
         Becomes(AdvanceDeadlines(Matcher, t)), matched' = matched
  PROVE  LikeBatch'
<1> DEFINE b == After(matched)
           a == AdvanceDeadlines(b, t0)
<1>1. runtime \in Runtimes /\ matched \in Seq(Event)
  BY DEF CepInv
<1>2. Matcher \in State /\ SoFar \in State /\ Mirrors(Matcher, SoFar, ToSet(emitted))
  BY MatcherMirrors
<1>3. b \in State
  BY <1>1, BatchRun
<1> HIDE DEF b
<1>4. a \in State
  BY <1>1, <1>3, AdvanceDeadlinesKeeps DEF Keeps
<1>5. Mirrors(AdvanceDeadlines(a, t), AdvanceDeadlines(b, t), {})
  BY <1>1, <1>3, SweepTwice
<1>6. Mirrors(Matcher, a, ToSet(emitted))
  BY <1>2 DEF Mirrors, b
<1> HIDE DEF a
<1>7. Mirrors(AdvanceDeadlines(Matcher, t), AdvanceDeadlines(a, t), ToSet(emitted))
  BY <1>1, <1>2, <1>4, <1>6, AdvanceDeadlinesMirrors
<1>8. Mirrors(AdvanceDeadlines(Matcher, t), AdvanceDeadlines(b, t), ToSet(emitted))
  BY <1>5, <1>7 DEF Mirrors
<1>9. AdvanceDeadlines(Matcher, t) \in State
  BY <1>1, <1>2, AdvanceDeadlinesKeeps DEF Keeps
<1>10. Mirrors(SoFar', AdvanceDeadlines(b, t), {})
  BY <1>8, <1>9, BecomesMirrors
<1>11. matched' \in Seq(Event) /\ runtime' = runtime /\ After(matched') = b
  BY <1>1 DEF Becomes, b
<1> QED
  BY <1>10, <1>11, LikeBatchNext

\* Ending the stream now finds what the batch run finds, on the events matched and
\* those that are still to be matched.
LEMMA EndsLikeBatch ==
  ASSUME CepInv, TicksAreSafe, LikeBatch, NEW events \in Seq(Event), ~Reordering => events = <<>>
  PROVE  SameFindings(Conclude(MatchAll(SoFar, events)), Batch(matched \o events))
<1> DEFINE b == After(matched)
           c == After(matched \o events)
           end == Batch(matched \o events)
<1>1. runtime \in Runtimes /\ matched \in Seq(Event) /\ matched \o events \in Seq(Event)
      /\ SoFar \in State
  BY ConcatItems DEF CepInv
<1>2. b \in State /\ c \in State /\ end = Conclude(c) /\ c = MatchAll(b, events)
  BY <1>1, BatchRun, AfterMore
<1>3. PICK t \in Time :
        /\ t = TimeMin \/ (runtime.ticked /\ t <= now)
        /\ Mirrors(SoFar, AdvanceDeadlines(b, t), {})
  BY DEF LikeBatch
<1> HIDE DEF b, c, end
<1>4. ASSUME runtime.ticked PROVE SameFindings(Conclude(MatchAll(SoFar, events)), end)
  <2> DEFINE a == AdvanceDeadlines(b, t)
  <2>1. ~Reordering /\ ~EndsInBoundedRepetition /\ events = <<>>
    BY <1>4 DEF TicksAreSafe
  <2>2. MatchAll(SoFar, events) = SoFar /\ MatchAll(b, events) = b
    <3>1. MatchAll(SoFar, <<>>) = SoFar /\ MatchAll(b, <<>>) = b
      BY <1>1, <1>2, MatchAllNone
    <3> QED
      BY <2>1, <3>1
  <2>3. a \in State
    BY <1>1, <1>2, AdvanceDeadlinesKeeps DEF Keeps
  <2>4. /\ ToSet(Conclude(a).out) = ToSet(Conclude(b).out)
        /\ Conclude(a).drops["MaxInFlight"] = Conclude(b).drops["MaxInFlight"]
    BY <1>1, <1>2, <2>1, ConcludeAfterSweep
  <2>5. Mirrors(SoFar, a, {})
    BY <1>3
  <2> HIDE DEF a
  <2>6. Mirrors(Conclude(SoFar), Conclude(a), {})
    BY <1>1, <2>3, <2>5, ConcludeMirrors
  <2>7. c = b
    BY <1>2, <2>1, <2>2
  <2> QED
    BY <1>2, <2>2, <2>4, <2>6, <2>7 DEF Mirrors, SameFindings
<1>5. ASSUME ~runtime.ticked PROVE SameFindings(Conclude(MatchAll(SoFar, events)), end)
  <2>1. Mirrors(SoFar, b, {})
    <3>1. Mirrors(AdvanceDeadlines(b, TimeMin), b, {})
      BY <1>1, <1>2, SweepAtStart
    <3>2. t = TimeMin
      BY <1>3, <1>5
    <3> QED
      BY <1>3, <3>1, <3>2 DEF Mirrors
  <2>2. Mirrors(MatchAll(SoFar, events), c, {}) /\ MatchAll(SoFar, events) \in State
    BY <1>1, <1>2, <2>1, MatchAllMirrors, MatchAllRuns
  <2> DEFINE s1 == MatchAll(SoFar, events)
  <2> HIDE DEF s1
  <2>3. Mirrors(s1, c, {}) /\ s1 \in State
    BY <2>2 DEF s1
  <2>4. Mirrors(Conclude(s1), Conclude(c), {})
    BY <1>1, <1>2, <2>3, ConcludeMirrors
  <2> QED
    BY <1>2, <2>4 DEF Mirrors, SameFindings, s1
<1> QED
  BY <1>4, <1>5 DEF end
-----------------------------------------------------------------------------
(* Every call keeps it so. *)

\* How the runtime is driven never changes.
LEMMA SameDriver ==
  ASSUME runtime' = runtime
  PROVE  (TicksAreSafe' <=> TicksAreSafe) /\ (Reordering' <=> Reordering)
<1>1. pattern' = pattern
  BY DEF pattern
<1> QED
  BY <1>1 DEF TicksAreSafe, Reordering, InOrder, EndsInBoundedRepetition

\* A call that the buffer answers with nothing.
LEMMA NoneReleased ==
  ASSUME NEW S, released \in Seq(S), released' = released, NEW L
  PROVE  EventsAt(L, JustReleased) = <<>>
<1>1. JustReleased = <<>>
  BY DEF JustReleased
<1> QED
  BY <1>1 DEF EventsAt

\* What is buffered comes out as events.
LEMMA BufferedEvents ==
  ASSUME CepInv, DrivenInv
  PROVE  /\ EventsAt(log, Buffer!PopOrder(pending)) \in Seq(Event)
         /\ pending = {} => EventsAt(log, Buffer!PopOrder(pending)) = <<>>
<1> DEFINE P == Buf!PopOrder(pending)
<1>1. Buffer!PopOrder(pending) = P
  BY SamePopOrder
<1>2. log \in Seq(AllEvents) /\ Len(log) = arrivals /\ arrivals \in 0 .. MaxArrivals
  BY DEF CepInv
<1>3. Buf!Heap(pending) /\ \A x \in pending : x.ts \in Timestamps /\ x.rec \in 1 .. Len(log)
  <2>1. CASE Reordering
    <3>1. /\ Buf!Heap(pending) /\ pending \subseteq Buf!Entry
          /\ \A x \in pending : x.rec <= arrivals
      BY <2>1 DEF CepInv, Buf!OrderInv, Buf!TypeOK, Buf!SeqFresh, Buf!Known
    <3> QED
      BY <1>2, <3>1, CepAssumption DEF Buf!Entry
  <2>2. CASE ~Reordering
    <3>1. pending = {}
      BY <2>2 DEF DrivenInv
    <3>2. Buf!IsFiniteSet({})
      <4>1. <<>> \in Seq({})
        OBVIOUS
      <4> QED
        BY <4>1 DEF Buf!IsFiniteSet
    <3> QED
      BY <3>1, <3>2 DEF Buf!Heap
  <2> QED
    BY <2>1, <2>2
<1>4. P \in Seq(pending) /\ (pending = {} => P = <<>>)
  <2>1. P \in Seq(pending)
    BY <1>3, BufferConstants, Buf!PopOrderCorrect
  <2> QED
    BY <2>1
<1> HIDE DEF P
<1>5. Len(log) <= MaxArrivals
  BY <1>2, CepAssumption
<1>6. \A i \in DOMAIN P : EventAt(log, P[i]) \in Event
  BY <1>2, <1>3, <1>4, <1>5, EventAtType
<1>7. EventsAt(log, P) \in Seq(Event)
  BY <1>4, <1>6 DEF EventsAt
<1>8. pending = {} => EventsAt(log, P) = <<>>
  BY <1>4 DEF EventsAt
<1> QED
  BY <1>1, <1>7, <1>8

\* Flushing an empty buffer releases nothing.
LEMMA NothingBuffered ==
  ASSUME CepInv, DrivenInv, Reordering, pending = {}, Buffer!Flush, NEW L
  PROVE  EventsAt(L, JustReleased) = <<>>
<1>1. Buf!OrderInv
  BY DEF CepInv
<1>2. Buf!Flush
  BY SameFlush
<1>3. released' = released \o Buf!PopOrder(pending) /\ released \in Seq(Buf!Entry)
  BY <1>1, <1>2 DEF Buf!Flush, Buf!PopAll, Buf!OrderInv, Buf!TypeOK
<1>4. Buf!PopOrder(pending) = <<>>
  <2>1. Buf!PopOrder(pending) \in Seq(pending)
    BY <1>1, BufferConstants, Buf!PopOrderCorrect DEF Buf!OrderInv
  <2> QED
    BY <2>1
<1>5. released' = released
  BY <1>3, <1>4
<1> QED
  BY <1>3, <1>5, NoneReleased

\* Where nothing would succeed at the end, ending adds nothing.
LEMMA NothingToConclude ==
  ASSUME CepInv, \A i \in DOMAIN in_flight : ~ConcludesAtEnd(in_flight[i])
  PROVE  ToSet(Conclude(SoFar).out) = ToSet(SoFar.out) /\ Conclude(SoFar).drops = SoFar.drops
<1>1. runtime \in Runtimes /\ SoFar \in State /\ SoFar.flights = in_flight
  BY DEF CepInv, SoFar
<1>2. {j \in DOMAIN SoFar.flights : ConcludesAtEnd(SoFar.flights[j])} = {}
  BY <1>1
<1>3. ToSet(Conclude(SoFar).out)
        = ToSet(SoFar.out) \cup {SoFar.flights[i].captures :
                                   i \in {j \in DOMAIN SoFar.flights : ConcludesAtEnd(SoFar.flights[j])}}
  BY <1>1, SweptMatches
<1>4. Conclude(SoFar).drops = SoFar.drops
  BY <1>1, SweptMatches
<1> QED
  BY <1>2, <1>3, <1>4

\* At first nothing has happened in either run.
LEMMA InitDriven == Init => DrivenInv
<1> SUFFICES ASSUME Init PROVE DrivenInv
  OBVIOUS
<1>1. /\ runtime \in Runtimes /\ in_flight = <<>> /\ emitted = <<>> /\ matched = <<>>
      /\ drops = [r \in DropReason |-> 0] /\ now = TimeMin /\ resets = 0
      /\ pending = {} /\ flushed = FALSE
  BY DEF Init, Buffer!Init
<1>2. TimeMin \in Time
  BY TimeAssumption DEF Time
<1>3. After(matched) = Empty /\ Empty \in State
  <2>1. Empty \in State
    BY CepAssumption DEF Empty, State
  <2> QED
    BY <1>1, <2>1, MatchAllNone DEF After
<1>4. SoFar = Empty
  BY <1>1 DEF SoFar, Empty
<1>5. Mirrors(AdvanceDeadlines(Empty, TimeMin), Empty, {})
  BY <1>1, <1>3, SweepAtStart
<1>6. Mirrors(SoFar, AdvanceDeadlines(After(matched), TimeMin), {})
  BY <1>3, <1>4, <1>5 DEF Mirrors
<1>7. LikeBatch
  BY <1>2, <1>6 DEF LikeBatch
<1> QED
  BY <1>1, <1>2, <1>7 DEF DrivenInv

LEMMA PushDirectDriven ==
  ASSUME CepInv, DrivenInv, NEW ev \in Events, NEW ts \in Timestamps, PushDirect(ev, ts)
  PROVE  DrivenInv'
<1> DEFINE e == [ev |-> ev, ts |-> ts, rec |-> arrivals + 1]
<1>1. /\ ~Reordering /\ ~flushed /\ arrivals < MaxArrivals /\ now' = ts /\ (InOrder => now <= ts)
      /\ Becomes(MatchOne(Matcher, e)) /\ matched' = Append(matched, e)
      /\ resets' = resets /\ pending' = pending /\ flushed' = flushed
  BY DEF PushDirect, At, bufferVars
<1>2. runtime \in Runtimes /\ arrivals \in 0 .. MaxArrivals /\ ts \in Time /\ runtime' = runtime
  BY <1>1, CepAssumption DEF CepInv, Becomes
<1>3. arrivals + 1 \in 1 .. MaxArrivals
  BY <1>1, <1>2, CepAssumption
<1>4. e \in Event /\ e.ts = ts
  BY <1>2, <1>3, EventsKnown DEF Event
<1> HIDE DEF e
<1>5. ASSUME resets' = 0, TicksAreSafe' PROVE LikeBatch'
  <2>1. LikeBatch /\ (runtime.ticked => InOrder) /\ now \in Time
    BY <1>1, <1>2, <1>5, SameDriver DEF DrivenInv, TicksAreSafe
  <2>2. PICK t \in Time :
          /\ t = TimeMin \/ (runtime.ticked /\ t <= now)
          /\ Mirrors(SoFar, AdvanceDeadlines(After(matched), t), {})
    BY <2>1 DEF LikeBatch
  <2>3. t <= ts
    BY <1>1, <1>2, <2>1, <2>2, TimeAssumption DEF Time
  <2> QED
    BY <1>1, <1>4, <2>2, <2>3, LikeBatchAfterEvent
<1> QED
  BY <1>1, <1>2, <1>5, SameDriver DEF DrivenInv

LEMMA PushReorderedDriven ==
  ASSUME CepInv, DrivenInv, NEW ev \in Events, NEW ts \in Timestamps, PushReordered(ev, ts)
  PROVE  DrivenInv'
<1> DEFINE events == EventsAt(log', JustReleased)
<1>1. /\ Reordering /\ ~flushed /\ Buffer!StepBuffered(ts) /\ now' = ts /\ log' = Append(log, ev)
      /\ Becomes(MatchAll(Matcher, events)) /\ matched' = matched \o events /\ resets' = resets
  BY DEF PushReordered, At
<1>2. /\ Buf!OrderInv /\ log \in Seq(AllEvents) /\ Len(log) = arrivals /\ ev \in AllEvents
      /\ ts \in Time /\ runtime' = runtime
  BY <1>1, EventsKnown, CepAssumption DEF CepInv, Becomes
<1>3. (Buf!OrderInv)' /\ Buf!ReleasedGrows
  BY <1>1, <1>2, BufferStep
<1>4. arrivals' = arrivals + 1 /\ flushed' = flushed
  BY <1>1 DEF Buffer!StepBuffered
<1>5. log' \in Seq(AllEvents) /\ Len(log') = arrivals'
  BY <1>1, <1>2, <1>4
<1>6. events \in Seq(Event)
  BY <1>1, <1>3, <1>5, CallEvents
<1> HIDE DEF events
<1>7. ASSUME resets' = 0, TicksAreSafe' PROVE LikeBatch'
  <2>1. LikeBatch /\ ~runtime.ticked
    BY <1>1, <1>2, <1>7, SameDriver DEF DrivenInv, TicksAreSafe
  <2>2. Mirrors(SoFar, AdvanceDeadlines(After(matched), TimeMin), {})
    BY <2>1 DEF LikeBatch
  <2> QED
    BY <1>1, <1>6, <2>2, LikeBatchAfterEvents
<1> QED
  BY <1>1, <1>2, <1>4, <1>7, SameDriver DEF DrivenInv

LEMMA PushLateDriven ==
  ASSUME CepInv, DrivenInv, NEW ev \in Events, NEW ts \in Timestamps, PushLate(ev, ts)
  PROVE  DrivenInv'
<1>1. /\ Reordering /\ ~flushed /\ Buffer!Divert(ts) /\ now' = ts
      /\ drops' = [drops EXCEPT !["Late"] = @ + 1] /\ runtime' = runtime
      /\ in_flight' = in_flight /\ emitted' = emitted /\ matched' = matched /\ resets' = resets
  BY DEF PushLate, At
<1>2. flushed' = flushed /\ ts \in Time /\ matched \in Seq(Event) /\ SoFar \in State
  BY <1>1, CepAssumption DEF Buffer!Divert, CepInv
<1>3. ASSUME resets' = 0, TicksAreSafe' PROVE LikeBatch'
  <2>1. LikeBatch /\ ~runtime.ticked
    BY <1>1, <1>2, <1>3, SameDriver DEF DrivenInv, TicksAreSafe
  <2>2. Mirrors(SoFar, AdvanceDeadlines(After(matched), TimeMin), {})
    BY <2>1 DEF LikeBatch
  <2>3. drops \in [DropReason -> Nat]
    BY <1>2, StateFields DEF SoFar
  <2>4. drops'["MaxInFlight"] = drops["MaxInFlight"]
    BY <1>1, <2>3 DEF DropReason
  <2>5. Mirrors(SoFar', AdvanceDeadlines(After(matched'), TimeMin), {})
    BY <1>1, <2>2, <2>4 DEF Mirrors, SoFar
  <2>6. TimeMin \in Time
    BY TimeAssumption DEF Time
  <2> QED
    BY <1>1, <1>2, <2>5, <2>6, LikeBatchNext
<1> QED
  BY <1>1, <1>2, <1>3, SameDriver DEF DrivenInv
\* A tick sweeps the deadlines of the runtime, and the batch run will do so later.
LEMMA TickDriven ==
  ASSUME CepInv, DrivenInv, NEW t \in Clocks, runtime.ticked, Tick(t)
  PROVE  DrivenInv'
<1> DEFINE events == EventsAt(log, JustReleased)
           swept == AdvanceDeadlines(Matcher, t)
<1>1. /\ now' = t /\ (InOrder => now <= t) /\ resets' = resets
      /\ IF Reordering THEN Buffer!AdvanceWatermark(t) ELSE UNCHANGED <<bufferVars, streamVars>>
      /\ Becomes(AdvanceDeadlines(MatchAll(Matcher, events), t)) /\ matched' = matched \o events
  BY DEF Tick, At
<1>2. /\ t \in Time /\ runtime \in Runtimes /\ runtime' = runtime /\ flushed' = flushed
      /\ matched \in Seq(Event) /\ Matcher \in State
      /\ ~Reordering => released = <<>> /\ released' = <<>> /\ pending' = pending
  BY <1>1, MatcherState, CepAssumption
  DEF CepInv, Becomes, Buffer!AdvanceWatermark, streamVars, bufferVars
<1>3. ASSUME ~Reordering PROVE Becomes(swept) /\ matched' = matched
  <2>1. events = <<>>
    BY <1>2, <1>3, NothingReleased
  <2> HIDE DEF events
  <2>2. MatchAll(Matcher, events) = Matcher /\ matched \o events = matched
    BY <1>2, <2>1, MatchAllNone
  <2> QED
    BY <1>1, <2>2
<1>4. ASSUME resets' = 0, TicksAreSafe', ~flushed PROVE LikeBatch'
  <2>1. LikeBatch /\ ~Reordering /\ InOrder /\ now \in Time
    BY <1>1, <1>2, <1>4, SameDriver DEF DrivenInv, TicksAreSafe
  <2>2. PICK t0 \in Time :
          /\ t0 = TimeMin \/ (runtime.ticked /\ t0 <= now)
          /\ Mirrors(SoFar, AdvanceDeadlines(After(matched), t0), {})
    BY <2>1 DEF LikeBatch
  <2>3. t0 <= t
    BY <1>1, <1>2, <2>1, <2>2, TimeAssumption DEF Time
  <2>4. t <= now'
    BY <1>1, <1>2, TimeAssumption DEF Time
  <2> QED
    BY <1>2, <1>3, <2>1, <2>2, <2>3, <2>4, LikeBatchAfterTick
<1>5. ASSUME resets' = 0, TicksAreSafe', flushed PROVE ClosedLikeBatch'
  <2>1. ClosedLikeBatch /\ ~Reordering
    BY <1>1, <1>2, <1>5, SameDriver DEF DrivenInv, TicksAreSafe
  <2>2. Firing(Matcher, t) = {}
    BY <2>1 DEF ClosedLikeBatch, ConcludesAtEnd, Firing, Overdue, Matcher
  <2>3. /\ ToSet(swept.out) = ToSet(Matcher.out)
        /\ swept.drops["MaxInFlight"] = Matcher.drops["MaxInFlight"]
    <3>1. ToSet(swept.out) = ToSet(Matcher.out) \cup {Matcher.flights[i].captures : i \in Firing(Matcher, t)}
      BY <1>2, SweptMatches
    <3>2. swept.drops["MaxInFlight"] = Matcher.drops["MaxInFlight"]
      BY <1>2, SweptMatches
    <3> QED
      BY <2>2, <3>1, <3>2
  <2>4. swept \in State
    BY <1>2, AdvanceDeadlinesKeeps DEF Keeps
  <2>5. \A i \in DOMAIN swept.flights : ~ConcludesAtEnd(swept.flights[i])
    <3>1. PICK p, c : Leaves(Matcher, t, p, c)
      BY <1>2, SweepLeaves
    <3> QED
      BY <2>1, <3>1 DEF Leaves, ClosedLikeBatch, Matcher
  <2> DEFINE b == [flights |-> swept.flights, out |-> emitted, drops |-> drops]
  <2>6. Mirrors(swept, b, ToSet(emitted))
    <3>1. /\ b.flights = swept.flights /\ b.out = emitted /\ b.drops = drops
          /\ Matcher.out = <<>> /\ Matcher.drops = drops /\ ToSet(<<>>) = {}
      BY DEF Matcher, ToSet
    <3> HIDE DEF b, swept
    <3> QED
      BY <2>3, <3>1 DEF Mirrors
  <2>7. b.out = emitted /\ b.drops = drops
    OBVIOUS
  <2> HIDE DEF b, swept
  <2>8. Mirrors(SoFar', b, {})
    BY <1>3, <2>1, <2>4, <2>6, BecomesMirrors
  <2>9. SameFindings(SoFar, Batch(matched))
    BY <2>1 DEF ClosedLikeBatch
  <2>10. matched' = matched
    BY <1>3, <2>1
  <2>11. SameFindings(SoFar', Batch(matched'))
    BY <2>7, <2>8, <2>9, <2>10 DEF Mirrors, SameFindings, SoFar
  <2>12. in_flight' = swept.flights
    BY <1>3, <2>1 DEF Becomes
  <2>13. pending' = {} /\ matched' \in Seq(Event)
    BY <1>2, <2>1, <2>10 DEF ClosedLikeBatch
  <2> QED
    BY <1>2, <2>5, <2>11, <2>12, <2>13, ClosedNext
<1> QED
  BY <1>1, <1>2, <1>4, <1>5, SameDriver DEF DrivenInv

\* The first flush ends both runs, and another finds nothing.
LEMMA FlushDriven ==
  ASSUME CepInv, DrivenInv, Flush
  PROVE  DrivenInv'
<1> DEFINE events == EventsAt(log', JustReleased)
           s == MatchAll(Matcher, events)
<1>1. /\ IF Reordering THEN Buffer!Flush
         ELSE flushed' = TRUE /\ UNCHANGED <<bufferVars, arrivals, released, dropped>>
      /\ log' = log /\ now' = now /\ resets' = resets
      /\ Becomes(Conclude(s)) /\ matched' = matched \o events
  BY DEF Flush
<1>2. /\ Reordering => Buf!OrderInv
      /\ log \in Seq(AllEvents) /\ Len(log) = arrivals
      /\ runtime \in Runtimes /\ runtime' = runtime /\ matched \in Seq(Event)
      /\ Matcher \in State /\ SoFar \in State
  BY <1>1, MatcherState DEF CepInv, Becomes
<1>3. Reordering => (Buf!OrderInv)' /\ Buf!ReleasedGrows
  BY <1>1, <1>2, BufferFlush
<1>4. arrivals' = arrivals /\ (~Reordering => released' = released)
  BY <1>1 DEF Buffer!Flush
<1>5. flushed' = TRUE /\ pending' = {}
  BY <1>1 DEF Buffer!Flush, DrivenInv, bufferVars
<1>6. log' \in Seq(AllEvents) /\ Len(log') = arrivals'
  BY <1>1, <1>2, <1>4
<1>7. /\ events \in Seq(Event) /\ matched' \in Seq(Event)
      /\ ~Reordering => released' = <<>> /\ released = <<>>
  BY <1>1, <1>3, <1>4, <1>6, CallEvents
<1>8. ~Reordering => events = <<>>
  BY <1>7, NothingReleased
<1>9. s \in State
  <2> HIDE DEF events
  <2> QED
    BY <1>2, <1>7, MatchAllRuns
<1>10. \A i \in DOMAIN in_flight' : ~ConcludesAtEnd(in_flight'[i])
  <2> HIDE DEF s
  <2>1. in_flight' = Conclude(s).flights
    BY <1>1 DEF Becomes
  <2> QED
    BY <1>9, <2>1, NothingConcludesTwice
<1> HIDE DEF events
<1>11. Mirrors(SoFar', Conclude(MatchAll(SoFar, events)), {})
  <2> DEFINE b == MatchAll(SoFar, events)
  <2>1. Mirrors(s, b, ToSet(emitted))
    BY <1>2, <1>7, MatcherMirrors, MatchAllMirrors
  <2>2. b \in State
    BY <1>2, <1>7, MatchAllRuns
  <2> HIDE DEF s, b
  <2>3. Mirrors(Conclude(s), Conclude(b), ToSet(emitted))
    BY <1>2, <1>9, <2>1, <2>2, ConcludeMirrors
  <2>4. Conclude(s) \in State
    BY <1>2, <1>9, ConcludeKeeps DEF Keeps
  <2> QED
    BY <1>1, <2>3, <2>4, BecomesMirrors DEF b
<1>12. ASSUME resets' = 0, TicksAreSafe', ~flushed
       PROVE  SameFindings(Conclude(MatchAll(SoFar, events)), Batch(matched'))
  <2>1. LikeBatch /\ TicksAreSafe
    BY <1>1, <1>2, <1>12, SameDriver DEF DrivenInv
  <2> QED
    BY <1>1, <1>7, <1>8, <2>1, EndsLikeBatch
<1>13. ASSUME resets' = 0, TicksAreSafe', flushed
       PROVE  SameFindings(Conclude(MatchAll(SoFar, events)), Batch(matched'))
  <2>1. ClosedLikeBatch
    BY <1>1, <1>2, <1>13, SameDriver DEF DrivenInv
  <2>2. events = <<>>
    BY <1>1, <1>8, <2>1, NothingBuffered DEF ClosedLikeBatch, events
  <2>3. MatchAll(SoFar, events) = SoFar
    BY <1>2, <2>2, MatchAllNone
  <2>4. matched' = matched
    BY <1>1, <1>2, <2>2
  <2>5. ToSet(Conclude(SoFar).out) = ToSet(SoFar.out) /\ Conclude(SoFar).drops = SoFar.drops
    BY <1>2, <2>1, NothingToConclude DEF ClosedLikeBatch
  <2> QED
    BY <2>1, <2>3, <2>4, <2>5 DEF ClosedLikeBatch, SameFindings
<1>14. ASSUME resets' = 0, TicksAreSafe' PROVE ClosedLikeBatch'
  <2>1. SameFindings(SoFar', Batch(matched'))
    BY <1>11, <1>12, <1>13, <1>14 DEF Mirrors, SameFindings
  <2> QED
    BY <1>2, <1>5, <1>7, <1>10, <2>1, ClosedNext
<1> QED
  BY <1>1, <1>5, <1>14 DEF DrivenInv

\* After a reset nothing is claimed; a stuttering step changes nothing.
LEMMA ResetDriven ==
  ASSUME CepInv, DrivenInv, Reset
  PROVE  DrivenInv'
<1>1. /\ resets' = resets + 1 /\ now' = now /\ runtime' = runtime /\ pending' = pending
      /\ flushed' = flushed
  BY DEF Reset, bufferVars, streamVars
<1>2. now \in Time /\ resets \in Nat /\ (~Reordering => pending = {})
  BY DEF DrivenInv
<1>3. resets' \in Nat /\ resets' # 0
  BY <1>1, <1>2
<1> QED
  BY <1>1, <1>2, <1>3, SameDriver DEF DrivenInv

LEMMA IdleDriven ==
  ASSUME CepInv, DrivenInv, UNCHANGED vars
  PROVE  DrivenInv'
<1>1. /\ resets' = resets /\ now' = now /\ runtime' = runtime /\ pending' = pending
      /\ flushed' = flushed /\ matched' = matched /\ in_flight' = in_flight
      /\ emitted' = emitted /\ drops' = drops
  BY DEF vars, engineVars, callVars, bufferVars, streamVars
<1>2. SoFar' = SoFar /\ matched \in Seq(Event)
  BY <1>1 DEF SoFar, CepInv
<1>3. ASSUME LikeBatch PROVE LikeBatch'
  <2>1. PICK t \in Time :
          /\ t = TimeMin \/ (runtime.ticked /\ t <= now)
          /\ Mirrors(SoFar, AdvanceDeadlines(After(matched), t), {})
    BY <1>3 DEF LikeBatch
  <2> QED
    BY <1>1, <1>2, <2>1, LikeBatchNext
<1>4. ASSUME ClosedLikeBatch PROVE ClosedLikeBatch'
  BY <1>1, <1>2, <1>4, ClosedNext DEF ClosedLikeBatch
<1> QED
  BY <1>1, <1>3, <1>4, SameDriver DEF DrivenInv
\* Every operation keeps the driven runtime like the batch run.
LEMMA NextDriven == CepInv /\ DrivenInv /\ [Next]_vars => DrivenInv'
<1> SUFFICES ASSUME CepInv, DrivenInv, [Next]_vars PROVE DrivenInv'
  OBVIOUS
<1>1. ASSUME NEW ev \in Events, NEW ts \in Timestamps, Push(ev, ts) PROVE DrivenInv'
  BY <1>1, PushDirectDriven, PushReorderedDriven, PushLateDriven DEF Push
<1>2. ASSUME NEW t \in Clocks, runtime.ticked, Tick(t) PROVE DrivenInv'
  BY <1>2, TickDriven
<1>3. CASE Flush
  BY <1>3, FlushDriven
<1>4. CASE Reset
  BY <1>4, ResetDriven
<1>5. CASE UNCHANGED vars
  BY <1>5, IdleDriven
<1> QED
  BY <1>1, <1>2, <1>3, <1>4, <1>5 DEF Next

\* So it is always like the batch run.
LEMMA DrivenInvariant == Spec => [](CepInv /\ DrivenInv)
BY InitCepInv, NextCepInv, InitDriven, NextDriven, PTL DEF Spec

\* Ending the stream in any state gives what the batch run gives.
LEMMA FinishesLikeBatch ==
  ASSUME CepInv, DrivenInv, resets = 0, TicksAreSafe
  PROVE  SameFindings(Finished, Batch(Timeline)) /\ Timeline \in Seq(Event)
<1> DEFINE P == EventsAt(log, Buffer!PopOrder(pending))
<1>1. P \in Seq(Event) /\ (pending = {} => P = <<>>)
  BY BufferedEvents
<1>2. Finished = Conclude(MatchAll(SoFar, P)) /\ Timeline = matched \o P
  BY DEF Finished, Timeline, SoFar
<1> HIDE DEF P
<1>3. runtime \in Runtimes /\ SoFar \in State /\ matched \in Seq(Event) /\ matched \o P \in Seq(Event)
  BY <1>1, ConcatItems DEF CepInv
<1>4. ASSUME ~flushed PROVE SameFindings(Conclude(MatchAll(SoFar, P)), Batch(matched \o P))
  <2>1. LikeBatch /\ (~Reordering => P = <<>>)
    BY <1>1, <1>4 DEF DrivenInv
  <2> QED
    BY <1>1, <2>1, EndsLikeBatch
<1>5. ASSUME flushed PROVE SameFindings(Conclude(MatchAll(SoFar, P)), Batch(matched \o P))
  <2>1. ClosedLikeBatch
    BY <1>5 DEF DrivenInv
  <2>2. P = <<>>
    BY <1>1, <2>1 DEF ClosedLikeBatch
  <2>3. MatchAll(SoFar, P) = SoFar /\ matched \o P = matched
    BY <1>3, <2>2, MatchAllNone
  <2>4. ToSet(Conclude(SoFar).out) = ToSet(SoFar.out) /\ Conclude(SoFar).drops = SoFar.drops
    BY <2>1, NothingToConclude DEF ClosedLikeBatch
  <2> QED
    BY <2>1, <2>3, <2>4 DEF ClosedLikeBatch, SameFindings
<1> QED
  BY <1>2, <1>3, <1>4, <1>5

\* However a runtime is driven, with a reorder buffer or with ticks whose times keep
\* to those of the events, the matches it reports by the end of the stream are those
\* of a batch run over the accepted events in event-time order. Ticks may cut short a
\* last repetition that already has its minimum, and TicksAreSafe excludes just that.
THEOREM DrivenRunsAreBatchRuns == Spec => [](TicksAreSafe => DrivenRunEqualsBatchRun)
<1>1. CepInv /\ DrivenInv => (TicksAreSafe => DrivenRunEqualsBatchRun)
  <2> SUFFICES ASSUME CepInv, DrivenInv, TicksAreSafe, resets = 0
               PROVE  ToSet(Finished.out) = ToSet(Batch(Timeline).out)
    BY DEF DrivenRunEqualsBatchRun
  <2> QED
    BY FinishesLikeBatch DEF SameFindings
<1> QED
  BY <1>1, DrivenInvariant, PTL
=============================================================================
