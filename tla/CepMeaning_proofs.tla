-------------------------- MODULE CepMeaning_proofs --------------------------
(***************************************************************************)
(* What a run finds: if no step of the pattern repeats, the matches are    *)
(* those the pattern means (MatchesOf), and all of them but as many as     *)
(* were dropped for MaxInFlight.                                           *)
(*                                                                         *)
(* The batch run is followed event by event. Its partials are the paths    *)
(* through the pattern that the events so far have begun and none has      *)
(* ended, its matches those that have been completed, and a path that is   *)
(* neither was dropped: it was counted, and so are all it would have       *)
(* become. CepMatching_proofs carries the result over to driven runs.      *)
(***************************************************************************)
EXTENDS CepMatching_proofs

-----------------------------------------------------------------------------
(* The paths through the pattern. *)

\* No step repeats.
SingleSteps == \A k \in DOMAIN pattern : pattern[k].max = 1

\* c[k] is the position of the event captured for step k, up to step m.
Path(E, c, m) ==
  /\ m \in 1 .. Positives
  /\ c \in [1 .. m -> DOMAIN E]
  /\ Holds(pattern[1].pred, E[c[1]], <<>>)
  /\ \A k \in 2 .. m : IsNextCapture(E, c, k)

\* The event at x decides nothing about step k.
Skips(E, c, k, x) ==
  LET step     == pattern[k]
      captures == Captured(E, c, k - 1)
  IN  /\ ~Holds(step.pred, E[x], captures)
      /\ ~step.negative =>
           /\ ~step.next
           /\ step.forbidden # None => ~Holds(step.forbidden, E[x], captures)

\* So far nothing is decided about step m + 1,
Awaits(E, c, m) ==
  /\ Path(E, c, m) /\ m < Len(pattern)
  /\ InTime(E, pattern[m + 1], c[m], Len(E))
  /\ \A x \in c[m] + 1 .. Len(E) : Skips(E, c, m + 1, x)

\* or it can no longer succeed since y,
Decides(E, c, m, y) ==
  LET step     == pattern[m + 1]
      captures == Captured(E, c, m)
  IN  /\ \A x \in c[m] + 1 .. y - 1 : ~Holds(step.pred, E[x], captures)
      /\ IF step.negative
         THEN InTime(E, step, c[m], y) /\ Holds(step.pred, E[y], captures)
         ELSE \/ ~InTime(E, step, c[m], y)
              \/ ~Skips(E, c, m + 1, y) /\ ~Holds(step.pred, E[y], captures)

Fails(E, c, m) ==
  /\ Path(E, c, m) /\ m < Len(pattern)
  /\ \E y \in c[m] + 1 .. Len(E) : Decides(E, c, m, y)

\* or the match is complete, whatever follows.
Ends(E, c) ==
  /\ Path(E, c, Positives)
  /\ Positives < Len(pattern) =>
       /\ IsAbsent(E, c, Len(pattern))
       /\ ~InTime(E, pattern[Len(pattern)], c[Positives], Len(E))

\* The match is one of the stream's.
Full(E, c) ==
  /\ Path(E, c, Positives)
  /\ \A k \in Positives + 1 .. Len(pattern) : IsAbsent(E, c, k)

\* A partial in flight stands for an undecided path.
Tracks(E, pm, c) ==
  /\ pm.next \in Nat
  /\ Awaits(E, c, pm.next - 1)
  /\ pm.captures = Captured(E, c, pm.next - 1)
  /\ pm.deadline = NextDeadlineFor(pm.next, E[c[pm.next - 1]].ts)

-----------------------------------------------------------------------------

\* Only the last step may be negative, and then it is not among the positive ones.
LEMMA PositivesType ==
  ASSUME runtime \in Runtimes
  PROVE  /\ Positives \in Nat /\ 1 <= Positives /\ Positives <= Len(pattern)
         /\ Len(pattern) \in Nat /\ DOMAIN pattern = 1 .. Len(pattern)
         /\ Positives < Len(pattern) => Len(pattern) = Positives + 1 /\ pattern[Len(pattern)].negative
         /\ \A k \in 2 .. Positives : ~pattern[k].negative
         /\ \A k \in Positives + 1 .. Len(pattern) : k = Len(pattern) /\ Positives < Len(pattern)
         /\ \A k \in 1 .. Len(pattern) :
              pattern[k].within \in Time \cup {None} /\ pattern[k].max \in Nat /\ 1 <= pattern[k].max
<1>1. /\ Len(pattern) \in Nat /\ 1 <= Len(pattern) /\ DOMAIN pattern = 1 .. Len(pattern)
      /\ \A k \in 1 .. Len(pattern) : IsStep(pattern[k])
  BY PatternType
<1>2. \A k \in 1 .. Len(pattern) : pattern[k].negative => k = Len(pattern)
  BY <1>1, CepAssumption DEF pattern
<1>3. \A k \in 1 .. Len(pattern) :
        pattern[k].within \in Time \cup {None} /\ pattern[k].max \in Nat /\ 1 <= pattern[k].max
  BY <1>1 DEF IsStep
<1> DEFINE N == Len(pattern)
           Q == Positives
<1>4. Q = IF N > 1 /\ pattern[N].negative THEN N - 1 ELSE N
  BY DEF Positives
<1>5. N \in Nat /\ 1 <= N /\ \A k \in 1 .. N : pattern[k].negative => k = N
  BY <1>1, <1>2
<1> HIDE DEF N, Q
<1>6. /\ Q \in Nat /\ 1 <= Q /\ Q <= N
      /\ Q < N => N = Q + 1 /\ pattern[N].negative
      /\ \A k \in 2 .. Q : k \in 1 .. N /\ k <= Q
      /\ \A k \in Q + 1 .. N : k = N /\ Q < N
  BY <1>4, <1>5
<1>7. \A k \in 2 .. Q : ~pattern[k].negative
  <2> SUFFICES ASSUME NEW k \in 2 .. Q, pattern[k].negative PROVE FALSE
    OBVIOUS
  <2>1. k = N
    BY <1>5, <1>6
  <2> QED
    BY <1>4, <1>5, <1>6, <2>1
<1> QED
  BY <1>1, <1>3, <1>6, <1>7 DEF N, Q

LEMMA PositivesNat ==
  ASSUME runtime \in Runtimes
  PROVE  Positives \in Nat /\ 1 <= Positives /\ Positives <= Len(pattern) /\ Len(pattern) \in Nat
BY PositivesType

\* The step after the m-th is positive or the last.
LEMMA StepAfter ==
  ASSUME runtime \in Runtimes, NEW m \in Nat, 1 <= m, m <= Positives, m < Len(pattern)
  PROVE  /\ m + 1 \in 2 .. Len(pattern) /\ m + 1 \in 1 .. Len(pattern)
         /\ pattern[m + 1].negative => m = Positives /\ m + 1 = Len(pattern)
         /\ ~pattern[m + 1].negative => m + 1 <= Positives /\ m + 1 \in 2 .. Positives
<1> DEFINE N == Len(pattern)
           Q == Positives
<1>1. /\ Q \in Nat /\ 1 <= Q /\ Q <= N /\ N \in Nat
      /\ Q < N => N = Q + 1 /\ pattern[N].negative
      /\ \A k \in 2 .. Q : ~pattern[k].negative
  BY PositivesType
<1>2. m <= Q /\ m < N
  OBVIOUS
<1> HIDE DEF N, Q
<1>3. m + 1 \in 2 .. N /\ m + 1 \in 1 .. N
  BY <1>1, <1>2
<1>4. CASE m < Q
  <2>1. m + 1 \in 2 .. Q /\ m + 1 <= Q
    BY <1>1, <1>4
  <2> QED
    BY <1>1, <1>3, <2>1 DEF N, Q
<1>5. CASE ~(m < Q)
  <2>1. m = Q /\ m + 1 = N
    BY <1>1, <1>2, <1>5
  <2> QED
    BY <1>1, <1>2, <1>3, <2>1 DEF N, Q
<1> QED
  BY <1>4, <1>5

LEMMA PathFields ==
  ASSUME NEW E \in Seq(Event), NEW c, NEW m, Path(E, c, m), runtime \in Runtimes
  PROVE  /\ m \in Nat /\ 1 <= m /\ m <= Positives
         /\ \A k \in 1 .. m : c[k] \in 1 .. Len(E) /\ E[c[k]] \in Event
<1>1. m \in 1 .. Positives /\ c \in [1 .. m -> DOMAIN E]
  BY DEF Path
<1>2. m \in Nat /\ 1 <= m /\ m <= Positives
  BY <1>1, PositivesNat
<1> QED
  BY <1>1, <1>2

\* What is captured depends on the positions up to there.
LEMMA SameCaptured ==
  ASSUME NEW E, NEW F, NEW c, NEW d, NEW k \in Nat,
         \A j \in 1 .. k : E[c[j]] = F[d[j]]
  PROVE  Captured(E, c, k) = Captured(F, d, k)
BY DEF Captured

\* The next capture is the first that matches, so there is just one.
LEMMA NextIsFirst ==
  ASSUME NEW E, NEW c, NEW d, NEW k \in Nat, 2 <= k, IsNextCapture(E, c, k), IsNextCapture(E, d, k),
         \A j \in 1 .. k - 1 : c[j] = d[j], c[k - 1] \in Int, c[k] \in Int, d[k] \in Int
  PROVE  ~(c[k] < d[k])
<1>1. Captured(E, c, k - 1) = Captured(E, d, k - 1)
  BY SameCaptured
<1> SUFFICES ASSUME c[k] < d[k] PROVE FALSE
  OBVIOUS
<1>2. c[k - 1] = d[k - 1] /\ c[k - 1] < c[k]
  BY DEF IsNextCapture
<1>3. c[k] \in d[k - 1] + 1 .. d[k] - 1
  BY <1>2
<1>4. ~Holds(pattern[k].pred, E[c[k]], Captured(E, d, k - 1))
  BY <1>3 DEF IsNextCapture
<1>5. Holds(pattern[k].pred, E[c[k]], Captured(E, c, k - 1))
  BY DEF IsNextCapture
<1> QED
  BY <1>1, <1>4, <1>5

\* An opening event has one path.
LEMMA PathsAgree ==
  ASSUME runtime \in Runtimes, NEW E \in Seq(Event), NEW c, NEW d, NEW m, NEW n,
         Path(E, c, m), Path(E, d, n), c[1] = d[1], m <= n
  PROVE  \A k \in 1 .. m : c[k] = d[k]
<1>1. m \in Nat /\ n \in Nat /\ 1 <= m /\ \A k \in 1 .. m : c[k] \in Int /\ d[k] \in Int
  <2>1. m \in Nat /\ n \in Nat /\ 1 <= m
    BY PathFields
  <2>2. \A k \in 1 .. m : k \in 1 .. n
    BY <2>1
  <2> QED
    BY <2>1, <2>2, PathFields
<1> DEFINE P == {k \in Nat : k <= m => \A j \in 1 .. k : c[j] = d[j]}
<1>2. 0 \in P
  BY <1>1
<1>3. ASSUME NEW k \in 0 .. m - 1, k \in P PROVE k + 1 \in P
  <2>1. k \in Nat /\ k + 1 <= m /\ \A j \in 1 .. k : c[j] = d[j]
    BY <1>1, <1>3
  <2>2. c[k + 1] = d[k + 1]
    <3>1. CASE k = 0
      BY <3>1
    <3>2. CASE k # 0
      <4> DEFINE l == k + 1
      <4>1. l \in Nat /\ 2 <= l /\ l \in 2 .. m /\ l \in 2 .. n /\ l - 1 = k /\ l \in 1 .. m /\ k \in 1 .. m
        BY <1>1, <2>1, <3>2
      <4> HIDE DEF l
      <4>2. IsNextCapture(E, c, l) /\ IsNextCapture(E, d, l)
        BY <4>1 DEF Path
      <4>3. /\ \A j \in 1 .. l - 1 : c[j] = d[j] /\ d[j] = c[j]
            /\ c[l - 1] \in Int /\ c[l] \in Int /\ d[l] \in Int /\ d[l - 1] \in Int
        BY <1>1, <2>1, <4>1
      <4>4. ~(c[l] < d[l])
        BY <4>1, <4>2, <4>3, NextIsFirst
      <4>5. ~(d[l] < c[l])
        BY <4>1, <4>2, <4>3, NextIsFirst
      <4>6. c[l] = d[l]
        BY <4>3, <4>4, <4>5
      <4> QED
        BY <4>6 DEF l
    <3> QED
      BY <3>1, <3>2
  <2>3. \A j \in 1 .. k + 1 : j \in 1 .. k \/ j = k + 1
    BY <2>1
  <2> QED
    BY <2>1, <2>2, <2>3
<1>4. 0 .. m \subseteq P
  <2> HIDE DEF P
  <2> QED
    BY <1>1, <1>2, <1>3, CountUp
<1> QED
  BY <1>1, <1>4
-----------------------------------------------------------------------------
(* At the end of the stream. *)

\* A complete match is the stream's, and so is one whose absence has come to the end.
LEMMA EndsIsFull ==
  ASSUME runtime \in Runtimes, NEW E, NEW c, Ends(E, c)
  PROVE  Full(E, c)
<1>1. \A k \in Positives + 1 .. Len(pattern) : k = Len(pattern) /\ Positives < Len(pattern)
  BY PositivesType
<1> QED
  BY <1>1 DEF Ends, Full

LEMMA AbsentIsFull ==
  ASSUME runtime \in Runtimes, NEW E, NEW c, NEW m, Awaits(E, c, m), pattern[m + 1].negative
  PROVE  m = Positives /\ Full(E, c)
<1>1. m \in Nat /\ 1 <= m /\ m <= Positives /\ m < Len(pattern)
  BY PositivesNat DEF Awaits, Path
<1>2. m + 1 = Len(pattern) /\ m = Positives
  BY <1>1, StepAfter
<1>3. \A k \in Positives + 1 .. Len(pattern) : k = m + 1
  BY <1>1, <1>2
<1>4. (m + 1) - 1 = m
  BY <1>1
<1>5. IsAbsent(E, c, m + 1)
  BY <1>4 DEF Awaits, Skips, IsAbsent
<1> QED
  BY <1>2, <1>3, <1>5 DEF Full, Awaits

\* What was in time by x was in time before.
LEMMA InTimeBefore ==
  ASSUME NEW E, NEW step, NEW a \in Int, NEW x \in Int, NEW y \in Int, y <= x, InTime(E, step, a, x)
  PROVE  InTime(E, step, a, y)
BY DEF InTime

\* The next positive capture of an opening that is still undecided does not exist,
LEMMA AwaitsIsOpen ==
  ASSUME runtime \in Runtimes, NEW E \in Seq(Event), NEW c, NEW d, NEW m, Awaits(E, c, m),
         ~pattern[m + 1].negative, Path(E, d, Positives), c[1] = d[1]
  PROVE  FALSE
<1>1. /\ m \in Nat /\ 1 <= m /\ m <= Positives /\ m < Len(pattern) /\ Path(E, c, m)
      /\ Positives \in Nat
  BY PathFields, PositivesNat DEF Awaits
<1>2. m + 1 <= Positives
  BY <1>1, StepAfter
<1>3. \A k \in 1 .. m : c[k] = d[k]
  <2> DEFINE n == Positives
  <2>1. Path(E, d, n) /\ m <= n
    BY <1>1
  <2> HIDE DEF n
  <2> QED
    BY <1>1, <2>1, PathsAgree
<1> DEFINE l == m + 1
<1>4. l \in 2 .. Positives /\ l - 1 = m /\ m \in 1 .. m /\ l \in 1 .. Positives
  BY <1>1, <1>2
<1>5. Captured(E, c, m) = Captured(E, d, m)
  BY <1>1, <1>3, SameCaptured
<1>6. c[m] = d[m] /\ c[m] \in 1 .. Len(E) /\ d[l] \in 1 .. Len(E) /\ Len(E) \in Nat
  BY <1>1, <1>3, <1>4, PathFields
<1>7. ~Skips(E, c, l, d[l])
  <2>1. IsNextCapture(E, d, l)
    BY <1>4 DEF Path
  <2>2. Holds(pattern[l].pred, E[d[l]], Captured(E, d, m))
    BY <1>4, <2>1 DEF IsNextCapture
  <2> QED
    BY <1>4, <1>5, <2>2 DEF Skips
<1>8. d[l] \in c[m] + 1 .. Len(E)
  <2>1. IsNextCapture(E, d, l)
    BY <1>4 DEF Path
  <2>2. d[m] < d[l]
    BY <1>4, <2>1 DEF IsNextCapture
  <2> QED
    BY <1>6, <2>2
<1> QED
  BY <1>7, <1>8 DEF Awaits

\* and none of one that has failed; nor does its absence succeed.
LEMMA FailsIsDead ==
  ASSUME runtime \in Runtimes, NEW E \in Seq(Event), NEW c, NEW d, NEW m, Fails(E, c, m),
         Full(E, d), c[1] = d[1]
  PROVE  FALSE
<1>1. /\ m \in Nat /\ 1 <= m /\ m <= Positives /\ m < Len(pattern) /\ Path(E, c, m)
      /\ Positives \in Nat /\ Path(E, d, Positives)
  BY PathFields, PositivesNat DEF Fails, Full
<1>2. \A k \in 1 .. m : c[k] = d[k]
  <2> DEFINE n == Positives
  <2>1. Path(E, d, n) /\ m <= n
    BY <1>1
  <2> HIDE DEF n
  <2> QED
    BY <1>1, <2>1, PathsAgree
<1>3. PICK y \in c[m] + 1 .. Len(E) : Decides(E, c, m, y)
  BY DEF Fails
<1>4. Captured(E, c, m) = Captured(E, d, m)
  BY <1>1, <1>2, SameCaptured
<1> DEFINE l == m + 1
<1>5. l - 1 = m /\ m \in 1 .. m /\ l \in Nat
  BY <1>1
<1>6. c[m] = d[m] /\ c[m] \in 1 .. Len(E) /\ Len(E) \in Nat /\ y \in Int /\ c[m] < y
  BY <1>1, <1>2, <1>3, <1>5, PathFields
<1>7. CASE pattern[l].negative
  <2>1. l = Len(pattern) /\ m = Positives /\ l \in Positives + 1 .. Len(pattern)
    BY <1>1, <1>7, StepAfter
  <2>2. IsAbsent(E, d, l)
    BY <2>1 DEF Full
  <2>3. InTime(E, pattern[l], c[m], y) /\ Holds(pattern[l].pred, E[y], Captured(E, c, m))
    BY <1>3, <1>7 DEF Decides
  <2> QED
    BY <1>3, <1>4, <1>5, <1>6, <2>2, <2>3 DEF IsAbsent
<1>8. CASE ~pattern[l].negative
  <2>1. l \in 2 .. Positives /\ l \in 1 .. Positives
    BY <1>1, <1>8, StepAfter
  <2>2. IsNextCapture(E, d, l)
    BY <1>1, <2>1 DEF Path
  <2>3. d[l] \in 1 .. Len(E) /\ d[l] \in Int
    BY <1>1, <2>1, PathFields
  <2>4. /\ d[m] < d[l] /\ Holds(pattern[l].pred, E[d[l]], Captured(E, d, m))
        /\ InTime(E, pattern[l], d[m], d[l])
        /\ \A x \in d[m] + 1 .. d[l] - 1 :
             /\ ~pattern[l].next
             /\ ~Holds(pattern[l].pred, E[x], Captured(E, d, m))
             /\ pattern[l].forbidden # None => ~Holds(pattern[l].forbidden, E[x], Captured(E, d, m))
    BY <1>5, <2>2 DEF IsNextCapture
  <2>5. ~(d[l] < y)
    <3>1. ASSUME d[l] < y PROVE d[l] \in c[m] + 1 .. y - 1
      BY <1>6, <2>3, <2>4, <3>1
    <3>2. \A x \in c[m] + 1 .. y - 1 : ~Holds(pattern[l].pred, E[x], Captured(E, c, m))
      BY <1>3 DEF Decides
    <3> QED
      BY <1>4, <2>4, <3>1, <3>2
  <2>6. InTime(E, pattern[l], c[m], y)
    <3>1. y <= d[l]
      BY <1>6, <2>3, <2>5
    <3>2. InTime(E, pattern[l], c[m], d[l])
      BY <1>6, <2>4
    <3> QED
      BY <1>6, <2>3, <3>1, <3>2, InTimeBefore
  <2>7. ~Skips(E, c, l, y) /\ ~Holds(pattern[l].pred, E[y], Captured(E, c, m))
    BY <1>3, <1>8, <2>6 DEF Decides
  <2>8. y # d[l]
    BY <1>4, <2>4, <2>7
  <2>9. y \in d[m] + 1 .. d[l] - 1
    BY <1>6, <2>3, <2>5, <2>8
  <2>10. Skips(E, c, l, y)
    BY <1>4, <1>5, <2>4, <2>9 DEF Skips
  <2> QED
    BY <2>7, <2>10
<1> QED
  BY <1>7, <1>8

\* So an opening event has one match at most.
LEMMA OneMatch ==
  ASSUME runtime \in Runtimes, NEW E \in Seq(Event), NEW c, NEW d,
         Path(E, c, Positives), Path(E, d, Positives), c[1] = d[1]
  PROVE  Captured(E, c, Positives) = Captured(E, d, Positives)
<1>1. Positives \in Nat /\ Positives <= Positives
  BY PositivesNat
<1>2. \A k \in 1 .. Positives : c[k] = d[k]
  <2> DEFINE n == Positives
  <2>1. Path(E, c, n) /\ Path(E, d, n) /\ n <= n
    BY <1>1
  <2> HIDE DEF n
  <2>2. \A k \in 1 .. n : c[k] = d[k]
    BY <2>1, PathsAgree
  <2> QED
    BY <2>2 DEF n
<1> QED
  BY <1>1, <1>2, SameCaptured

\* The matches of the stream are those of its full paths.
LEMMA MatchesAreFull ==
  ASSUME runtime \in Runtimes, NEW E
  PROVE  \A x : x \in MatchesOf(E) <=> \E c : Full(E, c) /\ x = Captured(E, c, Positives)
<1>1. \A c : Full(E, c) <=> /\ c \in [1 .. Positives -> DOMAIN E]
                            /\ Holds(pattern[1].pred, E[c[1]], <<>>)
                            /\ \A k \in 2 .. Positives : IsNextCapture(E, c, k)
                            /\ \A k \in Positives + 1 .. Len(pattern) : IsAbsent(E, c, k)
  <2>1. Positives \in 1 .. Positives
    BY PositivesNat
  <2> QED
    BY <2>1, Zenon DEF Full, Path
<1> QED
  BY <1>1, Zenon DEF MatchesOf
-----------------------------------------------------------------------------
(* One event more. *)

LEMMA AppendedEvent ==
  ASSUME NEW E \in Seq(Event), NEW e \in Event
  PROVE  LET F == Append(E, e)
         IN  /\ F \in Seq(Event) /\ Len(E) \in Nat /\ Len(F) = Len(E) + 1
             /\ DOMAIN E = 1 .. Len(E) /\ DOMAIN F = 1 .. Len(E) + 1
             /\ \A x \in 1 .. Len(E) : F[x] = E[x] /\ x \in 1 .. Len(E) + 1
             /\ F[Len(E) + 1] = e
             /\ \A x \in 1 .. Len(E) + 1 : x \in 1 .. Len(E) \/ x = Len(E) + 1
<1>1. /\ Append(E, e) \in Seq(Event) /\ Len(E) \in Nat /\ Len(Append(E, e)) = Len(E) + 1
      /\ DOMAIN E = 1 .. Len(E) /\ DOMAIN Append(E, e) = 1 .. Len(E) + 1
      /\ \A i \in 1 .. Len(E) : Append(E, e)[i] = E[i] /\ i # Len(E) + 1
      /\ Append(E, e)[Len(E) + 1] = e
      /\ \A i \in DOMAIN Append(E, e) : i \in 1 .. Len(E) \/ i = Len(E) + 1
  BY AppendItems
<1>2. \A x \in 1 .. Len(E) : x \in 1 .. Len(E) + 1
  BY <1>1
<1> QED
  BY <1>1, <1>2

LEMMA CapturedMore ==
  ASSUME NEW E \in Seq(Event), NEW e \in Event, NEW c, NEW k \in Nat,
         \A j \in 1 .. k : c[j] \in 1 .. Len(E)
  PROVE  Captured(Append(E, e), c, k) = Captured(E, c, k)
<1> DEFINE F == Append(E, e)
<1>1. \A j \in 1 .. k : F[c[j]] = E[c[j]]
  BY AppendedEvent
<1> HIDE DEF F
<1>2. Captured(F, c, k) = Captured(E, c, k)
  BY <1>1, SameCaptured
<1> QED
  BY <1>2 DEF F

\* The deadline of a wait does not depend on what follows,
LEMMA InTimeMore ==
  ASSUME NEW E \in Seq(Event), NEW e \in Event, NEW step, NEW a \in 1 .. Len(E),
         NEW x \in Int, x <= Len(E)
  PROVE  InTime(Append(E, e), step, a, x) <=> InTime(E, step, a, x)
<1>1. \A y \in a + 1 .. x : y \in 1 .. Len(E)
  BY AppendedEvent
<1>2. \A y \in a + 1 .. x : Append(E, e)[y] = E[y]
  BY <1>1, AppendedEvent
<1>3. Append(E, e)[a] = E[a]
  BY AppendedEvent
<1> QED
  BY <1>2, <1>3 DEF InTime

\* and the new event is the first to miss it, if it does.
LEMMA InTimeNext ==
  ASSUME NEW E \in Seq(Event), NEW e \in Event, NEW step, NEW a \in 1 .. Len(E),
         InTime(E, step, a, Len(E))
  PROVE  InTime(Append(E, e), step, a, Len(E) + 1)
           <=> step.within = None \/ e.ts <= SatAdd(E[a].ts, step.within)
<1> DEFINE F == Append(E, e)
           n == Len(E)
<1>1. n \in Nat /\ a \in 1 .. n /\ F[n + 1] = e /\ \A y \in 1 .. n : F[y] = E[y]
  BY AppendedEvent
<1> HIDE DEF F, n
<1>2. n + 1 \in a + 1 .. n + 1
  BY <1>1
<1>3. \A y \in a + 1 .. n + 1 : (y \in a + 1 .. n /\ y \in 1 .. n) \/ y = n + 1
  BY <1>1
<1>4. step.within = None \/ \A y \in a + 1 .. n : E[y].ts <= SatAdd(E[a].ts, step.within)
  BY DEF InTime, n
<1>5. InTime(F, step, a, n + 1) <=> step.within = None \/ e.ts <= SatAdd(E[a].ts, step.within)
  <2>1. F[a] = E[a]
    BY <1>1
  <2>2. ASSUME InTime(F, step, a, n + 1) PROVE step.within = None \/ e.ts <= SatAdd(E[a].ts, step.within)
    BY <1>1, <1>2, <2>1, <2>2 DEF InTime
  <2>3. ASSUME step.within = None \/ e.ts <= SatAdd(E[a].ts, step.within) PROVE InTime(F, step, a, n + 1)
    <3>1. CASE step.within = None
      BY <3>1 DEF InTime
    <3>2. CASE step.within # None
      <4>1. \A y \in a + 1 .. n + 1 : F[y].ts <= SatAdd(E[a].ts, step.within)
        BY <1>1, <1>3, <1>4, <2>3, <3>2
      <4> QED
        BY <2>1, <4>1 DEF InTime
    <3> QED
      BY <3>1, <3>2
  <2> QED
    BY <2>2, <2>3
<1> QED
  BY <1>5 DEF F, n

\* Paths stay paths.
LEMMA NextCaptureMore ==
  ASSUME NEW E \in Seq(Event), NEW e \in Event, NEW c, NEW k \in Nat, 2 <= k,
         \A j \in 1 .. k : c[j] \in 1 .. Len(E), IsNextCapture(E, c, k)
  PROVE  IsNextCapture(Append(E, e), c, k)
<1> DEFINE F == Append(E, e)
<1>1. k - 1 \in Nat /\ k \in 1 .. k /\ k - 1 \in 1 .. k /\ \A j \in 1 .. k - 1 : j \in 1 .. k
  OBVIOUS
<1>2. c[k] \in 1 .. Len(E) /\ c[k - 1] \in 1 .. Len(E) /\ Len(E) \in Nat
  BY <1>1
<1>3. Captured(F, c, k - 1) = Captured(E, c, k - 1)
  BY <1>1, CapturedMore
<1>4. InTime(F, pattern[k], c[k - 1], c[k]) <=> InTime(E, pattern[k], c[k - 1], c[k])
  BY <1>2, InTimeMore
<1>5. \A x \in 1 .. Len(E) : F[x] = E[x]
  BY AppendedEvent
<1>6. \A x \in c[k - 1] + 1 .. c[k] - 1 : x \in 1 .. Len(E)
  BY <1>2
<1> HIDE DEF F
<1>7. IsNextCapture(F, c, k)
  BY <1>2, <1>3, <1>4, <1>5, <1>6 DEF IsNextCapture
<1> QED
  BY <1>7 DEF F

LEMMA PathMore ==
  ASSUME runtime \in Runtimes, NEW E \in Seq(Event), NEW e \in Event, NEW c, NEW m, Path(E, c, m)
  PROVE  Path(Append(E, e), c, m)
<1>1. /\ m \in Nat /\ 1 <= m /\ m \in 1 .. Positives
      /\ \A k \in 1 .. m : c[k] \in 1 .. Len(E)
  BY PathFields DEF Path
<1> DEFINE F == Append(E, e)
<1>2. DOMAIN E \subseteq DOMAIN F /\ \A x \in 1 .. Len(E) : F[x] = E[x]
  BY AppendedEvent
<1>3. \A k \in 2 .. m : IsNextCapture(F, c, k)
  <2> SUFFICES ASSUME NEW k \in 2 .. m PROVE IsNextCapture(F, c, k)
    OBVIOUS
  <2>1. k \in Nat /\ 2 <= k /\ \A j \in 1 .. k : j \in 1 .. m
    BY <1>1
  <2>2. IsNextCapture(E, c, k)
    BY DEF Path
  <2> QED
    BY <1>1, <2>1, <2>2, NextCaptureMore
<1>4. c \in [1 .. m -> DOMAIN F]
  BY <1>2 DEF Path
<1>5. F[c[1]] = E[c[1]]
  BY <1>1, <1>2
<1> HIDE DEF F
<1>6. Path(F, c, m)
  BY <1>1, <1>3, <1>4, <1>5 DEF Path
<1> QED
  BY <1>6 DEF F

LEMMA SkipsMore ==
  ASSUME runtime \in Runtimes, NEW E \in Seq(Event), NEW e \in Event, NEW c, NEW m, Path(E, c, m),
         NEW x \in 1 .. Len(E)
  PROVE  Skips(Append(E, e), c, m + 1, x) <=> Skips(E, c, m + 1, x)
<1>1. m \in Nat /\ (m + 1) - 1 = m /\ \A k \in 1 .. m : c[k] \in 1 .. Len(E)
  BY PathFields
<1>2. Captured(Append(E, e), c, m) = Captured(E, c, m)
  BY <1>1, CapturedMore
<1>3. Append(E, e)[x] = E[x]
  BY AppendedEvent
<1> QED
  BY <1>1, <1>2, <1>3 DEF Skips

\* What has failed stays so,
LEMMA DecidesMore ==
  ASSUME runtime \in Runtimes, NEW E \in Seq(Event), NEW e \in Event, NEW c, NEW m, Path(E, c, m),
         NEW y \in c[m] + 1 .. Len(E), Decides(E, c, m, y)
  PROVE  Decides(Append(E, e), c, m, y)
<1> DEFINE F == Append(E, e)
           step == pattern[m + 1]
<1>1. m \in Nat /\ m \in 1 .. m /\ \A k \in 1 .. m : c[k] \in 1 .. Len(E)
  BY PathFields
<1>2. Captured(F, c, m) = Captured(E, c, m)
  BY <1>1, CapturedMore
<1>3. c[m] \in 1 .. Len(E) /\ y \in 1 .. Len(E) /\ y \in Int /\ y <= Len(E)
      /\ \A x \in c[m] + 1 .. y - 1 : x \in 1 .. Len(E)
  <2>1. c[m] \in 1 .. Len(E) /\ Len(E) \in Nat
    BY <1>1
  <2> QED
    BY <2>1
<1>4. \A x \in 1 .. Len(E) : F[x] = E[x]
  BY AppendedEvent
<1>5. InTime(F, step, c[m], y) <=> InTime(E, step, c[m], y)
  BY <1>3, InTimeMore
<1>6. Skips(F, c, m + 1, y) <=> Skips(E, c, m + 1, y)
  BY <1>3, SkipsMore
<1> HIDE DEF F
<1>7. Decides(F, c, m, y)
  BY <1>2, <1>3, <1>4, <1>5, <1>6 DEF Decides
<1> QED
  BY <1>7 DEF F

LEMMA FailsMore ==
  ASSUME runtime \in Runtimes, NEW E \in Seq(Event), NEW e \in Event, NEW c, NEW m, Fails(E, c, m)
  PROVE  Fails(Append(E, e), c, m)
<1>1. Path(E, c, m) /\ m < Len(pattern)
  BY DEF Fails
<1>2. PICK y \in c[m] + 1 .. Len(E) : Decides(E, c, m, y)
  BY DEF Fails
<1>3. Path(Append(E, e), c, m) /\ Decides(Append(E, e), c, m, y)
  BY <1>1, <1>2, PathMore, DecidesMore
<1>4. m \in 1 .. m /\ \A k \in 1 .. m : c[k] \in 1 .. Len(E)
  BY <1>1, PathFields
<1>5. y \in c[m] + 1 .. Len(Append(E, e))
  <2>1. Len(E) \in Nat /\ Len(Append(E, e)) = Len(E) + 1 /\ c[m] \in 1 .. Len(E)
    BY <1>4, AppendedEvent
  <2> QED
    BY <2>1
<1> QED
  BY <1>1, <1>3, <1>5 DEF Fails

\* and what is complete.
LEMMA EndsMore ==
  ASSUME runtime \in Runtimes, NEW E \in Seq(Event), NEW e \in Event, NEW c, Ends(E, c)
  PROVE  /\ Ends(Append(E, e), c)
         /\ Captured(Append(E, e), c, Positives) = Captured(E, c, Positives)
<1> DEFINE F == Append(E, e)
           n == Len(E)
           q == Positives
           N == Len(pattern)
<1>1. Path(E, c, q) /\ Path(F, c, q)
  BY PathMore DEF Ends
<1>2. /\ q \in Nat /\ q \in 1 .. q /\ \A k \in 1 .. q : c[k] \in 1 .. n
      /\ n \in Nat /\ Len(F) = n + 1 /\ \A x \in 1 .. n : F[x] = E[x]
  <2>1. q \in Nat /\ q \in 1 .. q
    BY PositivesNat
  <2> HIDE DEF q
  <2> QED
    BY <1>1, <2>1, PathFields, AppendedEvent
<1>3. Captured(F, c, q) = Captured(E, c, q)
  BY <1>2, CapturedMore
<1>4. ASSUME q < N
      PROVE  IsAbsent(F, c, N) /\ ~InTime(F, pattern[N], c[q], Len(F))
  <2>1. N - 1 = q
    <3>1. N = q + 1 /\ q \in Nat
      BY <1>4, PositivesType
    <3> HIDE DEF N, q
    <3> QED
      BY <3>1
  <2>2. IsAbsent(E, c, N) /\ ~InTime(E, pattern[N], c[q], n)
    BY <1>4 DEF Ends
  <2>3. c[q] \in 1 .. n /\ c[q] \in Int
    BY <1>2
  <2>4. \A x \in Int : x <= n => (InTime(F, pattern[N], c[q], x) <=> InTime(E, pattern[N], c[q], x))
    BY <2>3, InTimeMore
  <2>5. ~InTime(F, pattern[N], c[q], n)
    BY <1>2, <2>2, <2>4
  <2>6. ~InTime(F, pattern[N], c[q], n + 1)
    <3>1. n \in Int /\ n + 1 \in Int /\ n <= n + 1
      BY <1>2
    <3> HIDE DEF F, N, q, n
    <3> QED
      BY <2>3, <2>5, <3>1, InTimeBefore
  <2> HIDE DEF F, n
  <2>7. IsAbsent(F, c, N)
    <3> SUFFICES ASSUME NEW x \in c[q] + 1 .. Len(F), Holds(pattern[N].pred, F[x], Captured(F, c, q))
                 PROVE  ~InTime(F, pattern[N], c[q], x)
      BY <2>1 DEF IsAbsent
    <3>1. CASE x = n + 1
      BY <2>6, <3>1
    <3>2. CASE x # n + 1
      <4>1. x \in c[q] + 1 .. n /\ x \in 1 .. n /\ x \in Int /\ x <= n
        BY <1>2, <2>3, <3>2
      <4>2. F[x] = E[x]
        BY <1>2, <4>1
      <4>3. Holds(pattern[N].pred, E[x], Captured(E, c, q))
        BY <1>3, <4>2
      <4>4. ~InTime(E, pattern[N], c[q], x)
        BY <2>1, <2>2, <4>1, <4>3 DEF IsAbsent, n
      <4> QED
        BY <2>4, <4>1, <4>4
    <3> QED
      BY <3>1, <3>2
  <2> QED
    BY <1>2, <2>6, <2>7
<1> HIDE DEF F, n
<1>5. Ends(F, c)
  BY <1>1, <1>4 DEF Ends
<1> QED
  BY <1>3, <1>5 DEF F
-----------------------------------------------------------------------------
(* What an event makes of a partial. *)

\* A partial that stands for the path c, of m positions.
LEMMA TrackedFields ==
  ASSUME runtime \in Runtimes, NEW E \in Seq(Event), NEW pm, NEW c, Tracks(E, pm, c),
         NEW m, m = pm.next - 1
  PROVE  /\ m \in Nat /\ 1 <= m /\ m <= Positives /\ m < Len(pattern) /\ pm.next = m + 1
         /\ Path(E, c, m) /\ m \in 1 .. m /\ \A k \in 1 .. m : c[k] \in 1 .. Len(E) /\ E[c[k]] \in Event
         /\ Awaited(pm) = pattern[m + 1] /\ m + 1 \in 1 .. Len(pattern)
         /\ pm.captures = Captured(E, c, m)
         /\ pm.deadline = NextDeadlineFor(m + 1, E[c[m]].ts)
         /\ InTime(E, pattern[m + 1], c[m], Len(E))
         /\ \A x \in c[m] + 1 .. Len(E) : Skips(E, c, m + 1, x)
<1>1. pm.next \in Nat /\ Awaits(E, c, m)
  BY DEF Tracks
<1>2. /\ Path(E, c, m) /\ m < Len(pattern) /\ InTime(E, pattern[m + 1], c[m], Len(E))
      /\ \A x \in c[m] + 1 .. Len(E) : Skips(E, c, m + 1, x)
  BY <1>1 DEF Awaits
<1>3. /\ m \in Nat /\ 1 <= m /\ m <= Positives
      /\ \A k \in 1 .. m : c[k] \in 1 .. Len(E) /\ E[c[k]] \in Event
  BY <1>2, PathFields
<1>4. pm.next = m + 1 /\ m \in 1 .. m
  BY <1>1, <1>3
<1>5. m + 1 \in 1 .. Len(pattern)
  BY <1>2, <1>3, StepAfter
<1>6. pm.captures = Captured(E, c, m) /\ pm.deadline = NextDeadlineFor(m + 1, E[c[m]].ts)
  BY <1>4 DEF Tracks
<1> QED
  BY <1>2, <1>3, <1>4, <1>5, <1>6 DEF Awaited

\* It expires with the first event that misses the deadline.
LEMMA ExpiresInTime ==
  ASSUME runtime \in Runtimes, NEW E \in Seq(Event), NEW e \in Event, NEW pm, NEW c,
         Tracks(E, pm, c), NEW m, m = pm.next - 1
  PROVE  Expired(pm, e.ts) <=> ~InTime(Append(E, e), pattern[m + 1], c[m], Len(E) + 1)
<1> DEFINE step == pattern[m + 1]
           a == E[c[m]].ts
<1>1. /\ c[m] \in 1 .. Len(E) /\ E[c[m]] \in Event /\ m + 1 \in 1 .. Len(pattern)
      /\ InTime(E, step, c[m], Len(E)) /\ pm.deadline = NextDeadlineFor(m + 1, a)
      /\ m \in Nat /\ m < Len(pattern)
  BY TrackedFields
<1>2. InTime(Append(E, e), step, c[m], Len(E) + 1) <=> step.within = None \/ e.ts <= SatAdd(a, step.within)
  BY <1>1, InTimeNext
<1>3. step.within \in Time \cup {None} /\ a \in Time /\ e.ts \in Time
  <2>1. a \in Timestamps /\ e.ts \in Timestamps
    BY <1>1 DEF Event
  <2> QED
    BY <1>1, <2>1, PositivesType, TimesAreInts
<1>4. Len(pattern) \in Nat
  BY PositivesNat
<1>5. pm.deadline = IF step.within = None THEN None ELSE SatAdd(a, step.within)
  BY <1>1, <1>4 DEF NextDeadlineFor
<1> HIDE DEF step, a
<1>6. CASE step.within = None
  BY <1>2, <1>5, <1>6 DEF Expired, step
<1>7. CASE step.within # None
  <2>1. SatAdd(a, step.within) \in Time
    BY <1>3, <1>7, SatAddType
  <2>2. SatAdd(a, step.within) \in Int /\ SatAdd(a, step.within) # None /\ e.ts \in Int
    BY <1>3, <2>1, TimesAreInts
  <2>3. Expired(pm, e.ts) <=> ~(e.ts <= SatAdd(a, step.within))
    BY <1>5, <1>7, <2>2 DEF Expired
  <2> QED
    BY <1>2, <1>7, <2>3 DEF step
<1> QED
  BY <1>6, <1>7

\* What the new event means for the step it waits for.
LEMMA SkipsNew ==
  ASSUME runtime \in Runtimes, NEW E \in Seq(Event), NEW e \in Event, NEW pm, NEW c,
         Tracks(E, pm, c), NEW m, m = pm.next - 1
  PROVE  /\ Captured(Append(E, e), c, m) = pm.captures
         /\ Append(E, e)[Len(E) + 1] = e
         /\ Satisfies(pm, e) <=> Holds(pattern[m + 1].pred, e, pm.captures)
         /\ Forbids(pm, e) <=> /\ pattern[m + 1].forbidden # None
                               /\ Holds(pattern[m + 1].forbidden, e, pm.captures)
         /\ Skips(Append(E, e), c, m + 1, Len(E) + 1)
              <=> ~Satisfies(pm, e) /\ (~pattern[m + 1].negative => ~pattern[m + 1].next /\ ~Forbids(pm, e))
         /\ \A x \in c[m] + 1 .. Len(E) : Skips(Append(E, e), c, m + 1, x)
<1> DEFINE F == Append(E, e)
           n == Len(E)
<1>1. /\ m \in Nat /\ Awaited(pm) = pattern[m + 1] /\ Path(E, c, m) /\ c[m] \in 1 .. n
      /\ \A k \in 1 .. m : c[k] \in 1 .. n
      /\ pm.captures = Captured(E, c, m) /\ \A x \in c[m] + 1 .. n : Skips(E, c, m + 1, x)
  BY TrackedFields
<1>2. Captured(F, c, m) = pm.captures /\ F[n + 1] = e /\ (m + 1) - 1 = m
  BY <1>1, CapturedMore, AppendedEvent
<1>3. /\ Satisfies(pm, e) <=> Holds(pattern[m + 1].pred, e, pm.captures)
      /\ Forbids(pm, e) <=> /\ pattern[m + 1].forbidden # None
                            /\ Holds(pattern[m + 1].forbidden, e, pm.captures)
  BY <1>1 DEF Satisfies, Forbids
<1>4. \A x \in c[m] + 1 .. n : x \in 1 .. n
  BY <1>1, AppendedEvent
<1>5. \A x \in c[m] + 1 .. n : Skips(F, c, m + 1, x)
  BY <1>1, <1>4, SkipsMore
<1> HIDE DEF F, n
<1>6. Skips(F, c, m + 1, n + 1)
        <=> ~Satisfies(pm, e) /\ (~pattern[m + 1].negative => ~pattern[m + 1].next /\ ~Forbids(pm, e))
  BY <1>2, <1>3 DEF Skips
<1> QED
  BY <1>2, <1>3, <1>5, <1>6 DEF F, n

\* A deadline that passes completes an absence and ends any other wait.
LEMMA Expiring ==
  ASSUME runtime \in Runtimes, NEW E \in Seq(Event), NEW e \in Event, NEW pm, NEW c,
         Tracks(E, pm, c), Expired(pm, e.ts)
  PROVE  /\ Awaited(pm).negative =>
              Ends(Append(E, e), c) /\ pm.captures = Captured(Append(E, e), c, Positives)
         /\ ~Awaited(pm).negative => \E m : Fails(Append(E, e), c, m)
<1> DEFINE F == Append(E, e)
           n == Len(E)
<1>1. PICK m : m = pm.next - 1
  OBVIOUS
<1>2. /\ m \in Nat /\ 1 <= m /\ m <= Positives /\ m < Len(pattern) /\ Path(E, c, m)
      /\ Awaited(pm) = pattern[m + 1] /\ c[m] \in 1 .. n
  BY <1>1, TrackedFields
<1>3. ~InTime(F, pattern[m + 1], c[m], n + 1)
  BY <1>1, ExpiresInTime
<1>4. /\ Captured(F, c, m) = pm.captures
      /\ \A x \in c[m] + 1 .. n : Skips(F, c, m + 1, x)
  BY <1>1, SkipsNew
<1>5. Path(F, c, m) /\ n \in Nat /\ Len(F) = n + 1 /\ (m + 1) - 1 = m
  BY <1>2, PathMore, AppendedEvent
<1> HIDE DEF F, n
<1>6. \A x \in c[m] + 1 .. n + 1 : x \in c[m] + 1 .. n \/ x = n + 1
  BY <1>2, <1>5
<1>7. ASSUME pattern[m + 1].negative
      PROVE  Ends(F, c) /\ pm.captures = Captured(F, c, Positives)
  <2>1. m = Positives /\ m + 1 = Len(pattern)
    BY <1>2, <1>7, StepAfter
  <2>2. IsAbsent(F, c, m + 1)
    BY <1>3, <1>4, <1>5, <1>6 DEF IsAbsent, Skips
  <2> QED
    BY <1>3, <1>4, <1>5, <2>1, <2>2 DEF Ends
<1>8. ASSUME ~pattern[m + 1].negative PROVE Fails(F, c, m)
  <2>1. (n + 1) - 1 = n /\ n + 1 \in c[m] + 1 .. Len(F)
    BY <1>2, <1>5
  <2>2. Decides(F, c, m, n + 1)
    BY <1>3, <1>4, <1>5, <1>8, <2>1 DEF Decides, Skips
  <2> QED
    BY <1>2, <1>5, <2>1, <2>2 DEF Fails
<1> QED
  BY <1>2, <1>7, <1>8 DEF F
\* Without repetitions an event is offered to the awaited step, once.
LEMMA OffersOnce ==
  ASSUME runtime \in Runtimes, SingleSteps, NEW pm \in InFlight, NEW e \in Event
  PROVE  LET onward == AdvanceStep([pm EXCEPT !.captures = Append(@, e), !.count = @ + 1], e.ts)
         IN  /\ Awaited(pm).negative /\ Satisfies(pm, e) => AdvanceOne(pm, e) = Disposed("Remove", pm)
             /\ ~Awaited(pm).negative /\ Satisfies(pm, e) => AdvanceOne(pm, e) = KeepOrComplete(onward)
             /\ ~Satisfies(pm, e) /\ ~Awaited(pm).negative /\ (Forbids(pm, e) \/ Awaited(pm).next)
                  => AdvanceOne(pm, e) = Disposed("Remove", pm)
             /\ ~Satisfies(pm, e) /\ (Awaited(pm).negative \/ (~Forbids(pm, e) /\ ~Awaited(pm).next))
                  => AdvanceOne(pm, e) = Disposed("Keep", pm)
<1>1. pm \in Partial /\ pm.next \in 2 .. Len(pattern) /\ pm.count < Awaited(pm).max /\ pm.count \in Nat
  BY PartialFields DEF InFlight, Waits
<1>2. pm.next \in 1 .. Len(pattern) /\ DOMAIN pattern = 1 .. Len(pattern)
  BY <1>1, PatternType
<1>3. Awaited(pm).max = 1 /\ Awaited(pm).min \in Nat /\ 1 <= Awaited(pm).min
  <2>1. IsStep(pattern[pm.next])
    BY <1>2, PatternType
  <2> QED
    BY <1>2, <2>1 DEF SingleSteps, Awaited, IsStep
<1>4. pm.count = 0
  BY <1>1, <1>3
<1>5. AdvanceOne(pm, e) = Offer(pm, e)
  BY <1>3, <1>4 DEF AdvanceOne, EndsRepetition
<1> DEFINE captured == [pm EXCEPT !.captures = Append(@, e), !.count = @ + 1]
<1>6. captured.count = 1
  BY <1>1, <1>4 DEF Partial
<1>7. captured.count >= Awaited(pm).max
  BY <1>3, <1>6
<1> HIDE DEF captured
<1>8. Offer(pm, e) =
        CASE Awaited(pm).negative -> Disposed(IF Satisfies(pm, e) THEN "Remove" ELSE "Keep", pm)
          [] ~Awaited(pm).negative /\ Satisfies(pm, e) ->
               IF captured.count >= Awaited(pm).max THEN KeepOrComplete(AdvanceStep(captured, e.ts))
               ELSE Disposed("Keep", captured)
          [] OTHER -> Disposed(IF Forbids(pm, e) \/ Awaited(pm).next THEN "Remove" ELSE "Keep", pm)
  BY DEF Offer, captured
<1>9. /\ Awaited(pm).negative /\ Satisfies(pm, e) => Offer(pm, e) = Disposed("Remove", pm)
      /\ ~Awaited(pm).negative /\ Satisfies(pm, e) => Offer(pm, e) = KeepOrComplete(AdvanceStep(captured, e.ts))
      /\ ~Satisfies(pm, e) /\ ~Awaited(pm).negative /\ (Forbids(pm, e) \/ Awaited(pm).next)
           => Offer(pm, e) = Disposed("Remove", pm)
      /\ ~Satisfies(pm, e) /\ (Awaited(pm).negative \/ (~Forbids(pm, e) /\ ~Awaited(pm).next))
           => Offer(pm, e) = Disposed("Keep", pm)
  BY <1>7, <1>8, Zenon
<1> QED
  BY <1>5, <1>9 DEF captured

\* An event that decides nothing leaves the partial where it is,
LEMMA Staying ==
  ASSUME runtime \in Runtimes, NEW E \in Seq(Event), NEW e \in Event, NEW pm, NEW c,
         Tracks(E, pm, c), ~Expired(pm, e.ts), ~Satisfies(pm, e),
         ~Awaited(pm).negative => ~Awaited(pm).next /\ ~Forbids(pm, e)
  PROVE  Tracks(Append(E, e), pm, c)
<1> DEFINE F == Append(E, e)
           n == Len(E)
<1>1. PICK m : m = pm.next - 1
  OBVIOUS
<1>2. /\ m \in Nat /\ 1 <= m /\ m < Len(pattern) /\ Path(E, c, m) /\ pm.next = m + 1
      /\ Awaited(pm) = pattern[m + 1] /\ c[m] \in 1 .. n
      /\ pm.deadline = NextDeadlineFor(m + 1, E[c[m]].ts)
  BY <1>1, TrackedFields
<1>3. InTime(F, pattern[m + 1], c[m], n + 1)
  BY <1>1, ExpiresInTime
<1>4. /\ Captured(F, c, m) = pm.captures
      /\ Skips(F, c, m + 1, n + 1)
           <=> ~Satisfies(pm, e) /\ (~pattern[m + 1].negative => ~pattern[m + 1].next /\ ~Forbids(pm, e))
      /\ \A x \in c[m] + 1 .. n : Skips(F, c, m + 1, x)
  BY <1>1, SkipsNew
<1>5. Path(F, c, m) /\ n \in Nat /\ Len(F) = n + 1 /\ F[c[m]] = E[c[m]]
  BY <1>2, PathMore, AppendedEvent
<1> HIDE DEF F, n
<1>6. \A x \in c[m] + 1 .. n + 1 : x \in c[m] + 1 .. n \/ x = n + 1
  BY <1>2, <1>5
<1>7. Awaits(F, c, m)
  BY <1>2, <1>3, <1>4, <1>5, <1>6 DEF Awaits
<1> QED
  BY <1>1, <1>2, <1>4, <1>5, <1>7 DEF Tracks, F

\* one that the step forbids ends it,
LEMMA Removing ==
  ASSUME runtime \in Runtimes, NEW E \in Seq(Event), NEW e \in Event, NEW pm, NEW c,
         Tracks(E, pm, c), ~Expired(pm, e.ts),
         IF Awaited(pm).negative THEN Satisfies(pm, e)
         ELSE ~Satisfies(pm, e) /\ (Forbids(pm, e) \/ Awaited(pm).next)
  PROVE  \E m : Fails(Append(E, e), c, m)
<1> DEFINE F == Append(E, e)
           n == Len(E)
<1>1. PICK m : m = pm.next - 1
  OBVIOUS
<1>2. /\ m \in Nat /\ 1 <= m /\ m < Len(pattern) /\ Path(E, c, m)
      /\ Awaited(pm) = pattern[m + 1] /\ c[m] \in 1 .. n
  BY <1>1, TrackedFields
<1>3. InTime(F, pattern[m + 1], c[m], n + 1)
  BY <1>1, ExpiresInTime
<1>4. /\ Captured(F, c, m) = pm.captures /\ F[n + 1] = e
      /\ Satisfies(pm, e) <=> Holds(pattern[m + 1].pred, e, pm.captures)
      /\ Skips(F, c, m + 1, n + 1)
           <=> ~Satisfies(pm, e) /\ (~pattern[m + 1].negative => ~pattern[m + 1].next /\ ~Forbids(pm, e))
      /\ \A x \in c[m] + 1 .. n : Skips(F, c, m + 1, x)
  BY <1>1, SkipsNew
<1>5. Path(F, c, m) /\ n \in Nat /\ Len(F) = n + 1 /\ (m + 1) - 1 = m
  BY <1>2, PathMore, AppendedEvent
<1> HIDE DEF F, n
<1>6. (n + 1) - 1 = n /\ n + 1 \in c[m] + 1 .. Len(F)
  BY <1>2, <1>5
<1>7. \A x \in c[m] + 1 .. n : ~Holds(pattern[m + 1].pred, F[x], Captured(F, c, m))
  BY <1>4, <1>5 DEF Skips
<1>8. Decides(F, c, m, n + 1)
  <2>1. CASE pattern[m + 1].negative
    BY <1>2, <1>3, <1>4, <1>6, <1>7, <2>1 DEF Decides
  <2>2. CASE ~pattern[m + 1].negative
    BY <1>2, <1>4, <1>6, <1>7, <2>2 DEF Decides
  <2> QED
    BY <2>1, <2>2
<1>9. Fails(F, c, m)
  BY <1>2, <1>5, <1>6, <1>8 DEF Fails
<1> QED
  BY <1>9 DEF F

\* and one that the step captures leads to the next or completes the match.
LEMMA Capturing ==
  ASSUME runtime \in Runtimes, NEW E \in Seq(Event), NEW e \in Event, NEW pm, NEW c,
         Tracks(E, pm, c), ~Expired(pm, e.ts), Satisfies(pm, e), ~Awaited(pm).negative
  PROVE  \E d :
           /\ Path(Append(E, e), d, pm.next) /\ d[1] = c[1] /\ d[pm.next] = Len(E) + 1
           /\ Captured(Append(E, e), d, pm.next) = Append(pm.captures, e)
<1> DEFINE F == Append(E, e)
           n == Len(E)
<1>1. PICK m : m = pm.next - 1
  OBVIOUS
<1>2. /\ m \in Nat /\ 1 <= m /\ m <= Positives /\ m < Len(pattern) /\ Path(E, c, m) /\ pm.next = m + 1
      /\ Awaited(pm) = pattern[m + 1] /\ \A k \in 1 .. m : c[k] \in 1 .. n
      /\ m \in 1 .. m /\ pm.captures = Captured(E, c, m)
  BY <1>1, TrackedFields
<1>3. InTime(F, pattern[m + 1], c[m], n + 1)
  BY <1>1, ExpiresInTime
<1>4. /\ Captured(F, c, m) = pm.captures /\ F[n + 1] = e
      /\ Holds(pattern[m + 1].pred, e, pm.captures)
      /\ \A x \in c[m] + 1 .. n : Skips(F, c, m + 1, x)
  BY <1>1, SkipsNew
<1>5. /\ Path(F, c, m) /\ n \in Nat /\ Len(F) = n + 1 /\ DOMAIN F = 1 .. n + 1 /\ F \in Seq(Event)
      /\ \A x \in 1 .. n : F[x] = E[x]
  BY <1>2, PathMore, AppendedEvent
<1>6. m + 1 \in 1 .. Positives
  <2>1. m + 1 \in 2 .. Positives
    BY <1>2, StepAfter
  <2>2. Positives \in Nat
    BY PositivesNat
  <2> QED
    BY <2>1, <2>2
<1> HIDE DEF F, n
<1> DEFINE l == m + 1
           d == [k \in 1 .. l |-> IF k = l THEN n + 1 ELSE c[k]]
<1>7. l \in Nat /\ l \in 1 .. l /\ l - 1 = m /\ m # l /\ m \in 1 .. l /\ 1 \in 1 .. m
      /\ (\A k \in 1 .. m : k \in 1 .. l /\ k # l) /\ (\A k \in 1 .. l : k \in 1 .. m \/ k = l)
      /\ (\A k \in 2 .. l : k \in 2 .. m \/ k = l)
  BY <1>2
<1>8. d[l] = n + 1 /\ \A k \in 1 .. m : d[k] = c[k]
  BY <1>7
<1>9. d \in [1 .. l -> DOMAIN F]
  <2>1. \A k \in 1 .. l : (IF k = l THEN n + 1 ELSE c[k]) \in DOMAIN F
    BY <1>2, <1>5, <1>7
  <2> QED
    BY <2>1
<1> HIDE DEF d, l
<1>10. \A k \in 0 .. m : Captured(F, d, k) = Captured(F, c, k)
  <2> SUFFICES ASSUME NEW k \in 0 .. m PROVE Captured(F, d, k) = Captured(F, c, k)
    OBVIOUS
  <2>1. k \in Nat /\ \A j \in 1 .. k : j \in 1 .. m
    BY <1>2
  <2>2. \A j \in 1 .. k : F[d[j]] = F[c[j]]
    BY <1>8, <2>1
  <2> QED
    BY <2>1, <2>2, SameCaptured
<1>11. ASSUME NEW k \in 2 .. m PROVE IsNextCapture(F, d, k)
  <2>1. IsNextCapture(F, c, k)
    BY <1>5 DEF Path
  <2>2. k \in 1 .. m /\ k - 1 \in 1 .. m /\ k - 1 \in 0 .. m
    BY <1>2
  <2>3. d[k] = c[k] /\ d[k - 1] = c[k - 1] /\ Captured(F, d, k - 1) = Captured(F, c, k - 1)
    BY <1>8, <1>10, <2>2
  <2> QED
    BY <2>1, <2>3 DEF IsNextCapture
<1>12. IsNextCapture(F, d, l)
  <2>1. d[l - 1] = c[m] /\ Captured(F, d, l - 1) = pm.captures /\ d[l] = n + 1 /\ c[m] \in 1 .. n
    <3>1. m \in 0 .. m
      BY <1>2
    <3> QED
      BY <1>2, <1>4, <1>7, <1>8, <1>10, <3>1
  <2>2. c[m] < n + 1 /\ (n + 1) - 1 = n
    BY <1>5, <2>1
  <2>3. ~pattern[l].negative
    BY <1>2 DEF l
  <2>4. \A x \in c[m] + 1 .. n :
          /\ ~pattern[l].next /\ ~Holds(pattern[l].pred, F[x], pm.captures)
          /\ pattern[l].forbidden # None => ~Holds(pattern[l].forbidden, F[x], pm.captures)
    BY <1>4, <1>7, <2>3 DEF Skips, l
  <2>5. InTime(F, pattern[l], c[m], n + 1) /\ Holds(pattern[l].pred, F[n + 1], pm.captures)
    BY <1>3, <1>4 DEF l
  <2> QED
    BY <2>1, <2>2, <2>4, <2>5 DEF IsNextCapture
<1>13. Path(F, d, l)
  <2>1. Holds(pattern[1].pred, F[d[1]], <<>>)
    <3>1. F[d[1]] = F[c[1]]
      BY <1>7, <1>8
    <3> QED
      BY <1>5, <3>1 DEF Path
  <2>2. \A k \in 2 .. l : IsNextCapture(F, d, k)
    BY <1>7, <1>11, <1>12
  <2> QED
    BY <1>6, <1>9, <2>1, <2>2 DEF Path, l
<1>14. Captured(F, d, l) = Append(pm.captures, e)
  <2>1. pm.captures = [j \in 1 .. m |-> F[c[j]]]
    BY <1>4 DEF Captured
  <2>2. Captured(F, d, l) = [j \in 1 .. l |-> F[d[j]]]
    BY DEF Captured
  <2>3. Len(pm.captures) = m /\ pm.captures \in Seq(Event)
    <3>1. \A j \in 1 .. m : F[c[j]] \in Event
      BY <1>2, <1>5
    <3> QED
      BY <1>2, <2>1, <3>1
  <2>4. /\ Append(pm.captures, e) \in Seq(Event) /\ DOMAIN Append(pm.captures, e) = 1 .. m + 1
        /\ Len(Append(pm.captures, e)) = m + 1
        /\ \A j \in 1 .. m : Append(pm.captures, e)[j] = pm.captures[j]
        /\ Append(pm.captures, e)[m + 1] = e
    BY <2>3, AppendItems
  <2> DEFINE s == Append(pm.captures, e)
  <2> HIDE DEF s
  <2>5. \A j \in 1 .. l : s[j] = F[d[j]]
    BY <1>4, <1>7, <1>8, <2>1, <2>4 DEF s, l
  <2>6. s = [j \in 1 .. l |-> s[j]]
    BY <2>4 DEF s, l
  <2> QED
    BY <2>2, <2>5, <2>6 DEF s
<1>15. d[1] = c[1] /\ d[l] = n + 1
  BY <1>7, <1>8
<1> QED
  BY <1>2, <1>13, <1>14, <1>15 DEF l, F, n
\* Where the last event is captured, the match is complete or waits for the next step.
LEMMA Reaching ==
  ASSUME runtime \in Runtimes, NEW F \in Seq(Event), NEW d, NEW l, Path(F, d, l), d[l] = Len(F)
  PROVE  /\ l = Len(pattern) => Positives = l /\ Ends(F, d)
         /\ l # Len(pattern) => Awaits(F, d, l)
<1>1. l \in Nat /\ 1 <= l /\ l <= Positives /\ Len(F) \in Nat
  BY PathFields
<1>2. Positives \in Nat /\ Positives <= Len(pattern) /\ Len(pattern) \in Nat
  BY PositivesNat
<1>3. ASSUME l = Len(pattern) PROVE Positives = l /\ ~(Positives < Len(pattern))
  BY <1>1, <1>2, <1>3
<1>4. ASSUME l # Len(pattern) PROVE l < Len(pattern)
  BY <1>1, <1>2, <1>4
<1>5. \A x \in d[l] + 1 .. Len(F) : FALSE
  BY <1>1
<1>6. InTime(F, pattern[l + 1], d[l], Len(F))
  BY <1>5 DEF InTime
<1> QED
  BY <1>3, <1>4, <1>5, <1>6 DEF Ends, Awaits

\* An event that opens a partial, or is a match by itself.
LEMMA OpeningNew ==
  ASSUME runtime \in Runtimes, NEW E \in Seq(Event), NEW e \in Event,
         Holds(pattern[1].pred, e, <<>>)
  PROVE  \E d :
           /\ d[1] = Len(E) + 1
           /\ Len(pattern) = 1 => Ends(Append(E, e), d) /\ <<e>> = Captured(Append(E, e), d, Positives)
           /\ Len(pattern) # 1 => Tracks(Append(E, e), NewPartial(e), d)
<1> DEFINE F == Append(E, e)
           n == Len(E)
           d == [k \in 1 .. 1 |-> n + 1]
<1>1. F \in Seq(Event) /\ n \in Nat /\ Len(F) = n + 1 /\ DOMAIN F = 1 .. n + 1 /\ F[n + 1] = e
  BY AppendedEvent
<1> HIDE DEF F, n
<1>2. d[1] = n + 1 /\ d \in [1 .. 1 -> DOMAIN F]
  BY <1>1
<1>3. 1 \in 1 .. Positives
  BY PositivesNat
<1> HIDE DEF d
<1>4. Path(F, d, 1)
  <2>1. \A k \in 2 .. 1 : FALSE
    OBVIOUS
  <2> QED
    BY <1>1, <1>2, <1>3, <2>1 DEF Path
<1>5. /\ 1 = Len(pattern) => Positives = 1 /\ Ends(F, d)
      /\ 1 # Len(pattern) => Awaits(F, d, 1)
  BY <1>1, <1>2, <1>4, Reaching
<1>6. Captured(F, d, 1) = <<e>>
  <2>1. F[d[1]] = e
    BY <1>1, <1>2
  <2>2. Captured(F, d, 1) = [j \in 1 .. 1 |-> F[d[j]]]
    BY DEF Captured
  <2>3. \A j \in 1 .. 1 : F[d[j]] = e
    BY <2>1
  <2> QED
    BY <2>2, <2>3
<1>7. ASSUME Len(pattern) # 1 PROVE Tracks(F, NewPartial(e), d)
  <2> DEFINE pm == NewPartial(e)
  <2>1. pm.captures = <<e>> /\ pm.next = 2 /\ pm.deadline = NextDeadlineFor(2, e.ts)
    BY DEF NewPartial
  <2> HIDE DEF pm
  <2>2. pm.next - 1 = 1 /\ pm.next \in Nat
    BY <2>1
  <2>3. F[d[1]].ts = e.ts
    BY <1>1, <1>2
  <2>4. Tracks(F, pm, d)
    BY <1>5, <1>6, <1>7, <2>1, <2>2, <2>3 DEF Tracks
  <2> QED
    BY <2>4 DEF pm
<1>8. Len(pattern) = 1 => Ends(F, d) /\ <<e>> = Captured(F, d, Positives)
  BY <1>5, <1>6
<1> QED
  BY <1>2, <1>7, <1>8 DEF F, n

\* What becomes of a partial that has not expired.
LEMMA Outcomes ==
  ASSUME runtime \in Runtimes, SingleSteps, NEW E \in Seq(Event), NEW e \in Event,
         NEW pm \in InFlight, NEW c, Tracks(E, pm, c), ~Expired(pm, e.ts)
  PROVE  LET F == Append(E, e)
             r == AdvanceOne(pm, e)
         IN  /\ r.disposition = "Remove" => \E m : Fails(F, c, m)
             /\ r.disposition = "Keep" => \E d : Tracks(F, r.pm, d) /\ d[1] = c[1]
             /\ r.disposition = "Complete" =>
                  \E d : Ends(F, d) /\ d[1] = c[1] /\ r.pm.captures = Captured(F, d, Positives)
             /\ r.disposition \in {"Remove", "Keep", "Complete"}
<1> DEFINE F == Append(E, e)
           r == AdvanceOne(pm, e)
           captured == [pm EXCEPT !.captures = Append(@, e), !.count = @ + 1]
           onward == AdvanceStep(captured, e.ts)
<1>1. /\ Awaited(pm).negative /\ Satisfies(pm, e) => r = Disposed("Remove", pm)
      /\ ~Awaited(pm).negative /\ Satisfies(pm, e) => r = KeepOrComplete(onward)
      /\ ~Satisfies(pm, e) /\ ~Awaited(pm).negative /\ (Forbids(pm, e) \/ Awaited(pm).next)
           => r = Disposed("Remove", pm)
      /\ ~Satisfies(pm, e) /\ (Awaited(pm).negative \/ (~Forbids(pm, e) /\ ~Awaited(pm).next))
           => r = Disposed("Keep", pm)
  BY OffersOnce
<1> HIDE DEF r
<1>2. /\ Disposed("Remove", pm).disposition = "Remove"
      /\ Disposed("Keep", pm).disposition = "Keep" /\ Disposed("Keep", pm).pm = pm
  BY DEF Disposed
<1>3. CASE IF Awaited(pm).negative THEN Satisfies(pm, e)
           ELSE ~Satisfies(pm, e) /\ (Forbids(pm, e) \/ Awaited(pm).next)
  <2>1. r = Disposed("Remove", pm)
    BY <1>1, <1>3
  <2>2. \E m : Fails(F, c, m)
    BY <1>3, Removing
  <2> QED
    BY <1>2, <2>1, <2>2 DEF r
<1>4. CASE ~Satisfies(pm, e) /\ (Awaited(pm).negative \/ (~Forbids(pm, e) /\ ~Awaited(pm).next))
  <2>1. r = Disposed("Keep", pm)
    BY <1>1, <1>4
  <2>2. Tracks(F, pm, c)
    BY <1>4, Staying
  <2> QED
    BY <1>2, <2>1, <2>2 DEF r
<1>5. CASE ~Awaited(pm).negative /\ Satisfies(pm, e)
  <2>1. r = KeepOrComplete(onward)
    BY <1>1, <1>5
  <2>2. PICK d : /\ Path(F, d, pm.next) /\ d[1] = c[1] /\ d[pm.next] = Len(E) + 1
                 /\ Captured(F, d, pm.next) = Append(pm.captures, e)
    BY <1>5, Capturing
  <2>3. pm \in Partial /\ pm.next \in Nat /\ Len(pattern) \in Nat
    BY PartialFields, PositivesNat DEF InFlight
  <2>4. /\ onward.captures = Append(pm.captures, e) /\ onward.next = pm.next + 1
        /\ onward.deadline = NextDeadlineFor(pm.next + 1, e.ts)
    BY <2>3 DEF AdvanceStep, Partial
  <2>5. /\ F \in Seq(Event) /\ Len(F) = Len(E) + 1 /\ F[Len(E) + 1] = e
        /\ pm.next <= Len(pattern)
    <3>1. pm.next <= Positives /\ Positives \in Nat /\ Positives <= Len(pattern)
      BY <2>2, PositivesNat DEF Path
    <3> QED
      BY <2>3, <3>1, AppendedEvent
  <2> DEFINE l == pm.next
  <2> HIDE DEF F, onward
  <2>6. /\ l = Len(pattern) => Positives = l /\ Ends(F, d)
        /\ l # Len(pattern) => Awaits(F, d, l)
    <3> HIDE DEF l
    <3>1. Path(F, d, l) /\ d[l] = Len(F)
      BY <2>2, <2>5 DEF l
    <3> QED
      BY <2>5, <3>1, Reaching
  <2>7. CASE l = Len(pattern)
    <3>1. Completed(onward)
      BY <2>3, <2>4, <2>7 DEF Completed
    <3>2. r.disposition = "Complete" /\ r.pm = onward
      BY <2>1, <3>1 DEF KeepOrComplete, Disposed
    <3>3. Ends(F, d) /\ onward.captures = Captured(F, d, Positives)
      BY <2>2, <2>4, <2>6, <2>7
    <3> QED
      BY <2>2, <3>2, <3>3 DEF F, r
  <2>8. CASE l # Len(pattern)
    <3>1. ~Completed(onward)
      BY <2>3, <2>4, <2>5, <2>8 DEF Completed
    <3>2. r.disposition = "Keep" /\ r.pm = onward
      BY <2>1, <3>1 DEF KeepOrComplete, Disposed
    <3>3. onward.next - 1 = l /\ onward.next \in Nat /\ F[d[l]] = e
      BY <2>2, <2>3, <2>4, <2>5
    <3>4. Tracks(F, onward, d)
      BY <2>2, <2>4, <2>6, <2>8, <3>3 DEF Tracks
    <3> QED
      BY <2>2, <3>2, <3>4 DEF F, r
  <2> QED
    BY <2>7, <2>8
<1> QED
  BY <1>3, <1>4, <1>5
-----------------------------------------------------------------------------
(* What the matcher has found and what it has missed, event by event. *)

\* A match of the stream is reported whose first event is at x,
Reported(E, matches, x) ==
  \E c : Ends(E, c) /\ c[1] = x /\ Captured(E, c, Positives) \in ToSet(matches)

\* a partial that began there is in flight, or there can be no match.
Underway(E, flights, x) == \E i \in DOMAIN flights : \E c : Tracks(E, flights[i], c) /\ c[1] = x
Dead(E, x) == \E c, m : Fails(E, c, m) /\ c[1] = x

\* Every partial and every match is one of the stream, and all that may begin at the
\* positions X is accounted for, but for the evicted ones, V.
Faithful(st, E, V, X) ==
  /\ \A i \in DOMAIN st.flights : \E c : Tracks(E, st.flights[i], c)
  /\ \A m \in ToSet(st.out) : \E c : Ends(E, c) /\ m = Captured(E, c, Positives)
  /\ \A x \in X : Holds(pattern[1].pred, E[x], <<>>) =>
       x \in V \/ Underway(E, st.flights, x) \/ Reported(E, st.out, x) \/ Dead(E, x)

\* What is known to be reported or dead stays so.
LEMMA ReportedMore ==
  ASSUME runtime \in Runtimes, NEW E \in Seq(Event), NEW e \in Event, NEW s, NEW t, NEW x,
         ToSet(s) \subseteq ToSet(t), Reported(E, s, x)
  PROVE  Reported(Append(E, e), t, x)
<1>1. PICK c : Ends(E, c) /\ c[1] = x /\ Captured(E, c, Positives) \in ToSet(s)
  BY DEF Reported
<1>2. Ends(Append(E, e), c) /\ Captured(Append(E, e), c, Positives) = Captured(E, c, Positives)
  BY <1>1, EndsMore
<1> QED
  BY <1>1, <1>2 DEF Reported

LEMMA DeadMore ==
  ASSUME runtime \in Runtimes, NEW E \in Seq(Event), NEW e \in Event, NEW x, Dead(E, x)
  PROVE  Dead(Append(E, e), x)
BY FailsMore DEF Dead

\* After the sweep no partial in flight has expired; the rest is as it will be after
\* the event.
Halfway(st, E, e, V) ==
  /\ \A i \in DOMAIN st.flights : ~Expired(st.flights[i], e.ts) /\ \E c : Tracks(E, st.flights[i], c)
  /\ \A m \in ToSet(st.out) : \E c : Ends(Append(E, e), c) /\ m = Captured(Append(E, e), c, Positives)
  /\ \A x \in DOMAIN E : Holds(pattern[1].pred, E[x], <<>>) =>
       \/ x \in V \/ Underway(E, st.flights, x)
       \/ Reported(Append(E, e), st.out, x) \/ Dead(Append(E, e), x)

LEMMA SweepFaithful ==
  ASSUME runtime \in Runtimes, NEW E \in Seq(Event), NEW e \in Event, NEW st \in State, NEW V,
         Faithful(st, E, V, DOMAIN E)
  PROVE  Halfway(AdvanceDeadlines(st, e.ts), E, e, V)
<1> DEFINE a == AdvanceDeadlines(st, e.ts)
           F == Append(E, e)
           f == st.flights
           out == a.out
           left == a.flights
           T == DOMAIN f \ Overdue(st, e.ts)
<1>1. ToSet(out) = ToSet(st.out) \cup {f[i].captures : i \in Firing(st, e.ts)}
  BY SweptMatches
<1>2. PICK p, n : Leaves(st, e.ts, p, n)
  BY SweepLeaves
<1>3. /\ DOMAIN left = 1 .. n /\ \A k \in 1 .. n : p[k] \in T /\ left[k] = f[p[k]]
      /\ \A i \in T : \E k \in 1 .. n : p[k] = i
  BY <1>2 DEF Leaves
<1>4. \A i \in DOMAIN f : \E c : Tracks(E, f[i], c)
  BY DEF Faithful
<1>5. /\ \A i \in T : i \in DOMAIN f /\ ~Expired(f[i], e.ts)
      /\ \A i \in DOMAIN f : i \notin T => Expired(f[i], e.ts)
      /\ \A i \in Firing(st, e.ts) : i \in DOMAIN f /\ Expired(f[i], e.ts) /\ Awaited(f[i]).negative
      /\ \A i \in DOMAIN f : Expired(f[i], e.ts) /\ Awaited(f[i]).negative => i \in Firing(st, e.ts)
  BY DEF Overdue, Firing
<1>6. ASSUME NEW i \in DOMAIN f, NEW c, Tracks(E, f[i], c), Expired(f[i], e.ts)
      PROVE  /\ Awaited(f[i]).negative => Ends(F, c) /\ f[i].captures = Captured(F, c, Positives)
             /\ ~Awaited(f[i]).negative => Dead(F, c[1])
  BY <1>6, Expiring DEF Dead
<1>7. ASSUME NEW c, Ends(E, c)
      PROVE  Ends(F, c) /\ Captured(F, c, Positives) = Captured(E, c, Positives)
  BY <1>7, EndsMore
<1>8. ASSUME NEW x, Reported(E, st.out, x) PROVE Reported(F, out, x)
  <2>1. ToSet(st.out) \subseteq ToSet(out)
    BY <1>1
  <2> HIDE DEF out
  <2> QED
    BY <1>8, <2>1, ReportedMore
<1>9. ASSUME NEW x, Dead(E, x) PROVE Dead(F, x)
  BY <1>9, DeadMore
<1> HIDE DEF F, out, left, T
<1>10. \A k \in DOMAIN left : ~Expired(left[k], e.ts) /\ \E c : Tracks(E, left[k], c)
  BY <1>3, <1>4, <1>5
<1>11. ASSUME NEW m \in ToSet(out) PROVE \E c : Ends(F, c) /\ m = Captured(F, c, Positives)
  <2>1. CASE m \in ToSet(st.out)
    BY <1>7, <2>1 DEF Faithful
  <2>2. ASSUME NEW i \in Firing(st, e.ts), m = f[i].captures
        PROVE  \E c : Ends(F, c) /\ m = Captured(F, c, Positives)
    <3>1. PICK c : Tracks(E, f[i], c)
      BY <1>4, <1>5
    <3> QED
      BY <1>5, <1>6, <2>2, <3>1
  <2> QED
    BY <1>1, <2>1, <2>2
<1>12. ASSUME NEW x, Underway(E, f, x)
       PROVE  Underway(E, left, x) \/ Reported(F, out, x) \/ Dead(F, x)
  <2>0. PICK i \in DOMAIN f : \E c : Tracks(E, f[i], c) /\ c[1] = x
    BY <1>12 DEF Underway
  <2>1. PICK c : Tracks(E, f[i], c) /\ c[1] = x
    BY <2>0
  <2>2. CASE i \in T
    <3>1. PICK k \in 1 .. n : p[k] = i
      BY <1>3, <2>2
    <3> QED
      BY <1>3, <2>1, <3>1 DEF Underway
  <2>3. CASE i \notin T /\ Awaited(f[i]).negative
    <3>1. Ends(F, c) /\ f[i].captures = Captured(F, c, Positives) /\ i \in Firing(st, e.ts)
      BY <1>5, <1>6, <2>1, <2>3
    <3> QED
      BY <1>1, <2>1, <3>1 DEF Reported
  <2>4. CASE i \notin T /\ ~Awaited(f[i]).negative
    BY <1>5, <1>6, <2>1, <2>4
  <2> QED
    BY <2>2, <2>3, <2>4
<1>13. ASSUME NEW x \in DOMAIN E, Holds(pattern[1].pred, E[x], <<>>)
       PROVE  x \in V \/ Underway(E, left, x) \/ Reported(F, out, x) \/ Dead(F, x)
  <2>1. x \in V \/ Underway(E, f, x) \/ Reported(E, st.out, x) \/ Dead(E, x)
    BY <1>13 DEF Faithful
  <2> QED
    BY <1>8, <1>9, <1>12, <2>1
<1> QED
  BY <1>10, <1>11, <1>13 DEF Halfway, F, out, left

\* The loop over the partials.
LEMMA LoopFaithful ==
  ASSUME runtime \in Runtimes, SingleSteps, NEW E \in Seq(Event), NEW e \in Event, NEW st \in State,
         NEW V, Halfway(st, E, e, V)
  PROVE  Faithful(AdvancePartials(st, e), Append(E, e), V, DOMAIN E)
<1> DEFINE b == AdvancePartials(st, e)
           F == Append(E, e)
           f == st.flights
           keep == Meeting(st, e, "Keep")
           g == Advanced(st, e)
           new == Captures(Reverse(Picked(g, Meeting(st, e, "Complete"))))
           out == b.out
           left == b.flights
<1>1. /\ b = [flights |-> Picked(g, keep), out |-> st.out \o new, drops |-> st.drops]
      /\ keep \in SUBSET (1 .. Len(f)) /\ new \in Seq(Match)
      /\ ToSet(new) = {g[i].captures : i \in Meeting(st, e, "Complete")}
  BY PartialsLoop
<1>2. /\ Len(f) \in Nat /\ DOMAIN f = 1 .. Len(f) /\ st.out \in Seq(Match)
      /\ \A i \in DOMAIN f : f[i] \in InFlight
  BY StateFields DEF InFlight
<1>3. PICK p : IsPick(p, g, keep)
  BY <1>1, <1>2, PickedInOrder
<1> DEFINE n == Cardinality(keep)
<1>4. /\ left = [k \in 1 .. n |-> g[p[k]]] /\ \A k \in 1 .. n : p[k] \in keep
      /\ \A i \in keep : \E k \in 1 .. n : p[k] = i
  <2>1. left = Picked(g, keep)
    BY <1>1
  <2> HIDE DEF left, g, keep, b
  <2>2. Picked(g, keep) = [k \in 1 .. n |-> g[p[k]]]
    BY <1>3 DEF IsPick
  <2>3. /\ \A k \in 1 .. n : p[k] \in keep
        /\ \A i \in keep : \E k \in 1 .. n : p[k] = i
    BY <1>3 DEF IsPick, Lists
  <2> QED
    BY <2>1, <2>2, <2>3
<1>5. ToSet(out) = ToSet(st.out) \cup {g[i].captures : i \in Meeting(st, e, "Complete")}
  <2>1. out = st.out \o new
    BY <1>1
  <2> HIDE DEF out, new, g
  <2>2. ToSet(st.out \o new) = ToSet(st.out) \cup ToSet(new)
    BY <1>1, <1>2, ConcatSet
  <2> QED
    BY <1>1, <2>1, <2>2
<1>6. /\ \A i \in DOMAIN f : g[i] = AdvanceOne(f[i], e).pm
      /\ \A i, d : i \in Meeting(st, e, d) <=> i \in DOMAIN f /\ AdvanceOne(f[i], e).disposition = d
  BY DEF Advanced, Meeting
<1>7. /\ \A i \in DOMAIN f : ~Expired(f[i], e.ts) /\ \E c : Tracks(E, f[i], c)
      /\ \A m \in ToSet(st.out) : \E c : Ends(F, c) /\ m = Captured(F, c, Positives)
      /\ \A x \in DOMAIN E : Holds(pattern[1].pred, E[x], <<>>) =>
           x \in V \/ Underway(E, f, x) \/ Reported(F, st.out, x) \/ Dead(F, x)
  BY DEF Halfway
<1>8. ASSUME NEW i \in DOMAIN f, NEW c, Tracks(E, f[i], c)
      PROVE  /\ AdvanceOne(f[i], e).disposition = "Remove" => Dead(F, c[1])
             /\ i \in keep => \E d : Tracks(F, g[i], d) /\ d[1] = c[1]
             /\ i \in Meeting(st, e, "Complete") =>
                  \E d : Ends(F, d) /\ d[1] = c[1] /\ g[i].captures = Captured(F, d, Positives)
             /\ AdvanceOne(f[i], e).disposition \in {"Remove", "Keep", "Complete"}
  <2> DEFINE r == AdvanceOne(f[i], e)
  <2>1. /\ r.disposition = "Remove" => \E m : Fails(F, c, m)
        /\ r.disposition = "Keep" => \E d : Tracks(F, r.pm, d) /\ d[1] = c[1]
        /\ r.disposition = "Complete" =>
             \E d : Ends(F, d) /\ d[1] = c[1] /\ r.pm.captures = Captured(F, d, Positives)
        /\ r.disposition \in {"Remove", "Keep", "Complete"}
    BY <1>2, <1>7, <1>8, Outcomes
  <2>2. /\ g[i] = r.pm /\ (i \in keep => r.disposition = "Keep")
        /\ (i \in Meeting(st, e, "Complete") => r.disposition = "Complete")
    BY <1>6
  <2>3. r.disposition = "Remove" => Dead(F, c[1])
    BY <2>1 DEF Dead
  <2> HIDE DEF r, F, g, keep
  <2> QED
    BY <2>1, <2>2, <2>3 DEF r
<1> HIDE DEF F, out, left, g, keep, n
<1>9. \A k \in DOMAIN left : \E d : Tracks(F, left[k], d)
  <2> SUFFICES ASSUME NEW k \in 1 .. n PROVE \E d : Tracks(F, g[p[k]], d)
    BY <1>4
  <2>1. p[k] \in keep /\ p[k] \in DOMAIN f
    BY <1>1, <1>2, <1>4
  <2>2. PICK c : Tracks(E, f[p[k]], c)
    BY <1>7, <2>1
  <2> QED
    BY <1>8, <2>1, <2>2
<1>10. ASSUME NEW m \in ToSet(out) PROVE \E c : Ends(F, c) /\ m = Captured(F, c, Positives)
  <2>1. CASE m \in ToSet(st.out)
    BY <1>7, <2>1
  <2>2. ASSUME NEW i \in Meeting(st, e, "Complete"), m = g[i].captures
        PROVE  \E c : Ends(F, c) /\ m = Captured(F, c, Positives)
    <3>1. i \in DOMAIN f
      BY <1>6
    <3>2. PICK c : Tracks(E, f[i], c)
      BY <1>7, <3>1
    <3> QED
      BY <1>8, <2>2, <3>1, <3>2
  <2> QED
    BY <1>5, <2>1, <2>2
<1>11. ASSUME NEW x, Underway(E, f, x)
       PROVE  Underway(F, left, x) \/ Reported(F, out, x) \/ Dead(F, x)
  <2>0. PICK i \in DOMAIN f : \E c : Tracks(E, f[i], c) /\ c[1] = x
    BY <1>11 DEF Underway
  <2>1. PICK c : Tracks(E, f[i], c) /\ c[1] = x
    BY <2>0
  <2>2. CASE AdvanceOne(f[i], e).disposition = "Keep"
    <3>1. i \in keep
      BY <1>6, <2>2 DEF keep
    <3>2. PICK d : Tracks(F, g[i], d) /\ d[1] = x
      BY <1>8, <2>1, <3>1
    <3>3. PICK k \in 1 .. n : p[k] = i
      BY <1>4, <3>1
    <3>4. k \in DOMAIN left /\ left[k] = g[i]
      BY <1>4, <3>3
    <3> QED
      BY <3>2, <3>4 DEF Underway
  <2>3. CASE AdvanceOne(f[i], e).disposition = "Complete"
    <3>1. i \in Meeting(st, e, "Complete")
      BY <1>6, <2>3
    <3>2. PICK d : Ends(F, d) /\ d[1] = x /\ g[i].captures = Captured(F, d, Positives)
      BY <1>8, <2>1, <3>1
    <3> QED
      BY <1>5, <3>1, <3>2 DEF Reported
  <2>4. CASE AdvanceOne(f[i], e).disposition = "Remove"
    BY <1>8, <2>1, <2>4
  <2> QED
    BY <1>8, <2>1, <2>2, <2>3, <2>4
<1>12. ASSUME NEW x, Reported(F, st.out, x) PROVE Reported(F, out, x)
  BY <1>5, <1>12 DEF Reported
<1>13. ASSUME NEW x \in DOMAIN E, Holds(pattern[1].pred, F[x], <<>>)
       PROVE  x \in V \/ Underway(F, left, x) \/ Reported(F, out, x) \/ Dead(F, x)
  <2>1. F[x] = E[x]
    BY AppendedEvent DEF F
  <2>2. x \in V \/ Underway(E, f, x) \/ Reported(F, st.out, x) \/ Dead(F, x)
    BY <1>7, <1>13, <2>1
  <2> QED
    BY <1>11, <1>12, <2>2
<1> QED
  BY <1>9, <1>10, <1>13 DEF Faithful, F, out, left
\* The first capture tells where a partial began.
LEMMA TracksOpening ==
  ASSUME runtime \in Runtimes, NEW E \in Seq(Event), NEW pm, NEW c, Tracks(E, pm, c)
  PROVE  pm.captures[1] = E[c[1]] /\ c[1] \in DOMAIN E
<1> DEFINE m == pm.next - 1
<1>1. m \in Nat /\ 1 <= m /\ Path(E, c, m) /\ pm.captures = Captured(E, c, m) /\ m \in 1 .. Positives
  BY TrackedFields DEF Tracks, Path
<1> HIDE DEF m
<1>2. 1 \in 1 .. m /\ c[1] \in 1 .. Len(E)
  BY <1>1, PathFields
<1> QED
  BY <1>1, <1>2 DEF Captured

\* An evicted partial is counted.
LEMMA OpenFaithful ==
  ASSUME runtime \in Runtimes, NEW E \in Seq(Event), NEW e \in Event, NEW b \in State,
         Distinct(Append(E, e)), NEW V \in SUBSET (DOMAIN E),
         Cardinality(V) <= b.drops["MaxInFlight"], Faithful(b, Append(E, e), V, DOMAIN E)
  PROVE  LET st == TryOpenNew(b, e)
             F == Append(E, e)
         IN  \E W \in SUBSET (DOMAIN F) :
               Cardinality(W) <= st.drops["MaxInFlight"] /\ Faithful(st, F, W, DOMAIN F)
<1> DEFINE st == TryOpenNew(b, e)
           F == Append(E, e)
           f == b.flights
           n == Len(E)
           Counted(W) == Cardinality(W) <= st.drops["MaxInFlight"] /\ Faithful(st, F, W, DOMAIN F)
<1>1. /\ F \in Seq(Event) /\ n \in Nat /\ DOMAIN E = 1 .. n /\ DOMAIN F = 1 .. n + 1 /\ F[n + 1] = e
      /\ \A x \in DOMAIN F : x \in DOMAIN E \/ x = n + 1
      /\ DOMAIN E \subseteq DOMAIN F
  BY AppendedEvent
<1>2. /\ Len(f) \in Nat /\ DOMAIN f = 1 .. Len(f) /\ f \in Seq(InFlight) /\ b.out \in Seq(Match)
      /\ \A i \in DOMAIN f : f[i] \in InFlight
      /\ b.drops \in [DropReason -> Nat]
  BY StateFields DEF InFlight
<1>3. /\ \A i \in DOMAIN f : \E c : Tracks(F, f[i], c)
      /\ \A m \in ToSet(b.out) : \E c : Ends(F, c) /\ m = Captured(F, c, Positives)
      /\ \A x \in DOMAIN E : Holds(pattern[1].pred, F[x], <<>>) =>
           x \in V \/ Underway(F, f, x) \/ Reported(F, b.out, x) \/ Dead(F, x)
  BY DEF Faithful
<1>4. Len(pattern) \in Nat /\ 1 <= Len(pattern)
  BY PatternType
<1>5. V \in SUBSET (DOMAIN F)
  BY <1>1
<1>6. ASSUME ~Holds(pattern[1].pred, e, <<>>) PROVE Counted(V)
  <2>1. st = b
    BY <1>6 DEF TryOpenNew
  <2> HIDE DEF st, F
  <2>2. \A x \in DOMAIN F : Holds(pattern[1].pred, F[x], <<>>) => x \in DOMAIN E
    BY <1>1, <1>6
  <2> QED
    BY <1>3, <2>1, <2>2 DEF Faithful
<1>7. ASSUME Holds(pattern[1].pred, e, <<>>)
      PROVE  \E d : /\ d[1] = n + 1
                    /\ Len(pattern) = 1 => Ends(F, d) /\ <<e>> = Captured(F, d, Positives)
                    /\ Len(pattern) # 1 => Tracks(F, NewPartial(e), d)
  BY <1>7, OpeningNew
<1>8. ASSUME Holds(pattern[1].pred, e, <<>>), Len(pattern) = 1 PROVE Counted(V)
  <2>1. PICK d : d[1] = n + 1 /\ Ends(F, d) /\ <<e>> = Captured(F, d, Positives)
    BY <1>7, <1>8
  <2> DEFINE new == <<e>>
             out == Append(b.out, new)
  <2>2. st = [flights |-> f, out |-> out, drops |-> b.drops]
    BY <1>8, ReplacedOut DEF TryOpenNew
  <2>3. new \in Match
    BY DEF Match
  <2>4. new = Captured(F, d, Positives)
    BY <2>1
  <2> HIDE DEF new
  <2>5. ToSet(out) = ToSet(b.out) \cup {new}
    BY <1>2, <2>3, AppendSet
  <2> HIDE DEF st, F, out
  <2>6. Reported(F, out, n + 1)
    BY <2>1, <2>4, <2>5 DEF Reported
  <2>7. \A x : Reported(F, b.out, x) => Reported(F, out, x)
    BY <2>5 DEF Reported
  <2>8. \A m \in ToSet(out) : \E c : Ends(F, c) /\ m = Captured(F, c, Positives)
    BY <1>3, <2>1, <2>4, <2>5
  <2>9. st.flights = f /\ st.out = out /\ st.drops = b.drops
    BY <2>2
  <2>10. \A x \in DOMAIN F : Holds(pattern[1].pred, F[x], <<>>) =>
           x \in V \/ Underway(F, f, x) \/ Reported(F, out, x) \/ Dead(F, x)
    BY <1>1, <1>3, <2>6, <2>7
  <2> QED
    BY <1>3, <2>8, <2>9, <2>10 DEF Faithful
<1>9. ASSUME Holds(pattern[1].pred, e, <<>>), Len(pattern) # 1, Len(f) < MAX_IN_FLIGHT PROVE Counted(V)
  <2> DEFINE new == NewPartial(e)
             left == Append(f, new)
  <2>1. PICK d : d[1] = n + 1 /\ Tracks(F, new, d)
    BY <1>7, <1>9
  <2>2. st = [flights |-> left, out |-> b.out, drops |-> b.drops]
    BY <1>9, ReplacedFlights DEF TryOpenNew
  <2> HIDE DEF new
  <2>3. /\ DOMAIN left = 1 .. Len(f) + 1 /\ left[Len(f) + 1] = new
        /\ \A i \in 1 .. Len(f) : left[i] = f[i]
    BY <1>2
  <2> HIDE DEF st, F, left
  <2>4. st.flights = left /\ st.out = b.out /\ st.drops = b.drops
    BY <2>2
  <2>5. \A i \in DOMAIN left : \E c : Tracks(F, left[i], c)
    <3> SUFFICES ASSUME NEW i \in 1 .. Len(f) + 1 PROVE \E c : Tracks(F, left[i], c)
      BY <2>3
    <3>1. i \in 1 .. Len(f) \/ i = Len(f) + 1
      BY <1>2
    <3> QED
      BY <1>2, <1>3, <2>1, <2>3, <3>1
  <2>6. Underway(F, left, n + 1)
    <3>1. Len(f) + 1 \in DOMAIN left
      BY <1>2, <2>3
    <3> QED
      BY <2>1, <2>3, <3>1 DEF Underway
  <2>7. \A x : Underway(F, f, x) => Underway(F, left, x)
    <3>1. \A i \in DOMAIN f : i \in DOMAIN left /\ left[i] = f[i]
      BY <1>2, <2>3
    <3> QED
      BY <3>1 DEF Underway
  <2>8. \A x \in DOMAIN F : Holds(pattern[1].pred, F[x], <<>>) =>
          x \in V \/ Underway(F, left, x) \/ Reported(F, b.out, x) \/ Dead(F, x)
    BY <1>1, <1>3, <2>6, <2>7
  <2> QED
    BY <1>3, <2>4, <2>5, <2>8 DEF Faithful
<1>10. ASSUME Holds(pattern[1].pred, e, <<>>), Len(pattern) # 1, ~(Len(f) < MAX_IN_FLIGHT)
       PROVE  \E W \in SUBSET (DOMAIN F) : Counted(W)
  <2> DEFINE new == NewPartial(e)
             left == Append(Tail(f), new)
             l == Len(f)
  <2>1. PICK d : d[1] = n + 1 /\ Tracks(F, new, d)
    BY <1>7, <1>10
  <2>2. st = [flights |-> left, out |-> b.out, drops |-> [b.drops EXCEPT !["MaxInFlight"] = @ + 1]]
    BY <1>10 DEF TryOpenNew
  <2>3. /\ l \in Nat /\ 1 <= l /\ 1 \in DOMAIN f
    BY <1>2, <1>10, CepAssumption
  <2> HIDE DEF new
  <2>4. /\ DOMAIN left = 1 .. l /\ left[l] = new
        /\ \A i \in 1 .. l - 1 : left[i] = f[i + 1] /\ i + 1 \in DOMAIN f
    <3>1. f # <<>>
      BY <2>3
    <3> HIDE <1>7
    <3> QED
      BY <1>2, <2>3, <3>1
  <2>5. PICK c0 : Tracks(F, f[1], c0)
    BY <1>3, <2>3
  <2> DEFINE W == V \cup {c0[1]}
  <2>6. c0[1] \in DOMAIN F /\ f[1].captures[1] = F[c0[1]]
    BY <1>1, <2>5, TracksOpening
  <2>7. st.flights = left /\ st.out = b.out /\ st.drops["MaxInFlight"] = b.drops["MaxInFlight"] + 1
        /\ b.drops["MaxInFlight"] \in Nat
    BY <1>2, <2>2 DEF DropReason
  <2>8. Cardinality(W) <= b.drops["MaxInFlight"] + 1
    <3>1. IsFiniteSet(V) /\ Cardinality(V) \in Nat
      BY <1>1, PositionsFinite
    <3>2. Cardinality(W) = IF c0[1] \in V THEN Cardinality(V) ELSE Cardinality(V) + 1
      BY <3>1, FS_AddElement
    <3> QED
      BY <2>7, <3>1, <3>2
  <2> HIDE DEF st, F, left, l, W
  <2>9. \A i \in DOMAIN left : \E c : Tracks(F, left[i], c)
    <3> SUFFICES ASSUME NEW i \in 1 .. l PROVE \E c : Tracks(F, left[i], c)
      BY <2>4
    <3>1. i \in 1 .. l - 1 \/ i = l
      BY <2>3
    <3> QED
      BY <1>3, <2>1, <2>4, <3>1
  <2>10. Underway(F, left, n + 1)
    <3>1. l \in DOMAIN left
      BY <2>3, <2>4
    <3> QED
      BY <2>1, <2>4, <3>1 DEF Underway
  <2>11. ASSUME NEW x, Underway(F, f, x) PROVE x \in W \/ Underway(F, left, x)
    <3>0. PICK i \in DOMAIN f : \E c : Tracks(F, f[i], c) /\ c[1] = x
      BY <2>11 DEF Underway
    <3>1. PICK c : Tracks(F, f[i], c) /\ c[1] = x
      BY <3>0
    <3>2. CASE i = 1
      <4>1. c[1] \in DOMAIN F /\ F[c[1]] = F[c0[1]]
        BY <1>1, <2>6, <3>1, <3>2, TracksOpening DEF F
      <4>2. Distinct(F)
        BY DEF F
      <4>3. c[1] = c0[1]
        BY <2>6, <4>1, <4>2 DEF Distinct
      <4> QED
        BY <3>1, <4>3 DEF W
    <3>3. CASE i # 1
      <4> DEFINE k == i - 1
      <4>1. k \in 1 .. l - 1 /\ k + 1 = i /\ k \in 1 .. l
        BY <1>2, <2>3, <3>3 DEF l
      <4> HIDE DEF k
      <4>2. k \in DOMAIN left /\ left[k] = f[i]
        BY <2>4, <4>1
      <4> QED
        BY <3>1, <4>2 DEF Underway
    <3> QED
      BY <3>2, <3>3
  <2>12. \A x \in DOMAIN F : Holds(pattern[1].pred, F[x], <<>>) =>
           x \in W \/ Underway(F, left, x) \/ Reported(F, b.out, x) \/ Dead(F, x)
    <3>1. V \subseteq W
      BY DEF W
    <3> QED
      BY <1>1, <1>3, <2>10, <2>11, <3>1
  <2>13. Faithful(st, F, W, DOMAIN F)
    BY <1>3, <2>7, <2>9, <2>12 DEF Faithful
  <2>14. W \in SUBSET (DOMAIN F)
    BY <1>5, <2>6 DEF W
  <2> QED
    BY <2>7, <2>8, <2>13, <2>14
<1> HIDE DEF Counted
<1>11. \E W \in SUBSET (DOMAIN F) : Counted(W)
  BY <1>5, <1>6, <1>8, <1>9, <1>10
<1> QED
  BY <1>11 DEF Counted
\* So one event keeps the account,
LEMMA MatchFaithful ==
  ASSUME runtime \in Runtimes, SingleSteps, NEW E \in Seq(Event), NEW e \in Event, NEW st \in State,
         Distinct(Append(E, e)), NEW V \in SUBSET (DOMAIN E),
         Cardinality(V) <= st.drops["MaxInFlight"], Faithful(st, E, V, DOMAIN E)
  PROVE  LET F == Append(E, e)
         IN  \E W \in SUBSET (DOMAIN F) :
               /\ Cardinality(W) <= MatchOne(st, e).drops["MaxInFlight"]
               /\ Faithful(MatchOne(st, e), F, W, DOMAIN F)
<1> DEFINE a == AdvanceDeadlines(st, e.ts)
           b == AdvancePartials(a, e)
<1>1. a \in State /\ a.drops["MaxInFlight"] = st.drops["MaxInFlight"]
  BY AdvanceDeadlinesKeeps, SweptMatches DEF Keeps
<1>2. MatchOne(st, e) = TryOpenNew(b, e)
  BY DEF MatchOne
<1>3. Halfway(a, E, e, V)
  BY SweepFaithful
<1> HIDE DEF a
<1>4. b \in State /\ b.drops = a.drops
  <2>1. b \in State
    BY <1>1, AdvancePartialsKeeps DEF Keeps
  <2>2. AdvancePartials(a, e).drops = a.drops
    BY <1>1, PartialsLoop
  <2> QED
    BY <2>1, <2>2
<1>5. Faithful(b, Append(E, e), V, DOMAIN E)
  BY <1>1, <1>3, LoopFaithful
<1> HIDE DEF b
<1> QED
  BY <1>1, <1>2, <1>4, <1>5, OpenFaithful

\* and a batch run has it for all its events.
Accounted(E) ==
  \E V \in SUBSET (DOMAIN E) :
    Cardinality(V) <= After(E).drops["MaxInFlight"] /\ Faithful(After(E), E, V, DOMAIN E)

LEMMA RunAccounted ==
  ASSUME runtime \in Runtimes, SingleSteps, NEW E \in Seq(Event), Distinct(E)
  PROVE  Accounted(E)
<1> DEFINE n == Len(E)
           P == {k \in 0 .. n : Accounted(Prefix(E, k))}
<1>1. n \in Nat
  OBVIOUS
<1>2. 0 \in P
  <2>1. Prefix(E, 0) = <<>>
    BY DEF Prefix
  <2>2. After(<<>>) = Empty
    BY BatchRun, MatchAllNone DEF After
  <2>3. Empty.flights = <<>> /\ Empty.out = <<>> /\ Empty.drops["MaxInFlight"] = 0
    BY DEF Empty, DropReason
  <2>4. Cardinality({}) = 0
    BY FS_EmptySet
  <2>5. Faithful(Empty, <<>>, {}, {})
    BY <2>3 DEF Faithful, ToSet
  <2>6. {} \in SUBSET (DOMAIN <<>>) /\ DOMAIN <<>> = {}
    OBVIOUS
  <2>7. Accounted(<<>>)
    BY <2>2, <2>3, <2>4, <2>5, <2>6 DEF Accounted
  <2> QED
    BY <1>1, <2>1, <2>7
<1>3. ASSUME NEW k \in 0 .. n - 1, k \in P PROVE k + 1 \in P
  <2> DEFINE F == Prefix(E, k)
             e == E[k + 1]
             st == After(F)
  <2>1. k \in 0 .. n /\ k + 1 \in 0 .. n /\ k + 1 <= n
    BY <1>1
  <2>2. /\ F \in Seq(Event) /\ Prefix(E, k + 1) = Append(F, e) /\ e \in Event
        /\ Distinct(Prefix(E, k + 1)) /\ Accounted(F)
    BY <1>3, <2>1, PrefixItems, PrefixNext, PrefixDistinct
  <2> HIDE DEF F, e
  <2>3. st \in State /\ After(Append(F, e)) = MatchOne(st, e)
    BY <2>2, BatchRun, AfterOne
  <2>4. PICK V \in SUBSET (DOMAIN F) : Cardinality(V) <= st.drops["MaxInFlight"] /\ Faithful(st, F, V, DOMAIN F)
    BY <2>2 DEF Accounted
  <2> HIDE DEF st
  <2>5. Distinct(Append(F, e))
    BY <2>2
  <2>6. Accounted(Append(F, e))
    BY <2>2, <2>3, <2>4, <2>5, MatchFaithful DEF Accounted
  <2> QED
    BY <2>1, <2>2, <2>6
<1>4. 0 .. n \subseteq P
  <2> HIDE DEF P, n
  <2> QED
    BY <1>1, <1>2, <1>3, CountUp
<1>5. Prefix(E, n) = E
  BY DEF Prefix
<1> QED
  BY <1>1, <1>4, <1>5
-----------------------------------------------------------------------------
(* What the batch run reports and misses. *)

\* Without repetitions only an absence is concluded at the end.
LEMMA ConcludesAbsences ==
  ASSUME runtime \in Runtimes, SingleSteps, NEW pm \in InFlight
  PROVE  ConcludesAtEnd(pm) <=> Awaited(pm).negative
<1>1. pm.next \in 2 .. Len(pattern) /\ pm.count < Awaited(pm).max /\ pm.count \in Nat
  BY PartialFields DEF InFlight, Waits
<1>2. pm.next \in 1 .. Len(pattern) /\ DOMAIN pattern = 1 .. Len(pattern)
  BY <1>1, PatternType
<1>3. Awaited(pm).max = 1 /\ Awaited(pm).min \in Nat /\ 1 <= Awaited(pm).min
  <2>1. IsStep(pattern[pm.next])
    BY <1>2, PatternType
  <2> QED
    BY <1>2, <2>1 DEF SingleSteps, Awaited, IsStep
<1> QED
  BY <1>1, <1>3 DEF ConcludesAtEnd

\* Such a partial is a match of the stream.
LEMMA AbsenceIsMatch ==
  ASSUME runtime \in Runtimes, NEW E, NEW pm, NEW c, Tracks(E, pm, c), Awaited(pm).negative
  PROVE  Full(E, c) /\ pm.captures = Captured(E, c, Positives)
<1> DEFINE m == pm.next - 1
<1>1. Awaits(E, c, m) /\ pm.captures = Captured(E, c, m) /\ m + 1 = pm.next
  BY DEF Tracks
<1>2. pattern[m + 1].negative
  BY <1>1 DEF Awaited
<1> HIDE DEF m
<1>3. m = Positives /\ Full(E, c)
  BY <1>1, <1>2, AbsentIsFull
<1> QED
  BY <1>1, <1>3

\* An opening at x has the match m.
Makes(E, x, m) == \E d : Full(E, d) /\ d[1] = x /\ m = Captured(E, d, Positives)

\* A match that is not reported is one that was evicted.
LEMMA MissedIsEvicted ==
  ASSUME runtime \in Runtimes, SingleSteps, NEW E \in Seq(Event), NEW st \in State, NEW V,
         Faithful(st, E, V, DOMAIN E), NEW m, m \in MatchesOf(E), m \notin ToSet(Conclude(st).out)
  PROVE  \E x \in V : Makes(E, x, m)
<1> DEFINE done == {j \in DOMAIN st.flights : ConcludesAtEnd(st.flights[j])}
<1>1. ToSet(Conclude(st).out) = ToSet(st.out) \cup {st.flights[i].captures : i \in done}
  BY SweptMatches
<1>2. PICK d : Full(E, d) /\ m = Captured(E, d, Positives)
  BY MatchesAreFull
<1>3. Path(E, d, Positives)
  BY <1>2 DEF Full
<1>4. d[1] \in DOMAIN E /\ Holds(pattern[1].pred, E[d[1]], <<>>)
  <2>1. 1 \in 1 .. Positives
    BY PositivesNat
  <2> QED
    BY <1>3, <2>1 DEF Path
<1>5. d[1] \in V \/ Underway(E, st.flights, d[1]) \/ Reported(E, st.out, d[1]) \/ Dead(E, d[1])
  BY <1>4 DEF Faithful
<1>6. CASE Underway(E, st.flights, d[1])
  <2>0. PICK i \in DOMAIN st.flights : \E c : Tracks(E, st.flights[i], c) /\ c[1] = d[1]
    BY <1>6 DEF Underway
  <2>1. PICK c : Tracks(E, st.flights[i], c) /\ c[1] = d[1]
    BY <2>0
  <2> DEFINE pm == st.flights[i]
  <2>2. pm \in InFlight
    BY StateFields DEF InFlight
  <2>3. CASE Awaited(pm).negative
    <3>1. Full(E, c) /\ pm.captures = Captured(E, c, Positives)
      BY <2>1, <2>3, AbsenceIsMatch
    <3>2. Path(E, c, Positives)
      BY <3>1 DEF Full
    <3>3. pm.captures = m
      BY <1>2, <1>3, <2>1, <3>1, <3>2, OneMatch
    <3>4. i \in done
      BY <2>2, <2>3, ConcludesAbsences
    <3> QED
      BY <1>1, <3>3, <3>4
  <2>4. CASE ~Awaited(pm).negative
    <3> DEFINE k == pm.next - 1
    <3>1. Awaits(E, c, k) /\ ~pattern[k + 1].negative
      BY <2>1, <2>4 DEF Tracks, Awaited
    <3> HIDE DEF k
    <3> QED
      BY <1>3, <2>1, <3>1, AwaitsIsOpen
  <2> QED
    BY <2>3, <2>4
<1>7. CASE Reported(E, st.out, d[1])
  <2>1. PICK c : Ends(E, c) /\ c[1] = d[1] /\ Captured(E, c, Positives) \in ToSet(st.out)
    BY <1>7 DEF Reported
  <2>2. Path(E, c, Positives)
    BY <2>1 DEF Ends
  <2>3. Captured(E, c, Positives) = m
    BY <1>2, <1>3, <2>1, <2>2, OneMatch
  <2> QED
    BY <1>1, <2>1, <2>3
<1>8. CASE Dead(E, d[1])
  <2>1. PICK c, k : Fails(E, c, k) /\ c[1] = d[1]
    BY <1>8 DEF Dead
  <2> QED
    BY <1>2, <2>1, FailsIsDead
<1>9. CASE d[1] \in V
  BY <1>2, <1>9 DEF Makes
<1> QED
  BY <1>5, <1>6, <1>7, <1>8, <1>9

\* A batch run reports the matches of the stream, no others, and misses no more than
\* it has evicted partials.
LEMMA BatchEmitsTheMatches ==
  ASSUME runtime \in Runtimes, SingleSteps, NEW E \in Seq(Event), Distinct(E)
  PROVE  /\ ToSet(Batch(E).out) \subseteq MatchesOf(E)
         /\ Cardinality(MatchesOf(E) \ ToSet(Batch(E).out)) <= Batch(E).drops["MaxInFlight"]
<1> DEFINE st == After(E)
           done == {j \in DOMAIN st.flights : ConcludesAtEnd(st.flights[j])}
           missed == MatchesOf(E) \ ToSet(Conclude(st).out)
<1>1. st \in State /\ Batch(E) = Conclude(st)
  BY BatchRun
<1>2. PICK V \in SUBSET (DOMAIN E) :
        Cardinality(V) <= st.drops["MaxInFlight"] /\ Faithful(st, E, V, DOMAIN E)
  BY RunAccounted DEF Accounted
<1> HIDE DEF st
<1>3. /\ ToSet(Conclude(st).out) = ToSet(st.out) \cup {st.flights[i].captures : i \in done}
      /\ Conclude(st).drops = st.drops
  BY <1>1, SweptMatches
<1>4. ASSUME NEW m \in ToSet(Conclude(st).out) PROVE m \in MatchesOf(E)
  <2>1. CASE m \in ToSet(st.out)
    <3>1. PICK c : Ends(E, c) /\ m = Captured(E, c, Positives)
      BY <1>2, <2>1 DEF Faithful
    <3>2. Full(E, c)
      BY <3>1, EndsIsFull
    <3> QED
      BY <3>1, <3>2, MatchesAreFull
  <2>2. ASSUME NEW i \in done, m = st.flights[i].captures PROVE m \in MatchesOf(E)
    <3>1. i \in DOMAIN st.flights /\ st.flights[i] \in InFlight
      BY <1>1, StateFields DEF InFlight
    <3>2. Awaited(st.flights[i]).negative
      BY <3>1, ConcludesAbsences
    <3>3. PICK c : Tracks(E, st.flights[i], c)
      BY <1>2, <3>1 DEF Faithful
    <3>4. Full(E, c) /\ m = Captured(E, c, Positives)
      BY <2>2, <3>2, <3>3, AbsenceIsMatch
    <3> QED
      BY <3>4, MatchesAreFull
  <2> QED
    BY <1>3, <2>1, <2>2
<1>5. \A m \in missed : \E x \in V : Makes(E, x, m)
  BY <1>1, <1>2, MissedIsEvicted
<1>6. ASSUME NEW x, NEW m, NEW k, Makes(E, x, m), Makes(E, x, k) PROVE m = k
  <2>1. PICK d : Full(E, d) /\ d[1] = x /\ m = Captured(E, d, Positives)
    BY <1>6 DEF Makes
  <2>2. PICK c : Full(E, c) /\ c[1] = x /\ k = Captured(E, c, Positives)
    BY <1>6 DEF Makes
  <2>3. Path(E, c, Positives) /\ Path(E, d, Positives)
    BY <2>1, <2>2 DEF Full
  <2> QED
    BY <2>1, <2>2, <2>3, OneMatch
<1> HIDE DEF missed
<1> DEFINE g == [m \in missed |-> CHOOSE x \in V : Makes(E, x, m)]
<1>7. \A m \in missed : g[m] \in V /\ Makes(E, g[m], m)
  BY <1>5
<1>8. g \in Injection(missed, V)
  <2>1. g \in [missed -> V]
    <3>1. g = [m \in missed |-> g[m]]
      OBVIOUS
    <3> HIDE DEF g
    <3> QED
      BY <1>7, <3>1
  <2> HIDE DEF g
  <2>2. \A m, k \in missed : g[m] = g[k] => m = k
    BY <1>6, <1>7
  <2> QED
    BY <2>1, <2>2 DEF Injection, IsInjective
<1>9. IsFiniteSet(V) /\ Cardinality(V) \in Nat
  <2>1. Len(E) \in Nat /\ DOMAIN E = 1 .. Len(E)
    OBVIOUS
  <2> QED
    BY <2>1, PositionsFinite
<1>10. Cardinality(missed) <= Cardinality(V) /\ Cardinality(missed) \in Nat
  <2> HIDE DEF g
  <2>1. IsFiniteSet(missed) /\ Cardinality(missed) <= Cardinality(V)
    BY <1>8, <1>9, FS_Injection
  <2> QED
    BY <2>1, FS_CardinalityType
<1>11. st.drops["MaxInFlight"] \in Nat
  BY <1>1, StateFields DEF DropReason
<1>12. Cardinality(missed) <= st.drops["MaxInFlight"]
  BY <1>2, <1>9, <1>10, <1>11
<1> QED
  BY <1>1, <1>3, <1>4, <1>12 DEF missed
-----------------------------------------------------------------------------
(* The runtime. *)

LEMMA ConcatDistinct ==
  ASSUME NEW s \in Seq(Event), NEW t \in Seq(Event), Distinct(s), Distinct(t),
         \A i \in 1 .. Len(s), k \in 1 .. Len(t) : s[i].rec # t[k].rec
  PROVE  Distinct(s \o t)
<1> DEFINE M == s \o t
<1>1. /\ \A i \in 1 .. Len(s) : M[i] = s[i] /\ i \in DOMAIN s
      /\ \A k \in 1 .. Len(t) : M[Len(s) + k] = t[k] /\ k \in DOMAIN t
      /\ \A i \in DOMAIN M : i \in 1 .. Len(s) \/ \E k \in 1 .. Len(t) : i = Len(s) + k
  <2>1. DOMAIN s = 1 .. Len(s) /\ DOMAIN t = 1 .. Len(t)
    OBVIOUS
  <2> QED
    BY <2>1, ConcatItems
<1> HIDE DEF M
<1>2. ASSUME NEW i \in DOMAIN M, NEW j \in DOMAIN M, M[i].rec = M[j].rec PROVE i = j
  <2>1. CASE i \in 1 .. Len(s) /\ j \in 1 .. Len(s)
    BY <1>1, <1>2, <2>1 DEF Distinct
  <2>2. ASSUME NEW k \in 1 .. Len(t), NEW l \in 1 .. Len(t), i = Len(s) + k, j = Len(s) + l PROVE i = j
    <3>1. t[k].rec = t[l].rec
      BY <1>1, <1>2, <2>2
    <3>2. k = l
      BY <1>1, <3>1 DEF Distinct
    <3> QED
      BY <2>2, <3>2
  <2>3. ASSUME NEW a \in 1 .. Len(s), NEW k \in 1 .. Len(t), M[a].rec = M[Len(s) + k].rec PROVE FALSE
    BY <1>1, <2>3
  <2> QED
    BY <1>1, <1>2, <2>1, <2>2, <2>3
<1> QED
  BY <1>2 DEF Distinct, M

\* Every record is matched once, those still buffered included.
LEMMA TimelineDistinct ==
  ASSUME CepInv, DrivenInv
  PROVE  Distinct(Timeline)
<1> DEFINE P == Buf!PopOrder(pending)
           events == EventsAt(log, P)
<1>1. /\ matched \in Seq(Event) /\ Distinct(matched)
      /\ events \in Seq(Event) /\ (pending = {} => events = <<>>)
      /\ Timeline = matched \o events
  <2>1. Buffer!PopOrder(pending) = P
    BY SamePopOrder
  <2>2. Timeline = matched \o events
    BY <2>1 DEF Timeline
  <2> QED
    BY <2>1, <2>2, BufferedEvents DEF CepInv
<1>2. ASSUME pending = {} PROVE Distinct(Timeline)
  <2> HIDE DEF events
  <2>1. Timeline = matched
    BY <1>1, <1>2
  <2> QED
    BY <1>1, <2>1
<1>3. ASSUME Reordering PROVE Distinct(Timeline)
  <2>1. Buf!OrderInv /\ SeesReleased /\ Buf!Heap(pending) /\ released \in Seq(Buf!Entry)
    BY <1>3 DEF CepInv, Buf!OrderInv, Buf!TypeOK
  <2>2. /\ P \in Seq(pending)
        /\ \A i, j \in DOMAIN P : i < j => Buf!Before(P[i], P[j])
    BY <2>1, BufferConstants, Buf!PopOrderCorrect
  <2>3. /\ pending \cap Buf!ReleasedSet = {}
        /\ \A x, y \in Buf!Known : x.rec = y.rec => x = y
    BY <2>1, BufferConstants, Buf!BufferedNotReleased, Buf!RecIdentifies
  <2>4. \A x \in pending : x.ts \in Int /\ x.seq \in Int /\ x \in Buf!Known
    BY <2>1 DEF Buf!Heap, Buf!Known
  <2> HIDE DEF P
  <2>5. /\ DOMAIN events = DOMAIN P /\ DOMAIN P = 1 .. Len(P) /\ DOMAIN events = 1 .. Len(events)
        /\ \A i \in DOMAIN P : P[i] \in pending /\ events[i].rec = P[i].rec /\ i \in Int
    <3>1. DOMAIN events = DOMAIN P /\ \A i \in DOMAIN P : events[i].rec = P[i].rec
      BY DEF EventsAt, EventAt
    <3>2. DOMAIN P = 1 .. Len(P) /\ \A i \in DOMAIN P : P[i] \in pending /\ i \in Int
      BY <2>2
    <3>3. DOMAIN events = 1 .. Len(events)
      <4> HIDE DEF events
      <4> QED
        BY <1>1
    <3> QED
      BY <3>1, <3>2, <3>3
  <2> HIDE DEF events
  <2>6. Distinct(events)
    <3> SUFFICES ASSUME NEW i \in DOMAIN P, NEW j \in DOMAIN P, events[i].rec = events[j].rec PROVE i = j
      BY <2>5 DEF Distinct
    <3>1. P[i] = P[j]
      BY <2>3, <2>4, <2>5
    <3>2. ~Buf!Before(P[i], P[j]) /\ ~Buf!Before(P[j], P[i])
      BY <2>4, <2>5, <3>1 DEF Buf!Before
    <3>3. ~(i < j) /\ ~(j < i)
      BY <2>2, <3>2
    <3> QED
      BY <2>5, <3>3
  <2>7. ASSUME NEW i \in 1 .. Len(matched), NEW k \in 1 .. Len(events) PROVE matched[i].rec # events[k].rec
    <3> SUFFICES ASSUME matched[i].rec = events[k].rec PROVE FALSE
      OBVIOUS
    <3>1. i \in DOMAIN released /\ matched[i].rec = released[i].rec
      <4>1. Len(matched) = Len(released) /\ \A j \in 1 .. Len(released) : matched[j].rec = released[j].rec
        BY <2>1 DEF SeesReleased
      <4> QED
        BY <2>1, <4>1
    <3>2. released[i] \in Buf!ReleasedSet /\ released[i] \in Buf!Known
      BY <3>1 DEF Buf!ReleasedSet, Buf!Known
    <3>3. k \in DOMAIN P /\ P[k] \in pending /\ events[k].rec = P[k].rec
      BY <2>5
    <3>4. released[i] = P[k]
      BY <2>3, <2>4, <3>1, <3>2, <3>3
    <3> QED
      BY <2>3, <3>2, <3>3, <3>4
  <2>8. Distinct(matched \o events)
    BY <1>1, <2>6, <2>7, ConcatDistinct
  <2> QED
    BY <1>1, <2>8
<1>4. ~Reordering => pending = {}
  BY DEF DrivenInv
<1> QED
  BY <1>2, <1>3, <1>4

\* No tick so far, or none over a reorder buffer and none among times that go back. A
\* tick that sweeps while earlier events wait in the buffer loses their matches: the run
\* cep_tick_over_buffer shows it, so the condition cannot be dropped.
TicksKeepTime == runtime.ticked => ~Reordering /\ InOrder

\* Such a run ends like a batch run, and a batch run emits the matches and no others.
LEMMA SafelyTickedRunsEmit ==
  ASSUME CepInv, DrivenInv, TicksKeepTime
  PROVE  EmitsExactlyTheMatches
<1> SUFFICES ASSUME \A k \in DOMAIN pattern : pattern[k].max = 1, resets = 0
             PROVE  /\ ToSet(Finished.out) \subseteq MatchesOf(Timeline)
                    /\ Cardinality(MatchesOf(Timeline) \ ToSet(Finished.out)) <= Finished.drops["MaxInFlight"]
  BY Zenon DEF EmitsExactlyTheMatches
<1>1. runtime \in Runtimes /\ SingleSteps
  BY DEF CepInv, SingleSteps
<1>2. ~EndsInBoundedRepetition
  <2> DEFINE N == Len(pattern)
  <2>1. N \in DOMAIN pattern /\ IsStep(pattern[N]) /\ pattern[N].max = 1
    <3>1. N \in Nat /\ 1 <= N /\ DOMAIN pattern = 1 .. N /\ \A k \in 1 .. N : IsStep(pattern[k])
      BY <1>1, PatternType
    <3>2. N \in 1 .. N
      BY <3>1
    <3> QED
      BY <1>1, <3>1, <3>2 DEF SingleSteps
  <2>2. ~(pattern[N].min < pattern[N].max)
    BY <2>1 DEF IsStep
  <2> QED
    BY <2>2 DEF EndsInBoundedRepetition
<1>3. TicksAreSafe
  BY <1>2 DEF TicksAreSafe, TicksKeepTime
<1>4. SameFindings(Finished, Batch(Timeline)) /\ Timeline \in Seq(Event)
  BY <1>3, FinishesLikeBatch
<1>5. Distinct(Timeline)
  BY TimelineDistinct
<1> DEFINE T == Timeline
<1>6. /\ ToSet(Batch(T).out) \subseteq MatchesOf(T)
      /\ Cardinality(MatchesOf(T) \ ToSet(Batch(T).out)) <= Batch(T).drops["MaxInFlight"]
  <2>1. T \in Seq(Event) /\ Distinct(T)
    BY <1>4, <1>5
  <2> HIDE DEF T
  <2> QED
    BY <1>1, <2>1, BatchEmitsTheMatches
<1>7. ToSet(Finished.out) = ToSet(Batch(T).out) /\ Finished.drops["MaxInFlight"] = Batch(T).drops["MaxInFlight"]
  BY <1>4 DEF SameFindings
<1> HIDE DEF T
<1>8. /\ ToSet(Finished.out) \subseteq MatchesOf(T)
      /\ Cardinality(MatchesOf(T) \ ToSet(Finished.out)) <= Finished.drops["MaxInFlight"]
  BY <1>6, <1>7
<1> QED
  BY <1>8 DEF T

\* A runtime that push_at and flush alone have driven, through the reorder buffer or past
\* it, reports the matches a pattern without repetitions has in the accepted events,
\* taken in event-time order: nothing else, and whatever is missing was evicted from the
\* partials in flight and is counted. MatchesOf says which matches without the engine.
THEOREM UntickedRunEmitsTheMatches == Spec => [](~runtime.ticked => EmitsExactlyTheMatches)
<1>1. CepInv /\ DrivenInv => (~runtime.ticked => EmitsExactlyTheMatches)
  BY SafelyTickedRunsEmit DEF TicksKeepTime
<1> QED
  BY <1>1, DrivenInvariant, PTL

\* So does a runtime that tick drives too, at whatever moments, if it has no reorder
\* buffer and the times of its events and ticks never go back.
THEOREM TickedRunInTimeOrderEmitsTheMatches == Spec => [](~Reordering /\ InOrder => EmitsExactlyTheMatches)
<1>1. CepInv /\ DrivenInv => (~Reordering /\ InOrder => EmitsExactlyTheMatches)
  BY SafelyTickedRunsEmit DEF TicksKeepTime
<1> QED
  BY <1>1, DrivenInvariant, PTL
=============================================================================
