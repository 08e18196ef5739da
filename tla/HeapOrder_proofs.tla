-------------------------- MODULE HeapOrder_proofs --------------------------
(***************************************************************************)
(* PopOrder really is the order of the heap: on every heap it lists each   *)
(* entry exactly once, smallest (ts, seq) first. And the lemmas on which   *)
(* proofs about a loop over such a list rest: the loops are written with   *)
(* FoldLeft, and a fold goes through the list one entry at a time.         *)
(***************************************************************************)
EXTENDS HeapOrder, SequencesExt, FiniteSetTheorems, FunctionTheorems,
        SequenceTheorems, WellFoundedInduction, TLAPS

\* The Ord of the heap entries is a strict order, total on a heap.
LEMMA BeforeOrder ==
  ASSUME NEW S, Heap(S)
  PROVE  /\ \A e \in S : ~Before(e, e)
         /\ \A e, f \in S : e # f => Before(e, f) \/ Before(f, e)
         /\ \A e, f, g \in S : Before(e, f) /\ Before(f, g) => Before(e, g)
BY DEF Heap, Before

\* An entry popped earlier has a smaller rank, and ranks fit the output list.
LEMMA RankStrict ==
  ASSUME NEW S, Heap(S)
  PROVE  /\ \A e \in S : Rank(S, e) \in 1 .. Cardinality(S)
         /\ \A e, f \in S : Before(e, f) => Rank(S, e) < Rank(S, f)
<1> DEFINE Smaller(e) == {g \in S : Before(g, e)}
<1>0. IsFiniteSet(S) /\ Cardinality(S) \in Nat
  BY FS_CardinalityType DEF Heap
<1>1. ASSUME NEW e \in S
      PROVE  IsFiniteSet(Smaller(e)) /\ Cardinality(Smaller(e)) \in Nat
  BY <1>0, FS_Subset, FS_CardinalityType, Smaller(e) \in SUBSET S
<1>2. ASSUME NEW e \in S
      PROVE  Rank(S, e) \in 1 .. Cardinality(S)
  <2>1. Smaller(e) \in SUBSET S /\ e \notin Smaller(e)
    BY BeforeOrder
  <2>2. Cardinality(Smaller(e)) <= Cardinality(S) /\ Cardinality(Smaller(e)) # Cardinality(S)
    <3>1. Smaller(e) # S
      BY <2>1
    <3>2. QED BY <1>0, <2>1, <3>1, FS_Subset
  <2>3. QED BY <1>0, <1>1, <2>2 DEF Rank
<1>3. ASSUME NEW e \in S, NEW f \in S, Before(e, f)
      PROVE  Rank(S, e) < Rank(S, f)
  <2>1. Smaller(e) \in SUBSET Smaller(f)
    BY <1>3, BeforeOrder
  <2>2. Smaller(e) # Smaller(f)
    <3>1. e \in Smaller(f) /\ e \notin Smaller(e)
      BY <1>3, BeforeOrder
    <3>2. QED BY <3>1
  <2>3. IsFiniteSet(Smaller(f))
    BY <1>1
  <2>4. Cardinality(Smaller(e)) <= Cardinality(Smaller(f))
        /\ (Cardinality(Smaller(f)) = Cardinality(Smaller(e)) => Smaller(f) = Smaller(e))
    BY <2>1, <2>3, FS_Subset
  <2>5. Cardinality(Smaller(e)) < Cardinality(Smaller(f))
    <3>1. Cardinality(Smaller(e)) \in Nat /\ Cardinality(Smaller(f)) \in Nat
      BY <1>1
    <3>2. Cardinality(Smaller(e)) # Cardinality(Smaller(f))
      BY <2>2, <2>4
    <3> HIDE DEF Smaller
    <3>3. QED BY <2>4, <3>1, <3>2
  <2>6. QED BY <1>1, <2>5 DEF Rank
<1>4. QED BY <1>2, <1>3

\* Every position of the output list is the rank of some entry.
LEMMA RankOnto ==
  ASSUME NEW S, Heap(S), NEW i \in 1 .. Cardinality(S)
  PROVE  \E e \in S : Rank(S, e) = i
<1> DEFINE n == Cardinality(S)
           r == [e \in S |-> Rank(S, e)]
<1>1. n \in Nat /\ IsFiniteSet(S)
  BY FS_CardinalityType DEF Heap
<1>2. r \in [S -> 1 .. n]
  BY RankStrict
<1>3. \A e, f \in S : r[e] = r[f] => e = f
  <2> SUFFICES ASSUME NEW e \in S, NEW f \in S, r[e] = r[f], e # f
               PROVE  FALSE
    OBVIOUS
  <2>1. Before(e, f) \/ Before(f, e)
    BY BeforeOrder
  <2>2. Rank(S, e) < Rank(S, f) \/ Rank(S, f) < Rank(S, e)
    BY <2>1, RankStrict
  <2>3. Rank(S, e) = Rank(S, f) /\ Rank(S, e) \in Int
    BY RankStrict
  <2>4. QED BY <2>2, <2>3
<1>4. r \in Injection(S, 1 .. n)
  BY <1>2, <1>3, Fun_IsInj
<1>5. IsFiniteSet(1 .. n) /\ Cardinality(1 .. n) = n
  BY <1>1, FS_Interval
<1>6. r \in Surjection(S, 1 .. n)
  BY <1>4, <1>5, FS_Injection
<1>7. \A j \in 1 .. n : \E e \in S : r[e] = j
  BY <1>6 DEF Surjection
<1>8. QED BY <1>7

\* Emptying a heap lists each entry once, in (ts, seq) order.
THEOREM PopOrderCorrect ==
  ASSUME NEW S, Heap(S)
  PROVE  /\ PopOrder(S) \in Seq(S)
         /\ \A i, j \in DOMAIN PopOrder(S) :
              i < j => Before(PopOrder(S)[i], PopOrder(S)[j])
         /\ \A e \in S : \E i \in DOMAIN PopOrder(S) : PopOrder(S)[i] = e
<1> DEFINE n == Cardinality(S)
           out == PopOrder(S)
<1>1. n \in Nat
  BY FS_CardinalityType DEF Heap
<1>2. ASSUME NEW i \in 1 .. n
      PROVE  out[i] \in S /\ Rank(S, out[i]) = i
  BY RankOnto DEF PopOrder
<1>3. out \in [1 .. n -> S] /\ DOMAIN out = 1 .. n
  BY <1>2 DEF PopOrder
<1>4. out \in Seq(S)
  BY <1>1, <1>3
<1>5. ASSUME NEW i \in 1 .. n, NEW j \in 1 .. n, i < j
      PROVE  Before(out[i], out[j])
  <2>1. out[i] \in S /\ out[j] \in S /\ Rank(S, out[i]) = i /\ Rank(S, out[j]) = j
    BY <1>2
  <2>2. out[i] # out[j]
    BY <2>1, <1>5
  <2>3. ~Before(out[j], out[i])
    BY <2>1, <1>5, RankStrict
  <2>4. QED BY <2>1, <2>2, <2>3, BeforeOrder
<1>6. ASSUME NEW e \in S
      PROVE  \E i \in 1 .. n : out[i] = e
  <2>1. Rank(S, e) \in 1 .. n
    BY RankStrict
  <2>2. out[Rank(S, e)] \in S /\ Rank(S, out[Rank(S, e)]) = Rank(S, e)
    BY <1>2, <2>1
  <2>3. out[Rank(S, e)] = e
    <3>1. SUFFICES ASSUME out[Rank(S, e)] # e PROVE FALSE
      OBVIOUS
    <3>2. Before(out[Rank(S, e)], e) \/ Before(e, out[Rank(S, e)])
      BY <2>2, <3>1, BeforeOrder
    <3>3. QED BY <2>1, <2>2, <3>2, RankStrict
  <2>4. QED BY <2>1, <2>3
<1>7. QED BY <1>3, <1>4, <1>5, <1>6

-----------------------------------------------------------------------------
(* Folds *)

\* Every set of natural numbers that is not empty has a least element.
LEMMA LeastNumber ==
  ASSUME NEW S \in SUBSET Nat, S # {}
  PROVE  \E m \in S : \A k \in S : m <= k
<1> DEFINE R == OpToRel(<, Nat)
<1>1. IsWellFoundedOn(R, Nat)
  BY Zenon, NatLessThanWellFounded
<1>3. \A k, m \in Nat : <<k, m>> \in R <=> k < m
  BY DEF OpToRel
<1> HIDE DEF R
<1>2. PICK m \in S : \A k \in S : ~(<<k, m>> \in R)
  BY <1>1, WFMin
<1>4. \A k \in S : ~(k < m)
  BY <1>2, <1>3
<1> QED
  BY <1>4

\* Induction up to n, on a set of numbers.
LEMMA CountUp ==
  ASSUME NEW n \in Nat, NEW P, 0 \in P, \A i \in 0 .. n - 1 : i \in P => i + 1 \in P
  PROVE  0 .. n \subseteq P
<1> DEFINE Q == (0 .. n) \ P
<1> SUFFICES ASSUME Q # {} PROVE FALSE
  OBVIOUS
<1>0. Q \in SUBSET Nat
  OBVIOUS
<1> HIDE DEF Q
<1>1. PICK m \in Q : \A k \in Q : m <= k
  BY <1>0, LeastNumber
<1>2. m # 0 /\ m - 1 \in 0 .. n - 1 /\ m - 1 \notin Q
  <2>1. m \in 0 .. n /\ m \notin P
    BY <1>1 DEF Q
  <2>2. m # 0 /\ m - 1 \in 0 .. n - 1
    BY <2>1
  <2>3. ~(m <= m - 1)
    BY <2>1
  <2> QED
    BY <1>1, <2>2, <2>3
<1>3. m - 1 \in P /\ (m - 1) + 1 = m
  <2>1. m - 1 \in P
    <3>1. m - 1 \in 0 .. n
      BY <1>2
    <3> QED
      BY <1>2, <3>1 DEF Q
  <2> QED
    BY <1>0, <2>1
<1> QED
  BY <1>1, <1>2, <1>3 DEF Q

LEMMA MaxOf ==
  ASSUME NEW k \in Nat, NEW s \in SUBSET (1 .. k + 1), k + 1 \in s
  PROVE  Max(s) = k + 1
<1>1. \A y \in s : k + 1 >= y
  OBVIOUS
<1>2. \A x \in s : (\A y \in s : x >= y) => x = k + 1
  OBVIOUS
<1> QED
  BY <1>1, <1>2 DEF Max

LEMMA MaxIn ==
  ASSUME NEW n \in Nat, NEW s \in SUBSET (1 .. n), s # {}
  PROVE  Max(s) \in s
<1> DEFINE T == {n - x : x \in s}
<1>1. T \in SUBSET Nat /\ T # {}
  <2>1. \A x \in s : n - x \in Nat
    OBVIOUS
  <2> QED
    BY <2>1
<1>2. PICK m \in T : \A k \in T : m <= k
  BY <1>1, LeastNumber
<1>3. PICK x \in s : m = n - x
  BY <1>2
<1>4. \A y \in s : x >= y
  <2> SUFFICES ASSUME NEW y \in s PROVE x >= y
    OBVIOUS
  <2>1. m <= n - y
    BY <1>2
  <2> QED
    BY <1>3, <2>1
<1> QED
  BY <1>4 DEF Max

\* The function by which FoldLeft is defined exists: h[s] folds the elements of the
\* sequence whose positions are in s. It is stated for an operation that is a
\* function, and used for operators with one that agrees with them on S and E.
IsFold(h, op, base, seq, n) ==
  \A s \in SUBSET (1 .. n) :
    h[s] = IF s = {} THEN base ELSE op[<<h[s \ {Max(s)}], seq[Max(s)]>>]

LEMMA FoldExists ==
  ASSUME NEW S, NEW E, NEW op \in [S \X E -> S], NEW base \in S,
         NEW n \in Nat, NEW seq \in [1 .. n -> E]
  PROVE  \E h \in [SUBSET (1 .. n) -> S] : IsFold(h, op, base, seq, n)
<1> DEFINE P == {k \in 0 .. n : \E h \in [SUBSET (1 .. k) -> S] : IsFold(h, op, base, seq, k)}
<1>1. 0 \in P
  <2> DEFINE h == [s \in SUBSET (1 .. 0) |-> base]
  <2>1. SUBSET (1 .. 0) = {{}}
    OBVIOUS
  <2>2. h \in [SUBSET (1 .. 0) -> S] /\ IsFold(h, op, base, seq, 0)
    BY <2>1 DEF IsFold
  <2> QED
    BY <2>2
<1>2. ASSUME NEW k \in 0 .. n - 1, k \in P
      PROVE  k + 1 \in P
  <2>1. PICK h \in [SUBSET (1 .. k) -> S] : IsFold(h, op, base, seq, k)
    BY <1>2
  <2> DEFINE g == [s \in SUBSET (1 .. k + 1) |->
                    IF k + 1 \in s THEN op[<<h[s \ {k + 1}], seq[k + 1]>>] ELSE h[s]]
  <2>2. \A s \in SUBSET (1 .. k + 1) :
          /\ s \ {k + 1} \in SUBSET (1 .. k)
          /\ k + 1 \notin s => s \in SUBSET (1 .. k)
    BY <1>2
  <2>3. seq[k + 1] \in E
    BY <1>2
  <2>4. ASSUME NEW s \in SUBSET (1 .. k + 1)
        PROVE  g[s] \in S
    <3>1. CASE k + 1 \in s
      <4>1. h[s \ {k + 1}] \in S
        BY <2>2
      <4> QED
        BY <2>3, <3>1, <4>1
    <3>2. CASE k + 1 \notin s
      BY <2>2, <3>2
    <3> QED
      BY <3>1, <3>2
  <2>5. g \in [SUBSET (1 .. k + 1) -> S]
    BY <2>4
  <2>6. ASSUME NEW s \in SUBSET (1 .. k + 1)
        PROVE  g[s] = IF s = {} THEN base ELSE op[<<g[s \ {Max(s)}], seq[Max(s)]>>]
    <3>1. CASE k + 1 \in s
      <4>1. Max(s) = k + 1
        BY <1>2, <3>1, MaxOf
      <4>2. g[s \ {k + 1}] = h[s \ {k + 1}]
        <5>1. s \ {k + 1} \in SUBSET (1 .. k + 1) /\ k + 1 \notin s \ {k + 1}
          BY <2>2
        <5> QED
          BY <5>1
      <4> QED
        BY <3>1, <4>1, <4>2
    <3>2. CASE k + 1 \notin s
      <4>1. s \in SUBSET (1 .. k) /\ g[s] = h[s]
        BY <2>2, <3>2
      <4>2. s \ {Max(s)} \in SUBSET (1 .. k + 1) /\ k + 1 \notin s \ {Max(s)}
        BY <3>2, <4>1
      <4>3. g[s \ {Max(s)}] = h[s \ {Max(s)}]
        BY <4>2
      <4> HIDE DEF g
      <4> QED
        BY <2>1, <4>1, <4>3 DEF IsFold
    <3> QED
      BY <3>1, <3>2
  <2> HIDE DEF g
  <2>7. IsFold(g, op, base, seq, k + 1)
    BY <2>6 DEF IsFold
  <2> QED
    BY <1>2, <2>5, <2>7
<1> HIDE DEF P
<1>3. 0 .. n \subseteq P
  <2>1. \A i \in 0 .. n - 1 : i \in P => i + 1 \in P
    BY <1>2
  <2> QED
    BY <1>1, <2>1, CountUp
<1>4. n \in P
  <2>1. n \in 0 .. n
    OBVIOUS
  <2> QED
    BY <1>3, <2>1
<1> QED
  BY <1>4 DEF P

\* On the prefixes 1 .. i that function counts up: one element at a time, in order.
LEMMA MaxOfPrefix ==
  ASSUME NEW n \in Nat, NEW i \in 1 .. n
  PROVE  Max(1 .. i) = i
<1>1. i - 1 \in Nat /\ (1 .. i) \in SUBSET (1 .. (i - 1) + 1) /\ (i - 1) + 1 \in 1 .. i
  OBVIOUS
<1>2. Max(1 .. i) = (i - 1) + 1
  BY <1>1, MaxOf
<1> QED
  BY <1>2

LEMMA FirstNumbers ==
  ASSUME NEW n \in Nat, NEW i \in 1 .. n
  PROVE  (1 .. i) \ {i} = 1 .. i - 1 /\ (1 .. i) # {} /\ (1 .. i) \in SUBSET (1 .. n)
<1>1. i \in 1 .. i /\ (1 .. i) \in SUBSET (1 .. n)
  OBVIOUS
<1>2. (1 .. i) \ {i} = 1 .. i - 1
  OBVIOUS
<1>3. (1 .. i) # {}
  BY <1>1
<1> QED
  BY <1>1, <1>2, <1>3
=============================================================================
