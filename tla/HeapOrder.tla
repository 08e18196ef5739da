----------------------------- MODULE HeapOrder -----------------------------
(***************************************************************************)
(* The order in which the program's (ts, seq) heaps are emptied.           *)
(*                                                                         *)
(* ReorderBuffer (tflo-core/src/reorder.rs), the per-key out-of-order      *)
(* buffer (keyed.rs) and the timer service (timer.rs) each keep a          *)
(* BinaryHeap<Reverse<Entry>> whose Ord compares the time first and a      *)
(* monotonic sequence number second. A heap is modelled by the set of its  *)
(* entries, records with at least the fields ts and seq, and emptying it   *)
(* by the sequence PopOrder. Sequence numbers are never reused within one  *)
(* heap, so the order is total on the entries of a heap.                   *)
(***************************************************************************)
EXTENDS Integers, FiniteSets, Sequences

\* Ord for the heap entries: ts, then arrival (or registration) order.
Before(e, f) ==
  \/ e.ts < f.ts
  \/ e.ts = f.ts /\ e.seq < f.seq

\* The position at which e leaves the heap when all of S is popped.
Rank(S, e) == Cardinality({f \in S : Before(f, e)}) + 1

\* while let Some(e) = heap.pop() { out.push(e) }
PopOrder(S) == [i \in 1 .. Cardinality(S) |-> CHOOSE e \in S : Rank(S, e) = i]

\* heap.peek(): the entry that is popped next.
Earliest(S) == CHOOSE e \in S : \A f \in S \ {e} : Before(e, f)

\* A heap whose order is total: what every user of this module maintains.
Heap(S) ==
  /\ IsFiniteSet(S)
  /\ \A e \in S : e.ts \in Int /\ e.seq \in Int
  /\ \A e, f \in S : e.seq = f.seq => e = f
=============================================================================
