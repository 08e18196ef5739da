---------------------------- MODULE MCCepRuntime ----------------------------
(***************************************************************************)
(* Small instances of CepRuntime. An event is a pair of a kind and an      *)
(* identifier; a predicate asks for a kind and may also ask for the        *)
(* identifier of the first captured event (cross-step correlation).        *)
(***************************************************************************)
EXTENDS CepRuntime

MCEvents == {<<"a", 1>>, <<"a", 2>>, <<"b", 1>>, <<"c", 1>>}
MCKinds == {<<"a", 1>>, <<"b", 1>>, <<"c", 1>>}
MCFewEvents == {<<"a", 1>>, <<"b", 1>>}
MCTimes == 0 .. 3
MCTimeMin == -9
MCFewTimes == 0 .. 1

Kind(k) == [kind |-> k, same |-> FALSE]
SameId(k) == [kind |-> k, same |-> TRUE]

MCEvaluate(p, event, captures) ==
  event[1] = p.kind /\ (p.same => event[2] = captures[1][2])

\* Pattern::then, not_then, and the modifiers within, next, times, not_between.
Then(p) ==
  [pred |-> p, within |-> None, negative |-> FALSE, next |-> FALSE, min |-> 1, max |-> 1,
   forbidden |-> None]
Within(step, ms) == [step EXCEPT !.within = ms]
NotThen(p, ms) == [Then(p) EXCEPT !.negative = TRUE, !.within = ms]
Adjacent(step) == [step EXCEPT !.next = TRUE]
Times(step, lo, hi) == [step EXCEPT !.min = lo, !.max = hi]
Guarded(step, p) == [step EXCEPT !.forbidden = p]

A == Then(Kind("a"))
B == Then(Kind("b"))
C == Then(Kind("c"))

Abandoned == <<A, NotThen(SameId("b"), 1)>>

MCPlainPatterns == {
  Abandoned,
  <<A>>,
  <<A, Within(A, 1)>>,
  <<A, Guarded(Within(B, 2), Kind("c"))>>,
  <<A, Adjacent(Then(SameId("b")))>>,
  <<A, Within(B, 2), NotThen(Kind("c"), 1)>>}

MCRepeatPatterns == {
  <<A, Times(B, 1, 2), Within(C, 1)>>,
  <<A, Adjacent(Times(B, 2, 2)), NotThen(Kind("c"), 1)>>,
  <<A, Within(Guarded(Times(A, 1, 2), Kind("c")), 2), B>>,
  <<A, Times(B, 1, 2)>>}

MCPatterns == MCPlainPatterns \cup MCRepeatPatterns

MCReorderPatterns == {
  Abandoned,
  <<A, Within(B, 1), C>>,
  <<A, Guarded(B, Kind("c"))>>,
  <<A, Times(B, 1, 2), C>>}

MCTickPatterns == {
  Abandoned,
  <<A, Within(B, 1), NotThen(Kind("a"), 1)>>,
  <<A, Within(Times(B, 1, 2), 1)>>}

\* A runtime of each pattern, with or without a reorder buffer and ticks.
DrivenRuntimes(patterns, reordering, inOrder, ticked, events) ==
  {[pattern |-> p, reordering |-> reordering, inOrder |-> inOrder, ticked |-> ticked, events |-> events] :
     p \in patterns}

\* In order and ticked; and shuffled behind the buffer, where only events move time.
MCMatching ==
  DrivenRuntimes(MCPatterns, FALSE, TRUE, TRUE, MCEvents)
   \cup DrivenRuntimes(MCReorderPatterns, TRUE, FALSE, FALSE, MCKinds)
MCTicked == DrivenRuntimes(MCTickPatterns, TRUE, FALSE, TRUE, MCKinds)
MCTickOverBuffer == DrivenRuntimes({Abandoned}, TRUE, TRUE, TRUE, MCFewEvents)
=============================================================================
