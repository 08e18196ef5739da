--------------------------- MODULE ScriptedStreams ---------------------------
(* Iterators filtered or mapped by a script: CEL (tflo-cel), Rhai (tflo-rhai)*)
(* and Rego (tflo-rego), each in a lenient form that returns no errors and a *)
(* strict one that does.  CEL and Rhai iterators own what they run; Rego     *)
(* filters, in threads of their own, share one policy engine behind a mutex, *)
(* and so does an owner who loads and clears policies meanwhile.  What a     *)
(* script says of an item is known: "true", "false", "other" (not a boolean) *)
(* or "fails"; for Rego, the policies loaded decide, and may leave a query   *)
(* "undefined".                                                              *)
EXTENDS Naturals, Sequences, SequencesExt, FiniteSets

CONSTANTS Streams,      \* the iterators
          Kinds,        \* their kinds: [Streams -> [script, maps, strict, budget]]
          Items,        \* for each script language, what an iterator may be given
          Directories,  \* directories of policies, as sequences of files
          MaxItems,     \* bound on the items of all iterators
          MaxChanges,   \* bound on the owner's changes of the policies
          None

VARIABLES kind,         \* the kind of each iterator
          at, item,     \* where it is, and the item it has taken
          policies,     \* the policies in the engine: "default" denies what no other decides,
                        \* "failing" cannot be evaluated, and the others each allow one item
          input,        \* the engine's input document
          holder,       \* the stream that holds the engine's mutex
          poisoned,     \* a holder of the mutex has panicked
          out,          \* what each iterator has returned
          eval_errors, eval_timeouts,
          taken,        \* the number of items taken
          judged,       \* for each item taken: what its script says of it, and whether that took too long
          changes
vars == <<kind, at, item, policies, input, holder, poisoned, out, eval_errors, eval_timeouts, judged, taken, changes>>

Init ==
  /\ kind \in Kinds
  /\ at = [s \in Streams |-> "idle"] /\ item = [s \in Streams |-> None]
  /\ policies = {} /\ input = None /\ holder = None /\ poisoned = FALSE
  /\ out = [s \in Streams |-> <<>>] /\ judged = [s \in Streams |-> <<>>]
  /\ eval_errors = [s \in Streams |-> 0] /\ eval_timeouts = [s \in Streams |-> 0]
  /\ taken = 0 /\ changes = 0

Goes(s, to) == at' = [at EXCEPT ![s] = to]
Counts(counters, s, yes) == [counters EXCEPT ![s] = IF yes THEN @ + 1 ELSE @]
\* An answer tells which item of the iterator it is for.
Answers(s, result) == out' = [out EXCEPT ![s] = Append(@, [of |-> Len(judged[s]) + 1, result |-> result])]
Judges(s, says, late) == judged' = [judged EXCEPT ![s] = Append(@, [says |-> says, late |-> late])]
Refused(says) == says \in {"other", "fails"}

\* next begins by taking an item, and ends when the source does.
Take(s) ==
  /\ at[s] = "idle" /\ taken < MaxItems /\ taken' = taken + 1
  /\ \E i \in Items[kind[s].script] : item' = [item EXCEPT ![s] = i]
  /\ Goes(s, IF kind[s].script = "rego" THEN "waiting" ELSE "running")
  /\ UNCHANGED <<kind, policies, input, holder, poisoned, out, eval_errors, eval_timeouts, judged, changes>>

-----------------------------------------------------------------------------
(* CEL and Rhai: the loop of next, once around.  Only CEL's strict filter    *)
(* has a budget and counters; a late result counts, and is used.             *)
FilterItem(s, says) ==
  CASE says = "true" -> Answers(s, "item")
    [] says = "false" -> UNCHANGED out
    [] OTHER -> IF kind[s].strict THEN Answers(s, "error") ELSE UNCHANGED out
MapItem(s, says) ==
  IF says # "fails" THEN Answers(s, says)
  ELSE Answers(s, IF kind[s].strict THEN "error" ELSE "unit")
RunScript(s) ==
  /\ at[s] = "running" /\ Goes(s, "idle")
  /\ IF kind[s].maps THEN MapItem(s, item[s]) ELSE FilterItem(s, item[s])
  /\ \E late \in IF kind[s].budget = None THEN {FALSE} ELSE BOOLEAN :
       /\ Judges(s, item[s], late)
       /\ eval_timeouts' = Counts(eval_timeouts, s, late)
  /\ eval_errors' = Counts(eval_errors, s, kind[s].script = "cel" /\ kind[s].strict /\ Refused(item[s]))
  /\ UNCHANGED <<kind, taken, item, policies, input, holder, poisoned, changes>>

-----------------------------------------------------------------------------
(* Rego: the outcome of evaluate, and what the two filters make of it.       *)
Decide(s, outcome) ==
  /\ CASE outcome = "true" -> Answers(s, "item")
       [] outcome = "false" -> UNCHANGED out
       [] OTHER -> IF kind[s].strict THEN Answers(s, "error") ELSE UNCHANGED out
  /\ eval_errors' = Counts(eval_errors, s, ~kind[s].strict /\ outcome = "fails")
  /\ eval_timeouts' = Counts(eval_timeouts, s, ~kind[s].strict /\ outcome = "timed out")

\* eval_query, for an item under the policies loaded; without a default an item
\* that none of them allows leaves the query undefined.
EvalQuery(i) ==
  IF "failing" \in policies THEN "fails"
  ELSE IF i \in policies THEN "true"
  ELSE IF "default" \in policies THEN "false" ELSE "undefined"
\* extract_bool: an undefined query has no result, and that denies.
ExtractBool(result) == IF result = "undefined" THEN "false" ELSE result

(* The engine's mutex is held from the lock to the end of the query.         *)
Lock(s) ==
  /\ at[s] = "waiting" /\ holder = None
  /\ IF poisoned
     THEN Goes(s, "idle") /\ Decide(s, "fails") /\ Judges(s, "fails", FALSE) /\ UNCHANGED holder
     ELSE Goes(s, "locked") /\ holder' = s /\ UNCHANGED <<out, eval_errors, eval_timeouts, judged>>
  /\ UNCHANGED <<kind, taken, item, policies, input, poisoned, changes>>
WrongSetInput(s) ==
  /\ at[s] = "locked" /\ Goes(s, "query")
  /\ input' = item[s] /\ holder' = None
  /\ UNCHANGED <<kind, taken, item, policies, poisoned, out, eval_errors, eval_timeouts, judged, changes>>
SetInput(s) ==
  /\ at[s] = "locked" /\ Goes(s, "query")
  /\ input' = item[s]
  /\ UNCHANGED <<kind, taken, item, policies, holder, poisoned, out, eval_errors, eval_timeouts, judged, changes>>
(* The budget is looked at when the answer is there; with a budget of zero   *)
(* every answer is late.                                                     *)
Query(s) ==
  /\ at[s] = "query" /\ Goes(s, "idle") /\ holder' = None
  /\ \E late \in CASE kind[s].budget = None -> {FALSE} [] kind[s].budget = 0 -> {TRUE} [] OTHER -> BOOLEAN :
       /\ Decide(s, IF late THEN "timed out" ELSE ExtractBool(EvalQuery(input)))
       /\ Judges(s, EvalQuery(item[s]), late)
  /\ UNCHANGED <<kind, taken, item, policies, input, poisoned, changes>>
Panic(s) ==
  /\ at[s] = "query" /\ Goes(s, "dead") /\ holder' = None
  /\ poisoned' = TRUE
  /\ UNCHANGED <<kind, taken, item, policies, input, out, eval_errors, eval_timeouts, judged, changes>>

(* The owner.  A directory is loaded file by file up to one that does not    *)
(* parse; what was loaded before it stays.  clear makes a new engine.        *)
Broken(files) == SelectInSeq(files, LAMBDA f : f = "broken")
LoadDirectory ==
  /\ holder = None /\ ~poisoned
  /\ \E files \in Directories :
       policies' = policies \cup ToSet(IF Broken(files) = 0 THEN files ELSE SubSeq(files, 1, Broken(files) - 1))
  /\ UNCHANGED input
Clear == holder = None /\ ~poisoned /\ policies' = {} /\ input' = None
ChangePolicies ==
  /\ changes < MaxChanges /\ changes' = changes + 1
  /\ LoadDirectory \/ Clear
  /\ UNCHANGED <<kind, taken, at, item, holder, poisoned, out, eval_errors, eval_timeouts, judged>>

Next ==
  \/ \E s \in Streams : Take(s) \/ RunScript(s) \/ Lock(s) \/ SetInput(s) \/ Query(s) \/ Panic(s)
  \/ ChangePolicies

Spec == Init /\ [][Next]_vars

-----------------------------------------------------------------------------
Says(s, n) == judged[s][n].says
Late(s, n) == judged[s][n].late
\* A script denies an item by its word, a policy also by having none.
Denied(says) == says \in {"false", "undefined"}
InTime(s, n) == Late(s, n) => kind[s].script # "rego"
Results(s, n) == {out[s][k].result : k \in {k \in DOMAIN out[s] : out[s][k].of = n}}
Number(s, P(_)) == Cardinality({n \in DOMAIN judged[s] : P(n)})

(* Each item has the verdict on itself, in its turn and once: a filter lets  *)
(* it pass if the script, or the policies in force when it was evaluated,    *)
(* allow it in time, a strict stream answers for everything that is not      *)
(* denied, a map for every item, and a counter has what its filter hides     *)
(* besides denials: errors and timeouts, but no undefined query.             *)
EveryItemHasItsVerdict ==
  \A s \in Streams :
    /\ \A k, l \in DOMAIN out[s] : k < l => out[s][k].of < out[s][l].of
    /\ \A n \in DOMAIN judged[s] :
         IF kind[s].maps
         THEN Results(s, n) = {IF Says(s, n) # "fails" THEN Says(s, n) ELSE IF kind[s].strict THEN "error" ELSE "unit"}
         ELSE /\ "item" \in Results(s, n) <=> Says(s, n) = "true" /\ InTime(s, n)
              /\ kind[s].strict => (Results(s, n) = {} <=> Denied(Says(s, n)) /\ InTime(s, n))
              /\ ~kind[s].strict => "error" \notin Results(s, n)
    /\ kind[s].script = "cel" /\ kind[s].strict =>
         /\ eval_errors[s] = Number(s, LAMBDA n : Refused(Says(s, n)))
         /\ eval_timeouts[s] = Number(s, LAMBDA n : Late(s, n))
    /\ kind[s].script = "rego" /\ ~kind[s].strict =>
         /\ eval_errors[s] = Number(s, LAMBDA n : Refused(Says(s, n)) /\ ~Late(s, n))
         /\ eval_timeouts[s] = Number(s, LAMBDA n : Late(s, n))
=============================================================================
