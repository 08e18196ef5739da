---------------------------- MODULE PatternBuilder ----------------------------
(***************************************************************************)
(* The two builders of event patterns: Pattern, tflo-cep/src/pattern.rs,   *)
(* and its counterpart for the browser, WasmPattern,                       *)
(* tflo-cep-wasm/src/lib.rs. Each call of the fluent interface is made on  *)
(* both; emit checks the steps and hands them to the engine, CepRuntime.   *)
(* A pattern also comes as a document, CelPatternSpec, which is compiled   *)
(* by a fixed series of calls.                                             *)
(*                                                                         *)
(* A predicate is known by the call that brought it; whether a CEL         *)
(* expression compiles is chosen with the call. A step without times(..)   *)
(* is a repeat of 1 to 1, as in CepRuntime.                                *)
(***************************************************************************)
EXTENDS Integers, Sequences, SequencesExt

CONSTANTS
  MaxCalls,   \* bound of the model: calls before emit
  Bounds,     \* arguments of within
  Counts,     \* pairs of arguments of times
  Documents,  \* the documents that are compiled
  None

VARIABLES
  doc,    \* the document whose calls are made, None for a caller of his own
  calls,  \* history: the calls so far
  rust,   \* the native builder: steps, pending_forbidden, pending_error
  js,     \* the browser's: steps, pending_forbidden, auto_name_counter, thrown
  built   \* what emit returned, [rust |-> ..., js |-> ...]; None before

vars == <<doc, calls, rust, js, built>>

Init ==
  /\ doc \in Documents \cup {None}
  /\ calls = <<>>
  /\ rust = [steps |-> <<>>, pending_forbidden |-> None, pending_error |-> None]
  /\ js = [steps |-> <<>>, pending_forbidden |-> None, auto_name_counter |-> 0, thrown |-> FALSE]
  /\ built = None

-----------------------------------------------------------------------------
(* Steps.                                                                  *)

Positive(name, pred, forbidden) ==
  [name |-> name, pred |-> pred, within |-> None, negative |-> FALSE, next |-> FALSE,
   min |-> 1, max |-> 1, forbidden |-> forbidden]

Negative(name, pred) == [Positive(name, pred, None) EXCEPT !.negative = TRUE]

ReplaceFirst(steps, step) == IF steps = <<>> THEN <<step>> ELSE [steps EXCEPT ![1] = step]

\* A call that shapes the step added last; before the first it does nothing.
ChangeLast(steps, Change(_)) ==
  IF steps = <<>> THEN steps ELSE [steps EXCEPT ![Len(steps)] = Change(@)]

SetWithin(step, ms) == [step EXCEPT !.within = ms]

\* The native builder ignores next and times on a negative step, the browser
\* stores them and leaves them out when the step is handed over.
SetNext(step) == IF step.negative THEN step ELSE [step EXCEPT !.next = TRUE]

MaxOf(a, b) == IF a > b THEN a ELSE b

SetTimes(step, min, max) ==
  IF step.negative THEN step
  ELSE [step EXCEPT !.min = MaxOf(min, 1), !.max = MaxOf(max, MaxOf(min, 1))]

-----------------------------------------------------------------------------
(* The calls, on the native builder and on the browser's. c.cel is FALSE   *)
(* when the predicate is an expression that does not compile.              *)

AllocName(prefix, b) == <<prefix, Len(b.steps)>>

\* compile_cel_pred: the first error is kept for emit, the chain goes on.
CompileCelPred(b, c) ==
  IF c.cel \/ b.pending_error # None THEN b ELSE [b EXCEPT !.pending_error = c.pred]

RustWhen(b, c) ==
  [CompileCelPred(b, c) EXCEPT
     !.steps = ReplaceFirst(@, Positive(AllocName("when", b), c.pred, None))]

WrongRustThen(b, c) ==
  [CompileCelPred(b, c) EXCEPT
     !.steps = Append(@, Positive(IF c.named THEN <<"named", 0>> ELSE AllocName("then", b),
                                  c.pred, b.pending_forbidden))]

RustThen(b, c) ==
  [CompileCelPred(b, c) EXCEPT
     !.steps = Append(@, Positive(IF c.named THEN <<"named", 0>> ELSE AllocName("then", b),
                                  c.pred, b.pending_forbidden)),
     !.pending_forbidden = None]

RustNotBetween(b, c) == [CompileCelPred(b, c) EXCEPT !.pending_forbidden = c.pred]

RustNotThen(b, c) ==
  [CompileCelPred(b, c) EXCEPT
     !.steps = Append(@, Negative(IF c.named THEN <<"named", 0>> ELSE AllocName("not_then", b),
                                  c.pred))]

\* In the browser an expression that does not compile throws, and the builder,
\* which the call had taken, is gone; automatic names count themselves.
JsName(prefix, b, c) == IF c.named THEN <<"named", 0>> ELSE <<prefix, b.auto_name_counter>>

NextName(b, c) == IF c.named THEN b.auto_name_counter ELSE b.auto_name_counter + 1

Throwing(b, c) == b.thrown \/ ~c.cel

JsWhen(b, c) ==
  IF Throwing(b, c) THEN [b EXCEPT !.thrown = TRUE]
  ELSE [b EXCEPT !.steps = ReplaceFirst(@, Positive(JsName("when", b, c), c.pred, None)),
                 !.auto_name_counter = NextName(b, c)]

JsThen(b, c) ==
  IF Throwing(b, c) THEN [b EXCEPT !.thrown = TRUE]
  ELSE [b EXCEPT !.steps = Append(@, Positive(JsName("then", b, c), c.pred, b.pending_forbidden)),
                 !.pending_forbidden = None,
                 !.auto_name_counter = NextName(b, c)]

JsNotBetween(b, c) ==
  IF Throwing(b, c) THEN [b EXCEPT !.thrown = TRUE] ELSE [b EXCEPT !.pending_forbidden = c.pred]

JsNotThen(b, c) ==
  IF Throwing(b, c) THEN [b EXCEPT !.thrown = TRUE]
  ELSE [b EXCEPT !.steps = Append(@, Negative(JsName("not_then", b, c), c.pred)),
                 !.auto_name_counter = NextName(b, c)]

-----------------------------------------------------------------------------
(* emit: the first step at fault is the one that is reported.              *)

Built(steps) == [steps |-> steps, error |-> None, at |-> 0]
Refused(error, at) == [steps |-> <<>>, error |-> error, at |-> at]

AtFault(steps) ==
  {k \in DOMAIN steps : steps[k].negative /\ (steps[k].within = None \/ k < Len(steps))}

CheckSteps(steps) ==
  IF steps = <<>> THEN Refused("NoWhenStep", 0)
  ELSE IF AtFault(steps) = {} THEN Built(steps)
  ELSE LET k == CHOOSE i \in AtFault(steps) : \A j \in AtFault(steps) : i <= j
       IN  Refused(IF steps[k].within = None THEN "NotThenMissingWithin" ELSE "NotThenNotTerminal", k)

RustEmit(b) ==
  IF b.pending_error # None THEN Refused("CelCompile", b.pending_error) ELSE CheckSteps(b.steps)

JsEmit(b) == IF b.thrown THEN Refused("CelCompile", 0) ELSE CheckSteps(b.steps)

-----------------------------------------------------------------------------
(* The calls a document makes, CelPatternSpec::compile: a guard that is    *)
(* empty or missing is none, and within falls to the last step.            *)

AddStep(op, pred, cel, named) == [op |-> op, pred |-> pred, cel |-> cel, named |-> named]
Within(ms) == [op |-> "within", ms |-> ms]

GuardOf(d, i) == IF i <= Len(d.not_between) THEN d.not_between[i] ELSE ""

Script(d) ==
  <<AddStep("when", <<d.when, 0>>, d.when # "bad", FALSE)>>
  \o FlattenSeq([i \in DOMAIN d.then |->
       (IF GuardOf(d, i) = "" THEN <<>>
        ELSE <<AddStep("not_between", <<GuardOf(d, i), i>>, GuardOf(d, i) # "bad", FALSE)>>)
       \o <<AddStep("then", <<d.then[i], i>>, d.then[i] # "bad", FALSE)>>])
  \o (IF d.not_then = None THEN <<>>
      ELSE <<AddStep("not_then", <<d.not_then, 0>>, d.not_then # "bad", FALSE)>>)
  \o (IF d.within = None THEN <<>> ELSE <<Within(MaxOf(d.within, 0))>>)

-----------------------------------------------------------------------------
(* The steps of the machine: one call on both builders.                    *)

\* The caller may make any call, a document makes its own.
Offered ==
  IF doc # None
  THEN {Script(doc)[i] : i \in {Len(calls) + 1} \cap DOMAIN Script(doc)}
  ELSE IF Len(calls) = MaxCalls THEN {}
  ELSE {c \in {AddStep(op, <<"call", Len(calls)>>, cel, named) :
                 op \in {"when", "then", "not_between", "not_then"}, cel, named \in BOOLEAN} :
          c.named => c.cel /\ c.op \in {"then", "not_then"}}
       \cup {Within(ms) : ms \in Bounds}
       \cup {[op |-> "next"]} \cup {[op |-> "times", n |-> n] : n \in Counts}

Makes(c, op) == /\ built = None /\ c.op = op
                /\ calls' = Append(calls, c)
                /\ UNCHANGED <<doc, built>>

When == \E c \in Offered : Makes(c, "when") /\ rust' = RustWhen(rust, c) /\ js' = JsWhen(js, c)

Then == \E c \in Offered : Makes(c, "then") /\ rust' = RustThen(rust, c) /\ js' = JsThen(js, c)

NotBetween ==
  \E c \in Offered :
    Makes(c, "not_between") /\ rust' = RustNotBetween(rust, c) /\ js' = JsNotBetween(js, c)

NotThen ==
  \E c \in Offered :
    Makes(c, "not_then") /\ rust' = RustNotThen(rust, c) /\ js' = JsNotThen(js, c)

Shape(Change(_)) ==
  /\ rust' = [rust EXCEPT !.steps = ChangeLast(@, Change)]
  /\ js' = IF js.thrown THEN js ELSE [js EXCEPT !.steps = ChangeLast(@, Change)]

SetsWithin ==
  \E c \in Offered : Makes(c, "within") /\ Shape(LAMBDA s : SetWithin(s, c.ms))

SetsNext == \E c \in Offered : Makes(c, "next") /\ Shape(SetNext)

SetsTimes ==
  \E c \in Offered : Makes(c, "times") /\ Shape(LAMBDA s : SetTimes(s, c.n[1], c.n[2]))

Emit ==
  /\ built = None
  /\ doc # None => Len(calls) = Len(Script(doc))
  /\ built' = [rust |-> RustEmit(rust), js |-> JsEmit(js)]
  /\ UNCHANGED <<doc, calls, rust, js>>

Next == When \/ Then \/ NotBetween \/ NotThen \/ SetsWithin \/ SetsNext \/ SetsTimes \/ Emit

Spec == Init /\ [][Next]_vars

-----------------------------------------------------------------------------
(* What the calls mean, read off their history.                            *)

AddsStep(i) == calls[i].op \in {"when", "then", "not_then"}
\* when replaces the first step once there is one.
Appends(i) == AddsStep(i) /\ (calls[i].op = "when" => \A j \in 1..(i - 1) : ~AddsStep(j))
Appenders == SetToSortSeq({i \in DOMAIN calls : Appends(i)}, <)

LastOf(S) == CHOOSE i \in S : \A j \in S : j <= i
Whens == {i \in DOMAIN calls : calls[i].op = "when"}

\* The call that gave the k-th step its predicate.
Opener(k) == IF k = 1 /\ Whens # {} THEN LastOf(Whens) ELSE Appenders[k]

\* The calls of op that fell to the k-th step while it was the last one.
Shaping(k, op) ==
  {j \in DOMAIN calls : /\ calls[j].op = op
                        /\ j > Opener(k)
                        /\ k = Len(SelectSeq(Appenders, LAMBDA i : i < j))}

\* The guards given since the then before the k-th step.
Guards(k) ==
  {j \in 1..(Opener(k) - 1) : /\ calls[j].op = "not_between"
                              /\ \A i \in j..(Opener(k) - 1) : calls[i].op # "then"}

StepMeant(k) ==
  LET c == calls[Opener(k)]
      within == Shaping(k, "within")
      times  == Shaping(k, "times")
      n      == calls[LastOf(times)].n
  IN  [pred      |-> c.pred,
       negative  |-> c.op = "not_then",
       within    |-> IF within = {} THEN None ELSE calls[LastOf(within)].ms,
       next      |-> c.op # "not_then" /\ Shaping(k, "next") # {},
       min       |-> IF c.op = "not_then" \/ times = {} \/ n[1] < 1 THEN 1 ELSE n[1],
       max       |-> IF c.op = "not_then" \/ times = {} THEN 1
                     ELSE LastOf({1, n[1], n[2]}),
       forbidden |-> IF c.op # "then" \/ Guards(k) = {} THEN None
                     ELSE calls[LastOf(Guards(k))].pred]

StepsMeant == [k \in DOMAIN Appenders |-> StepMeant(k)]

BadCalls == {i \in DOMAIN calls : AddsStep(i) \/ calls[i].op = "not_between"}
              \cap {i \in DOMAIN calls : "cel" \in DOMAIN calls[i] /\ ~calls[i].cel}

Unnamed(step) == [f \in DOMAIN step \ {"name"} |-> step[f]]

\* What a document says, read off its fields.
DocumentMeans(d, steps) ==
  LET n == Len(d.then) + 1
  IN  /\ Len(steps) = n + (IF d.not_then = None THEN 0 ELSE 1)
      /\ steps[1].pred = <<d.when, 0>>
      /\ \A i \in DOMAIN d.then :
           /\ steps[i + 1].pred = <<d.then[i], i>> /\ ~steps[i + 1].negative
           /\ steps[i + 1].forbidden = IF GuardOf(d, i) = "" THEN None ELSE <<GuardOf(d, i), i>>
      /\ d.not_then # None => steps[n + 1].negative /\ steps[n + 1].pred = <<d.not_then, 0>>
      /\ \A k \in DOMAIN steps :
           steps[k].within = IF k < Len(steps) \/ d.within = None THEN None ELSE MaxOf(d.within, 0)

(* A pattern means its calls, in both tiers: emit succeeds in one exactly  *)
(* when it does in the other, refuses what a compiled pattern must not     *)
(* hold (a negative step that is unbounded or not the last) and otherwise  *)
(* returns, step for step, what the history of calls says: each guard on   *)
(* the next then and no other, each bound, contiguity and repetition on    *)
(* the step that was the last, with 1 <= min <= max, and names that tell   *)
(* the steps apart unless the caller chose them. A document's pattern is   *)
(* the one its fields describe.                                            *)
PatternsMeanTheirCalls ==
  built # None =>
    /\ (built.rust.error = None) = (built.js.error = None)
    /\ IF BadCalls # {}
       THEN /\ built.js.error = "CelCompile"
            /\ built.rust.error = "CelCompile"
            /\ \E i \in BadCalls : built.rust.at = calls[i].pred /\ \A j \in BadCalls : i <= j
       ELSE /\ built.rust.error = built.js.error /\ built.rust.at = built.js.at
            /\ (built.rust.error = None) <=>
                 /\ StepsMeant # <<>>
                 /\ \A k \in DOMAIN StepsMeant :
                      StepsMeant[k].negative => k = Len(StepsMeant) /\ StepsMeant[k].within # None
    /\ built.rust.error = None =>
         \A tier \in {"rust", "js"} :
           LET steps == built[tier].steps
           IN  /\ Len(steps) = Len(StepsMeant)
               /\ \A k \in DOMAIN steps : Unnamed(steps[k]) = StepsMeant[k]
               /\ \A k \in DOMAIN steps : 1 <= steps[k].min /\ steps[k].min <= steps[k].max
               /\ \A k, l \in DOMAIN steps :
                    steps[k].name = steps[l].name => k = l \/ steps[k].name[1] = "named"
               /\ doc # None => DocumentMeans(doc, steps)
=============================================================================
