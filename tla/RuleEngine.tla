----------------------------- MODULE RuleEngine -----------------------------
(* tflo-cel's RuleEngine: rules read from a file or added one by one, and    *)
(* the routers that ask it.  A rule is known by its name; its condition is   *)
(* the set of items it holds for (on the others it is false, not a boolean,  *)
(* or fails: no match), or None if it does not compile.                      *)
EXTENDS Integers, Sequences, SequencesExt, FiniteSets

CONSTANTS Files,        \* files: sequences of rules, or None if it cannot be read or parsed
          Extra,        \* rules that are added by hand
          RoutedItems,  \* the items that are routed
          Unset,        \* i32::MAX, the priority of a rule without one
          MaxRules,     \* bound on the rules in the engine
          None

VARIABLES rules,        \* the rules, in the order in which they are asked
          file, added,  \* the last file loaded, and the rules added since
          routed        \* the last answers: of evaluate, evaluate_first and the two routers
vars == <<rules, file, added, routed>>

Init == rules = <<>> /\ file = <<>> /\ added = <<>> /\ routed = None

Matches(rule, item) == item \in rule.condition
Priority(rule) == IF rule.priority = None THEN Unset ELSE rule.priority
\* A stable sort: positions, by priority and then as they were.
Sorted(seq) ==
  LET Before(a, b) == \/ Priority(seq[a]) < Priority(seq[b])
                      \/ Priority(seq[a]) = Priority(seq[b]) /\ a < b
      order == SetToSortSeq(DOMAIN seq, Before)
  IN [k \in DOMAIN seq |-> seq[order[k]]]

\* CompiledRule::new, and add_rule: the new rule is asked last.
AddRule ==
  /\ \E rule \in Extra :
       /\ Len(rules) < MaxRules /\ rule.condition # None
       /\ rules' = Append(rules, rule) /\ added' = Append(added, rule)
  /\ routed' = None /\ UNCHANGED file

(* from_config compiles every rule, in the order of the file and whatever    *)
(* its enabled flag says, and sorts; reload replaces all the rules or none.  *)
FromConfig(config) ==
  IF \E k \in DOMAIN config : config[k].condition = None THEN None ELSE Sorted(config)
Reload ==
  /\ \E config \in Files :
       LET loaded == IF config = None THEN None ELSE FromConfig(config)
       IN IF loaded = None THEN UNCHANGED <<rules, file, added>>
          ELSE rules' = loaded /\ file' = config /\ added' = <<>>
  /\ routed' = None

Evaluate(item) == SelectSeq(rules, LAMBDA rule : Matches(rule, item))
EvaluateFirst(item) ==
  LET k == SelectInSeq(rules, LAMBDA rule : Matches(rule, item)) IN IF k = 0 THEN None ELSE rules[k]
\* The plain router passes on each item with its matches, the other one those that have some.
Route ==
  /\ \E item \in RoutedItems :
       routed' = [item |-> item, all |-> Evaluate(item), first |-> EvaluateFirst(item),
                  passed |-> Evaluate(item) # <<>>, by |-> rules]
  /\ UNCHANGED <<rules, file, added>>

Next == AddRule \/ Reload \/ Route
Spec == Init /\ [][Next]_vars

-----------------------------------------------------------------------------
\* Where the rule of position k of the file is to be asked.
Rank(k) ==
  Cardinality({m \in DOMAIN file : \/ Priority(file[m]) < Priority(file[k])
                                   \/ Priority(file[m]) = Priority(file[k]) /\ m <= k})

(* The rules in force are those of the last file that loaded as a whole, by  *)
(* priority and otherwise as written, and then those added since; an item is *)
(* routed by exactly those that match it, in that order.                     *)
RulesFollowTheirFile ==
  /\ Len(rules) = Len(file) + Len(added)
  /\ \A k \in DOMAIN file : rules[Rank(k)] = file[k]
  /\ \A k \in DOMAIN added : rules[Len(file) + k] = added[k]
  /\ routed # None =>
       /\ \A rule \in ToSet(routed.by) : rule \in ToSet(routed.all) <=> Matches(rule, routed.item)
       /\ routed.passed <=> routed.first # None
       /\ routed.passed => routed.first = routed.all[1]
=============================================================================
