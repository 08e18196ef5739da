---------------------------- MODULE GraphPrograms -----------------------------
(* Programs for ComputeGraph, and the closures they use.                     *)
EXTENDS Computed

CONSTANT None

Node(kind, inputs, f, init, saved) ==
  [kind |-> kind, inputs |-> inputs, f |-> f, init |-> init, saved |-> saved]
Prop == Node("prop", <<>>, "value", Zero, FALSE)
Plain(kind, inputs, f) == Node(kind, inputs, f, Zero, FALSE)
Kept(kind, inputs, f) == Node(kind, inputs, f, Zero, TRUE)

Allv(a) == \A i \in DOMAIN a : a[i].ok
Both(v) == <<v, Ok(v)>>
ClosureOf(f, a) ==
  CASE f = "value"    -> a[1]
    [] f = "minus"    -> Sub(a[1], a[2])
    [] f = "positive" -> Less(Zero, a[1])
    [] f = "small"    -> IF AtMost(a[1], Q(2)) THEN <<a[1]>> ELSE <<>>
    [] f = "total"    -> Both(Add(a[1], a[2]))
    [] f = "dot"      -> Both(Add(a[1], Mul(a[2], a[3])))
    [] f = "absences" -> IF a[2].ok THEN <<a[1], Ok(a[1])>> ELSE Both(Add(a[1], Q(1)))
    [] f = "previous" -> IF a[2].ok THEN <<a[2].v, Ok(a[1])>> ELSE <<a[1], a[2]>>
    [] f = "flip"     -> IF a[1].ok THEN Ok(Neg(a[1].v)) ELSE a[1]
    [] f = "sum"      -> IF Allv(a) THEN Ok(SumSeq([i \in DOMAIN a |-> a[i].v])) ELSE Err("FilteredOut")
    [] f = "count"    -> Ok(Add(a[1].v, IF a[2].ok THEN Q(1) ELSE Zero))

(* Graphs of every kind of node, two that differ only in what a plugin       *)
(* computes, and one that cannot be checkpointed.                            *)
Running ==
  [nodes |-> <<Prop, Kept("scan", <<0>>, "total"), Plain("map2", <<1, 0>>, "minus")>>,
   outputs |-> <<2>>, warmup |-> 1]
Filtered ==
  [nodes |-> <<Node("const", <<>>, "none", Q(1), FALSE), Prop, Plain("filter", <<1>>, "positive"),
               Plain("filter_map", <<2>>, "small"), Kept("scan2", <<3, 1>>, "dot"),
               Kept("plugin", <<3>>, "absences")>>,
   outputs |-> <<5, 4>>, warmup |-> 1]
Previous == [nodes |-> <<Prop, Kept("plugin", <<0>>, "previous")>>, outputs |-> <<1>>, warmup |-> 2]
Counting == [Previous EXCEPT !.nodes[2].f = "absences"]
Opaque   == [Running EXCEPT !.nodes[2].saved = FALSE]

Over(kind, f) == [kind |-> kind, f |-> f, init |-> Ok(Zero)]
Program(left, over_left, right, over_right, over, stamped) ==
  [left |-> left, over_left |-> over_left, right |-> right, over_right |-> over_right,
   over |-> over, stamped |-> stamped]
Single(base) == Program(base, <<>>, None, <<>>, <<>>, TRUE)

PlainPrograms ==
  {Single(b) : b \in {Filtered, Running, Opaque, Previous, Counting}}
   \cup {Program(Running, <<>>, Previous, <<>>, <<>>, FALSE),
         Program(Previous, <<Over("map", "flip")>>, Running, <<>>, <<Over("map", "sum")>>, FALSE),
         Program(Running, <<Over("fold", "count")>>, Filtered, <<>>,
                 <<Over("map", "sum"), Over("fold", "count")>>, FALSE)}

(* A graph with a map is zipped to the right of another.                     *)
ZippedMaps == {Program(Previous, <<>>, Running, <<Over("map", "flip")>>, <<>>, FALSE)}
=============================================================================
