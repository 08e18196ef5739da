---------------------------- MODULE MCKeyedGraph ----------------------------
(***************************************************************************)
(* Small instances of KeyedGraph: a few records, and times far enough from *)
(* TimeMin and TimeMax that no deadline saturates.                         *)
(***************************************************************************)
EXTENDS KeyedGraph

Setup(graph_, policy_, lateness) ==
  [graph |-> graph_, policy |-> policy_, max_lateness |-> lateness]

MCTimers ==
  {Setup(<<"session", "tumbling">>, "Drop", 0), Setup(<<"pulse">>, "Error", 0),
   Setup(<<"session">>, "Buffer", -1)}
MCBuffered ==
  {Setup(<<"session">>, "Buffer", 2), Setup(<<"tumbling">>, "Buffer", 2)}
MCTumblingBuffered == {Setup(<<"tumbling">>, "Buffer", 2)}
MCTwoOutputs == {Setup(<<"session", "tumbling">>, "Error", 0)}

MCTimeMin == -9

AnyInput == {High, Low, Absent}
HighOnly == {High}

FourTimes == {0, 2, 3, 6}
SomeWatermarks == {1, 4, 8}
LateWatermarks == {6, 9}
=============================================================================
