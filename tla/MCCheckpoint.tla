---------------------------- MODULE MCCheckpoint ----------------------------
(***************************************************************************)
(* Small instances of Checkpoint: two keys that share the breaker, and one *)
(* key to show what the code does not promise.                             *)
(***************************************************************************)
EXTENDS Checkpoint

CONSTANTS k1, k2

OneKey == {k1}
TwoKeys == {k1, k2}
NoLeg == {}
StateLeg == {"state"}
=============================================================================
