-------------------------- MODULE MCReorderBuffer --------------------------
(***************************************************************************)
(* A small instance of ReorderBuffer: four timestamps, one of them the     *)
(* least representable time, so that the watermark saturates there.        *)
(***************************************************************************)
EXTENDS ReorderBuffer

MCTimestamps == {-1, 1, 2, 3}
MCTimeMin == -1
\* Every instant at which a driver can be asked to wake.
MCAllClocks == -1 .. 5
=============================================================================
