------------------------- MODULE MCCheckpointLeases -------------------------
(* Coroutines on the checkpointer of one run.                              *)
EXTENDS CheckpointLeases
=============================================================================
