---------------------------- MODULE MCCoroutines ----------------------------
(* An instance of Coroutines for TLC. *)
EXTENDS Coroutines, TLC

CONSTANTS shared, v, w

=============================================================================
