---------------------------- MODULE MCCoroutines ----------------------------
(* A small instance of Coroutines for TLC. *)
EXTENDS Coroutines
=============================================================================
