---------------------------- MODULE MCNodeContext ----------------------------
(* A small instance of NodeContext for TLC. *)
EXTENDS NodeContext
=============================================================================
