---------------------------- MODULE MCPlainSocket ----------------------------
(* A small instance of PlainSocket for TLC. *)
EXTENDS PlainSocket
=============================================================================
