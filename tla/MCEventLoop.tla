----------------------------- MODULE MCEventLoop -----------------------------
(* A small instance of EventLoop for TLC. *)
EXTENDS EventLoop
=============================================================================
