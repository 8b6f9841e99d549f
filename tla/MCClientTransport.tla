-------------------------- MODULE MCClientTransport --------------------------
(* Small instances of ClientTransport for TLC. *)
EXTENDS ClientTransport, TLC

\* Requests and addresses are interchangeable: nothing orders them.
Symmetry == Permutations(Requests) \cup Permutations(Nodes)
=============================================================================
