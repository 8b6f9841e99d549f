--------------------------- MODULE MCServerHandler ---------------------------
(* Small instances of ServerHandler for TLC. *)
EXTENDS ServerHandler, TLC

\* Addresses are interchangeable; requests are told apart only by Large.
Symmetry == Permutations(Nodes)
=============================================================================
