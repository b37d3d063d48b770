---------------------------- MODULE MCConnections ----------------------------
(* Model-checking instance of Connections. *)
EXTENDS Connections, TLC

Symmetry == Permutations(Conns) \union Permutations(Users)
=============================================================================
