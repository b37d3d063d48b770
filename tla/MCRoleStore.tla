----------------------------- MODULE MCRoleStore -----------------------------
(* Model-checking instance of RoleStore. *)
EXTENDS RoleStore, TLC

Symmetry == Permutations(Roles)
=============================================================================
