------------------------------ MODULE MCSortedSet ------------------------------
(* Model-checking instance of SortedSet. *)
EXTENDS SortedSet

MCAbsent == -1
===============================================================================
