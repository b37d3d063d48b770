---------------------------- MODULE MCRoleLogin ----------------------------
(* Model-checking instance of RoleLogin. *)
EXTENDS RoleLogin, FiniteSets, TLC

Symmetry == Permutations(Users) \union Permutations(Sessions)

Active == {s \in Sessions : at[s] # "out"}

\* With progress or a fault there is one session at a time, there are two ids, and
\* the leaderboard has not been saved.
Bound ==
    \/ /\ faults = 0
       /\ \A i \in Ids : roleMap[i].progress = NoProgress /\ saved[i] = NoProgress
    \/ Cardinality(Active) <= 1 /\ lockNextId <= 2 /\ boardDoc = {}
=============================================================================
