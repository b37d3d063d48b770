---------------------------- MODULE MCRankManager ----------------------------
(* Model-checking instance of RankManager. *)
EXTENDS RankManager, TLC

Symmetry == Permutations(Keys) \union Permutations(Handlers)

Busy == {h \in Handlers : at[h] # "idle"}

\* A score of 2, or a role that came back with less, is only met by one handler at a
\* time and without failed updates, or by two of one role before the first flush.
Bound ==
    \/ /\ behind = {}
       /\ \A k \in Keys :
             {history[k], added[k], dirtyItems[k], list[k], db[k]} \subseteq Absent..1
    \/ Cardinality(Busy) <= 1 /\ fails = 0
    \/ shared # {} /\ saver = "idle" /\ db = Empty
=============================================================================
