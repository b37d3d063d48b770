------------------------------ MODULE OrderedMap ------------------------------
(***************************************************************************)
(* What mdzset.SortedSet promises: a map from keys to scores in a definite *)
(* order, best score first and then by key, with a limit on its size.      *)
(* SortedSet implements it.                                                *)
(***************************************************************************)
EXTENDS Integers, FiniteSets, Sequences

CONSTANTS Keys,       \* integers, as the game's role ids
          Scores,
          Bounds,     \* ends of ranges of scores
          Absent,     \* no entry
          Limit,      \* capacity, or 0 for none
          LargeFirst  \* order of the scores

VARIABLE dict

Present == {k \in Keys : dict[k] # Absent}

Better(s, t) == IF LargeFirst THEN s > t ELSE s < t

Precedes(j, k) == Better(dict[j], dict[k]) \/ (dict[j] = dict[k] /\ j < k)

\* How many entries come before a key's, and the keys in their order.
Place(k) == Cardinality({j \in Present : Precedes(j, k)})

Size == Cardinality(Present)

Order == [i \in 1..Size |-> CHOOSE k \in Present : Place(k) = i - 1]

Init == dict = [k \in Keys |-> Absent]

Full == Limit # 0 /\ Size >= Limit

Put(k, s) == dict' = [dict EXCEPT ![k] = s]

\* A new key enters a full map in place of the last one, and only if it is
\* better.
Add(k, s) ==
    \/ /\ k \in Present \/ ~Full
       /\ Put(k, s)
    \/ /\ k \notin Present /\ Full
       /\ LET last == Order[Size] IN
          IF Better(s, dict[last])
          THEN dict' = [dict EXCEPT ![last] = Absent, ![k] = s]
          ELSE UNCHANGED dict

Update(k, s) == k \in Present /\ Put(k, s)

Drop(gone) == dict' = [k \in Keys |-> IF k \in gone THEN Absent ELSE dict[k]]

\* Entries count from 0, negative numbers from the end.  The number before the
\* first entry's stands for the first entry as a start, and for the last as a
\* stop, like every number below it; a start below it is beyond the last entry.
RemoveByRank(i, j) ==
    LET number(n) == IF n < 0 THEN Size + n ELSE n
        first == IF number(i) < -1 THEN Size ELSE number(i)
        last  == IF number(j) < 0 THEN Size - 1 ELSE number(j)
    IN Drop({k \in Present : Place(k) \in first..last})

\* Numbers of entries: a few on either side of both ends.
Numbers == {-(Size + 2), -(Size + 1), -1} \union 0..Size

\* Ranges of scores, with or without their ends.
Ranges == [min : Bounds, max : Bounds, minEx : BOOLEAN, maxEx : BOOLEAN]

InRange(range) ==
    {k \in Present : /\ IF range.minEx THEN dict[k] > range.min ELSE dict[k] >= range.min
                     /\ IF range.maxEx THEN dict[k] < range.max ELSE dict[k] <= range.max}

Next ==
    \/ \E k \in Keys, s \in Scores : Add(k, s) \/ Update(k, s)
    \/ \E k \in Keys : Drop({k})
    \/ \E i, j \in Numbers : RemoveByRank(i, j)
    \/ \E range \in Ranges : Drop(InRange(range))

Spec == Init /\ [][Next]_dict
===============================================================================
