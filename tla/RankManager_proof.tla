--------------------------- MODULE RankManager_proof ---------------------------
(***************************************************************************)
(* Proofs about RankManager, for any keys, any number of handlers, any     *)
(* capacity and any bounds.                                                *)
(***************************************************************************)
EXTENDS RankManager, FiniteSetTheorems, WellFoundedInduction, TLAPS

\* A handler serves a role from its first step to its last, and two that serve
\* the same role are known.
ServingIsKnown ==
    /\ \A h \in Handlers : at[h] = "idle" <=> key[h] = NoKey
    /\ \A g, h \in Handlers :
          key[g] = key[h] /\ key[h] # NoKey => g = h \/ key[h] \in shared

\* While the board is being loaded nobody is at work, nothing is marked, and what
\* has still to be read has not been offered to the set.
LoadingIsAlone ==
    /\ \A k \in unread : db[k] # Absent /\ added[k] = Absent
    /\ unread # {} => /\ \A h \in Handlers : at[h] = "idle"
                      /\ saver = "idle"
                      /\ dirtyItems = Empty

\* An entry shows the score offered last, and no score anywhere exceeds the role's
\* own, unless the role came back with less.
ScoresAreReal ==
    \A k \in Keys :
        /\ rank[k] # Absent => rank[k] = added[k]
        /\ k \notin behind =>
              {added[k], dirtyItems[k], list[k], db[k]} \subseteq Absent..history[k]

\* A handler has the role's own score in hand until it offers it, and the entry's
\* until it marks it, unless it is disturbed by another.
HandIsRight ==
    \A h \in Handlers :
        at[h] # "idle" =>
           /\ key[h] \notin behind => score[h] <= history[key[h]]
           /\ key[h] \notin shared =>
                 /\ at[h] \in {"contains", "add"} => score[h] = history[key[h]]
                 /\ at[h] = "item" /\ rank[key[h]] # Absent => score[h] = rank[key[h]]

\* The score of a key that is or will be in the database once everything marked so
\* far is saved.
Newest(k) == IF dirtyItems[k] # Absent THEN dirtyItems[k]
             ELSE IF list[k] # Absent THEN list[k] ELSE db[k]

\* That is the score of its entry, unless a handler is about to mark it.
NewestIsMarked ==
    \A k \in Keys :
        rank[k] # Absent /\ k \notin shared \union overwritten =>
            \/ Newest(k) = rank[k]
            \/ \E h \in Handlers : key[h] = k /\ at[h] = "item"

\* What is marked is flagged, or about to be, or about to be taken; only the flush
\* that sends has a list.
MarkedIsFlagged ==
    /\ dirtyItems # Empty => \/ dirty \/ saver = "swap"
                             \/ \E h \in Handlers : at[h] = "flag"
    /\ saver # "send" => list = Empty

\* The set is finite and holds the best.
BestAreIn ==
    /\ IsFiniteSet(Present(rank)) /\ Cardinality(Present(rank)) <= Capacity
    /\ shared \union behind = {} =>
          \A k \in Keys : added[k] # Absent /\ rank[k] = Absent =>
             /\ Cardinality(Present(rank)) = Capacity
             /\ \A j \in Keys : rank[j] # Absent => rank[j] >= added[k]

\* The inductive invariant.
Served == ServingIsKnown /\ LoadingIsAlone
Right  == ScoresAreReal /\ HandIsRight
IInv   == TypeOK /\ Served /\ Right /\ NewestIsMarked /\ MarkedIsFlagged /\ BestAreIn

-----------------------------------------------------------------------------
USE RankManagerAssumption

\* What Add does to a set with room, to one that has the key, and to a full one.
LEMMA AddToEffect ==
    ASSUME NEW set \in [Keys -> Entry], NEW k \in Keys, NEW s \in Entry, s # Absent,
           IsFiniteSet(Present(set)), Cardinality(Present(set)) <= Capacity,
           NEW new \in AddTo(set, k, s)
    PROVE  /\ new \in [Keys -> Entry]
           /\ IsFiniteSet(Present(new)) /\ Cardinality(Present(new)) <= Capacity
           /\ \/ /\ set[k] # Absent
                 /\ new = [set EXCEPT ![k] = s]
                 /\ Cardinality(Present(new)) = Cardinality(Present(set))
              \/ /\ set[k] = Absent /\ Cardinality(Present(set)) < Capacity
                 /\ new = [set EXCEPT ![k] = s]
              \/ /\ set[k] = Absent /\ Cardinality(Present(set)) = Capacity
                 /\ new = set
                 /\ \A j \in Keys : set[j] # Absent => set[j] >= s
              \/ /\ set[k] = Absent /\ Cardinality(Present(set)) = Capacity
                 /\ Cardinality(Present(new)) = Capacity
                 /\ \E j \in Keys :
                       /\ set[j] # Absent /\ set[j] < s
                       /\ \A i \in Keys : set[i] # Absent => set[j] <= set[i]
                       /\ new = [set EXCEPT ![j] = Absent, ![k] = s]
<1> DEFINE P == Present(set)
<1>1. Cardinality(P) \in Nat
  BY FS_CardinalityType
<1>2. CASE set[k] # Absent
  <2>1. new = [set EXCEPT ![k] = s]
    BY <1>2 DEF AddTo, Present
  <2>2. Present(new) = P
    BY <1>2, <2>1 DEF Present
  <2>3. QED
    BY <1>2, <2>1, <2>2
<1>3. CASE set[k] = Absent /\ Cardinality(P) < Capacity
  <2>1. new = [set EXCEPT ![k] = s]
    BY <1>3 DEF AddTo
  <2>2. Present(new) = P \cup {k} /\ k \notin P
    BY <1>3, <2>1 DEF Present
  <2>3. IsFiniteSet(Present(new)) /\ Cardinality(Present(new)) = Cardinality(P) + 1
    BY <2>2, FS_AddElement
  <2>4. QED
    BY <1>1, <1>3, <2>1, <2>3
<1>4. CASE set[k] = Absent /\ ~(Cardinality(P) < Capacity)
  <2>1. Cardinality(P) = Capacity
    BY <1>1, <1>4
  <2>2. PICK j \in Last(set) :
            new = IF set[j] >= s THEN set ELSE [set EXCEPT ![j] = Absent, ![k] = s]
    BY <1>4 DEF AddTo, Present
  <2>3. /\ j \in Keys /\ set[j] # Absent
        /\ \A i \in Keys : set[i] # Absent => set[j] <= set[i]
    BY <2>2 DEF Last, Present
  <2>4. CASE set[j] >= s
    BY <1>4, <2>1, <2>2, <2>3, <2>4 DEF Entry, Absent
  <2>5. CASE ~(set[j] >= s)
    <3>1. new = [set EXCEPT ![j] = Absent, ![k] = s] /\ j # k
      BY <1>4, <2>2, <2>3, <2>5
    <3>2. Present(new) = (P \ {j}) \cup {k} /\ k \notin P \ {j} /\ j \in P
      BY <1>4, <2>3, <3>1 DEF Present
    <3>3. IsFiniteSet(P \ {j}) /\ Cardinality(P \ {j}) = Cardinality(P) - 1
      BY <3>2, FS_RemoveElement
    <3>4. /\ IsFiniteSet(Present(new))
          /\ Cardinality(Present(new)) = Cardinality(P \ {j}) + 1
      <4> DEFINE Q == P \ {j}
      <4>1. IsFiniteSet(Q) /\ k \notin Q /\ Present(new) = Q \cup {k}
        BY <3>2, <3>3
      <4> HIDE DEF Q
      <4>2. IsFiniteSet(Q \cup {k}) /\ Cardinality(Q \cup {k}) = Cardinality(Q) + 1
        BY <4>1, FS_AddElement
      <4>3. QED
        BY <4>1, <4>2 DEF Q
    <3>5. Cardinality(Present(new)) = Capacity
      BY <2>1, <3>3, <3>4
    <3>6. set[j] < s
      BY <2>3, <2>5 DEF Entry, Absent
    <3>7. new \in [Keys -> Entry]
      BY <3>1 DEF Entry, Absent
    <3>8. QED
      BY <1>4, <2>1, <2>3, <3>1, <3>4, <3>5, <3>6, <3>7
  <2>6. QED
    BY <2>4, <2>5
<1>5. QED
  BY <1>2, <1>3, <1>4

\* A score that is offered becomes that of its key, or the key is not in the set;
\* of the others one may have left.
LEMMA OfferEffect ==
    ASSUME IInv, NEW k \in Keys, NEW s \in Entry, s # Absent, rank' \in AddTo(rank, k, s)
    PROVE  /\ rank' \in [Keys -> Entry]
           /\ rank'[k] \in {s, Absent}
           /\ \A j \in Keys : j # k => rank'[j] \in {rank[j], Absent}
<1>1. /\ rank \in [Keys -> Entry]
      /\ IsFiniteSet(Present(rank)) /\ Cardinality(Present(rank)) <= Capacity
  BY DEF IInv, TypeOK, BestAreIn
<1>2. /\ rank' \in [Keys -> Entry]
      /\ \/ rank' = [rank EXCEPT ![k] = s]
         \/ rank' = rank /\ rank[k] = Absent
         \/ \E j \in Keys : rank' = [rank EXCEPT ![j] = Absent, ![k] = s]
  BY <1>1, AddToEffect
<1>3. QED
  BY <1>1, <1>2

\* What a handler offers, and what is loaded, is a score.
LEMMA SetAddOffers ==
    ASSUME IInv, NEW h \in Handlers, SetAdd(h)
    PROVE  /\ key[h] \in Keys /\ score[h] \in Entry /\ score[h] # Absent
           /\ rank' \in AddTo(rank, key[h], score[h])
           /\ added' = [added EXCEPT ![key[h]] = score[h]]
  BY DEF IInv, TypeOK, SetAdd

LEMMA LoadOffers ==
    ASSUME IInv, NEW k \in Keys, Load(k)
    PROVE  /\ db[k] \in Entry /\ db[k] # Absent /\ added[k] = Absent /\ rank[k] = Absent
           /\ rank' \in AddTo(rank, k, db[k])
           /\ added' = [added EXCEPT ![k] = db[k]]
<1>1. db[k] \in Entry /\ db[k] # Absent /\ added[k] = Absent
  BY DEF IInv, TypeOK, Served, LoadingIsAlone, Load
<1>2. rank[k] = Absent
  BY <1>1 DEF IInv, Right, ScoresAreReal
<1>3. QED
  BY <1>1, <1>2 DEF Load

\* The best stay in when a score is offered that does not lower one.
LEMMA OfferKeepsBest ==
    ASSUME IInv, NEW k \in Keys, NEW s \in Entry, s # Absent, rank' \in AddTo(rank, k, s),
           added' = [added EXCEPT ![k] = s], shared' = shared, behind' = behind,
           shared \union behind = {} => rank[k] <= s
    PROVE  BestAreIn'
<1>1. /\ rank \in [Keys -> Entry] /\ added \in [Keys -> Entry]
      /\ IsFiniteSet(Present(rank)) /\ Cardinality(Present(rank)) <= Capacity
  BY DEF IInv, TypeOK, BestAreIn
<1>2. /\ rank' \in [Keys -> Entry]
      /\ IsFiniteSet(Present(rank')) /\ Cardinality(Present(rank')) <= Capacity
  BY <1>1, AddToEffect
<1>3. added'[k] = s /\ \A j \in Keys : j # k => added'[j] = added[j]
  BY <1>1
<1>4. ASSUME shared \union behind = {}, NEW j \in Keys, added'[j] # Absent, rank'[j] = Absent
      PROVE  /\ Cardinality(Present(rank')) = Capacity
             /\ \A i \in Keys : rank'[i] # Absent => rank'[i] >= added'[j]
  <2>1. \A i \in Keys : added[i] # Absent /\ rank[i] = Absent =>
           /\ Cardinality(Present(rank)) = Capacity
           /\ \A l \in Keys : rank[l] # Absent => rank[l] >= added[i]
    BY <1>4 DEF IInv, BestAreIn
  <2>2. CASE rank[k] # Absent /\ rank' = [rank EXCEPT ![k] = s]
             /\ Cardinality(Present(rank')) = Cardinality(Present(rank))
    <3>1. j # k /\ rank[j] = Absent /\ added[j] # Absent /\ added[j] \in Int
      BY <1>1, <1>3, <1>4, <2>2 DEF Entry, Absent
    <3>2. rank[k] >= added[j] /\ rank[k] \in Int /\ s \in Int
      BY <1>1, <2>1, <2>2, <3>1 DEF Entry, Absent
    <3>3. QED
      BY <1>1, <1>3, <1>4, <2>1, <2>2, <3>1, <3>2
  <2>3. CASE rank[k] = Absent /\ Cardinality(Present(rank)) < Capacity
             /\ rank' = [rank EXCEPT ![k] = s]
    BY <1>1, <1>3, <1>4, <2>1, <2>3
  <2>4. CASE rank[k] = Absent /\ Cardinality(Present(rank)) = Capacity /\ rank' = rank
             /\ \A i \in Keys : rank[i] # Absent => rank[i] >= s
    BY <1>1, <1>3, <1>4, <2>1, <2>4
  <2>5. ASSUME NEW l \in Keys, rank[k] = Absent, Cardinality(Present(rank')) = Capacity,
               rank[l] # Absent, rank[l] < s,
               \A i \in Keys : rank[i] # Absent => rank[l] <= rank[i],
               rank' = [rank EXCEPT ![l] = Absent, ![k] = s]
        PROVE  \A i \in Keys : rank'[i] # Absent => rank'[i] >= added'[j]
    <3>1. j # k
      BY <1>1, <1>4, <2>5
    <3>2. /\ rank[l] \in Int /\ s \in Int /\ added[j] \in Int
          /\ \A i \in Keys : rank[i] \in Int
      BY <1>1 DEF Entry, Absent
    <3>3. rank[l] >= added[j]
      <4>1. CASE j = l
        <5>1. rank[l] = added[l]
          BY <2>5 DEF IInv, Right, ScoresAreReal
        <5>2. QED
          BY <3>2, <4>1, <5>1
      <4>2. CASE j # l
        BY <1>1, <1>3, <1>4, <2>1, <2>5, <3>1, <4>2
      <4>3. QED
        BY <4>1, <4>2
    <3>4. \A i \in Keys : rank'[i] # Absent => rank'[i] >= rank[l]
      BY <1>1, <2>5, <3>2
    <3>5. QED
      BY <1>2, <1>3, <3>1, <3>2, <3>3, <3>4 DEF Entry, Absent
  <2>6. \/ /\ rank[k] # Absent
           /\ rank' = [rank EXCEPT ![k] = s]
           /\ Cardinality(Present(rank')) = Cardinality(Present(rank))
        \/ /\ rank[k] = Absent /\ Cardinality(Present(rank)) < Capacity
           /\ rank' = [rank EXCEPT ![k] = s]
        \/ /\ rank[k] = Absent /\ Cardinality(Present(rank)) = Capacity
           /\ rank' = rank
           /\ \A i \in Keys : rank[i] # Absent => rank[i] >= s
        \/ /\ rank[k] = Absent /\ Cardinality(Present(rank')) = Capacity
           /\ \E l \in Keys :
                 /\ rank[l] # Absent /\ rank[l] < s
                 /\ \A i \in Keys : rank[i] # Absent => rank[l] <= rank[i]
                 /\ rank' = [rank EXCEPT ![l] = Absent, ![k] = s]
    BY <1>1, AddToEffect
  <2>7. QED
    BY <2>2, <2>3, <2>4, <2>5, <2>6
<1>5. QED
  BY <1>2, <1>4 DEF BestAreIn, Present

\* Every step keeps the types.
LEMMA TypeStep ==
    ASSUME IInv, [Next]_vars
    PROVE  TypeOK'
<1> USE DEF IInv, Served, Right
<1>1. CASE UNCHANGED vars
  BY <1>1
  DEF vars, handlerVars, saveVars, dirtyVars, lost, TypeOK, Entry, Absent, Empty,
      Present
<1>2. ASSUME NEW h \in Handlers, NEW k \in Keys, NewRecord(h, k) PROVE TypeOK'
  BY <1>2
  DEF NewRecord, Serve, Goto, handlerVars, saveVars, dirtyVars, lost, TypeOK, Entry,
      Absent, Empty, Present
<1>3. ASSUME NEW h \in Handlers, NEW k \in Keys, Login(h, k) PROVE TypeOK'
  BY <1>3
  DEF Login, Serve, Goto, handlerVars, saveVars, dirtyVars, lost, TypeOK, Entry,
      Absent, Empty, Present
<1>4. ASSUME NEW h \in Handlers, RefreshContains(h) PROVE TypeOK'
  BY <1>4
  DEF RefreshContains, Goto, handlerVars, saveVars, dirtyVars, lost, TypeOK, Entry,
      Absent, Empty, Present
<1>5. ASSUME NEW h \in Handlers, RefreshScore(h) PROVE TypeOK'
  <2>1. roleLock' \in [Keys -> BOOLEAN]
    BY <1>5 DEF RefreshScore, TypeOK
  <2>2. /\ at' \in [Handlers -> {"idle", "add", "contains", "score", "item", "flag",
                              "register"}]
        /\ key' \in [Handlers -> Keys \union {NoKey}]
        /\ score' \in [Handlers -> Entry]
        /\ \A g \in Handlers : at'[g] # "idle" => key'[g] \in Keys /\ score'[g] # Absent
    <3>1. CASE key[h] \in Present(rank)
      <4>1. key[h] \in Keys /\ rank[key[h]] \in Entry /\ rank[key[h]] # Absent
        BY <3>1 DEF Present, TypeOK
      <4>2. /\ score' = [score EXCEPT ![h] = rank[key[h]]] /\ key' = key
            /\ at' = [at EXCEPT ![h] = "item"]
        BY <1>5, <3>1 DEF RefreshScore, Goto
      <4>3. QED
        BY <4>1, <4>2 DEF TypeOK
    <3>2. CASE key[h] \notin Present(rank)
      BY <1>5, <3>2 DEF RefreshScore, Done, Goto, TypeOK, Entry, Absent
    <3>3. QED
      BY <3>1, <3>2
  <2>3. QED
    BY <1>5, <2>1, <2>2 DEF RefreshScore, dirtyVars, saveVars, lost, TypeOK
<1>6. ASSUME NEW h \in Handlers, SetAdd(h) PROVE TypeOK'
  <2>1. rank' \in [Keys -> Entry] /\ added' \in [Keys -> Entry]
    BY <1>6, SetAddOffers, OfferEffect DEF TypeOK
  <2>2. QED
    BY <1>6, <2>1 DEF SetAdd, Goto, dirtyVars, saveVars, lost, TypeOK
<1>7. ASSUME NEW h \in Handlers, MarkItem(h) PROVE TypeOK'
  BY <1>7
  DEF MarkItem, Goto, handlerVars, saveVars, dirtyVars, lost, TypeOK, Entry, Absent,
      Empty, Present
<1>8. ASSUME NEW h \in Handlers, MarkFlag(h) PROVE TypeOK'
  BY <1>8
  DEF MarkFlag, Goto, handlerVars, saveVars, dirtyVars, lost, TypeOK, Entry, Absent,
      Empty, Present
<1>9. ASSUME NEW h \in Handlers, MarkRegister(h) PROVE TypeOK'
  <2>1. roleLock' \in [Keys -> BOOLEAN]
    BY <1>9 DEF MarkRegister, TypeOK
  <2>2. pending' \in BOOLEAN /\ stranded' \in BOOLEAN
    BY <1>9 DEF MarkRegister
  <2>3. /\ at' \in [Handlers -> {"idle", "add", "contains", "score", "item", "flag",
                              "register"}]
        /\ key' \in [Handlers -> Keys \union {NoKey}]
        /\ score' \in [Handlers -> Entry]
        /\ \A g \in Handlers : at'[g] # "idle" => key'[g] \in Keys /\ score'[g] # Absent
    BY <1>9 DEF MarkRegister, Done, Goto, TypeOK, Entry, Absent
  <2>4. QED
    BY <1>9, <2>1, <2>2, <2>3 DEF MarkRegister, saveVars, TypeOK
<1>10. CASE FlushTake
  BY <1>10
  DEF FlushTake, handlerVars, saveVars, dirtyVars, lost, TypeOK, Entry, Absent, Empty,
      Present
<1>11. CASE SaveCas
  BY <1>11
  DEF SaveCas, handlerVars, saveVars, dirtyVars, lost, TypeOK, Entry, Absent, Empty,
      Present
<1>12. CASE SaveSwap
  BY <1>12
  DEF SaveSwap, handlerVars, saveVars, dirtyVars, lost, TypeOK, Entry, Absent, Empty,
      Present
<1>13. CASE SendDone
  BY <1>13
  DEF SendDone, handlerVars, saveVars, dirtyVars, lost, TypeOK, Entry, Absent, Empty,
      Present
<1>14. ASSUME NEW k \in Keys, SendOk(k) PROVE TypeOK'
  BY <1>14
  DEF SendOk, handlerVars, saveVars, dirtyVars, lost, TypeOK, Entry, Absent, Empty,
      Present
<1>15. ASSUME NEW k \in Keys, SendFail(k) PROVE TypeOK'
  BY <1>15
  DEF SendFail, handlerVars, saveVars, dirtyVars, lost, TypeOK, Entry, Absent, Empty,
      Present
<1>16. ASSUME NEW k \in Keys, Load(k) PROVE TypeOK'
  <2>1. rank' \in [Keys -> Entry] /\ added' \in [Keys -> Entry]
    BY <1>16, LoadOffers, OfferEffect DEF TypeOK
  <2>2. QED
    BY <1>16, <2>1 DEF Load, dirtyVars, handlerVars, saveVars, lost, TypeOK
<1>17. CASE Restart
  <2>1. Empty \in [Keys -> Entry]
    BY DEF Empty, Entry, Absent
  <2>2. roleLock' \in [Keys -> BOOLEAN]
    BY <1>17 DEF Restart
  <2>3. /\ at' \in [Handlers -> {"idle", "add", "contains", "score", "item", "flag",
                              "register"}]
        /\ key' \in [Handlers -> Keys \union {NoKey}]
        /\ score' \in [Handlers -> Entry]
        /\ \A g \in Handlers : at'[g] = "idle"
    BY <1>17 DEF Restart, Entry, Absent
  <2>4. unread' \in SUBSET Keys
    BY <1>17 DEF Restart, Present
  <2>5. QED
    BY <1>17, <2>1, <2>2, <2>3, <2>4 DEF Restart, TypeOK
<1>18. QED
  BY <1>1, <1>2, <1>3, <1>4, <1>5, <1>6, <1>7, <1>8, <1>9, <1>10, <1>11, <1>12, <1>13,
      <1>14, <1>15, <1>16, <1>17 DEF Next, Mark

\* Handlers come and go one role at a time.
LEMMA ServingStep ==
    ASSUME IInv, [Next]_vars
    PROVE  ServingIsKnown'
<1> USE DEF IInv, Served, Right
<1>1. CASE UNCHANGED vars
  BY <1>1
  DEF vars, handlerVars, saveVars, dirtyVars, lost, TypeOK, ServingIsKnown,
      LoadingIsAlone
<1>2. ASSUME NEW h \in Handlers, NEW k \in Keys, NewRecord(h, k) PROVE ServingIsKnown'
  BY <1>2
  DEF NewRecord, Serve, Goto, handlerVars, saveVars, dirtyVars, lost, TypeOK,
      ServingIsKnown, LoadingIsAlone
<1>3. ASSUME NEW h \in Handlers, NEW k \in Keys, Login(h, k) PROVE ServingIsKnown'
  BY <1>3
  DEF Login, Serve, Goto, handlerVars, saveVars, dirtyVars, lost, TypeOK,
      ServingIsKnown, LoadingIsAlone
<1>4. ASSUME NEW h \in Handlers, RefreshContains(h) PROVE ServingIsKnown'
  BY <1>4
  DEF RefreshContains, Goto, handlerVars, saveVars, dirtyVars, lost, TypeOK,
      ServingIsKnown, LoadingIsAlone
<1>5. ASSUME NEW h \in Handlers, RefreshScore(h) PROVE ServingIsKnown'
  BY <1>5
  DEF RefreshScore, Goto, Done, handlerVars, saveVars, dirtyVars, lost, TypeOK,
      ServingIsKnown, LoadingIsAlone
<1>6. ASSUME NEW h \in Handlers, SetAdd(h) PROVE ServingIsKnown'
  BY <1>6
  DEF SetAdd, Goto, handlerVars, saveVars, dirtyVars, lost, TypeOK, ServingIsKnown,
      LoadingIsAlone
<1>7. ASSUME NEW h \in Handlers, MarkItem(h) PROVE ServingIsKnown'
  BY <1>7
  DEF MarkItem, Goto, handlerVars, saveVars, dirtyVars, lost, TypeOK, ServingIsKnown,
      LoadingIsAlone
<1>8. ASSUME NEW h \in Handlers, MarkFlag(h) PROVE ServingIsKnown'
  BY <1>8
  DEF MarkFlag, Goto, handlerVars, saveVars, dirtyVars, lost, TypeOK, ServingIsKnown,
      LoadingIsAlone
<1>9. ASSUME NEW h \in Handlers, MarkRegister(h) PROVE ServingIsKnown'
  BY <1>9
  DEF MarkRegister, Goto, Done, handlerVars, saveVars, dirtyVars, lost, TypeOK,
      ServingIsKnown, LoadingIsAlone
<1>10. CASE FlushTake
  BY <1>10
  DEF FlushTake, handlerVars, saveVars, dirtyVars, lost, TypeOK, ServingIsKnown,
      LoadingIsAlone
<1>11. CASE SaveCas
  BY <1>11
  DEF SaveCas, handlerVars, saveVars, dirtyVars, lost, TypeOK, ServingIsKnown,
      LoadingIsAlone
<1>12. CASE SaveSwap
  BY <1>12
  DEF SaveSwap, handlerVars, saveVars, dirtyVars, lost, TypeOK, ServingIsKnown,
      LoadingIsAlone
<1>13. CASE SendDone
  BY <1>13
  DEF SendDone, handlerVars, saveVars, dirtyVars, lost, TypeOK, ServingIsKnown,
      LoadingIsAlone
<1>14. ASSUME NEW k \in Keys, SendOk(k) PROVE ServingIsKnown'
  BY <1>14
  DEF SendOk, handlerVars, saveVars, dirtyVars, lost, TypeOK, ServingIsKnown,
      LoadingIsAlone
<1>15. ASSUME NEW k \in Keys, SendFail(k) PROVE ServingIsKnown'
  BY <1>15
  DEF SendFail, handlerVars, saveVars, dirtyVars, lost, TypeOK, ServingIsKnown,
      LoadingIsAlone
<1>16. ASSUME NEW k \in Keys, Load(k) PROVE ServingIsKnown'
  BY <1>16
  DEF Load, handlerVars, saveVars, dirtyVars, lost, TypeOK, ServingIsKnown,
      LoadingIsAlone
<1>17. CASE Restart
  BY <1>17
  DEF Restart, handlerVars, saveVars, dirtyVars, lost, TypeOK, ServingIsKnown,
      LoadingIsAlone
<1>18. QED
  BY <1>1, <1>2, <1>3, <1>4, <1>5, <1>6, <1>7, <1>8, <1>9, <1>10, <1>11, <1>12, <1>13,
      <1>14, <1>15, <1>16, <1>17 DEF Next, Mark

\* The board is loaded before anything else.
LEMMA LoadingStep ==
    ASSUME IInv, [Next]_vars
    PROVE  LoadingIsAlone'
<1> USE DEF IInv, Served, Right
<1>1. CASE UNCHANGED vars
  BY <1>1
  DEF vars, handlerVars, saveVars, dirtyVars, lost, TypeOK, LoadingIsAlone, Present,
      Empty, Absent
<1>2. ASSUME NEW h \in Handlers, NEW k \in Keys, NewRecord(h, k) PROVE LoadingIsAlone'
  BY <1>2
  DEF NewRecord, Serve, Goto, handlerVars, saveVars, dirtyVars, lost, TypeOK,
      LoadingIsAlone, Present, Empty, Absent
<1>3. ASSUME NEW h \in Handlers, NEW k \in Keys, Login(h, k) PROVE LoadingIsAlone'
  BY <1>3
  DEF Login, Serve, Goto, handlerVars, saveVars, dirtyVars, lost, TypeOK,
      LoadingIsAlone, Present, Empty, Absent
<1>4. ASSUME NEW h \in Handlers, RefreshContains(h) PROVE LoadingIsAlone'
  BY <1>4
  DEF RefreshContains, Goto, handlerVars, saveVars, dirtyVars, lost, TypeOK,
      LoadingIsAlone, Present, Empty, Absent
<1>5. ASSUME NEW h \in Handlers, RefreshScore(h) PROVE LoadingIsAlone'
  BY <1>5
  DEF RefreshScore, Goto, Done, handlerVars, saveVars, dirtyVars, lost, TypeOK,
      LoadingIsAlone, Present, Empty, Absent
<1>6. ASSUME NEW h \in Handlers, SetAdd(h) PROVE LoadingIsAlone'
  BY <1>6
  DEF SetAdd, Goto, handlerVars, saveVars, dirtyVars, lost, TypeOK, LoadingIsAlone,
      Present, Empty, Absent
<1>7. ASSUME NEW h \in Handlers, MarkItem(h) PROVE LoadingIsAlone'
  BY <1>7
  DEF MarkItem, Goto, handlerVars, saveVars, dirtyVars, lost, TypeOK, LoadingIsAlone,
      Present, Empty, Absent
<1>8. ASSUME NEW h \in Handlers, MarkFlag(h) PROVE LoadingIsAlone'
  BY <1>8
  DEF MarkFlag, Goto, handlerVars, saveVars, dirtyVars, lost, TypeOK, LoadingIsAlone,
      Present, Empty, Absent
<1>9. ASSUME NEW h \in Handlers, MarkRegister(h) PROVE LoadingIsAlone'
  BY <1>9
  DEF MarkRegister, Goto, Done, handlerVars, saveVars, dirtyVars, lost, TypeOK,
      LoadingIsAlone, Present, Empty, Absent
<1>10. CASE FlushTake
  BY <1>10
  DEF FlushTake, handlerVars, saveVars, dirtyVars, lost, TypeOK, LoadingIsAlone,
      Present, Empty, Absent
<1>11. CASE SaveCas
  BY <1>11
  DEF SaveCas, handlerVars, saveVars, dirtyVars, lost, TypeOK, LoadingIsAlone, Present,
      Empty, Absent
<1>12. CASE SaveSwap
  BY <1>12
  DEF SaveSwap, handlerVars, saveVars, dirtyVars, lost, TypeOK, LoadingIsAlone,
      Present, Empty, Absent
<1>13. CASE SendDone
  BY <1>13
  DEF SendDone, handlerVars, saveVars, dirtyVars, lost, TypeOK, LoadingIsAlone,
      Present, Empty, Absent
<1>14. ASSUME NEW k \in Keys, SendOk(k) PROVE LoadingIsAlone'
  BY <1>14
  DEF SendOk, handlerVars, saveVars, dirtyVars, lost, TypeOK, LoadingIsAlone, Present,
      Empty, Absent
<1>15. ASSUME NEW k \in Keys, SendFail(k) PROVE LoadingIsAlone'
  BY <1>15
  DEF SendFail, handlerVars, saveVars, dirtyVars, lost, TypeOK, LoadingIsAlone,
      Present, Empty, Absent
<1>16. ASSUME NEW k \in Keys, Load(k) PROVE LoadingIsAlone'
  BY <1>16
  DEF Load, handlerVars, saveVars, dirtyVars, lost, TypeOK, LoadingIsAlone, Present,
      Empty, Absent
<1>17. CASE Restart
  BY <1>17
  DEF Restart, handlerVars, saveVars, dirtyVars, lost, TypeOK, LoadingIsAlone, Present,
      Empty, Absent
<1>18. QED
  BY <1>1, <1>2, <1>3, <1>4, <1>5, <1>6, <1>7, <1>8, <1>9, <1>10, <1>11, <1>12, <1>13,
      <1>14, <1>15, <1>16, <1>17 DEF Next, Mark

\* Scores come from the roles.
LEMMA ScoresStep ==
    ASSUME IInv, [Next]_vars
    PROVE  ScoresAreReal'
<1> USE DEF IInv, Served, Right
<1>1. CASE UNCHANGED vars
  BY <1>1
  DEF vars, handlerVars, saveVars, dirtyVars, lost, TypeOK, ScoresAreReal, HandIsRight,
      Empty, Entry, Absent
<1>2. ASSUME NEW h \in Handlers, NEW k \in Keys, NewRecord(h, k) PROVE ScoresAreReal'
  BY <1>2
  DEF NewRecord, Serve, Goto, handlerVars, saveVars, dirtyVars, lost, TypeOK,
      ScoresAreReal, HandIsRight, Empty, Entry, Absent
<1>3. ASSUME NEW h \in Handlers, NEW k \in Keys, Login(h, k) PROVE ScoresAreReal'
  BY <1>3
  DEF Login, Serve, Goto, handlerVars, saveVars, dirtyVars, lost, TypeOK,
      ScoresAreReal, HandIsRight, Empty, Entry, Absent
<1>4. ASSUME NEW h \in Handlers, RefreshContains(h) PROVE ScoresAreReal'
  BY <1>4
  DEF RefreshContains, Goto, handlerVars, saveVars, dirtyVars, lost, TypeOK,
      ScoresAreReal, HandIsRight, Empty, Entry, Absent
<1>5. ASSUME NEW h \in Handlers, RefreshScore(h) PROVE ScoresAreReal'
  BY <1>5
  DEF RefreshScore, Goto, Done, handlerVars, saveVars, dirtyVars, lost, TypeOK,
      ScoresAreReal, HandIsRight, Empty, Entry, Absent
<1>6. ASSUME NEW h \in Handlers, SetAdd(h) PROVE ScoresAreReal'
  <2>1. /\ key[h] \in Keys /\ rank'[key[h]] \in {score[h], Absent}
        /\ \A j \in Keys : j # key[h] => rank'[j] \in {rank[j], Absent}
    BY <1>6, SetAddOffers, OfferEffect
  <2>2. /\ added'[key[h]] = score[h]
        /\ \A j \in Keys : j # key[h] => added'[j] = added[j]
    BY <1>6, SetAddOffers DEF TypeOK
  <2>3. key[h] \notin behind => score[h] \in Absent..history[key[h]]
    BY <1>6, <2>1 DEF SetAdd, HandIsRight, TypeOK, Entry, Absent
  <2>4. UNCHANGED <<history, dirtyItems, list, db, behind>>
    BY <1>6 DEF SetAdd, dirtyVars, saveVars, lost
  <2>5. QED
    BY <2>1, <2>2, <2>3, <2>4 DEF ScoresAreReal
<1>7. ASSUME NEW h \in Handlers, MarkItem(h) PROVE ScoresAreReal'
  BY <1>7
  DEF MarkItem, Goto, handlerVars, saveVars, dirtyVars, lost, TypeOK, ScoresAreReal,
      HandIsRight, Empty, Entry, Absent
<1>8. ASSUME NEW h \in Handlers, MarkFlag(h) PROVE ScoresAreReal'
  BY <1>8
  DEF MarkFlag, Goto, handlerVars, saveVars, dirtyVars, lost, TypeOK, ScoresAreReal,
      HandIsRight, Empty, Entry, Absent
<1>9. ASSUME NEW h \in Handlers, MarkRegister(h) PROVE ScoresAreReal'
  BY <1>9
  DEF MarkRegister, Goto, Done, handlerVars, saveVars, dirtyVars, lost, TypeOK,
      ScoresAreReal, HandIsRight, Empty, Entry, Absent
<1>10. CASE FlushTake
  BY <1>10
  DEF FlushTake, handlerVars, saveVars, dirtyVars, lost, TypeOK, ScoresAreReal,
      HandIsRight, Empty, Entry, Absent
<1>11. CASE SaveCas
  BY <1>11
  DEF SaveCas, handlerVars, saveVars, dirtyVars, lost, TypeOK, ScoresAreReal,
      HandIsRight, Empty, Entry, Absent
<1>12. CASE SaveSwap
  BY <1>12
  DEF SaveSwap, handlerVars, saveVars, dirtyVars, lost, TypeOK, ScoresAreReal,
      HandIsRight, Empty, Entry, Absent
<1>13. CASE SendDone
  BY <1>13
  DEF SendDone, handlerVars, saveVars, dirtyVars, lost, TypeOK, ScoresAreReal,
      HandIsRight, Empty, Entry, Absent
<1>14. ASSUME NEW k \in Keys, SendOk(k) PROVE ScoresAreReal'
  BY <1>14
  DEF SendOk, handlerVars, saveVars, dirtyVars, lost, TypeOK, ScoresAreReal,
      HandIsRight, Empty, Entry, Absent
<1>15. ASSUME NEW k \in Keys, SendFail(k) PROVE ScoresAreReal'
  BY <1>15
  DEF SendFail, handlerVars, saveVars, dirtyVars, lost, TypeOK, ScoresAreReal,
      HandIsRight, Empty, Entry, Absent
<1>16. ASSUME NEW k \in Keys, Load(k) PROVE ScoresAreReal'
  <2>1. /\ rank'[k] \in {db[k], Absent}
        /\ \A j \in Keys : j # k => rank'[j] \in {rank[j], Absent}
    BY <1>16, LoadOffers, OfferEffect
  <2>2. added'[k] = db[k] /\ \A j \in Keys : j # k => added'[j] = added[j]
    BY <1>16, LoadOffers DEF TypeOK
  <2>3. UNCHANGED <<history, dirtyItems, list, db, behind>>
    BY <1>16 DEF Load, dirtyVars, saveVars, lost
  <2>4. QED
    BY <2>1, <2>2, <2>3 DEF ScoresAreReal
<1>17. CASE Restart
  BY <1>17
  DEF Restart, handlerVars, saveVars, dirtyVars, lost, TypeOK, ScoresAreReal,
      HandIsRight, Empty, Entry, Absent
<1>18. QED
  BY <1>1, <1>2, <1>3, <1>4, <1>5, <1>6, <1>7, <1>8, <1>9, <1>10, <1>11, <1>12, <1>13,
      <1>14, <1>15, <1>16, <1>17 DEF Next, Mark

\* Handlers keep the right score in hand.
LEMMA HandStep ==
    ASSUME IInv, [Next]_vars
    PROVE  HandIsRight'
<1> USE DEF IInv, Served, Right
<1>1. CASE UNCHANGED vars
  BY <1>1
  DEF vars, handlerVars, saveVars, dirtyVars, lost, TypeOK, ServingIsKnown,
      LoadingIsAlone, ScoresAreReal, HandIsRight, Entry, Absent, Empty, Present
<1>2. ASSUME NEW h \in Handlers, NEW k \in Keys, NewRecord(h, k) PROVE HandIsRight'
  BY <1>2
  DEF NewRecord, Serve, Goto, handlerVars, saveVars, dirtyVars, lost, TypeOK,
      ServingIsKnown, LoadingIsAlone, ScoresAreReal, HandIsRight, Entry, Absent, Empty,
      Present
<1>3. ASSUME NEW h \in Handlers, NEW k \in Keys, Login(h, k) PROVE HandIsRight'
  BY <1>3
  DEF Login, Serve, Goto, handlerVars, saveVars, dirtyVars, lost, TypeOK,
      ServingIsKnown, LoadingIsAlone, ScoresAreReal, HandIsRight, Entry, Absent, Empty,
      Present
<1>4. ASSUME NEW h \in Handlers, RefreshContains(h) PROVE HandIsRight'
  BY <1>4
  DEF RefreshContains, Goto, handlerVars, saveVars, dirtyVars, lost, TypeOK,
      ServingIsKnown, LoadingIsAlone, ScoresAreReal, HandIsRight, Entry, Absent, Empty,
      Present
<1>5. ASSUME NEW h \in Handlers, RefreshScore(h) PROVE HandIsRight'
  BY <1>5
  DEF RefreshScore, Goto, Done, handlerVars, saveVars, dirtyVars, lost, TypeOK,
      ServingIsKnown, LoadingIsAlone, ScoresAreReal, HandIsRight, Entry, Absent, Empty,
      Present
<1>6. ASSUME NEW h \in Handlers, SetAdd(h) PROVE HandIsRight'
  <2>1. /\ key[h] \in Keys /\ rank'[key[h]] \in {score[h], Absent}
        /\ \A j \in Keys : j # key[h] => rank'[j] \in {rank[j], Absent}
    BY <1>6, SetAddOffers, OfferEffect
  <2>2. UNCHANGED <<history, key, score, shared, behind>>
    BY <1>6 DEF SetAdd, lost
  <2>3. at[h] = "add" /\ at'[h] = "item" /\ \A g \in Handlers : g # h => at'[g] = at[g]
    BY <1>6 DEF SetAdd, Goto, TypeOK
  <2>4. \A g \in Handlers : g # h /\ at[g] # "idle" /\ key[g] \notin shared =>
           key[g] # key[h] /\ key[g] \in Keys
    BY DEF ServingIsKnown, TypeOK
  <2>5. QED
    BY <2>1, <2>2, <2>3, <2>4 DEF HandIsRight
<1>7. ASSUME NEW h \in Handlers, MarkItem(h) PROVE HandIsRight'
  BY <1>7
  DEF MarkItem, Goto, handlerVars, saveVars, dirtyVars, lost, TypeOK, ServingIsKnown,
      LoadingIsAlone, ScoresAreReal, HandIsRight, Entry, Absent, Empty, Present
<1>8. ASSUME NEW h \in Handlers, MarkFlag(h) PROVE HandIsRight'
  BY <1>8
  DEF MarkFlag, Goto, handlerVars, saveVars, dirtyVars, lost, TypeOK, ServingIsKnown,
      LoadingIsAlone, ScoresAreReal, HandIsRight, Entry, Absent, Empty, Present
<1>9. ASSUME NEW h \in Handlers, MarkRegister(h) PROVE HandIsRight'
  BY <1>9
  DEF MarkRegister, Goto, Done, handlerVars, saveVars, dirtyVars, lost, TypeOK,
      ServingIsKnown, LoadingIsAlone, ScoresAreReal, HandIsRight, Entry, Absent, Empty,
      Present
<1>10. CASE FlushTake
  BY <1>10
  DEF FlushTake, handlerVars, saveVars, dirtyVars, lost, TypeOK, ServingIsKnown,
      LoadingIsAlone, ScoresAreReal, HandIsRight, Entry, Absent, Empty, Present
<1>11. CASE SaveCas
  BY <1>11
  DEF SaveCas, handlerVars, saveVars, dirtyVars, lost, TypeOK, ServingIsKnown,
      LoadingIsAlone, ScoresAreReal, HandIsRight, Entry, Absent, Empty, Present
<1>12. CASE SaveSwap
  BY <1>12
  DEF SaveSwap, handlerVars, saveVars, dirtyVars, lost, TypeOK, ServingIsKnown,
      LoadingIsAlone, ScoresAreReal, HandIsRight, Entry, Absent, Empty, Present
<1>13. CASE SendDone
  BY <1>13
  DEF SendDone, handlerVars, saveVars, dirtyVars, lost, TypeOK, ServingIsKnown,
      LoadingIsAlone, ScoresAreReal, HandIsRight, Entry, Absent, Empty, Present
<1>14. ASSUME NEW k \in Keys, SendOk(k) PROVE HandIsRight'
  BY <1>14
  DEF SendOk, handlerVars, saveVars, dirtyVars, lost, TypeOK, ServingIsKnown,
      LoadingIsAlone, ScoresAreReal, HandIsRight, Entry, Absent, Empty, Present
<1>15. ASSUME NEW k \in Keys, SendFail(k) PROVE HandIsRight'
  BY <1>15
  DEF SendFail, handlerVars, saveVars, dirtyVars, lost, TypeOK, ServingIsKnown,
      LoadingIsAlone, ScoresAreReal, HandIsRight, Entry, Absent, Empty, Present
<1>16. ASSUME NEW k \in Keys, Load(k) PROVE HandIsRight'
  BY <1>16
  DEF Load, handlerVars, saveVars, dirtyVars, lost, TypeOK, ServingIsKnown,
      LoadingIsAlone, ScoresAreReal, HandIsRight, Entry, Absent, Empty, Present
<1>17. CASE Restart
  BY <1>17
  DEF Restart, handlerVars, saveVars, dirtyVars, lost, TypeOK, ServingIsKnown,
      LoadingIsAlone, ScoresAreReal, HandIsRight, Entry, Absent, Empty, Present
<1>18. QED
  BY <1>1, <1>2, <1>3, <1>4, <1>5, <1>6, <1>7, <1>8, <1>9, <1>10, <1>11, <1>12, <1>13,
      <1>14, <1>15, <1>16, <1>17 DEF Next, Mark

\* What is marked last is what the set has.
LEMMA NewestStep ==
    ASSUME IInv, [Next]_vars
    PROVE  NewestIsMarked'
<1> USE DEF IInv, Served, Right
<1>1. CASE UNCHANGED vars
  BY <1>1
  DEF vars, handlerVars, saveVars, dirtyVars, lost, TypeOK, NewestIsMarked, Newest,
      HandIsRight, LoadingIsAlone, ServingIsKnown, MarkedIsFlagged, Empty, Absent
<1>2. ASSUME NEW h \in Handlers, NEW k \in Keys, NewRecord(h, k) PROVE NewestIsMarked'
  BY <1>2
  DEF NewRecord, Serve, Goto, handlerVars, saveVars, dirtyVars, lost, TypeOK,
      NewestIsMarked, Newest, HandIsRight, LoadingIsAlone, ServingIsKnown,
      MarkedIsFlagged, Empty, Absent
<1>3. ASSUME NEW h \in Handlers, NEW k \in Keys, Login(h, k) PROVE NewestIsMarked'
  BY <1>3
  DEF Login, Serve, Goto, handlerVars, saveVars, dirtyVars, lost, TypeOK,
      NewestIsMarked, Newest, HandIsRight, LoadingIsAlone, ServingIsKnown,
      MarkedIsFlagged, Empty, Absent
<1>4. ASSUME NEW h \in Handlers, RefreshContains(h) PROVE NewestIsMarked'
  BY <1>4
  DEF RefreshContains, Goto, handlerVars, saveVars, dirtyVars, lost, TypeOK,
      NewestIsMarked, Newest, HandIsRight, LoadingIsAlone, ServingIsKnown,
      MarkedIsFlagged, Empty, Absent
<1>5. ASSUME NEW h \in Handlers, RefreshScore(h) PROVE NewestIsMarked'
  BY <1>5
  DEF RefreshScore, Goto, Done, handlerVars, saveVars, dirtyVars, lost, TypeOK,
      NewestIsMarked, Newest, HandIsRight, LoadingIsAlone, ServingIsKnown,
      MarkedIsFlagged, Empty, Absent
<1>6. ASSUME NEW h \in Handlers, SetAdd(h) PROVE NewestIsMarked'
  <2>1. /\ key[h] \in Keys
        /\ \A j \in Keys : j # key[h] => rank'[j] \in {rank[j], Absent}
    BY <1>6, SetAddOffers, OfferEffect
  <2>2. UNCHANGED <<key, shared, overwritten, dirtyItems, list, db>>
    BY <1>6 DEF SetAdd, dirtyVars, saveVars, lost
  <2>3. at[h] = "add" /\ at'[h] = "item" /\ \A g \in Handlers : g # h => at'[g] = at[g]
    BY <1>6 DEF SetAdd, Goto, TypeOK
  <2>4. QED
    BY <2>1, <2>2, <2>3 DEF NewestIsMarked, Newest
<1>7. ASSUME NEW h \in Handlers, MarkItem(h) PROVE NewestIsMarked'
  BY <1>7
  DEF MarkItem, Goto, handlerVars, saveVars, dirtyVars, lost, TypeOK, NewestIsMarked,
      Newest, HandIsRight, LoadingIsAlone, ServingIsKnown, MarkedIsFlagged, Empty,
      Absent
<1>8. ASSUME NEW h \in Handlers, MarkFlag(h) PROVE NewestIsMarked'
  BY <1>8
  DEF MarkFlag, Goto, handlerVars, saveVars, dirtyVars, lost, TypeOK, NewestIsMarked,
      Newest, HandIsRight, LoadingIsAlone, ServingIsKnown, MarkedIsFlagged, Empty,
      Absent
<1>9. ASSUME NEW h \in Handlers, MarkRegister(h) PROVE NewestIsMarked'
  BY <1>9
  DEF MarkRegister, Goto, Done, handlerVars, saveVars, dirtyVars, lost, TypeOK,
      NewestIsMarked, Newest, HandIsRight, LoadingIsAlone, ServingIsKnown,
      MarkedIsFlagged, Empty, Absent
<1>10. CASE FlushTake
  BY <1>10
  DEF FlushTake, handlerVars, saveVars, dirtyVars, lost, TypeOK, NewestIsMarked,
      Newest, HandIsRight, LoadingIsAlone, ServingIsKnown, MarkedIsFlagged, Empty,
      Absent
<1>11. CASE SaveCas
  BY <1>11
  DEF SaveCas, handlerVars, saveVars, dirtyVars, lost, TypeOK, NewestIsMarked, Newest,
      HandIsRight, LoadingIsAlone, ServingIsKnown, MarkedIsFlagged, Empty, Absent
<1>12. CASE SaveSwap
  BY <1>12
  DEF SaveSwap, handlerVars, saveVars, dirtyVars, lost, TypeOK, NewestIsMarked, Newest,
      HandIsRight, LoadingIsAlone, ServingIsKnown, MarkedIsFlagged, Empty, Absent
<1>13. CASE SendDone
  BY <1>13
  DEF SendDone, handlerVars, saveVars, dirtyVars, lost, TypeOK, NewestIsMarked, Newest,
      HandIsRight, LoadingIsAlone, ServingIsKnown, MarkedIsFlagged, Empty, Absent
<1>14. ASSUME NEW k \in Keys, SendOk(k) PROVE NewestIsMarked'
  BY <1>14
  DEF SendOk, handlerVars, saveVars, dirtyVars, lost, TypeOK, NewestIsMarked, Newest,
      HandIsRight, LoadingIsAlone, ServingIsKnown, MarkedIsFlagged, Empty, Absent
<1>15. ASSUME NEW k \in Keys, SendFail(k) PROVE NewestIsMarked'
  BY <1>15
  DEF SendFail, handlerVars, saveVars, dirtyVars, lost, TypeOK, NewestIsMarked, Newest,
      HandIsRight, LoadingIsAlone, ServingIsKnown, MarkedIsFlagged, Empty, Absent
<1>16. ASSUME NEW k \in Keys, Load(k) PROVE NewestIsMarked'
  <2>1. /\ rank'[k] \in {db[k], Absent}
        /\ \A j \in Keys : j # k => rank'[j] \in {rank[j], Absent}
    BY <1>16, LoadOffers, OfferEffect
  <2>2. UNCHANGED <<at, key, shared, overwritten, dirtyItems, list, db>>
    BY <1>16 DEF Load, dirtyVars, handlerVars, saveVars, lost
  <2>3. Newest(k) = db[k]
    BY <1>16 DEF Load, LoadingIsAlone, MarkedIsFlagged, Newest, Empty
  <2>4. QED
    BY <2>1, <2>2, <2>3 DEF NewestIsMarked, Newest
<1>17. CASE Restart
  BY <1>17
  DEF Restart, handlerVars, saveVars, dirtyVars, lost, TypeOK, NewestIsMarked, Newest,
      HandIsRight, LoadingIsAlone, ServingIsKnown, MarkedIsFlagged, Empty, Absent
<1>18. QED
  BY <1>1, <1>2, <1>3, <1>4, <1>5, <1>6, <1>7, <1>8, <1>9, <1>10, <1>11, <1>12, <1>13,
      <1>14, <1>15, <1>16, <1>17 DEF Next, Mark

\* What is marked is flagged until it is taken.
LEMMA FlaggedStep ==
    ASSUME IInv, [Next]_vars
    PROVE  MarkedIsFlagged'
<1> USE DEF IInv, Served, Right
<1>1. CASE UNCHANGED vars
  BY <1>1
  DEF vars, handlerVars, saveVars, dirtyVars, lost, TypeOK, MarkedIsFlagged, Empty,
      Absent
<1>2. ASSUME NEW h \in Handlers, NEW k \in Keys, NewRecord(h, k) PROVE MarkedIsFlagged'
  BY <1>2
  DEF NewRecord, Serve, Goto, handlerVars, saveVars, dirtyVars, lost, TypeOK,
      MarkedIsFlagged, Empty, Absent
<1>3. ASSUME NEW h \in Handlers, NEW k \in Keys, Login(h, k) PROVE MarkedIsFlagged'
  BY <1>3
  DEF Login, Serve, Goto, handlerVars, saveVars, dirtyVars, lost, TypeOK,
      MarkedIsFlagged, Empty, Absent
<1>4. ASSUME NEW h \in Handlers, RefreshContains(h) PROVE MarkedIsFlagged'
  BY <1>4
  DEF RefreshContains, Goto, handlerVars, saveVars, dirtyVars, lost, TypeOK,
      MarkedIsFlagged, Empty, Absent
<1>5. ASSUME NEW h \in Handlers, RefreshScore(h) PROVE MarkedIsFlagged'
  BY <1>5
  DEF RefreshScore, Goto, Done, handlerVars, saveVars, dirtyVars, lost, TypeOK,
      MarkedIsFlagged, Empty, Absent
<1>6. ASSUME NEW h \in Handlers, SetAdd(h) PROVE MarkedIsFlagged'
  BY <1>6
  DEF SetAdd, Goto, handlerVars, saveVars, dirtyVars, lost, TypeOK, MarkedIsFlagged,
      Empty, Absent
<1>7. ASSUME NEW h \in Handlers, MarkItem(h) PROVE MarkedIsFlagged'
  BY <1>7
  DEF MarkItem, Goto, handlerVars, saveVars, dirtyVars, lost, TypeOK, MarkedIsFlagged,
      Empty, Absent
<1>8. ASSUME NEW h \in Handlers, MarkFlag(h) PROVE MarkedIsFlagged'
  BY <1>8
  DEF MarkFlag, Goto, handlerVars, saveVars, dirtyVars, lost, TypeOK, MarkedIsFlagged,
      Empty, Absent
<1>9. ASSUME NEW h \in Handlers, MarkRegister(h) PROVE MarkedIsFlagged'
  BY <1>9
  DEF MarkRegister, Goto, Done, handlerVars, saveVars, dirtyVars, lost, TypeOK,
      MarkedIsFlagged, Empty, Absent
<1>10. CASE FlushTake
  BY <1>10
  DEF FlushTake, handlerVars, saveVars, dirtyVars, lost, TypeOK, MarkedIsFlagged,
      Empty, Absent
<1>11. CASE SaveCas
  BY <1>11
  DEF SaveCas, handlerVars, saveVars, dirtyVars, lost, TypeOK, MarkedIsFlagged, Empty,
      Absent
<1>12. CASE SaveSwap
  BY <1>12
  DEF SaveSwap, handlerVars, saveVars, dirtyVars, lost, TypeOK, MarkedIsFlagged, Empty,
      Absent
<1>13. CASE SendDone
  BY <1>13
  DEF SendDone, handlerVars, saveVars, dirtyVars, lost, TypeOK, MarkedIsFlagged, Empty,
      Absent
<1>14. ASSUME NEW k \in Keys, SendOk(k) PROVE MarkedIsFlagged'
  BY <1>14
  DEF SendOk, handlerVars, saveVars, dirtyVars, lost, TypeOK, MarkedIsFlagged, Empty,
      Absent
<1>15. ASSUME NEW k \in Keys, SendFail(k) PROVE MarkedIsFlagged'
  BY <1>15
  DEF SendFail, handlerVars, saveVars, dirtyVars, lost, TypeOK, MarkedIsFlagged, Empty,
      Absent
<1>16. ASSUME NEW k \in Keys, Load(k) PROVE MarkedIsFlagged'
  BY <1>16
  DEF Load, handlerVars, saveVars, dirtyVars, lost, TypeOK, MarkedIsFlagged, Empty,
      Absent
<1>17. CASE Restart
  BY <1>17
  DEF Restart, handlerVars, saveVars, dirtyVars, lost, TypeOK, MarkedIsFlagged, Empty,
      Absent
<1>18. QED
  BY <1>1, <1>2, <1>3, <1>4, <1>5, <1>6, <1>7, <1>8, <1>9, <1>10, <1>11, <1>12, <1>13,
      <1>14, <1>15, <1>16, <1>17 DEF Next, Mark

\* The best stay in.
LEMMA BestStep ==
    ASSUME IInv, [Next]_vars
    PROVE  BestAreIn'
<1> USE DEF IInv, Served, Right
<1>1. CASE UNCHANGED vars
  BY <1>1
  DEF vars, handlerVars, saveVars, dirtyVars, lost, TypeOK, BestAreIn, Present, Empty,
      Absent
<1>2. ASSUME NEW h \in Handlers, NEW k \in Keys, NewRecord(h, k) PROVE BestAreIn'
  BY <1>2
  DEF NewRecord, Serve, Goto, handlerVars, saveVars, dirtyVars, lost, TypeOK,
      BestAreIn, Present, Empty, Absent
<1>3. ASSUME NEW h \in Handlers, NEW k \in Keys, Login(h, k) PROVE BestAreIn'
  BY <1>3
  DEF Login, Serve, Goto, handlerVars, saveVars, dirtyVars, lost, TypeOK, BestAreIn,
      Present, Empty, Absent
<1>4. ASSUME NEW h \in Handlers, RefreshContains(h) PROVE BestAreIn'
  BY <1>4
  DEF RefreshContains, Goto, handlerVars, saveVars, dirtyVars, lost, TypeOK, BestAreIn,
      Present, Empty, Absent
<1>5. ASSUME NEW h \in Handlers, RefreshScore(h) PROVE BestAreIn'
  BY <1>5
  DEF RefreshScore, Goto, Done, handlerVars, saveVars, dirtyVars, lost, TypeOK,
      BestAreIn, Present, Empty, Absent
<1>6. ASSUME NEW h \in Handlers, SetAdd(h) PROVE BestAreIn'
  <2>1. /\ key[h] \in Keys /\ score[h] \in Entry /\ score[h] # Absent
        /\ rank' \in AddTo(rank, key[h], score[h])
        /\ added' = [added EXCEPT ![key[h]] = score[h]]
        /\ shared' = shared /\ behind' = behind
    BY <1>6, SetAddOffers DEF SetAdd, lost
  <2>2. shared = {} => score[h] = history[key[h]]
    BY <1>6 DEF SetAdd, HandIsRight
  <2>3. shared \union behind = {} => rank[key[h]] <= score[h]
    BY <2>1, <2>2 DEF ScoresAreReal, TypeOK, Entry, Absent
  <2>4. QED
    BY <2>1, <2>3, OfferKeepsBest
<1>7. ASSUME NEW h \in Handlers, MarkItem(h) PROVE BestAreIn'
  BY <1>7
  DEF MarkItem, Goto, handlerVars, saveVars, dirtyVars, lost, TypeOK, BestAreIn,
      Present, Empty, Absent
<1>8. ASSUME NEW h \in Handlers, MarkFlag(h) PROVE BestAreIn'
  BY <1>8
  DEF MarkFlag, Goto, handlerVars, saveVars, dirtyVars, lost, TypeOK, BestAreIn,
      Present, Empty, Absent
<1>9. ASSUME NEW h \in Handlers, MarkRegister(h) PROVE BestAreIn'
  BY <1>9
  DEF MarkRegister, Goto, Done, handlerVars, saveVars, dirtyVars, lost, TypeOK,
      BestAreIn, Present, Empty, Absent
<1>10. CASE FlushTake
  BY <1>10
  DEF FlushTake, handlerVars, saveVars, dirtyVars, lost, TypeOK, BestAreIn, Present,
      Empty, Absent
<1>11. CASE SaveCas
  BY <1>11
  DEF SaveCas, handlerVars, saveVars, dirtyVars, lost, TypeOK, BestAreIn, Present,
      Empty, Absent
<1>12. CASE SaveSwap
  BY <1>12
  DEF SaveSwap, handlerVars, saveVars, dirtyVars, lost, TypeOK, BestAreIn, Present,
      Empty, Absent
<1>13. CASE SendDone
  BY <1>13
  DEF SendDone, handlerVars, saveVars, dirtyVars, lost, TypeOK, BestAreIn, Present,
      Empty, Absent
<1>14. ASSUME NEW k \in Keys, SendOk(k) PROVE BestAreIn'
  BY <1>14
  DEF SendOk, handlerVars, saveVars, dirtyVars, lost, TypeOK, BestAreIn, Present,
      Empty, Absent
<1>15. ASSUME NEW k \in Keys, SendFail(k) PROVE BestAreIn'
  BY <1>15
  DEF SendFail, handlerVars, saveVars, dirtyVars, lost, TypeOK, BestAreIn, Present,
      Empty, Absent
<1>16. ASSUME NEW k \in Keys, Load(k) PROVE BestAreIn'
  <2>1. rank[k] <= db[k]
    BY <1>16, LoadOffers DEF Entry, Absent
  <2>2. shared' = shared /\ behind' = behind
    BY <1>16 DEF Load, lost
  <2>3. QED
    BY <1>16, <2>1, <2>2, LoadOffers, OfferKeepsBest
<1>17. CASE Restart
  <2>1. rank' = Empty /\ added' = Empty
    BY <1>17 DEF Restart
  <2>2. Present(rank') = {}
    BY <2>1 DEF Present, Empty
  <2>3. IsFiniteSet(Present(rank')) /\ Cardinality(Present(rank')) = 0
    BY <2>2, FS_EmptySet
  <2>4. QED
    BY <2>1, <2>3 DEF BestAreIn, Empty, Present
<1>18. QED
  BY <1>1, <1>2, <1>3, <1>4, <1>5, <1>6, <1>7, <1>8, <1>9, <1>10, <1>11, <1>12, <1>13,
      <1>14, <1>15, <1>16, <1>17 DEF Next, Mark

-----------------------------------------------------------------------------
\* The initial state satisfies all of it.
LEMMA InvInit == Init => IInv
<1> SUFFICES ASSUME Init PROVE IInv
  OBVIOUS
<1>1. TypeOK
  <2>1. Empty \in [Keys -> Entry] /\ [h \in Handlers |-> Absent] \in [Handlers -> Entry]
    BY DEF Empty, Entry, Absent
  <2>2. /\ [k \in Keys |-> 0] \in [Keys -> 0..MaxScore]
        /\ [k \in Keys |-> FALSE] \in [Keys -> BOOLEAN]
        /\ 0 \in 0..MaxFails
    OBVIOUS
  <2>3. QED
    BY <2>1, <2>2 DEF Init, TypeOK
<1>2. Served
  BY DEF Init, Served, ServingIsKnown, LoadingIsAlone, Empty, Absent
<1>3. Right /\ NewestIsMarked /\ MarkedIsFlagged
  BY
  DEF Init, Right, ScoresAreReal, HandIsRight, NewestIsMarked, MarkedIsFlagged, Empty,
      Absent
<1>4. BestAreIn
  <2>1. Present(rank) = {}
    BY DEF Init, Present, Empty
  <2>2. IsFiniteSet(Present(rank)) /\ Cardinality(Present(rank)) = 0
    BY <2>1, FS_EmptySet
  <2>3. QED
    BY <2>2 DEF Init, BestAreIn, Empty
<1>5. QED
  BY <1>1, <1>2, <1>3, <1>4 DEF IInv

\* Every step keeps it.
LEMMA InvStep == IInv /\ [Next]_vars => IInv'
  BY TypeStep, ServingStep, LoadingStep, ScoresStep, HandStep, NewestStep, FlaggedStep,
      BestStep
  DEF IInv, Served, Right

LEMMA Invariant == Spec => []IInv
  BY InvInit, InvStep, PTL DEF Spec

\* Every reachable state of the leaderboard manager is type-correct
\* (manager.go:19-65).
THEOREM TypeCorrect == Spec => []TypeOK
<1>1. IInv => TypeOK
  BY DEF IInv
<1>2. QED
  BY <1>1, Invariant, PTL

\* A set that is not empty has a last entry, so that Add always has an outcome.
THEOREM AddAnswers == Spec => [](\A k \in Keys, s \in Entry : AddTo(rank, k, s) # {})
<1>1. ASSUME IInv, NEW k \in Keys, NEW s \in Entry
      PROVE  AddTo(rank, k, s) # {}
  <2>1. CASE k \in Present(rank) \/ Cardinality(Present(rank)) < Capacity
    BY <2>1 DEF AddTo
  <2>2. CASE ~(k \in Present(rank) \/ Cardinality(Present(rank)) < Capacity)
    <3> DEFINE T == {n \in Nat : \E j \in Present(rank) : n = rank[j] + 1}
    <3>1. /\ IsFiniteSet(Present(rank)) /\ Cardinality(Present(rank)) <= Capacity
          /\ rank \in [Keys -> Entry]
      BY <1>1 DEF IInv, BestAreIn, TypeOK
    <3>2. Cardinality(Present(rank)) \in Nat /\ Capacity \in Nat /\ Capacity # 0
      BY <3>1, FS_CardinalityType
    <3>3. PICK i \in Present(rank) : TRUE
      <4>1. Cardinality(Present(rank)) # 0
        BY <2>2, <3>1, <3>2
      <4>2. QED
        BY <3>1, <4>1, FS_EmptySet
    <3>4. \A j \in Present(rank) : rank[j] \in Nat /\ rank[j] + 1 \in T
      BY <3>1 DEF Present, Entry, Absent
    <3>5. T # {} /\ T \subseteq Nat
      BY <3>3, <3>4
    <3>6. PICK m \in T : \A n \in T : ~(<<n, m>> \in OpToRel(<, Nat))
      BY <3>5, WFMin, NatLessThanWellFounded
    <3>7. \A n \in T : ~(n < m)
      BY <3>5, <3>6 DEF OpToRel
    <3>8. PICK l \in Present(rank) : m = rank[l] + 1
      OBVIOUS
    <3>9. \A j \in Present(rank) : rank[l] <= rank[j]
      BY <3>4, <3>7, <3>8
    <3>10. l \in Last(rank)
      BY <3>9 DEF Last
    <3>11. QED
      BY <2>2, <3>10 DEF AddTo
  <2>3. QED
    BY <2>1, <2>2
<1>2. IInv => \A k \in Keys, s \in Entry : AddTo(rank, k, s) # {}
  BY <1>1
<1>3. QED
  BY <1>2, Invariant, PTL

\* The board shows the best scores that were offered to it, and what is not on it
\* is no better than the last of a full board (zset.go:651-685, manager.go:138-179,
\* 205-262).
THEOREM BoardTopN == Spec => []BoardIsTopN
<1>1. IInv => BoardIsTopN
  <2> SUFFICES ASSUME IInv PROVE BoardIsTopN
    OBVIOUS
  <2>1. \A k \in Present(rank) : rank[k] = added[k]
    BY DEF IInv, Right, ScoresAreReal, Present
  <2>2. QED
    BY <2>1 DEF IInv, BestAreIn, BoardIsTopN, Present
<1>2. QED
  BY <1>1, Invariant, PTL

\* Nobody at work and nothing flagged, the database has every entry's score
\* (manager.go:90-135, 182-262).
THEOREM BoardSaved == Spec => []BoardIsSaved
<1>1. IInv => BoardIsSaved
  <2> SUFFICES ASSUME IInv, Quiet, ~dirty,
                      NEW k \in Present(rank) \ (shared \union overwritten)
               PROVE  db[k] = rank[k]
    BY DEF BoardIsSaved
  <2>1. dirtyItems = Empty /\ list = Empty
    BY DEF IInv, MarkedIsFlagged, Quiet
  <2>2. k \in Keys /\ rank[k] # Absent
    BY DEF Present
  <2>3. Newest(k) = db[k]
    BY <2>1, <2>2 DEF Newest, Empty
  <2>4. Newest(k) = rank[k]
    BY <2>2 DEF IInv, NewestIsMarked, Quiet
  <2>5. QED
    BY <2>3, <2>4
<1>2. QED
  BY <1>1, Invariant, PTL

\* What is flagged is registered with the PersistManager, but for what an
\* OnFailure has flagged (manager.go:117-123, 195-200).
THEOREM MarkedRegistered == Spec => []MarkedIsRegistered
<1>1. Init => MarkedIsRegistered
  BY DEF Init, MarkedIsRegistered
<1>2. TypeOK /\ MarkedIsRegistered /\ [Next]_vars => MarkedIsRegistered'
  <2> SUFFICES ASSUME TypeOK, MarkedIsRegistered, [Next]_vars PROVE MarkedIsRegistered'
    OBVIOUS
  <2> USE DEF MarkedIsRegistered
  <2>1. CASE UNCHANGED vars
    BY <2>1 DEF vars, handlerVars, saveVars, dirtyVars, lost, TypeOK
  <2>2. ASSUME NEW h \in Handlers, NEW k \in Keys, NewRecord(h, k) PROVE MarkedIsRegistered'
    BY <2>2 DEF NewRecord, Serve, Goto, handlerVars, saveVars, dirtyVars, lost, TypeOK
  <2>3. ASSUME NEW h \in Handlers, NEW k \in Keys, Login(h, k) PROVE MarkedIsRegistered'
    BY <2>3 DEF Login, Serve, Goto, handlerVars, saveVars, dirtyVars, lost, TypeOK
  <2>4. ASSUME NEW h \in Handlers, RefreshContains(h) PROVE MarkedIsRegistered'
    BY <2>4 DEF RefreshContains, Goto, handlerVars, saveVars, dirtyVars, lost, TypeOK
  <2>5. ASSUME NEW h \in Handlers, RefreshScore(h) PROVE MarkedIsRegistered'
    BY <2>5 DEF RefreshScore, Goto, Done, handlerVars, saveVars, dirtyVars, lost, TypeOK
  <2>6. ASSUME NEW h \in Handlers, SetAdd(h) PROVE MarkedIsRegistered'
    BY <2>6 DEF SetAdd, Goto, handlerVars, saveVars, dirtyVars, lost, TypeOK
  <2>7. ASSUME NEW h \in Handlers, MarkItem(h) PROVE MarkedIsRegistered'
    BY <2>7 DEF MarkItem, Goto, handlerVars, saveVars, dirtyVars, lost, TypeOK
  <2>8. ASSUME NEW h \in Handlers, MarkFlag(h) PROVE MarkedIsRegistered'
    BY <2>8 DEF MarkFlag, Goto, handlerVars, saveVars, dirtyVars, lost, TypeOK
  <2>9. ASSUME NEW h \in Handlers, MarkRegister(h) PROVE MarkedIsRegistered'
    BY <2>9 DEF MarkRegister, Goto, Done, handlerVars, saveVars, dirtyVars, lost, TypeOK
  <2>10. CASE FlushTake
    BY <2>10 DEF FlushTake, handlerVars, saveVars, dirtyVars, lost, TypeOK
  <2>11. CASE SaveCas
    BY <2>11 DEF SaveCas, handlerVars, saveVars, dirtyVars, lost, TypeOK
  <2>12. CASE SaveSwap
    BY <2>12 DEF SaveSwap, handlerVars, saveVars, dirtyVars, lost, TypeOK
  <2>13. CASE SendDone
    BY <2>13 DEF SendDone, handlerVars, saveVars, dirtyVars, lost, TypeOK
  <2>14. ASSUME NEW k \in Keys, SendOk(k) PROVE MarkedIsRegistered'
    BY <2>14 DEF SendOk, handlerVars, saveVars, dirtyVars, lost, TypeOK
  <2>15. ASSUME NEW k \in Keys, SendFail(k) PROVE MarkedIsRegistered'
    BY <2>15 DEF SendFail, handlerVars, saveVars, dirtyVars, lost, TypeOK
  <2>16. ASSUME NEW k \in Keys, Load(k) PROVE MarkedIsRegistered'
    BY <2>16 DEF Load, handlerVars, saveVars, dirtyVars, lost, TypeOK
  <2>17. CASE Restart
    BY <2>17 DEF Restart, handlerVars, saveVars, dirtyVars, lost, TypeOK
  <2>18. QED
    BY <2>1, <2>2, <2>3, <2>4, <2>5, <2>6, <2>7, <2>8, <2>9, <2>10, <2>11, <2>12, <2>13,
        <2>14, <2>15, <2>16, <2>17 DEF Next, Mark
<1>3. QED
  BY <1>1, <1>2, TypeCorrect, PTL DEF Spec
=============================================================================
