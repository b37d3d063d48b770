---------------------------- MODULE SortedSet_proof ----------------------------
(***************************************************************************)
(* Proofs about SortedSet, for any keys, scores, bounds, limit, order,     *)
(* number of levels, heights of nodes and size of a page.                  *)
(*                                                                         *)
(* A skip list is one if its entries can be given numbers p, from 1 on,    *)
(* that follow the order, that every span is a difference of (SkipList).   *)
(* The program keeps no such numbers; that there are some is the inductive *)
(* invariant (IInv), and each operation is shown to keep it by giving the  *)
(* numbers after it.                                                       *)
(*                                                                         *)
(* Loops are recursive functions.  Each exists, because it does up to each *)
(* number of turns, and is over in time, because some number grows with    *)
(* every turn; both are shown by looking at the least number of turns for  *)
(* which they would fail.  Max, Min, Cardinality and Order are CHOOSEs, so *)
(* what they choose is shown to be the only choice there is.               *)
(***************************************************************************)
EXTENDS SortedSet, FiniteSetTheorems, FunctionTheorems, WellFoundedInduction, TLAPS

-----------------------------------------------------------------------------
(* Numbers and loops.                                                       *)

\* A set of numbers that is not empty has a least one.
LEMMA Least ==
    ASSUME NEW T, T \subseteq Nat, T # {}
    PROVE  \E m \in T : \A n \in T : m <= n
<1>1. PICK m \in T : \A n \in T : ~(<<n, m>> \in OpToRel(<, Nat))
  BY WFMin, NatLessThanWellFounded
<1>2. \A n \in T : ~(n < m)
  BY <1>1 DEF OpToRel
<1>3. QED
  BY <1>2

\* A set of numbers that has 0 and, with a number, the next one has them all.
LEMMA Induct ==
    ASSUME NEW T, 0 \in T, \A n \in Nat : n \in T => n + 1 \in T
    PROVE  \A n \in Nat : n \in T
<1> DEFINE Missing == Nat \ T
<1>1. SUFFICES ASSUME Missing # {} PROVE FALSE
  OBVIOUS
<1>2. PICK m \in Missing : \A n \in Missing : m <= n
  BY <1>1, Least
<1>3. m - 1 \in Nat /\ m - 1 \in T
  BY <1>2
<1>4. QED
  BY <1>3

\* The greatest of a bounded set of numbers.
LEMMA MaxIsGreatest ==
    ASSUME NEW B \in Nat, NEW S, S \subseteq 0..B, S # {}
    PROVE  Max(S) \in S /\ \A x \in S : x <= Max(S)
<1> DEFINE T == {B - x : x \in S}
<1>1. PICK m \in T : \A n \in T : m <= n
  <2>1. T \subseteq Nat
    OBVIOUS
  <2>2. T # {}
    OBVIOUS
  <2>3. QED
    BY <2>1, <2>2, Least
<1>2. PICK y \in S : m = B - y
  BY <1>1
<1>3. \A x \in S : x <= y
  <2>1. SUFFICES ASSUME NEW x \in S PROVE x <= y
    OBVIOUS
  <2>2. m <= B - x
    BY <1>1
  <2>3. QED
    BY <1>2, <2>2
<1>4. QED
  BY <1>3 DEF Max

\* f has where a loop stands after up to n turns.
TurnsUpTo(f, turn, start, n) ==
    /\ f = [m \in 0..n |-> IF m = 0 THEN start ELSE turn[f[m - 1]]]
    /\ Turns(turn, start, n) = f[n]

\* The recursive function that counts turns exists: each turn starts where the
\* one before has ended.
LEMMA TurnsAreCounted ==
    ASSUME NEW turn, NEW start, NEW n \in Nat
    PROVE  \E f : TurnsUpTo(f, turn, start, n)
<1> DEFINE Is(f, j) == f = [m \in 0..j |-> IF m = 0 THEN start ELSE turn[f[m - 1]]]
           T == {j \in Nat : \E f : Is(f, j)}
<1>1. 0 \in T
  <2>1. Is([m \in 0..0 |-> start], 0)
    OBVIOUS
  <2>2. QED
    BY <2>1
<1>2. ASSUME NEW j \in Nat, j \in T PROVE j + 1 \in T
  <2>1. PICK f : Is(f, j)
    BY <1>2
  <2> DEFINE g == [m \in 0..j + 1 |-> IF m = j + 1 THEN turn[f[j]] ELSE f[m]]
  <2>2. \A m \in 0..j : f[m] = IF m = 0 THEN start ELSE turn[f[m - 1]]
    BY <2>1
  <2>3. \A m \in 1..j + 1 : g[m - 1] = f[m - 1]
    OBVIOUS
  <2>4. ASSUME NEW m \in 0..j + 1
        PROVE  g[m] = IF m = 0 THEN start ELSE turn[g[m - 1]]
    <3>1. CASE m = j + 1
      BY <2>3, <3>1
    <3>2. CASE m # j + 1
      <4>1. m \in 0..j /\ g[m] = f[m]
        BY <3>2
      <4>2. QED
        BY <2>2, <2>3, <4>1
    <3>3. QED
      BY <3>1, <3>2
  <2> HIDE DEF g
  <2>5. DOMAIN g = 0..j + 1 /\ g = [m \in DOMAIN g |-> g[m]]
    BY DEF g
  <2>6. Is(g, j + 1)
    BY <2>4, <2>5
  <2>7. QED
    BY <2>6
<1> HIDE DEF T
<1>3. n \in T
  BY <1>1, <1>2, Induct
<1> DEFINE c == CHOOSE f : Is(f, n)
<1> HIDE DEF Is
<1>4. Is(c, n)
  BY <1>3 DEF T
<1>5. Turns(turn, start, n) = c[n]
  BY DEF Turns, Is
<1> HIDE DEF c
<1>6. QED
  BY <1>4, <1>5 DEF Is, TurnsUpTo

\* No turn leaves the start; one more turn is a turn after the others.
LEMMA TurnsStep ==
    ASSUME NEW turn, NEW start
    PROVE  /\ Turns(turn, start, 0) = start
           /\ \A n \in Nat : Turns(turn, start, n + 1) = turn[Turns(turn, start, n)]
<1>1. Turns(turn, start, 0) = start
  <2>1. PICK f : TurnsUpTo(f, turn, start, 0)
    BY TurnsAreCounted
  <2>2. QED
    BY <2>1 DEF TurnsUpTo
<1>2. ASSUME NEW n \in Nat
      PROVE  Turns(turn, start, n + 1) = turn[Turns(turn, start, n)]
  <2>1. PICK f : TurnsUpTo(f, turn, start, n)
    BY TurnsAreCounted
  <2>2. PICK g : TurnsUpTo(g, turn, start, n + 1)
    <3>1. n + 1 \in Nat
      OBVIOUS
    <3>2. QED
      BY <3>1, TurnsAreCounted
  <2> DEFINE T == {m \in Nat : m <= n => g[m] = f[m]}
  <2>3. \A m \in 0..n : f[m] = IF m = 0 THEN start ELSE turn[f[m - 1]]
    BY <2>1 DEF TurnsUpTo
  <2>4. \A m \in 0..n + 1 : g[m] = IF m = 0 THEN start ELSE turn[g[m - 1]]
    BY <2>2 DEF TurnsUpTo
  <2>5. 0 \in T
    BY <2>3, <2>4
  <2>6. ASSUME NEW m \in Nat, m \in T PROVE m + 1 \in T
    <3>1. SUFFICES ASSUME m + 1 <= n PROVE g[m + 1] = f[m + 1]
      OBVIOUS
    <3>2. g[m] = f[m]
      BY <2>6, <3>1
    <3>3. f[m + 1] = turn[f[m]] /\ g[m + 1] = turn[g[m]]
      BY <2>3, <2>4, <3>1
    <3>4. QED
      BY <3>2, <3>3
  <2> HIDE DEF T
  <2>7. n \in T
    BY <2>5, <2>6, Induct
  <2>8. g[n] = f[n]
    BY <2>7 DEF T
  <2>9. g[n + 1] = turn[g[n]]
    BY <2>4
  <2>10. QED
    BY <2>1, <2>2, <2>8, <2>9 DEF TurnsUpTo
<1>3. QED
  BY <1>1, <1>2

\* A loop that stays in S while its turns make a measure grow, up to N.
Grows(turn, start, S, measure, N) ==
    /\ start \in S
    /\ \A w \in S : /\ turn[w] \in S
                    /\ measure[w] \in 0..N
                    /\ turn[w] = w \/ measure[turn[w]] > measure[w]

\* It is over after N turns.
LEMMA LoopEnds ==
    ASSUME NEW turn, NEW start, NEW S, NEW measure, NEW N \in Nat,
           Grows(turn, start, S, measure, N)
    PROVE  /\ Turns(turn, start, N) \in S
           /\ turn[Turns(turn, start, N)] = Turns(turn, start, N)
<1> DEFINE at(n) == Turns(turn, start, n)
           T == {n \in Nat : /\ at(n) \in S
                             /\ turn[at(n)] = at(n) \/ measure[at(n)] >= n}
<1>1. at(0) = start /\ \A n \in Nat : at(n + 1) = turn[at(n)]
  BY TurnsStep
<1> HIDE DEF at
<1> USE DEF Grows
<1>2. 0 \in T
  BY <1>1
<1>3. ASSUME NEW n \in Nat, n \in T PROVE n + 1 \in T
  <2>1. at(n) \in S /\ at(n + 1) = turn[at(n)]
    BY <1>1, <1>3
  <2>2. CASE turn[at(n)] = at(n)
    BY <2>1, <2>2
  <2>3. CASE turn[at(n)] # at(n)
    <3>1. measure[at(n)] >= n /\ measure[turn[at(n)]] > measure[at(n)]
      BY <1>3, <2>1, <2>3
    <3>2. measure[at(n)] \in 0..N /\ measure[turn[at(n)]] \in 0..N /\ turn[at(n)] \in S
      BY <2>1
    <3>3. measure[at(n + 1)] >= n + 1
      BY <2>1, <3>1, <3>2
    <3>4. QED
      BY <2>1, <3>2, <3>3
  <2>4. QED
    BY <2>2, <2>3
<1> HIDE DEF T
<1>4. N \in T
  BY <1>2, <1>3, Induct
<1>5. at(N) \in S /\ (turn[at(N)] = at(N) \/ measure[at(N)] >= N)
  BY <1>4 DEF T
<1>6. turn[at(N)] = at(N)
  <2>1. SUFFICES ASSUME turn[at(N)] # at(N) PROVE FALSE
    OBVIOUS
  <2>2. measure[at(N)] >= N /\ measure[turn[at(N)]] > measure[at(N)]
    BY <1>5, <2>1
  <2>3. measure[at(N)] \in 0..N /\ measure[turn[at(N)]] \in 0..N
    BY <1>5
  <2>4. QED
    BY <2>2, <2>3
<1>7. QED
  BY <1>5, <1>6 DEF at

\* The recursive function that goes down the levels exists.
LEMMA DownIsFound ==
    ASSUME NEW walk, NEW L \in Nat, L # 0
    PROVE  Down(walk, L) = [i \in 1..L |->
              walk[i][IF i = L THEN Top ELSE Down(walk, L)[i + 1]]]
<1> DEFINE Is(f, d) == f = [i \in (L - d)..L |->
                               walk[i][IF i = L THEN Top ELSE f[i + 1]]]
           T == {d \in Nat : \E f : Is(f, d)}
<1>1. 0 \in T
  <2>1. Is([i \in (L - 0)..L |-> walk[L][Top]], 0)
    OBVIOUS
  <2>2. QED
    BY <2>1
<1>2. ASSUME NEW d \in Nat, d \in T PROVE d + 1 \in T
  <2>1. PICK f : Is(f, d)
    BY <1>2
  <2> DEFINE low == L - (d + 1)
             g == [i \in low..L |-> IF i = low THEN walk[low][f[low + 1]] ELSE f[i]]
  <2>2. \A i \in (L - d)..L : f[i] = walk[i][IF i = L THEN Top ELSE f[i + 1]]
    BY <2>1
  <2>3. \A i \in low..L : i # L => g[i + 1] = f[i + 1]
    OBVIOUS
  <2>4. ASSUME NEW i \in low..L
        PROVE  g[i] = walk[i][IF i = L THEN Top ELSE g[i + 1]]
    <3>1. CASE i = low
      <4>1. g[i] = walk[i][f[i + 1]] /\ i # L
        BY <3>1
      <4>2. QED
        BY <2>3, <4>1
    <3>2. CASE i # low
      <4>1. i \in (L - d)..L /\ g[i] = f[i]
        BY <3>2
      <4>2. CASE i = L
        BY <2>2, <4>1, <4>2
      <4>3. CASE i # L
        BY <2>2, <2>3, <4>1, <4>3
      <4>4. QED
        BY <4>2, <4>3
    <3>3. QED
      BY <3>1, <3>2
  <2>5. DOMAIN g = low..L /\ g = [i \in DOMAIN g |-> g[i]]
    OBVIOUS
  <2> HIDE DEF g
  <2>6. Is(g, d + 1)
    BY <2>4, <2>5
  <2>7. QED
    BY <2>6
<1> HIDE DEF T
<1>3. L - 1 \in Nat /\ L - 1 \in T
  <2>1. L - 1 \in Nat
    OBVIOUS
  <2>2. QED
    BY <1>1, <1>2, <2>1, Induct
<1>4. \E f : f = [i \in 1..L |-> walk[i][IF i = L THEN Top ELSE f[i + 1]]]
  <2>1. PICK f : Is(f, L - 1)
    BY <1>3 DEF T
  <2>2. L - (L - 1) = 1
    OBVIOUS
  <2>3. QED
    BY <2>1, <2>2
<1> DEFINE Fits(f) == f = [i \in 1..L |-> walk[i][IF i = L THEN Top ELSE f[i + 1]]]
           c == CHOOSE f : Fits(f)
<1>5. Fits(c)
  BY <1>4
<1>6. Down(walk, L) = c
  BY DEF Down
<1> HIDE DEF c
<1>7. QED
  BY <1>5, <1>6

\* Where the walks stop when each of them, begun where the one above has stopped,
\* stops among good places.
LEMMA DownStops ==
    ASSUME NEW walk, NEW L \in Nat, L # 0, NEW Good,
           walk[L][Top] \in Good[L],
           \A i \in 1..L : i # L => \A w \in Good[i + 1] : walk[i][w] \in Good[i]
    PROVE  /\ DOMAIN Down(walk, L) = 1..L
           /\ \A i \in 1..L : Down(walk, L)[i] \in Good[i]
<1> DEFINE path == Down(walk, L)
           T == {d \in Nat : d < L => path[L - d] \in Good[L - d]}
<1>1. path = [i \in 1..L |-> walk[i][IF i = L THEN Top ELSE path[i + 1]]]
  BY DownIsFound
<1> HIDE DEF path
<1>2. DOMAIN path = 1..L /\ \A i \in 1..L : path[i] = walk[i][IF i = L THEN Top ELSE path[i + 1]]
  BY <1>1
<1>3. 0 \in T
  BY <1>2
<1>4. ASSUME NEW d \in Nat, d \in T PROVE d + 1 \in T
  <2>1. SUFFICES ASSUME d + 1 < L PROVE path[L - (d + 1)] \in Good[L - (d + 1)]
    OBVIOUS
  <2> DEFINE i == L - (d + 1)
  <2>2. i \in 1..L /\ i # L /\ i + 1 = L - d
    BY <2>1
  <2>3. path[i + 1] \in Good[i + 1]
    BY <1>4, <2>1, <2>2
  <2>4. path[i] = walk[i][path[i + 1]]
    BY <1>2, <2>2
  <2> HIDE DEF i
  <2>5. path[i] \in Good[i]
    BY <2>2, <2>3, <2>4
  <2>6. QED
    BY <2>5 DEF i
<1> HIDE DEF T
<1>5. ASSUME NEW i \in 1..L PROVE path[i] \in Good[i]
  <2>1. L - i \in Nat /\ L - i < L /\ L - (L - i) = i
    OBVIOUS
  <2>2. L - i \in T
    BY <1>3, <1>4, <2>1, Induct
  <2>3. QED
    BY <2>1, <2>2 DEF T
<1>6. QED
  BY <1>2, <1>5 DEF path

-----------------------------------------------------------------------------
(* What a skip list is, whose entries have the numbers p.                   *)

\* The levels a node is on.
Levels(z, n) == DOMAIN z.node[n].forward

\* The header is on every level; a node is on all levels up to its height, and
\* the list's level is the greatest of the heights.
Shaped(z) ==
    /\ Header \in DOMAIN z.node /\ Nodes(z) \subseteq Keys
    /\ z.length \in Nat /\ z.level \in 1..MaxLevel
    /\ \A n \in DOMAIN z.node :
          LET x == z.node[n] IN
          /\ x = Node(x.score, x.forward, x.span, x.backward)
          /\ x.score \in Int
          /\ x.span \in [Levels(z, n) -> Nat]
          /\ 1 \in Levels(z, n) /\ Levels(z, n) \subseteq 1..MaxLevel
          /\ \A i \in Levels(z, n) : 1..i \subseteq Levels(z, n)
    /\ Levels(z, Header) = 1..MaxLevel
    /\ \A n \in Nodes(z) : Levels(z, n) \subseteq 1..z.level
    /\ \A i \in 1..MaxLevel : i > z.level => z.node[Header].forward[i] = Nil
    /\ z.level = 1 \/ z.node[Header].forward[z.level] # Nil

\* The entries are numbered from 1 on, the header is number 0.
Numbered(z, p) ==
    /\ p \in [DOMAIN z.node -> 0..z.length]
    /\ p[Header] = 0
    /\ \A m, n \in DOMAIN z.node : p[m] = p[n] => m = n
    /\ \A r \in 0..z.length : \E n \in DOMAIN z.node : p[n] = r

\* The order of two nodes.
NodeBefore(z, m, n) ==
    \/ Better(z.node[m].score, z.node[n].score)
    \/ z.node[m].score = z.node[n].score /\ m < n

\* The numbers follow the order.
Sorted(z, p) == \A m, n \in Nodes(z) : p[m] < p[n] => NodeBefore(z, m, n)

\* The number of the entry at which a link to f ends.
End(z, p, f) == IF f = Nil THEN z.length ELSE p[f]

\* A link leads to the next entry on its level, and its span is the distance.
LinkFits(z, p, n, i) ==
    LET f == z.node[n].forward[i] IN
    /\ f # Nil => f \in Nodes(z) /\ i \in Levels(z, f) /\ p[n] < p[f]
    /\ z.node[n].span[i] = End(z, p, f) - p[n]
    /\ \A m \in Nodes(z) : i \in Levels(z, m) /\ p[n] < p[m] => f # Nil /\ p[f] <= p[m]

\* All links on the levels in use fit.
Linked(z, p) ==
    \A n \in DOMAIN z.node : \A i \in Levels(z, n) : i <= z.level => LinkFits(z, p, n, i)

\* The backward links lead from the tail to the first entry.
BackFits(z, p) ==
    /\ \A n \in Nodes(z) :
          IF p[n] = 1 THEN z.node[n].backward = Nil
          ELSE z.node[n].backward \in Nodes(z) /\ p[z.node[n].backward] = p[n] - 1
    /\ IF z.length = 0 THEN z.tail = Nil
       ELSE z.tail \in Nodes(z) /\ p[z.tail] = z.length

\* A skip list.
SkipList(z, p) ==
    /\ Shaped(z)
    /\ Numbered(z, p)
    /\ Sorted(z, p)
    /\ Linked(z, p)
    /\ BackFits(z, p)


\* A map and a list with the same entries.
Holds(d, z) ==
    /\ d \in [Keys -> Scores \union {Absent}]
    /\ Nodes(z) = {k \in Keys : d[k] # Absent}
    /\ \A k \in Nodes(z) : z.node[k].score = d[k]
    /\ Limit # 0 => z.length <= Limit
    /\ \E p : SkipList(z, p)

\* The inductive invariant: the list is a skip list of the entries of the map.
IInv == Holds(dict, zsl)

\* The last node on level i among the first r entries.
LastUpTo(z, p, i, n, r) ==
    /\ n \in DOMAIN z.node /\ i \in Levels(z, n) /\ p[n] <= r
    /\ \A m \in Nodes(z) : i \in Levels(z, m) /\ p[m] <= r => p[m] <= p[n]

-----------------------------------------------------------------------------
(* Walks.                                                                   *)

\* The first r entries.
FirstNodes(z, p, r) == {n \in Nodes(z) : p[n] <= r}

\* Places on level i that are not beyond the first r entries, and the last one.
Spots(z, p, i, r) ==
    {w \in Places(z) : i \in Levels(z, w.at) /\ p[w.at] <= r /\ w.rank = p[w.at]}

Stops(z, p, i, r) == {w \in Spots(z, p, i, r) : LastUpTo(z, p, i, w.at, r)}

\* What is known of the numbers and links of a skip list.
LEMMA Numbers1 ==
    ASSUME NEW z, NEW p, SkipList(z, p)
    PROVE  /\ z.length \in Nat /\ z.level \in 1..MaxLevel /\ MaxLevel \in Nat
           /\ Header \in DOMAIN z.node /\ p[Header] = 0
           /\ Header \notin Nodes(z) /\ Nil \notin DOMAIN z.node /\ Header # Nil
           /\ DOMAIN z.node = Nodes(z) \union {Header}
           /\ \A n \in DOMAIN z.node : p[n] \in 0..z.length
           /\ \A n \in Nodes(z) : p[n] \in 1..z.length
<1>1. /\ z.length \in Nat /\ z.level \in 1..MaxLevel /\ Nodes(z) \subseteq Keys
      /\ Header \in DOMAIN z.node
  BY DEF SkipList, Shaped
<1>2. /\ p[Header] = 0
      /\ \A n \in DOMAIN z.node : p[n] \in 0..z.length
      /\ \A m, n \in DOMAIN z.node : p[m] = p[n] => m = n
  BY DEF SkipList, Numbered
<1>3. DOMAIN z.node = Nodes(z) \union {Header} /\ Header \notin Nodes(z)
  BY <1>1 DEF Nodes
<1>4. Nil \notin DOMAIN z.node /\ Header # Nil /\ MaxLevel \in Nat
  BY <1>1, <1>3, SortedSetAssumption DEF Nil, Header
<1>5. ASSUME NEW n \in Nodes(z) PROVE p[n] \in 1..z.length
  <2>1. n \in DOMAIN z.node /\ n # Header
    BY <1>3
  <2>2. p[n] # 0
    BY <1>1, <1>2, <2>1
  <2>3. QED
    BY <1>1, <1>2, <2>1, <2>2
<1>6. QED
  BY <1>1, <1>2, <1>3, <1>4, <1>5

\* The walk along a level ends at its last place.
LEMMA StrollEnds ==
    ASSUME NEW z, NEW p, SkipList(z, p), NEW r \in 0..z.length,
           NEW i \in 1..z.level, NEW from \in Spots(z, p, i, r), NEW turn,
           \A w \in Spots(z, p, i, r) :
              turn[w] = IF Across(z, i, w).at \in FirstNodes(z, p, r)
                        THEN Across(z, i, w) ELSE w
    PROVE  Turns(turn, from, z.length) \in Stops(z, p, i, r)
<1> DEFINE S == Spots(z, p, i, r)
           measure == [w \in S |-> p[w.at]]
           end == Turns(turn, from, z.length)
<1>1. /\ z.length \in Nat /\ z.level \in Nat
      /\ \A n \in DOMAIN z.node : p[n] \in 0..z.length
      /\ \A n \in Nodes(z) : n \in DOMAIN z.node
  BY Numbers1
<1>2. ASSUME NEW w \in S, Across(z, i, w).at \in FirstNodes(z, p, r)
      PROVE  Across(z, i, w) \in S /\ p[Across(z, i, w).at] > p[w.at]
  <2> DEFINE f == z.node[w.at].forward[i]
  <2>1. w.at \in DOMAIN z.node /\ i \in Levels(z, w.at) /\ w.rank = p[w.at]
    BY DEF Spots, Places
  <2>2. f \in Nodes(z) /\ p[f] <= r
    BY <1>2 DEF Across, FirstNodes
  <2>3. LinkFits(z, p, w.at, i)
    BY <1>1, <2>1 DEF SkipList, Linked
  <2>4. f # Nil
    BY <2>2, Numbers1, <1>1
  <2>5. i \in Levels(z, f) /\ p[w.at] < p[f] /\ z.node[w.at].span[i] = p[f] - p[w.at]
    BY <2>3, <2>4 DEF LinkFits, End
  <2>6. p[f] \in Int /\ p[w.at] \in Int
    BY <1>1, <2>1, <2>2
  <2>7. w.rank + z.node[w.at].span[i] = p[f]
    BY <2>1, <2>5, <2>6
  <2>8. Across(z, i, w) = [at |-> f, rank |-> p[f]]
    BY <2>7 DEF Across
  <2> HIDE DEF f
  <2>9. Across(z, i, w) \in S
    BY <1>1, <2>2, <2>5, <2>6, <2>8 DEF Spots, Places
  <2>10. QED
    BY <2>5, <2>6, <2>8, <2>9
<1>3. ASSUME NEW w \in S
      PROVE  /\ turn[w] \in S
             /\ measure[w] \in 0..z.length
             /\ turn[w] = w \/ measure[turn[w]] > measure[w]
  <2>1. w.at \in DOMAIN z.node
    BY DEF Spots, Places
  <2>2. QED
    BY <1>1, <1>2, <2>1
<1>4. end \in S /\ turn[end] = end
  <2>1. from \in S
    OBVIOUS
  <2>2. Grows(turn, from, S, measure, z.length)
    BY <1>3, <2>1 DEF Grows
  <2> HIDE DEF S, measure
  <2>3. QED
    BY <1>1, <2>2, LoopEnds
<1> HIDE DEF S, measure
<1>5. Across(z, i, end).at \notin FirstNodes(z, p, r)
  <2>1. SUFFICES ASSUME Across(z, i, end).at \in FirstNodes(z, p, r) PROVE FALSE
    OBVIOUS
  <2>2. Across(z, i, end) = end
    BY <1>4, <2>1 DEF S
  <2>3. p[end.at] \in Int /\ p[end.at] > p[end.at]
    BY <1>1, <1>2, <1>4, <2>1, <2>2 DEF S, Spots, Places
  <2>4. QED
    BY <2>3
<1>6. /\ end.at \in DOMAIN z.node /\ i \in Levels(z, end.at) /\ p[end.at] <= r
  BY <1>4 DEF S, Spots, Places
<1>7. ASSUME NEW m \in Nodes(z), i \in Levels(z, m), p[m] <= r PROVE p[m] <= p[end.at]
  <2> DEFINE f == z.node[end.at].forward[i]
  <2>1. SUFFICES ASSUME p[end.at] < p[m] PROVE FALSE
    BY <1>1, <1>6
  <2>2. LinkFits(z, p, end.at, i)
    BY <1>1, <1>6 DEF SkipList, Linked
  <2>3. f # Nil /\ p[f] <= p[m] /\ f \in Nodes(z)
    BY <1>7, <2>1, <2>2 DEF LinkFits
  <2>4. p[f] \in Int /\ p[m] \in Int /\ r \in Int
    BY <1>1, <2>3
  <2>5. p[f] <= r
    BY <1>7, <2>3, <2>4
  <2>6. f \in FirstNodes(z, p, r)
    BY <2>3, <2>5 DEF FirstNodes
  <2>7. QED
    BY <1>5, <2>6 DEF Across
<1>8. QED
  BY <1>4, <1>6, <1>7 DEF Stops, S, LastUpTo

\* So does a walk from the top, on every level.
LEMMA DescentStops ==
    ASSUME NEW z, NEW p, SkipList(z, p), NEW r \in 0..z.length, NEW walk,
           \A i \in 1..z.level : \A w \in Spots(z, p, i, r) :
              walk[i][w] \in Stops(z, p, i, r)
    PROVE  /\ DOMAIN Down(walk, z.level) = 1..z.level
           /\ \A i \in 1..z.level : Down(walk, z.level)[i] \in Stops(z, p, i, r)
<1> DEFINE Good == [i \in 1..z.level |-> Stops(z, p, i, r)]
           L == z.level
<1>1. L \in Nat /\ L # 0 /\ L \in 1..MaxLevel
  BY Numbers1
<1>2. Top \in Spots(z, p, L, r)
  <2>1. Header \in DOMAIN z.node /\ p[Header] = 0 /\ L \in Levels(z, Header)
    BY <1>1, Numbers1 DEF SkipList, Shaped
  <2>2. 0 <= r
    BY Numbers1
  <2>3. QED
    BY <2>1, <2>2 DEF Spots, Places, Top
<1>3. ASSUME NEW i \in 1..L, i # L, NEW w \in Stops(z, p, i + 1, r)
      PROVE  w \in Spots(z, p, i, r)
  <2>1. /\ w \in Places(z) /\ w.at \in DOMAIN z.node /\ i + 1 \in Levels(z, w.at)
        /\ p[w.at] <= r /\ w.rank = p[w.at]
    BY DEF Stops, Spots, Places
  <2>2. i \in Levels(z, w.at)
    <3>1. 1..(i + 1) \subseteq Levels(z, w.at)
      BY <2>1 DEF SkipList, Shaped
    <3>2. QED
      BY <1>1, <3>1
  <2>3. QED
    BY <2>1, <2>2 DEF Spots
<1>4. walk[L][Top] \in Good[L]
  BY <1>1, <1>2
<1>5. ASSUME NEW i \in 1..L, i # L, NEW w \in Good[i + 1] PROVE walk[i][w] \in Good[i]
  <2>1. i + 1 \in 1..L
    BY <1>1, <1>5
  <2>2. w \in Stops(z, p, i + 1, r)
    BY <2>1, <1>5
  <2>3. QED
    BY <1>3, <1>5, <2>2
<1> HIDE DEF Good, L
<1>6. DOMAIN Down(walk, L) = 1..L /\ \A i \in 1..L : Down(walk, L)[i] \in Good[i]
  BY <1>1, <1>4, <1>5, DownStops
<1>7. QED
  BY <1>6 DEF Good, L

\* A walk over the first r entries.
LEMMA PathStops ==
    ASSUME NEW z, NEW p, SkipList(z, p), NEW r \in 0..z.length
    PROVE  LET path == Path(z, FirstNodes(z, p, r)) IN
           /\ DOMAIN path = 1..z.level
           /\ \A i \in 1..z.level : path[i] \in Stops(z, p, i, r)
<1> DEFINE first == FirstNodes(z, p, r)
           walk == [i \in 1..z.level |-> [w \in Places(z) |-> Walk(z, i, w, first)]]
<1>1. ASSUME NEW i \in 1..z.level, NEW from \in Spots(z, p, i, r)
      PROVE  walk[i][from] \in Stops(z, p, i, r)
  <2> DEFINE turn == [w \in Places(z) |-> IF Across(z, i, w).at \in first
                                          THEN Across(z, i, w) ELSE w]
  <2>1. \A w \in Spots(z, p, i, r) : w \in Places(z)
    BY DEF Spots
  <2>2. \A w \in Spots(z, p, i, r) :
           turn[w] = IF Across(z, i, w).at \in first THEN Across(z, i, w) ELSE w
    BY <2>1
  <2> HIDE DEF turn
  <2>3. Turns(turn, from, z.length) \in Stops(z, p, i, r)
    BY <2>2, StrollEnds
  <2>4. Walk(z, i, from, first) = Turns(turn, from, z.length)
    BY DEF Walk, turn
  <2>5. QED
    BY <2>1, <2>3, <2>4
<1> HIDE DEF walk
<1>2. /\ DOMAIN Down(walk, z.level) = 1..z.level
      /\ \A i \in 1..z.level : Down(walk, z.level)[i] \in Stops(z, p, i, r)
  BY <1>1, DescentStops
<1>3. Path(z, first) = Down(walk, z.level)
  BY DEF Path, walk
<1>4. QED
  BY <1>2, <1>3

\* A walk over the entries whose numbers are below a bound.
LEMMA RankPathStops ==
    ASSUME NEW z, NEW p, SkipList(z, p), NEW r \in 0..z.length, NEW bound \in Nat,
           \A j \in 1..z.length : j < bound <=> j <= r
    PROVE  LET path == RankPath(z, bound) IN
           /\ DOMAIN path = 1..z.level
           /\ \A i \in 1..z.level : path[i] \in Stops(z, p, i, r)
<1> DEFINE walk == [i \in 1..z.level |-> [w \in Places(z) |-> WalkRank(z, i, w, bound)]]
<1>1. ASSUME NEW i \in 1..z.level, NEW from \in Spots(z, p, i, r)
      PROVE  walk[i][from] \in Stops(z, p, i, r)
  <2> DEFINE Goes(w) == Across(z, i, w).at # Nil /\ Across(z, i, w).rank < bound
             turn == [w \in Places(z) |-> IF Goes(w) THEN Across(z, i, w) ELSE w]
  <2>1. \A w \in Spots(z, p, i, r) : w \in Places(z)
    BY DEF Spots
  <2>2. ASSUME NEW w \in Spots(z, p, i, r)
        PROVE  Goes(w) <=> Across(z, i, w).at \in FirstNodes(z, p, r)
    <3> DEFINE f == z.node[w.at].forward[i]
    <3>1. w.at \in DOMAIN z.node /\ i \in Levels(z, w.at) /\ w.rank = p[w.at]
      BY DEF Spots, Places
    <3>2. LinkFits(z, p, w.at, i)
      BY <3>1, Numbers1 DEF SkipList, Linked
    <3>3. f # Nil => f \in Nodes(z) /\ z.node[w.at].span[i] = p[f] - p[w.at]
      BY <3>2 DEF LinkFits, End
    <3>4. Nil \notin Nodes(z) /\ p[w.at] \in Int /\ \A n \in Nodes(z) : p[n] \in 1..z.length
      BY <3>1, Numbers1
    <3>5. f # Nil => Across(z, i, w).rank = p[f]
      BY <3>1, <3>3, <3>4 DEF Across
    <3>6. Across(z, i, w).at = f
      BY DEF Across
    <3> HIDE DEF f
    <3>7. QED
      BY <3>3, <3>4, <3>5, <3>6 DEF FirstNodes
  <2>3. \A w \in Spots(z, p, i, r) :
           turn[w] = IF Across(z, i, w).at \in FirstNodes(z, p, r)
                     THEN Across(z, i, w) ELSE w
    BY <2>1, <2>2
  <2> HIDE DEF turn
  <2>4. Turns(turn, from, z.length) \in Stops(z, p, i, r)
    BY <2>3, StrollEnds
  <2>5. WalkRank(z, i, from, bound) = Turns(turn, from, z.length)
    BY DEF WalkRank, turn
  <2>6. QED
    BY <2>1, <2>4, <2>5
<1> HIDE DEF walk
<1>2. /\ DOMAIN Down(walk, z.level) = 1..z.level
      /\ \A i \in 1..z.level : Down(walk, z.level)[i] \in Stops(z, p, i, r)
  BY <1>1, DescentStops
<1>3. RankPath(z, bound) = Down(walk, z.level)
  BY DEF RankPath, walk
<1>4. QED
  BY <1>2, <1>3

\* On the lowest level a walk over the first r entries ends at number r.
LEMMA LowestLevel ==
    ASSUME NEW z, NEW p, SkipList(z, p), NEW r \in 0..z.length, NEW n,
           LastUpTo(z, p, 1, n, r)
    PROVE  p[n] = r
<1>1. PICK m \in DOMAIN z.node : p[m] = r
  BY DEF SkipList, Numbered
<1>2. n \in DOMAIN z.node /\ p[n] \in 0..z.length /\ p[n] <= r
  BY Numbers1 DEF LastUpTo
<1>3. CASE m = Header
  BY <1>1, <1>2, <1>3, Numbers1
<1>4. CASE m \in Nodes(z)
  <2>1. 1 \in Levels(z, m)
    BY <1>1 DEF SkipList, Shaped
  <2>2. p[m] <= p[n]
    BY <1>1, <1>4, <2>1, Numbers1 DEF LastUpTo
  <2>3. QED
    BY <1>1, <1>2, <2>2, Numbers1
<1>5. QED
  BY <1>1, <1>3, <1>4, Numbers1

\* Entries that are closed under going before are the first ones.
LEMMA FirstOnes ==
    ASSUME NEW z, NEW p, SkipList(z, p), NEW A, A \subseteq Nodes(z),
           \A m, n \in Nodes(z) : n \in A /\ p[m] < p[n] => m \in A
    PROVE  \E r \in 0..z.length : A = FirstNodes(z, p, r)
<1> DEFINE T == {j \in 1..(z.length + 1) : \A n \in A : p[n] # j}
<1>1. /\ z.length \in Nat /\ \A n \in Nodes(z) : p[n] \in 1..z.length
      /\ DOMAIN z.node = Nodes(z) \union {Header} /\ p[Header] = 0
  BY Numbers1
<1>2. z.length + 1 \in T /\ T \subseteq Nat
  BY <1>1
<1>3. PICK t \in T : \A j \in T : t <= j
  BY <1>2, Least
<1>4. t - 1 \in 0..z.length
  BY <1>1, <1>3
<1>5. ASSUME NEW n \in A PROVE p[n] <= t - 1
  <2>1. SUFFICES ASSUME p[n] > t PROVE FALSE
    BY <1>1, <1>3
  <2>2. t \in 0..z.length
    BY <1>1, <1>3, <2>1
  <2>3. PICK m \in DOMAIN z.node : p[m] = t
    BY <2>2 DEF SkipList, Numbered
  <2>4. m \in Nodes(z)
    BY <1>1, <1>3, <2>3
  <2>5. m \in A
    BY <1>1, <2>1, <2>3, <2>4
  <2>6. QED
    BY <1>3, <2>3, <2>5
<1>6. ASSUME NEW n \in Nodes(z), p[n] <= t - 1 PROVE n \in A
  <2>1. p[n] \in 1..(z.length + 1) /\ p[n] \notin T
    BY <1>1, <1>3, <1>6
  <2>2. PICK m \in A : p[m] = p[n]
    BY <2>1
  <2>3. m = n
    BY <1>1, <2>2 DEF SkipList, Numbered
  <2>4. QED
    BY <2>3
<1>7. A = FirstNodes(z, p, t - 1)
  BY <1>5, <1>6 DEF FirstNodes
<1>8. QED
  BY <1>4, <1>7

-----------------------------------------------------------------------------
(* Unlinking a node.                                                        *)

\* The next entry on the lowest level is the next number.
LEMMA NextEntry ==
    ASSUME NEW z, NEW p, SkipList(z, p), NEW n \in DOMAIN z.node
    PROVE  LET f == z.node[n].forward[1] IN
           IF p[n] = z.length THEN f = Nil ELSE f \in Nodes(z) /\ p[f] = p[n] + 1
<1> DEFINE f == z.node[n].forward[1]
<1>1. /\ z.length \in Nat /\ z.level \in Nat /\ 1 <= z.level /\ p[n] \in 0..z.length
      /\ \A m \in Nodes(z) : p[m] \in 1..z.length
      /\ DOMAIN z.node = Nodes(z) \union {Header} /\ p[Header] = 0
  BY Numbers1
<1>2. LinkFits(z, p, n, 1) /\ \A m \in DOMAIN z.node : 1 \in Levels(z, m)
  BY <1>1 DEF SkipList, Linked, Shaped
<1>3. CASE p[n] = z.length
  BY <1>1, <1>2, <1>3 DEF LinkFits
<1>4. CASE p[n] # z.length
  <2>1. PICK m \in DOMAIN z.node : p[m] = p[n] + 1
    BY <1>1, <1>4 DEF SkipList, Numbered
  <2>2. m \in Nodes(z)
    BY <1>1, <2>1
  <2>3. f # Nil /\ p[f] <= p[m] /\ f \in Nodes(z) /\ p[n] < p[f]
    BY <1>1, <1>2, <2>1, <2>2 DEF LinkFits
  <2>4. QED
    BY <1>1, <1>4, <2>1, <2>3
<1>5. QED
  BY <1>3, <1>4

\* The node before x on each level.
AtBefore(z, p, x, at) ==
    /\ x \in Nodes(z)
    /\ \A i \in 1..z.level : LastUpTo(z, p, i, at[i], p[x] - 1)

\* The numbers once x is gone.
Without(z, p, x) ==
    [n \in DOMAIN z.node \ {x} |-> IF p[n] > p[x] THEN p[n] - 1 ELSE p[n]]

\* The links to x are those from the nodes before it.
LEMMA LinksToNode ==
    ASSUME NEW z, NEW p, SkipList(z, p), NEW x, NEW at, AtBefore(z, p, x, at),
           NEW n \in DOMAIN z.node, NEW i \in Levels(z, n), i <= z.level
    PROVE  z.node[n].forward[i] = x <=> at[i] = n /\ i \in Levels(z, x)
<1> DEFINE f == z.node[n].forward[i]
           a == at[i]
<1>1. /\ z.length \in Nat /\ z.level \in Nat
      /\ \A m \in DOMAIN z.node : p[m] \in 0..z.length
      /\ DOMAIN z.node = Nodes(z) \union {Header} /\ Nil \notin DOMAIN z.node
      /\ \A m, o \in DOMAIN z.node : p[m] = p[o] => m = o
  BY Numbers1 DEF SkipList, Numbered
<1>2. i \in 1..z.level /\ x \in Nodes(z)
  BY <1>1 DEF SkipList, Shaped, AtBefore
<1>3. LinkFits(z, p, n, i) /\ LastUpTo(z, p, i, a, p[x] - 1)
  BY <1>2 DEF SkipList, Linked, AtBefore
<1>4. /\ a \in DOMAIN z.node /\ i \in Levels(z, a) /\ p[a] <= p[x] - 1
      /\ \A m \in Nodes(z) : i \in Levels(z, m) /\ p[m] <= p[x] - 1 => p[m] <= p[a]
  BY <1>3 DEF LastUpTo
<1>5. ASSUME f = x PROVE a = n /\ i \in Levels(z, x)
  <2>1. i \in Levels(z, x) /\ p[n] < p[x]
    BY <1>1, <1>2, <1>3, <1>5 DEF LinkFits
  <2>2. p[n] <= p[a]
    <3>1. CASE n = Header
      BY <3>1, <1>1, <1>4, Numbers1
    <3>2. CASE n \in Nodes(z)
      BY <3>2, <1>1, <1>2, <1>4, <2>1
    <3>3. QED
      BY <1>1, <3>1, <3>2
  <2>3. ~(p[n] < p[a])
    <3>1. SUFFICES ASSUME p[n] < p[a] PROVE FALSE
      OBVIOUS
    <3>2. a \in Nodes(z)
      BY <1>1, <1>4, <3>1, Numbers1
    <3>3. p[x] <= p[a]
      BY <1>3, <1>4, <1>5, <3>1, <3>2 DEF LinkFits
    <3>4. QED
      BY <1>1, <1>2, <1>4, <3>3
  <2>4. QED
    BY <1>1, <1>4, <2>1, <2>2, <2>3
<1>6. ASSUME a = n, i \in Levels(z, x) PROVE f = x
  <2>1. p[n] < p[x]
    BY <1>1, <1>2, <1>4, <1>6
  <2>2. f # Nil /\ p[f] <= p[x] /\ f \in Nodes(z) /\ i \in Levels(z, f) /\ p[n] < p[f]
    BY <1>2, <1>3, <1>6, <2>1 DEF LinkFits
  <2>3. ~(p[f] <= p[x] - 1)
    BY <1>1, <1>4, <1>6, <2>2
  <2>4. QED
    BY <1>1, <1>2, <2>2, <2>3
<1>7. QED
  BY <1>5, <1>6

\* m is node n with its links past x, where at[i] is the node before x on level i.
Relinked(z, x, at, n, m) ==
    LET o == z.node[n] IN
    /\ m = Node(m.score, m.forward, m.span, m.backward)
    /\ m.score = o.score
    /\ DOMAIN m.forward = DOMAIN o.forward /\ DOMAIN m.span = DOMAIN o.span
    /\ m.span = [i \in DOMAIN o.span |-> m.span[i]]
    /\ \A i \in DOMAIN o.forward :
          m.forward[i] = IF i \in 1..z.level /\ at[i] = n /\ o.forward[i] = x
                         THEN z.node[x].forward[i] ELSE o.forward[i]
    /\ \A i \in DOMAIN o.span :
          m.span[i] = IF i \in 1..z.level /\ at[i] = n
                      THEN IF o.forward[i] = x THEN o.span[i] + z.node[x].span[i] - 1
                           ELSE o.span[i] - 1
                      ELSE o.span[i]
    /\ m.backward = IF n = z.node[x].forward[1] THEN z.node[x].backward ELSE o.backward

\* y is z with x unlinked.
Unlinked(z, x, at, y) ==
    /\ DOMAIN y.node = DOMAIN z.node \ {x}
    /\ y.length = z.length - 1
    /\ y.tail = IF z.node[x].forward[1] = Nil THEN z.node[x].backward ELSE z.tail
    /\ y.level = Max({1} \union {i \in 1..z.level : y.node[Header].forward[i] # Nil})
    /\ \A n \in DOMAIN z.node \ {x} : Relinked(z, x, at, n, y.node[n])

\* What zslDeleteNode leaves.
LEMMA DeleteNodeFields ==
    ASSUME NEW z, NEW p, SkipList(z, p), NEW x, NEW at, AtBefore(z, p, x, at)
    PROVE  Unlinked(z, x, at, DeleteNode(z, x, at))
<1> DEFINE y == DeleteNode(z, x, at)
           mine(n) == {i \in 1..z.level : at[i] = n}
           link(n) == {i \in mine(n) : z.node[n].forward[i] = x}
           old(n) == [z.node[n] EXCEPT
                        !.forward = [i \in DOMAIN @ |->
                            IF i \in link(n) THEN z.node[x].forward[i] ELSE @[i]],
                        !.span = [i \in DOMAIN @ |->
                            IF i \in link(n) THEN @[i] + z.node[x].span[i] - 1
                            ELSE IF i \in mine(n) THEN @[i] - 1 ELSE @[i]],
                        !.backward = IF n = z.node[x].forward[1] THEN z.node[x].backward
                                     ELSE @]
           nodes == [n \in DOMAIN z.node \ {x} |-> old(n)]
<1>1. y = [node |-> nodes, tail |-> NewTail(z, x), length |-> z.length - 1,
           level |-> NewLevel(z, nodes[Header])]
  BY DEF DeleteNode
<1>2. y.node = nodes /\ y.tail = NewTail(z, x) /\ y.length = z.length - 1
      /\ y.level = NewLevel(z, nodes[Header])
  <2> HIDE DEF y, nodes
  <2>1. QED
    BY <1>1
<1>3. ASSUME NEW n \in DOMAIN z.node \ {x} PROVE Relinked(z, x, at, n, old(n))
  <2>1. z.node[n] = Node(z.node[n].score, z.node[n].forward, z.node[n].span,
                         z.node[n].backward)
    BY DEF SkipList, Shaped
  <2> DEFINE o == z.node[n]
             forward == [i \in DOMAIN o.forward |->
                            IF i \in link(n) THEN z.node[x].forward[i] ELSE o.forward[i]]
             span == [i \in DOMAIN o.span |->
                         IF i \in link(n) THEN o.span[i] + z.node[x].span[i] - 1
                         ELSE IF i \in mine(n) THEN o.span[i] - 1 ELSE o.span[i]]
             backward == IF n = z.node[x].forward[1] THEN z.node[x].backward
                         ELSE o.backward
  <2>2. old(n) = [o EXCEPT !.forward = forward, !.span = span, !.backward = backward]
    OBVIOUS
  <2>3. old(n) = Node(o.score, forward, span, backward)
    <3> HIDE DEF old, o, forward, span, backward
    <3>1. o = Node(o.score, o.forward, o.span, o.backward)
      BY <2>1 DEF o
    <3>2. QED
      BY <2>2, <3>1 DEF Node
  <2>4. /\ old(n).score = o.score /\ old(n).forward = forward
        /\ old(n).span = span /\ old(n).backward = backward
    <3> HIDE DEF old, o, forward, span, backward
    <3>1. QED
      BY <2>3 DEF Node
  <2> HIDE DEF old
  <2>5. QED
    BY <2>3, <2>4 DEF Relinked
<1> HIDE DEF y, old
<1>4. \A n \in DOMAIN z.node \ {x} : y.node[n] = old(n)
  BY <1>2
<1>5. DOMAIN y.node = DOMAIN z.node \ {x}
  BY <1>2
<1>6. y.level = Max({1} \union {i \in 1..z.level : y.node[Header].forward[i] # Nil})
  BY <1>2 DEF NewLevel
<1>7. y.tail = IF z.node[x].forward[1] = Nil THEN z.node[x].backward ELSE z.tail
  BY <1>2 DEF NewTail
<1>8. QED
  BY <1>2, <1>3, <1>4, <1>5, <1>6, <1>7 DEF y, Unlinked

\* q numbers the nodes but x as p does, those behind x by one less.
Renumbered(z, p, x, q) ==
    /\ z.length - 1 \in Nat
    /\ q \in [DOMAIN z.node \ {x} -> 0..(z.length - 1)]
    /\ \A n \in DOMAIN z.node \ {x} :
          /\ p[n] # p[x]
          /\ q[n] = IF p[n] > p[x] THEN p[n] - 1 ELSE p[n]
    /\ \A m, n \in DOMAIN z.node \ {x} : q[m] < q[n] <=> p[m] < p[n]
    /\ \A m, n \in DOMAIN z.node \ {x} : q[m] = q[n] => m = n
    /\ \A r \in 0..(z.length - 1) : \E n \in DOMAIN z.node \ {x} : q[n] = r

\* The numbers without x.
LEMMA WithoutNumbers ==
    ASSUME NEW z, NEW p, SkipList(z, p), NEW x \in Nodes(z)
    PROVE  Renumbered(z, p, x, Without(z, p, x))
<1> DEFINE q == Without(z, p, x)
           N == DOMAIN z.node \ {x}
<1>1. /\ z.length \in Nat /\ p[x] \in 1..z.length /\ x \in DOMAIN z.node
      /\ \A n \in DOMAIN z.node : p[n] \in 0..z.length
      /\ \A m, n \in DOMAIN z.node : p[m] = p[n] => m = n
      /\ \A r \in 0..z.length : \E n \in DOMAIN z.node : p[n] = r
  BY Numbers1 DEF SkipList, Numbered
<1>2. z.length - 1 \in Nat
  BY <1>1
<1>3. \A n \in N : p[n] # p[x] /\ q[n] = IF p[n] > p[x] THEN p[n] - 1 ELSE p[n]
  BY <1>1 DEF Without
<1>4. DOMAIN q = N /\ q = [n \in N |-> q[n]]
  BY DEF Without
<1> HIDE DEF q
<1>5. \A n \in N : q[n] \in 0..(z.length - 1)
  BY <1>1, <1>3
<1>6. q \in [N -> 0..(z.length - 1)]
  BY <1>4, <1>5
<1>7. \A m, n \in N : q[m] < q[n] <=> p[m] < p[n]
  BY <1>1, <1>3
<1>8. \A m, n \in N : q[m] = q[n] => m = n
  BY <1>1, <1>3
<1>9. ASSUME NEW r \in 0..(z.length - 1) PROVE \E n \in N : q[n] = r
  <2>1. CASE r < p[x]
    <3>1. PICK n \in DOMAIN z.node : p[n] = r
      BY <1>1
    <3>2. QED
      BY <1>1, <1>3, <2>1, <3>1
  <2>2. CASE r >= p[x]
    <3>1. PICK n \in DOMAIN z.node : p[n] = r + 1
      BY <1>1
    <3>2. QED
      BY <1>1, <1>3, <2>2, <3>1
  <2>3. QED
    BY <1>1, <2>1, <2>2
<1>10. QED
  BY <1>2, <1>3, <1>6, <1>7, <1>8, <1>9 DEF Renumbered, q

\* The links of the nodes that stay.
LEMMA WithoutLinks ==
    ASSUME NEW z, NEW p, SkipList(z, p), NEW x, NEW at, AtBefore(z, p, x, at),
           NEW n \in DOMAIN z.node \ {x}, NEW i \in Levels(z, n), i <= z.level
    PROVE  LinkFits(DeleteNode(z, x, at), Without(z, p, x), n, i)
<1> DEFINE y == DeleteNode(z, x, at)
           q == Without(z, p, x)
           f == z.node[n].forward[i]
           g == y.node[n].forward[i]
           a == at[i]
<1>1. /\ z.length \in Nat /\ z.level \in Nat
      /\ \A m \in DOMAIN z.node : p[m] \in 0..z.length
      /\ DOMAIN z.node = Nodes(z) \union {Header} /\ Nil \notin DOMAIN z.node
      /\ Header \notin Nodes(z)
      /\ \A m, o \in DOMAIN z.node : p[m] = p[o] => m = o
  BY Numbers1 DEF SkipList, Numbered
<1>2. i \in 1..z.level /\ x \in Nodes(z)
  BY <1>1 DEF SkipList, Shaped, AtBefore
<1>3. LinkFits(z, p, n, i) /\ LastUpTo(z, p, i, a, p[x] - 1)
  BY <1>1, <1>2 DEF SkipList, Linked, AtBefore
<1>4. i \in Levels(z, x) => LinkFits(z, p, x, i)
  BY <1>1, <1>2 DEF SkipList, Linked
<1>5. f = x <=> a = n /\ i \in Levels(z, x)
  BY LinksToNode
<1>6. /\ DOMAIN y.node = DOMAIN z.node \ {x} /\ y.length = z.length - 1
      /\ \A m \in DOMAIN z.node \ {x} : Levels(y, m) = Levels(z, m)
      /\ g = IF a = n /\ f = x THEN z.node[x].forward[i] ELSE f
      /\ y.node[n].span[i] = IF a = n THEN IF f = x
                                           THEN z.node[n].span[i] + z.node[x].span[i] - 1
                                           ELSE z.node[n].span[i] - 1
                             ELSE z.node[n].span[i]
  <2>1. i \in DOMAIN z.node[n].span
    BY DEF SkipList, Shaped
  <2>2. Unlinked(z, x, at, y)
    BY DeleteNodeFields
  <2> HIDE DEF y
  <2>3. \A m \in DOMAIN z.node \ {x} : Relinked(z, x, at, m, y.node[m])
    BY <2>2 DEF Unlinked
  <2>4. \A m \in DOMAIN z.node \ {x} : Levels(y, m) = Levels(z, m)
    BY <2>3 DEF Relinked, Levels
  <2>5. Relinked(z, x, at, n, y.node[n]) /\ i \in DOMAIN z.node[n].forward
    BY <2>3 DEF Levels
  <2>6. g = IF a = n /\ f = x THEN z.node[x].forward[i] ELSE f
    BY <1>2, <2>5 DEF Relinked
  <2>7. y.node[n].span[i] = IF a = n THEN IF f = x
                                          THEN z.node[n].span[i] + z.node[x].span[i] - 1
                                          ELSE z.node[n].span[i] - 1
                            ELSE z.node[n].span[i]
    BY <1>2, <2>1, <2>5 DEF Relinked
  <2>8. QED
    BY <2>2, <2>4, <2>6, <2>7 DEF Unlinked
<1>7. Nodes(y) = Nodes(z) \ {x}
  BY <1>6 DEF Nodes
<1>8. /\ \A m \in DOMAIN z.node \ {x} :
            p[m] # p[x] /\ q[m] = IF p[m] > p[x] THEN p[m] - 1 ELSE p[m]
      /\ \A m, o \in DOMAIN z.node \ {x} : q[m] < q[o] <=> p[m] < p[o]
  <2>1. Renumbered(z, p, x, q)
    BY <1>2, WithoutNumbers
  <2>2. QED
    BY <2>1 DEF Renumbered
<1>9. /\ f # Nil => f \in Nodes(z) /\ i \in Levels(z, f) /\ p[n] < p[f]
      /\ z.node[n].span[i] = End(z, p, f) - p[n]
      /\ \A m \in Nodes(z) : i \in Levels(z, m) /\ p[n] < p[m] => f # Nil /\ p[f] <= p[m]
  BY <1>3 DEF LinkFits
<1>10. /\ a \in DOMAIN z.node /\ i \in Levels(z, a) /\ p[a] <= p[x] - 1
       /\ \A m \in Nodes(z) : i \in Levels(z, m) /\ p[m] <= p[x] - 1 => p[m] <= p[a]
  BY <1>3 DEF LastUpTo
<1> HIDE DEF y, q, f, g, a
<1> SUFFICES /\ g # Nil => g \in Nodes(y) /\ i \in Levels(y, g) /\ q[n] < q[g]
             /\ y.node[n].span[i] = End(y, q, g) - q[n]
             /\ \A m \in Nodes(y) : i \in Levels(y, m) /\ q[n] < q[m]
                                    => g # Nil /\ q[g] <= q[m]
  BY DEF LinkFits, y, q, g
<1>11. CASE f = x
  <2> DEFINE h == z.node[x].forward[i]
  <2>1. a = n /\ i \in Levels(z, x) /\ g = h
    BY <1>5, <1>6, <1>11
  <2>2. /\ h # Nil => h \in Nodes(z) /\ i \in Levels(z, h) /\ p[x] < p[h]
        /\ z.node[x].span[i] = End(z, p, h) - p[x]
        /\ \A m \in Nodes(z) : i \in Levels(z, m) /\ p[x] < p[m] => h # Nil /\ p[h] <= p[m]
    BY <1>4, <2>1 DEF LinkFits
  <2> HIDE DEF h
  <2>3. p[n] < p[x] /\ q[n] = p[n] /\ p[n] \in Int /\ p[x] \in Int
    BY <1>1, <1>2, <1>8, <1>9, <1>11
  <2>4. g # Nil => g \in Nodes(y) /\ i \in Levels(y, g) /\ q[n] < q[g]
    BY <1>1, <1>2, <1>6, <1>7, <1>8, <2>1, <2>2, <2>3
  <2>5. y.node[n].span[i] = End(y, q, g) - q[n]
    <3>1. y.node[n].span[i] = (p[x] - p[n]) + (End(z, p, h) - p[x]) - 1
      BY <1>2, <1>1, <1>6, <1>9, <1>11, <2>1, <2>2 DEF End
    <3>2. End(z, p, h) \in Int /\ End(y, q, g) = End(z, p, h) - 1
      BY <1>1, <1>2, <1>6, <1>8, <2>1, <2>2 DEF End
    <3>3. QED
      BY <2>3, <3>1, <3>2
  <2>6. ASSUME NEW m \in Nodes(y), i \in Levels(y, m), q[n] < q[m]
        PROVE  g # Nil /\ q[g] <= q[m]
    <3>1. m \in Nodes(z) /\ m # x /\ i \in Levels(z, m) /\ p[n] < p[m]
      BY <1>1, <1>6, <1>7, <1>8, <2>6
    <3>2. p[x] <= p[m] /\ p[m] # p[x]
      BY <1>1, <1>8, <1>9, <1>11, <3>1
    <3>3. h # Nil /\ p[h] <= p[m] /\ p[x] < p[m]
      BY <1>1, <1>2, <2>2, <3>1, <3>2
    <3>4. QED
      BY <1>1, <1>2, <1>8, <2>1, <2>2, <3>1, <3>3
  <2>7. QED
    BY <2>4, <2>5, <2>6
<1>12. CASE f # x
  <2>1. g = f
    BY <1>6, <1>12
  <2>2. g # Nil => g \in Nodes(y) /\ i \in Levels(y, g) /\ q[n] < q[g]
    BY <1>1, <1>6, <1>7, <1>8, <1>9, <1>12, <2>1
  <2>3. ASSUME NEW m \in Nodes(y), i \in Levels(y, m), q[n] < q[m]
        PROVE  g # Nil /\ q[g] <= q[m]
    <3>1. m \in Nodes(z) /\ m # x /\ i \in Levels(z, m) /\ p[n] < p[m]
      BY <1>1, <1>6, <1>7, <1>8, <2>3
    <3>2. f # Nil /\ p[f] <= p[m] /\ f \in Nodes(z)
      BY <1>9, <3>1
    <3>3. QED
      BY <1>1, <1>8, <1>12, <2>1, <3>1, <3>2
  <2>4. y.node[n].span[i] = End(y, q, g) - q[n]
    <3>1. CASE a = n
      <4>1. q[n] = p[n] /\ p[n] < p[x] /\ p[n] \in Int
        BY <1>1, <1>2, <1>8, <1>10, <3>1
      <4>2. f # Nil => p[f] > p[x]
        <5>1. f # Nil => ~(p[f] <= p[x] - 1)
          BY <1>1, <1>9, <1>10, <3>1
        <5>2. QED
          BY <1>1, <1>2, <1>9, <1>12, <5>1
      <4>3. End(z, p, f) \in Int /\ End(y, q, g) = End(z, p, f) - 1
        BY <1>1, <1>6, <1>8, <1>9, <1>12, <2>1, <4>2 DEF End
      <4>4. y.node[n].span[i] = z.node[n].span[i] - 1
        BY <1>6, <1>12, <3>1
      <4>5. QED
        BY <1>9, <4>1, <4>3, <4>4
    <3>2. CASE a # n
      <4>1. y.node[n].span[i] = End(z, p, f) - p[n]
        BY <1>6, <1>9, <3>2
      <4>2. CASE p[n] > p[x]
        <5>1. q[n] = p[n] - 1 /\ p[n] \in Int
          BY <1>1, <1>8, <4>2
        <5>2. End(z, p, f) \in Int /\ End(y, q, g) = End(z, p, f) - 1
          BY <1>1, <1>2, <1>6, <1>8, <1>9, <1>12, <2>1, <4>2 DEF End
        <5>3. QED
          BY <4>1, <5>1, <5>2
      <4>3. CASE p[n] < p[x]
        <5>1. p[n] <= p[a] /\ p[n] # p[a]
          <6>1. p[n] # p[a]
            BY <1>1, <1>10, <3>2
          <6>2. ASSUME n = Header PROVE p[n] <= p[a]
            BY <1>1, <1>10, <6>2, Numbers1
          <6>3. ASSUME n \in Nodes(z) PROVE p[n] <= p[a]
            <7>1. p[n] <= p[x] - 1
              BY <1>1, <1>2, <4>3
            <7>2. QED
              BY <1>10, <6>3, <7>1
          <6>4. QED
            BY <1>1, <6>1, <6>2, <6>3
        <5>2. a \in Nodes(z)
          BY <1>1, <1>10, <5>1, Numbers1
        <5>3. f # Nil /\ p[f] <= p[a] /\ f \in Nodes(z)
          BY <1>1, <1>9, <1>10, <5>1, <5>2
        <5>4. p[f] < p[x]
          BY <1>1, <1>2, <1>10, <5>3
        <5>5. End(z, p, f) = p[f] /\ End(y, q, g) = p[f] /\ q[n] = p[n]
          <6>1. f \in DOMAIN z.node \ {x} /\ p[x] \in Int /\ p[f] \in Int /\ p[n] \in Int
            BY <1>1, <1>2, <1>12, <5>3
          <6>2. q[f] = p[f] /\ q[n] = p[n]
            BY <1>8, <4>3, <5>4, <6>1
          <6>3. QED
            BY <2>1, <5>3, <6>2 DEF End
        <5>6. QED
          BY <4>1, <5>5
      <4>4. QED
        BY <1>1, <1>2, <1>8, <4>2, <4>3
    <3>3. QED
      BY <3>1, <3>2
  <2>5. QED
    BY <2>2, <2>3, <2>4
<1>13. QED
  BY <1>11, <1>12

\* The level falls to the highest level in use.
LEMMA LevelFalls ==
    ASSUME NEW z, NEW p, SkipList(z, p), NEW x, NEW at, AtBefore(z, p, x, at), NEW y,
           Unlinked(z, x, at, y)
    PROVE  /\ y.level \in 1..z.level
           /\ y.level = 1 \/ y.node[Header].forward[y.level] # Nil
           /\ \A i \in 1..z.level : i > y.level => y.node[Header].forward[i] = Nil
<1> DEFINE used == {1} \union {i \in 1..z.level : y.node[Header].forward[i] # Nil}
<1>1. z.level \in Nat /\ 1 <= z.level
  BY Numbers1
<1>2. used \subseteq 0..z.level /\ used # {}
  BY <1>1
<1>3. y.level = Max(used)
  BY DEF Unlinked
<1> HIDE DEF used
<1>4. y.level \in used /\ \A i \in used : i <= y.level
  BY <1>1, <1>2, <1>3, MaxIsGreatest
<1>5. QED
  BY <1>1, <1>4 DEF used

\* Without an entry the others have the numbers of a list that is shorter by one.
LEMMA WithoutRange ==
    ASSUME NEW z, NEW p, SkipList(z, p), NEW x \in Nodes(z)
    PROVE  /\ z.length - 1 \in Nat
           /\ \A n \in DOMAIN z.node \ {x} : Without(z, p, x)[n] \in 0..(z.length - 1)
<1>1. z.length - 1 \in Nat /\ Without(z, p, x) \in [DOMAIN z.node \ {x} -> 0..(z.length - 1)]
  <2>1. Renumbered(z, p, x, Without(z, p, x))
    BY WithoutNumbers
  <2>2. QED
    BY <2>1 DEF Renumbered
<1>2. QED
  BY <1>1

\* Without an entry the list keeps its shape.
LEMMA WithoutShape ==
    ASSUME NEW z, NEW p, SkipList(z, p), NEW x, NEW at, AtBefore(z, p, x, at)
    PROVE  Shaped(DeleteNode(z, x, at))
<1> DEFINE y == DeleteNode(z, x, at)
           q == Without(z, p, x)
<1>1. Unlinked(z, x, at, y)
  BY DeleteNodeFields
<1>2. \A n \in DOMAIN z.node \ {x} : \A i \in Levels(z, n) : i <= z.level => LinkFits(y, q, n, i)
  BY WithoutLinks
<1> HIDE DEF y, q
<1>3. /\ x \in Nodes(z) /\ Header \in DOMAIN z.node /\ Header # x /\ z.level \in 1..MaxLevel
      /\ MaxLevel \in Nat /\ DOMAIN z.node = Nodes(z) \union {Header}
      /\ q[Header] = 0 /\ \A n \in Nodes(z) \ {x} : q[n] > 0 /\ q[n] \in Int
  <2>1. /\ x \in Nodes(z) /\ Header \in DOMAIN z.node \ {x} /\ z.level \in 1..MaxLevel
        /\ MaxLevel \in Nat /\ DOMAIN z.node = Nodes(z) \union {Header}
        /\ p[Header] = 0 /\ \A n \in Nodes(z) : p[n] \in 1..z.length
        /\ z.length \in Nat
    BY Numbers1 DEF AtBefore
  <2>2. Renumbered(z, p, x, q)
    BY <2>1, WithoutNumbers DEF q
  <2>3. \A n \in DOMAIN z.node \ {x} :
           p[n] # p[x] /\ q[n] = IF p[n] > p[x] THEN p[n] - 1 ELSE p[n]
    BY <2>2 DEF Renumbered
  <2>4. QED
    BY <2>1, <2>3
<1>4. /\ y.level \in 1..z.level
      /\ y.level = 1 \/ y.node[Header].forward[y.level] # Nil
      /\ \A i \in 1..z.level : i > y.level => y.node[Header].forward[i] = Nil
  BY <1>1, LevelFalls
<1>5. /\ DOMAIN y.node = DOMAIN z.node \ {x} /\ y.length = z.length - 1
      /\ Nodes(y) = Nodes(z) \ {x} /\ y.length \in Nat
  <2>1. DOMAIN y.node = DOMAIN z.node \ {x} /\ y.length = z.length - 1
    BY <1>1 DEF Unlinked, Relinked, Levels
  <2>2. z.length - 1 \in Nat
    BY <1>3, WithoutRange
  <2>3. QED
    BY <2>1, <2>2 DEF Nodes
<1>6. Header \in DOMAIN y.node /\ Nodes(y) \subseteq Keys /\ y.level \in 1..MaxLevel
  BY <1>3, <1>4, <1>5 DEF SkipList, Shaped
<1>7. ASSUME NEW n \in DOMAIN y.node
      PROVE  LET d == y.node[n] IN
             /\ d = Node(d.score, d.forward, d.span, d.backward)
             /\ d.score \in Int
             /\ d.span \in [Levels(y, n) -> Nat]
             /\ 1 \in Levels(y, n) /\ Levels(y, n) \subseteq 1..MaxLevel
             /\ \A i \in Levels(y, n) : 1..i \subseteq Levels(y, n)
  <2> DEFINE d == y.node[n]  o == z.node[n]
  <2>1. n \in DOMAIN z.node \ {x}
    BY <1>5
  <2>2. /\ d = Node(d.score, d.forward, d.span, d.backward)
        /\ d.score = o.score
        /\ Levels(y, n) = Levels(z, n) /\ DOMAIN d.span = DOMAIN o.span
        /\ \A i \in DOMAIN o.span :
              d.span[i] = IF i \in 1..z.level /\ at[i] = n
                          THEN IF o.forward[i] = x THEN o.span[i] + z.node[x].span[i] - 1
                               ELSE o.span[i] - 1
                          ELSE o.span[i]
    BY <1>1, <2>1 DEF Unlinked, Relinked, Levels
  <2>3. /\ o.score \in Int
        /\ o.span \in [Levels(z, n) -> Nat]
        /\ 1 \in Levels(z, n) /\ Levels(z, n) \subseteq 1..MaxLevel
        /\ \A i \in Levels(z, n) : 1..i \subseteq Levels(z, n)
    BY <2>1 DEF SkipList, Shaped
  <2>5. ASSUME NEW i \in Levels(z, n) PROVE d.span[i] \in Nat
    <3>1. i \in DOMAIN o.span /\ o.span[i] \in Nat /\ i \in Int
      BY <1>3, <2>3
    <3>2. CASE i <= z.level
      <4> DEFINE f == d.forward[i]
      <4>1. LinkFits(y, q, n, i)
        BY <1>2, <2>1, <3>2
      <4>2. d.span[i] = End(y, q, f) - q[n] /\ (f # Nil => q[n] < q[f] /\ f \in Nodes(y))
        BY <4>1 DEF LinkFits
      <4>3. \A m \in DOMAIN y.node : q[m] \in 0..y.length
        BY <1>3, <1>5, <2>1, WithoutRange DEF q
      <4> HIDE DEF f, d
      <4>4. q[n] \in 0..y.length /\ (f # Nil => q[f] \in 0..y.length)
        BY <4>2, <4>3 DEF Nodes
      <4>5. QED
        BY <1>5, <4>2, <4>4 DEF End
    <3>3. CASE i > z.level
      BY <1>3, <2>2, <3>1, <3>3
    <3>4. QED
      BY <1>3, <3>1, <3>2, <3>3
  <2>6. d.span \in [Levels(y, n) -> Nat]
    <3>1. d.span = [i \in DOMAIN o.span |-> d.span[i]]
      BY <1>1, <2>1 DEF Unlinked, Relinked, Levels
    <3>2. DOMAIN o.span = Levels(z, n) /\ Levels(y, n) = Levels(z, n)
      BY <2>2, <2>3
    <3> HIDE DEF d, o
    <3>3. QED
      BY <2>5, <3>1, <3>2
  <2> HIDE DEF d, o
  <2>7. QED
    BY <2>2, <2>3, <2>6 DEF d, o
<1>8. Levels(y, Header) = 1..MaxLevel
  BY <1>1, <1>3 DEF SkipList, Shaped, Unlinked, Relinked, Levels
<1>9. ASSUME NEW n \in Nodes(y) PROVE Levels(y, n) \subseteq 1..y.level
  <2>1. n \in Nodes(z) /\ n # x /\ Levels(y, n) = Levels(z, n) /\ Levels(z, n) \subseteq 1..z.level
    BY <1>1, <1>3, <1>5 DEF SkipList, Shaped, Unlinked, Relinked, Levels
  <2>2. ASSUME NEW i \in Levels(y, n), i > y.level PROVE FALSE
    <3>1. i \in 1..z.level /\ i \in Levels(z, Header)
      BY <1>3, <2>1 DEF SkipList, Shaped
    <3>2. y.node[Header].forward[i] = Nil
      BY <1>4, <2>2, <3>1
    <3>3. LinkFits(y, q, Header, i)
      BY <1>2, <1>3, <3>1
    <3>4. q[Header] < q[n]
      BY <1>3, <2>1
    <3>5. QED
      BY <3>2, <3>3, <3>4 DEF LinkFits
  <2>3. QED
    BY <1>3, <1>4, <2>1, <2>2
<1>10. ASSUME NEW i \in 1..MaxLevel, i > y.level PROVE y.node[Header].forward[i] = Nil
  <2>1. CASE i <= z.level
    BY <1>3, <1>4, <1>10, <2>1
  <2>2. CASE i > z.level
    <3>1. z.node[Header].forward[i] = Nil /\ i \in Levels(z, Header)
      BY <2>2 DEF SkipList, Shaped
    <3>2. Relinked(z, x, at, Header, y.node[Header])
      BY <1>1, <1>3 DEF Unlinked
    <3>3. i \notin 1..z.level /\ i \in DOMAIN z.node[Header].forward
      BY <1>3, <2>2, <3>1 DEF Levels
    <3>4. QED
      BY <3>1, <3>2, <3>3 DEF Relinked
  <2>3. QED
    BY <1>3, <2>1, <2>2
<1>11. QED
  BY <1>4, <1>5, <1>6, <1>7, <1>8, <1>9, <1>10 DEF Shaped, y

\* The backward links.
LEMMA WithoutBack ==
    ASSUME NEW z, NEW p, SkipList(z, p), NEW x, NEW at, AtBefore(z, p, x, at)
    PROVE  BackFits(DeleteNode(z, x, at), Without(z, p, x))
<1> DEFINE y == DeleteNode(z, x, at)
           q == Without(z, p, x)
           f == z.node[x].forward[1]
           b == z.node[x].backward
<1>1. /\ x \in Nodes(z) /\ x \in DOMAIN z.node
      /\ z.length \in Nat /\ \A n \in Nodes(z) : p[n] \in 1..z.length
      /\ DOMAIN z.node = Nodes(z) \union {Header}
      /\ \A m, n \in DOMAIN z.node : p[m] = p[n] => m = n
  BY Numbers1 DEF AtBefore, SkipList, Numbered
<1>2. \A n \in DOMAIN z.node \ {x} :
         p[n] # p[x] /\ q[n] = IF p[n] > p[x] THEN p[n] - 1 ELSE p[n]
  <2>1. Renumbered(z, p, x, q)
    BY <1>1, WithoutNumbers
  <2>2. QED
    BY <2>1 DEF Renumbered
<1>3. Unlinked(z, x, at, y)
  BY DeleteNodeFields
<1>4. IF p[x] = z.length THEN f = Nil ELSE f \in Nodes(z) /\ p[f] = p[x] + 1
  BY <1>1, NextEntry
<1>5. /\ \A n \in Nodes(z) :
            IF p[n] = 1 THEN z.node[n].backward = Nil
            ELSE z.node[n].backward \in Nodes(z) /\ p[z.node[n].backward] = p[n] - 1
      /\ IF z.length = 0 THEN z.tail = Nil ELSE z.tail \in Nodes(z) /\ p[z.tail] = z.length
  BY DEF SkipList, BackFits
<1> HIDE DEF y, q, f, b
<1>6. /\ Nodes(y) = Nodes(z) \ {x} /\ y.length = z.length - 1
      /\ y.tail = IF f = Nil THEN b ELSE z.tail
      /\ \A n \in Nodes(y) : y.node[n].backward = IF n = f THEN b ELSE z.node[n].backward
  <2>1. DOMAIN y.node = DOMAIN z.node \ {x} /\ y.length = z.length - 1
        /\ y.tail = IF f = Nil THEN b ELSE z.tail
    BY <1>3 DEF Unlinked, f, b
  <2>2. \A n \in DOMAIN z.node \ {x} : y.node[n].backward = IF n = f THEN b
                                                            ELSE z.node[n].backward
    BY <1>3 DEF Unlinked, Relinked, f, b
  <2>3. QED
    BY <2>1, <2>2 DEF Nodes
<1>7. IF p[x] = 1 THEN b = Nil ELSE b \in Nodes(z) /\ p[b] = p[x] - 1
  BY <1>1, <1>5 DEF b
<1>8. Nil \notin Nodes(z)
  BY <1>1, Numbers1
<1>9. ASSUME NEW n \in Nodes(y)
      PROVE  IF q[n] = 1 THEN y.node[n].backward = Nil
             ELSE y.node[n].backward \in Nodes(y) /\ q[y.node[n].backward] = q[n] - 1
  <2>1. n \in Nodes(z) /\ n # x /\ n \in DOMAIN z.node \ {x}
    BY <1>1, <1>6
  <2>2. CASE n = f
    <3>1. p[n] = p[x] + 1 /\ q[n] = p[x] /\ y.node[n].backward = b
      BY <1>1, <1>2, <1>4, <1>6, <1>8, <2>1, <2>2
    <3>2. CASE p[x] = 1
      BY <1>7, <3>1, <3>2
    <3>3. CASE p[x] # 1
      <4>1. b \in Nodes(z) /\ p[b] = p[x] - 1 /\ b # x
        BY <1>1, <1>7, <3>3
      <4>2. q[b] = p[x] - 1
        BY <1>1, <1>2, <4>1
      <4>3. QED
        BY <1>6, <3>1, <3>3, <4>1, <4>2
    <3>4. QED
      BY <3>2, <3>3
  <2>3. CASE n # f
    <3> DEFINE c == z.node[n].backward
    <3>1. y.node[n].backward = c
      BY <1>6, <2>3
    <3>2. IF p[n] = 1 THEN c = Nil ELSE c \in Nodes(z) /\ p[c] = p[n] - 1
      BY <1>5, <2>1
    <3> HIDE DEF c
    <3>3. p[n] # p[x] + 1
      BY <1>1, <1>4, <2>1, <2>3
    <3>4. CASE p[n] > p[x]
      <4>1. c \in Nodes(z) /\ p[c] = p[n] - 1 /\ p[c] > p[x]
        BY <1>1, <2>1, <3>2, <3>3, <3>4
      <4>2. q[n] = p[n] - 1 /\ q[c] = p[n] - 2 /\ c # x
        BY <1>1, <1>2, <2>1, <3>4, <4>1
      <4>3. QED
        BY <1>1, <1>6, <2>1, <3>1, <3>3, <3>4, <4>1, <4>2
    <3>5. CASE p[n] < p[x]
      <4>1. q[n] = p[n]
        BY <1>1, <1>2, <2>1, <3>5
      <4>2. CASE p[n] = 1
        BY <3>1, <3>2, <4>1, <4>2
      <4>3. CASE p[n] # 1
        <5>1. c \in Nodes(z) /\ p[c] = p[n] - 1 /\ c # x /\ p[c] < p[x]
          BY <1>1, <2>1, <3>2, <3>5, <4>3
        <5>2. q[c] = p[n] - 1
          BY <1>1, <1>2, <5>1
        <5>3. QED
          BY <1>6, <3>1, <4>1, <4>3, <5>1, <5>2
      <4>4. QED
        BY <4>2, <4>3
    <3>6. QED
      BY <1>1, <1>2, <2>1, <3>4, <3>5
  <2>4. QED
    BY <2>2, <2>3
<1>10. IF y.length = 0 THEN y.tail = Nil ELSE y.tail \in Nodes(y) /\ q[y.tail] = y.length
  <2>1. CASE p[x] = z.length
    <3>1. y.tail = b
      BY <1>4, <1>6, <2>1
    <3>2. CASE p[x] = 1
      BY <1>6, <1>7, <2>1, <3>1, <3>2
    <3>3. CASE p[x] # 1
      <4>1. b \in Nodes(z) /\ p[b] = p[x] - 1 /\ b # x
        BY <1>1, <1>7, <3>3
      <4>2. q[b] = p[x] - 1
        BY <1>1, <1>2, <4>1
      <4>3. QED
        BY <1>1, <1>6, <2>1, <3>1, <3>3, <4>1, <4>2
    <3>4. QED
      BY <3>2, <3>3
  <2>2. CASE p[x] # z.length
    <3>1. z.tail \in Nodes(z) /\ p[z.tail] = z.length /\ z.tail # x /\ p[z.tail] > p[x]
      BY <1>1, <1>5, <2>2
    <3>2. y.tail = z.tail
      BY <1>4, <1>6, <1>8, <2>2
    <3>3. q[z.tail] = z.length - 1
      BY <1>1, <1>2, <3>1
    <3>4. QED
      BY <1>1, <1>6, <2>2, <3>1, <3>2, <3>3
  <2>3. QED
    BY <2>1, <2>2
<1>11. QED
  BY <1>9, <1>10 DEF BackFits, y, q

\* Unlinking a node leaves a skip list of the others, and the nodes before it are
\* still the last ones before its place on each level.
LEMMA DeleteNodeFits ==
    ASSUME NEW z, NEW p, SkipList(z, p), NEW x, NEW at, AtBefore(z, p, x, at)
    PROVE  LET y == DeleteNode(z, x, at)  q == Without(z, p, x) IN
           /\ SkipList(y, q)
           /\ Nodes(y) = Nodes(z) \ {x} /\ DOMAIN y.node = DOMAIN z.node \ {x}
           /\ y.length = z.length - 1
           /\ \A n \in Nodes(y) : y.node[n].score = z.node[n].score
           /\ \A i \in 1..y.level : LastUpTo(y, q, i, at[i], p[x] - 1)
<1> DEFINE y == DeleteNode(z, x, at)
           q == Without(z, p, x)
<1>1. Unlinked(z, x, at, y)
  BY DeleteNodeFields
<1>2. Shaped(y) /\ BackFits(y, q)
  BY WithoutShape, WithoutBack
<1>3. \A n \in DOMAIN z.node \ {x} : \A i \in Levels(z, n) : i <= z.level => LinkFits(y, q, n, i)
  BY WithoutLinks
<1>4. x \in Nodes(z) /\ x \in DOMAIN z.node /\ x # Header /\ z.level \in Nat /\ z.length \in Nat
      /\ DOMAIN z.node = Nodes(z) \union {Header} /\ p[Header] = 0
      /\ \A n \in DOMAIN z.node : p[n] \in 0..z.length
      /\ p[x] \in 1..z.length
  BY Numbers1 DEF AtBefore
<1>5. /\ q \in [DOMAIN z.node \ {x} -> 0..(z.length - 1)]
      /\ \A n \in DOMAIN z.node \ {x} :
            p[n] # p[x] /\ q[n] = IF p[n] > p[x] THEN p[n] - 1 ELSE p[n]
      /\ \A m, n \in DOMAIN z.node \ {x} : q[m] < q[n] <=> p[m] < p[n]
      /\ \A m, n \in DOMAIN z.node \ {x} : q[m] = q[n] => m = n
      /\ \A r \in 0..(z.length - 1) : \E n \in DOMAIN z.node \ {x} : q[n] = r
  <2>1. x \in Nodes(z)
    BY <1>4
  <2>2. Renumbered(z, p, x, q)
    BY <2>1, WithoutNumbers
  <2>3. QED
    BY <2>2 DEF Renumbered
<1>6. y.level \in 1..z.level
  BY <1>1, LevelFalls
<1> HIDE DEF y, q
<1>7. /\ DOMAIN y.node = DOMAIN z.node \ {x} /\ Nodes(y) = Nodes(z) \ {x}
      /\ y.length = z.length - 1
      /\ \A n \in DOMAIN y.node : /\ y.node[n].score = z.node[n].score
                                  /\ Levels(y, n) = Levels(z, n)
  <2>1. /\ DOMAIN y.node = DOMAIN z.node \ {x} /\ y.length = z.length - 1
        /\ \A n \in DOMAIN z.node \ {x} : Relinked(z, x, at, n, y.node[n])
    BY <1>1 DEF Unlinked
  <2>2. QED
    BY <2>1 DEF Relinked, Levels, Nodes
<1>8. Numbered(y, q)
  <2>1. q[Header] = 0
    BY <1>4, <1>5
  <2>2. QED
    BY <1>5, <1>7, <2>1 DEF Numbered
<1>9. Sorted(y, q)
  <2>1. SUFFICES ASSUME NEW m \in Nodes(y), NEW n \in Nodes(y), q[m] < q[n]
                 PROVE  NodeBefore(y, m, n)
    BY DEF Sorted
  <2>2. m \in Nodes(z) /\ n \in Nodes(z) /\ p[m] < p[n]
    BY <1>4, <1>5, <1>7, <2>1
  <2>3. NodeBefore(z, m, n)
    BY <2>2 DEF SkipList, Sorted
  <2>4. y.node[m].score = z.node[m].score /\ y.node[n].score = z.node[n].score
    BY <1>4, <1>7
  <2>5. QED
    BY <2>3, <2>4 DEF NodeBefore
<1>10. Linked(y, q)
  <2>1. SUFFICES ASSUME NEW n \in DOMAIN y.node, NEW i \in Levels(y, n), i <= y.level
                 PROVE  LinkFits(y, q, n, i)
    BY DEF Linked
  <2>2. n \in DOMAIN z.node \ {x} /\ i \in Levels(z, n)
    BY <1>7
  <2>3. i \in 1..MaxLevel /\ MaxLevel \in Nat
    BY <2>2, Numbers1 DEF SkipList, Shaped
  <2>4. i <= z.level
    BY <1>4, <1>6, <2>1, <2>3
  <2>5. QED
    BY <1>3, <2>2, <2>4
<1>11. ASSUME NEW i \in 1..y.level PROVE LastUpTo(y, q, i, at[i], p[x] - 1)
  <2> DEFINE a == at[i]
  <2>1. LastUpTo(z, p, i, a, p[x] - 1)
    BY <1>4, <1>6 DEF AtBefore
  <2>2. /\ a \in DOMAIN z.node /\ i \in Levels(z, a) /\ p[a] <= p[x] - 1
        /\ \A m \in Nodes(z) : i \in Levels(z, m) /\ p[m] <= p[x] - 1 => p[m] <= p[a]
    BY <2>1 DEF LastUpTo
  <2> HIDE DEF a
  <2>3. a # x /\ q[a] = p[a]
    BY <1>4, <1>5, <2>2
  <2>4. ASSUME NEW m \in Nodes(y), i \in Levels(y, m), q[m] <= p[x] - 1
        PROVE  q[m] <= q[a]
    <3>1. m \in Nodes(z) /\ m \in DOMAIN z.node \ {x} /\ i \in Levels(z, m)
      BY <1>4, <1>7, <2>4
    <3>2. p[m] <= p[x] - 1 /\ q[m] = p[m]
      BY <1>4, <1>5, <2>4, <3>1
    <3>3. QED
      BY <2>2, <2>3, <3>1, <3>2
  <2>5. QED
    BY <1>7, <2>2, <2>3, <2>4 DEF LastUpTo, a
<1>12. QED
  BY <1>2, <1>7, <1>8, <1>9, <1>10, <1>11 DEF SkipList, y, q, Nodes

-----------------------------------------------------------------------------
(* Deleting.                                                                *)

\* The order of two entries is that of their numbers.
LEMMA OrderIsNumbers ==
    ASSUME NEW z, NEW p, SkipList(z, p)
    PROVE  \A m, n \in Nodes(z) : p[m] < p[n] <=> NodeBefore(z, m, n)
<1>1. SUFFICES ASSUME NEW m \in Nodes(z), NEW n \in Nodes(z), NodeBefore(z, m, n)
               PROVE  p[m] < p[n]
  BY DEF SkipList, Sorted
<1>2. /\ p[m] \in Int /\ p[n] \in Int /\ m \in DOMAIN z.node /\ n \in DOMAIN z.node
      /\ (p[m] = p[n] => m = n)
  BY Numbers1 DEF SkipList, Numbered
<1>3. m \in Int /\ n \in Int /\ z.node[m].score \in Int /\ z.node[n].score \in Int
  <2>1. z.node[m].score \in Int /\ z.node[n].score \in Int
    BY <1>2 DEF SkipList, Shaped
  <2>2. Nodes(z) \subseteq Keys
    BY DEF SkipList, Shaped
  <2>3. m \in Keys /\ n \in Keys
    BY <2>2
  <2>4. Keys \subseteq Nat
    BY SortedSetAssumption
  <2>5. m \in Int /\ n \in Int
    BY <2>3, <2>4
  <2>6. QED
    BY <2>1, <2>5
<1>4. CASE p[n] < p[m]
  <2>1. NodeBefore(z, n, m)
    BY <1>4 DEF SkipList, Sorted
  <2>2. QED
    BY <1>1, <1>3, <2>1 DEF NodeBefore, Better
<1>5. CASE m = n
  BY <1>1, <1>3, <1>5 DEF NodeBefore, Better
<1>6. QED
  BY <1>2, <1>4, <1>5

\* The nodes before a node are those with lower numbers.
LEMMA BeforeNode ==
    ASSUME NEW z, NEW p, SkipList(z, p), NEW k \in Nodes(z)
    PROVE  Before(z, z.node[k].score, k) = FirstNodes(z, p, p[k] - 1)
<1>1. \A n \in Nodes(z) : p[n] < p[k] <=> NodeBefore(z, n, k)
  BY OrderIsNumbers
<1>2. \A n \in Nodes(z) : p[n] \in Int
  BY Numbers1
<1>3. \A n \in Nodes(z) : n \in Before(z, z.node[k].score, k) <=> p[n] <= p[k] - 1
  BY <1>1, <1>2 DEF Before, NodeBefore
<1>4. QED
  BY <1>3 DEF Before, FirstNodes

\* update[] when the walk was over the first r entries.
StoppedAt(z, p, r, at) ==
    LET f == z.node[at[1]].forward[1] IN
    /\ \A i \in 1..z.level : LastUpTo(z, p, i, at[i], r)
    /\ p[at[1]] = r /\ at[1] \in DOMAIN z.node
    /\ IF r = z.length THEN f = Nil ELSE f \in Nodes(z) /\ p[f] = r + 1

\* It is what such a walk leaves.
LEMMA AtStops ==
    ASSUME NEW z, NEW p, SkipList(z, p), NEW r \in 0..z.length, NEW path,
           DOMAIN path = 1..z.level, \A i \in 1..z.level : path[i] \in Stops(z, p, i, r)
    PROVE  StoppedAt(z, p, r, AtOf(path)) /\ path[1].rank = r
<1> DEFINE at == AtOf(path)
<1>1. \A i \in 1..z.level : LastUpTo(z, p, i, at[i], r)
  BY DEF Stops, AtOf
<1>2. 1 \in 1..z.level
  BY Numbers1
<1>3. at[1] = path[1].at /\ path[1].rank = p[path[1].at]
  BY <1>2 DEF AtOf, Stops, Spots
<1>4. p[at[1]] = r /\ at[1] \in DOMAIN z.node
  <2> HIDE DEF at
  <2>1. LastUpTo(z, p, 1, at[1], r)
    BY <1>1, <1>2
  <2>2. QED
    BY <2>1, LowestLevel DEF LastUpTo
<1> HIDE DEF at
<1>5. LET f == z.node[at[1]].forward[1] IN
      IF r = z.length THEN f = Nil ELSE f \in Nodes(z) /\ p[f] = r + 1
  BY <1>4, NextEntry
<1>6. QED
  BY <1>1, <1>3, <1>4, <1>5 DEF at, StoppedAt

\* y is z with the g entries after the first r gone.
Gone(z, p, r, g, y, q) ==
    /\ SkipList(y, q)
    /\ Nodes(y) = {n \in Nodes(z) : p[n] <= r \/ p[n] > r + g}
    /\ y.length = z.length - g
    /\ \A n \in Nodes(y) : /\ y.node[n].score = z.node[n].score
                           /\ q[n] = IF p[n] <= r THEN p[n] ELSE p[n] - g

\* zslDelete of an entry unlinks it.
LEMMA DeleteFits ==
    ASSUME NEW z, NEW p, SkipList(z, p), NEW k \in Nodes(z)
    PROVE  \E q : Gone(z, p, p[k] - 1, 1, Delete(z, z.node[k].score, k), q)
<1> DEFINE r == p[k] - 1
           path == Path(z, Before(z, z.node[k].score, k))
           at == AtOf(path)
<1>1. r \in 0..z.length /\ p[k] \in 1..z.length /\ z.length \in Nat
      /\ \A n \in Nodes(z) : p[n] \in Int
  BY Numbers1
<1>2. path = Path(z, FirstNodes(z, p, r))
  BY BeforeNode
<1> HIDE DEF r
<1>3. DOMAIN path = 1..z.level /\ \A i \in 1..z.level : path[i] \in Stops(z, p, i, r)
  BY <1>1, <1>2, PathStops
<1> HIDE DEF path
<1>4. /\ \A i \in 1..z.level : LastUpTo(z, p, i, at[i], r)
      /\ IF r = z.length THEN z.node[at[1]].forward[1] = Nil
         ELSE z.node[at[1]].forward[1] \in Nodes(z) /\ p[z.node[at[1]].forward[1]] = r + 1
  <2>1. StoppedAt(z, p, r, at)
    BY <1>1, <1>3, AtStops
  <2>2. QED
    BY <2>1 DEF StoppedAt
<1> HIDE DEF at
<1>5. z.node[at[1]].forward[1] = k
  BY <1>1, <1>4 DEF r, SkipList, Numbered, Nodes
<1>6. AtBefore(z, p, k, at)
  BY <1>4 DEF AtBefore, r
<1>7. Delete(z, z.node[k].score, k) = DeleteNode(z, k, at)
  BY <1>5 DEF Delete, at, path
<1> DEFINE y == DeleteNode(z, k, at)
           q == Without(z, p, k)
<1>8. /\ SkipList(y, q) /\ Nodes(y) = Nodes(z) \ {k} /\ y.length = z.length - 1
      /\ \A n \in Nodes(y) : y.node[n].score = z.node[n].score
  BY <1>6, DeleteNodeFits
<1>9. \A n \in Nodes(z) \ {k} : p[n] # p[k] /\ q[n] = IF p[n] > p[k] THEN p[n] - 1 ELSE p[n]
  <2>1. Renumbered(z, p, k, q)
    BY WithoutNumbers
  <2>2. QED
    BY <2>1 DEF Renumbered, Nodes
<1> HIDE DEF y, q
<1>10. Nodes(y) = {n \in Nodes(z) : p[n] <= r \/ p[n] > r + 1}
  BY <1>1, <1>8, <1>9 DEF r
<1>11. \A n \in Nodes(y) : q[n] = IF p[n] <= r THEN p[n] ELSE p[n] - 1
  BY <1>1, <1>8, <1>9 DEF r
<1>12. Gone(z, p, r, 1, y, q)
  BY <1>8, <1>10, <1>11 DEF Gone
<1>13. QED
  BY <1>7, <1>12 DEF y, r

\* The loop of the removals has unlinked the g entries after the first r.
Swept(z, p, r, g, at, l) ==
    /\ \E q : /\ Gone(z, p, r, g, l.list, q)
              /\ \A i \in 1..l.list.level : LastUpTo(l.list, q, i, at[i], r)
    /\ IF r + g = z.length THEN l.next = Nil
       ELSE l.next \in Nodes(z) /\ p[l.next] = r + g + 1

\* A turn unlinks the next of the first e entries.
LEMMA SweepGoesOn ==
    ASSUME NEW z, NEW p, SkipList(z, p), NEW r \in 0..z.length, NEW at, NEW l,
           NEW g \in Nat, NEW e \in 0..z.length, r + g < e, Swept(z, p, r, g, at, l)
    PROVE  Swept(z, p, r, g + 1, at, UnlinkNext(l, at, FirstNodes(z, p, e)))
<1> DEFINE x == l.next
           o == l.list
           y == DeleteNode(o, x, at)
           next == o.node[x].forward[1]
<1>1. /\ z.length \in Nat /\ \A n \in Nodes(z) : p[n] \in 1..z.length
      /\ \A m, n \in Nodes(z) : p[m] = p[n] => m = n
  BY Numbers1 DEF SkipList, Numbered, Nodes
<1>2. x \in Nodes(z) /\ p[x] = r + g + 1
  BY <1>1 DEF Swept
<1>3. PICK q : /\ Gone(z, p, r, g, o, q)
               /\ \A i \in 1..o.level : LastUpTo(o, q, i, at[i], r)
  BY DEF Swept
<1>4. x \in FirstNodes(z, p, e)
  BY <1>1, <1>2 DEF FirstNodes
<1>5. UnlinkNext(l, at, FirstNodes(z, p, e)) = [list |-> y, next |-> next]
  BY <1>4 DEF UnlinkNext
<1> HIDE DEF x, o
<1>6. /\ SkipList(o, q) /\ o.length = z.length - g
      /\ Nodes(o) = {n \in Nodes(z) : p[n] <= r \/ p[n] > r + g}
      /\ \A n \in Nodes(o) : /\ o.node[n].score = z.node[n].score
                             /\ q[n] = IF p[n] <= r THEN p[n] ELSE p[n] - g
  BY <1>3 DEF Gone
<1>7. x \in Nodes(o) /\ q[x] = r + 1
  BY <1>1, <1>2, <1>6
<1>8. AtBefore(o, q, x, at)
  BY <1>3, <1>7 DEF AtBefore
<1> DEFINE w == Without(o, q, x)
<1>9. /\ SkipList(y, w) /\ Nodes(y) = Nodes(o) \ {x} /\ y.length = o.length - 1
      /\ \A n \in Nodes(y) : y.node[n].score = o.node[n].score
      /\ \A i \in 1..y.level : LastUpTo(y, w, i, at[i], q[x] - 1)
  BY <1>6, <1>8, DeleteNodeFits
<1>10. \A n \in Nodes(o) \ {x} : q[n] # q[x] /\ w[n] = IF q[n] > q[x] THEN q[n] - 1 ELSE q[n]
  <2>1. Renumbered(o, q, x, w)
    BY <1>6, <1>7, WithoutNumbers
  <2>2. QED
    BY <2>1 DEF Renumbered, Nodes
<1>11. IF q[x] = o.length THEN next = Nil ELSE next \in Nodes(o) /\ q[next] = q[x] + 1
  <2>1. x \in DOMAIN o.node
    BY <1>7 DEF Nodes
  <2>2. QED
    BY <1>6, <2>1, NextEntry
<1> HIDE DEF y, w, next
<1>12. Gone(z, p, r, g + 1, y, w)
  <2>1. \A n \in Nodes(z) : n \in Nodes(o) /\ n # x <=> p[n] <= r \/ p[n] > r + (g + 1)
    BY <1>1, <1>2, <1>6
  <2>2. Nodes(y) = {n \in Nodes(z) : p[n] <= r \/ p[n] > r + (g + 1)}
    BY <1>6, <1>9, <2>1
  <2>3. y.length = z.length - (g + 1)
    BY <1>1, <1>6, <1>9
  <2>4. ASSUME NEW n \in Nodes(y)
        PROVE  /\ y.node[n].score = z.node[n].score
               /\ w[n] = IF p[n] <= r THEN p[n] ELSE p[n] - (g + 1)
    <3>1. n \in Nodes(o) \ {x} /\ n \in Nodes(z) /\ (p[n] <= r \/ p[n] > r + (g + 1))
      BY <1>6, <1>9, <2>2
    <3>2. q[n] = IF p[n] <= r THEN p[n] ELSE p[n] - g
      BY <1>6, <3>1
    <3>3. w[n] = IF p[n] <= r THEN p[n] ELSE p[n] - (g + 1)
      BY <1>1, <1>7, <1>10, <3>1, <3>2
    <3>4. QED
      BY <1>6, <1>9, <3>1, <3>3
  <2>5. QED
    BY <1>9, <2>2, <2>3, <2>4 DEF Gone
<1>13. IF r + (g + 1) = z.length THEN next = Nil
       ELSE next \in Nodes(z) /\ p[next] = r + (g + 1) + 1
  <2>1. CASE r + (g + 1) = z.length
    BY <1>1, <1>6, <1>7, <1>11, <2>1
  <2>2. CASE r + (g + 1) # z.length
    <3>1. next \in Nodes(o) /\ q[next] = r + 2
      BY <1>1, <1>6, <1>7, <1>11, <2>2
    <3>2. next \in Nodes(z) /\ q[next] = IF p[next] <= r THEN p[next] ELSE p[next] - g
      BY <1>6, <3>1
    <3>3. p[next] = r + g + 2
      BY <1>1, <3>1, <3>2
    <3>4. QED
      BY <2>2, <3>2, <3>3
  <2>3. QED
    BY <2>1, <2>2
<1>14. \A i \in 1..y.level : LastUpTo(y, w, i, at[i], r)
  BY <1>7, <1>9
<1> DEFINE t == [list |-> y, next |-> next]
<1>15. t.list = y /\ t.next = next
  OBVIOUS
<1> HIDE DEF t
<1>16. Swept(z, p, r, g + 1, at, t)
  BY <1>12, <1>13, <1>14, <1>15 DEF Swept
<1>17. QED
  BY <1>5, <1>16 DEF t, x, o, y, next

\* When these are gone, a turn does nothing.
LEMMA SweepIsOver ==
    ASSUME NEW z, NEW p, SkipList(z, p), NEW r \in 0..z.length, NEW at, NEW l,
           NEW g \in Nat, NEW e \in 0..z.length, e <= r + g, Swept(z, p, r, g, at, l)
    PROVE  UnlinkNext(l, at, FirstNodes(z, p, e)) = l
<1>1. z.length \in Nat /\ \A n \in Nodes(z) : p[n] \in 1..z.length /\ Nil \notin Nodes(z)
  BY Numbers1
<1>2. l.next \notin FirstNodes(z, p, e)
  BY <1>1 DEF Swept, FirstNodes
<1>3. QED
  BY <1>2 DEF UnlinkNext

\* f[m] is where the loop stands after m of its n turns.
Sweeps(z, x, at, doomed, n, f) ==
    /\ f = [m \in 0..n |-> IF m = 0 THEN [list |-> z, next |-> x]
                           ELSE UnlinkNext(f[m - 1], at, doomed)]
    /\ DeleteWhile(z, x, at, doomed, n) = f[n].list

\* There is such a function.
LEMMA SweepIsCounted ==
    ASSUME NEW z, NEW x, NEW at, NEW doomed, NEW n \in Nat
    PROVE  \E f : Sweeps(z, x, at, doomed, n, f)
<1> DEFINE start == [list |-> z, next |-> x]
           Is(f, j) == f = [m \in 0..j |-> IF m = 0 THEN start
                                           ELSE UnlinkNext(f[m - 1], at, doomed)]
           T == {j \in Nat : \E f : Is(f, j)}
<1> HIDE DEF start
<1>1. 0 \in T
  <2>1. Is([m \in 0..0 |-> start], 0)
    OBVIOUS
  <2>2. QED
    BY <2>1
<1>2. ASSUME NEW j \in Nat, j \in T PROVE j + 1 \in T
  <2>1. PICK f : Is(f, j)
    BY <1>2
  <2> DEFINE g == [m \in 0..j + 1 |-> IF m = j + 1 THEN UnlinkNext(f[j], at, doomed)
                                      ELSE f[m]]
  <2>2. \A m \in 0..j : f[m] = IF m = 0 THEN start ELSE UnlinkNext(f[m - 1], at, doomed)
    BY <2>1
  <2>3. \A m \in 1..j + 1 : g[m - 1] = f[m - 1]
    OBVIOUS
  <2>4. ASSUME NEW m \in 0..j + 1
        PROVE  g[m] = IF m = 0 THEN start ELSE UnlinkNext(g[m - 1], at, doomed)
    <3>1. CASE m = j + 1
      BY <2>3, <3>1
    <3>2. CASE m # j + 1
      <4>1. m \in 0..j /\ g[m] = f[m]
        BY <3>2
      <4>2. QED
        BY <2>2, <2>3, <4>1
    <3>3. QED
      BY <3>1, <3>2
  <2> HIDE DEF g
  <2>5. DOMAIN g = 0..j + 1 /\ g = [m \in DOMAIN g |-> g[m]]
    BY DEF g
  <2>6. Is(g, j + 1)
    BY <2>4, <2>5
  <2>7. QED
    BY <2>6
<1> HIDE DEF T
<1>3. n \in T
  BY <1>1, <1>2, Induct
<1> DEFINE c == CHOOSE f : Is(f, n)
<1> HIDE DEF Is
<1>4. Is(c, n)
  BY <1>3 DEF T
<1>5. DeleteWhile(z, x, at, doomed, n) = c[n].list
  BY DEF DeleteWhile, Is, start
<1> HIDE DEF c
<1>6. QED
  BY <1>4, <1>5 DEF Is, start, Sweeps

\* The removals of ranges: when the walk is over the first r entries and the
\* doomed are the first e, the first of those beyond r go, at most so many.
LEMMA DeleteWhileFits ==
    ASSUME NEW z, NEW p, SkipList(z, p), NEW r \in 0..z.length, NEW at,
           StoppedAt(z, p, r, at), NEW e \in 0..z.length, NEW most \in Nat,
           NEW g \in Nat, g = IF e <= r THEN 0 ELSE IF most <= e - r THEN most ELSE e - r
    PROVE  \E q : Gone(z, p, r, g, DeleteWhile(z, z.node[at[1]].forward[1], at,
                                               FirstNodes(z, p, e), most), q)
<1> DEFINE x == z.node[at[1]].forward[1]
           doomed == FirstNodes(z, p, e)
           G(n) == IF e <= r THEN 0 ELSE IF n <= e - r THEN n ELSE e - r
<1> HIDE DEF x, doomed
<1>1. PICK f : Sweeps(z, x, at, doomed, most, f)
  BY SweepIsCounted
<1>2. \A m \in 0..most : f[m] = IF m = 0 THEN [list |-> z, next |-> x]
                                ELSE UnlinkNext(f[m - 1], at, doomed)
  BY <1>1 DEF Sweeps
<1>3. /\ z.length \in Nat /\ \A n \in Nodes(z) : p[n] \in 1..z.length
      /\ r \in Nat /\ e \in Nat
  BY Numbers1
<1> DEFINE T == {n \in Nat : n <= most => Swept(z, p, r, G(n), at, f[n])}
<1>4. 0 \in T
  <2>1. f[0] = [list |-> z, next |-> x] /\ G(0) = 0
    BY <1>2, <1>3
  <2>2. f[0].list = z /\ f[0].next = x
    BY <2>1
  <2>3. Gone(z, p, r, 0, z, p)
    <3>1. Nodes(z) = {n \in Nodes(z) : p[n] <= r \/ p[n] > r + 0}
      BY <1>3
    <3>2. QED
      BY <1>3, <3>1 DEF Gone
  <2>4. /\ \A i \in 1..z.level : LastUpTo(z, p, i, at[i], r)
        /\ IF r + 0 = z.length THEN x = Nil ELSE x \in Nodes(z) /\ p[x] = r + 0 + 1
    BY <1>3 DEF StoppedAt, x
  <2>5. Swept(z, p, r, 0, at, f[0])
    BY <2>2, <2>3, <2>4 DEF Swept
  <2>6. QED
    BY <2>1, <2>5
<1>5. ASSUME NEW n \in Nat, n \in T PROVE n + 1 \in T
  <2>1. SUFFICES ASSUME n + 1 <= most PROVE Swept(z, p, r, G(n + 1), at, f[n + 1])
    OBVIOUS
  <2>2. f[n + 1] = UnlinkNext(f[n], at, doomed)
    BY <1>2, <2>1
  <2>3. Swept(z, p, r, G(n), at, f[n])
    BY <1>5, <2>1
  <2>4. G(n) \in Nat
    BY <1>3
  <2>5. CASE r + G(n) < e
    <3>1. G(n + 1) = G(n) + 1
      BY <1>3, <2>5
    <3> HIDE DEF G
    <3>2. Swept(z, p, r, G(n) + 1, at, f[n + 1])
      BY <2>2, <2>3, <2>4, <2>5, SweepGoesOn DEF doomed
    <3>3. QED
      BY <3>1, <3>2
  <2>6. CASE e <= r + G(n)
    <3>1. G(n + 1) = G(n)
      BY <1>3, <2>6
    <3> HIDE DEF G
    <3>2. f[n + 1] = f[n]
      BY <2>2, <2>3, <2>4, <2>6, SweepIsOver DEF doomed
    <3>3. QED
      BY <2>3, <3>1, <3>2
  <2>7. QED
    BY <1>3, <2>4, <2>5, <2>6
<1> HIDE DEF T
<1>6. most \in T
  BY <1>4, <1>5, Induct
<1>7. Swept(z, p, r, g, at, f[most])
  BY <1>6 DEF T
<1>8. QED
  BY <1>1, <1>7 DEF Swept, Sweeps, x, doomed

-----------------------------------------------------------------------------
(* Linking a node in.                                                       *)

\* at[i] is the last node on level i among the first r entries, also on the
\* levels above the list's.
Ready(z, p, r, at) ==
    /\ DOMAIN at = 1..MaxLevel
    /\ \A i \in 1..MaxLevel : LastUpTo(z, p, i, at[i], r)
    /\ \A i \in 1..MaxLevel : i > z.level => at[i] = Header

\* m is node n once k, of the given height, is number r + 1.
Lengthened(z, p, r, k, level, at, n, m) ==
    LET o == z.node[n] IN
    /\ m = Node(m.score, m.forward, m.span, m.backward)
    /\ m.score = o.score
    /\ DOMAIN m.forward = DOMAIN o.forward /\ DOMAIN m.span = DOMAIN o.span
    /\ m.span = [i \in DOMAIN o.span |-> m.span[i]]
    /\ \A i \in DOMAIN o.forward :
          m.forward[i] = IF i \in 1..level /\ at[i] = n THEN k ELSE o.forward[i]
    /\ \A i \in DOMAIN o.span :
          m.span[i] = IF i \in 1..Max({level, z.level}) /\ at[i] = n
                      THEN PassSpan(i, level, r - p[n], o.span[i]) ELSE o.span[i]
    /\ m.backward = IF n = z.node[at[1]].forward[1] THEN k ELSE o.backward

\* The span of the link that the new one divides.
Over(z, at, i) == IF i <= z.level THEN z.node[at[i]].span[i] ELSE z.length

\* m is the new node.
Entered(z, p, r, s, level, at, m) ==
    /\ m = Node(m.score, m.forward, m.span, m.backward)
    /\ m.score = s
    /\ DOMAIN m.forward = 1..level /\ DOMAIN m.span = 1..level
    /\ m.span = [i \in 1..level |-> m.span[i]]
    /\ \A i \in 1..level : /\ m.forward[i] = z.node[at[i]].forward[i]
                           /\ m.span[i] = Over(z, at, i) - (r - p[at[i]])
    /\ m.backward = IF at[1] = Header THEN Nil ELSE at[1]

\* y is z with k linked in.
LinkedIn(z, p, r, s, k, level, at, y) ==
    /\ DOMAIN y.node = DOMAIN z.node \union {k}
    /\ y.length = z.length + 1
    /\ y.tail = IF z.node[at[1]].forward[1] = Nil THEN k ELSE z.tail
    /\ y.level = Max({level, z.level})
    /\ Entered(z, p, r, s, level, at, y.node[k])
    /\ \A n \in DOMAIN z.node : Lengthened(z, p, r, k, level, at, n, y.node[n])

\* The greater of two levels.
LEMMA GreaterLevel ==
    ASSUME NEW l \in 1..MaxLevel, NEW m \in 1..MaxLevel
    PROVE  /\ Max({l, m}) \in 1..MaxLevel
           /\ Max({l, m}) \in {l, m} /\ l <= Max({l, m}) /\ m <= Max({l, m})
           /\ Max(1..Max({l, m})) = Max({l, m})
<1>1. MaxLevel \in Nat
  BY SortedSetAssumption
<1>2. {l, m} \subseteq 0..MaxLevel /\ {l, m} # {}
  BY <1>1
<1>3. Max({l, m}) \in {l, m} /\ \A x \in {l, m} : x <= Max({l, m})
  BY <1>1, <1>2, MaxIsGreatest
<1> DEFINE t == Max({l, m})
<1> HIDE DEF t
<1>4. t \in 1..MaxLevel
  BY <1>3 DEF t
<1>5. 1..t \subseteq 0..MaxLevel /\ 1..t # {} /\ t \in 1..t
  BY <1>1, <1>4
<1>6. Max(1..t) \in 1..t /\ \A x \in 1..t : x <= Max(1..t)
  BY <1>1, <1>5, MaxIsGreatest
<1>7. Max(1..t) = t
  BY <1>1, <1>4, <1>5, <1>6
<1>8. QED
  BY <1>3, <1>4, <1>7 DEF t

\* What zslInsert leaves.
LEMMA InsertFields ==
    ASSUME NEW z, NEW p, SkipList(z, p), NEW r \in 0..z.length, NEW s, NEW k \in Keys,
           k \notin Nodes(z), NEW level \in 1..MaxLevel,
           Before(z, s, k) = FirstNodes(z, p, r)
    PROVE  \E at : /\ Ready(z, p, r, at)
                   /\ LinkedIn(z, p, r, s, k, level, at, Insert(z, s, k, level))
<1> DEFINE path     == Path(z, Before(z, s, k))
           at(i)    == IF i <= z.level THEN path[i].at ELSE Header
           rank(i)  == IF i <= z.level THEN path[i].rank ELSE 0
           over(i)  == IF i <= z.level THEN z.node[at(i)].span[i] ELSE z.length
           levels   == 1..Max({level, z.level})
           next     == z.node[at(1)].forward[1]
           new      == Node(s, [i \in 1..level |-> z.node[at(i)].forward[i]],
                            [i \in 1..level |-> over(i) - (rank(1) - rank(i))],
                            IF at(1) = Header THEN Nil ELSE at(1))
           old(n)   == LET mine == {i \in levels : at(i) = n} IN
                       [z.node[n] EXCEPT
                          !.forward = [i \in DOMAIN @ |->
                              IF i \in mine /\ i <= level THEN k ELSE @[i]],
                          !.span = [i \in DOMAIN @ |->
                              IF i \in mine
                              THEN PassSpan(i, level, rank(1) - rank(i), @[i])
                              ELSE @[i]],
                          !.backward = IF n = next THEN k ELSE @]
           nodes    == [n \in DOMAIN z.node \union {k} |-> IF n = k THEN new ELSE old(n)]
           y        == Insert(z, s, k, level)
           before   == [i \in 1..MaxLevel |-> at(i)]
<1>1. y = [node |-> nodes, tail |-> IF next = Nil THEN k ELSE z.tail,
           length |-> z.length + 1, level |-> Max(levels)]
  BY DEF Insert
<1>2. /\ z.level \in 1..MaxLevel /\ MaxLevel \in Nat /\ z.length \in Nat
      /\ p[Header] = 0 /\ Header \in DOMAIN z.node /\ k \notin DOMAIN z.node
  <2>1. k # Header
    BY SortedSetAssumption
  <2>2. QED
    BY <2>1, Numbers1
<1>3. DOMAIN path = 1..z.level /\ \A i \in 1..z.level : path[i] \in Stops(z, p, i, r)
  BY PathStops
<1> HIDE DEF path
<1>4. \A i \in 1..z.level : /\ LastUpTo(z, p, i, path[i].at, r)
                            /\ path[i].rank = p[path[i].at]
  BY <1>3 DEF Stops, Spots
<1>5. ASSUME NEW i \in 1..MaxLevel
      PROVE  LastUpTo(z, p, i, at(i), r) /\ rank(i) = p[at(i)]
  <2>1. CASE i <= z.level
    BY <1>2, <1>4, <2>1
  <2>2. CASE i > z.level
    <3>1. at(i) = Header /\ rank(i) = 0
      BY <1>2, <2>2
    <3>2. i \in Levels(z, Header)
      BY DEF SkipList, Shaped
    <3>3. \A m \in Nodes(z) : i \notin Levels(z, m)
      BY <1>2, <2>2 DEF SkipList, Shaped
    <3> HIDE DEF at, rank
    <3>4. LastUpTo(z, p, i, Header, r)
      BY <1>2, <3>2, <3>3 DEF LastUpTo
    <3>5. QED
      BY <1>2, <3>1, <3>4
  <2>3. QED
    BY <1>2, <2>1, <2>2
<1>6. Ready(z, p, r, before)
  <2>1. \A i \in 1..MaxLevel : i > z.level => at(i) = Header
    BY <1>2
  <2> HIDE DEF at
  <2>2. QED
    BY <1>5, <2>1 DEF Ready
<1>7. \A i \in 1..MaxLevel : before[i] = at(i) /\ rank(i) = p[before[i]]
                             /\ over(i) = Over(z, before, i)
  <2>1. \A i \in 1..MaxLevel : before[i] = at(i) /\ rank(i) = p[at(i)]
    BY <1>5
  <2> HIDE DEF at, rank, before
  <2>2. QED
    BY <2>1 DEF Over
<1>8. rank(1) = r /\ 1 \in 1..MaxLevel
  <2>1. 1 \in 1..MaxLevel
    BY <1>2
  <2>2. LastUpTo(z, p, 1, at(1), r) /\ rank(1) = p[at(1)]
    BY <1>5, <2>1
  <2> HIDE DEF at, rank
  <2>3. QED
    BY <2>1, <2>2, LowestLevel
<1>9. /\ Max({level, z.level}) \in 1..MaxLevel /\ level <= Max({level, z.level})
      /\ Max(1..Max({level, z.level})) = Max({level, z.level})
  BY <1>2, GreaterLevel
<1> HIDE DEF at, rank, over, before
<1>10. /\ y.node = nodes /\ y.tail = (IF next = Nil THEN k ELSE z.tail)
       /\ y.length = z.length + 1 /\ y.level = Max({level, z.level})
  <2> HIDE DEF y, nodes, next
  <2>1. QED
    BY <1>1, <1>9
<1>11. Entered(z, p, r, s, level, before, new)
  <2> DEFINE forward == [i \in 1..level |-> z.node[at(i)].forward[i]]
             span == [i \in 1..level |-> over(i) - (rank(1) - rank(i))]
             backward == IF at(1) = Header THEN Nil ELSE at(1)
  <2>1. \A i \in 1..level : i \in 1..MaxLevel
    BY <1>2
  <2>2. \A i \in 1..level : forward[i] = z.node[before[i]].forward[i]
    BY <1>7, <2>1
  <2>3. \A i \in 1..level : span[i] = Over(z, before, i) - (r - p[before[i]])
    BY <1>7, <1>8, <2>1
  <2>4. backward = IF before[1] = Header THEN Nil ELSE before[1]
    BY <1>7, <1>8
  <2>5. /\ DOMAIN forward = 1..level /\ DOMAIN span = 1..level
        /\ span = [i \in 1..level |-> span[i]]
    OBVIOUS
  <2>6. new = Node(s, forward, span, backward)
    OBVIOUS
  <2> HIDE DEF forward, span, backward, new
  <2>7. /\ new.score = s /\ new.forward = forward /\ new.span = span
        /\ new.backward = backward
    BY <2>6 DEF Node
  <2>8. QED
    BY <2>2, <2>3, <2>4, <2>5, <2>6, <2>7 DEF Entered
<1>12. ASSUME NEW n \in DOMAIN z.node PROVE Lengthened(z, p, r, k, level, before, n, old(n))
  <2> DEFINE o == z.node[n]
             mine == {i \in levels : at(i) = n}
             forward == [i \in DOMAIN o.forward |->
                            IF i \in mine /\ i <= level THEN k ELSE o.forward[i]]
             span == [i \in DOMAIN o.span |->
                         IF i \in mine THEN PassSpan(i, level, rank(1) - rank(i), o.span[i])
                         ELSE o.span[i]]
             backward == IF n = next THEN k ELSE o.backward
  <2>1. o = Node(o.score, o.forward, o.span, o.backward)
    BY DEF SkipList, Shaped
  <2>2. old(n) = [o EXCEPT !.forward = forward, !.span = span, !.backward = backward]
    OBVIOUS
  <2>3. \A i \in levels : i \in 1..MaxLevel
    BY <1>2, <1>9
  <2>4. \A i \in 1..MaxLevel : i \in mine <=> i \in levels /\ before[i] = n
    BY <1>7
  <2>5. DOMAIN o.span = DOMAIN o.forward /\ DOMAIN o.forward \subseteq 1..MaxLevel
    BY DEF SkipList, Shaped, Levels
  <2>6. \A i \in 1..MaxLevel : i \in 1..level <=> i \in levels /\ i <= level
    BY <1>2, <1>9
  <2>7. /\ DOMAIN forward = DOMAIN o.forward /\ DOMAIN span = DOMAIN o.span
        /\ span = [i \in DOMAIN o.span |-> span[i]]
    OBVIOUS
  <2>8. \A i \in DOMAIN o.forward :
           forward[i] = IF i \in 1..level /\ before[i] = n THEN k ELSE o.forward[i]
    <3> HIDE DEF mine, levels, o
    <3>1. QED
      BY <2>4, <2>5, <2>6
  <2>9. \A i \in DOMAIN o.span :
           span[i] = IF i \in levels /\ before[i] = n
                     THEN PassSpan(i, level, r - p[n], o.span[i]) ELSE o.span[i]
    <3> HIDE DEF mine, levels, o
    <3>1. QED
      BY <1>7, <1>8, <2>4, <2>5
  <2>10. backward = IF n = z.node[before[1]].forward[1] THEN k ELSE o.backward
    BY <1>7, <1>8
  <2> HIDE DEF old, forward, span, backward
  <2>11. old(n) = Node(o.score, forward, span, backward)
    <3> HIDE DEF o
    <3>1. QED
      BY <2>1, <2>2 DEF Node
  <2>12. /\ old(n).score = o.score /\ old(n).forward = forward
         /\ old(n).span = span /\ old(n).backward = backward
    BY <2>11 DEF Node
  <2>13. QED
    BY <2>7, <2>8, <2>9, <2>10, <2>11, <2>12 DEF Lengthened
<1> HIDE DEF new, old, y
<1>13. /\ DOMAIN y.node = DOMAIN z.node \union {k} /\ y.node[k] = new
       /\ \A n \in DOMAIN z.node : y.node[n] = old(n)
  BY <1>2, <1>10
<1>14. next = z.node[before[1]].forward[1]
  BY <1>7, <1>8
<1> HIDE DEF next
<1>15. LinkedIn(z, p, r, s, k, level, before, y)
  BY <1>10, <1>11, <1>12, <1>13, <1>14 DEF LinkedIn
<1>16. QED
  BY <1>6, <1>15 DEF y

\* The numbers once k is number r + 1.
With(z, p, k, r) ==
    [n \in DOMAIN z.node \union {k} |->
        IF n = k THEN r + 1 ELSE IF p[n] <= r THEN p[n] ELSE p[n] + 1]

\* y is the skip list z with k put in its place.
Insertion(z, p, r, s, k, level, at, y) ==
    /\ SkipList(z, p)
    /\ r \in 0..z.length /\ s \in Int /\ k \in Keys \ Nodes(z) /\ level \in 1..MaxLevel
    /\ Before(z, s, k) = FirstNodes(z, p, r)
    /\ Ready(z, p, r, at)
    /\ LinkedIn(z, p, r, s, k, level, at, y)

\* Its nodes, levels and numbers.
Counts(z, p, r, k, level, y, q) ==
    /\ z.length \in Nat /\ z.level \in Nat /\ MaxLevel \in Nat /\ r \in 0..z.length
    /\ DOMAIN z.node = Nodes(z) \union {Header} /\ Header \notin Nodes(z)
    /\ p[Header] = 0 /\ k \notin DOMAIN z.node /\ Nil \notin DOMAIN z.node /\ k # Nil
    /\ DOMAIN y.node = DOMAIN z.node \union {k} /\ Nodes(y) = Nodes(z) \union {k}
    /\ y.length = z.length + 1
    /\ Levels(y, k) = 1..level
    /\ \A n \in DOMAIN z.node : Levels(y, n) = Levels(z, n)
    /\ y.level \in 1..MaxLevel /\ y.level \in {level, z.level}
    /\ level <= y.level /\ z.level <= y.level
    /\ q[k] = r + 1
    /\ \A n \in DOMAIN z.node :
          p[n] \in 0..z.length /\ q[n] = IF p[n] <= r THEN p[n] ELSE p[n] + 1
    /\ \A m, n \in DOMAIN z.node : p[m] = p[n] => m = n

\* What the links of an insertion need of the numbers before and after it: those
\* after the new entry are one more.
LEMMA InsertionCounts ==
    ASSUME NEW z, NEW p, NEW r, NEW s, NEW k, NEW level, NEW at, NEW y,
           Insertion(z, p, r, s, k, level, at, y)
    PROVE  Counts(z, p, r, k, level, y, With(z, p, k, r))
<1> DEFINE q == With(z, p, k, r)
<1>1. /\ SkipList(z, p) /\ r \in 0..z.length /\ k \in Keys /\ k \notin Nodes(z)
      /\ level \in 1..MaxLevel /\ LinkedIn(z, p, r, s, k, level, at, y)
  BY DEF Insertion
<1>2. k # Header /\ k # Nil
  BY <1>1, SortedSetAssumption DEF Nil, Header
<1>3. /\ z.length \in Nat /\ z.level \in 1..MaxLevel /\ MaxLevel \in Nat
      /\ DOMAIN z.node = Nodes(z) \union {Header} /\ Header \notin Nodes(z)
      /\ p[Header] = 0 /\ Nil \notin DOMAIN z.node
      /\ \A n \in DOMAIN z.node : p[n] \in 0..z.length
      /\ \A m, n \in DOMAIN z.node : p[m] = p[n] => m = n
  BY <1>1, Numbers1 DEF SkipList, Numbered
<1>4. k \notin DOMAIN z.node
  BY <1>1, <1>2, <1>3
<1>5. q[k] = r + 1
      /\ \A n \in DOMAIN z.node : q[n] = IF p[n] <= r THEN p[n] ELSE p[n] + 1
  BY <1>4 DEF With
<1>6. /\ DOMAIN y.node = DOMAIN z.node \union {k}
      /\ y.length = z.length + 1 /\ y.level = Max({level, z.level})
      /\ DOMAIN y.node[k].forward = 1..level
      /\ \A n \in DOMAIN z.node : DOMAIN y.node[n].forward = DOMAIN z.node[n].forward
  <2>1. /\ DOMAIN y.node = DOMAIN z.node \union {k}
        /\ y.length = z.length + 1 /\ y.level = Max({level, z.level})
        /\ Entered(z, p, r, s, level, at, y.node[k])
        /\ \A n \in DOMAIN z.node : Lengthened(z, p, r, k, level, at, n, y.node[n])
    BY <1>1 DEF LinkedIn
  <2>2. QED
    BY <2>1 DEF Entered, Lengthened
<1>7. /\ y.level \in 1..MaxLevel /\ y.level \in {level, z.level}
      /\ level <= y.level /\ z.level <= y.level
  BY <1>1, <1>3, <1>6, GreaterLevel
<1>8. Nodes(y) = Nodes(z) \union {k}
  BY <1>2, <1>3, <1>6 DEF Nodes
<1> HIDE DEF q
<1>9. z.level \in Nat
  BY <1>3
<1>10. QED
  BY <1>1, <1>2, <1>3, <1>4, <1>5, <1>6, <1>7, <1>8, <1>9 DEF Counts, Levels, q

\* The link of level i that goes over the place after the first r entries.
GapAt(z, p, r, at, i) ==
    LET a == at[i]  f == z.node[a].forward[i] IN
    /\ a \in DOMAIN z.node /\ i \in Levels(z, a) /\ p[a] <= r
    /\ \A m \in DOMAIN z.node : i \in Levels(z, m) /\ p[m] <= r => p[m] <= p[a]
    /\ f # Nil => f \in Nodes(z) /\ i \in Levels(z, f) /\ p[f] > r
    /\ Over(z, at, i) = End(z, p, f) - p[a]
    /\ \A m \in Nodes(z) : i \in Levels(z, m) /\ p[m] > r => f # Nil /\ p[f] <= p[m]

\* The link from update[i] goes over the place of the new entry.
LEMMA InsertionGap ==
    ASSUME NEW z, NEW p, SkipList(z, p), NEW r \in 0..z.length, NEW at, Ready(z, p, r, at),
           NEW i \in 1..MaxLevel
    PROVE  GapAt(z, p, r, at, i)
<1> DEFINE a == at[i]
           f == z.node[a].forward[i]
<1>1. /\ z.length \in Nat /\ z.level \in 1..MaxLevel /\ MaxLevel \in Nat
      /\ DOMAIN z.node = Nodes(z) \union {Header} /\ Header \notin Nodes(z)
      /\ p[Header] = 0 /\ Nil \notin DOMAIN z.node
      /\ \A n \in DOMAIN z.node : p[n] \in 0..z.length
  BY Numbers1
<1>2. /\ a \in DOMAIN z.node /\ i \in Levels(z, a) /\ p[a] <= r
      /\ \A m \in Nodes(z) : i \in Levels(z, m) /\ p[m] <= r => p[m] <= p[a]
  BY DEF Ready, LastUpTo
<1>3. i > z.level => a = Header
  BY DEF Ready
<1> HIDE DEF a
<1>4. \A m \in DOMAIN z.node : i \in Levels(z, m) /\ p[m] <= r => p[m] <= p[a]
  BY <1>1, <1>2
<1>5. CASE i <= z.level
  <2>1. LinkFits(z, p, a, i)
    BY <1>2, <1>5 DEF SkipList, Linked
  <2>2. /\ f # Nil => f \in Nodes(z) /\ i \in Levels(z, f) /\ p[a] < p[f]
        /\ z.node[a].span[i] = End(z, p, f) - p[a]
        /\ \A m \in Nodes(z) : i \in Levels(z, m) /\ p[a] < p[m] => f # Nil /\ p[f] <= p[m]
    BY <2>1 DEF LinkFits
  <2> HIDE DEF f
  <2>3. f # Nil => p[f] > r
    BY <1>1, <1>2, <2>2
  <2>4. \A m \in Nodes(z) : i \in Levels(z, m) /\ p[m] > r => f # Nil /\ p[f] <= p[m]
    BY <1>1, <1>2, <2>2
  <2>5. Over(z, at, i) = End(z, p, f) - p[a]
    BY <1>5, <2>2 DEF Over, a
  <2>6. QED
    BY <1>2, <1>4, <2>2, <2>3, <2>4, <2>5 DEF GapAt, a, f
<1>6. CASE i > z.level
  <2>1. a = Header /\ f = Nil
    BY <1>3, <1>6 DEF SkipList, Shaped
  <2>2. \A m \in Nodes(z) : i \notin Levels(z, m)
    BY <1>1, <1>6 DEF SkipList, Shaped
  <2> HIDE DEF f
  <2>3. Over(z, at, i) = End(z, p, f) - p[a]
    BY <1>1, <1>6, <2>1 DEF Over, End
  <2>4. QED
    BY <1>2, <1>4, <2>1, <2>2, <2>3 DEF GapAt, a, f
<1>7. QED
  BY <1>1, <1>5, <1>6

\* The links of the new node.
LEMMA NewNodeLinks ==
    ASSUME NEW z, NEW p, NEW r, NEW s, NEW k, NEW level, NEW at, NEW y,
           Insertion(z, p, r, s, k, level, at, y), NEW i \in 1..level
    PROVE  LinkFits(y, With(z, p, k, r), k, i) /\ y.node[k].span[i] \in Nat
<1> DEFINE q == With(z, p, k, r)
           a == at[i]
           f == z.node[a].forward[i]
<1>1. Counts(z, p, r, k, level, y, q)
  BY InsertionCounts
<1> HIDE DEF q
<1>2. i \in 1..MaxLevel /\ level \in 1..MaxLevel
  BY <1>1 DEF Insertion, Counts
<1>3. GapAt(z, p, r, at, i)
  BY <1>2, InsertionGap DEF Insertion
<1>4. y.node[k].forward[i] = f /\ y.node[k].span[i] = Over(z, at, i) - (r - p[a])
  BY DEF Insertion, LinkedIn, Entered
<1>5. /\ a \in DOMAIN z.node /\ i \in Levels(z, a) /\ p[a] <= r
      /\ f # Nil => f \in Nodes(z) /\ i \in Levels(z, f) /\ p[f] > r
      /\ Over(z, at, i) = End(z, p, f) - p[a]
      /\ \A m \in Nodes(z) : i \in Levels(z, m) /\ p[m] > r => f # Nil /\ p[f] <= p[m]
  BY <1>3 DEF GapAt
<1> HIDE DEF a, f
<1>6. f # Nil => f \in DOMAIN z.node /\ q[f] = p[f] + 1 /\ p[f] \in 0..z.length
  BY <1>1, <1>5 DEF Counts
<1>7. f # Nil => f \in Nodes(y) /\ i \in Levels(y, f) /\ q[k] < q[f]
  BY <1>1, <1>5, <1>6 DEF Counts
<1>8. y.node[k].span[i] = End(y, q, f) - q[k] /\ y.node[k].span[i] \in Nat
  <2>1. End(y, q, f) = End(z, p, f) + 1 /\ End(z, p, f) \in Int /\ End(z, p, f) >= r
    BY <1>1, <1>5, <1>6 DEF Counts, End
  <2>2. p[a] \in Int /\ r \in Int /\ q[k] = r + 1
    BY <1>1, <1>5 DEF Counts
  <2>3. QED
    BY <1>4, <1>5, <2>1, <2>2
<1>9. ASSUME NEW m \in Nodes(y), i \in Levels(y, m), q[k] < q[m]
      PROVE  f # Nil /\ q[f] <= q[m]
  <2>1. m \in Nodes(z) /\ m \in DOMAIN z.node /\ i \in Levels(z, m) /\ p[m] > r
        /\ q[m] = p[m] + 1 /\ p[m] \in Int
    BY <1>1, <1>9 DEF Counts
  <2>2. QED
    BY <1>5, <1>6, <2>1
<1>10. QED
  BY <1>4, <1>7, <1>8, <1>9 DEF LinkFits, q

\* The links of the others.
LEMMA OldNodeLinks ==
    ASSUME NEW z, NEW p, NEW r, NEW s, NEW k, NEW level, NEW at, NEW y,
           Insertion(z, p, r, s, k, level, at, y),
           NEW n \in DOMAIN z.node, NEW i \in Levels(z, n), i <= y.level
    PROVE  LinkFits(y, With(z, p, k, r), n, i)
<1> DEFINE q == With(z, p, k, r)
           a == at[i]
           f == z.node[n].forward[i]
           g == y.node[n].forward[i]
<1>1. Counts(z, p, r, k, level, y, q)
  BY InsertionCounts
<1> HIDE DEF q
<1>2. i \in 1..MaxLevel /\ level \in 1..MaxLevel /\ SkipList(z, p)
  BY DEF Insertion, SkipList, Shaped
<1>3. GapAt(z, p, r, at, i)
  BY <1>2, InsertionGap DEF Insertion
<1>4. /\ a \in DOMAIN z.node /\ i \in Levels(z, a) /\ p[a] <= r
      /\ \A m \in DOMAIN z.node : i \in Levels(z, m) /\ p[m] <= r => p[m] <= p[a]
  BY <1>3 DEF GapAt
<1>5. /\ g = IF i <= level /\ a = n THEN k ELSE f
      /\ y.node[n].span[i] = IF a = n THEN PassSpan(i, level, r - p[n], z.node[n].span[i])
                             ELSE z.node[n].span[i]
  <2>1. Lengthened(z, p, r, k, level, at, n, y.node[n]) /\ y.level = Max({level, z.level})
    BY DEF Insertion, LinkedIn
  <2>2. i \in DOMAIN z.node[n].forward /\ i \in DOMAIN z.node[n].span
    BY <1>2 DEF SkipList, Shaped, Levels
  <2>3. i \in 1..Max({level, z.level}) /\ (i \in 1..level <=> i <= level)
    BY <1>1, <1>2, <2>1 DEF Counts
  <2>4. QED
    BY <2>1, <2>2, <2>3 DEF Lengthened
<1>6. r \in Int /\ p[n] \in Int /\ q[k] = r + 1 /\ n \in DOMAIN z.node
  BY <1>1 DEF Counts
<1>7. CASE a = n
  <2>1. q[n] = p[n] /\ p[n] <= r
    BY <1>1, <1>4, <1>7 DEF Counts
  <2>2. /\ f # Nil => f \in Nodes(z) /\ i \in Levels(z, f) /\ p[f] > r
        /\ Over(z, at, i) = End(z, p, f) - p[n]
        /\ \A m \in Nodes(z) : i \in Levels(z, m) /\ p[m] > r => f # Nil /\ p[f] <= p[m]
    BY <1>3, <1>7 DEF GapAt
  <2>3. \A m \in Nodes(y) : i \in Levels(y, m) /\ q[n] < q[m] =>
           m = k \/ (m \in Nodes(z) /\ m \in DOMAIN z.node /\ i \in Levels(z, m)
                     /\ p[m] > r /\ q[m] = p[m] + 1 /\ p[m] \in Int)
    <3>1. SUFFICES ASSUME NEW m \in Nodes(z), i \in Levels(y, m), q[n] < q[m]
                   PROVE  /\ m \in DOMAIN z.node /\ i \in Levels(z, m)
                          /\ p[m] > r /\ q[m] = p[m] + 1 /\ p[m] \in Int
      BY <1>1 DEF Counts
    <3>2. /\ m \in DOMAIN z.node /\ i \in Levels(z, m) /\ p[m] \in Int
          /\ q[m] = IF p[m] <= r THEN p[m] ELSE p[m] + 1
      BY <1>1, <3>1 DEF Counts
    <3>3. p[m] > r
      BY <1>4, <1>6, <1>7, <2>1, <3>1, <3>2
    <3>4. QED
      BY <1>6, <3>2, <3>3
  <2> HIDE DEF a, f, g
  <2>4. CASE i <= level
    <3>1. g = k /\ y.node[n].span[i] = r - p[n] + 1
      BY <1>5, <1>7, <2>4 DEF PassSpan
    <3>2. k \in Nodes(y) /\ k # Nil /\ i \in Levels(y, k)
      BY <1>1, <1>2, <2>4 DEF Counts
    <3>3. q[n] < q[k] /\ y.node[n].span[i] = End(y, q, k) - q[n]
      BY <1>6, <2>1, <3>1, <3>2 DEF End
    <3>4. \A m \in Nodes(y) : i \in Levels(y, m) /\ q[n] < q[m] => q[k] <= q[m]
      BY <1>6, <2>3
    <3>5. QED
      BY <3>1, <3>2, <3>3, <3>4 DEF LinkFits, q, g
  <2>5. CASE i > level
    <3>1. g = f /\ y.node[n].span[i] = z.node[n].span[i] + 1
      BY <1>2, <1>5, <1>7, <2>5 DEF PassSpan
    <3>2. i <= z.level
      BY <1>1, <1>2, <2>5 DEF Counts
    <3>3. z.node[n].span[i] = End(z, p, f) - p[n]
      BY <1>7, <2>2, <3>2 DEF Over, a
    <3>4. f # Nil => f \in DOMAIN z.node /\ q[f] = p[f] + 1 /\ p[f] \in Int
      BY <1>1, <2>2 DEF Counts
    <3>5. f # Nil => f \in Nodes(y) /\ i \in Levels(y, f) /\ q[n] < q[f]
      BY <1>1, <1>6, <2>1, <2>2, <3>4 DEF Counts
    <3>6. End(y, q, f) = End(z, p, f) + 1 /\ End(z, p, f) \in Int
      BY <1>1, <2>2, <3>4 DEF Counts, End
    <3>7. y.node[n].span[i] = End(y, q, f) - q[n]
      BY <1>6, <2>1, <3>1, <3>3, <3>6
    <3>8. i \notin Levels(y, k)
      BY <1>1, <1>2, <2>5 DEF Counts
    <3>9. ASSUME NEW m \in Nodes(y), i \in Levels(y, m), q[n] < q[m]
          PROVE  f # Nil /\ q[f] <= q[m]
      BY <2>2, <2>3, <3>4, <3>8, <3>9
    <3>10. QED
      BY <3>1, <3>5, <3>7, <3>9 DEF LinkFits, q, g
  <2>6. QED
    BY <1>2, <2>4, <2>5
<1>8. CASE a # n
  <2>1. i <= z.level
    <3>1. SUFFICES ASSUME i > z.level PROVE FALSE
      BY <1>1, <1>2 DEF Counts
    <3>2. n = Header
      BY <1>1, <1>2, <3>1 DEF Counts, SkipList, Shaped
    <3>3. a = Header
      BY <1>2, <3>1 DEF Insertion, Ready
    <3>4. QED
      BY <1>8, <3>2, <3>3
  <2>2. LinkFits(z, p, n, i)
    BY <1>2, <2>1 DEF SkipList, Linked
  <2>3. /\ f # Nil => f \in Nodes(z) /\ i \in Levels(z, f) /\ p[n] < p[f]
        /\ z.node[n].span[i] = End(z, p, f) - p[n]
        /\ \A m \in Nodes(z) : i \in Levels(z, m) /\ p[n] < p[m] => f # Nil /\ p[f] <= p[m]
    BY <2>2 DEF LinkFits
  <2>4. g = f /\ y.node[n].span[i] = z.node[n].span[i]
    BY <1>5, <1>8
  <2> HIDE DEF a, f, g
  <2>5. f # Nil => /\ f \in DOMAIN z.node /\ p[f] \in Int /\ f \in Nodes(y) /\ i \in Levels(y, f)
                   /\ q[f] = IF p[f] <= r THEN p[f] ELSE p[f] + 1
    BY <1>1, <2>3 DEF Counts
  <2>6. \A m \in Nodes(y) : i \in Levels(y, m) => m = k \/
           (m \in Nodes(z) /\ i \in Levels(z, m) /\ p[m] \in Int
            /\ q[m] = IF p[m] <= r THEN p[m] ELSE p[m] + 1)
    BY <1>1 DEF Counts
  <2>7. q[n] = IF p[n] <= r THEN p[n] ELSE p[n] + 1
    BY <1>1 DEF Counts
  <2>8. CASE p[n] > r
    <3>1. q[n] = p[n] + 1 /\ (f # Nil => q[f] = p[f] + 1)
      BY <1>6, <2>3, <2>5, <2>7, <2>8
    <3>2. f # Nil => q[n] < q[f]
      BY <1>6, <2>3, <2>5, <3>1
    <3>3. End(y, q, f) = End(z, p, f) + 1 /\ End(z, p, f) \in Int
      BY <1>1, <2>5, <3>1 DEF Counts, End
    <3>4. y.node[n].span[i] = End(y, q, f) - q[n]
      BY <1>6, <2>3, <2>4, <3>1, <3>3
    <3>5. ASSUME NEW m \in Nodes(y), i \in Levels(y, m), q[n] < q[m]
          PROVE  f # Nil /\ q[f] <= q[m]
      <4>1. m # k
        BY <1>6, <2>8, <3>1, <3>5
      <4>2. m \in Nodes(z) /\ i \in Levels(z, m) /\ p[n] < p[m] /\ p[m] \in Int /\ q[m] = p[m] + 1
        BY <1>6, <2>6, <2>8, <3>1, <3>5, <4>1
      <4>3. QED
        BY <2>3, <2>5, <3>1, <4>2
    <3>6. QED
      BY <2>4, <2>5, <3>2, <3>4, <3>5 DEF LinkFits, q, g
  <2>9. CASE p[n] <= r
    <3>1. a \in Nodes(z) /\ p[n] < p[a] /\ i \in Levels(z, a) /\ p[a] <= r /\ p[a] \in Int
      <4>1. p[n] <= p[a] /\ p[n] # p[a] /\ p[a] \in Int
        BY <1>1, <1>4, <1>8, <2>9 DEF Counts
      <4>2. a # Header
        BY <1>1, <4>1 DEF Counts
      <4>3. QED
        BY <1>1, <1>4, <1>6, <4>1, <4>2 DEF Counts
    <3>2. f # Nil /\ p[f] <= p[a]
      BY <2>3, <3>1
    <3>3. q[n] = p[n] /\ q[f] = p[f] /\ p[f] \in Int /\ p[n] < p[f] /\ p[f] <= r
      BY <1>6, <2>3, <2>5, <2>7, <2>9, <3>1, <3>2
    <3>4. y.node[n].span[i] = End(y, q, f) - q[n]
      BY <2>3, <2>4, <3>2, <3>3 DEF End
    <3>5. ASSUME NEW m \in Nodes(y), i \in Levels(y, m), q[n] < q[m] PROVE q[f] <= q[m]
      <4>1. CASE m = k
        BY <1>6, <3>3, <4>1
      <4>2. CASE m # k
        <5>1. m \in Nodes(z) /\ i \in Levels(z, m) /\ p[n] < p[m] /\ p[m] \in Int
              /\ q[m] >= p[m] /\ q[m] \in Int
          BY <1>6, <2>6, <3>3, <3>5, <4>2
        <5>2. QED
          BY <2>3, <3>3, <5>1
      <4>3. QED
        BY <4>1, <4>2
    <3>6. QED
      BY <2>4, <2>5, <3>2, <3>3, <3>4, <3>5 DEF LinkFits, q, g
  <2>10. QED
    BY <1>6, <2>8, <2>9
<1>9. QED
  BY <1>7, <1>8

\* With a new entry the list keeps its shape.
LEMMA WithShape ==
    ASSUME NEW z, NEW p, NEW r, NEW s, NEW k, NEW level, NEW at, NEW y,
           Insertion(z, p, r, s, k, level, at, y)
    PROVE  Shaped(y)
<1> DEFINE q == With(z, p, k, r)
<1>1. Counts(z, p, r, k, level, y, q)
  BY InsertionCounts
<1>2. \A i \in 1..level : y.node[k].span[i] \in Nat
  BY NewNodeLinks
<1>3. \A n \in DOMAIN z.node : \A i \in Levels(z, n) : i <= y.level => LinkFits(y, q, n, i)
  BY OldNodeLinks
<1> HIDE DEF q
<1>4. /\ SkipList(z, p) /\ s \in Int /\ k \in Keys /\ level \in 1..MaxLevel
      /\ Ready(z, p, r, at) /\ Entered(z, p, r, s, level, at, y.node[k])
      /\ \A n \in DOMAIN z.node : Lengthened(z, p, r, k, level, at, n, y.node[n])
  BY DEF Insertion, LinkedIn
<1>5. /\ DOMAIN y.node = DOMAIN z.node \union {k} /\ Nodes(y) = Nodes(z) \union {k}
      /\ y.length = z.length + 1 /\ z.length \in Nat
      /\ y.level \in 1..MaxLevel /\ level <= y.level /\ z.level <= y.level /\ z.level \in Nat
      /\ y.level \in {level, z.level} /\ MaxLevel \in Nat
      /\ Header \in DOMAIN z.node /\ Header # k
      /\ Levels(y, k) = 1..level /\ \A n \in DOMAIN z.node : Levels(y, n) = Levels(z, n)
  BY <1>1 DEF Counts
<1>6. Header \in DOMAIN y.node /\ Nodes(y) \subseteq Keys /\ y.length \in Nat
  BY <1>4, <1>5 DEF SkipList, Shaped
<1>7. LET d == y.node[k] IN
      /\ d = Node(d.score, d.forward, d.span, d.backward)
      /\ d.score \in Int
      /\ d.span \in [Levels(y, k) -> Nat]
      /\ 1 \in Levels(y, k) /\ Levels(y, k) \subseteq 1..MaxLevel
      /\ \A i \in Levels(y, k) : 1..i \subseteq Levels(y, k)
  <2> DEFINE d == y.node[k]
  <2>1. /\ d = Node(d.score, d.forward, d.span, d.backward) /\ d.score = s
        /\ d.span = [i \in 1..level |-> d.span[i]]
    BY <1>4 DEF Entered
  <2>2. \A i \in 1..level : d.span[i] \in Nat
    BY <1>2
  <2> HIDE DEF d
  <2>3. d.span \in [1..level -> Nat]
    BY <2>1, <2>2
  <2>4. 1 \in 1..level /\ 1..level \subseteq 1..MaxLevel
        /\ \A i \in 1..level : 1..i \subseteq 1..level
    BY <1>4, <1>5
  <2>5. QED
    BY <1>4, <1>5, <2>1, <2>3, <2>4 DEF d
<1>8. ASSUME NEW n \in DOMAIN z.node
      PROVE  LET d == y.node[n] IN
             /\ d = Node(d.score, d.forward, d.span, d.backward)
             /\ d.score \in Int
             /\ d.span \in [Levels(y, n) -> Nat]
             /\ 1 \in Levels(y, n) /\ Levels(y, n) \subseteq 1..MaxLevel
             /\ \A i \in Levels(y, n) : 1..i \subseteq Levels(y, n)
  <2> DEFINE d == y.node[n]  o == z.node[n]
  <2>1. /\ d = Node(d.score, d.forward, d.span, d.backward)
        /\ d.score = o.score
        /\ DOMAIN d.span = DOMAIN o.span
        /\ d.span = [i \in DOMAIN o.span |-> d.span[i]]
        /\ \A i \in DOMAIN o.span :
              i > y.level => d.span[i] = o.span[i]
    <3>1. Lengthened(z, p, r, k, level, at, n, d) /\ y.level = Max({level, z.level})
      BY <1>4 DEF Insertion, LinkedIn
    <3>2. \A i \in DOMAIN o.span : i > y.level => i \notin 1..y.level
      BY <1>5
    <3> HIDE DEF d, o
    <3>3. QED
      BY <3>1, <3>2 DEF Lengthened, o
  <2>2. /\ o.score \in Int
        /\ o.span \in [Levels(z, n) -> Nat]
        /\ 1 \in Levels(z, n) /\ Levels(z, n) \subseteq 1..MaxLevel
        /\ \A i \in Levels(z, n) : 1..i \subseteq Levels(z, n)
    BY <1>4 DEF SkipList, Shaped
  <2>3. ASSUME NEW i \in Levels(z, n) PROVE d.span[i] \in Nat
    <3>1. i \in DOMAIN o.span /\ o.span[i] \in Nat /\ i \in Int
      BY <1>5, <2>2
    <3>2. CASE i <= y.level
      <4> DEFINE f == d.forward[i]
      <4>1. LinkFits(y, q, n, i)
        BY <1>3, <3>2
      <4>2. d.span[i] = End(y, q, f) - q[n] /\ (f # Nil => q[n] < q[f] /\ f \in Nodes(y))
        BY <4>1 DEF LinkFits
      <4> HIDE DEF f, d
      <4>3. \A m \in DOMAIN y.node : q[m] \in 0..y.length
        BY <1>1 DEF Counts
      <4>4. q[n] \in 0..y.length /\ (f # Nil => q[f] \in 0..y.length)
        BY <1>5, <4>2, <4>3 DEF Nodes
      <4>5. QED
        BY <1>6, <4>2, <4>4 DEF End
    <3>3. CASE i > y.level
      BY <2>1, <3>1, <3>3
    <3>4. QED
      BY <1>5, <3>1, <3>2, <3>3
  <2>4. d.span \in [Levels(y, n) -> Nat]
    <3>1. DOMAIN o.span = Levels(z, n) /\ Levels(y, n) = Levels(z, n)
      BY <1>5, <2>2
    <3> HIDE DEF d, o
    <3>2. QED
      BY <2>1, <2>3, <3>1
  <2> HIDE DEF d, o
  <2>5. QED
    BY <1>5, <2>1, <2>2, <2>4 DEF d, o
<1>9. Levels(y, Header) = 1..MaxLevel
  BY <1>4, <1>5 DEF SkipList, Shaped
<1>10. ASSUME NEW n \in Nodes(y) PROVE Levels(y, n) \subseteq 1..y.level
  <2>1. CASE n = k
    BY <1>4, <1>5, <2>1
  <2>2. CASE n # k
    <3>1. n \in Nodes(z) /\ Levels(y, n) = Levels(z, n)
      BY <1>5, <2>2 DEF Nodes
    <3>2. Levels(z, n) \subseteq 1..z.level
      BY <1>4, <3>1 DEF SkipList, Shaped
    <3>3. QED
      BY <1>5, <3>1, <3>2
  <2>3. QED
    BY <2>1, <2>2
<1>11. \A i \in 1..MaxLevel :
          y.node[Header].forward[i] = IF i <= level /\ at[i] = Header THEN k
                                      ELSE z.node[Header].forward[i]
  <2>1. Lengthened(z, p, r, k, level, at, Header, y.node[Header])
    BY <1>4, <1>5
  <2>2. DOMAIN z.node[Header].forward = 1..MaxLevel
    BY <1>4 DEF SkipList, Shaped, Levels
  <2>3. \A i \in 1..MaxLevel : i \in 1..level <=> i <= level
    BY <1>4, <1>5
  <2>4. QED
    BY <2>1, <2>2, <2>3 DEF Lengthened
<1>12. ASSUME NEW i \in 1..MaxLevel, i > y.level PROVE y.node[Header].forward[i] = Nil
  <2>1. i > level /\ i > z.level
    BY <1>4, <1>5, <1>12
  <2>2. z.node[Header].forward[i] = Nil
    BY <1>4, <2>1 DEF SkipList, Shaped
  <2>3. QED
    BY <1>4, <1>5, <1>11, <2>1, <2>2
<1>13. y.level = 1 \/ y.node[Header].forward[y.level] # Nil
  <2>1. k # Nil
    BY <1>1 DEF Counts
  <2>2. CASE y.level > z.level
    <3>1. at[y.level] = Header /\ y.level = level
      BY <1>4, <1>5, <2>2 DEF Ready
    <3>2. QED
      BY <1>4, <1>5, <1>11, <2>1, <3>1
  <2>3. CASE y.level = z.level
    <3>1. z.level = 1 \/ z.node[Header].forward[z.level] # Nil
      BY <1>4 DEF SkipList, Shaped
    <3>2. QED
      BY <1>5, <1>11, <2>1, <2>3, <3>1
  <2>4. QED
    BY <1>5, <2>2, <2>3
<1>14. \A n \in DOMAIN y.node :
          LET d == y.node[n] IN
          /\ d = Node(d.score, d.forward, d.span, d.backward)
          /\ d.score \in Int
          /\ d.span \in [Levels(y, n) -> Nat]
          /\ 1 \in Levels(y, n) /\ Levels(y, n) \subseteq 1..MaxLevel
          /\ \A i \in Levels(y, n) : 1..i \subseteq Levels(y, n)
  BY <1>5, <1>7, <1>8
<1>15. QED
  BY <1>5, <1>6, <1>9, <1>10, <1>12, <1>13, <1>14 DEF Shaped

\* With a new entry the backward links still lead from the tail to the first.
LEMMA WithBack ==
    ASSUME NEW z, NEW p, NEW r, NEW s, NEW k, NEW level, NEW at, NEW y,
           Insertion(z, p, r, s, k, level, at, y)
    PROVE  BackFits(y, With(z, p, k, r))
<1> DEFINE q == With(z, p, k, r)
           a == at[1]
           f == z.node[a].forward[1]
<1>1. Counts(z, p, r, k, level, y, q)
  BY InsertionCounts
<1>2. /\ SkipList(z, p) /\ Ready(z, p, r, at) /\ LinkedIn(z, p, r, s, k, level, at, y)
      /\ r \in 0..z.length
  BY DEF Insertion
<1>3. p[a] = r /\ a \in DOMAIN z.node
  <2>1. 1 \in 1..MaxLevel
    BY SortedSetAssumption
  <2>2. LastUpTo(z, p, 1, a, r)
    BY <1>2, <2>1 DEF Ready
  <2> HIDE DEF a
  <2>3. QED
    BY <1>2, <2>2, LowestLevel DEF LastUpTo
<1>4. IF r = z.length THEN f = Nil ELSE f \in Nodes(z) /\ p[f] = r + 1
  <2> HIDE DEF a
  <2>1. QED
    BY <1>2, <1>3, NextEntry
<1>5. /\ \A n \in Nodes(z) :
            IF p[n] = 1 THEN z.node[n].backward = Nil
            ELSE z.node[n].backward \in Nodes(z) /\ p[z.node[n].backward] = p[n] - 1
      /\ IF z.length = 0 THEN z.tail = Nil ELSE z.tail \in Nodes(z) /\ p[z.tail] = z.length
  BY <1>2 DEF SkipList, BackFits
<1>6. /\ y.node[k].backward = IF a = Header THEN Nil ELSE a
      /\ \A n \in DOMAIN z.node : y.node[n].backward = IF n = f THEN k ELSE z.node[n].backward
      /\ y.tail = IF f = Nil THEN k ELSE z.tail
  BY <1>2 DEF LinkedIn, Entered, Lengthened
<1> HIDE DEF q, a, f
<1>7. /\ z.length \in Nat /\ r \in Int /\ p[Header] = 0
      /\ DOMAIN z.node = Nodes(z) \union {Header} /\ Nil \notin Nodes(z)
      /\ Nodes(y) = Nodes(z) \union {k} /\ k \notin Nodes(z) /\ y.length = z.length + 1
      /\ q[k] = r + 1
      /\ \A n \in Nodes(z) :
            p[n] \in 0..z.length /\ q[n] = IF p[n] <= r THEN p[n] ELSE p[n] + 1
      /\ \A m, n \in DOMAIN z.node : p[m] = p[n] => m = n
  BY <1>1 DEF Counts
<1>8. \A n \in Nodes(z) : p[n] >= 1
  BY <1>2, Numbers1
<1>9. IF q[k] = 1 THEN y.node[k].backward = Nil
      ELSE y.node[k].backward \in Nodes(y) /\ q[y.node[k].backward] = q[k] - 1
  <2>1. CASE a = Header
    BY <1>3, <1>6, <1>7, <2>1
  <2>2. CASE a # Header
    <3>1. a \in Nodes(z) /\ y.node[k].backward = a
      BY <1>3, <1>6, <1>7, <2>2
    <3>2. p[a] >= 1 /\ q[a] = r
      BY <1>3, <1>7, <1>8, <3>1
    <3>3. QED
      BY <1>3, <1>7, <3>1, <3>2
  <2>3. QED
    BY <2>1, <2>2
<1>10. ASSUME NEW n \in Nodes(z)
       PROVE  IF q[n] = 1 THEN y.node[n].backward = Nil
              ELSE y.node[n].backward \in Nodes(y) /\ q[y.node[n].backward] = q[n] - 1
  <2>1. CASE n = f
    <3>1. p[n] = r + 1 /\ y.node[n].backward = k
      BY <1>4, <1>6, <1>7, <2>1
    <3>2. q[n] = r + 2
      BY <1>7, <3>1
    <3>3. QED
      BY <1>2, <1>7, <3>1, <3>2
  <2>2. CASE n # f
    <3> DEFINE b == z.node[n].backward
    <3>1. y.node[n].backward = b
      BY <1>6, <1>7, <2>2
    <3>2. IF p[n] = 1 THEN b = Nil ELSE b \in Nodes(z) /\ p[b] = p[n] - 1
      BY <1>5
    <3> HIDE DEF b
    <3>3. p[n] # r + 1
      BY <1>4, <1>7, <2>2
    <3>4. p[n] \in Int /\ p[n] >= 1 /\ r >= 0
      BY <1>2, <1>7, <1>8
    <3>5. CASE p[n] = 1
      BY <1>7, <3>1, <3>2, <3>3, <3>4, <3>5
    <3>6. CASE p[n] # 1
      <4>1. b \in Nodes(z) /\ p[b] = p[n] - 1
        BY <3>2, <3>6
      <4>2. /\ q[b] = IF p[b] <= r THEN p[b] ELSE p[b] + 1
            /\ q[n] = IF p[n] <= r THEN p[n] ELSE p[n] + 1
        BY <1>7, <4>1
      <4>3. q[b] = q[n] - 1 /\ q[n] # 1
        BY <1>7, <3>3, <3>4, <3>6, <4>1, <4>2
      <4>4. QED
        BY <1>7, <3>1, <4>1, <4>3
    <3>7. QED
      BY <3>5, <3>6
  <2>3. QED
    BY <2>1, <2>2
<1>11. IF y.length = 0 THEN y.tail = Nil ELSE y.tail \in Nodes(y) /\ q[y.tail] = y.length
  <2>1. CASE r = z.length
    BY <1>4, <1>6, <1>7, <2>1
  <2>2. CASE r # z.length
    <3>1. f # Nil /\ y.tail = z.tail /\ z.length # 0 /\ z.length > r
      BY <1>2, <1>4, <1>6, <1>7, <2>2
    <3>2. z.tail \in Nodes(z) /\ p[z.tail] = z.length
      BY <1>5, <3>1
    <3>3. q[z.tail] = z.length + 1
      BY <1>7, <3>1, <3>2
    <3>4. QED
      BY <1>7, <3>1, <3>2, <3>3
  <2>3. QED
    BY <2>1, <2>2
<1>12. QED
  BY <1>7, <1>9, <1>10, <1>11 DEF BackFits, q

\* With a new entry the numbers have no gap.
LEMMA WithNumbers ==
    ASSUME NEW z, NEW p, NEW r, NEW s, NEW k, NEW level, NEW at, NEW y,
           Insertion(z, p, r, s, k, level, at, y)
    PROVE  Numbered(y, With(z, p, k, r))
<1> DEFINE q == With(z, p, k, r)
<1>1. Counts(z, p, r, k, level, y, q)
  BY InsertionCounts
<1>2. DOMAIN q = DOMAIN z.node \union {k} /\ q = [n \in DOMAIN q |-> q[n]]
  BY DEF With
<1>3. \A j \in 0..z.length : \E n \in DOMAIN z.node : p[n] = j
  BY DEF Insertion, SkipList, Numbered
<1> HIDE DEF q
<1>4. /\ z.length \in Nat /\ r \in 0..z.length /\ k \notin DOMAIN z.node
      /\ DOMAIN y.node = DOMAIN z.node \union {k} /\ y.length = z.length + 1
      /\ Header \in DOMAIN z.node /\ p[Header] = 0
      /\ q[k] = r + 1
      /\ \A n \in DOMAIN z.node :
            p[n] \in 0..z.length /\ q[n] = IF p[n] <= r THEN p[n] ELSE p[n] + 1
      /\ \A m, n \in DOMAIN z.node : p[m] = p[n] => m = n
  BY <1>1 DEF Counts
<1>5. \A n \in DOMAIN y.node : q[n] \in 0..y.length
  BY <1>4
<1>6. q \in [DOMAIN y.node -> 0..y.length]
  BY <1>2, <1>4, <1>5
<1>7. q[Header] = 0
  BY <1>4
<1>8. ASSUME NEW m \in DOMAIN y.node, NEW n \in DOMAIN y.node, q[m] = q[n] PROVE m = n
  <2>1. CASE m = k
    BY <1>4, <1>8, <2>1
  <2>2. CASE n = k
    BY <1>4, <1>8, <2>2
  <2>3. CASE m # k /\ n # k
    <3>1. m \in DOMAIN z.node /\ n \in DOMAIN z.node
      BY <1>4, <2>3
    <3>2. p[m] = p[n]
      BY <1>4, <1>8, <3>1
    <3>3. QED
      BY <1>4, <3>1, <3>2
  <2>4. QED
    BY <2>1, <2>2, <2>3
<1>9. ASSUME NEW j \in 0..y.length PROVE \E n \in DOMAIN y.node : q[n] = j
  <2>1. CASE j <= r
    <3>1. PICK n \in DOMAIN z.node : p[n] = j
      BY <1>3, <1>4, <2>1
    <3>2. QED
      BY <1>4, <2>1, <3>1
  <2>2. CASE j = r + 1
    BY <1>4, <2>2
  <2>3. CASE j > r + 1
    <3>1. PICK n \in DOMAIN z.node : p[n] = j - 1
      BY <1>3, <1>4, <2>3
    <3>2. QED
      BY <1>4, <2>3, <3>1
  <2>4. QED
    BY <1>4, <2>1, <2>2, <2>3
<1>10. QED
  BY <1>6, <1>7, <1>8, <1>9 DEF Numbered, q

\* The entries before a new one are the first of the list.
LEMMA PlaceFound ==
    ASSUME NEW z, NEW p, SkipList(z, p), NEW s \in Int, NEW k \in Keys
    PROVE  \E r \in 0..z.length : Before(z, s, k) = FirstNodes(z, p, r)
<1> DEFINE A == Before(z, s, k)
<1>1. A \subseteq Nodes(z)
  BY DEF Before
<1>2. \A n \in Nodes(z) : n \in Int /\ z.node[n].score \in Int
  <2>1. Nodes(z) \subseteq Keys /\ Nodes(z) \subseteq DOMAIN z.node
    BY DEF SkipList, Shaped, Nodes
  <2>2. Keys \subseteq Nat
    BY SortedSetAssumption
  <2>3. \A n \in DOMAIN z.node : z.node[n].score \in Int
    BY DEF SkipList, Shaped
  <2>4. QED
    BY <2>1, <2>2, <2>3
<1>3. k \in Int
  BY SortedSetAssumption
<1>4. ASSUME NEW m \in Nodes(z), NEW n \in Nodes(z), n \in A, p[m] < p[n] PROVE m \in A
  <2>1. NodeBefore(z, m, n)
    BY <1>4, OrderIsNumbers
  <2>2. QED
    BY <1>2, <1>3, <1>4, <2>1 DEF NodeBefore, Before, Better
<1> HIDE DEF A
<1>5. \E r \in 0..z.length : A = FirstNodes(z, p, r)
  BY <1>1, <1>4, FirstOnes
<1>6. QED
  BY <1>5 DEF A

\* With a new entry, linked in at its place, the numbers follow the order.
LEMMA WithOrder ==
    ASSUME NEW z, NEW p, NEW r, NEW s, NEW k, NEW level, NEW at, NEW y,
           Insertion(z, p, r, s, k, level, at, y)
    PROVE  Sorted(y, With(z, p, k, r))
<1> DEFINE q == With(z, p, k, r)
<1>1. Counts(z, p, r, k, level, y, q)
  BY InsertionCounts
<1> HIDE DEF q
<1>2. /\ SkipList(z, p) /\ s \in Int /\ k \in Keys /\ Before(z, s, k) = FirstNodes(z, p, r)
      /\ LinkedIn(z, p, r, s, k, level, at, y)
  BY DEF Insertion
<1>3. y.node[k].score = s /\ \A n \in DOMAIN z.node : y.node[n].score = z.node[n].score
  BY <1>2 DEF LinkedIn, Entered, Lengthened
<1>4. /\ Nodes(z) \subseteq DOMAIN z.node /\ Nodes(y) = Nodes(z) \union {k}
      /\ k \notin Nodes(z) /\ r \in Int /\ q[k] = r + 1
      /\ \A n \in Nodes(z) : p[n] \in Int /\ q[n] = IF p[n] <= r THEN p[n] ELSE p[n] + 1
  BY <1>1 DEF Counts
<1>5. \A n \in Nodes(z) : n \in Int /\ z.node[n].score \in Int
  <2>1. Nodes(z) \subseteq Keys
    BY <1>2 DEF SkipList, Shaped
  <2>2. Keys \subseteq Nat
    BY SortedSetAssumption
  <2>3. \A n \in DOMAIN z.node : z.node[n].score \in Int
    BY <1>2 DEF SkipList, Shaped
  <2>4. ASSUME NEW n \in Nodes(z) PROVE n \in Int /\ z.node[n].score \in Int
    <3>1. n \in Keys
      BY <2>1
    <3>2. n \in Int
      BY <2>2, <3>1
    <3>3. z.node[n].score \in Int
      BY <1>4, <2>3
    <3>4. QED
      BY <3>2, <3>3
  <2>5. QED
    BY <2>4
<1>6. k \in Int
  BY <1>2, SortedSetAssumption
<1>7. \A n \in Nodes(z) : p[n] <= r <=> n \in Before(z, s, k)
  BY <1>2 DEF FirstNodes
<1>8. ASSUME NEW m \in Nodes(y), NEW n \in Nodes(y), q[m] < q[n] PROVE NodeBefore(y, m, n)
  <2>1. CASE m = k /\ n # k
    <3>1. n \in Nodes(z) /\ p[n] > r
      BY <1>4, <1>8, <2>1
    <3>2. n \notin Before(z, s, k)
      BY <1>4, <1>7, <3>1
    <3>3. Better(s, z.node[n].score) \/ (s = z.node[n].score /\ k < n)
      BY <1>2, <1>5, <1>6, <2>1, <3>1, <3>2 DEF Before, Better
    <3>4. QED
      BY <1>3, <1>4, <2>1, <3>1, <3>3 DEF NodeBefore
  <2>2. CASE m # k /\ n = k
    <3>1. m \in Nodes(z) /\ p[m] <= r
      BY <1>4, <1>8, <2>2
    <3>2. m \in Before(z, s, k)
      BY <1>7, <3>1
    <3>3. Better(z.node[m].score, s) \/ (z.node[m].score = s /\ m < k)
      BY <3>2 DEF Before
    <3>4. QED
      BY <1>3, <1>4, <2>2, <3>1, <3>3 DEF NodeBefore
  <2>3. CASE m # k /\ n # k
    <3>1. m \in Nodes(z) /\ n \in Nodes(z) /\ p[m] < p[n]
      BY <1>4, <1>8, <2>3
    <3>2. NodeBefore(z, m, n)
      BY <1>2, <3>1 DEF SkipList, Sorted
    <3>3. y.node[m].score = z.node[m].score /\ y.node[n].score = z.node[n].score
      BY <1>3, <1>4, <3>1
    <3>4. QED
      BY <3>2, <3>3 DEF NodeBefore
  <2>4. CASE m = k /\ n = k
    BY <1>4, <1>8, <2>4
  <2>5. QED
    BY <2>1, <2>2, <2>3, <2>4
<1>9. QED
  BY <1>8 DEF Sorted, q

\* y is z with an entry put in.
Joined(z, s, k, y, q) ==
    /\ SkipList(y, q)
    /\ Nodes(y) = Nodes(z) \union {k} /\ y.length = z.length + 1
    /\ y.node[k].score = s
    /\ \A n \in Nodes(z) : y.node[n].score = z.node[n].score

\* zslInsert of a new key puts it in.
LEMMA InsertFits ==
    ASSUME NEW z, NEW p, SkipList(z, p), NEW s \in Int, NEW k \in Keys, k \notin Nodes(z),
           NEW level \in 1..MaxLevel
    PROVE  \E q : Joined(z, s, k, Insert(z, s, k, level), q)
<1> DEFINE y == Insert(z, s, k, level)
<1>1. PICK r \in 0..z.length : Before(z, s, k) = FirstNodes(z, p, r)
  BY PlaceFound
<1>2. PICK at : Ready(z, p, r, at) /\ LinkedIn(z, p, r, s, k, level, at, y)
  BY <1>1, InsertFields
<1> HIDE DEF y
<1>3. Insertion(z, p, r, s, k, level, at, y)
  BY <1>1, <1>2 DEF Insertion
<1> DEFINE q == With(z, p, k, r)
<1>4. Shaped(y) /\ Numbered(y, q)
  BY <1>3, WithShape, WithNumbers
<1>5. Sorted(y, q) /\ BackFits(y, q)
  BY <1>3, WithOrder, WithBack
<1>6. Counts(z, p, r, k, level, y, q)
  BY <1>3, InsertionCounts
<1>7. Linked(y, q)
  <2>1. \A i \in 1..level : LinkFits(y, q, k, i)
    BY <1>3, NewNodeLinks
  <2>2. \A n \in DOMAIN z.node : \A i \in Levels(z, n) : i <= y.level => LinkFits(y, q, n, i)
    BY <1>3, OldNodeLinks
  <2>3. /\ DOMAIN y.node = DOMAIN z.node \union {k} /\ Levels(y, k) = 1..level
        /\ \A n \in DOMAIN z.node : Levels(y, n) = Levels(z, n)
    BY <1>6 DEF Counts
  <2> HIDE DEF q
  <2>4. QED
    BY <2>1, <2>2, <2>3 DEF Linked
<1> HIDE DEF q
<1>8. Nodes(y) = Nodes(z) \union {k} /\ y.length = z.length + 1 /\ Nodes(z) \subseteq DOMAIN z.node
  BY <1>6 DEF Counts
<1>9. y.node[k].score = s /\ \A n \in DOMAIN z.node : y.node[n].score = z.node[n].score
  BY <1>2 DEF LinkedIn, Entered, Lengthened
<1>10. Joined(z, s, k, y, q)
  BY <1>4, <1>5, <1>7, <1>8, <1>9 DEF Joined, SkipList
<1>11. QED
  BY <1>10 DEF y

-----------------------------------------------------------------------------
(* The map's order is the list's.                                           *)

\* There are r entries with numbers up to r.
LEMMA FirstCount ==
    ASSUME NEW z, NEW p, SkipList(z, p)
    PROVE  \A r \in 0..z.length :
              IsFiniteSet(FirstNodes(z, p, r)) /\ Cardinality(FirstNodes(z, p, r)) = r
<1> DEFINE T == {r \in Nat : r <= z.length =>
                    /\ IsFiniteSet(FirstNodes(z, p, r))
                    /\ Cardinality(FirstNodes(z, p, r)) = r}
<1>1. /\ z.length \in Nat /\ p[Header] = 0
      /\ DOMAIN z.node = Nodes(z) \union {Header}
      /\ \A n \in Nodes(z) : p[n] \in 1..z.length
      /\ \A r \in 0..z.length : \E n \in DOMAIN z.node : p[n] = r
      /\ \A m, n \in DOMAIN z.node : p[m] = p[n] => m = n
  BY Numbers1 DEF SkipList, Numbered
<1>2. 0 \in T
  <2>1. FirstNodes(z, p, 0) = {}
    BY <1>1 DEF FirstNodes
  <2>2. QED
    BY <2>1, FS_EmptySet
<1>3. ASSUME NEW r \in Nat, r \in T PROVE r + 1 \in T
  <2>1. SUFFICES ASSUME r + 1 <= z.length
                 PROVE  /\ IsFiniteSet(FirstNodes(z, p, r + 1))
                        /\ Cardinality(FirstNodes(z, p, r + 1)) = r + 1
    OBVIOUS
  <2>2. IsFiniteSet(FirstNodes(z, p, r)) /\ Cardinality(FirstNodes(z, p, r)) = r
    BY <1>1, <1>3, <2>1
  <2>3. PICK n \in DOMAIN z.node : p[n] = r + 1
    BY <1>1, <2>1
  <2>4. n \in Nodes(z)
    BY <1>1, <2>3
  <2>5. \A m \in Nodes(z) : p[m] <= r + 1 <=> p[m] <= r \/ m = n
    BY <1>1, <2>3, <2>4
  <2>6. FirstNodes(z, p, r + 1) = FirstNodes(z, p, r) \union {n}
    BY <2>4, <2>5 DEF FirstNodes
  <2>7. n \notin FirstNodes(z, p, r)
    BY <2>3 DEF FirstNodes
  <2>8. QED
    BY <2>2, <2>6, <2>7, FS_AddElement
<1> HIDE DEF T
<1>4. \A r \in Nat : r \in T
  BY <1>2, <1>3, Induct
<1>5. QED
  BY <1>1, <1>4 DEF T

\* Both modules count alike.
LEMMA SameCardinality == ASSUME NEW S PROVE Map!Cardinality(S) = Cardinality(S)
  BY DEF Map!Cardinality, Cardinality

\* The order of the entries of a map and a list.
LEMMA OrderFound ==
    ASSUME Holds(dict, zsl), NEW p, SkipList(zsl, p)
    PROVE  /\ Map!Present = Nodes(zsl) /\ Present = Nodes(zsl)
           /\ \A k \in Nodes(zsl) : Map!Place(k) = p[k] - 1
           /\ Map!Size = zsl.length
           /\ Map!Order = [i \in 1..zsl.length |-> Map!Order[i]]
           /\ \A i \in 1..zsl.length : Map!Order[i] \in Nodes(zsl) /\ p[Map!Order[i]] = i
<1>1. Map!Present = Nodes(zsl) /\ Present = Nodes(zsl)
  BY DEF Holds, Map!Present, Present
<1>2. /\ zsl.length \in Nat
      /\ \A n \in Nodes(zsl) : p[n] \in 1..zsl.length
      /\ \A n \in Nodes(zsl) : zsl.node[n].score = dict[n]
      /\ DOMAIN zsl.node = Nodes(zsl) \union {Header} /\ p[Header] = 0
      /\ \A r \in 0..zsl.length : \E n \in DOMAIN zsl.node : p[n] = r
      /\ \A m, n \in DOMAIN zsl.node : p[m] = p[n] => m = n
  BY Numbers1 DEF Holds, SkipList, Numbered
<1>3. ASSUME NEW k \in Nodes(zsl) PROVE Map!Place(k) = p[k] - 1
  <2>1. \A j \in Nodes(zsl) : p[j] < p[k] <=> NodeBefore(zsl, j, k)
    BY OrderIsNumbers
  <2>2. \A j \in Nodes(zsl) : Map!Precedes(j, k) <=> NodeBefore(zsl, j, k)
    BY <1>2 DEF Map!Precedes, NodeBefore, Better, Map!Better
  <2>3. \A j \in Nodes(zsl) : Map!Precedes(j, k) <=> p[j] <= p[k] - 1
    BY <1>2, <2>1, <2>2
  <2>4. {j \in Map!Present : Map!Precedes(j, k)} = FirstNodes(zsl, p, p[k] - 1)
    BY <1>1, <2>3 DEF FirstNodes
  <2>5. p[k] - 1 \in 0..zsl.length
    BY <1>2
  <2>6. Cardinality(FirstNodes(zsl, p, p[k] - 1)) = p[k] - 1
    BY <2>5, FirstCount
  <2>7. QED
    BY <2>4, <2>6, SameCardinality DEF Map!Place
<1>4. Map!Size = zsl.length
  <2>1. Nodes(zsl) = FirstNodes(zsl, p, zsl.length)
    BY <1>2 DEF FirstNodes
  <2>2. zsl.length \in 0..zsl.length
    BY <1>2
  <2>3. Cardinality(FirstNodes(zsl, p, zsl.length)) = zsl.length
    BY <2>2, FirstCount
  <2>4. QED
    BY <1>1, <2>1, <2>3, SameCardinality DEF Map!Size
<1>5. Map!Order = [i \in 1..zsl.length |-> CHOOSE k \in Nodes(zsl) : Map!Place(k) = i - 1]
  BY <1>1, <1>4 DEF Map!Order
<1>6. ASSUME NEW i \in 1..zsl.length
      PROVE  Map!Order[i] \in Nodes(zsl) /\ p[Map!Order[i]] = i
  <2>1. \E n \in DOMAIN zsl.node : p[n] = i
    BY <1>2
  <2>2. \E n \in Nodes(zsl) : p[n] = i
    BY <1>2, <2>1
  <2>3. \E n \in Nodes(zsl) : Map!Place(n) = i - 1
    BY <1>2, <1>3, <2>2
  <2>4. Map!Order[i] = CHOOSE k \in Nodes(zsl) : Map!Place(k) = i - 1
    BY <1>5
  <2>5. Map!Order[i] \in Nodes(zsl) /\ Map!Place(Map!Order[i]) = i - 1
    BY <2>3, <2>4
  <2>6. QED
    BY <1>2, <1>3, <2>5
<1>7. Map!Order = [i \in 1..zsl.length |-> Map!Order[i]]
  BY <1>5
<1>8. QED
  BY <1>1, <1>3, <1>4, <1>6, <1>7

-----------------------------------------------------------------------------
(* Operations on a map and a list.                                          *)

\* A new entry.
LEMMA PutIn ==
    ASSUME NEW d, NEW z, Holds(d, z), NEW s \in Scores, NEW k \in Keys, d[k] = Absent,
           NEW level \in 1..MaxLevel, Limit # 0 => z.length < Limit
    PROVE  Holds([d EXCEPT ![k] = s], Insert(z, s, k, level))
<1> DEFINE y == Insert(z, s, k, level)
           e == [d EXCEPT ![k] = s]
<1>1. PICK p : SkipList(z, p)
  BY DEF Holds
<1>2. s \in Int /\ s # Absent
  BY SortedSetAssumption
<1>3. k \notin Nodes(z)
  BY DEF Holds
<1>4. PICK q : Joined(z, s, k, y, q)
  BY <1>1, <1>2, <1>3, InsertFits
<1>5. /\ e \in [Keys -> Scores \union {Absent}]
      /\ e[k] = s /\ \A j \in Keys : j # k => e[j] = d[j]
  BY DEF Holds
<1> HIDE DEF y, e
<1>6. Nodes(y) = {j \in Keys : e[j] # Absent}
  <2>1. Nodes(y) = Nodes(z) \union {k} /\ Nodes(z) = {j \in Keys : d[j] # Absent}
    BY <1>4 DEF Joined, Holds
  <2>2. QED
    BY <1>2, <1>5, <2>1
<1>7. \A j \in Nodes(y) : y.node[j].score = e[j]
  <2>1. /\ Nodes(y) = Nodes(z) \union {k} /\ y.node[k].score = s
        /\ \A n \in Nodes(z) : y.node[n].score = d[n]
    BY <1>4 DEF Joined, Holds
  <2>2. \A j \in Nodes(z) : j \in Keys /\ j # k
    BY <1>3 DEF Holds
  <2>3. QED
    BY <1>5, <2>1, <2>2
<1>8. Limit # 0 => y.length <= Limit
  <2>1. y.length = z.length + 1 /\ z.length \in Nat /\ Limit \in Nat
    BY <1>1, <1>4, Numbers1, SortedSetAssumption DEF Joined
  <2>2. QED
    BY <2>1
<1>9. \E q1 : SkipList(y, q1)
  BY <1>4 DEF Joined
<1>10. QED
  BY <1>5, <1>6, <1>7, <1>8, <1>9 DEF Holds, y, e

\* What remains of a map when entries have gone from its list.
LEMMA TakenOut ==
    ASSUME NEW d, NEW z, Holds(d, z), NEW p, SkipList(z, p), NEW r, NEW g \in Nat, NEW y, NEW q,
           Gone(z, p, r, g, y, q)
    PROVE  Holds([k \in Keys |-> IF k \in Nodes(y) THEN d[k] ELSE Absent], y)
<1> DEFINE e == [k \in Keys |-> IF k \in Nodes(y) THEN d[k] ELSE Absent]
<1>1. /\ Nodes(y) \subseteq Nodes(z) /\ y.length = z.length - g
      /\ \A n \in Nodes(y) : y.node[n].score = z.node[n].score
      /\ SkipList(y, q)
  BY DEF Gone
<1>2. /\ d \in [Keys -> Scores \union {Absent}]
      /\ Nodes(z) = {k \in Keys : d[k] # Absent}
      /\ \A k \in Nodes(z) : z.node[k].score = d[k]
      /\ Limit # 0 => z.length <= Limit
  BY DEF Holds
<1>3. e \in [Keys -> Scores \union {Absent}]
  BY <1>2
<1>4. \A k \in Keys : e[k] = IF k \in Nodes(y) THEN d[k] ELSE Absent
  OBVIOUS
<1> HIDE DEF e
<1>5. Nodes(y) = {k \in Keys : e[k] # Absent}
  BY <1>1, <1>2, <1>4
<1>6. \A k \in Nodes(y) : y.node[k].score = e[k]
  BY <1>1, <1>2, <1>4
<1>7. Limit # 0 => y.length <= Limit
  <2>1. z.length \in Nat /\ Limit \in Nat
    BY Numbers1, SortedSetAssumption
  <2>2. QED
    BY <1>1, <1>2, <2>1
<1>8. QED
  BY <1>1, <1>3, <1>5, <1>6, <1>7 DEF Holds, e

\* An entry deleted.
LEMMA TakeOut ==
    ASSUME NEW d, NEW z, Holds(d, z), NEW k \in Keys, d[k] # Absent
    PROVE  /\ Holds([d EXCEPT ![k] = Absent], Delete(z, d[k], k))
           /\ Delete(z, d[k], k).length = z.length - 1
<1> DEFINE y == Delete(z, d[k], k)
           e == [d EXCEPT ![k] = Absent]
           f == [j \in Keys |-> IF j \in Nodes(y) THEN d[j] ELSE Absent]
<1>1. PICK p : SkipList(z, p)
  BY DEF Holds
<1>2. k \in Nodes(z) /\ z.node[k].score = d[k]
  BY DEF Holds
<1>3. PICK q : Gone(z, p, p[k] - 1, 1, y, q)
  <2>1. \E q : Gone(z, p, p[k] - 1, 1, Delete(z, z.node[k].score, k), q)
    BY <1>1, <1>2, DeleteFits
  <2>2. QED
    BY <1>2, <2>1
<1> HIDE DEF y
<1>4. Holds(f, y)
  BY <1>1, <1>3, TakenOut
<1>5. Nodes(y) = Nodes(z) \ {k} /\ y.length = z.length - 1
  <2>1. Nodes(y) = {n \in Nodes(z) : p[n] <= p[k] - 1 \/ p[n] > p[k] - 1 + 1}
        /\ y.length = z.length - 1
    BY <1>3 DEF Gone
  <2>2. \A n \in Nodes(z) : p[n] \in Int /\ (p[n] = p[k] => n = k)
    BY <1>1, <1>2, Numbers1 DEF SkipList, Numbered
  <2>3. QED
    BY <1>2, <2>1, <2>2
<1>6. e = f
  BY <1>5 DEF Holds
<1>7. QED
  BY <1>4, <1>5, <1>6 DEF y

\* A move: an entry is deleted and put in again.
LEMMA PutAgain ==
    ASSUME NEW d, NEW z, Holds(d, z), NEW j \in Keys, d[j] # Absent, NEW s \in Scores,
           NEW k \in Keys, k = j \/ d[k] = Absent, NEW level \in 1..MaxLevel
    PROVE  Holds([d EXCEPT ![j] = Absent, ![k] = s], Insert(Delete(z, d[j], j), s, k, level))
<1> DEFINE e == [d EXCEPT ![j] = Absent]
           y == Delete(z, d[j], j)
<1>1. Holds(e, y) /\ y.length = z.length - 1
  BY TakeOut
<1>2. e[k] = Absent
  BY DEF Holds
<1>3. Limit # 0 => y.length < Limit
  <2>1. \A p : SkipList(z, p) => z.length \in Nat
    BY Numbers1
  <2>2. z.length \in Nat /\ Limit \in Nat /\ (Limit # 0 => z.length <= Limit)
    BY <2>1, SortedSetAssumption DEF Holds
  <2>3. QED
    BY <1>1, <2>2
<1>4. [d EXCEPT ![j] = Absent, ![k] = s] = [e EXCEPT ![k] = s]
  OBVIOUS
<1> HIDE DEF e, y
<1>5. Holds([e EXCEPT ![k] = s], Insert(y, s, k, level))
  BY <1>1, <1>2, <1>3, PutIn
<1>6. QED
  BY <1>4, <1>5 DEF y

\* The entry of a number.
LEMMA ElementFound ==
    ASSUME NEW z, NEW p, SkipList(z, p), NEW rank \in 0..z.length
    PROVE  ElementByRank(z, rank) \in DOMAIN z.node /\ p[ElementByRank(z, rank)] = rank
<1> DEFINE path == RankPath(z, rank + 1)
           hit == {i \in 1..z.level : path[i].rank = rank}
<1>1. z.length \in Nat /\ z.level \in 1..MaxLevel /\ MaxLevel \in Nat
  BY Numbers1
<1>2. DOMAIN path = 1..z.level /\ \A i \in 1..z.level : path[i] \in Stops(z, p, i, rank)
  <2>1. rank + 1 \in Nat /\ \A j \in 1..z.length : j < rank + 1 <=> j <= rank
    BY <1>1
  <2>2. QED
    BY <2>1, RankPathStops
<1> HIDE DEF path
<1>3. path[1].rank = rank
  <2>1. 1 \in 1..z.level
    BY <1>1
  <2>2. LastUpTo(z, p, 1, path[1].at, rank) /\ path[1].rank = p[path[1].at]
    BY <1>2, <2>1 DEF Stops, Spots
  <2>3. QED
    BY <2>2, LowestLevel
<1>4. \A i \in 1..z.level : path[i].at \in DOMAIN z.node /\ p[path[i].at] = path[i].rank
  BY <1>2 DEF Stops, Spots, Places
<1>5. 1 \in hit /\ hit \subseteq 0..z.level /\ z.level \in Nat
  BY <1>1, <1>3
<1>6. Max(hit) \in hit
  <2> HIDE DEF hit
  <2>1. QED
    BY <1>5, MaxIsGreatest
<1>7. ElementByRank(z, rank) = path[Max(hit)].at
  BY <1>5 DEF ElementByRank, path
<1>8. QED
  BY <1>4, <1>6, <1>7

-----------------------------------------------------------------------------
(* Removals of ranges.                                                      *)

\* The greatest of two numbers.
LEMMA MaxOfTwo ==
    ASSUME NEW a \in Int, NEW b \in Int
    PROVE  Max({a, b}) = IF a >= b THEN a ELSE b
<1> DEFINE m == IF a >= b THEN a ELSE b
<1>1. m \in {a, b} /\ \A y \in {a, b} : m >= y
  OBVIOUS
<1>2. \A x \in {a, b} : (\A y \in {a, b} : x >= y) => x = m
  OBVIOUS
<1> HIDE DEF m
<1>3. Max({a, b}) = m
  BY <1>1, <1>2 DEF Max
<1>4. QED
  BY <1>3 DEF m

\* The nodes before a range of scores, and those not beyond it, are the first ones.
LEMMA RangeBounds ==
    ASSUME NEW z, NEW p, SkipList(z, p), NEW range \in Ranges
    PROVE  /\ \E r \in 0..z.length : Ahead(z, range) = FirstNodes(z, p, r)
           /\ \E e \in 0..z.length : Within(z, range) = FirstNodes(z, p, e)
<1>1. \A n \in Nodes(z) : z.node[n].score \in Int
  <2>1. \A n \in DOMAIN z.node : z.node[n].score \in Int
    BY DEF SkipList, Shaped
  <2>2. QED
    BY <2>1 DEF Nodes
<1>2. /\ range.min \in Int /\ range.max \in Int
      /\ range.minEx \in BOOLEAN /\ range.maxEx \in BOOLEAN
  BY SortedSetAssumption DEF Ranges
<1>3. \A m, n \in Nodes(z) : p[m] < p[n] =>
         \/ Better(z.node[m].score, z.node[n].score)
         \/ z.node[m].score = z.node[n].score
  BY OrderIsNumbers DEF NodeBefore
<1>4. ASSUME NEW m \in Nodes(z), NEW n \in Nodes(z), n \in Ahead(z, range), p[m] < p[n]
      PROVE  m \in Ahead(z, range)
  <2> DEFINE s == z.node[m].score  t == z.node[n].score
  <2>1. s \in Int /\ t \in Int /\ (Better(s, t) \/ s = t)
    BY <1>1, <1>3, <1>4
  <2>2. IF LargeFirst THEN ~LteMax(t, range) ELSE ~GteMin(t, range)
    BY <1>4 DEF Ahead
  <2> HIDE DEF s, t
  <2>3. IF LargeFirst THEN ~LteMax(s, range) ELSE ~GteMin(s, range)
    BY <1>2, <2>1, <2>2 DEF LteMax, GteMin, Better
  <2>4. QED
    BY <2>3 DEF Ahead, s
<1>5. ASSUME NEW m \in Nodes(z), NEW n \in Nodes(z), n \in Within(z, range), p[m] < p[n]
      PROVE  m \in Within(z, range)
  <2> DEFINE s == z.node[m].score  t == z.node[n].score
  <2>1. s \in Int /\ t \in Int /\ (Better(s, t) \/ s = t)
    BY <1>1, <1>3, <1>5
  <2>2. IF LargeFirst THEN GteMin(t, range) ELSE LteMax(t, range)
    BY <1>5 DEF Within
  <2> HIDE DEF s, t
  <2>3. IF LargeFirst THEN GteMin(s, range) ELSE LteMax(s, range)
    BY <1>2, <2>1, <2>2 DEF LteMax, GteMin, Better
  <2>4. QED
    BY <2>3 DEF Within, s
<1>6. Ahead(z, range) \subseteq Nodes(z) /\ Within(z, range) \subseteq Nodes(z)
  BY DEF Ahead, Within
<1>7. \E r \in 0..z.length : Ahead(z, range) = FirstNodes(z, p, r)
  BY <1>4, <1>6, FirstOnes
<1>8. \E e \in 0..z.length : Within(z, range) = FirstNodes(z, p, e)
  BY <1>5, <1>6, FirstOnes
<1>9. QED
  BY <1>7, <1>8

\* zslDeleteRangeByScore unlinks the entries within the range.
LEMMA ScoresGone ==
    ASSUME NEW z, NEW p, SkipList(z, p), NEW range \in Ranges
    PROVE  \E r \in 0..z.length, g \in Nat :
              /\ \E q : Gone(z, p, r, g, DeleteRangeByScore(z, range), q)
              /\ \A n \in Nodes(z) : p[n] > r /\ p[n] <= r + g
                                     <=> n \in Within(z, range) \ Ahead(z, range)
<1>1. PICK r \in 0..z.length : Ahead(z, range) = FirstNodes(z, p, r)
  BY RangeBounds
<1>2. PICK e \in 0..z.length : Within(z, range) = FirstNodes(z, p, e)
  BY RangeBounds
<1>3. z.length \in Nat /\ \A n \in Nodes(z) : p[n] \in 1..z.length
  BY Numbers1
<1> DEFINE path == Path(z, Ahead(z, range))
           at == AtOf(path)
           g == IF e <= r THEN 0 ELSE IF z.length <= e - r THEN z.length ELSE e - r
           y == DeleteRangeByScore(z, range)
<1>4. DOMAIN path = 1..z.level /\ \A i \in 1..z.level : path[i] \in Stops(z, p, i, r)
  BY <1>1, PathStops
<1> HIDE DEF path
<1>5. StoppedAt(z, p, r, at)
  BY <1>4, AtStops
<1> HIDE DEF at
<1>6. y = DeleteWhile(z, z.node[at[1]].forward[1], at, FirstNodes(z, p, e), z.length)
  BY <1>2 DEF DeleteRangeByScore, at, path
<1>7. g \in Nat /\ (g = IF e <= r THEN 0 ELSE IF z.length <= e - r THEN z.length ELSE e - r)
  BY <1>3
<1> HIDE DEF g, y
<1>8. PICK q : Gone(z, p, r, g, y, q)
  BY <1>3, <1>5, <1>6, <1>7, DeleteWhileFits
<1>9. \A n \in Nodes(z) : p[n] > r /\ p[n] <= r + g
                          <=> n \in Within(z, range) \ Ahead(z, range)
  <2>1. \A n \in Nodes(z) : p[n] > r /\ p[n] <= r + g <=> p[n] > r /\ p[n] <= e
    BY <1>3, <1>7
  <2>2. QED
    BY <1>1, <1>2, <1>3, <2>1 DEF FirstNodes
<1>10. QED
  BY <1>7, <1>8, <1>9 DEF y

\* zslDeleteRangeByRank unlinks the entries from one number to another; a start
\* of Word - 1 overflows to the first entry.
LEMMA RanksGone ==
    ASSUME NEW z, NEW p, SkipList(z, p), NEW start \in 0..(Word - 1), NEW end \in 0..(Word - 1),
           z.length + 2 < Word,
           NEW r, r = IF start = Word - 1 THEN 0 ELSE IF start >= z.length THEN z.length ELSE start,
           NEW g, g = IF end < r THEN 0
                      ELSE IF end + 1 <= z.length THEN end + 1 - r ELSE z.length - r
    PROVE  /\ r \in 0..z.length /\ g \in Nat
           /\ \E q : Gone(z, p, r, g, DeleteRangeByRank(z, start, end), q)
<1> DEFINE bound == (start + 1) % Word
           path == RankPath(z, bound)
           at == AtOf(path)
           most == Max({0, end - path[1].rank + 1})
           y == DeleteRangeByRank(z, start, end)
<1>1. z.length \in Nat /\ Word \in Nat /\ \A n \in Nodes(z) : p[n] \in 1..z.length
  BY Numbers1, SortedSetAssumption
<1>2. r \in 0..z.length /\ r \in Nat
  BY <1>1
<1>3. bound = IF start = Word - 1 THEN 0 ELSE start + 1
  <2>1. CASE start = Word - 1
    BY <1>1, <2>1
  <2>2. CASE start # Word - 1
    BY <1>1, <2>2
  <2>3. QED
    BY <2>1, <2>2
<1> HIDE DEF bound
<1>4. bound \in Nat /\ \A j \in 1..z.length : j < bound <=> j <= r
  BY <1>1, <1>3
<1>5. DOMAIN path = 1..z.level /\ \A i \in 1..z.level : path[i] \in Stops(z, p, i, r)
  BY <1>2, <1>4, RankPathStops
<1> HIDE DEF path
<1>6. StoppedAt(z, p, r, at) /\ path[1].rank = r
  <2>1. StoppedAt(z, p, r, at)
    BY <1>2, <1>5, AtStops
  <2>2. 1 \in 1..z.level
    BY Numbers1
  <2>3. LastUpTo(z, p, 1, path[1].at, r) /\ path[1].rank = p[path[1].at]
    BY <1>5, <2>2 DEF Stops, Spots
  <2>4. path[1].rank = r
    BY <1>2, <2>3, LowestLevel
  <2>5. QED
    BY <2>1, <2>4
<1> HIDE DEF at
<1>7. most = IF end - r + 1 > 0 THEN end - r + 1 ELSE 0
  <2>1. end - r + 1 \in Int /\ 0 \in Int
    BY <1>1, <1>2
  <2>2. Max({0, end - r + 1}) = IF 0 >= end - r + 1 THEN 0 ELSE end - r + 1
    BY <2>1, MaxOfTwo
  <2>3. QED
    BY <1>6, <2>1, <2>2
<1> HIDE DEF most
<1>8. most \in Nat /\ g \in Nat
      /\ g = IF z.length <= r THEN 0 ELSE IF most <= z.length - r THEN most ELSE z.length - r
  BY <1>1, <1>2, <1>7
<1>9. Nodes(z) = FirstNodes(z, p, z.length) /\ z.length \in 0..z.length
  BY <1>1 DEF FirstNodes
<1>10. y = DeleteWhile(z, z.node[at[1]].forward[1], at, FirstNodes(z, p, z.length), most)
  BY <1>9 DEF DeleteRangeByRank, bound, path, at, most
<1> HIDE DEF y
<1>11. \E q : Gone(z, p, r, g, y, q)
  BY <1>2, <1>6, <1>8, <1>9, <1>10, DeleteWhileFits
<1>12. QED
  BY <1>2, <1>8, <1>11 DEF y

-----------------------------------------------------------------------------
(* The invariant.                                                           *)

\* Initially the map and the list are empty.
LEMMA InitHolds == ASSUME Init PROVE IInv
<1> DEFINE p == [n \in {Header} |-> 0]
           forward == [i \in 1..MaxLevel |-> Nil]
           span == [i \in 1..MaxLevel |-> 0]
           header == Node(Absent, forward, span, Nil)
<1>1. /\ dict = [k \in Keys |-> Absent]
      /\ zsl.node = [n \in {Header} |-> header]
      /\ zsl.tail = Nil /\ zsl.length = 0 /\ zsl.level = 1
  BY DEF Init
<1>2. /\ DOMAIN zsl.node = {Header} /\ zsl.node[Header] = header /\ Nodes(zsl) = {}
  BY <1>1 DEF Nodes
<1>3. /\ header = Node(header.score, header.forward, header.span, header.backward)
      /\ header.score = Absent /\ header.forward = forward /\ header.span = span
  <2> HIDE DEF forward, span
  <2>1. QED
    BY DEF Node
<1>4. /\ DOMAIN forward = 1..MaxLevel /\ \A i \in 1..MaxLevel : forward[i] = Nil
      /\ span \in [1..MaxLevel -> Nat] /\ \A i \in 1..MaxLevel : span[i] = 0
  OBVIOUS
<1>5. p[Header] = 0 /\ DOMAIN p = {Header} /\ p = [n \in DOMAIN p |-> p[n]]
  OBVIOUS
<1>6. Absent \in Int /\ MaxLevel \in Nat \ {0} /\ Limit \in Nat
  BY SortedSetAssumption
<1> HIDE DEF p, forward, span, header
<1>7. Levels(zsl, Header) = 1..MaxLevel
  BY <1>2, <1>3, <1>4 DEF Levels
<1>8. Shaped(zsl)
  <2>1. 1 \in 1..MaxLevel /\ \A i \in 1..MaxLevel : 1..i \subseteq 1..MaxLevel
    BY <1>6
  <2>2. LET d == zsl.node[Header] IN
        /\ d = Node(d.score, d.forward, d.span, d.backward)
        /\ d.score \in Int
        /\ d.span \in [Levels(zsl, Header) -> Nat]
        /\ 1 \in Levels(zsl, Header) /\ Levels(zsl, Header) \subseteq 1..MaxLevel
        /\ \A i \in Levels(zsl, Header) : 1..i \subseteq Levels(zsl, Header)
    BY <1>2, <1>3, <1>4, <1>6, <1>7, <2>1
  <2>3. \A i \in 1..MaxLevel : zsl.node[Header].forward[i] = Nil
    BY <1>2, <1>3, <1>4
  <2>4. \A n \in DOMAIN zsl.node :
           LET d == zsl.node[n] IN
           /\ d = Node(d.score, d.forward, d.span, d.backward)
           /\ d.score \in Int
           /\ d.span \in [Levels(zsl, n) -> Nat]
           /\ 1 \in Levels(zsl, n) /\ Levels(zsl, n) \subseteq 1..MaxLevel
           /\ \A i \in Levels(zsl, n) : 1..i \subseteq Levels(zsl, n)
    BY <1>2, <2>2
  <2>5. /\ Header \in DOMAIN zsl.node /\ Nodes(zsl) \subseteq Keys
        /\ zsl.length \in Nat /\ zsl.level \in 1..MaxLevel
        /\ \A n \in Nodes(zsl) : Levels(zsl, n) \subseteq 1..zsl.level
    BY <1>1, <1>2, <2>1
  <2>6. QED
    BY <1>1, <1>7, <2>3, <2>4, <2>5 DEF Shaped
<1>9. Numbered(zsl, p)
  <2>1. p \in [{Header} -> 0..0]
    BY <1>5
  <2>2. QED
    BY <1>1, <1>2, <1>5, <2>1 DEF Numbered
<1>10. Sorted(zsl, p) /\ BackFits(zsl, p)
  BY <1>1, <1>2 DEF Sorted, BackFits
<1>11. Linked(zsl, p)
  <2>1. \A i \in 1..MaxLevel : /\ zsl.node[Header].forward[i] = Nil
                               /\ zsl.node[Header].span[i] = 0
    BY <1>2, <1>3, <1>4
  <2>2. QED
    BY <1>1, <1>2, <1>5, <1>7, <2>1 DEF Linked, LinkFits, End
<1>12. SkipList(zsl, p)
  BY <1>8, <1>9, <1>10, <1>11 DEF SkipList
<1>13. dict \in [Keys -> Scores \union {Absent}] /\ Nodes(zsl) = {k \in Keys : dict[k] # Absent}
  BY <1>1, <1>2
<1>14. QED
  BY <1>1, <1>2, <1>6, <1>12, <1>13 DEF IInv, Holds

\* Numbers of entries are far from overflowing.
LEMMA WordIsEnough ==
    ASSUME NEW d, NEW z, Holds(d, z), NEW p, SkipList(z, p)
    PROVE  2 * z.length + 2 < Word
<1>1. z.length \in Nat /\ \A n \in Nodes(z) : p[n] \in 1..z.length
  BY Numbers1
<1>2. /\ IsFiniteSet(Keys) /\ Limit \in Nat /\ Word \in Nat
      /\ Word > 2 * (IF Limit = 0 THEN Cardinality(Keys) ELSE Limit) + 2
  BY SortedSetAssumption
<1>3. Nodes(z) = FirstNodes(z, p, z.length) /\ Nodes(z) \subseteq Keys
  BY <1>1 DEF FirstNodes, SkipList, Shaped
<1>4. z.length \in 0..z.length
  BY <1>1
<1>5. Cardinality(Nodes(z)) = z.length
  BY <1>3, <1>4, FirstCount
<1>6. Cardinality(Nodes(z)) <= Cardinality(Keys) /\ Cardinality(Keys) \in Nat
  BY <1>2, <1>3, FS_Subset, FS_CardinalityType
<1>7. Limit # 0 => z.length <= Limit
  BY DEF Holds
<1>8. QED
  BY <1>1, <1>2, <1>5, <1>6, <1>7

\* Add of a new key to a set that is not full.
LEMMA AddNewStep ==
    ASSUME IInv, NEW k \in Keys, NEW s \in Scores, NEW level \in 1..MaxLevel,
           AddNew(k, s, level)
    PROVE  IInv' /\ Map!Add(k, s)
<1>1. PICK p : SkipList(zsl, p)
  BY DEF IInv, Holds
<1>2. Map!Size = zsl.length /\ zsl.length \in Nat /\ Limit \in Nat
  BY <1>1, OrderFound, Numbers1, SortedSetAssumption DEF IInv
<1>3. /\ dict[k] = Absent /\ ~(Limit # 0 /\ Limit <= zsl.length)
      /\ zsl' = Insert(zsl, s, k, level) /\ dict' = [dict EXCEPT ![k] = s]
  BY DEF AddNew, Full, Present, Put
<1>4. Holds([dict EXCEPT ![k] = s], Insert(zsl, s, k, level))
  <2>1. Limit # 0 => zsl.length < Limit
    BY <1>2, <1>3
  <2>2. QED
    BY <1>3, <2>1, PutIn DEF IInv
<1>5. Map!Add(k, s)
  BY <1>2, <1>3 DEF Map!Add, Map!Full, Map!Put
<1>6. QED
  BY <1>3, <1>4, <1>5 DEF IInv

\* A full set's last entry.
LEMMA LastFound ==
    ASSUME IInv, Full
    PROVE  LET last == ElementByRank(zsl, zsl.length) IN
           /\ last \in Keys /\ dict[last] # Absent /\ zsl.node[last].score = dict[last]
           /\ last = Map!Order[Map!Size] /\ Map!Full
<1>1. PICK p : SkipList(zsl, p)
  BY DEF IInv, Holds
<1>2. /\ Map!Size = zsl.length
      /\ \A i \in 1..zsl.length : Map!Order[i] \in Nodes(zsl) /\ p[Map!Order[i]] = i
  BY <1>1, OrderFound DEF IInv
<1>3. /\ zsl.length \in Nat /\ Limit \in Nat /\ Limit # 0 /\ Limit <= zsl.length
      /\ Nodes(zsl) \subseteq DOMAIN zsl.node
      /\ \A m, n \in DOMAIN zsl.node : p[m] = p[n] => m = n
  BY <1>1, Numbers1, SortedSetAssumption DEF Full, SkipList, Numbered
<1> DEFINE last == ElementByRank(zsl, zsl.length)
<1>4. last \in DOMAIN zsl.node /\ p[last] = zsl.length
  <2>1. zsl.length \in 0..zsl.length
    BY <1>3
  <2>2. QED
    BY <1>1, <2>1, ElementFound
<1> HIDE DEF last
<1>5. last = Map!Order[Map!Size] /\ last \in Nodes(zsl)
  BY <1>2, <1>3, <1>4
<1>6. last \in Keys /\ dict[last] # Absent /\ zsl.node[last].score = dict[last]
  BY <1>5 DEF IInv, Holds
<1>7. Map!Full
  BY <1>2, <1>3 DEF Map!Full
<1>8. QED
  BY <1>5, <1>6, <1>7 DEF last

\* Add of a new key to a full set: it replaces the last entry or is dropped.
LEMMA AddFullStep ==
    ASSUME IInv, NEW k \in Keys, NEW s \in Scores, NEW level \in 1..MaxLevel,
           AddFull(k, s, level)
    PROVE  IInv' /\ (Map!Add(k, s) \/ UNCHANGED dict)
<1> DEFINE last == ElementByRank(zsl, zsl.length)
<1>1. Full /\ dict[k] = Absent
  BY DEF AddFull, Present
<1>2. /\ last \in Keys /\ dict[last] # Absent /\ zsl.node[last].score = dict[last]
      /\ last = Map!Order[Map!Size] /\ Map!Full
  BY <1>1, LastFound
<1>3. CASE UNCHANGED vars
  BY <1>3 DEF IInv, vars
<1>4. CASE /\ Better(s, zsl.node[last].score)
           /\ zsl' = Insert(Delete(zsl, zsl.node[last].score, last), s, k, level)
           /\ dict' = [dict EXCEPT ![last] = Absent, ![k] = s]
  <2> HIDE DEF last
  <2>1. Holds(dict', zsl')
    BY <1>1, <1>2, <1>4, PutAgain DEF IInv
  <2>2. Map!Add(k, s)
    BY <1>1, <1>2, <1>4 DEF Map!Add, Map!Present, Map!Better, Better
  <2>3. QED
    BY <2>1, <2>2 DEF IInv
<1>5. QED
  BY <1>3, <1>4 DEF AddFull

\* A key that has an entry gets another score.
LEMMA UpdateStep ==
    ASSUME IInv, NEW k \in Keys, NEW s \in Scores, NEW level \in 1..MaxLevel,
           Update(k, s, level)
    PROVE  IInv' /\ Map!Update(k, s)
<1>1. /\ dict[k] # Absent /\ zsl' = Insert(Delete(zsl, dict[k], k), s, k, level)
      /\ dict' = [dict EXCEPT ![k] = s]
  BY DEF Update, Present, Put
<1>2. [dict EXCEPT ![k] = Absent, ![k] = s] = [dict EXCEPT ![k] = s]
  OBVIOUS
<1>3. Holds([dict EXCEPT ![k] = Absent, ![k] = s], zsl')
  BY <1>1, PutAgain DEF IInv
<1>4. Map!Update(k, s)
  BY <1>1 DEF Map!Update, Map!Present, Map!Put
<1>5. QED
  BY <1>1, <1>2, <1>3, <1>4 DEF IInv

\* A key is removed.
LEMMA DropStep ==
    ASSUME IInv, NEW k \in Keys, Drop(k)
    PROVE  IInv' /\ Map!Drop({k})
<1>1. dict[k] # Absent /\ zsl' = Delete(zsl, dict[k], k) /\ dict' = [dict EXCEPT ![k] = Absent]
  BY DEF Drop, Present, Put
<1>2. Holds(dict', zsl')
  BY <1>1, TakeOut DEF IInv
<1>3. dict = [j \in Keys |-> dict[j]]
  BY DEF IInv, Holds
<1>4. Map!Drop({k})
  BY <1>1, <1>3 DEF Map!Drop
<1>5. QED
  BY <1>2, <1>4 DEF IInv

\* Entries gone from the list leave the map.
LEMMA SweepStep ==
    ASSUME IInv, NEW p, SkipList(zsl, p), NEW r, NEW g \in Nat, NEW q,
           Gone(zsl, p, r, g, zsl', q), Sweep, NEW gone,
           \A n \in Nodes(zsl) : n \in gone <=> ~(p[n] <= r \/ p[n] > r + g)
    PROVE  IInv' /\ Map!Drop(gone)
<1>1. dict' = [k \in Keys |-> IF k \in Nodes(zsl') THEN dict[k] ELSE Absent]
  BY DEF Sweep
<1>2. Holds(dict', zsl')
  BY <1>1, TakenOut DEF IInv
<1>3. /\ Nodes(zsl') = {n \in Nodes(zsl) : p[n] <= r \/ p[n] > r + g}
      /\ Nodes(zsl) = {k \in Keys : dict[k] # Absent}
  BY DEF Gone, IInv, Holds
<1>4. \A k \in Keys : (IF k \in Nodes(zsl') THEN dict[k] ELSE Absent)
                      = IF k \in gone THEN Absent ELSE dict[k]
  BY <1>3
<1>5. dict' = [k \in Keys |-> IF k \in gone THEN Absent ELSE dict[k]]
  BY <1>1, <1>4
<1>6. QED
  BY <1>2, <1>5 DEF IInv, Map!Drop

\* RemoveRangeByScore.
LEMMA ByScoreStep ==
    ASSUME IInv, NEW range \in Ranges, RemoveRangeByScore(range)
    PROVE  IInv' /\ Map!Drop(Map!InRange(range))
<1>1. PICK p : SkipList(zsl, p)
  BY DEF IInv, Holds
<1>2. zsl' = DeleteRangeByScore(zsl, range) /\ Sweep
  BY DEF RemoveRangeByScore
<1>3. PICK r \in 0..zsl.length, g \in Nat :
         /\ \E q : Gone(zsl, p, r, g, zsl', q)
         /\ \A n \in Nodes(zsl) : p[n] > r /\ p[n] <= r + g
                                  <=> n \in Within(zsl, range) \ Ahead(zsl, range)
  BY <1>1, <1>2, ScoresGone
<1>4. /\ Map!Present = Nodes(zsl) /\ \A n \in Nodes(zsl) : zsl.node[n].score = dict[n]
      /\ \A n \in Nodes(zsl) : p[n] \in Int
  BY <1>1, OrderFound, Numbers1 DEF IInv, Holds
<1>5. \A n \in Nodes(zsl) : n \in Map!InRange(range) <=> n \in Within(zsl, range) \ Ahead(zsl, range)
  BY <1>4 DEF Map!InRange, Within, Ahead, LteMax, GteMin
<1>6. \A n \in Nodes(zsl) : n \in Map!InRange(range) <=> ~(p[n] <= r \/ p[n] > r + g)
  BY <1>3, <1>4, <1>5
<1>7. QED
  BY <1>1, <1>2, <1>3, <1>6, SweepStep

\* RemoveRangeByRank, with numbers that are negative or overflow as well.
LEMMA ByRankStep ==
    ASSUME IInv, NEW i \in Numbers, NEW j \in Numbers, RemoveRangeByRank(i, j)
    PROVE  IInv' /\ Map!RemoveByRank(i, j)
<1> DEFINE L == zsl.length
           number(n) == IF n < 0 THEN L + n ELSE n
           a == number(i)
           b == number(j)
           start == a % Word
           end == b % Word
           r == IF start = Word - 1 THEN 0 ELSE IF start >= L THEN L ELSE start
           g == IF end < r THEN 0 ELSE IF end + 1 <= L THEN end + 1 - r ELSE L - r
           first == IF a < -1 THEN L ELSE a
           last == IF b < 0 THEN L - 1 ELSE b
<1>1. PICK p : SkipList(zsl, p)
  BY DEF IInv, Holds
<1> DEFINE gone == {k \in Nodes(zsl) : p[k] - 1 \in first..last}
<1>2. L \in Nat /\ Word \in Nat /\ 2 * L + 2 < Word
  BY <1>1, Numbers1, WordIsEnough, SortedSetAssumption DEF IInv
<1>3. zsl' = DeleteRangeByRank(zsl, start, end) /\ Sweep
  BY DEF RemoveRangeByRank
<1>4. a \in Int /\ a >= -2 /\ a <= L /\ b \in Int /\ b >= -2 /\ b <= L
  BY <1>2 DEF Numbers
<1> HIDE DEF a, b
<1>5. start = IF a < 0 THEN a + Word ELSE a
  <2>1. CASE a < 0
    BY <1>2, <1>4, <2>1
  <2>2. CASE a >= 0
    BY <1>2, <1>4, <2>2
  <2>3. QED
    BY <1>4, <2>1, <2>2
<1>6. end = IF b < 0 THEN b + Word ELSE b
  <2>1. CASE b < 0
    BY <1>2, <1>4, <2>1
  <2>2. CASE b >= 0
    BY <1>2, <1>4, <2>2
  <2>3. QED
    BY <1>4, <2>1, <2>2
<1> HIDE DEF start, end
<1>7. start \in 0..(Word - 1) /\ end \in 0..(Word - 1) /\ L + 2 < Word
  BY <1>2, <1>4, <1>5, <1>6
<1>8. /\ r = IF start = Word - 1 THEN 0 ELSE IF start >= zsl.length THEN zsl.length ELSE start
      /\ g = IF end < r THEN 0
             ELSE IF end + 1 <= zsl.length THEN end + 1 - r ELSE zsl.length - r
  OBVIOUS
<1>9. /\ r = IF a = -1 THEN 0 ELSE IF a = -2 THEN L ELSE a
      /\ r \in 0..L
  BY <1>2, <1>4, <1>5
<1>10. g = IF b < 0 THEN L - r ELSE IF b < r THEN 0 ELSE IF b + 1 <= L THEN b + 1 - r ELSE L - r
  BY <1>2, <1>4, <1>6, <1>9
<1> HIDE DEF r, g
<1>11. g \in Nat /\ \E q : Gone(zsl, p, r, g, zsl', q)
  <2>1. zsl.length + 2 < Word
    BY <1>7
  <2>2. g \in Nat
    BY <1>1, <1>7, <1>8, <2>1, RanksGone
  <2>3. \E q : Gone(zsl, p, r, g, DeleteRangeByRank(zsl, start, end), q)
    BY <1>1, <1>7, <1>8, <2>1, RanksGone
  <2>4. QED
    BY <1>3, <2>2, <2>3
<1>12. \A n \in Nodes(zsl) : p[n] \in 1..L
  BY <1>1, Numbers1
<1>13. ASSUME NEW n \in Nodes(zsl)
       PROVE  p[n] - 1 \in first..last <=> ~(p[n] <= r \/ p[n] > r + g)
  <2> DEFINE c == p[n]
  <2>1. c \in 1..L
    BY <1>12
  <2> HIDE DEF c, L
  <2>2. c - 1 \in first..last <=> ~(c <= r \/ c > r + g)
    BY <1>2, <1>4, <1>9, <1>10, <2>1
  <2>3. QED
    BY <2>2 DEF c
<1>14. IInv' /\ Map!Drop(gone)
  <2>1. \A n \in Nodes(zsl) : n \in gone <=> ~(p[n] <= r \/ p[n] > r + g)
    BY <1>13
  <2> HIDE DEF gone
  <2>2. QED
    BY <1>1, <1>3, <1>11, <2>1, SweepStep
<1>15. Map!RemoveByRank(i, j)
  <2>1. /\ Map!Present = Nodes(zsl) /\ Map!Size = L
        /\ \A k \in Nodes(zsl) : Map!Place(k) = p[k] - 1
    BY <1>1, OrderFound DEF IInv
  <2> HIDE DEF first, last
  <2>2. {k \in Map!Present : Map!Place(k) \in first..last} = gone
    BY <2>1
  <2> HIDE DEF gone, L
  <2>3. Map!RemoveByRank(i, j) <=> Map!Drop({k \in Map!Present : Map!Place(k) \in first..last})
    BY <2>1 DEF Map!RemoveByRank, first, last, a, b
  <2>4. QED
    BY <1>14, <2>2, <2>3
<1>16. QED
  BY <1>14, <1>15

\* Each step keeps the invariant and is a step of the ordered map, or none.
LEMMA StepHolds ==
    ASSUME IInv, [Next]_vars
    PROVE  IInv' /\ [Map!Next]_dict
<1>1. CASE UNCHANGED vars
  BY <1>1 DEF IInv, vars
<1>2. ASSUME NEW k \in Keys, NEW s \in Scores, NEW level \in 1..MaxLevel,
             AddNew(k, s, level) \/ AddFull(k, s, level) \/ Update(k, s, level)
      PROVE  IInv' /\ [Map!Next]_dict
  <2>1. CASE AddNew(k, s, level)
    BY <2>1, AddNewStep DEF Map!Next
  <2>2. CASE AddFull(k, s, level)
    BY <2>2, AddFullStep DEF Map!Next
  <2>3. CASE Update(k, s, level)
    BY <2>3, UpdateStep DEF Map!Next
  <2>4. QED
    BY <1>2, <2>1, <2>2, <2>3
<1>3. ASSUME NEW k \in Keys, NEW s \in Scores, AddSame(k, s) PROVE IInv' /\ [Map!Next]_dict
  BY <1>3 DEF AddSame, IInv, vars
<1>4. ASSUME NEW k \in Keys, Drop(k) PROVE IInv' /\ [Map!Next]_dict
  BY <1>4, DropStep DEF Map!Next
<1>5. ASSUME NEW i \in Numbers, NEW j \in Numbers, RemoveRangeByRank(i, j)
      PROVE  IInv' /\ [Map!Next]_dict
  <2>1. IInv' /\ Map!RemoveByRank(i, j)
    BY <1>5, ByRankStep
  <2>2. Map!Numbers = Numbers
    <3>1. PICK p : SkipList(zsl, p)
      BY DEF IInv, Holds
    <3>2. Map!Size = zsl.length
      BY <3>1, OrderFound DEF IInv
    <3>3. QED
      BY <3>2 DEF Map!Numbers, Numbers
  <2>3. QED
    BY <2>1, <2>2 DEF Map!Next
<1>6. ASSUME NEW range \in Ranges, RemoveRangeByScore(range) PROVE IInv' /\ [Map!Next]_dict
  <2>1. Map!Ranges = Ranges
    BY DEF Map!Ranges, Ranges
  <2>2. QED
    BY <1>6, <2>1, ByScoreStep DEF Map!Next
<1>7. QED
  BY <1>1, <1>2, <1>3, <1>4, <1>5, <1>6 DEF Next

\* The inductive invariant: the list is a skip list of the map's entries.
THEOREM Invariance == Spec => []IInv
<1>1. Init => IInv
  BY InitHolds
<1>2. IInv /\ [Next]_vars => IInv'
  BY StepHolds
<1>3. QED
  BY <1>1, <1>2, PTL DEF Spec

\* The set is an ordered map with a limit, by whatever operations and heights.
THEOREM Implements == Spec => ImplementsOrderedMap
<1>1. Init => Map!Init
  BY DEF Init, Map!Init
<1>2. IInv /\ [Next]_vars => [Map!Next]_dict
  BY StepHolds
<1>3. QED
  BY <1>1, <1>2, Invariance, PTL DEF Spec, ImplementsOrderedMap, Map!Spec

\* The invariant gives the values their types.
LEMMA TypeHolds == ASSUME IInv PROVE TypeOK
<1>1. PICK p : SkipList(zsl, p)
  BY DEF IInv, Holds
<1>2. /\ dict \in [Keys -> Scores \union {Absent}] /\ zsl.level \in 1..MaxLevel
      /\ zsl.level = 1 \/ zsl.node[Header].forward[zsl.level] # Nil
  BY <1>1 DEF IInv, Holds, SkipList, Shaped
<1>3. \A n \in DOMAIN zsl.node : zsl.node[n].span \in [DOMAIN zsl.node[n].forward -> Nat]
  BY <1>1 DEF SkipList, Shaped, Levels
<1>4. QED
  BY <1>2, <1>3 DEF TypeOK, Nodes

\* What kind of values the map and the list have.
THEOREM TypeCorrect == Spec => []TypeOK
  BY Invariance, TypeHolds, PTL

-----------------------------------------------------------------------------
(* What the links lead to.                                                  *)

\* The order, or its reverse.
View(reverse) == IF reverse THEN Reverse(Map!Order) ELSE Map!Order

\* What is seen from either end.
LEMMA ViewFound ==
    ASSUME IInv, NEW p, SkipList(zsl, p), NEW reverse \in BOOLEAN
    PROVE  /\ View(reverse) = [i \in 1..zsl.length |-> View(reverse)[i]]
           /\ Len(View(reverse)) = zsl.length
           /\ \A i \in 1..zsl.length :
                 /\ View(reverse)[i] \in Nodes(zsl)
                 /\ p[View(reverse)[i]] = IF reverse THEN zsl.length - i + 1 ELSE i
<1> DEFINE L == zsl.length
           order == Map!Order
<1>1. L \in Nat
  BY Numbers1
<1>2. /\ order = [i \in 1..L |-> order[i]]
      /\ \A i \in 1..L : order[i] \in Nodes(zsl) /\ p[order[i]] = i
  BY OrderFound DEF IInv
<1> HIDE DEF L, order
<1>3. Len(order) = L
  BY <1>1, <1>2
<1>4. Reverse(order) = [i \in 1..L |-> order[(L - i) + 1]]
  BY <1>3 DEF Reverse
<1>5. Len(Reverse(order)) = L
  BY <1>1, <1>4
<1>6. \A i \in 1..L : Reverse(order)[i] = order[(L - i) + 1] /\ (L - i) + 1 \in 1..L
  BY <1>1, <1>4
<1>7. Reverse(order) = [i \in 1..L |-> Reverse(order)[i]]
  BY <1>4
<1>8. CASE reverse
  <2>1. View(reverse) = Reverse(order)
    BY <1>8 DEF View, order
  <2>2. \A i \in 1..L : /\ Reverse(order)[i] \in Nodes(zsl)
                        /\ p[Reverse(order)[i]] = L - i + 1
    BY <1>1, <1>2, <1>6
  <2>3. QED
    BY <1>5, <1>7, <1>8, <2>1, <2>2 DEF L
<1>9. CASE ~reverse
  <2>1. View(reverse) = order
    BY <1>9 DEF View, order
  <2>2. QED
    BY <1>2, <1>3, <1>9, <2>1 DEF L
<1>10. QED
  BY <1>8, <1>9

\* x is entry number b of the view, and q are n entries of it from number b on.
Begins(p, x, reverse, b) ==
    x \in Nodes(zsl) /\ p[x] = IF reverse THEN zsl.length - b + 1 ELSE b

Shows(q, reverse, b, n) == q = [i \in 1..n |-> View(reverse)[b + i - 1]]

\* Following the links from an entry one sees the entries from it on.
LEMMA FollowsView ==
    ASSUME IInv, NEW p, SkipList(zsl, p), NEW reverse \in BOOLEAN,
           NEW b \in Nat \ {0}, NEW n \in Nat, b + n - 1 <= zsl.length, NEW x,
           n > 0 => Begins(p, x, reverse, b)
    PROVE  Shows(Follow(x, n, reverse), reverse, b, n)
<1> DEFINE L == zsl.length
           next == [y \in Nodes(zsl) |-> IF reverse THEN zsl.node[y].backward
                                         ELSE zsl.node[y].forward[1]]
           number(j) == IF reverse THEN L - j + 1 ELSE j
           at(m) == Turns(next, x, m)
           T == {m \in Nat : m < n => at(m) \in Nodes(zsl) /\ p[at(m)] = number(b + m)}
<1>1. /\ L \in Nat /\ \A m \in Nodes(zsl) : p[m] \in 1..L
      /\ Nodes(zsl) \subseteq DOMAIN zsl.node
      /\ \A k, m \in DOMAIN zsl.node : p[k] = p[m] => k = m
  BY Numbers1 DEF SkipList, Numbered
<1> HIDE DEF next
<1>2. at(0) = x /\ \A m \in Nat : at(m + 1) = next[at(m)]
  BY TurnsStep
<1>3. ASSUME NEW y \in Nodes(zsl), p[y] < L, ~reverse
      PROVE  next[y] \in Nodes(zsl) /\ p[next[y]] = p[y] + 1
  <2>1. y \in DOMAIN zsl.node
    BY <1>1
  <2>2. LET f == zsl.node[y].forward[1] IN
        IF p[y] = zsl.length THEN f = Nil ELSE f \in Nodes(zsl) /\ p[f] = p[y] + 1
    BY <2>1, NextEntry
  <2>3. zsl.node[y].forward[1] \in Nodes(zsl) /\ p[zsl.node[y].forward[1]] = p[y] + 1
    BY <1>1, <1>3, <2>2
  <2>4. QED
    BY <1>3, <2>3 DEF next
<1>4. ASSUME NEW y \in Nodes(zsl), p[y] > 1, reverse
      PROVE  next[y] \in Nodes(zsl) /\ p[next[y]] = p[y] - 1
  <2>1. zsl.node[y].backward \in Nodes(zsl) /\ p[zsl.node[y].backward] = p[y] - 1
    BY <1>1, <1>4 DEF SkipList, BackFits
  <2>2. QED
    BY <1>4, <2>1 DEF next
<1> HIDE DEF at, L
<1>5. 0 \in T
  BY <1>1, <1>2 DEF L, Begins
<1>6. ASSUME NEW m \in Nat, m \in T PROVE m + 1 \in T
  <2>1. SUFFICES ASSUME m + 1 < n
                 PROVE  at(m + 1) \in Nodes(zsl) /\ p[at(m + 1)] = number(b + (m + 1))
    OBVIOUS
  <2>2. at(m) \in Nodes(zsl) /\ p[at(m)] = number(b + m) /\ at(m + 1) = next[at(m)]
    BY <1>2, <1>6, <2>1
  <2>3. b + m < L
    BY <1>1, <2>1 DEF L
  <2>4. CASE reverse
    <3>1. p[at(m)] > 1 /\ p[at(m)] \in Int
      BY <1>1, <2>2, <2>3, <2>4
    <3>2. next[at(m)] \in Nodes(zsl) /\ p[next[at(m)]] = p[at(m)] - 1
      BY <1>4, <2>2, <2>4, <3>1
    <3>3. QED
      BY <1>1, <2>2, <2>4, <3>1, <3>2
  <2>5. CASE ~reverse
    <3>1. p[at(m)] < L /\ p[at(m)] \in Int
      BY <1>1, <2>2, <2>3, <2>5
    <3>2. next[at(m)] \in Nodes(zsl) /\ p[next[at(m)]] = p[at(m)] + 1
      BY <1>3, <2>2, <2>5, <3>1
    <3>3. QED
      BY <1>1, <2>2, <2>5, <3>1, <3>2
  <2>6. QED
    BY <2>4, <2>5
<1> HIDE DEF T
<1>7. \A m \in Nat : m \in T
  BY <1>5, <1>6, Induct
<1>8. \A i \in 1..L : View(reverse)[i] \in Nodes(zsl) /\ p[View(reverse)[i]] = number(i)
  BY ViewFound DEF L
<1>9. ASSUME NEW i \in 1..n PROVE at(i - 1) = View(reverse)[b + i - 1]
  <2>1. i - 1 \in Nat /\ i - 1 < n /\ b + (i - 1) \in 1..L /\ b + i - 1 = b + (i - 1)
    BY <1>1 DEF L
  <2>2. at(i - 1) \in Nodes(zsl) /\ p[at(i - 1)] = number(b + (i - 1))
    BY <1>7, <2>1 DEF T
  <2>3. View(reverse)[b + (i - 1)] \in Nodes(zsl)
        /\ p[View(reverse)[b + (i - 1)]] = number(b + (i - 1))
    BY <1>8, <2>1
  <2>4. QED
    BY <1>1, <2>1, <2>2, <2>3
<1>10. Follow(x, n, reverse) = [i \in 1..n |-> at(i - 1)]
  BY DEF Follow, at, next
<1>11. QED
  BY <1>9, <1>10 DEF Shows

\* From either end one sees all of them.
LEMMA WholeView ==
    ASSUME IInv, NEW p, SkipList(zsl, p), NEW reverse \in BOOLEAN
    PROVE  Follow(IF reverse THEN zsl.tail ELSE zsl.node[Header].forward[1],
                  zsl.length, reverse) = View(reverse)
<1> DEFINE L == zsl.length
           f == zsl.node[Header].forward[1]
           x == IF reverse THEN zsl.tail ELSE f
<1>1. L \in Nat /\ p[Header] = 0 /\ Header \in DOMAIN zsl.node
  BY Numbers1
<1>2. IF p[Header] = zsl.length THEN f = Nil ELSE f \in Nodes(zsl) /\ p[f] = p[Header] + 1
  BY <1>1, NextEntry
<1>3. L > 0 => zsl.tail \in Nodes(zsl) /\ p[zsl.tail] = L
  BY <1>1 DEF SkipList, BackFits
<1>4. L > 0 => f \in Nodes(zsl) /\ p[f] = 1
  BY <1>1, <1>2
<1> HIDE DEF f
<1>5. PICK b \in Nat \ {0} : b = 1
  OBVIOUS
<1>6. L > 0 => Begins(p, x, reverse, b)
  BY <1>1, <1>3, <1>4, <1>5 DEF Begins
<1> HIDE DEF x
<1>7. b + L - 1 <= zsl.length
  BY <1>1, <1>5
<1>8. Shows(Follow(x, L, reverse), reverse, b, L)
  BY <1>1, <1>6, <1>7, FollowsView
<1>9. \A i \in 1..L : b + i - 1 = i
  BY <1>1, <1>5
<1>10. View(reverse) = [i \in 1..L |-> View(reverse)[i]]
  BY ViewFound
<1>11. QED
  BY <1>8, <1>9, <1>10 DEF Shows, x, f

\* The list is the map's order, from either end.
LEMMA ListHolds == ASSUME IInv PROVE ListFollowsMap
<1>1. PICK p : SkipList(zsl, p)
  BY DEF IInv, Holds
<1>2. View(FALSE) = Map!Order /\ View(TRUE) = Reverse(Map!Order)
  BY DEF View
<1>3. Len(Map!Order) = zsl.length
  <2>1. \A reverse \in BOOLEAN : Len(View(reverse)) = zsl.length
    BY <1>1, ViewFound
  <2>2. QED
    BY <1>2, <2>1
<1>4. \A k \in Present : zsl.node[k].score = dict[k]
  BY <1>1, OrderFound DEF IInv, Holds
<1>5. \A reverse \in BOOLEAN :
         Follow(IF reverse THEN zsl.tail ELSE zsl.node[Header].forward[1],
                zsl.length, reverse) = View(reverse)
  BY <1>1, WholeView
<1>6. Follow(zsl.node[Header].forward[1], zsl.length, FALSE) = Map!Order
  BY <1>2, <1>5
<1>7. Follow(zsl.tail, zsl.length, TRUE) = Reverse(Map!Order)
  BY <1>2, <1>5
<1>8. QED
  BY <1>3, <1>4, <1>6, <1>7 DEF ListFollowsMap

\* The list has the map's entries in order, forwards and backwards.
THEOREM ListOrdered == Spec => []ListFollowsMap
  BY Invariance, ListHolds, PTL

\* The invariant makes the spans distances.
LEMMA SpansHold == ASSUME IInv PROVE SpansAreDistances
<1>1. PICK p : SkipList(zsl, p)
  BY DEF IInv, Holds
<1>2. /\ zsl.length \in Nat /\ zsl.level \in Nat /\ p[Header] = 0 /\ Header # Nil
      /\ Header \notin Nodes(zsl) /\ Nil \notin Nodes(zsl)
      /\ DOMAIN zsl.node = Nodes(zsl) \union {Header}
      /\ \A n \in Nodes(zsl) : p[n] \in 1..zsl.length
      /\ \A m, n \in DOMAIN zsl.node : p[m] = p[n] => m = n
  BY <1>1, Numbers1 DEF SkipList, Numbered
<1>3. /\ Map!Order = [i \in 1..zsl.length |-> Map!Order[i]]
      /\ \A i \in 1..zsl.length : Map!Order[i] \in Nodes(zsl) /\ p[Map!Order[i]] = i
  BY <1>1, OrderFound DEF IInv
<1>4. ASSUME NEW n \in Nodes(zsl) PROVE Number(n) = p[n]
  <2>1. p[n] \in 1..zsl.length /\ Map!Order[p[n]] = n
    BY <1>2, <1>3
  <2>2. \A i \in 1..zsl.length : Map!Order[i] = n => i = p[n]
    BY <1>3
  <2>3. DOMAIN Map!Order = 1..zsl.length
    BY <1>3
  <2>4. (CHOOSE i \in 1..zsl.length : Map!Order[i] = n) = p[n]
    BY <2>1, <2>2
  <2>5. QED
    BY <1>2, <2>3, <2>4 DEF Number
<1>5. Number(Header) = 0 /\ Number(Nil) = zsl.length
  BY <1>2 DEF Number
<1>6. ASSUME NEW n \in DOMAIN zsl.node, NEW i \in DOMAIN zsl.node[n].forward \intersect 1..zsl.level
      PROVE  zsl.node[n].span[i] = Number(zsl.node[n].forward[i]) - Number(n)
  <2> DEFINE f == zsl.node[n].forward[i]
  <2>1. LinkFits(zsl, p, n, i)
    BY <1>1, <1>2 DEF SkipList, Linked, Levels
  <2>2. zsl.node[n].span[i] = End(zsl, p, f) - p[n] /\ (f # Nil => f \in Nodes(zsl))
    BY <2>1 DEF LinkFits
  <2> HIDE DEF f
  <2>3. Number(f) = End(zsl, p, f)
    BY <1>4, <1>5, <2>2 DEF End
  <2>4. Number(n) = p[n]
    BY <1>2, <1>4, <1>5
  <2>5. QED
    BY <2>2, <2>3, <2>4 DEF f
<1>7. QED
  BY <1>6 DEF SpansAreDistances

\* Every span is the number of entries its link goes over.
THEOREM SpansRight == Spec => []SpansAreDistances
  BY Invariance, SpansHold, PTL

-----------------------------------------------------------------------------
(* Ranks and ranges of ranks.                                               *)

\* The rank of an entry is its number.
LEMMA RankFound ==
    ASSUME NEW z, NEW p, SkipList(z, p), NEW k \in Nodes(z)
    PROVE  GetRank(z, z.node[k].score, k) = p[k]
<1> DEFINE s == z.node[k].score
           over == Before(z, s, k) \union {n \in Nodes(z) : z.node[n].score = s /\ n = k}
           path == Path(z, over)
           hit == {i \in 1..z.level : path[i].at = k}
<1>1. /\ z.length \in Nat /\ z.level \in 1..MaxLevel /\ MaxLevel \in Nat
      /\ k \in DOMAIN z.node
      /\ \A n \in Nodes(z) : p[n] \in 1..z.length
      /\ \A m, n \in DOMAIN z.node : p[m] = p[n] => m = n
      /\ Nodes(z) \subseteq DOMAIN z.node
  BY Numbers1 DEF SkipList, Numbered
<1>2. over = FirstNodes(z, p, p[k])
  <2>1. Before(z, s, k) = FirstNodes(z, p, p[k] - 1)
    BY BeforeNode
  <2>2. {n \in Nodes(z) : z.node[n].score = s /\ n = k} = {k}
    OBVIOUS
  <2>3. \A n \in Nodes(z) : p[n] <= p[k] <=> p[n] <= p[k] - 1 \/ n = k
    BY <1>1
  <2>4. QED
    BY <2>1, <2>2, <2>3 DEF FirstNodes
<1> HIDE DEF over
<1>3. p[k] \in 0..z.length
  BY <1>1
<1>4. \A i \in 1..z.level : path[i] \in Stops(z, p, i, p[k])
  BY <1>2, <1>3, PathStops
<1> HIDE DEF path
<1>5. \A i \in 1..z.level : path[i].at = k => path[i].rank = p[k]
  BY <1>4 DEF Stops, Spots
<1>6. 1 \in 1..z.level
  BY <1>1
<1>7. LastUpTo(z, p, 1, path[1].at, p[k])
  BY <1>4, <1>6 DEF Stops
<1>8. path[1].at \in DOMAIN z.node /\ p[path[1].at] = p[k]
  BY <1>3, <1>7, LowestLevel DEF LastUpTo
<1>9. 1 \in hit /\ hit \subseteq 0..z.level /\ z.level \in Nat
  BY <1>1, <1>6, <1>8
<1>10. Max(hit) \in hit
  <2> HIDE DEF hit
  <2>1. QED
    BY <1>9, MaxIsGreatest
<1>11. GetRank(z, s, k) = IF hit = {} THEN 0 ELSE path[Max(hit)].rank
  BY DEF GetRank, path, over
<1>12. path[Max(hit)].rank = p[k]
  BY <1>5, <1>10
<1>13. QED
  BY <1>9, <1>11, <1>12

\* No entry has a number beyond the last.
LEMMA ElementBeyond ==
    ASSUME NEW z, NEW p, SkipList(z, p)
    PROVE  ElementByRank(z, z.length + 1) = Nil
<1> DEFINE rank == z.length + 1
           path == RankPath(z, rank + 1)
           hit == {i \in 1..z.level : path[i].rank = rank}
<1>1. z.length \in Nat /\ z.length \in 0..z.length /\ rank + 1 \in Nat
      /\ \A n \in DOMAIN z.node : p[n] \in 0..z.length
  BY Numbers1
<1>2. \A j \in 1..z.length : j < rank + 1 <=> j <= z.length
  BY <1>1
<1>3. \A i \in 1..z.level : path[i] \in Stops(z, p, i, z.length)
  <2> HIDE DEF rank
  <2>1. QED
    BY <1>1, <1>2, RankPathStops
<1> HIDE DEF path
<1>4. \A i \in 1..z.level : path[i].at \in DOMAIN z.node /\ path[i].rank = p[path[i].at]
  BY <1>3 DEF Stops, Spots, Places
<1>5. hit = {}
  BY <1>1, <1>4
<1>6. QED
  BY <1>5 DEF ElementByRank, path

\* The entry of a rank, from either end; one rank beyond the last there is none.
LEMMA DataFound ==
    ASSUME IInv, NEW p, SkipList(zsl, p), NEW rank \in 0..zsl.length, NEW reverse \in BOOLEAN
    PROVE  GetDataByRank(rank, reverse)
              = IF rank < zsl.length THEN View(reverse)[rank + 1] ELSE Nil
<1> DEFINE L == zsl.length
           number == IF reverse THEN L - rank ELSE rank + 1
           n == ElementByRank(zsl, number)
           v == View(reverse)[rank + 1]
<1>1. /\ L \in Nat /\ p[Header] = 0 /\ Nil \notin Nodes(zsl)
      /\ Header \in DOMAIN zsl.node /\ Header \notin Nodes(zsl)
      /\ DOMAIN zsl.node = Nodes(zsl) \union {Header}
      /\ \A m, k \in DOMAIN zsl.node : p[m] = p[k] => m = k
      /\ Present = Nodes(zsl)
  BY Numbers1, OrderFound DEF IInv, SkipList, Numbered
<1>2. GetDataByRank(rank, reverse) = IF n \in Nodes(zsl) THEN n ELSE Nil
  BY <1>1 DEF GetDataByRank
<1>3. number \in 0..L => n \in DOMAIN zsl.node /\ p[n] = number
  BY ElementFound
<1>4. number = L + 1 => n = Nil
  BY ElementBeyond
<1> HIDE DEF n
<1>5. CASE rank < L
  <2>1. rank + 1 \in 1..L
    BY <1>1, <1>5
  <2>2. v \in Nodes(zsl) /\ p[v] = IF reverse THEN L - (rank + 1) + 1 ELSE rank + 1
    BY <2>1, ViewFound
  <2> HIDE DEF v
  <2>3. p[v] = number /\ number \in 0..L
    BY <1>1, <2>1, <2>2
  <2>4. n = v
    BY <1>1, <1>3, <2>2, <2>3
  <2>5. QED
    BY <1>2, <1>5, <2>2, <2>4 DEF v
<1>6. CASE ~(rank < L)
  <2>1. IF reverse THEN number = 0 /\ number \in 0..L ELSE number = L + 1
    BY <1>1, <1>6
  <2> HIDE DEF number
  <2>2. n \notin Nodes(zsl)
    BY <1>1, <1>3, <1>4, <2>1
  <2>3. QED
    BY <1>2, <1>6, <2>2
<1>7. QED
  BY <1>5, <1>6

\* The rank of each entry leads back to it.
LEMMA RanksAgree ==
    ASSUME IInv, NEW k \in Present
    PROVE  /\ \A reverse \in BOOLEAN : GetDataByRank(Rank(k, reverse), reverse) = k
           /\ Map!Order[Rank(k, FALSE) + 1] = k
<1>1. PICK p : SkipList(zsl, p)
  BY DEF IInv, Holds
<1> DEFINE L == zsl.length
<1>2. /\ k \in Nodes(zsl) /\ zsl.node[k].score = dict[k]
      /\ L \in Nat /\ p[k] \in 1..L
      /\ \A m, n \in DOMAIN zsl.node : p[m] = p[n] => m = n
      /\ Nodes(zsl) \subseteq DOMAIN zsl.node
  <2>1. k \in Nodes(zsl)
    BY <1>1, OrderFound DEF IInv
  <2>2. zsl.node[k].score = dict[k]
    BY <2>1 DEF IInv, Holds
  <2>3. L \in Nat /\ p[k] \in 1..L /\ Nodes(zsl) \subseteq DOMAIN zsl.node
    BY <1>1, <2>1, Numbers1
  <2>4. \A m, n \in DOMAIN zsl.node : p[m] = p[n] => m = n
    BY <1>1 DEF SkipList, Numbered
  <2>5. QED
    BY <2>1, <2>2, <2>3, <2>4
<1>3. \A reverse \in BOOLEAN : Rank(k, reverse) = IF reverse THEN L - p[k] ELSE p[k] - 1
  <2>1. GetRank(zsl, dict[k], k) = p[k]
    BY <1>1, <1>2, RankFound
  <2>2. QED
    BY <2>1 DEF Rank
<1>4. ASSUME NEW reverse \in BOOLEAN
      PROVE  GetDataByRank(Rank(k, reverse), reverse) = k /\ View(reverse)[Rank(k, reverse) + 1] = k
  <2> DEFINE r == Rank(k, reverse)
             v == View(reverse)[r + 1]
  <2>1. r = IF reverse THEN L - p[k] ELSE p[k] - 1
    BY <1>3
  <2> HIDE DEF r
  <2>2. r \in 0..L /\ r < L /\ r + 1 \in 1..L
    BY <1>2, <2>1
  <2>3. GetDataByRank(r, reverse) = v
    BY <1>1, <2>2, DataFound
  <2>4. v \in Nodes(zsl) /\ p[v] = IF reverse THEN L - (r + 1) + 1 ELSE r + 1
    BY <1>1, <2>2, ViewFound
  <2> HIDE DEF v
  <2>5. p[v] = p[k]
    BY <1>2, <2>1, <2>4
  <2>6. v = k
    BY <1>2, <2>4, <2>5
  <2>7. QED
    BY <2>3, <2>6 DEF v, r
<1>5. Map!Order[Rank(k, FALSE) + 1] = k
  <2>1. View(FALSE) = Map!Order
    BY DEF View
  <2>2. QED
    BY <1>4, <2>1
<1>6. QED
  BY <1>4, <1>5

\* The least of two numbers.
LEMMA MinOfTwo ==
    ASSUME NEW a \in Int, NEW b \in Int
    PROVE  Min({a, b}) = IF a <= b THEN a ELSE b
<1> DEFINE m == IF a <= b THEN a ELSE b
<1>1. m \in {a, b} /\ \A y \in {a, b} : m <= y
  OBVIOUS
<1>2. \A x \in {a, b} : (\A y \in {a, b} : x <= y) => x = m
  OBVIOUS
<1> HIDE DEF m
<1>3. Min({a, b}) = m
  BY <1>1, <1>2 DEF Min
<1>4. QED
  BY <1>3 DEF m

\* The number a number of an entry stands for, which may be negative.
Counted(n) == IF n < 0 THEN zsl.length + n ELSE n

\* A part of the view.
LEMMA SliceFound ==
    ASSUME IInv, NEW p, SkipList(zsl, p), NEW reverse \in BOOLEAN, NEW i \in Int, NEW j \in Int
    PROVE  LET from == IF Counted(i) >= 0 THEN Counted(i) ELSE 0
               to   == IF Counted(j) + 1 <= zsl.length THEN Counted(j) + 1 ELSE zsl.length
           IN Slice(View(reverse), i, j) = SubSeq(View(reverse), from + 1, to)
<1> DEFINE q == View(reverse)
           a == Counted(i)
           b == Counted(j)
<1>1. zsl.length \in Nat /\ Len(q) = zsl.length
  BY ViewFound, Numbers1
<1> HIDE DEF q
<1>2. a \in Int /\ b + 1 \in Int /\ b \in Int
  BY <1>1 DEF Counted
<1>3. Slice(q, i, j) = SubSeq(q, Max({a, 0}) + 1, Min({b + 1, zsl.length}))
  BY <1>1 DEF Slice, Counted
<1> HIDE DEF a, b
<1>4. Max({a, 0}) = IF a >= 0 THEN a ELSE 0
  BY <1>2, MaxOfTwo
<1>5. Min({b + 1, zsl.length}) = IF b + 1 <= zsl.length THEN b + 1 ELSE zsl.length
  BY <1>1, <1>2, MinOfTwo
<1>6. QED
  BY <1>3, <1>4, <1>5 DEF q, a, b

\* n entries from number b on are the part of the view from b to b + n - 1.
LEMMA ShowsPart ==
    ASSUME IInv, NEW p, SkipList(zsl, p), NEW reverse \in BOOLEAN, NEW q,
           NEW b \in Nat \ {0}, NEW n \in Nat, Shows(q, reverse, b, n)
    PROVE  q = SubSeq(View(reverse), b, b + n - 1)
<1> DEFINE v == View(reverse)
<1>1. q = [i \in 1..n |-> v[b + i - 1]]
  BY DEF Shows
<1> HIDE DEF v
<1>2. SubSeq(v, b, b + n - 1) = [i \in 1..n |-> v[b + i - 1]]
  OBVIOUS
<1>3. QED
  BY <1>1, <1>2 DEF v

\* commonRange finds the part of the view that it is asked for.
LEMMA RangeFound ==
    ASSUME IInv, NEW start \in Int, NEW end \in Int, NEW reverse \in BOOLEAN
    PROVE  CommonRange(start, end, reverse) = Slice(View(reverse), start, end)
<1>1. PICK p : SkipList(zsl, p)
  BY DEF IInv, Holds
<1> DEFINE L == zsl.length
           from == IF start < 0 THEN Max({start + L, 0}) ELSE start
           to == IF end < 0 THEN end + L ELSE end
           a == IF Counted(start) >= 0 THEN Counted(start) ELSE 0
           b == IF Counted(end) + 1 <= L THEN Counted(end) + 1 ELSE L
           head == IF reverse THEN zsl.tail ELSE zsl.node[Header].forward[1]
           number == IF reverse THEN L - from ELSE from + 1
           element == ElementByRank(zsl, number)
           first == IF from > 0 THEN element ELSE head
           n == Min({to, L - 1}) - from + 1
           v == View(reverse)
<1>2. L \in Nat /\ p[Header] = 0 /\ Header \in DOMAIN zsl.node
      /\ DOMAIN zsl.node = Nodes(zsl) \union {Header}
  BY <1>1, Numbers1
<1>3. Slice(v, start, end) = SubSeq(v, a + 1, b)
  BY <1>1, SliceFound
<1>4. CommonRange(start, end, reverse)
         = IF from > to \/ from >= L THEN <<>> ELSE Follow(first, n, reverse)
  BY DEF CommonRange
<1>5. from = a /\ from \in Nat
  <2>1. start + L \in Int /\ 0 \in Int
    BY <1>2
  <2>2. Max({start + L, 0}) = IF start + L >= 0 THEN start + L ELSE 0
    BY <2>1, MaxOfTwo
  <2>3. QED
    BY <1>2, <2>1, <2>2 DEF Counted
<1>6. to \in Int /\ b = (IF to + 1 <= L THEN to + 1 ELSE L)
  BY <1>2 DEF Counted
<1>7. n = b - from
  <2>1. to \in Int /\ L - 1 \in Int
    BY <1>2, <1>6
  <2> HIDE DEF to
  <2>2. Min({to, L - 1}) = IF to <= L - 1 THEN to ELSE L - 1
    BY <2>1, MinOfTwo
  <2> HIDE DEF from, b
  <2>3. QED
    BY <1>2, <1>5, <1>6, <2>2
<1> HIDE DEF from, to, a, b, n, v, first
<1>8. CASE from > to \/ from >= L
  <2>1. b < a + 1 /\ a \in Nat /\ b \in Int
    BY <1>2, <1>5, <1>6, <1>8
  <2>2. SubSeq(v, a + 1, b) = <<>>
    BY <2>1
  <2>3. QED
    BY <1>3, <1>4, <1>8, <2>2 DEF v
<1>9. CASE ~(from > to \/ from >= L)
  <2>1. /\ from + 1 \in Nat \ {0} /\ n \in Nat /\ from + 1 + n - 1 <= L
        /\ from + 1 + n - 1 = b /\ L > 0 /\ from < L
    BY <1>2, <1>5, <1>6, <1>7, <1>9
  <2>2. Begins(p, first, reverse, from + 1)
    <3>1. CASE from > 0
      <4>1. first = element
        BY <3>1 DEF first
      <4>2. number \in 0..L /\ number > 0
        BY <1>2, <1>5, <2>1
      <4>3. element \in DOMAIN zsl.node /\ p[element] = number
        <5> HIDE DEF number
        <5>1. QED
          BY <1>1, <4>2, ElementFound
      <4> HIDE DEF element
      <4>4. element \in Nodes(zsl)
        BY <1>2, <4>2, <4>3
      <4>5. number = IF reverse THEN L - (from + 1) + 1 ELSE from + 1
        BY <1>2, <1>5
      <4>6. QED
        BY <4>1, <4>3, <4>4, <4>5 DEF Begins
    <3>2. CASE ~(from > 0)
      <4> DEFINE f == zsl.node[Header].forward[1]
      <4>1. from = 0 /\ first = head
        BY <1>5, <3>2 DEF first
      <4>2. zsl.tail \in Nodes(zsl) /\ p[zsl.tail] = L
        BY <1>1, <1>2, <2>1 DEF SkipList, BackFits
      <4>3. IF p[Header] = zsl.length THEN f = Nil ELSE f \in Nodes(zsl) /\ p[f] = p[Header] + 1
        BY <1>1, <1>2, NextEntry
      <4>4. f \in Nodes(zsl) /\ p[f] = 1
        BY <1>2, <2>1, <4>3
      <4> HIDE DEF f
      <4>5. head = IF reverse THEN zsl.tail ELSE f
        BY DEF f
      <4> HIDE DEF head
      <4>6. QED
        BY <1>2, <4>1, <4>2, <4>4, <4>5 DEF Begins
    <3>3. QED
      BY <3>1, <3>2
  <2> DEFINE k == from + 1
  <2>3. k \in Nat \ {0} /\ n \in Nat /\ k + n - 1 <= zsl.length /\ Begins(p, first, reverse, k)
    BY <2>1, <2>2
  <2> HIDE DEF k
  <2>4. Shows(Follow(first, n, reverse), reverse, k, n)
    BY <1>1, <2>3, FollowsView
  <2>5. Follow(first, n, reverse) = SubSeq(View(reverse), k, k + n - 1)
    BY <1>1, <2>3, <2>4, ShowsPart
  <2>6. k = a + 1 /\ k + n - 1 = b
    BY <1>5, <2>1 DEF k
  <2>7. QED
    BY <1>3, <1>4, <1>9, <2>5, <2>6 DEF v
<1>10. QED
  BY <1>8, <1>9

-----------------------------------------------------------------------------
(* Ranges of scores.                                                        *)

\* A range that may have scores in it.
Sound(range) ==
    /\ range.min <= range.max
    /\ range.min = range.max => ~range.minEx /\ ~range.maxEx

\* r entries are before the range and e are not beyond it.
Bounded(p, range, r, e) ==
    /\ r \in 0..zsl.length /\ Ahead(zsl, range) = FirstNodes(zsl, p, r)
    /\ e \in 0..zsl.length /\ Within(zsl, range) = FirstNodes(zsl, p, e)

\* Scores and ends are numbers.
LEMMA ScoresAreInts ==
    ASSUME IInv, NEW range \in Ranges
    PROVE  /\ \A n \in Nodes(zsl) : zsl.node[n].score \in Int
           /\ range.min \in Int /\ range.max \in Int
           /\ range.minEx \in BOOLEAN /\ range.maxEx \in BOOLEAN
<1>1. PICK p : SkipList(zsl, p)
  BY DEF IInv, Holds
<1>2. \A n \in DOMAIN zsl.node : zsl.node[n].score \in Int
  BY <1>1 DEF SkipList, Shaped
<1>3. QED
  BY <1>2, SortedSetAssumption DEF Nodes, Ranges

\* A score within a range shows that it is sound; entries before a sound range
\* are not beyond it.
LEMMA SoundRange ==
    ASSUME IInv, NEW range \in Ranges
    PROVE  /\ \A n \in Nodes(zsl) : GteMin(zsl.node[n].score, range)
                                    /\ LteMax(zsl.node[n].score, range) => Sound(range)
           /\ Sound(range) => \A n \in Nodes(zsl) : \/ GteMin(zsl.node[n].score, range)
                                                    \/ LteMax(zsl.node[n].score, range)
<1>1. /\ \A n \in Nodes(zsl) : zsl.node[n].score \in Int
      /\ range.min \in Int /\ range.max \in Int
      /\ range.minEx \in BOOLEAN /\ range.maxEx \in BOOLEAN
  BY ScoresAreInts
<1>2. ASSUME NEW s \in Int
      PROVE  /\ GteMin(s, range) /\ LteMax(s, range) => Sound(range)
             /\ Sound(range) => GteMin(s, range) \/ LteMax(s, range)
  BY <1>1 DEF GteMin, LteMax, Sound
<1>3. QED
  BY <1>1, <1>2

\* The entries within a range are those with numbers from r + 1 to e.
LEMMA RangeNumbers ==
    ASSUME IInv, NEW p, SkipList(zsl, p), NEW range \in Ranges, NEW r, NEW e,
           Bounded(p, range, r, e)
    PROVE  /\ \A n \in Nodes(zsl) : n \in Map!InRange(range) <=> r < p[n] /\ p[n] <= e
           /\ Sound(range) => r <= e
           /\ ~Sound(range) => Map!InRange(range) = {}
           /\ \A n \in Nodes(zsl) :
                 /\ p[n] <= r <=> IF LargeFirst THEN ~LteMax(zsl.node[n].score, range)
                                  ELSE ~GteMin(zsl.node[n].score, range)
                 /\ p[n] <= e <=> IF LargeFirst THEN GteMin(zsl.node[n].score, range)
                                  ELSE LteMax(zsl.node[n].score, range)
<1>1. /\ zsl.length \in Nat /\ p[Header] = 0 /\ r \in 0..zsl.length /\ e \in 0..zsl.length
      /\ DOMAIN zsl.node = Nodes(zsl) \union {Header}
      /\ \A n \in Nodes(zsl) : p[n] \in 1..zsl.length
      /\ \A t \in 0..zsl.length : \E n \in DOMAIN zsl.node : p[n] = t
  BY Numbers1 DEF SkipList, Numbered, Bounded
<1>2. ASSUME NEW n \in Nodes(zsl)
      PROVE  /\ p[n] <= r <=> IF LargeFirst THEN ~LteMax(zsl.node[n].score, range)
                              ELSE ~GteMin(zsl.node[n].score, range)
             /\ p[n] <= e <=> IF LargeFirst THEN GteMin(zsl.node[n].score, range)
                              ELSE LteMax(zsl.node[n].score, range)
  <2>1. n \in Ahead(zsl, range) <=> p[n] <= r
    BY DEF Bounded, FirstNodes
  <2>2. n \in Within(zsl, range) <=> p[n] <= e
    BY DEF Bounded, FirstNodes
  <2>3. QED
    BY <2>1, <2>2 DEF Ahead, Within
<1>3. /\ Map!Present = Nodes(zsl) /\ \A n \in Nodes(zsl) : zsl.node[n].score = dict[n]
  BY OrderFound DEF IInv, Holds
<1>4. \A n \in Nodes(zsl) : n \in Map!InRange(range)
         <=> GteMin(zsl.node[n].score, range) /\ LteMax(zsl.node[n].score, range)
  BY <1>3 DEF Map!InRange, GteMin, LteMax
<1>5. \A n \in Nodes(zsl) : n \in Map!InRange(range) <=> r < p[n] /\ p[n] <= e
  <2>1. LargeFirst \in BOOLEAN
    BY SortedSetAssumption
  <2>2. ASSUME NEW n \in Nodes(zsl)
        PROVE  GteMin(zsl.node[n].score, range) /\ LteMax(zsl.node[n].score, range)
               <=> ~(p[n] <= r) /\ p[n] <= e
    <3>1. CASE LargeFirst
      BY <1>2, <3>1
    <3>2. CASE ~LargeFirst
      BY <1>2, <3>2
    <3>3. QED
      BY <3>1, <3>2
  <2>3. \A n \in Nodes(zsl) : ~(p[n] <= r) <=> r < p[n]
    BY <1>1
  <2>4. QED
    BY <1>4, <2>2, <2>3
<1>6. ~Sound(range) => Map!InRange(range) = {}
  <2>1. Map!InRange(range) \subseteq Nodes(zsl)
    BY <1>3 DEF Map!InRange
  <2>2. QED
    BY <1>4, <2>1, SoundRange
<1>7. ASSUME Sound(range), r > e PROVE FALSE
  <2>1. PICK n \in DOMAIN zsl.node : p[n] = r
    BY <1>1
  <2>2. n \in Nodes(zsl) /\ p[n] <= r /\ ~(p[n] <= e)
    BY <1>1, <1>7, <2>1
  <2>3. GteMin(zsl.node[n].score, range) \/ LteMax(zsl.node[n].score, range)
    BY <1>7, <2>2, SoundRange
  <2>4. QED
    BY <1>2, <2>2, <2>3
<1>8. QED
  BY <1>1, <1>2, <1>5, <1>6, <1>7

\* zslIsInRange: some entry is not before the range and some is not beyond it.
LEMMA IsInRangeFound ==
    ASSUME IInv, NEW p, SkipList(zsl, p), NEW range \in Ranges, NEW r, NEW e,
           Bounded(p, range, r, e)
    PROVE  IsInRange(range) <=> Sound(range) /\ e > 0 /\ r < zsl.length
<1> DEFINE L == zsl.length
           first == zsl.node[Header].forward[1]
           tail == zsl.tail
           G(n) == GteMin(zsl.node[n].score, range)
           T(n) == LteMax(zsl.node[n].score, range)
<1>1. /\ L \in Nat /\ r \in 0..L /\ e \in 0..L /\ Nil \notin Nodes(zsl)
      /\ p[Header] = 0 /\ Header \in DOMAIN zsl.node
  BY Numbers1 DEF Bounded
<1>2. IF p[Header] = L THEN first = Nil ELSE first \in Nodes(zsl) /\ p[first] = p[Header] + 1
  BY <1>1, NextEntry
<1>3. L # 0 => tail \in Nodes(zsl) /\ p[tail] = L
  BY DEF SkipList, BackFits
<1>4. \A n \in Nodes(zsl) : /\ p[n] <= r <=> IF LargeFirst THEN ~T(n) ELSE ~G(n)
                            /\ p[n] <= e <=> IF LargeFirst THEN G(n) ELSE T(n)
  BY RangeNumbers
<1>5. IsInRange(range) <=> /\ Sound(range) /\ first # Nil
                           /\ IF LargeFirst THEN G(first) /\ T(tail) ELSE G(tail) /\ T(first)
  BY DEF IsInRange, Sound
<1> HIDE DEF G, T, first, tail
<1>6. CASE L = 0
  BY <1>1, <1>2, <1>5, <1>6
<1>7. CASE L # 0
  <2>1. /\ first \in Nodes(zsl) /\ p[first] = 1 /\ first # Nil
        /\ tail \in Nodes(zsl) /\ p[tail] = L
    BY <1>1, <1>2, <1>3, <1>7
  <2>2. /\ L <= r <=> IF LargeFirst THEN ~T(tail) ELSE ~G(tail)
        /\ 1 <= e <=> IF LargeFirst THEN G(first) ELSE T(first)
    BY <1>4, <2>1
  <2>3. /\ e > 0 <=> 1 <= e
        /\ r < L <=> ~(L <= r)
    BY <1>1
  <2>4. (IF LargeFirst THEN G(first) /\ T(tail) ELSE G(tail) /\ T(first))
        <=> 1 <= e /\ ~(L <= r)
    BY <2>2
  <2>5. QED
    BY <1>5, <2>1, <2>3, <2>4
<1>8. QED
  BY <1>6, <1>7

\* A range in which there may be entries: it has none if r = e.
Occupied(range, r, e) ==
    Sound(range) /\ e > 0 /\ r < zsl.length /\ (LargeFirst \/ r < e)

\* zslFirstInRange and zslLastInRange find entries number r + 1 and e.
LEMMA EndsFound ==
    ASSUME IInv, NEW p, SkipList(zsl, p), NEW range \in Ranges, NEW r, NEW e,
           Bounded(p, range, r, e)
    PROVE  IF Occupied(range, r, e)
           THEN /\ FirstInRange(range) \in Nodes(zsl) /\ p[FirstInRange(range)] = r + 1
                /\ LastInRange(range) \in Nodes(zsl) /\ p[LastInRange(range)] = e
           ELSE FirstInRange(range) = Nil
<1> DEFINE L == zsl.length
           path == Path(zsl, Ahead(zsl, range))
           end == Path(zsl, Within(zsl, range))
           at == AtOf(path)
           x == zsl.node[path[1].at].forward[1]
           y == end[1].at
           G(n) == GteMin(zsl.node[n].score, range)
           T(n) == LteMax(zsl.node[n].score, range)
<1>1. /\ L \in Nat /\ r \in 0..L /\ e \in 0..L /\ p[Header] = 0
      /\ DOMAIN zsl.node = Nodes(zsl) \union {Header}
      /\ 1 \in 1..zsl.level
  BY Numbers1 DEF Bounded
<1>2. p[path[1].at] = r /\ path[1].at \in DOMAIN zsl.node
  <2>1. path = Path(zsl, FirstNodes(zsl, p, r))
    BY DEF Bounded
  <2> HIDE DEF path
  <2>2. path[1] \in Stops(zsl, p, 1, r)
    BY <1>1, <2>1, PathStops
  <2>3. LastUpTo(zsl, p, 1, path[1].at, r)
    BY <2>2 DEF Stops
  <2>4. QED
    BY <1>1, <2>3, LowestLevel DEF LastUpTo
<1>3. y \in DOMAIN zsl.node /\ p[y] = e
  <2>1. end = Path(zsl, FirstNodes(zsl, p, e))
    BY DEF Bounded
  <2> HIDE DEF end
  <2>2. end[1] \in Stops(zsl, p, 1, e)
    BY <1>1, <2>1, PathStops
  <2>3. LastUpTo(zsl, p, 1, end[1].at, e)
    BY <2>2 DEF Stops
  <2>4. QED
    BY <1>1, <2>3, LowestLevel DEF LastUpTo
<1> HIDE DEF path, end
<1>4. IF r = L THEN x = Nil ELSE x \in Nodes(zsl) /\ p[x] = r + 1
  BY <1>2, NextEntry
<1>5. FirstInRange(range) = IF IsInRange(range) /\ T(x) THEN x ELSE Nil
  BY DEF FirstInRange, path
<1>6. LastInRange(range) = IF IsInRange(range) /\ G(y) THEN y ELSE Nil
  BY DEF LastInRange, end
<1>7. IsInRange(range) <=> Sound(range) /\ e > 0 /\ r < L
  BY IsInRangeFound
<1>8. \A n \in Nodes(zsl) : /\ p[n] <= r <=> IF LargeFirst THEN ~T(n) ELSE ~G(n)
                            /\ p[n] <= e <=> IF LargeFirst THEN G(n) ELSE T(n)
  BY RangeNumbers
<1>9. Sound(range) => r <= e
  BY RangeNumbers
<1> HIDE DEF G, T, x, y
<1>10. CASE ~IsInRange(range)
  <2>1. ~Occupied(range, r, e)
    BY <1>7, <1>10 DEF Occupied
  <2>2. QED
    BY <1>5, <1>10, <2>1
<1>11. CASE IsInRange(range)
  <2>1. x \in Nodes(zsl) /\ p[x] = r + 1 /\ y \in Nodes(zsl) /\ p[y] = e
    BY <1>1, <1>3, <1>4, <1>7, <1>11
  <2>2. T(x) <=> LargeFirst \/ r < e
    <3>1. /\ r + 1 <= r <=> IF LargeFirst THEN ~T(x) ELSE ~G(x)
          /\ r + 1 <= e <=> IF LargeFirst THEN G(x) ELSE T(x)
      BY <1>8, <2>1
    <3>2. ~(r + 1 <= r) /\ (r + 1 <= e <=> r < e)
      BY <1>1
    <3>3. QED
      BY <3>1, <3>2
  <2>3. G(y) <=> LargeFirst \/ r < e
    <3>1. /\ e <= r <=> IF LargeFirst THEN ~T(y) ELSE ~G(y)
          /\ e <= e <=> IF LargeFirst THEN G(y) ELSE T(y)
      BY <1>8, <2>1
    <3>2. e <= e /\ (e <= r <=> ~(r < e))
      BY <1>1
    <3>3. QED
      BY <3>1, <3>2
  <2>4. Occupied(range, r, e) <=> LargeFirst \/ r < e
    BY <1>7, <1>11 DEF Occupied
  <2>5. QED
    BY <1>5, <1>6, <1>11, <2>1, <2>2, <2>3, <2>4
<1>12. QED
  BY <1>10, <1>11

\* What is found of a range: the entries r + 1 to e, and how many they are.
Found(range, r, e) ==
    /\ RangeByScore(range) = SubSeq(Map!Order, r + 1, e)
    /\ Count(range) = e - r

\* In a range that may have entries the part from one end to the other is found.
LEMMA OccupiedFound ==
    ASSUME IInv, NEW p, SkipList(zsl, p), NEW range \in Ranges, NEW r, NEW e,
           Bounded(p, range, r, e), Occupied(range, r, e)
    PROVE  Found(range, r, e) /\ r <= e
<1> DEFINE L == zsl.length
           first == FirstInRange(range)
           last == LastInRange(range)
<1>1. /\ L \in Nat /\ r \in 0..L /\ e \in 0..L /\ Nil \notin Nodes(zsl)
  BY Numbers1 DEF Bounded
<1>2. /\ first \in Nodes(zsl) /\ p[first] = r + 1
      /\ last \in Nodes(zsl) /\ p[last] = e
  BY EndsFound
<1>3. r <= e /\ e > 0
  BY RangeNumbers DEF Occupied
<1>4. Count(range) = IF first = Nil THEN 0
                     ELSE IF last = Nil THEN L - RankOf(first)
                     ELSE RankOf(last) - RankOf(first) + 1
  BY DEF Count
<1>5. RangeByScore(range) =
         IF first = Nil THEN <<>>
         ELSE CommonRange(RankOf(first) - 1, IF last = Nil THEN -1 ELSE RankOf(last) - 1, FALSE)
  BY DEF RangeByScore
<1> HIDE DEF first, last
<1>6. RankOf(first) = r + 1 /\ RankOf(last) = e
  BY <1>2, RankFound DEF RankOf
<1>7. first # Nil /\ last # Nil
  BY <1>1, <1>2
<1>8. Count(range) = e - r
  BY <1>1, <1>4, <1>6, <1>7
<1>9. RangeByScore(range) = CommonRange(r, e - 1, FALSE)
  <2>1. RankOf(first) - 1 = r
    BY <1>1, <1>6
  <2>2. QED
    BY <1>5, <1>6, <1>7, <2>1
<1>10. \A reverse \in BOOLEAN : CommonRange(r, e - 1, reverse) = SubSeq(View(reverse), r + 1, e)
  <2> SUFFICES ASSUME NEW reverse \in BOOLEAN
               PROVE  CommonRange(r, e - 1, reverse) = SubSeq(View(reverse), r + 1, e)
    OBVIOUS
  <2>1. r \in Int /\ e - 1 \in Int
    BY <1>1
  <2>2. CommonRange(r, e - 1, reverse) = Slice(View(reverse), r, e - 1)
    BY <2>1, RangeFound
  <2>3. Slice(View(reverse), r, e - 1)
           = SubSeq(View(reverse), (IF Counted(r) >= 0 THEN Counted(r) ELSE 0) + 1,
                    IF Counted(e - 1) + 1 <= zsl.length THEN Counted(e - 1) + 1
                    ELSE zsl.length)
    BY <2>1, SliceFound
  <2>4. Counted(r) = r /\ Counted(e - 1) = e - 1 /\ e - 1 + 1 = e /\ r >= 0 /\ e <= L
    BY <1>1, <1>3 DEF Counted
  <2>5. QED
    BY <2>2, <2>3, <2>4
<1>11. View(FALSE) = Map!Order
  BY DEF View
<1>12. QED
  BY <1>3, <1>8, <1>9, <1>10, <1>11 DEF Found

\* The entries of a part of the order.
LEMMA PartOfOrder ==
    ASSUME IInv, NEW p, SkipList(zsl, p), NEW r \in 0..zsl.length, NEW e \in 0..zsl.length,
           r <= e
    PROVE  LET q == SubSeq(Map!Order, r + 1, e) IN
           /\ Len(q) = e - r
           /\ {q[i] : i \in DOMAIN q} = {n \in Nodes(zsl) : r < p[n] /\ p[n] <= e}
<1> DEFINE L == zsl.length
           order == Map!Order
           q == SubSeq(order, r + 1, e)
<1>1. /\ L \in Nat /\ \A n \in Nodes(zsl) : p[n] \in 1..L
      /\ \A m, n \in DOMAIN zsl.node : p[m] = p[n] => m = n
      /\ Nodes(zsl) \subseteq DOMAIN zsl.node
  BY Numbers1 DEF SkipList, Numbered
<1>2. \A i \in 1..L : order[i] \in Nodes(zsl) /\ p[order[i]] = i
  BY OrderFound DEF IInv
<1> HIDE DEF order
<1>3. q = [i \in 1..(e - r) |-> order[r + i]]
  <2>1. q = [i \in 1..(1 + e - (r + 1)) |-> order[r + 1 + i - 1]]
    BY <1>1
  <2>2. 1 + e - (r + 1) = e - r
    BY <1>1
  <2>3. \A i \in 1..(e - r) : r + 1 + i - 1 = r + i
    BY <1>1
  <2> HIDE DEF q
  <2>4. QED
    BY <2>1, <2>2, <2>3
<1> HIDE DEF q
<1>4. DOMAIN q = 1..(e - r) /\ Len(q) = e - r
  BY <1>1, <1>3
<1>5. ASSUME NEW i \in 1..(e - r)
      PROVE  q[i] \in Nodes(zsl) /\ r < p[q[i]] /\ p[q[i]] <= e
  <2>1. r + i \in 1..L /\ r < r + i /\ r + i <= e /\ q[i] = order[r + i]
    BY <1>1, <1>3
  <2>2. QED
    BY <1>2, <2>1
<1>6. ASSUME NEW n \in Nodes(zsl), r < p[n], p[n] <= e
      PROVE  \E i \in 1..(e - r) : q[i] = n
  <2>1. p[n] - r \in 1..(e - r) /\ r + (p[n] - r) = p[n] /\ p[n] \in 1..L
    BY <1>1, <1>6
  <2>2. q[p[n] - r] = order[p[n]]
    BY <1>3, <2>1
  <2>3. order[p[n]] = n
    BY <1>1, <1>2, <2>1
  <2>4. QED
    BY <2>1, <2>2, <2>3
<1>7. {q[i] : i \in DOMAIN q} = {n \in Nodes(zsl) : r < p[n] /\ p[n] <= e}
  BY <1>4, <1>5, <1>6
<1>8. QED
  BY <1>4, <1>7 DEF q, order

\* Count and RangeByScore find the entries within the range.
LEMMA ScoresAgree ==
    ASSUME IInv, NEW range \in Ranges
    PROVE  LET found == RangeByScore(range) IN
           /\ \E i, j \in 0..zsl.length : found = SubSeq(Map!Order, i + 1, j)
           /\ {found[i] : i \in DOMAIN found} = Map!InRange(range)
           /\ Count(range) = Len(found)
<1>1. PICK p : SkipList(zsl, p)
  BY DEF IInv, Holds
<1>2. PICK r, e : Bounded(p, range, r, e)
  <2>1. PICK r \in 0..zsl.length : Ahead(zsl, range) = FirstNodes(zsl, p, r)
    BY <1>1, RangeBounds
  <2>2. PICK e \in 0..zsl.length : Within(zsl, range) = FirstNodes(zsl, p, e)
    BY <1>1, RangeBounds
  <2>3. QED
    BY <2>1, <2>2 DEF Bounded
<1>3. /\ zsl.length \in Nat /\ r \in 0..zsl.length /\ e \in 0..zsl.length
      /\ \A n \in Nodes(zsl) : p[n] \in 1..zsl.length
  BY <1>1, <1>2, Numbers1 DEF Bounded
<1>4. Map!InRange(range) = {n \in Nodes(zsl) : r < p[n] /\ p[n] <= e}
  <2>1. Map!InRange(range) \subseteq Nodes(zsl)
    BY <1>1, OrderFound DEF IInv, Map!InRange
  <2>2. \A n \in Nodes(zsl) : n \in Map!InRange(range) <=> r < p[n] /\ p[n] <= e
    BY <1>1, <1>2, RangeNumbers
  <2>3. QED
    BY <2>1, <2>2
<1>5. CASE Occupied(range, r, e)
  <2>1. Found(range, r, e) /\ r <= e
    BY <1>1, <1>2, <1>5, OccupiedFound
  <2> DEFINE q == SubSeq(Map!Order, r + 1, e)
  <2>2. Len(q) = e - r /\ {q[i] : i \in DOMAIN q} = {n \in Nodes(zsl) : r < p[n] /\ p[n] <= e}
    BY <1>1, <1>3, <2>1, PartOfOrder
  <2>3. RangeByScore(range) = q /\ Count(range) = e - r
    BY <2>1 DEF Found
  <2>4. \E i, j \in 0..zsl.length : q = SubSeq(Map!Order, i + 1, j)
    BY <1>3
  <2> HIDE DEF q
  <2>5. QED
    BY <1>4, <2>2, <2>3, <2>4
<1>6. CASE ~Occupied(range, r, e)
  <2>1. FirstInRange(range) = Nil
    BY <1>1, <1>2, <1>6, EndsFound
  <2>2. RangeByScore(range) = <<>> /\ Count(range) = 0
    BY <2>1 DEF RangeByScore, Count
  <2>3. Map!InRange(range) = {}
    <3>1. CASE ~Sound(range)
      BY <1>1, <1>2, <3>1, RangeNumbers
    <3>2. CASE Sound(range)
      <4>1. ~(e > 0) \/ ~(r < zsl.length) \/ ~(r < e)
        BY <1>6, <3>2 DEF Occupied
      <4>2. QED
        BY <1>3, <1>4, <4>1
    <3>3. QED
      BY <3>1, <3>2
  <2>4. SubSeq(Map!Order, 0 + 1, 0) = <<>> /\ 0 \in 0..zsl.length
    BY <1>3
  <2>5. \E i, j \in 0..zsl.length : RangeByScore(range) = SubSeq(Map!Order, i + 1, j)
    BY <2>2, <2>4
  <2> DEFINE found == RangeByScore(range)
  <2>6. found = <<>>
    BY <2>2
  <2> HIDE DEF found
  <2>7. {found[i] : i \in DOMAIN found} = {} /\ Len(found) = 0
    BY <2>6
  <2>8. QED
    BY <2>2, <2>3, <2>5, <2>7 DEF found
<1>7. QED
  BY <1>5, <1>6

\* What the queries find is what the order says.
LEMMA QueriesHold == ASSUME IInv PROVE QueriesAgree
<1> DEFINE order == Map!Order
           list(reverse) == IF reverse THEN Reverse(order) ELSE order
<1>1. PICK p : SkipList(zsl, p)
  BY DEF IInv, Holds
<1>2. /\ zsl.length \in Nat /\ DOMAIN order = 1..zsl.length
      /\ \A i \in Numbers : i \in Int
  <2>1. order = [i \in 1..zsl.length |-> order[i]]
    BY <1>1, OrderFound DEF IInv
  <2> HIDE DEF order
  <2>2. zsl.length \in Nat /\ DOMAIN order = 1..zsl.length
    BY <1>1, <2>1, Numbers1
  <2>3. QED
    BY <2>2 DEF Numbers
<1>3. \A reverse \in BOOLEAN : list(reverse) = View(reverse)
  BY DEF View
<1>4. \A k \in Present : \A reverse \in BOOLEAN :
         GetDataByRank(Rank(k, reverse), reverse) = k /\ order[Rank(k, FALSE) + 1] = k
  BY RanksAgree
<1> HIDE DEF order, list
<1>5. ASSUME NEW i \in -1..zsl.length, NEW reverse \in BOOLEAN
      PROVE  GetDataByRank(i, reverse)
                = IF i + 1 \in DOMAIN order THEN list(reverse)[i + 1] ELSE Nil
  <2>1. CASE i = -1
    <3>1. i \notin 0..zsl.length /\ i + 1 \notin DOMAIN order
      BY <1>2, <2>1
    <3>2. GetDataByRank(i, reverse) = Nil
      BY <3>1 DEF GetDataByRank
    <3>3. QED
      BY <3>1, <3>2
  <2>2. CASE i # -1
    <3>1. i \in 0..zsl.length /\ (i + 1 \in DOMAIN order <=> i < zsl.length)
      BY <1>2, <2>2
    <3>2. GetDataByRank(i, reverse) = IF i < zsl.length THEN View(reverse)[i + 1] ELSE Nil
      BY <1>1, <3>1, DataFound
    <3>3. QED
      BY <1>3, <3>1, <3>2
  <2>3. QED
    BY <2>1, <2>2
<1>6. \A range \in Ranges :
         LET found == RangeByScore(range) IN
         /\ \E i, j \in 0..zsl.length : found = SubSeq(order, i + 1, j)
         /\ {found[i] : i \in DOMAIN found} = Map!InRange(range)
         /\ Count(range) = Len(found)
  BY ScoresAgree DEF order
<1>7. \A i, j \in Int, reverse \in BOOLEAN :
         CommonRange(i, j, reverse) = Slice(list(reverse), i, j)
  BY <1>3, RangeFound
<1>8. \A i, j \in Numbers, reverse \in BOOLEAN :
         CommonRange(i, j, reverse) = Slice(list(reverse), i, j)
  BY <1>2, <1>7
<1>9. \A i \in 0..zsl.length, reverse \in BOOLEAN :
         CommonIterator(i, -1, reverse) = Slice(list(reverse), i, -1)
  <2>1. -1 \in Int /\ \A i \in 0..zsl.length : i \in Int
    BY <1>2
  <2>2. QED
    BY <1>7, <2>1 DEF CommonIterator
<1>10. QED
  BY <1>4, <1>5, <1>6, <1>8, <1>9 DEF QueriesAgree, order, list

\* Ranks, entries by rank, and ranges of ranks and of scores are found as the
\* map's order has them.
THEOREM QueriesRight == Spec => []QueriesAgree
  BY Invariance, QueriesHold, PTL

-----------------------------------------------------------------------------
(* The pages of the leaderboard.                                            *)

\* A page up to the last: the entries from the one after the first a on, and the
\* first of the next page.
LEMMA PageFound ==
    ASSUME IInv, NEW page \in 0..TotalPage, NEW a \in Nat, a = page * NumPerPage
    PROVE  LET e == IF a + NumPerPage + 1 <= zsl.length THEN a + NumPerPage + 1
                    ELSE zsl.length
           IN Page(page) = [i \in 1..(e - a) |-> Map!Order[a + i]]
<1> DEFINE e == IF a + NumPerPage + 1 <= zsl.length THEN a + NumPerPage + 1
                ELSE zsl.length
           order == Map!Order
<1>1. PICK p : SkipList(zsl, p)
  BY DEF IInv, Holds
<1>2. zsl.length \in Nat /\ NumPerPage \in Nat \ {0}
  BY <1>1, Numbers1, SortedSetAssumption
<1>3. TotalPage \in Int
  BY <1>2 DEF TotalPage
<1>4. ~(page > TotalPage)
  BY <1>3
<1>5. Page(page) = CommonRange(a, a + NumPerPage, FALSE)
  BY <1>4 DEF Page
<1>6. \A reverse \in BOOLEAN :
         CommonRange(a, a + NumPerPage, reverse) = SubSeq(View(reverse), a + 1, e)
  <2> SUFFICES ASSUME NEW reverse \in BOOLEAN
               PROVE  CommonRange(a, a + NumPerPage, reverse) = SubSeq(View(reverse), a + 1, e)
    OBVIOUS
  <2> DEFINE b == a + NumPerPage
  <2>1. a \in Int /\ b \in Int
    BY <1>2
  <2>2. a >= 0 /\ ~(a < 0) /\ ~(b < 0) /\ b + 1 = a + NumPerPage + 1
    BY <1>2
  <2> HIDE DEF b
  <2>3. CommonRange(a, b, reverse) = Slice(View(reverse), a, b)
    BY <2>1, RangeFound
  <2>4. Slice(View(reverse), a, b)
           = SubSeq(View(reverse), (IF Counted(a) >= 0 THEN Counted(a) ELSE 0) + 1,
                    IF Counted(b) + 1 <= zsl.length THEN Counted(b) + 1 ELSE zsl.length)
    BY <1>1, <2>1, SliceFound
  <2>5. Counted(a) = a /\ Counted(b) = b
    BY <2>2 DEF Counted
  <2>6. QED
    BY <2>2, <2>3, <2>4, <2>5 DEF b
<1>7. View(FALSE) = order
  BY DEF View
<1>8. Page(page) = SubSeq(order, a + 1, e)
  BY <1>5, <1>6, <1>7
<1>9. e \in Int
  BY <1>2
<1> HIDE DEF order, e
<1>10. SubSeq(order, a + 1, e) = [i \in 1..(e - a) |-> order[a + i]]
  <2>1. SubSeq(order, a + 1, e) = [i \in 1..(1 + e - (a + 1)) |-> order[a + 1 + i - 1]]
    BY <1>9
  <2>2. 1 + e - (a + 1) = e - a
    BY <1>9
  <2>3. \A i \in 1..(e - a) : a + 1 + i - 1 = a + i
    BY <1>9
  <2>4. QED
    BY <2>1, <2>2, <2>3
<1>11. QED
  BY <1>8, <1>10 DEF order, e

\* Each number is on a page.
LEMMA OnSomePage ==
    ASSUME NEW L \in Nat, NEW N \in Nat \ {0}, NEW m \in 1..L
    PROVE  \E page \in 0..((L + N - 1) \div N - 1) : page * N < m /\ m <= page * N + N
<1> DEFINE page == (m - 1) \div N
<1>1. page \in Nat
  OBVIOUS
<1>2. page * N <= m - 1 /\ m - 1 < page * N + N
  OBVIOUS
<1>3. page < (L + N - 1) \div N
  OBVIOUS
<1>4. (L + N - 1) \div N \in Int /\ page * N \in Int
  OBVIOUS
<1> HIDE DEF page
<1>5. page \in 0..((L + N - 1) \div N - 1)
  BY <1>1, <1>3, <1>4
<1>6. page * N < m /\ m <= page * N + N
  BY <1>2, <1>4
<1>7. QED
  BY <1>5, <1>6

\* The pages show every entry, each under its own rank.
LEMMA PagesHold == ASSUME IInv PROVE PagesCoverBoard
<1> DEFINE order == Map!Order
           N == NumPerPage
           L == zsl.length
           shown(page) == {page * N + i : i \in DOMAIN Page(page)}
<1>1. PICK p : SkipList(zsl, p)
  BY DEF IInv, Holds
<1>2. L \in Nat /\ N \in Nat \ {0}
  BY <1>1, Numbers1, SortedSetAssumption
<1>3. DOMAIN order = 1..L
  BY <1>1, OrderFound DEF IInv
<1>4. TotalPage \in Int /\ TotalPage = (L + N - 1) \div N
  BY <1>2 DEF TotalPage
<1>5. ASSUME NEW page \in 0..TotalPage
      PROVE  /\ page * N \in Nat
             /\ DOMAIN Page(page) = {i \in Nat \ {0} : page * N + i <= page * N + N + 1
                                                        /\ page * N + i <= L}
             /\ \A i \in DOMAIN Page(page) : Page(page)[i] = order[page * N + i]
  <2>1. PICK a \in Nat : a = page * N
    BY <1>2, <1>4
  <2> DEFINE e == IF a + NumPerPage + 1 <= zsl.length THEN a + NumPerPage + 1
                  ELSE zsl.length
  <2>2. Page(page) = [i \in 1..(e - a) |-> order[a + i]]
    BY <2>1, PageFound
  <2>3. \A i \in Int : i \in 1..(e - a) <=> i \in Nat \ {0} /\ a + i <= a + N + 1 /\ a + i <= L
    BY <1>2
  <2> HIDE DEF e, order
  <2>4. DOMAIN Page(page) = 1..(e - a)
        /\ \A i \in 1..(e - a) : Page(page)[i] = order[a + i]
    BY <2>2
  <2>5. 1..(e - a) = {i \in Nat \ {0} : a + i <= a + N + 1 /\ a + i <= L}
    BY <2>3
  <2>6. QED
    BY <2>1, <2>4, <2>5
<1> HIDE DEF order, N, L
<1>6. ASSUME NEW page \in 0..(TotalPage - 1), NEW m \in shown(page) PROVE m \in 1..L
  <2>1. page \in 0..TotalPage
    BY <1>4
  <2>2. page * N \in Nat
    BY <1>5, <2>1
  <2>3. PICK i \in DOMAIN Page(page) : m = page * N + i
    BY <1>6
  <2>4. i \in Nat \ {0} /\ page * N + i <= L
    BY <1>5, <2>1, <2>3
  <2>5. QED
    BY <1>2, <2>2, <2>3, <2>4
<1>7. ASSUME NEW m \in 1..L PROVE \E page \in 0..(TotalPage - 1) : m \in shown(page)
  <2>1. \E page \in 0..((L + N - 1) \div N - 1) : page * N < m /\ m <= page * N + N
    BY <1>2, OnSomePage
  <2>2. PICK page \in 0..(TotalPage - 1) : page * N < m /\ m <= page * N + N
    BY <1>4, <2>1
  <2>3. page \in 0..TotalPage
    BY <1>4
  <2>4. page * N \in Nat
    BY <1>5, <2>3
  <2>5. PICK i \in Nat \ {0} : page * N + i = m
    <3>1. m - page * N \in Nat \ {0} /\ page * N + (m - page * N) = m
      BY <1>2, <2>2, <2>4
    <3>2. QED
      BY <3>1
  <2>6. page * N + i <= page * N + N + 1 /\ page * N + i <= L
    BY <1>2, <2>2, <2>4, <2>5
  <2>7. i \in DOMAIN Page(page)
    BY <1>5, <2>3, <2>6
  <2>8. QED
    BY <2>5, <2>7
<1>8. UNION {shown(page) : page \in 0..(TotalPage - 1)} = DOMAIN order
  <2> HIDE DEF shown
  <2>1. QED
    BY <1>3, <1>6, <1>7
<1>9. ASSUME NEW page \in 0..(TotalPage + 1), NEW i \in DOMAIN Page(page)
      PROVE  Page(page)[i] = order[page * N + i]
  <2>1. CASE page > TotalPage
    <3>1. Page(page) = <<>>
      BY <2>1 DEF Page
    <3>2. QED
      BY <1>9, <3>1
  <2>2. CASE ~(page > TotalPage)
    <3>1. page \in 0..TotalPage
      BY <1>4, <2>2
    <3>2. QED
      BY <1>5, <1>9, <3>1
  <2>3. QED
    BY <2>1, <2>2
<1>10. QED
  BY <1>8, <1>9 DEF PagesCoverBoard, order, N

\* Page after page, a client sees every entry, and each under its own rank.
THEOREM PagesRight == Spec => []PagesCoverBoard
  BY Invariance, PagesHold, PTL
===============================================================================
