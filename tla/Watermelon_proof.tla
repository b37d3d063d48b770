--------------------------- MODULE Watermelon_proof ---------------------------
(***************************************************************************)
(* Proofs about Watermelon, for any levels, points, weights, initial       *)
(* fruits and bounds that its assumption admits.                           *)
(*                                                                         *)
(* After and Worth are recursive functions and Max is a CHOOSE; what is    *)
(* known of them is proved by looking at the least number for which it     *)
(* would fail.                                                             *)
(***************************************************************************)
EXTENDS Watermelon, FiniteSetTheorems, SequenceTheorems, WellFoundedInduction, TLAPS

\* The constants as numbers.
LEMMA Bounds ==
    /\ MaxLevel \in Nat /\ MaxLevel # 0 /\ MaxFalls \in Nat /\ NextMaxCnt \in Nat
    /\ MaxId \in Nat
<1>1. Len(InitFruit) \in Nat
  BY WatermelonAssumption
<1>2. QED
  BY <1>1, WatermelonAssumption DEF MaxId

USE Bounds

\* A set of numbers that is not empty has a least one.
LEMMA Least ==
    ASSUME NEW T, T \subseteq Nat, T # {}
    PROVE  \E m \in T : \A n \in T : m <= n
<1>1. PICK m \in T : \A n \in T : ~(<<n, m>> \in OpToRel(<, Nat))
  BY WFMin, NatLessThanWellFounded
<1>2. \A n \in T : ~(n < m)
  BY <1>1 DEF OpToRel
<1>3. QED
  BY <1>2

\* Max of a bounded set of numbers.
LEMMA MaxIsGreatest ==
    ASSUME NEW B \in Nat, NEW S, S \subseteq 0..B, S # {}
    PROVE  Max(S) \in S /\ \A x \in S : x <= Max(S)
<1> DEFINE T == {B - x : x \in S}
<1>1. PICK m \in T : \A n \in T : m <= n
  <2>1. T \subseteq Nat
    OBVIOUS
  <2>2. T # {}
    OBVIOUS
  <2>3. QED
    BY <2>1, <2>2, Least
<1>2. PICK y \in S : m = B - y
  BY <1>1
<1>3. \A x \in S : x <= y
  <2>1. SUFFICES ASSUME NEW x \in S PROVE x <= y
    OBVIOUS
  <2>2. m <= B - x
    BY <1>1
  <2>3. QED
    BY <1>2, <2>2
<1>4. QED
  BY <1>3 DEF Max

\* The boards that merges lead to follow one another as After says: the recursive
\* function that defines it exists.
LEMMA AfterSteps ==
    ASSUME NEW board, NEW merges, Len(merges) \in Nat
    PROVE  /\ After(board, merges)[0] = board
           /\ \A k \in 1..Len(merges) :
                 After(board, merges)[k] = Merge(After(board, merges)[k - 1], merges[k])
<1> DEFINE N       == Len(merges)
           Is(f, n) == f = [k \in 0..n |-> IF k = 0 THEN board
                                           ELSE Merge(f[k - 1], merges[k])]
           Bad     == {n \in 0..N : ~ \E f : Is(f, n)}
<1> HIDE DEF Is
<1>1. \E f : Is(f, N)
  <2>1. SUFFICES ASSUME ~ \E f : Is(f, N) PROVE FALSE
    OBVIOUS
  <2>2. PICK n \in Bad : \A m \in Bad : n <= m
    <3>1. N \in Bad /\ Bad \subseteq Nat
      BY <2>1
    <3>2. QED
      BY <3>1, Least
  <2>3. n # 0
    <3>1. Is([k \in 0..0 |-> board], 0)
      BY DEF Is
    <3>2. QED
      BY <3>1
  <2>4. n - 1 \in 0..N /\ n - 1 \notin Bad
    BY <2>2, <2>3
  <2>5. PICK f : Is(f, n - 1)
    BY <2>4
  <2>6. \E g : Is(g, n)
    <3> DEFINE g == [k \in 0..n |-> IF k = n THEN Merge(f[n - 1], merges[n]) ELSE f[k]]
    <3>1. \A k \in 0..n : k # 0 => g[k - 1] = f[k - 1]
      BY <2>2, <2>3
    <3>2. \A k \in 0..n : g[k] = IF k = 0 THEN board ELSE Merge(g[k - 1], merges[k])
      <4>1. SUFFICES ASSUME NEW k \in 0..n
                     PROVE  g[k] = IF k = 0 THEN board ELSE Merge(g[k - 1], merges[k])
        OBVIOUS
      <4>2. CASE k = n
        BY <2>3, <3>1, <4>2
      <4>3. CASE k # n
        <5>1. k \in 0..n - 1
          BY <4>3, <2>2
        <5>2. g[k] = f[k]
          BY <4>3
        <5>3. f[k] = IF k = 0 THEN board ELSE Merge(f[k - 1], merges[k])
          BY <2>5, <5>1 DEF Is
        <5>4. QED
          BY <3>1, <5>2, <5>3
      <4>4. QED
        BY <4>2, <4>3
    <3>3. Is(g, n)
      BY <3>2 DEF Is
    <3>4. QED
      BY <3>3
  <2>7. QED
    BY <2>2, <2>6
<1> DEFINE b == CHOOSE f : Is(f, N)
<1>2. Is(b, N)
  BY <1>1
<1>3. After(board, merges) = b
  BY DEF After, Is
<1> HIDE DEF b
<1>4. QED
  BY <1>2, <1>3 DEF Is

\* What count[l] merges to level l are worth.
Due(count, l) == Point[l] * count[l]

\* The same for the sum in Worth.
LEMMA WorthSteps ==
    ASSUME NEW count
    PROVE  \E upto : /\ Worth(count) = upto[MaxLevel]
                     /\ upto[0] = 0
                     /\ \A l \in Levels : upto[l] = upto[l - 1] + Due(count, l)
<1> DEFINE Is(f, n) == f = [l \in 0..n |-> IF l = 0 THEN 0
                                           ELSE f[l - 1] + Point[l] * count[l]]
           Bad      == {n \in 0..MaxLevel : ~ \E f : Is(f, n)}
<1> HIDE DEF Is
<1>1. \E f : Is(f, MaxLevel)
  <2>1. SUFFICES ASSUME ~ \E f : Is(f, MaxLevel) PROVE FALSE
    OBVIOUS
  <2>2. PICK n \in Bad : \A m \in Bad : n <= m
    <3>1. MaxLevel \in Bad /\ Bad \subseteq Nat
      BY <2>1
    <3>2. QED
      BY <3>1, Least
  <2>3. n # 0
    <3>1. Is([k \in 0..0 |-> 0], 0)
      BY DEF Is
    <3>2. QED
      BY <3>1
  <2>4. n - 1 \in 0..MaxLevel /\ n - 1 \notin Bad
    BY <2>2, <2>3
  <2>5. PICK f : Is(f, n - 1)
    BY <2>4
  <2>6. \E g : Is(g, n)
    <3> DEFINE g == [k \in 0..n |-> IF k = n THEN f[n - 1] + Point[n] * count[n] ELSE f[k]]
    <3>1. \A k \in 0..n : k # 0 => g[k - 1] = f[k - 1]
      BY <2>2, <2>3
    <3>2. \A k \in 0..n : g[k] = IF k = 0 THEN 0 ELSE g[k - 1] + Point[k] * count[k]
      <4>1. SUFFICES ASSUME NEW k \in 0..n
                     PROVE  g[k] = IF k = 0 THEN 0 ELSE g[k - 1] + Point[k] * count[k]
        OBVIOUS
      <4>2. CASE k = n
        BY <2>3, <3>1, <4>2
      <4>3. CASE k # n
        <5>1. k \in 0..n - 1
          BY <4>3, <2>2
        <5>2. g[k] = f[k]
          BY <4>3
        <5>3. f[k] = IF k = 0 THEN 0 ELSE f[k - 1] + Point[k] * count[k]
          BY <2>5, <5>1 DEF Is
        <5>4. QED
          BY <3>1, <5>2, <5>3
      <4>4. QED
        BY <4>2, <4>3
    <3>3. Is(g, n)
      BY <3>2 DEF Is
    <3>4. QED
      BY <3>3
  <2>7. QED
    BY <2>2, <2>6
<1> DEFINE upto == CHOOSE f : Is(f, MaxLevel)
<1>2. Is(upto, MaxLevel)
  BY <1>1
<1>3. Worth(count) = upto[MaxLevel]
  BY DEF Worth, Is
<1> HIDE DEF upto
<1>4. upto[0] = 0 /\ \A l \in Levels : upto[l] = upto[l - 1] + Due(count, l)
  BY <1>2 DEF Is, Levels, Due
<1>5. QED
  BY <1>3, <1>4

\* The facts of multiplication that are needed, apart from the rest so that the
\* provers see nothing else.
LEMMA Products ==
    \A p, x, y \in Nat : p * x \in Nat /\ p * (x + y) = p * x + p * y
OBVIOUS

\* What merges to a level are worth is a number,
LEMMA DueIsNat ==
    ASSUME NEW count \in [Levels -> Nat], NEW l \in Levels
    PROVE  Due(count, l) \in Nat
<1>1. Point[l] \in Nat /\ count[l] \in Nat
  BY WatermelonAssumption
<1>2. QED
  BY <1>1, Products DEF Due

\* and adds up.
LEMMA DueAdds ==
    ASSUME NEW a \in [Levels -> Nat], NEW b \in [Levels -> Nat], NEW l \in Levels
    PROVE  Due([k \in Levels |-> a[k] + b[k]], l) = Due(a, l) + Due(b, l)
<1>1. PICK p \in Nat, x \in Nat, y \in Nat : p = Point[l] /\ x = a[l] /\ y = b[l]
  BY WatermelonAssumption
<1>2. [k \in Levels |-> a[k] + b[k]][l] = x + y
  BY <1>1
<1>3. p * (x + y) = p * x + p * y
  BY Products
<1>4. QED
  BY <1>1, <1>2, <1>3 DEF Due

\* What merges are worth is a number;
LEMMA WorthIsNat ==
    ASSUME NEW count \in [Levels -> Nat]
    PROVE  Worth(count) \in Nat
<1>1. PICK upto : /\ Worth(count) = upto[MaxLevel]
                  /\ upto[0] = 0
                  /\ \A l \in Levels : upto[l] = upto[l - 1] + Due(count, l)
  BY WorthSteps
<1> DEFINE Bad == {n \in 0..MaxLevel : upto[n] \notin Nat}
<1>2. ASSUME Bad # {} PROVE FALSE
  <2>1. PICK n \in Bad : \A m \in Bad : n <= m
    <3>1. Bad \subseteq Nat
      OBVIOUS
    <3> HIDE DEF Bad
    <3>2. QED
      BY <1>2, <3>1, Least
  <2>2. n # 0
    BY <1>1
  <2>3. n \in Levels /\ n - 1 \in 0..MaxLevel /\ n - 1 \notin Bad
    BY <2>1, <2>2 DEF Levels
  <2>4. PICK x \in Nat, y \in Nat : x = upto[n - 1] /\ y = Due(count, n)
    BY <2>3, DueIsNat
  <2>5. upto[n] = x + y /\ n \in Bad
    BY <1>1, <2>1, <2>3, <2>4
  <2>6. x + y \in Nat
    OBVIOUS
  <2>7. QED
    BY <2>5, <2>6
<1>3. MaxLevel \notin Bad
  BY <1>2
<1>4. QED
  BY <1>1, <1>3

\* that of none is 0;
LEMMA WorthOfNone ==
    Worth([l \in Levels |-> 0]) = 0
<1> DEFINE none == [l \in Levels |-> 0]
<1>1. PICK upto : /\ Worth(none) = upto[MaxLevel]
                  /\ upto[0] = 0
                  /\ \A l \in Levels : upto[l] = upto[l - 1] + Due(none, l)
  BY WorthSteps
<1> DEFINE Bad == {n \in 0..MaxLevel : upto[n] # 0}
<1>2. ASSUME Bad # {} PROVE FALSE
  <2>1. PICK n \in Bad : \A m \in Bad : n <= m
    <3>1. Bad \subseteq Nat
      OBVIOUS
    <3> HIDE DEF Bad
    <3>2. QED
      BY <1>2, <3>1, Least
  <2>2. n # 0
    BY <1>1
  <2>3. n \in Levels /\ n - 1 \in 0..MaxLevel /\ n - 1 \notin Bad
    BY <2>1, <2>2 DEF Levels
  <2>4. Point[n] \in Nat /\ none[n] = 0
    BY <2>3, WatermelonAssumption
  <2>5. upto[n - 1] = 0 /\ Due(none, n) = 0
    BY <2>3, <2>4 DEF Due
  <2>6. QED
    BY <1>1, <2>3, <2>5
<1>3. MaxLevel \notin Bad
  BY <1>2
<1>4. QED
  BY <1>1, <1>3

\* and the worth of two lots of merges is the sum of theirs.
LEMMA WorthAdds ==
    ASSUME NEW a \in [Levels -> Nat], NEW b \in [Levels -> Nat]
    PROVE  Worth([l \in Levels |-> a[l] + b[l]]) = Worth(a) + Worth(b)
<1> DEFINE c == [l \in Levels |-> a[l] + b[l]]
<1>1. PICK u : /\ Worth(a) = u[MaxLevel]
               /\ u[0] = 0 /\ \A l \in Levels : u[l] = u[l - 1] + Due(a, l)
  BY WorthSteps
<1>2. PICK v : /\ Worth(b) = v[MaxLevel]
               /\ v[0] = 0 /\ \A l \in Levels : v[l] = v[l - 1] + Due(b, l)
  BY WorthSteps
<1>3. PICK w : /\ Worth(c) = w[MaxLevel]
               /\ w[0] = 0 /\ \A l \in Levels : w[l] = w[l - 1] + Due(c, l)
  BY WorthSteps
<1>4. \A l \in Levels : Due(a, l) \in Nat /\ Due(b, l) \in Nat
                        /\ Due(c, l) = Due(a, l) + Due(b, l)
  BY DueIsNat, DueAdds
<1> HIDE DEF c
<1> DEFINE Sums(n) == u[n] \in Nat /\ v[n] \in Nat /\ w[n] = u[n] + v[n]
           Bad     == {n \in 0..MaxLevel : ~ Sums(n)}
<1>5. ASSUME Bad # {} PROVE FALSE
  <2>1. PICK n \in Bad : \A m \in Bad : n <= m
    <3>1. Bad \subseteq Nat
      OBVIOUS
    <3> HIDE DEF Bad
    <3>2. QED
      BY <1>5, <3>1, Least
  <2>2. Sums(0)
    BY <1>1, <1>2, <1>3
  <2> HIDE DEF Sums
  <2>3. n # 0 /\ n \in 0..MaxLevel
    BY <2>2
  <2>4. n \in Levels /\ n - 1 \in 0..MaxLevel /\ n - 1 \notin Bad
    BY <2>1, <2>3 DEF Levels
  <2>5. PICK r \in Nat, t \in Nat : r = u[n - 1] /\ t = v[n - 1] /\ w[n - 1] = r + t
    BY <2>4 DEF Sums
  <2>6. PICK x \in Nat, y \in Nat : x = Due(a, n) /\ y = Due(b, n) /\ x + y = Due(c, n)
    BY <1>4, <2>4
  <2>7. u[n] = r + x /\ v[n] = t + y /\ w[n] = (r + t) + (x + y)
    BY <1>1, <1>2, <1>3, <2>4, <2>5, <2>6
  <2>8. Sums(n)
    <3>1. (r + t) + (x + y) = (r + x) + (t + y) /\ r + x \in Nat /\ t + y \in Nat
      OBVIOUS
    <3>2. QED
      BY <2>7, <3>1 DEF Sums
  <2>9. QED
    BY <2>8
<1> HIDE DEF Sums
<1>6. MaxLevel \notin Bad
  BY <1>5
<1>7. Sums(MaxLevel)
  BY <1>6
<1>8. QED
  BY <1>1, <1>2, <1>3, <1>7 DEF Sums, c

\* A merge leaves a board, with no new id.
LEMMA MergeShape ==
    ASSUME NEW b \in Boards, NEW m, CanMerge(b, m), Merge(b, m)[m.to] \in Levels
    PROVE  Merge(b, m) \in Boards /\ DOMAIN Merge(b, m) \subseteq DOMAIN b
<1>1. PICK ids \in SUBSET (1..MaxId) : b \in [ids -> Levels]
  BY DEF Boards
<1>2. DOMAIN Merge(b, m) = ids \ {m.from}
  BY <1>1 DEF Merge
<1>3. \A i \in ids \ {m.from} : Merge(b, m)[i] \in Levels
  BY <1>1, <1>2 DEF Merge
<1>4. Merge(b, m) \in [ids \ {m.from} -> Levels]
  BY <1>2, <1>3 DEF Merge
<1>5. QED
  BY <1>1, <1>2, <1>4 DEF Boards

\* So do merges that are possible one after the other.
LEMMA AfterShape ==
    ASSUME NEW board \in Boards, NEW merges, Len(merges) \in Nat,
           \A k \in 1..Len(merges) :
              /\ CanMerge(After(board, merges)[k - 1], merges[k])
              /\ After(board, merges)[k][merges[k].to] \in Levels
    PROVE  \A k \in 0..Len(merges) :
              /\ After(board, merges)[k] \in Boards
              /\ DOMAIN After(board, merges)[k] \subseteq DOMAIN board
<1> DEFINE A   == After(board, merges)
           Bad == {n \in 0..Len(merges) :
                     ~ (A[n] \in Boards /\ DOMAIN A[n] \subseteq DOMAIN board)}
<1>1. A[0] = board /\ \A k \in 1..Len(merges) : A[k] = Merge(A[k - 1], merges[k])
  BY AfterSteps
<1> HIDE DEF A
<1>2. Bad = {}
  <2>1. SUFFICES ASSUME Bad # {} PROVE FALSE
    OBVIOUS
  <2>2. PICK n \in Bad : \A m \in Bad : n <= m
    <3>1. Bad \subseteq Nat
      OBVIOUS
    <3> HIDE DEF Bad
    <3>2. QED
      BY <2>1, <3>1, Least
  <2>3. A[0] = board
    BY <1>1
  <2>4. n \in 1..Len(merges) /\ n - 1 \in 0..Len(merges)
    BY <2>2, <2>3
  <2>5. A[n - 1] \in Boards /\ DOMAIN A[n - 1] \subseteq DOMAIN board
    BY <2>2, <2>4
  <2>6. A[n] = Merge(A[n - 1], merges[n])
    BY <1>1, <2>4
  <2>7. CanMerge(A[n - 1], merges[n]) /\ A[n][merges[n].to] \in Levels
    BY <2>4 DEF A
  <2>8. A[n] \in Boards /\ DOMAIN A[n] \subseteq DOMAIN A[n - 1]
    BY <2>5, <2>6, <2>7, MergeShape
  <2>9. QED
    BY <2>2, <2>5, <2>8
<1>3. QED
  BY <1>2 DEF A

\* The list of game g: the ids follow one another from the last fruit that fell,
\* no level is above the highest reached, and beside a board with fruits it is not
\* empty.
ListFits(g) ==
    /\ Len(g.nextLst) <= NextMaxCnt
    /\ g.autoIncrId - Len(g.nextLst) \in 0..MaxFalls
    /\ \A k \in DOMAIN g.nextLst :
          /\ g.nextLst[k].id = g.autoIncrId - Len(g.nextLst) + k
          /\ g.nextLst[k].level <= g.maxLv
    /\ g.nextLst = <<>> => DOMAIN g.board = {}

\* Game h differs from g in its list only, with the counter and the highest level.
OnlyListDiffers(g, h) ==
    /\ h.board = g.board /\ h.history = g.history /\ h.score = g.score
    /\ h.remainAdd = g.remainAdd /\ h.fallCnt = g.fallCnt /\ h.stage = g.stage
    /\ h.merged = g.merged /\ h.items = g.items

\* Game g with ls appended to its list.
Appended(g, lv, ls) ==
    [g EXCEPT !.autoIncrId = @ + Len(ls),
              !.nextLst = @ \o Entities(g.autoIncrId, ls),
              !.maxLv = lv]

\* Fruits with any number.
Numbered == [id : Nat, level : Levels]

\* Sequences as functions, and sequences of members of a smaller set.
LEMMA FunctionIsSeq ==
    ASSUME NEW n \in Nat, NEW S, NEW s \in [1..n -> S]
    PROVE  s \in Seq(S) /\ Len(s) = n
<1>1. s \in Seq(S)
  BY SeqDef
<1>2. Len(s) \in Nat /\ DOMAIN s = 1..Len(s) /\ DOMAIN s = 1..n
  BY <1>1, LenProperties
<1>3. QED
  BY <1>1, <1>2

LEMMA SeqOfMembers ==
    ASSUME NEW S, NEW T, NEW s \in Seq(S), \A k \in 1..Len(s) : s[k] \in T
    PROVE  s \in Seq(T)
<1>1. Len(s) \in Nat /\ s \in [1..Len(s) -> S]
  BY LenProperties
<1>2. s \in [1..Len(s) -> T]
  BY <1>1
<1>3. QED
  BY <1>1, <1>2, SeqDef

\* The fruits made of drawn levels: as many, numbered from a + 1.
LEMMA EntitiesList ==
    ASSUME NEW a \in Nat, NEW ls \in Seq(Levels)
    PROVE  /\ Entities(a, ls) \in Seq(Numbered)
           /\ Len(Entities(a, ls)) = Len(ls)
           /\ \A k \in 1..Len(ls) : Entities(a, ls)[k] = [id |-> a + k, level |-> ls[k]]
<1>1. Len(ls) \in Nat /\ ls \in [1..Len(ls) -> Levels] /\ DOMAIN ls = 1..Len(ls)
  BY LenProperties
<1>2. Entities(a, ls) \in [1..Len(ls) -> Numbered]
  BY <1>1 DEF Entities, Numbered
<1>3. Entities(a, ls) \in Seq(Numbered)
  BY <1>1, <1>2, FunctionIsSeq
<1>4. Len(Entities(a, ls)) = Len(ls)
  BY <1>1, <1>2, FunctionIsSeq
<1>5. QED
  BY <1>1, <1>3, <1>4 DEF Entities

\* What a concatenation has at each place.
LEMMA ConcatShape ==
    ASSUME NEW S, NEW s \in Seq(S), NEW t \in Seq(S)
    PROVE  /\ s \o t \in Seq(S) /\ Len(s \o t) = Len(s) + Len(t)
           /\ \A k \in 1..Len(s) : (s \o t)[k] = s[k]
           /\ \A k \in 1..Len(t) : (s \o t)[Len(s) + k] = t[k]
<1>1. /\ s \o t \in Seq(S) /\ Len(s \o t) = Len(s) + Len(t)
      /\ \A k \in 1..Len(s) + Len(t) :
            (s \o t)[k] = IF k <= Len(s) THEN s[k] ELSE t[k - Len(s)]
  BY ConcatProperties
<1>2. PICK n \in Nat, m \in Nat : n = Len(s) /\ m = Len(t)
  BY LenProperties
<1>3. \A k \in 1..n : k \in 1..n + m /\ k <= n
  OBVIOUS
<1>4. \A k \in 1..m : n + k \in 1..n + m /\ ~(n + k <= n) /\ (n + k) - n = k
  OBVIOUS
<1>5. QED
  BY <1>1, <1>2, <1>3, <1>4

\* A list that fits still does with drawn levels appended, if it is not too long
\* then, and of what was there before nothing changes.
LEMMA AppendedFits ==
    ASSUME NEW g \in Games, ListFits(g),
           NEW ls \in Seq(Levels), NEW lv \in 0..MaxLevel, g.maxLv <= lv,
           \A k \in 1..Len(ls) : ls[k] <= lv,
           Len(g.nextLst) + Len(ls) \in 2..NextMaxCnt
    PROVE  LET h == Appended(g, lv, ls)
           IN  /\ h \in Games /\ ListFits(h) /\ OnlyListDiffers(g, h)
               /\ h.maxLv = lv
               /\ Len(h.nextLst) = Len(g.nextLst) + Len(ls)
               /\ h.autoIncrId - Len(h.nextLst) = g.autoIncrId - Len(g.nextLst)
               /\ \A k \in DOMAIN h.nextLst : h.nextLst[k].id > g.autoIncrId =>
                     \E j \in 1..Len(ls) : h.nextLst[k].level = ls[j]
<1> DEFINE h == Appended(g, lv, ls)
           old == g.nextLst
           new == old \o Entities(g.autoIncrId, ls)
<1>1. /\ old \in Seq(Fruits) /\ g.autoIncrId \in 0..MaxId /\ g.maxLv \in 0..MaxLevel
      /\ MaxId \in Nat
  <2>1. Len(InitFruit) \in Nat
    OBVIOUS
  <2>2. QED
    BY <2>1 DEF Games, MaxId
<1>2. h.nextLst = new /\ h.autoIncrId = g.autoIncrId + Len(ls) /\ h.maxLv = lv
  BY DEF Games, Appended
<1>3. OnlyListDiffers(g, h)
  BY DEF Games, Appended, OnlyListDiffers
<1>4. new \in Seq(Fruits) /\ g.autoIncrId + Len(ls) \in 0..MaxId => h \in Games
  BY DEF Games, Appended
<1>5. PICK f \in 0..MaxFalls : f = g.autoIncrId - Len(old)
  BY DEF ListFits
<1>6. \A k \in DOMAIN old : old[k].id = f + k /\ old[k].level <= g.maxLv
  BY <1>5 DEF ListFits
<1> HIDE DEF h, old, new
<1>7. old \in Seq(Numbered) /\ DOMAIN old = 1..Len(old)
  <2>1. Fruits \subseteq Numbered
    BY <1>1 DEF Fruits, Numbered
  <2>2. QED
    BY <1>1, <2>1, SeqMonotonic, LenProperties
<1>8. PICK n \in Nat, m \in Nat : n = Len(old) /\ m = Len(ls)
  BY <1>7, LenProperties
<1>9. g.autoIncrId = f + n /\ n + m \in 2..NextMaxCnt
  <2>1. g.autoIncrId = f + n
    <3>1. PICK a \in 0..MaxId : a = g.autoIncrId
      BY <1>1
    <3>2. f = a - n
      BY <1>5, <1>8, <3>1
    <3>3. a = f + n
      BY <3>2
    <3>4. QED
      BY <3>1, <3>3
  <2>2. n + m \in 2..NextMaxCnt
    BY <1>8 DEF old
  <2>3. QED
    BY <2>1, <2>2
<1>10. /\ new \in Seq(Numbered) /\ Len(new) = n + m /\ DOMAIN new = 1..n + m
       /\ \A k \in 1..n : new[k] = old[k]
       /\ \A k \in 1..m : new[n + k] = [id |-> (f + n) + k, level |-> ls[k]]
  <2> DEFINE added == Entities(g.autoIncrId, ls)
  <2>1. /\ added \in Seq(Numbered) /\ Len(added) = m
        /\ \A k \in 1..m : added[k] = [id |-> (f + n) + k, level |-> ls[k]]
    <3>1. g.autoIncrId \in Nat
      BY <1>1
    <3>2. /\ added \in Seq(Numbered) /\ Len(added) = Len(ls)
          /\ \A k \in 1..Len(ls) : added[k] = [id |-> g.autoIncrId + k, level |-> ls[k]]
      BY <3>1, EntitiesList
    <3> HIDE DEF added
    <3>3. QED
      BY <1>8, <1>9, <3>2
  <2> HIDE DEF added
  <2>2. new = old \o added
    BY DEF new, added
  <2>3. /\ new \in Seq(Numbered) /\ Len(new) = n + m
        /\ \A k \in 1..n : new[k] = old[k]
        /\ \A k \in 1..m : new[n + k] = added[k]
    <3>1. old \in Seq(Numbered) /\ added \in Seq(Numbered)
      BY <1>7, <2>1
    <3>2. /\ old \o added \in Seq(Numbered) /\ Len(old \o added) = Len(old) + Len(added)
          /\ \A k \in 1..Len(old) : (old \o added)[k] = old[k]
          /\ \A k \in 1..Len(added) : (old \o added)[Len(old) + k] = added[k]
      BY <3>1, ConcatShape
    <3>3. QED
      BY <1>8, <2>1, <2>2, <3>2
  <2>4. DOMAIN new = 1..n + m
    BY <2>3, LenProperties
  <2>5. QED
    BY <2>1, <2>3, <2>4
<1>11. \A k \in 1..n : /\ old[k].id = f + k
                       /\ old[k].level \in Levels /\ old[k].level <= lv
  <2>1. \A k \in 1..n : old[k] \in Numbered
    BY <1>7, <1>8, ElementOfSeq
  <2>2. \A k \in 1..n : old[k].level \in 1..MaxLevel /\ old[k].level <= g.maxLv
    BY <1>6, <1>7, <1>8, <2>1 DEF Numbered, Levels
  <2>3. \A x \in 1..MaxLevel : x <= g.maxLv => x <= lv
    BY <1>1
  <2>4. QED
    BY <1>6, <1>7, <1>8, <2>2, <2>3 DEF Levels
<1>12. \A k \in 1..n + m :
          /\ new[k].id = f + k
          /\ new[k].level \in Levels /\ new[k].level <= lv
          /\ new[k].id > f + n => \E j \in 1..m : new[k].level = ls[j]
  <2>1. SUFFICES ASSUME NEW k \in 1..n + m
                 PROVE  /\ new[k].id = f + k
                        /\ new[k].level \in Levels /\ new[k].level <= lv
                        /\ new[k].id > f + n => \E j \in 1..m : new[k].level = ls[j]
    OBVIOUS
  <2>2. CASE k \in 1..n
    <3>1. new[k] = old[k] /\ ~(f + k > f + n)
      BY <1>10, <2>2
    <3>2. QED
      BY <1>11, <2>2, <3>1
  <2>3. CASE k \notin 1..n
    <3>1. PICK j \in 1..m : k = n + j
      <4>1. k - n \in 1..m /\ k = n + (k - n)
        BY <2>3
      <4>2. QED
        BY <4>1
    <3>2. new[k] = [id |-> (f + n) + j, level |-> ls[j]]
      BY <1>10, <3>1
    <3>3. ls[j] \in Levels
      BY <1>8, ElementOfSeq
    <3>4. (f + n) + j = f + k
      BY <3>1
    <3>5. QED
      BY <1>8, <3>2, <3>3, <3>4
  <2>4. QED
    BY <2>2, <2>3
<1>13. f + (n + m) \in 0..MaxId /\ \A k \in 1..n + m : f + k \in 1..MaxId
  <2>1. PICK i \in Nat : i = Len(InitFruit)
    BY WatermelonAssumption
  <2>2. MaxId = i + MaxFalls + NextMaxCnt
    BY <2>1 DEF MaxId
  <2>3. QED
    BY <1>9, <2>2
<1>14. h \in Games
  <2>1. \A k \in 1..Len(new) : new[k] \in Fruits
    <3>1. \A k \in 1..n + m : new[k] \in Numbered
      BY <1>10, ElementOfSeq
    <3>2. \A k \in 1..n + m : new[k].id \in 1..MaxId /\ new[k].level \in Levels
      BY <1>12, <1>13
    <3>3. \A e \in Numbered : e.id \in 1..MaxId => e \in Fruits
      BY DEF Numbered, Fruits
    <3>4. \A k \in 1..n + m : new[k] \in Fruits
      BY <3>1, <3>2, <3>3
    <3>5. QED
      BY <1>10, <3>4
  <2>2. new \in Seq(Fruits)
    BY <1>10, <2>1, SeqOfMembers
  <2>3. g.autoIncrId + Len(ls) \in 0..MaxId
    BY <1>8, <1>9, <1>13
  <2>4. QED
    BY <1>4, <2>2, <2>3
<1>15. Len(h.nextLst) = n + m /\ h.autoIncrId = f + (n + m)
  BY <1>2, <1>8, <1>9, <1>10
<1>16. h.autoIncrId - Len(h.nextLst) = f
  <2>1. (f + (n + m)) - (n + m) = f
    OBVIOUS
  <2>2. QED
    BY <1>15, <2>1
<1>17. ListFits(h)
  <2>1. h.nextLst # <<>>
    <3>1. n + m # 0
      BY <1>9
    <3>2. Len(<<>>) = 0
      OBVIOUS
    <3>3. QED
      BY <1>15, <3>1, <3>2
  <2>2. \A k \in DOMAIN h.nextLst : /\ h.nextLst[k].id = f + k
                                    /\ h.nextLst[k].level <= h.maxLv
    BY <1>2, <1>10, <1>12
  <2>3. Len(h.nextLst) <= NextMaxCnt
    BY <1>9, <1>15
  <2>4. QED
    BY <1>16, <2>1, <2>2, <2>3 DEF ListFits
<1>18. QED
  <2>1. Len(h.nextLst) = Len(g.nextLst) + Len(ls)
    BY <1>8, <1>15 DEF old
  <2>2. h.autoIncrId - Len(h.nextLst) = g.autoIncrId - Len(g.nextLst)
    BY <1>5, <1>16 DEF old
  <2>3. \A k \in DOMAIN h.nextLst : h.nextLst[k].id > g.autoIncrId =>
           \E j \in 1..Len(ls) : h.nextLst[k].level = ls[j]
    BY <1>2, <1>8, <1>9, <1>10, <1>12
  <2>4. QED
    BY <1>2, <1>3, <1>14, <1>17, <2>1, <2>2, <2>3 DEF h

\* What a list that is not empty gets in stage 1, once a weighted level from
\* Stage1Level on has been reached.
DrawsFit(g, h) ==
    /\ g.nextLst # <<>> /\ g.stage = 1
    /\ \E l \in Weighted : Stage1Level <= l /\ l <= g.maxLv
    => \A k \in DOMAIN h.nextLst :
          h.nextLst[k].id > g.autoIncrId => h.nextLst[k].level >= Stage1Level

\* The outcomes of makeNextList beside a list that fits: it fails in none.
LEMMA NextListCases ==
    ASSUME NEW g, NEW out \in MakeNextList(g), Missing(g) \in Int,
           g.nextLst = <<>> => DOMAIN g.board = {}
    PROVE  \/ Missing(g) <= 0 /\ out = [ok |-> TRUE, game |-> g]
           \/ /\ Missing(g) > 0 /\ g.nextLst # <<>>
              /\ \E levels \in [1..Missing(g) -> Drawable(WithLevel(g))] :
                    out = [ok |-> TRUE, game |-> More(WithLevel(g), levels)]
           \/ /\ Missing(g) > 0 /\ g.nextLst = <<>>
              /\ out = [ok |-> TRUE, game |-> First(WithLevel(g))]
<1>1. CASE Missing(g) <= 0
  BY <1>1 DEF MakeNextList
<1>2. CASE Missing(g) > 0 /\ g.nextLst # <<>>
  BY <1>2 DEF MakeNextList
<1>3. CASE Missing(g) > 0 /\ g.nextLst = <<>>
  BY <1>3 DEF MakeNextList
<1>4. QED
  BY <1>1, <1>2, <1>3

\* makeNextList does not fail, and leaves a list that fits.
LEMMA NextListFits ==
    ASSUME NEW g \in Games, ListFits(g), NEW out \in MakeNextList(g)
    PROVE  /\ out.ok
           /\ out.game \in Games /\ ListFits(out.game) /\ OnlyListDiffers(g, out.game)
           /\ g.maxLv <= out.game.maxLv
           /\ Len(out.game.nextLst) \in 2..NextMaxCnt
           /\ out.game.autoIncrId - Len(out.game.nextLst) = g.autoIncrId - Len(g.nextLst)
           /\ DrawsFit(g, out.game)
<1> DEFINE h == WithLevel(g)
           n == Missing(g)
<1>1. /\ g.nextLst \in Seq(Fruits) /\ g.maxLv \in 0..MaxLevel /\ g.autoIncrId \in 0..MaxId
      /\ Len(InitFruit) \in Nat /\ MaxLevel \in Nat \ {0} /\ NextMaxCnt \in Nat
      /\ Len(InitFruit) \in 2..NextMaxCnt
  BY WatermelonAssumption DEF Games
<1>2. Len(g.nextLst) \in Nat /\ DOMAIN g.nextLst = 1..Len(g.nextLst)
      /\ Len(g.nextLst) <= NextMaxCnt
  BY <1>1, LenProperties DEF ListFits
<1>3. h.maxLv \in 1..MaxLevel /\ g.maxLv <= h.maxLv /\ h = [g EXCEPT !.maxLv = h.maxLv]
  <2>1. CASE g.maxLv <= 0
    <3>1. h = [g EXCEPT !.maxLv = 1]
      BY <2>1 DEF WithLevel
    <3>2. h.maxLv = 1
      BY <3>1 DEF Games
    <3> HIDE DEF h
    <3>3. QED
      BY <1>1, <2>1, <3>1, <3>2
  <2>2. CASE ~(g.maxLv <= 0)
    <3>1. h = g
      BY <2>2 DEF WithLevel
    <3>2. g = [g EXCEPT !.maxLv = g.maxLv]
      BY DEF Games
    <3> HIDE DEF h
    <3>3. QED
      BY <1>1, <2>2, <3>1, <3>2
  <2>3. QED
    BY <2>1, <2>2
<1>4. n \in Int /\ n = NextMaxCnt - Len(g.nextLst)
  BY <1>1, <1>2 DEF Missing
<1> HIDE DEF h, n
<1>5. CASE n <= 0
  <2>1. out = [ok |-> TRUE, game |-> g]
    BY <1>4, <1>5, NextListCases DEF n, ListFits
  <2>2. \A k \in DOMAIN g.nextLst : ~(g.nextLst[k].id > g.autoIncrId)
    <3>1. PICK a \in 0..MaxId, i \in Nat : a = g.autoIncrId /\ i = Len(g.nextLst)
      BY <1>1, <1>2
    <3>2. \A k \in 1..i : g.nextLst[k].id = a - i + k
      BY <1>2, <3>1 DEF ListFits
    <3>3. \A k \in 1..i : ~(a - i + k > a)
      OBVIOUS
    <3>4. QED
      BY <1>2, <3>1, <3>2, <3>3
  <2>3. Len(g.nextLst) \in 2..NextMaxCnt
    BY <1>1, <1>2, <1>4, <1>5
  <2>4. QED
    BY <1>1, <2>1, <2>2, <2>3 DEF OnlyListDiffers, DrawsFit
<1>6. CASE n > 0 /\ g.nextLst # <<>>
  <2>1. PICK ls \in [1..n -> Drawable(h)] : out = [ok |-> TRUE, game |-> More(h, ls)]
    <3>1. g.nextLst = <<>> => DOMAIN g.board = {}
      BY DEF ListFits
    <3>2. \E levels \in [1..Missing(g) -> Drawable(WithLevel(g))] :
             out = [ok |-> TRUE, game |-> More(WithLevel(g), levels)]
      BY <1>4, <1>6, <3>1, NextListCases DEF n
    <3>3. QED
      BY <3>2 DEF n, h
  <2>2. n \in Nat /\ Len(g.nextLst) >= 1 /\ Len(g.nextLst) + n = NextMaxCnt
    <3>1. Len(g.nextLst) # 0
      BY <1>1, <1>6, EmptySeq
    <3>2. QED
      BY <1>1, <1>2, <1>4, <1>6, <3>1
  <2>3. \A l \in Drawable(h) : l \in Levels /\ l <= h.maxLv
    BY WatermelonAssumption DEF Drawable
  <2>4. ls \in Seq(Levels) /\ Len(ls) = n
    <3>1. ls \in [1..n -> Levels]
      BY <2>3
    <3>2. QED
      BY <2>2, <3>1, FunctionIsSeq
  <2>5. out.game = Appended(g, h.maxLv, ls)
    BY <1>3, <2>1 DEF More, Appended, Games
  <2>6. \A k \in 1..Len(ls) : ls[k] <= h.maxLv
    BY <2>1, <2>3, <2>4
  <2>7. Len(g.nextLst) + Len(ls) \in 2..NextMaxCnt
    BY <1>1, <2>2, <2>4
  <2>8. /\ out.game \in Games /\ ListFits(out.game) /\ OnlyListDiffers(g, out.game)
        /\ out.game.maxLv = h.maxLv
        /\ Len(out.game.nextLst) = Len(g.nextLst) + Len(ls)
        /\ out.game.autoIncrId - Len(out.game.nextLst) = g.autoIncrId - Len(g.nextLst)
        /\ \A k \in DOMAIN out.game.nextLst : out.game.nextLst[k].id > g.autoIncrId =>
              \E j \in 1..Len(ls) : out.game.nextLst[k].level = ls[j]
    <3>1. h.maxLv \in 0..MaxLevel
      BY <1>3
    <3>2. g.maxLv <= h.maxLv
      BY <1>3
    <3>3. PICK lv \in 0..MaxLevel : lv = h.maxLv
      BY <3>1
    <3>4. ls \in Seq(Levels) /\ \A k \in 1..Len(ls) : ls[k] <= lv
      BY <2>4, <2>6, <3>3
    <3>5. out.game = Appended(g, lv, ls) /\ g.maxLv <= lv
      BY <2>5, <3>2, <3>3
    <3> DEFINE a == Appended(g, lv, ls)
    <3>6. /\ a \in Games /\ ListFits(a) /\ OnlyListDiffers(g, a)
          /\ a.maxLv = lv
          /\ Len(a.nextLst) = Len(g.nextLst) + Len(ls)
          /\ a.autoIncrId - Len(a.nextLst) = g.autoIncrId - Len(g.nextLst)
          /\ \A k \in DOMAIN a.nextLst : a.nextLst[k].id > g.autoIncrId =>
                \E j \in 1..Len(ls) : a.nextLst[k].level = ls[j]
      BY <2>7, <3>4, <3>5, AppendedFits
    <3>7. QED
      BY <3>3, <3>5, <3>6
  <2>9. DrawsFit(g, out.game)
    <3>1. SUFFICES ASSUME g.stage = 1,
                          NEW l \in Weighted, Stage1Level <= l, l <= g.maxLv
                   PROVE  \A x \in Drawable(h) : x >= Stage1Level
      BY <2>1, <2>4, <2>8 DEF DrawsFit
    <3>2. h.stage = 1
      BY <1>3, <3>1 DEF Games
    <3>3. l <= h.maxLv
      <4>1. PICK x \in 0..MaxLevel, y \in 1..MaxLevel : x = g.maxLv /\ y = h.maxLv /\ x <= y
        BY <1>1, <1>3
      <4>2. l \in 1..MaxLevel
        BY <3>1, WatermelonAssumption DEF Levels
      <4>3. l <= y
        BY <3>1, <4>1, <4>2
      <4>4. QED
        BY <4>1, <4>3
    <3>4. QED
      BY <3>1, <3>2, <3>3 DEF Drawable, Levels
  <2>10. QED
    BY <1>3, <2>1, <2>7, <2>8, <2>9
<1>7. CASE n > 0 /\ g.nextLst = <<>>
  <2>1. DOMAIN g.board = {}
    BY <1>7 DEF ListFits
  <2>2. out = [ok |-> TRUE, game |-> First(h)]
    BY <1>4, <1>7, NextListCases DEF n, h, ListFits
  <2> DEFINE known == {h.maxLv} \union ToSet(InitFruit)
             lv    == Max(known)
  <2>3. \A k \in 1..Len(InitFruit) : InitFruit[k] \in known
    BY <1>1, LenProperties DEF ToSet
  <2>4. known \subseteq 0..MaxLevel /\ known # {} /\ h.maxLv \in known
    <3>1. \A x \in ToSet(InitFruit) : x \in 0..MaxLevel
      <4>1. \A k \in DOMAIN InitFruit : InitFruit[k] \in Levels
        BY WatermelonAssumption, ElementOfSeq, LenProperties
      <4>2. QED
        BY <4>1 DEF ToSet, Levels
    <3>2. QED
      BY <1>3, <3>1
  <2>5. lv \in known /\ \A x \in known : x <= lv
    <3> HIDE DEF known
    <3>1. QED
      BY <1>1, <2>4, MaxIsGreatest
  <2>6. out.game = Appended(g, lv, InitFruit)
    BY <1>3, <2>2 DEF First, More, Appended, Games
  <2>7. Len(g.nextLst) = 0
    BY <1>7
  <2>8. lv \in 0..MaxLevel /\ g.maxLv <= lv
    <3> HIDE DEF known, lv
    <3>1. lv \in 0..MaxLevel /\ h.maxLv <= lv
      BY <2>4, <2>5
    <3>2. QED
      BY <1>1, <1>3, <3>1
  <2>9. Len(g.nextLst) + Len(InitFruit) \in 2..NextMaxCnt
    BY <1>1, <2>7
  <2> HIDE DEF lv
  <2>10. /\ out.game \in Games /\ ListFits(out.game) /\ OnlyListDiffers(g, out.game)
         /\ out.game.maxLv = lv
         /\ Len(out.game.nextLst) = Len(g.nextLst) + Len(InitFruit)
         /\ out.game.autoIncrId - Len(out.game.nextLst) = g.autoIncrId - Len(g.nextLst)
    <3>1. \A k \in 1..Len(InitFruit) : InitFruit[k] <= lv
      BY <2>3, <2>5 DEF lv
    <3> HIDE DEF known
    <3>2. QED
      BY <2>6, <2>8, <2>9, <3>1, AppendedFits, WatermelonAssumption
  <2>11. QED
    BY <1>7, <2>2, <2>8, <2>9, <2>10 DEF DrawsFit
<1>8. QED
  BY <1>4, <1>5, <1>6, <1>7

\* In every game makeNextList has an outcome: the draw always has a level to
\* choose (logic.go:559-574), so what is proved of its outcomes is not proved of
\* none.
THEOREM NextListDraws ==
    ASSUME NEW g \in Games
    PROVE  MakeNextList(g) # {}
<1> DEFINE h == WithLevel(g)
           n == Missing(g)
<1>1. n \in Int
  <2>1. g.nextLst \in Seq(Fruits)
    BY DEF Games
  <2>2. Len(g.nextLst) \in Nat /\ NextMaxCnt \in Nat
    BY <2>1, LenProperties
  <2>3. QED
    BY <2>2 DEF Missing
<1>2. 1 \in Drawable(h) \/ \E l \in Drawable(h) : l >= Stage1Level
  <2>1. h.maxLv \in Int /\ 1 <= h.maxLv
    <3>1. g.maxLv \in 0..MaxLevel
      BY DEF Games
    <3>2. g.maxLv <= 0 => h.maxLv = 1
      BY DEF WithLevel, Games
    <3>3. ~(g.maxLv <= 0) => h.maxLv = g.maxLv
      BY DEF WithLevel
    <3> HIDE DEF h
    <3>4. QED
      BY <3>1, <3>2, <3>3
  <2> HIDE DEF h
  <2>2. QED
    BY <2>1, WatermelonAssumption DEF Drawable
<1>3. PICK l : l \in Drawable(h)
  BY <1>2
<1> HIDE DEF n, h
<1>4. [k \in 1..n |-> l] \in [1..n -> Drawable(h)]
  BY <1>3
<1>5. CASE n <= 0
  <2>1. MakeNextList(g) = {[ok |-> TRUE, game |-> g]}
    BY <1>1, <1>5 DEF MakeNextList, n
  <2>2. QED
    BY <2>1
<1>6. CASE n > 0 /\ g.nextLst # <<>>
  <2>1. MakeNextList(g) = {[ok |-> TRUE, game |-> More(h, levels)] :
                              levels \in [1..n -> Drawable(h)]}
    BY <1>1, <1>6 DEF MakeNextList, n, h
  <2> DEFINE levels == [k \in 1..n |-> l]
  <2>2. [ok |-> TRUE, game |-> More(h, levels)] \in MakeNextList(g)
    <3> HIDE DEF levels
    <3>1. levels \in [1..n -> Drawable(h)]
      BY <1>4 DEF levels
    <3>2. QED
      BY <2>1, <3>1
  <2>3. QED
    BY <2>2
<1>7. CASE n > 0 /\ g.nextLst = <<>>
  BY <1>1, <1>7 DEF MakeNextList, n
<1>8. QED
  BY <1>1, <1>5, <1>6, <1>7

-----------------------------------------------------------------------------
\* The list is full enough to survive a fall, and empty only before the first one.
ListIsLong ==
    /\ Len(game.nextLst) <= NextMaxCnt /\ Len(game.nextLst) # 1
    /\ game.nextLst = <<>> => game.fallCnt = 0

\* The client's last request has been carried out: the server has its board, its
\* fruit is the last that fell, its stage has been reached.
LastIsDone ==
    /\ last.kind \in {"fall", "sync", "use"} => last.board = game.board
    /\ last.kind = "fall" => last.id = game.fallCnt
    /\ last.kind = "sync" =>
          /\ last.merges # <<>> => Len(last.merges) \in Nat \ {0}
          /\ last.merges = <<>> => last.stage \in {0, 1} /\ last.stage <= game.stage

\* The inductive invariant.
ListInv == NoDeadEnd /\ IdsInOrder /\ ListIsLong
IInv == TypeOK /\ ListInv /\ ScoreIsEarned /\ StockIsLimited /\ LastIsDone

\* The empty board is a board.
LEMMA NoFruitsBoard ==
    NoFruits \in Boards
<1>1. NoFruits \in [{} -> Levels]
  BY DEF NoFruits
<1>2. QED
  BY <1>1 DEF Boards

\* The invariant holds at first.
LEMMA InitIInv ==
    Init => IInv
<1> SUFFICES ASSUME Init PROVE IInv
  OBVIOUS
<1>1. game \in Games
  <2>1. NoFruits \in Boards
    BY NoFruitsBoard
  <2>2. <<>> \in Seq(Fruits)
    BY EmptySeq
  <2>3. MaxId \in Nat
    <3>1. Len(InitFruit) \in Nat
      OBVIOUS
    <3>2. QED
      BY <3>1 DEF MaxId
  <2>4. QED
    BY <2>1, <2>2, <2>3 DEF Init, Games
<1>2. TypeOK /\ LastIsDone
  BY <1>1 DEF Init, TypeOK, LastIsDone, NoRequest
<1>3. Len(game.nextLst) = 0 /\ DOMAIN game.nextLst = {} /\ game.nextLst = <<>>
  BY DEF Init
<1>4. ListInv
  BY <1>3 DEF Init, ListInv, NoDeadEnd, IdsInOrder, ListIsLong, NoFruits
<1>5. ScoreIsEarned
  BY WorthOfNone DEF Init, ScoreIsEarned
<1>6. StockIsLimited
  BY DEF Init, StockIsLimited, Stock, Uses, NoItems
<1>7. QED
  BY <1>2, <1>4, <1>5, <1>6 DEF IInv

\* The list of the game fits.
LEMMA GameFits ==
    ASSUME TypeOK, ListInv
    PROVE  /\ ListFits(game)
           /\ game.autoIncrId - Len(game.nextLst) = game.fallCnt
           /\ game.nextLst \in Seq(Fruits) /\ Len(game.nextLst) \in Nat
           /\ DOMAIN game.nextLst = 1..Len(game.nextLst)
<1>1. game.nextLst \in Seq(Fruits) /\ game.fallCnt \in 0..MaxFalls
      /\ game.autoIncrId \in 0..MaxId
  BY DEF TypeOK, Games
<1>2. Len(game.nextLst) \in Nat /\ DOMAIN game.nextLst = 1..Len(game.nextLst)
  BY <1>1, LenProperties
<1>3. game.autoIncrId - Len(game.nextLst) = game.fallCnt
  BY <1>1, <1>2 DEF ListInv, IdsInOrder
<1>4. ListFits(game)
  <2>1. \A k \in DOMAIN game.nextLst :
           /\ game.nextLst[k].id = game.autoIncrId - Len(game.nextLst) + k
           /\ game.nextLst[k].level <= game.maxLv
    <3>1. game.maxLv \in 0..MaxLevel
      BY DEF TypeOK, Games
    <3>2. \A k \in DOMAIN game.nextLst : game.nextLst[k].level <= game.maxLv
      BY <3>1 DEF ListInv, NoDeadEnd
    <3>3. QED
      BY <3>2 DEF ListInv, IdsInOrder
  <2>2. game.nextLst = <<>> => DOMAIN game.board = {}
    BY DEF ListInv, NoDeadEnd
  <2>3. QED
    BY <1>1, <1>3, <2>1, <2>2 DEF ListFits, ListInv, ListIsLong
<1>5. QED
  BY <1>1, <1>2, <1>3, <1>4

\* A step that leaves the list alone.
LEMMA ListKept ==
    ASSUME TypeOK, ListInv, TypeOK',
           game'.nextLst = game.nextLst, game'.autoIncrId = game.autoIncrId,
           game'.fallCnt = game.fallCnt, game.maxLv <= game'.maxLv,
           DOMAIN game'.board \subseteq DOMAIN game.board
    PROVE  ListInv'
<1>1. game.nextLst \in Seq(Fruits) /\ game.maxLv \in 0..MaxLevel /\ game'.maxLv \in 0..MaxLevel
  BY DEF TypeOK, Games
<1>2. \A k \in DOMAIN game.nextLst : game.nextLst[k].level \in 1..game.maxLv
  BY DEF ListInv, NoDeadEnd
<1>3. NoDeadEnd'
  <2>1. \A k \in DOMAIN game'.nextLst : game'.nextLst[k].level \in 1..game'.maxLv
    BY <1>1, <1>2
  <2>2. DOMAIN game'.board # {} => game'.nextLst # <<>>
    BY DEF ListInv, NoDeadEnd
  <2>3. QED
    BY <2>1, <2>2 DEF NoDeadEnd
<1>4. IdsInOrder'
  BY DEF ListInv, IdsInOrder
<1>5. ListIsLong'
  BY DEF ListInv, ListIsLong
<1>6. QED
  BY <1>3, <1>4, <1>5 DEF ListInv

\* A step that leaves the list of h, which fits.
LEMMA ListMade ==
    ASSUME NEW h \in Games, ListFits(h), Len(h.nextLst) \in 2..NextMaxCnt,
           game'.nextLst = h.nextLst, game'.autoIncrId = h.autoIncrId,
           game'.maxLv = h.maxLv,
           game'.fallCnt = h.autoIncrId - Len(h.nextLst),
           \A i \in DOMAIN game'.board : i <= game'.fallCnt
    PROVE  ListInv'
<1>1. h.nextLst \in Seq(Fruits) /\ h.maxLv \in 0..MaxLevel /\ h.autoIncrId \in 0..MaxId
  BY DEF Games
<1>2. h.nextLst # <<>> /\ DOMAIN h.nextLst = 1..Len(h.nextLst) /\ Len(h.nextLst) \in Nat
  BY <1>1, LenProperties
<1>3. NoDeadEnd'
  <2>1. \A k \in DOMAIN h.nextLst : h.nextLst[k].level \in 1..MaxLevel
    <3>1. \A k \in DOMAIN h.nextLst : h.nextLst[k] \in Fruits
      BY <1>1, <1>2, ElementOfSeq
    <3>2. QED
      BY <3>1 DEF Fruits, Levels
  <2>2. \A k \in DOMAIN h.nextLst : h.nextLst[k].level <= h.maxLv
    BY DEF ListFits
  <2>3. \A k \in DOMAIN game'.nextLst : game'.nextLst[k].level \in 1..game'.maxLv
    BY <1>1, <2>1, <2>2
  <2>4. QED
    BY <1>2, <2>3 DEF NoDeadEnd
<1>4. IdsInOrder'
  <2>1. \A k \in DOMAIN game'.nextLst :
           game'.nextLst[k].id = game'.autoIncrId - Len(game'.nextLst) + k
    BY DEF ListFits
  <2>2. game'.autoIncrId = game'.fallCnt + Len(game'.nextLst)
    BY <1>1, <1>2
  <2>3. QED
    BY <2>1, <2>2 DEF IdsInOrder
<1>5. ListIsLong'
  <2>1. \A n \in 2..NextMaxCnt : n <= NextMaxCnt /\ n # 1
    OBVIOUS
  <2>2. QED
    BY <1>2, <2>1 DEF ListIsLong
<1>6. QED
  BY <1>3, <1>4, <1>5 DEF ListInv

\* Steps that count no score, and steps that touch no items.
LEMMA ScoreKept ==
    ASSUME TypeOK, TypeOK', ScoreIsEarned,
           game'.score = game.score, game'.history = game.history,
           game'.merged = game.merged, game.maxLv <= game'.maxLv
    PROVE  ScoreIsEarned'
<1>1. game.maxLv \in 0..MaxLevel /\ game'.maxLv \in 0..MaxLevel
  BY DEF TypeOK, Games
<1>2. \A l \in Levels : game.maxLv >= l => game'.maxLv >= l
  BY <1>1 DEF Levels
<1>3. QED
  BY <1>2 DEF ScoreIsEarned

LEMMA StockKept ==
    ASSUME StockIsLimited, game'.items = game.items, game'.remainAdd = game.remainAdd
    PROVE  StockIsLimited'
BY DEF StockIsLimited, Stock

-----------------------------------------------------------------------------
\* The requests that reach the server in earnest: what the client builds from the
\* board they share, or the last of them again.
Fits(req) ==
    /\ req.kind \in {"none", "fall", "sync", "use", "add"}
    /\ req.kind = "fall" => /\ req.id = Head(game.nextLst).id
                            /\ req.board = Drop(game.board, Head(game.nextLst))
    /\ req.kind = "sync" => /\ Len(req.merges) \in Nat
                            /\ DOMAIN req.merges = 1..Len(req.merges)
                            /\ req.merges # <<>> => Len(req.merges) # 0
                            /\ req.board = After(game.board, req.merges)[Len(req.merges)]
                            /\ req.stage \in {0, 1}
    /\ req.kind = "use" => /\ req.board \in Boards
                           /\ DOMAIN req.board \subseteq DOMAIN game.board

\* A board has finitely many fruits.
LEMMA FiniteBoard ==
    ASSUME NEW b \in Boards
    PROVE  IsFiniteSet(DOMAIN b) /\ Cardinality(DOMAIN b) \in Nat
<1>1. MaxId \in Nat
  <2>1. Len(InitFruit) \in Nat
    OBVIOUS
  <2>2. QED
    BY <2>1 DEF MaxId
<1>2. PICK ids \in SUBSET (1..MaxId) : DOMAIN b = ids
  BY DEF Boards
<1>3. IsFiniteSet(1..MaxId)
  BY <1>1, FS_Interval
<1>4. QED
  BY <1>2, <1>3, FS_Subset, FS_CardinalityType

\* What a client sends fits.
LEMMA SendFits ==
    ASSUME TypeOK,
           NEW req \in FallRequests \union SyncRequests \union ItemRequests
                          \union [kind : {"add"}, item : Items]
    PROVE  Fits(req)
<1>1. CASE req \in FallRequests
  BY <1>1 DEF FallRequests, Fits
<1>2. CASE req \in SyncRequests
  <2>1. PICK ms \in MergeLists, s \in {0, 1} :
           req = [kind |-> "sync", merges |-> ms,
                  board |-> After(game.board, ms)[Len(ms)], stage |-> s]
    BY <1>2 DEF SyncRequests
  <2> DEFINE Pairs == [from : DOMAIN game.board, to : DOMAIN game.board]
  <2>2. PICK m \in 0..MaxMerges : ms \in [1..m -> Pairs]
    BY DEF MergeLists, SeqOf
  <2>3. Len(ms) \in Nat /\ DOMAIN ms = 1..Len(ms) /\ (ms # <<>> => Len(ms) # 0)
    <3> HIDE DEF Pairs
    <3>1. m \in Nat
      OBVIOUS
    <3>2. ms \in Seq(Pairs) /\ Len(ms) = m
      BY <2>2, <3>1, FunctionIsSeq
    <3>3. QED
      BY <2>2, <3>1, <3>2, EmptySeq
  <2>4. QED
    BY <2>1, <2>3 DEF Fits
<1>3. CASE req \in ItemRequests
  <2>1. PICK i \in Items : \E b \in AfterItem(i) :
           req = [kind |-> "use", item |-> i, board |-> b]
    BY <1>3 DEF ItemRequests
  <2> PICK b \in AfterItem(i) : req = [kind |-> "use", item |-> i, board |-> b]
    BY <2>1
  <2>2. PICK ids \in SUBSET (1..MaxId) : game.board \in [ids -> Levels]
    BY DEF TypeOK, Games, Boards
  <2>3. b \in Boards /\ DOMAIN b \subseteq DOMAIN game.board
    <3>1. CASE i = "erase"
      <4>1. PICK j \in DOMAIN game.board :
               b = [k \in DOMAIN game.board \ {j} |-> game.board[k]]
        BY <3>1 DEF AfterItem
      <4>2. b \in [ids \ {j} -> Levels]
        BY <2>2, <4>1
      <4>3. QED
        BY <2>2, <4>2 DEF Boards
    <3>2. CASE i = "swap"
      BY <3>2 DEF AfterItem, TypeOK, Games
    <3>3. CASE i = "upgrade"
      <4>1. PICK j \in DOMAIN game.board :
               game.board[j] < MaxLevel /\ b = [game.board EXCEPT ![j] = @ + 1]
        BY <3>3 DEF AfterItem
      <4>2. game.board[j] + 1 \in Levels
        <5>1. PICK x \in 1..MaxLevel : x = game.board[j]
          BY <2>2, <4>1 DEF Levels
        <5>2. x < MaxLevel
          BY <4>1, <5>1
        <5>3. x + 1 \in Levels
          BY <5>2 DEF Levels
        <5>4. QED
          BY <5>1, <5>3
      <4>3. b \in [ids -> Levels]
        BY <2>2, <4>1, <4>2
      <4>4. QED
        BY <2>2, <4>3 DEF Boards
    <3>4. QED
      BY <3>1, <3>2, <3>3 DEF Items
  <2>4. QED
    BY <2>3 DEF Fits
<1>4. CASE req \in [kind : {"add"}, item : Items]
  BY <1>4 DEF Fits
<1>5. QED
  BY <1>1, <1>2, <1>3, <1>4

\* A fall or a merge that was carried out is refused when it is sent again.
LEMMA RepeatRefused ==
    ASSUME TypeOK, ListInv, LastIsDone, Handle(last)
    PROVE  last.kind # "fall" /\ (last.kind = "sync" => last.merges = <<>>)
<1>1. last.kind # "fall"
  <2>1. SUFFICES ASSUME last.kind = "fall" PROVE FALSE
    OBVIOUS
  <2>2. Fall(last)
    BY <2>1 DEF Handle
  <2>3. game.nextLst # <<>> /\ Head(game.nextLst).id = last.id /\ last.id = game.fallCnt
    BY <2>1, <2>2 DEF Fall, LastIsDone
  <2>4. game.nextLst[1].id = game.autoIncrId - Len(game.nextLst) + 1
        /\ Head(game.nextLst) = game.nextLst[1]
    <3>1. 1 \in DOMAIN game.nextLst
      BY <2>3, GameFits, EmptySeq
    <3>2. QED
      BY <2>3, <3>1, GameFits DEF ListInv, IdsInOrder
  <2>5. game.fallCnt \in Nat
    BY DEF TypeOK, Games
  <2>6. QED
    BY <2>3, <2>4, <2>5, GameFits
<1>2. ASSUME last.kind = "sync", last.merges # <<>> PROVE FALSE
  <2>1. SyncMerges(last)
    BY <1>2 DEF Handle, SyncStage
  <2>2. Cardinality(DOMAIN game.board) + Len(last.merges) = Cardinality(DOMAIN game.board)
    BY <1>2, <2>1 DEF SyncMerges, LastIsDone
  <2>3. Cardinality(DOMAIN game.board) \in Nat
    BY FiniteBoard DEF TypeOK, Games
  <2>4. QED
    BY <1>2, <2>2, <2>3 DEF LastIsDone
<1>3. QED
  BY <1>1, <1>2

\* What a client sends again fits too, if it is not refused.
LEMMA RetryFits ==
    ASSUME TypeOK, ListInv, LastIsDone, Handle(last)
    PROVE  Fits(last)
<1>1. last.kind = "sync" => /\ Len(last.merges) \in Nat
                            /\ DOMAIN last.merges = 1..Len(last.merges)
                            /\ last.merges # <<>> => Len(last.merges) # 0
                            /\ last.board = After(game.board, last.merges)[Len(last.merges)]
                            /\ last.stage \in {0, 1}
  <2>1. SUFFICES ASSUME last.kind = "sync"
                 PROVE  /\ Len(last.merges) \in Nat
                        /\ DOMAIN last.merges = 1..Len(last.merges)
                        /\ last.merges # <<>> => Len(last.merges) # 0
                        /\ last.board = After(game.board, last.merges)[Len(last.merges)]
                        /\ last.stage \in {0, 1}
    OBVIOUS
  <2>2. last.merges = <<>> /\ last.board = game.board /\ last.stage \in {0, 1}
    BY <2>1, RepeatRefused DEF LastIsDone
  <2>3. Len(last.merges) = 0 /\ DOMAIN last.merges = 1..0
    BY <2>2
  <2>4. After(game.board, last.merges)[0] = game.board
    BY <2>3, AfterSteps
  <2>5. QED
    BY <2>2, <2>3, <2>4
<1>2. last.kind = "use" => last.board \in Boards /\ DOMAIN last.board \subseteq DOMAIN game.board
  BY DEF LastIsDone, TypeOK, Games
<1>3. QED
  BY <1>1, <1>2, RepeatRefused DEF Fits, TypeOK

\* What StageLimitsDraws says of a step.
Drawn ==
    \A k \in DOMAIN game'.nextLst :
       LET e == game'.nextLst[k] IN
       (/\ e.id > game.autoIncrId /\ game.autoIncrId > 0
        /\ game'.stage = 1
        /\ \E l \in Weighted : Stage1Level <= l /\ l <= game.maxLv)
       => e.level >= Stage1Level

\* An empty list is that of a new game.
LEMMA EmptyIsNew ==
    ASSUME TypeOK, ListInv, game.nextLst = <<>>
    PROVE  game.autoIncrId = 0
<1>1. Len(game.nextLst) = 0
  OBVIOUS
<1>2. game.fallCnt = 0 /\ game.autoIncrId = game.fallCnt + Len(game.nextLst)
  BY DEF ListInv, IdsInOrder, ListIsLong
<1>3. QED
  BY <1>1, <1>2

\* Steps that draw nothing, and steps that draw for a game like the present one.
LEMMA DrawnKept ==
    ASSUME TypeOK, ListInv, game'.nextLst = game.nextLst
    PROVE  Drawn
<1>1. PICK a \in Nat, n \in Nat :
         a = game.autoIncrId /\ n = Len(game.nextLst) /\ DOMAIN game.nextLst = 1..n
  <2>1. \A x \in 0..MaxId : x \in Nat
    OBVIOUS
  <2>2. game.autoIncrId \in Nat
    BY <2>1 DEF TypeOK, Games
  <2>3. QED
    BY <2>2, GameFits
<1>2. \A k \in 1..n : game.nextLst[k].id = a - n + k
  BY <1>1 DEF ListInv, IdsInOrder
<1>3. \A k \in 1..n : ~(a - n + k > a)
  OBVIOUS
<1>4. QED
  BY <1>1, <1>2, <1>3 DEF Drawn

LEMMA DrawnMade ==
    ASSUME TypeOK, ListInv, NEW g, NEW h, DrawsFit(g, h),
           g.nextLst = <<>> => game.nextLst = <<>>,
           g.autoIncrId = game.autoIncrId, g.maxLv = game.maxLv,
           game'.nextLst = h.nextLst, game'.stage = g.stage
    PROVE  Drawn
<1>1. CASE g.nextLst = <<>>
  <2>1. game.autoIncrId = 0 /\ ~(0 > 0)
    BY <1>1, EmptyIsNew
  <2>2. QED
    BY <2>1 DEF Drawn
<1>2. CASE g.nextLst # <<>>
  BY <1>2 DEF Drawn, DrawsFit
<1>3. QED
  BY <1>1, <1>2

-----------------------------------------------------------------------------
\* Start, whatever the board.
LEMMA StartStep ==
    ASSUME IInv, Start
    PROVE  IInv' /\ Drawn
<1>1. TypeOK /\ ListInv /\ ScoreIsEarned /\ StockIsLimited
  BY DEF IInv
<1>2. PICK out \in MakeNextList(game) :
         game' = IF out.ok /\ DOMAIN game.board = {}
                 THEN [out.game EXCEPT !.items = [i \in Items |-> 1], !.remainAdd = 2]
                 ELSE out.game
  BY DEF Start
<1> DEFINE h == out.game
<1>3. /\ h \in Games /\ ListFits(h) /\ OnlyListDiffers(game, h)
      /\ game.maxLv <= h.maxLv
      /\ Len(h.nextLst) \in 2..NextMaxCnt
      /\ h.autoIncrId - Len(h.nextLst) = game.fallCnt
      /\ out.ok /\ DrawsFit(game, h)
  BY <1>1, GameFits, NextListFits DEF TypeOK
<1> HIDE DEF h
<1>4. /\ game' \in Games
      /\ game'.nextLst = h.nextLst /\ game'.autoIncrId = h.autoIncrId
      /\ game'.maxLv = h.maxLv /\ game'.stage = game.stage
      /\ game'.board = game.board /\ game'.fallCnt = game.fallCnt
      /\ game'.score = game.score /\ game'.history = game.history
      /\ game'.merged = game.merged
      /\ \/ game'.items = game.items /\ game'.remainAdd = game.remainAdd
         \/ game'.items = [i \in Items |-> 1] /\ game'.remainAdd = 2
  <2>1. CASE DOMAIN game.board = {}
    <3>1. game' = [h EXCEPT !.items = [i \in Items |-> 1], !.remainAdd = 2]
      BY <1>2, <1>3, <2>1 DEF h
    <3>2. game' \in Games
      <4>1. [i \in Items |-> 1] \in [Items -> Nat] /\ 2 \in 0..2
        OBVIOUS
      <4>2. QED
        BY <1>3, <3>1, <4>1 DEF Games
    <3>3. game'.items = [i \in Items |-> 1] /\ game'.remainAdd = 2
      BY <1>3, <3>1 DEF Games
    <3>4. /\ game'.nextLst = h.nextLst /\ game'.autoIncrId = h.autoIncrId
          /\ game'.maxLv = h.maxLv /\ game'.stage = h.stage
          /\ game'.board = h.board /\ game'.fallCnt = h.fallCnt
          /\ game'.score = h.score /\ game'.history = h.history /\ game'.merged = h.merged
      BY <1>3, <3>1 DEF Games
    <3>5. QED
      BY <1>3, <3>2, <3>3, <3>4 DEF OnlyListDiffers
  <2>2. CASE DOMAIN game.board # {}
    <3>1. game' = h
      BY <1>2, <2>2 DEF h
    <3>2. QED
      BY <1>3, <3>1 DEF OnlyListDiffers
  <2>3. QED
    BY <2>1, <2>2
<1>5. last' = NoRequest
  BY DEF Start
<1>6. TypeOK' /\ LastIsDone'
  BY <1>4, <1>5 DEF TypeOK, LastIsDone, NoRequest
<1>7. ListInv'
  <2>1. \A i \in DOMAIN game'.board : i <= game'.fallCnt
    BY <1>1, <1>4 DEF ListInv, IdsInOrder
  <2>2. QED
    BY <1>3, <1>4, <2>1, ListMade
<1>8. ScoreIsEarned'
  BY <1>1, <1>3, <1>4, <1>6, ScoreKept
<1>9. StockIsLimited'
  <2>1. CASE game'.items = game.items /\ game'.remainAdd = game.remainAdd
    BY <1>1, <2>1, StockKept
  <2>2. CASE game'.items = [i \in Items |-> 1] /\ game'.remainAdd = 2
    BY <2>2 DEF StockIsLimited, Stock, Uses, Items
  <2>3. QED
    BY <1>4, <2>1, <2>2
<1>10. Drawn
  BY <1>1, <1>3, <1>4, DrawnMade
<1>11. QED
  BY <1>6, <1>7, <1>8, <1>9, <1>10 DEF IInv

\* Fall.
LEMMA FallStep ==
    ASSUME IInv, NEW req, Fits(req), req.kind = "fall",
           game.fallCnt < MaxFalls, Fall(req), last' = req
    PROVE  IInv' /\ Drawn
<1>1. TypeOK /\ ListInv /\ ScoreIsEarned /\ StockIsLimited
  BY DEF IInv
<1> DEFINE g == [game EXCEPT !.nextLst = Tail(@), !.board = req.board]
           e == Head(game.nextLst)
<1>2. PICK out \in MakeNextList(g) :
         game' = IF out.ok THEN [out.game EXCEPT !.fallCnt = @ + 1] ELSE out.game
  BY DEF Fall
<1> DEFINE h == out.game
<1>3. /\ game \in Games /\ game.nextLst \in Seq(Fruits)
      /\ game.fallCnt \in 0..MaxFalls /\ MaxFalls \in Nat
      /\ game.nextLst # <<>>
  BY <1>1 DEF TypeOK, Games, Fall
<1>4. PICK n \in Nat, c \in 0..MaxFalls :
         /\ n = Len(game.nextLst) /\ DOMAIN game.nextLst = 1..n /\ n # 0
         /\ c = game.fallCnt
  BY <1>3, EmptySeq, LenProperties
<1>5. n \in 2..NextMaxCnt /\ game.autoIncrId = c + n
  <2>1. n <= NextMaxCnt /\ n # 1 /\ n # 0
    BY <1>1, <1>4 DEF ListInv, ListIsLong
  <2>2. game.autoIncrId = c + n
    BY <1>1, <1>4 DEF ListInv, IdsInOrder
  <2>3. n \in 2..NextMaxCnt
    BY <2>1
  <2>4. QED
    BY <2>2, <2>3
<1>6. /\ e = game.nextLst[1] /\ e \in Fruits /\ e.id = c + 1
      /\ req.id = e.id /\ req.board = Drop(game.board, e)
  <2>1. e = game.nextLst[1] /\ e \in Fruits
    BY <1>3, <1>4, <1>5, ElementOfSeq, HeadTailProperties
  <2>2. game.nextLst[1].id = game.autoIncrId - n + 1
    <3>1. 1 \in 1..n
      BY <1>5
    <3>2. QED
      BY <1>1, <1>4, <3>1 DEF ListInv, IdsInOrder
  <2>3. QED
    <3>1. (c + n) - n + 1 = c + 1
      OBVIOUS
    <3>2. QED
      BY <1>5, <2>1, <2>2, <3>1 DEF Fits
<1>7. req.board \in Boards /\ DOMAIN req.board = DOMAIN game.board \union {e.id}
  <2>1. PICK ids \in SUBSET (1..MaxId) : game.board \in [ids -> Levels]
    BY <1>3 DEF Games, Boards
  <2>2. e.id \in 1..MaxId /\ e.level \in Levels
    BY <1>6 DEF Fruits
  <2>3. Drop(game.board, e) \in [ids \union {e.id} -> Levels]
    BY <2>1, <2>2 DEF Drop
  <2>4. ids \union {e.id} \in SUBSET (1..MaxId) /\ DOMAIN req.board = ids \union {e.id}
    BY <1>6, <2>2, <2>3
  <2>5. req.board \in Boards
    BY <1>6, <2>3, <2>4 DEF Boards
  <2>6. QED
    BY <2>1, <2>4, <2>5
<1>8. /\ Tail(game.nextLst) \in Seq(Fruits) /\ Len(Tail(game.nextLst)) = n - 1
      /\ DOMAIN Tail(game.nextLst) = 1..n - 1
      /\ \A k \in 1..n - 1 : Tail(game.nextLst)[k] = game.nextLst[k + 1]
  BY <1>3, <1>4, <1>5, HeadTailProperties, LenProperties
<1>9. g \in Games /\ g.nextLst = Tail(game.nextLst) /\ g.board = req.board
      /\ g.autoIncrId = game.autoIncrId /\ g.maxLv = game.maxLv
      /\ g.fallCnt = game.fallCnt /\ g.stage = game.stage
      /\ g.score = game.score /\ g.history = game.history
      /\ g.merged = game.merged /\ g.items = game.items /\ g.remainAdd = game.remainAdd
  BY <1>3, <1>7, <1>8 DEF Games
<1> HIDE DEF g, e
<1>10. /\ ListFits(g) /\ g.nextLst # <<>>
       /\ g.autoIncrId - Len(g.nextLst) = c + 1 /\ c + 1 \in 0..MaxFalls
  <2>1. Len(g.nextLst) = n - 1 /\ DOMAIN g.nextLst = 1..n - 1
    BY <1>8, <1>9
  <2>2. g.nextLst # <<>>
    BY <1>4, <1>5, <2>1
  <2>3. g.autoIncrId - Len(g.nextLst) = c + 1
    <3>1. (c + n) - (n - 1) = c + 1
      OBVIOUS
    <3>2. QED
      BY <1>4, <1>5, <1>9, <2>1, <3>1
  <2>4. \A k \in 1..n - 1 : /\ g.nextLst[k].id = (c + 1) + k
                            /\ g.nextLst[k].level <= g.maxLv
    <3>1. SUFFICES ASSUME NEW k \in 1..n - 1
                   PROVE  /\ g.nextLst[k].id = (c + 1) + k
                          /\ g.nextLst[k].level <= g.maxLv
      OBVIOUS
    <3>2. g.nextLst[k] = game.nextLst[k + 1] /\ k + 1 \in 1..n
      <4>1. k + 1 \in 1..n
        OBVIOUS
      <4>2. QED
        BY <1>8, <1>9, <4>1
    <3>3. game.nextLst[k + 1].id = game.autoIncrId - n + (k + 1)
      BY <1>1, <1>4, <3>2 DEF ListInv, IdsInOrder
    <3>4. (c + n) - n + (k + 1) = (c + 1) + k
      OBVIOUS
    <3>5. game.nextLst[k + 1].level <= game.maxLv
      BY <1>1, <1>4, <3>2, GameFits DEF ListFits
    <3>6. QED
      BY <1>4, <1>5, <1>9, <3>2, <3>3, <3>4, <3>5
  <2>5. c + 1 \in 0..MaxFalls
    <3>1. c < MaxFalls
      BY <1>4
    <3>2. QED
      BY <1>3, <3>1
  <2>6. n - 1 <= NextMaxCnt
    BY <1>4, <1>5
  <2>7. QED
    BY <2>1, <2>2, <2>3, <2>4, <2>5, <2>6 DEF ListFits
<1>11. /\ h \in Games /\ ListFits(h) /\ OnlyListDiffers(g, h)
       /\ g.maxLv <= h.maxLv
       /\ Len(h.nextLst) \in 2..NextMaxCnt
       /\ h.autoIncrId - Len(h.nextLst) = c + 1
       /\ out.ok /\ DrawsFit(g, h)
  BY <1>9, <1>10, NextListFits
<1> HIDE DEF h
<1>12. game' = [h EXCEPT !.fallCnt = @ + 1]
  BY <1>2, <1>11 DEF h
<1>13. /\ game' \in Games
       /\ game'.nextLst = h.nextLst /\ game'.autoIncrId = h.autoIncrId
       /\ game'.maxLv = h.maxLv /\ game'.stage = g.stage
       /\ game'.board = req.board /\ game'.fallCnt = c + 1
       /\ game'.score = game.score /\ game'.history = game.history
       /\ game'.merged = game.merged
       /\ game'.items = game.items /\ game'.remainAdd = game.remainAdd
  <2>1. h.fallCnt = c /\ c + 1 \in 0..MaxFalls
    BY <1>4, <1>9, <1>10, <1>11 DEF OnlyListDiffers
  <2>2. game' \in Games
    BY <1>11, <1>12, <2>1 DEF Games
  <2>3. QED
    BY <1>9, <1>11, <1>12, <2>1, <2>2 DEF Games, OnlyListDiffers
<1>14. TypeOK'
  BY <1>13 DEF TypeOK
<1>15. LastIsDone'
  BY <1>6, <1>13 DEF LastIsDone
<1>16. ListInv'
  <2>1. \A i \in DOMAIN game'.board : i <= game'.fallCnt
    <3>1. \A i \in DOMAIN game.board : i \in 1..MaxId /\ i <= c
      BY <1>1, <1>4 DEF ListInv, IdsInOrder, TypeOK, Games, Boards
    <3>2. \A i \in 1..MaxId : i <= c => i <= c + 1
      OBVIOUS
    <3>3. \A i \in DOMAIN game.board : i <= c + 1
      BY <3>1, <3>2
    <3>4. QED
      BY <1>6, <1>7, <1>13, <3>3
  <2>2. QED
    BY <1>11, <1>13, <2>1, ListMade
<1>17. ScoreIsEarned' /\ StockIsLimited'
  BY <1>1, <1>9, <1>11, <1>13, <1>14, ScoreKept, StockKept
<1>18. Drawn
  BY <1>1, <1>9, <1>10, <1>11, <1>13, DrawnMade
<1>19. QED
  BY <1>14, <1>15, <1>16, <1>17, <1>18 DEF IInv

-----------------------------------------------------------------------------
\* How often a level is made: a number, and not zero only if it is made.
LEMMA CountShape ==
    ASSUME NEW merges, NEW n \in Nat, DOMAIN merges = 1..n, NEW l
    PROVE  /\ Count(merges, l) \in Nat
           /\ Count(merges, l) > 0 => \E k \in 1..n : MergedLevel(merges, k) = l
<1> DEFINE which == {k \in 1..n : MergedLevel(merges, k) = l}
<1>1. IsFiniteSet(which) /\ Cardinality(which) \in Nat
  <2>1. IsFiniteSet(1..n)
    BY FS_Interval
  <2>2. QED
    BY <2>1, FS_Subset, FS_CardinalityType
<1>2. Count(merges, l) = Cardinality(which)
  BY DEF Count
<1>3. which = {} => Cardinality(which) = 0
  <2> HIDE DEF which
  <2>1. QED
    BY <1>1, FS_EmptySet
<1>4. QED
  BY <1>1, <1>2, <1>3

\* A Sync with merges.
LEMMA SyncMergesStep ==
    ASSUME IInv, NEW req, Fits(req), req.kind = "sync", SyncMerges(req), last' = req
    PROVE  IInv' /\ Drawn
<1> DEFINE made  == {MergedLevel(req.merges, k) : k \in DOMAIN req.merges}
           count == [l \in Levels |-> Count(req.merges, l)]
           score == game.score + Worth(count)
<1>1. TypeOK /\ ListInv /\ ScoreIsEarned /\ StockIsLimited
  BY DEF IInv
<1>2. PICK n \in Nat : /\ n = Len(req.merges) /\ n # 0
                       /\ DOMAIN req.merges = 1..n
                       /\ req.board = After(game.board, req.merges)[n]
  BY DEF Fits, SyncMerges
<1>3. \A k \in 1..n : /\ CanMerge(After(game.board, req.merges)[k - 1], req.merges[k])
                      /\ MergedLevel(req.merges, k) \in Levels
  BY <1>2 DEF SyncMerges
<1>4. req.board \in Boards /\ DOMAIN req.board \subseteq DOMAIN game.board
  <2>1. game.board \in Boards
    BY <1>1 DEF TypeOK, Games
  <2>2. \A k \in 1..Len(req.merges) :
           /\ CanMerge(After(game.board, req.merges)[k - 1], req.merges[k])
           /\ After(game.board, req.merges)[k][req.merges[k].to] \in Levels
    BY <1>2, <1>3 DEF MergedLevel
  <2>3. \A k \in 0..Len(req.merges) :
           /\ After(game.board, req.merges)[k] \in Boards
           /\ DOMAIN After(game.board, req.merges)[k] \subseteq DOMAIN game.board
    BY <1>2, <2>1, <2>2, AfterShape
  <2>4. QED
    BY <1>2, <2>3
<1>5. count \in [Levels -> Nat] /\ \A l \in Levels : count[l] > 0 => l \in made
  <2>1. \A l \in Levels :
           /\ Count(req.merges, l) \in Nat
           /\ Count(req.merges, l) > 0 => \E k \in 1..n : MergedLevel(req.merges, k) = l
    BY <1>2, CountShape
  <2>2. \A l \in Levels : Count(req.merges, l) > 0 => l \in made
    BY <1>2, <2>1
  <2> HIDE DEF made
  <2>3. QED
    BY <2>1, <2>2
<1>6. made \subseteq Levels
  BY <1>2, <1>3
<1>7. game' = [game EXCEPT !.merged = [l \in Levels |-> @[l] + count[l]],
                           !.maxLv = Max({@} \union made),
                           !.score = score,
                           !.history = Max({@, score}),
                           !.board = req.board]
  BY DEF SyncMerges
<1>8. game.score \in Nat /\ game.history \in Nat /\ game.maxLv \in 0..MaxLevel
      /\ game.merged \in [Levels -> Nat] /\ game \in Games
  BY <1>1 DEF TypeOK, Games
<1> HIDE DEF count, made
<1>9. Worth(count) \in Nat
  BY <1>5, WorthIsNat
<1>10. PICK lv \in 0..MaxLevel : /\ lv = Max({game.maxLv} \union made)
                                 /\ game.maxLv <= lv /\ \A l \in made : l <= lv
  <2> DEFINE S == {game.maxLv} \union made
  <2>1. S \subseteq 0..MaxLevel /\ S # {}
    <3>1. game.maxLv \in 0..MaxLevel
      BY <1>8
    <3>2. \A x \in 1..MaxLevel : x \in 0..MaxLevel
      OBVIOUS
    <3>3. \A x \in made : x \in 0..MaxLevel
      BY <1>6, <3>2 DEF Levels
    <3>4. QED
      BY <3>1, <3>3
  <2>2. MaxLevel \in Nat
    OBVIOUS
  <2>3. Max(S) \in S /\ \A x \in S : x <= Max(S)
    <3> HIDE DEF S
    <3>1. QED
      BY <2>1, <2>2, MaxIsGreatest
  <2>4. QED
    BY <2>1, <2>3
<1>11. PICK best \in Nat : /\ best = Max({game.history, score})
                         /\ score \in Nat /\ score <= best
  <2>1. score \in Nat
    <3>1. PICK s \in Nat, w \in Nat : s = game.score /\ w = Worth(count)
      BY <1>8, <1>9
    <3>2. s + w \in Nat
      OBVIOUS
    <3>3. QED
      BY <3>1, <3>2
  <2> HIDE DEF score
  <2> DEFINE S == {game.history, score}
  <2>2. PICK a \in Nat, b \in Nat : a = game.history /\ b = score
    BY <1>8, <2>1
  <2>3. S = {a, b}
    BY <2>2
  <2>4. Max({a, b}) \in {a, b} /\ \A x \in {a, b} : x <= Max({a, b})
    <3>1. a + b \in Nat /\ {a, b} \subseteq 0..a + b /\ {a, b} # {}
      OBVIOUS
    <3>2. QED
      BY <3>1, MaxIsGreatest
  <2>5. QED
    BY <2>2, <2>3, <2>4
<1>12. [l \in Levels |-> game.merged[l] + count[l]] \in [Levels -> Nat]
  <2>1. \A x, y \in Nat : x + y \in Nat
    OBVIOUS
  <2>2. QED
    BY <1>5, <1>8, <2>1
<1>13. score \in Nat
  BY <1>11
<1> DEFINE merged == [l \in Levels |-> game.merged[l] + count[l]]
<1> HIDE DEF score
<1>14. /\ game' \in Games
       /\ game'.merged = merged /\ game'.maxLv = lv /\ game'.score = score
       /\ game'.history = best /\ game'.board = req.board
       /\ game'.nextLst = game.nextLst /\ game'.autoIncrId = game.autoIncrId
       /\ game'.fallCnt = game.fallCnt /\ game'.items = game.items
       /\ game'.remainAdd = game.remainAdd
  <2>1. merged \in [Levels -> Nat]
    BY <1>12
  <2>2. game' = [game EXCEPT !.merged = merged, !.maxLv = lv, !.score = score,
                             !.history = best, !.board = req.board]
    BY <1>7, <1>8, <1>10, <1>11
  <2> HIDE DEF merged
  <2>3. QED
    BY <1>4, <1>8, <1>13, <2>1, <2>2 DEF Games
<1>15. TypeOK'
  BY <1>14 DEF TypeOK
<1>16. LastIsDone'
  BY <1>2, <1>14 DEF LastIsDone, SyncMerges
<1>17. ListInv'
  BY <1>1, <1>4, <1>10, <1>14, <1>15, ListKept
<1>18. ScoreIsEarned'
  <2>1. game'.score = Worth(game'.merged)
    <3>1. Worth(merged) = Worth(game.merged) + Worth(count)
      BY <1>5, <1>8, WorthAdds
    <3>2. QED
      BY <1>1, <1>14, <3>1 DEF ScoreIsEarned, score
  <2>2. game'.history >= game'.score
    BY <1>11, <1>13, <1>14
  <2>3. ASSUME NEW l \in Levels, game'.merged[l] > 0 PROVE game'.maxLv >= l
    <3>1. PICK x \in Nat, y \in Nat : x = game.merged[l] /\ y = count[l]
      BY <1>5, <1>8
    <3>2. x + y > 0
      BY <1>14, <2>3, <3>1
    <3>3. x > 0 \/ y > 0
      BY <3>2
    <3>4. l \in 1..MaxLevel
      BY DEF Levels
    <3>5. CASE x > 0
      <4>1. game.maxLv >= l
        BY <1>1, <3>1, <3>5 DEF ScoreIsEarned
      <4>2. QED
        BY <1>8, <1>10, <1>14, <3>4, <4>1
    <3>6. CASE y > 0
      <4>1. l <= lv
        BY <1>5, <1>10, <3>1, <3>6
      <4>2. QED
        BY <1>14, <3>4, <4>1
    <3>7. QED
      BY <3>3, <3>5, <3>6
  <2>4. QED
    BY <2>1, <2>2, <2>3 DEF ScoreIsEarned
<1>19. StockIsLimited'
  BY <1>1, <1>14, StockKept
<1>20. Drawn
  BY <1>1, <1>14, DrawnKept
<1>21. QED
  BY <1>15, <1>16, <1>17, <1>18, <1>19, <1>20 DEF IInv

\* A Sync without merges.
LEMMA SyncStageStep ==
    ASSUME IInv, NEW req, Fits(req), req.kind = "sync", SyncStage(req), last' = req
    PROVE  IInv' /\ Drawn
<1>1. TypeOK /\ ListInv /\ ScoreIsEarned /\ StockIsLimited
  BY DEF IInv
<1>2. req.merges = <<>> /\ req.board = game.board /\ req.stage \in {0, 1}
  <2>1. req.merges = <<>> /\ Len(req.merges) = 0
    BY DEF SyncStage
  <2>2. QED
    BY <2>1, AfterSteps DEF Fits
<1>3. /\ game \in Games /\ game.stage \in {0, 1} /\ game.fallCnt \in 0..MaxFalls
      /\ game.maxLv \in 0..MaxLevel
  BY <1>1 DEF TypeOK, Games
<1>4. CASE ~(game.stage < req.stage)
  <2>1. game' = game
    BY <1>2, <1>3, <1>4 DEF SyncStage, Games
  <2>2. req.stage <= game.stage
    BY <1>2, <1>3, <1>4
  <2>3. TypeOK' /\ LastIsDone'
    BY <1>1, <1>2, <2>1, <2>2 DEF TypeOK, LastIsDone
  <2>4. ListInv' /\ ScoreIsEarned' /\ StockIsLimited'
    BY <1>1, <2>1 DEF ListInv, NoDeadEnd, IdsInOrder, ListIsLong, ScoreIsEarned,
                      StockIsLimited
  <2>5. Drawn
    BY <1>1, <2>1, DrawnKept
  <2>6. QED
    BY <2>3, <2>4, <2>5 DEF IInv
<1>5. CASE game.stage < req.stage
  <2> DEFINE g == [game EXCEPT !.stage = req.stage]
  <2>1. PICK out \in MakeNextList(g) : game' = [out.game EXCEPT !.board = req.board]
    BY <1>5 DEF SyncStage
  <2>2. /\ g \in Games /\ g.stage = req.stage
        /\ g.board = game.board /\ g.nextLst = game.nextLst /\ g.maxLv = game.maxLv
        /\ g.autoIncrId = game.autoIncrId /\ g.fallCnt = game.fallCnt
        /\ g.score = game.score /\ g.history = game.history /\ g.merged = game.merged
        /\ g.items = game.items /\ g.remainAdd = game.remainAdd
    BY <1>2, <1>3 DEF Games
  <2> HIDE DEF g
  <2>3. ListFits(g) /\ g.autoIncrId - Len(g.nextLst) = game.fallCnt
    BY <1>1, <2>2, GameFits DEF ListFits
  <2> DEFINE h == out.game
  <2>4. /\ h \in Games /\ ListFits(h) /\ OnlyListDiffers(g, h)
        /\ g.maxLv <= h.maxLv
        /\ Len(h.nextLst) \in 2..NextMaxCnt
        /\ h.autoIncrId - Len(h.nextLst) = game.fallCnt
        /\ DrawsFit(g, h)
    BY <2>2, <2>3, NextListFits
  <2> HIDE DEF h
  <2>5. game' = h
    <3>1. game' = [h EXCEPT !.board = req.board] /\ h.board = req.board
      BY <1>2, <2>1, <2>2, <2>4 DEF h, OnlyListDiffers
    <3>2. QED
      BY <2>4, <3>1 DEF Games
  <2>6. TypeOK'
    BY <2>4, <2>5 DEF TypeOK
  <2>7. LastIsDone'
    BY <1>2, <1>3, <2>2, <2>4, <2>5 DEF LastIsDone, OnlyListDiffers
  <2>8. ListInv'
    <3>1. game'.fallCnt = game.fallCnt /\ game'.board = game.board
      BY <2>2, <2>4, <2>5 DEF OnlyListDiffers
    <3>2. \A i \in DOMAIN game'.board : i <= game'.fallCnt
      BY <1>1, <3>1 DEF ListInv, IdsInOrder
    <3>3. QED
      BY <2>4, <2>5, <3>1, <3>2, ListMade
  <2>9. ScoreIsEarned' /\ StockIsLimited'
    <3>1. /\ game'.score = game.score /\ game'.history = game.history
          /\ game'.merged = game.merged /\ game.maxLv <= game'.maxLv
          /\ game'.items = game.items /\ game'.remainAdd = game.remainAdd
      BY <2>2, <2>4, <2>5 DEF OnlyListDiffers
    <3>2. QED
      BY <1>1, <2>6, <3>1, ScoreKept, StockKept
  <2>10. Drawn
    BY <1>1, <2>2, <2>4, <2>5, DrawnMade DEF OnlyListDiffers
  <2>11. QED
    BY <2>6, <2>7, <2>8, <2>9, <2>10 DEF IInv
<1>6. QED
  BY <1>4, <1>5

\* Items are those of a new game or none, and a use moves one of them.
LEMMA ItemsShape ==
    ASSUME TypeOK, NEW i \in DOMAIN game.items
    PROVE  i \in Items /\ game.items \in [Items -> Nat]
<1>1. game.items \in [Items -> Nat] \union {NoItems}
  BY DEF TypeOK, Games
<1>2. QED
  BY <1>1 DEF NoItems

\* The uses left of all items.
Held(items) == Uses(items, "erase") + Uses(items, "swap") + Uses(items, "upgrade")

\* A change of one item changes the sum of them as much.
LEMMA StockMoves ==
    ASSUME NEW items \in [Items -> Nat], NEW i \in Items, NEW new \in Nat
    PROVE  /\ Held(items) \in Nat
           /\ Held([items EXCEPT ![i] = new]) = Held(items) - items[i] + new
<1>1. PICK x \in Nat, y \in Nat, z \in Nat :
         items["erase"] = x /\ items["swap"] = y /\ items["upgrade"] = z
  BY DEF Items
<1> DEFINE more == [items EXCEPT ![i] = new]
<1>2. /\ Uses(items, "erase") = x /\ Uses(items, "swap") = y /\ Uses(items, "upgrade") = z
      /\ Uses(more, "erase") = more["erase"] /\ Uses(more, "swap") = more["swap"]
      /\ Uses(more, "upgrade") = more["upgrade"]
  BY <1>1 DEF Uses, Items
<1>3. CASE i = "erase"
  <2>1. more["erase"] = new /\ more["swap"] = y /\ more["upgrade"] = z /\ items[i] = x
    BY <1>1, <1>3 DEF Items
  <2> HIDE DEF more
  <2>2. new + y + z = (x + y + z) - x + new /\ x + y + z \in Nat
    OBVIOUS
  <2>3. QED
    BY <1>1, <1>2, <2>1, <2>2 DEF more, Held
<1>4. CASE i = "swap"
  <2>1. more["erase"] = x /\ more["swap"] = new /\ more["upgrade"] = z /\ items[i] = y
    BY <1>1, <1>4 DEF Items
  <2> HIDE DEF more
  <2>2. x + new + z = (x + y + z) - y + new /\ x + y + z \in Nat
    OBVIOUS
  <2>3. QED
    BY <1>1, <1>2, <2>1, <2>2 DEF more, Held
<1>5. CASE i = "upgrade"
  <2>1. more["erase"] = x /\ more["swap"] = y /\ more["upgrade"] = new /\ items[i] = z
    BY <1>1, <1>5 DEF Items
  <2> HIDE DEF more
  <2>2. x + y + new = (x + y + z) - z + new /\ x + y + z \in Nat
    OBVIOUS
  <2>3. QED
    BY <1>1, <1>2, <2>1, <2>2 DEF more, Held
<1>6. QED
  BY <1>3, <1>4, <1>5 DEF Items

\* UseItem.
LEMMA UseItemStep ==
    ASSUME IInv, NEW req, Fits(req), req.kind = "use", UseItem(req), last' = req
    PROVE  IInv' /\ Drawn
<1>1. TypeOK /\ ListInv /\ ScoreIsEarned /\ StockIsLimited
  BY DEF IInv
<1>2. /\ req.item \in Items /\ game.items \in [Items -> Nat] /\ game.items[req.item] >= 1
      /\ req.board \in Boards /\ DOMAIN req.board \subseteq DOMAIN game.board
  BY <1>1, ItemsShape DEF UseItem, Fits
<1>3. PICK u \in Nat : u = game.items[req.item] /\ u - 1 \in Nat
  BY <1>2
<1> DEFINE items == [game.items EXCEPT ![req.item] = u - 1]
<1>4. items \in [Items -> Nat]
  BY <1>2, <1>3
<1>5. game' = [game EXCEPT !.items = items, !.board = req.board]
  BY <1>3 DEF UseItem
<1> HIDE DEF items
<1>6. /\ game' \in Games
      /\ game'.items = items /\ game'.board = req.board
      /\ game'.nextLst = game.nextLst /\ game'.autoIncrId = game.autoIncrId
      /\ game'.fallCnt = game.fallCnt /\ game'.maxLv = game.maxLv
      /\ game'.score = game.score /\ game'.history = game.history
      /\ game'.merged = game.merged /\ game'.remainAdd = game.remainAdd
  BY <1>1, <1>2, <1>4, <1>5 DEF TypeOK, Games
<1>7. TypeOK' /\ LastIsDone'
  BY <1>6 DEF TypeOK, LastIsDone
<1>8. game.maxLv \in 0..MaxLevel /\ game.maxLv <= game'.maxLv
  BY <1>1, <1>6 DEF TypeOK, Games
<1>9. ListInv' /\ ScoreIsEarned'
  BY <1>1, <1>2, <1>6, <1>7, <1>8, ListKept, ScoreKept
<1>10. StockIsLimited'
  <2>1. PICK s \in Nat, r \in 0..2 : Stock(game) = s + r /\ Stock(game') = (s - u + (u - 1)) + r
    <3>1. game.remainAdd \in 0..2
      BY <1>1 DEF TypeOK, Games
    <3>2. Held(game.items) \in Nat /\ Held(items) = Held(game.items) - u + (u - 1)
      BY <1>2, <1>3, StockMoves DEF items
    <3>3. Stock(game) = Held(game.items) + game.remainAdd
          /\ Stock(game') = Held(items) + game.remainAdd
      BY <1>6 DEF Stock, Held
    <3>4. QED
      BY <3>1, <3>2, <3>3
  <2>2. s + r <= 5
    BY <1>1, <2>1 DEF StockIsLimited
  <2>3. (s - u + (u - 1)) + r <= 5
    BY <2>2
  <2>4. QED
    BY <2>1, <2>3 DEF StockIsLimited
<1>11. Drawn
  BY <1>1, <1>6, DrawnKept
<1>12. QED
  BY <1>7, <1>9, <1>10, <1>11 DEF IInv

\* AddItem.
LEMMA AddItemStep ==
    ASSUME IInv, NEW req, req.kind = "add", AddItem(req), last' = req
    PROVE  IInv' /\ Drawn
<1>1. TypeOK /\ ListInv /\ ScoreIsEarned /\ StockIsLimited
  BY DEF IInv
<1>2. /\ req.item \in Items /\ game.items \in [Items -> Nat]
      /\ game.remainAdd > 0 /\ game.remainAdd \in 0..2
  BY <1>1, ItemsShape DEF AddItem, TypeOK, Games
<1>3. PICK u \in Nat, r \in 0..2 : u = game.items[req.item] /\ r = game.remainAdd
  BY <1>2
<1>4. u + 1 \in Nat /\ r - 1 \in 0..2
  BY <1>2, <1>3
<1> DEFINE items == [game.items EXCEPT ![req.item] = u + 1]
<1>5. items \in [Items -> Nat]
  BY <1>2, <1>4
<1>6. game' = [game EXCEPT !.items = items, !.remainAdd = r - 1]
  BY <1>3 DEF AddItem
<1> HIDE DEF items
<1>7. /\ game' \in Games
      /\ game'.items = items /\ game'.remainAdd = r - 1 /\ game'.board = game.board
      /\ game'.nextLst = game.nextLst /\ game'.autoIncrId = game.autoIncrId
      /\ game'.fallCnt = game.fallCnt /\ game'.maxLv = game.maxLv
      /\ game'.score = game.score /\ game'.history = game.history
      /\ game'.merged = game.merged
  BY <1>1, <1>4, <1>5, <1>6 DEF TypeOK, Games
<1>8. TypeOK' /\ LastIsDone'
  BY <1>7 DEF TypeOK, LastIsDone
<1>9. game.maxLv \in 0..MaxLevel /\ game.maxLv <= game'.maxLv
  BY <1>1, <1>7 DEF TypeOK, Games
<1>10. ListInv' /\ ScoreIsEarned'
  BY <1>1, <1>7, <1>8, <1>9, ListKept, ScoreKept
<1>11. StockIsLimited'
  <2>1. PICK s \in Nat : Stock(game) = s + r /\ Stock(game') = (s - u + (u + 1)) + (r - 1)
    <3>1. Held(game.items) \in Nat /\ Held(items) = Held(game.items) - u + (u + 1)
      BY <1>2, <1>3, <1>4, StockMoves DEF items
    <3>2. Stock(game) = Held(game.items) + r /\ Stock(game') = Held(items) + (r - 1)
      BY <1>3, <1>7 DEF Stock, Held
    <3>3. QED
      BY <3>1, <3>2
  <2>2. s + r <= 5
    BY <1>1, <2>1 DEF StockIsLimited
  <2>3. (s - u + (u + 1)) + (r - 1) <= 5
    BY <2>2
  <2>4. QED
    BY <2>1, <2>3 DEF StockIsLimited
<1>12. Drawn
  BY <1>1, <1>7, DrawnKept
<1>13. QED
  BY <1>8, <1>10, <1>11, <1>12 DEF IInv

\* End.
LEMMA EndStep ==
    ASSUME IInv, End
    PROVE  IInv' /\ Drawn
<1>1. game \in Games /\ game.history \in Nat /\ game.score \in Nat
  BY DEF IInv, TypeOK, Games
<1>2. PICK a \in Nat, b \in Nat : a = game.history /\ b = game.score
  BY <1>1
<1>3. PICK best \in Nat : best = Max({a, b})
  <2>1. a + b \in Nat /\ {a, b} \subseteq 0..a + b /\ {a, b} # {}
    OBVIOUS
  <2>2. Max({a, b}) \in {a, b}
    BY <2>1, MaxIsGreatest
  <2>3. QED
    BY <2>2
<1>4. game' = [game EXCEPT !.history = best, !.board = NoFruits,
                           !.nextLst = <<>>, !.merged = [l \in Levels |-> 0],
                           !.items = NoItems, !.maxLv = 0, !.autoIncrId = 0,
                           !.score = 0, !.remainAdd = 0, !.fallCnt = 0]
      /\ last' = NoRequest
  BY <1>2, <1>3 DEF End
<1>5. /\ NoFruits \in Boards /\ <<>> \in Seq(Fruits) /\ [l \in Levels |-> 0] \in [Levels -> Nat]
      /\ 0 \in 0..MaxLevel /\ 0 \in 0..MaxId /\ 0 \in 0..2 /\ 0 \in 0..MaxFalls
  <2>1. MaxId \in Nat
    <3>1. Len(InitFruit) \in Nat
      OBVIOUS
    <3>2. QED
      BY <3>1 DEF MaxId
  <2>2. QED
    BY <2>1, EmptySeq, NoFruitsBoard
<1>6. /\ game' \in Games
      /\ game'.board = NoFruits /\ game'.nextLst = <<>> /\ game'.items = NoItems
      /\ game'.merged = [l \in Levels |-> 0] /\ game'.history = best
      /\ game'.maxLv = 0 /\ game'.autoIncrId = 0 /\ game'.score = 0
      /\ game'.remainAdd = 0 /\ game'.fallCnt = 0
  BY <1>1, <1>3, <1>4, <1>5 DEF Games
<1>7. TypeOK' /\ LastIsDone'
  BY <1>4, <1>6 DEF TypeOK, LastIsDone, NoRequest
<1>8. Len(game'.nextLst) = 0 /\ DOMAIN game'.nextLst = {}
  BY <1>6
<1>9. ListInv'
  BY <1>6, <1>8 DEF ListInv, NoDeadEnd, IdsInOrder, ListIsLong, NoFruits
<1>10. ScoreIsEarned'
  <2>1. \A l \in Levels : ~([k \in Levels |-> 0][l] > 0)
    OBVIOUS
  <2>2. best >= 0
    OBVIOUS
  <2>3. QED
    BY <1>6, <2>1, <2>2, WorthOfNone DEF ScoreIsEarned
<1>11. StockIsLimited'
  BY <1>6 DEF StockIsLimited, Stock, Uses, NoItems
<1>12. Drawn
  BY <1>8 DEF Drawn
<1>13. QED
  BY <1>7, <1>9, <1>10, <1>11, <1>12 DEF IInv

-----------------------------------------------------------------------------
\* A request that fits, whether it comes for the first time or again.
LEMMA HandleStep ==
    ASSUME IInv, NEW req, Fits(req), Handle(req), last' = req
    PROVE  IInv' /\ Drawn
<1>1. CASE req.kind = "fall"
  BY <1>1, FallStep DEF Handle
<1>2. CASE req.kind = "sync"
  BY <1>2, SyncMergesStep, SyncStageStep DEF Handle
<1>3. CASE req.kind = "use"
  BY <1>3, UseItemStep DEF Handle
<1>4. CASE req.kind = "add"
  BY <1>4, AddItemStep DEF Handle
<1>5. QED
  BY <1>1, <1>2, <1>3, <1>4 DEF Handle

\* Every step keeps the invariant.
LEMMA NextIInv ==
    ASSUME IInv, [Next]_vars
    PROVE  IInv' /\ (game' # game => Drawn)
<1>1. CASE Send
  <2>1. PICK req \in FallRequests \union SyncRequests \union ItemRequests
                         \union [kind : {"add"}, item : Items] :
           Handle(req) /\ last' = req
    BY <1>1 DEF Send
  <2>2. Fits(req)
    BY SendFits DEF IInv
  <2>3. QED
    BY <2>1, <2>2, HandleStep
<1>2. CASE Retry
  <2>1. Fits(last)
    BY <1>2, RetryFits DEF IInv, Retry
  <2>2. QED
    BY <1>2, <2>1, HandleStep DEF Retry
<1>3. CASE Start
  BY <1>3, StartStep
<1>4. CASE End
  BY <1>4, EndStep
<1>5. CASE UNCHANGED vars
  BY <1>5 DEF vars, IInv, TypeOK, ListInv, NoDeadEnd, IdsInOrder, ListIsLong,
              ScoreIsEarned, StockIsLimited, LastIsDone
<1>6. QED
  BY <1>1, <1>2, <1>3, <1>4, <1>5 DEF Next

\* Every reachable state of the game satisfies the invariant.
LEMMA InvHolds ==
    Spec => []IInv
BY InitIInv, NextIInv, PTL DEF Spec

\* Every reachable state of a game is type-correct (db_struct DbWatermelon,
\* logic.go:152-618): no id exceeds those a game can hand out, no stage is other
\* than 0 and 1, and a board has only levels of the table.
THEOREM TypeCorrect ==
    Spec => []TypeOK
<1>1. IInv => TypeOK
  BY DEF IInv
<1>2. QED
  BY <1>1, InvHolds, PTL

\* The game can always go on: makeNextList fails in no reachable state
\* (logic.go:503-534), and every fruit in the list has a level this game has
\* reached (logic.go:559-574).
THEOREM NeverDeadEnds ==
    Spec => []NoDeadEnd
<1>1. IInv => NoDeadEnd
  BY DEF IInv, ListInv
<1>2. QED
  BY <1>1, InvHolds, PTL

\* Ids are handed out without a gap and none comes back to a board
\* (logic.go:215-254, 503-584).
THEOREM IdsStayInOrder ==
    Spec => []IdsInOrder
<1>1. IInv => IdsInOrder
  BY DEF IInv, ListInv
<1>2. QED
  BY <1>1, InvHolds, PTL

\* The score is what the merges of the game are worth, each counted once, and
\* no more than HistoryScore (logic.go:293-385, 416-443).
THEOREM ScoreEarned ==
    Spec => []ScoreIsEarned
<1>1. IInv => ScoreIsEarned
  BY DEF IInv
<1>2. QED
  BY <1>1, InvHolds, PTL

\* A game has never more than five uses of items, those to be added included
\* (logic.go:179-185, 587-618).
THEOREM StockLimited ==
    Spec => []StockIsLimited
<1>1. IInv => StockIsLimited
  BY DEF IInv
<1>2. QED
  BY <1>1, InvHolds, PTL

\* A Fall or a merge that is sent again once the server has carried it out is
\* refused (logic.go:236-248, 293-302, 353-357).
THEOREM RepeatsChangeNothing ==
    Spec => RepeatChangesNothing
<1> DEFINE Again == Retry /\ (last.kind = "fall" \/ (last.kind = "sync" /\ last.merges # <<>>))
<1>1. IInv => ~Again
  BY RepeatRefused DEF IInv, Retry
<1>2. IInv /\ [Next]_vars => [Again => UNCHANGED game]_vars
  BY <1>1
<1>3. QED
  BY <1>2, InvHolds, PTL DEF Spec, RepeatChangesNothing

\* No fruit drawn in stage 1 is below Stage1Level once the game has reached a
\* weighted level from there on (logic.go:536-577).
THEOREM StageLimits ==
    Spec => StageLimitsDraws
<1>1. IInv /\ [Next]_vars => [Drawn]_game
  BY NextIInv
<1>2. QED
  BY <1>1, InvHolds, PTL DEF Spec, StageLimitsDraws, Drawn

=============================================================================
