------------------------------- MODULE SortedSet -------------------------------
(***************************************************************************)
(* mdzset.SortedSet (fw/mdzset/zset.go): a map from key to score and a     *)
(* skip list of the same entries in order, changed under one lock, so each *)
(* operation is one step.  (RemoveRangeByScore and SetData take the lock   *)
(* for reading, although they write; the program calls neither.)  The skip *)
(* list's levels carry spans, the number of entries a link goes over, from *)
(* which ranks are computed.  A score of several dimensions is compared as *)
(* a number is; attachments are left out.  Levels count from 1 here.       *)
(***************************************************************************)
EXTENDS Integers, SequencesExt, FiniteSetsExt

CONSTANTS Keys,       \* objIDs
          Scores,
          Bounds,     \* ends of ranges of scores
          Absent,
          Limit,      \* SortedSet.limit
          LargeFirst, \* zsl.lts = -1
          MaxLevel,   \* zSkipListMaxLevel
          Word,       \* 2^64, the numbers of a uint64
          NumPerPage  \* entries on a page of the leaderboard, to the clients

Header == 0
Nil    == -1

ASSUME SortedSetAssumption ==
    /\ IsFiniteSet(Keys) /\ Keys \subseteq Nat \ {Header}
    /\ Scores \subseteq Int /\ Bounds \subseteq Int
    /\ Absent \in Int /\ \A s \in Scores : Absent < s
    /\ Limit \in Nat
    /\ LargeFirst \in BOOLEAN
    /\ MaxLevel \in Nat \ {0}
    /\ Word \in Nat
    /\ Word > 2 * (IF Limit = 0 THEN Cardinality(Keys) ELSE Limit) + 2
    /\ NumPerPage \in Nat \ {0}

VARIABLES
    dict,   \* score of each key
    zsl     \* the skip list: its nodes, tail, length and level

vars == <<dict, zsl>>

\* skipListNode: the node of a key.
Node(score, forward, span, backward) ==
    [score |-> score, forward |-> forward, span |-> span, backward |-> backward]

Init ==
    /\ dict = [k \in Keys |-> Absent]
    /\ zsl = [node |-> [n \in {Header} |->
                          Node(Absent, [i \in 1..MaxLevel |-> Nil],
                               [i \in 1..MaxLevel |-> 0], Nil)],
              tail |-> Nil, length |-> 0, level |-> 1]

Present == {k \in Keys : dict[k] # Absent}

Nodes(z) == DOMAIN z.node \ {Header}

\* lessThan, seen in the order of the list.
Better(s, t) == IF LargeFirst THEN s > t ELSE s < t

-----------------------------------------------------------------------------
(* Walking the list.                                                        *)

\* The loop conditions of insert and delete: the nodes before (s, k).
Before(z, s, k) ==
    {n \in Nodes(z) : \/ Better(z.node[n].score, s)
                      \/ z.node[n].score = s /\ n < k}

\* Where a loop stands after so many turns.
Turns(turn, start, n) ==
    LET after[m \in 0..n] == IF m = 0 THEN start ELSE turn[after[m - 1]]
    IN after[n]

\* A place on a walk: node at, which is entry number rank.
Places(z) == [at : DOMAIN z.node, rank : Int]

Top == [at |-> Header, rank |-> 0]

\* The link at level i followed.
Across(z, i, w) ==
    [at |-> z.node[w.at].forward[i], rank |-> w.rank + z.node[w.at].span[i]]

\* At level i over the nodes in ahead: no more turns than there are nodes.
Walk(z, i, from, ahead) ==
    Turns([w \in Places(z) |-> IF Across(z, i, w).at \in ahead
                               THEN Across(z, i, w) ELSE w],
          from, z.length)

\* Down the levels from the top, by the walk on each of them.
Down(walk, level) ==
    LET path[i \in 1..level] == walk[i][IF i = level THEN Top ELSE path[i + 1]]
    IN path

\* update[] and rank[]: where the walk down the levels stops on each of them.
Path(z, ahead) ==
    Down([i \in 1..z.level |-> [w \in Places(z) |-> Walk(z, i, w, ahead)]], z.level)

-----------------------------------------------------------------------------
(* Linking and unlinking.                                                   *)

\* Mutant of PassSpan: links that pass over the new node are not lengthened.
PassSpan_Forgets(i, level, gap, span) == IF i <= level THEN gap + 1 ELSE span

\* The span of the link before a new node of the given height: it ends there, or
\* it passes over it.
PassSpan(i, level, gap, span) == IF i <= level THEN gap + 1 ELSE span + 1

\* zslInsert: link a node of the given height at its place.
Insert(z, s, k, level) ==
    LET path     == Path(z, Before(z, s, k))
        at(i)    == IF i <= z.level THEN path[i].at ELSE Header
        rank(i)  == IF i <= z.level THEN path[i].rank ELSE 0
        over(i)  == IF i <= z.level THEN z.node[at(i)].span[i] ELSE z.length
        levels   == 1..Max({level, z.level})
        next     == z.node[at(1)].forward[1]
        new      == Node(s, [i \in 1..level |-> z.node[at(i)].forward[i]],
                         [i \in 1..level |-> over(i) - (rank(1) - rank(i))],
                         IF at(1) = Header THEN Nil ELSE at(1))
        old(n)   == LET mine == {i \in levels : at(i) = n} IN
                    [z.node[n] EXCEPT
                       !.forward = [i \in DOMAIN @ |->
                           IF i \in mine /\ i <= level THEN k ELSE @[i]],
                       !.span = [i \in DOMAIN @ |->
                           IF i \in mine
                           THEN PassSpan(i, level, rank(1) - rank(i), @[i])
                           ELSE @[i]],
                       !.backward = IF n = next THEN k ELSE @]
    IN [node   |-> [n \in DOMAIN z.node \union {k} |-> IF n = k THEN new ELSE old(n)],
        tail   |-> IF next = Nil THEN k ELSE z.tail,
        length |-> z.length + 1,
        level  |-> Max(levels)]

\* Mutant of NewTail: the tail stays when the last node goes.
NewTail_Stays(z, x) == z.tail

\* zsl.tail once x is unlinked.
NewTail(z, x) ==
    IF z.node[x].forward[1] = Nil THEN z.node[x].backward ELSE z.tail

\* Mutant of NewLevel: the level goes down by one at most.
NewLevel_OneDown(z, header) ==
    IF z.level > 1 /\ header.forward[z.level] = Nil THEN z.level - 1 ELSE z.level

\* zsl.level once the header's links are these: no level is left empty.
NewLevel(z, header) == Max({1} \union {i \in 1..z.level : header.forward[i] # Nil})

\* zslDeleteNode: at[i] is the node before x on level i.
DeleteNode(z, x, at) ==
    LET gone   == z.node[x]
        old(n) == LET mine == {i \in 1..z.level : at[i] = n}
                      link == {i \in mine : z.node[n].forward[i] = x} IN
                  [z.node[n] EXCEPT
                     !.forward = [i \in DOMAIN @ |->
                         IF i \in link THEN gone.forward[i] ELSE @[i]],
                     !.span = [i \in DOMAIN @ |->
                         IF i \in link THEN @[i] + gone.span[i] - 1
                         ELSE IF i \in mine THEN @[i] - 1 ELSE @[i]],
                     !.backward = IF n = gone.forward[1] THEN gone.backward ELSE @]
        nodes  == [n \in DOMAIN z.node \ {x} |-> old(n)]
    IN [node   |-> nodes,
        tail   |-> NewTail(z, x),
        length |-> z.length - 1,
        level  |-> NewLevel(z, nodes[Header])]

AtOf(path) == [i \in DOMAIN path |-> path[i].at]

\* zslDelete: nothing happens unless the node found is the one asked for.
Delete(z, s, k) ==
    LET at == AtOf(Path(z, Before(z, s, k)))
        x  == z.node[at[1]].forward[1]
    IN IF x = k /\ z.node[x].score = s THEN DeleteNode(z, x, at) ELSE z

\* A turn of the loop of zslDeleteRangeByRank and zslDeleteRangeByScore: unlink
\* the next node if it is doomed.
UnlinkNext(l, at, doomed) ==
    IF l.next \in doomed
    THEN [list |-> DeleteNode(l.list, l.next, at),
          next |-> l.list.node[l.next].forward[1]]
    ELSE l

\* The loop, from x on, of at most so many turns, with the same update[] throughout.
DeleteWhile(z, x, at, doomed, most) ==
    LET left[n \in 0..most] == IF n = 0 THEN [list |-> z, next |-> x]
                               ELSE UnlinkNext(left[n - 1], at, doomed)
    IN left[most].list

\* zRangeSpec.
Ranges == [min : Bounds, max : Bounds, minEx : BOOLEAN, maxEx : BOOLEAN]

GteMin(score, range) == IF range.minEx THEN score > range.min ELSE score >= range.min

LteMax(score, range) == IF range.maxEx THEN score < range.max ELSE score <= range.max

\* The nodes before the range, and those not beyond it.
Ahead(z, range) ==
    {n \in Nodes(z) : IF LargeFirst THEN ~LteMax(z.node[n].score, range)
                      ELSE ~GteMin(z.node[n].score, range)}

Within(z, range) ==
    {n \in Nodes(z) : IF LargeFirst THEN GteMin(z.node[n].score, range)
                      ELSE LteMax(z.node[n].score, range)}

\* zslDeleteRangeByScore.
DeleteRangeByScore(z, range) ==
    LET at == AtOf(Path(z, Ahead(z, range)))
    IN DeleteWhile(z, z.node[at[1]].forward[1], at, Within(z, range), z.length)

-----------------------------------------------------------------------------
(* Ranks.                                                                   *)

\* Over entries whose numbers are below the bound.
WalkRank(z, i, from, bound) ==
    Turns([w \in Places(z) |->
               IF Across(z, i, w).at # Nil /\ Across(z, i, w).rank < bound
               THEN Across(z, i, w) ELSE w],
          from, z.length)

RankPath(z, bound) ==
    Down([i \in 1..z.level |-> [w \in Places(z) |-> WalkRank(z, i, w, bound)]],
         z.level)

\* zslGetElementByRank, from 1; number 0 is the header.
ElementByRank(z, rank) ==
    LET path == RankPath(z, rank + 1)
        hit  == {i \in 1..z.level : path[i].rank = rank}
    IN IF hit = {} THEN Nil ELSE path[Max(hit)].at

\* Mutant of GetRank: the walk stops before the node itself.
GetRank_Strict(z, s, k) ==
    LET path == Path(z, Before(z, s, k))
        hit  == {i \in 1..z.level : path[i].at = k}
    IN IF hit = {} THEN 0 ELSE path[Max(hit)].rank

\* zslGetRank: 0 if there is no such node.
GetRank(z, s, k) ==
    LET path == Path(z, Before(z, s, k) \union
                        {n \in Nodes(z) : z.node[n].score = s /\ n = k})
        hit  == {i \in 1..z.level : path[i].at = k}
    IN IF hit = {} THEN 0 ELSE path[Max(hit)].rank

\* zslDeleteRangeByRank, whose entries count from 0; start + 1 may overflow.
DeleteRangeByRank(z, start, end) ==
    LET path == RankPath(z, (start + 1) % Word)
        at   == AtOf(path)
    IN DeleteWhile(z, z.node[at[1]].forward[1], at, Nodes(z),
                   Max({0, end - path[1].rank + 1}))

-----------------------------------------------------------------------------
(* Queries.                                                                 *)

\* zslIsInRange: the largest and the smallest score overlap the range.
IsInRange(range) ==
    LET first == zsl.node[Header].forward[1]
        top   == IF LargeFirst THEN first ELSE zsl.tail
        floor == IF LargeFirst THEN zsl.tail ELSE first
    IN /\ range.min <= range.max
       /\ range.min = range.max => ~range.minEx /\ ~range.maxEx
       /\ first # Nil
       /\ GteMin(zsl.node[top].score, range)
       /\ LteMax(zsl.node[floor].score, range)

\* zslFirstInRange.  It may be an entry beyond a range that has none, and then
\* zslLastInRange is the entry before it.
FirstInRange(range) ==
    LET x == zsl.node[Path(zsl, Ahead(zsl, range))[1].at].forward[1]
    IN IF IsInRange(range) /\ LteMax(zsl.node[x].score, range) THEN x ELSE Nil

\* zslLastInRange.
LastInRange(range) ==
    LET x == Path(zsl, Within(zsl, range))[1].at
    IN IF IsInRange(range) /\ GteMin(zsl.node[x].score, range) THEN x ELSE Nil

RankOf(n) == GetRank(zsl, zsl.node[n].score, n)

\* SortedSet.Rank, from 0.
Rank(k, reverse) ==
    LET r == GetRank(zsl, dict[k], k)
    IN IF k \notin Present THEN -1 ELSE IF reverse THEN zsl.length - r ELSE r - 1

\* SortedSet.Count.
Count(range) ==
    LET first == FirstInRange(range)
        last  == LastInRange(range)
    IN IF first = Nil THEN 0
       ELSE IF last = Nil THEN zsl.length - RankOf(first)
       ELSE RankOf(last) - RankOf(first) + 1

\* n entries from node x on, by forward or backward links.
Follow(x, n, reverse) ==
    LET next == [y \in Nodes(zsl) |-> IF reverse THEN zsl.node[y].backward
                                      ELSE zsl.node[y].forward[1]]
    IN [i \in 1..n |-> Turns(next, x, i - 1)]

\* commonRange: entries number start to end, from 0; negative numbers count from
\* the end.
CommonRange(start, end, reverse) ==
    LET l     == zsl.length
        from  == IF start < 0 THEN Max({start + l, 0}) ELSE start
        to    == IF end < 0 THEN end + l ELSE end
        first == IF from > 0
                 THEN ElementByRank(zsl, IF reverse THEN l - from ELSE from + 1)
                 ELSE IF reverse THEN zsl.tail ELSE zsl.node[Header].forward[1]
    IN IF from > to \/ from >= l THEN <<>>
       ELSE Follow(first, Min({to, l - 1}) - from + 1, reverse)

\* commonIterator visits the entries where commonRange copies them.
CommonIterator(start, end, reverse) == CommonRange(start, end, reverse)

RangeByScore(range) ==
    LET first == FirstInRange(range)
        last  == LastInRange(range)
    IN IF first = Nil THEN <<>>
       ELSE CommonRange(RankOf(first) - 1, IF last = Nil THEN -1 ELSE RankOf(last) - 1, FALSE)

\* GetDataByRank: the header's key is in no map.
GetDataByRank(rank, reverse) ==
    LET n == ElementByRank(zsl, IF reverse THEN zsl.length - rank ELSE rank + 1)
    IN IF rank \in 0..zsl.length /\ n \in Present THEN n ELSE Nil

\* Model.Rank (watermelon/logic.go): the pages of the leaderboard.  A page ends
\* with the first entry of the next.
TotalPage == (zsl.length + NumPerPage - 1) \div NumPerPage

\* Mutant of Page: the last page is taken to be beyond the end.
Page_NotLast(page) ==
    IF page >= TotalPage - 1 THEN <<>>
    ELSE CommonRange(page * NumPerPage, page * NumPerPage + NumPerPage, FALSE)

Page(page) ==
    IF page > TotalPage THEN <<>>
    ELSE CommonRange(page * NumPerPage, page * NumPerPage + NumPerPage, FALSE)

-----------------------------------------------------------------------------
(* Operations, each under the lock.                                         *)

Put(k, s) == dict' = [dict EXCEPT ![k] = s]

Full == Limit # 0 /\ Limit <= zsl.length

\* Add with the score the key has does nothing.
AddSame(k, s) ==
    /\ k \in Present
    /\ s = dict[k]
    /\ UNCHANGED vars

AddNew(k, s, level) ==
    /\ k \notin Present
    /\ ~Full
    /\ zsl' = Insert(zsl, s, k, level)
    /\ Put(k, s)

\* Mutant of AddFull: a new key takes the place of an equal one.
AddFull_Equal(k, s, level) ==
    LET last == ElementByRank(zsl, zsl.length) IN
    /\ k \notin Present
    /\ Full
    /\ \/ /\ Better(zsl.node[last].score, s)
          /\ UNCHANGED vars
       \/ /\ ~Better(zsl.node[last].score, s)
          /\ zsl' = Insert(Delete(zsl, zsl.node[last].score, last), s, k, level)
          /\ dict' = [dict EXCEPT ![last] = Absent, ![k] = s]

\* A full set: the new key is dropped or takes the place of the last entry.
AddFull(k, s, level) ==
    LET last == ElementByRank(zsl, zsl.length) IN
    /\ k \notin Present
    /\ Full
    /\ \/ /\ ~Better(s, zsl.node[last].score)
          /\ UNCHANGED vars
       \/ /\ Better(s, zsl.node[last].score)
          /\ zsl' = Insert(Delete(zsl, zsl.node[last].score, last), s, k, level)
          /\ dict' = [dict EXCEPT ![last] = Absent, ![k] = s]

\* Add of a known key, UpdateF2, UpdateF3, UpdateUints, IncrBy and IncrByIndex
\* differ in how they compute the new score; all move the entry, some also if it
\* is the old score.
Update(k, s, level) ==
    /\ k \in Present
    /\ zsl' = Insert(Delete(zsl, dict[k], k), s, k, level)
    /\ Put(k, s)

Drop(k) ==
    /\ k \in Present
    /\ zsl' = Delete(zsl, dict[k], k)
    /\ Put(k, Absent)

\* The map loses what the list has lost.
Sweep == dict' = [k \in Keys |-> IF k \in Nodes(zsl') THEN dict[k] ELSE Absent]

\* RemoveRangeByRank: a number below -length becomes a large uint64.
RemoveRangeByRank(start, stop) ==
    LET position(i) == (IF i < 0 THEN zsl.length + i ELSE i) % Word IN
    /\ zsl' = DeleteRangeByRank(zsl, position(start), position(stop))
    /\ Sweep

RemoveRangeByScore(range) ==
    /\ zsl' = DeleteRangeByScore(zsl, range)
    /\ Sweep

\* Numbers of entries: of the negative ones, -1 stands for all down to -length.
Numbers == {-(zsl.length + 2), -(zsl.length + 1), -1} \union 0..zsl.length

Next ==
    \/ \E k \in Keys, s \in Scores, level \in 1..MaxLevel :
          AddNew(k, s, level) \/ AddFull(k, s, level) \/ Update(k, s, level)
    \/ \E k \in Keys, s \in Scores : AddSame(k, s)
    \/ \E k \in Keys : Drop(k)
    \/ \E i, j \in Numbers : RemoveRangeByRank(i, j)
    \/ \E range \in Ranges : RemoveRangeByScore(range)

Spec == Init /\ [][Next]_vars

-----------------------------------------------------------------------------
(* Properties.                                                              *)

\* The order an entry's place is judged by (OrderedMap.tla).
Map == INSTANCE OrderedMap

\* The number of the entry a link ends at; a link to nowhere ends at the last.
Number(n) ==
    IF n = Header THEN 0
    ELSE IF n = Nil THEN zsl.length
    ELSE CHOOSE i \in DOMAIN Map!Order : Map!Order[i] = n

TypeOK ==
    /\ dict \in [Keys -> Scores \union {Absent}]
    /\ zsl.level \in 1..MaxLevel
    /\ zsl.level = 1 \/ zsl.node[Header].forward[zsl.level] # Nil
    /\ \A n \in Nodes(zsl) : zsl.node[n].span \in [DOMAIN zsl.node[n].forward -> Nat]

\* The list has exactly the map's entries, in order, along the forward links and,
\* from the tail, along the backward links (zset.go:180-296): after evictions,
\* moves and removals of ranges as well.
ListFollowsMap ==
    /\ zsl.length = Len(Map!Order)
    /\ \A k \in Present : zsl.node[k].score = dict[k]
    /\ Follow(zsl.node[Header].forward[1], zsl.length, FALSE) = Map!Order
    /\ Follow(zsl.tail, zsl.length, TRUE) = Reverse(Map!Order)

\* On every level each link's span is the number of entries it goes over
\* (zset.go:196-245, 252-272), whatever the heights of the nodes: a wrong span
\* shows much later, in the rank of another entry.
SpansAreDistances ==
    \A n \in DOMAIN zsl.node :
       \A i \in DOMAIN zsl.node[n].forward \intersect 1..zsl.level :
          zsl.node[n].span[i] = Number(zsl.node[n].forward[i]) - Number(n)

\* The part of a sequence from one number to another, by the rules of ranges of
\* ranks.
Slice(q, i, j) ==
    LET number(n) == IF n < 0 THEN Len(q) + n ELSE n
    IN SubSeq(q, Max({number(i), 0}) + 1, Min({number(j) + 1, Len(q)}))

\* What the queries find by spans and links is what the order says
\* (zset.go:302-402, 552-586, 832-847, 897-945, 971-1066): the rank of each entry,
\* the entry of each rank, the number and the list of the entries within a range
\* of scores, with or without its ends, and any range of ranks, from either end.
QueriesAgree ==
    LET order == Map!Order
        list(reverse) == IF reverse THEN Reverse(order) ELSE order
    IN
    /\ \A k \in Present : \A reverse \in BOOLEAN :
          GetDataByRank(Rank(k, reverse), reverse) = k /\ order[Rank(k, FALSE) + 1] = k
    /\ \A i \in -1..zsl.length, reverse \in BOOLEAN :
          GetDataByRank(i, reverse) =
             IF i + 1 \in DOMAIN order THEN list(reverse)[i + 1] ELSE Nil
    /\ \A range \in Ranges :
          LET found == RangeByScore(range) IN
          /\ \E i, j \in 0..zsl.length : found = SubSeq(order, i + 1, j)
          /\ {found[i] : i \in DOMAIN found} = Map!InRange(range)
          /\ Count(range) = Len(found)
    /\ \A i, j \in Numbers, reverse \in BOOLEAN :
          CommonRange(i, j, reverse) = Slice(list(reverse), i, j)
    /\ \A i \in 0..zsl.length, reverse \in BOOLEAN :
          CommonIterator(i, -1, reverse) = Slice(list(reverse), i, -1)

\* A client that asks for page after page up to TotalPage sees every entry of the
\* leaderboard, and each under its own rank wherever it appears
\* (watermelon/logic.go:628-647), also when the last page is not full.
PagesCoverBoard ==
    LET order == Map!Order
        shown(page) == {page * NumPerPage + i : i \in DOMAIN Page(page)}
    IN /\ UNION {shown(page) : page \in 0..(TotalPage - 1)} = DOMAIN order
       /\ \A page \in 0..(TotalPage + 1) : \A i \in DOMAIN Page(page) :
             Page(page)[i] = order[page * NumPerPage + i]

\* Seen through its map, the set is an ordered map with a limit (zset.go:651-685,
\* 699-873, 958-986): the entry evicted for a new one is the last, and removing a
\* range of ranks or scores removes just that range.
ImplementsOrderedMap == Map!Spec
===============================================================================
