------------------------------ MODULE Watermelon ------------------------------
(***************************************************************************)
(* The game (watermelon/logic.go): the server hands out fruits in a list   *)
(* of upcoming ones, the client drops them, merges equal ones and uses     *)
(* items, and reports its board after each move; the server checks each    *)
(* report against the board it has, counts the score and tops the list up. *)
(* Every handler runs under the role's rwLock (Mgr.WriteRole), so each is  *)
(* one action.                                                             *)
(*                                                                         *)
(* One role and its client.  The client behaves as that of main_test.go    *)
(* and logic_test.go: it drops the first fruit of the list, merges the     *)
(* lower id into the higher, and reports the board that results.  It may   *)
(* log in again and call Start at any time, and send its last request once *)
(* more when no answer came.  A refused request changes nothing and is no  *)
(* step, but for the failures of makeNextList.                             *)
(*                                                                         *)
(* Left out: positions on the board, the weights of the draw (which levels *)
(* can be drawn is kept, how often is not), MapMergeRecord (a total over   *)
(* all games that nothing reads), and the leaderboard (RankManager).  The  *)
(* DbWatermelon of a role is one document, so a restart takes the game     *)
(* back to an earlier value of it as a whole (RoleStore).                  *)
(***************************************************************************)
EXTENDS Integers, Sequences, SequencesExt, FiniteSetsExt

CONSTANTS MaxLevel,    \* levels of TbWaterMelonLevel
          Point,       \* Point of each level
          Weighted,    \* levels whose Weight is not zero
          InitFruit, NextMaxCnt, Stage1Level, \* TbWaterMelonConfig
          MaxFalls,    \* bound: falls in one game
          MaxMerges    \* bound: merges in one request

Levels == 1..MaxLevel

\* EItem_WatermelonErase, EItem_WatermelonSwap and EItem_WatermelonUpgrade.
Items == {"erase", "swap", "upgrade"}

\* Init refuses a configuration without a weighted level up to Stage1Level; the
\* rest is what cfg_data/ has.
ASSUME WatermelonAssumption ==
    /\ MaxLevel \in Nat \ {0} /\ MaxFalls \in Nat /\ MaxMerges \in Nat
    /\ Point \in [Levels -> Nat]
    /\ Weighted \subseteq Levels /\ 1 \in Weighted
    /\ Stage1Level \in Levels
    /\ InitFruit \in Seq(Levels)
    /\ NextMaxCnt \in Nat /\ Len(InitFruit) \in 2..NextMaxCnt

VARIABLES
    game, \* the role's DbWatermelon
    last  \* the client's last request, until it starts or ends a game

vars == <<game, last>>

NoRequest == [kind |-> "none"]

\* A board without fruits, as a map from their ids to their levels; the same for
\* items.
NoFruits == [i \in {} |-> 0]
NoItems  == [i \in {} |-> 0]

Init ==
    /\ game = [autoIncrId |-> 0, board |-> NoFruits, nextLst |-> <<>>, maxLv |-> 0,
               history |-> 0, score |-> 0, remainAdd |-> 0, fallCnt |-> 0, stage |-> 0,
               merged |-> [l \in Levels |-> 0], items |-> NoItems]
    /\ last = NoRequest

-----------------------------------------------------------------------------
(* makeNextList.                                                            *)

\* Mutant of Drawable: the stage is forgotten.
Drawable_AnyStage(g) == {l \in Weighted : l <= g.maxLv}

\* Levels the draw can yield: weighted ones up to the highest of this game, and
\* in stage 1 none below Stage1Level if that leaves any.
Drawable(g) ==
    LET known == {l \in Weighted : l <= g.maxLv}
        high  == {l \in known : l >= Stage1Level}
    IN  IF g.stage = 1 /\ high # {} THEN high ELSE known

\* Mutant of Entities: the counter is incremented after its use.
Entities_FromZero(first, levels) ==
    [k \in DOMAIN levels |-> [id |-> first + k - 1, level |-> levels[k]]]

Entities(first, levels) ==
    [k \in DOMAIN levels |-> [id |-> first + k, level |-> levels[k]]]

\* How many fruits the list lacks.
Missing(g) == NextMaxCnt - Len(g.nextLst)

\* A game has reached level 1 at least.
WithLevel(g) == IF g.maxLv <= 0 THEN [g EXCEPT !.maxLv = 1] ELSE g

More(g, levels) == [g EXCEPT !.autoIncrId = @ + Len(levels),
                             !.nextLst = @ \o Entities(g.autoIncrId, levels)]

First(g) == [More(g, InitFruit) EXCEPT !.maxLv = Max({@} \union ToSet(InitFruit))]

\* The possible outcomes for game g.  An empty list is filled with InitFruit,
\* unless there are fruits on the board.
MakeNextList(g) ==
    LET h == WithLevel(g)
    IN  CASE Missing(g) <= 0 -> {[ok |-> TRUE, game |-> g]}
          [] Missing(g) > 0 /\ g.nextLst # <<>> ->
                {[ok |-> TRUE, game |-> More(h, levels)] :
                    levels \in [1..Missing(g) -> Drawable(h)]}
          [] Missing(g) > 0 /\ g.nextLst = <<>> /\ DOMAIN g.board = {} ->
                {[ok |-> TRUE, game |-> First(h)]}
          [] Missing(g) > 0 /\ g.nextLst = <<>> /\ DOMAIN g.board # {} ->
                {[ok |-> FALSE, game |-> h]}

-----------------------------------------------------------------------------
(* The handlers.                                                            *)

\* Start: the board goes back to the client as it is; with an empty board the
\* items are those of a new game.
Start ==
    /\ \E out \in MakeNextList(game) :
          game' = IF out.ok /\ DOMAIN game.board = {}
                  THEN [out.game EXCEPT !.items = [i \in Items |-> 1], !.remainAdd = 2]
                  ELSE out.game
    /\ last' = NoRequest

\* Mutant of Fall: any id may fall.
Fall_AnyId(req) ==
    /\ game.nextLst # <<>>
    /\ \E out \in MakeNextList([game EXCEPT !.nextLst = Tail(@), !.board = req.board]) :
          game' = IF out.ok THEN [out.game EXCEPT !.fallCnt = @ + 1] ELSE out.game

\* Mutant of Fall: the list is not topped up.
Fall_NoTopUp(req) ==
    /\ game.nextLst # <<>>
    /\ Head(game.nextLst).id = req.id
    /\ game' = [game EXCEPT !.nextLst = Tail(@), !.board = req.board, !.fallCnt = @ + 1]

Fall(req) ==
    /\ game.nextLst # <<>>
    /\ Head(game.nextLst).id = req.id
    /\ \A i \in DOMAIN req.board : i <= req.id
    /\ \E out \in MakeNextList([game EXCEPT !.nextLst = Tail(@), !.board = req.board]) :
          game' = IF out.ok THEN [out.game EXCEPT !.fallCnt = @ + 1] ELSE out.game

Merge(board, m) ==
    [i \in DOMAIN board \ {m.from} |-> IF i = m.to THEN board[i] + 1 ELSE board[i]]

CanMerge(board, m) ==
    /\ m.from \in DOMAIN board /\ m.to \in DOMAIN board
    /\ m.from < m.to
    /\ board[m.from] = board[m.to]

\* The boards the merges lead to: after none of them, one, and so on.
After(board, merges) ==
    LET b[k \in 0..Len(merges)] == IF k = 0 THEN board ELSE Merge(b[k - 1], merges[k])
    IN  b

\* The level that the k-th merge of the list produces.
MergedLevel(merges, k) == After(game.board, merges)[k][merges[k].to]

\* How many of the merges produce level l.
Count(merges, l) == Cardinality({k \in DOMAIN merges : MergedLevel(merges, k) = l})

\* The points for count[l] merges to each level l.
Worth(count) ==
    LET upto[l \in 0..MaxLevel] == IF l = 0 THEN 0 ELSE upto[l - 1] + Point[l] * count[l]
    IN  upto[MaxLevel]

\* Sync with merges: all of them must be possible, one after the other, and
\* account for the fruits missing from the reported board.  A new record also
\* goes to the leaderboard (RankManager).
SyncMerges(req) ==
    /\ req.merges # <<>>
    /\ Cardinality(DOMAIN req.board) + Len(req.merges) = Cardinality(DOMAIN game.board)
    /\ \A k \in DOMAIN req.merges :
          /\ CanMerge(After(game.board, req.merges)[k - 1], req.merges[k])
          /\ MergedLevel(req.merges, k) \in Levels
    /\ LET made  == {MergedLevel(req.merges, k) : k \in DOMAIN req.merges}
           count == [l \in Levels |-> Count(req.merges, l)]
           score == game.score + Worth(count)
       IN game' = [game EXCEPT !.merged = [l \in Levels |-> @[l] + count[l]],
                               !.maxLv = Max({@} \union made),
                               !.score = score,
                               !.history = Max({@, score}),
                               !.board = req.board]

\* Sync without merges: new positions, or stage 1.  What makeNextList returns is
\* ignored.
SyncStage(req) ==
    /\ req.merges = <<>>
    /\ Cardinality(DOMAIN req.board) = Cardinality(DOMAIN game.board)
    /\ game.stage < req.stage => req.stage = 1
    /\ \E out \in IF game.stage < req.stage
                  THEN MakeNextList([game EXCEPT !.stage = req.stage])
                  ELSE {[ok |-> TRUE, game |-> game]} :
          game' = [out.game EXCEPT !.board = req.board]

\* Of the kind of item only its count matters to the server: the reported board
\* must merely not have grown.
UseItem(req) ==
    /\ DOMAIN game.board # {}
    /\ Cardinality(DOMAIN req.board) <= Cardinality(DOMAIN game.board)
    /\ req.item \in DOMAIN game.items
    /\ game.items[req.item] >= 1
    /\ game' = [game EXCEPT !.items[req.item] = @ - 1, !.board = req.board]

\* Mutant of AddItem: there is no limit to the uses that are added.
AddItem_NoLimit(req) ==
    /\ req.item \in DOMAIN game.items
    /\ game' = [game EXCEPT !.items[req.item] = @ + 1, !.remainAdd = @ - 1]

AddItem(req) ==
    /\ game.remainAdd > 0
    /\ req.item \in DOMAIN game.items
    /\ game' = [game EXCEPT !.items[req.item] = @ + 1, !.remainAdd = @ - 1]

\* Mutant of End: MapMergeInsideRecord is not cleared.
End_KeepsMerged ==
    /\ game' = [game EXCEPT !.history = Max({@, game.score}), !.board = NoFruits,
                            !.nextLst = <<>>, !.items = NoItems, !.maxLv = 0,
                            !.autoIncrId = 0, !.score = 0, !.remainAdd = 0, !.fallCnt = 0]
    /\ last' = NoRequest

\* The stage is not reset.
End ==
    /\ game' = [game EXCEPT !.history = Max({@, game.score}), !.board = NoFruits,
                            !.nextLst = <<>>, !.merged = [l \in Levels |-> 0],
                            !.items = NoItems, !.maxLv = 0, !.autoIncrId = 0,
                            !.score = 0, !.remainAdd = 0, !.fallCnt = 0]
    /\ last' = NoRequest

-----------------------------------------------------------------------------
(* The client's requests, built from the board it shares with the server.   *)

\* The board once the fruit e has fallen.
Drop(board, e) ==
    [i \in DOMAIN board \union {e.id} |-> IF i = e.id THEN e.level ELSE board[i]]

FallRequests ==
    {[kind |-> "fall", id |-> e.id, board |-> Drop(game.board, e)] :
        e \in {Head(game.nextLst) : x \in IF game.nextLst = <<>> THEN {} ELSE {1}}}

MergeLists ==
    {ms \in SeqOf([from : DOMAIN game.board, to : DOMAIN game.board], MaxMerges) :
        \A k \in DOMAIN ms : CanMerge(After(game.board, ms)[k - 1], ms[k])}

SyncRequests ==
    {[kind |-> "sync", merges |-> ms, board |-> After(game.board, ms)[Len(ms)], stage |-> s] :
        ms \in MergeLists, s \in {0, 1}}

\* What each item does to a board.
AfterItem(item) ==
    CASE item = "erase" -> {[i \in DOMAIN game.board \ {j} |-> game.board[i]] :
                              j \in DOMAIN game.board}
      [] item = "swap" -> {game.board}
      [] item = "upgrade" -> {[game.board EXCEPT ![j] = @ + 1] :
                                j \in {i \in DOMAIN game.board : game.board[i] < MaxLevel}}

ItemRequests ==
    UNION {{[kind |-> "use", item |-> i, board |-> b] : b \in AfterItem(i)} : i \in Items}

Handle(req) ==
    \/ req.kind = "fall" /\ game.fallCnt < MaxFalls /\ Fall(req)
    \/ req.kind = "sync" /\ (SyncMerges(req) \/ SyncStage(req))
    \/ req.kind = "use" /\ UseItem(req)
    \/ req.kind = "add" /\ AddItem(req)

Send ==
    \E req \in FallRequests \union SyncRequests \union ItemRequests
               \union [kind : {"add"}, item : Items] :
        /\ Handle(req)
        /\ last' = req

Retry == Handle(last) /\ UNCHANGED last

Next == Send \/ Retry \/ Start \/ End

Spec == Init /\ [][Next]_vars

-----------------------------------------------------------------------------
(* Properties.                                                              *)

MaxId == Len(InitFruit) + MaxFalls + NextMaxCnt

Boards == UNION {[ids -> Levels] : ids \in SUBSET (1..MaxId)}

Fruits == [id : 1..MaxId, level : Levels]

Games == [autoIncrId : 0..MaxId,
          board      : Boards,
          nextLst    : Seq(Fruits),
          maxLv      : 0..MaxLevel,
          history    : Nat,
          score      : Nat,
          remainAdd  : 0..2,
          fallCnt    : 0..MaxFalls,
          stage      : {0, 1},
          merged     : [Levels -> Nat],
          items      : [Items -> Nat] \union {NoItems}]

TypeOK == game \in Games /\ last.kind \in {"none", "fall", "sync", "use", "add"}

\* A game can always go on (logic.go:503-534): while there are fruits on the
\* board there are fruits to come, so neither Start nor Fall runs into the case
\* makeNextList fails in; and no fruit has level 0 or one this game has not
\* reached (logic.go:559-574).
NoDeadEnd ==
    /\ DOMAIN game.board # {} => game.nextLst # <<>>
    /\ \A k \in DOMAIN game.nextLst : game.nextLst[k].level \in 1..game.maxLv

\* watermelon_msg.proto has clients rely on upcoming ids being greater than all
\* on the board: ids are handed out without a gap, count the falls, and none
\* comes back to a board (logic.go:215-254, 503-584), through items, restarts of
\* the client and repeated requests.
IdsInOrder ==
    /\ \A k \in DOMAIN game.nextLst :
          game.nextLst[k].id = game.autoIncrId - Len(game.nextLst) + k
    /\ game.autoIncrId = game.fallCnt + Len(game.nextLst)
    /\ \A i \in DOMAIN game.board : i <= game.fallCnt

\* The score of a game is what its merges are worth, each counted once, and
\* never exceeds HistoryScore; a level that was made counts as reached
\* (logic.go:293-385, 416-443).
ScoreIsEarned ==
    /\ game.score = Worth(game.merged)
    /\ game.history >= game.score
    /\ \A l \in Levels : game.merged[l] > 0 => game.maxLv >= l

\* A Fall or a merge that is sent again after the server has carried it out is
\* refused (logic.go:236-248, 293-302, 353-357): nothing falls or scores twice.
RepeatChangesNothing ==
    [][Retry /\ (last.kind = "fall" \/ (last.kind = "sync" /\ last.merges # <<>>))
         => UNCHANGED game]_vars

\* Uses left and uses that can still be added.
Uses(items, i) == IF i \in DOMAIN items THEN items[i] ELSE 0

Stock(g) == Uses(g.items, "erase") + Uses(g.items, "swap") + Uses(g.items, "upgrade")
                + g.remainAdd

\* AddItem moves uses, it makes none, and Start grants no more than those of a
\* new game (logic.go:179-185, 587-618), also when requests are repeated.
StockIsLimited == Stock(game) <= 5

\* Fruits drawn in stage 1 are not below Stage1Level once the game has reached a
\* weighted level from there on (logic.go:536-577).
StageLimitsDraws ==
    [][\A k \in DOMAIN game'.nextLst :
          LET e == game'.nextLst[k] IN
          (/\ e.id > game.autoIncrId /\ game.autoIncrId > 0
           /\ game'.stage = 1
           /\ \E l \in Weighted : Stage1Level <= l /\ l <= game.maxLv)
          => e.level >= Stage1Level]_game
=============================================================================
