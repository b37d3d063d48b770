# Verification of wx_game

wx_game is the server of a WeChat game in which players drop and merge fruits
("watermelon"). It keeps all roles in memory, serves clients over WebSocket
connections, and writes what has changed to MongoDB in the background. This
directory holds TLA+ models of its stateful parts, TLC configurations that check
them, and TLAPS proofs. Source paths are relative to the repository.

Contents: [the system](#the-system) ·
[hard behaviours](#what-is-hard-here) ·
[modules](#modules) · [runs](#runs) ·
[fairness](#fairness) · [proofs](#proofs) ·
[findings](#what-the-models-say-about-the-code) ·
[not modelled](#not-modelled) · [plan](#plan)

## The system

| Component | Source | State | Operations | Should guarantee |
|---|---|---|---|---|
| Role manager | `role/base.go`, `Mgr` | `userIdMap`, `roleMap` (concurrent maps), `lockNextId`, a mutex per user | `LoginRole`, `ReadRole`, `WriteRole`, `LoadFromMongo` | one role per user, one user per role, across restarts; persisted progress is not lost |
| Role | `role/base.go`, `Role` | three messages (role, item, watermelon), `dirty`, `rwLock` | `Save`, `IsValid` | `dirty` is true while MongoDB lacks a change |
| Persistence manager | `fw/persistence/persist.go` | `pendingObjects`, `running`, `stopChan`, a wait group | `AddPendingObject`, `Start`, `Stop`, `run`, `flush` | what is registered gets saved; `Stop` returns, and leaves nothing running |
| Leaderboard | `rank/manager.go` | sorted set, `dirtyItems`, `dirty` | `Add`, `RefreshEntry`, `Save`, `LoadFromMongo` | best N scores; the database follows |
| Sorted set | `fw/mdzset/zset.go` | skip list and map under an `RWMutex` | `Add`, `Range`, `Rank`, ... | an ordered map with a capacity |
| Game | `watermelon/logic.go` | `DbWatermelon` of each role | `Start`, `Fall`, `Sync`, `UseItem`, `AddItem`, `End` | a game can always go on; the score is earned |
| Connections | `websocket.go` | `ConnectionManager.connections`, a context each | `Register`, `Unregister`, kick, authenticate, the message loop | a login closes the user's earlier connections; a closed connection leaves the map |
| Authentication | `auth.go`, `handlers.go`, `wechat.go` | `sessionKeyStore`, `jwtSecret` | log in, parse a token, clean up, stop | a session lasts its time; a token is judged by a state of the store it met; expired keys go |
| State machine library | `fw/fsm/fsm.go` | transitions, callbacks | register, transition | unused by the game |
| Start-up and shutdown | `main.go`, `mongoop.go` | the database client | loads, starts, listens, stops in order | the database is there while anybody flushes; nothing registered is lost at shutdown |

How they interact. A connection's goroutine reads a message, and its handler
calls `Mgr.WriteRole` with a callback that changes the role under `rwLock`.
`WriteRole` sets `dirty` and registers the role with the `PersistManager`; after
the lock is released, a new record goes to the leaderboard, which marks the item
and registers itself. A client gets its token by HTTP, from `LoginHandler`, which
asks WeChat for the user's session key and stores it; the token is judged by the
stored key when a connection authenticates. One goroutine, `PersistManager.run`, flushes: it gathers
the registered objects, removes them from the map, and calls `Save` of each,
which claims the dirty flag, copies the data, and returns one update per
document, each with an `OnFailure` callback. `LoginRole` is called on
authentication; it loads or creates the role and refreshes its entry on the
leaderboard. `main` loads ids and leaderboard before it accepts connections, and
its deferred cleanup calls `Stop`, whose last flush saves the rest, and then
disconnects from MongoDB.

## What is hard here

`PROJECT.json` lists every hazard with its line. The main ones:

- dirty flag, registration and copy are separate steps of two goroutines, for
  roles and again, differently, for the leaderboard;
- keys are removed from a concurrent map after it has been read, while they are
  added again;
- updates fail one by one, and callbacks restore flags and items later; a role has
  three documents, and may be read back when some of them are missing or cannot be
  read;
- `Stop` meets handlers that still write and a flush that is pausing;
  `app.Shutdown` leaves WebSocket connections alone and waits for requests without a
  limit, and an error of the listener ends the process at once;
- session keys are read and later deleted by user, while logins store new ones;
- crashes lose what was not flushed, roles and leaderboard independently;
- logins of one user or of a new user overlap, and so do the connections they
  come from: a kick ends a connection only when its goroutine next reads, and before
  it closes it, writes to a client that may not be reading;
- the skip list's spans are wrong long before anybody notices;
- clients send requests again, start over in mid-game, and lose answers.

## Modules

Each module's header says what it leaves out. Steps are cut where another
goroutine can interfere: at lock operations, operations of concurrent maps,
atomic flags and calls to MongoDB. A variable marked "model only" or "history" is
not in the program. Definitions named `X_Something`, with the comment "Mutant of
X", are slips in `X` that some property must catch; nothing uses them.

**WriteBehind** - the abstract store: memory moves ahead one write at a time,
the database follows per document and never goes back; a restart empties memory, and
a role comes back as its documents are, or as a new one.

**RoleStore** - the core. `WriteRole` is three steps (`WriteLock`, `WriteDirty`,
`WritePend`), `flush` one step per map operation (`Gather`, `Remove`), per object
(`Take`, `SaveCas`, `SaveClone`) and per update (`SaveDocOk`, `SaveDocFail`; a
failed update may have been applied). `StopCall`, `FinalFlush`, `FlushDone` are
shutdown, `Restart` is a crash at any point or a restart after `Stop`. After it no
role is in memory. `LoadRole` takes a role's documents as they are, torn or not;
`NewRole` builds an empty role if there is no role document, whatever others there
are, or if a read failed, and does not flag it. Contents are version numbers: a
document is newer or older, nothing else matters here. A new role has a new version;
that it has less in it is `RoleLogin`'s matter.
`WriteBehindStore` instantiates `WriteBehind`; its variables map to themselves.

**PersistManager** - `Start`, `Stop`, `run` and the rate limit, with the flush
reduced to a count of objects; `RoleStore` leaves exactly these delays out.

**Server** - extends `PersistManager` with the program around it: `main` goes from
one stage to the next (`step`), each of which may fail, and does the manager's
`StartMark`, `StartRun`, `StopMark`, `StopClose`, `StopReturn` where `main.go` calls
`Start` and `Stop`. `Shutdown` waits until no HTTP request is under way (`Request`,
`Answered`), and such a request need never end. Connections register objects while the
process lives, after `app.Shutdown` too; `late` counts those that came after the channel was closed. An
initial state with `step = "test"` is the manager alone, started and stopped as its
tests do.

**RankManager** - set, dirty list, flag and registration of the leaderboard, with
`Add` and `RefreshEntry` cut between the set's operations. `AddTo` is
`SortedSet.Add` with eviction at the capacity. Two handlers may serve one role, as
the handlers of a kicked connection and its successor do. A restart loads the board
from its documents, and lets each role's `HistoryScore` fall to any lower value, since
roles are saved and read by themselves. Four histories name the
cases in which the code really loses track, so that the invariants claim all the
others: `shared` the roles served by two handlers at once, `behind` those that came
back with less than the board had saved for them, so that a lower "new record"
replaces a better entry after others have been turned away, `overwritten` the keys
whose newer item an `OnFailure` replaced, `stranded` a flag set by an `OnFailure` and
not registered since.

**RoleLogin** - ids, the user's lock, loading or creating a role, publishing it,
restart. A role is its owner, whether it has its name, and its progress in each of the
documents of play. A save is a copy (`SaveBegin`) and one update per document
(`SaveDoc`), the role document first; each may fail by itself, applied or not.
`LoadRole` finds all documents, or no role document, or fails to read one; in the
last two cases a new role takes the id. Two histories name the roles whose progress
this may lose: `misread`, those with a document that a read failed for, and
`unrecorded`, those whose first role document failed to be saved while others may
have been.

**Watermelon** - the game of one role and a client that behaves as the one in
`main_test.go` and `watermelon/logic_test.go`. One action per handler, since each
runs under the role's lock; `makeNextList` is the set of its possible outcomes.
The client may start over at any time and repeat its last request.

**OrderedMap** - the abstract sorted set: keys with scores in a definite order, a
limit, and what removing a range of ranks or scores means.

**SortedSet** - the skip list of `fw/mdzset/zset.go` as it is: nodes with forward
links, spans and a backward link, `update[]` and `rank[]` as the path of a walk
down the levels, and each operation as a composition of `Insert` and `DeleteNode`.
A loop is a recursive function of the number of its turns (`Turns`), of which there
are no more than nodes; a turn after the loop's end changes nothing.
A node's random height is a choice. Ranges of scores have open or closed ends;
numbers passed to `RemoveRangeByRank` become unsigned (`Word` stands for 2^64, more
than twice the number of entries there can be).
`Page` and `TotalPage` are what `Model.Rank` of the game shows of the leaderboard.
`ImplementsOrderedMap` maps `dict` to itself.

**Connections** - the goroutine of each WebSocket connection: register, read,
handle, authenticate, kick, leave. Looking at another connection's context is one
step, because the mutex protects the map and not what it points to. Kicking is three:
the write begins (`Tell`), returns (`Told`), and the old connection is closed
(`Close`). A broadcast that fails takes a connection out of the map at any point and
leaves it open (history `dropped`). What a role does meanwhile is
`RoleLogin`'s and `RankManager`'s.

**Sessions** - logins and checks of tokens as goroutines, one step per access to
`sessionKeyStore`, beside the clean-up routine, a clock and restarts. A key is a
number of its user and stands for its hash; a secret is the number of its process.
Histories: `last`, the entry of each user's last login; `overtaken`, the users whose
last login came while somebody was about to delete their former key; `seen`, how a
request's token has stood since the request began.

`*_proof` modules hold the [proofs](#proofs).

`MC*` modules hold the symmetry sets, constant functions and constraints (`Bound`) for
TLC.

## Runs

| Run | Instance | Shows |
|---|---|---|
| `RoleStore_main` | 1 role, 3 documents, 3 writes or new roles, 2 failed updates, 2 failed reads, fair | `DirtyIsScheduled`, `StopSavesPending`, `DirtyIsFaithful`, refinement of `WriteBehind`, `EventuallySaved` |
| `Server_main` | `main`, batches of 2, 5 objects, 2 starts in tests, fair | `QuietAfterStop`, `StopReturns`, `FlushHasDatabase`, `ShutdownSaves`, `SignalEnds` |
| `RankManager_board` | 2 keys, capacity 1, 2 handlers, scores 0-2, 1 failure, within `Bound` | `BoardIsSaved`, `MarkedIsRegistered`, `BoardIsTopN` |
| `RoleLogin_main` | 2 users, 2 sessions, 3 ids, 2 documents, 1 failed read or update, within `Bound` | `Identity`, `CreationIsGuarded`, `SavedProgressKept`, `RoleComesBack` |
| `Watermelon_main` | 3 levels, list of 2, 3 falls, all items, merges of up to 2 pairs | `NoDeadEnd`, `IdsInOrder`, `ScoreIsEarned`, `RepeatChangesNothing`, `StageLimitsDraws` |
| `SortedSet_main` | 4 keys, limit 3, 2 scores, ranges over 3 values, 3 levels, pages of 2, large scores first | `ListFollowsMap`, `SpansAreDistances`, `QueriesAgree`, `PagesCoverBoard`, refinement of `OrderedMap` |
| `Connections_main` | 2 connections, 2 users, 2 requests each, fair | `LaterLoginKicks`, `ClosedLeaves` |
| `Sessions_main` | 1 user, 2 requests at once, 2 logins, 3 points in time, 2 processes, fair | `LoginStays`, `AnswersAreJustified`, `ExpiredKeysGo` |
| `RoleStore_retry`, `RoleLogin_fault`, `RoleLogin_reuse`, `Connections_twins` | smallest that shows it | one violated statement each, see [below](#what-the-models-say-about-the-code) |

Why the bounds are enough. *RoleStore*: one object is processed at a time, so a
second role adds only the interleaving of registrations with gathering and
removing, which the proofs cover for any number of roles. Three writes give one
before, in and after a flush, or a new role, a write of it, and another new role over
its documents; the documents are the code's three, of which two may fail. The run has
417,543 states. *Server*: five objects in batches of two make a flush pause twice. In tests a
second start lets one manager be started and stopped again, up to the panic of its
second `Stop`; the program starts it once. One bit says that there are requests, for
only that matters to `Shutdown`. *RankManager*: an eviction needs one key
more than the capacity; a login offers score 0 and a record score 1, so one key can
be marked with two scores; ties for the last place occur. To miss one of the best
takes three scores: one turned away between a better one that is lost and a lower new
record. `Bound`, the run's constraint, keeps that small: with scores up to 1 two
handlers do anything; a score of 2, or a role that came back with less, is met by one
handler at a time and without failed updates, or by two handlers of one role before the
first flush. Without its exceptions for `behind` or `shared`, `BoardIsTopN` is violated
within these bounds (1,543,987 states). *RoleLogin*: races between
logins are pairwise; three ids allow an id to be lost and another handed out. The item
and the watermelon document are treated alike, so one stands for both beside the role
document. `Bound` joins two halves: two sessions, three ids, saves and restarts
without progress or a fault; and everything else with one session at a time, two
users, two ids and the leaderboard not saved. Faults beside concurrent logins are left
to the proofs, which have no bounds. One fault is any of the updates or reads; without
the exception for `misread`, or without that for `unrecorded`, `SavedProgressKept` and
`RoleComesBack` are violated within these bounds (829,137 states). Progress of one unit
per document is there or lost.
*Watermelon*: three falls allow a chain of two merges (1+1, then 2+2) and every item.
Levels, lists and weights are those of `cfg_data/` in small: two drawable levels of
three, the first worth nothing. *SortedSet*: with three nodes and three levels a new
or unlinked node has neighbours lower, higher and as high, and a removed range may
start, end or lie in the middle; the fourth key makes the set evict; scores tie. The
bounds of ranges are both scores and a value between them. Numbers go from beyond
minus the length, so that they wrap, to beyond the end. Three entries on pages of two
leave the last page full or not. *Connections*: kicks are between pairs; two requests
let a connection change its user's name, or log in and play (278,431 states). *Sessions*: keys of
different users never meet; two logins and two requests make a login overtake a check
or the clean-up, and a key that lasts one unit of time expires, is renewed and expires
again within three; the proof covers any numbers. The bounds on failures make each
failure a distinct event; they are enough for a failure before, in and after a race.

Deadlock is checked except where a model really stops: in `Server` when the process
has ended, in `RoleLogin` where sessions wait at the bound on ids, in `Connections`
when all connections are gone, and in `Sessions` at the bound on time.

## Fairness

- `RoleStore`: the run goroutine goes on and its ticker keeps firing (weak
  fairness on its steps). `Take` and `SaveClone` wait for a read lock; Go's
  `sync.RWMutex` admits waiting readers when a writer unlocks, so handlers cannot
  starve the flush (strong fairness). A handler that holds the lock goes on.
  Nobody has to write, stop or crash, and an update may fail each time the bound
  allows.
- `Server`: goroutines that can go on do, `main` among them: `app.Shutdown` returns
  once no request is under way, and disconnecting has a time limit. Nothing is assumed
  of the requests: `main.go:168` sets no read or idle timeout and a login asks WeChat
  without one (`wechat.go:38`), so one of them may hold up the shutdown for ever.
  `SignalEnds` says that nothing else does. Nor is anything assumed of the ticker, the
  pause between batches, connections or signals. Go's `select` picks among ready cases at
  random, so a closed stop channel is seen eventually (strong fairness on
  `StopSeen`).
- `Connections`: a connection's goroutine that can go on does; nothing is assumed
  of clients. A write has no deadline (`fw/def.go:37-41`), so it need not return while
  its connection is open: neither a kick's, which `Blocked` stands for and
  `ClosedLeaves` excepts, nor the answers of handlers and of `LoginRole`, which are
  asked to end only when their own connection is closed. Nothing is assumed of whether a
  request that has arrived is read before the closed socket is noticed, but there are
  finitely many. A writer that waits for
  the manager's mutex gets it, since `sync.RWMutex` lets no new reader pass it and
  requests are bounded (weak fairness).
- `Sessions`: the clean-up routine's ticker keeps firing and the routine goes on
  (weak fairness on its steps). Nobody has to log in, and a request may stop half way.

## Proofs

Each theorem holds for all values of the constants, from the assumption its module
names (bounds are numbers, a model value is not an element of the set it is told
from, and so on).

| Module | Theorem | States |
|---|---|---|
| `RoleStore_proof` | `TypeCorrect` | `Spec => []TypeOK` |
| | `NoUpdateLost` | `Spec => []DirtyIsFaithful` |
| | `FlaggedIsScheduled` | `Spec => []DirtyIsScheduled` |
| | `StopIsComplete` | `Spec => []StopSavesPending` |
| | `DatabaseMovesForward` | `Spec => DbForward` |
| | `Refinement` | `Spec => ImplementsWriteBehind` |
| `Sessions_proof` | `TypeCorrect`, `LoginsStay`, `AnswersJustified` | `[]TypeOK`, `[]LoginStays`, `[]AnswersAreJustified` |
| `Connections_proof` | `TypeCorrect`, `LaterLoginAlwaysKicks` | `[]TypeOK`, `[]LaterLoginKicks` |
| `Server_proof` | `TypeCorrect`, `StopIsQuiet`, `FlushesHaveDatabase`, `ShutdownIsSaved` | `[]ServerTypeOK`, `[]QuietAfterStop`, `[]FlushHasDatabase`, `[]ShutdownSaves`, if `main` is the only caller of `Start` and `Stop` |
| `RoleLogin_proof` | `TypeCorrect`, `IdentityKept`, `CreationGuarded` | `[]TypeOK`, `[]Identity`, `[]CreationIsGuarded` |
| | `ProgressKept`, `ComesBack` | `SavedProgressKept`, `RoleComesBack`: a failed read, and a first role document that was not saved, are the only ways to lose persisted progress |
| `RankManager_proof` | `TypeCorrect`, `BoardTopN`, `BoardSaved`, `MarkedRegistered` | `[]TypeOK`, `[]BoardIsTopN`, `[]BoardIsSaved`, `[]MarkedIsRegistered` |
| | `AddAnswers` | `AddTo` has an outcome in every reachable state |
| `Watermelon_proof` | `TypeCorrect`, `NeverDeadEnds`, `IdsStayInOrder`, `ScoreEarned`, `StockLimited` | `[]TypeOK`, `[]NoDeadEnd`, `[]IdsInOrder`, `[]ScoreIsEarned`, `[]StockIsLimited` |
| | `RepeatsChangeNothing`, `StageLimits` | `RepeatChangesNothing`, `StageLimitsDraws` |
| | `NextListDraws` | `MakeNextList` has an outcome for every game |
| `SortedSet_proof` | `TypeCorrect`, `ListOrdered`, `SpansRight` | `[]TypeOK`, `[]ListFollowsMap`, `[]SpansAreDistances` |
| | `QueriesRight`, `PagesRight` | `[]QueriesAgree`, `[]PagesCoverBoard` |
| | `Implements` | `Spec => ImplementsOrderedMap` |
| | `Invariance` | `[]IInv`: the list is a skip list of the map's entries |

*RoleStore.* `DirtyIsFaithful` is not inductive: while Save's copy is being sent, one must know
that memory still equals it or has been flagged again (`CopyIsFresh`), and a
flagged role stays scheduled only because the flush's own sets are consistent
(`FlushShape`: what is to be removed has been gathered). Together they are
`Accounted`, which is inductive. `StopSavesPending` needs in addition what the
final flush has not got to yet (`FinalFlushCovers`): a key registered before it is
still to be visited, gathered or being processed. `DbForward` and the refinement
follow from `VersionOrder`: for the documents still to be sent, the database is
not newer than the copy, and the copy not newer than memory. Handlers and the flush
are at work only on roles in memory (`InUse`), so that only a login brings one in.
(`DbForward` is no
property of the run: the abstract store says it too.)

*Sessions.* `LoginStays` is carried by three facts: the store has the last login's
entry or none (`StoreIsLast`), a request that is about to delete has read that entry
or its user is marked as overtaken (`ReadIsLast`), and so has the clean-up
(`ExpiredIsOld`, with what was expired when its round began). `AnswersAreJustified`
needs what the history must hold before the answer is given (`SeenIsTrue`): the way
the token stands now has been seen, and what `JudgeKey` is going to say rests on
something seen, or the key has been renewed.

*Connections.* `LaterLoginKicks` speaks of logins that are over. While one is under
way, each other connection of its user that did not overlap with it is still to be
looked at, or has been found and is still to be kicked, or is being told
(`WillBeKicked`); that overlaps are known to both sides (`OverlapIsKnown`) and that an
open connection is in the map unless a broadcast dropped it (`OpenIsListed`) make this
inductive.

*Server.* `OneRun`: there is at most one run goroutine, the wait group counts it, and
where `main` stands in `Start` or `Stop` says whether there is one. `MongoOrder` ties
that to the stages of `main`, and `LastFlush` says that a goroutine that has begun its
last flush has left only what came after the channel was closed. `UsesManager` shows
that the program takes only steps of `PersistManager`. With several callers
`QuietAfterStop` does not hold: `Stop` may return between another caller's mark and its
`go` statement.

*RoleLogin.* `Identity` rests on what a session between two of its steps knows: its
id is the one its user has in `userIdMap` (`SessionsKnowIds`), and an id drawn from
`lockNextId` but not stored yet is nobody else's (`IdsAreApart`). Together with
`RolesAreOwned` (a role, in memory or on disk, is found under its owner's id) these
survive a restart, since `lockNextId` restarts from the greatest persisted id.
`LocksAreHeld` and `RolesAreThere` say who builds a role and from when on it is in the
map; without them a second publication could replace a role in use. `BuiltIsOwn` is
about the role in hand, and `CopyIsEarlier` about the copy being saved. `MapIsAhead`
carries `SavedProgressKept`: of a role that is neither in `misread` nor in `unrecorded`
memory and the copy have at least the progress of each document. It needs
`RecordedFirst`: such a role has its role document before it has any other, since that
update comes first, so that it is made anew only when there is nothing of it at all;
`RoleComesBack` follows from the same.

*RankManager.* `BoardIsSaved` speaks of a quiet moment; on the way there the newest
score of an entry may be in the dirty list, in the list `Save` has taken, in the
database, or in the hands of a handler about to mark it (`NewestIsMarked`). That needs
what a handler has in hand (`HandIsRight`), that no score is above the role's own
unless the role is in `behind` (`ScoresAreReal`), and that two handlers of one role are in `shared`
(`ServingIsKnown`). `BestAreIn` says of the set what `BoardIsTopN` says, and that it is
finite: keys may be infinitely many. `LoadingIsAlone`: while the board is loaded nobody
else is at work.

*Watermelon.* `NoDeadEnd` and `IdsInOrder` hold because the list is long enough to
survive a fall, and empty only before the first one (`ListIsLong`); `NextListFits`
says what makeNextList does to a list that fits the game. That a repeated request is
refused needs what the server has done with it (`LastIsDone`): it has the reported
board, so a merge no longer accounts for the missing fruits, and the fruit is the last
that fell. `After`, the boards merges lead to, and `Worth`, the points of a game, are
recursive functions; that they satisfy their recursion, that merges leave a board
without new ids, and that the worth of two lots of merges is the sum of theirs
(`WorthAdds`, from which `ScoreIsEarned`) is proved by looking at the least number for
which it fails.

*SortedSet.* That spans are distances is not inductive by itself, nor is that links
follow the order: unlinking a node repairs the links and spans in `update[]` only, which
is right only if `update[]` has on every level the last node before it, and that is
found by walking the links. `IInv` says that the entries can be given numbers `p`
without a gap (`Numbered`), in their order (`Sorted`), such that on each level a link
leads to the next entry of that level and its span is the difference of their numbers
(`Linked`), the backward links lead through the numbers from the tail (`BackFits`),
and heights are as they should be (`Shaped`). The program has no such numbers; the proof
of each operation gives those after it: `With` moves up the numbers behind a new entry,
`Without` those behind one that went. The argument goes in this order.

1. A loop whose turns make a bounded number grow is over after as many turns as the
   bound (`LoopEnds`); `Down` exists and stops where its walks do (`DownStops`).
2. A walk over entries that come first, whatever the condition that tells them, stops on
   each level at the last of them, with the right number in `rank[]` (`PathStops`,
   `RankPathStops`). The entries before a score and key, or before and not beyond a range
   of scores, come first (`FirstOnes`, `PlaceFound`, `RangeBounds`).
3. `zslDeleteNode` there takes one entry out (`DeleteNodeFits`), the removal loops take
   out just the entries from one number to another though `update[]` stays the same
   throughout (`DeleteWhileFits`), and `zslInsert` puts one in at its place for any
   height (`InsertFits`).
4. With the map beside the list, each operation keeps `IInv` and is a step of
   `OrderedMap` (`StepHolds`): `Order` there, a `CHOOSE` by cardinalities, is the order
   of the numbers (`OrderFound`).
5. In every state with `IInv` the queries agree with that order: `RankFound`,
   `DataFound`, `RangeFound` for any two integers and from either end, `EndsFound` and
   `ScoresAgree` for ranges of scores, also for one that has none, where
   `zslFirstInRange` may find an entry beyond it; and `PageFound` for the pages.

The proof showed that `Word` must exceed twice the number of entries by a few: a rank
below minus the length, taken as unsigned, must not come out as the rank of an entry.

That argument stands for induction in all four modules: from `WFMin` and
`NatLessThanWellFounded` of the library a set of numbers has a least element, which
needs no induction theorem. `Max` of a bounded set is characterised in the same way.

Only model-checked: liveness (`EventuallySaved`, `StopReturns`, `SignalEnds`,
`ClosedLeaves`, `ExpiredKeysGo`), which needs `ENABLED`. Every safety property, action
property and refinement that a passing run checks is proved. `DbForward` and
`StockIsLimited` are proved only; no run spends time on them.

## What the models say about the code

Each of these is a run whose property TLC refutes.

1. `RoleStore_retry`: a failed update sets `dirty` again, but the role has left
   `pendingObjects` and nobody registers it, so the next pass does not retry it
   (`role/base.go:107-112` says it does). The next write of the role does.
2. `RoleLogin_fault`: an error while reading a role is taken for "no data", and a
   new role replaces a persisted one (`role/base.go:201, 411`).
3. `RoleLogin_reuse`: a role that never writes is persisted on the leaderboard
   only; after a restart its id is given to a new user (`role/base.go:379`).
4. `Connections_twins`: of two connections that authenticate as one user at the
   same time neither sees the other, because each looks for others before it takes
   the name, and both stay (`websocket.go:107, 450-457`). `LaterLoginKicks` says
   that, but for a failed broadcast, this is the only way.

Seen while modelling, without a run of its own:

- the three updates of a role fail one by one. If that of a new role's role document
  fails and the others do not, then after a restart there is no role to load
  (`role/base.go:407-409`): a role with nothing in it is played, and saved over the
  item and watermelon documents. `SavedProgressKept` and `RoleComesBack` say that this,
  and finding 2, are the only ways to lose persisted progress. A crash between the
  three updates leaves documents of different writes, and nothing notices;
- after a crash a role may have less than the leaderboard shows for it. Its next new
  record, though lower, replaces the entry (`zset.go:657-665`), and a better score that
  was turned away meanwhile is missing (`rank/manager.go:242`);
- a kick writes to the old connection, without a deadline, before it closes it
  (`websocket.go:115-119`): a client that reads nothing keeps the new login waiting,
  and the waiting connection in the map when it hangs up. `ClosedLeaves` says that
  nothing else does;
- `app.Shutdown` waits for a request that is never finished (`main.go:168, 296`), and
  the deferred `Stop` with it;
- a broadcast that fails unregisters a connection and leaves it open
  (`websocket.go:164`), so that a later login does not kick it; nothing calls the
  broadcasts;
- `TopN(n)`, said to return "the items of topN" (`zset.go:849`), returns one more, since
  the end of a range is included; "zset top 10" in `fw/mdzset/readme.md:143` lists
  eleven. Only tests call it, and it is not modelled: it is a range from 0 to n, of
  which `QueriesAgree` speaks;
- the leaderboard's `OnFailure` puts the failed item over a newer one marked
  meanwhile, and does not register the manager (`rank/manager.go:118`);
- two handlers of one role may update the set and the dirty list in different
  orders (`rank/manager.go:205`), or lower a score (`watermelon/logic.go:405`);
- a manager that is started and stopped again closes one channel twice and panics
  (`persist.go:113`); `main` stops it once;
- `TestStartStopConcurrency` (`persist_test.go:149-169`) starts and stops one manager
  from twenty goroutines: whether it panics depends on their order;
- a new role is published before `initRole` names it (`role/base.go:203`), so that a
  second login of its user may answer with, or have saved, a role without a name;
- a listener that fails ends the process with `os.Exit`, which skips the deferred
  `Stop`: what is registered then is lost (`main.go:299-301`); and what WebSocket
  connections change after the last flush has begun is lost in any shutdown;
- an expired session key is deleted by user after it was read, by a check
  (`auth.go:83`) or by the clean-up (`:174`): a key stored in between goes too, and
  its token is refused until the next login. `ParseToken` is said to check the
  device (`:109`); it returns it. Two logins of one user may store their keys in
  another order than WeChat gave them out (`handlers.go:72-84`);
- a page of the leaderboard has one entry more than `NumPerPage`, the first of the
  next page (`watermelon/logic.go:641`); page number `TotalPage` is not refused, but
  empty;
- `zslFirstInRange` may return an entry beyond a range that has none
  (`zset.go:342`); `Count` and `RangeByScore` still come out right;
- `Start` hands out new items whenever the board is empty, also in mid-game after
  the last fruit was erased (`watermelon/logic.go:179`); the step to stage 1 does
  not change a full list (`:390`), and `End` keeps the stage (`:416`); a `UseItem`
  that is sent again counts again (`:472`);
- operations of the sorted set that the game does not call: `RemoveRangeByRank`
  with a number below minus the length wraps around (`zset.go:956`), `UpdateF2` and
  `UpdateF3` ignore an update whose values are all zero, SET included (`:704, 733`),
  `RangeByScore` takes the read lock twice, and `RemoveRangeByScore` and `SetData`
  write under it (`:921, 860, 960`), although `fw/mdzset/readme.md:6, 25` calls the
  set safe for concurrent use;
- `Model.Rank` asks for the length, the page and the player's own rank under three
  locks, so that its answer may mix three states of the board.

## Not modelled

- `ReadRole`, `AlterName`, `AlterFace`, `AlterStep`, `BugFeedback`, queries of the
  leaderboard's manager: no state of interest changes (the `Alter` handlers are writes
  of a role as `RoleStore` has them).
- The FSM library, the Redis wrapper and the component framework: nothing in the
  program uses them.
- Packet statistics, which are only logged, and the registry of messages, which is
  filled once.
- The web framework: routing, headers, limits of requests per address. `AuthRequired`
  is modelled as a check of a token, though its routes are commented out.
- Of the sorted set: attachments, `TopN`, `zslDeleteRangeByLex`, and the locking of the
  operations named above. Scores of several dimensions are compared as one number is.
- The exported `Flush`, which only tests call.
- Values read from the configuration are constants; generated messages and tables and
  the test client keep no changing state.
- MongoDB beyond "applied, failed, or failed after having been applied"; lost
  acknowledged writes are outside the program's control.
- Roles and leaderboard under one flush: each model loses at a crash what that part
  loses. `RankManager` lets a role come back with any lower `HistoryScore`, whatever
  `RoleStore` would have saved, and nothing in the code relates the two afterwards
  except `RefreshEntry`, which keeps the score the board has.

## Plan

1. Done: RoleStore with WriteBehind, PersistManager with Server, RankManager,
   RoleLogin, Watermelon, SortedSet with OrderedMap, Connections, Sessions; proofs of
   every safety property that a passing run checks.
2. A composition of RoleStore and RankManager under one flush, should the code come to
   relate `HistoryScore` and the board after a crash.
