----------------------------- MODULE RankManager -----------------------------
(***************************************************************************)
(* The leaderboard (rank/manager.go) over mdzset.SortedSet, fed by the     *)
(* handlers that set a new record (watermelon/logic.go, Sync) and by       *)
(* logins (role/base.go, LoginRole), and saved through the PersistManager. *)
(*                                                                         *)
(* The sorted set locks each of its operations, so each is one atomic step *)
(* here; Manager's own methods take no lock across them.  A score stands   *)
(* for the pair (score, -time of the record) and is compared as a number;  *)
(* the attachment is left out: it travels with the score.                  *)
(***************************************************************************)
EXTENDS Integers, FiniteSets

CONSTANTS Keys,      \* role ids
          Handlers,  \* goroutines serving connections
          Capacity,  \* Config.Capacity
          MaxScore,  \* bound: highest score
          MaxFails,  \* bound: failed UpdateOne calls
          NoKey

ASSUME RankManagerAssumption ==
    /\ Capacity \in Nat \ {0}
    /\ MaxScore \in Nat
    /\ MaxFails \in Nat
    /\ NoKey \notin Keys

Absent == -1                     \* no entry
Entry  == Absent..MaxScore
Empty  == [k \in Keys |-> Absent]

VARIABLES
    history,    \* HistoryScore of the role, guarded by its rwLock
    roleLock,   \* rwLock is held by a LoginRole
    rank,       \* Manager.rank: score of each key in the set
    dirtyItems, \* Manager.dirtyItems
    dirty,      \* Manager.dirty
    pending,    \* the manager is in PersistManager.pendingObjects
    db,         \* collection "rank"
    at,         \* where each handler is
    key,        \* the role each handler is serving
    score,      \* the score each handler has in hand
    saver,      \* where the flush is with this object
    list,       \* the SaveData the flush has still to send
    unread,     \* LoadFromMongo: documents the cursor has still to return
    added,      \* history: score last offered to the set for each key
    shared,     \* history: roles that two handlers have served at once
    behind,     \* history: roles that came back with less than the board had saved
    overwritten,\* history: keys whose newer item an OnFailure has replaced
    stranded,   \* history: an OnFailure has flagged the board since it was registered
    fails       \* model only: failed updates so far

handlerVars == <<at, key, score>>
saveVars == <<saver, list>>
dirtyVars == <<dirtyItems, dirty, pending>>
lost == <<behind, overwritten, stranded, fails>>
vars == <<history, roleLock, rank, dirtyVars, db, handlerVars, saveVars,
          unread, added, shared, lost>>

Present(set) == {k \in Keys : set[k] # Absent}

\* zslGetElementByRank(length): the last entry in the order of the set.  Among
\* equal scores the order is that of the keys, which is arbitrary here.
Last(set) == {k \in Present(set) : \A j \in Present(set) : set[k] <= set[j]}

\* Mutant of AddTo: the capacity check is off by one.
AddTo_OneMore(set, k, s) ==
    IF k \in Present(set) \/ Cardinality(Present(set)) <= Capacity
    THEN {[set EXCEPT ![k] = s]}
    ELSE {IF set[j] >= s THEN set ELSE [set EXCEPT ![j] = Absent, ![k] = s] :
             j \in Last(set)}

\* SortedSet.Add: a known key gets the new score; when the set is full a new key
\* replaces the last entry only if it is better, and is dropped otherwise.
AddTo(set, k, s) ==
    IF k \in Present(set) \/ Cardinality(Present(set)) < Capacity
    THEN {[set EXCEPT ![k] = s]}
    ELSE {IF set[j] >= s THEN set ELSE [set EXCEPT ![j] = Absent, ![k] = s] :
             j \in Last(set)}

Init ==
    /\ history = [k \in Keys |-> 0]
    /\ roleLock = [k \in Keys |-> FALSE]
    /\ rank = Empty /\ dirtyItems = Empty /\ db = Empty
    /\ dirty = FALSE /\ pending = FALSE
    /\ at = [h \in Handlers |-> "idle"]
    /\ key = [h \in Handlers |-> NoKey]
    /\ score = [h \in Handlers |-> Absent]
    /\ saver = "idle" /\ list = Empty
    /\ unread = {}
    /\ added = Empty /\ shared = {} /\ behind = {}
    /\ overwritten = {} /\ stranded = FALSE
    /\ fails = 0

Goto(h, l) == at' = [at EXCEPT ![h] = l]

Done(h) ==
    /\ Goto(h, "idle")
    /\ key' = [key EXCEPT ![h] = NoKey]
    /\ score' = [score EXCEPT ![h] = Absent]

\* Connections are accepted once the board is loaded.  A login kicks the role's
\* other connections, but does not wait for what their handlers are doing.
Serve(h, k) ==
    /\ at[h] = "idle"
    /\ unread = {}
    /\ ~roleLock[k]
    /\ key' = [key EXCEPT ![h] = k]
    /\ shared' = IF \E g \in Handlers : key[g] = k THEN shared \union {k} ELSE shared

-----------------------------------------------------------------------------
(* Callers.                                                                 *)

\* Sync sets a new record under the role's lock; the board is updated after the
\* lock has been released.
NewRecord(h, k) ==
    /\ Serve(h, k)
    /\ \E s \in Entry :
          /\ s > history[k]
          /\ history' = [history EXCEPT ![k] = s]
          /\ score' = [score EXCEPT ![h] = s]
    /\ Goto(h, "add")
    /\ UNCHANGED <<roleLock, rank, dirtyVars, db, saveVars, unread, added, lost>>

\* LoginRole holds the role's lock while RefreshEntry runs.
Login(h, k) ==
    /\ Serve(h, k)
    /\ roleLock' = [roleLock EXCEPT ![k] = TRUE]
    /\ score' = [score EXCEPT ![h] = history[k]]
    /\ Goto(h, "contains")
    /\ UNCHANGED <<history, rank, dirtyVars, db, saveVars, unread, added, lost>>

-----------------------------------------------------------------------------
(* RefreshEntry.                                                            *)

\* Contains, then UpdateAttachment (which touches no score) for a present key;
\* an absent one is added with its history.  The history of a role that never
\* scored is not "all zero": its second dimension is the time of the login.
RefreshContains(h) ==
    /\ at[h] = "contains"
    /\ Goto(h, IF key[h] \in Present(rank) THEN "score" ELSE "add")
    /\ UNCHANGED <<history, roleLock, rank, dirtyVars, db, key, score, saveVars,
                   unread, added, shared, lost>>

\* Mutant of RefreshScore: the entry is taken to be still there.
RefreshScore_Unchecked(h) ==
    /\ at[h] = "score"
    /\ score' = [score EXCEPT ![h] = rank[key[h]]]
    /\ Goto(h, "item")
    /\ UNCHANGED <<key, roleLock, history, rank, dirtyVars, db, saveVars, unread, added,
                   shared, lost>>

\* Score: the entry may have been evicted since.
RefreshScore(h) ==
    /\ at[h] = "score"
    /\ \/ /\ key[h] \in Present(rank)
          /\ score' = [score EXCEPT ![h] = rank[key[h]]]
          /\ Goto(h, "item")
          /\ UNCHANGED <<key, roleLock>>
       \/ /\ key[h] \notin Present(rank)
          /\ Done(h)
          /\ roleLock' = [roleLock EXCEPT ![key[h]] = FALSE]
    /\ UNCHANGED <<history, rank, dirtyVars, db, saveVars, unread, added, shared, lost>>

-----------------------------------------------------------------------------
(* Add and markDirty.                                                       *)

\* rank.Add, from Manager.Add or RefreshEntry; the item is marked dirty even if
\* the set has dropped it.
SetAdd(h) ==
    /\ at[h] = "add"
    /\ rank' \in AddTo(rank, key[h], score[h])
    /\ added' = [added EXCEPT ![key[h]] = score[h]]
    /\ Goto(h, "item")
    /\ UNCHANGED <<history, roleLock, dirtyVars, db, key, score, saveVars, unread,
                   shared, lost>>

MarkItem(h) ==
    /\ at[h] = "item"
    /\ dirtyItems' = [dirtyItems EXCEPT ![key[h]] = score[h]]
    /\ overwritten' = overwritten \ {key[h]}
    /\ Goto(h, "flag")
    /\ UNCHANGED <<history, roleLock, rank, dirty, pending, db, key, score, saveVars,
                   unread, added, shared, behind, stranded, fails>>

MarkFlag(h) ==
    /\ at[h] = "flag"
    /\ dirty' = TRUE
    /\ Goto(h, "register")
    /\ UNCHANGED <<history, roleLock, rank, dirtyItems, pending, db, key, score,
                   saveVars, unread, added, shared, lost>>

\* AddPendingObject; a login releases the role's lock.
MarkRegister(h) ==
    /\ at[h] = "register"
    /\ pending' = TRUE
    /\ stranded' = FALSE
    /\ roleLock' = [roleLock EXCEPT ![key[h]] = FALSE]
    /\ Done(h)
    /\ UNCHANGED <<history, rank, dirtyItems, dirty, db, saveVars, unread, added, shared,
                   behind, overwritten, fails>>

Mark(h) == MarkItem(h) \/ MarkFlag(h) \/ MarkRegister(h)

-----------------------------------------------------------------------------
(* The flush (see RoleStore) and Save.                                      *)

FlushTake ==
    /\ saver = "idle"
    /\ unread = {}
    /\ pending
    /\ pending' = FALSE
    /\ saver' = "cas"
    /\ UNCHANGED <<history, roleLock, rank, dirtyItems, dirty, db, handlerVars, list,
                   unread, added, shared, lost>>

SaveCas ==
    /\ saver = "cas"
    /\ saver' = IF dirty THEN "swap" ELSE "idle"
    /\ dirty' = FALSE
    /\ UNCHANGED <<history, roleLock, rank, dirtyItems, pending, db, handlerVars, list,
                   unread, added, shared, lost>>

SaveSwap ==
    /\ saver = "swap"
    /\ list' = dirtyItems
    /\ dirtyItems' = Empty
    /\ saver' = "send"
    /\ UNCHANGED <<history, roleLock, rank, dirty, pending, db, handlerVars, unread,
                   added, shared, lost>>

SendOk(k) ==
    /\ saver = "send"
    /\ list[k] # Absent
    /\ db' = [db EXCEPT ![k] = list[k]]
    /\ list' = [list EXCEPT ![k] = Absent]
    /\ UNCHANGED <<history, roleLock, rank, dirtyVars, handlerVars, saver, unread,
                   added, shared, lost>>

\* OnFailure puts the item back, over whatever has been marked meanwhile.
SendFail(k) ==
    /\ saver = "send"
    /\ list[k] # Absent
    /\ fails < MaxFails
    /\ fails' = fails + 1
    /\ db' \in {db, [db EXCEPT ![k] = list[k]]}
    /\ dirtyItems' = [dirtyItems EXCEPT ![k] = list[k]]
    /\ dirty' = TRUE
    /\ overwritten' = IF dirtyItems[k] \in {Absent, list[k]} THEN overwritten
                      ELSE overwritten \union {k}
    /\ stranded' = TRUE
    /\ list' = [list EXCEPT ![k] = Absent]
    /\ UNCHANGED <<history, roleLock, rank, pending, handlerVars, saver, unread, added,
                   shared, behind>>

\* Mutant of SendDone: the object is unregistered after it is saved, not before.
SendDone_Unregisters ==
    /\ saver = "send"
    /\ list = Empty
    /\ saver' = "idle"
    /\ pending' = FALSE
    /\ UNCHANGED <<history, roleLock, rank, dirtyItems, dirty, db, handlerVars, list,
                   unread, added, shared, lost>>

\* Mutant of SendDone: the flag is cleared once everything has been sent.
SendDone_Clears ==
    /\ saver = "send"
    /\ list = Empty
    /\ saver' = "idle"
    /\ dirty' = FALSE
    /\ UNCHANGED <<history, roleLock, rank, dirtyItems, pending, db, handlerVars, list,
                   unread, added, shared, lost>>

SendDone ==
    /\ saver = "send"
    /\ list = Empty
    /\ saver' = "idle"
    /\ UNCHANGED <<history, roleLock, rank, dirtyVars, db, handlerVars, list, unread,
                   added, shared, lost>>

-----------------------------------------------------------------------------
(* Restart: Init calls LoadFromMongo before anything else runs.             *)

\* The board starts empty and is filled document by document.  The roles are saved
\* by themselves, each when it is (see RoleStore), and read when they log in: a
\* HistoryScore comes back as some score the role has had, perhaps a lower one
\* than the board has saved for it, and as 0 when the role cannot be read.
Restart ==
    /\ history' \in [Keys -> 0..MaxScore]
    /\ \A k \in Keys : history'[k] <= history[k]
    /\ behind' = {k \in Keys : history'[k] < db[k]}
    /\ rank' = Empty /\ added' = Empty /\ dirtyItems' = Empty /\ list' = Empty
    /\ dirty' = FALSE /\ pending' = FALSE
    /\ roleLock' = [k \in Keys |-> FALSE]
    /\ at' = [h \in Handlers |-> "idle"]
    /\ key' = [h \in Handlers |-> NoKey]
    /\ score' = [h \in Handlers |-> Absent]
    /\ saver' = "idle"
    /\ unread' = Present(db)
    /\ shared' = {}
    /\ overwritten' = {} /\ stranded' = FALSE
    /\ UNCHANGED <<db, fails>>

Load(k) ==
    /\ k \in unread
    /\ unread' = unread \ {k}
    /\ rank' \in AddTo(rank, k, db[k])
    /\ added' = [added EXCEPT ![k] = db[k]]
    /\ UNCHANGED <<history, roleLock, dirtyVars, db, handlerVars, saveVars, shared,
                   lost>>

-----------------------------------------------------------------------------
Next ==
    \/ \E h \in Handlers :
          \/ \E k \in Keys : NewRecord(h, k) \/ Login(h, k)
          \/ RefreshContains(h) \/ RefreshScore(h)
          \/ SetAdd(h) \/ Mark(h)
    \/ FlushTake \/ SaveCas \/ SaveSwap \/ SendDone
    \/ \E k \in Keys : SendOk(k) \/ SendFail(k) \/ Load(k)
    \/ Restart

Spec == Init /\ [][Next]_vars

-----------------------------------------------------------------------------
(* Properties.                                                              *)

TypeOK ==
    /\ history \in [Keys -> 0..MaxScore]
    /\ roleLock \in [Keys -> BOOLEAN]
    /\ {rank, dirtyItems, db, list, added} \subseteq [Keys -> Entry]
    /\ dirty \in BOOLEAN /\ pending \in BOOLEAN
    /\ at \in [Handlers -> {"idle", "add", "contains", "score", "item", "flag",
                            "register"}]
    /\ key \in [Handlers -> Keys \union {NoKey}]
    /\ score \in [Handlers -> Entry]
    /\ \A h \in Handlers : at[h] # "idle" => key[h] \in Keys /\ score[h] # Absent
    /\ saver \in {"idle", "cas", "swap", "send"}
    /\ unread \in SUBSET Keys
    /\ shared \subseteq Keys /\ behind \subseteq Keys /\ overwritten \subseteq Keys /\ stranded \in BOOLEAN
    /\ fails \in 0..MaxFails

\* The set holds the best Capacity scores offered to it (zset.go:651-685,
\* manager.go:138-179, 205-262): an entry shows the score last offered for its
\* key, and a key that was dropped or evicted on the way is beaten or equalled
\* by every entry of a full set, also after a restart has reloaded everything
\* the database holds, evicted entries included.  There are two ways to miss one of
\* the best: Add takes the score it is given for a known key (zset.go:657-665), so
\* that two handlers of one role, or a crash that lost a HistoryScore which the
\* board had saved, may lower an entry, after a better score has been turned away.
BoardIsTopN ==
    /\ Cardinality(Present(rank)) <= Capacity
    /\ \A k \in Present(rank) : rank[k] = added[k]
    /\ shared \union behind = {} =>
          \A k \in Present(added) \ Present(rank) :
             /\ Cardinality(Present(rank)) = Capacity
             /\ \A j \in Present(rank) : rank[j] >= added[k]

Quiet == /\ \A h \in Handlers : at[h] = "idle"
         /\ saver = "idle"
         /\ unread = {}

\* When nobody is at work and nothing is flagged, the database has the score of
\* every entry, also after failed updates (manager.go:90-135, 182-262): Save's
\* claim-then-swap loses no item that a handler marks beside it, an OnFailure puts
\* back what it should, and items reach the database in the order of the scores in
\* the set.  There are two ways to miss a score: two handlers serve the role at
\* once, or an update fails after a newer item of the key has been marked, which
\* OnFailure then replaces with the old one (manager.go:117-123).
BoardIsSaved ==
    Quiet /\ ~dirty =>
        \A k \in Present(rank) \ (shared \union overwritten) : db[k] = rank[k]

\* What is marked is also registered with the PersistManager, or about to be,
\* unless an OnFailure, which does not register the board, has flagged it since it
\* was last registered (manager.go:117-123, 195-200).
MarkedIsRegistered ==
    dirty => \/ pending \/ saver = "cas" \/ stranded
             \/ \E h \in Handlers : at[h] = "register"
=============================================================================
