------------------------------ MODULE RoleLogin ------------------------------
(***************************************************************************)
(* Who a user is: role.Mgr gives each user a role id, finds or builds the  *)
(* Role of that id, and rebuilds its maps from MongoDB after a restart     *)
(* (role/base.go: getRoleIdOrCreate, LoginRole, loadInfoFromMongo,         *)
(* LoadFromMongo).  userIdMap and roleMap are concurrent maps: each of     *)
(* their operations is one atomic step, and LoginRole is cut at them, at   *)
(* the per-user lock and at the read from MongoDB.                         *)
(*                                                                         *)
(* A role is reduced to its owner and whether initRole has named it, which *)
(* are in the role's own document, and to the progress that the documents  *)
(* of play (item and watermelon in the code) hold.  WriteRole marks a role, *)
(* and some time later the flush copies it and updates its documents one   *)
(* by one (RoleStore has the flush itself).  The leaderboard, told of      *)
(* every login, is saved on its own (RankManager).                         *)
(***************************************************************************)
EXTENDS Integers, FiniteSetsExt

CONSTANTS Users,
          Sessions,     \* goroutines serving connections
          RoleDoc,      \* the document that makes a role known
          PlayDocs,     \* the other documents of a role
          MaxId,        \* bound: role ids
          MaxProgress,  \* bound: progress of a role in each document
          MaxFaults,    \* bound: reads of roles and updates that fail
          Nobody

ASSUME RoleLoginAssumption ==
    /\ MaxId \in Nat
    /\ MaxProgress \in Nat
    /\ MaxFaults \in Nat
    /\ Nobody \notin Users \union Sessions
    /\ RoleDoc \notin PlayDocs

Ids == 1..MaxId

Progress == [PlayDocs -> 0..MaxProgress]
NoProgress == [d \in PlayDocs |-> 0]

Role == [owner : Users, named : BOOLEAN, progress : Progress]
NoRole == [owner |-> Nobody, named |-> FALSE, progress |-> NoProgress]

Doc == [owner : Users, named : BOOLEAN]
NoDoc == [owner |-> Nobody, named |-> FALSE]

VARIABLES
    lockNextId, \* Mgr.lockNextId
    userIdMap,  \* Mgr.userIdMap: 0 for no entry
    roleMap,    \* Mgr.roleMap: NoRole for no entry
    userLock,   \* holder of the user's mutex in userLoginLocks
    at,         \* where each session is
    user,       \* the user each session logs in
    roleId,     \* its local roleId (newRoleId until the map has been asked)
    loaded,     \* its local v, between building it and publishing it
    unsaved,    \* roles written since they were last copied to be saved
    saving,     \* flush: the role being saved, 0 for none
    copy,       \* flush: the copy of it that Save has taken
    todo,       \* flush: its documents that are still to be updated
    doc,        \* the persisted role documents: NoDoc for none
    saved,      \* the persisted progress: 0 for no document as well
    board,      \* leaderboard in memory: ids with an entry
    boardDoc,   \* the persisted leaderboard
    misread,    \* history: roles with a role document that a read failed for
    unrecorded, \* history: roles whose first role document failed to be saved
    faults      \* model only: failed reads and updates so far

sessionVars == <<at, user, roleId, loaded>>
saveVars == <<saving, copy, todo>>
dbVars == <<doc, saved, boardDoc>>
faultVars == <<misread, unrecorded, faults>>
storeVars == <<unsaved, saving, copy, todo, doc, saved, board, boardDoc>>
vars == <<lockNextId, userIdMap, roleMap, userLock, sessionVars, storeVars, faultVars>>

Init ==
    /\ lockNextId = 0
    /\ userIdMap = [u \in Users |-> 0]
    /\ roleMap = [i \in Ids |-> NoRole]
    /\ userLock = [u \in Users |-> Nobody]
    /\ at = [s \in Sessions |-> "out"]
    /\ user = [s \in Sessions |-> Nobody]
    /\ roleId = [s \in Sessions |-> 0]
    /\ loaded = [s \in Sessions |-> NoRole]
    /\ unsaved = {}
    /\ saving = 0 /\ copy = NoRole /\ todo = {}
    /\ doc = [i \in Ids |-> NoDoc]
    /\ saved = [i \in Ids |-> NoProgress]
    /\ board = {} /\ boardDoc = {}
    /\ misread = {} /\ unrecorded = {} /\ faults = 0

Goto(s, l) == at' = [at EXCEPT ![s] = l]

-----------------------------------------------------------------------------
(* getRoleIdOrCreate.                                                       *)

FindId(s, u) ==
    /\ at[s] = "out"
    /\ user' = [user EXCEPT ![s] = u]
    /\ \/ /\ userIdMap[u] # 0
          /\ roleId' = [roleId EXCEPT ![s] = userIdMap[u]]
          /\ Goto(s, "get")
       \/ /\ userIdMap[u] = 0
          /\ Goto(s, "newId")
          /\ UNCHANGED roleId
    /\ UNCHANGED <<lockNextId, userIdMap, roleMap, userLock, loaded, storeVars, faultVars>>

NewId(s) ==
    /\ at[s] = "newId"
    /\ lockNextId < MaxId
    /\ lockNextId' = lockNextId + 1
    /\ roleId' = [roleId EXCEPT ![s] = lockNextId + 1]
    /\ Goto(s, "setId")
    /\ UNCHANGED <<userIdMap, roleMap, userLock, user, loaded, storeVars, faultVars>>

\* Mutant of SetId: Set instead of SetIfAbsent.
SetId_Overwrites(s) ==
    /\ at[s] = "setId"
    /\ userIdMap' = [userIdMap EXCEPT ![user[s]] = roleId[s]]
    /\ Goto(s, "get")
    /\ UNCHANGED <<lockNextId, roleMap, userLock, user, roleId, loaded, storeVars, faultVars>>

\* SetIfAbsent and Get: an id made for a user who has got one meanwhile is lost.
SetId(s) ==
    /\ at[s] = "setId"
    /\ \/ /\ userIdMap[user[s]] = 0
          /\ userIdMap' = [userIdMap EXCEPT ![user[s]] = roleId[s]]
          /\ UNCHANGED roleId
       \/ /\ userIdMap[user[s]] # 0
          /\ roleId' = [roleId EXCEPT ![s] = userIdMap[user[s]]]
          /\ UNCHANGED userIdMap
    /\ Goto(s, "get")
    /\ UNCHANGED <<lockNextId, roleMap, userLock, user, loaded, storeVars, faultVars>>

-----------------------------------------------------------------------------
(* LoginRole.                                                               *)

\* Mutant of GetRole: the role is taken to be in the map.
GetRole_Unchecked(s) ==
    /\ at[s] = "get"
    /\ Goto(s, "enter")
    /\ UNCHANGED <<lockNextId, userIdMap, roleMap, userLock, user, roleId, loaded,
                   storeVars, faultVars>>

\* A role that is in the map is used at once, without the user's lock.
GetRole(s) ==
    /\ at[s] = "get"
    /\ Goto(s, IF roleMap[roleId[s]] = NoRole THEN "lock" ELSE "enter")
    /\ UNCHANGED <<lockNextId, userIdMap, roleMap, userLock, user, roleId, loaded,
                   storeVars, faultVars>>

\* Take the user's lock and look again.
LockUser(s) ==
    /\ at[s] = "lock"
    /\ userLock[user[s]] = Nobody
    /\ userLock' = [userLock EXCEPT ![user[s]] = s]
    /\ Goto(s, IF roleMap[roleId[s]] = NoRole THEN "load" ELSE "unlock")
    /\ UNCHANGED <<lockNextId, userIdMap, roleMap, user, roleId, loaded, storeVars,
                   faultVars>>

\* newRole, before initRole.
FreshRole(u) == [owner |-> u, named |-> FALSE, progress |-> NoProgress]

\* The role as its documents have it; a missing document of play is an empty one.
Persisted(i) == [owner |-> doc[i].owner, named |-> doc[i].named, progress |-> saved[i]]

\* Mutant of LoadRole: a new role without asking MongoDB.
LoadRole_AlwaysNew(s) ==
    /\ at[s] = "load"
    /\ loaded' = [loaded EXCEPT ![s] = FreshRole(user[s])]
    /\ Goto(s, "publishNew")
    /\ UNCHANGED <<lockNextId, userIdMap, roleMap, userLock, user, roleId, storeVars, faultVars>>

\* loadInfoFromMongo returns nil, and a new role is built, both when there is no
\* role document, whatever others there are, and when one of the reads failed.
LoadRole(s) ==
    /\ at[s] = "load"
    /\ \/ /\ doc[roleId[s]] # NoDoc
          /\ loaded' = [loaded EXCEPT ![s] = Persisted(roleId[s])]
          /\ Goto(s, "publish")
          /\ UNCHANGED faultVars
       \/ /\ doc[roleId[s]] = NoDoc
          /\ loaded' = [loaded EXCEPT ![s] = FreshRole(user[s])]
          /\ Goto(s, "publishNew")
          /\ UNCHANGED faultVars
       \/ /\ doc[roleId[s]] # NoDoc
          /\ faults < MaxFaults
          /\ faults' = faults + 1
          /\ misread' = misread \union {roleId[s]}
          /\ loaded' = [loaded EXCEPT ![s] = FreshRole(user[s])]
          /\ Goto(s, "publishNew")
          /\ UNCHANGED unrecorded
    /\ UNCHANGED <<lockNextId, userIdMap, roleMap, userLock, user, roleId, storeVars>>

\* Mutant of Publish: a role that has just been published counts as complete.
Publish_NoInit(s) ==
    /\ at[s] \in {"publish", "publishNew"}
    /\ roleMap' = IF roleMap[roleId[s]] = NoRole
                  THEN [roleMap EXCEPT ![roleId[s]] = loaded[s]] ELSE roleMap
    /\ Goto(s, "unlock")
    /\ loaded' = [loaded EXCEPT ![s] = NoRole]
    /\ UNCHANGED <<lockNextId, userIdMap, userLock, user, roleId, storeVars, faultVars>>

\* roleMap.SetIfAbsent; a new role is initialised only after that.
Publish(s) ==
    /\ at[s] \in {"publish", "publishNew"}
    /\ LET absent == roleMap[roleId[s]] = NoRole IN
       /\ roleMap' = IF absent THEN [roleMap EXCEPT ![roleId[s]] = loaded[s]] ELSE roleMap
       /\ Goto(s, IF absent /\ at[s] = "publishNew" THEN "init" ELSE "unlock")
    /\ loaded' = [loaded EXCEPT ![s] = NoRole]
    /\ UNCHANGED <<lockNextId, userIdMap, userLock, user, roleId, storeVars, faultVars>>

\* initRole names the role, without its rwLock.
InitRole(s) ==
    /\ at[s] = "init"
    /\ roleMap' = [roleMap EXCEPT ![roleId[s]].named = TRUE]
    /\ Goto(s, "unlock")
    /\ UNCHANGED <<lockNextId, userIdMap, userLock, user, roleId, loaded, storeVars,
                   faultVars>>

UnlockUser(s) ==
    /\ at[s] = "unlock"
    /\ userLock' = [userLock EXCEPT ![user[s]] = Nobody]
    /\ Goto(s, "enter")
    /\ UNCHANGED <<lockNextId, userIdMap, roleMap, user, roleId, loaded, storeVars,
                   faultVars>>

\* Under the role's rwLock: RefreshEntry, and the callback, which copies the
\* role's base data into the answer to the client.
Enter(s) ==
    /\ at[s] = "enter"
    /\ board' = board \union {roleId[s]}
    /\ Goto(s, "in")
    /\ UNCHANGED <<lockNextId, userIdMap, roleMap, userLock, user, roleId, loaded,
                   unsaved, saveVars, dbVars, faultVars>>

Login(s) ==
    \/ \E u \in Users : FindId(s, u)
    \/ NewId(s) \/ SetId(s) \/ GetRole(s) \/ LockUser(s) \/ LoadRole(s)
    \/ Publish(s) \/ InitRole(s) \/ UnlockUser(s) \/ Enter(s)

-----------------------------------------------------------------------------
(* What a logged-in session does, saving, and restarts.                     *)

\* WriteRole, by a handler that may make progress or only change something else.
Play(s) ==
    /\ at[s] = "in"
    /\ \/ \E d \in PlayDocs :
             /\ roleMap[roleId[s]].progress[d] < MaxProgress
             /\ roleMap' = [roleMap EXCEPT ![roleId[s]].progress[d] = @ + 1]
       \/ UNCHANGED roleMap
    /\ unsaved' = unsaved \union {roleId[s]}
    /\ UNCHANGED <<lockNextId, userIdMap, userLock, sessionVars, saveVars, dbVars, board,
                   faultVars>>

Leave(s) ==
    /\ at[s] = "in"
    /\ Goto(s, "out")
    /\ user' = [user EXCEPT ![s] = Nobody]
    /\ roleId' = [roleId EXCEPT ![s] = 0]
    /\ UNCHANGED <<lockNextId, userIdMap, roleMap, userLock, loaded, storeVars, faultVars>>

\* Role.Save of a role that has been registered: a copy of it is taken.
SaveBegin(i) ==
    /\ saving = 0
    /\ i \in unsaved
    /\ unsaved' = unsaved \ {i}
    /\ saving' = i
    /\ copy' = roleMap[i]
    /\ todo' = {RoleDoc} \union PlayDocs
    /\ UNCHANGED <<lockNextId, userIdMap, roleMap, userLock, sessionVars, dbVars, board,
                   faultVars>>

\* What an update of document d writes.
Update(d) ==
    IF d = RoleDoc
    THEN /\ doc' = [doc EXCEPT ![saving] = [owner |-> copy.owner, named |-> copy.named]]
         /\ UNCHANGED saved
    ELSE /\ saved' = [saved EXCEPT ![saving][d] = copy.progress[d]]
         /\ UNCHANGED doc

\* The updates are independent of each other.  One that fails may have been
\* applied or not; the next one is sent all the same, and only another WriteRole
\* has the role saved again.
SendDoc(d) ==
    /\ \/ Update(d) /\ UNCHANGED faultVars
       \/ /\ faults < MaxFaults
          /\ faults' = faults + 1
          /\ Update(d) /\ UNCHANGED <<misread, unrecorded>>
       \/ /\ faults < MaxFaults
          /\ faults' = faults + 1
          /\ unrecorded' = IF d = RoleDoc /\ doc[saving] = NoDoc
                           THEN unrecorded \union {saving} ELSE unrecorded
          /\ UNCHANGED <<doc, saved, misread>>
    /\ todo' = todo \ {d}
    /\ IF todo' = {} THEN saving' = 0 /\ copy' = NoRole ELSE UNCHANGED <<saving, copy>>
    /\ UNCHANGED <<lockNextId, userIdMap, roleMap, userLock, sessionVars, unsaved, board,
                   boardDoc>>

\* Mutant of SaveDoc: the role document is the last.
SaveDoc_RoleLast(d) ==
    /\ d \in todo
    /\ d = RoleDoc => todo = {RoleDoc}
    /\ SendDoc(d)

\* The role document is the first.
SaveDoc(d) ==
    /\ d \in todo
    /\ RoleDoc \in todo => d = RoleDoc
    /\ SendDoc(d)

SaveBoard ==
    /\ boardDoc # board
    /\ boardDoc' = board
    /\ UNCHANGED <<lockNextId, userIdMap, roleMap, userLock, sessionVars, unsaved, saveVars,
                   doc, saved, board, faultVars>>

SavedIds == {i \in Ids : doc[i] # NoDoc}

\* Mgr.LoadFromMongo: the ids of the persisted roles, and no roles.
Restart ==
    /\ lockNextId' = IF SavedIds = {} THEN 0 ELSE Max(SavedIds)
    /\ userIdMap' = [u \in Users |->
                       IF \E i \in SavedIds : doc[i].owner = u
                       THEN CHOOSE i \in SavedIds : doc[i].owner = u
                       ELSE 0]
    /\ roleMap' = [i \in Ids |-> NoRole]
    /\ userLock' = [u \in Users |-> Nobody]
    /\ at' = [s \in Sessions |-> "out"]
    /\ user' = [s \in Sessions |-> Nobody]
    /\ roleId' = [s \in Sessions |-> 0]
    /\ loaded' = [s \in Sessions |-> NoRole]
    /\ unsaved' = {}
    /\ saving' = 0 /\ copy' = NoRole /\ todo' = {}
    /\ board' = boardDoc
    /\ UNCHANGED <<dbVars, faultVars>>

-----------------------------------------------------------------------------
Next ==
    \/ \E s \in Sessions : Login(s) \/ Play(s) \/ Leave(s)
    \/ \E i \in Ids : SaveBegin(i)
    \/ \E d \in {RoleDoc} \union PlayDocs : SaveDoc(d)
    \/ SaveBoard
    \/ Restart

Spec == Init /\ [][Next]_vars

-----------------------------------------------------------------------------
(* Properties.                                                              *)

TypeOK ==
    /\ lockNextId \in 0..MaxId
    /\ userIdMap \in [Users -> 0..MaxId]
    /\ roleMap \in [Ids -> Role \union {NoRole}]
    /\ userLock \in [Users -> Sessions \union {Nobody}]
    /\ at \in [Sessions -> {"out", "newId", "setId", "get", "lock", "load", "publish",
                            "publishNew", "init", "unlock", "enter", "in"}]
    /\ user \in [Sessions -> Users \union {Nobody}]
    /\ roleId \in [Sessions -> 0..MaxId]
    /\ loaded \in [Sessions -> Role \union {NoRole}]
    /\ unsaved \in SUBSET Ids
    /\ saving \in Ids \union {0}
    /\ copy \in Role \union {NoRole}
    /\ todo \in SUBSET ({RoleDoc} \union PlayDocs)
    /\ saving = 0 <=> todo = {}
    /\ doc \in [Ids -> Doc \union {NoDoc}]
    /\ saved \in [Ids -> Progress]
    /\ board \in SUBSET Ids /\ boardDoc \in SUBSET Ids
    /\ misread \in SUBSET Ids /\ unrecorded \in SUBSET Ids
    /\ faults \in 0..MaxFaults

\* Nobody plays as somebody else (base.go:164-250, 326-386): no id belongs to two
\* users, in memory or on disk, no user has two persisted roles, and the role a
\* session has entered is that of the user it logged in, whatever logins of the
\* same or of other users run beside it, and whatever a crash has lost.
Identity ==
    /\ \A u, v \in Users : userIdMap[u] = userIdMap[v] => u = v \/ userIdMap[u] = 0
    /\ \A i, j \in SavedIds : doc[i].owner = doc[j].owner => i = j
    /\ \A s \in Sessions :
          at[s] \in {"enter", "in"} => roleMap[roleId[s]].owner = user[s]

\* A role without a name, which a second login of its user may find in the map and
\* play with, is one that its creator is about to name, or was persisted nameless
\* in such a moment (base.go:196-215); and whoever holds a user's lock is
\* on the way to release it, so that no login is left waiting (base.go:194-215).
CreationIsGuarded ==
    /\ \A i \in Ids :
          roleMap[i] # NoRole /\ ~roleMap[i].named =>
             \/ \E s \in Sessions : /\ at[s] = "init" /\ roleId[s] = i
                                    /\ userLock[user[s]] = s
             \/ doc[i] # NoDoc /\ ~doc[i].named
    /\ \A u \in Users : userLock[u] # Nobody =>
          /\ user[userLock[u]] = u
          /\ at[userLock[u]] \in {"load", "publish", "publishNew", "init", "unlock"}

\* Persisted progress is never replaced by less (base.go:63-142, 188-215,
\* 268-289), in whatever order handlers, saves, crashes and logins come, except
\* for a role that was made anew over its documents: because a read of one failed
\* while the role was loaded, or because its role document was never saved, the
\* update having failed, though the others were.
SavedProgressKept ==
    [][\A i \in Ids \ (misread \union unrecorded), d \in PlayDocs :
          saved'[i][d] >= saved[i][d]]_saved

\* A role that MongoDB has something of comes back from there as it is
\* (base.go:188-215, 389-455), with the same two exceptions.
RoleComesBack ==
    [][\A i \in Ids \ (misread \union unrecorded) :
          /\ doc[i] # NoDoc \/ saved[i] # NoProgress
          /\ roleMap[i] = NoRole /\ roleMap'[i] # NoRole
          => roleMap'[i] = Persisted(i)]_roleMap

\* base.go:201 and 389: a new role is made when "MongoDB has no data".
FreshOnlyWithoutData ==
    [][\A i \in SavedIds :
          roleMap[i] = NoRole /\ roleMap'[i] # NoRole => roleMap'[i] = Persisted(i)]_roleMap

\* base.go:379: lockNextId is restored "to make sure newly created role ids do
\* not conflict": an id that is handed out has no entry on the leaderboard yet.
NewIdIsUnused ==
    [][lockNextId' = lockNextId + 1 => lockNextId' \notin board]_lockNextId
=============================================================================
