---------------------------- MODULE RoleLogin_proof ----------------------------
(***************************************************************************)
(* Proofs about RoleLogin, for any users, any number of logins at once and *)
(* any bounds.                                                             *)
(***************************************************************************)
EXTENDS RoleLogin, WellFoundedInduction, TLAPS

\* Where a session has its user's id, where it holds the user's lock, and where
\* the role of that id is in the map, or is not.
HasId(s)   == at[s] \notin {"out", "newId", "setId"}
HoldsLock(s) == at[s] \in {"load", "publish", "publishNew", "init", "unlock"}
HasRole(s) == at[s] \in {"init", "unlock", "enter", "in"}
Builds(s)  == at[s] \in {"load", "publish", "publishNew"}

\* A session has a user, and from getRoleIdOrCreate on that user's id.
SessionsKnowIds ==
    \A s \in Sessions :
        /\ at[s] # "out" => user[s] \in Users
        /\ HasId(s) => roleId[s] # 0 /\ roleId[s] = userIdMap[user[s]]

\* An id belongs to one user at most, or to one session that is about to give it
\* to its user; and none is above lockNextId.
IdsAreApart ==
    /\ \A u \in Users : userIdMap[u] <= lockNextId
    /\ \A u, v \in Users : userIdMap[u] = userIdMap[v] => u = v \/ userIdMap[u] = 0
    /\ \A s \in Sessions : at[s] = "setId" =>
          /\ roleId[s] # 0 /\ roleId[s] <= lockNextId
          /\ \A u \in Users : userIdMap[u] # roleId[s]
          /\ \A t \in Sessions : at[t] = "setId" /\ roleId[t] = roleId[s] => t = s

\* A role, in the map or on disk, is found under the id of its owner.
RolesAreOwned ==
    \A i \in Ids :
        /\ roleMap[i] # NoRole => userIdMap[roleMap[i].owner] = i
        /\ doc[i] # NoDoc => userIdMap[doc[i].owner] = i

\* A role is built under the user's lock, and the lock knows by whom.
LocksAreHeld ==
    /\ \A u \in Users : userLock[u] # Nobody =>
          user[userLock[u]] = u /\ HoldsLock(userLock[u])
    /\ \A s \in Sessions : HoldsLock(s) => userLock[user[s]] = s

\* A role is in the map from its publication on, and not before.
RolesAreThere ==
    /\ \A s \in Sessions : HasRole(s) => roleMap[roleId[s]] # NoRole
    /\ \A s \in Sessions : Builds(s) => roleMap[roleId[s]] = NoRole
    /\ \A i \in unsaved : roleMap[i] # NoRole

\* What has been built is the user's role; what was read is there to be read, and
\* has a name unless it was saved without.
BuiltIsOwn ==
    \A s \in Sessions :
        /\ at[s] \in {"publish", "publishNew"} =>
              loaded[s] # NoRole /\ loaded[s].owner = user[s]
        /\ at[s] = "publish" => doc[roleId[s]] # NoDoc /\ loaded[s] = Persisted(roleId[s])

\* A role r may be what an earlier state q of it has become.
Follows(r, q) ==
    /\ r.owner = q.owner
    /\ q.named => r.named
    /\ \A d \in PlayDocs : r.progress[d] >= q.progress[d]

\* What is being saved is an earlier state of a role in the map.
CopyIsEarlier ==
    saving # 0 =>
        /\ roleMap[saving] # NoRole
        /\ copy \in Role
        /\ Follows(roleMap[saving], copy)

\* A role without a name is about to get one, or was saved without.
NamelessAreKnown ==
    \A i \in Ids :
        roleMap[i] # NoRole /\ ~roleMap[i].named =>
           \/ \E s \in Sessions : at[s] = "init" /\ roleId[s] = i
           \/ doc[i] # NoDoc /\ ~doc[i].named

\* The roles that no read failed for, nor the first update of their role document.
Intact == Ids \ (misread \union unrecorded)

\* What MongoDB has of such a role is no more than what is in the map, and no more
\* than what is being saved.
MapIsAhead ==
    \A i \in Intact, d \in PlayDocs :
        /\ roleMap[i] # NoRole => saved[i][d] <= roleMap[i].progress[d]
        /\ saving = i => saved[i][d] <= copy.progress[d]

\* Such a role has its role document when it has any other, or is about to have
\* another; and it is made anew only without.
RecordedFirst ==
    /\ \A i \in Intact, d \in PlayDocs : saved[i][d] # 0 => doc[i] # NoDoc
    /\ \A i \in Intact : saving = i /\ RoleDoc \notin todo => doc[i] # NoDoc
    /\ \A s \in Sessions : at[s] = "publishNew" /\ roleId[s] \in Intact =>
          doc[roleId[s]] = NoDoc

-----------------------------------------------------------------------------
USE RoleLoginAssumption

\* What holds of ids; and with what holds of locks and roles, the inductive
\* invariant.
Known == TypeOK /\ SessionsKnowIds /\ IdsAreApart
IInv ==
    /\ Known
    /\ RolesAreOwned /\ LocksAreHeld /\ RolesAreThere /\ BuiltIsOwn /\ CopyIsEarlier

\* "No entry" is not a role, nor a document.
LEMMA RoleType ==
    /\ NoRole \notin Role /\ NoDoc \notin Doc
    /\ \A u \in Users : FreshRole(u) \in Role /\ FreshRole(u).owner = u
    /\ \A r \in Role : r.owner \in Users
    /\ \A r \in Role : [owner |-> r.owner, named |-> r.named] \in Doc
    /\ \A o \in Doc : o.owner \in Users
<1>1. NoRole \notin Role /\ \A r \in Role : r.owner \in Users
  BY DEF Role, NoRole
<1>2. NoDoc \notin Doc /\ \A o \in Doc : o.owner \in Users
  BY DEF Doc, NoDoc
<1>3. \A u \in Users : FreshRole(u) \in Role /\ FreshRole(u).owner = u
  BY DEF Role, FreshRole, Progress, NoProgress
<1>4. \A r \in Role : [owner |-> r.owner, named |-> r.named] \in Doc
  BY DEF Role, Doc
<1>5. QED
  BY <1>1, <1>2, <1>3, <1>4

\* The progress of a role is a number.
LEMMA ProgressType ==
    ASSUME NEW r \in Role, NEW d \in PlayDocs
    PROVE  r.progress \in [PlayDocs -> 0..MaxProgress] /\ r.progress[d] \in Nat
  BY DEF Role, Progress

\* What happens to a role keeps it one: it is named, and it makes progress.
LEMMA NamedType ==
    ASSUME NEW r \in Role
    PROVE  [r EXCEPT !.named = TRUE] \in Role
  BY DEF Role

LEMMA PlayedType ==
    ASSUME NEW r \in Role, NEW d \in PlayDocs, r.progress[d] < MaxProgress
    PROVE  [r EXCEPT !.progress[d] = @ + 1] \in Role
<1>1. r.progress \in [PlayDocs -> 0..MaxProgress]
  BY DEF Role, Progress
<1>2. r.progress[d] + 1 \in 0..MaxProgress
  BY <1>1
<1> DEFINE q == [r.progress EXCEPT ![d] = r.progress[d] + 1]
<1>3. q \in Progress
  BY <1>1, <1>2 DEF Progress
<1>4. [r EXCEPT !.progress = q] \in Role
  BY <1>3 DEF Role
<1>5. [r EXCEPT !.progress[d] = @ + 1] = [r EXCEPT !.progress = q]
  BY DEF Role
<1>6. QED
  BY <1>4, <1>5

\* The highest id among the persisted roles is one of theirs.
LEMMA MaxOfSaved ==
    ASSUME SavedIds # {}
    PROVE  Max(SavedIds) \in SavedIds /\ \A i \in SavedIds : i <= Max(SavedIds)
<1> DEFINE T == {n \in Nat : MaxId - n \in SavedIds}
<1>1. SavedIds \subseteq 1..MaxId
  BY DEF SavedIds, Ids
<1>2. T # {}
  <2>1. PICK i \in SavedIds : TRUE
    OBVIOUS
  <2>2. MaxId - i \in Nat /\ MaxId - (MaxId - i) = i
    BY <1>1
  <2>3. MaxId - i \in T
    BY <2>2
  <2>4. QED
    BY <2>3
<1>3. PICK m \in T : \A n \in T : ~(<<n, m>> \in OpToRel(<, Nat))
  BY <1>2, WFMin, NatLessThanWellFounded
<1>4. \A n \in T : ~(n < m)
  BY <1>3 DEF OpToRel
<1>5. \A i \in SavedIds : MaxId - m >= i
  <2>1. SUFFICES ASSUME NEW i \in SavedIds PROVE MaxId - m >= i
    OBVIOUS
  <2>2. i \in 1..MaxId /\ MaxId - (MaxId - i) = i
    BY <1>1
  <2>3. MaxId - i \in T
    BY <2>2
  <2>4. ~(MaxId - i < m)
    BY <1>4, <2>3
  <2>5. QED
    BY <2>2, <2>4
<1>6. \E x \in SavedIds : \A y \in SavedIds : x >= y
  BY <1>5
<1>7. Max(SavedIds) \in SavedIds /\ \A y \in SavedIds : Max(SavedIds) >= y
  BY <1>6 DEF Max
<1>8. QED
  BY <1>1, <1>7

\* A session that knows its user's id can look the role up, and finds it from its
\* publication on.
LEMMA IdOfSession ==
    ASSUME IInv, NEW s \in Sessions, HasId(s)
    PROVE  /\ user[s] \in Users /\ userIdMap[user[s]] = roleId[s]
           /\ roleId[s] \in Ids
           /\ HasRole(s) => roleMap[roleId[s]] \in Role
<1>1. at[s] # "out" /\ user[s] \in Users
  BY DEF IInv, Known, SessionsKnowIds, HasId
<1>2. roleId[s] \in 0..MaxId /\ roleId[s] # 0 /\ userIdMap[user[s]] = roleId[s]
  BY DEF IInv, Known, SessionsKnowIds, TypeOK
<1>3. roleId[s] \in Ids
  BY <1>2 DEF Ids
<1>4. HasRole(s) => roleMap[roleId[s]] \in Role
  BY <1>3 DEF IInv, Known, RolesAreThere, TypeOK
<1>5. QED
  BY <1>1, <1>2, <1>3, <1>4

\* What is read from MongoDB is a role.
LEMMA PersistedType ==
    ASSUME TypeOK, NEW i \in Ids, doc[i] # NoDoc
    PROVE  /\ Persisted(i) \in Role
           /\ Persisted(i).owner = doc[i].owner /\ Persisted(i).named = doc[i].named
           /\ Persisted(i).progress = saved[i]
  BY DEF TypeOK, Persisted, Role, Doc

\* An update writes one document of the role that is being saved, or none, and
\* when the first role document does not get written that is remembered.
LEMMA SaveDocEffect ==
    ASSUME IInv, NEW e \in {RoleDoc} \union PlayDocs, SaveDoc(e)
    PROVE  /\ saving \in Ids /\ e \in todo /\ copy \in Role
           /\ RoleDoc \in todo => e = RoleDoc
           /\ UNCHANGED <<lockNextId, userIdMap, roleMap, userLock, sessionVars, unsaved,
                          board, boardDoc, misread>>
           /\ todo' = todo \ {e}
           /\ todo' = {} => saving' = 0 /\ copy' = NoRole
           /\ todo' # {} => saving' = saving /\ copy' = copy
           /\ unrecorded \subseteq unrecorded' /\ unrecorded' \subseteq unrecorded \union {saving}
           /\ \A i \in Ids : \/ doc'[i] = doc[i]
                            \/ /\ i = saving /\ e = RoleDoc
                               /\ doc'[i] = [owner |-> copy.owner, named |-> copy.named]
           /\ e = RoleDoc => doc'[saving] # NoDoc \/ saving \in unrecorded'
           /\ \A i \in Ids, d \in PlayDocs :
                  \/ saved'[i][d] = saved[i][d]
                  \/ i = saving /\ d = e /\ e # RoleDoc /\ saved'[i][d] = copy.progress[d]
<1> USE DEF IInv, Known
<1>1. e \in todo /\ (RoleDoc \in todo => e = RoleDoc) /\ SendDoc(e)
  BY DEF SaveDoc
<1>2. saving \in Ids /\ copy \in Role
  BY <1>1 DEF TypeOK, CopyIsEarlier, Ids
<1>3. /\ UNCHANGED <<lockNextId, userIdMap, roleMap, userLock, sessionVars, unsaved, board,
                     boardDoc, misread>>
      /\ todo' = todo \ {e}
      /\ todo' = {} => saving' = 0 /\ copy' = NoRole
      /\ todo' # {} => saving' = saving /\ copy' = copy
  BY <1>1 DEF SendDoc, faultVars
<1>4. [owner |-> copy.owner, named |-> copy.named] # NoDoc
  BY <1>2, RoleType
<1>5. CASE Update(e) /\ unrecorded' = unrecorded
  <2>1. CASE e = RoleDoc
    <3>1. /\ doc' = [doc EXCEPT ![saving] = [owner |-> copy.owner, named |-> copy.named]]
          /\ saved' = saved
      BY <1>5, <2>1 DEF Update
    <3>2. \A i \in Ids : doc'[i] = IF i = saving
                                   THEN [owner |-> copy.owner, named |-> copy.named]
                                   ELSE doc[i]
      BY <3>1 DEF TypeOK
    <3>3. QED
      BY <1>1, <1>2, <1>3, <1>4, <1>5, <2>1, <3>1, <3>2
  <2>2. CASE e # RoleDoc
    <3>1. saved' = [saved EXCEPT ![saving][e] = copy.progress[e]] /\ doc' = doc
      BY <1>5, <2>2 DEF Update
    <3>2. \A i \in Ids, d \in PlayDocs : saved'[i][d] =
             IF i = saving /\ d = e THEN copy.progress[e] ELSE saved[i][d]
      BY <3>1 DEF TypeOK, Progress
    <3>3. QED
      BY <1>1, <1>2, <1>3, <1>5, <2>2, <3>1, <3>2
  <2>3. QED
    BY <2>1, <2>2
<1>6. CASE /\ UNCHANGED <<doc, saved>>
           /\ unrecorded' = IF e = RoleDoc /\ doc[saving] = NoDoc
                            THEN unrecorded \union {saving} ELSE unrecorded
  BY <1>1, <1>2, <1>3, <1>6
<1>7. QED
  BY <1>1, <1>5, <1>6 DEF SendDoc, faultVars

\* The documents it writes have the right types.
LEMMA SaveDocTypes ==
    ASSUME IInv, NEW e \in {RoleDoc} \union PlayDocs, SaveDoc(e)
    PROVE  /\ doc' \in [Ids -> Doc \union {NoDoc}] /\ saved' \in [Ids -> Progress]
           /\ unrecorded' \in SUBSET Ids /\ faults' \in 0..MaxFaults
<1> USE DEF IInv, Known
<1>1. saving \in Ids /\ copy \in Role /\ SendDoc(e)
  BY SaveDocEffect DEF SaveDoc
<1>2. unrecorded' \in SUBSET Ids
  BY <1>1, SaveDocEffect DEF TypeOK
<1>3. faults' \in 0..MaxFaults
  BY <1>1 DEF SendDoc, faultVars, TypeOK
<1>4. /\ [owner |-> copy.owner, named |-> copy.named] \in Doc
      /\ \A d \in PlayDocs : copy.progress[d] \in 0..MaxProgress
  BY <1>1, RoleType DEF Role, Progress
<1>5. ASSUME Update(e)
      PROVE  doc' \in [Ids -> Doc \union {NoDoc}] /\ saved' \in [Ids -> Progress]
  <2>1. CASE e = RoleDoc
    <3>1. /\ doc' = [doc EXCEPT ![saving] = [owner |-> copy.owner, named |-> copy.named]]
          /\ saved' = saved
      BY <1>5, <2>1 DEF Update
    <3>2. QED
      BY <1>4, <3>1 DEF TypeOK
  <2>2. CASE e # RoleDoc
    <3>1. saved' = [saved EXCEPT ![saving][e] = copy.progress[e]] /\ doc' = doc
      BY <1>5, <2>2 DEF Update
    <3>2. e \in PlayDocs /\ saved[saving] \in [PlayDocs -> 0..MaxProgress]
      BY <1>1, <2>2 DEF TypeOK, Progress
    <3>3. [saved[saving] EXCEPT ![e] = copy.progress[e]] \in [PlayDocs -> 0..MaxProgress]
      BY <1>4, <3>2
    <3>4. saved' \in [Ids -> Progress]
      BY <1>1, <3>1, <3>3 DEF TypeOK, Progress
    <3>5. QED
      BY <3>1, <3>4 DEF TypeOK
  <2>3. QED
    BY <2>1, <2>2
<1>6. QED
  BY <1>1, <1>2, <1>3, <1>5 DEF SendDoc, TypeOK

\* Every step keeps the types.
LEMMA TypeStep ==
    ASSUME IInv, [Next]_vars
    PROVE  TypeOK'
<1> USE DEF IInv, Known
<1>1. CASE UNCHANGED vars
  BY <1>1 DEF vars, sessionVars, storeVars, faultVars, TypeOK
<1>2. ASSUME NEW s \in Sessions, NEW u \in Users, FindId(s, u) PROVE TypeOK'
  <2>1. roleId' \in [Sessions -> 0..MaxId]
    BY <1>2 DEF FindId, TypeOK
  <2>2. at' \in [Sessions -> {"out", "newId", "setId", "get", "lock", "load", "publish",
                            "publishNew", "init", "unlock", "enter", "in"}]
    BY <1>2 DEF FindId, Goto, TypeOK
  <2>3. QED
    BY <1>2, <2>1, <2>2 DEF FindId, storeVars, faultVars, TypeOK
<1>3. ASSUME NEW s \in Sessions, NewId(s) PROVE TypeOK'
  BY <1>3 DEF NewId, Goto, storeVars, faultVars, TypeOK
<1>4. ASSUME NEW s \in Sessions, SetId(s) PROVE TypeOK'
  <2>1. user[s] \in Users
    BY <1>4 DEF SetId, SessionsKnowIds
  <2>2. userIdMap' \in [Users -> 0..MaxId] /\ roleId' \in [Sessions -> 0..MaxId]
    BY <1>4, <2>1 DEF SetId, TypeOK
  <2>3. QED
    BY <1>4, <2>2 DEF SetId, Goto, storeVars, faultVars, TypeOK
<1>5. ASSUME NEW s \in Sessions, GetRole(s) PROVE TypeOK'
  BY <1>5 DEF GetRole, Goto, storeVars, faultVars, TypeOK
<1>6. ASSUME NEW s \in Sessions, LockUser(s) PROVE TypeOK'
  BY <1>6 DEF LockUser, Goto, storeVars, faultVars, TypeOK
<1>7. ASSUME NEW s \in Sessions, LoadRole(s) PROVE TypeOK'
  <2>1. user[s] \in Users /\ roleId[s] \in Ids
    BY <1>7, IdOfSession DEF LoadRole, HasId
  <2>2. loaded' \in [Sessions -> Role \union {NoRole}]
    <3>1. /\ FreshRole(user[s]) \in Role
          /\ doc[roleId[s]] # NoDoc => Persisted(roleId[s]) \in Role
          /\ loaded \in [Sessions -> Role \union {NoRole}]
      BY <2>1, RoleType, PersistedType DEF TypeOK
    <3>2. \/ doc[roleId[s]] # NoDoc /\ loaded' = [loaded EXCEPT ![s] = Persisted(roleId[s])]
          \/ loaded' = [loaded EXCEPT ![s] = FreshRole(user[s])]
      BY <1>7 DEF LoadRole
    <3>3. QED
      BY <3>1, <3>2
  <2>3. /\ faults' \in 0..MaxFaults /\ misread' \in SUBSET Ids
        /\ unrecorded' \in SUBSET Ids
    BY <1>7, <2>1 DEF LoadRole, faultVars, TypeOK
  <2>4. at' \in [Sessions -> {"out", "newId", "setId", "get", "lock", "load", "publish",
                            "publishNew", "init", "unlock", "enter", "in"}]
    BY <1>7 DEF LoadRole, Goto, TypeOK
  <2>5. QED
    BY <1>7, <2>2, <2>3, <2>4 DEF LoadRole, storeVars, TypeOK
<1>8. ASSUME NEW s \in Sessions, Publish(s) PROVE TypeOK'
  <2>1. roleMap' \in [Ids -> Role \union {NoRole}]
    BY <1>8 DEF Publish, TypeOK
  <2>2. loaded' \in [Sessions -> Role \union {NoRole}]
    BY <1>8 DEF Publish, TypeOK
  <2>3. at' \in [Sessions -> {"out", "newId", "setId", "get", "lock", "load", "publish",
                            "publishNew", "init", "unlock", "enter", "in"}]
    BY <1>8 DEF Publish, Goto, TypeOK
  <2>4. QED
    BY <1>8, <2>1, <2>2, <2>3 DEF Publish, storeVars, faultVars, TypeOK
<1>9. ASSUME NEW s \in Sessions, InitRole(s) PROVE TypeOK'
  <2>1. roleId[s] \in Ids /\ roleMap[roleId[s]] \in Role
    BY <1>9, IdOfSession DEF InitRole, HasId, HasRole
  <2>2. roleMap' \in [Ids -> Role \union {NoRole}]
    BY <1>9, <2>1, NamedType DEF InitRole, TypeOK
  <2>3. QED
    BY <1>9, <2>2 DEF InitRole, Goto, storeVars, faultVars, TypeOK
<1>10. ASSUME NEW s \in Sessions, UnlockUser(s) PROVE TypeOK'
  BY <1>10 DEF UnlockUser, Goto, storeVars, faultVars, TypeOK
<1>11. ASSUME NEW s \in Sessions, Enter(s) PROVE TypeOK'
  <2>1. roleId[s] \in Ids
    BY <1>11, IdOfSession DEF Enter, saveVars, dbVars, faultVars, HasId
  <2>2. QED
    BY <1>11, <2>1 DEF Enter, saveVars, dbVars, faultVars, Goto, storeVars, TypeOK
<1>12. ASSUME NEW s \in Sessions, Play(s) PROVE TypeOK'
  <2>1. roleId[s] \in Ids /\ roleMap[roleId[s]] \in Role
    BY <1>12, IdOfSession DEF Play, saveVars, dbVars, faultVars, HasId, HasRole
  <2>2. roleMap' \in [Ids -> Role \union {NoRole}]
    <3>1. ASSUME NEW d \in PlayDocs, roleMap[roleId[s]].progress[d] < MaxProgress,
                 roleMap' = [roleMap EXCEPT ![roleId[s]].progress[d] = @ + 1]
          PROVE  roleMap' \in [Ids -> Role \union {NoRole}]
      <4>1. [roleMap[roleId[s]] EXCEPT !.progress[d] = @ + 1] \in Role
        BY <2>1, <3>1, PlayedType
      <4>2. QED
        BY <3>1, <4>1 DEF TypeOK
    <3>2. QED
      BY <1>12, <3>1 DEF Play, TypeOK
  <2>3. QED
    BY <1>12, <2>1, <2>2 DEF Play, saveVars, dbVars, faultVars, sessionVars, TypeOK
<1>13. ASSUME NEW s \in Sessions, Leave(s) PROVE TypeOK'
  BY <1>13 DEF Leave, Goto, storeVars, faultVars, TypeOK
<1>14. ASSUME NEW i \in Ids, SaveBegin(i) PROVE TypeOK'
  BY <1>14 DEF SaveBegin, dbVars, faultVars, sessionVars, Ids, TypeOK
<1>15. ASSUME NEW e \in {RoleDoc} \union PlayDocs, SaveDoc(e) PROVE TypeOK'
  <2>1. /\ UNCHANGED <<lockNextId, userIdMap, roleMap, userLock, sessionVars, unsaved,
                       board, boardDoc, misread>>
        /\ saving \in Ids /\ todo' = todo \ {e}
        /\ todo' = {} => saving' = 0 /\ copy' = NoRole
        /\ todo' # {} => saving' = saving /\ copy' = copy
    BY <1>15, SaveDocEffect
  <2>2. /\ doc' \in [Ids -> Doc \union {NoDoc}] /\ saved' \in [Ids -> Progress]
        /\ unrecorded' \in SUBSET Ids /\ faults' \in 0..MaxFaults
    BY <1>15, SaveDocTypes
  <2>3. saving' \in Ids \union {0} /\ (saving' = 0 <=> todo' = {})
    BY <2>1 DEF Ids
  <2>4. QED
    BY <2>1, <2>2, <2>3 DEF sessionVars, TypeOK
<1>16. CASE SaveBoard
  BY <1>16 DEF SaveBoard, saveVars, dbVars, faultVars, sessionVars, TypeOK
<1>17. CASE Restart
  <2>1. lockNextId' \in 0..MaxId
    BY <1>17, MaxOfSaved DEF Restart, saveVars, dbVars, faultVars, SavedIds, Ids
  <2>2. userIdMap' \in [Users -> 0..MaxId]
    <3> DEFINE id(u) == CHOOSE i \in SavedIds : doc[i].owner = u
    <3>1. \A u \in Users : (\E i \in SavedIds : doc[i].owner = u) => id(u) \in 0..MaxId
      BY DEF SavedIds, Ids
    <3> HIDE DEF id
    <3>2. userIdMap' = [u \in Users |-> IF \E i \in SavedIds : doc[i].owner = u
                                        THEN id(u) ELSE 0]
      BY <1>17 DEF Restart, saveVars, dbVars, faultVars, id
    <3>3. 0 \in 0..MaxId
      OBVIOUS
    <3>4. QED
      BY <3>1, <3>2, <3>3
  <2>3. QED
    <3>1. /\ UNCHANGED <<doc, saved, boardDoc, misread, unrecorded, faults>>
          /\ board' = boardDoc /\ unsaved' = {}
          /\ saving' = 0 /\ copy' = NoRole /\ todo' = {}
      BY <1>17 DEF Restart, saveVars, dbVars, faultVars
    <3>2. /\ roleMap' = [i \in Ids |-> NoRole]
          /\ userLock' = [u \in Users |-> Nobody]
          /\ at' = [s \in Sessions |-> "out"]
          /\ user' = [s \in Sessions |-> Nobody]
          /\ roleId' = [s \in Sessions |-> 0]
          /\ loaded' = [s \in Sessions |-> NoRole]
      BY <1>17 DEF Restart, saveVars, dbVars, faultVars
    <3>3. QED
      BY <2>1, <2>2, <3>1, <3>2 DEF TypeOK
<1>18. QED
  BY <1>1, <1>2, <1>3, <1>4, <1>5, <1>6, <1>7, <1>8, <1>9, <1>10, <1>11, <1>12, <1>13,
     <1>14, <1>15, <1>16, <1>17 DEF Next, Login

\* The creator holds the user's lock, so the role it publishes is the only one, and
\* that of its user.
LEMMA PublishEffect ==
    ASSUME IInv, NEW s \in Sessions, Publish(s)
    PROVE  /\ roleId[s] \in Ids /\ userIdMap[user[s]] = roleId[s]
           /\ roleMap[roleId[s]] = NoRole
           /\ roleMap'[roleId[s]] = loaded[s] /\ loaded[s] # NoRole
           /\ loaded[s].owner = user[s]
           /\ \A i \in Ids : i # roleId[s] => roleMap'[i] = roleMap[i]
           /\ at'[s] = IF at[s] = "publishNew" THEN "init" ELSE "unlock"
<1>1. roleId[s] \in Ids /\ userIdMap[user[s]] = roleId[s]
  BY IdOfSession DEF Publish, HasId
<1>2. roleMap[roleId[s]] = NoRole
  BY DEF IInv, RolesAreThere, Builds, Publish
<1>3. loaded[s] # NoRole /\ loaded[s].owner = user[s]
  BY DEF IInv, BuiltIsOwn, Publish
<1>4. roleMap' = [roleMap EXCEPT ![roleId[s]] = loaded[s]]
  BY <1>2 DEF Publish
<1>5. at'[s] = IF at[s] = "publishNew" THEN "init" ELSE "unlock"
  BY <1>2 DEF Publish, Goto, IInv, Known, TypeOK
<1>6. QED
  BY <1>1, <1>2, <1>3, <1>4, <1>5 DEF IInv, Known, TypeOK

\* initRole names the role and changes nothing else of it.
LEMMA InitRoleEffect ==
    ASSUME IInv, NEW s \in Sessions, InitRole(s)
    PROVE  /\ roleId[s] \in Ids
           /\ roleMap[roleId[s]] # NoRole /\ roleMap'[roleId[s]] # NoRole
           /\ roleMap'[roleId[s]].owner = roleMap[roleId[s]].owner
           /\ roleMap'[roleId[s]].named = TRUE
           /\ roleMap'[roleId[s]].progress = roleMap[roleId[s]].progress
           /\ \A i \in Ids : i # roleId[s] => roleMap'[i] = roleMap[i]
<1> DEFINE r == roleMap[roleId[s]]
<1>1. roleId[s] \in Ids /\ r \in Role
  BY IdOfSession DEF InitRole, HasId, HasRole
<1>2. /\ roleMap'[roleId[s]] = [r EXCEPT !.named = TRUE]
      /\ \A i \in Ids : i # roleId[s] => roleMap'[i] = roleMap[i]
  BY <1>1 DEF InitRole, IInv, Known, TypeOK
<1>3. /\ [r EXCEPT !.named = TRUE].owner = r.owner
      /\ [r EXCEPT !.named = TRUE].named = TRUE
      /\ [r EXCEPT !.named = TRUE].progress = r.progress
  BY <1>1 DEF Role
<1>4. r # NoRole /\ [r EXCEPT !.named = TRUE] # NoRole
  BY <1>1, RoleType, NamedType
<1>5. QED
  BY <1>1, <1>2, <1>3, <1>4

\* A handler changes the role of its session, whose progress can only grow.
LEMMA PlayEffect ==
    ASSUME IInv, NEW s \in Sessions, Play(s)
    PROVE  /\ roleId[s] \in Ids
           /\ roleMap[roleId[s]] # NoRole /\ roleMap'[roleId[s]] # NoRole
           /\ roleMap'[roleId[s]].owner = roleMap[roleId[s]].owner
           /\ roleMap'[roleId[s]].named = roleMap[roleId[s]].named
           /\ \A d \in PlayDocs :
                 roleMap'[roleId[s]].progress[d] >= roleMap[roleId[s]].progress[d]
           /\ \A i \in Ids : i # roleId[s] => roleMap'[i] = roleMap[i]
<1> DEFINE r == roleMap[roleId[s]]
<1>1. roleId[s] \in Ids /\ r \in Role
  BY IdOfSession DEF Play, saveVars, dbVars, faultVars, HasId, HasRole
<1>2. r # NoRole /\ \A d \in PlayDocs : r.progress[d] \in Nat
  BY <1>1, RoleType, ProgressType
<1>3. ASSUME NEW d \in PlayDocs, r.progress[d] < MaxProgress,
             roleMap' = [roleMap EXCEPT ![roleId[s]].progress[d] = @ + 1]
      PROVE  /\ roleMap'[roleId[s]] = [r EXCEPT !.progress[d] = @ + 1]
             /\ \A i \in Ids : i # roleId[s] => roleMap'[i] = roleMap[i]
  BY <1>1, <1>3 DEF IInv, Known, TypeOK
<1>4. ASSUME NEW d \in PlayDocs, r.progress[d] < MaxProgress
      PROVE  LET q == [r EXCEPT !.progress[d] = @ + 1] IN
             /\ q # NoRole /\ q.owner = r.owner /\ q.named = r.named
             /\ \A e \in PlayDocs : q.progress[e] >= r.progress[e]
  <2>1. [r EXCEPT !.progress[d] = @ + 1] # NoRole
    BY <1>1, <1>4, RoleType, PlayedType
  <2>2. \A e \in PlayDocs : [r EXCEPT !.progress[d] = @ + 1].progress[e] =
                                 IF e = d THEN r.progress[e] + 1 ELSE r.progress[e]
    BY <1>1 DEF Role, Progress
  <2>3. /\ [r EXCEPT !.progress[d] = @ + 1].owner = r.owner
        /\ [r EXCEPT !.progress[d] = @ + 1].named = r.named
    BY <1>1 DEF Role
  <2>4. QED
    BY <1>2, <2>1, <2>2, <2>3
<1>5. \/ roleMap' = roleMap
      \/ \E d \in PlayDocs :
            /\ r.progress[d] < MaxProgress
            /\ roleMap' = [roleMap EXCEPT ![roleId[s]].progress[d] = @ + 1]
  BY DEF Play
<1>6. CASE roleMap' = roleMap
  BY <1>1, <1>2, <1>6
<1>7. ASSUME NEW d \in PlayDocs, r.progress[d] < MaxProgress,
             roleMap' = [roleMap EXCEPT ![roleId[s]].progress[d] = @ + 1]
      PROVE  /\ roleMap'[roleId[s]] # NoRole
             /\ roleMap'[roleId[s]].owner = r.owner
             /\ roleMap'[roleId[s]].named = r.named
             /\ \A e \in PlayDocs : roleMap'[roleId[s]].progress[e] >= r.progress[e]
             /\ \A i \in Ids : i # roleId[s] => roleMap'[i] = roleMap[i]
  BY <1>3, <1>4, <1>7
<1>8. QED
  BY <1>1, <1>2, <1>5, <1>6, <1>7

\* A session keeps its user and its user's id.
LEMMA SessionsStep ==
    ASSUME IInv, [Next]_vars
    PROVE  SessionsKnowIds'
<1> USE DEF IInv, Known
<1>1. CASE UNCHANGED vars
  BY <1>1
  DEF vars, sessionVars, storeVars, faultVars, HasId, TypeOK, SessionsKnowIds, IdsAreApart
<1>2. ASSUME NEW s \in Sessions, NEW u \in Users, FindId(s, u) PROVE SessionsKnowIds'
  BY <1>2
  DEF FindId, Goto, sessionVars, storeVars, faultVars, HasId, TypeOK, SessionsKnowIds,
      IdsAreApart
<1>3. ASSUME NEW s \in Sessions, NewId(s) PROVE SessionsKnowIds'
  BY <1>3
  DEF NewId, Goto, sessionVars, storeVars, faultVars, HasId, TypeOK, SessionsKnowIds,
      IdsAreApart
<1>4. ASSUME NEW s \in Sessions, SetId(s) PROVE SessionsKnowIds'
  BY <1>4
  DEF SetId, Goto, sessionVars, storeVars, faultVars, HasId, TypeOK, SessionsKnowIds,
      IdsAreApart
<1>5. ASSUME NEW s \in Sessions, GetRole(s) PROVE SessionsKnowIds'
  BY <1>5
  DEF GetRole, Goto, sessionVars, storeVars, faultVars, HasId, TypeOK, SessionsKnowIds,
      IdsAreApart
<1>6. ASSUME NEW s \in Sessions, LockUser(s) PROVE SessionsKnowIds'
  BY <1>6
  DEF LockUser, Goto, sessionVars, storeVars, faultVars, HasId, TypeOK, SessionsKnowIds,
      IdsAreApart
<1>7. ASSUME NEW s \in Sessions, LoadRole(s) PROVE SessionsKnowIds'
  BY <1>7
  DEF LoadRole, Goto, sessionVars, storeVars, faultVars, HasId, TypeOK, SessionsKnowIds,
      IdsAreApart
<1>8. ASSUME NEW s \in Sessions, Publish(s) PROVE SessionsKnowIds'
  BY <1>8
  DEF Publish, Goto, sessionVars, storeVars, faultVars, HasId, TypeOK, SessionsKnowIds,
      IdsAreApart
<1>9. ASSUME NEW s \in Sessions, InitRole(s) PROVE SessionsKnowIds'
  BY <1>9
  DEF InitRole, Goto, sessionVars, storeVars, faultVars, HasId, TypeOK, SessionsKnowIds,
      IdsAreApart
<1>10. ASSUME NEW s \in Sessions, UnlockUser(s) PROVE SessionsKnowIds'
  BY <1>10
  DEF UnlockUser, Goto, sessionVars, storeVars, faultVars, HasId, TypeOK, SessionsKnowIds,
      IdsAreApart
<1>11. ASSUME NEW s \in Sessions, Enter(s) PROVE SessionsKnowIds'
  BY <1>11
  DEF Enter, saveVars, dbVars, faultVars, Goto, sessionVars, storeVars, HasId, TypeOK,
      SessionsKnowIds, IdsAreApart
<1>12. ASSUME NEW s \in Sessions, Play(s) PROVE SessionsKnowIds'
  BY <1>12
  DEF Play, saveVars, dbVars, faultVars, sessionVars, storeVars, HasId, TypeOK,
      SessionsKnowIds, IdsAreApart
<1>13. ASSUME NEW s \in Sessions, Leave(s) PROVE SessionsKnowIds'
  BY <1>13
  DEF Leave, Goto, sessionVars, storeVars, faultVars, HasId, TypeOK, SessionsKnowIds,
      IdsAreApart
<1>14. ASSUME NEW i \in Ids, SaveBegin(i) PROVE SessionsKnowIds'
  BY <1>14
  DEF SaveBegin, saveVars, dbVars, faultVars, sessionVars, storeVars, HasId, TypeOK,
      SessionsKnowIds, IdsAreApart
<1>15. ASSUME NEW e \in {RoleDoc} \union PlayDocs, SaveDoc(e) PROVE SessionsKnowIds'
  <2>1. UNCHANGED <<at, user, roleId, userIdMap>>
    BY <1>15, SaveDocEffect DEF sessionVars
  <2>2. QED
    BY <2>1 DEF SessionsKnowIds, HasId
<1>16. CASE SaveBoard
  BY <1>16
  DEF SaveBoard, saveVars, dbVars, faultVars, sessionVars, storeVars, HasId, TypeOK,
      SessionsKnowIds, IdsAreApart
<1>17. CASE Restart
  BY <1>17
  DEF Restart, saveVars, dbVars, faultVars, sessionVars, storeVars, HasId, TypeOK,
      SessionsKnowIds, IdsAreApart
<1>18. QED
  BY <1>1, <1>2, <1>3, <1>4, <1>5, <1>6, <1>7, <1>8, <1>9, <1>10, <1>11, <1>12, <1>13,
     <1>14, <1>15, <1>16, <1>17 DEF Next, Login

\* Ids stay apart.
LEMMA IdsStep ==
    ASSUME IInv, [Next]_vars
    PROVE  IdsAreApart'
<1> USE DEF IInv, Known
<1>1. CASE UNCHANGED vars
  BY <1>1
  DEF vars, sessionVars, storeVars, faultVars, HasId, TypeOK, SessionsKnowIds, IdsAreApart
<1>2. ASSUME NEW s \in Sessions, NEW u \in Users, FindId(s, u) PROVE IdsAreApart'
  <2>1. UNCHANGED <<userIdMap, lockNextId>>
    BY <1>2 DEF FindId
  <2>2. \A t \in Sessions : at'[t] = "setId" => at[t] = "setId" /\ roleId'[t] = roleId[t]
    BY <1>2 DEF FindId, Goto, TypeOK
  <2>3. QED
    BY <2>1, <2>2 DEF IdsAreApart
<1>3. ASSUME NEW s \in Sessions, NewId(s) PROVE IdsAreApart'
  BY <1>3
  DEF NewId, Goto, sessionVars, storeVars, faultVars, HasId, TypeOK, SessionsKnowIds,
      IdsAreApart
<1>4. ASSUME NEW s \in Sessions, SetId(s) PROVE IdsAreApart'
  <2>1. user[s] \in Users /\ lockNextId' = lockNextId
    BY <1>4 DEF SetId, SessionsKnowIds
  <2>2. \A t \in Sessions : at'[t] = "setId" =>
           t # s /\ at[t] = "setId" /\ roleId'[t] = roleId[t]
    BY <1>4 DEF SetId, Goto, TypeOK
  <2>3. CASE userIdMap[user[s]] = 0
    <3>1. userIdMap' = [userIdMap EXCEPT ![user[s]] = roleId[s]]
      BY <1>4, <2>3 DEF SetId
    <3>2. \A u \in Users : userIdMap'[u] = IF u = user[s] THEN roleId[s] ELSE userIdMap[u]
      BY <2>1, <3>1 DEF TypeOK
    <3>3. at[s] = "setId"
      BY <1>4 DEF SetId
    <3>4. QED
      BY <2>1, <2>2, <3>2, <3>3 DEF IdsAreApart
  <2>4. CASE userIdMap[user[s]] # 0
    <3>1. userIdMap' = userIdMap
      BY <1>4, <2>4 DEF SetId
    <3>2. QED
      BY <2>1, <2>2, <3>1 DEF IdsAreApart
  <2>5. QED
    BY <2>3, <2>4
<1>5. ASSUME NEW s \in Sessions, GetRole(s) PROVE IdsAreApart'
  BY <1>5
  DEF GetRole, Goto, sessionVars, storeVars, faultVars, HasId, TypeOK, SessionsKnowIds,
      IdsAreApart
<1>6. ASSUME NEW s \in Sessions, LockUser(s) PROVE IdsAreApart'
  BY <1>6
  DEF LockUser, Goto, sessionVars, storeVars, faultVars, HasId, TypeOK, SessionsKnowIds,
      IdsAreApart
<1>7. ASSUME NEW s \in Sessions, LoadRole(s) PROVE IdsAreApart'
  BY <1>7
  DEF LoadRole, Goto, sessionVars, storeVars, faultVars, HasId, TypeOK, SessionsKnowIds,
      IdsAreApart
<1>8. ASSUME NEW s \in Sessions, Publish(s) PROVE IdsAreApart'
  BY <1>8
  DEF Publish, Goto, sessionVars, storeVars, faultVars, HasId, TypeOK, SessionsKnowIds,
      IdsAreApart
<1>9. ASSUME NEW s \in Sessions, InitRole(s) PROVE IdsAreApart'
  BY <1>9
  DEF InitRole, Goto, sessionVars, storeVars, faultVars, HasId, TypeOK, SessionsKnowIds,
      IdsAreApart
<1>10. ASSUME NEW s \in Sessions, UnlockUser(s) PROVE IdsAreApart'
  BY <1>10
  DEF UnlockUser, Goto, sessionVars, storeVars, faultVars, HasId, TypeOK, SessionsKnowIds,
      IdsAreApart
<1>11. ASSUME NEW s \in Sessions, Enter(s) PROVE IdsAreApart'
  BY <1>11
  DEF Enter, saveVars, dbVars, faultVars, Goto, sessionVars, storeVars, HasId, TypeOK,
      SessionsKnowIds, IdsAreApart
<1>12. ASSUME NEW s \in Sessions, Play(s) PROVE IdsAreApart'
  BY <1>12
  DEF Play, saveVars, dbVars, faultVars, sessionVars, storeVars, HasId, TypeOK,
      SessionsKnowIds, IdsAreApart
<1>13. ASSUME NEW s \in Sessions, Leave(s) PROVE IdsAreApart'
  BY <1>13
  DEF Leave, Goto, sessionVars, storeVars, faultVars, HasId, TypeOK, SessionsKnowIds,
      IdsAreApart
<1>14. ASSUME NEW i \in Ids, SaveBegin(i) PROVE IdsAreApart'
  BY <1>14
  DEF SaveBegin, saveVars, dbVars, faultVars, sessionVars, storeVars, HasId, TypeOK,
      SessionsKnowIds, IdsAreApart
<1>15. ASSUME NEW e \in {RoleDoc} \union PlayDocs, SaveDoc(e) PROVE IdsAreApart'
  <2>1. UNCHANGED <<at, roleId, userIdMap, lockNextId>>
    BY <1>15, SaveDocEffect DEF sessionVars
  <2>2. QED
    BY <2>1 DEF IdsAreApart
<1>16. CASE SaveBoard
  BY <1>16
  DEF SaveBoard, saveVars, dbVars, faultVars, sessionVars, storeVars, HasId, TypeOK,
      SessionsKnowIds, IdsAreApart
<1>17. CASE Restart
  <2>1. \A u \in Users : \/ userIdMap'[u] = 0
                         \/ userIdMap'[u] \in SavedIds /\ doc[userIdMap'[u]].owner = u
    <3>1. \A u \in Users : userIdMap'[u] =
             IF \E i \in SavedIds : doc[i].owner = u
             THEN CHOOSE i \in SavedIds : doc[i].owner = u ELSE 0
      BY <1>17 DEF Restart, saveVars, dbVars, faultVars
    <3>2. QED
      BY <3>1
  <2>2. lockNextId' = IF SavedIds = {} THEN 0 ELSE Max(SavedIds)
    BY <1>17 DEF Restart, saveVars, dbVars, faultVars
  <2>3. \A u \in Users : userIdMap'[u] <= lockNextId'
    BY <2>1, <2>2, MaxOfSaved DEF SavedIds, Ids
  <2>4. \A s \in Sessions : at'[s] = "out"
    BY <1>17 DEF Restart, saveVars, dbVars, faultVars
  <2>5. QED
    BY <2>1, <2>3, <2>4 DEF IdsAreApart
<1>18. QED
  BY <1>1, <1>2, <1>3, <1>4, <1>5, <1>6, <1>7, <1>8, <1>9, <1>10, <1>11, <1>12, <1>13,
     <1>14, <1>15, <1>16, <1>17 DEF Next, Login

\* A role is entered in the map by its owner, and saved as it is.
LEMMA OwnersStep ==
    ASSUME IInv, [Next]_vars
    PROVE  RolesAreOwned'
<1> USE DEF IInv, Known
<1>1. CASE UNCHANGED vars
  BY <1>1 DEF vars, sessionVars, storeVars, faultVars, TypeOK, RolesAreOwned
<1>2. ASSUME NEW s \in Sessions, NEW u \in Users, FindId(s, u) PROVE RolesAreOwned'
  BY <1>2 DEF FindId, Goto, sessionVars, storeVars, faultVars, TypeOK, RolesAreOwned
<1>3. ASSUME NEW s \in Sessions, NewId(s) PROVE RolesAreOwned'
  BY <1>3 DEF NewId, Goto, sessionVars, storeVars, faultVars, TypeOK, RolesAreOwned
<1>4. ASSUME NEW s \in Sessions, SetId(s) PROVE RolesAreOwned'
  <2>1. user[s] \in Users
    BY <1>4 DEF SetId, SessionsKnowIds
  <2>2. \A u \in Users : userIdMap[u] # 0 => userIdMap'[u] = userIdMap[u]
    BY <1>4, <2>1 DEF SetId, TypeOK
  <2>3. \A i \in Ids : /\ roleMap[i] # NoRole => roleMap[i].owner \in Users
                       /\ doc[i] # NoDoc => doc[i].owner \in Users
    <3>1. \A i \in Ids : roleMap[i] \in Role \union {NoRole} /\ doc[i] \in Doc \union {NoDoc}
      BY DEF TypeOK
    <3>2. QED
      BY <3>1, RoleType
  <2>4. UNCHANGED <<roleMap, doc>>
    BY <1>4 DEF SetId, storeVars, faultVars
  <2>5. QED
    BY <2>2, <2>3, <2>4 DEF RolesAreOwned, Ids
<1>5. ASSUME NEW s \in Sessions, GetRole(s) PROVE RolesAreOwned'
  BY <1>5 DEF GetRole, Goto, sessionVars, storeVars, faultVars, TypeOK, RolesAreOwned
<1>6. ASSUME NEW s \in Sessions, LockUser(s) PROVE RolesAreOwned'
  BY <1>6 DEF LockUser, Goto, sessionVars, storeVars, faultVars, TypeOK, RolesAreOwned
<1>7. ASSUME NEW s \in Sessions, LoadRole(s) PROVE RolesAreOwned'
  BY <1>7 DEF LoadRole, Goto, sessionVars, storeVars, faultVars, TypeOK, RolesAreOwned
<1>8. ASSUME NEW s \in Sessions, Publish(s) PROVE RolesAreOwned'
  <2>1. UNCHANGED <<userIdMap, doc>>
    BY <1>8 DEF Publish, storeVars, faultVars
  <2>2. QED
    BY <1>8, <2>1, PublishEffect DEF RolesAreOwned
<1>9. ASSUME NEW s \in Sessions, InitRole(s) PROVE RolesAreOwned'
  <2>1. UNCHANGED <<userIdMap, doc>>
    BY <1>9 DEF InitRole, storeVars, faultVars
  <2>2. \A i \in Ids : roleMap'[i] # NoRole =>
           roleMap[i] # NoRole /\ roleMap'[i].owner = roleMap[i].owner
    BY <1>9, InitRoleEffect
  <2>3. QED
    BY <2>1, <2>2 DEF RolesAreOwned
<1>10. ASSUME NEW s \in Sessions, UnlockUser(s) PROVE RolesAreOwned'
  BY <1>10 DEF UnlockUser, Goto, sessionVars, storeVars, faultVars, TypeOK, RolesAreOwned
<1>11. ASSUME NEW s \in Sessions, Enter(s) PROVE RolesAreOwned'
  BY <1>11
  DEF Enter, saveVars, dbVars, faultVars, Goto, sessionVars, storeVars, TypeOK,
      RolesAreOwned
<1>12. ASSUME NEW s \in Sessions, Play(s) PROVE RolesAreOwned'
  <2>1. UNCHANGED <<userIdMap, doc>>
    BY <1>12 DEF Play, saveVars, dbVars, faultVars
  <2>2. QED
    BY <1>12, <2>1, PlayEffect DEF RolesAreOwned
<1>13. ASSUME NEW s \in Sessions, Leave(s) PROVE RolesAreOwned'
  BY <1>13 DEF Leave, Goto, sessionVars, storeVars, faultVars, TypeOK, RolesAreOwned
<1>14. ASSUME NEW i \in Ids, SaveBegin(i) PROVE RolesAreOwned'
  <2>1. UNCHANGED <<userIdMap, roleMap, doc>>
    BY <1>14 DEF SaveBegin, dbVars
  <2>2. QED
    BY <2>1 DEF RolesAreOwned
<1>15. ASSUME NEW e \in {RoleDoc} \union PlayDocs, SaveDoc(e) PROVE RolesAreOwned'
  <2>1. UNCHANGED <<userIdMap, roleMap>>
    BY <1>15, SaveDocEffect
  <2>2. saving \in Ids /\ userIdMap[copy.owner] = saving
    <3>1. /\ saving \in Ids /\ saving # 0
      BY <1>15, SaveDocEffect DEF Ids
    <3>2. QED
      BY <3>1 DEF CopyIsEarlier, Follows, RolesAreOwned
  <2>3. \A i \in Ids : doc'[i] # NoDoc =>
           \/ doc'[i] = doc[i]
           \/ i = saving /\ doc'[i].owner = copy.owner
    BY <1>15, SaveDocEffect
  <2>4. QED
    BY <2>1, <2>2, <2>3 DEF RolesAreOwned
<1>16. CASE SaveBoard
  BY <1>16
  DEF SaveBoard, saveVars, dbVars, faultVars, sessionVars, storeVars, TypeOK,
      RolesAreOwned
<1>17. CASE Restart
  <2>1. \A i, j \in SavedIds : doc[i].owner = doc[j].owner => i = j
    BY DEF RolesAreOwned, SavedIds
  <2>2. \A i \in SavedIds : doc[i].owner \in Users
    BY RoleType DEF SavedIds, TypeOK
  <2>3. \A i \in SavedIds : userIdMap'[doc[i].owner] = i
    <3>1. SUFFICES ASSUME NEW i \in SavedIds PROVE userIdMap'[doc[i].owner] = i
      OBVIOUS
    <3>2. userIdMap'[doc[i].owner] = CHOOSE j \in SavedIds : doc[j].owner = doc[i].owner
      BY <1>17, <2>2, <3>1 DEF Restart, saveVars, dbVars, faultVars
    <3>3. \E j \in SavedIds : doc[j].owner = doc[i].owner
      BY <3>1
    <3>4. QED
      BY <2>1, <3>1, <3>2, <3>3
  <2>4. doc' = doc /\ \A i \in Ids : roleMap'[i] = NoRole
    BY <1>17 DEF Restart, saveVars, dbVars, faultVars
  <2>5. QED
    BY <2>3, <2>4 DEF RolesAreOwned, SavedIds
<1>18. QED
  BY <1>1, <1>2, <1>3, <1>4, <1>5, <1>6, <1>7, <1>8, <1>9, <1>10, <1>11, <1>12, <1>13,
     <1>14, <1>15, <1>16, <1>17 DEF Next, Login

\* Locks are taken and released by those who build a role.
LEMMA LocksStep ==
    ASSUME IInv, [Next]_vars
    PROVE  LocksAreHeld'
<1> USE DEF IInv, Known
<1>1. CASE UNCHANGED vars
  BY <1>1
  DEF vars, sessionVars, storeVars, faultVars, HoldsLock, TypeOK, SessionsKnowIds,
      LocksAreHeld
<1>2. ASSUME NEW s \in Sessions, NEW u \in Users, FindId(s, u) PROVE LocksAreHeld'
  BY <1>2
  DEF FindId, Goto, sessionVars, storeVars, faultVars, HoldsLock, TypeOK, SessionsKnowIds,
      LocksAreHeld
<1>3. ASSUME NEW s \in Sessions, NewId(s) PROVE LocksAreHeld'
  BY <1>3
  DEF NewId, Goto, sessionVars, storeVars, faultVars, HoldsLock, TypeOK, SessionsKnowIds,
      LocksAreHeld
<1>4. ASSUME NEW s \in Sessions, SetId(s) PROVE LocksAreHeld'
  BY <1>4
  DEF SetId, Goto, sessionVars, storeVars, faultVars, HoldsLock, TypeOK, SessionsKnowIds,
      LocksAreHeld
<1>5. ASSUME NEW s \in Sessions, GetRole(s) PROVE LocksAreHeld'
  BY <1>5
  DEF GetRole, Goto, sessionVars, storeVars, faultVars, HoldsLock, TypeOK,
      SessionsKnowIds,
      LocksAreHeld
<1>6. ASSUME NEW s \in Sessions, LockUser(s) PROVE LocksAreHeld'
  BY <1>6
  DEF LockUser, Goto, sessionVars, storeVars, faultVars, HoldsLock, TypeOK,
      SessionsKnowIds,
      LocksAreHeld
<1>7. ASSUME NEW s \in Sessions, LoadRole(s) PROVE LocksAreHeld'
  <2>1. UNCHANGED <<userLock, user>>
    BY <1>7 DEF LoadRole, sessionVars
  <2>2. \A t \in Sessions : HoldsLock(t)' <=> HoldsLock(t)
    BY <1>7 DEF LoadRole, Goto, sessionVars, HoldsLock, TypeOK
  <2>3. \A u \in Users : userLock[u] # Nobody => userLock[u] \in Sessions
    BY DEF TypeOK
  <2>4. QED
    BY <2>1, <2>2, <2>3 DEF LocksAreHeld
<1>8. ASSUME NEW s \in Sessions, Publish(s) PROVE LocksAreHeld'
  <2>1. UNCHANGED <<userLock, user>>
    BY <1>8 DEF Publish, sessionVars
  <2>2. \A t \in Sessions : HoldsLock(t)' <=> HoldsLock(t)
    BY <1>8 DEF Publish, Goto, sessionVars, HoldsLock, TypeOK
  <2>3. \A u \in Users : userLock[u] # Nobody => userLock[u] \in Sessions
    BY DEF TypeOK
  <2>4. QED
    BY <2>1, <2>2, <2>3 DEF LocksAreHeld
<1>9. ASSUME NEW s \in Sessions, InitRole(s) PROVE LocksAreHeld'
  <2>1. UNCHANGED <<userLock, user>>
    BY <1>9 DEF InitRole, sessionVars
  <2>2. \A t \in Sessions : HoldsLock(t)' <=> HoldsLock(t)
    BY <1>9 DEF InitRole, Goto, sessionVars, HoldsLock, TypeOK
  <2>3. \A u \in Users : userLock[u] # Nobody => userLock[u] \in Sessions
    BY DEF TypeOK
  <2>4. QED
    BY <2>1, <2>2, <2>3 DEF LocksAreHeld
<1>10. ASSUME NEW s \in Sessions, UnlockUser(s) PROVE LocksAreHeld'
  BY <1>10
  DEF UnlockUser, Goto, sessionVars, storeVars, faultVars, HoldsLock, TypeOK,
      SessionsKnowIds,
      LocksAreHeld
<1>11. ASSUME NEW s \in Sessions, Enter(s) PROVE LocksAreHeld'
  BY <1>11
  DEF Enter, saveVars, dbVars, faultVars, Goto, sessionVars, storeVars, HoldsLock,
      TypeOK, SessionsKnowIds,
      LocksAreHeld
<1>12. ASSUME NEW s \in Sessions, Play(s) PROVE LocksAreHeld'
  <2>1. UNCHANGED <<userLock, user>>
    BY <1>12 DEF Play, saveVars, dbVars, faultVars, sessionVars
  <2>2. \A t \in Sessions : HoldsLock(t)' <=> HoldsLock(t)
    BY <1>12 DEF Play, saveVars, dbVars, faultVars, Goto, sessionVars, HoldsLock, TypeOK
  <2>3. \A u \in Users : userLock[u] # Nobody => userLock[u] \in Sessions
    BY DEF TypeOK
  <2>4. QED
    BY <2>1, <2>2, <2>3 DEF LocksAreHeld
<1>13. ASSUME NEW s \in Sessions, Leave(s) PROVE LocksAreHeld'
  BY <1>13
  DEF Leave, Goto, sessionVars, storeVars, faultVars, HoldsLock, TypeOK, SessionsKnowIds,
      LocksAreHeld
<1>14. ASSUME NEW i \in Ids, SaveBegin(i) PROVE LocksAreHeld'
  <2>1. UNCHANGED <<userLock, user>>
    BY <1>14 DEF SaveBegin, saveVars, dbVars, faultVars, sessionVars
  <2>2. \A t \in Sessions : HoldsLock(t)' <=> HoldsLock(t)
    BY <1>14
    DEF SaveBegin, saveVars, dbVars, faultVars, Goto, sessionVars, HoldsLock, TypeOK
  <2>3. \A u \in Users : userLock[u] # Nobody => userLock[u] \in Sessions
    BY DEF TypeOK
  <2>4. QED
    BY <2>1, <2>2, <2>3 DEF LocksAreHeld
<1>15. ASSUME NEW e \in {RoleDoc} \union PlayDocs, SaveDoc(e) PROVE LocksAreHeld'
  <2>1. UNCHANGED <<at, user, userLock>>
    BY <1>15, SaveDocEffect DEF sessionVars
  <2>2. QED
    BY <2>1 DEF LocksAreHeld, HoldsLock
<1>16. CASE SaveBoard
  BY <1>16
  DEF SaveBoard, saveVars, dbVars, faultVars, sessionVars, storeVars, HoldsLock, TypeOK,
      SessionsKnowIds,
      LocksAreHeld
<1>17. CASE Restart
  BY <1>17
  DEF Restart, saveVars, dbVars, faultVars, sessionVars, storeVars, HoldsLock, TypeOK,
      SessionsKnowIds, LocksAreHeld
<1>18. QED
  BY <1>1, <1>2, <1>3, <1>4, <1>5, <1>6, <1>7, <1>8, <1>9, <1>10, <1>11, <1>12, <1>13,
     <1>14, <1>15, <1>16, <1>17 DEF Next, Login

\* A role is in the map from its publication on.
LEMMA ThereStep ==
    ASSUME IInv, [Next]_vars
    PROVE  RolesAreThere'
<1> USE DEF IInv, Known
<1>1. CASE UNCHANGED vars
  BY <1>1
  DEF vars, sessionVars, storeVars, faultVars, HasId, HasRole, Builds, TypeOK,
      SessionsKnowIds,
      RolesAreThere
<1>2. ASSUME NEW s \in Sessions, NEW u \in Users, FindId(s, u) PROVE RolesAreThere'
  BY <1>2
  DEF FindId, Goto, sessionVars, storeVars, faultVars, HasId, HasRole, Builds, TypeOK,
      SessionsKnowIds, RolesAreThere
<1>3. ASSUME NEW s \in Sessions, NewId(s) PROVE RolesAreThere'
  BY <1>3
  DEF NewId, Goto, sessionVars, storeVars, faultVars, HasId, HasRole, Builds, TypeOK,
      SessionsKnowIds, RolesAreThere
<1>4. ASSUME NEW s \in Sessions, SetId(s) PROVE RolesAreThere'
  BY <1>4
  DEF SetId, Goto, sessionVars, storeVars, faultVars, HasId, HasRole, Builds, TypeOK,
      SessionsKnowIds, RolesAreThere
<1>5. ASSUME NEW s \in Sessions, GetRole(s) PROVE RolesAreThere'
  BY <1>5
  DEF GetRole, Goto, sessionVars, storeVars, faultVars, HasId, HasRole, Builds, TypeOK,
      SessionsKnowIds, RolesAreThere
<1>6. ASSUME NEW s \in Sessions, LockUser(s) PROVE RolesAreThere'
  <2>1. UNCHANGED <<roleMap, roleId, unsaved>>
    BY <1>6 DEF LockUser, storeVars, faultVars
  <2>2. \A t \in Sessions : t # s => at'[t] = at[t]
    BY <1>6 DEF LockUser, Goto, TypeOK
  <2>3. at'[s] = IF roleMap[roleId[s]] = NoRole THEN "load" ELSE "unlock"
    BY <1>6 DEF LockUser, Goto, TypeOK
  <2>4. QED
    BY <2>1, <2>2, <2>3 DEF RolesAreThere, HasRole, Builds
<1>7. ASSUME NEW s \in Sessions, LoadRole(s) PROVE RolesAreThere'
  <2>1. UNCHANGED <<roleMap, roleId, unsaved>>
    BY <1>7 DEF LoadRole, storeVars, faultVars
  <2>2. at[s] = "load" /\ at'[s] \in {"publish", "publishNew"}
        /\ \A t \in Sessions : t # s => at'[t] = at[t]
    BY <1>7 DEF LoadRole, Goto, TypeOK
  <2>3. QED
    BY <2>1, <2>2 DEF RolesAreThere, HasRole, Builds
<1>8. ASSUME NEW s \in Sessions, Publish(s) PROVE RolesAreThere'
  <2>1. UNCHANGED <<roleId, unsaved>>
    BY <1>8 DEF Publish, storeVars, faultVars
  <2>2. at[s] \in {"publish", "publishNew"} /\ at'[s] \in {"init", "unlock"}
        /\ \A t \in Sessions : t # s => at'[t] = at[t]
    BY <1>8 DEF Publish, Goto, TypeOK
  <2>3. /\ user[s] \in Users /\ roleId[s] \in Ids /\ userIdMap[user[s]] = roleId[s]
        /\ loaded[s] # NoRole
    BY <1>8, <2>2, IdOfSession DEF HasId, BuiltIsOwn
  <2>4. /\ roleMap'[roleId[s]] # NoRole
        /\ \A i \in Ids : i # roleId[s] => roleMap'[i] = roleMap[i]
    BY <1>8, <2>3, PublishEffect
  <2>5. \A t \in Sessions : Builds(t) /\ t # s =>
           roleId[t] # roleId[s] /\ roleId[t] \in Ids
    <3>1. SUFFICES ASSUME NEW t \in Sessions, Builds(t), t # s
                   PROVE  roleId[t] # roleId[s] /\ roleId[t] \in Ids
      OBVIOUS
    <3>2. user[t] \in Users /\ roleId[t] \in Ids /\ userIdMap[user[t]] = roleId[t]
      BY <3>1, IdOfSession DEF Builds, HasId
    <3>3. userLock[user[t]] = t /\ userLock[user[s]] = s
      BY <2>2, <3>1 DEF LocksAreHeld, HoldsLock, Builds
    <3>4. user[t] # user[s]
      BY <3>1, <3>3
    <3>5. QED
      BY <2>3, <3>2, <3>4 DEF IdsAreApart, Ids
  <2>6. \A t \in Sessions : HasRole(t) => roleId[t] \in Ids
    BY IdOfSession DEF HasRole, HasId
  <2>7. unsaved \subseteq Ids
    BY DEF TypeOK
  <2>8. QED
    BY <2>1, <2>2, <2>4, <2>5, <2>6, <2>7 DEF RolesAreThere, HasRole, Builds
<1>9. ASSUME NEW s \in Sessions, InitRole(s) PROVE RolesAreThere'
  <2>1. UNCHANGED <<roleId, unsaved>>
    BY <1>9 DEF InitRole, storeVars, faultVars
  <2>2. at[s] = "init" /\ at'[s] = "unlock" /\ \A t \in Sessions : t # s => at'[t] = at[t]
    BY <1>9 DEF InitRole, Goto, TypeOK
  <2>3. \A i \in Ids : roleMap'[i] = NoRole <=> roleMap[i] = NoRole
    BY <1>9, InitRoleEffect
  <2>4. \A t \in Sessions : HasId(t) => roleId[t] \in Ids
    BY IdOfSession
  <2>5. unsaved \subseteq Ids
    BY DEF TypeOK
  <2>6. QED
    BY <2>1, <2>2, <2>3, <2>4, <2>5 DEF RolesAreThere, HasRole, Builds, HasId
<1>10. ASSUME NEW s \in Sessions, UnlockUser(s) PROVE RolesAreThere'
  BY <1>10
  DEF UnlockUser, Goto, sessionVars, storeVars, faultVars, HasId, HasRole, Builds, TypeOK,
      SessionsKnowIds, RolesAreThere
<1>11. ASSUME NEW s \in Sessions, Enter(s) PROVE RolesAreThere'
  BY <1>11
  DEF Enter, saveVars, dbVars, faultVars, Goto, sessionVars, storeVars, HasId, HasRole,
      Builds, TypeOK,
      SessionsKnowIds, RolesAreThere
<1>12. ASSUME NEW s \in Sessions, Play(s) PROVE RolesAreThere'
  <2>1. UNCHANGED <<roleId, at>> /\ unsaved' = unsaved \union {roleId[s]}
    BY <1>12 DEF Play, saveVars, dbVars, faultVars, sessionVars
  <2>2. \A i \in Ids : roleMap'[i] = NoRole <=> roleMap[i] = NoRole
    BY <1>12, PlayEffect
  <2>3. \A t \in Sessions : HasId(t) => roleId[t] \in Ids
    BY IdOfSession
  <2>4. unsaved \subseteq Ids /\ roleMap'[roleId[s]] # NoRole
    BY <1>12, PlayEffect DEF TypeOK
  <2>5. QED
    BY <2>1, <2>2, <2>3, <2>4 DEF RolesAreThere, HasRole, Builds, HasId
<1>13. ASSUME NEW s \in Sessions, Leave(s) PROVE RolesAreThere'
  BY <1>13
  DEF Leave, Goto, sessionVars, storeVars, faultVars, HasId, HasRole, Builds, TypeOK,
      SessionsKnowIds, RolesAreThere
<1>14. ASSUME NEW i \in Ids, SaveBegin(i) PROVE RolesAreThere'
  BY <1>14
  DEF SaveBegin, saveVars, dbVars, faultVars, sessionVars, storeVars, HasId, HasRole,
      Builds, TypeOK,
      SessionsKnowIds, RolesAreThere
<1>15. ASSUME NEW e \in {RoleDoc} \union PlayDocs, SaveDoc(e) PROVE RolesAreThere'
  <2>1. UNCHANGED <<at, roleId, roleMap, unsaved>>
    BY <1>15, SaveDocEffect DEF sessionVars
  <2>2. QED
    BY <2>1 DEF RolesAreThere, HasRole, Builds
<1>16. CASE SaveBoard
  BY <1>16
  DEF SaveBoard, saveVars, dbVars, faultVars, sessionVars, storeVars, HasId, HasRole,
      Builds, TypeOK,
      SessionsKnowIds, RolesAreThere
<1>17. CASE Restart
  BY <1>17
  DEF Restart, saveVars, dbVars, faultVars, sessionVars, storeVars, HasId, HasRole,
      Builds, TypeOK, SessionsKnowIds,
      RolesAreThere
<1>18. QED
  BY <1>1, <1>2, <1>3, <1>4, <1>5, <1>6, <1>7, <1>8, <1>9, <1>10, <1>11, <1>12, <1>13,
     <1>14, <1>15, <1>16, <1>17 DEF Next, Login

\* What is built is for its user.
LEMMA BuiltStep ==
    ASSUME IInv, [Next]_vars
    PROVE  BuiltIsOwn'
<1> USE DEF IInv, Known
<1>1. CASE UNCHANGED vars
  BY <1>1 DEF vars, sessionVars, storeVars, faultVars, TypeOK, Persisted, BuiltIsOwn
<1>2. ASSUME NEW s \in Sessions, NEW u \in Users, FindId(s, u) PROVE BuiltIsOwn'
  BY <1>2
  DEF FindId, Goto, sessionVars, storeVars, faultVars, TypeOK, Persisted, BuiltIsOwn
<1>3. ASSUME NEW s \in Sessions, NewId(s) PROVE BuiltIsOwn'
  BY <1>3
  DEF NewId, Goto, sessionVars, storeVars, faultVars, TypeOK, Persisted, BuiltIsOwn
<1>4. ASSUME NEW s \in Sessions, SetId(s) PROVE BuiltIsOwn'
  BY <1>4
  DEF SetId, Goto, sessionVars, storeVars, faultVars, TypeOK, Persisted, BuiltIsOwn
<1>5. ASSUME NEW s \in Sessions, GetRole(s) PROVE BuiltIsOwn'
  BY <1>5
  DEF GetRole, Goto, sessionVars, storeVars, faultVars, TypeOK, Persisted, BuiltIsOwn
<1>6. ASSUME NEW s \in Sessions, LockUser(s) PROVE BuiltIsOwn'
  BY <1>6
  DEF LockUser, Goto, sessionVars, storeVars, faultVars, TypeOK, Persisted, BuiltIsOwn
<1>7. ASSUME NEW s \in Sessions, LoadRole(s) PROVE BuiltIsOwn'
  <2>1. user[s] \in Users /\ roleId[s] \in Ids /\ userIdMap[user[s]] = roleId[s]
    BY <1>7, IdOfSession DEF LoadRole, HasId
  <2>2. UNCHANGED <<user, roleId, doc, saved>>
    BY <1>7 DEF LoadRole, storeVars
  <2>3. \A t \in Sessions : t # s => at'[t] = at[t] /\ loaded'[t] = loaded[t]
    BY <1>7 DEF LoadRole, Goto, TypeOK
  <2>4. FreshRole(user[s]) # NoRole /\ FreshRole(user[s]).owner = user[s]
    BY <2>1, RoleType
  <2>5. doc[roleId[s]] # NoDoc => doc[roleId[s]].owner = user[s]
    <3>1. HAVE doc[roleId[s]] # NoDoc
    <3>2. doc[roleId[s]].owner \in Users /\ userIdMap[doc[roleId[s]].owner] = roleId[s]
      BY <2>1, <3>1, RoleType DEF RolesAreOwned, TypeOK
    <3>3. QED
      BY <2>1, <3>2 DEF IdsAreApart, Ids
  <2>6. \/ /\ at'[s] = "publish" /\ doc[roleId[s]] # NoDoc
           /\ loaded'[s] = Persisted(roleId[s])
        \/ at'[s] = "publishNew" /\ loaded'[s] = FreshRole(user[s])
    BY <1>7 DEF LoadRole, Goto, TypeOK
  <2>7. doc[roleId[s]] # NoDoc =>
           Persisted(roleId[s]) # NoRole /\ Persisted(roleId[s]).owner = doc[roleId[s]].owner
    BY <2>1, PersistedType, RoleType
  <2>8. \A i \in Ids : Persisted(i)' = Persisted(i)
    BY <2>2 DEF Persisted
  <2>9. \A t \in Sessions : at[t] = "publish" => roleId[t] \in Ids
    BY IdOfSession DEF HasId
  <2> HIDE DEF IInv, Known
  <2>10. BuiltIsOwn
    BY DEF IInv
  <2>11. QED
    BY <2>1, <2>2, <2>3, <2>4, <2>5, <2>6, <2>7, <2>8, <2>9, <2>10 DEF BuiltIsOwn
<1>8. ASSUME NEW s \in Sessions, Publish(s) PROVE BuiltIsOwn'
  BY <1>8
  DEF Publish, Goto, sessionVars, storeVars, faultVars, TypeOK, Persisted, BuiltIsOwn
<1>9. ASSUME NEW s \in Sessions, InitRole(s) PROVE BuiltIsOwn'
  BY <1>9
  DEF InitRole, Goto, sessionVars, storeVars, faultVars, TypeOK, Persisted, BuiltIsOwn
<1>10. ASSUME NEW s \in Sessions, UnlockUser(s) PROVE BuiltIsOwn'
  BY <1>10
  DEF UnlockUser, Goto, sessionVars, storeVars, faultVars, TypeOK, Persisted, BuiltIsOwn
<1>11. ASSUME NEW s \in Sessions, Enter(s) PROVE BuiltIsOwn'
  BY <1>11
  DEF Enter, saveVars, dbVars, faultVars, Goto, sessionVars, storeVars, TypeOK,
      Persisted, BuiltIsOwn
<1>12. ASSUME NEW s \in Sessions, Play(s) PROVE BuiltIsOwn'
  BY <1>12
  DEF Play, saveVars, dbVars, faultVars, sessionVars, storeVars, TypeOK, Persisted,
      BuiltIsOwn
<1>13. ASSUME NEW s \in Sessions, Leave(s) PROVE BuiltIsOwn'
  BY <1>13
  DEF Leave, Goto, sessionVars, storeVars, faultVars, TypeOK, Persisted, BuiltIsOwn
<1>14. ASSUME NEW i \in Ids, SaveBegin(i) PROVE BuiltIsOwn'
  BY <1>14 DEF SaveBegin, dbVars, sessionVars, Persisted, BuiltIsOwn
<1>15. ASSUME NEW e \in {RoleDoc} \union PlayDocs, SaveDoc(e) PROVE BuiltIsOwn'
  <2>1. UNCHANGED <<at, user, roleId, loaded, roleMap>>
    BY <1>15, SaveDocEffect DEF sessionVars
  <2>2. saving \in Ids /\ roleMap[saving] # NoRole
    BY <1>15, SaveDocEffect DEF CopyIsEarlier, Ids
  <2>3. \A i \in Ids : i # saving => doc'[i] = doc[i] /\ saved'[i] = saved[i]
    <3>1. \A i \in Ids, d \in PlayDocs : i # saving => saved'[i][d] = saved[i][d]
      BY <1>15, SaveDocEffect
    <3>2. saved' \in [Ids -> Progress] /\ saved \in [Ids -> Progress]
      BY <1>15, SaveDocTypes DEF TypeOK
    <3>3. \A i \in Ids : i # saving => doc'[i] = doc[i]
      BY <1>15, SaveDocEffect
    <3>4. QED
      BY <3>1, <3>2, <3>3 DEF Progress
  <2>4. \A t \in Sessions : at[t] = "publish" => roleId[t] \in Ids /\ roleId[t] # saving
    BY <2>2, IdOfSession DEF RolesAreThere, Builds, HasId
  <2>5. \A t \in Sessions : at[t] = "publish" =>
           Persisted(roleId[t])' = Persisted(roleId[t]) /\ doc'[roleId[t]] = doc[roleId[t]]
    BY <2>1, <2>3, <2>4 DEF Persisted
  <2>6. QED
    BY <2>1, <2>5 DEF BuiltIsOwn
<1>16. CASE SaveBoard
  BY <1>16
  DEF SaveBoard, saveVars, dbVars, faultVars, sessionVars, storeVars, TypeOK, Persisted,
      BuiltIsOwn
<1>17. CASE Restart
  BY <1>17
  DEF Restart, saveVars, dbVars, faultVars, sessionVars, storeVars, TypeOK, Persisted,
      BuiltIsOwn
<1>18. QED
  BY <1>1, <1>2, <1>3, <1>4, <1>5, <1>6, <1>7, <1>8, <1>9, <1>10, <1>11, <1>12, <1>13,
     <1>14, <1>15, <1>16, <1>17 DEF Next, Login

\* A role gets its name before its creator lets go of the lock.
LEMMA NamelessStep ==
    ASSUME IInv, NamelessAreKnown, [Next]_vars
    PROVE  NamelessAreKnown'
<1> USE DEF IInv, Known
<1>1. CASE UNCHANGED vars
  BY <1>1 DEF vars, sessionVars, storeVars, faultVars, TypeOK, NamelessAreKnown
<1>2. ASSUME NEW s \in Sessions, NEW u \in Users, FindId(s, u) PROVE NamelessAreKnown'
  <2>1. UNCHANGED <<roleMap, doc>>
    BY <1>2 DEF FindId, storeVars, faultVars
  <2>2. \A t \in Sessions : at[t] = "init" => at'[t] = "init" /\ roleId'[t] = roleId[t]
    BY <1>2 DEF FindId, Goto, TypeOK
  <2>3. QED
    BY <2>1, <2>2 DEF NamelessAreKnown
<1>3. ASSUME NEW s \in Sessions, NewId(s) PROVE NamelessAreKnown'
  <2>1. UNCHANGED <<roleMap, doc>>
    BY <1>3 DEF NewId, storeVars, faultVars
  <2>2. \A t \in Sessions : at[t] = "init" => at'[t] = "init" /\ roleId'[t] = roleId[t]
    BY <1>3 DEF NewId, Goto, TypeOK
  <2>3. QED
    BY <2>1, <2>2 DEF NamelessAreKnown
<1>4. ASSUME NEW s \in Sessions, SetId(s) PROVE NamelessAreKnown'
  <2>1. UNCHANGED <<roleMap, doc>>
    BY <1>4 DEF SetId, storeVars, faultVars
  <2>2. \A t \in Sessions : at[t] = "init" => at'[t] = "init" /\ roleId'[t] = roleId[t]
    BY <1>4 DEF SetId, Goto, TypeOK
  <2>3. QED
    BY <2>1, <2>2 DEF NamelessAreKnown
<1>5. ASSUME NEW s \in Sessions, GetRole(s) PROVE NamelessAreKnown'
  <2>1. UNCHANGED <<roleMap, roleId, doc>>
    BY <1>5 DEF GetRole, storeVars, faultVars
  <2>2. \A t \in Sessions : at[t] = "init" => at'[t] = "init"
    BY <1>5 DEF GetRole, Goto, TypeOK
  <2>3. QED
    BY <2>1, <2>2 DEF NamelessAreKnown
<1>6. ASSUME NEW s \in Sessions, LockUser(s) PROVE NamelessAreKnown'
  <2>1. UNCHANGED <<roleMap, roleId, doc>>
    BY <1>6 DEF LockUser, storeVars, faultVars
  <2>2. \A t \in Sessions : at[t] = "init" => at'[t] = "init"
    BY <1>6 DEF LockUser, Goto, TypeOK
  <2>3. QED
    BY <2>1, <2>2 DEF NamelessAreKnown
<1>7. ASSUME NEW s \in Sessions, LoadRole(s) PROVE NamelessAreKnown'
  <2>1. UNCHANGED <<roleMap, roleId, doc>>
    BY <1>7 DEF LoadRole, storeVars, faultVars
  <2>2. \A t \in Sessions : at[t] = "init" => at'[t] = "init"
    BY <1>7 DEF LoadRole, Goto, TypeOK
  <2>3. QED
    BY <2>1, <2>2 DEF NamelessAreKnown
<1>8. ASSUME NEW s \in Sessions, Publish(s) PROVE NamelessAreKnown'
  <2>1. UNCHANGED <<roleId, doc>> /\ \A t \in Sessions : t # s => at'[t] = at[t]
    BY <1>8 DEF Publish, Goto, storeVars, faultVars, TypeOK
  <2>2. \/ at'[s] = "init"
        \/ /\ doc[roleId[s]] # NoDoc
           /\ roleMap'[roleId[s]].named = doc[roleId[s]].named
    <3>1. at[s] \in {"publish", "publishNew"}
      BY <1>8 DEF Publish
    <3>2. /\ at'[s] = IF at[s] = "publishNew" THEN "init" ELSE "unlock"
          /\ roleMap'[roleId[s]] = loaded[s]
      BY <1>8, PublishEffect
    <3>3. at[s] = "publish" =>
             doc[roleId[s]] # NoDoc /\ loaded[s].named = doc[roleId[s]].named
      <4>1. at[s] = "publish" =>
               doc[roleId[s]] # NoDoc /\ loaded[s] = Persisted(roleId[s])
        BY DEF BuiltIsOwn
      <4>2. Persisted(roleId[s]).named = doc[roleId[s]].named
        BY DEF Persisted
      <4>3. QED
        BY <4>1, <4>2
    <3>4. QED
      BY <3>1, <3>2, <3>3
  <2>3. /\ roleId[s] \in Ids /\ roleMap'[roleId[s]] # NoRole
        /\ \A i \in Ids : i # roleId[s] => roleMap'[i] = roleMap[i]
    BY <1>8, PublishEffect
  <2>4. at[s] # "init"
    BY <1>8 DEF Publish
  <2>5. QED
    BY <2>1, <2>2, <2>3, <2>4 DEF NamelessAreKnown
<1>9. ASSUME NEW s \in Sessions, InitRole(s) PROVE NamelessAreKnown'
  <2>1. UNCHANGED <<roleId, doc>> /\ \A t \in Sessions : t # s => at'[t] = at[t]
    BY <1>9 DEF InitRole, Goto, storeVars, faultVars, TypeOK
  <2>2. /\ roleMap'[roleId[s]].named
        /\ \A i \in Ids : i # roleId[s] => roleMap'[i] = roleMap[i]
    BY <1>9, InitRoleEffect
  <2>3. QED
    BY <2>1, <2>2 DEF NamelessAreKnown
<1>10. ASSUME NEW s \in Sessions, UnlockUser(s) PROVE NamelessAreKnown'
  <2>1. UNCHANGED <<roleMap, roleId, doc>>
    BY <1>10 DEF UnlockUser, storeVars, faultVars
  <2>2. \A t \in Sessions : at[t] = "init" => at'[t] = "init"
    BY <1>10 DEF UnlockUser, Goto, TypeOK
  <2>3. QED
    BY <2>1, <2>2 DEF NamelessAreKnown
<1>11. ASSUME NEW s \in Sessions, Enter(s) PROVE NamelessAreKnown'
  <2>1. UNCHANGED <<roleMap, roleId, doc>>
    BY <1>11 DEF Enter, saveVars, dbVars, faultVars, storeVars
  <2>2. \A t \in Sessions : at[t] = "init" => at'[t] = "init"
    BY <1>11 DEF Enter, saveVars, dbVars, faultVars, Goto, TypeOK
  <2>3. QED
    BY <2>1, <2>2 DEF NamelessAreKnown
<1>12. ASSUME NEW s \in Sessions, Play(s) PROVE NamelessAreKnown'
  <2>1. UNCHANGED <<at, roleId, doc>>
    BY <1>12 DEF Play, saveVars, dbVars, faultVars, sessionVars
  <2>2. \A i \in Ids : roleMap'[i] # NoRole /\ ~roleMap'[i].named =>
           roleMap[i] # NoRole /\ ~roleMap[i].named
    BY <1>12, PlayEffect
  <2>3. QED
    BY <2>1, <2>2 DEF NamelessAreKnown
<1>13. ASSUME NEW s \in Sessions, Leave(s) PROVE NamelessAreKnown'
  <2>1. UNCHANGED <<roleMap, doc>>
    BY <1>13 DEF Leave, storeVars, faultVars
  <2>2. \A t \in Sessions : at[t] = "init" => at'[t] = "init" /\ roleId'[t] = roleId[t]
    BY <1>13 DEF Leave, Goto, TypeOK
  <2>3. QED
    BY <2>1, <2>2 DEF NamelessAreKnown
<1>14. ASSUME NEW i \in Ids, SaveBegin(i) PROVE NamelessAreKnown'
  BY <1>14 DEF SaveBegin, dbVars, sessionVars, NamelessAreKnown
<1>15. ASSUME NEW e \in {RoleDoc} \union PlayDocs, SaveDoc(e) PROVE NamelessAreKnown'
  <2>1. UNCHANGED <<at, roleId, roleMap>>
    BY <1>15, SaveDocEffect DEF sessionVars
  <2>2. copy.named => roleMap[saving].named
    BY <1>15, SaveDocEffect DEF CopyIsEarlier, Follows, Ids
  <2>3. copy \in Role
    BY <1>15, SaveDocEffect
  <2>4. [owner |-> copy.owner, named |-> copy.named] # NoDoc
    BY <2>3, RoleType
  <2>5. \A i \in Ids : \/ doc'[i] = doc[i]
                      \/ /\ i = saving /\ doc'[i] # NoDoc
                         /\ doc'[i].named = copy.named
    BY <1>15, <2>4, SaveDocEffect
  <2>6. QED
    BY <2>1, <2>2, <2>5 DEF NamelessAreKnown
<1>16. CASE SaveBoard
  BY <1>16
  DEF SaveBoard, saveVars, dbVars, faultVars, sessionVars, storeVars, TypeOK,
      NamelessAreKnown
<1>17. CASE Restart
  BY <1>17
  DEF Restart, saveVars, dbVars, faultVars, sessionVars, storeVars, TypeOK,
      NamelessAreKnown
<1>18. QED
  BY <1>1, <1>2, <1>3, <1>4, <1>5, <1>6, <1>7, <1>8, <1>9, <1>10, <1>11, <1>12, <1>13,
     <1>14, <1>15, <1>16, <1>17 DEF Next, Login

\* A role in the map stays there until a restart, and its progress only grows.
LEMMA RolesGrow ==
    ASSUME IInv, [Next]_vars, ~Restart, NEW i \in Ids, roleMap[i] # NoRole
    PROVE  roleMap'[i] # NoRole /\ Follows(roleMap'[i], roleMap[i])
<1>1. \A d \in PlayDocs : roleMap[i].progress[d] \in Nat
  BY ProgressType DEF IInv, Known, TypeOK
<1>2. CASE roleMap' = roleMap
  BY <1>1, <1>2 DEF Follows
<1>3. ASSUME NEW s \in Sessions, Publish(s)
      PROVE  roleMap'[i] # NoRole /\ Follows(roleMap'[i], roleMap[i])
  BY <1>1, <1>3, PublishEffect DEF Follows
<1>4. ASSUME NEW s \in Sessions, InitRole(s)
      PROVE  roleMap'[i] # NoRole /\ Follows(roleMap'[i], roleMap[i])
  <2>1. \/ i # roleId[s] /\ roleMap'[i] = roleMap[i]
        \/ /\ roleMap'[i] # NoRole /\ roleMap'[i].owner = roleMap[i].owner
           /\ roleMap'[i].named = TRUE /\ roleMap'[i].progress = roleMap[i].progress
    BY <1>4, InitRoleEffect
  <2>2. QED
    BY <1>1, <2>1 DEF Follows
<1>5. ASSUME NEW s \in Sessions, Play(s)
      PROVE  roleMap'[i] # NoRole /\ Follows(roleMap'[i], roleMap[i])
  BY <1>1, <1>5, PlayEffect DEF Follows
<1>6. ASSUME NEW e \in {RoleDoc} \union PlayDocs, SaveDoc(e) PROVE roleMap' = roleMap
  BY <1>6, SaveDocEffect
<1>7. \/ roleMap' = roleMap
      \/ \E s \in Sessions : Publish(s) \/ InitRole(s) \/ Play(s)
      \/ \E e \in {RoleDoc} \union PlayDocs : SaveDoc(e)
  BY DEF Next, Login, FindId, NewId, SetId, GetRole, LockUser, LoadRole, UnlockUser,
      Enter,
         Leave, SaveBegin, SaveBoard, vars
<1>8. QED
  BY <1>2, <1>3, <1>4, <1>5, <1>6, <1>7

\* Only the flush has to do with the documents of roles and with what is being saved.
LEMMA FlushSteps ==
    ASSUME [Next]_vars
    PROVE  \/ /\ UNCHANGED <<saving, copy, todo, doc, saved, unrecorded>>
              /\ misread \subseteq misread'
           \/ \E i \in Ids : SaveBegin(i)
           \/ \E e \in {RoleDoc} \union PlayDocs : SaveDoc(e)
           \/ Restart
<1> DEFINE Quiet == /\ UNCHANGED <<saving, copy, todo, doc, saved, unrecorded>>
                    /\ misread \subseteq misread'
<1>1. ASSUME NEW s \in Sessions, LoadRole(s) PROVE Quiet
  BY <1>1 DEF LoadRole, storeVars, faultVars
<1>2. ASSUME NEW s \in Sessions,
             \/ NewId(s) \/ SetId(s) \/ GetRole(s) \/ LockUser(s) \/ Publish(s)
             \/ InitRole(s) \/ UnlockUser(s) \/ Leave(s)
      PROVE  Quiet
  BY <1>2 DEF NewId, SetId, GetRole, LockUser, Publish, InitRole, UnlockUser, Leave,
              storeVars, faultVars
<1>3. ASSUME NEW s \in Sessions, Enter(s) \/ Play(s) PROVE Quiet
  BY <1>3 DEF Enter, Play, saveVars, dbVars, faultVars
<1>4. ASSUME NEW s \in Sessions, NEW u \in Users, FindId(s, u) PROVE Quiet
  BY <1>4 DEF FindId, storeVars, faultVars
<1>5. ASSUME SaveBoard PROVE Quiet
  BY <1>5 DEF SaveBoard, saveVars, faultVars
<1>6. ASSUME UNCHANGED vars PROVE Quiet
  BY <1>6 DEF vars, storeVars, faultVars
<1> HIDE DEF Quiet
<1>7. ASSUME NEW s \in Sessions, Login(s) \/ Play(s) \/ Leave(s) PROVE Quiet
  BY <1>1, <1>2, <1>3, <1>4, <1>7 DEF Login
<1>8. \/ \E s \in Sessions : Login(s) \/ Play(s) \/ Leave(s)
      \/ \E i \in Ids : SaveBegin(i)
      \/ \E e \in {RoleDoc} \union PlayDocs : SaveDoc(e)
      \/ SaveBoard \/ Restart \/ UNCHANGED vars
  BY DEF Next
<1>9. \/ Quiet
      \/ \E i \in Ids : SaveBegin(i)
      \/ \E e \in {RoleDoc} \union PlayDocs : SaveDoc(e)
      \/ Restart
  BY <1>5, <1>6, <1>7, <1>8
<1>10. QED
  BY <1>9 DEF Quiet

\* What is being saved stays an earlier state of the role.
LEMMA CopyStep ==
    ASSUME IInv, [Next]_vars
    PROVE  CopyIsEarlier'
<1>1. CASE Restart
  BY <1>1 DEF Restart, CopyIsEarlier
<1>2. ASSUME NEW i \in Ids, SaveBegin(i) PROVE CopyIsEarlier'
  <2>1. /\ saving' = i /\ copy' = roleMap[i] /\ roleMap' = roleMap
        /\ roleMap[i] # NoRole /\ roleMap[i] \in Role
    BY <1>2 DEF SaveBegin, IInv, Known, RolesAreThere, TypeOK
  <2>2. \A d \in PlayDocs : roleMap[i].progress[d] \in Nat
    BY <2>1, ProgressType
  <2>3. QED
    BY <2>1, <2>2 DEF CopyIsEarlier, Follows
<1>3. CASE ~Restart /\ (saving' = 0 \/ UNCHANGED <<saving, copy>>)
  <2>1. CASE saving' = 0
    BY <2>1 DEF CopyIsEarlier
  <2>2. CASE UNCHANGED <<saving, copy>> /\ saving # 0
    <3>1. /\ saving \in Ids /\ roleMap[saving] # NoRole
          /\ copy \in Role /\ Follows(roleMap[saving], copy)
      BY <2>2 DEF IInv, Known, TypeOK, CopyIsEarlier
    <3>2. roleMap'[saving] # NoRole /\ Follows(roleMap'[saving], roleMap[saving])
      BY <1>3, <3>1, RolesGrow
    <3>3. TypeOK'
      BY TypeStep
    <3>4. \A d \in PlayDocs : /\ copy.progress[d] \in Nat
                             /\ roleMap[saving].progress[d] \in Nat
                             /\ roleMap'[saving].progress[d] \in Nat
      <4>1. roleMap[saving] \in Role
        BY <3>1 DEF IInv, Known, TypeOK
      <4>2. roleMap'[saving] \in Role
        BY <3>1, <3>2, <3>3 DEF TypeOK
      <4>3. QED
        BY <3>1, <4>1, <4>2, ProgressType
    <3>5. Follows(roleMap'[saving], copy)
      BY <3>1, <3>2, <3>4 DEF Follows
    <3>6. QED
      BY <2>2, <3>1, <3>2, <3>5 DEF CopyIsEarlier
  <2>3. QED
    BY <1>3, <2>1, <2>2
<1>4. ASSUME NEW e \in {RoleDoc} \union PlayDocs, SaveDoc(e)
      PROVE  saving' = 0 \/ UNCHANGED <<saving, copy>>
  BY <1>4, SaveDocEffect
<1>5. QED
  BY <1>1, <1>2, <1>3, <1>4, FlushSteps

\* A role about to be made anew has been so since it was looked up.
LEMMA NewSince ==
    ASSUME IInv, [Next]_vars, NEW t \in Sessions, at'[t] = "publishNew"
    PROVE  /\ roleId'[t] = roleId[t]
           /\ at[t] = "publishNew" \/ LoadRole(t)
<1> DEFINE Since == /\ roleId'[t] = roleId[t]
                    /\ at[t] = "publishNew" \/ LoadRole(t)
<1> USE DEF IInv, Known, TypeOK
<1>1. ASSUME NEW s \in Sessions, LoadRole(s) PROVE Since
  BY <1>1 DEF LoadRole, Goto
<1>2. ASSUME NEW s \in Sessions, NEW u \in Users, FindId(s, u) PROVE Since
  BY <1>2 DEF FindId, Goto
<1>3. ASSUME NEW s \in Sessions, NewId(s) \/ SetId(s) \/ Leave(s) PROVE Since
  BY <1>3 DEF NewId, SetId, Leave, Goto
<1>4. ASSUME NEW s \in Sessions, GetRole(s) \/ LockUser(s) \/ Publish(s) PROVE Since
  BY <1>4 DEF GetRole, LockUser, Publish, Goto
<1>5. ASSUME NEW s \in Sessions, InitRole(s) \/ UnlockUser(s) \/ Enter(s) PROVE Since
  BY <1>5 DEF InitRole, UnlockUser, Enter, Goto
<1>6. ASSUME NEW s \in Sessions, Play(s) PROVE Since
  BY <1>6 DEF Play, sessionVars
<1>7. ASSUME SaveBoard \/ \E i \in Ids : SaveBegin(i) PROVE Since
  BY <1>7 DEF SaveBoard, SaveBegin, sessionVars
<1>8. ASSUME NEW e \in {RoleDoc} \union PlayDocs, SaveDoc(e) PROVE Since
  BY <1>8, SaveDocEffect DEF sessionVars
<1>9. ~Restart
  BY DEF Restart
<1>10. ASSUME UNCHANGED vars PROVE Since
  BY <1>10 DEF vars, sessionVars
<1> HIDE DEF Since, IInv, Known, TypeOK
<1>11. ASSUME NEW s \in Sessions, Login(s) \/ Play(s) \/ Leave(s) PROVE Since
  BY <1>1, <1>2, <1>3, <1>4, <1>5, <1>6, <1>11 DEF Login
<1>12. \/ \E s \in Sessions : Login(s) \/ Play(s) \/ Leave(s)
       \/ \E i \in Ids : SaveBegin(i)
       \/ \E e \in {RoleDoc} \union PlayDocs : SaveDoc(e)
       \/ SaveBoard \/ Restart \/ UNCHANGED vars
  BY DEF Next
<1>13. Since
  BY <1>7, <1>8, <1>9, <1>10, <1>11, <1>12
<1>14. QED
  BY <1>13 DEF Since

\* A role that appears in the map is the persisted one, if there is a role document
\* and the role is intact.
LEMMA AppearsAsPersisted ==
    ASSUME IInv, RecordedFirst, [Next]_vars, NEW i \in Intact,
           roleMap[i] = NoRole, roleMap'[i] # NoRole, doc[i] # NoDoc
    PROVE  roleMap'[i] = Persisted(i)
<1>1. i \in Ids
  BY DEF Intact
<1>2. ASSUME NEW s \in Sessions, Publish(s) PROVE roleMap'[i] = Persisted(i)
  <2>1. i = roleId[s] /\ roleMap'[i] = loaded[s]
    BY <1>1, <1>2, PublishEffect
  <2>2. at[s] = "publish"
    BY <1>2, <2>1 DEF Publish, RecordedFirst
  <2>3. QED
    BY <2>1, <2>2 DEF IInv, BuiltIsOwn
<1>3. ASSUME NEW s \in Sessions, InitRole(s) \/ Play(s) PROVE FALSE
  BY <1>1, <1>3, InitRoleEffect, PlayEffect
<1>4. ~Restart
  BY <1>1 DEF Restart
<1>5. ASSUME NEW e \in {RoleDoc} \union PlayDocs, SaveDoc(e) PROVE FALSE
  BY <1>5, SaveDocEffect
<1>6. \/ roleMap' = roleMap \/ Restart
      \/ \E s \in Sessions : Publish(s) \/ InitRole(s) \/ Play(s)
      \/ \E e \in {RoleDoc} \union PlayDocs : SaveDoc(e)
  BY DEF Next, Login, FindId, NewId, SetId, GetRole, LockUser, LoadRole, UnlockUser,
      Enter,
         Leave, SaveBegin, SaveBoard, vars
<1>7. QED
  BY <1>2, <1>3, <1>4, <1>5, <1>6

\* The map and what is being saved stay ahead of the documents.
LEMMA AheadStep ==
    ASSUME IInv, RecordedFirst, MapIsAhead, [Next]_vars
    PROVE  MapIsAhead'
<1>1. TypeOK /\ TypeOK' /\ CopyIsEarlier
  BY TypeStep DEF IInv, Known
<1>2. \A i \in Ids, d \in PlayDocs :
         /\ saved[i][d] \in Nat
         /\ roleMap[i] # NoRole => roleMap[i].progress[d] \in Nat
         /\ roleMap'[i] # NoRole => roleMap'[i].progress[d] \in Nat
  <2>1. \A i \in Ids : /\ saved[i] \in [PlayDocs -> 0..MaxProgress]
                      /\ roleMap[i] \in Role \union {NoRole}
                      /\ roleMap'[i] \in Role \union {NoRole}
    BY <1>1 DEF TypeOK, Progress
  <2>2. QED
    BY <2>1, ProgressType
<1>3. ASSUME Intact' \subseteq Intact, saved' = saved, ~Restart,
             NEW i \in Intact', NEW d \in PlayDocs, roleMap'[i] # NoRole
      PROVE  saved'[i][d] <= roleMap'[i].progress[d]
  <2>1. i \in Ids /\ i \in Intact
    BY <1>3 DEF Intact
  <2>2. CASE roleMap[i] # NoRole
    <3>1. Follows(roleMap'[i], roleMap[i])
      BY <1>3, <2>1, <2>2, RolesGrow
    <3>2. saved[i][d] <= roleMap[i].progress[d]
      BY <2>1, <2>2 DEF MapIsAhead
    <3>3. QED
      BY <1>2, <1>3, <2>1, <2>2, <3>1, <3>2 DEF Follows
  <2>3. CASE roleMap[i] = NoRole /\ doc[i] # NoDoc
    <3>1. roleMap'[i] = Persisted(i)
      BY <1>3, <2>1, <2>3, AppearsAsPersisted
    <3>2. QED
      BY <1>2, <1>3, <2>1, <3>1 DEF Persisted
  <2>4. CASE roleMap[i] = NoRole /\ doc[i] = NoDoc
    <3>1. saved[i][d] = 0
      BY <2>1, <2>4 DEF RecordedFirst
    <3>2. QED
      BY <1>2, <1>3, <2>1, <3>1
  <2>5. QED
    BY <2>2, <2>3, <2>4
<1>4. CASE UNCHANGED <<saving, copy, todo, doc, saved, unrecorded>>
           /\ misread \subseteq misread' /\ ~Restart
  <2>1. Intact' \subseteq Intact
    BY <1>4 DEF Intact
  <2>2. \A i \in Intact', d \in PlayDocs : saving' = i => saved'[i][d] <= copy'.progress[d]
    BY <1>4, <2>1 DEF MapIsAhead
  <2>3. QED
    BY <1>3, <1>4, <2>1, <2>2 DEF MapIsAhead
<1>5. ASSUME NEW j \in Ids, SaveBegin(j), ~Restart PROVE MapIsAhead'
  <2>1. /\ Intact' = Intact /\ saved' = saved /\ saving' = j /\ copy' = roleMap[j]
        /\ roleMap[j] # NoRole
    BY <1>5 DEF SaveBegin, dbVars, faultVars, Intact, IInv, RolesAreThere
  <2>2. \A i \in Intact', d \in PlayDocs : saving' = i => saved'[i][d] <= copy'.progress[d]
    BY <2>1 DEF MapIsAhead
  <2>3. QED
    BY <1>3, <1>5, <2>1, <2>2 DEF MapIsAhead
<1>6. ASSUME NEW e \in {RoleDoc} \union PlayDocs, SaveDoc(e) PROVE MapIsAhead'
  <2>1. /\ roleMap' = roleMap /\ misread' = misread /\ unrecorded \subseteq unrecorded'
        /\ saving \in Ids /\ saving # 0
        /\ saving' = 0 \/ (saving' = saving /\ copy' = copy)
    BY <1>6, SaveDocEffect DEF Ids
  <2>2. Intact' \subseteq Intact /\ Intact \subseteq Ids
    BY <2>1 DEF Intact
  <2>3. \A i \in Ids, d \in PlayDocs :
           \/ saved'[i][d] = saved[i][d]
           \/ i = saving /\ saved'[i][d] = copy.progress[d]
    BY <1>6, SaveDocEffect
  <2>4. /\ roleMap[saving] # NoRole
        /\ \A d \in PlayDocs : /\ copy.progress[d] \in Nat
                              /\ copy.progress[d] <= roleMap[saving].progress[d]
    <3>1. /\ roleMap[saving] # NoRole /\ copy \in Role /\ Follows(roleMap[saving], copy)
      BY <1>1, <2>1 DEF CopyIsEarlier
    <3>2. \A d \in PlayDocs : copy.progress[d] \in Nat
      BY <3>1, ProgressType
    <3>3. QED
      BY <1>2, <2>1, <3>1, <3>2 DEF Follows
  <2>5. \A i \in Intact', d \in PlayDocs :
           roleMap'[i] # NoRole => saved'[i][d] <= roleMap'[i].progress[d]
    BY <2>1, <2>2, <2>3, <2>4 DEF MapIsAhead
  <2>6. \A i \in Intact', d \in PlayDocs : saving' = i => saved'[i][d] <= copy'.progress[d]
    <3>1. SUFFICES ASSUME NEW i \in Intact', NEW d \in PlayDocs, saving' = i
                   PROVE  saved'[i][d] <= copy'.progress[d]
      OBVIOUS
    <3>2. i = saving /\ copy' = copy /\ i \in Intact
      BY <2>1, <2>2, <3>1 DEF Ids, Intact
    <3>3. saved[i][d] <= copy.progress[d]
      BY <3>2 DEF MapIsAhead
    <3>4. QED
      BY <2>1, <2>3, <2>4, <3>2, <3>3
  <2>7. QED
    BY <2>5, <2>6 DEF MapIsAhead
<1>7. CASE Restart
  BY <1>7 DEF Restart, MapIsAhead, Ids, Intact
<1>8. QED
  BY <1>4, <1>5, <1>6, <1>7, FlushSteps

\* An intact role gets its role document before any other.
LEMMA RecordedStep ==
    ASSUME IInv, RecordedFirst, [Next]_vars
    PROVE  RecordedFirst'
<1> DEFINE News == \A s \in Sessions :
                      at'[s] = "publishNew" /\ roleId'[s] \in Intact' =>
                         doc'[roleId'[s]] = NoDoc
<1>1. ASSUME Intact' \subseteq Intact,
             \A s \in Sessions : at[s] = "publishNew" => doc'[roleId[s]] = doc[roleId[s]],
             doc' = doc \/ \A s \in Sessions : ~LoadRole(s)
      PROVE  News
  <2>1. SUFFICES ASSUME NEW s \in Sessions, at'[s] = "publishNew", roleId'[s] \in Intact'
                 PROVE  doc'[roleId[s]] = NoDoc /\ roleId'[s] = roleId[s]
    OBVIOUS
  <2>2. roleId'[s] = roleId[s] /\ (at[s] = "publishNew" \/ LoadRole(s))
    BY <2>1, NewSince
  <2>3. CASE at[s] = "publishNew"
    BY <1>1, <2>1, <2>2, <2>3 DEF RecordedFirst
  <2>4. CASE LoadRole(s)
    <3>1. doc[roleId[s]] = NoDoc \/ roleId[s] \in misread' \/ at'[s] = "publish"
      BY <2>4 DEF LoadRole, Goto, IInv, Known, TypeOK
    <3>2. QED
      BY <1>1, <2>1, <2>2, <2>4, <3>1 DEF Intact
  <2>5. QED
    BY <2>2, <2>3, <2>4
<1> HIDE DEF News
<1>2. CASE UNCHANGED <<saving, copy, todo, doc, saved, unrecorded>>
           /\ misread \subseteq misread'
  <2>1. Intact' \subseteq Intact
    BY <1>2 DEF Intact
  <2>2. News
    BY <1>1, <1>2, <2>1
  <2>3. QED
    BY <1>2, <2>1, <2>2 DEF RecordedFirst, News
<1>3. ASSUME NEW i \in Ids, SaveBegin(i) PROVE RecordedFirst'
  <2>1. /\ Intact' = Intact /\ UNCHANGED <<doc, saved, at, roleId>>
        /\ RoleDoc \in todo'
    BY <1>3 DEF SaveBegin, dbVars, faultVars, sessionVars, Intact
  <2>2. QED
    BY <2>1 DEF RecordedFirst
<1>4. ASSUME NEW e \in {RoleDoc} \union PlayDocs, SaveDoc(e) PROVE RecordedFirst'
  <2>1. /\ UNCHANGED <<at, roleId, roleMap, misread>> /\ unrecorded \subseteq unrecorded'
        /\ saving \in Ids /\ saving # 0 /\ roleMap[saving] # NoRole
        /\ saving' \in {0, saving}
    BY <1>4, SaveDocEffect DEF sessionVars, IInv, CopyIsEarlier, Ids
  <2>2. Intact' \subseteq Intact /\ Intact \subseteq Ids
    BY <2>1 DEF Intact
  <2>3. copy \in Role
    BY <1>4, SaveDocEffect
  <2>4. [owner |-> copy.owner, named |-> copy.named] # NoDoc
    BY <2>3, RoleType
  <2>5. \A i \in Ids : doc[i] # NoDoc => doc'[i] # NoDoc
    BY <1>4, <2>4, SaveDocEffect
  <2>6. \A i \in Ids : i # saving => doc'[i] = doc[i]
    BY <1>4, SaveDocEffect
  <2>7. saving \in Ids /\ roleMap[saving] # NoRole
    BY <2>1
  <2>8. \A i \in Intact, d \in PlayDocs : saved[i][d] # 0 => doc[i] # NoDoc
    BY DEF RecordedFirst
  <2>9. \A i \in Intact : saving = i /\ RoleDoc \notin todo => doc[i] # NoDoc
    BY DEF RecordedFirst
  <2>10. \A i \in Intact', d \in PlayDocs : saved'[i][d] # 0 => doc'[i] # NoDoc
    <3>1. SUFFICES ASSUME NEW i \in Intact', NEW d \in PlayDocs, saved'[i][d] # 0
                   PROVE  doc'[i] # NoDoc
      OBVIOUS
    <3>2. i \in Intact /\ i \in Ids
      BY <2>2
    <3>3. CASE saved'[i][d] = saved[i][d]
      BY <2>5, <2>8, <3>1, <3>2, <3>3
    <3>4. CASE i = saving /\ e # RoleDoc
      <4>1. RoleDoc \notin todo
        BY <1>4, <3>4, SaveDocEffect
      <4>2. QED
        BY <2>5, <2>9, <3>2, <3>4, <4>1
    <3>5. QED
      BY <1>4, <3>2, <3>3, <3>4, SaveDocEffect
  <2>11. \A i \in Intact' : saving' = i /\ RoleDoc \notin todo' => doc'[i] # NoDoc
    <3>1. SUFFICES ASSUME NEW i \in Intact', saving' = i, RoleDoc \notin todo'
                   PROVE  doc'[i] # NoDoc
      OBVIOUS
    <3>2. i = saving /\ i \in Intact /\ i \in Ids
      BY <2>1, <2>2, <3>1 DEF Ids
    <3>3. CASE e = RoleDoc
      BY <1>4, <3>1, <3>2, <3>3, SaveDocEffect DEF Intact
    <3>4. CASE e # RoleDoc
      <4>1. RoleDoc \notin todo
        BY <1>4, <3>1, <3>4, SaveDocEffect
      <4>2. QED
        BY <2>5, <2>9, <3>2, <4>1
    <3>5. QED
      BY <3>3, <3>4
  <2>12. \A s \in Sessions : at[s] = "publishNew" => doc'[roleId[s]] = doc[roleId[s]]
    <3>1. SUFFICES ASSUME NEW s \in Sessions, at[s] = "publishNew"
                   PROVE  doc'[roleId[s]] = doc[roleId[s]]
      OBVIOUS
    <3>2. roleId[s] \in Ids /\ roleMap[roleId[s]] = NoRole
      BY <3>1, IdOfSession DEF HasId, IInv, RolesAreThere, Builds
    <3>3. QED
      BY <2>6, <2>7, <3>2
  <2>13. \A s \in Sessions : at'[s] = "publishNew" /\ roleId'[s] \in Intact' =>
                               doc'[roleId'[s]] = NoDoc
    BY <2>1, <2>2, <2>12 DEF RecordedFirst
  <2>14. QED
    BY <2>10, <2>11, <2>13 DEF RecordedFirst
<1>5. CASE Restart
  <2>1. /\ UNCHANGED <<doc, saved>> /\ Intact' = Intact /\ saving' = 0
        /\ \A s \in Sessions : at'[s] = "out"
    BY <1>5 DEF Restart, dbVars, faultVars, Intact
  <2>2. 0 \notin Intact
    BY DEF Intact, Ids
  <2>3. QED
    BY <2>1, <2>2 DEF RecordedFirst
<1>6. QED
  BY <1>2, <1>3, <1>4, <1>5, FlushSteps

-----------------------------------------------------------------------------
\* The initial state satisfies all of it.
LEMMA InvInit == Init => IInv /\ NamelessAreKnown /\ MapIsAhead /\ RecordedFirst
<1> SUFFICES ASSUME Init PROVE IInv /\ NamelessAreKnown /\ MapIsAhead /\ RecordedFirst
  OBVIOUS
<1>1. TypeOK
  BY DEF Init, TypeOK, Progress, NoProgress, Ids
<1>2. SessionsKnowIds /\ IdsAreApart /\ RolesAreOwned
  BY DEF Init, SessionsKnowIds, IdsAreApart, RolesAreOwned, HasId
<1>3. LocksAreHeld /\ RolesAreThere /\ BuiltIsOwn /\ CopyIsEarlier
  BY DEF Init, LocksAreHeld, RolesAreThere, BuiltIsOwn, HoldsLock, HasRole, Builds,
         CopyIsEarlier
<1>4. NamelessAreKnown /\ MapIsAhead /\ RecordedFirst
  BY DEF Init, NamelessAreKnown, MapIsAhead, RecordedFirst, NoProgress, Intact, Ids
<1>5. QED
  BY <1>1, <1>2, <1>3, <1>4 DEF IInv, Known

\* Every step keeps it.
LEMMA InvStep == IInv /\ [Next]_vars => IInv'
  BY TypeStep, SessionsStep, IdsStep, OwnersStep, LocksStep, ThereStep, BuiltStep,
     CopyStep
  DEF IInv, Known

LEMMA Invariant == Spec => []IInv
  BY InvInit, InvStep, PTL DEF Spec

\* Every reachable state of the role manager is type-correct (base.go:42-49, 164-250).
THEOREM TypeCorrect == Spec => []TypeOK
<1>1. IInv => TypeOK
  BY DEF IInv, Known
<1>2. QED
  BY <1>1, Invariant, PTL

\* Nobody plays as somebody else, and nobody has two roles, for any number of
\* users and of logins at once, and whatever restarts lose (base.go:164-250,
\* 326-386).
THEOREM IdentityKept == Spec => []Identity
<1>1. IInv => Identity
  <2> SUFFICES ASSUME IInv PROVE Identity
    OBVIOUS
  <2> USE DEF IInv, Known
  <2>1. \A u, v \in Users : userIdMap[u] = userIdMap[v] => u = v \/ userIdMap[u] = 0
    BY DEF IdsAreApart
  <2>2. \A i, j \in SavedIds : doc[i].owner = doc[j].owner => i = j
    BY DEF RolesAreOwned, SavedIds
  <2>3. ASSUME NEW s \in Sessions, at[s] \in {"enter", "in"}
        PROVE  roleMap[roleId[s]].owner = user[s]
    <3>1. /\ user[s] \in Users /\ userIdMap[user[s]] = roleId[s] /\ roleId[s] \in Ids
          /\ roleMap[roleId[s]] \in Role
      BY <2>3, IdOfSession DEF HasId, HasRole
    <3>2. /\ roleMap[roleId[s]].owner \in Users
          /\ userIdMap[roleMap[roleId[s]].owner] = roleId[s]
      BY <3>1, RoleType DEF RolesAreOwned
    <3>3. QED
      BY <2>1, <3>1, <3>2 DEF Ids
  <2>4. QED
    BY <2>1, <2>2, <2>3 DEF Identity
<1>2. QED
  BY <1>1, Invariant, PTL

\* A role without a name is one that the holder of its user's lock is about to
\* name, or was saved without, and the lock's holder is on the way to release it
\* (base.go:194-215).
THEOREM CreationGuarded == Spec => []CreationIsGuarded
<1>1. IInv /\ NamelessAreKnown => CreationIsGuarded
  <2> SUFFICES ASSUME IInv, NamelessAreKnown PROVE CreationIsGuarded
    OBVIOUS
  <2>1. \A s \in Sessions : at[s] = "init" => userLock[user[s]] = s
    BY DEF IInv, LocksAreHeld, HoldsLock
  <2>2. \A u \in Users : userLock[u] # Nobody => userLock[u] \in Sessions
    BY DEF IInv, Known, TypeOK
  <2>3. QED
    BY <2>1, <2>2 DEF IInv, LocksAreHeld, HoldsLock, NamelessAreKnown, CreationIsGuarded
<1>2. IInv /\ NamelessAreKnown /\ [Next]_vars => NamelessAreKnown'
  BY NamelessStep
<1>3. QED
  BY <1>1, <1>2, Invariant, InvInit, PTL DEF Spec

\* No step replaces persisted progress by less, for any documents and any number of
\* failed updates and reads, crashes and logins, but for the roles made anew over
\* their documents (base.go:63-142, 188-215, 268-289).
THEOREM ProgressKept == Spec => SavedProgressKept
<1>1. ASSUME IInv, MapIsAhead, [Next]_vars,
             NEW i \in Ids \ (misread \union unrecorded), NEW d \in PlayDocs
      PROVE  saved'[i][d] >= saved[i][d]
  <2>1. i \in Ids /\ i \in Intact
    BY DEF Intact
  <2>2. saved[i][d] \in Nat
    <3>1. saved[i] \in [PlayDocs -> 0..MaxProgress]
      BY <1>1, <2>1 DEF IInv, Known, TypeOK, Progress
    <3>2. QED
      BY <3>1
  <2>3. CASE saved' = saved
    BY <2>2, <2>3
  <2>4. ASSUME NEW e \in {RoleDoc} \union PlayDocs, SaveDoc(e)
        PROVE  saved'[i][d] >= saved[i][d]
    <3>1. \/ saved'[i][d] = saved[i][d]
          \/ i = saving /\ saved'[i][d] = copy.progress[d] /\ copy \in Role
      BY <1>1, <2>1, <2>4, SaveDocEffect
    <3>2. copy \in Role => copy.progress[d] \in Nat
      BY ProgressType
    <3>3. saving = i => saved[i][d] <= copy.progress[d]
      BY <1>1, <2>1 DEF MapIsAhead
    <3>4. QED
      BY <2>2, <3>1, <3>2, <3>3
  <2>5. (\E j \in Ids : SaveBegin(j)) \/ Restart => saved' = saved
    BY DEF SaveBegin, Restart, dbVars
  <2>6. QED
    BY <1>1, <2>3, <2>4, <2>5, FlushSteps
<1>2. IInv /\ MapIsAhead /\ [Next]_vars =>
         [\A i \in Ids \ (misread \union unrecorded), d \in PlayDocs :
             saved'[i][d] >= saved[i][d]]_saved
  BY <1>1
<1>3. IInv /\ RecordedFirst /\ MapIsAhead /\ [Next]_vars =>
         MapIsAhead' /\ RecordedFirst'
  BY AheadStep, RecordedStep
<1>4. QED
  BY <1>2, <1>3, Invariant, InvInit, PTL DEF Spec, SavedProgressKept

\* A role that MongoDB has any document of comes back as it is there: a failed read,
\* and a failed update of the first role document, are the only ways to make it
\* anew (base.go:188-215, 252-289, 389-455).
THEOREM ComesBack == Spec => RoleComesBack
<1>1. ASSUME IInv, RecordedFirst, [Next]_vars,
             NEW i \in Ids \ (misread \union unrecorded),
             doc[i] # NoDoc \/ saved[i] # NoProgress,
             roleMap[i] = NoRole, roleMap'[i] # NoRole
      PROVE  roleMap'[i] = Persisted(i)
  <2>1. i \in Intact /\ i \in Ids
    BY DEF Intact
  <2>2. doc[i] # NoDoc
    <3>1. CASE saved[i] # NoProgress
      <4>1. saved[i] \in [PlayDocs -> 0..MaxProgress]
        BY <1>1, <2>1 DEF IInv, Known, TypeOK, Progress
      <4>2. \E d \in PlayDocs : saved[i][d] # 0
        BY <3>1, <4>1 DEF NoProgress
      <4>3. QED
        BY <1>1, <2>1, <4>2 DEF RecordedFirst
    <3>2. QED
      BY <1>1, <3>1
  <2>3. QED
    BY <1>1, <2>1, <2>2, AppearsAsPersisted
<1>2. IInv /\ RecordedFirst /\ [Next]_vars =>
         [\A i \in Ids \ (misread \union unrecorded) :
             /\ doc[i] # NoDoc \/ saved[i] # NoProgress
             /\ roleMap[i] = NoRole /\ roleMap'[i] # NoRole
             => roleMap'[i] = Persisted(i)]_roleMap
  BY <1>1
<1>3. IInv /\ RecordedFirst /\ [Next]_vars => RecordedFirst'
  BY RecordedStep
<1>4. QED
  BY <1>2, <1>3, Invariant, InvInit, PTL DEF Spec, RoleComesBack
=============================================================================
