--------------------------- MODULE RoleStore_proof ---------------------------
(***************************************************************************)
(* Proofs about RoleStore, for any set of roles, any number of documents   *)
(* per role and any bounds.                                                *)
(***************************************************************************)
EXTENDS RoleStore, TLAPS

\* The locals of a flush make sense at each program point.
FlushShape ==
    /\ pc # "remove" => toRemove = {}
    /\ pc = "idle" => batch = {}
    /\ toRemove \subseteq batch

\* Handlers and the flush are only at work on roles that are in memory.
InUse ==
    /\ \A r \in Roles : dirty[r] \/ writer[r] # "free" => InMemory(r)
    /\ \A r \in pending \union batch \union toRemove : InMemory(r)
    /\ cur # None => InMemory(cur)

\* While Save's copy is being sent, memory is still equal to it or has been
\* flagged again.
CopyIsFresh ==
    pc = "save" => copy = mem[cur] \/ dirty[cur] \/ writer[cur] = "fn"

\* The database is never ahead of a role in memory, and what Save has copied lies
\* between the two for the documents still to be sent.
VersionOrder ==
    /\ \A r \in Roles, d \in Docs :
          /\ db[r][d] <= ver[r] /\ mem[r][d] <= ver[r]
          /\ InMemory(r) => db[r][d] <= mem[r][d]
    /\ pc = "save" =>
         \A d \in Docs : /\ d >= nxt => db[cur][d] <= copy[d]
                         /\ copy[d] <= mem[cur][d]

\* What the final flush has not got to yet: keys it has still to visit or to
\* remove; anything else that is registered was registered beside it.
FinalFlushCovers ==
    /\ stop = "final" =>
         /\ pc # "idle"
         /\ pc = "gather" => pending \subseteq late \union unseen \union batch
         /\ pc = "remove" => pending \subseteq late \union toRemove
         /\ pc \notin {"gather", "remove"} => pending \subseteq late
    /\ stop = "done" => pc = "idle" /\ pending \subseteq late

-----------------------------------------------------------------------------
USE RoleStoreAssumption

\* Copies that the actions build are copies; there is a first document.
LEMMA CopyFacts ==
    /\ NoCopy \in Copy
    /\ RoleDoc \in Docs
    /\ 1 \in Docs
    /\ Docs \subseteq Nat
    /\ \A v \in Nat : [d \in Docs |-> v] \in Copy
    /\ \A c \in Copy, d \in Docs, v \in Nat : [c EXCEPT ![d] = v] \in Copy
    /\ \A c \in Copy, d \in Docs : c[d] \in Nat
    /\ \A d \in Docs : d < NDocs => d + 1 \in Docs
  BY DEF NoCopy, Copy, Docs, RoleDoc

\* Copies that agree on every document are equal.
LEMMA CopyEqual ==
    ASSUME NEW a \in Copy, NEW b \in Copy, \A d \in Docs : a[d] = b[d]
    PROVE  a = b
  BY DEF Copy

\* Storing one document of the copy keeps the database well-typed.
LEMMA StoreType ==
    ASSUME TypeOK
    PROVE  [db EXCEPT ![cur][nxt] = copy[nxt]] \in [Roles -> Copy]
<1>1. CASE cur \in Roles
  <2>1. [db[cur] EXCEPT ![nxt] = copy[nxt]] \in Copy
    BY <1>1, CopyFacts DEF TypeOK
  <2>2. QED
    BY <1>1, <2>1 DEF TypeOK
<1>2. CASE cur = None
  BY <1>2 DEF TypeOK
<1>3. QED
  BY <1>1, <1>2 DEF TypeOK

\* The steps after a document keep the flush's locals well-typed.
LEMMA AfterDocType ==
    ASSUME TypeOK, pc = "save", AfterDoc
    PROVE  /\ pc' \in {"next", "save"}
           /\ cur' \in Roles \union {None}
           /\ pc' = "save" => cur' \in Roles
           /\ copy' \in Copy
           /\ nxt' \in Docs
  BY CopyFacts DEF AfterDoc, ItemDone, TypeOK

\* Initially every variable has its type ...
LEMMA TypeInit == Init => TypeOK
  BY CopyFacts DEF Init, TypeOK

\* ... and every step keeps it.
LEMMA TypeNext == TypeOK /\ [Next]_vars => TypeOK'
<1> SUFFICES ASSUME TypeOK, [Next]_vars PROVE TypeOK'
  OBVIOUS
<1> USE DEF TypeOK
<1>20. ASSUME NEW r \in Roles, LoadRole(r) PROVE TypeOK'
  BY <1>20 DEF LoadRole, flushVars, loginVars
<1>21. ASSUME NEW r \in Roles, NewRole(r) PROVE TypeOK'
  <2>1. ver[r] + 1 \in Nat /\ ver[r] + 1 \in 0..MaxWrites
    BY <1>21 DEF NewRole
  <2>2. [d \in Docs |-> ver[r] + 1] \in Copy
    BY <2>1, CopyFacts
  <2>3. QED
    BY <1>21, <2>1, <2>2 DEF NewRole, flushVars
<1>1. ASSUME NEW r \in Roles, WriteLock(r) PROVE TypeOK'
<2>1. CASE UNCHANGED <<ver, mem>>
  BY <1>1, <2>1 DEF WriteLock, flushVars, loginVars
<2>2. CASE /\ ver[r] < MaxWrites
           /\ ver' = [ver EXCEPT ![r] = @ + 1]
           /\ mem' = [mem EXCEPT ![r] = [d \in Docs |-> ver[r] + 1]]
  <3>1. ver[r] + 1 \in Nat /\ ver[r] + 1 \in 0..MaxWrites
    BY <2>2
  <3>2. [d \in Docs |-> ver[r] + 1] \in Copy
    BY <3>1, CopyFacts
  <3>3. QED
    BY <1>1, <2>2, <3>1, <3>2 DEF WriteLock, flushVars, loginVars
<2>3. QED
  BY <1>1, <2>1, <2>2 DEF WriteLock
<1>2. ASSUME NEW r \in Roles, WriteDirty(r) PROVE TypeOK'
  BY <1>2 DEF WriteDirty, flushVars, loginVars
<1>3. ASSUME NEW r \in Roles, WritePend(r) PROVE TypeOK'
  BY <1>3 DEF WritePend, flushVars, loginVars
<1>4. CASE Tick
  BY <1>4 DEF Tick, roleVars, loginVars
<1>5. CASE FinalFlush
  BY <1>5 DEF FinalFlush, roleVars, loginVars
<1>6. ASSUME NEW r \in Roles, Gather(r) PROVE TypeOK'
  BY <1>6 DEF Gather, roleVars, loginVars
<1>7. ASSUME NEW r \in Roles, Remove(r) PROVE TypeOK'
  BY <1>7 DEF Remove, roleVars, loginVars
<1>8. ASSUME NEW r \in Roles, Take(r) PROVE TypeOK'
  BY <1>8 DEF Take, roleVars, loginVars
<1>9. CASE GatherDone
  BY <1>9 DEF GatherDone, roleVars, loginVars
<1>10. CASE RemoveDone
  BY <1>10 DEF RemoveDone, roleVars, loginVars, flushVars
<1>11. CASE SaveCas
  BY <1>11, CopyFacts DEF SaveCas, ItemDone, roleVars, loginVars
<1>12. CASE SaveClone
  BY <1>12, CopyFacts DEF SaveClone, roleVars, loginVars
<1>13. CASE SaveDocOk
  BY <1>13, StoreType, AfterDocType DEF SaveDocOk, roleVars, loginVars
<1>14. CASE SaveDocFail
  BY <1>14, StoreType, AfterDocType DEF SaveDocFail, roleVars, loginVars
<1>15. CASE FlushDone
  BY <1>15 DEF FlushDone, roleVars, loginVars, flushVars
<1>16. CASE StopCall
  BY <1>16 DEF StopCall, roleVars, loginVars, flushVars
<1>17. CASE Restart
  BY <1>17, CopyFacts DEF Restart
<1>18. CASE UNCHANGED vars
  BY <1>18 DEF vars, loginVars
<1>19. QED
  BY <1>1, <1>2, <1>3, <1>4, <1>5, <1>6, <1>7, <1>8, <1>9, <1>10, <1>11, <1>12,
     <1>13, <1>14, <1>15, <1>16, <1>17, <1>18, <1>20, <1>21 DEF Next, Flusher

\* Every variable keeps its type.
THEOREM TypeCorrect == Spec => []TypeOK
  BY TypeInit, TypeNext, PTL DEF Spec
-----------------------------------------------------------------------------
(* What is at work is in memory.                                            *)

\* Initially nothing is at work ...
LEMMA InUseInit == Init => InUse
  BY DEF Init, InUse

\* ... and a role that is being written or flushed is in memory until a restart.
LEMMA InUseNext == TypeOK /\ InUse /\ [Next]_vars => InUse'
<1> SUFFICES ASSUME TypeOK, InUse, [Next]_vars PROVE InUse'
  OBVIOUS
<1>a. mem' = mem => \A s \in Roles : InMemory(s)' <=> InMemory(s)
  BY DEF InMemory
<1>b. /\ cur \in Roles \union {None} /\ None \notin Roles
      /\ pending \union batch \union toRemove \subseteq Roles
  BY DEF TypeOK
<1> USE DEF InUse
<1>20. ASSUME NEW r \in Roles, LoadRole(r) PROVE InUse'
  <2>1. \A s \in Roles : InMemory(s) => InMemory(s)'
    BY <1>20, CopyFacts DEF LoadRole, InMemory, TypeOK
  <2>2. QED
    BY <1>20, <2>1, <1>b DEF LoadRole, flushVars
<1>21. ASSUME NEW r \in Roles, NewRole(r) PROVE InUse'
  <2>1. \A s \in Roles : InMemory(s) => InMemory(s)'
    BY <1>21, CopyFacts DEF NewRole, InMemory, TypeOK
  <2>2. QED
    BY <1>21, <2>1, <1>b DEF NewRole, flushVars
<1>1. ASSUME NEW r \in Roles, WriteLock(r) PROVE InUse'
  <2>1. \A s \in Roles : InMemory(s) => InMemory(s)'
    <3>1. CASE mem' = mem
      BY <3>1 DEF InMemory
    <3>2. CASE mem' = [mem EXCEPT ![r] = [d \in Docs |-> ver[r] + 1]]
      <4>1. ver[r] + 1 # 0
        BY DEF TypeOK
      <4>2. QED
        BY <3>2, <4>1, CopyFacts DEF InMemory, TypeOK
    <3>3. QED
      BY <1>1, <3>1, <3>2 DEF WriteLock
  <2>2. \A s \in Roles : writer'[s] # "free" => writer[s] # "free" \/ s = r
    BY <1>1 DEF WriteLock, TypeOK
  <2>3. QED
    BY <1>1, <2>1, <2>2, <1>b DEF WriteLock, flushVars
<1>2. ASSUME NEW r \in Roles, WriteDirty(r) PROVE InUse'
  BY <1>2, <1>a, <1>b DEF TypeOK, WriteDirty, flushVars, loginVars
<1>3. ASSUME NEW r \in Roles, WritePend(r) PROVE InUse'
  BY <1>3, <1>a, <1>b DEF TypeOK, WritePend, flushVars, loginVars
<1>4. CASE Tick
  BY <1>4, <1>a, <1>b DEF TypeOK, Tick, roleVars, loginVars
<1>5. CASE FinalFlush
  BY <1>5, <1>a, <1>b DEF TypeOK, FinalFlush, roleVars, loginVars
<1>6. ASSUME NEW r \in Roles, Gather(r) PROVE InUse'
  BY <1>6, <1>a, <1>b DEF TypeOK, Gather, roleVars, loginVars
<1>7. ASSUME NEW r \in Roles, Remove(r) PROVE InUse'
  BY <1>7, <1>a, <1>b DEF TypeOK, Remove, roleVars, loginVars
<1>8. ASSUME NEW r \in Roles, Take(r) PROVE InUse'
  BY <1>8, <1>a, <1>b DEF TypeOK, Take, roleVars, loginVars
<1>9. CASE GatherDone
  BY <1>9, <1>a, <1>b DEF TypeOK, GatherDone, roleVars, loginVars
<1>10. CASE RemoveDone
  BY <1>10, <1>a, <1>b DEF TypeOK, RemoveDone, roleVars, loginVars, flushVars
<1>11. CASE SaveCas
  BY <1>11, <1>a, <1>b DEF TypeOK, SaveCas, ItemDone, roleVars, loginVars
<1>12. CASE SaveClone
  BY <1>12, <1>a, <1>b DEF TypeOK, SaveClone, roleVars, loginVars
<1>13. CASE SaveDocOk
  BY <1>13, <1>a, <1>b DEF TypeOK, SaveDocOk, AfterDoc, ItemDone, roleVars, loginVars
<1>14. CASE SaveDocFail
  BY <1>14, <1>a, <1>b DEF TypeOK, SaveDocFail, AfterDoc, ItemDone, roleVars, loginVars
<1>15. CASE FlushDone
  BY <1>15, <1>a, <1>b DEF TypeOK, FlushDone, roleVars, loginVars, flushVars
<1>16. CASE StopCall
  BY <1>16, <1>a, <1>b DEF TypeOK, StopCall, roleVars, loginVars, flushVars
<1>17. CASE Restart
  BY <1>17 DEF Restart
<1>18. CASE UNCHANGED vars
  BY <1>18, <1>a, <1>b DEF vars, loginVars
<1>19. QED
  BY <1>1, <1>2, <1>3, <1>4, <1>5, <1>6, <1>7, <1>8, <1>9, <1>10, <1>11, <1>12,
     <1>13, <1>14, <1>15, <1>16, <1>17, <1>18, <1>20, <1>21 DEF Next, Flusher

-----------------------------------------------------------------------------
(* No update is lost.                                                       *)

Accounted == FlushShape /\ CopyIsFresh /\ DirtyIsFaithful /\ DirtyIsScheduled

\* The invariant behind DirtyIsFaithful and DirtyIsScheduled holds initially ...
LEMMA AccountedInit == Init => Accounted
  BY CopyFacts DEF Init, Accounted, FlushShape, CopyIsFresh, DirtyIsFaithful,
     DirtyIsScheduled, Unsaved, InMemory, NoCopy

\* ... and is kept by every step, of a handler or of the flush.
LEMMA AccountedNext == TypeOK /\ InUse /\ Accounted /\ [Next]_vars => Accounted'
<1> SUFFICES ASSUME TypeOK, InUse, Accounted, [Next]_vars PROVE Accounted'
  OBVIOUS
<1> USE DEF TypeOK, Accounted, FlushShape, InMemory, CopyIsFresh, DirtyIsFaithful, DirtyIsScheduled,
            Unsaved, InHand
<1>20. ASSUME NEW r \in Roles, LoadRole(r) PROVE Accounted'
  <2>1. \A s \in Roles \ {r} : mem'[s] = mem[s]
    BY <1>20 DEF LoadRole
  <2>2. mem'[r] = db'[r] /\ cur # r
    BY <1>20 DEF LoadRole, InUse
  <2>3. QED
    BY <1>20, <2>1, <2>2 DEF LoadRole, flushVars, loginVars
<1>21. ASSUME NEW r \in Roles, NewRole(r) PROVE Accounted'
  <2>1. \A s \in Roles \ {r} : mem'[s] = mem[s]
    BY <1>21 DEF NewRole
  <2>2. r \in fresh' /\ cur # r
    BY <1>21 DEF NewRole, InUse
  <2>3. QED
    BY <1>21, <2>1, <2>2 DEF NewRole, flushVars
<1>1. ASSUME NEW r \in Roles, WriteLock(r) PROVE Accounted'
  BY <1>1 DEF WriteLock, flushVars, loginVars
<1>2. ASSUME NEW r \in Roles, WriteDirty(r) PROVE Accounted'
  BY <1>2 DEF WriteDirty, flushVars, loginVars
<1>3. ASSUME NEW r \in Roles, WritePend(r) PROVE Accounted'
  BY <1>3 DEF WritePend, flushVars, loginVars
<1>4. CASE Tick
  BY <1>4 DEF Tick, roleVars, loginVars
<1>5. CASE FinalFlush
  BY <1>5 DEF FinalFlush, roleVars, loginVars
<1>6. ASSUME NEW r \in Roles, Gather(r) PROVE Accounted'
  BY <1>6 DEF Gather, roleVars, loginVars
<1>7. ASSUME NEW r \in Roles, Remove(r) PROVE Accounted'
  BY <1>7 DEF Remove, roleVars, loginVars
<1>8. ASSUME NEW r \in Roles, Take(r) PROVE Accounted'
  BY <1>8 DEF Take, roleVars, loginVars
<1>9. CASE GatherDone
  BY <1>9 DEF GatherDone, roleVars, loginVars
<1>10. CASE RemoveDone
  BY <1>10 DEF RemoveDone, roleVars, loginVars, flushVars
<1>11. CASE SaveCas
  BY <1>11 DEF SaveCas, ItemDone, roleVars, loginVars
<1>12. CASE SaveClone
  <2>1. cur' = cur /\ cur \in Roles /\ mem' = mem /\ db' = db
    BY <1>12 DEF SaveClone, roleVars, loginVars
  <2>2. \A d \in Docs : d >= nxt' /\ copy'[d] = mem'[cur][d]
    BY <1>12, <2>1 DEF SaveClone, Docs
  <2>3. InHand(cur)'
    BY <1>12, <2>1, <2>2 DEF SaveClone
  <2>4. DirtyIsFaithful'
    BY <1>12, <2>1, <2>3 DEF SaveClone, roleVars, loginVars
  <2>5. QED
    BY <1>12, <2>1, <2>4 DEF SaveClone, roleVars, loginVars
<1>13. CASE SaveDocOk
  <2>0. PICK r \in Roles : r = cur
    BY <1>13 DEF SaveDocOk
  <2>1. /\ r = cur /\ mem' = mem /\ dirty' = dirty /\ writer' = writer
        /\ db' = [db EXCEPT ![r] = [db[r] EXCEPT ![nxt] = copy[nxt]]]
    BY <1>13, <2>0 DEF SaveDocOk, roleVars, loginVars
  <2>2. ASSUME NEW s \in Roles, Unsaved(s)', s # r
        PROVE  dirty'[s] \/ writer'[s] = "fn" \/ InHand(s)' \/ s \in fresh'
    <3>1. db'[s] = db[s] /\ mem'[s] = mem[s] /\ fresh' = fresh
      BY <1>13, <2>1, <2>2 DEF SaveDocOk, roleVars, loginVars
    <3>2. Unsaved(s)
      BY <2>2, <3>1
    <3>3. ~InHand(s)
      BY <2>1, <2>2
    <3>4. QED
      BY <2>1, <3>1, <3>2, <3>3
  <2>3. ASSUME Unsaved(r)', ~dirty'[r], writer'[r] # "fn", r \notin fresh'
        PROVE  InHand(r)'
    <3>1. copy = mem[r]
      BY <1>13, <2>1, <2>3 DEF SaveDocOk
    <3>2. mem[r] \in Copy /\ db[r] \in Copy /\ db'[r] \in Copy
      BY <2>1, StoreType
    <3>3. PICK d0 \in Docs : mem[r][d0] # db'[r][d0]
      <4>1. mem[r] # db'[r]
        BY <2>1, <2>3
      <4>2. QED
        BY <3>2, <4>1, CopyEqual
    <3>4. \A d \in Docs : db'[r][d] = IF d = nxt THEN copy[nxt] ELSE db[r][d]
      BY <2>1, <3>2 DEF Copy
    <3>5. mem[r] # db[r]
      BY <3>1, <3>3, <3>4
    <3>6. InHand(r)
      <4>1. InMemory(r) /\ fresh' = fresh
        BY <1>13, <2>1, <2>3 DEF SaveDocOk, roleVars, loginVars
      <4>2. Unsaved(r)
        BY <3>5, <4>1
      <4>3. QED
        BY <2>1, <2>3, <4>1, <4>2
    <3>7. \A d \in Docs : mem[r][d] # db[r][d] => d >= nxt
      BY <1>13, <3>6 DEF SaveDocOk
    <3>8. \A d \in Docs : mem[r][d] # db'[r][d] => d >= nxt + 1
      BY <3>1, <3>4, <3>7 DEF Docs
    <3>9. nxt < NDocs
      BY <3>3, <3>8 DEF Docs
    <3>10. pc' = "save" /\ nxt' = nxt + 1 /\ cur' = cur /\ copy' = copy
      BY <1>13, <3>9 DEF SaveDocOk, AfterDoc
    <3>11. QED
      BY <2>1, <3>1, <3>8, <3>10
  <2>4. DirtyIsFaithful'
    BY <2>2, <2>3 DEF DirtyIsFaithful
  <2>5. QED
    BY <1>13, <2>1, <2>4 DEF SaveDocOk, AfterDoc, ItemDone, roleVars, loginVars
<1>14. CASE SaveDocFail
  BY <1>14 DEF SaveDocFail, AfterDoc, ItemDone, roleVars, loginVars
<1>15. CASE FlushDone
  BY <1>15 DEF FlushDone, roleVars, loginVars, flushVars
<1>16. CASE StopCall
  BY <1>16 DEF StopCall, roleVars, loginVars, flushVars
<1>17. CASE Restart
  <2>1. \A r \in Roles : ~InMemory(r)'
    BY <1>17, CopyFacts DEF Restart, NoCopy
  <2>2. QED
    BY <1>17, <2>1 DEF Restart
<1>18. CASE UNCHANGED vars
  BY <1>18 DEF vars, loginVars
<1>19. QED
  BY <1>1, <1>2, <1>3, <1>4, <1>5, <1>6, <1>7, <1>8, <1>9, <1>10, <1>11, <1>12,
     <1>13, <1>14, <1>15, <1>16, <1>17, <1>18, <1>20, <1>21 DEF Next, Flusher

\* No update is lost: whatever the handlers, the flush and the failures do, a
\* change MongoDB lacks is flagged or in hand.
THEOREM NoUpdateLost == Spec => []DirtyIsFaithful
<1>1. TypeOK /\ InUse /\ Accounted /\ [Next]_vars => (TypeOK /\ InUse /\ Accounted)'
  BY TypeNext, InUseNext, AccountedNext
<1>2. Accounted => DirtyIsFaithful
  BY DEF Accounted
<1>3. QED
  BY <1>1, <1>2, TypeInit, InUseInit, AccountedInit, PTL DEF Spec

\* A flagged role stays on its way to a flush until a save of it fails.
THEOREM FlaggedIsScheduled == Spec => []DirtyIsScheduled
<1>1. TypeOK /\ InUse /\ Accounted /\ [Next]_vars => (TypeOK /\ InUse /\ Accounted)'
  BY TypeNext, InUseNext, AccountedNext
<1>2. Accounted => DirtyIsScheduled
  BY DEF Accounted
<1>3. QED
  BY <1>1, <1>2, TypeInit, InUseInit, AccountedInit, PTL DEF Spec

-----------------------------------------------------------------------------
(* Shutdown.                                                                *)

\* No final flush has begun initially ...
LEMMA FinalFlushInit == Init => FinalFlushCovers
  BY DEF Init, FinalFlushCovers

\* ... and once one has, whatever it has still to save is on its way through it.
LEMMA FinalFlushNext ==
    TypeOK /\ Accounted /\ FinalFlushCovers /\ [Next]_vars => FinalFlushCovers'
<1> SUFFICES ASSUME TypeOK, FlushShape, FinalFlushCovers, [Next]_vars
             PROVE  FinalFlushCovers'
  BY DEF Accounted
<1> USE DEF TypeOK, FlushShape, FinalFlushCovers
<1>20. ASSUME NEW r \in Roles, LoadRole(r) PROVE FinalFlushCovers'
  BY <1>20 DEF LoadRole, flushVars, loginVars
<1>21. ASSUME NEW r \in Roles, NewRole(r) PROVE FinalFlushCovers'
  BY <1>21 DEF NewRole, flushVars
<1>1. ASSUME NEW r \in Roles, WriteLock(r) PROVE FinalFlushCovers'
  BY <1>1 DEF WriteLock, flushVars, loginVars
<1>2. ASSUME NEW r \in Roles, WriteDirty(r) PROVE FinalFlushCovers'
  BY <1>2 DEF WriteDirty, flushVars, loginVars
<1>3. ASSUME NEW r \in Roles, WritePend(r) PROVE FinalFlushCovers'
  BY <1>3 DEF WritePend, flushVars, loginVars
<1>4. CASE Tick
  BY <1>4 DEF Tick, roleVars, loginVars
<1>5. CASE FinalFlush
  BY <1>5 DEF FinalFlush, roleVars, loginVars
<1>6. ASSUME NEW r \in Roles, Gather(r) PROVE FinalFlushCovers'
  BY <1>6 DEF Gather, roleVars, loginVars
<1>7. ASSUME NEW r \in Roles, Remove(r) PROVE FinalFlushCovers'
  BY <1>7 DEF Remove, roleVars, loginVars
<1>8. ASSUME NEW r \in Roles, Take(r) PROVE FinalFlushCovers'
  BY <1>8 DEF Take, roleVars, loginVars
<1>9. CASE GatherDone
  BY <1>9 DEF GatherDone, roleVars, loginVars
<1>10. CASE RemoveDone
  BY <1>10 DEF RemoveDone, roleVars, loginVars, flushVars
<1>11. CASE SaveCas
  BY <1>11 DEF SaveCas, ItemDone, roleVars, loginVars
<1>12. CASE SaveClone
  BY <1>12 DEF SaveClone, roleVars, loginVars
<1>13. CASE SaveDocOk
  BY <1>13 DEF SaveDocOk, AfterDoc, ItemDone, roleVars, loginVars
<1>14. CASE SaveDocFail
  BY <1>14 DEF SaveDocFail, AfterDoc, ItemDone, roleVars, loginVars
<1>15. CASE FlushDone
  BY <1>15 DEF FlushDone, roleVars, loginVars, flushVars
<1>16. CASE StopCall
  BY <1>16 DEF StopCall, roleVars, loginVars, flushVars
<1>17. CASE Restart
  BY <1>17 DEF Restart
<1>18. CASE UNCHANGED vars
  BY <1>18 DEF vars, loginVars
<1>19. QED
  BY <1>1, <1>2, <1>3, <1>4, <1>5, <1>6, <1>7, <1>8, <1>9, <1>10, <1>11, <1>12,
     <1>13, <1>14, <1>15, <1>16, <1>17, <1>18, <1>20, <1>21 DEF Next, Flusher

\* When Stop has returned, MongoDB lacks only what was written beside or after
\* the final flush and what a failed save left behind.
THEOREM StopIsComplete == Spec => []StopSavesPending
<1> DEFINE Inv == TypeOK /\ InUse /\ Accounted /\ FinalFlushCovers
<1>1. Init => Inv
  BY TypeInit, InUseInit, AccountedInit, FinalFlushInit
<1>2. Inv /\ [Next]_vars => Inv'
  BY TypeNext, InUseNext, AccountedNext, FinalFlushNext
<1>3. Inv => StopSavesPending
  <2> SUFFICES ASSUME Inv, stop = "done", NEW r \in Roles, Unsaved(r),
                      writer[r] = "free", r \notin fresh
               PROVE  r \in late \union failed
    BY DEF StopSavesPending
  <2>1. pc = "idle" /\ batch = {} /\ pending \subseteq late
    BY DEF Accounted, FlushShape, FinalFlushCovers
  <2>2. dirty[r]
    BY <2>1 DEF Accounted, DirtyIsFaithful, InHand
  <2>3. QED
    BY <2>1, <2>2 DEF Accounted, DirtyIsScheduled
<1>4. QED
  BY <1>1, <1>2, <1>3, PTL DEF Spec

-----------------------------------------------------------------------------
(* Memory, copy and database are ordered; the store is a write-behind store. *)

\* Initially all versions are equal ...
LEMMA VersionInit == Init => VersionOrder
  BY CopyFacts DEF Init, VersionOrder, NoCopy, InMemory

\* A document update and what follows it keep the order of versions.
LEMMA StoreOrder ==
    ASSUME TypeOK, InUse, VersionOrder, pc = "save", AfterDoc, UNCHANGED <<mem, ver>>,
           \/ db' = [db EXCEPT ![cur][nxt] = copy[nxt]]
           \/ UNCHANGED db
    PROVE  VersionOrder'
<1>0. PICK r \in Roles : r = cur
  BY DEF TypeOK
<1>a. \A s \in Roles, d \in Docs :
        /\ mem[s][d] \in Nat /\ db[s][d] \in Nat /\ copy[d] \in Nat /\ d \in Nat
  BY CopyFacts DEF TypeOK
<1>1. \A s \in Roles, d \in Docs :
        \/ db'[s][d] = db[s][d]
        \/ s = r /\ d = nxt /\ db'[s][d] = copy[d]
  BY <1>0 DEF TypeOK, Copy
<1>b. \A s \in Roles : ver[s] \in Nat
  BY DEF TypeOK
<1>2. \A s \in Roles, d \in Docs :
        /\ db'[s][d] <= ver[s]
        /\ InMemory(s) => db'[s][d] <= mem[s][d]
  BY <1>0, <1>1, <1>a, <1>b DEF VersionOrder, TypeOK
<1>3. pc' = "save" => pc = "save" /\ cur' = r /\ copy' = copy /\ nxt' = nxt + 1
  BY <1>0 DEF AfterDoc, ItemDone
<1>4. ASSUME pc' = "save", NEW d \in Docs
      PROVE  (d >= nxt + 1 => db'[r][d] <= copy[d]) /\ copy[d] <= mem[r][d]
  BY <1>0, <1>1, <1>3, <1>4, <1>a DEF VersionOrder, TypeOK, Docs
<1>5. \A s \in Roles, d \in Docs : mem'[s][d] <= ver'[s]
  BY DEF VersionOrder
<1>6. \A s \in Roles : InMemory(s)' => InMemory(s)
  BY DEF InMemory
<1>7. QED
  BY <1>2, <1>3, <1>4, <1>5, <1>6 DEF VersionOrder

\* ... and every step keeps db <= copy <= mem for the documents in hand.
LEMMA VersionNext == TypeOK /\ InUse /\ VersionOrder /\ [Next]_vars => VersionOrder'
<1> SUFFICES ASSUME TypeOK, InUse, VersionOrder, [Next]_vars PROVE VersionOrder'
  OBVIOUS
<1> USE DEF TypeOK, VersionOrder, InMemory
<1>a. \A r \in Roles, d \in Docs :
        /\ mem[r][d] \in Nat /\ db[r][d] \in Nat /\ ver[r] \in Nat
        /\ copy[d] \in Nat /\ d \in Nat
  BY CopyFacts
<1>b. pc = "save" => cur \in Roles /\ InMemory(cur)
  BY DEF InUse
<1>20. ASSUME NEW r \in Roles, LoadRole(r) PROVE VersionOrder'
  <2>1. /\ \A s \in Roles \ {r} : mem'[s] = mem[s]
        /\ mem'[r] = db[r]
        /\ db' = db /\ ver' = ver /\ pc' = pc /\ cur' = cur /\ copy' = copy /\ nxt' = nxt
    BY <1>20 DEF LoadRole, flushVars
  <2>2. pc = "save" => cur # r
    BY <1>20, <1>b DEF LoadRole
  <2>3. QED
    BY <2>1, <2>2, <1>a, <1>b
<1>21. ASSUME NEW r \in Roles, NewRole(r) PROVE VersionOrder'
  <2>1. /\ \A s \in Roles \ {r} : mem'[s] = mem[s] /\ ver'[s] = ver[s]
        /\ \A d \in Docs : mem'[r][d] = ver[r] + 1
        /\ ver'[r] = ver[r] + 1
        /\ db' = db /\ pc' = pc /\ cur' = cur /\ copy' = copy /\ nxt' = nxt
    BY <1>21 DEF NewRole, flushVars
  <2>2. pc = "save" => cur # r
    BY <1>21, <1>b DEF NewRole
  <2>3. QED
    BY <2>1, <2>2, <1>a, <1>b
<1>1. ASSUME NEW r \in Roles, WriteLock(r) PROVE VersionOrder'
  <2>1. CASE UNCHANGED <<ver, mem>>
    BY <1>1, <2>1 DEF WriteLock, flushVars, loginVars
  <2>2. CASE /\ ver' = [ver EXCEPT ![r] = @ + 1]
             /\ mem' = [mem EXCEPT ![r] = [d \in Docs |-> ver[r] + 1]]
    <3>1. /\ db' = db /\ pc' = pc /\ cur' = cur /\ copy' = copy /\ nxt' = nxt
      BY <1>1 DEF WriteLock, flushVars, loginVars
    <3>2. \A s \in Roles, d \in Docs :
            /\ mem[s][d] <= mem'[s][d] /\ mem'[s][d] <= ver'[s]
            /\ mem'[s][d] \in Nat
      BY <2>2, <1>a
    <3>3. ASSUME pc = "save"
          PROVE  \A d \in Docs : copy'[d] <= mem'[cur][d]
      BY <3>1, <3>2, <3>3, <1>a
    <3>4. \A s \in Roles, d \in Docs :
             db'[s][d] <= ver'[s] /\ (InMemory(s)' => db'[s][d] <= mem'[s][d])
      <4>1. \A s \in Roles : InMemory(s)' => InMemory(s)
        BY <1>1, <2>2 DEF WriteLock
      <4>2. \A s \in Roles : ver[s] <= ver'[s] /\ ver'[s] \in Nat
        BY <2>2, <1>a
      <4>3. QED
        BY <3>1, <3>2, <4>1, <4>2, <1>a
    <3>5. QED
      BY <3>1, <3>2, <3>3, <3>4, <1>a
  <2>3. QED
    BY <1>1, <2>1, <2>2 DEF WriteLock
<1>2. ASSUME NEW r \in Roles, WriteDirty(r) PROVE VersionOrder'
  BY <1>2 DEF WriteDirty, flushVars, loginVars
<1>3. ASSUME NEW r \in Roles, WritePend(r) PROVE VersionOrder'
  BY <1>3 DEF WritePend, flushVars, loginVars
<1>4. CASE Tick
  BY <1>4 DEF Tick, roleVars, loginVars
<1>5. CASE FinalFlush
  BY <1>5 DEF FinalFlush, roleVars, loginVars
<1>6. ASSUME NEW r \in Roles, Gather(r) PROVE VersionOrder'
  BY <1>6 DEF Gather, roleVars, loginVars
<1>7. ASSUME NEW r \in Roles, Remove(r) PROVE VersionOrder'
  BY <1>7 DEF Remove, roleVars, loginVars
<1>8. ASSUME NEW r \in Roles, Take(r) PROVE VersionOrder'
  BY <1>8 DEF Take, roleVars, loginVars
<1>9. CASE GatherDone
  BY <1>9 DEF GatherDone, roleVars, loginVars
<1>10. CASE RemoveDone
  BY <1>10 DEF RemoveDone, roleVars, loginVars, flushVars
<1>11. CASE SaveCas
  BY <1>11 DEF SaveCas, ItemDone, roleVars, loginVars
<1>12. CASE SaveClone
  BY <1>12, <1>a, <1>b DEF SaveClone, InUse, roleVars, loginVars
<1>13. CASE SaveDocOk
  BY <1>13, <1>a, StoreOrder DEF SaveDocOk, roleVars, loginVars
<1>14. CASE SaveDocFail
  BY <1>14, <1>a, StoreOrder DEF SaveDocFail, roleVars, loginVars
<1>15. CASE FlushDone
  BY <1>15 DEF FlushDone, roleVars, loginVars, flushVars
<1>16. CASE StopCall
  BY <1>16 DEF StopCall, roleVars, loginVars, flushVars
<1>17. CASE Restart
  <2>1. \A s \in Roles, d \in Docs : mem'[s][d] = 0 /\ ~InMemory(s)'
    BY <1>17, CopyFacts DEF Restart, NoCopy
  <2>2. QED
    BY <1>17, <2>1, <1>a DEF Restart
<1>18. CASE UNCHANGED vars
  BY <1>18 DEF vars, loginVars
<1>19. QED
  BY <1>1, <1>2, <1>3, <1>4, <1>5, <1>6, <1>7, <1>8, <1>9, <1>10, <1>11, <1>12,
     <1>13, <1>14, <1>15, <1>16, <1>17, <1>18, <1>20, <1>21 DEF Next, Flusher

\* Only the two outcomes of an update change the database, one document each.
LEMMA DbSteps ==
    ASSUME [Next]_vars
    PROVE  \/ UNCHANGED db
           \/ /\ pc = "save"
              /\ db' = [db EXCEPT ![cur][nxt] = copy[nxt]]
              /\ UNCHANGED mem
  BY DEF Next, Flusher, vars, roleVars, loginVars, flushVars, WriteLock, WriteDirty, WritePend,
         Tick, FinalFlush, Gather, GatherDone, Remove, RemoveDone, Take, SaveCas,
         SaveClone, SaveDocOk, SaveDocFail, FlushDone, StopCall, Restart, LoadRole, NewRole

\* The database never goes back to an older version of a document.
THEOREM DatabaseMovesForward == Spec => DbForward
<1>1. TypeOK /\ InUse /\ VersionOrder /\ [Next]_vars
        => [\A r \in Roles, d \in Docs : db'[r][d] >= db[r][d]]_db
  <2> SUFFICES ASSUME TypeOK, InUse, VersionOrder, [Next]_vars, db' # db,
                      NEW r \in Roles, NEW d \in Docs
               PROVE  db'[r][d] >= db[r][d]
    OBVIOUS
  <2>1. pc = "save" /\ db' = [db EXCEPT ![cur][nxt] = copy[nxt]]
    BY DbSteps
  <2>2. db[r][d] \in Nat /\ copy[d] \in Nat /\ d \in Nat
    BY CopyFacts DEF TypeOK
  <2>3. \/ db'[r][d] = db[r][d]
        \/ r = cur /\ d = nxt /\ db'[r][d] = copy[d]
    BY <2>1 DEF TypeOK, Copy
  <2>4. QED
    BY <2>1, <2>2, <2>3 DEF VersionOrder
<1>2. QED
  BY <1>1, TypeInit, TypeNext, InUseInit, InUseNext, VersionInit, VersionNext, PTL DEF Spec, DbForward

\* Every step of the store is a step of the write-behind store or leaves its
\* contents alone.
LEMMA WriteBehindStep ==
    ASSUME TypeOK, InUse, VersionOrder, [Next]_vars
    PROVE  [WriteBehindStore!Next]_(WriteBehindStore!vars)
<1> USE DEF WriteBehindStore!vars, WriteBehindStore!Next, WriteBehindStore!Docs,
            WriteBehindStore!RoleDoc, RoleDoc, InMemory
<1>a. \A r \in Roles, d \in Docs :
        /\ mem[r][d] \in Nat /\ db[r][d] \in Nat /\ copy[d] \in Nat /\ d \in Nat
        /\ ver[r] \in 0..MaxWrites
  BY CopyFacts DEF TypeOK
<1>1. ASSUME NEW r \in Roles, WriteLock(r), mem' # mem
      PROVE  WriteBehindStore!Write(r)
  <2>1. /\ ver[r] < MaxWrites /\ UNCHANGED <<db, misreads>> /\ mem[r][1] # 0
        /\ mem' = [mem EXCEPT ![r] = [d \in Docs |-> ver[r] + 1]]
    BY <1>1 DEF WriteLock
  <2>2. ver[r] + 1 \in 0..MaxWrites
    BY <2>1 DEF TypeOK
  <2>3. \A d \in Docs : ver[r] + 1 > mem[r][d]
    BY <1>a DEF VersionOrder
  <2>4. QED
    BY <2>1, <2>2, <2>3 DEF WriteBehindStore!Write, Docs
<1>2. CASE SaveDocOk \/ SaveDocFail
  <2>1. PICK r \in Roles : r = cur
    BY <1>2 DEF TypeOK, SaveDocOk, SaveDocFail
  <2>2. CASE UNCHANGED db
    BY <1>2, <2>2 DEF SaveDocOk, SaveDocFail, roleVars, loginVars
  <2>3. CASE db' = [db EXCEPT ![r][nxt] = copy[nxt]]
    <3>1. pc = "save" /\ UNCHANGED <<mem, misreads>> /\ nxt \in Docs
      BY <1>2 DEF SaveDocOk, SaveDocFail, roleVars, loginVars, TypeOK
    <3>2. /\ db[r][nxt] <= copy[nxt] /\ copy[nxt] <= mem[r][nxt]
          /\ copy[nxt] \in 0..MaxWrites
      BY <1>a, <2>1, <3>1 DEF VersionOrder
    <3>3. mem[r][1] # 0
      BY <2>1 DEF InUse, TypeOK
    <3>4. WriteBehindStore!Persist(r, nxt)
      BY <2>3, <3>1, <3>2, <3>3 DEF WriteBehindStore!Persist
    <3>5. QED
      BY <3>1, <3>4 DEF Docs
  <2>4. QED
    BY <1>2, <2>1, <2>2, <2>3 DEF SaveDocOk, SaveDocFail
<1>3. CASE Restart
  BY <1>3 DEF Restart, WriteBehindStore!Forget, WriteBehindStore!Nothing, NoCopy, Docs
<1>4. ASSUME NEW r \in Roles, LoadRole(r)
      PROVE  WriteBehindStore!Load(r)
  BY <1>4 DEF LoadRole, loginVars, WriteBehindStore!Load
<1>5. ASSUME NEW r \in Roles, NewRole(r)
      PROVE  WriteBehindStore!New(r)
  <2>1. /\ ver[r] < MaxWrites /\ db' = db /\ mem[r][1] = 0
        /\ mem' = [mem EXCEPT ![r] = [d \in Docs |-> ver[r] + 1]]
        /\ (db[r][1] = 0 /\ UNCHANGED misreads) \/ misreads' = misreads + 1
    BY <1>5 DEF NewRole
  <2>2. ver[r] + 1 \in 0..MaxWrites
    BY <2>1 DEF TypeOK
  <2>3. \A d \in Docs : ver[r] + 1 > db[r][d]
    BY <1>a DEF VersionOrder
  <2>4. QED
    BY <2>1, <2>2, <2>3 DEF WriteBehindStore!New, Docs
<1>6. CASE \E r \in Roles : WriteLock(r) /\ mem' = mem
  BY <1>6 DEF WriteLock
<1>7. CASE UNCHANGED vars
  BY <1>7 DEF vars, loginVars
<1>8. CASE (\E r \in Roles : WriteDirty(r) \/ WritePend(r)) \/ StopCall
  BY <1>8 DEF WriteDirty, WritePend, StopCall, roleVars, loginVars
<1>9. CASE Flusher /\ ~SaveDocOk /\ ~SaveDocFail
  BY <1>9 DEF Flusher, roleVars, loginVars, Tick, FinalFlush, Gather, GatherDone, Remove,
     RemoveDone, Take, SaveCas, SaveClone, FlushDone
<1>10. QED
  BY <1>1, <1>2, <1>3, <1>4, <1>5, <1>6, <1>7, <1>8, <1>9 DEF Next, Flusher

\* The store implements the write-behind store of WriteBehind.
THEOREM Refinement == Spec => ImplementsWriteBehind
<1>1. Init => WriteBehindStore!Init
  BY DEF Init, WriteBehindStore!Init, WriteBehindStore!Nothing, WriteBehindStore!Docs,
     NoCopy, Docs
<1>2. TypeOK /\ InUse /\ VersionOrder /\ [Next]_vars
        => [WriteBehindStore!Next]_(WriteBehindStore!vars)
  BY WriteBehindStep
<1>3. QED
  BY <1>1, <1>2, TypeInit, TypeNext, InUseInit, InUseNext, VersionInit, VersionNext, PTL
     DEF Spec, ImplementsWriteBehind, WriteBehindStore!Spec
=============================================================================
