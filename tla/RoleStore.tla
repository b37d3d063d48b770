------------------------------ MODULE RoleStore ------------------------------
(***************************************************************************)
(* The write-behind store of the game's roles: handlers change a Role in   *)
(* memory under its rwLock and register it with the PersistManager         *)
(* (role/base.go, Mgr.WriteRole); the single goroutine of                  *)
(* PersistManager.run flushes registered roles to MongoDB                  *)
(* (fw/persistence/persist.go, flush; role/base.go, Role.Save).            *)
(*                                                                         *)
(* Contents are abstracted to versions: mem[r][d] and db[r][d] number the  *)
(* last write that document d of role r reflects, in memory and in Mongo;  *)
(* building a new role counts as a write, so 0 in mem[r] says that r is not *)
(* in Mgr.roleMap and 0 in db[r] that there is no document.  A document    *)
(* other than the role's own that a login has not found has its default    *)
(* contents, which are version 0 as well.  Documents 1..NDocs are those of *)
(* Role.Save in the order they are sent (the code has three: role, item,   *)
(* watermelon).                                                            *)
(*                                                                         *)
(* Left out: what LoginRole itself changes of a role, the time of the login *)
(* and missing maps, without flagging it; rate limiting and the ticker's period (they only delay, see   *)
(* PersistManager); Role.IsValid = FALSE and an error or empty id from     *)
(* Save, which no role that WriteRole can reach produces, its id being     *)
(* at least 1.                                                             *)
(***************************************************************************)
EXTENDS Naturals

CONSTANTS Roles,      \* role ids; the keys of Mgr.roleMap and pendingObjects
          NDocs,      \* documents per role
          MaxWrites,  \* bound: writes that change a role and new roles, per role
          MaxFails,   \* bound: failed UpdateOne calls, and failed logins' reads
          None        \* no role

ASSUME RoleStoreAssumption ==
    /\ NDocs \in Nat \ {0}
    /\ MaxWrites \in Nat
    /\ MaxFails \in Nat
    /\ None \notin Roles

Docs == 1..NDocs
RoleDoc == 1

Copy == [Docs -> Nat]

VARIABLES
    mem,     \* Role.Role/Item/Watermelon: version of each document in memory
    db,      \* version of each document in MongoDB
    ver,     \* model only: number of the last write of the role
    dirty,   \* Role.dirty
    writer,  \* how far WriteRole is; anything but "free" holds rwLock for writing
    pending, \* keys of PersistManager.pendingObjects
    pc,      \* where the run goroutine is
    unseen,  \* flush: keys IterCb has still to visit
    batch,   \* flush: gathered objects not processed yet
    toRemove,\* flush: gathered keys not removed from pendingObjects yet
    cur,     \* flush: the object being processed
    copy,    \* Save: the cloned documents
    nxt,     \* flush: the next document to send
    stop,    \* progress of PersistManager.Stop
    failed,  \* history: roles a save failed for since their last WriteRole
    late,    \* history: roles registered once the final flush had begun
    fresh,   \* history: new roles that no WriteRole has got hold of yet
    misreads,\* model only: logins so far that failed to read a document
    fails    \* model only: failed UpdateOne calls so far

loginVars == <<fresh, misreads>>
roleVars  == <<mem, ver, writer, loginVars>>
flushVars == <<unseen, batch, toRemove, cur, copy, nxt>>
vars == <<mem, db, ver, dirty, writer, pending, pc, unseen, batch, toRemove,
          cur, copy, nxt, stop, failed, late, loginVars, fails>>

NoCopy == [d \in Docs |-> 0]

Init ==
    /\ mem = [r \in Roles |-> NoCopy]
    /\ db = mem
    /\ ver = [r \in Roles |-> 0]
    /\ dirty = [r \in Roles |-> FALSE]
    /\ writer = [r \in Roles |-> "free"]
    /\ pending = {}
    /\ pc = "idle"
    /\ unseen = {} /\ batch = {} /\ toRemove = {}
    /\ cur = None /\ copy = NoCopy /\ nxt = 1
    /\ stop = "no"
    /\ failed = {} /\ late = {} /\ fresh = {}
    /\ misreads = 0 /\ fails = 0

InMemory(r) == mem[r][RoleDoc] # 0

-----------------------------------------------------------------------------
(* Mgr.LoginRole: a role that is not in memory is loaded, or made anew.      *)

\* loadInfoFromMongo has found the role's own document and read all there are.
LoadRole(r) ==
    /\ ~InMemory(r)
    /\ db[r][RoleDoc] # 0
    /\ mem' = [mem EXCEPT ![r] = db[r]]
    /\ UNCHANGED <<db, ver, writer, loginVars, dirty, pending, pc, flushVars, stop, failed,
                   fails, late>>

\* It returns nil when there is no document of the role's own, whatever others
\* there are, and when reading any of them fails; then newRole builds a role with
\* nothing in it, which is published without being flagged.
NewRole(r) ==
    /\ ~InMemory(r)
    /\ \/ db[r][RoleDoc] = 0 /\ UNCHANGED misreads
       \/ misreads < MaxFails /\ misreads' = misreads + 1
    /\ ver[r] < MaxWrites
    /\ ver' = [ver EXCEPT ![r] = @ + 1]
    /\ mem' = [mem EXCEPT ![r] = [d \in Docs |-> ver[r] + 1]]
    /\ fresh' = fresh \union {r}
    /\ UNCHANGED <<db, writer, dirty, pending, pc, flushVars, stop, failed, fails, late>>

-----------------------------------------------------------------------------
(* Mgr.WriteRole, executed by connection handlers.                          *)

\* Take rwLock and run the callback.  A handler that refuses the request
\* returns from the callback with the role untouched; WriteRole goes on.
WriteLock(r) ==
    /\ InMemory(r)
    /\ writer[r] = "free"
    /\ writer' = [writer EXCEPT ![r] = "fn"]
    /\ \/ /\ ver[r] < MaxWrites
          /\ ver' = [ver EXCEPT ![r] = @ + 1]
          /\ mem' = [mem EXCEPT ![r] = [d \in Docs |-> ver[r] + 1]]
       \/ UNCHANGED <<ver, mem>>
    /\ fresh' = fresh \ {r}
    /\ UNCHANGED <<misreads, db, dirty, pending, pc, flushVars, stop, failed, fails, late>>

WriteDirty(r) ==
    /\ writer[r] = "fn"
    /\ writer' = [writer EXCEPT ![r] = "dirty"]
    /\ dirty' = [dirty EXCEPT ![r] = TRUE]
    /\ UNCHANGED <<mem, db, ver, loginVars, pending, pc, flushVars, stop, failed, fails, late>>

\* Mutant of WritePend: the role is flagged but not registered.
WritePend_Unregistered(r) ==
    /\ writer[r] = "dirty"
    /\ writer' = [writer EXCEPT ![r] = "free"]
    /\ failed' = failed \ {r}
    /\ UNCHANGED <<mem, db, ver, loginVars, dirty, pending, pc, flushVars, stop, fails, late>>

\* AddPendingObject, then the deferred Unlock: nothing the flush does between
\* the two depends on the lock.
WritePend(r) ==
    /\ writer[r] = "dirty"
    /\ writer' = [writer EXCEPT ![r] = "free"]
    /\ pending' = pending \union {r}
    /\ failed' = failed \ {r}
    /\ late' = IF stop \in {"final", "done"} THEN late \union {r} ELSE late
    /\ UNCHANGED <<mem, db, ver, loginVars, dirty, pc, flushVars, stop, fails>>

-----------------------------------------------------------------------------
(* PersistManager.run and flush.                                            *)

\* A tick (or the first pass) starts a flush; once stopChan is closed the
\* select may still choose a ready tick.
Tick ==
    /\ pc = "idle"
    /\ stop \in {"no", "asked"}
    /\ pc' = "gather"
    /\ unseen' = Roles
    /\ UNCHANGED <<roleVars, db, dirty, pending, batch, toRemove, cur, copy,
                   nxt, stop, failed, fails, late>>

FinalFlush ==
    /\ pc = "idle"
    /\ stop = "asked"
    /\ pc' = "gather"
    /\ unseen' = Roles
    /\ stop' = "final"
    /\ UNCHANGED <<roleVars, db, dirty, pending, batch, toRemove, cur, copy,
                   nxt, failed, fails, late>>

\* IterCb walks the map shard by shard while handlers keep adding to it.
Gather(r) ==
    /\ pc = "gather"
    /\ r \in unseen
    /\ unseen' = unseen \ {r}
    /\ batch' = IF r \in pending THEN batch \union {r} ELSE batch
    /\ UNCHANGED <<roleVars, db, dirty, pending, pc, toRemove, cur, copy, nxt,
                   stop, failed, fails, late>>

GatherDone ==
    /\ pc = "gather"
    /\ unseen = {}
    /\ pc' = "remove"
    /\ toRemove' = batch
    /\ UNCHANGED <<roleVars, db, dirty, pending, unseen, batch, cur, copy, nxt,
                   stop, failed, fails, late>>

Remove(r) ==
    /\ pc = "remove"
    /\ r \in toRemove
    /\ toRemove' = toRemove \ {r}
    /\ pending' = pending \ {r}
    /\ UNCHANGED <<roleVars, db, dirty, pc, unseen, batch, cur, copy, nxt, stop,
                   failed, fails, late>>

RemoveDone ==
    /\ pc = "remove"
    /\ toRemove = {}
    /\ pc' = "next"
    /\ UNCHANGED <<roleVars, db, dirty, pending, flushVars, stop, failed, fails, late>>

\* The next object: IsValid takes and releases the read lock.
Take(r) ==
    /\ pc = "next"
    /\ r \in batch
    /\ writer[r] = "free"
    /\ batch' = batch \ {r}
    /\ cur' = r
    /\ pc' = "cas"
    /\ UNCHANGED <<roleVars, db, dirty, pending, unseen, toRemove, copy, nxt,
                   stop, failed, fails, late>>

\* The flush is through with an object; its locals go out of scope.
ItemDone ==
    /\ pc' = "next"
    /\ cur' = None /\ copy' = NoCopy /\ nxt' = 1

\* Mutant of SaveCas: no early return for a role that is not dirty.
SaveCas_NoReturn ==
    /\ pc = "cas"
    /\ dirty' = [dirty EXCEPT ![cur] = FALSE]
    /\ pc' = IF dirty[cur] THEN "clone" ELSE "save"
    /\ UNCHANGED <<roleVars, db, pending, flushVars, stop, failed, fails, late>>

\* Role.Save: nothing to do unless dirty; otherwise the flag is cleared
\* before the role is read.
SaveCas ==
    /\ pc = "cas"
    /\ \/ /\ dirty[cur]
          /\ dirty' = [dirty EXCEPT ![cur] = FALSE]
          /\ pc' = "clone"
          /\ UNCHANGED <<cur, copy, nxt>>
       \/ /\ ~dirty[cur]
          /\ ItemDone
          /\ UNCHANGED dirty
    /\ UNCHANGED <<roleVars, db, pending, unseen, batch, toRemove, stop, failed,
                   fails, late>>

\* Role.Save: deep copy of the three messages under the read lock.
SaveClone ==
    /\ pc = "clone"
    /\ writer[cur] = "free"
    /\ copy' = mem[cur]
    /\ nxt' = 1
    /\ pc' = "save"
    /\ UNCHANGED <<roleVars, db, dirty, pending, unseen, batch, toRemove, cur,
                   stop, failed, fails, late>>

\* Mutant of AfterDoc: one document too many.
AfterDoc_OneMore ==
    \/ /\ nxt <= NDocs
       /\ nxt' = nxt + 1
       /\ UNCHANGED <<pc, cur, copy>>
    \/ /\ nxt > NDocs
       /\ ItemDone

AfterDoc ==
    \/ /\ nxt < NDocs
       /\ nxt' = nxt + 1
       /\ UNCHANGED <<pc, cur, copy>>
    \/ /\ nxt = NDocs
       /\ ItemDone

\* saveToMongo succeeded; OnSuccess has nothing to do.
SaveDocOk ==
    /\ pc = "save"
    /\ db' = [db EXCEPT ![cur][nxt] = copy[nxt]]
    /\ AfterDoc
    /\ UNCHANGED <<roleVars, dirty, pending, unseen, batch, toRemove, stop,
                   failed, fails, late>>

\* Mutant of SaveDocFail: OnFailure forgets the flag.
SaveDocFail_Unflagged ==
    /\ pc = "save"
    /\ fails < MaxFails
    /\ fails' = fails + 1
    /\ failed' = failed \union {cur}
    /\ AfterDoc
    /\ UNCHANGED <<roleVars, db, dirty, pending, unseen, batch, toRemove, stop, late>>

\* saveToMongo returned an error (after a timeout the update may or may not
\* have been applied); OnFailure restores the dirty flag, the other documents
\* are still sent, and nobody adds the role to pendingObjects again.
SaveDocFail ==
    /\ pc = "save"
    /\ fails < MaxFails
    /\ fails' = fails + 1
    /\ \/ db' = [db EXCEPT ![cur][nxt] = copy[nxt]]
       \/ UNCHANGED db
    /\ dirty' = [dirty EXCEPT ![cur] = TRUE]
    /\ failed' = failed \union {cur}
    /\ AfterDoc
    /\ UNCHANGED <<roleVars, pending, unseen, batch, toRemove, stop, late>>

\* Mutant of FlushDone: any flush that ends after Stop was called is the last.
FlushDone_Early ==
    /\ pc = "next"
    /\ batch = {}
    /\ pc' = "idle"
    /\ stop' = IF stop = "no" THEN "no" ELSE "done"
    /\ UNCHANGED <<roleVars, db, dirty, pending, flushVars, failed, fails, late>>

FlushDone ==
    /\ pc = "next"
    /\ batch = {}
    /\ pc' = "idle"
    /\ stop' = IF stop = "final" THEN "done" ELSE stop
    /\ UNCHANGED <<roleVars, db, dirty, pending, flushVars, failed, fails, late>>

-----------------------------------------------------------------------------
(* Shutdown, crash, restart (main.go).                                      *)

\* The deferred cleanup calls PersistManager.Stop; handlers of connections
\* that are still open keep running.
StopCall ==
    /\ stop = "no"
    /\ stop' = "asked"
    /\ UNCHANGED <<roleVars, db, dirty, pending, pc, flushVars, failed, fails, late>>

\* The process ends, by a crash at any point or after Stop has returned, and
\* starts again, with no roles in memory.
Restart ==
    /\ mem' = [r \in Roles |-> NoCopy]
    /\ dirty' = [r \in Roles |-> FALSE]
    /\ writer' = [r \in Roles |-> "free"]
    /\ pending' = {}
    /\ pc' = "idle"
    /\ unseen' = {} /\ batch' = {} /\ toRemove' = {}
    /\ cur' = None /\ copy' = NoCopy /\ nxt' = 1
    /\ stop' = "no"
    /\ failed' = {} /\ late' = {} /\ fresh' = {}
    /\ UNCHANGED <<db, ver, misreads, fails>>

-----------------------------------------------------------------------------
Flusher ==
    \/ Tick \/ FinalFlush
    \/ \E r \in Roles : Gather(r) \/ Remove(r) \/ Take(r)
    \/ GatherDone \/ RemoveDone
    \/ SaveCas \/ SaveClone \/ SaveDocOk \/ SaveDocFail
    \/ FlushDone

Next ==
    \/ \E r \in Roles : LoadRole(r) \/ NewRole(r)
    \/ \E r \in Roles : WriteLock(r) \/ WriteDirty(r) \/ WritePend(r)
    \/ Flusher
    \/ StopCall
    \/ Restart

Spec == Init /\ [][Next]_vars

\* The run goroutine is scheduled and its ticker keeps firing; a handler that
\* holds a role's lock goes on; and sync.RWMutex lets a waiting reader in when a
\* writer unlocks, so handlers cannot keep the flush out of a role for ever.
\* Nobody has to start a write, stop or crash.
Fairness ==
    /\ WF_vars(Flusher)
    /\ SF_vars(\E r \in Roles : Take(r))
    /\ SF_vars(SaveClone)
    /\ \A r \in Roles : WF_vars(WriteDirty(r) \/ WritePend(r))

FairSpec == Spec /\ Fairness

-----------------------------------------------------------------------------
(* Properties.                                                              *)

TypeOK ==
    /\ mem \in [Roles -> Copy]
    /\ db \in [Roles -> Copy]
    /\ ver \in [Roles -> 0..MaxWrites]
    /\ dirty \in [Roles -> BOOLEAN]
    /\ writer \in [Roles -> {"free", "fn", "dirty"}]
    /\ pending \in SUBSET Roles
    /\ pc \in {"idle", "gather", "remove", "next", "cas", "clone", "save"}
    /\ unseen \in SUBSET Roles
    /\ batch \in SUBSET Roles
    /\ toRemove \in SUBSET Roles
    /\ cur \in Roles \union {None}
    /\ pc \in {"cas", "clone", "save"} => cur \in Roles
    /\ copy \in Copy
    /\ nxt \in Docs
    /\ stop \in {"no", "asked", "final", "done"}
    /\ failed \in SUBSET Roles
    /\ late \in SUBSET Roles
    /\ fresh \in SUBSET Roles
    /\ misreads \in 0..MaxFails
    /\ fails \in 0..MaxFails

\* The role has something in memory that MongoDB lacks.
Unsaved(r) == InMemory(r) /\ mem[r] # db[r]

\* The flush has cleared the flag of r and holds, or is about to take, a copy
\* of it that is as new as memory.
InHand(r) ==
    /\ cur = r
    /\ \/ pc = "clone"
       \/ /\ pc = "save"
          /\ \A d \in Docs : mem[r][d] # db[r][d] => d >= nxt /\ copy[d] = mem[r][d]

\* Role.dirty tells the truth (base.go:63-112, 268-289): a change MongoDB lacks
\* is flagged, or being flagged by the handler that made it, or in the hands of
\* the flush, whatever the interleaving of the handlers' lock sections with
\* CAS, clone and the three updates, and whichever of the updates fail.  Only a
\* new role is not flagged before a handler writes it.
DirtyIsFaithful ==
    \A r \in Roles :
        Unsaved(r) => dirty[r] \/ writer[r] = "fn" \/ InHand(r) \/ r \in fresh

\* A flagged role is also on its way to a flush (base.go:282-287,
\* persist.go:147-162): registered, about to be, or gathered, even though the
\* flush removes keys that handlers may just have added again.  The one way out
\* is a failed save, after which only another write registers the role.
DirtyIsScheduled ==
    \A r \in Roles :
        dirty[r] => \/ r \in pending \union batch \union failed
                    \/ writer[r] = "dirty"
                    \/ cur = r /\ pc = "cas"

\* MongoDB never goes back to an older version of a document (persist.go:223-243):
\* copies taken by Save are written before any newer copy is taken.  (The version
\* of a new role is newer than that of the documents it replaces, though there is
\* less in it: see SavedProgressKept in RoleLogin.)
DbForward == [][\A r \in Roles, d \in Docs : db'[r][d] >= db[r][d]]_db

\* A change gets to MongoDB in the end, unless a save of its role failed or the
\* store is being stopped (persist.go:125-144).  A new role waits for a write.
EventuallySaved ==
    \A r \in Roles :
        Unsaved(r) /\ r \notin fresh ~> (~Unsaved(r) \/ r \in failed \/ stop # "no")

\* What base.go:109 says of a failed update: it restores the dirty flag "to
\* make sure the next pass retries".
RetriedAfterFailure ==
    \A r \in Roles : Unsaved(r) /\ r \notin fresh ~> (~Unsaved(r) \/ stop # "no")

\* When Stop has returned (main.go:148-150, persist.go:103-117, 138-141), what
\* MongoDB lacks was written by handlers that ran beside or after the final
\* flush, or belongs to a role whose save failed or that is new and was not
\* written at all.
StopSavesPending ==
    stop = "done" =>
        \A r \in Roles :
            Unsaved(r) => r \in late \union failed \union fresh \/ writer[r] # "free"

WriteBehindStore == INSTANCE WriteBehind WITH Versions <- 0..MaxWrites

\* Flags, registration, flush order and failures are invisible in the contents:
\* the store is a write-behind store (role/base.go:63-142, 188-215, 268-289,
\* 389-450, persist.go:147-257), whose roles come back from a restart as the
\* documents are, from different writes perhaps, or with nothing in them; the
\* latter only without a role document or when a read failed.
ImplementsWriteBehind == WriteBehindStore!Spec
=============================================================================
