----------------------------- MODULE WriteBehind -----------------------------
(***************************************************************************)
(* What the role store promises, without flags, registration or flushes:   *)
(* memory moves ahead of the database one whole write at a time, and the   *)
(* database follows one document at a time and never goes back.  A restart *)
(* empties memory; a role comes back as exactly what the database holds,   *)
(* or, without its own document or if reading fails, as a new role, which  *)
(* may replace the documents there are.                                    *)
(***************************************************************************)
EXTENDS Naturals

CONSTANTS Roles, NDocs,
          Versions  \* the versions a document can have

Docs == 1..NDocs
RoleDoc == 1  \* the document without which there is no role

VARIABLES
    mem,      \* version of each document of each role in memory; the role's own
              \* is 0 while the role is not in memory
    db,       \* and in the database; 0 for no document
    misreads  \* number of reads that failed

vars == <<mem, db, misreads>>

Nothing == [r \in Roles |-> [d \in Docs |-> 0]]

Init ==
    /\ mem = Nothing
    /\ db = Nothing
    /\ misreads = 0

Load(r) ==
    /\ mem[r][RoleDoc] = 0
    /\ db[r][RoleDoc] # 0
    /\ mem' = [mem EXCEPT ![r] = db[r]]
    /\ UNCHANGED <<db, misreads>>

\* A role of a version newer than any of its documents.
New(r) ==
    /\ mem[r][RoleDoc] = 0
    /\ \/ db[r][RoleDoc] = 0 /\ UNCHANGED misreads
       \/ misreads' = misreads + 1
    /\ \E v \in Versions :
        /\ \A d \in Docs : v > db[r][d]
        /\ mem' = [mem EXCEPT ![r] = [d \in Docs |-> v]]
    /\ UNCHANGED db

\* A write gives all documents of a role one version newer than any of them.
Write(r) ==
    /\ mem[r][RoleDoc] # 0
    /\ \E v \in Versions :
        /\ \A d \in Docs : v > mem[r][d]
        /\ mem' = [mem EXCEPT ![r] = [d \in Docs |-> v]]
    /\ UNCHANGED <<db, misreads>>

\* The database takes over a version between its own and memory's.
Persist(r, d) ==
    /\ mem[r][RoleDoc] # 0
    /\ \E v \in Versions :
        /\ db[r][d] <= v /\ v <= mem[r][d]
        /\ db' = [db EXCEPT ![r][d] = v]
    /\ UNCHANGED <<mem, misreads>>

Forget ==
    /\ mem' = Nothing
    /\ UNCHANGED <<db, misreads>>

Next ==
    \/ \E r \in Roles : Load(r) \/ New(r) \/ Write(r)
    \/ \E r \in Roles, d \in Docs : Persist(r, d)
    \/ Forget

Spec == Init /\ [][Next]_vars
=============================================================================
