------------------------------ MODULE Sessions ------------------------------
(***************************************************************************)
(* Authentication (auth.go, and LoginHandler of handlers.go).  A login     *)
(* stores the user's session key and returns a token that carries the      *)
(* key's hash; a token is accepted while its key is the stored one and has *)
(* not expired.  Keys that have expired are removed by whoever reads them  *)
(* and by a clean-up routine.                                              *)
(*                                                                         *)
(* Every access to sessionKeyStore, a sync.Map, is a step.  GetSessionKey  *)
(* and the clean-up delete by user, not by what they have read: a login    *)
(* may have stored a new key in between.                                   *)
(*                                                                         *)
(* A session key is a number of its user, standing for its hash too.  A    *)
(* process generates a secret that signs its tokens; here it is the number *)
(* of the process.  The device in a token is only passed on.               *)
(***************************************************************************)
EXTENDS Naturals, FiniteSets

CONSTANTS Users,
          Requests,  \* goroutines that serve a login or check a token
          KeyLife,   \* how long a session key lasts
          TokenLife, \* how long a token lasts
          NoKey,     \* no entry in the store
          NoToken,
          MaxTime,   \* bound: the clock
          MaxLogins, \* bound: logins
          MaxBoots   \* bound: processes

ASSUME SessionsAssumption ==
    /\ KeyLife \in Nat /\ TokenLife \in Nat
    /\ MaxTime \in Nat /\ MaxLogins \in Nat /\ MaxBoots \in Nat \ {0}

Time == 0..MaxTime
Keys == 0..MaxLogins

\* SessionKeyInfo: a key and when it expires.
Entry == [key : Keys, exp : 0..(MaxTime + KeyLife)]

\* JWTCustomClaims and the secret it is signed with.
Token == [user : Users, key : Keys, exp : 0..(MaxTime + TokenLife),
          secret : 1..MaxBoots]

VARIABLES
    now,      \* the clock
    store,    \* sessionKeyStore
    secret,   \* jwtSecret
    wechat,   \* the key WeChat has given out for each user
    tokens,   \* the tokens clients hold
    at,       \* where each request is
    arg,      \* request: the token it checks, or is about to issue
    read,     \* request: the entry it has loaded
    clean,    \* where the clean-up routine is
    started,  \* clean-up: when this round began
    ahead,    \* clean-up: users Range has not come to
    expired,  \* clean-up: expiredKeys
    logins,   \* model only: logins so far
    last,     \* history: the entry of the last login of each user
    overtaken,\* history: users whose last login met somebody about to delete
    seen      \* history: how the token of a request stood since it was taken up

storeVars == <<store, last, overtaken>>
cleanVars == <<clean, started, ahead, expired>>
issued    == <<wechat, tokens, logins>>
vars == <<now, secret, at, arg, read, storeVars, cleanVars, issued, seen>>

Checking(p) == at[p] \in {"lookup", "judge"}

\* The token of p names the user's key, which has not expired.
Stands(p) ==
    /\ store[arg[p].user] # NoKey
    /\ store[arg[p].user].key = arg[p].key
    /\ now <= store[arg[p].user].exp

\* Someone who has read an entry of u, or may still find one expired that has
\* been renewed, and will delete by user.
AboutToDelete(u) ==
    \/ \E p \in Requests : at[p] = "judge" /\ arg[p].user = u
    \/ u \in expired

Init ==
    /\ now = 0
    /\ store = [u \in Users |-> NoKey]
    /\ secret = 1
    /\ wechat = [u \in Users |-> 0]
    /\ tokens = {}
    /\ at = [p \in Requests |-> "idle"]
    /\ arg = [p \in Requests |-> NoToken]
    /\ read = [p \in Requests |-> NoKey]
    /\ clean = "wait" /\ started = 0 /\ ahead = {} /\ expired = {}
    /\ logins = 0
    /\ last = [u \in Users |-> NoKey]
    /\ overtaken = {}
    /\ seen = [p \in Requests |-> {}]

Answered(p) == at[p] \in {"accepted", "rejected"}

\* p may take up a new request.
Free(p) == at[p] = "idle" \/ Answered(p)

Answer(p, result) ==
    /\ at' = [at EXCEPT ![p] = result]
    /\ arg' = [arg EXCEPT ![p] = NoToken]

\* History: how the token that p checks stands after each step, and whether a
\* login has stored a key after p has read one.
Observe ==
    seen' = [p \in Requests |->
        IF Checking(p)'
        THEN (IF Checking(p) THEN seen[p] ELSE {})
             \cup {IF Stands(p)' THEN "stood" ELSE "fell"}
             \cup {x \in {"renewed"} : at[p] = "judge"
                                       /\ last'[arg[p].user] # last[arg[p].user]}
        ELSE IF Answered(p)' THEN seen[p] ELSE {}]

-----------------------------------------------------------------------------
(* LoginHandler.                                                            *)

\* Code2Session: WeChat answers with the user's key, which it may have renewed.
\* (The developers' code names a user whose key is always the same, and after an
\* error nothing happens.)
Code2Session(p, u) ==
    /\ Free(p)
    /\ logins < MaxLogins
    /\ \E k \in {wechat[u], wechat[u] + 1} :
          /\ wechat' = [wechat EXCEPT ![u] = k]
          /\ arg' = [arg EXCEPT ![p] = [user |-> u, key |-> k, exp |-> 0,
                                        secret |-> secret]]
    /\ at' = [at EXCEPT ![p] = "save"]
    /\ logins' = logins + 1
    /\ UNCHANGED <<now, secret, read, storeVars, cleanVars, tokens>>
    /\ Observe

\* Mutant of SavedEntry: a key that is stored already keeps its time.
SavedEntry_Kept(p) ==
    LET u == arg[p].user
        e == store[u]
    IN  IF e # NoKey /\ e.key = arg[p].key THEN e
        ELSE [key |-> arg[p].key, exp |-> now + KeyLife]

SavedEntry(p) == [key |-> arg[p].key, exp |-> now + KeyLife]

SaveSessionKey(p) ==
    /\ at[p] = "save"
    /\ LET u == arg[p].user
       IN  /\ store' = [store EXCEPT ![u] = SavedEntry(p)]
           /\ last' = [last EXCEPT ![u] = [key |-> arg[p].key, exp |-> now + KeyLife]]
           /\ overtaken' = IF AboutToDelete(u) THEN overtaken \cup {u}
                           ELSE overtaken \ {u}
    /\ at' = [at EXCEPT ![p] = "issue"]
    /\ UNCHANGED <<now, secret, arg, read, cleanVars, issued>>
    /\ Observe

\* Mutant of GenToken: the token's time starts when its key expires.
GenToken_FromExpiry(p) ==
    /\ at[p] = "issue"
    /\ tokens' = tokens \cup {[arg[p] EXCEPT !.exp = now + KeyLife + TokenLife]}
    /\ at' = [at EXCEPT ![p] = "idle"]
    /\ arg' = [arg EXCEPT ![p] = NoToken]
    /\ UNCHANGED <<now, secret, read, storeVars, cleanVars, wechat, logins>>
    /\ Observe

\* HashSessionKey and GenToken.
GenToken(p) ==
    /\ at[p] = "issue"
    /\ tokens' = tokens \cup {[arg[p] EXCEPT !.exp = now + TokenLife]}
    /\ at' = [at EXCEPT ![p] = "idle"]
    /\ arg' = [arg EXCEPT ![p] = NoToken]
    /\ UNCHANGED <<now, secret, read, storeVars, cleanVars, wechat, logins>>
    /\ Observe

-----------------------------------------------------------------------------
(* ParseToken, called for AuthRequired and for a connection's login.        *)

\* A token of another process, or one that has expired, is refused and nothing
\* changes.
ParseToken(p, t) ==
    /\ Free(p)
    /\ t.secret = secret
    /\ now < t.exp
    /\ arg' = [arg EXCEPT ![p] = t]
    /\ at' = [at EXCEPT ![p] = "lookup"]
    /\ UNCHANGED <<now, secret, read, storeVars, cleanVars, issued>>
    /\ Observe

\* GetSessionKey: the load.
LoadKey(p) ==
    /\ at[p] = "lookup"
    /\ read' = [read EXCEPT ![p] = store[arg[p].user]]
    /\ \/ /\ store[arg[p].user] # NoKey
          /\ at' = [at EXCEPT ![p] = "judge"]
          /\ UNCHANGED arg
       \/ /\ store[arg[p].user] = NoKey
          /\ Answer(p, "rejected")
    /\ UNCHANGED <<now, secret, storeVars, cleanVars, issued>>
    /\ Observe

\* Mutant of KeyFits: the hashes are not compared.
KeyFits_Any(p) == now <= read[p].exp

KeyFits(p) == now <= read[p].exp /\ read[p].key = arg[p].key

\* GetSessionKey: an entry that has expired by now is deleted, whatever the
\* store has become; then the hashes are compared.
JudgeKey(p) ==
    /\ at[p] = "judge"
    /\ store' = IF now > read[p].exp THEN [store EXCEPT ![arg[p].user] = NoKey]
                ELSE store
    /\ read' = [read EXCEPT ![p] = NoKey]
    /\ Answer(p, IF KeyFits(p) THEN "accepted" ELSE "rejected")
    /\ UNCHANGED <<now, secret, last, overtaken, cleanVars, issued>>
    /\ Observe

-----------------------------------------------------------------------------
(* startCleanupRoutine.                                                     *)

CleanBegin ==
    /\ clean = "wait"
    /\ clean' = "range"
    /\ started' = now
    /\ ahead' = Users
    /\ UNCHANGED <<now, secret, at, arg, read, storeVars, expired, issued>>
    /\ Observe

\* Range is no snapshot: each entry is read when it is come to.
CleanVisit(u) ==
    /\ clean = "range"
    /\ u \in ahead
    /\ ahead' = ahead \ {u}
    /\ expired' = IF store[u] # NoKey /\ started > store[u].exp
                  THEN expired \cup {u} ELSE expired
    /\ clean' = IF ahead' = {} THEN "delete" ELSE "range"
    /\ UNCHANGED <<now, secret, at, arg, read, storeVars, started, issued>>
    /\ Observe

\* Mutant of CleanDelete: the routine forgets what it has collected.
CleanDelete_Forgets(u) ==
    /\ clean = "delete"
    /\ u \in expired
    /\ expired' = expired \ {u}
    /\ UNCHANGED <<now, secret, at, arg, read, storeVars, clean, started, ahead,
                   issued>>
    /\ Observe

CleanDelete(u) ==
    /\ clean = "delete"
    /\ u \in expired
    /\ expired' = expired \ {u}
    /\ store' = [store EXCEPT ![u] = NoKey]
    /\ UNCHANGED <<now, secret, at, arg, read, last, overtaken, clean, started,
                   ahead, issued>>
    /\ Observe

CleanEnd ==
    /\ clean = "delete"
    /\ expired = {}
    /\ clean' = "wait"
    /\ started' = 0
    /\ UNCHANGED <<now, secret, at, arg, read, storeVars, ahead, expired, issued>>
    /\ Observe

\* Stop, once: the routine returns when it is back at its select.
Stop ==
    /\ clean = "wait"
    /\ clean' = "stopped"
    /\ UNCHANGED <<now, secret, at, arg, read, storeVars, started, ahead, expired,
                   issued>>
    /\ Observe

-----------------------------------------------------------------------------
(* The clock, and a restart of the process: the store is in memory only.    *)

Tick ==
    /\ now < MaxTime
    /\ now' = now + 1
    /\ UNCHANGED <<secret, at, arg, read, storeVars, cleanVars, issued>>
    /\ Observe

Restart ==
    /\ secret < MaxBoots
    /\ secret' = secret + 1
    /\ store' = [u \in Users |-> NoKey]
    /\ last' = [u \in Users |-> NoKey]
    /\ overtaken' = {}
    /\ at' = [p \in Requests |-> "idle"]
    /\ arg' = [p \in Requests |-> NoToken]
    /\ read' = [p \in Requests |-> NoKey]
    /\ clean' = "wait" /\ started' = 0 /\ ahead' = {} /\ expired' = {}
    /\ UNCHANGED <<now, issued>>
    /\ Observe

-----------------------------------------------------------------------------
Login(p)  == (\E u \in Users : Code2Session(p, u)) \/ SaveSessionKey(p) \/ GenToken(p)
Check(p)  == (\E t \in tokens : ParseToken(p, t)) \/ LoadKey(p) \/ JudgeKey(p)
Cleanup   == CleanBegin \/ CleanEnd \/ \E u \in Users : CleanVisit(u) \/ CleanDelete(u)

Next ==
    \/ \E p \in Requests : Login(p) \/ Check(p)
    \/ Cleanup \/ Stop
    \/ Tick \/ Restart

Spec == Init /\ [][Next]_vars

\* The clean-up routine goes on and its ticker keeps firing; nobody has to log
\* in, and a request may be abandoned.
Fairness == WF_vars(Cleanup)

FairSpec == Spec /\ Fairness

-----------------------------------------------------------------------------
(* Properties.                                                              *)

TypeOK ==
    /\ now \in Time
    /\ store \in [Users -> Entry \cup {NoKey}]
    /\ secret \in 1..MaxBoots
    /\ wechat \in [Users -> Keys]
    /\ tokens \subseteq Token
    /\ at \in [Requests -> {"idle", "save", "issue", "lookup", "judge",
                            "accepted", "rejected"}]
    /\ arg \in [Requests -> Token \cup {NoToken}]
    /\ read \in [Requests -> Entry \cup {NoKey}]
    /\ clean \in {"wait", "range", "delete", "stopped"}
    /\ started \in Time
    /\ ahead \subseteq Users /\ expired \subseteq Users
    /\ logins \in Keys
    /\ last \in [Users -> Entry \cup {NoKey}]
    /\ overtaken \subseteq Users
    /\ seen \in [Requests -> SUBSET {"stood", "fell", "renewed"}]

\* What a login has stored stays until it expires or the user logs in again,
\* through all clean-ups and checks of older tokens (auth.go:63-87, 140-183).
\* The one exception: the login came while somebody was about to delete the
\* user's former key (auth.go:83, 174).
LoginStays ==
    \A u \in Users :
        last[u] # NoKey /\ now <= last[u].exp /\ u \notin overtaken
            => store[u] = last[u]

\* The answer to a token is one the store would have given at some moment of the
\* call (auth.go:110-137): it is accepted only if its key stood, and rejected
\* only if it did not, or if a login renewed the key between the load and the
\* test of its time (auth.go:73-84).
AnswersAreJustified ==
    \A p \in Requests :
        /\ at[p] = "accepted" => "stood" \in seen[p]
        /\ at[p] = "rejected" => seen[p] \cap {"fell", "renewed"} # {}

\* Keys that have expired do not pile up: each is removed or renewed, unless the
\* routine has been stopped (auth.go:139-183).
ExpiredKeysGo ==
    \A u \in Users :
        store[u] # NoKey /\ now > store[u].exp
            ~> store[u] = NoKey \/ now <= store[u].exp \/ clean = "stopped"
=============================================================================
