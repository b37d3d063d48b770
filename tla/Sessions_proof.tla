---------------------------- MODULE Sessions_proof ----------------------------
(***************************************************************************)
(* Proofs about Sessions, for any users, any number of requests at once and *)
(* any life times.                                                         *)
(***************************************************************************)
EXTENDS Sessions, TLAPS

\* A request at work has a token in hand, and an entry once it has loaded one.
Shape ==
    \A p \in Requests :
        /\ at[p] \in {"save", "issue", "lookup", "judge"} => arg[p] \in Token
        /\ at[p] = "judge" => read[p] \in Entry

\* WeChat has given out as many keys as there were logins, at most.
KeysCounted == \A u \in Users : wechat[u] <= logins

\* The store has the entry of the last login, or none.
StoreIsLast == \A u \in Users : store[u] \in {NoKey, last[u]}

\* An entry that has been read is still that of the last login, but for those
\* who are overtaken.
ReadIsLast ==
    \A p \in Requests :
        at[p] = "judge" /\ arg[p].user \notin overtaken
            => read[p] = last[arg[p].user]

\* So is one that the clean-up has found expired.
ExpiredIsOld ==
    /\ started <= now
    /\ \A u \in expired \ overtaken : last[u] \in Entry /\ started > last[u].exp

\* What has been seen of a request's token: how it stands now, whether the entry
\* that was read is an old one, and what the answer will rest on.
SeenIsTrue ==
    \A p \in Requests :
        /\ Checking(p) => (IF Stands(p) THEN "stood" ELSE "fell") \in seen[p]
        /\ at[p] = "judge" =>
              /\ read[p] = last[arg[p].user] \/ "renewed" \in seen[p]
              /\ IF KeyFits(p) THEN "stood" \in seen[p]
                 ELSE seen[p] \cap {"fell", "renewed"} # {}

-----------------------------------------------------------------------------
USE SessionsAssumption

\* The entry a login stores is an entry.
LEMMA EntryType ==
    ASSUME TypeOK, NEW p \in Requests, arg[p] \in Token
    PROVE  [key |-> arg[p].key, exp |-> now + KeyLife] \in Entry
  BY DEF TypeOK, Entry, Token, Time, Keys

\* The history of what was seen has its type.
LEMMA ObserveType ==
    ASSUME Observe
    PROVE  TypeOK => seen' \in [Requests -> SUBSET {"stood", "fell", "renewed"}]
<1>1. SUFFICES ASSUME TypeOK, NEW p \in Requests
               PROVE  seen'[p] \in SUBSET {"stood", "fell", "renewed"}
  BY DEF Observe
<1>2. seen[p] \in SUBSET {"stood", "fell", "renewed"}
  BY <1>1 DEF TypeOK
<1>3. {x \in {"renewed"} : at[p] = "judge" /\ last'[arg[p].user] # last[arg[p].user]}
         \in SUBSET {"stood", "fell", "renewed"}
  OBVIOUS
<1>4. QED
  BY <1>1, <1>2, <1>3 DEF Observe

\* A step of the system keeps the types and the shape of requests, and counts the
\* keys.
LEMMA TypeStep ==
    ASSUME TypeOK, Shape, KeysCounted, [Next]_vars
    PROVE  TypeOK' /\ Shape' /\ KeysCounted'
<1>1. CASE UNCHANGED vars
  BY <1>1 DEF vars, TypeOK, Shape, KeysCounted, storeVars, cleanVars, issued
<1>2. ASSUME NEW p \in Requests, NEW u \in Users, Code2Session(p, u)
      PROVE  TypeOK' /\ Shape' /\ KeysCounted'
  <2>1. PICK k \in {wechat[u], wechat[u] + 1} :
            /\ wechat' = [wechat EXCEPT ![u] = k]
            /\ arg' = [arg EXCEPT ![p] = [user |-> u, key |-> k, exp |-> 0,
                                          secret |-> secret]]
    BY <1>2 DEF Code2Session
  <2>2. logins \in Nat /\ logins < MaxLogins /\ logins' = logins + 1
    BY <1>2 DEF Code2Session, TypeOK, Keys
  <2>3. k \in Nat /\ k <= logins + 1
    BY <2>1, <2>2 DEF KeysCounted, TypeOK, Keys
  <2>4. [user |-> u, key |-> k, exp |-> 0, secret |-> secret] \in Token
    BY <2>2, <2>3 DEF Token, Keys, TypeOK
  <2>5. KeysCounted'
    BY <2>1, <2>2, <2>3 DEF KeysCounted, TypeOK, Keys
  <2>6. wechat' \in [Users -> Keys] /\ logins' \in Keys
    BY <2>1, <2>2, <2>3 DEF TypeOK, Keys
  <2>7. arg' \in [Requests -> Token \cup {NoToken}]
    BY <2>1, <2>4 DEF TypeOK
  <2>8. Shape'
    BY <1>2, <2>1, <2>4 DEF Code2Session, Shape, TypeOK
  <2>9. QED
    BY <1>2, <2>5, <2>6, <2>7, <2>8, ObserveType
    DEF Code2Session, TypeOK, storeVars, cleanVars
<1>3. ASSUME NEW p \in Requests, SaveSessionKey(p)
      PROVE  TypeOK' /\ Shape' /\ KeysCounted'
  <2>1. arg[p] \in Token
    BY <1>3 DEF SaveSessionKey, Shape
  <2>2. arg[p].user \in Users
    BY <2>1 DEF Token
  <2>3. store' \in [Users -> Entry \cup {NoKey}] /\ last' \in [Users -> Entry \cup {NoKey}]
    BY <1>3, <2>1, <2>2, EntryType DEF SaveSessionKey, SavedEntry, TypeOK
  <2>4. overtaken' \subseteq Users
    BY <1>3, <2>2 DEF SaveSessionKey, TypeOK
  <2>5. QED
    BY <1>3, <2>3, <2>4, ObserveType
    DEF SaveSessionKey, TypeOK, Shape, KeysCounted, cleanVars, issued
<1>4. ASSUME NEW p \in Requests, GenToken(p)
      PROVE  TypeOK' /\ Shape' /\ KeysCounted'
  <2>1. arg[p] \in Token
    BY <1>4 DEF GenToken, Shape
  <2>2. [arg[p] EXCEPT !.exp = now + TokenLife] \in Token
    BY <2>1 DEF Token, TypeOK, Time
  <2>3. QED
    BY <1>4, <2>2, ObserveType
    DEF GenToken, TypeOK, Shape, KeysCounted, storeVars, cleanVars
<1>5. ASSUME NEW p \in Requests, NEW t \in tokens, ParseToken(p, t)
      PROVE  TypeOK' /\ Shape' /\ KeysCounted'
  BY <1>5, ObserveType
  DEF ParseToken, TypeOK, Shape, KeysCounted, storeVars, cleanVars, issued
<1>6. ASSUME NEW p \in Requests, LoadKey(p)
      PROVE  TypeOK' /\ Shape' /\ KeysCounted'
  <2>1. arg[p].user \in Users
    BY <1>6 DEF LoadKey, Shape, Token
  <2>2. store[arg[p].user] \in Entry \cup {NoKey}
    BY <2>1 DEF TypeOK
  <2>3. QED
    BY <1>6, <2>2, ObserveType
    DEF LoadKey, Answer, TypeOK, Shape, KeysCounted, storeVars, cleanVars, issued
<1>7. ASSUME NEW p \in Requests, JudgeKey(p)
      PROVE  TypeOK' /\ Shape' /\ KeysCounted'
  <2>1. store' \in [Users -> Entry \cup {NoKey}]
    BY <1>7 DEF JudgeKey, TypeOK
  <2>2. QED
    BY <1>7, <2>1, ObserveType
    DEF JudgeKey, Answer, TypeOK, Shape, KeysCounted, cleanVars, issued
<1>8. CASE CleanBegin
  BY <1>8, ObserveType DEF CleanBegin, TypeOK, Shape, KeysCounted, storeVars, issued
<1>9. ASSUME NEW u \in Users, CleanVisit(u)
      PROVE  TypeOK' /\ Shape' /\ KeysCounted'
  BY <1>9, ObserveType DEF CleanVisit, TypeOK, Shape, KeysCounted, storeVars, issued
<1>10. ASSUME NEW u \in Users, CleanDelete(u)
       PROVE  TypeOK' /\ Shape' /\ KeysCounted'
  BY <1>10, ObserveType DEF CleanDelete, TypeOK, Shape, KeysCounted, issued
<1>11. CASE CleanEnd
  BY <1>11, ObserveType DEF CleanEnd, TypeOK, Shape, KeysCounted, storeVars, issued, Time
<1>12. CASE Stop
  BY <1>12, ObserveType DEF Stop, TypeOK, Shape, KeysCounted, storeVars, issued
<1>13. CASE Tick
  BY <1>13, ObserveType
  DEF Tick, TypeOK, Shape, KeysCounted, storeVars, cleanVars, issued, Time
<1>14. CASE Restart
  BY <1>14, ObserveType DEF Restart, TypeOK, Shape, KeysCounted, issued, Time
<1>15. QED
  BY <1>1, <1>2, <1>3, <1>4, <1>5, <1>6, <1>7, <1>8, <1>9, <1>10, <1>11, <1>12, <1>13,
     <1>14 DEF Next, Login, Check, Cleanup

\* The initial states have the types.
LEMMA TypeInit == Init => TypeOK /\ Shape /\ KeysCounted
  BY DEF Init, TypeOK, Shape, KeysCounted, Time, Keys

\* Every reachable state of the authentication is type-correct (auth.go:20-60).
THEOREM TypeCorrect == Spec => []TypeOK
<1>1. TypeOK /\ Shape /\ KeysCounted /\ [Next]_vars
        => (TypeOK /\ Shape /\ KeysCounted)'
  BY TypeStep
<1>2. QED
  BY <1>1, TypeInit, PTL DEF Spec

-----------------------------------------------------------------------------
Typed == TypeOK /\ Shape

\* What protects the entry of the last login.
Kept == StoreIsLast /\ ReadIsLast /\ ExpiredIsOld /\ LoginStays

\* Two times can be compared.
LEMMA ExpIsNat == ASSUME NEW e \in Entry PROVE e.exp \in Nat /\ e.key \in Nat
  BY DEF Entry, Keys

\* Steps that leave the store and its history, what has been read and the
\* clean-up alone.
LEMMA KeptFrame ==
    ASSUME Typed, Kept, UNCHANGED <<now, storeVars, started, expired>>,
           \A p \in Requests : at'[p] = "judge" =>
               /\ at[p] = "judge"
               /\ read'[p] = read[p] /\ arg'[p] = arg[p]
    PROVE  Kept'
  BY DEF Typed, Kept, StoreIsLast, ReadIsLast, ExpiredIsOld, LoginStays, storeVars

\* A login stores the entry of the last login; if anybody was about to delete the
\* user's former one, it is counted as overtaken.
LEMMA KeptSave ==
    ASSUME Typed, Kept, NEW p \in Requests, SaveSessionKey(p)
    PROVE  Kept'
<1> DEFINE u == arg[p].user
           e == [key |-> arg[p].key, exp |-> now + KeyLife]
<1>1. arg[p] \in Token /\ u \in Users
  BY DEF Typed, Shape, SaveSessionKey, Token
<1>2. store' = [store EXCEPT ![u] = e] /\ last' = [last EXCEPT ![u] = e]
  BY DEF SaveSessionKey, SavedEntry
<1>3. UNCHANGED <<now, started, expired, read, arg>>
  BY DEF SaveSessionKey, cleanVars
<1>4. \A q \in Requests : at'[q] = "judge" <=> at[q] = "judge"
  BY DEF SaveSessionKey, Typed, TypeOK
<1>5. \A v \in Users : v # u =>
         store'[v] = store[v] /\ last'[v] = last[v]
         /\ (v \in overtaken' <=> v \in overtaken)
  BY <1>1, <1>2 DEF SaveSessionKey, Typed, TypeOK
<1>6. store'[u] = e /\ last'[u] = e
  BY <1>1, <1>2 DEF Typed, TypeOK
<1>7. u \notin overtaken' => ~AboutToDelete(u)
  BY DEF SaveSessionKey
<1>8. StoreIsLast'
  BY <1>1, <1>5, <1>6 DEF Kept, StoreIsLast
<1>9. ReadIsLast'
  <2>1. SUFFICES ASSUME NEW q \in Requests, at[q] = "judge", arg[q].user \notin overtaken'
                 PROVE  read[q] = last'[arg[q].user]
    BY <1>3, <1>4 DEF ReadIsLast
  <2>2. arg[q].user \in Users
    BY <2>1 DEF Typed, Shape, Token
  <2>3. arg[q].user # u
    BY <1>7, <2>1 DEF AboutToDelete
  <2>4. QED
    BY <1>5, <2>1, <2>2, <2>3 DEF Kept, ReadIsLast
<1>10. ExpiredIsOld'
  <2>1. SUFFICES ASSUME NEW v \in expired, v \notin overtaken'
                 PROVE  last'[v] \in Entry /\ started > last'[v].exp
    BY <1>3 DEF Kept, ExpiredIsOld
  <2>2. v # u /\ v \in Users
    BY <1>7, <2>1 DEF AboutToDelete, Typed, TypeOK
  <2>3. QED
    BY <1>5, <2>1, <2>2 DEF Kept, ExpiredIsOld
<1>11. LoginStays'
  BY <1>3, <1>5, <1>6 DEF Kept, LoginStays
<1>12. QED
  BY <1>8, <1>9, <1>10, <1>11 DEF Kept

\* A request deletes only an entry that has expired, unless it is overtaken.
LEMMA KeptJudge ==
    ASSUME Typed, Kept, NEW p \in Requests, JudgeKey(p)
    PROVE  Kept'
<1> DEFINE u == arg[p].user
<1>1. u \in Users /\ read[p] \in Entry
  BY DEF Typed, Shape, JudgeKey, Token
<1>2. UNCHANGED <<now, last, overtaken, started, expired>>
  BY DEF JudgeKey, cleanVars
<1>3. \A q \in Requests : at'[q] = "judge" =>
         at[q] = "judge" /\ read'[q] = read[q] /\ arg'[q] = arg[q]
  BY DEF JudgeKey, Answer, Typed, TypeOK
<1>4. \A v \in Users : store'[v] = store[v] \/ (v = u /\ now > read[p].exp /\ store'[v] = NoKey)
  BY <1>1 DEF JudgeKey, Typed, TypeOK
<1>5. StoreIsLast'
  BY <1>2, <1>4 DEF Kept, StoreIsLast
<1>6. ReadIsLast' /\ ExpiredIsOld'
  BY <1>2, <1>3 DEF Kept, ReadIsLast, ExpiredIsOld
<1>7. LoginStays'
  <2>1. SUFFICES ASSUME NEW v \in Users, last[v] # NoKey, now <= last[v].exp,
                        v \notin overtaken
                 PROVE  store'[v] = last[v]
    BY <1>2 DEF LoginStays
  <2>2. v = u => read[p] = last[v]
    BY <2>1 DEF Kept, ReadIsLast, JudgeKey
  <2>3. last[v] \in Entry
    BY <2>1 DEF Typed, TypeOK
  <2>4. ~(v = u /\ now > read[p].exp)
    BY <2>1, <2>2, <2>3, ExpIsNat DEF Typed, TypeOK, Time
  <2>5. QED
    BY <1>4, <2>1, <2>4 DEF Kept, LoginStays
<1>8. QED
  BY <1>5, <1>6, <1>7 DEF Kept

\* So does the clean-up.
LEMMA KeptDelete ==
    ASSUME Typed, Kept, NEW u \in Users, CleanDelete(u)
    PROVE  Kept'
<1>1. UNCHANGED <<now, last, overtaken, started, at, arg, read>>
  BY DEF CleanDelete
<1>2. u \in expired /\ expired' = expired \ {u} /\ store' = [store EXCEPT ![u] = NoKey]
  BY DEF CleanDelete
<1>3. StoreIsLast' /\ ReadIsLast' /\ ExpiredIsOld'
  BY <1>1, <1>2 DEF Kept, StoreIsLast, ReadIsLast, ExpiredIsOld, Typed, TypeOK
<1>4. LoginStays'
  <2>1. SUFFICES ASSUME NEW v \in Users, last[v] # NoKey, now <= last[v].exp,
                        v \notin overtaken
                 PROVE  store'[v] = last[v]
    BY <1>1 DEF LoginStays
  <2>2. v # u
    <3>1. v = u => started > last[v].exp /\ last[v] \in Entry /\ started <= now
      BY <1>2, <2>1 DEF Kept, ExpiredIsOld
    <3>2. QED
      BY <2>1, <3>1, ExpIsNat DEF Typed, TypeOK, Time
  <2>3. QED
    BY <1>2, <2>1, <2>2 DEF Kept, LoginStays, Typed, TypeOK
<1>5. QED
  BY <1>3, <1>4 DEF Kept

\* Every step keeps the entry of the last login.
LEMMA KeptStep ==
    ASSUME Typed, Kept, [Next]_vars
    PROVE  Kept'
<1>1. CASE UNCHANGED vars
  BY <1>1, KeptFrame DEF vars, cleanVars
<1>2. ASSUME NEW p \in Requests, NEW u \in Users, Code2Session(p, u) PROVE Kept'
  BY <1>2, KeptFrame DEF Code2Session, Free, Answered, cleanVars, Typed, TypeOK
<1>3. ASSUME NEW p \in Requests, GenToken(p) PROVE Kept'
  BY <1>3, KeptFrame DEF GenToken, cleanVars, Typed, TypeOK
<1>4. ASSUME NEW p \in Requests, NEW t \in tokens, ParseToken(p, t) PROVE Kept'
  BY <1>4, KeptFrame DEF ParseToken, cleanVars, Typed, TypeOK
<1>5. ASSUME NEW p \in Requests, LoadKey(p) PROVE Kept'
  <2>1. UNCHANGED <<now, storeVars, started, expired>>
    BY <1>5 DEF LoadKey, cleanVars
  <2>2. StoreIsLast' /\ ExpiredIsOld' /\ LoginStays'
    BY <2>1 DEF Kept, StoreIsLast, ExpiredIsOld, LoginStays, storeVars
  <2>3. ReadIsLast'
    <3>1. SUFFICES ASSUME NEW q \in Requests, at'[q] = "judge", arg'[q].user \notin overtaken
                   PROVE  read'[q] = last[arg'[q].user]
      BY <2>1 DEF ReadIsLast, storeVars
    <3>2. CASE q # p
      BY <1>5, <3>1, <3>2 DEF LoadKey, Answer, Kept, ReadIsLast, Typed, TypeOK
    <3>3. CASE q = p
      <4>1. arg' = arg /\ store[arg[p].user] # NoKey /\ read'[p] = store[arg[p].user]
        BY <1>5, <3>1, <3>3 DEF LoadKey, Answer, Typed, TypeOK
      <4>2. arg[p].user \in Users
        BY <1>5 DEF LoadKey, Typed, Shape, Token
      <4>3. QED
        BY <3>3, <4>1, <4>2 DEF Kept, StoreIsLast
    <3>4. QED
      BY <3>2, <3>3
  <2>4. QED
    BY <2>2, <2>3 DEF Kept
<1>6. CASE CleanBegin
  <2>1. UNCHANGED <<now, storeVars, at, arg, read, expired>> /\ started' = now
    BY <1>6 DEF CleanBegin
  <2>2. ExpiredIsOld'
    <3>1. SUFFICES ASSUME NEW v \in expired, v \notin overtaken
                   PROVE  last[v] \in Entry /\ now > last[v].exp
      BY <2>1 DEF ExpiredIsOld, storeVars, Typed, TypeOK, Time
    <3>2. QED
      BY <3>1, ExpIsNat DEF Kept, ExpiredIsOld, Typed, TypeOK, Time
  <2>3. QED
    BY <2>1, <2>2 DEF Kept, StoreIsLast, ReadIsLast, LoginStays, storeVars
<1>7. ASSUME NEW u \in Users, CleanVisit(u) PROVE Kept'
  <2>1. UNCHANGED <<now, storeVars, at, arg, read, started>>
    BY <1>7 DEF CleanVisit
  <2>2. ExpiredIsOld'
    <3>1. SUFFICES ASSUME NEW v \in expired', v \notin overtaken, v \notin expired
                   PROVE  last[v] \in Entry /\ started > last[v].exp
      BY <2>1 DEF Kept, ExpiredIsOld, storeVars
    <3>2. v = u /\ store[u] # NoKey /\ started > store[u].exp
      BY <1>7, <3>1 DEF CleanVisit
    <3>3. QED
      BY <3>2 DEF Kept, StoreIsLast, Typed, TypeOK
  <2>3. QED
    BY <2>1, <2>2 DEF Kept, StoreIsLast, ReadIsLast, LoginStays, storeVars
<1>8. CASE CleanEnd
  BY <1>8
  DEF CleanEnd, Kept, StoreIsLast, ReadIsLast, ExpiredIsOld, LoginStays, storeVars, Typed,
      TypeOK, Time
<1>9. CASE Stop
  BY <1>9, KeptFrame DEF Stop
<1>10. CASE Tick
  <2>1. now \in Nat /\ now' = now + 1 /\ UNCHANGED <<storeVars, at, arg, read, started, expired>>
    BY <1>10 DEF Tick, cleanVars, Typed, TypeOK, Time
  <2>2. ExpiredIsOld'
    BY <2>1 DEF Kept, ExpiredIsOld, storeVars, Typed, TypeOK, Time
  <2>3. LoginStays'
    <3>1. SUFFICES ASSUME NEW v \in Users, last[v] # NoKey, now + 1 <= last[v].exp,
                          v \notin overtaken
                   PROVE  store[v] = last[v]
      BY <2>1 DEF LoginStays, storeVars
    <3>2. last[v] \in Entry
      BY <3>1 DEF Typed, TypeOK
    <3>3. now <= last[v].exp
      BY <2>1, <3>1, <3>2, ExpIsNat
    <3>4. QED
      BY <3>1, <3>3 DEF Kept, LoginStays
  <2>4. QED
    BY <2>1, <2>2, <2>3 DEF Kept, StoreIsLast, ReadIsLast, storeVars
<1>11. CASE Restart
  BY <1>11
  DEF Restart, Kept, StoreIsLast, ReadIsLast, ExpiredIsOld, LoginStays, Typed, TypeOK, Time
<1>12. QED
  BY <1>1, <1>2, <1>3, <1>4, <1>5, <1>6, <1>7, <1>8, <1>9, <1>10, <1>11, KeptSave, KeptJudge,
     KeptDelete DEF Next, Login, Check, Cleanup

\* What a login has stored stays until it expires or the user logs in again, but
\* for the logins that overtake somebody about to delete (auth.go:63-87, 140-183).
THEOREM LoginsStay == Spec => []LoginStays
<1>1. Init => Kept
  BY DEF Init, Kept, StoreIsLast, ReadIsLast, ExpiredIsOld, LoginStays
<1>2. TypeOK /\ Shape /\ KeysCounted /\ Kept /\ [Next]_vars
        => (TypeOK /\ Shape /\ KeysCounted /\ Kept)'
  BY TypeStep, KeptStep DEF Typed
<1>3. Kept => LoginStays
  BY DEF Kept
<1>4. QED
  BY <1>1, <1>2, <1>3, TypeInit, PTL DEF Spec

-----------------------------------------------------------------------------
\* What a step that p takes no part in adds to the history of p.
LEMMA SeenGrows ==
    ASSUME Observe, NEW p \in Requests, Checking(p), Checking(p)'
    PROVE  /\ seen[p] \subseteq seen'[p]
           /\ (IF Stands(p)' THEN "stood" ELSE "fell") \in seen'[p]
           /\ at[p] = "judge" /\ last'[arg[p].user] # last[arg[p].user]
                 => "renewed" \in seen'[p]
  BY DEF Observe

\* A step that p takes no part in, while it has an entry to judge.
LEMMA SeenFrame ==
    ASSUME Typed, Typed', StoreIsLast', SeenIsTrue, Observe, NEW p \in Requests,
           Checking(p), at'[p] = at[p], arg'[p] = arg[p], read'[p] = read[p],
           now \in Nat, now' \in Nat, now <= now'
    PROVE  /\ (IF Stands(p)' THEN "stood" ELSE "fell") \in seen'[p]
           /\ at[p] = "judge" =>
                 /\ read[p] = last'[arg[p].user] \/ "renewed" \in seen'[p]
                 /\ IF KeyFits(p)' THEN "stood" \in seen'[p]
                    ELSE seen'[p] \cap {"fell", "renewed"} # {}
<1>1. Checking(p)'
  BY DEF Checking
<1>2. /\ seen[p] \subseteq seen'[p]
      /\ (IF Stands(p)' THEN "stood" ELSE "fell") \in seen'[p]
      /\ at[p] = "judge" /\ last'[arg[p].user] # last[arg[p].user]
            => "renewed" \in seen'[p]
  BY <1>1, SeenGrows
<1>3. SUFFICES ASSUME at[p] = "judge"
               PROVE  /\ read[p] = last'[arg[p].user] \/ "renewed" \in seen'[p]
                      /\ IF KeyFits(p)' THEN "stood" \in seen'[p]
                         ELSE seen'[p] \cap {"fell", "renewed"} # {}
  BY <1>2
<1>4. read[p] = last'[arg[p].user] \/ "renewed" \in seen'[p]
  BY <1>2, <1>3 DEF SeenIsTrue
<1>5. CASE KeyFits(p)'
  <2>1. read[p].exp \in Nat
    BY <1>3, ExpIsNat DEF Typed, Shape
  <2>2. KeyFits(p)
    BY <1>5, <2>1 DEF KeyFits
  <2>3. QED
    BY <1>2, <1>3, <1>5, <2>2 DEF SeenIsTrue
<1>6. CASE ~KeyFits(p)'
  <2>1. CASE "renewed" \in seen'[p]
    BY <1>4, <1>6, <2>1
  <2>2. CASE read[p] = last'[arg[p].user]
    <3>1. store'[arg[p].user] \in {NoKey, read[p]}
      BY <1>3, <2>2 DEF Typed, Shape, Token, StoreIsLast
    <3>2. ~Stands(p)'
      BY <1>6, <3>1 DEF Stands, KeyFits
    <3>3. QED
      BY <1>2, <1>4, <1>6, <3>2
  <2>3. QED
    BY <1>4, <2>1, <2>2
<1>7. QED
  BY <1>4, <1>5, <1>6

\* What a step does to a request q: it leaves q alone, or it is q's own, or it
\* ends the process.
LEMMA StepOf ==
    ASSUME TypeOK, Next, NEW q \in Requests
    PROVE  /\ Observe
           /\ now' \in {now, now + 1}
           /\ \/ at'[q] = at[q] /\ arg'[q] = arg[q] /\ read'[q] = read[q]
              \/ at'[q] \in {"save", "issue", "idle"}
              \/ \E t \in tokens : ParseToken(q, t)
              \/ LoadKey(q)
              \/ JudgeKey(q)
<1> DEFINE Rest == at'[q] = at[q] /\ arg'[q] = arg[q] /\ read'[q] = read[q]
           Own  == \/ at'[q] \in {"save", "issue", "idle"}
                   \/ \E t \in tokens : ParseToken(q, t)
                   \/ LoadKey(q)
                   \/ JudgeKey(q)
           Goal == Observe /\ now' \in {now, now + 1} /\ (Rest \/ Own)
<1>1. ASSUME NEW p \in Requests, NEW u \in Users, Code2Session(p, u) PROVE Goal
  BY <1>1 DEF Code2Session, TypeOK
<1>2. ASSUME NEW p \in Requests, SaveSessionKey(p) PROVE Goal
  BY <1>2 DEF SaveSessionKey, TypeOK
<1>3. ASSUME NEW p \in Requests, GenToken(p) PROVE Goal
  BY <1>3 DEF GenToken, TypeOK
<1>4. ASSUME NEW p \in Requests, NEW t \in tokens, ParseToken(p, t) PROVE Goal
  BY <1>4 DEF ParseToken, TypeOK
<1>5. ASSUME NEW p \in Requests, LoadKey(p) PROVE Goal
  BY <1>5 DEF LoadKey, Answer, TypeOK
<1>6. ASSUME NEW p \in Requests, JudgeKey(p) PROVE Goal
  BY <1>6 DEF JudgeKey, Answer, TypeOK
<1>7. CASE Cleanup
  BY <1>7 DEF Cleanup, CleanBegin, CleanVisit, CleanDelete, CleanEnd
<1>8. CASE Stop
  BY <1>8 DEF Stop
<1>9. CASE Tick
  BY <1>9 DEF Tick
<1>10. CASE Restart
  BY <1>10 DEF Restart, TypeOK
<1>11. QED
  BY <1>1, <1>2, <1>3, <1>4, <1>5, <1>6, <1>7, <1>8, <1>9, <1>10 DEF Next, Login, Check

\* After a load the entry in hand is the one in the store.
LEMMA LoadedEntry ==
    ASSUME Typed, StoreIsLast, NEW p \in Requests, LoadKey(p), Observe
    PROVE  /\ at'[p] = "judge" =>
                /\ read'[p] = last'[arg'[p].user]
                /\ (KeyFits(p)' <=> Stands(p)')
                /\ (IF Stands(p)' THEN "stood" ELSE "fell") \in seen'[p]
           /\ at'[p] # "judge" => at'[p] = "rejected" /\ ~Stands(p) /\ seen'[p] = seen[p]
<1>1. arg[p].user \in Users
  BY DEF LoadKey, Typed, Shape, Token
<1>2. CASE store[arg[p].user] # NoKey
  <2>1. /\ at'[p] = "judge" /\ arg' = arg /\ read'[p] = store[arg[p].user]
        /\ UNCHANGED <<now, store, last>>
    BY <1>2 DEF LoadKey, storeVars, Typed, TypeOK
  <2>2. KeyFits(p)' <=> Stands(p)'
    BY <1>2, <2>1 DEF KeyFits, Stands
  <2>3. (IF Stands(p)' THEN "stood" ELSE "fell") \in seen'[p]
    <3>1. Checking(p) /\ Checking(p)'
      BY <2>1 DEF LoadKey, Checking
    <3>2. QED
      BY <3>1, SeenGrows
  <2>4. QED
    BY <1>1, <1>2, <2>1, <2>2, <2>3 DEF StoreIsLast
<1>3. CASE store[arg[p].user] = NoKey
  <2>1. at'[p] = "rejected"
    BY <1>3 DEF LoadKey, Answer, Typed, TypeOK
  <2>2. seen'[p] = seen[p]
    BY <2>1 DEF Observe, Checking, Answered
  <2>3. QED
    BY <1>3, <2>1, <2>2 DEF Stands
<1>4. QED
  BY <1>2, <1>3

\* Every step keeps the history true.
LEMMA SeenStep ==
    ASSUME Typed, Typed', StoreIsLast, StoreIsLast', SeenIsTrue, [Next]_vars
    PROVE  SeenIsTrue'
<1>1. CASE UNCHANGED vars
  BY <1>1
  DEF vars, SeenIsTrue, Checking, Stands, KeyFits, storeVars, cleanVars, issued
<1>2. CASE Next
  <2>1. SUFFICES ASSUME NEW p \in Requests, Checking(p)'
                 PROVE  /\ (IF Stands(p)' THEN "stood" ELSE "fell") \in seen'[p]
                        /\ at'[p] = "judge" =>
                              /\ read'[p] = last'[arg'[p].user] \/ "renewed" \in seen'[p]
                              /\ IF KeyFits(p)' THEN "stood" \in seen'[p]
                                 ELSE seen'[p] \cap {"fell", "renewed"} # {}
    BY DEF SeenIsTrue, Checking
  <2>2. /\ Observe
        /\ now' \in {now, now + 1} /\ now \in Nat /\ now' \in Nat /\ now <= now'
    BY <1>2, StepOf DEF Typed, TypeOK, Time
  <2>3. CASE at'[p] = at[p] /\ arg'[p] = arg[p] /\ read'[p] = read[p]
    <3>1. Checking(p)
      BY <2>1, <2>3 DEF Checking
    <3>2. QED
      BY <2>2, <2>3, <3>1, SeenFrame
  <2>4. ASSUME NEW t \in tokens, ParseToken(p, t)
        PROVE  at'[p] = "lookup" /\ (IF Stands(p)' THEN "stood" ELSE "fell") \in seen'[p]
    <3>1. at'[p] = "lookup"
      BY <2>4 DEF ParseToken, Typed, TypeOK
    <3>2. QED
      BY <2>1, <2>2, <3>1 DEF Observe
  <2>5. CASE LoadKey(p)
    <3>1. at'[p] = "judge"
      BY <2>1, <2>2, <2>5, LoadedEntry DEF Checking
    <3>2. QED
      BY <2>2, <2>5, <3>1, LoadedEntry
  <2>6. ~JudgeKey(p) /\ at'[p] \notin {"save", "issue", "idle"}
    BY <2>1 DEF JudgeKey, Answer, Checking, Typed, TypeOK
  <2>7. QED
    BY <1>2, <2>3, <2>4, <2>5, <2>6, StepOf DEF Typed
<1>3. QED
  BY <1>1, <1>2

\* Every answer rests on what has been seen.
LEMMA AnswerStep ==
    ASSUME Typed, StoreIsLast, SeenIsTrue, AnswersAreJustified, [Next]_vars
    PROVE  AnswersAreJustified'
<1>1. CASE UNCHANGED vars
  BY <1>1 DEF vars, AnswersAreJustified
<1>2. CASE Next
  <2>1. SUFFICES ASSUME NEW p \in Requests, at'[p] \in {"accepted", "rejected"}
                 PROVE  /\ at'[p] = "accepted" => "stood" \in seen'[p]
                        /\ at'[p] = "rejected" => seen'[p] \cap {"fell", "renewed"} # {}
    BY DEF AnswersAreJustified
  <2>2. Observe
    BY <1>2, StepOf DEF Typed
  <2>3. seen'[p] = seen[p]
    BY <2>1, <2>2 DEF Observe, Checking, Answered
  <2>4. CASE at'[p] = at[p]
    BY <2>1, <2>3, <2>4 DEF AnswersAreJustified
  <2>5. CASE LoadKey(p)
    <3>1. at'[p] = "rejected" /\ ~Stands(p)
      BY <2>1, <2>2, <2>5, LoadedEntry
    <3>2. "fell" \in seen[p]
      BY <2>5, <3>1 DEF LoadKey, SeenIsTrue, Checking
    <3>3. QED
      BY <2>3, <3>1, <3>2
  <2>6. CASE JudgeKey(p)
    <3>1. at[p] = "judge" /\ at'[p] = IF KeyFits(p) THEN "accepted" ELSE "rejected"
      BY <2>6 DEF JudgeKey, Answer, Typed, TypeOK
    <3>2. QED
      BY <2>3, <3>1 DEF SeenIsTrue
  <2>7. ASSUME NEW t \in tokens, ParseToken(p, t) PROVE at'[p] = "lookup"
    BY <2>7 DEF ParseToken, Typed, TypeOK
  <2>8. QED
    BY <1>2, <2>1, <2>4, <2>5, <2>6, <2>7, StepOf DEF Typed
<1>3. QED
  BY <1>1, <1>2

\* The answer to a token is one the store would have given at some moment of the
\* call, or a login has renewed the key meanwhile (auth.go:73-84, 110-137).
THEOREM AnswersJustified == Spec => []AnswersAreJustified
<1>1. Init => Kept /\ SeenIsTrue /\ AnswersAreJustified
  BY DEF Init, Kept, StoreIsLast, ReadIsLast, ExpiredIsOld, LoginStays, SeenIsTrue,
         Checking, AnswersAreJustified
<1>2. /\ TypeOK /\ Shape /\ KeysCounted /\ Kept /\ SeenIsTrue /\ AnswersAreJustified
      /\ [Next]_vars
      => (TypeOK /\ Shape /\ KeysCounted /\ Kept /\ SeenIsTrue /\ AnswersAreJustified)'
  BY TypeStep, KeptStep, SeenStep, AnswerStep DEF Typed, Kept
<1>3. QED
  BY <1>1, <1>2, TypeInit, PTL DEF Spec
===============================================================================
