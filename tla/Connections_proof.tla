--------------------------- MODULE Connections_proof ---------------------------
(***************************************************************************)
(* Proofs about Connections, for any connections, any users and any number  *)
(* of requests.                                                            *)
(***************************************************************************)
EXTENDS Connections, TLAPS

\* Where a request is in progress, its user's name is known; a connection has a
\* user's name once it is authenticated.
Shape ==
    \A c \in Conns :
        /\ Authenticating(c) => parsed[c] \in Users
        /\ at[c] \in {"flag", "role"} => openID[c] = parsed[c]
        /\ at[c] \in {"role", "handle"} => authenticated[c]
        /\ at[c] = "none" => ~authenticated[c]
        /\ authenticated[c] => openID[c] \in Users
        /\ inbox[c] <= sent[c]

\* A connection that is up is in the map, so that a login finds it, unless a failed
\* broadcast has taken it out.
OpenIsListed == \A c \in Conns : open[c] => c \in connections \union dropped

\* Two LoginAuth requests that are under way at the same time know of each other.
OverlapIsKnown ==
    \A c, d \in Conns :
        c # d /\ Authenticating(c) /\ Authenticating(d) => c \in beside[d]

\* A connection of the user that d logs in as, unless its own login overlapped
\* that of d or it is not in the map, is on the way to being kicked.
WillBeKicked ==
    \A c, d \in Conns :
        c # d /\ Authenticating(d) /\ LoggedInAs(c, parsed[d])
              /\ c \notin beside[d] /\ d \notin beside[c] /\ c \notin dropped
            => \/ at[d] = "look" /\ c \in unseen[d] \union found[d]
               \/ at[d] = "kick" /\ c \in found[d]
               \/ at[d] \in {"tell", "close"} /\ c \in found[d] \union told[d]

IInv == TypeOK /\ Shape /\ OpenIsListed /\ OverlapIsKnown /\ WillBeKicked /\ LaterLoginKicks

-----------------------------------------------------------------------------
USE ConnectionsAssumption

\* Types and shape.
LEMMA TypeStep ==
    ASSUME TypeOK, Shape, [Next]_vars
    PROVE  TypeOK' /\ Shape'
<1> USE DEF TypeOK, Shape, Authenticating, Goto
<1>1. CASE UNCHANGED vars
  BY <1>1 DEF vars, clientVars, contextVars, kickVars, historyVars
<1>2. ASSUME NEW c \in Conns, Send(c) PROVE TypeOK' /\ Shape'
  BY <1>2 DEF Send, clientVars, contextVars, kickVars, historyVars
<1>3. ASSUME NEW c \in Conns, HangUp(c) PROVE TypeOK' /\ Shape'
  BY <1>3 DEF HangUp, clientVars, contextVars, kickVars, historyVars
<1>4. ASSUME NEW c \in Conns, Register(c) PROVE TypeOK' /\ Shape'
  BY <1>4 DEF Register, clientVars, contextVars, kickVars, historyVars
<1>5. ASSUME NEW c \in Conns, ReadError(c) PROVE TypeOK' /\ Shape'
  BY <1>5 DEF ReadError, clientVars, contextVars, kickVars, historyVars
<1>6. ASSUME NEW c \in Conns, Unregister(c) PROVE TypeOK' /\ Shape'
  BY <1>6 DEF Unregister, clientVars, contextVars, kickVars, historyVars
<1>7. ASSUME NEW c \in Conns, Request(c) PROVE TypeOK' /\ Shape'
  BY <1>7 DEF Request, Read, clientVars, contextVars, kickVars, historyVars
<1>8. ASSUME NEW c \in Conns, TooLarge(c) PROVE TypeOK' /\ Shape'
  BY <1>8 DEF TooLarge, Read, clientVars, contextVars, kickVars, historyVars
<1>9. ASSUME NEW c \in Conns, Handled(c) PROVE TypeOK' /\ Shape'
  BY <1>9 DEF Handled, clientVars, contextVars, kickVars, historyVars
<1>10. ASSUME NEW c \in Conns, NEW u \in Users, Auth(c, u) PROVE TypeOK' /\ Shape'
  BY <1>10 DEF Auth, Read, clientVars, contextVars, kickVars, historyVars
<1>11. ASSUME NEW c \in Conns, NEW d \in Conns, Look(c, d) PROVE TypeOK' /\ Shape'
  BY <1>11 DEF Look, clientVars, contextVars, kickVars, historyVars
<1>12. ASSUME NEW c \in Conns, Looked(c) PROVE TypeOK' /\ Shape'
  BY <1>12 DEF Looked, clientVars, contextVars, kickVars, historyVars
<1>13. ASSUME NEW c \in Conns, NEW d \in Conns, Tell(c, d) PROVE TypeOK' /\ Shape'
  BY <1>13 DEF Tell, clientVars, contextVars, kickVars, historyVars
<1>14. ASSUME NEW c \in Conns, Told(c) PROVE TypeOK' /\ Shape'
  BY <1>14 DEF Told, clientVars, contextVars, kickVars, historyVars
<1>15. ASSUME NEW c \in Conns, Close(c) PROVE TypeOK' /\ Shape'
  BY <1>15 DEF Close, clientVars, contextVars, kickVars, historyVars
<1>16. ASSUME NEW c \in Conns, Kicked(c) PROVE TypeOK' /\ Shape'
  BY <1>16 DEF Kicked, clientVars, contextVars, kickVars, historyVars
<1>17. ASSUME NEW c \in Conns, SetName(c) PROVE TypeOK' /\ Shape'
  BY <1>17 DEF SetName, clientVars, contextVars, kickVars, historyVars
<1>18. ASSUME NEW c \in Conns, SetFlag(c) PROVE TypeOK' /\ Shape'
  BY <1>18 DEF SetFlag, clientVars, contextVars, kickVars, historyVars
<1>19. ASSUME NEW c \in Conns, LoginRole(c) PROVE TypeOK' /\ Shape'
  BY <1>19 DEF LoginRole, clientVars, contextVars, kickVars, historyVars
<1>20. ASSUME NEW c \in Conns, BroadcastFails(c) PROVE TypeOK' /\ Shape'
  BY <1>20 DEF BroadcastFails, clientVars, contextVars, kickVars, historyVars
<1>21. QED
  BY <1>1, <1>2, <1>3, <1>4, <1>5, <1>6, <1>7, <1>8, <1>9, <1>10, <1>11, <1>12, <1>13,
     <1>14, <1>15, <1>16, <1>17, <1>18, <1>19, <1>20
  DEF Next, Goroutine

-----------------------------------------------------------------------------
\* The map, the overlaps and the kicks.  Whoever is up under a user's name when
\* another login of that user starts is seen, found and kicked before that login
\* is over; who logs in beside it has overlapped with it.
Kicking == OpenIsListed /\ OverlapIsKnown /\ WillBeKicked /\ LaterLoginKicks

LEMMA KickingStep ==
    ASSUME TypeOK, Shape, Kicking, [Next]_vars
    PROVE  Kicking'
<1> USE DEF TypeOK, Shape, Authenticating, Goto, Kicking, OpenIsListed, OverlapIsKnown,
            WillBeKicked, LaterLoginKicks, LoggedInAs, clientVars, contextVars, kickVars,
            historyVars
<1>1. CASE UNCHANGED vars
  BY <1>1 DEF vars
<1>2. ASSUME NEW c \in Conns, Send(c) PROVE Kicking'
  BY <1>2 DEF Send
<1>3. ASSUME NEW c \in Conns, HangUp(c) PROVE Kicking'
  BY <1>3 DEF HangUp
<1>4. ASSUME NEW c \in Conns, Register(c) PROVE Kicking'
  BY <1>4 DEF Register
<1>5. ASSUME NEW c \in Conns, ReadError(c) PROVE Kicking'
  BY <1>5 DEF ReadError
<1>6. ASSUME NEW c \in Conns, Unregister(c) PROVE Kicking'
  BY <1>6 DEF Unregister
<1>7. ASSUME NEW c \in Conns, Request(c) PROVE Kicking'
  <2>1. CASE Goto(c, "read")
    BY <1>7, <2>1 DEF Request, Read
  <2>2. CASE Goto(c, "handle")
    BY <1>7, <2>2 DEF Request, Read
  <2>3. QED
    BY <1>7, <2>1, <2>2 DEF Request
<1>8. ASSUME NEW c \in Conns, TooLarge(c) PROVE Kicking'
  BY <1>8 DEF TooLarge, Read
<1>9. ASSUME NEW c \in Conns, Handled(c) PROVE Kicking'
  <2>1. CASE Goto(c, "read")
    BY <1>9, <2>1 DEF Handled
  <2>2. CASE Goto(c, "leave")
    BY <1>9, <2>2 DEF Handled
  <2>3. QED
    BY <1>9, <2>1, <2>2 DEF Handled
<1>10. ASSUME NEW c \in Conns, NEW u \in Users, Auth(c, u) PROVE Kicking'
  <2>1. OpenIsListed' /\ LaterLoginKicks'
    BY <1>10 DEF Auth, Read
  <2>2. OverlapIsKnown'
    \* c learns of those under way, and they of c.
    BY <1>10 DEF Auth, Read
  <2>3. WillBeKicked'
    \* What c has still to look at includes every connection that is up.
    BY <1>10 DEF Auth, Read
  <2>4. QED
    BY <2>1, <2>2, <2>3
<1>11. ASSUME NEW c \in Conns, NEW d \in Conns, Look(c, d) PROVE Kicking'
  <2>1. OpenIsListed' /\ LaterLoginKicks' /\ OverlapIsKnown'
    BY <1>11 DEF Look
  <2>2. WillBeKicked'
    \* If d has the user's name it is found; found or still unseen, others stay.
    BY <1>11 DEF Look
  <2>3. QED
    BY <2>1, <2>2
<1>12. ASSUME NEW c \in Conns, Looked(c) PROVE Kicking'
  BY <1>12 DEF Looked
<1>13. ASSUME NEW c \in Conns, NEW d \in Conns, Tell(c, d) PROVE Kicking'
  BY <1>13 DEF Tell
<1>14. ASSUME NEW c \in Conns, Told(c) PROVE Kicking'
  BY <1>14 DEF Told
<1>15. ASSUME NEW c \in Conns, Close(c) PROVE Kicking'
  <2>1. /\ at[c] = "close" /\ at' = [at EXCEPT ![c] = "kick"]
        /\ \A d \in Conns : open'[d] => open[d] /\ d \notin told[c]
        /\ \A d \in Conns : d # c => told'[d] = told[d]
        /\ UNCHANGED <<connections, authenticated, openID, parsed, unseen, found, beside,
                       dropped>>
    BY <1>15 DEF Close
  <2>2. OpenIsListed' /\ OverlapIsKnown' /\ LaterLoginKicks'
    BY <2>1
  <2>3. WillBeKicked'
    \* Who was still to be told is still to be told; who was told is closed.
    BY <2>1
  <2>4. QED
    BY <2>2, <2>3
<1>16. ASSUME NEW c \in Conns, Kicked(c) PROVE Kicking'
  BY <1>16 DEF Kicked
<1>17. ASSUME NEW c \in Conns, SetName(c) PROVE Kicking'
  BY <1>17 DEF SetName
<1>18. ASSUME NEW c \in Conns, SetFlag(c) PROVE Kicking'
  BY <1>18 DEF SetFlag
<1>19. ASSUME NEW c \in Conns, LoginRole(c) PROVE Kicking'
  <2>1. OpenIsListed' /\ OverlapIsKnown' /\ WillBeKicked'
    \* c is logged in now; a login under way has overlapped with its own.
    BY <1>19 DEF LoginRole
  <2>2. LaterLoginKicks'
    \* Who is still up under the user's name would have been kicked.
    BY <1>19 DEF LoginRole
  <2>3. QED
    BY <2>1, <2>2
<1>20. ASSUME NEW c \in Conns, BroadcastFails(c) PROVE Kicking'
  BY <1>20 DEF BroadcastFails
<1>21. QED
  BY <1>1, <1>2, <1>3, <1>4, <1>5, <1>6, <1>7, <1>8, <1>9, <1>10, <1>11, <1>12, <1>13,
     <1>14, <1>15, <1>16, <1>17, <1>18, <1>19, <1>20
  DEF Next, Goroutine

\* Every step keeps the invariant, which holds initially.
LEMMA IInvStep == IInv /\ [Next]_vars => IInv'
  BY TypeStep, KickingStep DEF IInv, Kicking

LEMMA IInvInit == Init => IInv
  BY DEF Init, IInv, TypeOK, Shape, OpenIsListed, OverlapIsKnown, WillBeKicked,
         LaterLoginKicks, LoggedInAs, Authenticating

\* Every reachable state of the connections is type-correct; a handler runs only
\* for an authenticated connection with a user's name (websocket.go:376-397).
THEOREM TypeCorrect == Spec => []TypeOK
<1>1. IInv => TypeOK
  BY DEF IInv
<1>2. QED
  BY <1>1, IInvInit, IInvStep, PTL DEF Spec

\* Of two connections of one user that are up, the last LoginAuth requests have
\* overlapped, or a failed broadcast has taken one of them out of the map: otherwise the
\* later one has closed the earlier (websocket.go:80-121, 161-164, 448-460), however
\* many connections and users there are.
THEOREM LaterLoginAlwaysKicks == Spec => []LaterLoginKicks
<1>1. IInv => LaterLoginKicks
  BY DEF IInv
<1>2. QED
  BY <1>1, IInvInit, IInvStep, PTL DEF Spec
===============================================================================
