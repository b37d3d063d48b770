----------------------------- MODULE Connections -----------------------------
(***************************************************************************)
(* WebSocket connections (websocket.go): each has a goroutine that reads   *)
(* requests and runs their handlers.  A connection takes a user's name on  *)
(* a LoginAuth request, and on the way closes the other connections of     *)
(* that user, which go away when they next try to read.                    *)
(*                                                                         *)
(* The ConnectionManager's mutex protects its map but not the contexts in  *)
(* it: one goroutine reads Authenticated and OpenID of another's context   *)
(* while that one writes them, so looking at one context is one step here  *)
(* and so is writing one field.  Requests are a count: what a client has   *)
(* sent may still be read after the server has closed the connection, as   *)
(* far as it had been received.                                            *)
(*                                                                         *)
(* A message to a client is written under the connection's own mutex and   *)
(* without a deadline: the write may take for ever while the client does   *)
(* not read, until the connection is closed.  The kick's message is a step *)
(* of its own; an answer is the last part of the step that gives it.       *)
(***************************************************************************)
EXTENDS Integers, FiniteSets

CONSTANTS Conns,
          Users,
          MaxRequests, \* bound: requests of a connection
          Nobody

ASSUME ConnectionsAssumption ==
    /\ MaxRequests \in Nat
    /\ Nobody \notin Users

VARIABLES
    connections,   \* ConnectionManager.connections
    open,          \* the socket of each connection has not been closed
    inbox,         \* requests each connection has still to read
    sent,          \* model only: requests sent so far
    at,            \* where the goroutine of each connection is
    authenticated, \* ConnectionContext.Authenticated
    openID,        \* ConnectionContext.OpenID
    parsed,        \* parsedOpenID of the LoginAuth request at hand
    unseen,        \* contexts that GetConnectionsByOpenID has still to look at
    found,         \* those it has found and that have still to be kicked
    told,          \* the one that is being told that it is kicked
    beside,        \* history: connections that were in a LoginAuth during the
                   \* last one of this connection
    dropped        \* history: connections that a failed broadcast has taken out
                   \* of the map while they were open

clientVars == <<inbox, sent>>
contextVars == <<authenticated, openID>>
kickVars == <<parsed, unseen, found, told>>
historyVars == <<beside, dropped>>
vars == <<connections, open, clientVars, at, contextVars, kickVars, historyVars>>

Init ==
    /\ connections = {}
    /\ open = [c \in Conns |-> FALSE]
    /\ inbox = [c \in Conns |-> 0]
    /\ sent = [c \in Conns |-> 0]
    /\ at = [c \in Conns |-> "none"]
    /\ authenticated = [c \in Conns |-> FALSE]
    /\ openID = [c \in Conns |-> Nobody]
    /\ parsed = [c \in Conns |-> Nobody]
    /\ unseen = [c \in Conns |-> {}]
    /\ found = [c \in Conns |-> {}]
    /\ told = [c \in Conns |-> {}]
    /\ beside = [c \in Conns |-> {}]
    /\ dropped = {}

Goto(c, l) == at' = [at EXCEPT ![c] = l]

\* In a LoginAuth request.
Authenticating(c) == at[c] \in {"look", "kick", "tell", "close", "name", "flag", "role"}

-----------------------------------------------------------------------------
(* Clients.                                                                 *)

Send(c) ==
    /\ open[c]
    /\ sent[c] < MaxRequests
    /\ sent' = [sent EXCEPT ![c] = @ + 1]
    /\ inbox' = [inbox EXCEPT ![c] = @ + 1]
    /\ UNCHANGED <<connections, open, at, contextVars, kickVars, historyVars>>

\* The client hangs up, or the network does.
HangUp(c) ==
    /\ open[c]
    /\ open' = [open EXCEPT ![c] = FALSE]
    /\ UNCHANGED <<connections, clientVars, at, contextVars, kickVars, historyVars>>

-----------------------------------------------------------------------------
(* The message loop.                                                        *)

\* The manager's mutex is free for writing.
Lockable == \A c \in Conns : at[c] # "look"

Register(c) ==
    /\ at[c] = "none"
    /\ Lockable
    /\ open' = [open EXCEPT ![c] = TRUE]
    /\ connections' = connections \union {c}
    /\ Goto(c, "read")
    /\ UNCHANGED <<clientVars, contextVars, kickVars, historyVars>>

Read(c) ==
    /\ at[c] = "read"
    /\ inbox[c] > 0
    /\ inbox' = [inbox EXCEPT ![c] = @ - 1]

\* A closed socket fails to read, and what was not received yet is lost.
ReadError(c) ==
    /\ at[c] = "read"
    /\ ~open[c]
    /\ Goto(c, "leave")
    /\ UNCHANGED <<connections, open, clientVars, contextVars, kickVars, historyVars>>

\* Mutant of Unregister: a kicked connection stays in the map.
Unregister_OnlyGuests(c) ==
    /\ at[c] = "leave"
    /\ Lockable
    /\ connections' = IF authenticated[c] THEN connections ELSE connections \ {c}
    /\ open' = [open EXCEPT ![c] = FALSE]
    /\ Goto(c, "gone")
    /\ UNCHANGED <<clientVars, contextVars, kickVars, historyVars>>

\* The deferred Unregister; the library closes the socket when Handler's function
\* has returned.
Unregister(c) ==
    /\ at[c] = "leave"
    /\ Lockable
    /\ connections' = connections \ {c}
    /\ open' = [open EXCEPT ![c] = FALSE]
    /\ Goto(c, "gone")
    /\ UNCHANGED <<clientVars, contextVars, kickVars, historyVars>>

\* Mutant of Request: a handler runs whether authenticated or not.
Request_Unchecked(c) ==
    /\ Read(c)
    /\ Goto(c, "read") \/ Goto(c, "handle")
    /\ UNCHANGED <<connections, open, sent, contextVars, kickVars, historyVars>>

\* Any other request: it is dropped, as a LoginAuth with a bad token is, or its
\* handler runs, which needs an authenticated connection.
Request(c) ==
    /\ Read(c)
    /\ \/ Goto(c, "read")
       \/ authenticated[c] /\ Goto(c, "handle")
    /\ UNCHANGED <<connections, open, sent, contextVars, kickVars, historyVars>>

\* A message larger than maxWebSocketMessageSize.
TooLarge(c) ==
    /\ Read(c)
    /\ open' = [open EXCEPT ![c] = FALSE]
    /\ Goto(c, "leave")
    /\ UNCHANGED <<connections, sent, contextVars, kickVars, historyVars>>

\* The handler returns, or it panics and the deferred function recovers.
Handled(c) ==
    /\ at[c] = "handle"
    /\ Goto(c, "read") \/ Goto(c, "leave")
    /\ UNCHANGED <<connections, open, clientVars, contextVars, kickVars, historyVars>>

-----------------------------------------------------------------------------
(* handleAuthRequest.                                                       *)

\* A token has been accepted; kicking starts with a look at the connections.
Auth(c, u) ==
    /\ Read(c)
    /\ Goto(c, "look")
    /\ parsed' = [parsed EXCEPT ![c] = u]
    /\ unseen' = [unseen EXCEPT ![c] = connections]
    /\ beside' = [d \in Conns |->
                    IF d = c THEN {e \in Conns : Authenticating(e)}
                    ELSE IF Authenticating(d) THEN beside[d] \union {c}
                    ELSE beside[d]]
    /\ UNCHANGED <<connections, open, sent, contextVars, found, told, dropped>>

\* Mutant of Look: connections in the middle of a request are passed over.
Look_OnlyIdle(c, d) ==
    /\ at[c] = "look"
    /\ d \in unseen[c]
    /\ unseen' = [unseen EXCEPT ![c] = @ \ {d}]
    /\ found' = IF authenticated[d] /\ openID[d] = parsed[c] /\ d # c /\ at[d] = "read"
                THEN [found EXCEPT ![c] = @ \union {d}] ELSE found
    /\ UNCHANGED <<connections, open, clientVars, at, contextVars, parsed, told, historyVars>>

\* GetConnectionsByOpenID, which keeps the map from changing meanwhile; the
\* connection's own id is passed over later.
Look(c, d) ==
    /\ at[c] = "look"
    /\ d \in unseen[c]
    /\ unseen' = [unseen EXCEPT ![c] = @ \ {d}]
    /\ found' = IF authenticated[d] /\ openID[d] = parsed[c] /\ d # c
                THEN [found EXCEPT ![c] = @ \union {d}] ELSE found
    /\ UNCHANGED <<connections, open, clientVars, at, contextVars, parsed, told, historyVars>>

Looked(c) ==
    /\ at[c] = "look"
    /\ unseen[c] = {}
    /\ Goto(c, "kick")
    /\ UNCHANGED <<connections, open, clientVars, contextVars, kickVars, historyVars>>

\* The client of d is to be told; the write begins, or waits for another to end.
Tell(c, d) ==
    /\ at[c] = "kick"
    /\ d \in found[c]
    /\ found' = [found EXCEPT ![c] = @ \ {d}]
    /\ told' = [told EXCEPT ![c] = {d}]
    /\ Goto(c, "tell")
    /\ UNCHANGED <<connections, open, clientVars, contextVars, parsed, unseen, historyVars>>

\* The write returns, with an error perhaps, which is only logged.
Told(c) ==
    /\ at[c] = "tell"
    /\ Goto(c, "close")
    /\ UNCHANGED <<connections, open, clientVars, contextVars, kickVars, historyVars>>

Close(c) ==
    /\ at[c] = "close"
    /\ open' = [d \in Conns |-> open[d] /\ d \notin told[c]]
    /\ told' = [told EXCEPT ![c] = {}]
    /\ Goto(c, "kick")
    /\ UNCHANGED <<connections, clientVars, contextVars, parsed, unseen, found,
                   historyVars>>

Kicked(c) ==
    /\ at[c] = "kick"
    /\ found[c] = {}
    /\ Goto(c, "name")
    /\ UNCHANGED <<connections, open, clientVars, contextVars, kickVars, historyVars>>

SetName(c) ==
    /\ at[c] = "name"
    /\ openID' = [openID EXCEPT ![c] = parsed[c]]
    /\ Goto(c, "flag")
    /\ UNCHANGED <<connections, open, clientVars, authenticated, kickVars, historyVars>>

SetFlag(c) ==
    /\ at[c] = "flag"
    /\ authenticated' = [authenticated EXCEPT ![c] = TRUE]
    /\ Goto(c, "role")
    /\ UNCHANGED <<connections, open, clientVars, openID, kickVars, historyVars>>

\* LoginRole (see RoleLogin) and the answer.
LoginRole(c) ==
    /\ at[c] = "role"
    /\ parsed' = [parsed EXCEPT ![c] = Nobody]
    /\ Goto(c, "read")
    /\ UNCHANGED <<connections, open, clientVars, contextVars, unseen, found, told,
                   historyVars>>

-----------------------------------------------------------------------------
(* Broadcast, BroadcastToAuthenticated and SendToOpenID, of any goroutine.      *)

\* The message cannot be written to the connection, which need not be closed, or it
\* cannot be marshalled.  The connection is taken out of the map; one that has left
\* since the list of connections was copied is not missed.
BroadcastFails(c) ==
    /\ c \in connections
    /\ Lockable
    /\ connections' = connections \ {c}
    /\ dropped' = IF open[c] THEN dropped \union {c} ELSE dropped
    /\ UNCHANGED <<open, clientVars, at, contextVars, kickVars, beside>>

-----------------------------------------------------------------------------
Goroutine(c) ==
    \/ Register(c) \/ ReadError(c) \/ Unregister(c)
    \/ Request(c) \/ TooLarge(c) \/ Handled(c)
    \/ \E u \in Users : Auth(c, u)
    \/ \E d \in Conns : Look(c, d) \/ Tell(c, d)
    \/ Looked(c) \/ Told(c) \/ Close(c) \/ Kicked(c) \/ SetName(c) \/ SetFlag(c) \/ LoginRole(c)

Next == \E c \in Conns : Send(c) \/ HangUp(c) \/ Goroutine(c) \/ BroadcastFails(c)

Spec == Init /\ [][Next]_vars

\* c is writing to a connection whose client may never read what it is told.
Blocked(c) == at[c] = "tell" /\ \E d \in told[c] : open[d]

\* A goroutine that can go on does, but what it reads is up to the client, and so is
\* when a write returns as long as the connection is open.
Fairness ==
    \A c \in Conns :
       WF_vars(\/ ReadError(c) \/ Unregister(c)
               \/ \E d \in Conns : Look(c, d) \/ Tell(c, d)
               \/ Looked(c) \/ Close(c) \/ Kicked(c) \/ SetName(c) \/ SetFlag(c)
               \/ ~Blocked(c) /\ Told(c)
               \/ ~open[c] /\ (Handled(c) \/ LoginRole(c)))

FairSpec == Spec /\ Fairness

-----------------------------------------------------------------------------
(* Properties.                                                              *)

TypeOK ==
    /\ connections \subseteq Conns
    /\ open \in [Conns -> BOOLEAN]
    /\ inbox \in [Conns -> 0..MaxRequests] /\ sent \in [Conns -> 0..MaxRequests]
    /\ at \in [Conns -> {"none", "read", "handle", "look", "kick", "tell", "close",
                         "name", "flag", "role", "leave", "gone"}]
    /\ authenticated \in [Conns -> BOOLEAN]
    /\ openID \in [Conns -> Users \union {Nobody}]
    /\ parsed \in [Conns -> Users \union {Nobody}]
    /\ \A c \in Conns : /\ Authenticating(c) => parsed[c] # Nobody
                        /\ at[c] = "handle" => authenticated[c] /\ openID[c] # Nobody
    /\ {unseen, found, told, beside} \subseteq [Conns -> SUBSET Conns]
    /\ dropped \subseteq Conns

\* c is up and has a user's name, and no LoginAuth of its own is under way.
LoggedInAs(c, u) == open[c] /\ ~Authenticating(c) /\ authenticated[c] /\ openID[c] = u

\* Two connections of one user stay up side by side only if their last LoginAuth
\* requests overlapped (websocket.go:80-121, 448-460), or if a failed broadcast took
\* one of them out of the map without closing it (websocket.go:161-164): otherwise
\* the later one has closed the earlier one, whoever else logs in, under another name
\* perhaps, or hangs up while it looks for connections to kick.
LaterLoginKicks ==
    \A c, d \in Conns : \A u \in Users :
       c # d /\ LoggedInAs(c, u) /\ LoggedInAs(d, u) =>
          \/ c \in beside[d] \/ d \in beside[c]
          \/ c \in dropped \/ d \in dropped

\* A connection that was closed, by its client or by a kick, leaves the map of
\* connections (websocket.go:313-333), also when it was kicked in the middle of a
\* request, unless its goroutine is kept for ever by the message to a connection that
\* it kicks: the message is written before that connection is closed, and without a
\* deadline (websocket.go:115-119, fw/def.go:37-41).
ClosedLeaves ==
    \A c \in Conns :
       \/ c \in connections /\ ~open[c] ~> c \notin connections
       \/ <>[]Blocked(c)

\* websocket.go:107 says that all connections of the user but the new one are
\* kicked: a user has one connection.
OneConnectionPerUser ==
    \A c, d \in Conns : \A u \in Users :
       LoggedInAs(c, u) /\ LoggedInAs(d, u) => c = d
=============================================================================
