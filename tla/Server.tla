------------------------------- MODULE Server -------------------------------
(***************************************************************************)
(* The program (main.go) around its persistence manager: the start-up in   *)
(* its order, the connections whose handlers register objects, and the     *)
(* shutdown by signal or by error.  The manager is PersistManager's.       *)
(*                                                                         *)
(* An error of main ends in os.Exit, which runs no deferred function: the  *)
(* clean-up of main.go:148 is for the return alone.  app.Shutdown closes   *)
(* the listener and waits for the HTTP requests under way, for which main  *)
(* sets no time limit (main.go:168), but not for WebSocket connections,    *)
(* whose goroutines go on until the process has gone.                      *)
(*                                                                         *)
(* Tests use the manager without the program and may start it and stop it  *)
(* again, which main does not; step is "test" then.                        *)
(***************************************************************************)
EXTENDS PersistManager

CONSTANT Main  \* the goroutine of main

ASSUME ServerAssumption == Main \in Callers

VARIABLES
    step,     \* what main does next
    mongo,    \* the client: "none" yet, "open" or "closed"
    sockets,  \* there are WebSocket connections
    requests, \* there are HTTP requests under way
    late      \* history: objects registered since Stop closed stopChan

serverVars  == <<mongo, sockets, requests, late>>
managerVars == <<callVars, wg, pending, run, final, flushVars>>
allVars     == <<vars, step, serverVars>>

Boot == {"config", "connect", "loadRoles", "loadBoard", "start", "services"}
Gone == {"saved", "error", "killed"}

ServerInit ==
    /\ Init
    /\ step \in {"config", "test"}
    /\ mongo = "none"
    /\ sockets = FALSE /\ requests = FALSE
    /\ late = 0

Process == step \notin Gone /\ Alive

-----------------------------------------------------------------------------
(* Start-up.  Each part must succeed, or the process exits.                 *)

Then(here, next) ==
    /\ Process /\ step = here
    /\ step' \in {next, "error"}
    /\ UNCHANGED <<managerVars, sockets, requests, late>>

\* The configuration and the tables.
LoadConfig == Then("config", "connect") /\ UNCHANGED mongo

\* NewMongoClientWithConf checks the configuration, connects and pings; a client
\* that does not answer is disconnected again.
ConnectMongo ==
    /\ Then("connect", "loadRoles")
    /\ mongo' = IF step' = "error" THEN "none" ELSE "open"

\* Roles' ids, then the leaderboard (rank.Manager.Init).
LoadRoles == Then("loadRoles", "loadBoard") /\ UNCHANGED mongo
LoadBoard == Then("loadBoard", "start") /\ UNCHANGED mongo

StartManager ==
    /\ Process /\ step = "start"
    /\ \/ /\ StartMark(Main)
          /\ UNCHANGED step
       \/ /\ StartRun(Main)
          /\ step' = "services"
    /\ UNCHANGED serverVars

\* NewAppServices and the handlers of the game; then the signals are caught and
\* the server listens.
StartServices == Then("services", "serve") /\ UNCHANGED mongo

-----------------------------------------------------------------------------
(* Serving.                                                                 *)

Connect ==
    /\ Process /\ step = "serve"
    /\ ~sockets
    /\ sockets' = TRUE
    /\ UNCHANGED <<managerVars, step, mongo, requests, late>>

HangUp ==
    /\ Process
    /\ sockets
    /\ sockets' = FALSE
    /\ UNCHANGED <<managerVars, step, mongo, requests, late>>

\* A client begins to send a request, and later it is answered or given up, which
\* is up to the client and, for a login, to the server of WeChat (wechat.go:38).
Request ==
    /\ Process /\ step = "serve"
    /\ ~requests
    /\ requests' = TRUE
    /\ UNCHANGED <<managerVars, step, mongo, sockets, late>>

Answered ==
    /\ Process
    /\ requests
    /\ requests' = FALSE
    /\ UNCHANGED <<managerVars, step, mongo, sockets, late>>

\* A handler has changed a role or the leaderboard.
Register ==
    /\ Process
    /\ sockets
    /\ late < MaxPending
    /\ AddPendingObject
    /\ late' = IF closed THEN late + 1 ELSE late
    /\ UNCHANGED <<step, mongo, sockets, requests>>

\* The listener fails, at once (the port is taken) or later.
ListenError ==
    /\ Process /\ step = "serve"
    /\ step' = "error"
    /\ UNCHANGED <<managerVars, serverVars>>

\* A signal: caught while main serves, fatal before.
Signal ==
    /\ Process
    /\ step \in Boot \cup {"serve"}
    /\ step' = IF step = "serve" THEN "shutdown" ELSE "killed"
    /\ UNCHANGED <<managerVars, serverVars>>

-----------------------------------------------------------------------------
(* Shutdown: app.Shutdown, then the deferred clean-up, then the process ends *)
(* with whatever its other goroutines were doing.                           *)

\* Mutant of Shutdown: the database is disconnected before the manager stops.
Shutdown_Disconnects ==
    /\ Process /\ step = "shutdown"
    /\ ~requests
    /\ step' = "stop"
    /\ mongo' = "closed"
    /\ UNCHANGED <<managerVars, sockets, requests, late>>

\* Mutant of Shutdown: it waits for WebSocket connections too.
Shutdown_WaitsForSockets ==
    /\ Process /\ step = "shutdown"
    /\ ~requests /\ ~sockets
    /\ step' = "stop"
    /\ UNCHANGED <<managerVars, serverVars>>

Shutdown ==
    /\ Process /\ step = "shutdown"
    /\ ~requests
    /\ step' = "stop"
    /\ UNCHANGED <<managerVars, serverVars>>

StopManager ==
    /\ Process /\ step = "stop"
    /\ \/ /\ StopMark(Main) \/ StopClose(Main)
          /\ UNCHANGED step
       \/ /\ StopReturn(Main)
          /\ step' = "disconnect"
    /\ UNCHANGED serverVars

DisConnect ==
    /\ Process /\ step = "disconnect"
    /\ mongo' = "closed"
    /\ step' = "return"
    /\ UNCHANGED <<managerVars, sockets, requests, late>>

Return ==
    /\ Process /\ step = "return"
    /\ step' = "saved"
    /\ UNCHANGED <<managerVars, serverVars>>

-----------------------------------------------------------------------------
MainStep ==
    \/ LoadConfig \/ ConnectMongo \/ LoadRoles \/ LoadBoard \/ StartManager
    \/ StartServices \/ Shutdown \/ StopManager \/ DisConnect \/ Return

\* The manager's own goroutines, and in tests its callers.
ManagerStep(i) == Process /\ Prompt(i) /\ UNCHANGED <<step, serverVars>>
StopSeenStep(i) == Process /\ StopSeen(i) /\ UNCHANGED <<step, serverVars>>
Timers(i) == Process /\ (BatchTimer(i) \/ Tick(i)) /\ UNCHANGED <<step, serverVars>>

TestCaller(c) == step = "test" /\ Caller(c) /\ UNCHANGED <<step, serverVars>>
TestRegister == step = "test" /\ AddPendingObject /\ UNCHANGED <<step, serverVars>>

ServerNext ==
    \/ MainStep \/ Connect \/ HangUp \/ Request \/ Answered \/ Register
    \/ ListenError \/ Signal
    \/ \E i \in Runs : ManagerStep(i) \/ Timers(i)
    \/ \E c \in Callers : TestCaller(c)
    \/ TestRegister

ServerSpec == ServerInit /\ [][ServerNext]_allVars

\* Goroutines that can go on do, main included: app.Shutdown returns once no request
\* is under way, and DisConnect has a time limit.  Nothing is asked of the requests,
\* nor, as in PersistManager, of timers.
ServerFairness ==
    /\ WF_allVars(MainStep)
    /\ \A c \in Callers : WF_allVars(step = "test" /\ UNCHANGED <<step, serverVars>>
                                     /\ (StartRun(c) \/ StopClose(c) \/ StopReturn(c)))
    /\ \A i \in Runs : WF_allVars(ManagerStep(i)) /\ SF_allVars(StopSeenStep(i))

FairServerSpec == ServerSpec /\ ServerFairness

-----------------------------------------------------------------------------
(* Properties.                                                              *)

ServerTypeOK ==
    /\ TypeOK
    /\ step \in Boot \cup {"test", "serve", "shutdown", "stop", "disconnect", "return"}
                     \cup Gone
    /\ mongo \in {"none", "open", "closed"}
    /\ sockets \in BOOLEAN /\ requests \in BOOLEAN
    /\ late \in 0..MaxPending

\* A flush always has its database (main.go:98, 145, 148-157): the client is open
\* before the first flush, which Start begins at once, and the disconnection comes
\* after the last, whatever timers, batches and handlers do in between.
FlushHasDatabase ==
    step \notin Gone \cup {"test"} /\ (\E i \in Runs : run[i] \in {"begin", "flush"})
        => mongo = "open"

\* A shutdown by signal saves all that was registered before Stop closed its
\* channel (main.go:150, persist.go:113, 138-141): what is left has been registered
\* since, by connections that outlive app.Shutdown.  A listener that fails while
\* there are connections leaves more (main.go:299-301).
ShutdownSaves ==
    step = "saved" => pending <= late /\ \A i \in Runs : left[i] = 0

\* After a signal the process ends (main.go:293-298, 148-158), though connections
\* go on registering objects and the last flush pauses for batches, unless an HTTP
\* request is never over: app.Shutdown waits for it (main.go:168, 296).
SignalEnds ==
    \/ step = "shutdown" ~> step = "saved"
    \/ <>[](step = "shutdown" /\ requests)
=============================================================================
