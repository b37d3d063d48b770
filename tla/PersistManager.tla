--------------------------- MODULE PersistManager ---------------------------
(***************************************************************************)
(* The life cycle of PersistManager (fw/persistence/persist.go): Start,    *)
(* Stop, the run goroutine with its ticker and stop channel, and the rate  *)
(* limiting of a flush.  What a flush saves is RoleStore's subject; here a *)
(* flush has a number of objects to get through, in batches.               *)
(*                                                                         *)
(* stopChan is created once, by NewPersistManager, and closed by every     *)
(* Stop that finds the manager running.  Closing it twice panics, and a    *)
(* panic ends the process.                                                 *)
(***************************************************************************)
EXTENDS Naturals, FiniteSets

CONSTANTS Callers,    \* goroutines that call Start and Stop
          BatchSize,  \* SetRateLimit: objects per batch, 0 for no limit
          MaxPending, \* bound: registered objects
          MaxStarts   \* bound: calls of Start that find the manager stopped

ASSUME PersistManagerAssumption ==
    /\ BatchSize \in Nat
    /\ MaxPending \in Nat
    /\ MaxStarts \in Nat

Runs == 1..MaxStarts  \* the run goroutines, one per effective Start

VARIABLES
    running,  \* PersistManager.running, read and written under mu
    closed,   \* stopChan is closed
    wg,       \* counter of the WaitGroup
    pending,  \* number of registered objects
    call,     \* where each caller of Start or Stop is
    starts,   \* model only: effective calls of Start
    run,      \* where each run goroutine is
    final,    \* run: it is in its last flush
    left,     \* flush: objects still to process
    inBatch,  \* flush: processedInBatch
    urgent    \* flush: urgentMode

callVars  == <<running, closed, call, starts>>
flushVars == <<left, inBatch, urgent>>
vars == <<running, closed, wg, pending, call, starts, run, final, flushVars>>

Init ==
    /\ running = FALSE
    /\ closed = FALSE
    /\ wg = 0
    /\ pending = 0
    /\ call = [c \in Callers |-> "idle"]
    /\ starts = 0
    /\ run = [i \in Runs |-> "off"]
    /\ final = [i \in Runs |-> FALSE]
    /\ left = [i \in Runs |-> 0]
    /\ inBatch = [i \in Runs |-> 0]
    /\ urgent = [i \in Runs |-> FALSE]

\* The process is dead once a goroutine has panicked.
Alive == \A c \in Callers : call[c] # "panicked"

-----------------------------------------------------------------------------
(* AddPendingObject.                                                        *)
AddPendingObject ==
    /\ Alive
    /\ pending < MaxPending
    /\ pending' = pending + 1
    /\ UNCHANGED <<callVars, wg, run, final, flushVars>>

-----------------------------------------------------------------------------
(* Start and Stop.  A Start that finds the manager running and a Stop that  *)
(* finds it stopped return without doing anything.                          *)

StartMark(c) ==
    /\ Alive /\ call[c] \in {"idle", "stopped"}
    /\ ~running
    /\ starts < MaxStarts
    /\ running' = TRUE
    /\ starts' = starts + 1
    /\ call' = [call EXCEPT ![c] = "marked"]
    /\ UNCHANGED <<closed, wg, pending, run, final, flushVars>>

\* wg.Add(1) and the go statement, after mu has been released; run flushes at
\* once.
StartRun(c) ==
    /\ Alive /\ call[c] = "marked"
    /\ \E i \in Runs :
          /\ run[i] = "off"
          /\ \A j \in Runs : j < i => run[j] # "off"
          /\ run' = [run EXCEPT ![i] = "begin"]
    /\ wg' = wg + 1
    /\ call' = [call EXCEPT ![c] = "idle"]
    /\ UNCHANGED <<running, closed, starts, pending, final, flushVars>>

StopMark(c) ==
    /\ Alive /\ call[c] \in {"idle", "stopped"}
    /\ running
    /\ running' = FALSE
    /\ call' = [call EXCEPT ![c] = "closing"]
    /\ UNCHANGED <<closed, wg, pending, starts, run, final, flushVars>>

StopClose(c) ==
    /\ Alive /\ call[c] = "closing"
    /\ \/ /\ ~closed
          /\ closed' = TRUE
          /\ call' = [call EXCEPT ![c] = "waiting"]
       \/ /\ closed
          /\ call' = [call EXCEPT ![c] = "panicked"]
          /\ UNCHANGED closed
    /\ UNCHANGED <<running, wg, pending, starts, run, final, flushVars>>

\* Mutant of StopReturn: Stop does not wait for run.
StopReturn_NoWait(c) ==
    /\ Alive /\ call[c] = "waiting"
    /\ call' = [call EXCEPT ![c] = "stopped"]
    /\ UNCHANGED <<running, closed, starts, wg, pending, run, final, flushVars>>

StopReturn(c) ==
    /\ Alive /\ call[c] = "waiting"
    /\ wg = 0
    /\ call' = [call EXCEPT ![c] = "stopped"]
    /\ UNCHANGED <<running, closed, starts, wg, pending, run, final, flushVars>>

-----------------------------------------------------------------------------
(* run and the pacing of flush.                                             *)

\* flush takes everything that is registered.
FlushBegin(i) ==
    /\ Alive /\ run[i] = "begin"
    /\ run' = [run EXCEPT ![i] = "flush"]
    /\ left' = [left EXCEPT ![i] = pending]
    /\ pending' = 0
    /\ inBatch' = [inBatch EXCEPT ![i] = 0]
    /\ urgent' = [urgent EXCEPT ![i] = FALSE]
    /\ UNCHANGED <<callVars, wg, final>>

BatchFull(i) == BatchSize > 0 /\ inBatch[i] >= BatchSize /\ ~urgent[i]

FlushObject(i) ==
    /\ Alive /\ run[i] = "flush"
    /\ left[i] > 0 /\ ~BatchFull(i)
    /\ left' = [left EXCEPT ![i] = @ - 1]
    /\ inBatch' = [inBatch EXCEPT ![i] = @ + 1]
    /\ UNCHANGED <<callVars, wg, pending, run, final, urgent>>

\* Between two batches flush waits for the interval to pass ...
BatchTimer(i) ==
    /\ Alive /\ run[i] = "flush"
    /\ left[i] > 0 /\ BatchFull(i)
    /\ inBatch' = [inBatch EXCEPT ![i] = 0]
    /\ UNCHANGED <<callVars, wg, pending, run, final, left, urgent>>

\* Mutant of BatchStopped: the pause between batches ignores stopChan.
BatchStopped_Never(i) == FALSE

\* ... or for stopChan to be closed, after which it no longer waits.
BatchStopped(i) ==
    /\ Alive /\ run[i] = "flush"
    /\ left[i] > 0 /\ BatchFull(i)
    /\ closed
    /\ urgent' = [urgent EXCEPT ![i] = TRUE]
    /\ inBatch' = [inBatch EXCEPT ![i] = 0]
    /\ UNCHANGED <<callVars, wg, pending, run, final, left>>

\* Mutant of FlushEnd: wg.Done after every flush.
FlushEnd_AlwaysDone(i) ==
    /\ Alive /\ run[i] = "flush"
    /\ left[i] = 0
    /\ run' = [run EXCEPT ![i] = IF final[i] THEN "returned" ELSE "select"]
    /\ wg' = wg - 1
    /\ UNCHANGED <<callVars, pending, final, flushVars>>

\* The end of a flush: back to the select, or, after the last one, return
\* through the deferred wg.Done.
FlushEnd(i) ==
    /\ Alive /\ run[i] = "flush"
    /\ left[i] = 0
    /\ \/ /\ ~final[i]
          /\ run' = [run EXCEPT ![i] = "select"]
          /\ UNCHANGED wg
       \/ /\ final[i]
          /\ run' = [run EXCEPT ![i] = "returned"]
          /\ wg' = wg - 1
    /\ UNCHANGED <<callVars, pending, final, flushVars>>

Tick(i) ==
    /\ Alive /\ run[i] = "select"
    /\ run' = [run EXCEPT ![i] = "begin"]
    /\ UNCHANGED <<callVars, wg, pending, final, flushVars>>

\* Mutant of StopSeen: run returns without the last flush.
StopSeen_NoFlush(i) ==
    /\ Alive /\ run[i] = "select"
    /\ closed
    /\ final' = [final EXCEPT ![i] = TRUE]
    /\ run' = [run EXCEPT ![i] = "returned"]
    /\ wg' = wg - 1
    /\ UNCHANGED <<callVars, pending, flushVars>>

StopSeen(i) ==
    /\ Alive /\ run[i] = "select"
    /\ closed
    /\ final' = [final EXCEPT ![i] = TRUE]
    /\ run' = [run EXCEPT ![i] = "begin"]
    /\ UNCHANGED <<callVars, wg, pending, flushVars>>

-----------------------------------------------------------------------------
Caller(c) == StartMark(c) \/ StartRun(c) \/ StopMark(c) \/ StopClose(c) \/ StopReturn(c)

\* What the run goroutine does without waiting for a timer.
Prompt(i) ==
    \/ FlushBegin(i) \/ FlushObject(i) \/ BatchStopped(i) \/ FlushEnd(i)
    \/ StopSeen(i)

Next ==
    \/ AddPendingObject
    \/ \E c \in Callers : Caller(c)
    \/ \E i \in Runs : Prompt(i) \/ BatchTimer(i) \/ Tick(i)

Spec == Init /\ [][Next]_vars

\* Goroutines that can go on do.  Nothing is asked of the ticker or of the
\* interval between batches: either may be as long as one likes.  The select of
\* run, which chooses among ready cases at random, does not ignore a closed
\* stopChan for ever.
Fairness ==
    /\ \A c \in Callers : WF_vars(StartRun(c) \/ StopClose(c) \/ StopReturn(c))
    /\ \A i \in Runs :
          /\ WF_vars(Prompt(i))
          /\ SF_vars(StopSeen(i))

FairSpec == Spec /\ Fairness

-----------------------------------------------------------------------------
(* Properties.                                                              *)

TypeOK ==
    /\ running \in BOOLEAN /\ closed \in BOOLEAN
    /\ wg \in 0..MaxStarts
    /\ pending \in 0..MaxPending
    /\ call \in [Callers -> {"idle", "marked", "closing", "waiting", "stopped",
                             "panicked"}]
    /\ starts \in 0..MaxStarts
    /\ run \in [Runs -> {"off", "begin", "flush", "select", "returned"}]
    /\ final \in [Runs -> BOOLEAN]
    /\ left \in [Runs -> 0..MaxPending]
    /\ inBatch \in [Runs -> 0..MaxPending]
    /\ urgent \in [Runs -> BOOLEAN]

\* main.go:148-157 disconnects the database as soon as Stop has returned: by
\* then no goroutine flushes any more or is about to start.  (For a manager whose
\* Start and Stop one goroutine calls, as main does.)
QuietAfterStop ==
    (\E c \in Callers : call[c] = "stopped") =>
        /\ \A i \in Runs : run[i] \in {"off", "returned"}
        /\ ~running

\* Stop returns (persist.go:103-117) although it waits for a flush that may be
\* pausing between two batches (persist.go:191-203): the pause ends when
\* stopChan is closed, however long the interval.
StopReturns ==
    \A c \in Callers : call[c] = "waiting" ~> (call[c] = "stopped" \/ ~Alive)
=============================================================================
