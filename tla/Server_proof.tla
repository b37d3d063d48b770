----------------------------- MODULE Server_proof -----------------------------
(***************************************************************************)
(* Proofs about Server, for any batch size, any number of objects and any   *)
(* number of starts, when one goroutine starts and stops the manager, as    *)
(* that of main does.                                                      *)
(***************************************************************************)
EXTENDS Server, TLAPS

Active(i) == run[i] \in {"begin", "flush", "select"}

\* What the types leave open: no batch holds more than was registered.
Shape ==
    \A i \in Runs :
        /\ left[i] + inBatch[i] <= MaxPending
        /\ run[i] # "flush" => left[i] = 0

\* There is one run goroutine at a time, and the WaitGroup counts it.  Start finds
\* none, Stop has marked the manager as stopped before it waits, and has seen the
\* goroutine off when it returns.
OneRun ==
    /\ \A i, j \in Runs : Active(i) /\ Active(j) => i = j
    /\ wg = IF \E i \in Runs : Active(i) THEN 1 ELSE 0
    /\ call[Main] = "idle" => running \/ wg = 0
    /\ call[Main] = "marked" => running /\ wg = 0
    /\ call[Main] \in {"closing", "waiting"} => ~running
    /\ call[Main] = "stopped" => ~running /\ wg = 0

\* The database is open while the manager may run.
MongoOrder ==
    /\ step \in {"config", "connect", "loadRoles", "loadBoard"} =>
          call[Main] = "idle" /\ ~running
    /\ step = "start" => call[Main] \in {"idle", "marked"} /\ (running => call[Main] = "marked")
    /\ step \in {"loadRoles", "loadBoard", "start", "services", "serve", "shutdown",
                 "stop", "disconnect"} => mongo = "open"
    /\ step \in {"disconnect", "return"} => call[Main] = "stopped"

\* A goroutine has been started, and what it has left in its last flush has been
\* registered since stopChan was closed.
LastFlush ==
    /\ step \in {"services", "serve", "shutdown", "stop", "disconnect", "return", "saved"}
          => \E i \in Runs : run[i] # "off"
    /\ step = "saved" => wg = 0
    /\ \A i \in Runs : /\ final[i] => closed
                       /\ run[i] = "returned" => final[i]
                       /\ run[i] = "off" => ~final[i]
                       /\ step # "test" /\ final[i] /\ run[i] \in {"flush", "returned"}
                             => pending <= late

IInv == ServerTypeOK /\ Shape /\ OneRun /\ MongoOrder /\ LastFlush

-----------------------------------------------------------------------------
USE PersistManagerAssumption, ServerAssumption DEF Runs

LEMMA IInvInit == ASSUME Callers = {Main} PROVE ServerInit => IInv
<1> SUFFICES ASSUME ServerInit PROVE IInv
  OBVIOUS
<1> USE DEF ServerInit, Init
<1>1. ServerTypeOK
  <2>1. running \in BOOLEAN /\ closed \in BOOLEAN /\ sockets \in BOOLEAN /\ requests \in BOOLEAN
    OBVIOUS
  <2>2. /\ wg \in 0..MaxStarts /\ starts \in 0..MaxStarts
        /\ pending \in 0..MaxPending /\ late \in 0..MaxPending
    OBVIOUS
  <2>3. /\ call \in [Callers -> {"idle", "marked", "closing", "waiting", "stopped",
                               "panicked"}]
        /\ run \in [Runs -> {"off", "begin", "flush", "select", "returned"}]
    OBVIOUS
  <2>4. final \in [Runs -> BOOLEAN] /\ urgent \in [Runs -> BOOLEAN]
    OBVIOUS
  <2>5. left \in [Runs -> 0..MaxPending] /\ inBatch \in [Runs -> 0..MaxPending]
    OBVIOUS
  <2>6. /\ step \in Boot \cup {"test", "serve", "shutdown", "stop", "disconnect", "return"}
                        \cup Gone
        /\ mongo \in {"none", "open", "closed"}
    BY DEF Boot, Gone
  <2> QED
    BY <2>1, <2>2, <2>3, <2>4, <2>5, <2>6 DEF ServerTypeOK, TypeOK
<1>2. Shape
  BY DEF Shape
<1>3. OneRun
  BY DEF OneRun, Active
<1>4. MongoOrder /\ LastFlush
  BY DEF MongoOrder, LastFlush
<1> QED
  BY <1>1, <1>2, <1>3, <1>4 DEF IInv

\* The actions of the manager, and what they keep whatever main is doing.
LEMMA FlushKeeps ==
  ASSUME Callers = {Main}, IInv, NEW i \in Runs,
         FlushBegin(i) \/ FlushObject(i) \/ BatchStopped(i) \/ BatchTimer(i)
           \/ Tick(i) \/ StopSeen(i) \/ FlushEnd(i)
  PROVE  TypeOK' /\ Shape' /\ OneRun'
<1> USE DEF IInv, ServerTypeOK, TypeOK, callVars, flushVars
<1>0. wg = 1 /\ (\A j \in Runs : Active(j) => j = i) /\ Active(i)
  BY DEF OneRun, Active, FlushBegin, FlushObject, BatchStopped, BatchTimer, Tick,
         StopSeen, FlushEnd
<1>1. CASE FlushBegin(i)
  <2>1. TypeOK' /\ Shape'
    BY <1>1 DEF FlushBegin, Shape
  <2>2. OneRun'
    BY <1>0, <1>1 DEF FlushBegin, OneRun, Active
  <2> QED
    BY <2>1, <2>2
<1>2. CASE FlushObject(i)
  <2>1. TypeOK' /\ Shape'
    BY SMTT(20), <1>2 DEF FlushObject, Shape
  <2>2. OneRun'
    BY <1>0, <1>2 DEF FlushObject, OneRun, Active
  <2> QED
    BY <2>1, <2>2
<1>3. CASE BatchStopped(i) \/ BatchTimer(i)
  <2>1. UNCHANGED <<callVars, wg, pending, run, final, left>>
    BY <1>3 DEF BatchStopped, BatchTimer
  <2>2. inBatch' = [inBatch EXCEPT ![i] = 0]
    BY <1>3 DEF BatchStopped, BatchTimer
  <2>3. urgent' \in [Runs -> BOOLEAN]
    BY <1>3 DEF BatchStopped, BatchTimer
  <2>4. TypeOK' /\ Shape'
    BY <2>1, <2>2, <2>3 DEF Shape
  <2>5. OneRun'
    BY <2>1 DEF OneRun, Active
  <2> QED
    BY <2>4, <2>5
<1>4. CASE Tick(i) \/ StopSeen(i)
  <2>1. UNCHANGED <<callVars, wg, pending, flushVars>>
    BY <1>4 DEF Tick, StopSeen
  <2>2. run' = [run EXCEPT ![i] = "begin"] /\ run[i] # "flush"
    BY <1>4 DEF Tick, StopSeen
  <2>3. final' \in [Runs -> BOOLEAN]
    BY <1>4 DEF Tick, StopSeen
  <2>4. TypeOK' /\ Shape'
    BY <2>1, <2>2, <2>3 DEF Shape
  <2>5. \A j \in Runs : Active(j)' <=> Active(j)
    BY <1>0, <2>2 DEF Active
  <2>6. OneRun'
    BY <2>1, <2>5 DEF OneRun
  <2> QED
    BY <2>4, <2>6
<1>5. CASE FlushEnd(i)
  <2>1. TypeOK' /\ Shape'
    <3>1. UNCHANGED <<callVars, pending, final, flushVars>>
      BY <1>5 DEF FlushEnd
    <3>2. /\ run' \in [Runs -> {"off", "begin", "flush", "select", "returned"}]
          /\ \A j \in Runs : j # i => run'[j] = run[j]
      BY <1>5 DEF FlushEnd
    <3>3. wg' \in 0..MaxStarts
      BY <1>0, <1>5 DEF FlushEnd
    <3>4. left[i] = 0
      BY <1>5 DEF FlushEnd
    <3>5. TypeOK'
      BY <3>1, <3>2, <3>3
    <3>6. Shape'
      BY <3>1, <3>2, <3>4 DEF Shape
    <3> QED
      BY <3>5, <3>6
  <2>2. OneRun'
    <3>1. CASE ~final[i]
      <4>1. run' = [run EXCEPT ![i] = "select"] /\ UNCHANGED <<callVars, wg>>
        BY <1>5, <3>1 DEF FlushEnd
      <4>2. \A j \in Runs : Active(j)' <=> Active(j)
        BY <1>0, <4>1 DEF Active
      <4> QED
        BY <4>1, <4>2 DEF OneRun
    <3>2. CASE final[i]
      <4>1. \A j \in Runs : ~Active(j)'
        BY <1>0, <1>5, <3>2 DEF FlushEnd, Active
      <4>2. wg' = 0
        BY <1>0, <1>5, <3>2 DEF FlushEnd
      <4> QED
        BY <1>5, <4>1, <4>2 DEF FlushEnd, OneRun
    <3> QED
      BY <3>1, <3>2
  <2> QED
    BY <2>1, <2>2
<1> QED
  BY <1>1, <1>2, <1>3, <1>4, <1>5

LEMMA CallerKeeps ==
  ASSUME Callers = {Main}, IInv, Caller(Main)
  PROVE  TypeOK' /\ Shape' /\ OneRun'
<1> USE DEF IInv, ServerTypeOK, TypeOK, callVars, flushVars
<1>1. CASE StartMark(Main) \/ StopMark(Main) \/ StopClose(Main)
  <2>1. UNCHANGED <<wg, pending, run, final, flushVars>>
    BY <1>1 DEF StartMark, StopMark, StopClose
  <2>2. UNCHANGED <<starts, left, inBatch, urgent>> \/ starts' \in 0..MaxStarts
    BY <1>1 DEF StartMark, StopMark, StopClose
  <2>3. /\ running' \in BOOLEAN /\ closed' \in BOOLEAN
        /\ call' \in [Callers -> {"idle", "marked", "closing", "waiting", "stopped",
                                 "panicked"}]
    BY <1>1 DEF StartMark, StopMark, StopClose
  <2>4. TypeOK' /\ Shape'
    BY <2>1, <2>2, <2>3 DEF Shape
  <2>5. \/ call'[Main] = "marked" /\ running' /\ wg = 0
        \/ call'[Main] = "closing" /\ ~running'
        \/ call'[Main] \in {"waiting", "panicked"} /\ ~running'
    BY <1>1 DEF StartMark, StopMark, StopClose, OneRun
  <2>6. OneRun'
    BY <2>1, <2>5 DEF OneRun, Active
  <2> QED
    BY <2>4, <2>6
<1>2. CASE StopReturn(Main)
  <2>1. TypeOK' /\ Shape'
    BY <1>2 DEF StopReturn, Shape
  <2>2. OneRun'
    BY <1>2 DEF StopReturn, OneRun, Active
  <2> QED
    BY <2>1, <2>2
<1>3. CASE StartRun(Main)
  <2>1. PICK i \in Runs : run[i] = "off" /\ run' = [run EXCEPT ![i] = "begin"]
    BY <1>3 DEF StartRun
  <2>2. wg = 0 /\ running /\ \A j \in Runs : ~Active(j)
    BY <1>3 DEF StartRun, OneRun
  <2>3. TypeOK' /\ Shape'
    BY SMTT(20), <1>3, <2>1, <2>2 DEF StartRun, Shape
  <2>4. \A j \in Runs : Active(j)' <=> j = i
    BY <2>1, <2>2 DEF Active
  <2>5. wg' = 1
    BY <1>3, <2>2 DEF StartRun
  <2>6. call'[Main] = "idle" /\ running'
    BY <1>3, <2>2 DEF StartRun
  <2>7. OneRun'
    BY <2>4, <2>5, <2>6 DEF OneRun
  <2> QED
    BY <2>3, <2>7
<1> QED
  BY <1>1, <1>2, <1>3 DEF Caller

LEMMA IInvStep == ASSUME Callers = {Main} PROVE IInv /\ [ServerNext]_allVars => IInv'
<1> SUFFICES ASSUME IInv, [ServerNext]_allVars PROVE IInv'
  OBVIOUS
<1> USE DEF Boot, Gone
<1> DEFINE Rest == UNCHANGED managerVars
<1>0. ASSUME Rest
      PROVE  TypeOK' /\ Shape' /\ OneRun'
  BY <1>0 DEF managerVars, callVars, flushVars, IInv, ServerTypeOK, TypeOK, Shape,
     OneRun, Active
<1>1. CASE LoadConfig \/ ConnectMongo \/ LoadRoles \/ LoadBoard \/ StartServices
  <2>1. Rest /\ UNCHANGED <<sockets, requests, late>>
    BY <1>1 DEF LoadConfig, ConnectMongo, LoadRoles, LoadBoard, StartServices, Then
  <2>2. ServerTypeOK'
    BY <1>0, <1>1, <2>1 DEF IInv, ServerTypeOK, LoadConfig, ConnectMongo, LoadRoles,
       LoadBoard, StartServices, Then
  <2>3. MongoOrder'
    BY <1>1, <2>1 DEF IInv, MongoOrder, LoadConfig, ConnectMongo, LoadRoles,
       LoadBoard, StartServices, Then, managerVars, callVars
  <2>4. LastFlush'
    BY <1>1, <2>1 DEF IInv, LastFlush, LoadConfig, ConnectMongo, LoadRoles,
       LoadBoard, StartServices, Then, managerVars, callVars
  <2> QED
    BY <1>0, <2>1, <2>2, <2>3, <2>4 DEF IInv
<1>2. CASE Shutdown \/ DisConnect \/ Return
  <2>1. Rest /\ UNCHANGED <<sockets, requests, late>>
    BY <1>2 DEF Shutdown, DisConnect, Return, serverVars
  <2>2. ServerTypeOK'
    BY <1>0, <1>2, <2>1 DEF IInv, ServerTypeOK, Shutdown, DisConnect, Return, serverVars
  <2>3. MongoOrder'
    BY <1>2, <2>1 DEF IInv, MongoOrder, Shutdown, DisConnect, Return, serverVars,
       managerVars, callVars
  <2>4. LastFlush'
    BY <1>2, <2>1 DEF IInv, MongoOrder, OneRun, LastFlush, Shutdown, DisConnect, Return,
       serverVars, managerVars, callVars
  <2> QED
    BY <1>0, <2>1, <2>2, <2>3, <2>4 DEF IInv
<1>3. CASE Connect \/ HangUp \/ Request \/ Answered \/ ListenError \/ Signal
  <2>1. Rest /\ UNCHANGED <<mongo, late>>
    BY <1>3 DEF Connect, HangUp, Request, Answered, ListenError, Signal, serverVars
  <2>2. ServerTypeOK'
    BY <1>0, <1>3, <2>1 DEF IInv, ServerTypeOK, Connect, HangUp, Request, Answered,
       ListenError, Signal, serverVars
  <2>3. MongoOrder'
    BY <1>3, <2>1 DEF IInv, MongoOrder, Connect, HangUp, Request, Answered,
       ListenError, Signal, serverVars, managerVars, callVars
  <2>4. LastFlush'
    BY <1>3, <2>1 DEF IInv, LastFlush, Connect, HangUp, Request, Answered,
       ListenError, Signal, serverVars, managerVars, callVars
  <2> QED
    BY <1>0, <2>1, <2>2, <2>3, <2>4 DEF IInv
<1>4. CASE Register \/ TestRegister
  <2>0. /\ AddPendingObject
        /\ UNCHANGED <<step, mongo, sockets, requests>>
        /\ late' \in 0..MaxPending
    BY <1>4 DEF Register, TestRegister, serverVars, IInv, ServerTypeOK
  <2>1. TypeOK' /\ Shape' /\ OneRun'
    BY SMTT(20), <2>0 DEF AddPendingObject, callVars, flushVars, IInv,
       ServerTypeOK, TypeOK, Shape, OneRun, Active
  <2>2. ServerTypeOK'
    BY <2>0, <2>1 DEF IInv, ServerTypeOK
  <2>3. MongoOrder'
    BY <1>4 DEF IInv, MongoOrder, Register, TestRegister, serverVars, AddPendingObject,
       callVars
  <2>4. LastFlush'
    BY SMTT(20), <1>4 DEF IInv, ServerTypeOK, TypeOK, LastFlush, Register, TestRegister, serverVars,
       AddPendingObject, callVars, Process
  <2> QED
    BY <2>1, <2>2, <2>3, <2>4 DEF IInv
<1>5. CASE StartManager \/ StopManager
  <2>1. Caller(Main)
    BY <1>5 DEF StartManager, StopManager, Caller
  <2>2. TypeOK' /\ Shape' /\ OneRun'
    BY <2>1, CallerKeeps
  <2>3. ServerTypeOK'
    BY <1>5, <2>2 DEF IInv, ServerTypeOK, StartManager, StopManager, serverVars
  <2>4. MongoOrder'
    BY <1>5 DEF IInv, ServerTypeOK, TypeOK, MongoOrder, StartManager, StopManager,
       serverVars, StartMark, StartRun, StopMark, StopClose, StopReturn
  <2>5. LastFlush'
    <3>1. CASE StartManager /\ StartMark(Main) /\ UNCHANGED step
      <4>1. UNCHANGED <<closed, wg, pending, run, final, late, step>>
        BY <3>1 DEF StartManager, StartMark, serverVars
      <4> QED
        BY <4>1 DEF IInv, LastFlush
    <3>2. CASE StartManager /\ StartRun(Main)
      BY <3>2 DEF IInv, ServerTypeOK, TypeOK, LastFlush, StartManager, StartRun, StartMark,
         flushVars, serverVars
    <3>3. CASE StopManager
      BY <3>3 DEF IInv, LastFlush, StopManager, StopMark, StopClose, StopReturn,
         serverVars
    <3> QED
      BY <1>5, <3>1, <3>2, <3>3 DEF StartManager
  <2> QED
    BY <2>2, <2>3, <2>4, <2>5 DEF IInv
<1>6. ASSUME NEW c \in Callers, TestCaller(c)
      PROVE  IInv'
  <2>1. Caller(Main) /\ step = "test"
    BY <1>6 DEF TestCaller
  <2>2. TypeOK' /\ Shape' /\ OneRun'
    BY <2>1, CallerKeeps
  <2>3. ServerTypeOK' /\ MongoOrder'
    BY <1>6, <2>1, <2>2 DEF IInv, ServerTypeOK, MongoOrder, TestCaller, serverVars
  <2>4. LastFlush'
    <3>1. closed => closed'
      BY <2>1 DEF Caller, StartMark, StartRun, StopMark, StopClose, StopReturn
    <3>2. final' = final /\ pending' = pending
      BY <2>1 DEF Caller, StartMark, StartRun, StopMark, StopClose, StopReturn
    <3>3. \A i \in Runs : run'[i] = run[i] \/ (run[i] = "off" /\ run'[i] = "begin")
      BY <2>1 DEF Caller, StartMark, StartRun, StopMark, StopClose, StopReturn, IInv,
         ServerTypeOK, TypeOK
    <3> QED
      BY <1>6, <2>1, <3>1, <3>2, <3>3 DEF IInv, LastFlush, TestCaller, serverVars
  <2> QED
    BY <2>2, <2>3, <2>4 DEF IInv
<1>7. ASSUME NEW i \in Runs, ManagerStep(i) \/ Timers(i)
      PROVE  IInv'
  <2>1. FlushBegin(i) \/ FlushObject(i) \/ BatchStopped(i) \/ BatchTimer(i)
           \/ Tick(i) \/ StopSeen(i) \/ FlushEnd(i)
    BY <1>7 DEF ManagerStep, Timers, Prompt
  <2>2. TypeOK' /\ Shape' /\ OneRun'
    BY <2>1, FlushKeeps
  <2>3. UNCHANGED <<step, serverVars, callVars>> /\ Process
    BY <1>7, <2>1 DEF ManagerStep, Timers, FlushBegin, FlushObject, BatchStopped,
       BatchTimer, Tick, StopSeen, FlushEnd
  <2>4. ServerTypeOK' /\ MongoOrder'
    BY <2>2, <2>3 DEF IInv, ServerTypeOK, MongoOrder, serverVars, callVars
  <2>5. LastFlush'
    <3> USE DEF IInv, ServerTypeOK, TypeOK
    <3>1. CASE FlushBegin(i)
      BY <3>1, <2>3 DEF FlushBegin, LastFlush, Process, serverVars, callVars
    <3>2. CASE FlushObject(i) \/ BatchStopped(i) \/ BatchTimer(i)
      BY SMTT(20), <3>2, <2>3 DEF FlushObject, BatchStopped, BatchTimer, LastFlush, Process,
         serverVars, callVars
    <3>3. CASE Tick(i) \/ StopSeen(i)
      <4>1. /\ UNCHANGED <<pending, closed, late, step, wg>>
            /\ run[i] = "select" /\ run' = [run EXCEPT ![i] = "begin"]
        BY <3>3, <2>3 DEF Tick, StopSeen, serverVars, callVars
      <4>2. \A j \in Runs : j # i => run'[j] = run[j] /\ final'[j] = final[j]
        BY <3>3, <4>1 DEF Tick, StopSeen
      <4>3. run'[i] = "begin" /\ (final'[i] => closed)
        BY <3>3, <4>1 DEF Tick, StopSeen, LastFlush
      <4> QED
        BY <4>1, <4>2, <4>3 DEF LastFlush
    <3>4. CASE FlushEnd(i)
      <4>1. UNCHANGED <<pending, final, closed, late, step>>
        BY <3>4, <2>3 DEF FlushEnd, serverVars, callVars
      <4>2. \A j \in Runs : \/ run'[j] = run[j]
                            \/ run[j] = "flush" /\ ~final[j] /\ run'[j] = "select"
                            \/ run[j] = "flush" /\ final[j] /\ run'[j] = "returned"
        BY <3>4 DEF FlushEnd
      <4> QED
        BY <2>3, <4>1, <4>2 DEF LastFlush, Process
    <3> QED
      BY <2>1, <3>1, <3>2, <3>3, <3>4
  <2> QED
    BY <2>2, <2>4, <2>5 DEF IInv
<1>8. CASE UNCHANGED allVars
  BY <1>8 DEF allVars, vars, callVars, flushVars, serverVars, IInv, ServerTypeOK, TypeOK,
     Shape, OneRun, Active, MongoOrder, LastFlush
<1> QED
  BY <1>1, <1>2, <1>3, <1>4, <1>5, <1>6, <1>7, <1>8 DEF ServerNext, MainStep

LEMMA Invariance == ASSUME Callers = {Main} PROVE ServerSpec => []IInv
<1>1. ServerInit => IInv
  BY IInvInit
<1>2. IInv /\ [ServerNext]_allVars => IInv'
  BY IInvStep
<1> QED
  BY <1>1, <1>2, PTL DEF ServerSpec

-----------------------------------------------------------------------------
\* The program uses its manager as PersistManager describes (persist.go:77-117,
\* main.go:105-150): each of its steps is a step of the manager or leaves it alone.
LEMMA UsesManager == ServerSpec => Spec
<1>1. ServerInit => Init
  BY DEF ServerInit
<1>2. [ServerNext]_allVars => [Next]_vars
  <2> SUFFICES ASSUME [ServerNext]_allVars PROVE Next \/ UNCHANGED vars
    OBVIOUS
  <2>1. ASSUME UNCHANGED managerVars
        PROVE  UNCHANGED vars
    BY <2>1 DEF managerVars, vars, callVars
  <2>2. CASE UNCHANGED allVars
    BY <2>2 DEF allVars
  <2>3. CASE Register \/ TestRegister
    BY <2>3 DEF Register, TestRegister, Next
  <2>4. CASE StartManager \/ StopManager
    BY <2>4 DEF StartManager, StopManager, Caller, Next
  <2>5. ASSUME NEW c \in Callers, TestCaller(c)
        PROVE  Next
    BY <2>5 DEF TestCaller, Next
  <2>6. ASSUME NEW i \in Runs, ManagerStep(i) \/ Timers(i)
        PROVE  Next
    BY <2>6 DEF ManagerStep, Timers, Next
  <2>7. CASE LoadConfig \/ ConnectMongo \/ LoadRoles \/ LoadBoard \/ StartServices
               \/ Shutdown \/ DisConnect \/ Return \/ Connect \/ HangUp
               \/ Request \/ Answered \/ ListenError \/ Signal
    <3>1. UNCHANGED managerVars
      BY <2>7 DEF LoadConfig, ConnectMongo, LoadRoles, LoadBoard, StartServices, Then,
         Shutdown, DisConnect, Return, Connect, HangUp, Request, Answered,
         ListenError, Signal
    <3> QED
      BY <3>1, <2>1
  <2> QED
    BY <2>2, <2>3, <2>4, <2>5, <2>6, <2>7 DEF ServerNext, MainStep
<1> QED
  BY <1>1, <1>2, PTL DEF ServerSpec, Spec

\* The state of the program and of its manager is well typed: the WaitGroup stays
\* within the number of starts and a batch within what was registered
\* (persist.go:86-117, 144-217).
THEOREM TypeCorrect == ASSUME Callers = {Main} PROVE ServerSpec => []ServerTypeOK
<1>1. IInv => ServerTypeOK
  BY DEF IInv
<1> QED
  BY <1>1, Invariance, PTL

\* After Stop has returned no goroutine of the manager flushes or is about to start
\* (persist.go:103-117; main.go:148-157 disconnects then), for any number of starts
\* and stops one after another.
THEOREM StopIsQuiet == ASSUME Callers = {Main} PROVE ServerSpec => []QuietAfterStop
<1>1. ASSUME Callers = {Main} PROVE IInv => QuietAfterStop
  <2> SUFFICES ASSUME IInv, call[Main] = "stopped"
               PROVE  ~running /\ \A i \in Runs : run[i] \in {"off", "returned"}
    BY <1>1 DEF QuietAfterStop
  <2>1. ~running /\ \A i \in Runs : ~Active(i)
    BY DEF IInv, OneRun
  <2> QED
    BY <2>1 DEF Active, IInv, ServerTypeOK, TypeOK
<1> QED
  BY <1>1, Invariance, PTL

\* The database is open during every flush (main.go:86-103, 144-157).
THEOREM FlushesHaveDatabase == ASSUME Callers = {Main} PROVE ServerSpec => []FlushHasDatabase
<1>1. IInv => FlushHasDatabase
  <2> SUFFICES ASSUME IInv, step \notin Gone \cup {"test"},
                      NEW i \in Runs, run[i] \in {"begin", "flush"}
               PROVE  mongo = "open"
    BY DEF FlushHasDatabase
  <2>1. wg = 1
    BY DEF IInv, OneRun, Active
  <2> QED
    BY <2>1 DEF IInv, ServerTypeOK, OneRun, MongoOrder, Boot, Gone
<1> QED
  BY <1>1, Invariance, PTL

\* What was registered before Stop closed stopChan is saved when a shutdown by signal
\* ends the process (main.go:148-158, persist.go:138-141).
THEOREM ShutdownIsSaved == ASSUME Callers = {Main} PROVE ServerSpec => []ShutdownSaves
<1>1. IInv => ShutdownSaves
  <2> SUFFICES ASSUME IInv, step = "saved"
               PROVE  pending <= late /\ \A i \in Runs : left[i] = 0
    BY DEF ShutdownSaves
  <2>1. \A i \in Runs : run[i] \in {"off", "returned"}
    BY DEF IInv, LastFlush, OneRun, Active, ServerTypeOK, TypeOK
  <2>2. PICK i \in Runs : run[i] = "returned"
    BY <2>1 DEF IInv, LastFlush
  <2> QED
    BY <2>1, <2>2 DEF IInv, Shape, LastFlush
<1> QED
  BY <1>1, Invariance, PTL
===============================================================================
