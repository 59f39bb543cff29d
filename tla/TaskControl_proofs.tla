------------------------ MODULE TaskControl_proofs ------------------------
(***************************************************************************)
(* Theorems about TaskControl for every set of workers and handlers and    *)
(* every bound on calls and steps.                                         *)
(***************************************************************************)
EXTENDS TaskControl, TLAPS

Flags == [pause: BOOLEAN, cancel: BOOLEAN, stop: BOOLEAN,
          override: BOOLEAN, forTask: BOOLEAN]

Reading == {"cancel", "stop", "pause", "clear", "work", "call", "repair", "recall"}

\* clear_transient_flags yields flags.
LEMMA ClearTransientType ==
  ASSUME flags \in Flags PROVE ClearTransient(flags) \in Flags
BY DEF Flags, ClearTransient

\* A request yields flags.
LEMMA ApplyType ==
  ASSUME flags \in Flags, NEW a \in {"pause", "resume", "cancel", "stop"}
  PROVE  Apply(flags, a) \in Flags
BY DEF Flags, Apply

\* Erasing keeps the ledger of requests a ledger of requests.
LEMMA EraseType ==
  ASSUME due \in [Runners -> SUBSET Request], Erase
  PROVE  due' \in [Runners -> SUBSET Request]
BY DEF Erase

\* Entering a stage keeps the workers' positions typed.
LEMMA EnterType ==
  ASSUME at \in [Runners -> Stage], rd \in [Runners -> Reading],
         NEW r \in Runners, NEW s \in Stage, NEW w \in Reading, Enter(r, s, w)
  PROVE  at' \in [Runners -> Stage] /\ rd' \in [Runners -> Reading]
BY DEF Enter

\* So does ending a run.
LEMMA EndType ==
  ASSUME TypeOK, NEW r \in Runners, NEW c \in RunStatus, End(r, c)
  PROVE  /\ at' \in [Runners -> Stage] /\ rd' \in [Runners -> Reading]
         /\ ctx' \in [Runners -> RunStatus]
         /\ due' \in [Runners -> SUBSET Request]
         /\ steps' \in [Runners -> 0 .. MaxSteps]
<1>1. at \in [Runners -> Stage] /\ rd \in [Runners -> Reading]
  BY DEF TypeOK, Reading
<1>2. "settle" \in Stage /\ "work" \in Reading
  BY DEF Stage, Reading
<1>3. at' \in [Runners -> Stage] /\ rd' \in [Runners -> Reading]
  BY <1>1, <1>2, EnterType DEF End
<1>4. QED BY <1>3 DEF TypeOK, End

\* Every step keeps the types.
LEMMA TypeStep == TypeOK /\ [Next]_vars => TypeOK'
<1> SUFFICES ASSUME TypeOK, [Next]_vars PROVE TypeOK'
  OBVIOUS
<1>0. flags \in Flags /\ rd \in [Runners -> Reading]
  BY DEF TypeOK, Flags, Reading
<1>1. ASSUME NEW h \in Handlers, HandlerAction(h) PROVE TypeOK'
  <2> USE DEF Go, workerVars, handlerVars, shared, history
  <2>1. ASSUME NEW a \in {"pause", "resume", "cancel", "stop"},
               NEW s \in HandlerStep, RequestFlag(h, a, s),
               calls' \in 0 .. MaxCalls
        PROVE TypeOK'
    <3>1. flags' \in Flags
      BY <2>1, <1>0, ApplyType DEF RequestFlag
    <3>2. due' \in [Runners -> SUBSET Request]
      BY <2>1 DEF RequestFlag, Owe, TypeOK
    <3>3. QED BY <2>1, <3>1, <3>2 DEF RequestFlag, TypeOK, Flags
  <2>2. ASSUME NEW step, NEW new \in TaskStatus, NEW s \in HandlerStep,
               Mark(h, step, new, s)
        PROVE TypeOK'
    BY <2>2 DEF Mark, TypeOK
  <2>3. ASSUME NEW s, Entering(h, s) PROVE calls' \in 0 .. MaxCalls
    BY <2>3, ConstantsAssumption DEF Entering, TypeOK
  <2>4. CASE PauseRequest(h)
    BY <2>4, <2>1, <2>3 DEF PauseRequest, HandlerStep
  <2>5. CASE PauseMark(h)
    BY <2>5, <2>2 DEF PauseMark, HandlerStep, TaskStatus, RunStatus
  <2>6. CASE ResumeRequest(h)
    BY <2>6, <2>1, <2>3 DEF ResumeRequest, HandlerStep
  <2>7. CASE ResumeMark(h)
    BY <2>7, <2>2 DEF ResumeMark, HandlerStep, TaskStatus, RunStatus
  <2>8. CASE Spawn(h)
    <3>1. PICK r \in Runners :
            /\ at'    = [at EXCEPT ![r] = "init"]
            /\ rd'    = [rd EXCEPT ![r] = "work"]
            /\ ctx'   = [ctx EXCEPT ![r] = "none"]
            /\ steps' = [steps EXCEPT ![r] = 0]
            /\ due'   = [due EXCEPT ![r] = {a \in Request : flags[a]}]
            /\ announced' = [announced EXCEPT ![r] = "none"]
      BY <2>8 DEF Spawn
    <3>2. at' \in [Runners -> Stage] /\ ctx' \in [Runners -> RunStatus]
      BY <3>1 DEF TypeOK, Stage, RunStatus
    <3>3. rd' \in [Runners -> Reading] /\ due' \in [Runners -> SUBSET Request]
      BY <3>1 DEF TypeOK, Reading
    <3>4. steps' \in [Runners -> 0 .. MaxSteps]
      BY <3>1, ConstantsAssumption DEF TypeOK
    <3>5. QED BY <2>8, <3>1, <3>2, <3>3, <3>4 DEF Spawn, TypeOK, Reading, HandlerStep
  <2>9. CASE CancelRequest(h)
    BY <2>9, <2>1, <2>3 DEF CancelRequest, HandlerStep
  <2>10. CASE CancelMark(h)
    BY <2>10, <2>2 DEF CancelMark, HandlerStep, TaskStatus, RunStatus
  <2>11. CASE StopRead(h)
    BY <2>11, <2>3 DEF StopRead, HandlerStep, TypeOK
  <2>12. CASE StopRequest(h)
    BY <2>12, <2>1 DEF StopRequest, HandlerStep, TypeOK
  <2>13. CASE StopMark(h)
    BY <2>13 DEF StopMark, TypeOK, HandlerStep, TaskStatus, RunStatus
  <2>14. CASE PartialWrite(h)
    BY <2>14 DEF PartialWrite, TypeOK, HandlerStep
  <2>15. CASE PartialClear(h)
    <3>1. Erase BY <2>15 DEF PartialClear
    <3>2. due' \in [Runners -> SUBSET Request]
      BY <3>1, EraseType DEF TypeOK
    <3>3. flags' \in Flags
      BY <2>15, <1>0, ClearTransientType DEF PartialClear
    <3>4. QED BY <2>15, <3>2, <3>3 DEF PartialClear, TypeOK, Flags, HandlerStep
  <2>16. CASE PartialMark(h)
    BY <2>16, <2>2 DEF PartialMark, HandlerStep, TaskStatus, RunStatus
  <2>17. ASSUME NEW kind \in {"llm_budget", "llm_timeout"}, Decide(h, kind)
         PROVE TypeOK'
    <3>1. PICK s \in Answer(kind) : Go(h, s)
      BY <2>17 DEF Decide
    <3>2. s \in HandlerStep
      BY <2>17, <3>1 DEF Answer, HandlerStep
    <3>3. calls' \in 0 .. MaxCalls
      BY <2>17, ConstantsAssumption DEF Decide, TypeOK
    <3>4. QED BY <2>17, <3>1, <3>2, <3>3 DEF Decide, TypeOK
  <2>18. CASE Grant(h)
    BY <2>18 DEF Grant, TypeOK, HandlerStep
  <2>19. CASE RestartMark(h)
    BY <2>19, <2>2 DEF RestartMark, HandlerStep, TaskStatus, RunStatus
  <2>20. QED
    BY <1>1, <2>4, <2>5, <2>6, <2>7, <2>8, <2>9, <2>10, <2>11, <2>12, <2>13,
       <2>14, <2>15, <2>16, <2>17, <2>18, <2>19 DEF HandlerAction
<1>2. ASSUME NEW r \in Runners, WorkerAction(r) PROVE TypeOK'
  <2> USE DEF workerVars, handlerVars, shared, history
  <2>1. \A c \in RunStatus : End(r, c) =>
          /\ at' \in [Runners -> Stage] /\ rd' \in [Runners -> Reading]
          /\ ctx' \in [Runners -> RunStatus]
          /\ due' \in [Runners -> SUBSET Request]
          /\ steps' \in [Runners -> 0 .. MaxSteps]
    BY EndType
  <2>2. \A s \in Stage, w \in Reading : Enter(r, s, w) =>
          at' \in [Runners -> Stage] /\ rd' \in [Runners -> Reading]
    BY <1>0, EnterType DEF TypeOK
  <2>3. \A c \in {"paused", "canceled"} : Interrupt(r, c) =>
          /\ at' \in [Runners -> Stage] /\ rd' \in [Runners -> Reading]
          /\ ctx' \in [Runners -> RunStatus]
          /\ due' \in [Runners -> SUBSET Request]
          /\ steps' \in [Runners -> 0 .. MaxSteps]
          /\ announced' \in [Runners -> {"none", "paused", "canceled", "succeeded_partial"}]
    BY <2>1 DEF Interrupt, RunStatus, TypeOK
  <2>4. CASE InitTask(r)
    <3>1. Enter(r, "prompt", "cancel") BY <2>4 DEF InitTask
    <3>2. at' \in [Runners -> Stage] /\ rd' \in [Runners -> Reading]
      BY <3>1, <2>2 DEF Stage, CheckedStage, Reading
    <3>3. QED BY <2>4, <3>2 DEF InitTask, TypeOK, RunStatus, Reading
  <2>5. CASE InitTaskFails(r)
    BY <2>5, <2>1 DEF InitTaskFails, TypeOK, RunStatus, Reading
  <2>6. CASE ReadCancel(r)
    BY <2>6, <2>3 DEF ReadCancel, TypeOK, Reading
  <2>7. CASE ReadStop(r)
    BY <2>7 DEF ReadStop, TypeOK
  <2>8. CASE ClearAfterStop(r)
    <3>1. Erase /\ Enter(r, "settle", "work")
      BY <2>8 DEF ClearAfterStop
    <3>2. due' \in [Runners -> SUBSET Request]
      BY <3>1, EraseType DEF TypeOK
    <3>3. flags' \in Flags
      BY <2>8, <1>0, ClearTransientType DEF ClearAfterStop
    <3>4. at' \in [Runners -> Stage] /\ rd' \in [Runners -> Reading]
      BY <3>1, <2>2 DEF Stage, Reading
    <3>5. ctx' \in [Runners -> RunStatus]
      BY <2>8 DEF ClearAfterStop, TypeOK, RunStatus
    <3>6. QED BY <2>8, <3>2, <3>3, <3>4, <3>5 DEF ClearAfterStop, TypeOK, Flags, Reading
  <2>9. CASE ReadPause(r)
    BY <2>9, <2>3 DEF ReadPause, TypeOK, Reading
  <2>10. CASE Advance(r)
    <3>1. PICK s \in Following(r) : Enter(r, s, "cancel")
      BY <2>10 DEF Advance
    <3>2. s \in Stage
      BY <2>10, <3>1 DEF Advance, Following, Stage, CheckedStage
    <3>3. at' \in [Runners -> Stage] /\ rd' \in [Runners -> Reading]
      BY <3>1, <3>2, <2>2 DEF Reading
    <3>4. QED BY <2>10, <3>3 DEF Advance, TypeOK, Reading
  <2>11. CASE Gate(r)
    <3>1. PICK d \in Decisions : Gate(r)!2!(d)
      BY <2>11 DEF Gate, AskStage
    <3>2. CASE Gate(r)!2!(d)!2!1
      BY <2>11, <2>1, <3>2 DEF Gate, AskStage, TypeOK, RunStatus, Reading
    <3>3. CASE Gate(r)!2!(d)!2!2
      BY <2>11, <2>1, <3>3 DEF Gate, AskStage, TypeOK, RunStatus, Reading
    <3>4. CASE Gate(r)!2!(d)!2!3
      <4>1. due' \in [Runners -> SUBSET Request]
        BY <3>4, EraseType DEF TypeOK
      <4>2. flags' \in Flags
        BY <3>4, <1>0, ClearTransientType
      <4>3. QED BY <2>11, <3>4, <4>1, <4>2 DEF Gate, AskStage, TypeOK, Flags
    <3>5. CASE Gate(r)!2!(d)!2!4
      BY <2>11, <3>5 DEF Gate, AskStage, TypeOK
    <3>6. QED BY <3>1, <3>2, <3>3, <3>4, <3>5
  <2>12. CASE ProviderCall(r)
    <3>1. CASE ProviderCall(r)!2!1 \/ ProviderCall(r)!2!2
      <4>1. {"planned", "autoDecided", at[r]} \subseteq Stage
              /\ {"cancel", "repair"} \subseteq Reading
        BY DEF Stage, CheckedStage, Reading, TypeOK
      <4>2. at' \in [Runners -> Stage] /\ rd' \in [Runners -> Reading]
        BY <3>1, <2>2, <4>1
      <4>3. QED BY <2>12, <3>1, <4>2 DEF ProviderCall, AskStage, TypeOK, Reading
    <3>2. CASE ProviderCall(r)!2!3
      BY <2>12, <3>2, <2>1 DEF ProviderCall, AskStage, TypeOK, RunStatus, Reading
    <3>3. CASE ProviderCall(r)!2!4
      BY <2>12, <3>3, <2>1 DEF ProviderCall, AskStage, TypeOK, RunStatus, Reading
    <3>4. QED BY <2>12, <3>1, <3>2, <3>3 DEF ProviderCall, AskStage
  <2>13. CASE ValidatePlan(r)
    <3>1. CASE End(r, "failed")
      BY <2>13, <3>1, <2>1 DEF ValidatePlan, TypeOK, RunStatus, Reading
    <3>2. CASE ValidatePlan(r)!2!1
      <4>1. at' \in [Runners -> Stage] /\ rd' \in [Runners -> Reading]
        BY <3>2, <2>2 DEF Stage, CheckedStage, Reading
      <4>2. QED BY <2>13, <3>2, <4>1 DEF ValidatePlan, TypeOK, Reading
    <3>3. QED BY <2>13, <3>1, <3>2 DEF ValidatePlan
  <2>14. CASE UseTool(r)
    <3>1. at' \in [Runners -> Stage] /\ rd' \in [Runners -> Reading]
      BY <2>14, <2>2 DEF UseTool, Stage, CheckedStage, Reading
    <3>2. steps' \in [Runners -> 0 .. MaxSteps]
      BY <2>14, ConstantsAssumption DEF UseTool, TypeOK
    <3>3. QED BY <2>14, <3>1, <3>2 DEF UseTool, TypeOK, Reading
  <2>15a. CASE RejectDecision(r)
    BY <2>15a, <2>1 DEF RejectDecision, TypeOK, RunStatus, Reading
  <2>15b. CASE ReportFails(r)
    BY <2>15b, <2>1 DEF ReportFails, TypeOK, RunStatus, Reading
  <2>15. CASE ToolEndsRun(r)
    BY <2>15, <2>1 DEF ToolEndsRun, TypeOK, RunStatus, Reading
  <2>16. CASE BuildReport(r)
    <3>1. at' \in [Runners -> Stage] /\ rd' \in [Runners -> Reading]
      BY <2>16, <2>2 DEF BuildReport, Stage, Reading
    <3>2. QED BY <2>16, <3>1 DEF BuildReport, TypeOK, RunStatus, Reading
  <2>17. CASE Review(r)
    <3>1. at' \in [Runners -> Stage] /\ rd' \in [Runners -> Reading]
      BY <2>17, <2>2 DEF Review, Stage, Reading
    <3>2. ctx' \in [Runners -> RunStatus]
      BY <2>17 DEF Review, TypeOK, RunStatus
    <3>3. QED BY <2>17, <3>1, <3>2 DEF Review, TypeOK, Reading
  <2>18. CASE Settle(r)
    <3>1. at' \in [Runners -> Stage] /\ rd' \in [Runners -> Reading]
      BY <2>18, <2>2 DEF Settle, Stage, Reading
    <3>2. status' \in TaskStatus
      <4>1. ctx[r] \in RunStatus BY DEF TypeOK
      <4>2. StatusOf(ctx[r]) \in TaskStatus
        BY <4>1 DEF StatusOf, TaskStatus, RunStatus
      <4>3. "failed" \in TaskStatus BY DEF TaskStatus, RunStatus
      <4>4. QED BY <2>18, <4>2, <4>3 DEF Settle
    <3>3. ctx' \in [Runners -> RunStatus] /\ due' \in [Runners -> SUBSET Request]
      BY <2>18 DEF Settle, TypeOK, RunStatus
    <3>4. steps' \in [Runners -> 0 .. MaxSteps]
      BY <2>18, ConstantsAssumption DEF Settle, TypeOK
    <3>5. QED BY <2>18, <3>1, <3>2, <3>3, <3>4 DEF Settle, TypeOK, Reading
  <2>19. QED
    BY <1>2, <2>4, <2>5, <2>6, <2>7, <2>8, <2>9, <2>10, <2>11, <2>12, <2>13,
       <2>14, <2>15, <2>15a, <2>15b, <2>16, <2>17, <2>18 DEF WorkerAction
<1>3. CASE UNCHANGED vars
  BY <1>3 DEF vars, TypeOK, workerVars, handlerVars, shared, history
<1>4. QED
  BY <1>1, <1>2, <1>3 DEF Next, Quiet

\* Every variable keeps its range: in particular the status shown by the API
\* is always one that the console knows.
THEOREM TypeCorrect == Spec => []TypeOK
<1>1. Init => TypeOK
  BY ConstantsAssumption
  DEF Init, TypeOK, TaskStatus, RunStatus, Stage, CheckedStage, HandlerStep
<1>2. QED
  BY <1>1, TypeStep, PTL DEF Spec
-----------------------------------------------------------------------------
(* What single steps leave alone *)

\* Only starting a thread touches a worker from a handler.
LEMMA HandlerKeepsWorkers ==
  ASSUME NEW h \in Handlers, HandlerAction(h), ~Spawn(h)
  PROVE  UNCHANGED workerVars
BY DEF HandlerAction, PauseRequest, PauseMark, ResumeRequest, ResumeMark,
       CancelRequest, CancelMark, StopRead, StopRequest, StopMark, PartialWrite,
       PartialClear, PartialMark, Decide, Grant, RestartMark, RequestFlag, Mark,
       workerVars

\* A worker leaves the handlers alone.
LEMMA WorkerKeepsHandlers ==
  ASSUME NEW r \in Runners, WorkerAction(r)
  PROVE  UNCHANGED handlerVars
BY DEF WorkerAction, InitTask, InitTaskFails, ReadCancel, ReadStop,
       ClearAfterStop, ReadPause, Advance, Gate, ProviderCall, ValidatePlan,
       UseTool, RejectDecision, ToolEndsRun, BuildReport, ReportFails,
       Review, Settle

\* Until it settles, a worker leaves the task's status alone and stays live.
LEMMA WorkerKeepsStatus ==
  ASSUME TypeOK, NEW w \in Runners, WorkerAction(w), ~Settle(w)
  PROVE  status' = status /\ \A r \in Runners : Live(r) => Live(r)'
<1> USE DEF TypeOK, Live, Enter, End, Interrupt, shared
<1>1. CASE InitTask(w)       BY <1>1 DEF InitTask
<1>2. CASE InitTaskFails(w)  BY <1>2 DEF InitTaskFails
<1>3. CASE ReadCancel(w)     BY <1>3 DEF ReadCancel
<1>4. CASE ReadStop(w)       BY <1>4 DEF ReadStop
<1>5. CASE ClearAfterStop(w) BY <1>5 DEF ClearAfterStop
<1>6. CASE ReadPause(w)      BY <1>6 DEF ReadPause
<1>7. CASE Advance(w)        BY <1>7 DEF Advance, Following
<1>8. CASE Gate(w)           BY <1>8 DEF Gate, AskStage
<1>9. CASE ProviderCall(w)   BY <1>9 DEF ProviderCall, AskStage
<1>10. CASE ValidatePlan(w)  BY <1>10 DEF ValidatePlan
<1>11. CASE UseTool(w)       BY <1>11 DEF UseTool
<1>12a. CASE RejectDecision(w)   BY <1>12a DEF RejectDecision
<1>12b. CASE ReportFails(w)   BY <1>12b DEF ReportFails
<1>12. CASE ToolEndsRun(w)   BY <1>12 DEF ToolEndsRun
<1>13. CASE BuildReport(w)   BY <1>13 DEF BuildReport
<1>14. CASE Review(w)        BY <1>14 DEF Review
<1>15. QED
  BY <1>1, <1>2, <1>3, <1>4, <1>5, <1>6, <1>7, <1>8, <1>9, <1>10, <1>11,
     <1>12, <1>12a, <1>12b, <1>13, <1>14 DEF WorkerAction

-----------------------------------------------------------------------------
\* A task shown as running has a live worker, or a request that is about to
\* start one, however many requests and workers there are.
THEOREM RunningIsWorkedOn == Spec => []NoPhantomRunning
<1>1. Init => NoPhantomRunning
  BY DEF Init, NoPhantomRunning, Live
<1>2. TypeOK /\ NoPhantomRunning /\ [Next]_vars => NoPhantomRunning'
  <2> SUFFICES ASSUME TypeOK, NoPhantomRunning, [Next]_vars, status' = "running"
               PROVE  \/ \E r \in Runners : Live(r)'
                      \/ \E h \in Handlers : (hpc[h] = "spawn")'
    BY DEF NoPhantomRunning
  <2>1. ASSUME NEW h \in Handlers, HandlerAction(h)
        PROVE  \/ \E r \in Runners : Live(r)'
               \/ \E g \in Handlers : (hpc[g] = "spawn")'
    <3>1. CASE Spawn(h)
      <4>1. PICK r \in Runners : at' = [at EXCEPT ![r] = "init"]
        BY <3>1 DEF Spawn
      <4>2. Live(r)' BY <4>1 DEF Live, TypeOK
      <4>3. QED BY <4>2
    <3>2. CASE ResumeMark(h) \/ RestartMark(h)
      BY <3>2 DEF ResumeMark, RestartMark, Mark, Go, TypeOK
    <3>3. CASE ~Spawn(h) /\ ~ResumeMark(h) /\ ~RestartMark(h)
      <4>1. at' = at
        BY <2>1, <3>3, HandlerKeepsWorkers DEF workerVars
      <4>2. status = "running"
        BY <2>1, <3>3
        DEF HandlerAction, PauseRequest, PauseMark, ResumeRequest, CancelRequest,
            CancelMark, StopRead, StopRequest, StopMark, PartialWrite,
            PartialClear, PartialMark, Decide, Grant, RequestFlag, Mark, shared
      <4>3. hpc[h] # "spawn" /\ \E s : hpc' = [hpc EXCEPT ![h] = s]
        BY <2>1, <3>3
        DEF HandlerAction, PauseRequest, PauseMark, ResumeRequest, CancelRequest,
            CancelMark, StopRead, StopRequest, StopMark, PartialWrite,
            PartialClear, PartialMark, Decide, Grant, RequestFlag, Mark, Go, Entering
      <4>4. CASE \E r \in Runners : Live(r)
        BY <4>1, <4>4 DEF Live
      <4>5. CASE \E g \in Handlers : hpc[g] = "spawn"
        BY <4>3, <4>5 DEF TypeOK
      <4>6. QED BY <4>2, <4>4, <4>5 DEF NoPhantomRunning
    <3>4. QED BY <3>1, <3>2, <3>3
  <2>2. ASSUME NEW w \in Runners, WorkerAction(w)
        PROVE  \/ \E r \in Runners : Live(r)'
               \/ \E h \in Handlers : (hpc[h] = "spawn")'
    <3>1. ~Settle(w)
      <4> SUFFICES ASSUME Settle(w) PROVE FALSE
        OBVIOUS
      <4>1. StatusOf(ctx[w]) # "running"
        BY DEF StatusOf
      <4>2. QED BY <4>1 DEF Settle
    <3>2. status' = status /\ \A r \in Runners : Live(r) => Live(r)'
      BY <2>2, <3>1, WorkerKeepsStatus
    <3>3. hpc' = hpc
      BY <2>2, WorkerKeepsHandlers DEF handlerVars
    <3>4. QED BY <3>2, <3>3 DEF NoPhantomRunning
  <2>3. CASE UNCHANGED vars
    BY <2>3 DEF vars, workerVars, handlerVars, shared, NoPhantomRunning, Live
  <2>4. QED
    BY <2>1, <2>2, <2>3 DEF Next, Quiet
<1>3. QED
  BY <1>1, <1>2, TypeCorrect, PTL DEF Spec

-----------------------------------------------------------------------------
\* RequestsHeeded is not inductive: it says nothing of a run that still has
\* checkpoints ahead.  What makes it so: a request that a run owes is still
\* raised in the flags, and the run has still to read that flag.
Heeding ==
  \A r \in Runners : \A a \in due[r] : flags[a] /\ WillRead(r, a)

\* Clearing the transient flags leaves only requests to cancel owed, and
\* leaves them raised.
LEMMA ClearHeeds ==
  ASSUME TypeOK, Heeding, flags' = ClearTransient(flags), Erase
  PROVE  \A r \in Runners : \A a \in due'[r] :
           a = "cancel" /\ a \in due[r] /\ flags'[a]
<1>1. \A r \in Runners : due'[r] = due[r] \ {"pause", "stop"}
  BY DEF Erase
<1>2. \A r \in Runners : \A a \in due'[r] : a = "cancel" /\ a \in due[r]
  BY <1>1 DEF TypeOK, Request
<1>3. flags'["cancel"] = flags["cancel"]
  BY DEF ClearTransient, TypeOK
<1>4. QED BY <1>2, <1>3 DEF Heeding

\* A handler keeps Heeding: it raises what it adds and lowers what it removes.
LEMMA HandlerHeeds ==
  ASSUME TypeOK, Heeding, NEW h \in Handlers, HandlerAction(h)
  PROVE  Heeding'
<1> USE DEF Heeding, TypeOK, workerVars, shared, history
<1>1. ASSUME NEW a \in {"pause", "resume", "cancel", "stop"}, NEW s,
             RequestFlag(h, a, s)
      PROVE  Heeding'
  <2> SUFFICES ASSUME NEW r \in Runners, NEW b \in due'[r]
               PROVE  flags'[b] /\ WillRead(r, b)'
    OBVIOUS
  <2>1. /\ flags' = Apply(flags, a)
        /\ at' = at /\ rd' = rd
    BY <1>1 DEF RequestFlag
  <2>2. b \in Request /\
        (b \in due[r] \ Superseded(a) \/ (a \in Request /\ WillRead(r, a) /\ b = a))
    BY <1>1 DEF RequestFlag, Owe
  <2>3. CASE a \in Request /\ WillRead(r, a) /\ b = a
    BY <2>1, <2>3 DEF Apply, Request, WillRead
  <2>4. CASE b \in due[r] \ Superseded(a)
    <3>1. flags[b] /\ WillRead(r, b)
      BY <2>4
    <3>2. flags'[b]
      BY <2>1, <2>2, <2>4, <3>1 DEF Apply, Superseded, Request
    <3>3. QED BY <2>1, <3>1, <3>2 DEF WillRead
  <2>5. QED BY <2>2, <2>3, <2>4
<1>2. CASE Spawn(h)
  <2>1. PICK r \in Runners :
          /\ at'    = [at EXCEPT ![r] = "init"]
          /\ rd'    = [rd EXCEPT ![r] = "work"]
          /\ due'   = [due EXCEPT ![r] = {a \in Request : flags[a]}]
    BY <1>2 DEF Spawn
  <2>2. flags' = flags
    BY <1>2 DEF Spawn
  <2>3. QED BY <2>1, <2>2 DEF WillRead, Request, CheckedStage
<1>3. CASE PartialClear(h)
  <2>1. \A r \in Runners : \A a \in due'[r] : a \in due[r] /\ flags'[a]
    BY <1>3, ClearHeeds DEF PartialClear
  <2>2. at' = at /\ rd' = rd
    BY <1>3 DEF PartialClear
  <2>3. QED BY <2>1, <2>2, ZenonT(40) DEF WillRead
<1>4. CASE Grant(h)
  BY <1>4 DEF Grant, WillRead, Request
<1>5. CASE PauseMark(h) \/ ResumeMark(h) \/ CancelMark(h) \/ StopRead(h)
           \/ StopMark(h) \/ PartialWrite(h) \/ PartialMark(h) \/ RestartMark(h)
           \/ \E kind \in {"llm_budget", "llm_timeout"} : Decide(h, kind)
  <2>1. flags' = flags /\ due' = due /\ at' = at /\ rd' = rd
    BY <1>5
    DEF PauseMark, ResumeMark, CancelMark, StopRead, StopMark, PartialWrite,
        PartialMark, RestartMark, Decide, Mark
  <2>2. QED BY <2>1 DEF WillRead
<1>6. QED
  BY <1>1, <1>2, <1>3, <1>4, <1>5
  DEF HandlerAction, PauseRequest, ResumeRequest, CancelRequest, StopRequest

\* So does ending a run.
LEMMA EndHeeds ==
  ASSUME TypeOK, Heeding, NEW w \in Runners, NEW c, End(w, c), flags' = flags
  PROVE  Heeding'
BY DEF Heeding, TypeOK, End, Enter, WillRead, Request

\* A worker keeps Heeding: it leaves its last checkpoint only after reading
\* every flag as lowered, or ends and owes nothing.
LEMMA WorkerHeeds ==
  ASSUME TypeOK, Heeding, NEW w \in Runners, WorkerAction(w)
  PROVE  Heeding'
<1> USE DEF Heeding, TypeOK, Request, history, shared
<1>1. CASE InitTask(w)
  BY <1>1 DEF InitTask, Enter, WillRead, CheckedStage
<1>2. CASE InitTaskFails(w)
  BY <1>2, EndHeeds DEF InitTaskFails
<1>3. CASE ReadCancel(w)
  <2>1. CASE flags.cancel
    BY <1>3, <2>1, EndHeeds DEF ReadCancel, Interrupt
  <2>2. CASE ~flags.cancel
    BY <1>3, <2>2 DEF ReadCancel, WillRead, CheckedStage
  <2>3. QED BY <2>1, <2>2
<1>4. CASE ReadStop(w)
  BY <1>4 DEF ReadStop, WillRead, CheckedStage
<1>5. CASE ClearAfterStop(w)
  <2>1. \A r \in Runners : \A a \in due'[r] :
          a = "cancel" /\ a \in due[r] /\ flags'[a]
    BY <1>5, ClearHeeds DEF ClearAfterStop
  <2>2. \A r \in Runners \ {w} : at'[r] = at[r] /\ rd'[r] = rd[r]
    BY <1>5 DEF ClearAfterStop, Enter
  <2>3. ~WillRead(w, "cancel")
    BY <1>5 DEF ClearAfterStop, WillRead, CheckedStage
  <2>4. due'[w] = {}
    BY <2>1, <2>3
  <2>5. QED BY <2>1, <2>2, <2>4 DEF WillRead
<1>6. CASE ReadPause(w)
  <2>1. CASE flags.pause
    BY <1>6, <2>1, EndHeeds DEF ReadPause, Interrupt
  <2>2. CASE ~flags.pause
    BY <1>6, <2>2 DEF ReadPause, WillRead, CheckedStage
  <2>3. QED BY <2>1, <2>2
<1>7. CASE Advance(w)
  BY <1>7 DEF Advance, Following, Enter, WillRead, CheckedStage
<1>8. CASE Gate(w)
  <2>1. PICK d \in Decisions : Gate(w)!2!(d)
    BY <1>8 DEF Gate, AskStage
  <2>2. CASE Gate(w)!2!(d)!2!1 \/ Gate(w)!2!(d)!2!2
    BY <2>2, EndHeeds
  <2>3. CASE Gate(w)!2!(d)!2!3
    <3>1. \A r \in Runners : \A a \in due'[r] : a \in due[r] /\ flags'[a]
      BY <2>3, ClearHeeds
    <3>2. at' = at /\ at[w] \in {"llm", "autoLLM"}
           /\ rd' = [rd EXCEPT ![w] = IF @ = "work" THEN "call" ELSE "recall"]
      BY <1>8, <2>3 DEF Gate, AskStage
    <3>3. QED BY <3>1, <3>2 DEF WillRead, CheckedStage
  <2>4. CASE Gate(w)!2!(d)!2!4
    BY <1>8, <2>4 DEF Gate, AskStage, WillRead, CheckedStage
  <2>5. QED BY <2>1, <2>2, <2>3, <2>4
<1>9. CASE ProviderCall(w)
  <2>1. CASE ProviderCall(w)!2!1 \/ ProviderCall(w)!2!2
    BY <1>9, <2>1 DEF ProviderCall, AskStage, Enter, WillRead, CheckedStage
  <2>2. CASE ProviderCall(w)!2!3 \/ ProviderCall(w)!2!4
    BY <1>9, <2>2, EndHeeds DEF ProviderCall, AskStage
  <2>3. QED BY <1>9, <2>1, <2>2 DEF ProviderCall, AskStage
<1>10. CASE ValidatePlan(w)
  <2>1. CASE End(w, "failed")
    BY <1>10, <2>1, EndHeeds DEF ValidatePlan
  <2>2. CASE ValidatePlan(w)!2!1
    BY <1>10, <2>2 DEF ValidatePlan, Enter, WillRead, CheckedStage
  <2>3. QED BY <1>10, <2>1, <2>2 DEF ValidatePlan
<1>11. CASE UseTool(w)
  BY <1>11 DEF UseTool, Enter, WillRead, CheckedStage
<1>12a. CASE RejectDecision(w)
  BY <1>12a, EndHeeds DEF RejectDecision
<1>12b. CASE ReportFails(w)
  BY <1>12b, EndHeeds DEF ReportFails
<1>12. CASE ToolEndsRun(w)
  BY <1>12, EndHeeds DEF ToolEndsRun
<1>13. CASE BuildReport(w)
  BY <1>13 DEF BuildReport, Enter, WillRead, CheckedStage
<1>14. CASE Review(w)
  BY <1>14 DEF Review, Enter, WillRead, CheckedStage
<1>15. CASE Settle(w)
  BY <1>15 DEF Settle, Enter, WillRead
<1>16. QED
  BY <1>1, <1>2, <1>3, <1>4, <1>5, <1>6, <1>7, <1>8, <1>9, <1>10, <1>11,
     <1>12, <1>12a, <1>12b, <1>13, <1>14, <1>15 DEF WorkerAction

\* A run past its last checkpoint owes no request, for every interleaving of
\* any number of requests and workers.
THEOREM RequestsAreHeeded == Spec => []RequestsHeeded
<1>1. Init => Heeding
  BY DEF Init, Heeding
<1>2. TypeOK /\ Heeding /\ [Next]_vars => Heeding'
  <2> SUFFICES ASSUME TypeOK, Heeding, [Next]_vars PROVE Heeding'
    OBVIOUS
  <2>1. CASE UNCHANGED vars
    BY <2>1 DEF vars, shared, workerVars, history, Heeding, WillRead
  <2>2. QED
    BY <2>1, HandlerHeeds, WorkerHeeds DEF Next, Quiet
<1>3. TypeOK /\ Heeding => RequestsHeeded
  BY DEF TypeOK, Heeding, RequestsHeeded, WillRead, CheckedStage
<1>4. QED
  BY <1>1, <1>2, <1>3, TypeCorrect, PTL DEF Spec
-----------------------------------------------------------------------------
\* SucceededHasReport looks only at the task's status; the workers and the
\* stop request carry the outcome towards it in several steps.
ReportedRun(r) ==
  /\ ctx[r] \in {"completed", "succeeded_partial"} \/ rd[r] = "clear"
       => report # "none"
  /\ at[r] = "settle" => ctx[r] \notin {"none", "running"}
  /\ at[r] = "review" => ctx[r] = "completed"

ReportedRequest(h) ==
  hpc[h] \in {"partialClear", "partialMark"} => report # "none"

Reported ==
  /\ \A r \in Runners : ReportedRun(r)
  /\ \A h \in Handlers : ReportedRequest(h)
  /\ SucceededHasReport

\* A report that has been written stays, and only a worker that settles or a
\* stop request that has written one shows the task as succeeded.
LEMMA ReportStays ==
  ASSUME TypeOK, Next PROVE report # "none" => report' # "none"
<1>1. ASSUME NEW h \in Handlers, HandlerAction(h)
      PROVE  report' = report \/ report' = "partial"
  BY <1>1
  DEF HandlerAction, PauseRequest, PauseMark, ResumeRequest, ResumeMark,
      CancelRequest, CancelMark, StopRead, StopRequest, StopMark, PartialWrite,
      PartialClear, PartialMark, Decide, Grant, RestartMark, Spawn, RequestFlag,
      Mark, shared
<1>2. ASSUME NEW r \in Runners, WorkerAction(r)
      PROVE  report' = report \/ report' \in {"partial", "full"}
  BY <1>2
  DEF WorkerAction, InitTask, InitTaskFails, ReadCancel, ReadStop,
      ClearAfterStop, ReadPause, Advance, Gate, ProviderCall, ValidatePlan,
      UseTool, RejectDecision, ToolEndsRun, BuildReport, ReportFails,
       Review, Settle, shared
<1>3. QED BY <1>1, <1>2 DEF Next, Quiet, vars, shared

LEMMA HandlerReports ==
  ASSUME TypeOK, Reported, NEW h \in Handlers, HandlerAction(h),
         report # "none" => report' # "none"
  PROVE  Reported'
<1> USE DEF TypeOK, Reported, ReportedRun, ReportedRequest, SucceededHasReport,
            Go, shared, workerVars
<1>1. ASSUME NEW a, NEW s \in {"pauseMark", "resumeMark", "cancelMark", "stopMark"},
             RequestFlag(h, a, s)
      PROVE  Reported'
  BY <1>1 DEF RequestFlag
<1>2. ASSUME NEW step, NEW s \in {"idle", "spawn"},
             NEW new \in {"paused", "running", "cancel_requested"},
             Mark(h, step, new, s)
      PROVE  Reported'
  BY <1>2 DEF Mark
<1>3. CASE PartialMark(h)  BY <1>3 DEF PartialMark, Mark
<1>4. CASE Spawn(h)        BY <1>4 DEF Spawn
<1>5. CASE StopRead(h)     BY <1>5 DEF StopRead
<1>6. CASE StopMark(h)     BY <1>6 DEF StopMark
<1>7. CASE PartialWrite(h) BY <1>7 DEF PartialWrite
<1>8. CASE PartialClear(h) BY <1>8 DEF PartialClear
<1>9. ASSUME NEW kind \in {"llm_budget", "llm_timeout"}, Decide(h, kind)
      PROVE  Reported'
  <2>1. PICK s \in Answer(kind) : Go(h, s)
    BY <1>9 DEF Decide
  <2>2. s \notin {"partialClear", "partialMark"}
    BY <1>9, <2>1 DEF Answer
  <2>3. QED BY <1>9, <2>1, <2>2 DEF Decide
<1>10. CASE Grant(h)       BY <1>10 DEF Grant
<1>11. CASE PauseMark(h) \/ ResumeMark(h) \/ CancelMark(h) \/ RestartMark(h)
  BY <1>11, <1>2 DEF PauseMark, ResumeMark, CancelMark, RestartMark
<1>12. CASE PauseRequest(h) \/ ResumeRequest(h) \/ CancelRequest(h) \/ StopRequest(h)
  BY <1>12, <1>1 DEF PauseRequest, ResumeRequest, CancelRequest, StopRequest
<1>13. QED
  BY <1>3, <1>4, <1>5, <1>6, <1>7, <1>8, <1>9, <1>10, <1>11, <1>12
  DEF HandlerAction

\* Ending a run keeps Reported when its outcome is not a success, or a
\* success that has been reported.
LEMMA EndReports ==
  ASSUME TypeOK, Reported, NEW w \in Runners, NEW c \in RunStatus \ {"none", "running"},
         End(w, c), status' = status, hpc' = hpc,
         report # "none" => report' # "none",
         c \in {"completed", "succeeded_partial"} => report' # "none"
  PROVE  Reported'
BY DEF TypeOK, Reported, ReportedRun, ReportedRequest, SucceededHasReport, End, Enter

LEMMA WorkerReports ==
  ASSUME ~StartFaults, TypeOK, Reported, NEW w \in Runners, WorkerAction(w),
         report # "none" => report' # "none"
  PROVE  Reported'
<1>0. hpc' = hpc
  BY WorkerKeepsHandlers DEF handlerVars
<1>1. CASE Settle(w)
  <2>1. StatusOf(ctx[w]) \in {"succeeded", "succeeded_partial"} => report # "none"
    BY <1>1 DEF Settle, StatusOf, Reported, ReportedRun, TypeOK, RunStatus
  <2>2. SucceededHasReport'
    BY <1>1, <2>1 DEF Settle, SucceededHasReport
  <2>3. \A r \in Runners : ReportedRun(r)'
    BY <1>1 DEF Settle, Enter, TypeOK, Reported, ReportedRun
  <2>4. QED BY <1>0, <1>1, <2>2, <2>3 DEF Reported, ReportedRequest, Settle
<1>2. CASE ~Settle(w)
  <2>1. status' = status
    BY <1>2, WorkerKeepsStatus
  <2>2. SucceededHasReport' /\ \A h \in Handlers : ReportedRequest(h)'
    BY <1>0, <2>1 DEF Reported, SucceededHasReport, ReportedRequest
  <2>3. SUFFICES ASSUME NEW r \in Runners PROVE ReportedRun(r)'
    BY <2>2 DEF Reported
  <2>4. \A c \in RunStatus \ {"none", "running"} :
          End(w, c) /\ (c \in {"completed", "succeeded_partial"} => report' # "none")
            => ReportedRun(r)'
    BY <1>0, <2>1, EndReports DEF Reported
  <2>5. ReportedRun(r) /\ ReportedRun(w)
    BY DEF Reported
  <2>6. \A c \in {"paused", "canceled"} : Interrupt(w, c) => ReportedRun(r)'
    BY <2>4 DEF Interrupt, RunStatus
  <2> USE <2>5 DEF TypeOK, ReportedRun, Enter, CheckedStage
  <2>7. CASE InitTask(w)       BY <2>7 DEF InitTask, shared
  <2>8. CASE InitTaskFails(w)  BY <2>8, <2>4 DEF InitTaskFails, RunStatus
  <2>9. CASE ReadCancel(w)     BY <2>9, <2>6 DEF ReadCancel, shared
  <2>10. CASE ReadStop(w)      BY <2>10, <1>0 DEF ReadStop
  <2>11. CASE ClearAfterStop(w) BY <2>11 DEF ClearAfterStop
  <2>12. CASE ReadPause(w)     BY <2>12, <2>6 DEF ReadPause, shared
  <2>13. CASE Advance(w)       BY <2>13 DEF Advance, Following, shared
  <2>14. CASE Gate(w)
    <3>1. PICK d \in Decisions : Gate(w)!2!(d)
      BY <2>14 DEF Gate, AskStage
    <3>2. CASE Gate(w)!2!(d)!2!1 \/ Gate(w)!2!(d)!2!2
      BY <3>2, <2>4 DEF RunStatus
    <3>3. CASE Gate(w)!2!(d)!2!3 \/ Gate(w)!2!(d)!2!4
      BY <2>14, <3>3 DEF Gate, AskStage
    <3>4. QED BY <3>1, <3>2, <3>3
  <2>15. CASE ProviderCall(w)
    <3>1. CASE ProviderCall(w)!2!1 \/ ProviderCall(w)!2!2
      BY <2>15, <3>1 DEF ProviderCall, AskStage
    <3>2. CASE ProviderCall(w)!2!3 \/ ProviderCall(w)!2!4
      BY <2>15, <3>2, <2>4 DEF ProviderCall, AskStage, RunStatus
    <3>3. QED BY <2>15, <3>1, <3>2 DEF ProviderCall, AskStage
  <2>16. CASE ValidatePlan(w)  BY <2>16, <2>4 DEF ValidatePlan, shared, RunStatus
  <2>17. CASE UseTool(w)       BY <2>17 DEF UseTool, shared
  <2>18a. CASE RejectDecision(w)   BY <2>18a, <2>4 DEF RejectDecision, RunStatus
  <2>18b. CASE ReportFails(w)   BY <2>18b, <2>4 DEF ReportFails, RunStatus
  <2>18. CASE ToolEndsRun(w)   BY <2>18, <2>4 DEF ToolEndsRun, RunStatus
  <2>19. CASE BuildReport(w)   BY <2>19 DEF BuildReport
  <2>20. CASE Review(w)        BY <2>20 DEF Review, shared
  <2>21. QED
    BY <1>2, <2>7, <2>8, <2>9, <2>10, <2>11, <2>12, <2>13, <2>14, <2>15, <2>16,
       <2>17, <2>18, <2>18a, <2>18b, <2>19, <2>20 DEF WorkerAction
<1>3. QED BY <1>1, <1>2

\* Where start_run cannot raise, a task shown as succeeded has its report.
THEOREM SuccessIsReported ==
  ASSUME ~StartFaults PROVE Spec => []SucceededHasReport
<1>1. Init => Reported
  BY DEF Init, Reported, ReportedRun, ReportedRequest, SucceededHasReport
<1>2. TypeOK /\ Reported /\ [Next]_vars => Reported'
  <2> SUFFICES ASSUME TypeOK, Reported, [Next]_vars PROVE Reported'
    OBVIOUS
  <2>1. CASE UNCHANGED vars
    BY <2>1
    DEF vars, shared, workerVars, handlerVars, Reported, ReportedRun,
        ReportedRequest, SucceededHasReport
  <2>2. CASE Next
    <3>1. report # "none" => report' # "none"
      BY <2>2, ReportStays
    <3>2. QED
      BY <2>1, <2>2, <3>1, HandlerReports, WorkerReports DEF Next, Quiet
  <2>3. QED BY <2>1, <2>2
<1>3. Reported => SucceededHasReport
  BY DEF Reported
<1>4. QED
  BY <1>1, <1>2, <1>3, TypeCorrect, PTL DEF Spec
-----------------------------------------------------------------------------
\* A guided run keeps out of the stages whose checkpoint is swallowed, and
\* nothing follows an announcement but the end of the run.
Announcing ==
  \A r \in Runners :
    /\ at[r] \notin {"autoLLM", "autoDecided"}
    /\ announced[r] # "none" => at[r] = "settle" /\ ctx[r] = announced[r]

\* In guided mode the outcome announced to the user is the outcome of the run.
THEOREM GuidedOutcomeKept ==
  ASSUME ~AutoExplore PROVE Spec => []AnnouncedOutcomeKept
<1>1. Init => Announcing
  BY DEF Init, Announcing
<1>2. TypeOK /\ Announcing /\ [Next]_vars => Announcing'
  <2> SUFFICES ASSUME TypeOK, Announcing, [Next]_vars PROVE Announcing'
    OBVIOUS
  <2>1. ASSUME NEW h \in Handlers, HandlerAction(h) PROVE Announcing'
    <3>1. CASE Spawn(h)
      BY <3>1 DEF Spawn, Announcing, TypeOK
    <3>2. CASE ~Spawn(h)
      BY <2>1, <3>2, HandlerKeepsWorkers DEF Announcing, workerVars
    <3>3. QED BY <3>1, <3>2
  <2>2. ASSUME NEW w \in Runners, WorkerAction(w) PROVE Announcing'
    <3> USE DEF Announcing, TypeOK, Enter, End, CheckedStage
    <3>1. CASE InitTask(w)       BY <3>1 DEF InitTask
    <3>2. CASE InitTaskFails(w)  BY <3>2 DEF InitTaskFails
    <3>3. CASE ReadCancel(w)     BY <3>3 DEF ReadCancel, Interrupt, Swallowed
    <3>4. CASE ReadStop(w)       BY <3>4 DEF ReadStop
    <3>5. CASE ClearAfterStop(w) BY <3>5 DEF ClearAfterStop, Swallowed
    <3>6. CASE ReadPause(w)      BY <3>6 DEF ReadPause, Interrupt, Swallowed
    <3>7. CASE Advance(w)        BY <3>7 DEF Advance, Following
    <3>8. CASE Gate(w)           BY <3>8 DEF Gate, AskStage
    <3>9. CASE ProviderCall(w)   BY <3>9 DEF ProviderCall, AskStage
    <3>10. CASE ValidatePlan(w)  BY <3>10 DEF ValidatePlan
    <3>11. CASE UseTool(w)       BY <3>11 DEF UseTool
    <3>12a. CASE RejectDecision(w)   BY <3>12a DEF RejectDecision
    <3>12b. CASE ReportFails(w)   BY <3>12b DEF ReportFails
    <3>12. CASE ToolEndsRun(w)   BY <3>12 DEF ToolEndsRun
    <3>13. CASE BuildReport(w)   BY <3>13 DEF BuildReport
    <3>14. CASE Review(w)        BY <3>14 DEF Review
    <3>15. CASE Settle(w)        BY <3>15 DEF Settle
    <3>16. QED
      BY <2>2, <3>1, <3>2, <3>3, <3>4, <3>5, <3>6, <3>7, <3>8, <3>9, <3>10,
         <3>11, <3>12, <3>12a, <3>12b, <3>13, <3>14, <3>15 DEF WorkerAction
  <2>3. CASE UNCHANGED vars
    BY <2>3 DEF vars, workerVars, Announcing
  <2>4. QED BY <2>1, <2>2, <2>3 DEF Next, Quiet
<1>3. Announcing => AnnouncedOutcomeKept
  BY DEF Announcing, AnnouncedOutcomeKept
<1>4. QED
  BY <1>1, <1>2, <1>3, TypeCorrect, PTL DEF Spec
=============================================================================
