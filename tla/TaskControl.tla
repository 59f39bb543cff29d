---------------------------- MODULE TaskControl ----------------------------
(***************************************************************************)
(* Cooperative control of one API task: the pause / resume / cancel /      *)
(* stop-and-summarize endpoints of TaskService, the shared per-task flags  *)
(* of TaskControlStore, the answers to LLM budget and timeout approvals,   *)
(* and the worker threads that run the LangGraph workflow and read the     *)
(* flags at checkpoints.                                                   *)
(*                                                                         *)
(* The endpoints are synchronous FastAPI handlers, so each request runs on *)
(* a thread of the server's pool: requests interleave with one another and *)
(* with the workers at every access to shared state.  One action is one    *)
(* such access.  Events, files other than the report, and the database row *)
(* are not part of this module.                                            *)
(***************************************************************************)
EXTENDS Naturals, FiniteSets

CONSTANTS
  Runners,      \* worker threads that may run the workflow of the task
  Handlers,     \* server threads that execute control requests
  MaxCalls,     \* bound: control requests issued in a behaviour
  MaxSteps,     \* task.budget.max_steps: tool steps one run may take
  AutoExplore,  \* request.mode = "auto_explore": the LLM picks each step
  Decisions,    \* budget decisions the estimates of this task can reach
  ConsoleOnly,  \* requests come from the console, which gates its buttons
  LLMFaults,    \* the provider may time out, raise, or answer what does not parse
  StartFaults   \* start_run may raise before the run context exists

BudgetDecision ==
  {"allowed", "warning", "approval_required", "hard_limit_exceeded"}

ASSUME ConstantsAssumption ==
  /\ Runners # {}
  /\ MaxCalls \in Nat
  /\ MaxSteps \in Nat \ {0}
  /\ AutoExplore \in BOOLEAN
  /\ AutoExplore => MaxSteps >= 2  \* the seed plan has two steps
  /\ ConsoleOnly \in BOOLEAN
  /\ LLMFaults \in BOOLEAN
  /\ StartFaults \in BOOLEAN
  /\ Decisions \subseteq BudgetDecision

VARIABLES
  status,     \* _TaskState.status, what GET /tasks/{id} shows
  flags,      \* TaskControlState of the task
  approvals,  \* kinds of LLM approval that are pending
  report,     \* what final_report.md holds
  at,         \* at[r]: stage of the workflow worker r is in
  rd,         \* rd[r]: what r does next inside that stage
  ctx,        \* ctx[r]: context.state.status of r's run
  steps,      \* steps[r]: tool steps r has executed
  hpc,        \* hpc[h]: next access of handler h, or "idle"
  seen,       \* seen[h]: current_status read by stop_and_summarize_task
  calls,      \* control requests issued so far
  due,        \* history: requests a worker must obey before it ends
  announced   \* announced[r]: outcome the run's own event has announced

workerVars  == <<at, rd, ctx, steps, announced>>
handlerVars == <<hpc, seen, calls>>
shared      == <<status, flags, approvals, report>>
history     == <<due>>
vars == <<shared, workerVars, handlerVars, history>>

-----------------------------------------------------------------------------
(* Vocabulary *)

Request == {"pause", "cancel", "stop"}

\* Stages that open with check_control_state, in the order a run meets them.
CheckedStage ==
  {"prompt", "llm", "planned", "validate", "tool", "tooled",
   "autoLLM", "autoDecided", "report"}

Stage == CheckedStage \cup {"idle", "init", "review", "settle"}

RunStatus ==
  {"none", "running", "completed", "failed", "blocked", "requires_approval",
   "waiting_for_approval", "paused", "canceled", "succeeded_partial"}

TaskStatus ==
  (RunStatus \ {"none", "completed"}) \cup
  {"succeeded", "cancel_requested", "stop_requested"}

\* Mutant: "completed" is passed on as it is.
StatusOfVerbatim(c) == IF c \in {"none", "running"} THEN "succeeded" ELSE c

\* status_from_context_state; a run without a context counts as succeeded,
\* which is also what the function answers for a status it does not list.
StatusOf(c) ==
  IF c \in {"none", "running", "completed"} THEN "succeeded" ELSE c

\* Statuses under which the stop request writes the report itself.
ParkedStatus == {"paused", "waiting_for_approval", "requires_approval", "failed"}

HandlerStep ==
  {"idle", "pause", "pauseMark", "resume", "resumeMark", "spawn", "cancel",
   "cancelMark", "stop", "stopRequest", "stopMark", "partialWrite",
   "partialClear", "partialMark", "grantOnce", "grantTask", "restartMark"}

Live(r) == at[r] # "idle"

\* Worker r will still read flag a before its report is built.
WillRead(r, a) ==
  \/ at[r] = "init"
  \/ at[r] \in CheckedStage \ {"report"} /\ rd[r] # "clear"
  \/ /\ at[r] = "report"
     /\ rd[r] \in CASE a = "cancel" -> {"cancel"}
                    [] a = "stop"   -> {"cancel", "stop"}
                    [] a = "pause"  -> {"cancel", "stop", "pause"}

-----------------------------------------------------------------------------
(* TaskControlStore *)

\* What one request does to the flags, and to what the workers owe.
Apply(f, a) ==
  CASE a = "pause"  -> [f EXCEPT !.pause = TRUE]
    [] a = "resume" -> [f EXCEPT !.pause = FALSE, !.cancel = FALSE, !.stop = FALSE]
    [] a = "cancel" -> [f EXCEPT !.cancel = TRUE, !.pause = FALSE, !.stop = FALSE]
    [] a = "stop"   -> [f EXCEPT !.stop = TRUE, !.pause = FALSE]

\* Requests of D that request a replaces.
Superseded(a) ==
  CASE a = "pause" -> {} [] a = "stop" -> {"pause"} [] OTHER -> Request

Owe(a) ==
  due' = [r \in Runners |->
            (due[r] \ Superseded(a)) \cup
            (IF a \in Request /\ WillRead(r, a) THEN {a} ELSE {})]

\* Mutant: the clear takes the cancel request with it.
ClearTransientAndCancel(f) ==
  [f EXCEPT !.pause = FALSE, !.stop = FALSE, !.override = FALSE, !.cancel = FALSE]

\* clear_transient_flags: cancel and continue_for_task survive it.
ClearTransient(f) == [f EXCEPT !.pause = FALSE, !.stop = FALSE, !.override = FALSE]

\* The clear also erases what the workers still had to obey.
Erase == due' = [r \in Runners |-> due[r] \ {"pause", "stop"}]

-----------------------------------------------------------------------------
(* Endpoints: entering one takes the first shared access with it *)

\* Statuses under which the console's TaskControlBar offers endpoint s.  The
\* API itself accepts every request at any time.
Offered(s) ==
  CASE s = "pause"  -> {"running"}
    [] s = "resume" -> {"paused"}
    [] s = "stop"   -> {"running", "paused", "waiting_for_approval", "requires_approval"}
    [] s = "cancel" -> {"running", "paused", "waiting_for_approval",
                        "requires_approval", "stop_requested"}

\* h starts the endpoint whose first step is s, or continues into it.
Entering(h, s) ==
  \/ /\ hpc[h] = "idle" /\ calls < MaxCalls
     /\ ConsoleOnly => status \in Offered(s)
     /\ calls' = calls + 1
  \/ /\ hpc[h] = s
     /\ UNCHANGED calls

Go(h, s) == hpc' = [hpc EXCEPT ![h] = s]

RequestFlag(h, a, s) ==
  /\ flags' = Apply(flags, a)
  /\ Owe(a)
  /\ Go(h, s)
  /\ UNCHANGED <<status, approvals, report, workerVars, seen>>

Mark(h, step, new, s) ==
  /\ hpc[h] = step
  /\ status' = new
  /\ Go(h, s)
  /\ UNCHANGED <<flags, approvals, report, workerVars, seen, calls, history>>

PauseRequest(h)  == Entering(h, "pause") /\ RequestFlag(h, "pause", "pauseMark")
PauseMark(h)     == Mark(h, "pauseMark", "paused", "idle")

ResumeRequest(h) == Entering(h, "resume") /\ RequestFlag(h, "resume", "resumeMark")
ResumeMark(h)    == Mark(h, "resumeMark", "running", "spawn")

CancelRequest(h) == Entering(h, "cancel") /\ RequestFlag(h, "cancel", "cancelMark")
CancelMark(h)    == Mark(h, "cancelMark", "cancel_requested", "idle")

\* Mutant: the request of the task is not remembered, no thread is started.
SpawnNothing(h) ==
  /\ hpc[h] = "spawn"
  /\ Go(h, "idle")
  /\ UNCHANGED <<shared, workerVars, seen, calls, history>>

\* threading.Thread(...).start(): nothing asks whether a worker is active.
Spawn(h) ==
  /\ hpc[h] = "spawn"
  /\ \E r \in Runners :
       /\ at[r] = "idle"
       /\ at'    = [at EXCEPT ![r] = "init"]
       /\ rd'    = [rd EXCEPT ![r] = "work"]
       /\ ctx'   = [ctx EXCEPT ![r] = "none"]
       /\ steps' = [steps EXCEPT ![r] = 0]
       /\ due'   = [due EXCEPT ![r] = {a \in Request : flags[a]}]
       /\ announced' = [announced EXCEPT ![r] = "none"]
  /\ Go(h, "idle")
  /\ UNCHANGED <<shared, seen, calls>>

\* stop_and_summarize_task reads the status before it makes its request.
StopRead(h) ==
  /\ Entering(h, "stop")
  /\ seen' = [seen EXCEPT ![h] = status]
  /\ Go(h, "stopRequest")
  /\ UNCHANGED <<shared, workerVars, history>>

StopRequest(h) ==
  /\ hpc[h] = "stopRequest"
  /\ RequestFlag(h, "stop", "stopMark")
  /\ UNCHANGED calls

StopMark(h) ==
  /\ hpc[h] = "stopMark"
  /\ status' = "stop_requested"
  /\ Go(h, IF seen[h] \in ParkedStatus THEN "partialWrite" ELSE "idle")
  /\ seen' = [seen EXCEPT ![h] = "running"]
  /\ UNCHANGED <<flags, approvals, report, workerVars, calls, history>>

\* _generate_partial_report_from_artifacts: report, flags, status.
PartialWrite(h) ==
  /\ hpc[h] = "partialWrite"
  /\ report' = "partial"
  /\ Go(h, "partialClear")
  /\ UNCHANGED <<status, flags, approvals, workerVars, seen, calls, history>>

PartialClear(h) ==
  /\ hpc[h] = "partialClear"
  /\ flags' = ClearTransient(flags)
  /\ Erase
  /\ Go(h, "partialMark")
  /\ UNCHANGED <<status, approvals, report, workerVars, seen, calls>>

PartialMark(h) == Mark(h, "partialMark", "succeeded_partial", "idle")

\* Where an answer to an LLM approval sends its handler: the options of
\* _resolve_budget_approval and _resolve_timeout_approval.
Answer(kind) ==
  CASE kind = "llm_budget"  -> {"grantOnce", "grantTask", "stop", "cancel"}
    [] kind = "llm_timeout" -> {"restartMark", "stop", "cancel"}

\* ApprovalStore.decide lets one handler decide a pending approval.
Decide(h, kind) ==
  /\ hpc[h] = "idle" /\ calls < MaxCalls
  /\ kind \in approvals
  /\ approvals' = approvals \ {kind}
  /\ calls' = calls + 1
  /\ \E s \in Answer(kind) : Go(h, s)
  /\ UNCHANGED <<status, flags, report, workerVars, seen, history>>

\* resolve_budget_approval.
Grant(h) ==
  /\ \/ hpc[h] = "grantOnce" /\ flags' = [flags EXCEPT !.override = TRUE]
     \/ hpc[h] = "grantTask" /\ flags' = [flags EXCEPT !.forTask = TRUE]
  /\ Go(h, "restartMark")
  /\ UNCHANGED <<status, approvals, report, workerVars, seen, calls, history>>

RestartMark(h) == Mark(h, "restartMark", "running", "spawn")

HandlerAction(h) ==
  \/ PauseRequest(h) \/ PauseMark(h)
  \/ ResumeRequest(h) \/ ResumeMark(h) \/ Spawn(h)
  \/ CancelRequest(h) \/ CancelMark(h)
  \/ StopRead(h) \/ StopRequest(h) \/ StopMark(h)
  \/ PartialWrite(h) \/ PartialClear(h) \/ PartialMark(h)
  \/ \E kind \in {"llm_budget", "llm_timeout"} : Decide(h, kind)
  \/ Grant(h) \/ RestartMark(h)

-----------------------------------------------------------------------------
(* Workers *)

Enter(r, stage, what) ==
  /\ at' = [at EXCEPT ![r] = stage]
  /\ rd' = [rd EXCEPT ![r] = what]

\* The run is over with context status c: the graph routes to finalize_task.
End(r, c) ==
  /\ Enter(r, "settle", "work")
  /\ ctx' = [ctx EXCEPT ![r] = c]
  /\ due' = [due EXCEPT ![r] = {}]
  /\ UNCHANGED steps

\* Mutant: every checkpoint sits inside such a try block.
SwallowedEverywhere(stage) == stage \in CheckedStage

\* Stages whose checkpoint sits inside the try block of the auto-explore
\* loop: `except RuntimeError` there also catches TaskControlInterrupted.
Swallowed(stage) == stage \in {"autoLLM", "autoDecided"}

\* check_control_state announces outcome c and raises TaskControlInterrupted.
Interrupt(r, c) ==
  /\ End(r, IF Swallowed(at[r]) THEN "failed" ELSE c)
  /\ announced' = [announced EXCEPT ![r] = c]

\* init_task: start_run creates the context, unless it raises.
InitTask(r) ==
  /\ at[r] = "init"
  /\ Enter(r, "prompt", "cancel")
  /\ ctx' = [ctx EXCEPT ![r] = "running"]
  /\ UNCHANGED <<shared, steps, announced, handlerVars, history>>

InitTaskFails(r) ==
  /\ at[r] = "init"
  /\ \/ StartFaults /\ End(r, "none")  \* start_run: no context for the node
     \/ End(r, "failed")               \* build_runtime_components
  /\ UNCHANGED <<shared, announced, handlerVars>>

\* check_control_state reads the live flags one by one, without the lock.
ReadCancel(r) ==
  /\ at[r] \in CheckedStage /\ rd[r] = "cancel"
  /\ \/ /\ flags.cancel
        /\ Interrupt(r, "canceled")
     \/ /\ ~flags.cancel
        /\ rd' = [rd EXCEPT ![r] = "stop"]
        /\ UNCHANGED <<at, ctx, steps, announced, history>>
  /\ UNCHANGED <<shared, handlerVars>>

\* Mutant: stopping does not write the partial report.
ReadStopWithoutReport(r) ==
  /\ at[r] \in CheckedStage /\ rd[r] = "stop"
  /\ IF flags.stop
       THEN /\ rd' = [rd EXCEPT ![r] = "clear"]
            /\ due' = [due EXCEPT ![r] = {}]
       ELSE /\ rd' = [rd EXCEPT ![r] = "pause"]
            /\ UNCHANGED due
  /\ UNCHANGED <<shared, at, ctx, steps, announced, handlerVars>>

ReadStop(r) ==
  /\ at[r] \in CheckedStage /\ rd[r] = "stop"
  /\ IF flags.stop
       THEN /\ report' = "partial"
            /\ rd' = [rd EXCEPT ![r] = "clear"]
            /\ due' = [due EXCEPT ![r] = {}]
       ELSE /\ rd' = [rd EXCEPT ![r] = "pause"]
            /\ UNCHANGED <<report, due>>
  /\ UNCHANGED <<status, flags, approvals, at, ctx, steps, announced,
                 handlerVars>>

ClearAfterStop(r) ==
  /\ at[r] \in CheckedStage /\ rd[r] = "clear"
  /\ flags' = ClearTransient(flags)
  /\ Erase
  /\ Enter(r, "settle", "work")
  /\ ctx' = [ctx EXCEPT ![r] =
               IF Swallowed(at[r]) THEN "failed" ELSE "succeeded_partial"]
  /\ announced' = [announced EXCEPT ![r] = "succeeded_partial"]
  /\ UNCHANGED <<status, approvals, report, steps, handlerVars>>

\* Mutant: a paused worker polls the flags at the checkpoint instead of ending.
ReadPauseWaits(r) ==
  /\ at[r] \in CheckedStage /\ rd[r] = "pause"
  /\ rd' = [rd EXCEPT ![r] = IF flags.pause THEN "cancel" ELSE "work"]
  /\ UNCHANGED <<at, ctx, steps, announced, history, shared, handlerVars>>

ReadPause(r) ==
  /\ at[r] \in CheckedStage /\ rd[r] = "pause"
  /\ \/ /\ flags.pause
        /\ Interrupt(r, "paused")
     \/ /\ ~flags.pause
        /\ rd' = [rd EXCEPT ![r] = "work"]
        /\ UNCHANGED <<at, ctx, steps, announced, history>>
  /\ UNCHANGED <<shared, handlerVars>>

\* Steps of DeterministicTaskPlanner's plan for auto_explore: open, observe.
SeedSteps == 2

\* Stages that may follow when a stage's work is done.
Following(r) ==
  CASE at[r] = "prompt"      -> {"llm"}
    [] at[r] = "llm"         -> {"planned"}
    [] at[r] = "planned"     -> {"validate"}
    [] at[r] = "autoDecided" -> {"tool"}
    [] at[r] = "tooled"      ->
         IF AutoExplore /\ steps[r] < SeedSteps THEN {"tool"}
         ELSE (IF steps[r] = MaxSteps THEN {}
               ELSE IF AutoExplore THEN {"autoLLM"} ELSE {"tool"})
              \cup (IF AutoExplore /\ steps[r] = SeedSteps THEN {} ELSE {"report"})

\* In auto_explore the plan is the seed plan, which asks no provider.
Advance(r) ==
  /\ at[r] \in {"prompt", "planned", "tooled", "autoDecided"} \cup
              (IF AutoExplore THEN {"llm"} ELSE {})
  /\ rd[r] = "work"
  /\ \E s \in Following(r) : Enter(r, s, "cancel")
  /\ UNCHANGED <<shared, ctx, steps, announced, handlerVars, history>>

\* The stage that asks the provider.
AskStage == IF AutoExplore THEN "autoLLM" ELSE "llm"

\* The budget gate of AuditedBudgetedLLMClient.generate.  continue_for_task
\* keeps decide_budget from asking for approval.
Gate(r) ==
  /\ at[r] = AskStage /\ rd[r] \in {"work", "repair"}
  /\ \E d \in Decisions :
       /\ d = "approval_required" => ~flags.forTask
       /\ \/ /\ d = "approval_required" /\ ~flags.override
             /\ approvals' = approvals \cup {"llm_budget"}
             /\ End(r, "waiting_for_approval")
             /\ UNCHANGED <<flags, report, announced>>
          \/ /\ d = "hard_limit_exceeded"
             /\ report' = "partial"
             /\ announced' = [announced EXCEPT ![r] = "succeeded_partial"]
             /\ End(r, "succeeded_partial")
             /\ UNCHANGED <<flags, approvals>>
          \/ /\ d \in {"allowed", "approval_required"} /\ flags.override
             /\ flags' = ClearTransient(flags)
             /\ Erase
             /\ rd' = [rd EXCEPT ![r] = IF @ = "work" THEN "call" ELSE "recall"]
             /\ UNCHANGED <<approvals, report, at, ctx, steps, announced>>
          \/ /\ d = "warning" \/ (d = "allowed" /\ ~flags.override)
             /\ rd' = [rd EXCEPT ![r] = IF @ = "work" THEN "call" ELSE "recall"]
             /\ UNCHANGED <<flags, approvals, report, at, ctx, steps, announced,
                            history>>
  /\ UNCHANGED <<status, handlerVars>>

\* An answer that does not parse is asked for once more, through the gate.
ProviderCall(r) ==
  /\ at[r] = AskStage /\ rd[r] \in {"call", "recall"}
  /\ \/ /\ Enter(r, IF at[r] = "llm" THEN "planned" ELSE "autoDecided", "cancel")
        /\ UNCHANGED <<approvals, ctx, steps, history>>
     \/ /\ LLMFaults /\ rd[r] = "call"
        /\ Enter(r, at[r], "repair")
        /\ UNCHANGED <<approvals, ctx, steps, history>>
     \/ /\ LLMFaults
        /\ approvals' = approvals \cup {"llm_timeout"}
        /\ End(r, "waiting_for_approval")
     \/ /\ LLMFaults
        /\ End(r, "failed")
        /\ UNCHANGED approvals
  /\ UNCHANGED <<status, flags, report, announced, handlerVars>>

ValidatePlan(r) ==
  /\ at[r] = "validate" /\ rd[r] = "work"
  /\ \/ /\ Enter(r, "tool", "cancel")
        /\ UNCHANGED <<ctx, steps, history>>
     \/ End(r, "failed")
  /\ UNCHANGED <<shared, announced, handlerVars>>

\* validate_plan has rejected a plan with more steps than the budget.
UseTool(r) ==
  /\ at[r] = "tool" /\ rd[r] = "work"
  /\ steps[r] < MaxSteps
  /\ Enter(r, "tooled", "cancel")
  /\ steps' = [steps EXCEPT ![r] = @ + 1]
  /\ UNCHANGED <<shared, ctx, announced, handlerVars, history>>

\* decision_to_tool_call cannot translate the decision.
RejectDecision(r) ==
  /\ at[r] = "autoDecided" /\ rd[r] = "work"
  /\ End(r, "failed")
  /\ UNCHANGED <<shared, announced, handlerVars>>

\* The report cannot be built or written.
ReportFails(r) ==
  /\ at[r] = "report" /\ rd[r] = "work"
  /\ End(r, "failed")
  /\ UNCHANGED <<shared, announced, handlerVars>>

\* The tool's result is looked at only after the after_tool_call checkpoint;
\* so is the step budget of auto_explore.  Only the guided loop can wait for a
\* tool's approval: recording the pause raises in auto_explore.
ToolEndsRun(r) ==
  /\ at[r] = "tooled" /\ rd[r] = "work"
  /\ \E c \in {"failed", "blocked", "requires_approval"} :
       /\ c = "requires_approval" => ~AutoExplore
       /\ End(r, c)
  /\ UNCHANGED <<shared, announced, handlerVars>>

\* build_report after its checkpoint.
BuildReport(r) ==
  /\ at[r] = "report" /\ rd[r] = "work"
  /\ report' = "full"
  /\ ctx' = [ctx EXCEPT ![r] = "completed"]
  /\ Enter(r, "review", "work")
  /\ UNCHANGED <<status, flags, approvals, steps, announced, handlerVars, history>>

\* review_report, compact_context and maybe_revise: no checkpoint.
Review(r) ==
  /\ at[r] = "review"
  /\ Enter(r, "settle", "work")
  /\ ctx' \in {ctx, [ctx EXCEPT ![r] = "failed"]}
  /\ UNCHANGED <<shared, steps, announced, handlerVars, history>>

\* _run_async_task takes the run's outcome over into the task status; when
\* the workflow call itself raised (cleanup), a success becomes a failure.
Settle(r) ==
  /\ at[r] = "settle"
  /\ \/ status' = StatusOf(ctx[r])
     \/ status' = IF StatusOf(ctx[r]) = "succeeded" THEN "failed" ELSE StatusOf(ctx[r])
  /\ Enter(r, "idle", "work")
  /\ ctx' = [ctx EXCEPT ![r] = "none"]
  /\ steps' = [steps EXCEPT ![r] = 0]
  /\ due' = [due EXCEPT ![r] = {}]
  /\ announced' = [announced EXCEPT ![r] = "none"]
  /\ UNCHANGED <<flags, approvals, report, handlerVars>>

WorkerAction(r) ==
  \/ InitTask(r) \/ InitTaskFails(r)
  \/ ReadCancel(r) \/ ReadStop(r) \/ ClearAfterStop(r) \/ ReadPause(r)
  \/ Advance(r) \/ Gate(r) \/ ProviderCall(r) \/ ValidatePlan(r)
  \/ UseTool(r) \/ RejectDecision(r) \/ ToolEndsRun(r)
  \/ BuildReport(r) \/ ReportFails(r) \/ Review(r) \/ Settle(r)

-----------------------------------------------------------------------------

\* create_and_run_task_async has registered the task and started its worker.
Init ==
  /\ status = "running"
  /\ flags = [pause |-> FALSE, cancel |-> FALSE, stop |-> FALSE,
              override |-> FALSE, forTask |-> FALSE]
  /\ approvals = {}
  /\ report = "none"
  /\ \E first \in Runners :
       at = [r \in Runners |-> IF r = first THEN "init" ELSE "idle"]
  /\ rd = [r \in Runners |-> "work"]
  /\ ctx = [r \in Runners |-> "none"]
  /\ steps = [r \in Runners |-> 0]
  /\ hpc = [h \in Handlers |-> "idle"]
  /\ seen = [h \in Handlers |-> "running"]
  /\ calls = 0
  /\ due = [r \in Runners |-> {}]
  /\ announced = [r \in Runners |-> "none"]

\* Every worker has ended and no request is being served.
Quiet ==
  /\ \A r \in Runners : ~Live(r)
  /\ \A h \in Handlers : hpc[h] = "idle"
  /\ UNCHANGED vars

Next ==
  \/ \E h \in Handlers : HandlerAction(h)
  \/ \E r \in Runners : WorkerAction(r)
  \/ Quiet

\* Threads that have started keep running; nobody has to make a request.
Fairness ==
  /\ \A r \in Runners : WF_vars(WorkerAction(r))
  /\ \A h \in Handlers : WF_vars(hpc[h] # "idle" /\ HandlerAction(h))

Spec == Init /\ [][Next]_vars
FairSpec == Spec /\ Fairness
-----------------------------------------------------------------------------
(* Properties *)

TypeOK ==
  /\ status \in TaskStatus
  /\ flags \in [pause: BOOLEAN, cancel: BOOLEAN, stop: BOOLEAN,
                override: BOOLEAN, forTask: BOOLEAN]
  /\ approvals \subseteq {"llm_budget", "llm_timeout"}
  /\ report \in {"none", "partial", "full"}
  /\ at \in [Runners -> Stage]
  /\ rd \in [Runners -> {"cancel", "stop", "pause", "clear", "work", "call",
                      "repair", "recall"}]
  /\ ctx \in [Runners -> RunStatus]
  /\ steps \in [Runners -> 0 .. MaxSteps]
  /\ hpc \in [Handlers -> HandlerStep]
  /\ seen \in [Handlers -> TaskStatus]
  /\ calls \in 0 .. MaxCalls
  /\ due \in [Runners -> SUBSET Request]
  /\ announced \in [Runners -> {"none", "paused", "canceled", "succeeded_partial"}]

\* A task shown as running is being worked on: a worker is live, or the
\* request that showed it as running is about to start one.  It relies on the
\* order "mark running, then start the thread" in resume_task and
\* _resolve_budget_approval and on Settle never writing "running".
NoPhantomRunning ==
  status = "running" =>
    \/ \E r \in Runners : Live(r)
    \/ \E h \in Handlers : hpc[h] = "spawn"

\* A run that has passed its last checkpoint owes no request: whatever was
\* asked for while it still had a checkpoint to reach, and was not replaced by
\* a later request or erased by clear_transient_flags, has ended the run.  For
\* cancel nothing erases it, so a cancelled run never completes.
RequestsHeeded ==
  \A r \in Runners : at[r] \in {"review", "settle", "idle"} => due[r] = {}

\* A task that is shown as succeeded, wholly or in part, has a final report.
SucceededHasReport ==
  status \in {"succeeded", "succeeded_partial"} => report # "none"

\* The outcome check_control_state announces as an event ("Task paused by
\* user", "Task canceled by user", the partial report) is the outcome with
\* which the run ends.
AnnouncedOutcomeKept ==
  \A r \in Runners :
    at[r] = "settle" => announced[r] \in {"none", ctx[r]}

\* Every run ends, whatever requests arrive.
EveryRunEnds == \A r \in Runners : Live(r) ~> ~Live(r)
=============================================================================
