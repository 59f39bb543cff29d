-------------------------- MODULE ApprovalReplay --------------------------
(***************************************************************************)
(* Human approval of risky tool calls in one task: the gateway that asks,  *)
(* the LangGraph interrupt, the decision endpoint that resumes the graph,  *)
(* and the replay of the execute node that a resume amounts to.            *)
(*                                                                         *)
(* LangGraph runs an interrupted node again from its start.  The n-th      *)
(* interrupt() of a node returns the n-th value the graph was resumed      *)
(* with; one that finds no value interrupts again.  The node's own effects *)
(* (tools, approvals, pending calls) are not undone.  Control requests     *)
(* are the subject of TaskControl and do not arrive here.                  *)
(***************************************************************************)
EXTENDS Naturals, Sequences

CONSTANTS
  Calls,         \* calls of browser tools and ask_human: name and arguments
  Open,          \* the call of browser_open
  Observing,     \* calls of tools that leave an observation: observe, click, extract
  Verdict,       \* Verdict[c]: what the risk gate may say of c without override
  AlwaysAsk,     \* calls whose descriptor asks whatever the override
  Plans,         \* plans the validator accepts, without tool_search and tool_load
  Handlers,      \* server threads that execute decisions
  MaxDecisions,  \* bound: decisions made in a behaviour
  MaxPages,      \* public_web.max_pages_per_task
  ToolFaults,    \* a tool call may fail, and so may what follows the plan
  Patient        \* the user decides only after the worker has ended

ASSUME ConstantsAssumption ==
  /\ Open \in Calls /\ Observing \subseteq Calls \ {Open}
  /\ Verdict \in [Calls -> SUBSET {"allow", "ask", "block"}]
  /\ Verdict[Open] = {"allow"}
  /\ AlwaysAsk \subseteq {c \in Calls : "allow" \notin Verdict[c]}
  /\ Plans \subseteq Seq(Calls)
  /\ \A p \in Plans : Len(p) > 0 /\ p[1] = Open
  /\ ToolFaults \in BOOLEAN /\ Patient \in BOOLEAN
  /\ MaxDecisions \in Nat
  /\ MaxPages \in Nat \ {0}

VARIABLES
  plan,       \* workflow.plan
  pos,        \* step the execute node is at
  phase,      \* what the node does next with that step
  under,      \* approval_override_id of the invocation, 0 if none
  asked,      \* interrupt() calls of this execution of the node
  answers,    \* approval ids the graph has been resumed with, in order
  graph,      \* "running", "interrupted" or "ended"
  outcome,    \* state["status"] of the graph that has ended
  ctx,        \* context.state.status
  approvals,  \* ApprovalStore: call and state of each request, by id
  pending,    \* PendingApprovalManager: ids that hold a pending call
  page,       \* the browser page is open
  observed,   \* runtime.last_observation is not None
  opened,     \* _public_pages_opened
  log,        \* history: the tools run so far and their approval_override_id
  status,     \* _TaskState.status
  adapter,    \* _langgraph_adapters holds the task's adapter
  worker,     \* the thread that ran the graph first
  read,       \* the status the worker has read from the context
  hpc, hid,   \* a handler's next step and the approval it decides
  result,     \* status of the LangGraphResumeResult
  decisions,  \* decisions made so far
  failedTold  \* history: a resume has published task_failed

nodeVars  == <<plan, pos, phase, under, asked, page, observed, opened, log>>
graphVars == <<graph, outcome, ctx, answers>>
store     == <<approvals, pending>>
service   == <<status, adapter, failedTold>>
handler   == <<hpc, hid, result, decisions>>
workerVars == <<worker, read>>
vars == <<nodeVars, graphVars, store, service, handler, workerVars>>

-----------------------------------------------------------------------------
(* Approvals *)

Ids == 1 .. Len(approvals)

Undecided(i) == approvals[i].state = "pending"

\* Mutant: a call that is pending is not found.
ExistingLost(c) == {}

\* _find_existing_pending, of the gateway and of the bridge.
Existing(c) == {i \in pending : approvals[i].call = c}

\* create_request and create_pending_tool_call, unless the call is pending.
AskedApprovals(c) ==
  IF Existing(c) # {} THEN approvals
  ELSE Append(approvals, [call |-> c, state |-> "pending"])

AskedPending(c) ==
  IF Existing(c) # {} THEN pending ELSE pending \cup {Len(approvals) + 1}

AskFor(c) ==
  /\ approvals' = AskedApprovals(c)
  /\ pending' = AskedPending(c)

-----------------------------------------------------------------------------
(* The execute node; the worker runs it first, a decision's handler later *)

Call == plan[pos]

At(p) == graph = "running" /\ phase = p

\* The graph runs to its end: finalize_task.
End(c) ==
  /\ graph' = "ended"
  /\ ctx' = c
  /\ outcome' = IF c = "completed" THEN "succeeded" ELSE c

\* Mutant: a call that is already pending is let through.
GateAllowsPending ==
  /\ At("gate")
  /\ "allow" \in Verdict[Call] \/ Existing(Call) # {}
  /\ phase' = "tool" /\ under' = 0
  /\ UNCHANGED <<plan, pos, asked, page, observed, opened, log, graphVars, store>>

\* The gateway's policy check of the step.
GateAllows ==
  /\ At("gate")
  /\ "allow" \in Verdict[Call]
  /\ phase' = "tool" /\ under' = 0
  /\ UNCHANGED <<plan, pos, asked, page, observed, opened, log, graphVars, store>>

\* A blocked call; the node has an observation to return, or it fails.
GateBlocks ==
  /\ At("gate")
  /\ "block" \in Verdict[Call]
  /\ End(IF observed THEN "blocked" ELSE "failed")
  /\ UNCHANGED <<nodeVars, answers, store>>

\* The request is made and the node goes on to interrupt.
GateAsks ==
  /\ At("gate")
  /\ "ask" \in Verdict[Call]
  /\ AskFor(Call)
  /\ phase' = "bridge"
  /\ UNCHANGED <<plan, pos, under, asked, page, observed, opened, log, graphVars>>

\* The value that the n-th interrupt() returns, 0 if it interrupts.
AnswerTo(n) == IF n <= Len(answers) THEN answers[n] ELSE 0

\* create_interrupt_payload and interrupt().
Bridge ==
  /\ At("bridge")
  /\ AskFor(Call)
  /\ LET answer == AnswerTo(asked + 1) IN
       \/ /\ answer # 0
          /\ asked' = asked + 1
          /\ under' = answer
          /\ phase' = "override"
          /\ ctx' = "resuming"
          /\ UNCHANGED graph
       \/ /\ answer = 0
          /\ graph' = "interrupted"
          /\ ctx' = "requires_approval"
          /\ UNCHANGED <<phase, under, asked>>
  /\ UNCHANGED <<plan, pos, page, observed, opened, log, outcome, answers>>

\* The second invocation carries the override, so the risk gate is not asked.
OverrideAdmits ==
  /\ At("override")
  /\ Call \notin AlwaysAsk
  /\ phase' = "tool"
  /\ UNCHANGED <<plan, pos, under, asked, page, observed, opened, log, graphVars, store>>

\* The descriptor asks again; the node takes that for a blocked tool.
OverrideAsksAgain ==
  /\ At("override")
  /\ Call \in AlwaysAsk
  /\ approvals' = AskedApprovals(Call)
  /\ pending' = AskedPending(Call) \ {under}
  /\ End("failed")
  /\ UNCHANGED <<nodeVars, answers>>

\* The step is done: the next one, or the end of the plan.
NextStep ==
  /\ observed' = (observed \/ Call \in Observing)
  /\ pos' = pos + 1
  /\ phase' = IF pos = Len(plan) THEN "report" ELSE "gate"
  /\ UNCHANGED graphVars

ToolEnds(c) ==
  /\ End(c)
  /\ UNCHANGED <<pos, phase, observed, answers>>

\* The provider runs the call.  Opening a page counts against the budget of
\* public pages before the navigation that may fail; a refused one leaves an
\* observation of its own.
Provider ==
  \/ /\ Call = Open /\ opened < MaxPages
     /\ opened' = opened + 1
     /\ page' = TRUE
     /\ NextStep \/ (ToolFaults /\ ToolEnds("failed"))
  \/ /\ Call = Open /\ opened = MaxPages
     /\ ToolEnds("blocked")
     /\ UNCHANGED <<page, opened>>
  \/ /\ Call # Open
     /\ (page /\ NextStep) \/ ((ToolFaults \/ ~page) /\ ToolEnds("failed"))
     /\ UNCHANGED <<page, opened>>

\* The provider runs and the approval's pending call is popped.
RunTool ==
  /\ At("tool")
  /\ Provider
  /\ log' = Append(log, [call |-> Call, id |-> under])
  /\ pending' = pending \ {under}
  /\ under' = 0
  /\ UNCHANGED <<plan, asked, approvals>>

\* TERMINAL_GRAPH_STATUSES, of the statuses a context has here.
Terminal == {"failed", "blocked", "requires_approval"}

\* The plan is done and no tool has left an observation: the node fails.
EndUnseen ==
  /\ At("report") /\ ~observed
  /\ End("failed")
  /\ UNCHANGED <<nodeVars, answers, store>>

\* The plan is done, but the status an earlier run of the node or a resume
\* has left in the context is taken for the end: there is no report.
EndUnreported ==
  /\ At("report") /\ observed /\ ctx \in Terminal
  /\ End(ctx)
  /\ UNCHANGED <<nodeVars, answers, store>>

\* build_report up to finalize_task.
Report ==
  /\ At("report") /\ observed /\ ctx \notin Terminal
  /\ End("completed") \/ (ToolFaults /\ End("failed"))
  /\ UNCHANGED <<nodeVars, answers, store>>

NodeStep ==
  /\ \/ GateAllows \/ GateBlocks \/ GateAsks \/ Bridge
     \/ OverrideAdmits \/ OverrideAsksAgain \/ RunTool
     \/ EndUnseen \/ EndUnreported \/ Report
  /\ UNCHANGED <<service, handler, workerVars>>

-----------------------------------------------------------------------------
(* The worker that started the task *)

\* Mutant: "completed" is passed on as it is.
StatusOfVerbatim(c) == IF c = "running" THEN "succeeded" ELSE c

\* status_from_context_state.
StatusOf(c) == IF c \in {"running", "completed"} THEN "succeeded" ELSE c

\* adapter.run: the browser outlives an interrupted graph.
RunReturns ==
  /\ worker = "run" /\ graph # "running"
  /\ page' = (page /\ graph = "interrupted")
  /\ worker' = "read"
  /\ UNCHANGED <<plan, pos, phase, under, asked, observed, opened, log, graphVars, store,
                 service, handler, read>>

\* _run_async_task reads the context's status, then writes the task's.
SettleRead ==
  /\ worker = "read"
  /\ worker' = "write"
  /\ read' = StatusOf(ctx)
  /\ UNCHANGED <<nodeVars, graphVars, store, service, handler>>

SettleWrite ==
  /\ worker = "write"
  /\ worker' = "done"
  /\ status' = read
  /\ read' = "running"
  /\ UNCHANGED <<nodeVars, graphVars, store, adapter, failedTold, handler>>

WorkerAction == RunReturns \/ SettleRead \/ SettleWrite

-----------------------------------------------------------------------------
(* The decision endpoint *)

Go(h, s) == hpc' = [hpc EXCEPT ![h] = s]

\* Steps of an approval that resumes the graph.
ResumeStep == {"lookup", "invoke", "await", "mark", "finish"}

Resuming == \E h \in Handlers : hpc[h] \in ResumeStep

\* Mutant: a request that is decided can be decided again.
DecideAgainAs(h, i, new) ==
  /\ hpc[h] = "idle" /\ decisions < MaxDecisions
  /\ Patient => worker = "done"
  /\ approvals' = [approvals EXCEPT ![i].state = new]
  /\ decisions' = decisions + 1
  /\ hid' = [hid EXCEPT ![h] = i]

\* ApprovalStore.decide, atomic under its lock.
DecideAs(h, i, new) ==
  /\ hpc[h] = "idle" /\ decisions < MaxDecisions
  /\ Patient => worker = "done"
  /\ Undecided(i)
  /\ approvals' = [approvals EXCEPT ![i].state = new]
  /\ decisions' = decisions + 1
  /\ hid' = [hid EXCEPT ![h] = i]

\* Resumes follow one another, and the first run has returned: what LangGraph
\* does with a graph invoked by two threads is not modelled.
Approve(h, i) ==
  /\ DecideAs(h, i, "approved")
  /\ worker # "run" /\ ~Resuming
  /\ Go(h, "lookup")
  /\ UNCHANGED <<nodeVars, graphVars, pending, service, result, workerVars>>

Reject(h, i) ==
  /\ DecideAs(h, i, "rejected")
  /\ Go(h, "drop")
  /\ UNCHANGED <<nodeVars, graphVars, pending, service, result, workerVars>>

Drop(h) ==
  /\ hpc[h] = "drop"
  /\ pending' = pending \ {hid[h]}
  /\ Go(h, "rejectMark")
  /\ UNCHANGED <<nodeVars, graphVars, approvals, service, hid, result, decisions, workerVars>>

\* Mutant: the task keeps its status.
RejectWithoutMark(h) ==
  /\ hpc[h] = "rejectMark"
  /\ Go(h, "idle")
  /\ UNCHANGED <<nodeVars, graphVars, store, service, hid, result, decisions, workerVars>>

RejectMark(h) ==
  /\ hpc[h] = "rejectMark"
  /\ status' = "rejected"
  /\ Go(h, "idle")
  /\ UNCHANGED <<nodeVars, graphVars, store, adapter, failedTold, hid, result,
                 decisions, workerVars>>

\* resume_langgraph_after_approval; without an adapter nothing can resume.
Lookup(h) ==
  /\ hpc[h] = "lookup"
  /\ status' = IF adapter THEN "resuming" ELSE "failed"
  /\ result' = "failed"
  /\ Go(h, IF adapter THEN "invoke" ELSE "finish")
  /\ UNCHANGED <<nodeVars, graphVars, store, adapter, failedTold, hid, decisions, workerVars>>

\* LangGraph: an interrupted node starts again.
FirstStep == 1

\* LangGraph: Command(resume=...) on an interrupted graph delivers one more
\* answer; on a graph that has ended it runs nothing.
InvokeGraph(h) ==
  /\ hpc[h] = "invoke"
  /\ IF graph = "interrupted"
       THEN /\ graph' = "running"
            /\ answers' = Append(answers, hid[h])
            /\ asked' = 0 /\ pos' = FirstStep /\ phase' = "gate"
       ELSE UNCHANGED <<graph, answers, asked, pos, phase>>
  /\ Go(h, "await")
  /\ UNCHANGED <<plan, under, page, observed, opened, log, outcome, ctx, store, service,
                 hid, result, decisions, workerVars>>

\* LangGraphResumeHandler.resume once the graph stands still: cleanup closes
\* the browser, also when the graph was interrupted again.
ResumeReturns(h) ==
  /\ hpc[h] = "await" /\ graph # "running"
  /\ page' = FALSE
  /\ \/ /\ result' = IF graph = "interrupted" THEN "requires_approval" ELSE outcome
        /\ UNCHANGED ctx
     \/ /\ ToolFaults
        /\ result' = "failed" /\ ctx' = "failed"
  /\ Go(h, "mark")
  /\ UNCHANGED <<plan, pos, phase, under, asked, observed, opened, log, graph,
                 outcome, answers, store, service, hid, decisions, workerVars>>

\* Mutant: the status is only written when the task has succeeded.
ResumeMarkSuccess(h) ==
  /\ hpc[h] = "mark"
  /\ status' = IF result = "succeeded" THEN result ELSE status
  /\ Go(h, "finish")
  /\ UNCHANGED <<nodeVars, graphVars, store, adapter, failedTold, hid, result,
                 decisions, workerVars>>

ResumeMark(h) ==
  /\ hpc[h] = "mark"
  /\ status' = result
  /\ Go(h, "finish")
  /\ UNCHANGED <<nodeVars, graphVars, store, adapter, failedTold, hid, result,
                 decisions, workerVars>>

\* A resume that succeeded drops the adapter, any other publishes task_failed.
ResumeFinish(h) ==
  /\ hpc[h] = "finish"
  /\ adapter' = (adapter /\ result # "succeeded")
  /\ failedTold' = (failedTold \/ result # "succeeded")
  /\ Go(h, "idle")
  /\ UNCHANGED <<nodeVars, graphVars, store, status, hid, result, decisions, workerVars>>

HandlerAction(h) ==
  \/ \E i \in Ids : Approve(h, i) \/ Reject(h, i)
  \/ Drop(h) \/ RejectMark(h)
  \/ Lookup(h) \/ InvokeGraph(h) \/ ResumeReturns(h) \/ ResumeMark(h) \/ ResumeFinish(h)

-----------------------------------------------------------------------------

\* init_task to validate_plan have run; the execute node begins.
Init ==
  /\ plan \in Plans
  /\ pos = 1 /\ phase = "gate" /\ under = 0 /\ asked = 0
  /\ answers = <<>> /\ graph = "running" /\ outcome = "running" /\ ctx = "running"
  /\ approvals = <<>> /\ pending = {}
  /\ page = FALSE /\ observed = FALSE /\ opened = 0 /\ log = <<>>
  /\ status = "running" /\ adapter = TRUE /\ failedTold = FALSE
  /\ worker = "run" /\ read = "running"
  /\ hpc = [h \in Handlers |-> "idle"]
  /\ hid = [h \in Handlers |-> 0]
  /\ result = "failed"
  /\ decisions = 0

\* The worker has ended and no decision is being carried out.
AtRest == worker = "done" /\ \A h \in Handlers : hpc[h] = "idle"

Next ==
  \/ NodeStep
  \/ WorkerAction
  \/ \E h \in Handlers : HandlerAction(h)
  \/ AtRest /\ UNCHANGED vars

\* Threads that have started keep running; nobody has to decide.
Fairness ==
  /\ WF_vars(NodeStep)
  /\ WF_vars(WorkerAction)
  /\ \A h \in Handlers : WF_vars(hpc[h] # "idle" /\ HandlerAction(h))

Spec == Init /\ [][Next]_vars
FairSpec == Spec /\ Fairness

-----------------------------------------------------------------------------
(* Properties *)

ContextStatus ==
  {"running", "requires_approval", "resuming", "completed", "failed", "blocked"}

Outcome == {"running", "requires_approval", "succeeded", "failed", "blocked"}

TaskStatus == Outcome \cup {"resuming", "rejected"}

TypeOK ==
  /\ plan \in Plans
  /\ pos \in 1 .. Len(plan) + 1
  /\ phase \in {"gate", "bridge", "override", "tool", "report"}
  /\ under \in 0 .. Len(approvals)
  /\ asked \in 0 .. Len(answers)
  /\ answers \in Seq(Nat)
  /\ graph \in {"running", "interrupted", "ended"}
  /\ outcome \in Outcome
  /\ ctx \in ContextStatus
  /\ approvals \in Seq([call : Calls, state : {"pending", "approved", "rejected"}])
  /\ pending \subseteq Ids
  /\ page \in BOOLEAN
  /\ observed \in BOOLEAN
  /\ opened \in 0 .. MaxPages
  /\ log \in Seq([call : Calls, id : Nat])
  /\ status \in TaskStatus
  /\ adapter \in BOOLEAN
  /\ failedTold \in BOOLEAN
  /\ worker \in {"run", "read", "write", "done"}
  /\ read \in TaskStatus
  /\ hpc \in [Handlers -> {"idle", "drop", "rejectMark"} \cup ResumeStep]
  /\ hid \in [Handlers -> 0 .. Len(approvals)]
  /\ result \in Outcome
  /\ decisions \in 0 .. MaxDecisions

Approved(i) == i \in Ids /\ approvals[i].state = "approved"

\* A call the risk gate would not let through has only run under an approval
\* that a human has granted: rejected and undecided requests let nothing run,
\* however often the node is replayed.
NothingUnasked ==
  \A n \in DOMAIN log :
    "allow" \in Verdict[log[n].call] \/ Approved(log[n].id)

\* What runs under an approval is the call that the approval describes.
ApprovedCallRuns ==
  \A n \in DOMAIN log :
    log[n].id # 0 => approvals[log[n].id].call = log[n].call

\* A replay has come to the end of its plan without the answer it was started
\* for: the gate has let through what it had asked about.
AnswerUnused == phase = "report" /\ asked < Len(answers)

\* A task at rest waits for an approval exactly when there is a request that
\* the user can still decide.
WaitsWhileUndecided ==
  AtRest /\ ~AnswerUnused =>
    (status = "requires_approval" <=> \E i \in Ids : Undecided(i))

\* When a resume has told the clients that the task failed, it is over: it
\* does not wait for the next approval.
FailureToldIsFinal ==
  AtRest /\ failedTold /\ ~AnswerUnused => status # "requires_approval"

\* The exception to both, and what the code makes of it: all the plan's calls
\* have run, yet the context still says "requires_approval", which ends the
\* graph without a report (_do_execute_plan); the resume writes it and tells
\* a failure (resume_langgraph_after_approval).  The task never succeeds and
\* may wait for an approval that nobody can give.
UnusedNeverSucceeds ==
  AtRest /\ AnswerUnused =>
    /\ status \in {"requires_approval", "failed"}
    /\ failedTold /\ ~ \E i \in Ids : Undecided(i)

\* What a task at rest says of its approvals and of its failure is so, but for
\* the replay that was let through.
ToldTruly == WaitsWhileUndecided /\ FailureToldIsFinal /\ UnusedNeverSucceeds

\* A task that has succeeded stays so: no approval is left whose decision
\* would replace the status.
SuccessIsFinal == [][status = "succeeded" => status' = "succeeded"]_vars

\* The approvals of the task keep ApprovalContract.
Contract == INSTANCE ApprovalContract WITH
  requests <- approvals, ran <- log, Free <- {c \in Calls : "allow" \in Verdict[c]}

\* Replays included, a request is decided once, an approved one lets the call
\* it describes run at most once, and nothing else runs that the gate holds.
KeepsContract == Contract!Spec

\* A decision is carried out: the task does not stay "resuming".
ResumingEnds == status = "resuming" ~> status # "resuming"
=============================================================================
