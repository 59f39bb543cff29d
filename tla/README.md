# VaniScope: TLA+ models and proofs

VaniScope runs browser research tasks: an HTTP API starts a task, a LangGraph
workflow plans and executes browser tools, a language model is asked through a
budget gate, risky tools wait for a human, and a console follows the events.
This directory holds models of that program, the TLC configurations that check
them on small instances, and theorems proved with TLAPS.

Every definition is translated from the Python source; `PROJECT.json` gives the
file and lines of each one under `map`. Paths below are relative to
`src/webscoper/` unless they start with `src/`.

## 1. Inventory

| Component | State it keeps | Operations | Correct when |
|---|---|---|---|
| Task control (`runtime/control.py`, `api/task_service.py`, `api/approvals.py`) | per-task flags, `_TaskState.status`, pending LLM approvals | pause, resume, cancel, stop-and-summarize, budget and timeout answers | a request is obeyed or replaced, never ignored; status and workers agree |
| Workflow nodes (`workflows/langgraph_backend/nodes.py`, `graph.py`, `runtime/execution/handler.py`) | the run's context and its status | init, prompt, plan, validate, execute, report, review, revise, finalize | a run ends, with the outcome it announced |
| Tool approval and resume (`runtime/safety/approvals.py`, `workflows/langgraph_approval.py`, `langgraph_backend/resume.py`, `adapter.py`, `api/resume.py`) | approvals, pending tool calls, the interrupted graph, its adapter and browser | interrupt, decide, resume, cleanup | an approved call runs once, and only for the call that was approved |
| Event stream (`runtime/execution/events.py`, `api/app.py`) | per-run event list, bus subscriptions | append, publish, snapshot, subscribe, end of stream | every subscriber sees each event once and the stream ends |
| LLM budget (`runtime/llm/router.py`, `budget.py`) | call records, consumed tokens, the one-call override | decide, gate, call, retry | limits hold; an approval lets one call through |
| Tool gateway, policy, risk gate (`tools/gateway/*`, `runtime/safety/risk_gate.py`, `browser/risk.py`) | pending calls, tool registry | check, ask, invoke, block | no dangerous tool without an approval |
| Browser runtime, readiness, recovery (`browser/*`) | page, last observation | open, click, type, close; bounded recovery attempts | no stale observation is acted on; recovery terminates and repeats no effect |
| Planner, plan validation, auto-explore parsing (`runtime/execution/planner.py`, `runtime/llm/planner.py`, `runtime/llm/auto_explore.py`) | none | build, validate, parse, repair | an accepted plan respects budget and registry |
| Reviewer and revision (`runtime/review/reviewer.py`) | none | review, revise once | the verdict follows the findings |
| Persistence (`runtime/persistence/sqlite_store.py`, `_persist_*` of `task_service.py`) | database rows | insert, update, list | the row agrees with the service when the task rests |
| Restart (`api/task_state.py`, `runtime/artifacts/trace.py`) | transcript files | derive the status | the derived status is the last live one |
| Library path (`runtime/execution/loop.py`, `tool_executor.py`) | loop state | run without LangGraph | step and failure budgets hold |
| Artifacts, compaction, inspector, prompt, skills, eval, console | files, views | render | mostly formatting and presentation |

How they interact. The API's endpoints are synchronous functions, so FastAPI
runs each on a thread of its pool. They share `_TaskState`, the flags and the
approval stores with the workers: the first worker is started by
`create_and_run_task_async`, later ones by `resume_task` and by the answers to
LLM approvals. A worker drives the LangGraph workflow and looks at the flags
only at the checkpoints (`check_control_state`); it asks the provider through
the budget gate, which reads and clears the same flags. A tool that needs an
approval interrupts the graph; the decision endpoint resumes it on its own
thread. Events go to a store, to a bus and to a file, and the console reads the
stream. A worker that ends writes the database row.

What is hard: requests that arrive between two reads of a worker; two workers
on one task; flags one party clears under another; a status written by many
threads in steps that are not atomic; a graph node that is replayed from its
first step; a decision taken while the asking worker has not settled; cleanup
after an interruption; a terminal event and a terminal status that change at
different times. `PROJECT.json` lists these under `hazards`, each at its line.

## 2. Plan

| # | Module | Models | Properties | Theorems |
|---|---|---|---|---|
| 1 | `TaskControl` | control requests, flags, workers, LLM approvals | requests heeded, running means worked on, reported success, every run ends | type correctness and four invariants (done) |
| 2 | `ApprovalReplay`, `ApprovalContract` | requests, interrupts, replay, pending calls, resume, cleanup | nothing runs without a decision; refines "decided once, used once" | type correctness, nothing runs unasked; the contract, `ToldTruly` and `SuccessIsFinal` for plans that ask once (done) |
| 3 | `EventStream` | store, bus, file, connections | nothing missed or repeated, producer order, a late console is let go | type correctness, `Delivered`, `FileWhole` (done) |
| 4 | `LLMBudget` | gate, counters, overrides, retries | calls and spending bounded, one answer admits one call | type correctness, `WithinLimits`, `OverrideAdmitsOne`, `GrantHonoured` (done) |
| 5 | `ToolGateway` | validator, policy, risk gate, lazy tools, approvals over several runs | consent, closed tools, one pending approval, no wait that nobody can end | type correctness, `OnlyAdmittedRuns`, `ApprovalsAnswerable` (done) |
| 6 | `TaskRecords` | memory, transcript, row and conversation over failures and restarts | agreement at rest, a restart makes up no success | type correctness, `RowsAgree`, `StatusIsReal`, `RestartKeeps` (done) |
| 7 | `BrowserRuntime` | browser tools, verification, recovery | one retry, success was seen, a call ends | type correctness, `ClickIsHonest`, `CallsLeaveTruth`, a bound on a call's steps (done) |
| 8 | `LibraryRun` | the run without LangGraph under concurrent requests | one late action at most, the last event is true | type correctness, `RequestsCost`, the safety half of `EndsTruly`, a bound on a run's steps (done) |
| 9 | `ActionPlanning` | reading and repairing a model's answers | documented answers are accepted, artifacts and events tell the truth | type correctness, `AnswersAreRead`, `RepairsAccounted` (done) |
| 10 | `ReportReview` | review, revision plan, revision | a revision adds no error and no evidence of its own, what can be cited is cited | type correctness, `RevisionMends`, `ClaimsAnswered` (done) |

All ten are written, checked and have theorems. A property that is a conjunction of named parts
(`Delivered`, `RowsAgree`, ...) is checked as a whole; the sections below say what
each part states. The modules share no state at run time; they
cut the program where its parts meet, and each leaves to another what it does
not have:

- `TaskControl` has the threads of one task and treats a tool approval as one
  of the ways a guided run can end; `ApprovalReplay` has what follows, with a
  gate whose verdict is a choice; `ToolGateway` has the gate itself, and the runs
  of a task one after the other.
- `LLMBudget` counts what `TaskControl` leaves open (its `Decisions`), without
  overlapping workers.
- `ActionPlanning` decides the calls of auto-explore; `ToolGateway` takes any call
  that the validator or the action types admit; `BrowserRuntime` runs a call that
  the gate let through.
- `TaskRecords` takes over how a run ended and follows the status into the
  transcript, the row and the conversation. `EventStream` has the events.
- `LibraryRun` is the other way to run a task, without LangGraph.

## 3. `TaskControl`

### State and code

| Variable | Code |
|---|---|
| `status` | `_TaskState.status` |
| `flags` | `TaskControlState`: pause, cancel and stop requested, `budget_override_once`, `budget_override_for_task` |
| `approvals` | kinds of LLM approval pending in `ApprovalStore` |
| `report` | `final_report.md`: absent, partial, full |
| `at`, `rd`, `ctx`, `steps` | a worker's place in the graph, its next read there, `context.state.status`, executed tool steps |
| `hpc`, `seen` | an endpoint's next access, the status `stop_and_summarize_task` read |
| `due`, `announced` | history: requests a worker still owes, the outcome its own event announced |

One action is one access to shared state. An endpoint is a sequence of such
actions (`CancelRequest`, `CancelMark`): the flag store's lock covers one
operation, nothing covers the request. A checkpoint is three: `ReadCancel`,
`ReadStop`, `ReadPause` read the live flags one by one without the lock, since
`get` returns the shared object. `ReadStop` writes the partial report before
`ClearAfterStop` clears the flags, as in the code. `Gate` is
`AuditedBudgetedLLMClient.generate` up to the call, `ProviderCall` the rest.
`Settle` is the end of `_run_async_task`. `Spawn` is the thread start of
`resume_task` and of an answer; it asks nothing.

Two modes share the module. Guided mode asks the provider once for a plan and
executes it. `AutoExplore` runs the two steps of the seed plan and then asks
the provider for each step; its two checkpoints around the provider call lie
inside a `try` whose `except RuntimeError` also catches the interruption
(`Swallowed`). An answer that does not parse is repaired once.

Nondeterminism stands for what the model does not compute: the budget decision
(within `Decisions`), what the provider does (`LLMFaults`), the tool's result,
plan validation, the verdict of the review, and whether the workflow call
itself raises during cleanup.

### Runs

| Run | Checks | Shows |
|---|---|---|
| `guided` | `TypeOK`, `NoPhantomRunning`, `RequestsHeeded`, `SucceededHasReport`, `AnnouncedOutcomeKept` | the safety properties, two workers, two endpoints at once, three requests, every budget decision and provider fault |
| `auto` | `EveryRunEnds` | auto-explore with `start_run` allowed to raise: every run ends under weak fairness; the safety properties are proved for this mode too (below) |

The model also shows deviations that no run repeats, all of them with what the
console offers (`ConsoleOnly`): buttons gated by status, no second request
before the first returned.

- A pause or stop can vanish before a checkpoint sees it, although the console
  says "Requests are applied at the next safe checkpoint." `stop_and_summarize_task`
  finds the status `paused` that `pause_task` wrote while the worker still ran,
  writes the partial report itself and clears the transient flags
  (`api/task_service.py:637`); the gate's clear (`runtime/llm/router.py:331`)
  does the same. `RequestsHeeded` counts such a request as erased; a cancel is
  never erased, and the mutant that erases it is caught.
- A task shown as complete can have a live worker: `resume_task` starts a
  thread without asking whether the paused one has ended
  (`api/task_service.py:475`), and the first of the two to settle decides.
- In auto-explore a run that announced a pause or cancel can end as failed:
  `except RuntimeError` (`workflows/langgraph_backend/nodes.py:733`) catches the
  interruption. `AnnouncedOutcomeKept` is checked, and proved, for guided runs.
- A stop whose status read comes before the worker settles and whose status
  write comes after leaves `stop_requested` for ever.
- With `StartFaults` a run whose `start_run` raised is shown as succeeded without
  a report.

### Bounds

Two workers are enough for the overlaps: `Spawn` needs a free one and a third
only repeats what a second can do to a first. Two handlers interleave inside
each other; three requests allow pause, resume and then a third request against
two workers. Guided runs take one tool step, so that the checkpoints before and
after a tool are met; auto-explore takes three, of which two are the seed plan.
Workers and handlers are interchangeable, so `guided` uses their symmetry;
`auto` checks liveness and does not. It leaves the budget's `warning` decision,
which lets the call through as `allowed` does, to `guided`.

### Fairness

`WF` of each worker and of each endpoint that has begun: they are threads of
one process, which the operating system schedules, and none of their steps
waits for another party. No fairness for requests and answers: nobody has to
make one. `EveryRunEnds` holds because a checkpoint ends the run on every
request (a paused run ends, it does not wait), because the step budget bounds
the loop, and because an answer is repaired once.

### Proofs (`TaskControl_proofs`)

For every set of workers and handlers and every bound:

| Theorem | States | Assumes |
|---|---|---|
| `TypeCorrect` | `[]TypeOK` | the constants' assumption |
| `RunningIsWorkedOn` | `[]NoPhantomRunning` | - |
| `RequestsAreHeeded` | `[]RequestsHeeded` | - |
| `SuccessIsReported` | `[]SucceededHasReport` | `~StartFaults` |
| `GuidedOutcomeKept` | `[]AnnouncedOutcomeKept` | `~AutoExplore` |

`RequestsHeeded` is not inductive: it only speaks of a worker past its last
checkpoint. `Heeding` says of every worker that each request it owes is still
raised in the flags and will still be read by it (`WillRead`); a clear of the
flags erases the debt with them. `Reported` says of each worker that a context status which will be shown
as a success goes with a written report, and likewise of an endpoint about to
show `succeeded_partial`. `Announcing` relates `announced` to `ctx` from the
interruption on. All three were checked by TLC before they were proved. The two
assumptions are necessary: a run that fails before its context exists breaks
the one theorem, an interruption swallowed by the auto-explore loop the other.

Only model-checked: `EveryRunEnds`, since liveness under fairness is beyond the
prover.

## 4. `ApprovalReplay`

### State and code

| Variable | Code |
|---|---|
| `plan`, `pos`, `phase` | the validated plan, the step of the execute node and what it does next with it |
| `under`, `asked` | `approval_override_id` of the invocation; `interrupt()` calls of this execution of the node |
| `answers`, `graph` | the values the graph has been resumed with and whether it runs, is interrupted or has ended (LangGraph) |
| `outcome`, `ctx` | `state["status"]` of the graph, `context.state.status` |
| `approvals`, `pending` | `ApprovalStore`, `PendingApprovalManager` |
| `page`, `observed`, `opened` | the browser's page, whether `browser_runtime.last_observation` is set, `_public_pages_opened` |
| `status`, `adapter`, `failedTold` | `_TaskState.status`, `_langgraph_adapters`, history: `task_failed` published by a resume |
| `worker`, `read`, `hpc`, `hid`, `result` | the thread that ran the graph first; the threads that execute decisions |
| `log` | history: the tools run, with the approval that let each through |

The execute node asks the gateway about a call (`GateAllows`, `GateBlocks`,
`GateAsks`), interrupts with the request (`Bridge`), and after the resume
invokes the call again under the approval (`OverrideAdmits`, or
`OverrideAsksAgain` for a descriptor that always asks, such as `ask_human`'s;
the node takes that answer for a blocked tool). `RunTool` runs the provider and
pops the pending call. A blocked call ends the task as blocked only if there is an
observation to return with it, otherwise the node fails.

After the last step the node ends in one of three ways. With no observation left
by any tool it fails (`EndUnseen`, `workflows/langgraph_backend/nodes.py:611`);
`Observing` is the set of calls whose tools leave one, and opening a page is not
among them. With a context status in `TERMINAL_GRAPH_STATUSES` the graph takes
that status for its own and skips the report (`EndUnreported`, `nodes.py:304`,
`state_io.py:11`, `graph.py:84`). Otherwise the report is built (`Report`).

LangGraph is external and modelled from how the code uses it: an interrupted
node is run again from its start (`FirstStep`), the n-th `interrupt()` of the
node returns the n-th value the graph has been resumed with (`AnswerTo`), and a
resume of a graph that has ended runs nothing. Everything the node did before,
tools included, stays done. So the second resume of a plan meets the first risky
step again, with its answer but without its pending call.

`Verdict[c]` is a set: the risk gate looks at the page, and the same call may be
let through on one replay and held back on the next. `Patient` restricts the
user to decide once the worker that ran the graph has ended.

A control request during a resume and two threads invoking one graph at once
are outside the module: `Approve` waits until no other resume is under way and
the first run has returned. Rejections are not restricted. A rejection never
resumes the graph, so the branch of the node for a rejected answer is never
reached from the service and is left out. `MaxPages` counts every page as a
public one; local pages are not counted by the code. `tool_search` and
`tool_load`, which need neither page nor approval, are left out of the plans.

`ApprovalContract` is the abstract specification: a request is made (`Ask`) and
decided once (`Decide`); an approved request lets the call it describes run once
(`Use`), and nothing else runs but the calls in `Free` (`RunFree`). The refinement
takes the approvals for the requests, the log of tools for what ran, and for
`Free` the calls that some verdict of the gate allows.

### Runs

| Run | Checks | Shows |
|---|---|---|
| `replay_one` | `TypeOK`, `NothingUnasked`, `ToldTruly`, `KeepsContract`, `SuccessIsFinal`, `ResumingEnds` | a plan that asks at most once, decided after the worker settled: the contract is refined, the task waits exactly while a request is undecided (`WaitsWhileUndecided`), a failure that was told is final (`FailureToldIsFinal`), both but for a replay that was let through, which never succeeds (`UnusedNeverSucceeds`); a success is final, a resume ends |
| `replay_wrongcall` | `ApprovedCallRuns` (violated) | with three approvals an answer slips to another call: `PROJECT.json` quotes the sentence under `findings` |

`replay_one` is the scope in which the approval mechanism keeps what it
promises, tool faults and rejections included, with one exception, which
`ToldTruly` names (`AnswerUnused`). The gate asks about a call, the user grants
it, and on the replay the gate lets the same call through, as it may when the
page has changed (plan `<<open, wavering, look>>`). The node never comes to
`interrupt()` again, so nothing takes the context from `requires_approval`
(`workflows/langgraph_backend/nodes.py:405`) to `resuming` (`nodes.py:457`). The
plan runs to its end, every call of it made, and `requires_approval` is then taken
for the end of the graph (`nodes.py:304`): no report is built, and the resume
writes that status and publishes `task_failed` (`api/resume.py:98`). The task is
left waiting for an approval although no request is undecided and its failure has
been told. `UnusedNeverSucceeds` bounds the exception: such a task has not
succeeded, its failure is told and it has no request left to decide.

Outside the run's scope the model shows, with no run of their own:

- With two asking steps the second resume meets the first one again and runs its
  approved call a second time (`workflows/langgraph_backend/nodes.py:463`). The
  first resume, interrupted again, publishes `task_failed` although the task goes
  on, and the replay leaves a new request for the call it ran again, whose
  decision turns the succeeded task into a failed or rejected one.
- A decision before the worker has settled (`Patient = FALSE`) can leave
  `resuming` for ever: the worker reads the context's status during the replay
  and writes it after the final one (`api/task_service.py:342`).
- A risky call in auto-explore fails the task and leaves its request undecided
  (`workflows/langgraph_backend/nodes.py:911`); `ActionPlanning` has that step.

A call of `ask_human` (`human`) needs a task whose safety mode is not
`read_only`, which no caller in the repository creates; under `read_only` the
validator refuses such a step. The approval of a request and the creation of its
pending call are one step here; in the code a decision that falls between the
two finds no pending call.

### Bounds

`replay_one` has plans with no asking step, with one that always asks, with one
whose verdict changes between replays before or after a read, with reads on both
sides of the step that asks, with `ask_human`, with pages opened and never
observed, and with a second page that the replay's own page loads put beyond
`MaxPages`. Two handlers let a rejection run beside a resume, three decisions
are more than such a plan has requests. `replay_wrongcall` has plans of three
asking steps, and five pages, so that the limit does not hide the slip.

### Fairness

`FairSpec` has weak fairness of the node, the worker and each handler that has
begun: threads of one process. Decisions have none. `ResumingEnds` needs it of
all three: the status leaves `resuming` when the replay has come to rest.

### Proofs (`ApprovalReplay_proofs`)

For every set of calls, verdicts, plans and handlers, tool faults included:

| Theorem | States | Assumes |
|---|---|---|
| `TypeCorrect` | `[]TypeOK` | - |
| `NothingRunsUnasked` | `[]NothingUnasked` | - |
| `ContractKept` | `KeepsContract`, the refinement | `OneAsks` |
| `RestIsTold` | `[]ToldTruly` | `OneAsks`, `Patient` |
| `SuccessStays` | `SuccessIsFinal` | `OneAsks`, `Patient` |

`ConstantsAssumption` states what the plan validator and the configuration
guarantee. `OneAsks` says that at most one step of each plan may be asked about;
`replay_wrongcall` has three such steps and breaks the contract, so it cannot go.
Neither can `Patient` in the last two, as said above.

`Inv` is what authorises a tool on its way to it. `Granted` says that the
override of the invocation, every answer the graph has been resumed with and
every approval a handler is about to resume with have been approved, and that a
tool about to run has an override or the gate's permission; `Placed` that the
node stands at a call of the plan until it writes the report. Approvals are
append-only and a grant is never withdrawn (`Grows`), which carries `Granted`
over every step.

`Once` adds what the refinement needs: the node interrupts only at the step that
asks (`AskedHere`), every request is for that step's call (`RequestsAsked`), and
once a call has run under an approval that step is behind and the graph will not
run again (`UsedIsPast`), so no approval is used twice. Every step of the node, the
worker and the handlers is then a step of the contract or a stutter.

`Life` follows the one request of such a plan. A task is in one of six stages:
`Unasked`, `Waiting`, `Denied`, `Taken` (granted, the handler about to resume),
`Replaying`, `Over`; each fixes status, adapter, answers and what the one busy
handler (`Alone`) does. A replay is harmless because the step that asks still
finds its pending call and its answer (`Unspent`). The context shows
`requires_approval` until the replay takes its answer and `resuming` from then on
(`AskedShows`), so a replay that ends with its answer unused ends as
`requires_approval` or `failed`, and any other as one of the `Finals` (`Ends`,
`EndedAs`). `ToldTruly` and `SuccessIsFinal` are read off the stages.

Only model-checked: `ResumingEnds`, since it is liveness.

## 5. `EventStream`

| Variable | Code |
|---|---|
| `log`, `file` | `TaskEventStore._events` of the task; how many of them `events.jsonl` holds |
| `pub`, `settled`, `status` | a publisher's place in `_publish_task_event`; workers whose `_run_async_task` has ended; whether the status is `running` |
| `subs`, `queue` | subscriptions the bus knows, the `asyncio.Queue` of each |
| `at`, `history`, `seen`, `sent` | a connection's place in `event_generator`, the events `get_events` returned, `seen_event_ids`, history: what it sent |

Append, publish and write are three steps of a publisher's thread
(`AppendEvent`, `Publish`, `ListEvents`/`WriteFile`), and only the append is
under a lock. A connection subscribes (`Open`), reads and sends the history,
looks at the status once (`CheckStatus`) and then takes events from its queue.
`asyncio.Queue.get` looks at the queue (`LookEmpty`) and registers to be woken
(`Register`) in two steps, since `put_nowait` is called from other threads. Two
handles of the file open at the same time write the same lines from the start.

Run `stream`: `Delivered`, which is `NothingMissed` (an event is sent, queued or
about to be published), `SentOnce` and `ProducerOrder` (the events of one publisher
arrive in its order), `FileWhole` (unless two writes overlapped) and
`LateConsoleReleased`. One worker, one endpoint and one connection with three
events and one status change by an endpoint: an event before, during and after
the subscription, and two publishers that overtake each other. Connections do not
touch each other's state, so one is enough.

Fairness: publishers that have begun and workers go on (threads), and so does
the event loop. No fairness for `Open`, `AppendEvent` or `Mark`.

What the model shows without a property: a connection can listen for ever to a
task that has ended (`api/app.py:214` means it not to). The terminal event is
published before the status is written; one that subscribes in between has the
event in its history, finds `running`, and waits for an event that never comes.
A put between `LookEmpty` and `Register` is not noticed until the next one.

Proofs (`ActionsAndEvents_proofs`), for every set of workers, endpoints and connections
and any number of events: `TypeCorrect`, `HistoryDelivered` (`[]Delivered`) and
`FileKeepsUp` (`[]FileWhole`). `NothingMissed` speaks of connections that listen;
its inductive form `Covered` begins where the history is read, when an event may
also lie in the part of the history still to be sent. It holds there because the
subscription came first (`Subscribed`). `ProducerOrder` needs the order inside the
queue (`QueueOrder`) and from what was sent to what is queued (`SentBeforeQueued`),
and both need that an event on its way to the bus is the last of its publisher
and in no queue yet (`Publishing`). `FileOnTheWay` says who will make the file
whole. Only model-checked: `LateConsoleReleased`, which is liveness.

## 6. `LLMBudget`

| Variable | Code |
|---|---|
| `file`, `client` | totals of `llm_calls.jsonl`; `calls_made` and token counters of the `AuditedBudgetedLLMClient` in use |
| `purpose`, `uses`, `clients`, `at`, `size`, `decision`, `attempt` | the client in use and its place in `generate` |
| `override`, `forTask`, `compact` | `budget_override_once`, `budget_override_for_task`, the compaction request of `TaskControlState` |
| `pending`, `restarts`, `runs` | LLM approvals that wait, `_restart_task` threads not started yet, runs |
| `grants`, `gated`, `fresh` | history: answers that admit one call, calls that needed one, a grant not used |

`Decide` is `decide_budget` before and after compaction, `Ask`, `Refuse` and
`Admit` the chain of conditions in `generate`, `Retry`, `TimeOut`, `Fail` and
`Succeed` its loop over attempts, `ContinueBudget`, `RetryAfterTimeout` and `Stop`
what an answer does. A reviewer's client turns a raise into a failed review
(`Raise`), so a run can succeed beside an approval it asked for.

Run `llm`: `WithinLimits` (`CallsBounded`, `SpendBounded`) states the limits the code
really keeps. The gate counts before the retries, and a client does not count the prompts
of its own failed attempts while the file does. `OverrideAdmitsOne`: calls above
the approval threshold are never more than the answers that admitted one,
although a warning leaves the override in place for a later call.
`GrantHonoured`: nobody is asked again between an answer and the call it is for.

Limits lie a few tokens apart, so that two generates of a client pass each of
them; two clients and three runs let a counter be inherited and an answer be
used in a later run. Runs do not overlap here. A stop clears a grant with the
other transient flags, which the model has and no property forbids.

Proofs (`LLMBudget_proofs`), for every limit, size, and number of retries, clients
and runs: `TypeCorrect`, `LimitsHold` (`[]WithinLimits`), `OneCallPerAnswer`
(`[]OverrideAdmitsOne`) and `GrantIsHonoured` (`GrantHonoured`). The client's call
counter and the file's agree, and the gate stops before the maximum, which only
the retries of one generate can pass (`CallsCounted`). `PromptsCounted` bounds what
the file has over the client by the attempts that can have failed since that
client began: its finished generates with all their retries and the attempts of
the one under way. `OverrideCounted` counts an override that stands as a grant not
yet used; `GrantStands` keeps it until the call. `Engaged` and `Bookkept` give the
range of a generate under way and of the runs. The assumption that `MaxUses` and
`MaxRuns` are positive says that a run and a call can happen at all.

## 7. `BrowserRuntime`

| Variable | Code |
|---|---|
| `page` | what the browser shows: URL and content, changed by `PageMoves` at any await |
| `last` | `last_observation` and how it stands to what the runtime did to the page since |
| `at`, `effect`, `before`, `action`, `satisfied`, `rounds` | a click's place, its `expected_effect`, the page before it, the `ActionResult`, the verification |
| `plan` | strategies of the `RecoveryPlan` still to try |
| `opened`, `scrolls`, `result` | the counters of the runtime, the outcome of the last call |
| `clicks`, `shown`, `risky` | history of this call |

A click is `BeginClick` (snapshot), `Ready`, `Click`, `Settle`, rounds of
`Verify`, `Recover` with the strategies of its class of failure (`Reobserve`,
`Retry` with `Reclick` and `Reverify`, `Abort`), and `Finish`, the last
observation. The other tools are one or two steps. Target resolution,
screenshots and the kinds of Playwright errors are outcomes.

Run `browser`: `ClickIsHonest`, which is `RetriedOnce` (at most two clicks a call, as
`browser/recovery.py:143` says) and `SuccessIsSeen` (a reported success was seen on
the page in this call); `CallsLeaveTruth`, a property of steps, which is `RiskStops`
(a risk in the first observation of the recovery ends the clicking) and
`ObservedAfterClick` (the last observation is later than the last click); and `CallEnds` under weak
fairness of a call's continuation: each wait has its own timeout. The page need
never rest. One URL of each kind, contents that show the effect, do not, or show
it below what an observation keeps; two attempts, one page and one scroll so
that both limits are met.

The model also has, without a property against it: the recovery clicks again on a
page whose *second* observation shows a login; a click whose `ActionResult`
failed is retried although its effect was verified; `browser_type` checks the
page's address some awaits before it fills (`browser/tool_runtime.py:755`);
counters start again with each runtime.

Proofs (`BrowserRuntime_proofs`), for every set of URLs and every limit:
`TypeCorrect`, `ClicksAreHonest` (`[]ClickIsHonest`) and `TruthIsLeft`
(`CallsLeaveTruth`, a property of steps). `InCall` gives for each place of a call how
often it has clicked and what is left of its recovery plan, in which a retry comes
last; that bounds the clicks by two. `RiskEnds` leaves a call that saw a risk first
only its abort. `ShownKept` says that a page which shows the effect now has been
recorded as having shown it, whatever moves the page, so that `SuccessIsSeen`
survives `Finish`. `CallsAreBounded` is what `CallEnds` needs besides fairness:
`StepsLeft`, at most 13 and zero only when no call is open, falls with each step of
a call, and no move of the page raises it. Only model-checked: that a call
which may take its next step does, and so `CallEnds` itself.

## 8. `LibraryRun`

The run without LangGraph: `WebAgentExecutionHandler.run`, the execution loop and
`LocalToolExecutor` as one program (`at`, `plan`, `step`, `result`, `status`,
`told`, `report`, `observed`, `pending`), beside threads that request
(`Request`). Each checkpoint reads three flags one by one (`reading`), in its own
order: the handler cancel, stop, pause, the loop and the executor cancel, pause,
stop. `acted` and `kept` count calls that reached the browser and those the
records have.

Run `library`: `RequestsCost`, which is `LateActions` (one browser call at most begins
while a request stands), `CompletedUnasked` (a completed run was asked nothing
before its last checkpoint) and `OnlyRequestsHide` (only a request costs a call its
record); `EndsTruly`: under weak fairness of the run, whose steps wait for nobody,
it ends, with a last event that agrees with the status (`LastWordIsTrue`) and
telling of a call that waits for an approval if it saw a page (`AskedIsShown`). All plans of up to
three tools of eight kinds, valid or not, with three requests between any two
reads.

Deviations the properties name or the model has: a call asked for before any
observation fails the run and leaves its request pending
(`runtime/execution/handler.py:569`); a checkpoint after the browser action drops
its evidence; a stop heeded in the loop does not clear the transient flags; the
executor lacks `tool_load` and `tool_search`. In the repository only tests call
this path.

Proofs (`LibraryRun_proofs`), for every budget, set of plans and number of
requests: `TypeCorrect`, `RequestsCostLittle` (`[]RequestsCost`) and `EndsAreTrue`
(`[](LastWordIsTrue /\ AskedIsShown)`, the part of `EndsTruly` that is no liveness).
That at most one call is late hangs on the order in which the checkpoints read:
`LateOnce` says that from the late call on the request stands, and that a run which
gets past the checkpoint after a tool with a request standing got past it only for
a cancel, which the next checkpoint reads first. `Recorded` follows a call from the
browser to the records, `Unasked` what the last checkpoint has read, `Telling` and
`Waiting` the status, the last event and the pending call from place to place.
`RunsAreBounded` is what the ending needs besides fairness: `StepsLeft` starts at
24 and fifteen for each tool call of the budget at most, is zero when the run has
ended, falls with each of its steps, and no request raises it. Only model-checked: that a run
under weak fairness ends.

## 9. `ToolGateway`

| Variable | Code |
|---|---|
| `mode`, `runs`, `plan`, `pos`, `at` | the run and the execute node's place in its plan |
| `under`, `asked`, `answers`, `wait` | the override of the invocation, interrupts and answers of the node, the approval it waits for |
| `loaded` | `context.loaded_tools` |
| `page`, `seen` | the page and `last_observation` |
| `approvals`, `pending` | `ApprovalStore`, `PendingApprovalManager`, both of which outlive a run |
| `paused`, `unused` | `pause_requested`; history: approvals granted that no call took up |

`Validates` is `PlanValidator.validate` for one step after those before it,
`Offered` the tools a prompt offers in auto-explore, `Policy` and `Risk` the
gateway's policy with the risk gate. `Invoke`, `Bridge`, `Override`, `Provide` and
`Settle` are the execute node's steps, `Approve`, `Reject`, `Pause` and `Resume`
a person's. A call has one of three wordings (no keyword, one that asks, one that
blocks) and a page one of three signs.

Run `gateway`: `OnlyAdmittedRuns`, which is `LazyOnlyLoaded` (a lazy tool has been
loaded in this run), `ClosedStaysClosed` (no approval opens a disabled tool),
`RiskyPageNeedsConsent` and `InputStaysLocal` (completed input went into a local
page, however old the observation the gate judged); `ApprovalsAnswerable`, which is
`OnePending` and `AskedCanBeAnswered` (no graph waits for an approval that is
granted already, unless the run it was granted for ended first). Every plan of three
out of fourteen calls, one for each way policy and validator treat a tool, over
two runs with two decisions; `open` stands for a safety mode that no caller in
the repository sets.

The exception of `AskedCanBeAnswered` is a real dead end: a run pauses after the
approval and before the replay takes it up, the next run asks for the same call,
finds the pending one and waits for a decision that has been made. Further
behaviour in the model: the wording of a click is judged before the page, so a
call that asks may be approved on a page that would block; an override stands for
the whole risk gate; a resume under a waiting graph abandons it; an approved
`browser_select` on a public page is refused by the runtime; `ask_human` asks
again under its own approval. Between `create_request` and
`create_pending_tool_call` (`tools/gateway/gateway.py:539`) a decision finds no
pending call: the model takes both in one step.

Proofs (`ToolGateway_proofs`), for every set of calls and page risks, every budget
and number of runs and decisions: `TypeCorrect`, `OnlyAdmitted`
(`[]OnlyAdmittedRuns`) and `Answerable` (`[]ApprovalsAnswerable`). `LazyOnlyLoaded` is
inductive only with `LoadsKept`: the loads a plan counts on have happened by the
time the run gets past them, since a refused load ends the run. `GateHolds` carries the policy's
word from the question over the interrupt to the provider, and `AnswersGranted`
what the graph was resumed with. `AskedCanBeAnswered` rests on `GrantsTracked`: an
approval that is granted and still holds its call is an answer the node has not
reached, the one the call under way is made under, or one whose run ended; and
the node waits only when it has used all its answers (`AnswersTaken`). `Placed`
relates plan, position and override, and keeps that every call of a plan names
its target.

`ToolGatewayAssumption` says that `browser_open` opens a file, a public page or
nothing: with another address the type invariant of the page fails.

## 10. `TaskRecords`

| Variable | Code |
|---|---|
| `kind`, `named` | `POST /tasks` or `/tasks/async`; whether the request names a conversation that exists |
| `at`, `end`, `wanted` | the worker, how its execution ended, the request it has not heeded |
| `mem`, `known`, `approval` | `_task_states`, `_task_requests`, an adapter waiting for an approval |
| `line` | the last line of `transcript.jsonl` that `status_from_transcript` reads |
| `row`, `convs`, `messages` | the rows of the database |
| `lost`, `settled`, `answers`, `good` | history |

`Create`, `WorkflowEnds`, `Settle` and `Persist` are an execution; `Pause`,
`Cancel`, `Stop`, `Resume`, `Approve`, `Reject` a user's requests; `Restart` the end
of the process at any moment, which forgets memory and keeps files and rows.
Each database write may fail.

Run `records`: `StatusIsReal`, which is `SuccessIsReal` (no "succeeded" without an
execution that completed, but for the default of `api/task_service.py:342` for a
worker without a context) and `RunningHasWorker`; `RestartKeeps`, a property of the
restart; `RowsAgree`, which is `RowAgrees` (memory and the row of a task at rest),
`RowInConversation` and `AnswersMatch` (one question and one answer for each end
worth telling). Three executions, two restarts, four
requests.

The exceptions the properties name are deviations: a node that raises writes no
line, so a failed task is "paused" again after a restart; a row stays
`requires_approval` after the approved graph has ended; a resume after a restart
sets `running` with no worker, because the request is lost; a task that names an
unknown conversation gets another one without its question; rejections and partial
reports written by the API are in memory only. An asynchronous status is visible
before messages and row are written, which `tests/api/test_conversation_persistence.py`
may meet.

Proofs (`RecordsAndReview_proofs`), for every number of executions, restarts and
requests: `TypeCorrect`, `RowsAgreeAlways` (`[]RowsAgree`), `StatusAlwaysReal`
(`[]StatusIsReal`) and `RestartKept` (`RestartKeeps`). `Ending` ties the last line of
the transcript to the last end and both to an execution that completed; `Memory`
says when memory may say that a task has finished. `RowKept` keeps the row of a task
held by an approval until its worker persists, without which `RowAgrees` fails
after a resume. `AnswersMatch` needs the message a worker is about to write
(`Told`, `Counted`). `Begun` says what is known before the task and after a
restart, `Conversing` which conversations exist.

## 11. `ActionPlanning`

The loop of auto-explore: `Seed` (open and observe; `SeedSees` says what of an
observation the two leave: an opened page none, so that a seed whose observe is
held back fails), then for each step
`Generate` (the model answers), `Read` (parse, normalise, validate; a refused
answer is repaired `Repairs` times), `Propose` (artifact and event) and `Invoke`
(the gateway). An answer is its shape, the keys that carry its texts, the spelling
of its type and at most one remarkable extra; a text is known by the key that
carried it, which is what `ModelsWordsAreUsed` needs. `goalRefused` says that
the goal holds a pattern the validation forbids, which any URL does ("//").

| Variable | Code |
|---|---|
| `asked`, `answer`, `records`, `errors`, `requests`, `last` | the planner: `validation_records`, `validation_errors`, `repair_requests`, `last_decision` |
| `decision`, `artifact`, `told` | the decision and the call made of it, `action_validation.json`, the `llm_action` event |
| `stage`, `page`, `step`, `executed`, `done`, `interrupted`, `result` | the loop |

Run `actions`: `AnswersAreRead`, which is `CallIsValidated`, `SchemaIsEnough` (an
answer in the form the prompt asks for is accepted) and `ModelsWordsAreUsed` (the
goal or a stock phrase stands in only where the answer gave no text);
`RepairsAccounted`, which is `ArtifactIsCurrent`, `FailureIsTold`,
`RepairsAnswerErrors`, `RepairIsTold` and `BudgetBounds`: lists, artifact, events and
budgets are one account of a run's answers. That a run ends is `EveryRunEnds` of
`TaskControl`. Some 570 answers: every
spelling with every set of texts, in the action, beside it and flat. Four steps
are two of the model's, so that what one leaves behind is met by the next; two
repairs are one more than the default.

Deviations the properties name: an extraction without an instruction gets the
goal, and a goal with an URL is refused as raw automation; `last_decision` and the
repair lists are those of the run, so a schema failure of a later step is written
as repaired (`workflows/langgraph_backend/nodes.py:954`) and later steps are told
as repaired (`nodes.py:812`). Also in the model: provider errors and interruptions
end as `LLM_ACTION_SCHEMA_INVALID` (`nodes.py:736`), and a call the gate asks about
fails the node (`nodes.py:911` uses a name the module lacks).

Proofs (`ActionsAndEvents_proofs`), for every set of answers and every budget of
steps and repairs: `PlanTypeCorrect`, `AnswersWellRead` (`[]AnswersAreRead`) and
`OneAccountOfAnswers` (`[]RepairsAccounted`). Half of `AnswersAreRead` is about one
answer: `FirstIsFound` says what the first usable key of a list is, `NormalForm` and
`ArgumentIsGiven` what the normalisation makes of an answer, and from them follow
`ConformingIsAccepted` and `OwnWordsFirst`. The other half, and all of
`RepairsAccounted`, is about the run and needs `PlanInv`. Its heart is
`AnswersCounted`: every refused record has an error, every error but the one just
found a repair request, and a step has as many records as it asked for.
`RecordsOfThePast` says that no accepted record is of the step being asked, without
which an accepted answer could be another than the last (`DecisionIsLast`).
`StepByStep` ties steps to executed calls, `CallIsTold` and `EndIsTold` the file and
the event to the decision or the end. The counts are over sequences that grow by
one record, so `CountGrows` is all the arithmetic of sequences they need.

## 12. `ReportReview`

The deterministic reviewer as functions of a report, and the review-revise loop
that applies one plan action by action (`ReviewReport`, `Begin`, `Revise`,
`Finish`). A report is a sequence of lines, a line a heading or a sequence of
words, a word a sentence or the id of an evidence item. A heading is exact,
differs in case, is Chinese, or only begins alike: the reviewer's `_has_heading`
accepts the first three, the literal search of planner and reviser the first and
the last. Findings of a model are `no_op` actions.

| Variable | Code |
|---|---|
| `report`, `evidence`, `skill`, `lacks`, `attempts` | what is reviewed: `report.md`, the evidence items, the skill and what its contract misses, `revise_attempts` |
| `reviewed`, `initial`, `final` | `review.json`, the loop's first and last review |
| `phase`, `plan`, `revised`, `applied`, `skipped` | the loop: actions left, the report being revised, what came of the actions |

Run `review`: `RevisionMends`, which is `NoNewError`, `MendsWithEvidence` (with
evidence one pass mends all but one error), `NoInventedEvidence` and
`LoopForgetsSkill` (the loop and the task's review differ in the skill's errors
only); `ClaimsAnswered`, which is `ClaimsAreCited` and `ScoreKept`. Reports with an optional
introduction, a Result and an Evidence section in both orders and all spellings
with up to two lines each, with no, one and two evidence items. The module has no
liveness property: the plan is finite and its length falls with each step.

The exceptions are what the code does: a report whose heading is "## Evidences"
never gets an Evidence section; a Result heading is inserted above existing lines,
which become claims; only the first place of a text is given its reference
(`runtime/review/reviewer.py:565`); the loop reviews without the task and may pass
what the skill's contract fails (`reviewer.py:628`); one pass is made whatever
`revise_attempts` says; `report.md` is never replaced; without evidence nothing
is mended, and the score may fall.

Proofs (`RecordsAndReview_proofs`), for every set of reports and evidence lists and
any number of attempts: `ReviewTypeCorrect` and `ReportIsMended` (`[]RevisionMends`).
`ReportReviewAssumption` says that titles are short sentences, that no id is a
short sentence or one of the reviser's own, and that reports are made of words.
`Kept` relates a report to what an action made of it: no title line is lost and only
ids of a given set are new. Every action has its lemma (`EvidenceAdded`, `ResultAdded`,
`ClaimCited`, `IdRewritten`, `LinesRemoved`), and `ReportKept` is their composition.
It needs `PlanSound`: a claim that is planned for is unsupported and not empty, so
it is no title (`TitlesAreNoClaims`) and neither a citation nor a removal touches a
heading. `UnknownWillGo` says that every unknown id still has its action in the
plan, `EvidenceHeaded` that the Evidence section is there, or will not come, or is
next.

`ClaimsAlwaysAnswered` (`[]ClaimsAnswered`) compares the claims of two reports, so it
needs a second relation, `Grown`: every line of the report is still in its place,
`LineKept` (its ids are not lost; without an id it is as it was; no claim begins in it
that did not before), and lines come behind only without a second Result heading.
Two reports related so have their Result section in the same lines (`SectionsMatch`), a claim
without evidence in the second is one of the first and begins at a line that was
given nothing (`StillUnsupported`), and there are no more of them (`FewerUnsupported`).
The inductive invariant `AnswerInv` says of a revision with evidence: where the report
has a Result, what was made of it so far has grown of it and each unsupported claim
has its citation still to come, or has it if it stands at one line only
(`ClaimsInHand`); where it has none, the heading is still to come, or the revised report
has grown of the report with the heading put on top (`ResultToCome`), which has no
claims at all if it starts with a heading (`NothingUnsupported`).

## 13. Not modelled, and why

- Text: prompt assembly, report wording, extraction from pages, skill matching and
  localisation are formatting and keyword search without state.
- I/O: Playwright, HTTP and the file system appear as outcomes, timeouts and failed
  writes.
- Views: the inspector and timeline read recorded events, the console beyond its
  control bar shows them.
- Data: the schemas; their value ranges appear in the type invariants.
- The evaluation harness, diagnostics and scripts are sequential and keep nothing.
- Within modelled components: `dry_run` requests and `auto_explore` with another
  task type than a browser task (they shorten a run), the audit files of the gateway
  (a failed write escapes `invoke` after the tool has run), metadata rows of
  artifacts and approvals, the parsing of the LLM planner's and reviewer's
  answers, two threads that invoke one graph at once.
- Compositions: a control request while a graph is being resumed (`TaskControl`
  beside `ApprovalReplay`) and overlapping workers in `LLMBudget`, `ToolGateway`
  and `TaskRecords` multiply state spaces that are large already; each module
  says which of them it leaves to another.

## 14. What is proved and what is not

All ten modules have theorems: their type invariants, every safety invariant that
their passing runs check, all their action properties, and the refinement of
`ApprovalContract`. Each holds for every value of the
constants that satisfies the module's assumption (three of `ApprovalReplay` and two
of `TaskControl` under one more, named in their tables), and each inductive invariant was
checked by TLC on the module's run before it was proved. Liveness is not proved:
`EveryRunEnds`, `ResumingEnds`, `LateConsoleReleased`, `CallEnds` and the ending of
`EndsTruly` are checked by TLC under the fairness each section states. Of the last two
the bounds are proved (`CallsAreBounded`, `RunsAreBounded`): what TLC alone shows is that
a fair call or run with finitely many steps left takes them. `ApprovedCallRuns` is
violated by the code.

The library's induction theorems take an operator as a parameter, so they cannot be
used here. `Inductive` (in `RecordsAndReview_proofs`) states induction for a set
instead, from the well-foundedness of the natural numbers, and `SeqInductive` for the
sequences of a set. `FlattenBuilt` and `FlattenAppend` say what `FlattenSeq` adds for one
sequence more; by induction its elements are those of its sequences (`FlattenHas`), which
is all `RevisionMends` needs to know of a report's sections, claims and ids.
`ClaimsAnswered` also needs how many elements of a sequence pass a test
(`AmongAppend`, `FewerAmong`) and the order of sequences of one (`FlattenSingles`).

Where a proof failed, and once more after the proofs were done, the model was
read again beside the code. Six definitions changed:

- `BuildPlan` took the first `MaxAttempts` strategies of a plan, which is undefined
  for more attempts than strategies; the slice of `browser/recovery.py:157` then
  takes all there are.
- Auto-explore in `ToolGateway` went on after `finish_task`; the loop returns
  (`workflows/langgraph_backend/nodes.py:924`), and the validator refuses what follows
  one (`runtime/execution/planner.py:304`). `Finishes` has both.
- The seed plan of auto-explore is held to the budget of steps, and a call without
  the target its tool requires is refused by the validator and the action's schema
  (`HasTarget`).
- `ApprovalContract` spoke only of calls under an approval. It now has every call
  that runs, so that an unapproved one is a violation of the contract as well.
- `Report` of `ApprovalReplay` followed every finished plan. `EndUnseen` and
  `EndUnreported` are the two ways past it, and with the second `ToldTruly` has the
  exception it names.
- `Seed` of `ActionPlanning` had an observation after every opened page
  (`SeedSees`).
