----------------------------- MODULE ToolGateway -----------------------------
(***************************************************************************)
(* Which tool calls of a task reach their provider: the plan validator and *)
(* the selection of prompt tools, the gateway's policy and risk gate, the  *)
(* lazy tools that have to be loaded first, and the approvals of runs that *)
(* are paused and started again (tools/gateway, runtime/safety,            *)
(* runtime/execution/planner.py, runtime/prompt/builder.py).               *)
(* Runs follow one another: workers that overlap are the subject of        *)
(* TaskControl, decisions that overlap the subject of ApprovalReplay.      *)
(* A plan is chosen step by step, among the steps the validator, which     *)
(* reads a plan from its start, would have accepted.                       *)
(***************************************************************************)
EXTENDS Naturals, Sequences, FiniteSets

CONSTANTS
    Calls,       \* tool calls: tool, wording of the arguments, target
    Signs,       \* risks a page may show
    MaxSteps,    \* budget.max_steps
    MaxRuns,     \* bound: runs of the task
    MaxDecisions, \* bound: approvals a person decides
    FormTask     \* the task is about a form: input tools are in its scope

Tools == {"browser_open", "browser_observe", "browser_click", "browser_type",
          "browser_select", "ask_human", "finish_task", "browser_upload_file",
          "tool_search", "tool_load", "docs_extract", "github_fetch_issue",
          "no_such_tool"}

Words == {"plain", "ask", "block"}    \* no keyword, an approval one, a block one

ASSUME ToolGatewayAssumption ==
    /\ Calls \subseteq [tool : Tools, words : Words,
                        target : Tools \cup {"file", "public", "page", ""}]
    /\ \A c \in Calls : c.tool = "browser_open" => c.target \in {"file", "public", ""}
    /\ Signs \subseteq {"none", "login", "blocking"} /\ "none" \in Signs
    /\ {MaxSteps, MaxRuns, MaxDecisions} \subseteq Nat \ {0}
    /\ FormTask \in BOOLEAN

VARIABLES
    mode,       \* "guided", "auto_explore", or "open": guided in a task
                \* whose safety mode is not read_only, as no API task is
    runs,       \* runs started
    plan, pos,  \* calls of this run so far, and the one it is at
    at,         \* place of the run
    under,      \* approval_override_id, 0 if none
    loaded,     \* context.loaded_tools
    page,       \* the page that is open
    seen,       \* last_observation
    asked,      \* interrupts of this execution of the node
    answers,    \* approvals the graph has been resumed with
    wait,       \* approval the interrupted graph waits for
    approvals,  \* ApprovalStore: call and state of each request
    pending,    \* PendingApprovalManager
    paused,     \* pause_requested
    unused      \* history: approvals granted while no call took them up

runVars == <<mode, runs, plan, pos, at, under, loaded, page, seen, asked,
             answers, wait>>
store == <<approvals, pending>>
vars == <<runVars, store, paused, unused>>

Nowhere == [url |-> "none", sign |-> "none"]
Elsewhere == [url |-> "public", sign |-> "none"]
Pages == [url : {"none", "file", "public"}, sign : Signs]
Ids == 1..Len(approvals)

-----------------------------------------------------------------------------
(* The registry.                                                           *)

Lazy == {"docs_extract", "github_fetch_issue"}
Browser == {"browser_open", "browser_observe", "browser_click", "browser_type",
            "browser_select"}
Input == {"browser_type", "browser_select"}
Sensitive == Input \cup {"ask_human"}    \* permission and risk_level
Disabled == {"browser_upload_file"}      \* dangerous besides
Known == Tools \ {"no_such_tool"}

\* read_only_tools of the risk policy, and the tools whose descriptor is not
\* one that should_risk_check.
Unchecked == {"browser_open", "browser_observe", "finish_task", "tool_search",
              "tool_load"} \cup Lazy

-----------------------------------------------------------------------------
(* Which call may come next.                                               *)

\* The lazy tools a plan loads, as the validator counts them.
PlannedLoads(calls) ==
    {calls[i].target : i \in {j \in DOMAIN calls : calls[j].tool = "tool_load"}}

Finishes(calls) == \E i \in DOMAIN calls : calls[i].tool = "finish_task"

\* A call names what it opens, clicks or loads.
HasTarget(c) == c.tool \in {"browser_open", "browser_click", "tool_load"} => c.target # ""

(* validate: one step after those before it.  A tool that no registry      *)
(* knows is left to the gateway, and so is a disabled one unless the task  *)
(* is read_only.                                                           *)
Validates(calls, c) ==
    /\ Len(calls) < MaxSteps
    /\ c.tool \in Lazy => c.tool \in loaded \cup PlannedLoads(calls)
    /\ mode = "guided" => c.tool \notin Sensitive \cup Disabled
    /\ HasTarget(c)
    /\ c.tool \in Browser \ {"browser_open"} =>
          \E i \in DOMAIN calls : calls[i].tool = "browser_open"
    /\ ~Finishes(calls)

(* select_prompt_tools: before the first observation only a few tools are  *)
(* offered; input tools on a fixture in scope; loaded lazy tools always.   *)
Available ==
    LET local == plan[1].target = "file" \/ seen.url = "file"
    IN  IF seen.url = "none"
        THEN {"browser_open", "tool_search", "tool_load", "ask_human",
              "finish_task"} \cup loaded
        ELSE {"browser_observe", "browser_click", "tool_search", "tool_load",
              "ask_human", "finish_task"} \cup loaded
             \cup (IF local /\ FormTask THEN Input ELSE {})

(* auto_explore: the seed, which the validator holds to the budget, opens  *)
(* the target and observes it; after it the provider picks until it says   *)
(* that the task is done, and no lazy tool is an action of the schema.     *)
Offered(c) ==
    /\ ~Finishes(plan) /\ HasTarget(c)
    /\ CASE Len(plan) = 0 -> c.tool = "browser_open" /\ MaxSteps > 1
         [] Len(plan) = 1 -> c.tool = "browser_observe"
         [] OTHER -> Len(plan) < MaxSteps /\ c.tool \in Available \ Lazy

-----------------------------------------------------------------------------
(* The policy.                                                             *)

\* _check_page_observation.
PageRisk(c) ==
    IF seen.sign = "blocking" THEN "block"
    ELSE IF seen.sign = "login" THEN "ask" ELSE "none"

(* check_tool_call.  The words of a click, a selection or a question are   *)
(* looked at before the page is: a wording that asks for approval asks on  *)
(* a page that would block.  Typing never asks for its words.              *)
Risk(c) ==
    IF c.words = "block" THEN "block"
    ELSE IF c.words = "ask" /\ c.tool # "browser_type" THEN "ask"
    ELSE IF PageRisk(c) # "none" THEN PageRisk(c)
    ELSE CASE c.tool = "browser_click" -> "allow"
           [] c.tool = "browser_type" -> IF seen.url = "file" THEN "allow" ELSE "block"
           [] c.tool = "browser_select" -> IF seen.url = "file" THEN "allow" ELSE "ask"
           [] OTHER -> "ask"

(* ToolGatewayPolicy.check: an override stands for the whole risk gate,    *)
(* and a sensitive tool other than the two inputs asks under it as well.   *)
Policy(c, override) ==
    IF c.tool \notin Known \/ c.tool \in Disabled THEN "block"
    ELSE IF c.tool \in Unchecked THEN "allow"
    ELSE IF override = 0 THEN Risk(c)
    ELSE IF c.tool = "ask_human" THEN "ask again" ELSE "allow"

-----------------------------------------------------------------------------
(* Approvals.                                                              *)

\* _find_existing_pending.
Existing(c) == {i \in pending : approvals[i].call = c}

\* _create_approval_request: a pending call is not asked for twice.
AskFor(c) ==
    IF Existing(c) # {} THEN UNCHANGED store
    ELSE /\ approvals' = Append(approvals, [call |-> c, state |-> "pending"])
         /\ pending' = pending \cup {Len(approvals) + 1}

\* The approval that stands for the call after AskFor.
Asked(c) == IF Existing(c) # {} THEN CHOOSE i \in Existing(c) : TRUE
                                ELSE Len(approvals) + 1

-----------------------------------------------------------------------------
(* The execute node.                                                       *)

Call == plan[pos]

\* Approvals that are granted and still hold their pending call.
Granted == {i \in pending : approvals[i].state = "approved"}

\* What a run leaves when it ends.
EndRun == at' = "ended" /\ unused' = unused \cup Granted

(* The gateway answers tool_search and tool_load itself.  A lazy tool that *)
(* is loaded is recorded in the context before the next checkpoint.        *)
AnswerItself(c) ==
    IF c.tool = "tool_load" /\ c.target \notin Lazy
    THEN EndRun /\ UNCHANGED loaded
    ELSE /\ at' = "done"
         /\ loaded' = loaded \cup (IF c.tool = "tool_load" THEN {c.target} ELSE {})
         /\ UNCHANGED unused

(* before_tool_call is passed and the gateway invoked.  What the policy    *)
(* blocks ends the run; what auto_explore is asked for ends it as well.    *)
Invoke(c) ==
    /\ at = "next" /\ ~paused
    /\ CASE Policy(c, 0) = "block" ->
              EndRun /\ UNCHANGED <<loaded, store>>
         [] Policy(c, 0) = "ask" ->
              /\ AskFor(c)
              /\ IF mode = "auto_explore" THEN EndRun
                                          ELSE at' = "bridge" /\ UNCHANGED unused
              /\ UNCHANGED loaded
         [] c.tool \in {"tool_search", "tool_load"} ->
              AnswerItself(c) /\ UNCHANGED store
         [] OTHER ->
              at' = "provider" /\ UNCHANGED <<unused, loaded, store>>
    /\ UNCHANGED <<mode, runs, pos, under, page, seen, asked, answers, wait,
                   paused>>

\* A step the plan has not been asked about yet.
NextCall ==
    /\ pos = Len(plan) + 1
    /\ \E c \in Calls :
          /\ IF mode = "auto_explore" THEN Offered(c) ELSE Validates(plan, c)
          /\ plan' = Append(plan, c)
          /\ Invoke(c)

\* The node runs again from its start, after an interrupt was answered.
ReplayCall ==
    /\ pos <= Len(plan)
    /\ Invoke(Call)
    /\ UNCHANGED plan

\* The plan is done, or the budget of steps, or the provider says so.
PlanEnds ==
    /\ at = "next" /\ ~paused /\ pos = Len(plan) + 1 /\ plan # <<>>
    /\ mode = "auto_explore" => Len(plan) = MaxSteps \/ Finishes(plan)
    /\ EndRun
    /\ UNCHANGED <<mode, runs, plan, pos, under, loaded, page, seen, asked,
                   answers, wait, store, paused>>

\* check_control_state raises at the next checkpoint.
HeedPause ==
    /\ at \in {"next", "bridge", "done", "fail"} /\ paused
    /\ EndRun
    /\ UNCHANGED <<mode, runs, plan, pos, under, loaded, page, seen, asked,
                   answers, wait, store, paused>>

(* create_interrupt_payload asks again if the pending call has gone; then  *)
(* interrupt() returns the next answer, or the graph waits.                *)
Bridge ==
    /\ at = "bridge" /\ ~paused
    /\ AskFor(Call)
    /\ IF asked < Len(answers)
       THEN /\ asked' = asked + 1
            /\ under' = answers[asked + 1]
            /\ at' = "override"
            /\ UNCHANGED wait
       ELSE /\ at' = "waiting" /\ wait' = Asked(Call)
            /\ UNCHANGED <<asked, under>>
    /\ UNCHANGED <<mode, runs, plan, pos, loaded, page, seen, answers, paused,
                   unused>>

\* The second invocation; one that asks again is taken for a blocked tool.
Override ==
    /\ at = "override"
    /\ IF Policy(Call, under) = "allow"
       THEN at' = "provider" /\ UNCHANGED store
       ELSE at' = "fail" /\ AskFor(Call)
    /\ UNCHANGED <<mode, runs, plan, pos, under, loaded, page, seen, asked,
                   answers, wait, paused, unused>>

\* Mutant: the runtime trusts the last observation for the address.
InputAtObserved(ok) == ok => seen.url = "file"

\* type_text and select_option look at the page's own address.
InputAtPage(ok) == ok => page.url = "file"

(* The provider runs the call: it may fail, or be blocked on the page, and *)
(* may raise, which the gateway turns into a failure.  Opening a page does *)
(* not observe it, a click does; an observed page may move on by itself.   *)
Provide ==
    /\ at = "provider"
    /\ \E ok \in BOOLEAN :
          /\ at' = IF ok THEN "done" ELSE "fail"
          /\ CASE Call.tool = "browser_open" ->
                    /\ \E s \in Signs :
                          page' = IF ok THEN [url |-> Call.target, sign |-> s] ELSE page
                    /\ UNCHANGED seen
               [] Call.tool = "browser_observe" ->
                    /\ seen' = IF ok THEN page ELSE seen
                    /\ page' \in {page, Elsewhere}
               [] Call.tool = "browser_click" ->
                    /\ \E p \in Pages :
                          /\ p.url # "none"
                          /\ page' = IF ok THEN p ELSE page
                    /\ seen' = page'
               [] Call.tool \in Input ->
                    InputAtPage(ok) /\ UNCHANGED <<page, seen>>
               [] OTHER -> UNCHANGED <<page, seen>>
    /\ UNCHANGED <<mode, runs, plan, pos, under, loaded, asked, answers, wait,
                   store, paused, unused>>

\* Mutant: the override outlives the call it was granted for.
SettleKeepingOverride ==
    /\ at \in {"done", "fail"} /\ ~paused
    /\ pending' = pending \ {under}
    /\ under' = under
    /\ at' = "next" /\ pos' = pos + 1
    /\ UNCHANGED <<mode, runs, plan, loaded, page, seen, asked, answers, wait,
                   approvals, paused, unused>>

\* Mutant: the pending call of an approval that was used stays.
SettleWithoutPop ==
    /\ at \in {"done", "fail"} /\ ~paused
    /\ under' = 0
    /\ IF at = "done" THEN at' = "next" /\ pos' = pos + 1 /\ UNCHANGED unused
                      ELSE EndRun /\ UNCHANGED pos
    /\ UNCHANGED <<mode, runs, plan, loaded, page, seen, asked, answers, wait,
                   store, paused>>

\* after_tool_call is passed: the approval's pending call is popped.
Settle ==
    /\ at \in {"done", "fail"} /\ ~paused
    /\ pending' = pending \ {under}
    /\ under' = 0
    /\ IF at = "done" THEN at' = "next" /\ pos' = pos + 1 /\ UNCHANGED unused
                      ELSE /\ at' = "ended" /\ UNCHANGED pos
                           /\ unused' = unused \cup (Granted \ {under})
    /\ UNCHANGED <<mode, runs, plan, loaded, page, seen, asked, answers, wait,
                   approvals, paused>>

Run == \/ NextCall \/ ReplayCall \/ PlanEnds \/ HeedPause \/ Bridge
       \/ Override \/ Provide \/ Settle

-----------------------------------------------------------------------------
(* A person.                                                               *)

Undecided(i) ==
    /\ approvals[i].state = "pending"
    /\ Cardinality({j \in Ids : approvals[j].state # "pending"}) < MaxDecisions

\* The graph runs again with one more answer; one that has ended stays so.
Approve(i) ==
    /\ Undecided(i) /\ at \in {"waiting", "ended"}
    /\ approvals' = [approvals EXCEPT ![i].state = "approved"]
    /\ IF at = "waiting"
       THEN /\ answers' = Append(answers, i)
            /\ at' = "next" /\ pos' = 1 /\ asked' = 0 /\ wait' = 0
            /\ UNCHANGED unused
       ELSE unused' = unused \cup {i} /\ UNCHANGED <<answers, at, pos, asked, wait>>
    /\ UNCHANGED <<mode, runs, plan, under, loaded, page, seen, pending, paused>>

\* A rejection does not resume the graph.
Reject(i) ==
    /\ Undecided(i)
    /\ approvals' = [approvals EXCEPT ![i].state = "rejected"]
    /\ pending' = pending \ {i}
    /\ UNCHANGED <<runVars, paused, unused>>

Pause ==
    /\ ~paused /\ runs < MaxRuns
    /\ paused' = TRUE
    /\ UNCHANGED <<runVars, store, unused>>

(* resume_task starts the task's request again, also under an approval     *)
(* that waits: a new context, a new browser, the same approvals.           *)
Resume ==
    /\ at \in {"waiting", "ended"} /\ runs < MaxRuns
    /\ runs' = runs + 1 /\ paused' = FALSE
    /\ plan' = <<>> /\ pos' = 1 /\ at' = "next" /\ under' = 0 /\ loaded' = {}
    /\ page' = Nowhere /\ seen' = Nowhere
    /\ asked' = 0 /\ answers' = <<>> /\ wait' = 0
    /\ UNCHANGED <<mode, store, unused>>

Person == \/ \E i \in Ids : Approve(i) \/ Reject(i)
          \/ Pause \/ Resume

-----------------------------------------------------------------------------

Init ==
    /\ mode \in {"guided", "open", "auto_explore"}
    /\ runs = 1 /\ plan = <<>> /\ pos = 1 /\ at = "next" /\ under = 0
    /\ loaded = {} /\ page = Nowhere /\ seen = Nowhere
    /\ asked = 0 /\ answers = <<>> /\ wait = 0
    /\ approvals = <<>> /\ pending = {}
    /\ paused = FALSE /\ unused = {}

Next == Run \/ Person

\* The worker, or the handler that resumed the graph, keeps running.
Spec == Init /\ [][Next]_vars

-----------------------------------------------------------------------------
(* Properties.                                                             *)

TypeOK ==
    /\ mode \in {"guided", "open", "auto_explore"}
    /\ runs \in 1..MaxRuns
    /\ plan \in Seq(Calls) /\ Len(plan) <= MaxSteps
    /\ pos \in 1..MaxSteps + 1
    /\ at \in {"next", "bridge", "override", "provider", "done", "fail",
               "waiting", "ended"}
    /\ under \in 0..Len(approvals) /\ (at = "next" => under = 0) /\ wait \in 0..Len(approvals)
    /\ loaded \subseteq Lazy
    /\ page \in Pages /\ seen \in Pages
    /\ answers \in Seq(Ids) /\ asked \in 0..Len(answers)
    /\ approvals \in Seq([call : Calls, state : {"pending", "approved", "rejected"}])
    /\ pending \subseteq Ids /\ unused \subseteq Ids
    /\ paused \in BOOLEAN

\* A lazy tool that runs has been loaded in this run: the validator only
\* counts the loads a plan intends, and one that is refused ends the run.
LazyOnlyLoaded ==
    at = "provider" /\ Call.tool \in Lazy => Call.tool \in loaded

\* No disabled tool reaches a provider: a plan may name one and a person may
\* be ready to approve it, the policy refuses it before it can ask.
ClosedStaysClosed == at = "provider" => Call.tool \notin Disabled

\* What acts on a page whose last observation shows a risk does so under an
\* approval; on one that would block, only a call whose own wording asks,
\* which check_tool_call looks at before the page.
RiskyPageNeedsConsent ==
    at = "provider" /\ Call.tool \in Input \cup {"browser_click"} /\ seen.sign # "none"
    => /\ under # 0 /\ approvals[under].state = "approved"
       /\ seen.sign = "blocking" => Call.words = "ask"

\* Input that a step has completed went into a local page, however old the
\* observation the gate has judged: opening a page does not observe it.
InputStaysLocal ==
    at = "done" /\ Call.tool \in Input => page.url = "file"

\* A call that reaches its provider has passed every gate on its way, and
\* one that has been carried out has kept to what the gates let it do.
OnlyAdmittedRuns ==
    LazyOnlyLoaded /\ ClosedStaysClosed /\ RiskyPageNeedsConsent /\ InputStaysLocal

\* A call of the task waits for one approval at a time, over pauses, replays
\* and new runs.
OnePending ==
    \A i, j \in pending : approvals[i].call = approvals[j].call => i = j

\* A graph never waits for an approval that has been granted already, which
\* no person could decide again - unless the run the grant was for ended
\* before it took the grant up (paused, failed in the replay, or over).
AskedCanBeAnswered ==
    at = "waiting" /\ approvals[wait].state = "approved" => wait \in unused

\* A person who is asked is asked once, and can answer.
ApprovalsAnswerable == OnePending /\ AskedCanBeAnswered
=============================================================================
