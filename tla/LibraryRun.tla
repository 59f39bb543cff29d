------------------------------ MODULE LibraryRun ------------------------------
(***************************************************************************)
(* A run without LangGraph: WebAgentExecutionHandler.run (handler.py), the *)
(* execution loop (loop.py) and the local tool executor (tool_executor.py) *)
(* as one program, and the threads that pause, stop, cancel and resume it. *)
(* A checkpoint reads the three flags of the live control state one after  *)
(* the other without its lock, so a request may come between two reads.    *)
(***************************************************************************)
EXTENDS Naturals, Sequences

CONSTANTS
    MaxSteps,     \* budget.max_steps
    MaxRequests,  \* bound on the requests of the other threads
    Plans         \* what a planner may return

(* The tools of a plan by what the validator, the executor and the risk   *)
(* gate make of them: "ask" and "block" are clicks whose target hint has  *)
(* an approval or a block keyword, "input" a tool the read_only safety    *)
(* mode refuses, "load" a core tool that only the gateway can execute.    *)
Tools == {"open", "observe", "click", "ask", "block", "input", "load", "finish"}

Browser == {"open", "observe", "click", "ask", "block"}

ASSUME LibraryRunAssumption ==
    MaxSteps \in Nat /\ MaxRequests \in Nat /\ Plans \subseteq Seq(Tools)

VARIABLES
    at,        \* what the run does next
    reading,   \* flags the current checkpoint has read
    flags,     \* the TaskControlState of the run
    plan, step,
    result,    \* error type of the tool result or of the loop, "none" if it succeeded
    status,    \* context.state.status
    told,      \* the last event about the outcome
    report,    \* final_report.md
    observed,  \* the browser runtime has a last_observation
    pending,   \* tool calls waiting for an approval
    acted,     \* history: calls that reached the browser runtime
    kept,      \* history: of those, the ones in the records and the transcript
    requests,  \* history: requests so far
    asked,     \* history: where the run was at the last request
    late       \* history: calls that began while a request was standing

control == <<at, reading, result>>
planned == <<plan, step>>
outcome == <<status, told, report>>
browser == <<observed, pending, acted, kept>>
others == <<flags, requests, asked>>
vars == <<at, reading, flags, plan, step, result, status, told, report,
          observed, pending, acted, kept, requests, asked, late>>

HandlerChecks == {"before_prompt_build", "before_llm_call", "after_llm_call",
                  "before_tool_calls", "after_tool_calls", "before_report_generation"}
LoopChecks == {"before_tool_call", "after_tool_call"}
ExecutorChecks == {"before_browser_action", "after_browser_action"}
Checks == HandlerChecks \cup LoopChecks \cup ExecutorChecks

Work == {"prompt", "planning", "validating", "loop", "tool", "record", "leave",
         "report", "done"}

Requests == {"canceled", "paused", "stopped"}

TypeOK ==
    /\ at \in Checks \cup Work /\ reading \in 0..2
    /\ flags \in [Requests -> BOOLEAN]
    /\ plan \in Plans \cup {<<>>} /\ step \in 0..Len(plan)
    /\ result \in {"none", "asked", "blocked", "failed"} \cup Requests
    /\ status \in {"running", "completed", "canceled", "paused", "requires_approval",
                   "blocked", "failed", "succeeded_partial", "waiting_for_approval"}
    /\ told \in {"started", "succeeded", "canceled", "paused", "blocked", "failed", "partial"}
    /\ report \in {"none", "partial", "final"}
    /\ observed \in BOOLEAN /\ pending \in 0..1
    /\ acted \in 0..MaxSteps /\ kept \in 0..acted
    /\ requests \in 0..MaxRequests /\ asked \in {<<"nowhere", 0>>} \cup ((Checks \cup Work) \X (0..2))
    /\ late \in 0..MaxSteps

(* build_context and start_run.                                           *)
Init ==
    /\ at = "before_prompt_build" /\ reading = 0
    /\ flags = [r \in Requests |-> FALSE]
    /\ plan = <<>> /\ step = 0 /\ result = "none"
    /\ status = "running" /\ told = "started" /\ report = "none"
    /\ observed = FALSE /\ pending = 0 /\ acted = 0 /\ kept = 0
    /\ requests = 0 /\ asked = <<"nowhere", 0>> /\ late = 0

-----------------------------------------------------------------------------
(* The other threads.                                                     *)

Requested(r) ==
    CASE r = "resumed"  -> [q \in Requests |-> FALSE]
      [] r = "canceled" -> [q \in Requests |-> q = "canceled"]
      [] r = "stopped"  -> [flags EXCEPT !["stopped"] = TRUE, !["paused"] = FALSE]
      [] r = "paused"   -> [flags EXCEPT !["paused"] = TRUE]

Standing == \E r \in Requests : flags[r]

(* TaskControlStore.request holds the lock for all its assignments.       *)
Request(r) ==
    /\ at # "done" /\ requests < MaxRequests
    /\ requests' = requests + 1
    /\ flags' = Requested(r)
    /\ asked' = <<at, reading>>
    /\ late' = IF Standing /\ r # "resumed" THEN late ELSE 0
    /\ UNCHANGED control /\ UNCHANGED planned /\ UNCHANGED outcome /\ UNCHANGED browser

-----------------------------------------------------------------------------
(* How a run ends.                                                        *)

End(s, event) == at' = "done" /\ status' = s /\ told' = event

(* generate_partial_report                                                *)
EndPartial == End("succeeded_partial", "partial") /\ report' = "partial"

(* finalize_failure, for whatever else was raised.                        *)
EndFailed == End("failed", "failed")

EndRequested(r) ==
    \/ r = "stopped" /\ EndPartial
    \/ r # "stopped" /\ End(r, r) /\ UNCHANGED report

-----------------------------------------------------------------------------
(* Checkpoints.                                                           *)

(* check_control_state looks for stop before pause, the loop and the      *)
(* executor for pause before stop.                                        *)
Order(place) == IF place \in HandlerChecks THEN <<"canceled", "stopped", "paused">>
                                           ELSE <<"canceled", "paused", "stopped">>

After(place) ==
    CASE place = "before_prompt_build"      -> "prompt"
      [] place = "before_llm_call"          -> "planning"
      [] place = "after_llm_call"           -> "validating"
      [] place = "before_tool_calls"        -> "loop"
      [] place = "before_tool_call"         -> "before_browser_action"
      [] place = "before_browser_action"    -> "tool"
      [] place = "after_browser_action"     -> "after_tool_call"
      [] place = "after_tool_call"          -> "record"
      [] place = "after_tool_calls"         -> IF status \in {"requires_approval", "blocked"}
                                               THEN "done" ELSE "before_report_generation"
      [] place = "before_report_generation" -> "report"

\* Mutant: a pause holds the handler until it is resumed.
HeedHold(r) ==
    \/ /\ at \in HandlerChecks
       /\ \/ r = "paused" /\ UNCHANGED at /\ UNCHANGED outcome
          \/ r # "paused" /\ EndRequested(r)
       /\ UNCHANGED <<result, flags>>
    \/ /\ at \in LoopChecks /\ at' = "leave" /\ result' = r
       /\ status' = IF r = "stopped" THEN status ELSE r
       /\ UNCHANGED <<told, report, flags>>
    \/ /\ at \in ExecutorChecks /\ at' = "after_tool_call" /\ result' = r
       /\ UNCHANGED outcome /\ UNCHANGED flags

(* The handler ends the run, the loop leaves with the request as its      *)
(* error, and the executor returns a failed result in the place of the    *)
(* one it may already have.                                               *)
Heed(r) ==
    \/ /\ at \in HandlerChecks /\ EndRequested(r)
       /\ flags' = IF r = "stopped"
                   THEN [flags EXCEPT !["stopped"] = FALSE, !["paused"] = FALSE]
                   ELSE flags
       /\ UNCHANGED result
    \/ /\ at \in LoopChecks /\ at' = "leave" /\ result' = r
       /\ status' = IF r = "stopped" THEN status ELSE r
       /\ UNCHANGED <<told, report, flags>>
    \/ /\ at \in ExecutorChecks /\ at' = "after_tool_call" /\ result' = r
       /\ UNCHANGED outcome /\ UNCHANGED flags

Pass ==
    /\ at' = After(at)
    /\ status' = IF After(at) = "before_report_generation" THEN "completed" ELSE status
    /\ UNCHANGED <<result, told, report, flags>>

\* Mutant: the cancel flag is left to the handler's own checkpoints.
ReadOwn ==
    /\ at \in Checks
    /\ LET r == Order(at)[reading + 1]
           heeded == flags[r] /\ (r = "canceled" => at \in HandlerChecks)
       IN IF heeded THEN reading' = 0 /\ Heed(r)
          ELSE IF reading = 2 THEN reading' = 0 /\ Pass
          ELSE reading' = reading + 1 /\ UNCHANGED <<at, result, flags>> /\ UNCHANGED outcome
    /\ UNCHANGED <<requests, asked, late>> /\ UNCHANGED planned /\ UNCHANGED browser

Read ==
    /\ at \in Checks
    /\ LET r == Order(at)[reading + 1]
       IN IF flags[r] THEN reading' = 0 /\ Heed(r)
          ELSE IF reading = 2 THEN reading' = 0 /\ Pass
          ELSE reading' = reading + 1 /\ UNCHANGED <<at, result, flags>> /\ UNCHANGED outcome
    /\ UNCHANGED <<requests, asked, late>> /\ UNCHANGED planned /\ UNCHANGED browser

-----------------------------------------------------------------------------
(* The work between the checkpoints.                                      *)

Rest == UNCHANGED <<reading, late>> /\ UNCHANGED others

(* A dry run ends after the prompt, a run whose prompt cannot be written  *)
(* fails.                                                                 *)
BuildPrompt ==
    /\ at = "prompt"
    /\ \/ at' = "before_llm_call" /\ UNCHANGED <<status, told>>
       \/ End("completed", "succeeded")
       \/ EndFailed
    /\ UNCHANGED <<result, report>> /\ UNCHANGED planned /\ UNCHANGED browser /\ Rest

(* The planner's client may ask for the budget or after a timeout, run    *)
(* into the hard limit or fail.                                           *)
Plan ==
    /\ at = "planning"
    /\ \/ plan' \in Plans /\ at' = "after_llm_call" /\ UNCHANGED outcome
       \/ End("waiting_for_approval", "paused") /\ UNCHANGED <<plan, report>>
       \/ EndPartial /\ UNCHANGED plan
       \/ EndFailed /\ UNCHANGED <<plan, report>>
    /\ UNCHANGED <<result, step>> /\ UNCHANGED browser /\ Rest

(* PlanValidator.validate                                                 *)
ValidPlan(p) ==
    /\ p # <<>> /\ Len(p) <= MaxSteps
    /\ \A i \in DOMAIN p :
          /\ p[i] # "input"
          /\ p[i] \in Browser \ {"open"} => \E j \in 1..(i - 1) : p[j] = "open"
          /\ p[i] = "finish" => i = Len(p)

Validate ==
    /\ at = "validating"
    /\ \/ ValidPlan(plan) /\ at' = "before_tool_calls" /\ UNCHANGED <<status, told>>
       \/ ~ValidPlan(plan) /\ EndFailed
    /\ UNCHANGED <<result, report>> /\ UNCHANGED planned /\ UNCHANGED browser /\ Rest

Loop ==
    /\ at = "loop"
    /\ IF step < Len(plan) /\ step < MaxSteps
       THEN at' = "before_tool_call" /\ step' = step + 1
       ELSE at' = "leave" /\ UNCHANGED step
    /\ result' = IF step < Len(plan) /\ step >= MaxSteps THEN "failed" ELSE "none"
    /\ UNCHANGED plan /\ UNCHANGED outcome /\ UNCHANGED browser /\ Rest

(* The risk gate looks at the hint of a click and at the last page seen.  *)
Ask ==
    /\ pending' = pending + 1 /\ told' = "paused"
    /\ result' = "asked" /\ at' = "after_tool_call"
    /\ UNCHANGED <<observed, acted>>

Block ==
    /\ result' = "blocked" /\ at' = "after_tool_call"
    /\ UNCHANGED <<observed, acted, pending, told>>

(* browser_open leaves last_observation alone unless the URL is blocked;  *)
(* the other browser tools set it when they work.                         *)
Act(tool) ==
    /\ at' = "after_browser_action" /\ acted' = acted + 1
    /\ \/ result' = "none" /\ observed' = (observed \/ tool \in {"observe", "click"})
       \/ /\ tool # "finish" /\ result' = "failed"
          /\ observed' \in {observed, observed \/ tool = "click"}
       \/ /\ tool = "open" /\ result' = "blocked" /\ observed' = TRUE
    /\ UNCHANGED <<pending, told>>

(* A policy error is caught past the checkpoint after the action, an      *)
(* exception as well, so both return without it.                          *)
Fail(tool) ==
    /\ acted' = acted + 1 /\ at' = "after_tool_call"
    /\ \/ tool = "open" /\ result' = "blocked" /\ observed' = TRUE
       \/ result' = "failed" /\ UNCHANGED observed
    /\ UNCHANGED <<pending, told>>

(* LocalToolExecutor.execute                                              *)
Execute ==
    /\ at = "tool"
    /\ LET tool == plan[step] IN
       \/ tool = "ask" /\ Ask
       \/ tool = "block" /\ Block
       \/ tool = "click" /\ observed /\ (Ask \/ Block)
       \/ tool = "load" /\ at' = "after_browser_action" /\ result' = "failed"
             /\ UNCHANGED <<observed, acted, pending, told>>
       \/ tool \in {"open", "observe", "click", "finish"} /\ Act(tool)
       \/ tool \in {"open", "observe", "click"} /\ Fail(tool)
    /\ late' = IF Standing /\ acted' > acted THEN late + 1 ELSE late
    /\ UNCHANGED <<reading, status, report, kept>> /\ UNCHANGED others /\ UNCHANGED planned

\* Mutant: every result counts as one of the browser's.
RecordEvery ==
    /\ at = "record"
    /\ kept' = kept + 1
    /\ at' = IF result = "none" THEN "loop" ELSE "leave"
    /\ UNCHANGED <<result, observed, pending, acted>>
    /\ UNCHANGED outcome /\ UNCHANGED planned /\ Rest

(* The record, the evidence and the events of a call; a failed or blocked *)
(* result ends the loop.                                                  *)
Record ==
    /\ at = "record"
    /\ kept' = IF acted > kept /\ result \notin Requests THEN kept + 1 ELSE kept
    /\ at' = IF result = "none" THEN "loop" ELSE "leave"
    /\ UNCHANGED <<result, observed, pending, acted>>
    /\ UNCHANGED outcome /\ UNCHANGED planned /\ Rest

(* execute_plan, once the loop has returned.  A run that waits for an     *)
(* approval or was blocked returns the last observation; without one it   *)
(* fails like any other error.                                            *)
Leave ==
    /\ at = "leave"
    /\ \/ /\ result = "none" /\ observed
          /\ at' = "after_tool_calls" /\ UNCHANGED outcome
       \/ /\ result \in Requests /\ EndRequested(result)
       \/ /\ result \in {"asked", "blocked"} /\ observed
          /\ at' = "after_tool_calls"
          /\ status' = IF result = "asked" THEN "requires_approval" ELSE "blocked"
          /\ told' = IF result = "asked" THEN told ELSE "blocked"
          /\ UNCHANGED report
       \/ /\ result = "failed" \/ (result \notin Requests /\ ~observed)
          /\ EndFailed /\ UNCHANGED report
    /\ UNCHANGED result /\ UNCHANGED planned /\ UNCHANGED browser /\ Rest

(* persist_evidence_and_report; an exception may come before or after the *)
(* report is written.                                                     *)
Report ==
    /\ at = "report"
    /\ \/ report' = "final" /\ End("completed", "succeeded")
       \/ report' \in {report, "final"} /\ EndFailed
    /\ UNCHANGED result /\ UNCHANGED planned /\ UNCHANGED browser /\ Rest

-----------------------------------------------------------------------------
Run ==
    \/ Read \/ BuildPrompt \/ Plan \/ Validate \/ Loop \/ Execute \/ Record
    \/ Leave \/ Report

Finished == at = "done" /\ UNCHANGED vars

Next ==
    \/ Run \/ Finished
    \/ \E r \in Requests \cup {"resumed"} : Request(r)

Spec == Init /\ [][Next]_vars /\ WF_vars(Run)

-----------------------------------------------------------------------------
(* At most one browser call begins while a request is standing: the one   *)
(* that had passed its checkpoint when the first of them came, also when  *)
(* a later request replaces it between two reads of a checkpoint.         *)
LateActions == late <= 1

(* A run that ends as completed with its report was asked nothing that    *)
(* still stands before its last checkpoint began.                         *)
CompletedUnasked ==
    (at = "done" /\ status = "completed" /\ report = "final" /\ Standing) =>
        \/ asked[1] = "report"
        \/ asked[1] = "before_report_generation" /\ asked[2] > 0

(* A browser call that is missing from the records and the transcript was *)
(* the last one, and a request is what hid it.                            *)
OnlyRequestsHide ==
    /\ acted - kept <= 1
    /\ (at = "done" /\ kept < acted) =>
          status \in {"canceled", "paused", "succeeded_partial"}

(* What the requests of other threads may cost a run, and what they may    *)
(* not: no more than one late call, no completed report, no lost record.  *)
RequestsCost == LateActions /\ CompletedUnasked /\ OnlyRequestsHide

(* Whatever a run tells in between, its last event is about the status it *)
(* ends with; a console that stopped at an earlier terminal event may     *)
(* show another one.                                                      *)
LastWordIsTrue ==
    at = "done" =>
        told = CASE status = "completed" -> "succeeded"
                 [] status = "succeeded_partial" -> "partial"
                 [] status \in {"requires_approval", "waiting_for_approval"} -> "paused"
                 [] OTHER -> status

(* A call that waits for an approval is shown to wait unless the run never *)
(* looked at a page or was asked to end.                                  *)
AskedIsShown ==
    (at = "done" /\ pending = 1) =>
        \/ status \in {"requires_approval", "canceled", "paused", "succeeded_partial"}
        \/ ~observed

(* Every run comes to an end, whatever is requested meanwhile, and its    *)
(* last event and status are what became of it.                           *)
EndsTruly == <>(at = "done" /\ LastWordIsTrue /\ AskedIsShown)
=============================================================================
