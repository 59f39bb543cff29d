--------------------------- MODULE ActionPlanning ---------------------------
(***************************************************************************)
(* The loop in which auto_explore asks a language model for one action at  *)
(* a time: how an answer is read, normalised, validated and repaired, which *)
(* tool call it becomes, and what the run writes and tells about it         *)
(* (runtime/llm/auto_explore.py, schemas/agent.py and                       *)
(* _execute_auto_explore_with_interrupts of nodes.py).                      *)
(* A text is the key that carries it; an answer is its keys, the spelling   *)
(* of its type and the one remarkable thing it carries besides.             *)
(***************************************************************************)
EXTENDS Naturals, Sequences, FiniteSets

CONSTANTS
    Answers,       \* what the model may answer
    MaxSteps,      \* budget.max_steps
    Attempts       \* handler.repair_attempts

Texts == {"target_hint", "target", "text", "condition", "instruction",
          "summary", "query", "tool_id", "id", "question"}

Answer == [shape : {"object", "fenced", "wrapped", "list", "broken"},
           where : {"action", "name", "flat"},  \* a dict, a string, no "action"
           type  : STRING,
           act   : SUBSET ({"type", "tool"} \cup Texts),  \* keys of "action"
           top   : SUBSET ({"type", "tool"} \cup Texts),  \* keys beside it
           extra : {"none", "dropped", "key", "text", "effect"}]

ASSUME ActionPlanningAssumption ==
    /\ Answers \subseteq Answer /\ Answers # {}
    /\ \A r \in Answers : r.where # "action" => r.act = {}
    /\ MaxSteps \in Nat /\ MaxSteps >= 2 /\ Attempts \in Nat

VARIABLES
    goalRefused, \* the goal holds a forbidden pattern (the "//" of an URL)
    stage,       \* the worker's place
    step,        \* step_index; the seed plan has the first two
    page,        \* runtime.last_observation: "none", a fixture or the web
    asked,       \* generates begun in this step
    answer,      \* the answer being read
    records,     \* validation_records: [step, ok]
    errors,      \* validation_errors: their steps
    requests,    \* Len(repair_requests)
    last,        \* the step of last_decision, 0 for None
    decision,    \* what decide returned, and the call made of it
    artifact,    \* action_validation.json
    told,        \* the last llm_action event and what it says of a repair
    executed,    \* history: calls that reached the gateway and came back
    done,        \* Len(history): calls recorded and shown to the model
    interrupted, \* history: a checkpoint around the model's call raised
    result       \* how the loop left: status, error_type

planner == <<asked, answer, records, errors, requests, last>>
account == <<artifact, told, goalRefused>>
planVars == <<goalRefused, stage, step, page, asked, answer, records, errors,
              requests, last, decision, artifact, told, executed, done,
              interrupted, result>>

ActionTypes ==
    {"browser_open", "browser_observe", "browser_click", "browser_type",
     "browser_select", "browser_scroll", "browser_wait", "browser_extract",
     "browser_screenshot", "tool_search", "tool_load", "ask_human",
     "finish_task"}
Input == {"browser_type", "browser_select"}

\* max(1, handler.repair_attempts).
Repairs == IF Attempts = 0 THEN 1 ELSE Attempts

NoAnswer == [shape |-> "none"]
NoDecision == [tool |-> "none", argument |-> "none", step |-> 0]
NoArtifact == [status |-> "none", final |-> 0, repairs |-> 0]
Decision == [tool : ActionTypes, argument : Texts \cup {"goal", "fixed", "reason"},
             step : 1..MaxSteps]

PlanTypeOK ==
    /\ goalRefused \in BOOLEAN
    /\ stage \in {"seed", "ask", "read", "decided", "call", "ended"}
    /\ step \in 1..(MaxSteps + 1)
    /\ page \in {"none", "local", "public"}
    /\ asked \in 0..(Repairs + 1)
    /\ answer \in Answers \cup {NoAnswer} /\ (stage = "read") = (answer # NoAnswer)
    /\ records \in Seq([step : 3..MaxSteps, ok : BOOLEAN])
    /\ errors \in Seq(3..MaxSteps)
    /\ requests \in Nat /\ last \in 0..MaxSteps
    /\ decision \in Decision \cup {NoDecision}
    /\ artifact \in [status : {"none", "failed", "repaired", "success"},
                    final : 0..MaxSteps, repairs : Nat]
    /\ told \in [event : {"none", "validated", "repaired", "rejected"},
                repair : BOOLEAN]
    /\ executed \in 0..MaxSteps /\ done \in 0..MaxSteps
    /\ interrupted \in BOOLEAN
    /\ result.status \in {"none", "success", "failed", "blocked", "asks",
                          "waiting", "partial", "interrupted"}

PlanInit ==
    /\ goalRefused \in BOOLEAN
    /\ stage = "seed" /\ step = 1 /\ page = "none" /\ asked = 0
    /\ answer = NoAnswer /\ records = <<>> /\ errors = <<>> /\ requests = 0
    /\ last = 0 /\ decision = NoDecision /\ artifact = NoArtifact
    /\ told = [event |-> "none", repair |-> FALSE]
    /\ executed = 0 /\ done = 0 /\ interrupted = FALSE
    /\ result = [status |-> "none", error |-> "none"]

-----------------------------------------------------------------------------
(* Reading an answer.                                                      *)

(* _json_payload: a fenced block, the whole text, or its first object.     *)
Parses(r) == r.shape \in {"object", "fenced", "wrapped"}

(* _looks_like_action: keys by which an object without "action" is one.    *)
LooksLikeAction(keys) == keys \ {"tool_id", "id", "question"} # {}

\* _normalize_action_type, and schemas without a value.
Alias == [click |-> "browser_click", click_intent |-> "browser_click",
          observe |-> "browser_observe", extract |-> "browser_extract",
          wait |-> "browser_wait", scroll |-> "browser_scroll",
          screenshot |-> "browser_screenshot", finish |-> "finish_task",
          done |-> "finish_task", final |-> "finish_task",
          load_tool |-> "tool_load", toolload |-> "tool_load",
          toolsearch |-> "tool_search"]
Canonical(type) == IF type \in DOMAIN Alias THEN Alias[type] ELSE type

(* The keys of the action before defaults.  An action given as a string    *)
(* keeps of the keys beside it only those that are looked up there:        *)
(* "target" is, "target_hint", "text" and "condition" are not.             *)
Own(r) ==
    CASE r.where = "action" -> r.act
      [] r.where = "name"   -> {"type"}
      [] r.where = "flat" /\ LooksLikeAction(r.top) -> r.top
      [] OTHER -> {}

Typed(r) == Own(r) \cap {"type", "tool"} # {} \/ "tool" \in r.top

\* The keys that one of these places provides, under the schema's names.
Collected(r) ==
    LET both == Own(r) \cup r.top
    IN  Own(r) \cup (both \cap {"instruction", "summary", "query"})
        \cup (IF "target" \in both THEN {"target_hint"} ELSE {})
        \cup (IF both \cap {"tool_id", "id"} # {} THEN {"tool_id"} ELSE {})
        \cup (IF Canonical(r.type) = "ask_human" THEN both \cap {"question"}
                                                 ELSE {})

(* action.get(a) or action.get(b) or ...: the first text that is there.    *)
FirstOf(order, keys, otherwise) ==
    IF \E i \in DOMAIN order : order[i] \in keys
    THEN order[CHOOSE i \in DOMAIN order :
                  order[i] \in keys /\ \A j \in 1..(i - 1) : order[j] \notin keys]
    ELSE otherwise

(* _normalize_decision_payload: the type, and where each text comes from.  *)
Normalized(r) ==
    LET type == IF Typed(r) THEN Canonical(r.type) ELSE "none"
        keys == Collected(r)
        First(order, otherwise) == FirstOf(order, keys, otherwise)
    IN  [type |-> type, keys |-> keys,
         instruction |-> IF type = "browser_extract"
                         THEN First(<<"instruction", "summary">>, "goal")
                         ELSE IF type = "finish_task"
                         THEN First(<<"instruction", "summary">>, "none")
                         ELSE First(<<"instruction">>,
                                    IF type = "ask_human" /\ "question" \notin keys
                                    THEN "fixed" ELSE "none"),
         query |-> IF type = "tool_search"
                   THEN First(<<"query", "instruction">>, "goal")
                   ELSE First(<<"query">>, "none"),
         tool_id |-> IF type = "tool_load"
                     THEN First(<<"tool_id", "query", "instruction">>, "none")
                     ELSE First(<<"tool_id">>, "none")]

(* _forbidden_field_paths and _reject_forbidden_text.  A key that the      *)
(* normalisation drops takes its text with it; the user's goal, put in for *)
(* a missing instruction or query, is searched like the model's own words. *)
Refused(n, extra) ==
    \/ extra \in {"key", "text"}
    \/ goalRefused /\ "goal" \in {n.instruction, n.query}

(* validate_action_contract (url and options are not among the texts: an   *)
(* open is never available here and a select never complete).              *)
Misses(n) ==
    \/ n.type \in {"browser_click", "browser_type"} /\ "target_hint" \notin n.keys
    \/ n.type = "browser_type" /\ "text" \notin n.keys
    \/ n.type \in {"browser_open", "browser_select"}
    \/ n.type = "browser_wait" /\ "condition" \notin n.keys
    \/ n.type = "tool_load" /\ n.tool_id = "none"

(* AutoExploreDecision.model_validate.                                     *)
Validates(n, extra) ==
    /\ n.type \in ActionTypes
    /\ ~Refused(n, extra) /\ ~Misses(n)
    /\ extra # "effect"

(* select_prompt_tools once a page was observed.                           *)
Available ==
    (ActionTypes \ (Input \cup {"browser_open"}))
        \cup (IF page = "local" THEN Input ELSE {})

\* Mutant: the tools of the first prompt are not looked at again.
AcceptsAnything(r) ==
    Parses(r) /\ Validates(Normalized(r), r.extra)

(* parse_auto_explore_decision, then _enforce_available_action.            *)
Accepts(r) ==
    /\ Parses(r)
    /\ Validates(Normalized(r), r.extra)
    /\ Normalized(r).type \in Available

(* decision_to_tool_call: the text that becomes the call's main argument.  *)
Argument(n) ==
    CASE n.type \in {"browser_click", "browser_type"} -> "target_hint"
      [] n.type = "browser_wait" -> "condition"
      [] n.type = "browser_extract" -> n.instruction
      [] n.type = "tool_search" -> n.query
      [] n.type = "tool_load" -> n.tool_id
      [] n.type = "finish_task" ->
           IF "summary" \in n.keys THEN "summary"
           ELSE IF n.instruction # "none" THEN n.instruction ELSE "fixed"
      [] n.type = "ask_human" ->
           IF "question" \in n.keys THEN "question" ELSE "reason"
      [] OTHER -> "reason"

-----------------------------------------------------------------------------
(* What the run writes and tells.                                          *)

\* Mutant: a repair that was asked for counts as one that succeeded.
StatusOfRequests(decided, repaired) ==
    IF repaired THEN "repaired" ELSE IF decided THEN "success" ELSE "failed"

(* The status and repair_success of _write_action_validation_artifact:     *)
(* both look at the whole run's requests and decisions, not at this step's. *)
Status(decided, repaired) ==
    IF ~decided THEN "failed" ELSE IF repaired THEN "repaired" ELSE "success"

Written == [status |-> Status(last # 0, requests > 0), final |-> last,
            repairs |-> requests]

(* _finish_auto_explore_failure; without a status of its own, or without a *)
(* page to return, it raises and the node fails.                           *)
FailureStatus(error, seen) ==
    CASE error = "RISK_APPROVAL_REQUIRED" /\ seen # "none" -> "asks"
      [] error = "RISK_BLOCKED" /\ seen # "none" -> "blocked"
      [] OTHER -> "failed"

Leave(status, error) ==
    /\ stage' = "ended" /\ result' = [status |-> status, error |-> error]

Fail(error, seen) == Leave(FailureStatus(error, seen), error)

-----------------------------------------------------------------------------
(* The seed plan: open the target, then observe it.                        *)

Outcomes == {"ok", "PROVIDER_ERROR", "RISK_BLOCKED", "RISK_APPROVAL_REQUIRED"}

(* Opening a page leaves no observation, unless the public-web policy       *)
(* refuses it; observing it leaves one, unless the gate holds it back.     *)
SeedSees(outcome, where) ==
    /\ step = 1 /\ where # "none" => outcome = "RISK_BLOCKED"
    /\ step = 2 /\ outcome = "ok" => where # "none"
    /\ step = 2 /\ where # "none" => outcome \in {"ok", "PROVIDER_ERROR"}

Seed(outcome, where) ==
    /\ stage = "seed"
    /\ executed' = executed + 1 /\ done' = done + 1
    /\ SeedSees(outcome, where) /\ page' = where
    /\ IF outcome # "ok"
       THEN Fail(outcome, where) /\ UNCHANGED step
       ELSE /\ step' = step + 1 /\ UNCHANGED result
            /\ stage' = IF step = 2 THEN "ask" ELSE "seed"
    /\ UNCHANGED <<planner, account, decision, interrupted>>

(* The for loop over step_index ran out.                                   *)
OverBudget == step > MaxSteps

ExceedSteps ==
    /\ stage = "ask" /\ asked = 0 /\ OverBudget
    /\ Fail("MAX_STEPS_EXCEEDED", page)
    /\ UNCHANGED <<step, page, planner, decision, account, executed, done,
                   interrupted>>

-----------------------------------------------------------------------------
(* One decision.                                                           *)

Asks == stage = "ask" /\ ~OverBudget

(* planner.decide and _repair: a request, and the model's answer.  A       *)
(* request for a repair is on the list before the model is called.         *)
Generate(r) ==
    /\ stage' = "read" /\ answer' = r /\ asked' = asked + 1
    /\ requests' = IF asked > 0 THEN requests + 1 ELSE requests
    /\ UNCHANGED <<step, page, records, errors, last, decision, account,
                   executed, done, interrupted, result>>

(* The same request ends in a question about the budget or the timeout, or *)
(* at the hard limit: the run keeps what it has and writes no artifact.    *)
Refuse(status) ==
    /\ Asks /\ status \in {"waiting", "partial"}
    /\ Leave(status, "LLM_BUDGET")
    /\ asked' = asked + 1
    /\ requests' = IF asked > 0 THEN requests + 1 ELSE requests
    /\ UNCHANGED <<step, page, answer, records, errors, last, decision, account,
                   executed, done, interrupted>>

(* except RuntimeError: an answer that stayed invalid, an error of the     *)
(* provider and a checkpoint that raised are told alike.                   *)
Reject ==
    /\ artifact' = Written' /\ UNCHANGED goalRefused
    /\ told' = [event |-> "rejected", repair |-> last' # 0]
    /\ Fail("LLM_ACTION_SCHEMA_INVALID", page)

(* The provider fails, or the checkpoint before_llm_call raises.           *)
Break(byControl) ==
    /\ Asks /\ byControl \in BOOLEAN /\ (byControl => asked = 0)
    /\ asked' = IF byControl THEN asked ELSE asked + 1
    /\ requests' = IF asked > 0 THEN requests + 1 ELSE requests
    /\ interrupted' = (interrupted \/ byControl)
    /\ UNCHANGED <<step, page, answer, records, errors, last, decision,
                   executed, done>>
    /\ Reject

(* Every answer leaves a record, every refused one an error.               *)
Validated(ok) ==
    /\ records' = Append(records, [step |-> step, ok |-> ok])
    /\ errors' = IF ok THEN errors ELSE Append(errors, step)

(* The decision that an accepted answer is, and last_decision.             *)
Decide(r) ==
    IF Accepts(r)
    THEN /\ last' = step
         /\ decision' = [tool |-> Normalized(r).type,
                         argument |-> Argument(Normalized(r)), step |-> step]
    ELSE UNCHANGED <<last, decision>>

\* Mutant: a repair is asked for once more than configured.
RepairsOnceMore == asked <= Repairs + 1

(* for _ in range(self.repair_attempts).                                   *)
MayRepair == asked <= Repairs

Read ==
    /\ stage = "read" /\ answer' = NoAnswer
    /\ Validated(Accepts(answer)) /\ Decide(answer)
    /\ UNCHANGED <<step, page, asked, requests, executed, done, interrupted>>
    /\ IF Accepts(answer) THEN stage' = "decided" /\ UNCHANGED <<account, result>>
       ELSE IF MayRepair THEN stage' = "ask" /\ UNCHANGED <<account, result>>
       ELSE Reject

(* The checkpoint after_llm_call raises: the step's decision is lost, but  *)
(* it is last_decision.                                                    *)
InterruptDecision ==
    /\ stage = "decided" /\ interrupted' = TRUE
    /\ UNCHANGED <<step, page, planner, decision, executed, done>>
    /\ Reject

(* repaired = bool(planner.repair_requests) and last_decision is not None. *)
ToldRepaired == requests > 0

Propose ==
    /\ stage = "decided" /\ stage' = "call"
    /\ artifact' = Written /\ UNCHANGED goalRefused
    /\ told' = [event |-> IF ToldRepaired THEN "repaired" ELSE "validated",
                repair |-> ToldRepaired]
    /\ UNCHANGED <<step, page, planner, decision, executed, done, interrupted,
                   result>>

-----------------------------------------------------------------------------
(* Its call.                                                               *)

(* before_tool_call and before_browser_action raise out of the node, and   *)
(* so do after_browser_action and after_tool_call, then with the call made *)
(* but neither recorded nor shown to the model.                            *)
InterruptCall ==
    /\ stage \in {"seed", "call"} /\ Leave("interrupted", "none")
    /\ executed' \in {executed, executed + 1}
    /\ UNCHANGED <<step, page, planner, decision, account, done, interrupted>>

(* tool_result.status is neither failed nor blocked.                       *)
Succeeds(outcome) == outcome = "ok"

(* The result is recorded.  Where an approval is asked for, the branch that *)
(* would pause the task calls _state_payload, which nodes.py does not have: *)
(* the node fails.                                                         *)
Invoke(outcome, where) ==
    /\ stage = "call" /\ where # "none"
    /\ where # page => decision.tool \in
           {"browser_click", "browser_observe", "browser_extract"}
    /\ page' = where
    /\ executed' = executed + 1 /\ done' = done + 1
    /\ UNCHANGED <<answer, records, errors, requests, last, account, interrupted>>
    /\ CASE outcome = "RISK_APPROVAL_REQUIRED" ->
              Leave("failed", outcome) /\ UNCHANGED <<step, asked, decision>>
         [] outcome # "RISK_APPROVAL_REQUIRED" /\ ~Succeeds(outcome) ->
              Fail(outcome, where) /\ UNCHANGED <<step, asked, decision>>
         [] Succeeds(outcome) /\ decision.tool = "finish_task" ->
              Leave("success", "none") /\ UNCHANGED <<step, asked, decision>>
         [] Succeeds(outcome) /\ decision.tool # "finish_task" ->
              /\ stage' = "ask" /\ step' = step + 1 /\ asked' = 0
              /\ decision' = NoDecision /\ UNCHANGED result

Pages == {"none", "local", "public"}

PlanNext ==
    \/ \E outcome \in Outcomes, where \in Pages :
           Seed(outcome, where) \/ Invoke(outcome, where)
    \/ ExceedSteps
    \/ Asks /\ \E r \in Answers : Generate(r)
    \/ \E status \in {"waiting", "partial"} : Refuse(status)
    \/ \E byControl \in BOOLEAN : Break(byControl)
    \/ Read \/ InterruptDecision \/ Propose \/ InterruptCall

(* One worker runs the loop to its end; every await in it returns.         *)
PlanSpec == PlanInit /\ [][PlanNext]_planVars

-----------------------------------------------------------------------------
(* Properties.                                                             *)

(* What becomes a call is the last answer of its own step, accepted, while *)
(* every earlier answer of the step was refused; its tool is one the page  *)
(* in view allows, and typing is only for a local fixture                  *)
(* (AutoExploreActionPlanner.decide, _enforce_available_action).           *)
CallIsValidated ==
    stage = "call" =>
        /\ decision.step = step /\ decision.tool \in Available
        /\ decision.tool \in Input => page = "local"
        /\ records[Len(records)] = [step |-> step, ok |-> TRUE]
        /\ \A i \in 1..(Len(records) - 1) : records[i].ok => records[i].step < step

\* An answer as _system_prompt asks for it: one object with an action of the
\* listed keys, and what _few_shot_examples shows its type to need.
Schema == {"type", "target_hint", "text", "condition", "instruction", "query",
           "tool_id"}
Needs(type) ==
    CASE type = "browser_click" -> {"target_hint"}
      [] type = "browser_type"  -> {"target_hint", "text"}
      [] type = "browser_wait"  -> {"condition"}
      [] type = "tool_load"     -> {"tool_id"}
      [] OTHER -> {}
Conforms(r) ==
    /\ r.shape = "object" /\ r.where = "action" /\ r.extra = "none"
    /\ "type" \in r.act /\ r.act \subseteq Schema /\ r.top = {}
    /\ r.type \in Available \ {"browser_select"} /\ Needs(r.type) \subseteq r.act

(* An answer written as the prompt asks is accepted.  The one exception:   *)
(* an extraction without instruction, or a search without query, is given  *)
(* the user's goal for one, and a goal that holds an URL ("//") is refused *)
(* as raw automation (_normalize_decision_payload, FORBIDDEN_ACTION_PATTERNS). *)
SchemaIsEnough ==
    stage = "read" /\ Conforms(answer) =>
        \/ Accepts(answer)
        \/ goalRefused /\ \/ answer.type = "browser_extract"
                          \/ answer.type = "tool_search" /\ "query" \notin answer.act
                       /\ "instruction" \notin answer.act

\* The texts a tool's call is made of.
Reads(type) == CASE type = "tool_search" -> {"query", "instruction"}
                 [] type \in {"finish_task", "browser_extract"} ->
                      {"instruction", "summary"}
                 [] type = "ask_human" -> {"question"}
                 [] OTHER -> {}

(* A call says the goal, a stock phrase or the model's reason only when the *)
(* answer gave none of the texts its tool reads, wherever it put them      *)
(* (_normalize_decision_payload, decision_to_tool_call).                   *)
ModelsWordsAreUsed ==
    stage = "read" /\ Accepts(answer) =>
        LET n == Normalized(answer)
        IN  Argument(n) \in {"goal", "fixed", "reason"} =>
                Reads(n.type) \cap (answer.act \cup answer.top) = {}

(* What the model says is taken when it is as asked for, and only then.    *)
AnswersAreRead == CallIsValidated /\ SchemaIsEnough /\ ModelsWordsAreUsed

(* A call that runs is the one action_validation.json names as final, and  *)
(* the file does not call it failed (_write_action_validation_artifact).   *)
ArtifactIsCurrent ==
    stage = "call" => artifact.final = decision.step /\ artifact.status # "failed"

(* A run that ends on the schema error with no decision at all is told so: *)
(* the file says failed and no repair is called a success.  (After an      *)
(* earlier step's decision, or one lost to a checkpoint, both are stale.)  *)
FailureIsTold ==
    result.error = "LLM_ACTION_SCHEMA_INVALID" =>
        \/ artifact.status = "failed" /\ artifact.final = 0 /\ ~told.repair
        \/ interrupted
        \/ \E i \in DOMAIN records : records[i].ok /\ records[i].step < step

(* The three lists of the planner agree: the errors are the refused        *)
(* records, and a decision was reached by one repair request for each      *)
(* (validation_records, validation_errors, repair_requests).               *)
RepairsAnswerErrors ==
    /\ Len(errors) = Cardinality({i \in DOMAIN records : ~records[i].ok})
    /\ stage \in {"decided", "call"} => requests = Len(errors)

(* A step whose first answer was refused is never told as validated at     *)
(* once, and "repaired" means that some answer of the run was refused      *)
(* (nodes.py, llm_action_repaired / llm_action_validated).                 *)
RepairIsTold ==
    stage = "call" =>
        IF told.event = "repaired" THEN errors # <<>>
        ELSE \A i \in DOMAIN errors : errors[i] # step

(* The model is asked at most once and Repairs times more in a step, and a *)
(* step is taken at most once: max_steps bounds the calls, and a run out   *)
(* of steps has spent them all on calls that came back and were recorded.  *)
BudgetBounds ==
    /\ \A s \in 3..MaxSteps :
          Cardinality({i \in DOMAIN records : records[i].step = s}) <= Repairs + 1
    /\ executed <= MaxSteps
    /\ result.error = "MAX_STEPS_EXCEEDED" =>
          executed = MaxSteps /\ done = MaxSteps

(* The planner's lists, the artifact, the events and the budgets of a run   *)
(* are one account of its answers.                                         *)
RepairsAccounted ==
    /\ ArtifactIsCurrent /\ FailureIsTold
    /\ RepairsAnswerErrors /\ RepairIsTold /\ BudgetBounds
=============================================================================
