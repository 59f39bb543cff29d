------------------------------ MODULE LLMBudget ------------------------------
(***************************************************************************)
(* The gate in front of every call to the LLM provider: the budget         *)
(* decision, compaction, the approvals it asks for, the retries after a    *)
(* timeout, and what the answers of a person do to the next run            *)
(* (runtime/llm/router.py, runtime/llm/budget.py, api/approvals.py).       *)
(* One task; its runs follow one another (two workers that overlap are the *)
(* subject of TaskControl).  Tokens are small numbers and a cost is in the *)
(* unit of one prompt token, a completion token costing three.             *)
(***************************************************************************)
EXTENDS Naturals

CONSTANTS
    PromptSizes, CompletionSizes,   \* estimated tokens of a request, an answer
    MaxCompletion,                  \* max_completion_tokens_per_call
    MaxCalls, PerCall,              \* max_llm_calls_per_task, ..._per_call
    Soft, Approval, Hard,           \* prompt tokens of the whole task
    HardCompletion,                 \* max_completion_tokens_per_task
    SoftCost, ApprovalCost, HardCost,
    AutoCompaction,                 \* enable_auto_compaction
    Retries,                        \* max_llm_retries_per_call, 0 when off
    MaxUses, MaxClients, MaxRuns    \* bounds: generates of a client, clients
                                    \* of a run, runs of the task

ASSUME LLMBudgetAssumption ==
    /\ PromptSizes \subseteq Nat \ {0} /\ PromptSizes # {}
    /\ CompletionSizes \subseteq 0..MaxCompletion /\ CompletionSizes # {}
    /\ {MaxCompletion, MaxCalls, PerCall, Soft, Approval, Hard, HardCompletion,
        SoftCost, ApprovalCost, HardCost, Retries, MaxUses, MaxClients, MaxRuns}
          \subseteq Nat
    /\ MaxUses > 0 /\ MaxRuns > 0
    /\ AutoCompaction \in BOOLEAN

VARIABLES
    file,      \* totals of llm_calls.jsonl without its skipped records
    client,    \* counters of the AuditedBudgetedLLMClient in use
    purpose,   \* what that client is for; "none" when there is no client
    uses,      \* generates begun with it
    clients,   \* clients made in this run
    at,        \* the worker's place
    size,      \* estimated prompt tokens of the request
    decision,  \* budget_decision
    attempt,   \* attempt of the retry loop
    override, forTask, compact,     \* TaskControlState
    pending,   \* kinds of approval that wait for an answer
    restarts,  \* answers whose _restart_task has not run yet
    runs,      \* runs started
    grants,    \* history: answers that admit one call
    gated,     \* history: calls that needed such an answer
    fresh      \* history: continue answered, and no call let through since

counters == <<file, client>>
flags == <<override, forTask, compact>>
history == <<grants, gated, fresh>>
workerVars == <<purpose, uses, clients, at, size, decision, attempt>>
vars == <<file, client, purpose, uses, clients, at, size, decision, attempt,
          override, forTask, compact, pending, restarts, runs, grants, gated,
          fresh>>

Totals == [calls : Nat, prompt : Nat, completion : Nat]
Zero == [calls |-> 0, prompt |-> 0, completion |-> 0]

Refusals == {"hard_limit_exceeded", "denied", "compaction_required"}

TypeOK ==
    /\ file \in Totals /\ client \in Totals
    /\ purpose \in {"none", "main", "reviewer"}
    /\ uses \in 0..MaxUses /\ clients \in 0..MaxClients
    /\ at \in {"ended", "idle", "decided", "calling"}
    /\ size \in PromptSizes \cup {0}
    /\ decision \in Refusals \cup {"none", "approval_required", "warning", "allowed"}
    /\ attempt \in 0..Retries
    /\ override \in BOOLEAN /\ forTask \in BOOLEAN
    /\ compact \in BOOLEAN /\ fresh \in BOOLEAN
    /\ pending \subseteq {"llm_budget", "llm_timeout"}
    /\ restarts \in 0..MaxRuns /\ runs \in 1..MaxRuns
    /\ grants \in 0..MaxRuns /\ gated \in Nat

Init ==
    /\ file = Zero /\ client = Zero /\ purpose = "none"
    /\ uses = 0 /\ clients = 0 /\ at = "idle" /\ size = 0
    /\ decision = "none" /\ attempt = 0
    /\ override = FALSE /\ forTask = FALSE /\ compact = FALSE
    /\ pending = {} /\ restarts = 0 /\ runs = 1
    /\ grants = 0 /\ gated = 0 /\ fresh = FALSE

-----------------------------------------------------------------------------
(* The decision.                                                          *)

Cost(prompt, completion) == prompt + 3 * completion

(* decide_budget: the first limit that is passed decides.  A hard cost of *)
(* zero is no limit; enable_budget_approval is on for every task the API  *)
(* makes.                                                                 *)
DecideBudget(so, next, continued, compacted) ==
    LET prompt == so.prompt + next
        completion == so.completion + MaxCompletion
        cost == Cost(prompt, completion)
    IN  IF so.calls >= MaxCalls THEN "denied"
        ELSE IF next > PerCall
             THEN IF AutoCompaction /\ ~compacted THEN "compaction_required"
                                                  ELSE "hard_limit_exceeded"
        ELSE IF \/ prompt > Hard
                \/ completion > HardCompletion
                \/ HardCost # 0 /\ cost > HardCost
             THEN "hard_limit_exceeded"
        ELSE IF ~continued /\ (prompt > Approval \/ cost > ApprovalCost)
             THEN "approval_required"
        ELSE IF prompt > Soft \/ cost > SoftCost THEN "warning"
        ELSE "allowed"

-----------------------------------------------------------------------------
(* One generate.                                                          *)

\* Mutant: a new client counts from zero.
NewClientAtZero ==
    /\ at = "idle" /\ clients < MaxClients
    /\ purpose' \in {"main", "reviewer"}
    /\ client' = Zero /\ uses' = 0 /\ clients' = clients + 1
    /\ UNCHANGED <<file, at, size, decision, attempt, pending, restarts, runs>>
    /\ UNCHANGED flags /\ UNCHANGED history

(* A new client counts what the file says was spent: an attempt that      *)
(* failed has its prompt on file, while the client that made it counted   *)
(* the call and not the tokens.                                           *)
NewClient ==
    /\ at = "idle" /\ clients < MaxClients
    /\ purpose' \in {"main", "reviewer"}
    /\ client' = file /\ uses' = 0 /\ clients' = clients + 1
    /\ UNCHANGED <<file, at, size, decision, attempt, pending, restarts, runs>>
    /\ UNCHANGED flags /\ UNCHANGED history

(* compact_llm_messages cuts long messages and adds a marker to each, and *)
(* never cuts below 400 characters: the estimate afterwards may be any.   *)
Decide ==
    /\ at = "idle" /\ purpose # "none" /\ uses < MaxUses
    /\ \E asked, cut \in PromptSizes :
          LET first == DecideBudget(client, asked, forTask, FALSE)
              smaller == compact \/ first = "compaction_required"
          IN  /\ size' = IF smaller THEN cut ELSE asked
              /\ decision' = IF smaller THEN DecideBudget(client, cut, forTask, TRUE)
                                        ELSE first
    /\ uses' = uses + 1 /\ attempt' = 0 /\ at' = "decided"
    /\ UNCHANGED <<file, client, purpose, clients, pending, restarts, runs>>
    /\ UNCHANGED flags /\ UNCHANGED history

(* A raise ends the run where the planner or the explorer called; the     *)
(* reviewer turns it into a failed review and the run goes on.            *)
Raise ==
    /\ at' = IF purpose = "reviewer" THEN "idle" ELSE "ended"
    /\ size' = 0 /\ decision' = "none" /\ attempt' = 0

(* Neither the override nor the consent for the whole task is there: ask, *)
(* or let the request that already waits stand.                           *)
Ask ==
    /\ at = "decided" /\ decision = "approval_required"
    /\ ~override /\ ~forTask
    /\ pending' = pending \cup {"llm_budget"}
    /\ Raise
    /\ UNCHANGED <<file, client, purpose, uses, clients, restarts, runs>>
    /\ UNCHANGED flags /\ UNCHANGED history

Refuse ==
    /\ at = "decided" /\ decision \in Refusals
    /\ Raise
    /\ UNCHANGED <<file, client, purpose, uses, clients, pending, restarts, runs>>
    /\ UNCHANGED flags /\ UNCHANGED history

ClearTransientFlags == override' = FALSE /\ compact' = FALSE

NeedsOverride == decision = "approval_required" /\ ~forTask

\* Mutant: the override is not used up.
AdmitAlways ==
    /\ at = "decided" /\ decision \notin Refusals
    /\ decision = "approval_required" => override \/ forTask
    /\ at' = "calling" /\ fresh' = FALSE
    /\ gated' = gated + (IF NeedsOverride THEN 1 ELSE 0)
    /\ UNCHANGED <<file, client, purpose, uses, clients, size, decision, attempt,
                   pending, restarts, runs, grants>>
    /\ UNCHANGED flags

(* The chain of elifs has one branch for "warning" and a later one that   *)
(* clears the flags: a warning does not use the override up.              *)
Admit ==
    /\ at = "decided" /\ decision \notin Refusals
    /\ decision = "approval_required" => override \/ forTask
    /\ IF decision # "warning" /\ override THEN ClearTransientFlags
                                           ELSE UNCHANGED <<override, compact>>
    /\ at' = "calling" /\ fresh' = FALSE
    /\ gated' = gated + (IF NeedsOverride THEN 1 ELSE 0)
    /\ UNCHANGED <<file, client, purpose, uses, clients, size, decision, attempt,
                   forTask, pending, restarts, runs, grants>>

Spent(totals, calls, prompt, completion) ==
    [calls |-> totals.calls + calls, prompt |-> totals.prompt + prompt,
     completion |-> totals.completion + completion]

Succeed ==
    /\ at = "calling"
    /\ \E c \in CompletionSizes :
          /\ file' = Spent(file, 1, size, c)
          /\ client' = Spent(client, 1, size, c)
    /\ at' = "idle" /\ size' = 0 /\ decision' = "none" /\ attempt' = 0
    /\ UNCHANGED <<purpose, uses, clients, pending, restarts, runs>>
    /\ UNCHANGED flags /\ UNCHANGED history

\* Mutant: one attempt too many.
RetryOnceMore ==
    /\ at = "calling" /\ attempt <= Retries
    /\ file' = Spent(file, 1, size, 0)
    /\ client' = Spent(client, 1, 0, 0)
    /\ attempt' = attempt + 1
    /\ UNCHANGED <<purpose, uses, clients, at, size, decision, pending, restarts, runs>>
    /\ UNCHANGED flags /\ UNCHANGED history

(* The provider does not answer in time, and there is an attempt left.    *)
Retry ==
    /\ at = "calling" /\ attempt < Retries
    /\ file' = Spent(file, 1, size, 0)
    /\ client' = Spent(client, 1, 0, 0)
    /\ attempt' = attempt + 1
    /\ UNCHANGED <<purpose, uses, clients, at, size, decision, pending, restarts, runs>>
    /\ UNCHANGED flags /\ UNCHANGED history

TimeOut ==
    /\ at = "calling" /\ attempt = Retries
    /\ file' = Spent(file, 1, size, 0)
    /\ client' = Spent(client, 1, 0, 0)
    /\ pending' = pending \cup {"llm_timeout"}
    /\ Raise
    /\ UNCHANGED <<purpose, uses, clients, restarts, runs>>
    /\ UNCHANGED flags /\ UNCHANGED history

(* Any other exception of the provider is counted and passed on at once.  *)
Fail ==
    /\ at = "calling"
    /\ file' = Spent(file, 1, size, 0)
    /\ client' = Spent(client, 1, 0, 0)
    /\ Raise
    /\ UNCHANGED <<purpose, uses, clients, pending, restarts, runs>>
    /\ UNCHANGED flags /\ UNCHANGED history

-----------------------------------------------------------------------------
(* The run and the person.                                                *)

EndRun ==
    /\ at = "idle" /\ at' = "ended"
    /\ UNCHANGED <<file, client, purpose, uses, clients, size, decision, attempt,
                   pending, restarts, runs>>
    /\ UNCHANGED flags /\ UNCHANGED history

(* _restart_task runs the request again, from its beginning.              *)
StartRun ==
    /\ at = "ended" /\ restarts > 0
    /\ at' = "idle" /\ restarts' = restarts - 1 /\ runs' = runs + 1
    /\ purpose' = "none" /\ client' = Zero /\ uses' = 0 /\ clients' = 0
    /\ UNCHANGED <<file, size, decision, attempt, pending>>
    /\ UNCHANGED flags /\ UNCHANGED history

CanRestart == runs + restarts < MaxRuns

\* Mutant: the answer restarts the run and forgets the override.
ContinueBudgetUnset(option) ==
    /\ "llm_budget" \in pending /\ CanRestart
    /\ pending' = pending \ {"llm_budget"}
    /\ forTask' = (forTask \/ option = "continue_for_task")
    /\ compact' = (compact \/ option = "continue_with_compaction")
    /\ grants' = grants + (IF option = "continue_for_task" THEN 0 ELSE 1)
    /\ fresh' = TRUE /\ restarts' = restarts + 1
    /\ UNCHANGED <<override, runs, gated>> /\ UNCHANGED counters /\ UNCHANGED workerVars

ContinueBudget(option) ==
    /\ "llm_budget" \in pending /\ CanRestart
    /\ pending' = pending \ {"llm_budget"}
    /\ override' = (override \/ option # "continue_for_task")
    /\ forTask' = (forTask \/ option = "continue_for_task")
    /\ compact' = (compact \/ option = "continue_with_compaction")
    /\ grants' = grants + (IF option = "continue_for_task" THEN 0 ELSE 1)
    /\ fresh' = TRUE /\ restarts' = restarts + 1
    /\ UNCHANGED <<runs, gated>> /\ UNCHANGED counters /\ UNCHANGED workerVars

(* retry_same_model and retry_with_faster_model: the same request again,  *)
(* with no flag set.                                                      *)
RetryAfterTimeout ==
    /\ "llm_timeout" \in pending /\ CanRestart
    /\ pending' = pending \ {"llm_timeout"}
    /\ restarts' = restarts + 1
    /\ UNCHANGED runs /\ UNCHANGED counters /\ UNCHANGED flags
    /\ UNCHANGED history /\ UNCHANGED workerVars

(* stop_and_summarize on a task at rest, and a stop that a worker meets   *)
(* between two calls, write the partial report and clear the flags; the   *)
(* person may resume the task later.                                      *)
Stop(resume) ==
    /\ at \in {"idle", "ended"}
    /\ resume => CanRestart
    /\ at' = "ended" /\ restarts' = restarts + (IF resume THEN 1 ELSE 0)
    /\ ClearTransientFlags /\ fresh' = FALSE
    /\ UNCHANGED <<file, client, purpose, uses, clients, size, decision, attempt,
                   forTask, pending, runs, grants, gated>>

-----------------------------------------------------------------------------
Generate ==
    \/ Decide \/ Ask \/ Refuse \/ Admit \/ Succeed \/ Retry \/ TimeOut \/ Fail

Options == {"continue_once", "continue_for_task", "continue_with_compaction"}

Next ==
    \/ NewClient \/ Generate \/ EndRun \/ StartRun
    \/ \E option \in Options : ContinueBudget(option)
    \/ RetryAfterTimeout
    \/ \E resume \in BOOLEAN : Stop(resume)

Spec == Init /\ [][Next]_vars

-----------------------------------------------------------------------------
(* Safety.                                                                *)

(* The provider is called at most Retries times more than                 *)
(* max_llm_calls_per_task, however many clients and runs share the task:  *)
(* the gate counts before the retries (router.py:334), and a new client   *)
(* starts from the file.                                                  *)
CallsBounded == file.calls <= MaxCalls + Retries

(* What hard_prompt_tokens_per_task really bounds.  A client does not     *)
(* count the prompts of its own failed attempts, so a task may pass the   *)
(* limit by all of them, and by no more.                                  *)
SpendBounded ==
    file.prompt <= Hard + (MaxUses * (Retries + 1) - 1) * PerCall

(* The limits of the task hold over its runs, clients and retries.        *)
WithinLimits == CallsBounded /\ SpendBounded

(* "Budget approval resolved for one LLM call" (approvals.py:119): the    *)
(* calls above the approval threshold are never more than the answers     *)
(* that admitted one, across the runs, the clients and the retries.       *)
OverrideAdmitsOne == gated <= grants

(* After continue the person is not asked again before a call was let     *)
(* through: the flag survives the restart, the choice of another client,  *)
(* warnings and timeouts.                                                 *)
GrantHonoured == [][Ask => ~fresh]_vars

=============================================================================
