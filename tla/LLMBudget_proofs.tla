-------------------------- MODULE LLMBudget_proofs --------------------------
(***************************************************************************)
(* Theorems about LLMBudget for every limit, every size of prompt and      *)
(* answer, and every number of retries, generates, clients and runs.       *)
(***************************************************************************)
EXTENDS LLMBudget, TLAPS

Outcomes == Refusals \cup {"approval_required", "warning", "allowed"}

\* A generate that is under way, and one whose call the gate lets through.
Busy == at \in {"decided", "calling"}
Admissible == Busy /\ decision \notin Refusals

-----------------------------------------------------------------------------
(* The inductive invariant.                                                *)

\* Every answer is one of the runs to come or one that has begun.
Bookkept == runs + restarts <= MaxRuns /\ grants < runs + restarts

\* What a generate that is under way has been given.
Engaged ==
    /\ Busy => purpose # "none" /\ uses > 0 /\ decision \in Outcomes
    /\ at # "calling" => attempt = 0
    /\ at = "calling" => decision \notin Refusals
    /\ Admissible => size <= PerCall /\ client.prompt + size <= Hard

\* A client and the file agree on the calls, and the gate stops in time.
CallsCounted ==
    /\ purpose # "none" => client.calls = file.calls
    /\ Admissible => client.calls < MaxCalls + attempt
    /\ CallsBounded

\* Attempts of the client in use that the provider may have failed.
Failed == IF Busy THEN (uses - 1) * (Retries + 1) + attempt
                  ELSE uses * (Retries + 1)

\* Their prompts are what the file has over the client.
PromptsCounted ==
    /\ purpose # "none" => file.prompt <= client.prompt + Failed * PerCall
    /\ SpendBounded

\* An override that stands is a grant no call has used.
OverrideCounted == gated + (IF override THEN 1 ELSE 0) <= grants

\* An answer no call has used yet is still there.
GrantStands == fresh => override \/ forTask

IInv ==
    /\ TypeOK /\ Bookkept /\ Engaged /\ CallsCounted /\ PromptsCounted
    /\ OverrideCounted /\ GrantStands

\* TypeOK in two halves: the Boolean variables, and all the others.
FlagsTyped ==
    override \in BOOLEAN /\ forTask \in BOOLEAN /\ compact \in BOOLEAN
    /\ fresh \in BOOLEAN

NumbersTyped ==
    /\ file \in Totals /\ client \in Totals
    /\ purpose \in {"none", "main", "reviewer"}
    /\ uses \in 0..MaxUses /\ clients \in 0..MaxClients
    /\ at \in {"ended", "idle", "decided", "calling"}
    /\ size \in PromptSizes \cup {0}
    /\ decision \in Outcomes \cup {"none"}
    /\ attempt \in 0..Retries
    /\ pending \subseteq {"llm_budget", "llm_timeout"}
    /\ restarts \in 0..MaxRuns /\ runs \in 1..MaxRuns
    /\ grants \in 0..MaxRuns /\ gated \in Nat

LEMMA TypeHalves == TypeOK <=> FlagsTyped /\ NumbersTyped
BY DEF TypeOK, FlagsTyped, NumbersTyped, Outcomes

LEMMA TypeHalvesNext == TypeOK' <=> FlagsTyped' /\ NumbersTyped'
BY TypeHalves, PTL

-----------------------------------------------------------------------------
(* The decision.                                                           *)

\* What decide_budget lets through keeps to the limits of the calls, of the
\* prompt and of the prompts of the task.
LEMMA DecisionKeepsLimits ==
    ASSUME NEW so \in Totals, NEW next \in Nat,
           NEW continued \in BOOLEAN, NEW compacted \in BOOLEAN
    PROVE  LET d == DecideBudget(so, next, continued, compacted)
           IN  /\ d \in Outcomes
               /\ d \notin Refusals => /\ so.calls < MaxCalls
                                       /\ next <= PerCall
                                       /\ so.prompt + next <= Hard
BY LLMBudgetAssumption DEF DecideBudget, Outcomes, Refusals, Totals

\* Both totals stay totals.
LEMMA SpentType ==
    ASSUME NEW totals \in Totals, NEW prompt \in Nat, NEW completion \in Nat
    PROVE  /\ Spent(totals, 1, prompt, completion) \in Totals
           /\ Spent(totals, 1, prompt, completion).calls = totals.calls + 1
           /\ Spent(totals, 1, prompt, completion).prompt = totals.prompt + prompt
BY DEF Spent, Totals

\* Products are monotonic.
LEMMA TimesMonotonic ==
    ASSUME NEW a \in Nat, NEW b \in Nat, NEW c \in Nat, a <= b
    PROVE  a * c <= b * c /\ a * c \in Nat /\ b * c \in Nat
<1>1. b - a \in Nat /\ (b - a) * c = b * c - a * c
  OBVIOUS
<1>2. \A n \in Nat : n * c \in Nat
  OBVIOUS
<1>3. QED BY <1>1, <1>2

\* A product of natural numbers is one.
LEMMA TimesType ==
    ASSUME NEW a \in Nat, NEW c \in Nat PROVE a * c \in Nat
<1>1. a <= a
  OBVIOUS
<1>2. QED BY <1>1, TimesMonotonic

-----------------------------------------------------------------------------
(* Steps.                                                                  *)

\* In any state the counters are numbers, and the client's are the file's at
\* most.
LEMMA Numbers ==
    ASSUME TypeOK
    PROVE  /\ file.calls \in Nat /\ file.prompt \in Nat
           /\ client.calls \in Nat /\ client.prompt \in Nat
           /\ uses \in Nat /\ attempt \in Nat /\ size \in Nat
           /\ MaxUses \in Nat /\ Retries \in Nat /\ PerCall \in Nat
           /\ Hard \in Nat /\ MaxCalls \in Nat /\ MaxRuns \in Nat
           /\ runs \in Nat /\ restarts \in Nat /\ grants \in Nat /\ gated \in Nat
BY LLMBudgetAssumption DEF TypeOK, Totals

LEMMA InitIInv == Init => IInv
<1> SUFFICES ASSUME Init PROVE IInv
  OBVIOUS
<1>1. TypeOK
  <2>1. 0 \in Nat /\ MaxUses \in Nat /\ MaxClients \in Nat /\ Retries \in Nat
        /\ MaxRuns \in Nat /\ MaxRuns > 0
    BY LLMBudgetAssumption
  <2>2. Zero \in Totals
    BY DEF Zero, Totals
  <2>3. NumbersTyped
    BY <2>1, <2>2 DEF Init, NumbersTyped
  <2>4. FlagsTyped
    BY DEF Init, FlagsTyped
  <2>5. QED BY <2>3, <2>4, TypeHalves
<1>2. (MaxUses * (Retries + 1) - 1) * PerCall \in Nat
  <2>1. MaxUses \in Nat /\ MaxUses > 0 /\ Retries \in Nat /\ PerCall \in Nat
    BY LLMBudgetAssumption
  <2>2. 1 * (Retries + 1) <= MaxUses * (Retries + 1)
    BY <2>1, TimesMonotonic
  <2>3. MaxUses * (Retries + 1) - 1 \in Nat
    BY <2>1, <2>2
  <2>4. QED BY <2>1, <2>3, TimesMonotonic
<1>3. file.prompt = 0 /\ file.calls = 0 /\ purpose = "none" /\ at = "idle"
  BY DEF Init, Zero
<1>4. CallsCounted /\ PromptsCounted
  BY <1>2, <1>3, LLMBudgetAssumption
     DEF CallsCounted, PromptsCounted, CallsBounded, SpendBounded, Admissible, Busy
<1>5. Bookkept /\ Engaged /\ OverrideCounted /\ GrantStands
  BY LLMBudgetAssumption
     DEF Init, Bookkept, Engaged, Admissible, Busy, OverrideCounted, GrantStands
<1>6. QED BY <1>1, <1>4, <1>5 DEF IInv

\* Every step keeps the flags Boolean.
LEMMA FlagsStep ==
    ASSUME FlagsTyped, Next PROVE FlagsTyped'
<1> USE DEF FlagsTyped, flags, history
<1>1. CASE NewClient
  BY <1>1 DEF NewClient
<1>2. CASE Decide
  BY <1>2 DEF Decide
<1>3. CASE Ask
  BY <1>3 DEF Ask
<1>4. CASE Refuse
  BY <1>4 DEF Refuse
<1>5. CASE Admit
  <2>1. CASE decision # "warning" /\ override
    BY <1>5, <2>1 DEF Admit, ClearTransientFlags
  <2>2. CASE ~(decision # "warning" /\ override)
    BY <1>5, <2>2 DEF Admit
  <2>3. QED BY <2>1, <2>2
<1>6. CASE Succeed \/ Retry \/ TimeOut \/ Fail
  BY <1>6 DEF Succeed, Retry, TimeOut, Fail
<1>7. CASE EndRun \/ StartRun \/ RetryAfterTimeout
  BY <1>7 DEF EndRun, StartRun, RetryAfterTimeout
<1>8. ASSUME NEW option \in Options, ContinueBudget(option)
      PROVE  FlagsTyped'
  BY <1>8 DEF ContinueBudget
<1>9. ASSUME NEW resume \in BOOLEAN, Stop(resume) PROVE FlagsTyped'
  BY <1>9 DEF Stop, ClearTransientFlags
<1>10. QED
  BY <1>1, <1>2, <1>3, <1>4, <1>5, <1>6, <1>7, <1>8, <1>9 DEF Next, Generate

\* Every step keeps the other types and the bookkeeping of the runs.
LEMMA NumbersStep ==
    ASSUME TypeOK, Bookkept, Engaged, Next PROVE NumbersTyped' /\ Bookkept'
<1> USE LLMBudgetAssumption DEF NumbersTyped, Bookkept, flags, history, counters,
        workerVars
<1>0. FlagsTyped /\ NumbersTyped
  BY TypeHalves
<1>1. CASE NewClient
  BY <1>0, <1>1 DEF NewClient, Zero, Totals
<1>2. CASE Decide
  <2>1. decision' \in Outcomes /\ size' \in PromptSizes
    BY <1>0, <1>2, DecisionKeepsLimits DEF Decide, FlagsTyped
  <2>2. /\ file' = file /\ client' = client /\ purpose' = purpose
        /\ clients' = clients /\ pending' = pending /\ restarts' = restarts
        /\ runs' = runs /\ grants' = grants /\ gated' = gated
        /\ uses' = uses + 1 /\ uses < MaxUses /\ attempt' = 0 /\ at' = "decided"
    BY <1>2 DEF Decide
  <2>3. uses' \in 0..MaxUses /\ attempt' \in 0..Retries
    BY <1>0, <2>2
  <2>4. QED BY <1>0, <2>1, <2>2, <2>3
<1>3. CASE Ask
  BY <1>0, <1>3 DEF Ask, Raise
<1>4. CASE Refuse
  BY <1>0, <1>4 DEF Refuse, Raise
<1>5. CASE Admit
  <2>1. gated' \in Nat
    BY <1>0, <1>5 DEF Admit
  <2>2. QED BY <1>0, <1>5, <2>1 DEF Admit
<1>6. CASE Succeed
  <2>1. PICK c \in CompletionSizes :
          file' = Spent(file, 1, size, c) /\ client' = Spent(client, 1, size, c)
    BY <1>6 DEF Succeed
  <2>2. file \in Totals /\ client \in Totals /\ size \in Nat /\ c \in Nat
    BY <1>0
  <2>3. Spent(file, 1, size, c) \in Totals /\ Spent(client, 1, size, c) \in Totals
    BY <2>2, SpentType
  <2>4. file' \in Totals /\ client' \in Totals
    BY <2>1, <2>3
  <2>5. QED BY <1>0, <1>6, <2>4 DEF Succeed
<1>7. CASE Retry
  <2>1. file' \in Totals /\ client' \in Totals
    BY <1>0, <1>7, SpentType DEF Retry
  <2>2. QED BY <1>0, <1>7, <2>1 DEF Retry
<1>8. CASE TimeOut
  <2>1. file' \in Totals /\ client' \in Totals
    BY <1>0, <1>8, SpentType DEF TimeOut
  <2>2. QED BY <1>0, <1>8, <2>1 DEF TimeOut, Raise
<1>9. CASE Fail
  <2>1. file' \in Totals /\ client' \in Totals
    BY <1>0, <1>9, SpentType DEF Fail
  <2>2. QED BY <1>0, <1>9, <2>1 DEF Fail, Raise
<1>10. CASE EndRun
  BY <1>0, <1>10 DEF EndRun
<1>11. CASE StartRun
  BY <1>0, <1>11 DEF StartRun, Zero, Totals
<1>12. ASSUME NEW option \in Options, ContinueBudget(option)
       PROVE  NumbersTyped' /\ Bookkept'
  BY <1>0, <1>12 DEF ContinueBudget, CanRestart
<1>13. CASE RetryAfterTimeout
  BY <1>0, <1>13 DEF RetryAfterTimeout, CanRestart
<1>14. ASSUME NEW resume \in BOOLEAN, Stop(resume)
       PROVE  NumbersTyped' /\ Bookkept'
  <2>1. restarts' \in Nat /\ runs' + restarts' <= MaxRuns
        /\ runs' + restarts' >= runs + restarts
    BY <1>0, <1>14 DEF Stop, CanRestart
  <2>2. QED BY <1>0, <1>14, <2>1 DEF Stop
<1>15. QED
  BY <1>1, <1>2, <1>3, <1>4, <1>5, <1>6, <1>7, <1>8, <1>9, <1>10, <1>11, <1>12,
     <1>13, <1>14 DEF Next, Generate

\* Every step keeps the types and the bookkeeping.
LEMMA TypeStep ==
    ASSUME TypeOK, Bookkept, Engaged, [Next]_vars PROVE TypeOK' /\ Bookkept'
<1>1. CASE Next
  BY <1>1, FlagsStep, NumbersStep, TypeHalves, TypeHalvesNext
<1>2. CASE UNCHANGED vars
  BY <1>2 DEF vars, TypeOK, Bookkept
<1>3. QED BY <1>1, <1>2

\* A generate under way keeps within the limits the decision was made for.
LEMMA EngagedStep ==
    ASSUME TypeOK, Bookkept, Engaged, [Next]_vars PROVE Engaged'
<1> USE LLMBudgetAssumption DEF Engaged, Admissible, Busy, flags, history, counters,
        workerVars
<1>0. NumbersTyped /\ FlagsTyped
  BY TypeHalves
<1>n. /\ client.prompt \in Nat /\ size \in Nat /\ uses \in Nat /\ PerCall \in Nat
      /\ Hard \in Nat /\ Retries \in Nat /\ attempt \in Nat
  BY Numbers
<1>1. CASE NewClient
  BY <1>0, <1>1 DEF NewClient
<1>2. CASE Decide
  <2>1. /\ decision' \in Outcomes
        /\ decision' \notin Refusals => size' <= PerCall /\ client.prompt + size' <= Hard
    BY <1>0, <1>2, DecisionKeepsLimits, ZenonT(40) DEF Decide, NumbersTyped, FlagsTyped
  <2>2. /\ purpose # "none" /\ purpose' = purpose /\ client' = client
        /\ uses' = uses + 1 /\ attempt' = 0 /\ at' = "decided"
    BY <1>2 DEF Decide
  <2>3. uses' > 0
    BY <1>n, <2>2
  <2>4. QED BY <2>1, <2>2, <2>3
<1>3. CASE Ask
  BY <1>0, <1>3 DEF Ask, Raise
<1>4. CASE Refuse
  BY <1>0, <1>4 DEF Refuse, Raise
<1>5. CASE Admit
  BY <1>0, <1>n, <1>5 DEF Admit
<1>6. CASE Succeed
  BY <1>0, <1>6 DEF Succeed
<1>7. CASE Retry
  <2>1. client'.prompt = client.prompt
    BY <1>n, <1>7 DEF Retry, Spent
  <2>2. QED BY <1>0, <1>n, <1>7, <2>1 DEF Retry
<1>8. CASE TimeOut
  BY <1>0, <1>8 DEF TimeOut, Raise
<1>9. CASE Fail
  BY <1>0, <1>9 DEF Fail, Raise
<1>10. CASE EndRun
  BY <1>0, <1>10 DEF EndRun
<1>11. CASE StartRun
  BY <1>0, <1>11 DEF StartRun
<1>12. ASSUME NEW option \in Options, ContinueBudget(option) PROVE Engaged'
  BY <1>0, <1>12 DEF ContinueBudget
<1>13. CASE RetryAfterTimeout
  BY <1>0, <1>13 DEF RetryAfterTimeout
<1>14. ASSUME NEW resume \in BOOLEAN, Stop(resume) PROVE Engaged'
  BY <1>0, <1>14 DEF Stop
<1>15. CASE UNCHANGED vars
  BY <1>15 DEF vars
<1>16. QED
  BY <1>1, <1>2, <1>3, <1>4, <1>5, <1>6, <1>7, <1>8, <1>9, <1>10, <1>11, <1>12,
     <1>13, <1>14, <1>15 DEF Next, Generate

\* Every step keeps the account of the calls.
LEMMA CallsStep ==
    ASSUME TypeOK, Engaged, CallsCounted, [Next]_vars PROVE CallsCounted'
<1> USE DEF CallsCounted, CallsBounded, Admissible, Busy, flags, history, counters,
        workerVars
<1>0. NumbersTyped /\ FlagsTyped
  BY TypeHalves
<1>n. /\ file.calls \in Nat /\ client.calls \in Nat /\ attempt \in Nat
      /\ Retries \in Nat /\ MaxCalls \in Nat /\ size \in Nat /\ attempt <= Retries
  BY Numbers, LLMBudgetAssumption DEF TypeOK
<1>e. /\ Busy => purpose # "none" /\ decision \in Outcomes
      /\ at = "calling" => decision \notin Refusals
  BY DEF Engaged
<1>1. CASE NewClient
  BY <1>n, <1>1 DEF NewClient
<1>2. CASE Decide
  <2>1. decision' \notin Refusals => client.calls < MaxCalls
    BY <1>0, <1>2, DecisionKeepsLimits, LLMBudgetAssumption
       DEF Decide, NumbersTyped, FlagsTyped
  <2>2. /\ file' = file /\ client' = client /\ purpose' = purpose /\ attempt' = 0
    BY <1>2 DEF Decide
  <2>3. QED BY <1>n, <2>1, <2>2
<1>3. CASE Ask
  BY <1>n, <1>3 DEF Ask, Raise
<1>4. CASE Refuse
  BY <1>n, <1>4 DEF Refuse, Raise
<1>5. CASE Admit
  BY <1>n, <1>5 DEF Admit
<1>6. CASE Succeed
  <2>1. file'.calls = file.calls + 1 /\ client'.calls = client.calls + 1
    BY <1>6 DEF Succeed, Spent
  <2>2. at = "calling" /\ at' = "idle" /\ purpose' = purpose
    BY <1>6 DEF Succeed
  <2>3. QED BY <1>n, <1>e, <2>1, <2>2
<1>7. CASE Retry
  <2>1. file'.calls = file.calls + 1 /\ client'.calls = client.calls + 1
    BY <1>n, <1>7 DEF Retry, Spent
  <2>2. /\ at = "calling" /\ at' = at /\ decision' = decision
        /\ purpose' = purpose /\ attempt' = attempt + 1
    BY <1>7 DEF Retry
  <2>3. QED BY <1>n, <1>e, <2>1, <2>2
<1>8. CASE TimeOut \/ Fail
  <2>1. file'.calls = file.calls + 1 /\ client'.calls = client.calls + 1
    BY <1>8 DEF TimeOut, Fail, Spent
  <2>2. at = "calling" /\ at' \in {"idle", "ended"} /\ purpose' = purpose
    BY <1>8 DEF TimeOut, Fail, Raise
  <2>3. QED BY <1>n, <1>e, <2>1, <2>2
<1>10. CASE EndRun
  BY <1>n, <1>10 DEF EndRun
<1>11. CASE StartRun
  BY <1>n, <1>11 DEF StartRun
<1>12. ASSUME NEW option \in Options, ContinueBudget(option) PROVE CallsCounted'
  BY <1>n, <1>12 DEF ContinueBudget
<1>13. CASE RetryAfterTimeout
  BY <1>n, <1>13 DEF RetryAfterTimeout
<1>14. ASSUME NEW resume \in BOOLEAN, Stop(resume) PROVE CallsCounted'
  BY <1>n, <1>14 DEF Stop
<1>15. CASE UNCHANGED vars
  BY <1>15 DEF vars
<1>16. QED
  BY <1>1, <1>2, <1>3, <1>4, <1>5, <1>6, <1>7, <1>8, <1>10, <1>11, <1>12,
     <1>13, <1>14, <1>15 DEF Next, Generate

\* The failures a client can have met: while a call is under way there is
\* room for this one.
LEMMA FailedBounds ==
    ASSUME TypeOK, Engaged
    PROVE  /\ Failed \in Nat
           /\ uses * (Retries + 1) \in Nat
           /\ Busy => /\ Failed + 1 <= uses * (Retries + 1)
                      /\ Failed <= MaxUses * (Retries + 1) - 1
<1>1. /\ uses \in Nat /\ Retries \in Nat /\ attempt \in Nat /\ MaxUses \in Nat
      /\ uses <= MaxUses /\ attempt <= Retries
  BY Numbers, LLMBudgetAssumption DEF TypeOK
<1>2. uses * (Retries + 1) \in Nat /\ uses * (Retries + 1) <= MaxUses * (Retries + 1)
  BY <1>1, TimesMonotonic
<1>3. CASE Busy
  <2>1. uses > 0
    BY <1>3 DEF Engaged
  <2>2. /\ (uses - 1) * (Retries + 1) \in Nat
        /\ uses * (Retries + 1) = (uses - 1) * (Retries + 1) + Retries + 1
    <3>1. uses - 1 \in Nat
      BY <1>1, <2>1
    <3>2. PICK u \in Nat : u = uses - 1
      BY <3>1
    <3>3. u * (Retries + 1) \in Nat
      BY <1>1, TimesMonotonic
    <3>4. (u + 1) * (Retries + 1) = u * (Retries + 1) + Retries + 1
      BY <1>1
    <3>5. uses = u + 1
      BY <1>1, <3>2
    <3>6. QED BY <3>2, <3>3, <3>4, <3>5
  <2>3. DEFINE m == uses * (Retries + 1)
               k == (uses - 1) * (Retries + 1)
               M == MaxUses * (Retries + 1)
  <2>4. k \in Nat /\ m = k + Retries + 1 /\ m \in Nat /\ m <= M /\ M \in Nat
    BY <1>1, <1>2, <2>2, TimesMonotonic
  <2>5. Failed = k + attempt
    BY <1>3 DEF Failed
  <2>6. QED
    <3> HIDE DEF m, k, M
    <3>1. Failed \in Nat /\ m \in Nat /\ Failed + 1 <= m /\ Failed <= M - 1
      BY <1>1, <2>4, <2>5
    <3>2. QED BY <3>1 DEF m, M
<1>4. CASE ~Busy
  BY <1>2, <1>4 DEF Failed
<1>5. QED BY <1>3, <1>4

LEMMA FailedNext == TypeOK' /\ Engaged' => (Failed \in Nat)'
<1>1. TypeOK /\ Engaged => Failed \in Nat
  BY FailedBounds
<1>2. QED BY <1>1, PTL

\* The account of the prompts is kept while no prompt is added.
LEMMA PromptsKept ==
    ASSUME TypeOK, TypeOK', Engaged, Engaged', PromptsCounted,
           file' = file, purpose' # "none" => purpose # "none" /\ client' = client,
           purpose' # "none" => Failed <= Failed'
    PROVE  PromptsCounted'
<1>1. Failed \in Nat /\ PerCall \in Nat /\ file.prompt \in Nat /\ client.prompt \in Nat
  BY Numbers, FailedBounds
<1>2. Failed' \in Nat
  BY FailedNext
<1>3. ASSUME purpose' # "none"
      PROVE  file'.prompt <= client'.prompt + Failed' * PerCall
  <2>1. Failed * PerCall <= Failed' * PerCall /\ Failed * PerCall \in Nat
        /\ Failed' * PerCall \in Nat
    BY <1>1, <1>2, <1>3, TimesMonotonic
  <2>2. file.prompt <= client.prompt + Failed * PerCall
    BY <1>3 DEF PromptsCounted
  <2>3. DEFINE a == Failed * PerCall
               b == Failed' * PerCall
  <2>4. QED
    <3>1. a \in Nat /\ b \in Nat /\ a <= b /\ file.prompt <= client.prompt + a
      BY <2>1, <2>2
    <3> HIDE DEF a, b
    <3>2. file'.prompt <= client'.prompt + b
      BY <1>1, <1>3, <3>1
    <3>3. QED BY <3>2 DEF b
<1>4. SpendBounded'
  BY DEF PromptsCounted, SpendBounded
<1>5. QED BY <1>3, <1>4 DEF PromptsCounted

\* And while a call adds its prompt, which failed or was counted.
LEMMA PromptsAdded ==
    ASSUME TypeOK, TypeOK', Engaged, Engaged', PromptsCounted,
           at = "calling", purpose' = purpose, file'.prompt = file.prompt + size,
           \/ client'.prompt = client.prompt + size /\ Failed <= Failed'
           \/ client'.prompt = client.prompt /\ Failed + 1 <= Failed'
    PROVE  PromptsCounted'
<1>0. Busy
  BY DEF Busy
<1>1. /\ Failed \in Nat /\ PerCall \in Nat /\ file.prompt \in Nat /\ Hard \in Nat
      /\ client.prompt \in Nat /\ size \in Nat /\ MaxUses \in Nat /\ Retries \in Nat
  BY Numbers, FailedBounds
<1>2. Failed' \in Nat
  BY FailedNext
<1>3. /\ purpose # "none" /\ size <= PerCall /\ client.prompt + size <= Hard
  BY <1>0 DEF Engaged, Admissible
<1>4. DEFINE a == Failed * PerCall
             b == Failed' * PerCall
             top == (MaxUses * (Retries + 1) - 1) * PerCall
<1>5. file.prompt <= client.prompt + a
  BY <1>3 DEF PromptsCounted
<1>6. a \in Nat /\ b \in Nat
  BY <1>1, <1>2, TimesType
<1>7. a <= top /\ top \in Nat
  <2>1. MaxUses * (Retries + 1) \in Nat
    BY <1>1, TimesMonotonic
  <2>2. MaxUses * (Retries + 1) - 1 \in Nat /\ Failed <= MaxUses * (Retries + 1) - 1
    BY <1>0, <1>1, <2>1, FailedBounds
  <2>3. QED BY <1>1, <2>2, TimesMonotonic
<1>8. \/ client'.prompt = client.prompt + size /\ a <= b
      \/ client'.prompt = client.prompt /\ a + PerCall <= b
  <2>1. Failed <= Failed' => a <= b
    BY <1>1, <1>2, TimesMonotonic
  <2>2. Failed + 1 <= Failed' => (Failed + 1) * PerCall <= b
    <3>1. PICK g \in Nat : g = Failed + 1
      BY <1>1
    <3>2. g <= Failed' => g * PerCall <= b
      BY <1>1, <1>2, TimesMonotonic
    <3>3. QED BY <3>1, <3>2
  <2>3. (Failed + 1) * PerCall = a + PerCall
    BY <1>1
  <2>4. QED BY <2>1, <2>2, <2>3
<1>9. file'.prompt <= client'.prompt + b /\ file'.prompt <= Hard + top
  <2> HIDE DEF a, b, top
  <2>1. QED BY <1>1, <1>3, <1>5, <1>6, <1>7, <1>8
<1>10. QED BY <1>9 DEF PromptsCounted, SpendBounded

\* Every step keeps the account of the prompts.
LEMMA PromptsStep ==
    ASSUME TypeOK, TypeOK', Engaged, Engaged', PromptsCounted, [Next]_vars
    PROVE  PromptsCounted'
<1> USE DEF flags, history, counters, workerVars
<1>n. /\ uses \in Nat /\ attempt \in Nat /\ Retries \in Nat /\ Failed \in Nat
      /\ size \in Nat /\ client.prompt \in Nat /\ file.prompt \in Nat
      /\ uses * (Retries + 1) \in Nat /\ PerCall \in Nat
  BY Numbers, FailedBounds
<1>b. Busy => Failed + 1 <= uses * (Retries + 1)
  BY FailedBounds
<1>1. CASE NewClient
  <2>1. file' = file /\ client' = file /\ uses' = 0 /\ at' = "idle"
    BY <1>1 DEF NewClient
  <2>2. Failed' = 0
    BY <1>n, <2>1 DEF Failed, Busy
  <2>3. 0 * PerCall = 0
    BY <1>n
  <2>4. QED BY <1>n, <2>1, <2>2, <2>3 DEF PromptsCounted, SpendBounded
<1>2. CASE Decide
  <2>1. /\ file' = file /\ client' = client /\ purpose' = purpose /\ at = "idle"
        /\ uses' = uses + 1 /\ attempt' = 0 /\ at' = "decided"
    BY <1>2 DEF Decide
  <2>2. /\ Failed = uses * (Retries + 1)
        /\ Failed' = (uses' - 1) * (Retries + 1) + attempt'
    BY <2>1 DEF Failed, Busy
  <2>3. uses' - 1 = uses /\ attempt' = 0
    BY <1>n, <2>1
  <2>4. Failed' = Failed
    BY <1>n, <2>2, <2>3
  <2>5. QED BY <1>n, <2>1, <2>4, PromptsKept
<1>3. CASE Ask \/ Refuse
  <2>1. /\ file' = file /\ client' = client /\ purpose' = purpose /\ at = "decided"
        /\ uses' = uses /\ at' \in {"idle", "ended"}
    BY <1>3 DEF Ask, Refuse, Raise
  <2>2. Busy /\ Failed' = uses * (Retries + 1)
    BY <2>1 DEF Failed, Busy
  <2>3. Failed <= Failed'
    BY <1>n, <1>b, <2>2
  <2>4. QED BY <2>1, <2>3, PromptsKept
<1>4. CASE Admit
  <2>1. /\ file' = file /\ client' = client /\ purpose' = purpose /\ at = "decided"
        /\ uses' = uses /\ at' = "calling" /\ attempt' = attempt
    BY <1>4 DEF Admit
  <2>2. Failed' = Failed
    BY <2>1 DEF Failed, Busy
  <2>3. QED BY <1>n, <2>1, <2>2, PromptsKept
<1>5. CASE Succeed
  <2>1. /\ at = "calling" /\ at' = "idle" /\ uses' = uses /\ purpose' = purpose
        /\ file'.prompt = file.prompt + size /\ client'.prompt = client.prompt + size
    BY <1>5 DEF Succeed, Spent
  <2>2. Busy /\ Failed' = uses * (Retries + 1)
    BY <2>1 DEF Failed, Busy
  <2>3. Failed <= Failed'
    BY <1>n, <1>b, <2>2
  <2>4. QED BY <2>1, <2>3, PromptsAdded
<1>6. CASE Retry
  <2>1. /\ at = "calling" /\ at' = at /\ uses' = uses /\ purpose' = purpose
        /\ attempt' = attempt + 1
        /\ file'.prompt = file.prompt + size /\ client'.prompt = client.prompt + 0
    BY <1>6 DEF Retry, Spent
  <2>2. /\ Failed = (uses - 1) * (Retries + 1) + attempt
        /\ Failed' = (uses - 1) * (Retries + 1) + (attempt + 1)
    BY <2>1 DEF Failed, Busy
  <2>3. Failed + 1 <= Failed'
    BY <1>n, <2>2
  <2>4. QED BY <1>n, <2>1, <2>3, PromptsAdded
<1>7. CASE TimeOut \/ Fail
  <2>1. /\ at = "calling" /\ at' \in {"idle", "ended"} /\ uses' = uses
        /\ purpose' = purpose
        /\ file'.prompt = file.prompt + size /\ client'.prompt = client.prompt + 0
    BY <1>7 DEF TimeOut, Fail, Raise, Spent
  <2>2. Busy /\ Failed' = uses * (Retries + 1)
    BY <2>1 DEF Failed, Busy
  <2>3. QED BY <1>n, <1>b, <2>1, <2>2, PromptsAdded
<1>8. CASE StartRun
  BY <1>8, PromptsKept DEF StartRun
<1>9. ASSUME NEW resume \in BOOLEAN, Stop(resume) PROVE PromptsCounted'
  <2>1. /\ file' = file /\ client' = client /\ purpose' = purpose /\ uses' = uses
        /\ at \in {"idle", "ended"} /\ at' = "ended"
    BY <1>9 DEF Stop
  <2>2. Failed' = Failed
    BY <2>1 DEF Failed, Busy
  <2>3. QED BY <1>n, <2>1, <2>2, PromptsKept
<1>10. CASE EndRun
  <2>1. /\ file' = file /\ client' = client /\ purpose' = purpose /\ uses' = uses
        /\ at = "idle" /\ at' = "ended"
    BY <1>10 DEF EndRun
  <2>2. Failed' = Failed
    BY <2>1 DEF Failed, Busy
  <2>3. QED BY <1>n, <2>1, <2>2, PromptsKept
<1>11. CASE \/ \E option \in Options : ContinueBudget(option)
            \/ RetryAfterTimeout \/ UNCHANGED vars
  <2>1. /\ file' = file /\ client' = client /\ purpose' = purpose /\ uses' = uses
        /\ at' = at /\ attempt' = attempt
    BY <1>11 DEF ContinueBudget, RetryAfterTimeout, vars
  <2>2. Failed' = Failed
    BY <2>1 DEF Failed, Busy
  <2>3. QED BY <1>n, <2>1, <2>2, PromptsKept
<1>12. QED
  BY <1>1, <1>2, <1>3, <1>4, <1>5, <1>6, <1>7, <1>8, <1>9, <1>10, <1>11
     DEF Next, Generate

\* Every step keeps the account of the grants: a grant is made with its
\* override, and the call that uses it takes the override away.
LEMMA OverrideStep ==
    ASSUME TypeOK, OverrideCounted, [Next]_vars PROVE OverrideCounted'
<1> USE DEF OverrideCounted, flags, history, counters, workerVars
<1>0. gated \in Nat /\ grants \in Nat /\ FlagsTyped
  BY Numbers, TypeHalves
<1>1. CASE Admit
  <2>1. CASE NeedsOverride
    <3>1. override /\ ~override'
      BY <1>1, <2>1 DEF Admit, NeedsOverride, ClearTransientFlags
    <3>2. gated' = gated + 1 /\ grants' = grants
      BY <1>1, <2>1 DEF Admit
    <3>3. QED BY <1>0, <3>1, <3>2
  <2>2. CASE ~NeedsOverride
    <3>1. gated' = gated /\ grants' = grants
      BY <1>0, <1>1, <2>2 DEF Admit
    <3>2. override' => override
      BY <1>1 DEF Admit, ClearTransientFlags
    <3>3. QED BY <1>0, <3>1, <3>2
  <2>3. QED BY <2>1, <2>2
<1>2. ASSUME NEW option \in Options, ContinueBudget(option) PROVE OverrideCounted'
  <2>1. CASE option = "continue_for_task"
    <3>1. override' => override
      BY <1>2, <2>1 DEF ContinueBudget
    <3>2. gated' = gated /\ grants' = grants
      BY <1>0, <1>2, <2>1 DEF ContinueBudget
    <3>3. QED BY <1>0, <3>1, <3>2
  <2>2. CASE option # "continue_for_task"
    <3>1. gated' = gated /\ grants' = grants + 1
      BY <1>0, <1>2, <2>2 DEF ContinueBudget
    <3>2. gated <= grants
      BY <1>0
    <3>3. QED BY <1>0, <3>1, <3>2
  <2>3. QED BY <2>1, <2>2
<1>3. ASSUME NEW resume \in BOOLEAN, Stop(resume) PROVE OverrideCounted'
  <2>1. ~override' /\ gated' = gated /\ grants' = grants
    BY <1>3 DEF Stop, ClearTransientFlags
  <2>2. QED BY <1>0, <2>1
<1>4. CASE \/ NewClient \/ Decide \/ Ask \/ Refuse \/ Succeed \/ Retry \/ TimeOut
           \/ Fail \/ EndRun \/ StartRun \/ RetryAfterTimeout \/ UNCHANGED vars
  <2>1. override' = override /\ gated' = gated /\ grants' = grants
    BY <1>4 DEF NewClient, Decide, Ask, Refuse, Succeed, Retry, TimeOut, Fail,
                EndRun, StartRun, RetryAfterTimeout, vars
  <2>2. QED BY <2>1
<1>5. QED BY <1>1, <1>2, <1>3, <1>4 DEF Next, Generate

\* Every step keeps an answer that no call has used.
LEMMA GrantStep ==
    ASSUME GrantStands, [Next]_vars PROVE GrantStands'
<1> USE DEF GrantStands, flags, history, counters, workerVars
<1>1. CASE Admit
  BY <1>1 DEF Admit
<1>2. ASSUME NEW option \in Options, ContinueBudget(option) PROVE GrantStands'
  BY <1>2 DEF ContinueBudget
<1>3. ASSUME NEW resume \in BOOLEAN, Stop(resume) PROVE GrantStands'
  BY <1>3 DEF Stop
<1>4. CASE \/ NewClient \/ Decide \/ Ask \/ Refuse \/ Succeed \/ Retry \/ TimeOut
           \/ Fail \/ EndRun \/ StartRun \/ RetryAfterTimeout \/ UNCHANGED vars
  <2>1. override' = override /\ forTask' = forTask /\ fresh' = fresh
    BY <1>4 DEF NewClient, Decide, Ask, Refuse, Succeed, Retry, TimeOut, Fail,
                EndRun, StartRun, RetryAfterTimeout, vars
  <2>2. QED BY <2>1
<1>5. QED BY <1>1, <1>2, <1>3, <1>4 DEF Next, Generate

-----------------------------------------------------------------------------
(* The theorems.                                                           *)

\* IInv is inductive.
LEMMA InductiveStep == IInv /\ [Next]_vars => IInv'
<1> SUFFICES ASSUME IInv, [Next]_vars PROVE IInv'
  OBVIOUS
<1> USE DEF IInv
<1>1. TypeOK' /\ Bookkept'
  BY TypeStep
<1>2. Engaged'
  BY EngagedStep
<1>3. CallsCounted'
  BY CallsStep
<1>4. PromptsCounted'
  BY <1>1, <1>2, PromptsStep
<1>5. OverrideCounted' /\ GrantStands'
  BY OverrideStep, GrantStep
<1>6. QED BY <1>1, <1>2, <1>3, <1>4, <1>5

LEMMA Invariance == Spec => []IInv
BY InitIInv, InductiveStep, PTL DEF Spec

\* The variables keep their types.
THEOREM TypeCorrect == Spec => []TypeOK
<1>1. IInv => TypeOK
  BY DEF IInv
<1>2. QED BY <1>1, Invariance, PTL

\* The limits of a task hold over its runs, clients and retries: the provider
\* is called at most Retries times more than max_llm_calls_per_task, and the
\* prompts pass hard_prompt_tokens_per_task by the failed attempts of one
\* client at most.
THEOREM LimitsHold == Spec => []WithinLimits
<1>1. IInv => WithinLimits
  BY DEF IInv, CallsCounted, PromptsCounted, WithinLimits
<1>2. QED BY <1>1, Invariance, PTL

\* An answer to a budget approval lets one call above the threshold through,
\* over the restarts, the clients and the retries.
THEOREM OneCallPerAnswer == Spec => []OverrideAdmitsOne
<1>1. IInv => OverrideAdmitsOne
  <2> SUFFICES ASSUME IInv PROVE gated <= grants
    BY DEF OverrideAdmitsOne
  <2>1. gated \in Nat /\ grants \in Nat /\ OverrideCounted
    BY Numbers DEF IInv
  <2>2. QED BY <2>1 DEF OverrideCounted
<1>2. QED BY <1>1, Invariance, PTL

\* After continue the person is not asked again before a call was let through.
THEOREM GrantIsHonoured == Spec => GrantHonoured
<1>1. IInv => (Ask => ~fresh)
  BY DEF IInv, GrantStands, Ask
<1>2. IInv /\ [Next]_vars => [Ask => ~fresh]_vars
  BY <1>1
<1>3. QED BY <1>2, Invariance, PTL DEF Spec, GrantHonoured

=============================================================================
