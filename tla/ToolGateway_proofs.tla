-------------------------- MODULE ToolGateway_proofs --------------------------
(***************************************************************************)
(* Theorems about ToolGateway for every set of calls and of risks a page   *)
(* may show, every budget of steps and every number of runs and decisions. *)
(***************************************************************************)
EXTENDS ToolGateway, SequenceTheorems, TLAPS

-----------------------------------------------------------------------------
(* The inductive invariant.                                                *)

\* Where the run is in its plan, and under which approval.
Placed ==
    /\ pos <= Len(plan) + 1
    /\ at \in {"bridge", "override", "provider", "done", "fail", "waiting"}
         => pos <= Len(plan)
    /\ at \in {"next", "bridge", "waiting"} => under = 0
    /\ at = "override" => under # 0
    /\ at = "waiting" => wait \in Ids
    /\ mode = "auto_explore" /\ plan # <<>> => MaxSteps > 1
    /\ \A i \in DOMAIN plan : HasTarget(plan[i])

\* What a plan has loaded up to where it has got, it has: and so has every
\* lazy tool that the validator let into the plan.
LoadsKept ==
    at # "ended" =>
       /\ \A i \in DOMAIN plan :
             plan[i].tool = "tool_load" /\ (i < Len(plan) \/ i < pos)
               => plan[i].target \in loaded
       /\ at = "done" /\ Call.tool = "tool_load" => Call.target \in loaded
       /\ \A i \in DOMAIN plan : plan[i].tool \in Lazy => plan[i].tool \in loaded

\* What the gate has said of the call that is under way.
GateHolds ==
    /\ at \in {"bridge", "override"} => Policy(Call, 0) = "ask"
    /\ at = "provider" => Call.tool \notin Disabled \cup {"tool_search", "tool_load"}
    /\ RiskyPageNeedsConsent
    /\ InputStaysLocal

\* What the graph was resumed with has been granted, and stays so.
AnswersGranted ==
    /\ \A k \in DOMAIN answers : approvals[answers[k]].state = "approved"
    /\ under # 0 => approvals[under].state = "approved"

\* An approval that is granted and still holds its call is an answer to come,
\* the one the call under way is made under, or one that no call took up.
GrantsTracked ==
    \A i \in Granted :
       \/ i \in unused
       \/ at # "ended" /\ (i = under \/ \E k \in DOMAIN answers : k > asked /\ answers[k] = i)

AnswersTaken == at = "waiting" => asked = Len(answers)

IInv ==
    /\ TypeOK /\ Placed /\ LoadsKept /\ GateHolds /\ AnswersGranted
    /\ GrantsTracked /\ AnswersTaken /\ OnePending /\ AskedCanBeAnswered

-----------------------------------------------------------------------------
(* Facts the steps share.  TypeOK in parts: places and switches, pages,    *)
(* what is stored, and the counts.                                         *)

State == {"pending", "approved", "rejected"}

Flags == /\ mode \in {"guided", "open", "auto_explore"}
         /\ at \in {"next", "bridge", "override", "provider", "done", "fail",
                    "waiting", "ended"}
         /\ paused \in BOOLEAN
Views == page \in Pages /\ seen \in Pages
Plans == plan \in Seq(Calls) /\ Len(plan) <= MaxSteps /\ loaded \subseteq Lazy
Asks == /\ approvals \in Seq([call : Calls, state : State])
        /\ pending \subseteq Ids /\ unused \subseteq Ids
        /\ answers \in Seq(Ids) /\ asked \in 0..Len(answers)
        /\ under \in 0..Len(approvals) /\ wait \in 0..Len(approvals)
Counts == runs \in 1..MaxRuns /\ pos \in 1..MaxSteps + 1
Free == at = "next" => under = 0

LEMMA TypeParts == TypeOK <=> Flags /\ Views /\ Plans /\ Asks /\ Counts /\ Free
BY DEF TypeOK, Flags, Views, Plans, Asks, Counts, Free, State

LEMMA TypePartsNext ==
    TypeOK' <=> Flags' /\ Views' /\ Plans' /\ Asks' /\ Counts' /\ Free'
BY TypeParts, PTL

LEMMA BoundsAreNumbers ==
    MaxSteps \in Nat \ {0} /\ MaxRuns \in Nat \ {0} /\ MaxDecisions \in Nat \ {0}
BY ToolGatewayAssumption

\* The call a run is at is one of the plan's.
LEMMA CallInPlan ==
    ASSUME Plans, Counts, pos <= Len(plan)
    PROVE  pos \in DOMAIN plan /\ pos \in 1..Len(plan) /\ Call \in Calls
<1>1. plan \in Seq(Calls) /\ pos \in Nat /\ pos >= 1
  BY BoundsAreNumbers DEF Plans, Counts
<1>2. DOMAIN plan = 1..Len(plan) /\ Len(plan) \in Nat
  BY <1>1, LenProperties
<1>3. pos \in 1..Len(plan)
  BY <1>1, <1>2
<1>4. Call \in Calls
  BY <1>1, <1>3, ElementOfSeq DEF Call
<1>5. QED BY <1>2, <1>3, <1>4

\* The approvals, as a function.
LEMMA ApprovalsAreASeq ==
    ASSUME Asks
    PROVE  /\ Len(approvals) \in Nat /\ DOMAIN approvals = Ids
           /\ Len(answers) \in Nat /\ DOMAIN answers = 1..Len(answers)
           /\ \A i \in Ids : approvals[i] \in [call : Calls, state : State]
           /\ \A k \in DOMAIN answers : answers[k] \in Ids
BY LenProperties, ElementOfSeq DEF Asks, Ids

\* What a plan is extended with is a call, and the rest of it stays.
LEMMA PlanGrows ==
    ASSUME Plans, NEW c \in Calls, plan' = Append(plan, c)
    PROVE  /\ plan' \in Seq(Calls) /\ Len(plan') = Len(plan) + 1 /\ Len(plan) \in Nat
           /\ DOMAIN plan = 1..Len(plan) /\ DOMAIN plan' = 1..Len(plan) + 1
           /\ \A i \in 1..Len(plan) : plan'[i] = plan[i]
           /\ plan'[Len(plan) + 1] = c
<1>1. plan \in Seq(Calls)
  BY DEF Plans
<1>2. /\ plan' \in Seq(Calls) /\ Len(plan') = Len(plan) + 1
      /\ \A i \in 1..Len(plan) : plan'[i] = plan[i]
      /\ plan'[Len(plan) + 1] = c
  BY <1>1, AppendProperties
<1>3. DOMAIN plan = 1..Len(plan) /\ DOMAIN plan' = 1..Len(plan') /\ Len(plan) \in Nat
  BY <1>1, <1>2, LenProperties
<1>4. QED BY <1>2, <1>3

\* _create_approval_request: approvals keep their ids and their states, what
\* is new is pending, and one pending approval stands for the call.
LEMMA AskForKeeps ==
    ASSUME Asks, OnePending, NEW c \in Calls, AskFor(c)
    PROVE  /\ approvals' \in Seq([call : Calls, state : State])
           /\ Len(approvals') \in Nat /\ Len(approvals) <= Len(approvals')
           /\ Len(approvals) \in Nat
           /\ \A i \in Ids : approvals'[i] = approvals[i]
           /\ pending' \subseteq 1..Len(approvals') /\ pending \subseteq pending'
           /\ \A i \in pending' : i \in pending \/ approvals'[i].state = "pending"
           /\ OnePending'
           /\ Asked(c) \in pending' /\ Asked(c) \in 1..Len(approvals')
<1>1. CASE Existing(c) # {}
  <2>1. approvals' = approvals /\ pending' = pending
    BY <1>1 DEF AskFor, store
  <2>2. Asked(c) \in Existing(c)
    BY <1>1 DEF Asked
  <2>3. Asked(c) \in pending /\ pending \subseteq 1..Len(approvals)
    BY <2>2 DEF Existing, Asks, Ids
  <2>4. OnePending'
    BY <2>1 DEF OnePending
  <2>5. Len(approvals) \in Nat /\ approvals \in Seq([call : Calls, state : State])
    BY ApprovalsAreASeq DEF Asks
  <2>6. Len(approvals') = Len(approvals) /\ Len(approvals) <= Len(approvals)
    BY <2>1, <2>5
  <2>7. pending \subseteq 1..Len(approvals') /\ Asked(c) \in 1..Len(approvals')
    BY <2>3, <2>6
  <2>8. QED BY <2>1, <2>3, <2>4, <2>5, <2>6, <2>7
<1>2. CASE Existing(c) = {}
  <2> DEFINE new == [call |-> c, state |-> "pending"]
             n == Len(approvals) + 1
  <2>1. approvals' = Append(approvals, new) /\ pending' = pending \cup {n}
    BY <1>2 DEF AskFor
  <2>2. new \in [call : Calls, state : State]
    BY DEF State
  <2>3. approvals \in Seq([call : Calls, state : State]) /\ pending \subseteq 1..Len(approvals)
    BY DEF Asks, Ids
  <2>4. /\ approvals' \in Seq([call : Calls, state : State])
        /\ Len(approvals') = n /\ approvals'[n] = new
        /\ \A i \in 1..Len(approvals) : approvals'[i] = approvals[i]
    <3> HIDE DEF new
    <3> QED BY <2>1, <2>2, <2>3, AppendProperties
  <2>5. Len(approvals) \in Nat
    BY <2>3, LenProperties
  <2>6. Asked(c) = n
    BY <1>2 DEF Asked
  <2>7. n \in Nat /\ pending \subseteq 1..n /\ n \in 1..n
    BY <2>3, <2>5
  <2>8. \A i \in pending : approvals'[i] = approvals[i] /\ approvals[i].call # c
    <3>1. \A i \in pending : i \in 1..Len(approvals)
      BY <2>3
    <3>2. \A i \in pending : approvals[i].call # c
      BY <1>2 DEF Existing
    <3>3. QED BY <3>1, <3>2, <2>4
  <2>9. OnePending'
    <3> SUFFICES ASSUME NEW i \in pending', NEW j \in pending',
                        approvals'[i].call = approvals'[j].call
                 PROVE  i = j
      BY DEF OnePending
    <3>1. approvals'[n].call = c
      BY <2>4
    <3>2. (i \in pending \/ i = n) /\ (j \in pending \/ j = n)
      BY <2>1
    <3> HIDE DEF n, new
    <3>3. CASE i \in pending /\ j \in pending
      BY <3>3, <2>8 DEF OnePending
    <3>4. CASE ~(i \in pending /\ j \in pending)
      BY <3>1, <3>2, <3>4, <2>8
    <3>5. QED BY <3>3, <3>4
  <2>10. approvals'[n].state = "pending"
    BY <2>4
  <2>11. \A i \in pending' : i \in pending \/ approvals'[i].state = "pending"
    BY <2>1, <2>10
  <2>12. Len(approvals) <= n
    BY <2>5
  <2>13. pending' \subseteq 1..n /\ pending \subseteq pending' /\ n \in pending'
    BY <2>1, <2>7
  <2> HIDE DEF n, new
  <2>14. QED BY <2>4, <2>5, <2>6, <2>7, <2>9, <2>11, <2>12, <2>13 DEF Ids
<1>3. QED BY <1>1, <1>2

\* Answers stay ids as approvals are added.
LEMMA AnswersStay ==
    ASSUME Asks, Len(approvals') \in Nat, Len(approvals) <= Len(approvals')
    PROVE  answers \in Seq(1..Len(approvals')) /\ Ids \subseteq 1..Len(approvals')
<1>1. Len(approvals) \in Nat
  BY ApprovalsAreASeq
<1>2. Ids \subseteq 1..Len(approvals')
  BY <1>1 DEF Ids
<1>3. answers \in Seq(Ids)
  BY DEF Asks
<1>4. QED BY <1>2, <1>3, SeqMonotonic

\* Whether an approval is asked for or none is: what is granted stays granted.
LEMMA StoreKept ==
    ASSUME Asks, OnePending, NEW c \in Calls, AskFor(c) \/ UNCHANGED store
    PROVE  /\ approvals' \in Seq([call : Calls, state : State])
           /\ Len(approvals') \in Nat /\ Len(approvals) <= Len(approvals')
           /\ Len(approvals) \in Nat
           /\ \A i \in Ids : approvals'[i] = approvals[i]
           /\ pending' \subseteq 1..Len(approvals') /\ Ids \subseteq 1..Len(approvals')
           /\ OnePending'
           /\ Granted' = Granted
<1>1. CASE AskFor(c)
  <2>1. /\ approvals' \in Seq([call : Calls, state : State])
        /\ Len(approvals') \in Nat /\ Len(approvals) <= Len(approvals')
        /\ Len(approvals) \in Nat
        /\ \A i \in Ids : approvals'[i] = approvals[i]
        /\ pending' \subseteq 1..Len(approvals') /\ pending \subseteq pending'
        /\ \A i \in pending' : i \in pending \/ approvals'[i].state = "pending"
        /\ OnePending'
    BY <1>1, AskForKeeps
  <2>2. pending \subseteq Ids
    BY DEF Asks
  <2>3. Granted' = Granted
    BY <2>1, <2>2 DEF Granted
  <2>4. Ids \subseteq 1..Len(approvals')
    BY <2>1, AnswersStay
  <2>5. QED BY <2>1, <2>3, <2>4
<1>2. CASE UNCHANGED store
  <2>1. approvals' = approvals /\ pending' = pending
    BY <1>2 DEF store
  <2>2. /\ approvals \in Seq([call : Calls, state : State])
        /\ pending \subseteq 1..Len(approvals) /\ Len(approvals) \in Nat
    BY ApprovalsAreASeq DEF Asks, Ids
  <2>3. OnePending' /\ Granted' = Granted
    BY <2>1 DEF OnePending, Granted
  <2>4. Len(approvals') = Len(approvals) /\ Len(approvals) <= Len(approvals)
    BY <2>1, <2>2
  <2>5. QED BY <2>1, <2>2, <2>3, <2>4 DEF Ids
<1>3. QED BY <1>1, <1>2

\* So what is stored keeps its type when only an approval was asked for.
LEMMA AsksKept ==
    ASSUME Asks, OnePending, NEW c \in Calls, AskFor(c) \/ UNCHANGED store,
           answers' = answers, unused' \subseteq unused \cup Granted,
           asked' \in 0..Len(answers), under' \in 0..Len(approvals),
           wait' \in 0..Len(approvals')
    PROVE  Asks'
<1>1. /\ approvals' \in Seq([call : Calls, state : State])
      /\ Len(approvals') \in Nat /\ Len(approvals) <= Len(approvals')
      /\ Len(approvals) \in Nat
      /\ pending' \subseteq 1..Len(approvals') /\ Ids \subseteq 1..Len(approvals')
  BY StoreKept
<1>2. answers' \in Seq(1..Len(approvals'))
  BY <1>1, AnswersStay
<1>3. unused' \subseteq 1..Len(approvals')
  BY <1>1 DEF Granted, Asks
<1>4. under' \in 0..Len(approvals')
  BY <1>1
<1>5. asked' \in 0..Len(answers')
  OBVIOUS
<1>6. QED BY <1>1, <1>2, <1>3, <1>4, <1>5 DEF Asks, Ids

\* The answers of the graph stay granted, and so does the override it is under.
LEMMA AnswersGrantedKept ==
    ASSUME Asks, AnswersGranted, answers' = answers,
           \A i \in Ids : approvals[i].state = "approved" => approvals'[i].state = "approved",
           under' = 0 \/ under' = under \/ \E k \in DOMAIN answers : under' = answers[k]
    PROVE  AnswersGranted'
<1>1. \A k \in DOMAIN answers : answers[k] \in Ids
  BY ApprovalsAreASeq
<1>2. \A k \in DOMAIN answers' : approvals'[answers'[k]].state = "approved"
  BY <1>1 DEF AnswersGranted
<1>3. under # 0 => under \in Ids
  <2>1. Len(approvals) \in Nat /\ under \in 0..Len(approvals)
    BY ApprovalsAreASeq DEF Asks
  <2>2. QED BY <2>1 DEF Ids
<1>4. under' # 0 => approvals'[under'].state = "approved"
  BY <1>1, <1>2, <1>3 DEF AnswersGranted
<1>5. QED BY <1>2, <1>4 DEF AnswersGranted

\* A grant that is there is an answer, the one a call is under, or unused.
LEMMA GrantsFree ==
    ASSUME Asks, GrantsTracked, under = 0, asked = Len(answers)
    PROVE  Granted \subseteq unused
<1>1. SUFFICES ASSUME NEW i \in Granted PROVE i \in unused
  OBVIOUS
<1>2. i \in Ids /\ i # 0
  BY DEF Granted, Asks, Ids
<1>3. Len(answers) \in Nat /\ DOMAIN answers = 1..Len(answers)
  BY ApprovalsAreASeq
<1>4. ~ \E k \in DOMAIN answers : k > asked /\ answers[k] = i
  BY <1>3
<1>5. QED BY <1>2, <1>4 DEF GrantsTracked

\* Every answer of the policy, as long as nothing overrides it.
LEMMA PolicyAnswers ==
    ASSUME NEW c \in Calls
    PROVE  Policy(c, 0) \in {"block", "ask", "allow"}
BY DEF Policy, Risk, PageRisk

LEMMA ToolsOfCalls ==
    ASSUME NEW c \in Calls
    PROVE  /\ c.tool \in Tools
           /\ c.words \in Words
           /\ c.target \in Tools \cup {"file", "public", "page", ""}
           /\ c.tool = "browser_open" => c.target \in {"file", "public", ""}
BY ToolGatewayAssumption

\* A call on a page that is let through at once shows no risk.
LEMMA AllowedIsSafe ==
    ASSUME Views, NEW c \in Calls, Policy(c, 0) = "allow",
           c.tool \in Input \cup {"browser_click"}
    PROVE  seen.sign = "none"
<1>1. seen.sign \in {"none", "login", "blocking"}
  BY ToolGatewayAssumption DEF Views, Pages
<1>2. c.tool \in {"browser_type", "browser_select", "browser_click"}
  BY DEF Input
<1>3. Risk(c) = "allow"
  BY <1>2 DEF Policy, Unchecked, Lazy, Known, Tools, Disabled
<1>4. PageRisk(c) = "none"
  BY <1>3 DEF Risk, PageRisk
<1>5. QED BY <1>1, <1>4 DEF PageRisk

\* A call that has to be asked for on a page that would block asks for itself.
LEMMA AskedOnBlocking ==
    ASSUME NEW c \in Calls, Policy(c, 0) = "ask"
    PROVE  /\ c.tool \notin Unchecked \cup Disabled
           /\ seen.sign = "blocking" => c.words = "ask"
BY DEF Policy, Risk, PageRisk

-----------------------------------------------------------------------------
(* The gateway is invoked.                                                 *)

\* A plan as the validator, or the offer, lets it grow.
PlanOk(p) ==
    /\ p \in Seq(Calls) /\ Len(p) <= MaxSteps
    /\ mode = "auto_explore" /\ p # <<>> => MaxSteps > 1
    /\ \A i \in DOMAIN p : HasTarget(p[i])
    /\ \A i \in DOMAIN p :
          p[i].tool = "tool_load" /\ (i < Len(p) \/ i < pos) => p[i].target \in loaded
    /\ \A i \in DOMAIN p : p[i].tool \in Lazy => p[i].tool \in loaded

LEMMA InvokeKeeps ==
    ASSUME IInv, NEW p, PlanOk(p), NEW c \in Calls, plan' = p,
           pos \in 1..Len(p), p[pos] = c, Invoke(c)
    PROVE  IInv'
<1>1. Flags /\ Views /\ Plans /\ Asks /\ Counts /\ Free /\ OnePending
  BY TypeParts DEF IInv
<1>2. at = "next" /\ under = 0
  BY <1>1 DEF Invoke, Free
<1>3. /\ mode' = mode /\ runs' = runs /\ pos' = pos /\ under' = under
      /\ page' = page /\ seen' = seen /\ asked' = asked /\ answers' = answers
      /\ wait' = wait /\ paused' = paused
  BY DEF Invoke
<1>4. Len(p) \in Nat /\ pos \in Nat /\ pos <= Len(p) /\ DOMAIN p = 1..Len(p)
  BY LenProperties DEF PlanOk
<1>5. Call' = c
  BY <1>3 DEF Call
<1>6. \/ /\ at' = "ended" /\ unused' = unused \cup Granted /\ loaded' = loaded
         /\ AskFor(c) \/ UNCHANGED store
      \/ /\ at' = "bridge" /\ unused' = unused /\ loaded' = loaded
         /\ Policy(c, 0) = "ask" /\ AskFor(c)
      \/ /\ at' = "done" /\ unused' = unused /\ UNCHANGED store
         /\ c.tool \in {"tool_search", "tool_load"}
         /\ c.tool = "tool_load" => c.target \in Lazy
         /\ loaded' = loaded \cup (IF c.tool = "tool_load" THEN {c.target} ELSE {})
      \/ /\ at' = "provider" /\ unused' = unused /\ loaded' = loaded /\ UNCHANGED store
         /\ c.tool \notin {"tool_search", "tool_load"}
         /\ Policy(c, 0) = "allow"
  <2>0. c.tool \in {"tool_search", "tool_load"} => Policy(c, 0) = "allow"
    BY DEF Policy, Known, Tools, Disabled, Unchecked
  <2>1. CASE Policy(c, 0) = "block"
    <3>1. EndRun /\ loaded' = loaded /\ UNCHANGED store
      BY <2>0, <2>1 DEF Invoke, store
    <3>2. QED BY <3>1 DEF EndRun
  <2>2. CASE Policy(c, 0) = "ask"
    <3>1. AskFor(c) /\ loaded' = loaded
      BY <2>0, <2>2 DEF Invoke
    <3>2. EndRun \/ (at' = "bridge" /\ unused' = unused)
      BY <2>0, <2>2 DEF Invoke
    <3>3. QED BY <2>2, <3>1, <3>2 DEF EndRun
  <2>3. CASE Policy(c, 0) \notin {"block", "ask"} /\ c.tool \in {"tool_search", "tool_load"}
    BY <2>3 DEF Invoke, AnswerItself, EndRun
  <2>4. CASE Policy(c, 0) \notin {"block", "ask"} /\ c.tool \notin {"tool_search", "tool_load"}
    <3>1. Policy(c, 0) = "allow"
      BY <2>4, PolicyAnswers
    <3>2. QED BY <2>4, <3>1 DEF Invoke
  <2>5. QED BY <2>1, <2>2, <2>3, <2>4
<1>7. AskFor(c) \/ UNCHANGED store
  BY <1>6
<1>8. /\ \A i \in Ids : approvals'[i] = approvals[i]
      /\ OnePending' /\ Granted' = Granted
      /\ Len(approvals') \in Nat /\ Len(approvals) <= Len(approvals') /\ Len(approvals) \in Nat
  BY <1>1, <1>7, StoreKept
<1>9. Asks'
  <2>1. unused' \subseteq unused \cup Granted
    BY <1>6
  <2>2. /\ asked' \in 0..Len(answers) /\ under' \in 0..Len(approvals)
        /\ wait' \in 0..Len(approvals')
    BY <1>1, <1>3, <1>8 DEF Asks
  <2>3. QED BY <1>1, <1>3, <1>7, <2>1, <2>2, AsksKept
<1>10. Plans'
  <2>1. loaded' \subseteq Lazy
    BY <1>1, <1>6 DEF Plans
  <2>2. QED BY <2>1 DEF Plans, PlanOk
<1>11. Views'
  BY <1>1, <1>3 DEF Views, Pages
<1>12. Counts'
  BY <1>1, <1>3 DEF Counts
<1>13. Free'
  BY <1>2, <1>3 DEF Free
<1>14. Flags'
  BY <1>1, <1>3, <1>6 DEF Flags
<1>15. Placed'
  <2>1. pos' <= Len(plan') + 1 /\ pos' <= Len(plan')
    BY <1>3, <1>4
  <2>2. /\ mode' = "auto_explore" /\ plan' # <<>> => MaxSteps > 1
        /\ \A i \in DOMAIN plan' : HasTarget(plan'[i])
    BY <1>3 DEF PlanOk
  <2>3. at' # "override" /\ at' # "waiting"
    BY <1>6
  <2>4. QED BY <2>1, <2>2, <2>3, <1>2, <1>3 DEF Placed, HasTarget
<1>16. LoadsKept'
  <2>1. loaded \subseteq loaded'
    BY <1>6
  <2>2. /\ \A i \in DOMAIN plan' :
             plan'[i].tool = "tool_load" /\ (i < Len(plan') \/ i < pos') => plan'[i].target \in loaded'
        /\ \A i \in DOMAIN plan' : plan'[i].tool \in Lazy => plan'[i].tool \in loaded'
    BY <1>3, <2>1 DEF PlanOk
  <2>3. at' = "done" /\ c.tool = "tool_load" => c.target \in loaded'
    BY <1>6
  <2>4. QED BY <1>5, <2>2, <2>3 DEF LoadsKept
<1>17. GateHolds'
  <2>1. at' \in {"bridge", "override"} => Policy(Call, 0)'= "ask"
    <3>1. Policy(Call, 0)' = Policy(c, 0)
      BY <1>3, <1>5 DEF Policy, Risk, PageRisk
    <3>2. QED BY <1>6, <3>1
  <2>2. at' = "provider" => c.tool \notin Disabled \cup {"tool_search", "tool_load"}
    BY <1>6 DEF Policy
  <2>3. RiskyPageNeedsConsent'
    <3>1. SUFFICES ASSUME at' = "provider", c.tool \in Input \cup {"browser_click"}
                   PROVE  seen'.sign = "none"
      BY <1>5 DEF RiskyPageNeedsConsent
    <3>2. Policy(c, 0) = "allow"
      BY <1>6, <3>1
    <3>3. QED BY <1>1, <1>3, <3>1, <3>2, AllowedIsSafe
  <2>4. InputStaysLocal'
    BY <1>5, <1>6 DEF InputStaysLocal, Input
  <2>5. QED BY <1>5, <2>1, <2>2, <2>3, <2>4 DEF GateHolds
<1>18. AnswersGranted'
  <2>1. AnswersGranted
    BY DEF IInv
  <2>2. QED BY <1>1, <1>3, <1>8, <2>1, AnswersGrantedKept
<1>19. GrantsTracked'
  <2>1. CASE at' = "ended"
    BY <1>6, <1>8, <2>1 DEF GrantsTracked
  <2>2. CASE at' # "ended"
    <3>1. unused' = unused /\ GrantsTracked /\ at # "ended"
      BY <1>2, <1>6, <2>2 DEF IInv
    <3>2. QED BY <1>3, <1>8, <2>2, <3>1 DEF GrantsTracked
  <2>3. QED BY <2>1, <2>2
<1>20. AnswersTaken' /\ AskedCanBeAnswered'
  BY <1>6 DEF AnswersTaken, AskedCanBeAnswered
<1>21. TypeOK'
  BY <1>9, <1>10, <1>11, <1>12, <1>13, <1>14, TypePartsNext
<1>22. QED
  BY <1>8, <1>15, <1>16, <1>17, <1>18, <1>19, <1>20, <1>21 DEF IInv

\* What the validator or the offer lets a plan grow by keeps it in order: the
\* loads a plan intends have been made by the time a step is chosen.
LEMMA GrownPlanOk ==
    ASSUME IInv, at = "next", pos = Len(plan) + 1, NEW c \in Calls,
           IF mode = "auto_explore" THEN Offered(c) ELSE Validates(plan, c),
           NEW p, p = Append(plan, c)
    PROVE  PlanOk(p) /\ pos \in 1..Len(p) /\ p[pos] = c
<1>1. Plans /\ Placed /\ LoadsKept
  BY TypeParts DEF IInv
<1>2. plan \in Seq(Calls) /\ MaxSteps \in Nat
  BY <1>1, BoundsAreNumbers DEF Plans
<1>3. Len(plan) \in Nat /\ DOMAIN plan = 1..Len(plan)
  BY <1>2, LenProperties
<1>4. /\ p \in Seq(Calls) /\ Len(p) = Len(plan) + 1
      /\ \A i \in 1..Len(plan) : p[i] = plan[i]
      /\ p[Len(plan) + 1] = c
  BY <1>2, AppendProperties
<1>5. DOMAIN p = 1..Len(plan) + 1
  BY <1>4, LenProperties
<1>6. HasTarget(c)
  BY DEF Offered, Validates
<1>7. /\ Len(plan) + 1 <= MaxSteps
      /\ mode = "auto_explore" => MaxSteps > 1
  <2>1. CASE mode # "auto_explore"
    BY <1>2, <1>3, <2>1 DEF Validates
  <2>2. CASE mode = "auto_explore" /\ Len(plan) = 0
    BY <1>2, <2>2 DEF Offered
  <2>3. CASE mode = "auto_explore" /\ Len(plan) = 1
    <3>1. plan # <<>>
      BY <2>3
    <3>2. QED BY <1>1, <1>2, <2>3, <3>1 DEF Placed
  <2>4. CASE mode = "auto_explore" /\ Len(plan) \notin {0, 1}
    BY <1>2, <1>3, <2>4 DEF Offered
  <2>5. QED BY <2>1, <2>2, <2>3, <2>4
<1>8. /\ \A i \in DOMAIN plan : plan[i].tool = "tool_load" => plan[i].target \in loaded
      /\ \A i \in DOMAIN plan : plan[i].tool \in Lazy => plan[i].tool \in loaded
  BY <1>1, <1>3 DEF LoadsKept
<1>9. c.tool \in Lazy => c.tool \in loaded
  <2>1. CASE mode # "auto_explore"
    <3>1. PlannedLoads(plan) \subseteq loaded
      BY <1>8 DEF PlannedLoads
    <3>2. QED BY <2>1, <3>1 DEF Validates
  <2>2. CASE mode = "auto_explore"
    BY <2>2 DEF Offered, Lazy
  <2>3. QED BY <2>1, <2>2
<1>10. \A i \in DOMAIN p :
          \/ i \in DOMAIN plan /\ p[i] = plan[i]
          \/ i = Len(plan) + 1 /\ p[i] = c /\ ~(i < Len(p)) /\ ~(i < pos)
  BY <1>3, <1>4, <1>5
<1>11. \A i \in DOMAIN p : HasTarget(p[i])
  BY <1>1, <1>6, <1>10 DEF Placed
<1>12. /\ \A i \in DOMAIN p :
            p[i].tool = "tool_load" /\ (i < Len(p) \/ i < pos) => p[i].target \in loaded
       /\ \A i \in DOMAIN p : p[i].tool \in Lazy => p[i].tool \in loaded
  BY <1>8, <1>9, <1>10
<1>13. Len(p) <= MaxSteps /\ pos \in 1..Len(p) /\ p[pos] = c
  BY <1>3, <1>4, <1>7
<1>14. QED BY <1>4, <1>7, <1>11, <1>12, <1>13 DEF PlanOk

LEMMA NextCallKeeps == ASSUME IInv, NextCall PROVE IInv'
<1>1. PICK c \in Calls :
        /\ IF mode = "auto_explore" THEN Offered(c) ELSE Validates(plan, c)
        /\ plan' = Append(plan, c)
        /\ Invoke(c)
  BY DEF NextCall
<1>2. at = "next" /\ pos = Len(plan) + 1
  BY <1>1 DEF NextCall, Invoke
<1>3. PICK p : p = Append(plan, c)
  OBVIOUS
<1>4. PlanOk(p) /\ pos \in 1..Len(p) /\ p[pos] = c
  BY <1>1, <1>2, <1>3, GrownPlanOk
<1>5. plan' = p
  BY <1>1, <1>3
<1>6. QED BY <1>1, <1>4, <1>5, InvokeKeeps

LEMMA ReplayCallKeeps == ASSUME IInv, ReplayCall PROVE IInv'
<1>1. Invoke(Call) /\ plan' = plan /\ pos <= Len(plan)
  BY DEF ReplayCall
<1>2. Plans /\ Counts /\ Placed /\ LoadsKept /\ at = "next"
  BY <1>1, TypeParts DEF IInv, Invoke
<1>3. pos \in 1..Len(plan) /\ Call \in Calls
  BY <1>1, <1>2, CallInPlan
<1>4. PICK p : p = plan
  OBVIOUS
<1>5. PlanOk(p)
  BY <1>2, <1>4 DEF PlanOk, Plans, Placed, LoadsKept
<1>6. PICK c \in Calls : c = Call
  BY <1>3
<1>7. Invoke(c) /\ p[pos] = c /\ pos \in 1..Len(p) /\ plan' = p
  BY <1>1, <1>3, <1>4, <1>6 DEF Call
<1>8. QED BY <1>5, <1>7, InvokeKeeps

-----------------------------------------------------------------------------
(* The run's other steps.                                                  *)

\* The end of a run that leaves everything else as it is.
LEMMA EndRunKeeps ==
    ASSUME IInv, EndRun,
           UNCHANGED <<mode, runs, plan, pos, under, loaded, page, seen, asked,
                       answers, wait, store, paused>>
    PROVE  IInv'
<1>1. /\ mode' = mode /\ runs' = runs /\ plan' = plan /\ pos' = pos /\ under' = under
      /\ loaded' = loaded /\ page' = page /\ seen' = seen /\ asked' = asked
      /\ answers' = answers /\ wait' = wait /\ paused' = paused
      /\ approvals' = approvals /\ pending' = pending
      /\ at' = "ended" /\ unused' = unused \cup Granted
  BY DEF store, EndRun
<1>2. Flags /\ Views /\ Plans /\ Asks /\ Counts
  BY TypeParts DEF IInv
<1>3. Flags' /\ Views' /\ Plans' /\ Counts' /\ Free'
  BY <1>1, <1>2 DEF Flags, Views, Pages, Plans, Counts, Free
<1>4. Asks'
  BY <1>1, <1>2 DEF Asks, Ids, Granted
<1>5. TypeOK'
  BY <1>3, <1>4, TypePartsNext
<1>6. Placed'
  BY <1>1 DEF IInv, Placed, HasTarget, Ids
<1>7. LoadsKept' /\ GateHolds' /\ AnswersTaken' /\ AskedCanBeAnswered'
  BY <1>1 DEF LoadsKept, GateHolds, RiskyPageNeedsConsent, InputStaysLocal,
              AnswersTaken, AskedCanBeAnswered
<1>8. AnswersGranted' /\ OnePending'
  BY <1>1 DEF IInv, AnswersGranted, OnePending
<1>9. GrantsTracked'
  BY <1>1 DEF GrantsTracked, Granted
<1>10. QED BY <1>5, <1>6, <1>7, <1>8, <1>9 DEF IInv

LEMMA PlanEndsKeeps == ASSUME IInv, PlanEnds PROVE IInv'
BY EndRunKeeps DEF PlanEnds

LEMMA HeedPauseKeeps == ASSUME IInv, HeedPause PROVE IInv'
BY EndRunKeeps DEF HeedPause

\* An interrupted graph takes the next answer, which has been granted, or
\* waits for an approval: one that was granted before would be an answer,
\* and all of those have been taken.
LEMMA BridgeKeeps == ASSUME IInv, Bridge PROVE IInv'
<1>1. Flags /\ Views /\ Plans /\ Asks /\ Counts /\ Placed /\ OnePending
      /\ AnswersGranted /\ GrantsTracked /\ LoadsKept /\ GateHolds
  BY TypeParts DEF IInv
<1>2. at = "bridge" /\ under = 0 /\ pos <= Len(plan)
  BY <1>1 DEF Bridge, Placed
<1>3. /\ mode' = mode /\ runs' = runs /\ plan' = plan /\ pos' = pos
      /\ loaded' = loaded /\ page' = page /\ seen' = seen
      /\ answers' = answers /\ paused' = paused /\ unused' = unused
  BY DEF Bridge
<1>4. Call \in Calls
  BY <1>1, <1>2, CallInPlan
<1>5. PICK c \in Calls : c = Call
  BY <1>4
<1>6. AskFor(c)
  BY <1>5 DEF Bridge
<1>7. /\ \A i \in Ids : approvals'[i] = approvals[i]
      /\ OnePending' /\ Granted' = Granted
      /\ Len(approvals') \in Nat /\ Len(approvals) <= Len(approvals') /\ Len(approvals) \in Nat
      /\ Ids \subseteq 1..Len(approvals')
  BY <1>1, <1>6, StoreKept
<1>8. Len(answers) \in Nat /\ DOMAIN answers = 1..Len(answers)
      /\ \A k \in DOMAIN answers : answers[k] \in Ids
  BY <1>1, ApprovalsAreASeq
<1>9. asked \in 0..Len(answers) /\ wait \in 0..Len(approvals)
  BY <1>1 DEF Asks
<1>10. Call' = Call
  BY <1>3 DEF Call
<1>11. Flags' /\ Views' /\ Plans' /\ Counts' /\ Free'
  <2>1. at' \in {"override", "waiting"}
    BY DEF Bridge
  <2>2. Flags' /\ Free'
    BY <1>1, <1>3, <2>1 DEF Flags, Free
  <2>3. QED BY <1>1, <1>3, <2>2 DEF Views, Pages, Plans, Counts
<1>12. LoadsKept'
  BY <1>1, <1>2, <1>3, <1>10 DEF LoadsKept, Bridge
<1>13. Policy(Call, 0)' = "ask"
  <2>1. Policy(Call, 0) = "ask"
    BY <1>1, <1>2 DEF GateHolds
  <2>2. QED BY <1>3, <1>10, <2>1 DEF Policy, Risk, PageRisk
<1>14. at' \in {"override", "waiting"} => GateHolds'
  BY <1>13 DEF GateHolds, RiskyPageNeedsConsent, InputStaysLocal
<1>15. CASE asked < Len(answers)
  <2>1. /\ asked' = asked + 1 /\ under' = answers[asked + 1]
        /\ at' = "override" /\ wait' = wait
    BY <1>15 DEF Bridge
  <2>2. asked + 1 \in DOMAIN answers
    BY <1>8, <1>9, <1>15
  <2>3. under' \in Ids /\ under' # 0 /\ under' \in 0..Len(approvals)
    BY <1>7, <1>8, <2>1, <2>2 DEF Ids
  <2>4. Asks'
    <3>1. /\ asked' \in 0..Len(answers) /\ wait' \in 0..Len(approvals')
          /\ unused' \subseteq unused \cup Granted
      BY <1>3, <1>7, <1>8, <1>9, <1>15, <2>1
    <3>2. QED BY <1>1, <1>3, <1>6, <2>3, <3>1, AsksKept
  <2>5. AnswersGranted'
    BY <1>1, <1>3, <1>7, <2>1, <2>2, AnswersGrantedKept
  <2>6. GrantsTracked'
    <3>1. SUFFICES ASSUME NEW i \in Granted, i \notin unused
                   PROVE  i = under' \/ \E k \in DOMAIN answers : k > asked + 1 /\ answers[k] = i
      BY <1>3, <1>7, <2>1 DEF GrantsTracked
    <3>2. i # 0
      BY <1>1 DEF Granted, Asks, Ids
    <3>3. PICK k \in DOMAIN answers : k > asked /\ answers[k] = i
      BY <1>1, <1>2, <3>1, <3>2 DEF GrantsTracked
    <3>4. k = asked + 1 \/ k > asked + 1
      BY <1>8, <1>9, <3>3
    <3>5. QED BY <2>1, <3>3, <3>4
  <2>7. Placed'
    BY <1>1, <1>2, <1>3, <2>1, <2>3 DEF Placed, HasTarget
  <2>8. AnswersTaken' /\ AskedCanBeAnswered'
    BY <2>1 DEF AnswersTaken, AskedCanBeAnswered
  <2>9. TypeOK'
    BY <1>11, <2>4, TypePartsNext
  <2>10. QED BY <1>7, <1>12, <1>14, <2>1, <2>5, <2>6, <2>7, <2>8, <2>9 DEF IInv
<1>16. CASE ~(asked < Len(answers))
  <2>1. at' = "waiting" /\ wait' = Asked(Call) /\ asked' = asked /\ under' = under
    BY <1>16 DEF Bridge
  <2>2. asked = Len(answers)
    <3>1. \A n \in Nat : \A k \in 0..n : ~(k < n) => k = n
      OBVIOUS
    <3>2. QED BY <1>8, <1>9, <1>16, <3>1
  <2>3. Asked(c) \in pending' /\ Asked(c) \in 1..Len(approvals')
    BY <1>1, <1>6, AskForKeeps
  <2>4. wait' \in pending' /\ wait' \in 1..Len(approvals')
    BY <1>5, <2>1, <2>3
  <2>5. Asks'
    <3>1. /\ asked' \in 0..Len(answers) /\ under' \in 0..Len(approvals)
          /\ unused' \subseteq unused \cup Granted
      BY <1>2, <1>3, <1>7, <1>9, <2>1
    <3>2. wait' \in 0..Len(approvals')
      BY <1>7, <2>4
    <3>3. QED BY <1>1, <1>3, <1>6, <3>1, <3>2, AsksKept
  <2>6. AnswersGranted'
    BY <1>1, <1>3, <1>7, <2>1, AnswersGrantedKept
  <2>7. GrantsTracked'
    BY <1>1, <1>2, <1>3, <1>7, <2>1 DEF GrantsTracked
  <2>8. Placed'
    BY <1>1, <1>2, <1>3, <2>1, <2>4 DEF Placed, HasTarget, Ids
  <2>9. AnswersTaken'
    BY <1>3, <2>1, <2>2 DEF AnswersTaken
  <2>10. AskedCanBeAnswered'
    <3>1. SUFFICES ASSUME approvals'[wait'].state = "approved" PROVE wait' \in unused
      BY <1>3 DEF AskedCanBeAnswered
    <3>2. wait' \in Granted'
      BY <2>4, <3>1 DEF Granted
    <3>3. Granted \subseteq unused
      BY <1>1, <1>2, <2>2, GrantsFree
    <3>4. QED BY <1>7, <3>2, <3>3
  <2>11. TypeOK'
    BY <1>11, <2>5, TypePartsNext
  <2>12. QED
    BY <1>7, <1>12, <1>14, <2>1, <2>6, <2>7, <2>8, <2>9, <2>10, <2>11 DEF IInv
<1>17. QED BY <1>15, <1>16

LEMMA OverrideKeeps == ASSUME IInv, Override PROVE IInv'
<1>1. Flags /\ Views /\ Plans /\ Asks /\ Counts /\ Placed /\ OnePending
      /\ AnswersGranted /\ GrantsTracked /\ LoadsKept /\ GateHolds
  BY TypeParts DEF IInv
<1>2. at = "override" /\ under # 0 /\ pos <= Len(plan)
  BY <1>1 DEF Override, Placed
<1>3. /\ mode' = mode /\ runs' = runs /\ plan' = plan /\ pos' = pos
      /\ loaded' = loaded /\ page' = page /\ seen' = seen /\ under' = under
      /\ asked' = asked /\ wait' = wait
      /\ answers' = answers /\ paused' = paused /\ unused' = unused
  BY DEF Override
<1>4. PICK c \in Calls : c = Call
  BY <1>1, <1>2, CallInPlan
<1>5. \/ at' = "provider" /\ UNCHANGED store
      \/ at' = "fail" /\ AskFor(c)
  BY <1>4 DEF Override
<1>6. AskFor(c) \/ UNCHANGED store
  BY <1>5
<1>7. /\ \A i \in Ids : approvals'[i] = approvals[i]
      /\ OnePending' /\ Granted' = Granted
      /\ Len(approvals') \in Nat /\ Len(approvals) <= Len(approvals') /\ Len(approvals) \in Nat
  BY <1>1, <1>6, StoreKept
<1>8. Call' = c
  BY <1>3, <1>4 DEF Call
<1>9. Asks'
  <2>1. /\ asked' \in 0..Len(answers) /\ under' \in 0..Len(approvals)
        /\ wait' \in 0..Len(approvals') /\ unused' \subseteq unused \cup Granted
    BY <1>1, <1>3, <1>7 DEF Asks
  <2>2. QED BY <1>1, <1>3, <1>6, <2>1, AsksKept
<1>10. Flags' /\ Views' /\ Plans' /\ Counts' /\ Free'
  <2>1. Flags' /\ Free'
    BY <1>1, <1>3, <1>5 DEF Flags, Free
  <2>2. QED BY <1>1, <1>3, <2>1 DEF Views, Pages, Plans, Counts
<1>11. TypeOK'
  BY <1>9, <1>10, TypePartsNext
<1>12. Placed'
  BY <1>1, <1>2, <1>3, <1>5 DEF Placed, HasTarget
<1>13. LoadsKept'
  BY <1>1, <1>2, <1>3, <1>5 DEF LoadsKept
<1>14. AnswersGranted'
  BY <1>1, <1>3, <1>7, AnswersGrantedKept
<1>15. GateHolds'
  <2>1. Policy(c, 0) = "ask"
    BY <1>1, <1>2, <1>4 DEF GateHolds
  <2>2. /\ c.tool \notin Unchecked \cup Disabled
        /\ seen.sign = "blocking" => c.words = "ask"
    BY <2>1, AskedOnBlocking
  <2>3. c.tool \notin Disabled \cup {"tool_search", "tool_load"}
    BY <2>2 DEF Unchecked
  <2>4. RiskyPageNeedsConsent'
    <3>1. under' # 0 /\ approvals'[under'].state = "approved"
      BY <1>2, <1>3, <1>14 DEF AnswersGranted
    <3>2. QED BY <1>3, <1>8, <2>2, <3>1 DEF RiskyPageNeedsConsent
  <2>5. at' # "bridge" /\ at' # "override" /\ at' # "done"
    BY <1>5
  <2>6. QED BY <1>8, <2>3, <2>4, <2>5 DEF GateHolds, InputStaysLocal
<1>16. GrantsTracked'
  BY <1>1, <1>2, <1>3, <1>5, <1>7 DEF GrantsTracked
<1>17. AnswersTaken' /\ AskedCanBeAnswered'
  BY <1>5 DEF AnswersTaken, AskedCanBeAnswered
<1>18. QED
  BY <1>7, <1>11, <1>12, <1>13, <1>14, <1>15, <1>16, <1>17 DEF IInv

\* The provider: what it opens is a page, and input that it carries out is on
\* a local one.
LEMMA ProvideKeeps == ASSUME IInv, Provide PROVE IInv'
<1>1. Flags /\ Views /\ Plans /\ Asks /\ Counts /\ Placed /\ OnePending
      /\ AnswersGranted /\ GrantsTracked /\ LoadsKept /\ GateHolds
  BY TypeParts DEF IInv
<1>2. at = "provider" /\ pos <= Len(plan)
  BY <1>1 DEF Provide, Placed
<1>3. /\ mode' = mode /\ runs' = runs /\ plan' = plan /\ pos' = pos
      /\ loaded' = loaded /\ under' = under /\ asked' = asked /\ wait' = wait
      /\ answers' = answers /\ paused' = paused /\ unused' = unused
      /\ approvals' = approvals /\ pending' = pending
  BY DEF Provide, store
<1>4. pos \in DOMAIN plan
  BY <1>1, <1>2, CallInPlan
<1>5. PICK c \in Calls : c = Call
  BY <1>1, <1>2, CallInPlan
<1>6. c.tool = "browser_open" => c.target \in {"file", "public"}
  <2>1. HasTarget(c)
    BY <1>1, <1>4, <1>5 DEF Placed, Call
  <2>2. c.tool = "browser_open" => c.target \in {"file", "public", ""}
    BY ToolsOfCalls
  <2>3. QED BY <2>1, <2>2 DEF HasTarget
<1>7. PICK ok \in BOOLEAN :
        /\ at' = IF ok THEN "done" ELSE "fail"
        /\ CASE c.tool = "browser_open" ->
                  /\ \E s \in Signs :
                        page' = IF ok THEN [url |-> c.target, sign |-> s] ELSE page
                  /\ UNCHANGED seen
             [] c.tool = "browser_observe" ->
                  /\ seen' = IF ok THEN page ELSE seen
                  /\ page' \in {page, Elsewhere}
             [] c.tool = "browser_click" ->
                  /\ \E q \in Pages :
                        /\ q.url # "none"
                        /\ page' = IF ok THEN q ELSE page
                  /\ seen' = page'
             [] c.tool \in Input ->
                  InputAtPage(ok) /\ UNCHANGED <<page, seen>>
             [] OTHER -> UNCHANGED <<page, seen>>
  BY <1>5 DEF Provide
<1>8. page \in Pages /\ seen \in Pages /\ Elsewhere \in Pages
  BY <1>1, ToolGatewayAssumption DEF Views, Pages, Elsewhere
<1>9. \A s \in Signs : c.tool = "browser_open" => [url |-> c.target, sign |-> s] \in Pages
  BY <1>6 DEF Pages
<1>10. Views'
  <2>1. CASE c.tool = "browser_open"
    <3>1. seen' = seen
      BY <1>7, <2>1 DEF Input
    <3>2. PICK s \in Signs : page' = IF ok THEN [url |-> c.target, sign |-> s] ELSE page
      BY <1>7, <2>1 DEF Input
    <3>3. page' \in Pages
      BY <1>8, <1>9, <2>1, <3>2
    <3>4. QED BY <1>8, <3>1, <3>3 DEF Views, Pages
  <2>2. CASE c.tool = "browser_observe"
    <3>1. page' \in Pages /\ seen' \in Pages
      BY <1>7, <1>8, <2>2 DEF Input
    <3>2. QED BY <3>1 DEF Views, Pages
  <2>3. CASE c.tool = "browser_click"
    <3>1. seen' = page'
      BY <1>7, <2>3 DEF Input
    <3>2. PICK q \in Pages : page' = IF ok THEN q ELSE page
      BY <1>7, <2>3 DEF Input
    <3>3. page' \in Pages
      BY <1>8, <3>2
    <3>4. QED BY <3>1, <3>3 DEF Views, Pages
  <2>4. CASE c.tool \notin {"browser_open", "browser_observe", "browser_click"}
    <3>1. page' = page /\ seen' = seen
      BY <1>7, <2>4
    <3>2. QED BY <1>8, <3>1 DEF Views, Pages
  <2>5. QED BY <2>1, <2>2, <2>3, <2>4
<1>11. at' = "done" /\ c.tool \in Input => page'.url = "file"
  <2>1. SUFFICES ASSUME at' = "done", c.tool \in Input PROVE page'.url = "file"
    OBVIOUS
  <2>2. ok = TRUE
    BY <1>7, <2>1
  <2>3. InputAtPage(ok) /\ page' = page
    BY <1>7, <2>1 DEF Input
  <2>4. QED BY <2>2, <2>3 DEF InputAtPage
<1>12. at' \in {"done", "fail"}
  BY <1>7
<1>13. Call' = c
  BY <1>3, <1>5 DEF Call
<1>14. Flags' /\ Free'
  BY <1>1, <1>3, <1>12 DEF Flags, Free
<1>15. Plans' /\ Counts' /\ Asks'
  BY <1>1, <1>3 DEF Plans, Counts, Asks, Ids
<1>16. TypeOK'
  BY <1>10, <1>14, <1>15, TypePartsNext
<1>17. Placed'
  BY <1>1, <1>2, <1>3, <1>12 DEF Placed, HasTarget
<1>18. LoadsKept'
  <2>1. c.tool # "tool_load"
    BY <1>1, <1>2, <1>5 DEF GateHolds
  <2>2. QED BY <1>1, <1>2, <1>3, <1>13, <2>1 DEF LoadsKept
<1>19. GateHolds'
  BY <1>11, <1>12, <1>13 DEF GateHolds, RiskyPageNeedsConsent, InputStaysLocal
<1>20. AnswersGranted' /\ OnePending'
  BY <1>1, <1>3 DEF AnswersGranted, OnePending
<1>21. GrantsTracked'
  BY <1>1, <1>2, <1>3, <1>12 DEF GrantsTracked, Granted
<1>22. AnswersTaken' /\ AskedCanBeAnswered'
  BY <1>12 DEF AnswersTaken, AskedCanBeAnswered
<1>23. QED
  BY <1>16, <1>17, <1>18, <1>19, <1>20, <1>21, <1>22 DEF IInv

\* The approval a call was made under is used up with the call.
LEMMA SettleKeeps == ASSUME IInv, Settle PROVE IInv'
<1>1. Flags /\ Views /\ Plans /\ Asks /\ Counts /\ Placed /\ OnePending
      /\ AnswersGranted /\ GrantsTracked /\ LoadsKept
  BY TypeParts DEF IInv
<1>2. at \in {"done", "fail"} /\ pos <= Len(plan)
  BY <1>1 DEF Settle, Placed
<1>3. /\ mode' = mode /\ runs' = runs /\ plan' = plan
      /\ loaded' = loaded /\ page' = page /\ seen' = seen
      /\ asked' = asked /\ answers' = answers /\ wait' = wait
      /\ paused' = paused /\ approvals' = approvals
      /\ pending' = pending \ {under} /\ under' = 0
  BY DEF Settle
<1>4. \/ at = "done" /\ at' = "next" /\ pos' = pos + 1 /\ unused' = unused
      \/ /\ at' = "ended" /\ pos' = pos
         /\ unused' = unused \cup (Granted \ {under})
  BY DEF Settle
<1>5. Len(plan) \in Nat /\ pos \in Nat /\ MaxSteps \in Nat /\ Len(plan) <= MaxSteps
      /\ pos \in 1..MaxSteps + 1 /\ DOMAIN plan = 1..Len(plan)
  BY <1>1, BoundsAreNumbers, LenProperties DEF Plans, Counts
<1>6. Granted' = Granted \ {under}
  BY <1>3 DEF Granted
<1>7. Asks'
  <2>1. Granted \subseteq Ids
    BY <1>1 DEF Asks, Granted
  <2>2. unused' \subseteq Ids
    BY <1>1, <1>4, <2>1 DEF Asks
  <2>3. Ids' = Ids
    BY <1>3 DEF Ids
  <2>4. under' \in 0..Len(approvals)
    BY <1>1, <1>3, ApprovalsAreASeq
  <2>5. QED BY <1>1, <1>3, <2>2, <2>3, <2>4 DEF Asks
<1>8. Flags' /\ Views' /\ Plans' /\ Free'
  <2>1. Flags' /\ Free'
    BY <1>1, <1>3, <1>4 DEF Flags, Free
  <2>2. QED BY <1>1, <1>3, <2>1 DEF Views, Pages, Plans
<1>9. Counts'
  <2>1. pos' \in 1..MaxSteps + 1
    BY <1>2, <1>4, <1>5
  <2>2. QED BY <1>1, <1>3, <2>1 DEF Counts
<1>10. TypeOK'
  BY <1>7, <1>8, <1>9, TypePartsNext
<1>11. Placed'
  <2>1. pos' <= Len(plan) + 1
    BY <1>2, <1>4, <1>5
  <2>2. at' \in {"next", "ended"}
    BY <1>4
  <2>3. QED BY <1>1, <1>3, <2>1, <2>2 DEF Placed, HasTarget
<1>12. LoadsKept'
  <2>1. SUFFICES ASSUME at' = "next" PROVE LoadsKept'
    BY <1>4 DEF LoadsKept
  <2>2. at = "done" /\ pos' = pos + 1
    BY <1>4, <2>1
  <2>3. \A i \in DOMAIN plan : i < pos + 1 => i < pos \/ i = pos
    BY <1>5
  <2>4. \A i \in DOMAIN plan :
           plan[i].tool = "tool_load" /\ (i < Len(plan) \/ i < pos + 1)
             => plan[i].target \in loaded
    BY <1>1, <2>2, <2>3 DEF LoadsKept, Call
  <2>5. \A i \in DOMAIN plan : plan[i].tool \in Lazy => plan[i].tool \in loaded
    BY <1>1, <2>2 DEF LoadsKept
  <2>6. QED BY <1>3, <2>1, <2>2, <2>4, <2>5 DEF LoadsKept
<1>13. at' \in {"next", "ended"}
  BY <1>4
<1>14. GateHolds' /\ AnswersTaken' /\ AskedCanBeAnswered'
  BY <1>13 DEF GateHolds, RiskyPageNeedsConsent, InputStaysLocal, AnswersTaken,
               AskedCanBeAnswered
<1>15. OnePending'
  BY <1>1, <1>3 DEF OnePending
<1>16. AnswersGranted'
  BY <1>1, <1>3 DEF AnswersGranted
<1>17. GrantsTracked'
  BY <1>1, <1>2, <1>3, <1>4, <1>6 DEF GrantsTracked
<1>18. QED
  BY <1>10, <1>11, <1>12, <1>14, <1>15, <1>16, <1>17 DEF IInv

-----------------------------------------------------------------------------
(* A person.                                                               *)

\* A decision changes the state of one request, which was not decided before.
LEMMA DecideKeeps ==
    ASSUME Asks, NEW i \in Ids, Undecided(i), NEW d \in State,
           approvals' = [approvals EXCEPT ![i].state = d]
    PROVE  /\ approvals' \in Seq([call : Calls, state : State])
           /\ Len(approvals') = Len(approvals) /\ Ids' = Ids
           /\ approvals'[i].state = d
           /\ \A j \in Ids : approvals'[j].call = approvals[j].call
           /\ \A j \in Ids : j # i => approvals'[j] = approvals[j]
           /\ \A j \in Ids : approvals[j].state = "approved"
                               => j # i /\ approvals'[j].state = "approved"
<1> DEFINE new == [approvals[i] EXCEPT !.state = d]
<1>1. approvals \in Seq([call : Calls, state : State]) /\ i \in 1..Len(approvals)
  BY DEF Asks, Ids
<1>2. approvals[i] \in [call : Calls, state : State]
  BY <1>1, ElementOfSeq
<1>3. /\ new \in [call : Calls, state : State]
      /\ new.state = d /\ new.call = approvals[i].call
  BY <1>2
<1>4. approvals' = [approvals EXCEPT ![i] = new]
  OBVIOUS
<1> HIDE DEF new
<1>5. /\ approvals' \in Seq([call : Calls, state : State])
      /\ Len(approvals') = Len(approvals)
      /\ \A j \in 1..Len(approvals) : approvals'[j] = IF j = i THEN new ELSE approvals[j]
  BY <1>1, <1>3, <1>4, ExceptSeq
<1>6. Ids' = Ids
  BY <1>5 DEF Ids
<1>7. approvals[i].state = "pending"
  BY DEF Undecided
<1>8. QED BY <1>3, <1>5, <1>6, <1>7 DEF Ids

\* An approval resumes the graph that waits, from the plan's first call, with
\* one more answer; in a task that has ended it is one that no call took up.
LEMMA ApproveKeeps == ASSUME IInv, NEW i \in Ids, Approve(i) PROVE IInv'
<1>1. Flags /\ Views /\ Plans /\ Asks /\ Counts /\ Placed /\ OnePending
      /\ AnswersGranted /\ GrantsTracked /\ LoadsKept /\ AnswersTaken
  BY TypeParts DEF IInv
<1>2. /\ mode' = mode /\ runs' = runs /\ plan' = plan /\ under' = under
      /\ loaded' = loaded /\ page' = page /\ seen' = seen
      /\ pending' = pending /\ paused' = paused
      /\ Undecided(i) /\ approvals' = [approvals EXCEPT ![i].state = "approved"]
  BY DEF Approve
<1>3. /\ approvals' \in Seq([call : Calls, state : State])
      /\ Len(approvals') = Len(approvals) /\ Ids' = Ids
      /\ approvals'[i].state = "approved"
      /\ \A j \in Ids : approvals'[j].call = approvals[j].call
      /\ \A j \in Ids : j # i => approvals'[j] = approvals[j]
      /\ \A j \in Ids : approvals[j].state = "approved"
                          => j # i /\ approvals'[j].state = "approved"
  BY <1>1, <1>2, DecideKeeps DEF State
<1>4. Len(answers) \in Nat /\ DOMAIN answers = 1..Len(answers)
      /\ \A k \in DOMAIN answers : answers[k] \in Ids
      /\ Len(approvals) \in Nat
  BY <1>1, ApprovalsAreASeq
<1>5. Views' /\ Plans'
  BY <1>1, <1>2 DEF Views, Pages, Plans
<1>6. pending \subseteq Ids
  BY <1>1 DEF Asks
<1>7. OnePending'
  BY <1>1, <1>2, <1>3, <1>6 DEF OnePending
<1>8. Granted' \subseteq Granted \cup {i}
  BY <1>2, <1>3, <1>6 DEF Granted
<1>9. under # 0 => approvals'[under].state = "approved"
  <2>1. under # 0 => under \in Ids
    BY <1>1, <1>4 DEF Asks, Ids
  <2>2. QED BY <1>1, <1>3, <2>1 DEF AnswersGranted
<1>10. CASE at = "waiting"
  <2>1. /\ answers' = Append(answers, i) /\ unused' = unused
        /\ at' = "next" /\ pos' = 1 /\ asked' = 0 /\ wait' = 0
    BY <1>10 DEF Approve
  <2>2. under = 0 /\ asked = Len(answers)
    BY <1>1, <1>10 DEF Placed, AnswersTaken
  <2>3. answers \in Seq(Ids)
    BY <1>1 DEF Asks
  <2>4. /\ answers' \in Seq(Ids) /\ Len(answers') = Len(answers) + 1
        /\ \A k \in 1..Len(answers) : answers'[k] = answers[k]
        /\ answers'[Len(answers) + 1] = i
    BY <2>1, <2>3, AppendProperties
  <2>5. DOMAIN answers' = 1..Len(answers) + 1
    BY <2>4, LenProperties
  <2>6. Asks'
    <3>1. asked' \in 0..Len(answers') /\ wait' \in 0..Len(approvals) /\ under' \in 0..Len(approvals)
      BY <1>2, <1>4, <2>1, <2>2, <2>4
    <3>2. QED BY <1>1, <1>2, <1>3, <2>1, <2>4, <3>1 DEF Asks
  <2>7. Flags' /\ Counts' /\ Free'
    <3>1. 1 \in 1..MaxSteps + 1
      BY BoundsAreNumbers
    <3>2. Counts'
      BY <1>1, <1>2, <2>1, <3>1 DEF Counts
    <3>3. Flags' /\ Free'
      BY <1>1, <1>2, <2>1, <2>2 DEF Flags, Free
    <3>4. QED BY <3>2, <3>3
  <2>8. TypeOK'
    BY <1>5, <2>6, <2>7, TypePartsNext
  <2>9. Placed'
    <3>1. Len(plan) \in Nat
      BY <1>1, LenProperties DEF Plans
    <3>2. 1 <= Len(plan) + 1
      BY <3>1
    <3>3. QED BY <1>1, <1>2, <2>1, <2>2, <3>2 DEF Placed, HasTarget
  <2>10. LoadsKept'
    <3>1. DOMAIN plan = 1..Len(plan) /\ Len(plan) \in Nat
      BY <1>1, LenProperties DEF Plans
    <3>2. \A k \in DOMAIN plan : ~(k < 1)
      BY <3>1
    <3>3. QED BY <1>1, <1>2, <1>10, <2>1, <3>2 DEF LoadsKept
  <2>11. GateHolds' /\ AnswersTaken' /\ AskedCanBeAnswered'
    BY <2>1 DEF GateHolds, RiskyPageNeedsConsent, InputStaysLocal, AnswersTaken,
                AskedCanBeAnswered
  <2>12. \A k \in DOMAIN answers' :
            \/ k \in DOMAIN answers /\ answers'[k] = answers[k]
            \/ k = Len(answers) + 1 /\ answers'[k] = i
    BY <1>4, <2>4, <2>5
  <2>13. AnswersGranted'
    <3>1. \A k \in DOMAIN answers' : approvals'[answers'[k]].state = "approved"
      BY <1>1, <1>3, <1>4, <2>12 DEF AnswersGranted
    <3>2. QED BY <1>2, <2>2, <3>1 DEF AnswersGranted
  <2>14. GrantsTracked'
    <3>1. Granted \subseteq unused
      BY <1>1, <2>2, GrantsFree
    <3>2. Len(answers) + 1 \in DOMAIN answers' /\ Len(answers) + 1 > asked'
      BY <1>4, <2>1, <2>5
    <3>3. \A j \in Granted' : j \in unused \/ j = i
      BY <1>8, <3>1
    <3>4. QED BY <2>1, <2>4, <3>2, <3>3 DEF GrantsTracked
  <2>15. QED
    BY <1>7, <2>8, <2>9, <2>10, <2>11, <2>13, <2>14 DEF IInv
<1>11. CASE at = "ended"
  <2>1. /\ unused' = unused \cup {i} /\ answers' = answers /\ at' = at
        /\ pos' = pos /\ asked' = asked /\ wait' = wait
    BY <1>11 DEF Approve
  <2>2. Asks'
    BY <1>1, <1>2, <1>3, <2>1 DEF Asks
  <2>3. Flags' /\ Counts' /\ Free'
    BY <1>1, <1>2, <1>11, <2>1 DEF Flags, Counts, Free
  <2>4. TypeOK'
    BY <1>5, <2>2, <2>3, TypePartsNext
  <2>5. Placed'
    BY <1>1, <1>2, <1>3, <2>1 DEF Placed, HasTarget
  <2>6. LoadsKept' /\ GateHolds' /\ AnswersTaken' /\ AskedCanBeAnswered'
    BY <1>11, <2>1 DEF LoadsKept, GateHolds, RiskyPageNeedsConsent, InputStaysLocal,
                       AnswersTaken, AskedCanBeAnswered
  <2>7. AnswersGranted'
    BY <1>1, <1>2, <1>3, <2>1, AnswersGrantedKept
  <2>8. GrantsTracked'
    BY <1>1, <1>8, <1>11, <2>1 DEF GrantsTracked
  <2>9. QED
    BY <1>7, <2>4, <2>5, <2>6, <2>7, <2>8 DEF IInv
<1>12. QED BY <1>10, <1>11 DEF Approve

LEMMA RejectKeeps == ASSUME IInv, NEW i \in Ids, Reject(i) PROVE IInv'
<1>1. Flags /\ Views /\ Plans /\ Asks /\ Counts /\ Free /\ Placed /\ OnePending
      /\ AnswersGranted /\ GrantsTracked /\ LoadsKept /\ GateHolds
      /\ AnswersTaken /\ AskedCanBeAnswered
  BY TypeParts DEF IInv
<1>2. /\ mode' = mode /\ runs' = runs /\ plan' = plan /\ pos' = pos /\ at' = at
      /\ under' = under /\ loaded' = loaded /\ page' = page /\ seen' = seen
      /\ asked' = asked /\ answers' = answers /\ wait' = wait
      /\ paused' = paused /\ unused' = unused
      /\ pending' = pending \ {i}
      /\ Undecided(i) /\ approvals' = [approvals EXCEPT ![i].state = "rejected"]
  BY DEF Reject, runVars
<1>3. /\ approvals' \in Seq([call : Calls, state : State])
      /\ Len(approvals') = Len(approvals) /\ Ids' = Ids
      /\ approvals'[i].state = "rejected"
      /\ \A j \in Ids : approvals'[j].call = approvals[j].call
      /\ \A j \in Ids : j # i => approvals'[j] = approvals[j]
      /\ \A j \in Ids : approvals[j].state = "approved"
                          => j # i /\ approvals'[j].state = "approved"
  BY <1>1, <1>2, DecideKeeps DEF State
<1>4. pending \subseteq Ids
  BY <1>1 DEF Asks
<1>5. TypeOK'
  <2>1. Asks'
    BY <1>1, <1>2, <1>3 DEF Asks
  <2>2. Flags' /\ Views' /\ Plans' /\ Counts' /\ Free'
    BY <1>1, <1>2 DEF Flags, Views, Pages, Plans, Counts, Free
  <2>3. QED BY <2>1, <2>2, TypePartsNext
<1>6. Placed'
  BY <1>1, <1>2, <1>3 DEF Placed, HasTarget
<1>7. LoadsKept' /\ AnswersTaken'
  BY <1>1, <1>2 DEF LoadsKept, AnswersTaken, Call
<1>8. Call' = Call
  BY <1>2 DEF Call
<1>9. AnswersGranted'
  BY <1>1, <1>2, <1>3, AnswersGrantedKept
<1>10. GateHolds'
  <2>1. Policy(Call, 0)' = Policy(Call, 0)
    BY <1>2, <1>8 DEF Policy, Risk, PageRisk
  <2>2. RiskyPageNeedsConsent'
    BY <1>1, <1>2, <1>8, <1>9 DEF RiskyPageNeedsConsent, GateHolds, AnswersGranted
  <2>3. InputStaysLocal'
    BY <1>1, <1>2, <1>8 DEF InputStaysLocal, GateHolds
  <2>4. QED BY <1>1, <1>2, <1>8, <2>1, <2>2, <2>3 DEF GateHolds
<1>11. GrantsTracked'
  <2>1. Granted' \subseteq Granted
    BY <1>2, <1>3, <1>4 DEF Granted
  <2>2. QED BY <1>1, <1>2, <2>1 DEF GrantsTracked
<1>12. OnePending'
  BY <1>1, <1>2, <1>3, <1>4 DEF OnePending
<1>13. AskedCanBeAnswered'
  <2>1. SUFFICES ASSUME at = "waiting", approvals'[wait].state = "approved"
                 PROVE  wait \in unused
    BY <1>2 DEF AskedCanBeAnswered
  <2>2. wait \in Ids /\ wait # i
    BY <1>1, <1>3, <2>1 DEF Placed
  <2>3. QED BY <1>1, <1>3, <2>1, <2>2 DEF AskedCanBeAnswered
<1>14. QED
  BY <1>5, <1>6, <1>7, <1>9, <1>10, <1>11, <1>12, <1>13 DEF IInv

\* A pause is noted and nothing else, and a step that changes nothing.
LEMMA RestKept ==
    ASSUME IInv, UNCHANGED <<runVars, store, unused>>, paused' \in BOOLEAN
    PROVE  IInv'
<1>1. Flags /\ Views /\ Plans /\ Asks /\ Counts /\ Free
  BY TypeParts DEF IInv
<1>2. /\ mode' = mode /\ runs' = runs /\ plan' = plan /\ pos' = pos /\ at' = at
      /\ under' = under /\ loaded' = loaded /\ page' = page /\ seen' = seen
      /\ asked' = asked /\ answers' = answers /\ wait' = wait
      /\ approvals' = approvals /\ pending' = pending /\ unused' = unused
  BY DEF runVars, store
<1>3. TypeOK'
  <2>1. Flags'
    BY <1>1, <1>2 DEF Flags
  <2>2. Asks' /\ Views' /\ Plans' /\ Counts' /\ Free'
    BY <1>1, <1>2 DEF Asks, Ids, Views, Pages, Plans, Counts, Free
  <2>3. QED BY <2>1, <2>2, TypePartsNext
<1>4. Call' = Call
  BY <1>2 DEF Call
<1>5. GateHolds'
  <2>1. Policy(Call, 0)' = Policy(Call, 0)
    BY <1>2, <1>4 DEF Policy, Risk, PageRisk
  <2>2. RiskyPageNeedsConsent' /\ InputStaysLocal'
    BY <1>2, <1>4 DEF RiskyPageNeedsConsent, InputStaysLocal, GateHolds, IInv
  <2>3. QED BY <1>2, <1>4, <2>1, <2>2 DEF GateHolds, IInv
<1>6. Placed' /\ LoadsKept'
  BY <1>2, <1>4 DEF IInv, Placed, HasTarget, Ids, LoadsKept
<1>7. AnswersGranted' /\ GrantsTracked' /\ AnswersTaken' /\ OnePending' /\ AskedCanBeAnswered'
  BY <1>2 DEF IInv, AnswersGranted, GrantsTracked, Granted, AnswersTaken,
              OnePending, AskedCanBeAnswered
<1>8. QED BY <1>3, <1>5, <1>6, <1>7 DEF IInv

LEMMA PauseKeeps == ASSUME IInv, Pause PROVE IInv'
BY RestKept DEF Pause

\* A new run begins with nothing but the approvals: those that were granted
\* to the run before it are unused, and it has no answers to give.
LEMMA ResumeKeeps == ASSUME IInv, Resume PROVE IInv'
<1>1. Flags /\ Views /\ Plans /\ Asks /\ Counts /\ Placed /\ OnePending
      /\ GrantsTracked /\ AnswersTaken
  BY TypeParts DEF IInv
<1>2. /\ mode' = mode /\ runs' = runs + 1 /\ paused' = FALSE
      /\ plan' = <<>> /\ pos' = 1 /\ at' = "next" /\ under' = 0 /\ loaded' = {}
      /\ page' = Nowhere /\ seen' = Nowhere
      /\ asked' = 0 /\ answers' = <<>> /\ wait' = 0
      /\ approvals' = approvals /\ pending' = pending /\ unused' = unused
  BY DEF Resume, store
<1>3. at \in {"waiting", "ended"} /\ runs < MaxRuns
  BY DEF Resume
<1>4. Len(approvals) \in Nat
  BY <1>1, ApprovalsAreASeq
<1>5. TypeOK'
  <2>1. Flags'
    BY <1>1, <1>2 DEF Flags
  <2>2. Views'
    BY <1>2, ToolGatewayAssumption DEF Views, Pages, Nowhere
  <2>3. Plans'
    <3>1. 0 <= MaxSteps
      BY BoundsAreNumbers
    <3>2. QED BY <1>2, <3>1 DEF Plans
  <2>4. Asks'
    <3>1. 0 \in 0..Len(answers') /\ 0 \in 0..Len(approvals) /\ answers' \in Seq(Ids)
      BY <1>2, <1>4
    <3>2. QED BY <1>1, <1>2, <3>1 DEF Asks, Ids
  <2>5. Counts' /\ Free'
    BY <1>1, <1>2, <1>3, BoundsAreNumbers DEF Counts, Free
  <2>6. QED BY <2>1, <2>2, <2>3, <2>4, <2>5, TypePartsNext
<1>6. Placed'
  BY <1>2 DEF Placed
<1>7. LoadsKept' /\ GateHolds' /\ AnswersTaken' /\ AskedCanBeAnswered'
  BY <1>2 DEF LoadsKept, GateHolds, RiskyPageNeedsConsent, InputStaysLocal,
              AnswersTaken, AskedCanBeAnswered
<1>8. AnswersGranted' /\ OnePending'
  BY <1>1, <1>2 DEF AnswersGranted, OnePending
<1>9. GrantsTracked'
  <2>1. Granted \subseteq unused
    <3>1. CASE at = "waiting"
      BY <1>1, <3>1, GrantsFree DEF Placed, AnswersTaken
    <3>2. CASE at = "ended"
      BY <1>1, <3>2 DEF GrantsTracked
    <3>3. QED BY <1>3, <3>1, <3>2
  <2>2. QED BY <1>2, <2>1 DEF GrantsTracked, Granted
<1>10. QED BY <1>5, <1>6, <1>7, <1>8, <1>9 DEF IInv

-----------------------------------------------------------------------------
(* The invariant holds in every state, and what it says for a reader.      *)

LEMMA InitIInv == ASSUME Init PROVE IInv
<1>1. /\ mode \in {"guided", "open", "auto_explore"}
      /\ runs = 1 /\ plan = <<>> /\ pos = 1 /\ at = "next" /\ under = 0
      /\ loaded = {} /\ page = Nowhere /\ seen = Nowhere
      /\ asked = 0 /\ answers = <<>> /\ wait = 0
      /\ approvals = <<>> /\ pending = {}
      /\ paused = FALSE /\ unused = {}
  BY DEF Init
<1>2. Flags
  BY <1>1 DEF Flags
<1>3. Views
  BY <1>1, ToolGatewayAssumption DEF Views, Pages, Nowhere
<1>4. Plans /\ Asks /\ Counts /\ Free
  BY <1>1, BoundsAreNumbers DEF Plans, Asks, Counts, Free, Ids
<1>5. TypeOK
  BY <1>2, <1>3, <1>4, TypeParts
<1>6. Placed /\ LoadsKept /\ GateHolds /\ AnswersTaken /\ AskedCanBeAnswered
  BY <1>1 DEF Placed, LoadsKept, GateHolds, RiskyPageNeedsConsent, InputStaysLocal,
              AnswersTaken, AskedCanBeAnswered
<1>7. AnswersGranted /\ GrantsTracked /\ OnePending
  BY <1>1 DEF AnswersGranted, GrantsTracked, Granted, OnePending
<1>8. QED BY <1>5, <1>6, <1>7 DEF IInv

LEMMA StepIInv == IInv /\ [Next]_vars => IInv'
<1> SUFFICES ASSUME IInv, [Next]_vars PROVE IInv'
  OBVIOUS
<1>1. CASE NextCall    BY <1>1, NextCallKeeps
<1>2. CASE ReplayCall  BY <1>2, ReplayCallKeeps
<1>3. CASE PlanEnds    BY <1>3, PlanEndsKeeps
<1>4. CASE HeedPause   BY <1>4, HeedPauseKeeps
<1>5. CASE Bridge      BY <1>5, BridgeKeeps
<1>6. CASE Override    BY <1>6, OverrideKeeps
<1>7. CASE Provide     BY <1>7, ProvideKeeps
<1>8. CASE Settle      BY <1>8, SettleKeeps
<1>9. CASE \E i \in Ids : Approve(i) \/ Reject(i)
  BY <1>9, ApproveKeeps, RejectKeeps
<1>10. CASE Pause      BY <1>10, PauseKeeps
<1>11. CASE Resume     BY <1>11, ResumeKeeps
<1>12. CASE UNCHANGED vars
  <2>1. UNCHANGED <<runVars, store, unused>> /\ paused' = paused
    BY <1>12 DEF vars
  <2>2. paused \in BOOLEAN
    BY TypeParts DEF IInv, Flags
  <2>3. QED BY <2>1, <2>2, RestKept
<1>13. QED
  BY <1>1, <1>2, <1>3, <1>4, <1>5, <1>6, <1>7, <1>8, <1>9, <1>10, <1>11, <1>12
     DEF Next, Run, Person

LEMMA Invariance == Spec => []IInv
<1>1. Init => IInv
  BY InitIInv
<1>2. QED BY <1>1, StepIInv, PTL DEF Spec

\* Every variable has its type in every state: a run stays in its budget of
\* steps, and what a graph waits for or is under is an approval of the task.
THEOREM TypeCorrect == Spec => []TypeOK
<1>1. IInv => TypeOK
  BY DEF IInv
<1>2. QED BY <1>1, Invariance, PTL

\* Whatever plan the validator or the provider lets through, whatever a page
\* shows and whoever approves: a lazy tool that runs was loaded in this run, a
\* disabled one never runs, a call on a page whose last observation shows a
\* risk is under an approval, and input went into a local page.
THEOREM OnlyAdmitted == Spec => []OnlyAdmittedRuns
<1>1. IInv => OnlyAdmittedRuns
  <2> SUFFICES ASSUME IInv PROVE OnlyAdmittedRuns
    OBVIOUS
  <2>1. RiskyPageNeedsConsent /\ InputStaysLocal
    BY DEF IInv, GateHolds
  <2>2. ClosedStaysClosed
    BY DEF IInv, GateHolds, ClosedStaysClosed
  <2>3. LazyOnlyLoaded
    <3>1. SUFFICES ASSUME at = "provider", Call.tool \in Lazy PROVE Call.tool \in loaded
      BY DEF LazyOnlyLoaded
    <3>2. Plans /\ Counts /\ pos <= Len(plan) /\ LoadsKept
      BY <3>1, TypeParts DEF IInv, Placed
    <3>3. pos \in DOMAIN plan
      BY <3>2, CallInPlan
    <3>4. QED BY <3>1, <3>2, <3>3 DEF LoadsKept, Call
  <2>4. QED BY <2>1, <2>2, <2>3 DEF OnlyAdmittedRuns
<1>2. QED BY <1>1, Invariance, PTL

\* A call has one pending approval at a time, and a graph waits for one that
\* can still be decided, unless its grant came when no run could take it up.
THEOREM Answerable == Spec => []ApprovalsAnswerable
<1>1. IInv => ApprovalsAnswerable
  BY DEF IInv, ApprovalsAnswerable
<1>2. QED BY <1>1, Invariance, PTL

=============================================================================
