------------------------ MODULE BrowserRuntime_proofs ------------------------
(***************************************************************************)
(* Theorems about BrowserRuntime for every set of URLs and every limit on  *)
(* pages, scrolls and recovery attempts.                                   *)
(***************************************************************************)
EXTENDS BrowserRuntime, TLAPS

-----------------------------------------------------------------------------
(* The inductive invariant.                                                *)

\* What is left of a recovery plan: a retry comes last.
Plans ==
    {<<>>, <<"abort_blocked">>, <<"abort_failed">>, <<"wait">>, <<"retry">>}
      \cup (IF MaxAttempts = 1 THEN {} ELSE {<<"wait", "retry">>})

RetryAhead == plan = <<"retry">> \/ plan = <<"wait", "retry">>

OutOfClick == {"idle", "opening", "filling"}
BeforeRecovery == {"act", "click", "settle", "verify", "recover"}

\* How often the call has clicked, and what is left of it, at each place.
InCall ==
    /\ plan \in Plans
    /\ at \in OutOfClick \cup BeforeRecovery => plan = <<>> /\ risky = "none"
    /\ at \in OutOfClick \cup {"act", "click"} => clicks = 0
    /\ at \in {"settle", "verify", "recover"} => clicks <= 1
    /\ at \in {"act", "click", "settle"} => rounds = 0
    /\ at = "verify" => rounds < MaxRounds
    /\ at = "recovering" => clicks <= 2 /\ (RetryAhead => clicks <= 1)
    /\ at = "reclick" => plan = <<"retry">> /\ clicks <= 1
    /\ at = "reverify" => plan = <<"retry">> /\ clicks <= 2
    /\ at = "finish" => plan = <<>> /\ clicks <= 2

\* A risk seen first leaves nothing to do but to end as blocked.
RiskEnds ==
    risky = "first" =>
        \/ at = "recovering" /\ plan = <<"abort_blocked">>
        \/ at = "finish" /\ result = "blocked"

\* While a click is under way, a page that shows the effect is on record.
ShownKept ==
    at \notin OutOfClick /\ Satisfied(effect, before, page) => shown

IInv == TypeOK /\ InCall /\ RiskEnds /\ ShownKept /\ SuccessIsSeen

-----------------------------------------------------------------------------
(* Facts the steps share.                                                  *)

\* The plans are short sequences of strategies, and how each begins.
LEMMA PlanFacts ==
    /\ \A p \in Plans : p \in Seq(Strategies) /\ Len(p) <= MaxAttempts
    /\ \A p \in Plans : p # <<>> /\ Head(p) = "wait" =>
          /\ Tail(p) \in Plans
          /\ Tail(p) = <<>> \/ (Tail(p) = <<"retry">> /\ p = <<"wait", "retry">>)
    /\ \A p \in Plans : p # <<>> /\ Head(p) = "retry" => p = <<"retry">>
    /\ \A p \in Plans : p # <<>> /\ Head(p) = "abort_blocked" => p = <<"abort_blocked">>
    /\ Tail(<<"retry">>) = <<>>
    /\ <<"abort_blocked">> # <<>> /\ Head(<<"abort_blocked">>) = "abort_blocked"
    /\ <<>> \in Plans
<1>0. MaxAttempts \in Nat \ {0}
  BY BrowserRuntimeAssumption
<1>1. ASSUME NEW p \in Plans PROVE p \in Seq(Strategies) /\ Len(p) <= MaxAttempts
  <2>1. CASE p = <<>>
    BY <1>0, <2>1
  <2>2. CASE p \in {<<"abort_blocked">>, <<"abort_failed">>, <<"wait">>, <<"retry">>}
    <3>1. ASSUME NEW s \in Strategies PROVE <<s>> \in Seq(Strategies) /\ Len(<<s>>) = 1
      OBVIOUS
    <3>2. \E s \in Strategies : p = <<s>>
      BY <2>2 DEF Strategies
    <3>3. QED BY <1>0, <3>1, <3>2
  <2>3. CASE MaxAttempts # 1 /\ p = <<"wait", "retry">>
    <3>1. "wait" \in Strategies /\ "retry" \in Strategies
      BY DEF Strategies
    <3>2. <<"wait", "retry">> \in Seq(Strategies) /\ Len(<<"wait", "retry">>) = 2
      BY <3>1
    <3>3. QED BY <1>0, <2>3, <3>2
  <2>4. QED BY <2>1, <2>2, <2>3 DEF Plans
<1>2. /\ Head(<<"wait">>) = "wait" /\ Tail(<<"wait">>) = <<>>
      /\ Head(<<"retry">>) = "retry" /\ Tail(<<"retry">>) = <<>>
      /\ Head(<<"wait", "retry">>) = "wait" /\ Tail(<<"wait", "retry">>) = <<"retry">>
      /\ Head(<<"abort_blocked">>) = "abort_blocked"
      /\ Head(<<"abort_failed">>) = "abort_failed"
      /\ <<"abort_blocked">> # <<>>
  OBVIOUS
<1>3. <<>> \in Plans /\ <<"retry">> \in Plans
  BY DEF Plans
<1>4. \A p \in Plans : p # <<>> /\ Head(p) = "wait" =>
          /\ Tail(p) \in Plans
          /\ Tail(p) = <<>> \/ (Tail(p) = <<"retry">> /\ p = <<"wait", "retry">>)
  BY <1>2, <1>3 DEF Plans
<1>5. \A p \in Plans : p # <<>> /\ Head(p) = "retry" => p = <<"retry">>
  BY <1>2 DEF Plans
<1>6. \A p \in Plans : p # <<>> /\ Head(p) = "abort_blocked" => p = <<"abort_blocked">>
  BY <1>2 DEF Plans
<1>7. QED BY <1>1, <1>2, <1>3, <1>4, <1>5, <1>6

\* What build_plan answers is a plan; for a risk it is to end as blocked.
LEMMA BuildPlanFacts ==
    ASSUME NEW error
    PROVE  BuildPlan(error) \in Plans /\ BuildPlan("risk") = <<"abort_blocked">>
BY DEF BuildPlan, Plans

-----------------------------------------------------------------------------
(* Types.                                                                  *)

FlagsTyped == satisfied \in BOOLEAN /\ shown \in BOOLEAN

DataTyped ==
    /\ page \in Page \cup {NoPage}
    /\ effect \in Effects
    /\ before \in Page \cup {NoPage}
    /\ action \in [status : {"none", "success", "failed"}, error : Errors]
    /\ opened \in 0..MaxPages /\ scrolls \in 0..MaxScrolls

PlaceTyped ==
    /\ at \in {"idle", "opening", "filling", "act", "click", "settle", "verify",
               "recover", "recovering", "reclick", "reverify", "finish"}
    /\ rounds \in 0..MaxRounds
    /\ last \in {"none", "older", "latest"}
    /\ result \in {"none", "success", "failed", "blocked", "raised"}
    /\ clicks \in Nat
    /\ risky \in {"none", "first", "later"}

LEMMA TypeParts ==
    plan \in Plans => (TypeOK <=> FlagsTyped /\ DataTyped /\ PlaceTyped)
BY PlanFacts DEF TypeOK, FlagsTyped, DataTyped, PlaceTyped

LEMMA TypePartsNext ==
    plan' \in Plans => (TypeOK' <=> FlagsTyped' /\ DataTyped' /\ PlaceTyped')
<1>1. (plan \in Plans)' => (TypeOK' <=> FlagsTyped' /\ DataTyped' /\ PlaceTyped')
  BY TypeParts, PTL
<1>2. QED BY <1>1

LEMMA FlagsStep == FlagsTyped /\ [Next]_vars => FlagsTyped'
<1> SUFFICES ASSUME FlagsTyped, [Next]_vars PROVE FlagsTyped'
  OBVIOUS
<1> USE DEF FlagsTyped, Quiet, Unchanged, callVars, history
<1>1. CASE PageMoves
  <2>1. shown' \in BOOLEAN
    BY <1>1, Zenon DEF PageMoves
  <2>2. QED BY <1>1, <2>1 DEF PageMoves
<1>2. CASE Simple
  BY <1>2 DEF Simple, NotOpened, Observe, Extract, Screenshot, TypeOrSelect, Scroll,
              Wait, FinishTask, OpenCheck
<1>3. CASE OpenGoto \/ Fill \/ Ready \/ Click \/ Settle \/ Recover
  BY <1>3 DEF OpenGoto, Fill, Ready, Click, Settle, Recover
<1>4. CASE Raise \/ Finish
  BY <1>4 DEF Raise, Finish, Leave
<1>5. CASE Verify
  <2>1. satisfied' \in BOOLEAN
    BY <1>5, Zenon DEF Verify, Satisfied
  <2>2. QED BY <1>5, <2>1 DEF Verify
<1>6. CASE Abort \/ Reobserve \/ Retry \/ Reclick \/ Reverify \/ GiveUp
  BY <1>6 DEF Abort, Reobserve, Retry, Reclick, Reverify, GiveUp
<1>7. ASSUME NEW e \in Effects, BeginClick(e) PROVE FlagsTyped'
  <2>1. shown' \in BOOLEAN
    BY <1>7, Zenon DEF BeginClick, Satisfied
  <2>2. QED BY <1>7, <2>1 DEF BeginClick
<1>8. CASE UNCHANGED vars
  BY <1>8 DEF vars
<1>9. QED
  BY <1>1, <1>2, <1>3, <1>4, <1>5, <1>6, <1>7, <1>8 DEF Next, Continue

LEMMA DataStep == DataTyped /\ [Next]_vars => DataTyped'
<1> SUFFICES ASSUME DataTyped, [Next]_vars PROVE DataTyped'
  OBVIOUS
<1> USE BrowserRuntimeAssumption
    DEF DataTyped, Quiet, Unchanged, callVars, history, counts, Keep
<1>1. CASE PageMoves
  BY <1>1 DEF PageMoves
<1>2. ASSUME NEW url \in Urls, OpenCheck(url) PROVE DataTyped'
  BY <1>2 DEF OpenCheck
<1>3. CASE Scroll
  BY <1>3 DEF Scroll
<1>4. CASE NotOpened \/ Observe \/ Extract \/ Screenshot \/ TypeOrSelect
           \/ Wait \/ FinishTask
  BY <1>4 DEF NotOpened, Observe, Extract, Screenshot, TypeOrSelect, Wait, FinishTask
<1>5. CASE OpenGoto \/ Fill
  BY <1>5 DEF OpenGoto, Fill
<1>6. CASE Ready \/ Retry
  BY <1>6 DEF Ready, Retry, Errors
<1>7. CASE Click \/ Reclick
  BY <1>7 DEF Click, Reclick, Attempt, Errors
<1>8. CASE Raise \/ Finish
  BY <1>8 DEF Raise, Finish, Leave, NoAction, Errors, Effects
<1>9. CASE Settle \/ Verify \/ Recover
  BY <1>9 DEF Settle, Verify, Recover
<1>10. CASE Abort \/ Reobserve \/ Reverify \/ GiveUp
  BY <1>10 DEF Abort, Reobserve, Reverify, GiveUp
<1>11. ASSUME NEW e \in Effects, BeginClick(e) PROVE DataTyped'
  BY <1>11 DEF BeginClick, NoAction, Errors
<1>12. CASE UNCHANGED vars
  BY <1>12 DEF vars
<1>13. QED
  BY <1>1, <1>2, <1>3, <1>4, <1>5, <1>6, <1>7, <1>8, <1>9, <1>10, <1>11, <1>12
     DEF Next, Simple, Continue

-----------------------------------------------------------------------------
(* The places of a call.                                                   *)

\* Every step keeps the account of the clicks and of the plan, and the types
\* that hang on it.
LEMMA PlaceStep ==
    PlaceTyped /\ InCall /\ RiskEnds /\ [Next]_vars
      => PlaceTyped' /\ InCall' /\ RiskEnds'
<1> SUFFICES ASSUME PlaceTyped, InCall, RiskEnds, [Next]_vars
             PROVE  PlaceTyped' /\ InCall' /\ RiskEnds'
  OBVIOUS
<1> USE DEF PlaceTyped, InCall, RiskEnds, RetryAhead, OutOfClick, BeforeRecovery,
            Quiet, Unchanged, callVars, history, counts, Keep, Done
<1>1. CASE PageMoves
  BY <1>1 DEF PageMoves
<1>2. ASSUME NEW url \in Urls, OpenCheck(url)
      PROVE  PlaceTyped' /\ InCall' /\ RiskEnds'
  BY <1>2 DEF OpenCheck
<1>3. CASE NotOpened \/ Observe \/ Extract \/ Screenshot \/ TypeOrSelect
           \/ Scroll \/ Wait \/ FinishTask
  BY <1>3 DEF NotOpened, Observe, Extract, Screenshot, TypeOrSelect, Scroll, Wait,
              FinishTask
<1>4. CASE OpenGoto \/ Fill
  BY <1>4 DEF OpenGoto, Fill, Older
<1>5. ASSUME NEW e \in Effects, BeginClick(e)
      PROVE  PlaceTyped' /\ InCall' /\ RiskEnds'
  BY <1>5, PlanFacts DEF BeginClick, MaxRounds
<1>6. CASE Ready \/ Settle
  BY <1>6 DEF Ready, Settle, MaxRounds
<1>7. CASE Click
  BY <1>7 DEF Click, Attempt, Older
<1>8. CASE Raise \/ Finish
  BY <1>8, PlanFacts DEF Raise, Finish, Leave, MaxRounds
<1>9. CASE Verify
  BY <1>9 DEF Verify, MaxRounds
<1>10. CASE Recover
  <2>1. PICK risk \in BOOLEAN, hintSeen \in BOOLEAN :
          /\ risky' = IF risk THEN "first" ELSE "none"
          /\ plan' = BuildPlan(Classify(risk, hintSeen))
    BY <1>10 DEF Recover
  <2>2. plan' \in Plans
    BY <2>1, BuildPlanFacts
  <2>3. risky' = "first" => plan' = <<"abort_blocked">>
    BY <2>1, BuildPlanFacts DEF Classify
  <2>4. risky' \in {"none", "first"}
    BY <2>1
  <2>5. QED BY <1>10, <2>2, <2>3, <2>4 DEF Recover
<1>11. CASE Abort
  <2>1. risky = "first" => result' = "blocked"
    BY <1>11, PlanFacts DEF Abort, EndRecovery
  <2>2. result' \in {"blocked", "failed"} /\ at' = "finish" /\ plan' = <<>>
    BY <1>11 DEF Abort, EndRecovery
  <2>3. QED BY <1>11, <2>1, <2>2, PlanFacts DEF Abort
<1>12. CASE Reobserve
  <2>1. plan # <<>> /\ Head(plan) = "wait" /\ at = "recovering"
    BY <1>12 DEF Reobserve
  <2>2. /\ Tail(plan) \in Plans
        /\ Tail(plan) = <<>> \/ (Tail(plan) = <<"retry">> /\ plan = <<"wait", "retry">>)
        /\ risky # "first"
    BY <2>1, PlanFacts
  <2>3. risky' \in {"none", "later"}
    BY <1>12, <2>2 DEF Reobserve
  <2>4. \/ at' = "finish" /\ result' = "success" /\ plan' = <<>>
        \/ at' = "recovering" /\ result' = result /\ plan' = Tail(plan)
    BY <1>12 DEF Reobserve, EndRecovery
  <2>5. <<>> # <<"retry">> /\ <<>> # <<"wait", "retry">>
        /\ <<"retry">> # <<"wait", "retry">>
    OBVIOUS
  <2>6. last' = "latest" /\ clicks' = clicks /\ rounds' = rounds
    BY <1>12 DEF Reobserve
  <2>7. QED BY <2>1, <2>2, <2>3, <2>4, <2>5, <2>6, PlanFacts
<1>13. CASE Retry
  <2>1. plan = <<"retry">> /\ risky # "first"
    BY <1>13, PlanFacts DEF Retry
  <2>2. QED BY <1>13, <2>1 DEF Retry
<1>14. CASE Reclick
  BY <1>14 DEF Reclick, Attempt, Older
<1>15. CASE Reverify
  <2>1. plan' = <<>> /\ at' \in {"recovering", "finish"} /\ clicks' = clicks
        /\ rounds' = rounds /\ last' = "latest" /\ risky' = risky
        /\ result' \in {result, "success"}
    BY <1>15, PlanFacts DEF Reverify, EndRecovery
  <2>2. <<>> # <<"retry">> /\ <<>> # <<"wait", "retry">>
    OBVIOUS
  <2>3. QED BY <1>15, <2>1, <2>2, PlanFacts DEF Reverify
<1>16. CASE GiveUp
  <2>1. plan # <<"abort_blocked">>
    BY <1>16, PlanFacts DEF GiveUp
  <2>2. QED BY <1>16, <2>1 DEF GiveUp
<1>17. CASE UNCHANGED vars
  BY <1>17 DEF vars
<1>18. QED
  BY <1>1, <1>2, <1>3, <1>4, <1>5, <1>6, <1>7, <1>8, <1>9, <1>10, <1>11, <1>12,
     <1>13, <1>14, <1>15, <1>16, <1>17 DEF Next, Simple, Continue

-----------------------------------------------------------------------------
(* What the page has shown.                                                *)

\* A step that leaves the page and the locals of the call alone keeps it.
LEMMA ShownSame ==
    ASSUME ShownKept, page' = page, effect' = effect, before' = before,
           shown' = shown, at' \notin OutOfClick => at \notin OutOfClick
    PROVE  ShownKept'
BY DEF ShownKept, Satisfied, Changed, InBody

LEMMA ShownStep == ShownKept /\ FlagsTyped /\ [Next]_vars => ShownKept'
<1> SUFFICES ASSUME ShownKept, FlagsTyped, [Next]_vars PROVE ShownKept'
  OBVIOUS
<1> USE DEF OutOfClick, Quiet, Unchanged, callVars, history, counts, Keep, Done
<1>1. CASE PageMoves
  <2>1. Satisfied(effect, before, page)' = Satisfied(effect, before, page')
    BY <1>1 DEF PageMoves, Satisfied, Changed, InBody
  <2>2. QED BY <1>1, <2>1, Zenon DEF PageMoves, ShownKept
<1>2. CASE Simple
  <2>1. at' \in OutOfClick
    BY <1>2 DEF Simple, NotOpened, Observe, Extract, Screenshot, TypeOrSelect, Scroll,
                Wait, FinishTask, OpenCheck
  <2>2. QED BY <2>1 DEF ShownKept
<1>3. CASE OpenGoto \/ Fill \/ Raise \/ Finish
  <2>1. at' \in OutOfClick
    BY <1>3 DEF OpenGoto, Fill, Raise, Finish
  <2>2. QED BY <2>1 DEF ShownKept
<1>4. CASE Ready \/ Click \/ Settle \/ Recover
  <2>1. /\ page' = page /\ effect' = effect /\ before' = before /\ shown' = shown
        /\ at \in {"act", "click", "settle", "recover"}
    BY <1>4 DEF Ready, Click, Settle, Recover
  <2>2. QED BY <2>1, ShownSame
<1>5. CASE Verify \/ Abort \/ Reobserve \/ Retry
  <2>1. /\ page' = page /\ effect' = effect /\ before' = before /\ shown' = shown
        /\ at \in {"verify", "recovering"}
    BY <1>5 DEF Verify, Abort, Reobserve, Retry
  <2>2. QED BY <2>1, ShownSame
<1>6. CASE Reclick \/ Reverify \/ GiveUp
  <2>1. /\ page' = page /\ effect' = effect /\ before' = before /\ shown' = shown
        /\ at \in {"recovering", "reclick", "reverify"}
    BY <1>6 DEF Reclick, Reverify, GiveUp
  <2>2. QED BY <2>1, ShownSame
<1>7. ASSUME NEW e \in Effects, BeginClick(e) PROVE ShownKept'
  <2>1. /\ effect' = e /\ before' = page /\ page' = page
        /\ shown' = Satisfied(e, page, page)
    BY <1>7 DEF BeginClick
  <2>2. Satisfied(effect, before, page)' => Satisfied(e, page, page)
    BY <2>1 DEF Satisfied, Changed, InBody
  <2>3. QED BY <2>1, <2>2, Zenon DEF ShownKept
<1>8. CASE UNCHANGED vars
  BY <1>8, ShownSame DEF vars
<1>9. QED
  BY <1>1, <1>2, <1>3, <1>4, <1>5, <1>6, <1>7, <1>8 DEF Next, Continue

\* A click is about to be reported as a success only where the page was looked
\* at and showed the effect, or where a success was reported before.
LEMMA SuccessStep ==
    SuccessIsSeen /\ ShownKept /\ FlagsTyped /\ [Next]_vars => SuccessIsSeen'
<1> SUFFICES ASSUME SuccessIsSeen, ShownKept, FlagsTyped, [Next]_vars,
                    at' = "finish", result' = "success"
             PROVE  shown'
  BY DEF SuccessIsSeen
<1> USE DEF Quiet, Unchanged, callVars, history, counts, Keep, Done
<1>1. CASE PageMoves
  <2>1. shown
    BY <1>1 DEF PageMoves, SuccessIsSeen
  <2>2. QED BY <1>1, <2>1, Zenon DEF PageMoves
<1>2. CASE Simple
  BY <1>2 DEF Simple, NotOpened, Observe, Extract, Screenshot, TypeOrSelect, Scroll,
              Wait, FinishTask, OpenCheck
<1>3. CASE OpenGoto \/ Fill \/ Ready \/ Click \/ Settle \/ Raise \/ Recover
  BY <1>3 DEF OpenGoto, Fill, Ready, Click, Settle, Raise, Recover
<1>4. CASE Verify
  <2>1. satisfied' = Satisfied(effect, before, page) /\ at = "verify" /\ shown' = shown
    BY <1>4 DEF Verify
  <2>2. satisfied'
    BY <1>4 DEF Verify
  <2>3. Satisfied(effect, before, page)
    BY <2>1, <2>2, Zenon
  <2>4. QED BY <2>1, <2>3 DEF ShownKept, OutOfClick
<1>5. CASE Abort \/ Retry \/ Reclick \/ GiveUp \/ Finish
  BY <1>5 DEF Abort, EndRecovery, Retry, Reclick, GiveUp, Finish
<1>6. CASE Reobserve
  <2>1. /\ effect = "content_appears" /\ InSummary(page) /\ at = "recovering"
        /\ shown' = shown
    BY <1>6 DEF Reobserve
  <2>2. Satisfied(effect, before, page)
    BY <2>1 DEF Satisfied, InBody, InSummary
  <2>3. QED BY <2>1, <2>2 DEF ShownKept, OutOfClick
<1>7. CASE Reverify
  <2>1. Satisfied(effect, before, page) /\ at = "reverify" /\ shown' = shown
    BY <1>7 DEF Reverify
  <2>2. QED BY <2>1 DEF ShownKept, OutOfClick
<1>8. ASSUME NEW e \in Effects, BeginClick(e) PROVE shown'
  BY <1>8 DEF BeginClick
<1>9. CASE UNCHANGED vars
  BY <1>9 DEF vars, SuccessIsSeen
<1>10. QED
  BY <1>1, <1>2, <1>3, <1>4, <1>5, <1>6, <1>7, <1>8, <1>9 DEF Next, Continue

-----------------------------------------------------------------------------
(* The theorems.                                                           *)

LEMMA InitIInv == Init => IInv
<1> SUFFICES ASSUME Init PROVE IInv
  OBVIOUS
<1>1. plan \in Plans
  BY PlanFacts DEF Init
<1>2. FlagsTyped
  BY DEF Init, FlagsTyped
<1>3. DataTyped
  BY BrowserRuntimeAssumption DEF Init, DataTyped, NoAction, Effects, Errors
<1>4. PlaceTyped
  BY DEF Init, PlaceTyped, MaxRounds
<1>5. InCall /\ RiskEnds /\ ShownKept /\ SuccessIsSeen
  BY <1>1 DEF Init, InCall, RiskEnds, ShownKept, SuccessIsSeen, OutOfClick,
              BeforeRecovery
<1>6. QED BY <1>1, <1>2, <1>3, <1>4, <1>5, TypeParts DEF IInv

\* IInv is inductive.
LEMMA InductiveStep == IInv /\ [Next]_vars => IInv'
<1> SUFFICES ASSUME IInv, [Next]_vars PROVE IInv'
  OBVIOUS
<1>1. FlagsTyped /\ DataTyped /\ PlaceTyped /\ InCall /\ RiskEnds
  BY TypeParts DEF IInv, InCall
<1>2. FlagsTyped' /\ DataTyped' /\ PlaceTyped' /\ InCall' /\ RiskEnds'
  BY <1>1, FlagsStep, DataStep, PlaceStep
<1>3. ShownKept' /\ SuccessIsSeen'
  BY <1>1, ShownStep, SuccessStep DEF IInv
<1>4. plan' \in Plans
  BY <1>2 DEF InCall
<1>5. QED BY <1>2, <1>3, <1>4, TypePartsNext DEF IInv

LEMMA Invariance == Spec => []IInv
BY InitIInv, InductiveStep, PTL DEF Spec

\* The variables keep their types.
THEOREM TypeCorrect == Spec => []TypeOK
<1>1. IInv => TypeOK
  BY DEF IInv
<1>2. QED BY <1>1, Invariance, PTL

\* One browser_click reaches the page twice at most, and is reported as a
\* success only when the page has shown the expected effect.
THEOREM ClicksAreHonest == Spec => []ClickIsHonest
<1>1. IInv => ClickIsHonest
  <2> SUFFICES ASSUME IInv PROVE RetriedOnce
    BY DEF IInv, ClickIsHonest
  <2>1. clicks \in Nat /\ at \in OutOfClick \cup BeforeRecovery
                            \cup {"recovering", "reclick", "reverify", "finish"}
    BY DEF IInv, TypeOK, OutOfClick, BeforeRecovery
  <2>2. QED BY <2>1 DEF IInv, InCall, RetriedOnce, OutOfClick, BeforeRecovery
<1>2. QED BY <1>1, Invariance, PTL

\* A risk the recovery sees first stops the clicking and ends the call as
\* blocked or with an exception.
LEMMA RiskStopsStep == IInv /\ [Next]_vars => RiskStops \/ UNCHANGED vars
<1> SUFFICES ASSUME IInv, Next, risky = "first"
             PROVE  clicks' <= clicks /\ (at' = "idle" => result' \in {"blocked", "raised"})
  BY DEF RiskStops
<1>1. /\ \/ at = "recovering" /\ plan = <<"abort_blocked">>
         \/ at = "finish" /\ result = "blocked"
      /\ clicks \in Nat
  BY DEF IInv, RiskEnds, TypeOK
<1>2. at \in {"recovering", "finish"} /\ (at = "recovering" => Head(plan) = "abort_blocked")
      /\ (at = "recovering" => plan # <<>>)
  BY <1>1, PlanFacts
<1> USE DEF Quiet, Unchanged, callVars, history, counts, Keep, Done
<1>3. CASE PageMoves
  BY <1>1, <1>3 DEF PageMoves
<1>4. CASE Simple
  BY <1>1, <1>4 DEF Simple, NotOpened, Observe, Extract, Screenshot, TypeOrSelect,
              Scroll, Wait, FinishTask, OpenCheck
<1>5. CASE OpenGoto \/ Fill \/ Ready \/ Click \/ Settle \/ Verify \/ Recover
  BY <1>1, <1>5 DEF OpenGoto, Fill, Ready, Click, Settle, Verify, Recover
<1>6. CASE Raise \/ Finish
  BY <1>1, <1>6 DEF Raise, Finish, Leave
<1>7. CASE Abort
  BY <1>1, <1>7 DEF Abort, EndRecovery
<1>8. CASE Reobserve \/ Retry \/ Reclick \/ Reverify \/ GiveUp
  BY <1>2, <1>8 DEF Reobserve, Retry, Reclick, Reverify, GiveUp
<1>9. ASSUME NEW e \in Effects, BeginClick(e)
      PROVE  clicks' <= clicks /\ (at' = "idle" => result' \in {"blocked", "raised"})
  BY <1>2, <1>9 DEF BeginClick
<1>10. QED
  BY <1>3, <1>4, <1>5, <1>6, <1>7, <1>8, <1>9 DEF Next, Continue

\* A call that has clicked ends with an observation or with an exception.
LEMMA ObservedStep == IInv /\ [Next]_vars => ObservedAfterClick \/ UNCHANGED vars
<1> SUFFICES ASSUME IInv, Next, clicks > 0, at' = "idle", result' # "raised"
             PROVE  last' = "latest"
  BY DEF ObservedAfterClick
<1>1. at \notin OutOfClick
  <2>1. at \in OutOfClick => clicks = 0
    BY DEF IInv, InCall
  <2>2. QED BY <2>1
<1> USE DEF Quiet, Unchanged, callVars, history, counts, Keep, Done, OutOfClick
<1>2. CASE PageMoves
  BY <1>1, <1>2 DEF PageMoves
<1>3. CASE Simple
  BY <1>1, <1>3 DEF Simple, NotOpened, Observe, Extract, Screenshot, TypeOrSelect,
              Scroll, Wait, FinishTask, OpenCheck
<1>4. CASE OpenGoto \/ Fill \/ Ready \/ Click \/ Settle \/ Raise
  BY <1>1, <1>4 DEF OpenGoto, Fill, Ready, Click, Settle, Raise
<1>5. CASE Verify \/ Recover \/ Abort \/ Retry \/ Reclick
  BY <1>5 DEF Verify, Recover, Abort, EndRecovery, Retry, Reclick
<1>6. CASE Reobserve \/ Reverify \/ GiveUp \/ Finish
  BY <1>6 DEF Reobserve, EndRecovery, Reverify, GiveUp, Finish
<1>7. ASSUME NEW e \in Effects, BeginClick(e) PROVE last' = "latest"
  BY <1>7 DEF BeginClick
<1>8. QED BY <1>2, <1>3, <1>4, <1>5, <1>6, <1>7 DEF Next, Continue

\* The caller can go by what a call leaves behind: a risk that was seen has
\* stopped it, and the page it observed last is the page after its last click.
THEOREM TruthIsLeft == Spec => CallsLeaveTruth
<1>1. IInv /\ [Next]_vars => [RiskStops /\ ObservedAfterClick]_vars
  BY RiskStopsStep, ObservedStep
<1>2. QED BY <1>1, Invariance, PTL DEF Spec, CallsLeaveTruth

-----------------------------------------------------------------------------
(* The end of a call.                                                      *)

\* Steps a recovery may still take when p is left of its plan.
RecoveryLeft(p) ==
    CASE p = <<"wait", "retry">> -> 6
      [] p = <<"retry">> -> 5
      [] p = <<>> -> 2
      [] OTHER -> 3

\* Steps a call may still take from a place, after r rounds of verification.
LeftFrom(place, r, p) ==
    CASE place = "idle" -> 0
      [] place \in {"opening", "filling", "finish"} -> 1
      [] place = "act" -> 13
      [] place = "click" -> 12
      [] place = "settle" -> 11
      [] place = "verify" -> 7 + (MaxRounds - r)
      [] place = "recover" -> 7
      [] place = "recovering" -> RecoveryLeft(p)
      [] place = "reclick" -> 4
      [] place = "reverify" -> 3

StepsLeft == LeftFrom(at, rounds, plan)

StepsCounted == StepsLeft \in 0..13 /\ (StepsLeft = 0 <=> at = "idle")

\* A step of the call is one less, and nothing the page does is one more.
CallAdvances ==
    /\ Continue => StepsLeft' < StepsLeft
    /\ at # "idle" => StepsLeft' <= StepsLeft

CallsAdvance == [][CallAdvances]_vars

LEMMA RecoveryLeftIs ==
    ASSUME NEW p
    PROVE  /\ p = <<"wait", "retry">> => RecoveryLeft(p) = 6
           /\ p = <<"retry">> => RecoveryLeft(p) = 5
           /\ p = <<>> => RecoveryLeft(p) = 2
           /\ p \in {<<"wait">>, <<"abort_blocked">>, <<"abort_failed">>} => RecoveryLeft(p) = 3
           /\ p \in Plans => RecoveryLeft(p) \in {2, 3, 5, 6}
<1>1. /\ <<"wait", "retry">> \notin {<<"retry">>, <<>>, <<"wait">>, <<"abort_blocked">>, <<"abort_failed">>}
      /\ <<"retry">> \notin {<<>>, <<"wait">>, <<"abort_blocked">>, <<"abort_failed">>}
      /\ <<>> \notin {<<"wait">>, <<"abort_blocked">>, <<"abort_failed">>}
  OBVIOUS
<1>2. p = <<"wait", "retry">> => RecoveryLeft(p) = 6
  BY <1>1 DEF RecoveryLeft
<1>3. p = <<"retry">> => RecoveryLeft(p) = 5
  BY <1>1 DEF RecoveryLeft
<1>4. p = <<>> => RecoveryLeft(p) = 2
  BY <1>1 DEF RecoveryLeft
<1>5. p \in {<<"wait">>, <<"abort_blocked">>, <<"abort_failed">>} => RecoveryLeft(p) = 3
  BY <1>1 DEF RecoveryLeft
<1>6. QED BY <1>2, <1>3, <1>4, <1>5 DEF Plans

\* The steps left at each place.
LEMMA LeftFromIs ==
    ASSUME NEW place, NEW r, NEW p
    PROVE  /\ place = "idle" => LeftFrom(place, r, p) = 0
           /\ place \in {"opening", "filling", "finish"} => LeftFrom(place, r, p) = 1
           /\ place = "act" => LeftFrom(place, r, p) = 13
           /\ place = "click" => LeftFrom(place, r, p) = 12
           /\ place = "settle" => LeftFrom(place, r, p) = 11
           /\ place = "verify" => LeftFrom(place, r, p) = 7 + (MaxRounds - r)
           /\ place = "recover" => LeftFrom(place, r, p) = 7
           /\ place = "recovering" => LeftFrom(place, r, p) = RecoveryLeft(p)
           /\ place = "reclick" => LeftFrom(place, r, p) = 4
           /\ place = "reverify" => LeftFrom(place, r, p) = 3
<1>1. place = "idle" => LeftFrom(place, r, p) = 0
  BY DEF LeftFrom
<1>2. place \in {"opening", "filling", "finish"} => LeftFrom(place, r, p) = 1
  BY DEF LeftFrom
<1>3. place = "act" => LeftFrom(place, r, p) = 13
  BY DEF LeftFrom
<1>4. place = "click" => LeftFrom(place, r, p) = 12
  BY DEF LeftFrom
<1>5. place = "settle" => LeftFrom(place, r, p) = 11
  BY DEF LeftFrom
<1>6. place = "verify" => LeftFrom(place, r, p) = 7 + (MaxRounds - r)
  BY DEF LeftFrom
<1>7. place = "recover" => LeftFrom(place, r, p) = 7
  BY DEF LeftFrom
<1>8. place = "recovering" => LeftFrom(place, r, p) = RecoveryLeft(p)
  BY DEF LeftFrom
<1>9. place = "reclick" => LeftFrom(place, r, p) = 4
  BY DEF LeftFrom
<1>10. place = "reverify" => LeftFrom(place, r, p) = 3
  BY DEF LeftFrom
<1>11. QED BY <1>1, <1>2, <1>3, <1>4, <1>5, <1>6, <1>7, <1>8, <1>9, <1>10

\* There are some left until the call is over.
LEMMA LeftCounted ==
    ASSUME NEW place \in OutOfClick \cup BeforeRecovery
                            \cup {"recovering", "reclick", "reverify", "finish"},
           NEW r, place = "verify" => r \in 0..2,
           NEW p \in Plans
    PROVE  /\ LeftFrom(place, r, p) \in 0..13
           /\ LeftFrom(place, r, p) = 0 <=> place = "idle"
<1>1. RecoveryLeft(p) \in {2, 3, 5, 6}
  BY RecoveryLeftIs
<1>2. QED BY <1>1, LeftFromIs DEF OutOfClick, BeforeRecovery, MaxRounds

LEMMA CountedAlways == IInv => StepsCounted
<1> SUFFICES ASSUME IInv PROVE StepsCounted
  OBVIOUS
<1>1. /\ at \in OutOfClick \cup BeforeRecovery
                \cup {"recovering", "reclick", "reverify", "finish"}
      /\ at = "verify" => rounds \in 0..2
      /\ plan \in Plans
  BY DEF IInv, TypeOK, InCall, OutOfClick, BeforeRecovery, MaxRounds
<1>2. QED BY <1>1, LeftCounted DEF StepsCounted, StepsLeft

LEMMA AdvanceStep == IInv /\ IInv' /\ Next => CallAdvances
<1> SUFFICES ASSUME IInv, IInv', Next PROVE CallAdvances
  OBVIOUS
<1> SUFFICES /\ Continue => StepsLeft' < StepsLeft
             /\ at # "idle" => Continue \/ StepsLeft' = StepsLeft
  <2>1. StepsLeft \in 0..13 /\ StepsLeft' \in 0..13
    <3>1. StepsLeft \in 0..13
      BY CountedAlways DEF StepsCounted
    <3>2. /\ at' \in OutOfClick \cup BeforeRecovery
                 \cup {"recovering", "reclick", "reverify", "finish"}
          /\ at' = "verify" => rounds' \in 0..2
          /\ plan' \in Plans
      BY DEF IInv, TypeOK, InCall, OutOfClick, BeforeRecovery, MaxRounds
    <3>3. StepsLeft' \in 0..13
      BY <3>2, LeftCounted DEF StepsLeft
    <3>4. QED BY <3>1, <3>3
  <2>2. QED BY <2>1 DEF CallAdvances
<1>1. /\ plan \in Plans /\ rounds \in 0..3 /\ (at = "verify" => rounds < 3)
      /\ at \in {"reclick", "reverify"} => plan = <<"retry">>
      /\ plan' \in Plans
  BY DEF IInv, TypeOK, InCall, MaxRounds
<1>2. /\ RecoveryLeft(plan) \in {2, 3, 5, 6} /\ RecoveryLeft(plan') \in {2, 3, 5, 6}
      /\ plan = <<"wait", "retry">> => RecoveryLeft(plan) = 6
      /\ plan = <<"retry">> => RecoveryLeft(plan) = 5
      /\ plan = <<"wait">> => RecoveryLeft(plan) = 3
      /\ plan' = <<"retry">> => RecoveryLeft(plan') = 5
      /\ plan' = <<>> => RecoveryLeft(plan') = 2
  BY <1>1, RecoveryLeftIs
<1>3. /\ at' = "idle" => StepsLeft' = 0
      /\ at' = "finish" => StepsLeft' = 1
      /\ at' = "click" => StepsLeft' = 12
      /\ at' = "settle" => StepsLeft' = 11
      /\ at' = "verify" => StepsLeft' = 7 + (3 - rounds')
      /\ at' = "recover" => StepsLeft' = 7
      /\ at' = "recovering" => StepsLeft' = RecoveryLeft(plan')
      /\ at' = "reclick" => StepsLeft' = 4
      /\ at' = "reverify" => StepsLeft' = 3
  BY LeftFromIs DEF StepsLeft, MaxRounds
<1> DEFINE StepsNow ==
        /\ at = "act" => StepsLeft = 13
        /\ at = "click" => StepsLeft = 12
        /\ at = "settle" => StepsLeft = 11
        /\ at = "recover" => StepsLeft = 7
        /\ at = "recovering" => StepsLeft = RecoveryLeft(plan)
        /\ at = "reclick" => StepsLeft = 4
        /\ at = "reverify" => StepsLeft = 3
<1>4. StepsNow
  BY LeftFromIs DEF StepsLeft
<1>5. at # "idle" => StepsLeft \in 1..13
  BY CountedAlways DEF StepsCounted
<1>6. CASE OpenGoto \/ Fill \/ Raise \/ Finish
  <2>1. at # "idle" /\ at' = "idle"
    BY <1>6 DEF OpenGoto, Fill, Raise, Finish, Done
  <2>2. QED BY <1>3, <1>5, <1>6, <2>1 DEF Continue
<1>7. CASE Ready \/ Click \/ Settle
  <2>1. \/ at = "act" /\ at' \in {"settle", "click"}
        \/ at = "click" /\ at' = "settle"
        \/ at = "settle" /\ at' = "verify" /\ rounds' = rounds
    BY <1>7 DEF Ready, Click, Settle, callVars
  <2>2. at = "settle" => rounds = 0
    BY DEF IInv, InCall
  <2>3. StepsLeft' < StepsLeft
    BY <1>3, <2>1, <2>2, <1>4
  <2>4. QED BY <1>7, <2>3 DEF Continue
<1>8. CASE Verify
  <2>1. /\ at = "verify" /\ at' \in {"finish", "verify", "recover"} /\ rounds' = rounds + 1
        /\ at' = "verify" => rounds' < 3
    BY <1>8 DEF Verify, MaxRounds
  <2>2. StepsLeft = 7 + (3 - rounds)
    BY <2>1, LeftFromIs DEF StepsLeft, MaxRounds
  <2>3. StepsLeft' < StepsLeft
    BY <1>1, <1>3, <2>1, <2>2
  <2>4. QED BY <1>8, <2>3 DEF Continue
<1>9. CASE Recover
  <2>1. at = "recover" /\ at' = "recovering"
    BY <1>9 DEF Recover
  <2>2. StepsLeft' < StepsLeft
    BY <1>2, <1>3, <2>1, <1>4
  <2>3. QED BY <1>9, <2>2 DEF Continue
<1>10. CASE Abort \/ GiveUp
  <2>1. at = "recovering" /\ at' = "finish"
    BY <1>10 DEF Abort, GiveUp, EndRecovery
  <2>2. StepsLeft' < StepsLeft
    BY <1>2, <1>3, <2>1, <1>4
  <2>3. QED BY <1>10, <2>2 DEF Continue
<1>11. CASE Reobserve
  <2>1. /\ at = "recovering" /\ plan # <<>> /\ Head(plan) = "wait"
        /\ \/ at' = "finish"
           \/ at' = at /\ plan' = Tail(plan)
    BY <1>11 DEF Reobserve, EndRecovery
  <2>3. plan = <<"wait">> \/ plan = <<"wait", "retry">>
    BY <1>1, <2>1 DEF Plans
  <2>4. StepsLeft = RecoveryLeft(plan)
    BY <2>1, <1>4
  <2>5. CASE at' = "finish"
    <3>1. StepsLeft' < StepsLeft
      BY <1>2, <1>3, <2>4, <2>5
    <3>2. QED BY <1>11, <3>1 DEF Continue
  <2>6. CASE at' = at /\ plan' = Tail(plan)
    <3>1. StepsLeft' = RecoveryLeft(plan')
      BY <1>3, <2>1, <2>6
    <3>2. plan = <<"wait">> => RecoveryLeft(plan) = 3 /\ RecoveryLeft(plan') = 2
      <4>1. Tail(<<"wait">>) = <<>>
        OBVIOUS
      <4>2. QED BY <1>2, <2>6, <4>1
    <3>3. plan = <<"wait", "retry">> => RecoveryLeft(plan) = 6 /\ RecoveryLeft(plan') = 5
      <4>1. Tail(<<"wait", "retry">>) = <<"retry">>
        OBVIOUS
      <4>2. QED BY <1>2, <2>6, <4>1
    <3>4. StepsLeft' < StepsLeft
      BY <2>3, <2>4, <3>1, <3>2, <3>3
    <3>5. QED BY <1>11, <3>4 DEF Continue
  <2>7. QED BY <2>1, <2>5, <2>6
<1>12. CASE Retry
  <2>1. at = "recovering" /\ plan = <<"retry">> /\ at' \in {"reverify", "reclick"}
    BY <1>1, <1>12, PlanFacts DEF Retry
  <2>2. StepsLeft' < StepsLeft
    BY <1>2, <1>3, <2>1, <1>4
  <2>3. QED BY <1>12, <2>2 DEF Continue
<1>13. CASE Reclick
  <2>1. at = "reclick" /\ at' = "reverify"
    BY <1>13 DEF Reclick
  <2>2. StepsLeft' < StepsLeft
    BY <1>3, <2>1, <1>4
  <2>3. QED BY <1>13, <2>2 DEF Continue
<1>14. CASE Reverify
  <2>1. /\ at = "reverify"
        /\ at' = "finish" \/ (at' = "recovering" /\ plan' = Tail(plan))
    BY <1>14 DEF Reverify, EndRecovery
  <2>2. Tail(plan) = <<>>
    BY <1>1, <2>1, PlanFacts
  <2>3. at' = "recovering" => RecoveryLeft(plan') = 2
    BY <1>2, <2>1, <2>2
  <2>4. at' = "recovering" => StepsLeft' = 2
    BY <1>3, <2>3
  <2>5. StepsLeft' \in {1, 2} /\ StepsLeft = 3
    BY <1>3, <1>4, <2>1, <2>4
  <2>6. StepsLeft' < StepsLeft
    BY <2>5
  <2>7. QED BY <1>14, <2>6 DEF Continue
<1>15. CASE PageMoves
  <2>1. at' = at /\ rounds' = rounds /\ plan' = plan
    BY <1>15 DEF PageMoves, callVars
  <2>2. StepsLeft' = StepsLeft
    BY <2>1 DEF StepsLeft
  <2>3. ASSUME Continue PROVE StepsLeft' < StepsLeft
    BY <2>3, <1>6, <1>7, <1>8, <1>9, <1>10, <1>11, <1>12, <1>13, <1>14 DEF Continue
  <2>4. QED BY <2>2, <2>3
<1>16. CASE ~PageMoves /\ ~Continue
  <2>1. at = "idle"
    BY <1>16 DEF Next, Simple, NotOpened, Observe, Extract, Screenshot, TypeOrSelect,
                Scroll, Wait, FinishTask, OpenCheck, BeginClick
  <2>2. QED BY <1>16, <2>1
<1>17. QED
  BY <1>6, <1>7, <1>8, <1>9, <1>10, <1>11, <1>12, <1>13, <1>14, <1>15, <1>16 DEF Continue

\* A tool call ends after thirteen of its own steps at most, and whatever the
\* page does meanwhile gives it none back: what CallEnds needs besides the
\* fairness of the call, for every limit on the recovery.
THEOREM CallsAreBounded == Spec => []StepsCounted /\ CallsAdvance
<1>1. IInv => StepsCounted
  BY CountedAlways
<1>2. IInv /\ IInv' /\ [Next]_vars => [CallAdvances]_vars
  BY AdvanceStep
<1>3. QED BY <1>1, <1>2, Invariance, PTL DEF Spec, CallsAdvance
=============================================================================
