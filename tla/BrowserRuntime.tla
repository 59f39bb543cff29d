---------------------------- MODULE BrowserRuntime ----------------------------
(***************************************************************************)
(* The browser tools of one run against a page that changes by itself      *)
(* while they wait (browser/tool_runtime.py, actions.py, effects.py,       *)
(* recovery.py): each await is a point where the page may be another one.  *)
(* A click is a snapshot, an attempt, a verification in several rounds, a  *)
(* recovery that may click again, and a last observation.                  *)
(***************************************************************************)
EXTENDS Naturals, Sequences

CONSTANTS
    Fixture,      \* URLs classify_url calls local
    Allowed,      \* public URLs the configuration allows
    Refused,      \* URLs PublicWebPolicy.check blocks
    Wanted,       \* the URLs an expected url_contains matches
    MaxPages,     \* max_pages_per_task
    MaxScrolls,   \* _max_scrolls_per_task
    MaxAttempts   \* RecoveryManager.max_attempts

Urls == Fixture \cup Allowed \cup Refused

ASSUME BrowserRuntimeAssumption ==
    /\ Fixture \cap Allowed = {} /\ Fixture \cap Refused = {} /\ Allowed \cap Refused = {}
    /\ Wanted \subseteq Urls /\ Fixture # {}
    /\ MaxPages \in Nat \ {0} /\ MaxScrolls \in Nat /\ MaxAttempts \in Nat \ {0}

VARIABLES
    page,       \* what the browser shows; NoPage before the first open
    at,         \* place in the tool call, "idle" between calls
    effect,     \* expected_effect.type of the click
    before,     \* url_before and body_text_before
    action,     \* status and error class of the ActionResult
    satisfied,  \* verification_result.satisfied
    rounds,     \* verification rounds done
    plan,       \* strategies of the RecoveryPlan still to try
    last,       \* last_observation: "none", or how it stands to what the
                \* runtime last did to the page
    opened,     \* _public_pages_opened
    scrolls,    \* _scroll_count
    result,     \* how the last call ended
    clicks,     \* history: clicks that reached the page in this call
    shown,      \* history: the page showed the expected effect in this call
    risky       \* history: which observation of the recovery saw a risk

callVars == <<effect, before, action, satisfied, rounds, plan>>
history == <<clicks, shown, risky>>
counts == <<opened, scrolls>>
vars == <<page, at, effect, before, action, satisfied, rounds, plan, last,
          opened, scrolls, result, clicks, shown, risky>>

(* "below" is content further down than the 4000 characters an            *)
(* observation keeps.  Whether the page is ready for a click, and whether *)
(* it shows a risk, may change at any moment and is chosen where it is    *)
(* looked at.                                                             *)
Contents == {"plain", "expected", "below"}
Page == [url : Urls, content : Contents]
NoPage == [url |-> "none", content |-> "plain"]

Effects == {"none", "content_appears", "url_changes", "url_contains",
            "any_change", "content_or_url_changes"}

Errors == {"none", "busy", "not_found", "timeout", "other"}
Strategies == {"abort_blocked", "abort_failed", "wait", "retry"}
MaxRounds == 3

TypeOK ==
    /\ page \in Page \cup {NoPage}
    /\ at \in {"idle", "opening", "filling", "act", "click", "settle", "verify",
               "recover", "recovering", "reclick", "reverify", "finish"}
    /\ effect \in Effects
    /\ before \in Page \cup {NoPage}
    /\ action \in [status : {"none", "success", "failed"}, error : Errors]
    /\ satisfied \in BOOLEAN /\ rounds \in 0..MaxRounds
    /\ plan \in Seq(Strategies) /\ Len(plan) <= MaxAttempts
    /\ last \in {"none", "older", "latest"}
    /\ opened \in 0..MaxPages /\ scrolls \in 0..MaxScrolls
    /\ result \in {"none", "success", "failed", "blocked", "raised"}
    /\ clicks \in Nat /\ shown \in BOOLEAN
    /\ risky \in {"none", "first", "later"}

NoAction == [status |-> "none", error |-> "none"]

Init ==
    /\ page = NoPage /\ at = "idle" /\ effect = "none" /\ before = NoPage
    /\ action = NoAction /\ satisfied = FALSE /\ rounds = 0 /\ plan = <<>>
    /\ last = "none" /\ opened = 0 /\ scrolls = 0 /\ result = "none"
    /\ clicks = 0 /\ shown = FALSE /\ risky = "none"

-----------------------------------------------------------------------------
(* The expected effects.                                                  *)

Changed(b, p) == p.url # b.url \/ p.content # b.content
InBody(p) == p.content # "plain"
InSummary(p) == p.content = "expected"

(* What EffectVerifier.verify looks for in each snapshot of the page.     *)
Satisfied(e, b, p) ==
    \/ e = "none"
    \/ e = "content_appears" /\ InBody(p)
    \/ e = "url_changes" /\ p.url # b.url
    \/ e = "url_contains" /\ p.url \in Wanted
    \/ e = "any_change" /\ Changed(b, p)
    \/ e = "content_or_url_changes" /\ (Changed(b, p) \/ InBody(p))

(* Scripts, timers and the effects of earlier clicks change the page at   *)
(* any moment, also between two steps of a call.                          *)
PageMoves ==
    /\ page # NoPage
    /\ page' \in Page
    /\ shown' = (shown \/ (at # "idle" /\ Satisfied(effect, before, page')))
    /\ UNCHANGED <<at, last, result, clicks, risky>>
    /\ UNCHANGED callVars /\ UNCHANGED counts

-----------------------------------------------------------------------------
(* Tools that are one observation or one input.                           *)

Done(outcome) == at' = "idle" /\ result' = outcome

(* What the runtime does to the page makes its last observation an old one. *)
Older == IF last = "none" THEN "none" ELSE "older"

Quiet == UNCHANGED callVars /\ UNCHANGED history

Unchanged == UNCHANGED <<page, last>> /\ UNCHANGED counts /\ Quiet

(* Every tool but open and finish_task answers PAGE_NOT_OPENED when there *)
(* is no page.                                                            *)
NotOpened == at = "idle" /\ page = NoPage /\ Done("failed") /\ Unchanged

(* A blocked URL sets last_observation to a page made up for the block; a *)
(* public one is counted before the browser goes there.                   *)
OpenCheck(url) ==
    /\ at = "idle"
    /\ \/ /\ url \in Refused \/ (url \in Allowed /\ opened >= MaxPages)
          /\ last' = "older" /\ Done("blocked") /\ UNCHANGED counts
       \/ /\ url \in Fixture \/ (url \in Allowed /\ opened < MaxPages)
          /\ at' = "opening"
          /\ opened' = opened + (IF url \in Allowed THEN 1 ELSE 0)
          /\ UNCHANGED <<last, scrolls, result>>
    /\ UNCHANGED page /\ Quiet

(* goto may fail, and may end on another URL than the one asked for.      *)
OpenGoto ==
    /\ at = "opening"
    /\ \/ page' \in Page /\ Done("success")
       \/ page' \in Page \cup {page} /\ Done("raised")
    /\ last' = Older
    /\ UNCHANGED counts /\ Quiet

Observe ==
    /\ at = "idle" /\ page # NoPage
    /\ \/ last' = "latest" /\ Done("success")
       \/ UNCHANGED last /\ Done("raised")
    /\ UNCHANGED page /\ UNCHANGED counts /\ Quiet

(* browser_extract catches what it raises.                                *)
Extract ==
    /\ at = "idle" /\ page # NoPage
    /\ \/ last' = "latest" /\ Done("success")
       \/ UNCHANGED last /\ Done("failed")
    /\ UNCHANGED page /\ UNCHANGED counts /\ Quiet

Screenshot ==
    /\ at = "idle" /\ page # NoPage
    /\ Done("success") \/ Done("raised")
    /\ Unchanged

(* The url is looked at here and the field is filled some awaits later.   *)
TypeOrSelect ==
    /\ at = "idle" /\ page # NoPage
    /\ \/ page.url \notin Fixture /\ Done("blocked")
       \/ page.url \in Fixture /\ at' = "filling" /\ UNCHANGED result
    /\ Unchanged

Fill ==
    /\ at = "filling"
    /\ Done("success") \/ Done("failed") \/ Done("raised")
    /\ last' \in {last, Older}
    /\ UNCHANGED page /\ UNCHANGED counts /\ Quiet

Scroll ==
    /\ at = "idle" /\ page # NoPage
    /\ \/ /\ scrolls >= MaxScrolls /\ Done("failed")
          /\ UNCHANGED <<last, scrolls>>
       \/ /\ scrolls < MaxScrolls /\ scrolls' = scrolls + 1
          /\ last' = "latest" /\ Done("success")
    /\ UNCHANGED <<page, opened>> /\ Quiet

Wait ==
    /\ at = "idle" /\ page # NoPage
    /\ last' \in {last, "latest"}
    /\ Done("success")
    /\ UNCHANGED page /\ UNCHANGED counts /\ Quiet

FinishTask == at = "idle" /\ Done("success") /\ Unchanged

-----------------------------------------------------------------------------
(* browser_click.                                                         *)

Keep == UNCHANGED <<page, result>> /\ UNCHANGED counts

BeginClick(e) ==
    /\ at = "idle" /\ page # NoPage
    /\ effect' = e /\ before' = page /\ result' = "none"
    /\ action' = NoAction /\ satisfied' = FALSE /\ rounds' = 0 /\ plan' = <<>>
    /\ at' = "act"
    /\ clicks' = 0 /\ risky' = "none"
    /\ shown' = Satisfied(e, page, page)
    /\ UNCHANGED <<page, last>> /\ UNCHANGED counts

(* wait_for_readiness with the target, then _blocking_readiness_error: an *)
(* overlay, a spinner, a skeleton, a target that is missing, disabled or  *)
(* moving.                                                                *)
Ready ==
    /\ at = "act"
    /\ \/ /\ action' \in [status : {"failed"}, error : {"busy", "other"}]
          /\ at' = "settle"
       \/ at' = "click" /\ UNCHANGED action
    /\ UNCHANGED <<effect, before, satisfied, rounds, plan, last>>
    /\ UNCHANGED history /\ Keep

(* The click reaches the page and everything after it works; the target   *)
(* is gone or not visible; or an exception comes before or after it.      *)
Attempt ==
    \/ /\ action' = [status |-> "success", error |-> "none"]
       /\ clicks' = clicks + 1 /\ last' = Older
    \/ /\ action' \in [status : {"failed"}, error : {"not_found", "other"}]
       /\ UNCHANGED <<clicks, last>>
    \/ /\ action' \in [status : {"failed"}, error : {"timeout", "other"}]
       /\ clicks' = clicks + 1 /\ last' = Older

Click ==
    /\ at = "click"
    /\ Attempt
    /\ at' = "settle"
    /\ UNCHANGED <<effect, before, satisfied, rounds, plan, shown, risky>>
    /\ Keep

(* The call's locals are gone when it returns.                            *)
Leave ==
    /\ effect' = "none" /\ before' = NoPage /\ action' = NoAction
    /\ satisfied' = FALSE /\ rounds' = 0 /\ plan' = <<>>
    /\ clicks' = 0 /\ shown' = FALSE /\ risky' = "none"

(* _wait_and_record_readiness: sampling a page that navigates raises, and *)
(* nothing in click_intent catches it.                                    *)
Settle ==
    /\ at = "settle" /\ at' = "verify"
    /\ UNCHANGED last /\ UNCHANGED callVars /\ UNCHANGED history /\ Keep

Raise ==
    /\ \/ at \in {"settle", "recover", "recovering", "reclick", "reverify", "finish"}
       \/ at = "verify" /\ rounds > 0
    /\ Done("raised") /\ Leave
    /\ UNCHANGED <<page, last>> /\ UNCHANGED counts

\* Mutant: one round too many.
VerifyOnceMore ==
    /\ at = "verify"
    /\ satisfied' = Satisfied(effect, before, page)
    /\ rounds' = rounds + 1
    /\ IF satisfied' /\ action.status = "success"
       THEN at' = "finish" /\ result' = "success"
       ELSE /\ at' = IF ~satisfied' /\ rounds <= MaxRounds THEN "verify" ELSE "recover"
            /\ UNCHANGED result
    /\ UNCHANGED <<page, effect, before, action, plan, last>>
    /\ UNCHANGED counts /\ UNCHANGED history

\* Mutant: the rounds go on until the effect is there.
VerifyForever ==
    /\ at = "verify"
    /\ satisfied' = Satisfied(effect, before, page)
    /\ rounds' = 1 - (rounds % 2)
    /\ IF ~satisfied' THEN at' = "verify" /\ UNCHANGED result
       ELSE IF action.status = "success" THEN at' = "finish" /\ result' = "success"
       ELSE at' = "recover" /\ UNCHANGED result
    /\ UNCHANGED <<page, effect, before, action, plan, last>>
    /\ UNCHANGED counts /\ UNCHANGED history

(* _verify_after_transition: once, and twice more after waiting.          *)
Verify ==
    /\ at = "verify"
    /\ satisfied' = Satisfied(effect, before, page)
    /\ rounds' = rounds + 1
    /\ IF satisfied' /\ action.status = "success"
       THEN at' = "finish" /\ result' = "success"
       ELSE /\ at' = IF ~satisfied' /\ rounds' < MaxRounds THEN "verify" ELSE "recover"
            /\ UNCHANGED result
    /\ UNCHANGED <<page, effect, before, action, plan, last>>
    /\ UNCHANGED counts /\ UNCHANGED history

-----------------------------------------------------------------------------
(* Recovery.                                                              *)

\* Mutant: what the action says is looked at before the risk of the page.
ClassifyActionFirst(risk, hintSeen) ==
    IF action.error \in {"busy", "not_found", "timeout"} THEN action.error
    ELSE IF risk THEN "risk"
    ELSE IF ~satisfied THEN "postcondition"
    ELSE IF ~hintSeen THEN "not_found" ELSE "unknown"

(* classify_failure: the risk of the page, then what the action said,     *)
(* then the verification, then whether the target is on the page at all.  *)
Classify(risk, hintSeen) ==
    IF risk THEN "risk"
    ELSE IF action.error \in {"busy", "not_found", "timeout"} THEN action.error
    ELSE IF ~satisfied THEN "postcondition"
    ELSE IF ~hintSeen THEN "not_found" ELSE "unknown"

(* build_plan, and what recover_click_intent keeps of it: the first       *)
(* max_attempts strategies, all of them when there are fewer.             *)
BuildPlan(error) ==
    CASE error = "risk" -> <<"abort_blocked">>
      [] error = "unknown" -> <<"abort_failed">>
      [] OTHER -> IF MaxAttempts = 1 THEN <<"wait">> ELSE <<"wait", "retry">>

Recover ==
    /\ at = "recover"
    /\ last' = "latest"
    /\ \E risk, hintSeen \in BOOLEAN :
          /\ risky' = IF risk THEN "first" ELSE "none"
          /\ plan' = BuildPlan(Classify(risk, hintSeen))
    /\ at' = "recovering"
    /\ UNCHANGED <<effect, before, action, satisfied, rounds, clicks, shown>>
    /\ Keep

EndRecovery(outcome) ==
    /\ at' = "finish" /\ result' = outcome /\ plan' = <<>>

(* abort_as_blocked and abort_as_failed.                                  *)
Abort ==
    /\ at = "recovering" /\ plan # <<>> /\ Head(plan) \in {"abort_blocked", "abort_failed"}
    /\ EndRecovery(IF Head(plan) = "abort_blocked" THEN "blocked" ELSE "failed")
    /\ UNCHANGED <<page, effect, before, action, satisfied, rounds, last>>
    /\ UNCHANGED counts /\ UNCHANGED history

(* wait_and_reobserve looks for the expected content only, and only where *)
(* an observation reaches.                                                *)
Reobserve ==
    /\ at = "recovering" /\ plan # <<>> /\ Head(plan) = "wait"
    /\ last' = "latest"
    /\ IF effect = "content_appears" /\ InSummary(page)
       THEN EndRecovery("success")
       ELSE plan' = Tail(plan) /\ UNCHANGED <<at, result>>
    /\ risky' \in IF risky = "first" THEN {"first"} ELSE {"none", "later"}
    /\ UNCHANGED <<page, effect, before, action, satisfied, rounds, clicks, shown>>
    /\ UNCHANGED counts

(* retry_same_target resolves the hint on the page as it is now and waits *)
(* for its readiness.                                                     *)
Retry ==
    /\ at = "recovering" /\ plan # <<>> /\ Head(plan) = "retry"
    /\ \/ at' = "reverify" /\ action' \in [status : {"failed"}, error : {"busy", "other"}]
       \/ at' = "reclick" /\ UNCHANGED action
    /\ UNCHANGED <<effect, before, satisfied, rounds, plan, last>>
    /\ UNCHANGED history /\ Keep

Reclick ==
    /\ at = "reclick"
    /\ Attempt
    /\ at' = "reverify"
    /\ UNCHANGED <<effect, before, satisfied, rounds, plan, shown, risky>>
    /\ Keep

\* Mutant: a retry counts as soon as the click was made.
ReverifyClickOnly ==
    /\ at = "reverify"
    /\ last' = "latest"
    /\ IF action.status = "success"
       THEN EndRecovery("success")
       ELSE plan' = Tail(plan) /\ at' = "recovering" /\ UNCHANGED result
    /\ UNCHANGED <<page, effect, before, action, satisfied, rounds, clicks, shown, risky>>
    /\ UNCHANGED counts

Reverify ==
    /\ at = "reverify"
    /\ last' = "latest"
    /\ IF action.status = "success" /\ Satisfied(effect, before, page)
       THEN EndRecovery("success")
       ELSE plan' = Tail(plan) /\ at' = "recovering" /\ UNCHANGED result
    /\ UNCHANGED <<page, effect, before, action, satisfied, rounds, clicks, shown, risky>>
    /\ UNCHANGED counts

GiveUp ==
    /\ at = "recovering" /\ plan = <<>>
    /\ at' = "finish" /\ result' = "failed"
    /\ UNCHANGED <<page, last>> /\ UNCHANGED counts /\ Quiet

(* The page after the action becomes last_observation, whatever happened. *)
Finish ==
    /\ at = "finish"
    /\ last' = "latest"
    /\ Done(result) /\ Leave
    /\ UNCHANGED page /\ UNCHANGED counts

-----------------------------------------------------------------------------
Simple ==
    \/ NotOpened \/ Observe \/ Extract \/ Screenshot \/ TypeOrSelect
    \/ Scroll \/ Wait \/ FinishTask
    \/ \E url \in Urls : OpenCheck(url)

Continue ==
    \/ OpenGoto \/ Fill \/ Ready \/ Click \/ Settle \/ Raise \/ Verify
    \/ Recover \/ Abort \/ Reobserve \/ Retry \/ Reclick \/ Reverify
    \/ GiveUp \/ Finish

Next ==
    \/ PageMoves \/ Simple \/ Continue
    \/ \E e \in Effects : BeginClick(e)

(* Every wait of a tool call has its own timeout, so a call that began    *)
(* goes on; whether the page ever rests is not assumed.                   *)
Spec == Init /\ [][Next]_vars /\ WF_vars(Continue)

-----------------------------------------------------------------------------
(* "Wait for the page to settle, then retry the same target once"         *)
(* (recovery.py:143): one browser_click reaches the page at most twice,   *)
(* whatever the attempts return and the page does in between.             *)
RetriedOnce == clicks <= 2

(* A click that is about to be reported as a success has been followed or *)
(* preceded in this call by a page that showed the expected effect, also  *)
(* when it took the recovery to get there.                                *)
SuccessIsSeen == (at = "finish" /\ result = "success") => shown

(* A click of the runtime is made twice at most and reported for what the *)
(* page has shown.                                                        *)
ClickIsHonest == RetriedOnce /\ SuccessIsSeen

(* A call whose first recovery observation shows a login, a password or a *)
(* captcha page does not click any more and ends as blocked or with an    *)
(* exception, whatever else went wrong with the action.                   *)
RiskStops ==
    risky = "first" =>
        /\ clicks' <= clicks
        /\ at' = "idle" => result' \in {"blocked", "raised"}

(* What the planner, the risk gate and the report take for the page after *)
(* a click was observed after the last click of that call, unless the     *)
(* call ended with an exception.                                          *)
ObservedAfterClick ==
    clicks > 0 /\ at' = "idle" /\ result' # "raised" => last' = "latest"

(* The caller can go by what a call leaves behind: a risk that was seen   *)
(* has stopped it, and the page it observed last is the page there is.    *)
CallsLeaveTruth == [][RiskStops /\ ObservedAfterClick]_vars

(* A page that never comes to rest does not hold the call.                *)
CallEnds == at # "idle" ~> at = "idle"
=============================================================================
