--------------------------- MODULE LibraryRun_proofs ---------------------------
(***************************************************************************)
(* Theorems about LibraryRun for every budget of steps, every set of plans *)
(* and every number of requests.                                           *)
(***************************************************************************)
EXTENDS LibraryRun, SequenceTheorems, TLAPS

-----------------------------------------------------------------------------
(* The inductive invariant.                                                *)

Early == {"before_prompt_build", "prompt", "before_llm_call", "planning",
          "after_llm_call", "validating", "before_tool_calls"}

\* Before the loop nothing has been called; in it, no more than the steps begun.
Counted ==
    /\ at \in Early => step = 0 /\ acted = 0
    /\ acted <= step /\ step <= MaxSteps
    /\ at \in {"before_tool_call", "before_browser_action", "tool"} => acted < step
    /\ at \notin Checks => reading = 0
    /\ late <= acted

\* After a late call the request stands for good, and no checkpoint lets the run
\* pass before the request is a cancellation - which the next one reads first.
LateOnce ==
    late > 0 =>
        /\ late = 1
        /\ at # "done" => Standing
        /\ at \notin {"before_browser_action", "tool"}
        /\ at \in {"record", "loop", "before_tool_call"} => flags["canceled"]
        /\ at = "before_tool_call" => reading = 0
        /\ at \in {"after_browser_action", "after_tool_call"} /\ reading = 2 =>
              flags["canceled"] \/ flags["stopped"]

\* A call is on its way to the records from its action to the record, unless a
\* request has put itself in the place of its result.
Recorded ==
    /\ acted <= kept + 1
    /\ kept < acted =>
          \/ at \in {"after_browser_action", "after_tool_call", "record"}
          \/ at = "leave" /\ result \in Requests
          \/ at = "done" /\ status \in {"canceled", "paused", "succeeded_partial"}

\* What the last checkpoint has read was not set, or was set after it began.
AskedTooLate == asked[1] = "before_report_generation" /\ asked[2] > 0

Unasked ==
    /\ at # "done" => report = "none"
    /\ at = "before_report_generation" /\ ~AskedTooLate =>
          /\ reading > 0 => ~flags["canceled"]
          /\ reading > 1 => ~flags["stopped"]
    /\ at = "report" /\ Standing => asked[1] = "report" \/ AskedTooLate
    /\ CompletedUnasked

\* The status a run carries through its loop, and what it has told.
Telling ==
    /\ at \in Early \cup {"loop", "before_tool_call", "before_browser_action", "tool",
                          "after_browser_action", "after_tool_call", "record"}
          => status = "running"
    /\ at = "leave" /\ result \notin Requests => status = "running"
    /\ at \in {"after_tool_call", "record", "leave"} /\ result = "asked" => told = "paused"
    /\ at = "after_browser_action" => result # "asked"
    /\ at = "after_tool_calls" =>
          \/ status = "running"
          \/ status = "requires_approval" /\ told = "paused"
          \/ status = "blocked" /\ told = "blocked"
    /\ LastWordIsTrue

\* A call that waits for an approval is the last of its run.
Waiting ==
    /\ at \in Early \cup {"loop", "before_tool_call", "before_browser_action", "tool",
                          "after_browser_action", "before_report_generation", "report"}
          => pending = 0
    /\ at \in {"after_tool_call", "record", "leave"} /\ pending = 1
          => result \in {"asked"} \cup Requests
    /\ at = "after_tool_calls" /\ pending = 1 => status = "requires_approval"
    /\ AskedIsShown

IInv ==
    /\ TypeOK /\ Counted /\ LateOnce /\ Recorded /\ Unasked /\ Telling /\ Waiting

-----------------------------------------------------------------------------
(* Facts the steps share.                                                  *)

\* TypeOK in parts: the Boolean variables, the counters, and all the others.
FlagsTyped == flags \in [Requests -> BOOLEAN] /\ observed \in BOOLEAN

WordsTyped ==
    /\ at \in Checks \cup Work
    /\ result \in {"none", "asked", "blocked", "failed"} \cup Requests
    /\ status \in {"running", "completed", "canceled", "paused", "requires_approval",
                   "blocked", "failed", "succeeded_partial", "waiting_for_approval"}
    /\ told \in {"started", "succeeded", "canceled", "paused", "blocked", "failed", "partial"}
    /\ report \in {"none", "partial", "final"}
    /\ asked \in {<<"nowhere", 0>>} \cup ((Checks \cup Work) \X (0..2))

CountsTyped ==
    /\ reading \in 0..2
    /\ plan \in Plans \cup {<<>>} /\ step \in 0..Len(plan)
    /\ pending \in 0..1
    /\ acted \in 0..MaxSteps /\ kept \in 0..acted
    /\ requests \in 0..MaxRequests /\ late \in 0..MaxSteps

LEMMA TypeParts == TypeOK <=> FlagsTyped /\ WordsTyped /\ CountsTyped
BY DEF TypeOK, FlagsTyped, WordsTyped, CountsTyped

LEMMA TypePartsNext == TypeOK' <=> FlagsTyped' /\ WordsTyped' /\ CountsTyped'
BY TypeParts, PTL

\* A plan is a sequence.
LEMMA PlanIsASeq ==
    ASSUME NEW p \in Plans \cup {<<>>}
    PROVE  Len(p) \in Nat
<1>1. p \in Seq(Tools)
  BY LibraryRunAssumption, EmptySeq
<1>2. QED BY <1>1, LenProperties

LEMMA StandingIs ==
    /\ Standing <=> flags["canceled"] \/ flags["paused"] \/ flags["stopped"]
    /\ Standing' <=> flags'["canceled"] \/ flags'["paused"] \/ flags'["stopped"]
BY DEF Standing, Requests

\* The three flags a checkpoint reads, in its order.
LEMMA OrderOf ==
    ASSUME NEW place
    PROVE  /\ Order(place)[1] = "canceled"
           /\ place \in HandlerChecks =>
                Order(place)[2] = "stopped" /\ Order(place)[3] = "paused"
           /\ place \notin HandlerChecks =>
                Order(place)[2] = "paused" /\ Order(place)[3] = "stopped"
BY DEF Order

\* A checkpoint reads on, lets the run pass, or heeds what it has read.
ReadOn ==
    /\ reading < 2 /\ ~flags[Order(at)[reading + 1]]
    /\ reading' = reading + 1
    /\ UNCHANGED <<at, result, flags, status, told, report>>

LetPass == reading = 2 /\ ~flags[Order(at)[3]] /\ reading' = 0 /\ Pass

Heeded == reading' = 0 /\ \E r \in Requests : Heed(r)

LEMMA ReadSplits ==
    ASSUME TypeOK, Read
    PROVE  /\ at \in Checks
           /\ UNCHANGED <<plan, step, observed, pending, acted, kept, requests, asked, late>>
           /\ ReadOn \/ LetPass \/ Heeded
<1>1. reading \in 0..2
  BY DEF TypeOK
<1>2. Order(at)[reading + 1] \in Requests
  BY <1>1, OrderOf DEF Requests
<1>3. at \in Checks
  BY DEF Read
<1>4. UNCHANGED <<plan, step, observed, pending, acted, kept, requests, asked, late>>
  BY DEF Read, planned, browser
<1>5. PICK r \in Requests : r = Order(at)[reading + 1]
  BY <1>2
<1>6. IF flags[r] THEN reading' = 0 /\ Heed(r)
      ELSE IF reading = 2 THEN reading' = 0 /\ Pass
      ELSE reading' = reading + 1 /\ UNCHANGED <<at, result, flags, status, told, report>>
  BY <1>5 DEF Read, outcome
<1>7. CASE flags[r]
  <2>1. reading' = 0
    BY <1>6, <1>7
  <2>2. Heed(r)
    BY <1>6, <1>7
  <2>3. QED BY <1>3, <1>4, <2>1, <2>2 DEF Heeded
<1>8. CASE ~flags[r] /\ reading = 2
  <2>1. ~flags[Order(at)[3]]
    BY <1>5, <1>8
  <2>2. reading' = 0 /\ Pass
    BY <1>6, <1>8
  <2>3. QED BY <1>3, <1>4, <1>8, <2>1, <2>2 DEF LetPass
<1>9. CASE ~flags[r] /\ reading # 2
  <2>1. reading < 2
    BY <1>1, <1>9
  <2>2. ~flags[Order(at)[reading + 1]]
    BY <1>5, <1>9
  <2>3. reading' = reading + 1 /\ UNCHANGED <<at, result, flags, status, told, report>>
    BY <1>6, <1>9
  <2>4. QED BY <1>3, <1>4, <2>1, <2>2, <2>3 DEF ReadOn
<1>10. QED BY <1>7, <1>8, <1>9

\* What a request makes of the flags.
LEMMA RequestedFlags ==
    ASSUME FlagsTyped, NEW r \in Requests \cup {"resumed"}, flags' = Requested(r)
    PROVE  /\ flags' \in [Requests -> BOOLEAN]
           /\ r # "resumed" => flags'["canceled"] \/ flags'["paused"] \/ flags'["stopped"]
           /\ r # "resumed" /\ flags["canceled"] => flags'["canceled"]
           /\ r # "resumed" /\ flags["stopped"] => flags'["canceled"] \/ flags'["stopped"]
<1>1. CASE r = "resumed"
  BY <1>1 DEF Requested
<1>2. CASE r = "canceled"
  <2>1. flags' = [q \in Requests |-> q = "canceled"]
    BY <1>2 DEF Requested
  <2>2. flags'["canceled"]
    BY <2>1 DEF Requests
  <2>3. flags' \in [Requests -> BOOLEAN]
    BY <2>1
  <2>4. QED BY <2>2, <2>3
<1>3. CASE r = "stopped"
  <2>1. flags' = [flags EXCEPT !["stopped"] = TRUE, !["paused"] = FALSE]
    BY <1>3 DEF Requested
  <2>2. flags' \in [Requests -> BOOLEAN] /\ flags'["stopped"]
        /\ flags'["canceled"] = flags["canceled"]
    BY <2>1 DEF FlagsTyped, Requests
  <2>3. QED BY <2>2
<1>4. CASE r = "paused"
  <2>1. flags' = [flags EXCEPT !["paused"] = TRUE]
    BY <1>4 DEF Requested
  <2>2. flags' \in [Requests -> BOOLEAN] /\ flags'["paused"]
        /\ flags'["canceled"] = flags["canceled"] /\ flags'["stopped"] = flags["stopped"]
    BY <2>1 DEF FlagsTyped, Requests
  <2>3. QED BY <2>2
<1>5. QED BY <1>1, <1>2, <1>3, <1>4 DEF Requests

-----------------------------------------------------------------------------
(* The invariant holds in the beginning.                                   *)

LEMMA InitIInv == Init => IInv
<1> SUFFICES ASSUME Init PROVE IInv
  OBVIOUS
<1>1. TypeOK
  <2>1. FlagsTyped
    BY DEF Init, FlagsTyped
  <2>2. WordsTyped
    BY DEF Init, WordsTyped, Checks, HandlerChecks
  <2>3. Len(<<>>) = 0
    OBVIOUS
  <2>4. CountsTyped
    BY <2>3, LibraryRunAssumption DEF Init, CountsTyped
  <2>5. QED BY <2>1, <2>2, <2>4, TypeParts
<1>2. Counted /\ LateOnce /\ Recorded
  BY LibraryRunAssumption DEF Init, Counted, LateOnce, Recorded
<1>3. Unasked
  BY DEF Init, Unasked, CompletedUnasked
<1>4. Telling /\ Waiting
  BY DEF Init, Telling, Waiting, LastWordIsTrue, AskedIsShown
<1>5. QED BY <1>1, <1>2, <1>3, <1>4 DEF IInv

-----------------------------------------------------------------------------
(* The requests.                                                           *)

LEMMA RequestKeeps ==
    ASSUME IInv, NEW r \in Requests \cup {"resumed"}, Request(r)
    PROVE  IInv'
<1>1. /\ at # "done" /\ requests < MaxRequests /\ requests' = requests + 1
      /\ asked' = <<at, reading>>
      /\ late' = IF Standing /\ r # "resumed" THEN late ELSE 0
      /\ UNCHANGED <<at, reading, result, plan, step, status, told, report, pending,
                     acted, kept>>
  BY DEF Request, control, planned, outcome, browser
<1>2. flags' = Requested(r) /\ observed' = observed
  BY DEF Request, browser
<1>3. TypeOK /\ Counted /\ LateOnce /\ Recorded /\ Unasked /\ Telling /\ Waiting
  BY DEF IInv
<1>4. FlagsTyped /\ WordsTyped /\ CountsTyped
  BY <1>3, TypeParts
<1>5. /\ flags' \in [Requests -> BOOLEAN]
      /\ r # "resumed" => flags'["canceled"] \/ flags'["paused"] \/ flags'["stopped"]
      /\ r # "resumed" /\ flags["canceled"] => flags'["canceled"]
      /\ r # "resumed" /\ flags["stopped"] => flags'["canceled"] \/ flags'["stopped"]
  BY <1>2, <1>4, RequestedFlags
<1>6. late' \in 0..MaxSteps /\ late' <= late /\ (late' > 0 => late' = late /\ r # "resumed")
  BY <1>1, <1>4, LibraryRunAssumption DEF CountsTyped
<1>7. TypeOK'
  <2>1. FlagsTyped'
    BY <1>2, <1>4, <1>5 DEF FlagsTyped
  <2>2. WordsTyped'
    BY <1>1, <1>4 DEF WordsTyped, CountsTyped
  <2>3. CountsTyped'
    BY <1>1, <1>4, <1>6, LibraryRunAssumption DEF CountsTyped
  <2>4. QED BY <2>1, <2>2, <2>3, TypePartsNext
<1>8. Counted'
  BY <1>1, <1>3, <1>4, <1>6, LibraryRunAssumption DEF Counted, CountsTyped
<1>9. LateOnce'
  <2> SUFFICES ASSUME late' > 0 PROVE LateOnce'
    BY DEF LateOnce
  <2>1. late' = late /\ late > 0 /\ r # "resumed"
    BY <1>6
  <2>2. Standing'
    BY <1>5, <2>1, StandingIs
  <2>3. QED BY <1>1, <1>3, <1>5, <2>1, <2>2 DEF LateOnce
<1>10. Recorded' /\ Telling' /\ Waiting'
  BY <1>1, <1>2, <1>3 DEF Recorded, Telling, Waiting, LastWordIsTrue, AskedIsShown
<1>11. Unasked'
  <2>1. asked'[1] = at /\ asked'[2] = reading
    BY <1>1
  <2>2. report' = "none" /\ at' = at /\ reading' = reading /\ at # "done"
    BY <1>1, <1>3 DEF Unasked
  <2>3. at = "before_report_generation" /\ reading > 0 => AskedTooLate'
    BY <2>1 DEF AskedTooLate
  <2>4. reading > 1 => reading > 0
    BY <1>4 DEF CountsTyped
  <2>5. QED BY <2>1, <2>2, <2>3, <2>4 DEF Unasked, CompletedUnasked
<1>12. QED BY <1>7, <1>8, <1>9, <1>10, <1>11 DEF IInv

-----------------------------------------------------------------------------
(* The checkpoints.                                                        *)

LEMMA ReadOnKeeps ==
    ASSUME IInv, ReadOn, at \in Checks,
           UNCHANGED <<plan, step, observed, pending, acted, kept, requests, asked, late>>
    PROVE  IInv'
<1>1. /\ reading < 2 /\ reading' = reading + 1
      /\ UNCHANGED <<at, result, status, told, report>>
  BY DEF ReadOn
<1>2. flags' = flags
  BY DEF ReadOn
<1>3. TypeOK /\ Counted /\ LateOnce /\ Recorded /\ Unasked /\ Telling /\ Waiting
  BY DEF IInv
<1>4. FlagsTyped /\ WordsTyped /\ CountsTyped
  BY <1>3, TypeParts
<1>5. \/ reading = 0 /\ reading' = 1
      \/ reading = 1 /\ reading' = 2
  <2>1. reading \in 0..2
    BY <1>4 DEF CountsTyped
  <2>2. QED BY <1>1, <2>1
<1>6. /\ reading = 0 => ~flags["canceled"]
      /\ reading = 1 /\ at \in HandlerChecks => ~flags["stopped"]
      /\ reading = 1 /\ at \notin HandlerChecks => ~flags["paused"]
  <2>1. ~flags[Order(at)[reading + 1]]
    BY DEF ReadOn
  <2>2. (reading = 0 => reading + 1 = 1) /\ (reading = 1 => reading + 1 = 2)
    OBVIOUS
  <2>3. QED BY <2>1, <2>2, OrderOf
<1>7. TypeOK'
  <2>1. FlagsTyped'
    BY <1>2, <1>4 DEF FlagsTyped
  <2>2. WordsTyped'
    BY <1>1, <1>4 DEF WordsTyped
  <2>3. CountsTyped'
    BY <1>4, <1>5 DEF CountsTyped
  <2>4. QED BY <2>1, <2>2, <2>3, TypePartsNext
<1>8. Counted'
  BY <1>1, <1>3 DEF Counted
<1>9. LateOnce'
  <2> SUFFICES ASSUME late > 0 PROVE LateOnce'
    BY DEF LateOnce
  <2>1. at # "done" /\ Standing
    BY <1>3 DEF LateOnce, Checks, HandlerChecks, LoopChecks, ExecutorChecks
  <2>2. at \in {"after_browser_action", "after_tool_call"} => at \notin HandlerChecks
    BY DEF HandlerChecks
  <2>3. at \in {"after_browser_action", "after_tool_call"} /\ reading' = 2 =>
          flags["canceled"] \/ flags["stopped"]
    BY <1>5, <1>6, <2>1, <2>2, StandingIs
  <2>4. at # "before_tool_call"
    BY <1>3, <1>5, <1>6 DEF LateOnce
  <2>5. Standing'
    BY <1>2, <2>1 DEF Standing
  <2>6. QED BY <1>1, <1>2, <1>3, <2>3, <2>4, <2>5 DEF LateOnce
<1>10. Recorded' /\ Telling' /\ Waiting'
  BY <1>1, <1>3 DEF Recorded, Telling, Waiting, LastWordIsTrue, AskedIsShown
<1>11. Unasked'
  <2>1. at \notin {"done", "report"}
    BY DEF Checks, HandlerChecks, LoopChecks, ExecutorChecks
  <2>2. "before_report_generation" \in HandlerChecks
    BY DEF HandlerChecks
  <2>3. AskedTooLate' <=> AskedTooLate
    BY DEF AskedTooLate
  <2>4. QED BY <1>1, <1>2, <1>3, <1>5, <1>6, <2>1, <2>2, <2>3
            DEF Unasked, CompletedUnasked
<1>12. QED BY <1>7, <1>8, <1>9, <1>10, <1>11 DEF IInv

LEMMA LetPassKeeps ==
    ASSUME IInv, LetPass, at \in Checks,
           UNCHANGED <<plan, step, observed, pending, acted, kept, requests, asked, late>>
    PROVE  IInv'
<1>1. /\ reading = 2 /\ reading' = 0 /\ at' = After(at)
      /\ status' = IF After(at) = "before_report_generation" THEN "completed" ELSE status
      /\ UNCHANGED <<result, told, report>>
  BY DEF LetPass, Pass
<1>2. flags' = flags
  BY DEF LetPass, Pass
<1>3. TypeOK /\ Counted /\ LateOnce /\ Recorded /\ Unasked /\ Telling /\ Waiting
  BY DEF IInv
<1>4. FlagsTyped /\ WordsTyped /\ CountsTyped
  BY <1>3, TypeParts
<1>5. \/ at = "before_prompt_build" /\ at' = "prompt"
      \/ at = "before_llm_call" /\ at' = "planning"
      \/ at = "after_llm_call" /\ at' = "validating"
      \/ at = "before_tool_calls" /\ at' = "loop"
      \/ at = "before_tool_call" /\ at' = "before_browser_action"
      \/ at = "before_browser_action" /\ at' = "tool"
      \/ at = "after_browser_action" /\ at' = "after_tool_call"
      \/ at = "after_tool_call" /\ at' = "record"
      \/ at = "after_tool_calls" /\ status \in {"requires_approval", "blocked"} /\ at' = "done"
      \/ /\ at = "after_tool_calls" /\ status \notin {"requires_approval", "blocked"}
         /\ at' = "before_report_generation"
      \/ at = "before_report_generation" /\ at' = "report"
  BY <1>1 DEF After, Checks, HandlerChecks, LoopChecks, ExecutorChecks
<1>6. status' = IF at' = "before_report_generation" THEN "completed" ELSE status
  BY <1>1
<1>7. ~flags["paused"] \/ at \notin HandlerChecks
  BY OrderOf DEF LetPass
<1>8. ~flags["stopped"] \/ at \in HandlerChecks
  BY OrderOf DEF LetPass
<1>9. TypeOK'
  <2>1. FlagsTyped'
    BY <1>2, <1>4 DEF FlagsTyped
  <2>2. at' \in Checks \cup Work
    BY <1>5 DEF Checks, HandlerChecks, LoopChecks, ExecutorChecks, Work
  <2>3. WordsTyped'
    BY <1>1, <1>4, <1>6, <2>2 DEF WordsTyped
  <2>4. CountsTyped'
    BY <1>1, <1>4 DEF CountsTyped
  <2>5. QED BY <2>1, <2>3, <2>4, TypePartsNext
<1>10. Counted'
  BY <1>1, <1>3, <1>5 DEF Counted, Early
<1>11. LateOnce'
  <2> SUFFICES ASSUME late > 0 PROVE LateOnce'
    BY DEF LateOnce
  <2>1. Standing' <=> Standing
    BY <1>2 DEF Standing
  <2>2. at \notin {"before_browser_action", "tool", "before_tool_call"}
    BY <1>1, <1>3 DEF LateOnce
  <2>3. late <= acted /\ (at \in Early => acted = 0)
    BY <1>3 DEF Counted
  <2>4. at \notin Early
    BY <1>4, <2>3 DEF CountsTyped
  <2>5. at = "after_tool_call" => flags["canceled"]
    <3>1. "after_tool_call" \notin HandlerChecks
      BY DEF HandlerChecks
    <3>2. QED BY <1>1, <1>3, <1>8, <3>1 DEF LateOnce
  <2>6. at # "done" /\ Standing /\ late = 1
    BY <1>3, <1>5 DEF LateOnce
  <2>7. \/ at' \in {"after_tool_call", "done", "before_report_generation", "report"}
        \/ at' = "record" /\ flags'["canceled"]
    BY <1>2, <1>5, <2>2, <2>4, <2>5 DEF Early
  <2>8. QED BY <1>1, <2>1, <2>6, <2>7 DEF LateOnce
<1>12. Recorded'
  BY <1>1, <1>3, <1>5 DEF Recorded
<1>13. Unasked'
  <2>1. AskedTooLate' <=> AskedTooLate
    BY DEF AskedTooLate
  <2>2. at' = "report" => ~Standing' \/ AskedTooLate
    <3>1. "before_report_generation" \in HandlerChecks
      BY DEF HandlerChecks
    <3>2. at' = "report" => at = "before_report_generation"
      BY <1>5
    <3>3. QED BY <1>1, <1>2, <1>3, <1>7, <3>1, <3>2, StandingIs DEF Unasked
  <2>3. report' = "none"
    BY <1>1, <1>3, <1>5 DEF Unasked
  <2>4. QED BY <1>1, <2>1, <2>2, <2>3 DEF Unasked, CompletedUnasked
<1>14. Telling'
  <2>1. CASE at' = "done"
    <3>1. /\ at = "after_tool_calls" /\ status' = status /\ told' = told
          /\ status \in {"requires_approval", "blocked"}
      BY <1>1, <1>5, <1>6, <2>1
    <3>2. \/ status = "requires_approval" /\ told = "paused"
          \/ status = "blocked" /\ told = "blocked"
      BY <1>3, <3>1 DEF Telling
    <3>3. QED BY <2>1, <3>1, <3>2 DEF Telling, LastWordIsTrue, Early
  <2>2. CASE at' # "done"
    <3>1. at' \notin {"leave", "after_tool_calls"}
      BY <1>5
    <3>2. at' \in {"after_tool_call", "record"} =>
             result' = result /\ told' = told /\ (result # "asked" \/ told = "paused")
      <4>1. at' = "record" => at = "after_tool_call"
        BY <1>5
      <4>2. at' = "after_tool_call" => at = "after_browser_action"
        BY <1>5
      <4>3. at = "after_browser_action" => result # "asked"
        BY <1>3 DEF Telling
      <4>4. QED BY <1>1, <1>3, <4>1, <4>2, <4>3 DEF Telling
    <3>3. QED BY <1>1, <1>3, <1>5, <1>6, <2>2, <3>1, <3>2
              DEF Telling, LastWordIsTrue, Early
  <2>3. QED BY <2>1, <2>2
<1>15. Waiting'
  BY <1>1, <1>3, <1>4, <1>5, <1>6 DEF Waiting, AskedIsShown, Early, CountsTyped
<1>16. QED BY <1>9, <1>10, <1>11, <1>12, <1>13, <1>14, <1>15 DEF IInv

\* The run, the loop or the executor ends with the request.
LEMMA HeededEnds ==
    ASSUME at \in Checks, Heeded
    PROVE  /\ reading' = 0
           /\ \/ /\ at' = "done" /\ result' = result
                 /\ \/ status' = "succeeded_partial" /\ told' = "partial" /\ report' = "partial"
                    \/ status' = "canceled" /\ told' = "canceled" /\ report' = report
                    \/ status' = "paused" /\ told' = "paused" /\ report' = report
              \/ /\ at \in LoopChecks /\ at' = "leave" /\ result' \in Requests
                 /\ status' \in {status, "canceled", "paused"}
                 /\ told' = told /\ report' = report /\ flags' = flags
              \/ /\ at \in ExecutorChecks /\ at' = "after_tool_call" /\ result' \in Requests
                 /\ UNCHANGED <<status, told, report, flags>>
<1>1. PICK r \in Requests : reading' = 0 /\ Heed(r)
  BY DEF Heeded
<1>2. r \in {"canceled", "paused", "stopped"}
  BY DEF Requests
<1>3. QED BY <1>1, <1>2 DEF Heed, EndRequested, EndPartial, End, outcome

LEMMA HeededFlags ==
    ASSUME FlagsTyped, at \in Checks, Heeded
    PROVE  flags' \in [Requests -> BOOLEAN]
<1>1. PICK r \in Requests : Heed(r)
  BY DEF Heeded
<1>2. flags' = flags \/ flags' = [flags EXCEPT !["stopped"] = FALSE, !["paused"] = FALSE]
  BY <1>1 DEF Heed
<1>3. QED BY <1>2 DEF FlagsTyped

LEMMA HeededKeeps ==
    ASSUME IInv, Heeded, at \in Checks,
           UNCHANGED <<plan, step, observed, pending, acted, kept, requests, asked, late>>
    PROVE  IInv'
<1>1. /\ reading' = 0
      /\ \/ /\ at' = "done" /\ result' = result
            /\ \/ status' = "succeeded_partial" /\ told' = "partial" /\ report' = "partial"
               \/ status' = "canceled" /\ told' = "canceled" /\ report' = report
               \/ status' = "paused" /\ told' = "paused" /\ report' = report
         \/ /\ at \in LoopChecks /\ at' = "leave" /\ result' \in Requests
            /\ status' \in {status, "canceled", "paused"}
            /\ told' = told /\ report' = report
         \/ /\ at \in ExecutorChecks /\ at' = "after_tool_call" /\ result' \in Requests
            /\ UNCHANGED <<status, told, report>>
  BY HeededEnds
<1>2. at' # "done" => flags' = flags
  BY HeededEnds
<1>3. TypeOK /\ Counted /\ LateOnce /\ Recorded /\ Unasked /\ Telling /\ Waiting
  BY DEF IInv
<1>4. FlagsTyped /\ WordsTyped /\ CountsTyped
  BY <1>3, TypeParts
<1>5. /\ at \in LoopChecks => at \in {"before_tool_call", "after_tool_call"}
      /\ at \in ExecutorChecks => at \in {"before_browser_action", "after_browser_action"}
      /\ at \notin Early \/ acted = 0
      /\ at # "done"
  BY <1>3 DEF LoopChecks, ExecutorChecks, Counted, Checks, HandlerChecks
<1>6. TypeOK'
  <2>1. FlagsTyped'
    BY <1>4, HeededFlags DEF FlagsTyped
  <2>2. /\ at' \in Checks \cup Work
        /\ result' \in {"none", "asked", "blocked", "failed"} \cup Requests
        /\ status' \in {status, "succeeded_partial", "canceled", "paused"}
        /\ told' \in {told, "partial", "canceled", "paused"}
        /\ report' \in {report, "partial"} /\ asked' = asked
    BY <1>1, <1>4 DEF Checks, LoopChecks, Work, WordsTyped
  <2>3. WordsTyped'
    BY <1>4, <2>2 DEF WordsTyped
  <2>4. CountsTyped'
    BY <1>1, <1>4 DEF CountsTyped
  <2>5. QED BY <2>1, <2>3, <2>4, TypePartsNext
<1>7. Counted'
  BY <1>1, <1>3 DEF Counted, Early
<1>8. LateOnce'
  <2>1. at' # "done" => (Standing' <=> Standing)
    BY <1>2 DEF Standing
  <2>2. at' \in {"done", "leave", "after_tool_call"}
    BY <1>1
  <2>3. QED BY <1>1, <1>3, <1>5, <2>1, <2>2 DEF LateOnce
<1>9. Recorded'
  BY <1>1, <1>3 DEF Recorded
<1>10. Unasked'
  <2>1. at' \in {"done", "leave", "after_tool_call"}
    BY <1>1
  <2>2. report = "none"
    BY <1>3, <1>5 DEF Unasked
  <2>3. report' # "final" /\ (at' # "done" => report' = "none")
    BY <1>1, <2>2
  <2>4. QED BY <2>1, <2>3 DEF Unasked, CompletedUnasked
<1>11. Telling'
  <2>1. at \in ExecutorChecks => status = "running"
    BY <1>3, <1>5 DEF Telling
  <2>2. CASE at' = "done"
    BY <1>1, <2>2 DEF Telling, LastWordIsTrue, Early
  <2>3. CASE at' # "done"
    <3>1. result' \in Requests /\ result' # "asked"
      BY <1>1, <2>3 DEF Requests
    <3>2. QED BY <1>1, <2>1, <2>3, <3>1 DEF Telling, LastWordIsTrue, Early
  <2>4. QED BY <2>2, <2>3
<1>12. Waiting'
  BY <1>1 DEF Waiting, AskedIsShown, Early
<1>13. QED BY <1>6, <1>7, <1>8, <1>9, <1>10, <1>11, <1>12 DEF IInv

-----------------------------------------------------------------------------
(* The work between the checkpoints.                                       *)

\* The steps that neither call anything nor touch the plan's progress.
Outside == BuildPrompt \/ Plan \/ Validate \/ Leave \/ Report

Drafting == {"prompt", "planning", "validating"}

\* Where such a step leads, and what it says of the run.
OutsideMoves ==
    \/ /\ at \in Drafting
       /\ at' \in {"before_llm_call", "after_llm_call", "before_tool_calls"}
       /\ UNCHANGED <<status, told, report>>
    \/ /\ at \in Drafting /\ at' = "done" /\ report' \in {report, "partial"}
       /\ \/ status' = "completed" /\ told' = "succeeded"
          \/ status' = "failed" /\ told' = "failed"
          \/ status' = "waiting_for_approval" /\ told' = "paused"
          \/ status' = "succeeded_partial" /\ told' = "partial"
    \/ /\ at = "leave" /\ at' = "after_tool_calls" /\ result = "none"
       /\ UNCHANGED <<status, told, report>>
    \/ /\ at = "leave" /\ at' = "done" /\ result \in Requests
       /\ report' \in {report, "partial"}
       /\ \/ status' = "succeeded_partial" /\ told' = "partial"
          \/ status' = "canceled" /\ told' = "canceled"
          \/ status' = "paused" /\ told' = "paused"
    \/ /\ at = "leave" /\ at' = "after_tool_calls" /\ result = "asked"
       /\ status' = "requires_approval" /\ told' = told /\ report' = report
    \/ /\ at = "leave" /\ at' = "after_tool_calls" /\ result = "blocked"
       /\ status' = "blocked" /\ told' = "blocked" /\ report' = report
    \/ /\ at = "leave" /\ at' = "done"
       /\ result = "failed" \/ (result \notin Requests /\ ~observed)
       /\ status' = "failed" /\ told' = "failed" /\ report' = report
    \/ /\ at = "report" /\ at' = "done" /\ report' \in {report, "final"}
       /\ \/ status' = "completed" /\ told' = "succeeded"
          \/ status' = "failed" /\ told' = "failed"

LEMMA OutsideSplits ==
    ASSUME Outside
    PROVE  OutsideMoves
<1>1. CASE BuildPrompt
  BY <1>1 DEF BuildPrompt, End, EndFailed, OutsideMoves, Drafting
<1>2. CASE Plan
  BY <1>2 DEF Plan, End, EndFailed, EndPartial, outcome, OutsideMoves, Drafting
<1>3. CASE Validate
  BY <1>3 DEF Validate, End, EndFailed, OutsideMoves, Drafting
<1>4. CASE Report
  BY <1>4 DEF Report, End, EndFailed, OutsideMoves
<1>5. CASE Leave
  <2>1. at = "leave"
    BY <1>5 DEF Leave
  <2>2. CASE result = "none" /\ at' = "after_tool_calls" /\ UNCHANGED outcome
    BY <2>1, <2>2 DEF outcome, OutsideMoves
  <2>3. CASE result \in Requests /\ EndRequested(result)
    BY <2>1, <2>3 DEF EndRequested, EndPartial, End, OutsideMoves, Requests
  <2>4. CASE /\ result \in {"asked", "blocked"} /\ at' = "after_tool_calls"
             /\ status' = IF result = "asked" THEN "requires_approval" ELSE "blocked"
             /\ told' = IF result = "asked" THEN told ELSE "blocked"
             /\ UNCHANGED report
    BY <2>1, <2>4 DEF OutsideMoves
  <2>5. CASE /\ result = "failed" \/ (result \notin Requests /\ ~observed)
             /\ EndFailed /\ UNCHANGED report
    BY <2>1, <2>5 DEF EndFailed, End, OutsideMoves
  <2>6. QED BY <1>5, <2>2, <2>3, <2>4, <2>5 DEF Leave
<1>6. QED BY <1>1, <1>2, <1>3, <1>4, <1>5 DEF Outside

LEMMA OutsideLeaves ==
    ASSUME Outside
    PROVE  /\ UNCHANGED <<step, result, pending, acted, kept, reading, late, requests,
                          asked>>
           /\ flags' = flags /\ observed' = observed
           /\ plan' = plan \/ (at = "planning" /\ plan' \in Plans)
BY DEF Outside, BuildPrompt, Plan, Validate, Leave, Report, Rest, others, planned, browser

LEMMA OutsideKeeps ==
    ASSUME IInv, Outside
    PROVE  IInv'
<1>1. OutsideMoves
  BY OutsideSplits
<1>2. /\ UNCHANGED <<step, result, pending, acted, kept, reading, late, requests, asked>>
      /\ plan' = plan \/ (at = "planning" /\ plan' \in Plans)
  BY OutsideLeaves
<1>3. flags' = flags /\ observed' = observed
  BY OutsideLeaves
<1>4. TypeOK /\ Counted /\ LateOnce /\ Recorded /\ Unasked /\ Telling /\ Waiting
  BY DEF IInv
<1>5. FlagsTyped /\ WordsTyped /\ CountsTyped
  BY <1>4, TypeParts
<1>6. /\ at \in Drafting => at \in Early
      /\ at \in Drafting \cup {"leave", "report"}
      /\ at' \in {"before_llm_call", "after_llm_call", "before_tool_calls",
                  "after_tool_calls", "done"}
      /\ at' \in Early => at \in Drafting
  BY <1>1 DEF OutsideMoves, Drafting, Early
<1>7. reading = 0
  BY <1>4, <1>6 DEF Counted, Drafting, Checks, HandlerChecks, LoopChecks, ExecutorChecks
<1>8. TypeOK'
  <2>1. FlagsTyped'
    BY <1>3, <1>5 DEF FlagsTyped
  <2>2. at' \in Checks \cup Work
    BY <1>6 DEF Checks, HandlerChecks, Work
  <2>3. /\ status' \in {status, "completed", "failed", "waiting_for_approval",
                        "succeeded_partial", "canceled", "paused", "requires_approval",
                        "blocked"}
        /\ told' \in {told, "succeeded", "failed", "paused", "partial", "canceled", "blocked"}
        /\ report' \in {report, "partial", "final"}
    BY <1>1 DEF OutsideMoves
  <2>4. WordsTyped'
    BY <1>2, <1>5, <2>2, <2>3 DEF WordsTyped
  <2>5. step' \in 0..Len(plan')
    <3>1. CASE plan' = plan
      BY <1>2, <1>5, <3>1 DEF CountsTyped
    <3>2. CASE at = "planning" /\ plan' \in Plans
      <4>1. step = 0
        BY <1>4, <3>2 DEF Counted, Early
      <4>2. \A p \in Plans : Len(p) \in Nat
        BY PlanIsASeq
      <4>3. Len(plan') \in Nat
        BY <3>2, <4>2
      <4>4. QED BY <1>2, <4>1, <4>3
    <3>3. QED BY <1>2, <3>1, <3>2
  <2>6. CountsTyped'
    BY <1>2, <1>5, <2>5 DEF CountsTyped
  <2>7. QED BY <2>1, <2>4, <2>6, TypePartsNext
<1>9. Counted'
  BY <1>2, <1>4, <1>6, <1>7 DEF Counted
<1>10. LateOnce'
  <2> SUFFICES ASSUME late > 0 PROVE LateOnce'
    BY <1>2 DEF LateOnce
  <2>1. at \notin Drafting
    BY <1>4, <1>5, <1>6 DEF Counted, CountsTyped
  <2>2. Standing' <=> Standing
    BY <1>3 DEF Standing
  <2>3. at' \in {"after_tool_calls", "done"}
    BY <1>1, <2>1 DEF OutsideMoves
  <2>4. late = 1 /\ Standing
    BY <1>4, <1>6, <2>1 DEF LateOnce
  <2>5. QED BY <1>2, <2>2, <2>3, <2>4 DEF LateOnce
<1>11. Recorded'
  <2>1. acted' <= kept' + 1
    BY <1>2, <1>4 DEF Recorded
  <2>2. kept < acted => at = "leave" /\ result \in Requests
    <3>1. at \in Drafting => ~(kept < acted)
      BY <1>4, <1>5, <1>6 DEF Counted, CountsTyped
    <3>2. QED BY <1>4, <1>6, <3>1 DEF Recorded
  <2>3. kept < acted =>
          at' = "done" /\ status' \in {"canceled", "paused", "succeeded_partial"}
    BY <1>1, <2>2 DEF OutsideMoves, Drafting, Requests
  <2>4. QED BY <1>2, <2>1, <2>3 DEF Recorded
<1>12. Unasked'
  <2>1. report = "none"
    BY <1>4, <1>6 DEF Unasked, Drafting
  <2>2. at' # "done" => report' = "none"
    BY <1>1, <2>1 DEF OutsideMoves
  <2>3. report' = "final" => at = "report"
    BY <1>1, <2>1 DEF OutsideMoves
  <2>4. CompletedUnasked'
    <3>1. Standing' <=> Standing
      BY <1>3 DEF Standing
    <3>2. report' = "final" /\ Standing => asked[1] = "report" \/ AskedTooLate
      BY <1>4, <2>3 DEF Unasked
    <3>3. QED BY <1>2, <3>1, <3>2 DEF CompletedUnasked, AskedTooLate
  <2>5. QED BY <1>6, <2>2, <2>4 DEF Unasked
<1>13. Telling'
  <2>1. at \in Drafting => status = "running"
    BY <1>4, <1>6 DEF Telling
  <2>2. at = "leave" /\ result = "asked" => told = "paused"
    BY <1>4 DEF Telling
  <2>3. at = "leave" /\ result = "none" => status = "running"
    BY <1>4 DEF Telling, Requests
  <2>4. LastWordIsTrue'
    BY <1>1 DEF OutsideMoves, LastWordIsTrue
  <2>5. at' = "after_tool_calls" =>
          \/ status' = "running"
          \/ status' = "requires_approval" /\ told' = "paused"
          \/ status' = "blocked" /\ told' = "blocked"
    BY <1>1, <2>2, <2>3 DEF OutsideMoves
  <2>6. at' \in Early => status' = "running"
    BY <1>1, <2>1 DEF OutsideMoves, Early
  <2>7. QED BY <1>6, <2>4, <2>5, <2>6 DEF Telling
<1>14. Waiting'
  <2>1. at \in Drafting \cup {"report"} => pending = 0
    BY <1>4, <1>6 DEF Waiting
  <2>2. at = "leave" /\ pending = 1 => result \in {"asked"} \cup Requests
    BY <1>4 DEF Waiting
  <2>3. at' \in Early => pending' = 0
    BY <1>2, <1>6, <2>1
  <2>4. at' = "after_tool_calls" /\ pending' = 1 => status' = "requires_approval"
    BY <1>1, <1>2, <2>1, <2>2 DEF OutsideMoves, Requests
  <2>5. AskedIsShown'
    <3> SUFFICES ASSUME at' = "done", pending = 1
                 PROVE  \/ status' \in {"requires_approval", "canceled", "paused",
                                        "succeeded_partial"}
                        \/ ~observed
      BY <1>2, <1>3 DEF AskedIsShown
    <3>1. at = "leave" /\ result \in {"asked"} \cup Requests
      BY <1>6, <2>1, <2>2
    <3>2. QED BY <1>1, <3>1 DEF OutsideMoves, Requests, Drafting
  <2>6. QED BY <1>6, <2>3, <2>4, <2>5 DEF Waiting
<1>15. QED BY <1>8, <1>9, <1>10, <1>11, <1>12, <1>13, <1>14 DEF IInv

LEMMA LoopKeeps ==
    ASSUME IInv, Loop
    PROVE  IInv'
<1>1. /\ at = "loop"
      /\ \/ /\ step < Len(plan) /\ step < MaxSteps
            /\ at' = "before_tool_call" /\ step' = step + 1
         \/ at' = "leave" /\ step' = step
      /\ result' \in {"none", "failed"} /\ (at' = "before_tool_call" => result' = "none")
      /\ UNCHANGED <<reading, plan, status, told, report, pending, acted, kept, requests,
                     asked, late>>
  <2>1. /\ at = "loop"
        /\ at' = IF step < Len(plan) /\ step < MaxSteps THEN "before_tool_call" ELSE "leave"
        /\ step' = IF step < Len(plan) /\ step < MaxSteps THEN step + 1 ELSE step
        /\ result' = IF step < Len(plan) /\ step >= MaxSteps THEN "failed" ELSE "none"
        /\ UNCHANGED <<reading, plan, status, told, report, pending, acted, kept,
                       requests, asked, late>>
    BY DEF Loop, Rest, others, outcome, browser
  <2>2. step \in Nat /\ MaxSteps \in Nat
    BY PlanIsASeq, LibraryRunAssumption DEF IInv, TypeOK
  <2>3. CASE step < Len(plan) /\ step < MaxSteps
    BY <2>1, <2>2, <2>3
  <2>4. CASE ~(step < Len(plan) /\ step < MaxSteps)
    BY <2>1, <2>4
  <2>5. QED BY <2>3, <2>4
<1>2. flags' = flags /\ observed' = observed
  BY DEF Loop, Rest, others, browser
<1>3. TypeOK /\ Counted /\ LateOnce /\ Recorded /\ Unasked /\ Telling /\ Waiting
  BY DEF IInv
<1>4. FlagsTyped /\ WordsTyped /\ CountsTyped
  BY <1>3, TypeParts
<1>5. reading = 0
  BY <1>1, <1>3 DEF Counted, Checks, HandlerChecks, LoopChecks, ExecutorChecks
<1>6. TypeOK'
  <2>1. FlagsTyped'
    BY <1>2, <1>4 DEF FlagsTyped
  <2>2. at' \in Checks \cup Work
    BY <1>1 DEF Checks, LoopChecks, Work
  <2>3. WordsTyped'
    BY <1>1, <1>4, <2>2 DEF WordsTyped
  <2>4. step' \in 0..Len(plan')
    <3>1. Len(plan) \in Nat /\ step \in 0..Len(plan)
      BY <1>4, PlanIsASeq DEF CountsTyped
    <3>2. QED BY <1>1, <3>1
  <2>5. CountsTyped'
    BY <1>1, <1>4, <2>4 DEF CountsTyped
  <2>6. QED BY <2>1, <2>3, <2>5, TypePartsNext
<1>7. Counted'
  <2>1. step \in Nat /\ acted \in Nat /\ MaxSteps \in Nat /\ acted <= step /\ step <= MaxSteps
        /\ late <= acted
    <3>1. Len(plan) \in Nat
      BY <1>4, PlanIsASeq DEF CountsTyped
    <3>2. QED BY <1>3, <1>4, <3>1, LibraryRunAssumption DEF Counted, CountsTyped
  <2>2. at' \in {"leave", "before_tool_call"}
    BY <1>1
  <2>3. QED BY <1>1, <1>5, <2>1, <2>2 DEF Counted, Early
<1>8. LateOnce'
  <2>1. Standing' <=> Standing
    BY <1>2 DEF Standing
  <2>2. QED BY <1>1, <1>2, <1>3, <1>5, <2>1 DEF LateOnce
<1>9. Recorded'
  BY <1>1, <1>3 DEF Recorded
<1>10. Unasked'
  BY <1>1, <1>3 DEF Unasked, CompletedUnasked
<1>11. Telling'
  BY <1>1, <1>3 DEF Telling, LastWordIsTrue, Early
<1>12. Waiting'
  BY <1>1, <1>3 DEF Waiting, AskedIsShown, Early
<1>13. QED BY <1>6, <1>7, <1>8, <1>9, <1>10, <1>11, <1>12 DEF IInv

\* What a call comes to: it asks, is refused, or has reached the browser.
Resulting ==
    \/ /\ pending' = pending + 1 /\ told' = "paused" /\ result' = "asked"
       /\ at' = "after_tool_call" /\ acted' = acted
    \/ /\ pending' = pending /\ told' = told /\ result' \in {"blocked", "failed"}
       /\ at' = "after_tool_call" /\ acted' = acted
    \/ /\ pending' = pending /\ told' = told /\ result' = "failed"
       /\ at' = "after_browser_action" /\ acted' = acted
    \/ /\ pending' = pending /\ told' = told /\ result' \in {"none", "blocked", "failed"}
       /\ at' = "after_browser_action" /\ acted' = acted + 1
    \/ /\ pending' = pending /\ told' = told /\ result' \in {"blocked", "failed"}
       /\ at' = "after_tool_call" /\ acted' = acted + 1

\* A result asks when a call waits for an approval, and only then; a call that
\* reaches the browser is one of the steps.
LEMMA ExecuteKeeps ==
    ASSUME IInv, Execute
    PROVE  IInv'
<1>1. /\ at = "tool"
      /\ late' = IF Standing /\ acted' > acted THEN late + 1 ELSE late
      /\ UNCHANGED <<reading, status, report, kept, requests, asked, plan, step>>
  BY DEF Execute, others, planned
<1>2. flags' = flags
  BY DEF Execute, others
<1>3. Resulting
  <2>1. Ask \/ Block \/ (\E tool : Act(tool) \/ Fail(tool))
        \/ (at' = "after_browser_action" /\ result' = "failed"
              /\ UNCHANGED <<observed, acted, pending, told>>)
    BY DEF Execute
  <2>2. CASE Ask
    BY <2>2 DEF Ask, Resulting
  <2>3. CASE Block
    BY <2>3 DEF Block, Resulting
  <2>4. ASSUME NEW tool, Act(tool) PROVE Resulting
    BY <2>4 DEF Act, Resulting
  <2>5. ASSUME NEW tool, Fail(tool) PROVE Resulting
    BY <2>5 DEF Fail, Resulting
  <2>6. QED BY <2>1, <2>2, <2>3, <2>4, <2>5 DEF Resulting
<1>4. observed' \in BOOLEAN
  <2>1. observed \in BOOLEAN
    BY DEF IInv, TypeOK
  <2>2. \A tool : (observed \/ tool = "click") \in BOOLEAN
                  /\ (observed \/ tool \in {"observe", "click"}) \in BOOLEAN
    OBVIOUS
  <2>3. QED BY <2>1, <2>2, Zenon DEF Execute, Ask, Block, Act, Fail
<1>5. TypeOK /\ Counted /\ LateOnce /\ Recorded /\ Unasked /\ Telling /\ Waiting
  BY DEF IInv
<1>6. FlagsTyped /\ WordsTyped /\ CountsTyped
  BY <1>5, TypeParts
<1>7. /\ at' \in {"after_tool_call", "after_browser_action"}
      /\ acted' = acted \/ acted' = acted + 1
      /\ acted \in Nat /\ step \in Nat /\ MaxSteps \in Nat /\ kept \in Nat /\ late \in Nat
      /\ acted < step /\ step <= MaxSteps /\ reading = 0 /\ pending = 0 /\ late = 0
      /\ kept = acted
  <2>1. Len(plan) \in Nat
    BY <1>6, PlanIsASeq DEF CountsTyped
  <2>2. /\ acted \in Nat /\ step \in Nat /\ MaxSteps \in Nat /\ kept \in 0..acted
        /\ late \in Nat
    BY <1>6, <2>1, LibraryRunAssumption DEF CountsTyped
  <2>3. acted < step /\ step <= MaxSteps /\ reading = 0
    BY <1>1, <1>5 DEF Counted, Checks, HandlerChecks, LoopChecks, ExecutorChecks
  <2>4. late = 0
    BY <1>1, <1>5, <2>2 DEF LateOnce
  <2>5. ~(kept < acted)
    BY <1>1, <1>5 DEF Recorded
  <2>6. pending = 0
    BY <1>1, <1>5 DEF Waiting
  <2>7. QED BY <1>3, <2>2, <2>3, <2>4, <2>5, <2>6 DEF Resulting
<1>8. late' = 0 \/ (late' = 1 /\ Standing /\ acted' = acted + 1)
  BY <1>1, <1>7
<1>9. TypeOK'
  <2>1. FlagsTyped'
    BY <1>2, <1>4, <1>6 DEF FlagsTyped
  <2>2. at' \in Checks \cup Work
    BY <1>7 DEF Checks, LoopChecks, ExecutorChecks
  <2>3. told' \in {told, "paused"} /\ result' \in {"none", "asked", "blocked", "failed"}
    BY <1>3 DEF Resulting
  <2>4. WordsTyped'
    BY <1>1, <1>6, <2>2, <2>3 DEF WordsTyped
  <2>5. /\ pending' \in 0..1 /\ acted' \in 0..MaxSteps /\ late' \in 0..MaxSteps
        /\ kept' \in 0..acted'
    BY <1>1, <1>3, <1>7, <1>8 DEF Resulting
  <2>6. CountsTyped'
    BY <1>1, <1>6, <2>5 DEF CountsTyped
  <2>7. QED BY <2>1, <2>4, <2>6, TypePartsNext
<1>10. Counted'
  BY <1>1, <1>7, <1>8 DEF Counted, Early
<1>11. LateOnce'
  <2>1. Standing' <=> Standing
    BY <1>2 DEF Standing
  <2>2. QED BY <1>1, <1>7, <1>8, <2>1 DEF LateOnce
<1>12. Recorded'
  BY <1>1, <1>7 DEF Recorded
<1>13. Unasked'
  <2>1. report' = "none"
    BY <1>1, <1>5 DEF Unasked
  <2>2. QED BY <1>7, <2>1 DEF Unasked, CompletedUnasked
<1>14. Telling'
  <2>1. status' = "running"
    BY <1>1, <1>5 DEF Telling
  <2>2. QED BY <1>3, <1>7, <2>1 DEF Resulting, Telling, LastWordIsTrue, Early
<1>15. Waiting'
  BY <1>3, <1>7 DEF Resulting, Waiting, AskedIsShown, Early
<1>16. QED BY <1>9, <1>10, <1>11, <1>12, <1>13, <1>14, <1>15 DEF IInv

LEMMA RecordKeeps ==
    ASSUME IInv, Record
    PROVE  IInv'
<1>1. /\ at = "record"
      /\ kept' = IF acted > kept /\ result \notin Requests THEN kept + 1 ELSE kept
      /\ at' = IF result = "none" THEN "loop" ELSE "leave"
      /\ UNCHANGED <<reading, result, status, told, report, pending, acted, requests,
                     asked, late, plan, step>>
  BY DEF Record, Rest, others, outcome, planned
<1>2. flags' = flags /\ observed' = observed
  BY DEF Record, Rest, others
<1>3. TypeOK /\ Counted /\ LateOnce /\ Recorded /\ Unasked /\ Telling /\ Waiting
  BY DEF IInv
<1>4. FlagsTyped /\ WordsTyped /\ CountsTyped
  BY <1>3, TypeParts
<1>5. /\ acted \in Nat /\ kept \in Nat /\ kept <= acted /\ acted <= kept + 1
      /\ result = "none" => result \notin Requests
      /\ at' \in {"loop", "leave"}
  BY <1>1, <1>3, <1>4 DEF Recorded, CountsTyped, Requests
<1>6. kept' \in 0..acted /\ (kept' < acted => result \in Requests)
  BY <1>1, <1>5
<1>7. TypeOK'
  <2>1. FlagsTyped'
    BY <1>2, <1>4 DEF FlagsTyped
  <2>2. at' \in Checks \cup Work
    BY <1>5 DEF Work
  <2>3. WordsTyped'
    BY <1>1, <1>4, <2>2 DEF WordsTyped
  <2>4. CountsTyped'
    BY <1>1, <1>4, <1>6 DEF CountsTyped
  <2>5. QED BY <2>1, <2>3, <2>4, TypePartsNext
<1>8. Counted'
  <2>1. reading = 0
    BY <1>1, <1>3 DEF Counted, Checks, HandlerChecks, LoopChecks, ExecutorChecks
  <2>2. QED BY <1>1, <1>3, <1>5, <2>1 DEF Counted, Early
<1>9. LateOnce'
  <2>1. Standing' <=> Standing
    BY <1>2 DEF Standing
  <2>2. QED BY <1>1, <1>2, <1>3, <1>5, <2>1 DEF LateOnce
<1>10. Recorded'
  <2>1. acted <= kept' + 1
    BY <1>1, <1>5
  <2>2. kept' < acted => at' = "leave" /\ result' \in Requests
    BY <1>1, <1>5, <1>6
  <2>3. QED BY <1>1, <2>1, <2>2 DEF Recorded
<1>11. Unasked'
  BY <1>1, <1>3, <1>5 DEF Unasked, CompletedUnasked
<1>12. Telling'
  BY <1>1, <1>3, <1>5 DEF Telling, LastWordIsTrue, Early
<1>13. Waiting'
  <2>1. result = "none" => pending = 0
    BY <1>1, <1>3, <1>4 DEF Waiting, CountsTyped, Requests
  <2>2. QED BY <1>1, <1>3, <1>5, <2>1 DEF Waiting, AskedIsShown, Early
<1>14. QED BY <1>7, <1>8, <1>9, <1>10, <1>11, <1>12, <1>13 DEF IInv

LEMMA StutterKeeps ==
    ASSUME IInv, UNCHANGED vars
    PROVE  IInv'
<1>1. /\ UNCHANGED <<at, reading, plan, step, result, status, told, report, pending,
                     acted, kept, requests, asked, late>>
      /\ flags' = flags /\ observed' = observed
  BY DEF vars
<1>2. TypeOK /\ Counted /\ LateOnce /\ Recorded /\ Unasked /\ Telling /\ Waiting
  BY DEF IInv
<1>3. TypeOK'
  <2>1. FlagsTyped /\ WordsTyped /\ CountsTyped
    BY <1>2, TypeParts
  <2>2. FlagsTyped' /\ WordsTyped' /\ CountsTyped'
    BY <1>1, <2>1 DEF FlagsTyped, WordsTyped, CountsTyped
  <2>3. QED BY <2>2, TypePartsNext
<1>4. Standing' <=> Standing
  BY <1>1 DEF Standing
<1>5. Counted' /\ LateOnce' /\ Recorded'
  BY <1>1, <1>2, <1>4 DEF Counted, LateOnce, Recorded
<1>6. Unasked'
  BY <1>1, <1>2, <1>4 DEF Unasked, CompletedUnasked, AskedTooLate
<1>7. Telling' /\ Waiting'
  BY <1>1, <1>2 DEF Telling, Waiting, LastWordIsTrue, AskedIsShown
<1>8. QED BY <1>3, <1>5, <1>6, <1>7 DEF IInv

LEMMA NextIInv == IInv /\ [Next]_vars => IInv'
<1> SUFFICES ASSUME IInv, [Next]_vars PROVE IInv'
  OBVIOUS
<1>1. CASE Read
  <2>1. TypeOK
    BY DEF IInv
  <2>2. /\ at \in Checks
        /\ UNCHANGED <<plan, step, observed, pending, acted, kept, requests, asked, late>>
        /\ ReadOn \/ LetPass \/ Heeded
    BY <1>1, <2>1, ReadSplits
  <2>3. QED BY <2>2, ReadOnKeeps, LetPassKeeps, HeededKeeps
<1>2. CASE Outside
  BY <1>2, OutsideKeeps
<1>3. CASE \E r \in Requests \cup {"resumed"} : Request(r)
  BY <1>3, RequestKeeps
<1>4. CASE UNCHANGED vars
  BY <1>4, StutterKeeps
<1>5. QED BY <1>1, <1>2, <1>3, <1>4, LoopKeeps, ExecuteKeeps, RecordKeeps
          DEF Next, Run, Finished, Outside

-----------------------------------------------------------------------------
(* The theorems.                                                           *)

\* The state of a run is always well formed.
THEOREM TypeCorrect == Spec => []TypeOK
<1>1. IInv => TypeOK
  BY DEF IInv
<1>2. QED BY InitIInv, NextIInv, <1>1, PTL DEF Spec

\* A standing request costs a run at most one late call, no run that was asked
\* in time is completed with its report, and only a request hides a call.
THEOREM RequestsCostLittle == Spec => []RequestsCost
<1>1. IInv => RequestsCost
  <2> SUFFICES ASSUME IInv PROVE RequestsCost
    OBVIOUS
  <2>1. late \in Nat /\ acted \in Nat /\ kept \in Nat /\ kept <= acted
    BY DEF IInv, TypeOK
  <2>2. LateActions
    BY <2>1 DEF IInv, LateOnce, LateActions
  <2>3. CompletedUnasked
    BY DEF IInv, Unasked
  <2>4. OnlyRequestsHide
    BY <2>1 DEF IInv, Recorded, OnlyRequestsHide
  <2>5. QED BY <2>2, <2>3, <2>4 DEF RequestsCost
<1>2. QED BY InitIInv, NextIInv, <1>1, PTL DEF Spec

\* Whenever a run has ended, its last event says what its status says, and a
\* call that waits for an approval is shown to wait: what EndsTruly adds is that
\* every run ends.
THEOREM EndsAreTrue == Spec => [](LastWordIsTrue /\ AskedIsShown)
<1>1. IInv => LastWordIsTrue /\ AskedIsShown
  BY DEF IInv, Telling, Waiting
<1>2. QED BY InitIInv, NextIInv, <1>1, PTL DEF Spec

-----------------------------------------------------------------------------
(* The end of a run.                                                       *)

\* Steps of the run from a place to its end if no other call is made.
Ahead(place) ==
    CASE place = "before_prompt_build"      -> 24
      [] place = "prompt"                   -> 21
      [] place = "before_llm_call"          -> 20
      [] place = "planning"                 -> 17
      [] place = "after_llm_call"           -> 16
      [] place = "validating"               -> 13
      [] place = "before_tool_calls"        -> 12
      [] place = "before_tool_call"         -> 23
      [] place = "before_browser_action"    -> 20
      [] place = "tool"                     -> 17
      [] place = "after_browser_action"     -> 16
      [] place = "after_tool_call"          -> 13
      [] place = "record"                   -> 10
      [] place = "loop"                     -> 9
      [] place = "leave"                    -> 8
      [] place = "after_tool_calls"         -> 7
      [] place = "before_report_generation" -> 4
      [] place = "report"                   -> 1

\* A call takes fifteen: four checkpoints of three flags, its execution, its
\* record and the loop's next turn.
LeftFrom(place, read, s) ==
    IF place = "done" THEN 0 ELSE Ahead(place) - read + 15 * (MaxSteps - s)

StepsLeft == LeftFrom(at, reading, step)

StepsCounted == StepsLeft \in 0..(24 + 15 * MaxSteps) /\ (StepsLeft = 0 <=> at = "done")

\* A step of the run is one less, and nothing that is requested is one more.
RunAdvances ==
    /\ Run => StepsLeft' < StepsLeft
    /\ StepsLeft' <= StepsLeft

RunsAdvance == [][RunAdvances]_vars

\* The places by the steps that are ahead.
LEMMA AheadIs ==
    ASSUME NEW place
    PROVE  /\ place = "before_prompt_build" => Ahead(place) = 24
           /\ place = "before_tool_call" => Ahead(place) = 23
           /\ place = "prompt" => Ahead(place) = 21
           /\ place \in {"before_llm_call", "before_browser_action"} => Ahead(place) = 20
           /\ place \in {"planning", "tool"} => Ahead(place) = 17
           /\ place \in {"after_llm_call", "after_browser_action"} => Ahead(place) = 16
           /\ place \in {"validating", "after_tool_call"} => Ahead(place) = 13
           /\ place = "before_tool_calls" => Ahead(place) = 12
           /\ place = "record" => Ahead(place) = 10
           /\ place = "loop" => Ahead(place) = 9
           /\ place = "leave" => Ahead(place) = 8
           /\ place = "after_tool_calls" => Ahead(place) = 7
           /\ place = "before_report_generation" => Ahead(place) = 4
           /\ place = "report" => Ahead(place) = 1
<1>1. place = "before_prompt_build" => Ahead(place) = 24
  BY DEF Ahead
<1>2. place = "before_tool_call" => Ahead(place) = 23
  BY DEF Ahead
<1>3. place = "prompt" => Ahead(place) = 21
  BY DEF Ahead
<1>4. place \in {"before_llm_call", "before_browser_action"} => Ahead(place) = 20
  BY DEF Ahead
<1>5. place \in {"planning", "tool"} => Ahead(place) = 17
  BY DEF Ahead
<1>6. place \in {"after_llm_call", "after_browser_action"} => Ahead(place) = 16
  BY DEF Ahead
<1>7. place \in {"validating", "after_tool_call"} => Ahead(place) = 13
  BY DEF Ahead
<1>8. place = "before_tool_calls" => Ahead(place) = 12
  BY DEF Ahead
<1>9. place = "record" => Ahead(place) = 10
  BY DEF Ahead
<1>10. place = "loop" => Ahead(place) = 9
  BY DEF Ahead
<1>11. place = "leave" => Ahead(place) = 8
  BY DEF Ahead
<1>12. place = "after_tool_calls" => Ahead(place) = 7
  BY DEF Ahead
<1>13. place = "before_report_generation" => Ahead(place) = 4
  BY DEF Ahead
<1>14. place = "report" => Ahead(place) = 1
  BY DEF Ahead
<1>15. QED BY <1>1, <1>2, <1>3, <1>4, <1>5, <1>6, <1>7, <1>8, <1>9, <1>10, <1>11, <1>12, <1>13, <1>14

LEMMA AheadCounted ==
    ASSUME NEW place \in (Checks \cup Work) \ {"done"}
    PROVE  Ahead(place) \in 1..24 /\ (place \in Checks => Ahead(place) >= 4)
<1>1. CASE place \in Checks
  BY <1>1, AheadIs DEF Checks, HandlerChecks, LoopChecks, ExecutorChecks
<1>2. CASE place \in Work
  BY <1>2, AheadIs DEF Work, Checks, HandlerChecks, LoopChecks, ExecutorChecks
<1>3. QED BY <1>1, <1>2

LEMMA CountedAlways == IInv => StepsCounted
<1> SUFFICES ASSUME IInv PROVE StepsCounted
  OBVIOUS
<1>1. /\ at \in Checks \cup Work /\ reading \in 0..2
      /\ at \notin Checks => reading = 0
      /\ step \in Nat /\ step <= MaxSteps /\ MaxSteps \in Nat
  <2>1. step \in Nat
    BY PlanIsASeq DEF IInv, TypeOK
  <2>2. QED BY <2>1, LibraryRunAssumption DEF IInv, TypeOK, Counted
<1>2. CASE at = "done"
  BY <1>1, <1>2 DEF StepsCounted, StepsLeft, LeftFrom
<1>3. CASE at # "done"
  <2>1. Ahead(at) \in 1..24 /\ (at \in Checks => Ahead(at) >= 4)
    BY <1>1, <1>3, AheadCounted
  <2>2. StepsLeft = Ahead(at) - reading + 15 * (MaxSteps - step)
    BY <1>3 DEF StepsLeft, LeftFrom
  <2>3. 15 * (MaxSteps - step) \in 0..(15 * MaxSteps)
    BY <1>1
  <2>4. StepsLeft \in 1..(24 + 15 * MaxSteps)
    BY <1>1, <2>1, <2>2, <2>3
  <2>5. QED BY <1>3, <2>4 DEF StepsCounted
<1>4. QED BY <1>2, <1>3

LEMMA CountedAlwaysNext == IInv' => StepsCounted'
BY CountedAlways, PTL

\* A step that begins no call is an advance if it leads to a place with less ahead.
LEMMA FewerLeft ==
    ASSUME IInv, IInv', step' = step, at # "done",
           at' # "done" => Ahead(at') - reading' < Ahead(at) - reading
    PROVE  StepsLeft' < StepsLeft
<1>1. StepsLeft \in Nat /\ StepsLeft > 0
  BY CountedAlways, LibraryRunAssumption DEF StepsCounted
<1>2. CASE at' = "done"
  BY <1>1, <1>2 DEF StepsLeft, LeftFrom
<1>3. CASE at' # "done"
  <2>1. /\ StepsLeft = (Ahead(at) - reading) + 15 * (MaxSteps - step)
        /\ StepsLeft' = (Ahead(at') - reading') + 15 * (MaxSteps - step)
    BY <1>3 DEF StepsLeft, LeftFrom
  <2>2. Ahead(at) \in 1..24 /\ Ahead(at') \in 1..24 /\ reading \in 0..2 /\ reading' \in 0..2
    BY <1>3, AheadCounted DEF IInv, TypeOK
  <2>3. 15 * (MaxSteps - step) \in Int
    BY PlanIsASeq, LibraryRunAssumption DEF IInv, TypeOK
  <2>4. Ahead(at') - reading' < Ahead(at) - reading
    BY <1>3
  <2>5. QED BY <2>1, <2>2, <2>3, <2>4
<1>4. QED BY <1>2, <1>3

LEMMA ReadAdvances ==
    ASSUME IInv, IInv', Read
    PROVE  StepsLeft' < StepsLeft
<1>1. /\ at \in Checks /\ step' = step
      /\ ReadOn \/ LetPass \/ Heeded
  BY ReadSplits DEF IInv
<1>2. reading \in 0..2 /\ at # "done"
  BY <1>1 DEF IInv, TypeOK, Checks, HandlerChecks, LoopChecks, ExecutorChecks
<1>3. Ahead(at) \in 1..24 /\ Ahead(at) >= 4
  BY <1>1, <1>2, AheadCounted
<1>4. CASE ReadOn
  <2>1. at' = at /\ reading' = reading + 1
    BY <1>4 DEF ReadOn
  <2>2. Ahead(at') - reading' < Ahead(at) - reading
    BY <1>2, <1>3, <2>1
  <2>3. QED BY <1>1, <1>2, <2>2, FewerLeft
<1>5. CASE LetPass
  <2>1. reading = 2 /\ reading' = 0 /\ at' = After(at)
    BY <1>5 DEF LetPass, Pass
  <2>2. at' # "done" => Ahead(at') <= Ahead(at) - 3
    BY <1>1, <2>1, AheadIs DEF After, Checks, HandlerChecks, LoopChecks, ExecutorChecks
  <2>3. at' # "done" => Ahead(at') \in 1..24
    BY AheadCounted DEF IInv, TypeOK
  <2>4. at' # "done" => Ahead(at') - reading' < Ahead(at) - reading
    BY <1>3, <2>1, <2>2, <2>3
  <2>5. QED BY <1>1, <1>2, <2>4, FewerLeft
<1>6. CASE Heeded
  <2>1. PICK r \in Requests : Heed(r)
    BY <1>6 DEF Heeded
  <2>2. reading' = 0
    BY <1>6 DEF Heeded
  <2>3. \/ at' = "done"
        \/ at \in LoopChecks /\ at' = "leave"
        \/ at \in ExecutorChecks /\ at' = "after_tool_call"
    BY <2>1 DEF Heed, EndRequested, EndPartial, End
  <2>4. at' # "done" => Ahead(at') <= Ahead(at) - 3
    BY <2>3, AheadIs DEF LoopChecks, ExecutorChecks
  <2>5. at' # "done" => Ahead(at') \in 1..24
    BY AheadCounted DEF IInv, TypeOK
  <2>6. at' # "done" => Ahead(at') - reading' < Ahead(at) - reading
    BY <1>2, <1>3, <2>2, <2>4, <2>5
  <2>7. QED BY <1>1, <1>2, <2>6, FewerLeft
<1>7. QED BY <1>1, <1>4, <1>5, <1>6

\* The work between two checkpoints leaves the flags to be read.
LEMMA WorkAdvances ==
    ASSUME IInv, IInv', at \in Work \ {"done"}, step' = step, reading' = reading,
           at' # "done" => Ahead(at') < Ahead(at)
    PROVE  StepsLeft' < StepsLeft
<1>1. reading \in 0..2 /\ Ahead(at) \in 1..24
  BY AheadCounted DEF IInv, TypeOK
<1>2. at' # "done" => Ahead(at') \in 1..24
  BY AheadCounted DEF IInv, TypeOK
<1>3. at' # "done" => Ahead(at') - reading' < Ahead(at) - reading
  BY <1>1, <1>2
<1>4. QED BY <1>3, FewerLeft

LEMMA OutsideAdvances ==
    ASSUME IInv, IInv', Outside
    PROVE  StepsLeft' < StepsLeft
<1>1. reading' = reading /\ step' = step
  BY DEF Outside, BuildPrompt, Plan, Validate, Leave, Report, Rest, planned
<1>2. \/ at = "prompt" /\ at' \in {"before_llm_call", "done"}
      \/ at = "planning" /\ at' \in {"after_llm_call", "done"}
      \/ at = "validating" /\ at' \in {"before_tool_calls", "done"}
      \/ at = "leave" /\ at' \in {"after_tool_calls", "done"}
      \/ at = "report" /\ at' = "done"
  BY DEF Outside, BuildPrompt, Plan, Validate, Leave, Report,
         EndRequested, EndPartial, EndFailed, End
<1>3. at \in Work \ {"done"} /\ (at' # "done" => Ahead(at') < Ahead(at))
  BY <1>2, AheadIs DEF Work
<1>4. QED BY <1>1, <1>3, WorkAdvances

LEMMA LoopAdvances ==
    ASSUME IInv, IInv', Loop
    PROVE  StepsLeft' < StepsLeft
<1>1. /\ at = "loop" /\ reading' = reading
      /\ \/ at' = "before_tool_call" /\ step' = step + 1
         \/ at' = "leave" /\ step' = step
  BY DEF Loop, Rest
<1>2. CASE at' = "leave" /\ step' = step
  <2>1. at \in Work \ {"done"} /\ Ahead(at') < Ahead(at)
    BY <1>1, <1>2, AheadIs DEF Work
  <2>2. QED BY <1>1, <1>2, <2>1, WorkAdvances
<1>3. CASE at' = "before_tool_call" /\ step' = step + 1
  <2>1. Ahead(at) = 9 /\ Ahead(at') = 23
    BY <1>1, <1>3, AheadIs
  <2>2. /\ StepsLeft = 9 - reading + 15 * (MaxSteps - step)
        /\ StepsLeft' = 23 - reading + 15 * (MaxSteps - (step + 1))
    BY <1>1, <1>3, <2>1 DEF StepsLeft, LeftFrom
  <2>3. step \in Nat /\ MaxSteps \in Nat /\ reading \in 0..2
    BY PlanIsASeq, LibraryRunAssumption DEF IInv, TypeOK
  <2>4. QED BY <2>2, <2>3
<1>4. QED BY <1>1, <1>2, <1>3

LEMMA ExecuteAdvances ==
    ASSUME IInv, IInv', Execute
    PROVE  StepsLeft' < StepsLeft
<1>1. at = "tool" /\ step' = step /\ reading' = reading
  BY DEF Execute, planned
<1>2. at' \in {"after_tool_call", "after_browser_action"}
  BY DEF Execute, Ask, Block, Act, Fail
<1>3. at \in Work \ {"done"} /\ Ahead(at') < Ahead(at)
  BY <1>1, <1>2, AheadIs DEF Work
<1>4. QED BY <1>1, <1>3, WorkAdvances

LEMMA RecordAdvances ==
    ASSUME IInv, IInv', Record
    PROVE  StepsLeft' < StepsLeft
<1>1. at = "record" /\ at' \in {"loop", "leave"} /\ step' = step /\ reading' = reading
  BY DEF Record, Rest, planned
<1>2. at \in Work \ {"done"} /\ Ahead(at') < Ahead(at)
  BY <1>1, AheadIs DEF Work
<1>3. QED BY <1>1, <1>2, WorkAdvances

LEMMA AdvanceStep == IInv /\ IInv' /\ [Next]_vars => RunAdvances
<1> SUFFICES ASSUME IInv, IInv', [Next]_vars PROVE RunAdvances
  OBVIOUS
<1>1. StepsLeft \in Nat /\ StepsLeft' \in Nat
  <2>1. StepsCounted /\ StepsCounted'
    BY CountedAlways, CountedAlwaysNext
  <2>2. QED BY <2>1, LibraryRunAssumption DEF StepsCounted
<1>2. Run => StepsLeft' < StepsLeft
  BY ReadAdvances, OutsideAdvances, LoopAdvances, ExecuteAdvances, RecordAdvances
     DEF Run, Outside
<1>3. ~Run => StepsLeft' = StepsLeft
  <2> SUFFICES ASSUME ~Run PROVE StepsLeft' = StepsLeft
    OBVIOUS
  <2>1. UNCHANGED vars \/ \E r \in Requests \cup {"resumed"} : Request(r)
    BY DEF Next, Finished
  <2>2. UNCHANGED <<at, reading, step>>
    BY <2>1 DEF Request, control, planned, vars
  <2>3. QED BY <2>2 DEF StepsLeft, LeftFrom
<1>4. QED BY <1>1, <1>2, <1>3 DEF RunAdvances

\* A run ends after 24 of its own steps and fifteen for each tool call of its
\* budget at most, whatever is requested meanwhile and in whatever order its
\* checkpoints read it: the bound behind EndsTruly.
THEOREM RunsAreBounded == Spec => []StepsCounted /\ RunsAdvance
<1>1. IInv => StepsCounted
  BY CountedAlways
<1>2. IInv /\ IInv' /\ [Next]_vars => [RunAdvances]_vars
  BY AdvanceStep
<1>3. QED BY InitIInv, NextIInv, <1>1, <1>2, PTL DEF Spec, RunsAdvance

================================================================================
