---------------------- MODULE ApprovalReplay_proofs ----------------------
(***************************************************************************)
(* Theorems about ApprovalReplay for every set of calls, verdicts, plans   *)
(* and handlers, and every bound on decisions and pages.                   *)
(***************************************************************************)
EXTENDS ApprovalReplay, TLAPS

Record == [call : Calls, state : {"pending", "approved", "rejected"}]

\* The node is at a step of the plan until it writes the report.
Placed == phase # "report" => pos <= Len(plan)

\* Wherever an approval id authorises something, the approval is granted: in
\* the override of the current invocation, in the answers the graph has been
\* resumed with, and at a handler that is about to resume it.  A tool about to
\* run without an override has passed the gate.
Granted ==
  /\ under # 0 => Approved(under)
  /\ \A k \in DOMAIN answers : Approved(answers[k])
  /\ \A h \in Handlers : hpc[h] \in {"lookup", "invoke"} => Approved(hid[h])
  /\ graph = "running" /\ phase \in {"override", "tool"} =>
       under # 0 \/ (phase = "tool" /\ "allow" \in Verdict[Call])

Inv == TypeOK /\ Placed /\ Granted /\ NothingUnasked

\* Until the report the node's step is a call.
LEMMA CallType ==
  ASSUME TypeOK, Placed, phase # "report" PROVE Call \in Calls
BY ConstantsAssumption DEF TypeOK, Placed, Call

\* Asking adds at most one request, to the end of the store.
LEMMA AskedGrows ==
  ASSUME TypeOK, NEW c \in Calls
  PROVE  /\ AskedApprovals(c) \in Seq(Record)
         /\ Len(AskedApprovals(c)) >= Len(approvals)
         /\ \A i \in Ids : AskedApprovals(c)[i] = approvals[i]
         /\ AskedPending(c) \subseteq 1 .. Len(AskedApprovals(c))
<1>1. approvals \in Seq(Record) /\ pending \subseteq 1 .. Len(approvals)
  BY DEF TypeOK, Record, Ids
<1>2. [call |-> c, state |-> "pending"] \in Record
  BY DEF Record
<1>3. CASE Existing(c) # {}
  BY <1>1, <1>3 DEF AskedApprovals, AskedPending, Ids
<1>4. CASE Existing(c) = {}
  <2> DEFINE entry == [call |-> c, state |-> "pending"]
  <2>1. AskedApprovals(c) = Append(approvals, entry)
    BY <1>4 DEF AskedApprovals
  <2>2. AskedPending(c) = pending \cup {Len(approvals) + 1}
    BY <1>4 DEF AskedPending
  <2>3. Len(approvals) \in Nat
    BY <1>1
  <2> HIDE DEF entry
  <2>4. /\ Append(approvals, entry) \in Seq(Record)
        /\ Len(Append(approvals, entry)) = Len(approvals) + 1
        /\ \A i \in 1 .. Len(approvals) : Append(approvals, entry)[i] = approvals[i]
    BY <1>1, <1>2 DEF entry
  <2>5. ASSUME NEW i \in pending \cup {Len(approvals) + 1}
        PROVE  i \in 1 .. Len(approvals) + 1
    BY <1>1, <2>3
  <2>6. QED BY <2>1, <2>2, <2>3, <2>4, <2>5 DEF Ids
<1>5. QED BY <1>3, <1>4

\* What a step may do to the store of approvals: it stays typed, it never
\* shrinks, and what has been granted stays granted.
Grows ==
  /\ approvals' \in Seq(Record)
  /\ Len(approvals') >= Len(approvals)
  /\ pending' \subseteq 1 .. Len(approvals')
  /\ \A i \in Ids : approvals'[i].call = approvals[i].call
  /\ \A i : Approved(i) => Approved(i)'

LEMMA AskingGrows ==
  ASSUME TypeOK, NEW c \in Calls, approvals' = AskedApprovals(c),
         pending' \subseteq AskedPending(c)
  PROVE  Grows
<1>1. /\ approvals' \in Seq(Record)
      /\ Len(approvals') >= Len(approvals)
      /\ \A i \in Ids : approvals'[i] = approvals[i]
      /\ pending' \subseteq 1 .. Len(approvals')
  BY AskedGrows
<1>2. Len(approvals) \in Nat /\ Len(approvals') \in Nat
  BY <1>1 DEF TypeOK
<1>3. \A i : Approved(i) => Approved(i)'
  BY <1>1, <1>2 DEF Approved, Ids
<1>4. QED BY <1>1, <1>3 DEF Grows

LEMMA UnchangedGrows ==
  ASSUME TypeOK, UNCHANGED approvals, pending' \subseteq pending PROVE Grows
BY DEF TypeOK, Grows, Record, Approved, Ids

LEMMA DecidingGrows ==
  ASSUME TypeOK, NEW h \in Handlers, NEW i \in Ids,
         NEW new \in {"approved", "rejected"}, DecideAs(h, i, new), UNCHANGED pending
  PROVE  Grows /\ (new = "approved" => Approved(i)')
<1>1. approvals \in Seq(Record) /\ i \in 1 .. Len(approvals)
  BY DEF TypeOK, Record, Ids
<1>2. approvals' = [approvals EXCEPT ![i].state = new]
  BY DEF DecideAs
<1>3. approvals' \in Seq(Record) /\ Len(approvals') = Len(approvals)
  <2>1. approvals[i] \in Record
    BY <1>1
  <2>2. [approvals[i] EXCEPT !.state = new] \in Record
    BY <2>1 DEF Record
  <2>3. QED BY <1>1, <1>2, <2>2
<1>4. \A j \in Ids : /\ approvals'[j].call = approvals[j].call
                     /\ approvals'[j].state = IF j = i THEN new ELSE approvals[j].state
  BY <1>1, <1>2 DEF Ids, Record
<1>5. approvals[i].state = "pending"
  BY DEF DecideAs, Undecided
<1>6. \A j : Approved(j) => Approved(j)'
  BY <1>3, <1>4, <1>5 DEF Approved, Ids
<1>7. new = "approved" => Approved(i)'
  BY <1>1, <1>3, <1>4 DEF Approved, Ids
<1>8. pending' \subseteq 1 .. Len(approvals') /\ Len(approvals') >= Len(approvals)
  BY <1>1, <1>3 DEF TypeOK, Ids
<1>9. QED BY <1>3, <1>4, <1>6, <1>7, <1>8 DEF Grows

\* The parts of Inv that only look at the store of approvals and the log.
LEMMA LogKept ==
  ASSUME TypeOK, NothingUnasked, Grows, UNCHANGED log PROVE NothingUnasked'
BY DEF NothingUnasked, Grows

LEMMA InitInv == ASSUME Init PROVE Inv
<1>1. TypeOK
  <2>1. pos \in 1 .. Len(plan) + 1 /\ opened \in 0 .. MaxPages /\ decisions \in 0 .. MaxDecisions
    BY ConstantsAssumption DEF Init
  <2>2. /\ answers \in Seq(Nat) /\ log \in Seq([call : Calls, id : Nat])
        /\ approvals \in Seq([call : Calls, state : {"pending", "approved", "rejected"}])
        /\ asked \in 0 .. Len(answers) /\ under \in 0 .. Len(approvals)
        /\ pending \subseteq Ids
    BY DEF Init
  <2>3. hid \in [Handlers -> 0 .. Len(approvals)]
    BY DEF Init
  <2>4. hpc \in [Handlers -> {"idle", "drop", "rejectMark"} \cup ResumeStep]
    BY DEF Init
  <2>5. /\ status \in TaskStatus /\ read \in TaskStatus /\ outcome \in Outcome
        /\ result \in Outcome /\ ctx \in ContextStatus
    BY DEF Init, Outcome, TaskStatus, ContextStatus
  <2>6. QED BY <2>1, <2>2, <2>3, <2>4, <2>5 DEF Init, TypeOK
<1>2. Placed
  BY ConstantsAssumption DEF Init, Placed
<1>3. Granted /\ NothingUnasked
  BY DEF Init, Granted, NothingUnasked
<1>4. QED BY <1>1, <1>2, <1>3 DEF Inv

-----------------------------------------------------------------------------
(* Steps of the node *)

\* The types of what the node writes, apart from the store and the override.
NodeType ==
  /\ pos \in 1 .. Len(plan) + 1
  /\ phase \in {"gate", "bridge", "override", "tool", "report"}
  /\ asked \in 0 .. Len(answers)
  /\ graph \in {"running", "interrupted", "ended"}
  /\ outcome \in Outcome
  /\ ctx \in ContextStatus
  /\ page \in BOOLEAN
  /\ observed \in BOOLEAN
  /\ opened \in 0 .. MaxPages
  /\ log \in Seq([call : Calls, id : Nat])

\* A tool that is about to run is authorised by the gate or by an override.
Authorised ==
  graph = "running" /\ phase \in {"override", "tool"} =>
    under # 0 \/ (phase = "tool" /\ "allow" \in Verdict[Call])

\* What is left to show of a step of the node.
LEMMA NodeInv ==
  ASSUME Inv, Grows, NodeType', under' = 0 \/ Approved(under)',
         Placed', Authorised', NothingUnasked',
         UNCHANGED <<plan, answers, service, handler, workerVars>>
  PROVE  Inv'
<1>1. Len(approvals) \in Nat /\ Len(approvals') \in Nat /\ Len(approvals') >= Len(approvals)
  BY DEF Inv, TypeOK, Grows
<1>2. under' \in 0 .. Len(approvals')
  BY <1>1 DEF Approved, Ids
<1>3. hid' \in [Handlers -> 0 .. Len(approvals')]
  BY <1>1 DEF Inv, TypeOK, handler
<1>4. TypeOK'
  BY <1>2, <1>3 DEF Inv, TypeOK, NodeType, Grows, Record, Ids, service, handler, workerVars
<1>5. Granted'
  <2>1. (\A k \in DOMAIN answers : Approved(answers[k]))'
    BY DEF Inv, Granted, Grows
  <2>2. (\A h \in Handlers : hpc[h] \in {"lookup", "invoke"} => Approved(hid[h]))'
    BY DEF Inv, Granted, Grows, handler
  <2>3. QED BY <2>1, <2>2 DEF Granted, Authorised
<1>6. QED BY <1>4, <1>5 DEF Inv

\* An action that ends the graph leaves the node where it was.
LEMMA EndType ==
  ASSUME TypeOK, NEW c \in {"completed", "failed", "blocked", "requires_approval"}, End(c),
         UNCHANGED <<plan, pos, phase, asked, answers, page, observed, opened, log>>
  PROVE  NodeType'
BY DEF TypeOK, End, NodeType, ContextStatus, Outcome

LEMMA NodeStepInv == ASSUME Inv, NodeStep PROVE Inv'
<1> USE DEF Inv
<1>0. UNCHANGED <<service, handler, workerVars>>
  BY DEF NodeStep
<1>1. CASE GateAllows
  <2>1. Grows
    BY <1>1, UnchangedGrows DEF GateAllows, store
  <2>2. NodeType'
    BY <1>1 DEF GateAllows, TypeOK, NodeType, graphVars
  <2>3. Placed' /\ Authorised' /\ under' = 0
    BY <1>1 DEF GateAllows, Placed, Authorised, At, Call, graphVars
  <2>4. NothingUnasked' /\ UNCHANGED <<plan, answers>>
    BY <1>1, <2>1, LogKept DEF GateAllows, graphVars
  <2>5. QED BY <1>0, <2>1, <2>2, <2>3, <2>4, NodeInv
<1>2. CASE GateBlocks
  <2>1. Grows
    BY <1>2, UnchangedGrows DEF GateBlocks, store
  <2>2. UNCHANGED <<plan, pos, phase, under, asked, answers, page, observed, opened, log>>
        /\ graph' = "ended"
    BY <1>2 DEF GateBlocks, nodeVars, End
  <2>3. NodeType'
    <3>1. PICK c \in {"failed", "blocked"} : End(c)
      BY <1>2 DEF GateBlocks
    <3>2. QED BY <2>2, <3>1, EndType
  <2>4. Placed' /\ Authorised' /\ (under' = 0 \/ Approved(under)')
    BY <2>1, <2>2 DEF Placed, Authorised, Granted, Grows, Call
  <2>5. NothingUnasked'
    BY <2>1, <2>2, LogKept
  <2>6. QED BY <1>0, <2>1, <2>2, <2>3, <2>4, <2>5, NodeInv
<1>3. CASE GateAsks
  <2>1. Grows
    BY <1>3, CallType, AskingGrows DEF GateAsks, AskFor, At
  <2>2. UNCHANGED <<plan, pos, under, asked, answers, page, observed, opened, log>>
    BY <1>3 DEF GateAsks, graphVars
  <2>3. NodeType'
    BY <1>3, <2>2 DEF GateAsks, TypeOK, NodeType, graphVars
  <2>4. phase' \in {"gate", "bridge"} /\ phase = "gate"
    BY <1>3 DEF GateAsks, At
  <2>5. Placed' /\ Authorised' /\ (under' = 0 \/ Approved(under)')
    BY <2>1, <2>2, <2>4 DEF Placed, Authorised, Granted, Grows
  <2>6. NothingUnasked'
    BY <2>1, <2>2, LogKept
  <2>7. QED BY <1>0, <2>1, <2>2, <2>3, <2>5, <2>6, NodeInv
<1>4. CASE Bridge
  <2>1. Grows
    BY <1>4, CallType, AskingGrows DEF Bridge, AskFor, At
  <2>2. UNCHANGED <<plan, pos, answers, page, observed, opened, log, outcome>> /\ phase = "bridge"
    BY <1>4 DEF Bridge, At
  <2>3. NothingUnasked'
    BY <2>1, <2>2, LogKept
  <2> DEFINE answer == AnswerTo(asked + 1)
  <2>4. CASE answer # 0 /\ asked' = asked + 1 /\ under' = answer /\ phase' = "override"
             /\ ctx' = "resuming" /\ graph' = graph
    <3>1. asked + 1 \in DOMAIN answers /\ answer = answers[asked + 1]
      BY <2>4 DEF AnswerTo, TypeOK
    <3>2. Approved(under)'
      BY <2>1, <2>4, <3>1 DEF Granted, Grows
    <3>3. NodeType'
      BY <2>2, <2>4, <3>1 DEF TypeOK, NodeType, ContextStatus
    <3>4. Placed' /\ Authorised'
      BY <2>2, <2>4 DEF Placed, Authorised
    <3>5. QED BY <1>0, <2>1, <2>2, <2>3, <3>2, <3>3, <3>4, NodeInv
  <2>5. CASE graph' = "interrupted" /\ ctx' = "requires_approval"
             /\ UNCHANGED <<phase, under, asked>>
    <3>1. NodeType'
      BY <2>2, <2>5 DEF TypeOK, NodeType, ContextStatus
    <3>2. Placed' /\ Authorised' /\ (under' = 0 \/ Approved(under)')
      BY <2>1, <2>2, <2>5 DEF Placed, Authorised, Granted, Grows
    <3>3. QED BY <1>0, <2>1, <2>2, <2>3, <3>1, <3>2, NodeInv
  <2>6. QED BY <1>4, <2>4, <2>5 DEF Bridge
<1>5. CASE OverrideAdmits
  <2>1. Grows
    BY <1>5, UnchangedGrows DEF OverrideAdmits, store
  <2>2. UNCHANGED <<plan, pos, under, asked, answers, page, observed, opened, log, graph, outcome, ctx>>
    BY <1>5 DEF OverrideAdmits, graphVars
  <2>3. phase = "override" /\ phase' = "tool"
    BY <1>5 DEF OverrideAdmits, At
  <2>4. NodeType' /\ Placed'
    BY <2>2, <2>3 DEF TypeOK, NodeType, Placed
  <2>5. Authorised' /\ (under' = 0 \/ Approved(under)')
    BY <2>1, <2>2, <2>3 DEF Authorised, Granted, Grows
  <2>6. NothingUnasked'
    BY <2>1, <2>2, LogKept
  <2>7. QED BY <1>0, <2>1, <2>2, <2>4, <2>5, <2>6, NodeInv
<1>6. CASE OverrideAsksAgain
  <2>1. Grows
    BY <1>6, CallType, AskingGrows DEF OverrideAsksAgain, At
  <2>2. UNCHANGED <<plan, pos, phase, under, asked, answers, page, observed, opened, log>>
        /\ graph' = "ended"
    BY <1>6 DEF OverrideAsksAgain, nodeVars, End
  <2>3. NodeType'
    BY <1>6, <2>2, EndType DEF OverrideAsksAgain
  <2>4. Placed' /\ Authorised' /\ (under' = 0 \/ Approved(under)')
    BY <2>1, <2>2 DEF Placed, Authorised, Granted, Grows, Call
  <2>5. NothingUnasked'
    BY <2>1, <2>2, LogKept
  <2>6. QED BY <1>0, <2>1, <2>2, <2>3, <2>4, <2>5, NodeInv
<1>7. CASE RunTool
  <2>1. Grows
    BY <1>7, UnchangedGrows DEF RunTool
  <2>2. /\ graph = "running" /\ phase = "tool" /\ under' = 0 /\ UNCHANGED <<plan, asked, approvals, answers>>
        /\ log' = Append(log, [call |-> Call, id |-> under])
    BY <1>7 DEF RunTool, At, Provider, NextStep, ToolEnds, graphVars
  <2>3. Call \in Calls /\ pos \in 1 .. Len(plan) /\ Len(plan) \in Nat
    BY <2>2, CallType, ConstantsAssumption DEF TypeOK, Placed
  <2>4. [call |-> Call, id |-> under] \in [call : Calls, id : Nat]
    BY <2>3 DEF TypeOK
  <2>5. log' \in Seq([call : Calls, id : Nat])
    BY <2>2, <2>4 DEF TypeOK
  <2>6. opened' \in 0 .. MaxPages /\ page' \in BOOLEAN
    <3>1. \/ opened' = opened
          \/ opened < MaxPages /\ opened' = opened + 1
      BY <1>7 DEF RunTool, Provider
    <3>2. page' = TRUE \/ page' = page
      BY <1>7 DEF RunTool, Provider
    <3>3. opened' \in 0 .. MaxPages
      BY <3>1, ConstantsAssumption DEF TypeOK
    <3>4. page' \in BOOLEAN
      BY <3>2 DEF TypeOK
    <3>5. QED BY <3>3, <3>4
  <2>7. \/ NextStep
        \/ \E c \in {"failed", "blocked"} : ToolEnds(c)
    BY <1>7 DEF RunTool, Provider
  <2> DEFINE seen == observed \/ Call \in Observing
  <2>12. observed' \in BOOLEAN
    <3>1. observed' = seen \/ observed' = observed
      BY <2>7 DEF NextStep, ToolEnds
    <3>2. QED BY <3>1 DEF TypeOK
  <2>8. /\ pos' \in 1 .. Len(plan) + 1 /\ phase' \in {"gate", "tool", "report"}
        /\ graph' \in {"running", "interrupted", "ended"}
        /\ outcome' \in Outcome /\ ctx' \in ContextStatus
        /\ phase' = "tool" => graph' = "ended"
        /\ phase' # "report" => pos' <= Len(plan)
    <3>1. CASE NextStep
      BY <2>3, <3>1 DEF NextStep, graphVars, TypeOK
    <3>2. CASE \E c \in {"failed", "blocked"} : ToolEnds(c)
      BY <2>2, <2>3, <3>2 DEF ToolEnds, End, TypeOK, Outcome, ContextStatus
    <3>3. QED BY <2>7, <3>1, <3>2
  <2>9. NodeType'
    BY <2>2, <2>5, <2>6, <2>8, <2>12 DEF NodeType, TypeOK
  <2>10. NothingUnasked'
    <3>1. PICK id : id = under /\ ("allow" \in Verdict[Call] \/ Approved(id)')
      BY <2>1, <2>2 DEF Granted, Grows
    <3>2. log \in Seq([call : Calls, id : Nat])
      BY DEF TypeOK
    <3>3. \A n \in DOMAIN log' :
            \/ n \in DOMAIN log /\ log'[n] = log[n]
            \/ log'[n].call = Call /\ log'[n].id = id
      BY <2>2, <2>4, <3>1, <3>2
    <3>4. QED
      BY <2>1, <3>1, <3>3 DEF NothingUnasked, Grows
  <2>11. QED BY <1>0, <2>1, <2>2, <2>8, <2>9, <2>10, NodeInv DEF Placed, Authorised, Granted
<1>8. CASE EndUnseen \/ EndUnreported \/ Report
  <2>1. Grows
    BY <1>8, UnchangedGrows DEF EndUnseen, EndUnreported, Report, store
  <2>2. UNCHANGED <<plan, pos, phase, under, asked, answers, page, observed, opened, log>>
        /\ graph' = "ended"
    BY <1>8 DEF EndUnseen, EndUnreported, Report, nodeVars, End
  <2>3. NodeType'
    <3>1. PICK c \in {"completed", "failed", "blocked", "requires_approval"} : End(c)
      BY <1>8 DEF EndUnseen, EndUnreported, Report, Terminal
    <3>2. QED BY <2>2, <3>1, EndType
  <2>4. Placed' /\ Authorised' /\ (under' = 0 \/ Approved(under)')
    BY <2>1, <2>2 DEF Placed, Authorised, Granted, Grows, Call
  <2>5. NothingUnasked'
    BY <2>1, <2>2, LogKept
  <2>6. QED BY <1>0, <2>1, <2>2, <2>3, <2>4, <2>5, NodeInv
<1>9. QED
  BY <1>1, <1>2, <1>3, <1>4, <1>5, <1>6, <1>7, <1>8 DEF NodeStep

-----------------------------------------------------------------------------
(* Steps of the worker and of the handlers *)

\* What is left to show of a step that leaves the node alone.
LEMMA ServiceInv ==
  ASSUME Inv, Grows, TypeOK',
         UNCHANGED <<plan, pos, phase, under, graph, answers, log>>,
         (\A h \in Handlers : hpc[h] \in {"lookup", "invoke"} => Approved(hid[h]))'
  PROVE  Inv'
<1>1. NothingUnasked'
  BY LogKept DEF Inv
<1>2. Placed'
  BY DEF Inv, Placed
<1>3. (under # 0 => Approved(under))'
  BY DEF Inv, Granted, Grows
<1>4. (\A k \in DOMAIN answers : Approved(answers[k]))'
  BY DEF Inv, Granted, Grows
<1>5. (graph = "running" /\ phase \in {"override", "tool"} =>
         under # 0 \/ (phase = "tool" /\ "allow" \in Verdict[Call]))'
  BY DEF Inv, Granted, Call
<1>6. QED BY <1>1, <1>2, <1>3, <1>4, <1>5 DEF Inv, Granted

LEMMA WorkerActionInv == ASSUME Inv, WorkerAction PROVE Inv'
<1> USE DEF Inv
<1>1. UNCHANGED <<plan, pos, phase, under, graph, answers, log, store, hpc, hid>>
  BY DEF WorkerAction, RunReturns, SettleRead, SettleWrite, nodeVars, graphVars, handler
<1>2. Grows
  BY <1>1, UnchangedGrows DEF store
<1>3. (\A h \in Handlers : hpc[h] \in {"lookup", "invoke"} => Approved(hid[h]))'
  BY <1>1, <1>2 DEF Granted, Grows
<1>4. TypeOK'
  <2>1. CASE RunReturns
    BY <2>1 DEF RunReturns, TypeOK, Ids, graphVars, store, service, handler
  <2>2. CASE SettleRead
    BY <2>2 DEF SettleRead, TypeOK, Ids, StatusOf, ContextStatus, TaskStatus, Outcome,
                nodeVars, graphVars, store, service, handler
  <2>3. CASE SettleWrite
    BY <2>3 DEF SettleWrite, TypeOK, Ids, TaskStatus, Outcome, nodeVars, graphVars, store, handler
  <2>4. QED BY <2>1, <2>2, <2>3 DEF WorkerAction
<1>5. QED BY <1>1, <1>2, <1>3, <1>4, ServiceInv

\* A decision: the store changes, and the handler is sent to step s.
LEMMA DecisionInv ==
  ASSUME Inv, NEW h \in Handlers, NEW i \in Ids, NEW new \in {"approved", "rejected"},
         NEW s \in {"lookup", "drop"}, s = "lookup" => new = "approved",
         DecideAs(h, i, new), Go(h, s),
         UNCHANGED <<nodeVars, graphVars, pending, service, result, workerVars>>
  PROVE  Inv'
<1> USE DEF Inv
<1>1. Grows /\ (new = "approved" => Approved(i)')
  BY DecidingGrows
<1>2. Len(approvals) \in Nat /\ Len(approvals') \in Nat /\ Len(approvals') >= Len(approvals)
  BY <1>1 DEF TypeOK, Grows
<1>3. hid' = [hid EXCEPT ![h] = i] /\ hpc' = [hpc EXCEPT ![h] = s]
  BY DEF DecideAs, Go
<1>4. hid' \in [Handlers -> 0 .. Len(approvals')]
  BY <1>2, <1>3 DEF TypeOK, Ids
<1>5. hpc' \in [Handlers -> {"idle", "drop", "rejectMark"} \cup ResumeStep]
  BY <1>3 DEF TypeOK, ResumeStep
<1>6. decisions' \in 0 .. MaxDecisions
  BY ConstantsAssumption DEF TypeOK, DecideAs
<1>7. under' \in 0 .. Len(approvals')
  BY <1>2 DEF TypeOK, nodeVars
<1>8. TypeOK'
  BY <1>1, <1>4, <1>5, <1>6, <1>7
     DEF TypeOK, Grows, Record, Ids, nodeVars, graphVars, service, workerVars
<1>9. (\A k \in Handlers : hpc[k] \in {"lookup", "invoke"} => Approved(hid[k]))'
  <2> SUFFICES ASSUME NEW k \in Handlers, hpc'[k] \in {"lookup", "invoke"}
               PROVE  (Approved(hid[k]))'
    OBVIOUS
  <2>1. CASE k = h
    BY <1>1, <1>3, <2>1 DEF TypeOK
  <2>2. CASE k # h
    BY <1>1, <1>3, <2>2 DEF TypeOK, Granted, Grows
  <2>3. QED BY <2>1, <2>2
<1>10. QED BY <1>1, <1>8, <1>9, ServiceInv DEF nodeVars, graphVars

LEMMA HandlerActionInv ==
  ASSUME Inv, NEW h \in Handlers, HandlerAction(h) PROVE Inv'
<1> USE DEF Inv
<1>1. ASSUME NEW i \in Ids, Approve(h, i) PROVE Inv'
  BY <1>1, DecisionInv DEF Approve
<1>2. ASSUME NEW i \in Ids, Reject(h, i) PROVE Inv'
  BY <1>2, DecisionInv DEF Reject
<1>3. CASE InvokeGraph(h)
  <2>1. Grows
    BY <1>3, UnchangedGrows DEF InvokeGraph, store
  <2>2. hpc' = [hpc EXCEPT ![h] = "await"]
    BY <1>3 DEF InvokeGraph, Go
  <2>3. (\A k \in Handlers : hpc[k] \in {"lookup", "invoke"} => Approved(hid[k]))'
    <3> SUFFICES ASSUME NEW k \in Handlers, hpc'[k] \in {"lookup", "invoke"}
                 PROVE  (Approved(hid[k]))'
      OBVIOUS
    <3>1. k # h
      BY <2>2 DEF TypeOK
    <3>2. QED BY <1>3, <2>1, <2>2, <3>1 DEF InvokeGraph, TypeOK, Granted, Grows
  <2>4. Approved(hid[h])
    BY <1>3 DEF InvokeGraph, Granted
  <2>5. CASE graph = "interrupted"
    <3>1. /\ graph' = "running" /\ answers' = Append(answers, hid[h])
          /\ asked' = 0 /\ pos' = 1 /\ phase' = "gate"
          /\ UNCHANGED <<plan, under, page, observed, opened, log, outcome, ctx, store, service,
                         hid, result, decisions, workerVars>>
      BY <1>3, <2>5 DEF InvokeGraph, FirstStep
    <3>2. hid[h] \in Nat /\ answers \in Seq(Nat)
      BY DEF TypeOK
    <3>3. answers' \in Seq(Nat) /\ Len(answers') \in Nat
      BY <3>1, <3>2
    <3>4. Len(plan) \in Nat /\ Len(plan) > 0
      BY ConstantsAssumption DEF TypeOK
    <3>5. hpc' \in [Handlers -> {"idle", "drop", "rejectMark"} \cup ResumeStep]
      BY <2>2 DEF TypeOK, ResumeStep
    <3>6. TypeOK'
      BY <3>1, <3>3, <3>4, <3>5 DEF TypeOK, Ids, store, service, workerVars
    <3>7. Placed'
      BY <3>1, <3>4 DEF Placed
    <3>8. (\A k \in DOMAIN answers : Approved(answers[k]))'
      <4>1. \A k \in DOMAIN answers' :
              \/ k \in DOMAIN answers /\ answers'[k] = answers[k]
              \/ answers'[k] = hid[h]
        BY <3>1, <3>2
      <4>2. QED BY <2>1, <2>4, <4>1 DEF Granted, Grows
    <3>9. (under # 0 => Approved(under))'
      BY <2>1, <3>1 DEF Granted, Grows
    <3>10. NothingUnasked'
      BY <2>1, <3>1, LogKept
    <3>11. QED BY <2>3, <3>1, <3>6, <3>7, <3>8, <3>9, <3>10 DEF Granted
  <2>6. CASE graph # "interrupted"
    <3>1. UNCHANGED <<plan, pos, phase, under, asked, graph, answers, page, observed, opened, log,
                      outcome, ctx, store, service, hid, result, decisions, workerVars>>
      BY <1>3, <2>6 DEF InvokeGraph
    <3>2. hpc' \in [Handlers -> {"idle", "drop", "rejectMark"} \cup ResumeStep]
      BY <2>2 DEF TypeOK, ResumeStep
    <3>3. TypeOK'
      BY <3>1, <3>2 DEF TypeOK, Ids, store, service, workerVars
    <3>4. QED BY <2>1, <2>3, <3>1, <3>3, ServiceInv
  <2>7. QED BY <2>5, <2>6
<1>4. CASE Drop(h) \/ RejectMark(h) \/ Lookup(h) \/ ResumeReturns(h)
           \/ ResumeMark(h) \/ ResumeFinish(h)
  <2>1. UNCHANGED <<plan, pos, phase, under, asked, observed, opened, log, graph, outcome,
                    answers, approvals, hid, decisions, workerVars>>
        /\ pending' \subseteq pending
    BY <1>4 DEF Drop, RejectMark, Lookup, ResumeReturns, ResumeMark, ResumeFinish,
                nodeVars, graphVars, store
  <2>2. Grows
    BY <2>1, UnchangedGrows
  <2>3. PICK s \in {"idle", "rejectMark", "invoke", "mark", "finish"} :
          hpc' = [hpc EXCEPT ![h] = s] /\ (s = "invoke" => hpc[h] = "lookup")
    BY <1>4 DEF Drop, RejectMark, Lookup, ResumeReturns, ResumeMark, ResumeFinish, Go
  <2>4. (\A k \in Handlers : hpc[k] \in {"lookup", "invoke"} => Approved(hid[k]))'
    <3> SUFFICES ASSUME NEW k \in Handlers, hpc'[k] \in {"lookup", "invoke"}
                 PROVE  (Approved(hid[k]))'
      OBVIOUS
    <3>1. hpc[k] \in {"lookup", "invoke"}
      BY <2>3 DEF TypeOK
    <3>2. QED BY <2>1, <2>2, <3>1 DEF Granted, Grows
  <2>5. hpc' \in [Handlers -> {"idle", "drop", "rejectMark"} \cup ResumeStep]
    BY <2>3 DEF TypeOK, ResumeStep
  <2>6. status' \in TaskStatus /\ result' \in Outcome /\ ctx' \in ContextStatus
    BY <1>4 DEF Drop, RejectMark, Lookup, ResumeReturns, ResumeMark, ResumeFinish, TypeOK,
                TaskStatus, Outcome, ContextStatus, nodeVars, graphVars, service, handler
  <2>7. page' \in BOOLEAN
    <3>1. page' = page \/ page' = FALSE
      BY <1>4 DEF Drop, RejectMark, Lookup, ResumeReturns, ResumeMark, ResumeFinish, nodeVars
    <3>2. QED BY <3>1 DEF TypeOK
  <2>8. adapter' \in BOOLEAN /\ failedTold' \in BOOLEAN
    <3>1. CASE ResumeFinish(h)
      BY <3>1 DEF ResumeFinish
    <3>2. CASE ~ResumeFinish(h)
      BY <1>4, <3>2 DEF Drop, RejectMark, Lookup, ResumeReturns, ResumeMark, service, TypeOK
    <3>3. QED BY <3>1, <3>2
  <2>9. TypeOK'
    BY <2>1, <2>5, <2>6, <2>7, <2>8 DEF TypeOK, Ids, workerVars
  <2>10. QED BY <2>1, <2>2, <2>4, <2>9, ServiceInv
<1>5. QED
  BY <1>1, <1>2, <1>3, <1>4 DEF HandlerAction

LEMMA StutterInv == ASSUME Inv, UNCHANGED vars PROVE Inv'
BY DEF Inv, TypeOK, Placed, Granted, NothingUnasked, Approved, Ids, Call, vars,
       nodeVars, graphVars, store, service, handler, workerVars

\* What authorises a tool is granted, in every reachable state.
THEOREM Inductive == Spec => []Inv
<1>1. Init => Inv
  BY InitInv
<1>2. Inv /\ [Next]_vars => Inv'
  BY NodeStepInv, WorkerActionInv, HandlerActionInv, StutterInv DEF Next
<1>3. QED BY <1>1, <1>2, PTL DEF Spec

\* Every value has its type: statuses of the task and of the context stay
\* apart, approval ids name requests that exist, and the node never runs past
\* its plan or over its budget of pages.
THEOREM TypeCorrect == Spec => []TypeOK
<1>1. Inv => TypeOK
  BY DEF Inv
<1>2. QED BY <1>1, Inductive, PTL

\* No call that the risk gate holds back runs without the human's approval,
\* however often the node is interrupted and replayed, and whatever the order
\* in which the requests are decided.
THEOREM NothingRunsUnasked == Spec => []NothingUnasked
<1>1. Inv => NothingUnasked
  BY DEF Inv
<1>2. QED BY <1>1, Inductive, PTL

-----------------------------------------------------------------------------
(* The contract, for plans in which one step asks at most.                 *)

\* A plan asks at one step at most: what the replay's positional answers need,
\* as two asking steps can take each other's.
OneAsks ==
  \A p \in Plans : \A j, k \in DOMAIN p :
    "ask" \in Verdict[p[j]] /\ "ask" \in Verdict[p[k]] => j = k

\* The node interrupts, and runs under an override, only at the step that asks.
AskedHere ==
  /\ phase \in {"bridge", "override"} => "ask" \in Verdict[Call]
  /\ phase = "tool" /\ under # 0 => "ask" \in Verdict[Call]

\* Every request is for the call of such a step.
RequestsAsked ==
  \A i \in Ids : \E k \in DOMAIN plan :
    plan[k] = approvals[i].call /\ "ask" \in Verdict[plan[k]]

Used == \E n \in DOMAIN log : log[n].id # 0

\* Once a call has run under its approval the step that asks is behind, and
\* the graph is not run again.
UsedIsPast ==
  Used =>
    /\ under = 0 /\ graph # "interrupted"
    /\ graph = "running" =>
         \A k \in DOMAIN plan : k >= pos => "ask" \notin Verdict[plan[k]]

Once == AskedHere /\ RequestsAsked /\ UsedIsPast

LEMMA PlanType ==
  ASSUME TypeOK
  PROVE  plan \in Plans /\ DOMAIN plan = 1 .. Len(plan) /\ Len(plan) \in Nat /\ pos \in Nat
<1>1. plan \in Seq(Calls) /\ plan \in Plans
  BY ConstantsAssumption DEF TypeOK
<1>2. Len(plan) \in Nat /\ DOMAIN plan = 1 .. Len(plan)
  BY <1>1
<1>3. pos \in Nat
  BY <1>2 DEF TypeOK
<1>4. QED BY <1>1, <1>2, <1>3

\* Asking for the step that asks.
LEMMA AskedKeepsRequests ==
  ASSUME TypeOK, RequestsAsked, pos \in DOMAIN plan, "ask" \in Verdict[Call],
         approvals' = AskedApprovals(Call), plan' = plan
  PROVE  RequestsAsked'
<1>1. approvals \in Seq(Record) /\ Len(approvals) \in Nat
  BY DEF TypeOK, Record
<1>2. PICK c : c = Call
  OBVIOUS
<1>3. CASE Existing(c) # {}
  BY <1>2, <1>3 DEF AskedApprovals, RequestsAsked, Ids
<1>4. CASE Existing(c) = {}
  <2> DEFINE entry == [call |-> c, state |-> "pending"]
  <2>1. approvals' = Append(approvals, entry)
    BY <1>2, <1>4 DEF AskedApprovals
  <2>2. c \in Calls
    BY <1>2, PlanType, ConstantsAssumption DEF Call
  <2>3. entry \in Record /\ entry.call = c
    BY <2>2 DEF Record
  <2> HIDE DEF entry
  <2>4. /\ Len(approvals') = Len(approvals) + 1
        /\ \A i \in 1 .. Len(approvals) : approvals'[i] = approvals[i]
        /\ approvals'[Len(approvals) + 1] = entry
    BY <1>1, <2>1, <2>3
  <2>5. \A i \in Ids' : i \in Ids \/ i = Len(approvals) + 1
    BY <1>1, <2>4 DEF Ids
  <2>6. SUFFICES ASSUME NEW i \in Ids'
                 PROVE  \E k \in DOMAIN plan :
                          plan[k] = approvals'[i].call /\ "ask" \in Verdict[plan[k]]
    BY DEF RequestsAsked
  <2>7. CASE i \in Ids
    BY <2>4, <2>7 DEF RequestsAsked, Ids
  <2>8. CASE i = Len(approvals) + 1
    BY <1>2, <2>3, <2>4, <2>8 DEF Call
  <2>9. QED BY <2>5, <2>7, <2>8
<1>5. QED BY <1>3, <1>4

\* Decisions leave the calls of the requests alone.
LEMMA GrowsKeepsRequests ==
  ASSUME TypeOK, RequestsAsked, Grows, Len(approvals') = Len(approvals), plan' = plan
  PROVE  RequestsAsked'
BY DEF RequestsAsked, Grows, Ids

\* The abstract step of a concrete one, or none.
ContractStep == [Contract!Next]_<<approvals, log>>

LEMMA AskingIsAsk ==
  ASSUME NEW c \in Calls, approvals' = AskedApprovals(c), log' = log
  PROVE  ContractStep
<1>1. CASE Existing(c) # {}
  BY <1>1 DEF AskedApprovals, ContractStep
<1>2. CASE Existing(c) = {}
  <2>1. approvals' = Append(approvals, [call |-> c, state |-> "pending"])
    BY <1>2 DEF AskedApprovals
  <2>2. Contract!Ask
    BY <2>1 DEF Contract!Ask
  <2>3. QED BY <2>2 DEF ContractStep, Contract!Next
<1>3. QED BY <1>1, <1>2

LEMMA DecidingIsDecide ==
  ASSUME TypeOK, NEW h \in Handlers, NEW i \in Ids,
         NEW new \in {"approved", "rejected"}, DecideAs(h, i, new), log' = log
  PROVE  ContractStep
<1>1. i \in DOMAIN approvals
  <2>1. approvals \in Seq(Record)
    BY DEF TypeOK, Record
  <2>2. QED BY <2>1 DEF Ids
<1>2. Contract!Decide
  BY <1>1 DEF DecideAs, Undecided, Contract!Decide
<1>3. QED BY <1>2 DEF ContractStep, Contract!Next

\* What is left when neither a request nor a tool changes.
LEMMA QuietOnce ==
  ASSUME Inv, Once, UNCHANGED <<plan, approvals, log>>, AskedHere',
         Used => under' = 0 /\ graph' # "interrupted"
                 /\ (graph' = "running" => graph = "running" /\ pos' = pos)
  PROVE  Once' /\ ContractStep
<1>1. RequestsAsked'
  BY DEF Once, RequestsAsked, Ids
<1>2. UsedIsPast'
  BY DEF Once, UsedIsPast, Used
<1>3. QED BY <1>1, <1>2 DEF Once, ContractStep

\* The tool runs: freely, or under the one approval that names its call, which
\* no call has been made under before.
LEMMA RunToolOnce ==
  ASSUME OneAsks, Inv, Once, RunTool
  PROVE  Once' /\ ContractStep
<1>1. TypeOK /\ Placed /\ Granted /\ AskedHere /\ RequestsAsked /\ UsedIsPast
  BY DEF Inv, Once
<1>2. graph = "running" /\ phase = "tool"
  BY DEF RunTool, At
<1>3. /\ log' = Append(log, [call |-> Call, id |-> under])
      /\ under' = 0 /\ UNCHANGED <<plan, approvals>>
  BY DEF RunTool
<1>4. \/ pos' = pos + 1 /\ phase' \in {"gate", "report"} /\ graph' = "running"
      \/ phase' = "tool" /\ graph' = "ended"
  BY <1>2 DEF RunTool, Provider, NextStep, ToolEnds, End, graphVars
<1>5. /\ plan \in Plans /\ DOMAIN plan = 1 .. Len(plan) /\ Len(plan) \in Nat /\ pos \in Nat
      /\ pos \in DOMAIN plan /\ Call \in Calls
  <2>1. pos \in 1 .. Len(plan)
    BY <1>1, <1>2, PlanType DEF TypeOK, Placed
  <2>2. QED BY <1>1, <1>2, <2>1, PlanType, CallType
<1>6. approvals \in Seq(Record) /\ log \in Seq([call : Calls, id : Nat]) /\ under \in Nat
  BY <1>1 DEF TypeOK, Record
<1>7. under # 0 =>
        /\ under \in Ids /\ approvals[under].state = "approved"
        /\ approvals[under].call = Call
        /\ \A k \in DOMAIN plan : "ask" \in Verdict[plan[k]] => k = pos
  <2>1. SUFFICES ASSUME under # 0
                 PROVE  /\ under \in Ids /\ approvals[under].state = "approved"
                        /\ approvals[under].call = Call
                        /\ \A k \in DOMAIN plan : "ask" \in Verdict[plan[k]] => k = pos
    OBVIOUS
  <2>2. under \in Ids /\ approvals[under].state = "approved"
    BY <1>1, <2>1 DEF Granted, Approved
  <2>3. "ask" \in Verdict[plan[pos]]
    BY <1>1, <1>2, <2>1 DEF AskedHere, Call
  <2>4. \A k \in DOMAIN plan : "ask" \in Verdict[plan[k]] => k = pos
    BY <1>5, <2>3 DEF OneAsks
  <2>5. approvals[under].call = Call
    BY <1>1, <2>2, <2>4 DEF RequestsAsked, Call
  <2>6. QED BY <2>2, <2>4, <2>5
<1>8. AskedHere'
  BY <1>3, <1>4 DEF AskedHere
<1>9. RequestsAsked'
  BY <1>1, <1>3 DEF RequestsAsked, Ids
<1>10. \A n \in DOMAIN log' :
          \/ n \in DOMAIN log /\ log'[n] = log[n]
          \/ log'[n].id = under
  <2> DEFINE entry == [call |-> Call, id |-> under]
  <2>1. entry \in [call : Calls, id : Nat] /\ entry.id = under /\ log' = Append(log, entry)
    BY <1>3, <1>5, <1>6
  <2> HIDE DEF entry
  <2>2. QED BY <1>6, <2>1
<1>11. UsedIsPast'
  <2>1. SUFFICES ASSUME Used', graph' = "running", NEW k \in DOMAIN plan, k >= pos'
                 PROVE  "ask" \notin Verdict[plan[k]]
    BY <1>3, <1>4 DEF UsedIsPast
  <2>2. pos' = pos + 1 /\ k \in Nat
    BY <1>4, <1>5, <2>1
  <2>3. k >= pos /\ k # pos
    BY <1>5, <2>1, <2>2
  <2>4. Used \/ under # 0
    BY <1>10, <2>1 DEF Used
  <2>5. CASE Used
    BY <1>1, <1>2, <2>3, <2>5 DEF UsedIsPast
  <2>6. CASE under # 0
    BY <1>7, <2>3, <2>6
  <2>7. QED BY <2>4, <2>5, <2>6
<1>12. ContractStep
  <2>1. CASE under = 0
    <3>1. "allow" \in Verdict[Call]
      BY <1>1, <1>2, <2>1 DEF Granted
    <3>2. Contract!RunFree
      BY <1>3, <1>5, <2>1, <3>1 DEF Contract!RunFree
    <3>3. QED BY <3>2 DEF ContractStep, Contract!Next
  <2>2. CASE under # 0
    <3>1. \A n \in DOMAIN log : log[n].id # under
      BY <1>1, <2>2 DEF UsedIsPast, Used
    <3>2. under \in DOMAIN approvals
      BY <1>6, <1>7, <2>2 DEF Ids
    <3>3. log' = Append(log, [call |-> approvals[under].call, id |-> under])
      BY <1>3, <1>7, <2>2
    <3>4. Contract!Use
      BY <1>3, <1>7, <2>2, <3>1, <3>2, <3>3 DEF Contract!Use
    <3>5. QED BY <3>4 DEF ContractStep, Contract!Next
  <2>3. QED BY <2>1, <2>2
<1>13. QED BY <1>8, <1>9, <1>11, <1>12 DEF Once

\* At a step that asks nothing has run under an approval yet.
LEMMA AskingIsFirst ==
  ASSUME Inv, Once, graph = "running", phase # "report", "ask" \in Verdict[Call]
  PROVE  ~Used /\ pos \in DOMAIN plan /\ Call \in Calls
<1>1. pos \in DOMAIN plan
  BY PlanType DEF Inv, TypeOK, Placed
<1>2. ~Used
  BY <1>1, PlanType DEF Inv, Once, UsedIsPast, Call
<1>3. QED BY <1>1, <1>2, CallType DEF Inv

LEMMA NodeOnce ==
  ASSUME OneAsks, Inv, Once, NodeStep
  PROVE  Once' /\ ContractStep
<1>1. CASE GateAllows
  <2>1. UNCHANGED <<plan, pos, approvals, log, graph>> /\ under' = 0 /\ phase' = "tool"
    BY <1>1 DEF GateAllows, graphVars, store
  <2>2. AskedHere'
    BY <2>1 DEF AskedHere
  <2>3. QED BY <2>1, <2>2, QuietOnce DEF Once, UsedIsPast
<1>2. CASE GateBlocks \/ EndUnseen \/ EndUnreported \/ Report
  <2>1. UNCHANGED <<plan, pos, phase, under, approvals, log>> /\ graph' = "ended"
    BY <1>2 DEF GateBlocks, EndUnseen, EndUnreported, Report, End, nodeVars, store
  <2>2. AskedHere'
    BY <2>1 DEF Once, AskedHere, Call
  <2>3. QED BY <2>1, <2>2, QuietOnce DEF Once, UsedIsPast
<1>3. CASE OverrideAdmits
  <2>1. UNCHANGED <<plan, pos, under, approvals, log, graph>>
        /\ phase = "override" /\ phase' = "tool"
    BY <1>3 DEF OverrideAdmits, At, graphVars, store
  <2>2. AskedHere'
    BY <2>1 DEF Once, AskedHere, Call
  <2>3. QED BY <2>1, <2>2, QuietOnce DEF Once, UsedIsPast
<1>4. CASE GateAsks \/ Bridge \/ OverrideAsksAgain
  <2>1. graph = "running" /\ phase # "report" /\ "ask" \in Verdict[Call]
    BY <1>4 DEF GateAsks, Bridge, OverrideAsksAgain, At, Once, AskedHere
  <2>2. ~Used /\ pos \in DOMAIN plan /\ Call \in Calls
    BY <2>1, AskingIsFirst
  <2>3. approvals' = AskedApprovals(Call)
    BY <1>4 DEF GateAsks, Bridge, OverrideAsksAgain, AskFor
  <2>4. UNCHANGED <<plan, pos, log>>
    BY <1>4 DEF GateAsks, Bridge, OverrideAsksAgain, nodeVars
  <2>5. ContractStep
    BY <2>2, <2>3, <2>4, AskingIsAsk
  <2>6. RequestsAsked'
    BY <2>1, <2>2, <2>3, <2>4, AskedKeepsRequests DEF Inv, Once
  <2>7. AskedHere'
    <3>1. "ask" \in Verdict'[Call']
      BY <2>1, <2>4 DEF Call
    <3>2. QED BY <2>1, <2>4 DEF AskedHere, Call
  <2>8. UsedIsPast'
    BY <2>2, <2>4 DEF UsedIsPast, Used
  <2>9. QED BY <2>5, <2>6, <2>7, <2>8 DEF Once
<1>5. CASE RunTool
  BY <1>5, RunToolOnce
<1>6. QED
  BY <1>1, <1>2, <1>3, <1>4, <1>5 DEF NodeStep

LEMMA HandlerOnce ==
  ASSUME Inv, Once, NEW h \in Handlers, HandlerAction(h)
  PROVE  Once' /\ ContractStep
<1>1. ASSUME NEW i \in Ids, Approve(h, i) \/ Reject(h, i)
      PROVE  Once' /\ ContractStep
  <2>1. PICK new \in {"approved", "rejected"} : DecideAs(h, i, new)
    BY <1>1 DEF Approve, Reject
  <2>2. UNCHANGED <<plan, pos, phase, under, log, graph, pending>>
    BY <1>1 DEF Approve, Reject, nodeVars, graphVars
  <2>3. ContractStep
    BY <2>1, <2>2, DecidingIsDecide DEF Inv
  <2>4. Grows
    BY <2>1, <2>2, DecidingGrows DEF Inv
  <2>5. Len(approvals') = Len(approvals)
    <3>1. approvals' = [approvals EXCEPT ![i].state = new] /\ approvals \in Seq(Record)
      BY <2>1 DEF DecideAs, Inv, TypeOK, Record
    <3>2. approvals' \in Seq(Record)
      BY <2>4 DEF Grows
    <3>3. DOMAIN approvals' = DOMAIN approvals
      BY <3>1
    <3>4. QED BY <3>1, <3>2, <3>3
  <2>6. RequestsAsked'
    BY <2>2, <2>4, <2>5, GrowsKeepsRequests DEF Inv, Once
  <2>7. AskedHere' /\ UsedIsPast'
    BY <2>2 DEF Once, AskedHere, UsedIsPast, Used, Call
  <2>8. QED BY <2>3, <2>6, <2>7 DEF Once
<1>2. CASE InvokeGraph(h)
  <2>1. UNCHANGED <<plan, under, log, approvals>>
    BY <1>2 DEF InvokeGraph, store
  <2>2. \/ graph = "interrupted" /\ phase' = "gate"
        \/ UNCHANGED <<graph, pos, phase>>
    BY <1>2 DEF InvokeGraph
  <2>3. AskedHere'
    BY <2>1, <2>2 DEF Once, AskedHere, Call
  <2>4. QED BY <2>1, <2>2, <2>3, QuietOnce DEF Once, UsedIsPast
<1>3. CASE Drop(h) \/ RejectMark(h) \/ Lookup(h) \/ ResumeReturns(h)
           \/ ResumeMark(h) \/ ResumeFinish(h)
  <2>1. UNCHANGED <<plan, pos, phase, under, log, graph, approvals>>
    BY <1>3 DEF Drop, RejectMark, Lookup, ResumeReturns, ResumeMark, ResumeFinish,
                nodeVars, graphVars, store
  <2>2. AskedHere'
    BY <2>1 DEF Once, AskedHere, Call
  <2>3. QED BY <2>1, <2>2, QuietOnce DEF Once, UsedIsPast
<1>4. QED BY <1>1, <1>2, <1>3 DEF HandlerAction

LEMMA NextOnce ==
  ASSUME OneAsks, Inv, Once, [Next]_vars
  PROVE  Once' /\ ContractStep
<1>1. CASE NodeStep
  BY <1>1, NodeOnce
<1>2. CASE \E h \in Handlers : HandlerAction(h)
  BY <1>2, HandlerOnce
<1>3. CASE WorkerAction \/ UNCHANGED vars
  <2>1. UNCHANGED <<plan, pos, phase, under, log, graph, approvals>>
    BY <1>3 DEF WorkerAction, RunReturns, SettleRead, SettleWrite, vars, nodeVars,
                graphVars, store
  <2>2. AskedHere'
    BY <2>1 DEF Once, AskedHere, Call
  <2>3. QED BY <2>1, <2>2, QuietOnce DEF Once, UsedIsPast
<1>4. QED BY <1>1, <1>2, <1>3 DEF Next

LEMMA InitOnce == ASSUME Init PROVE Once /\ Contract!Init
<1>1. AskedHere /\ UsedIsPast /\ Contract!Init
  BY DEF Init, AskedHere, UsedIsPast, Used, Contract!Init
<1>2. RequestsAsked
  BY DEF Init, RequestsAsked, Ids
<1>3. QED BY <1>1, <1>2 DEF Once

\* A task whose plans ask at one step at most keeps ApprovalContract, however
\* early its requests are decided and however the verdict of the gate changes
\* between replays: what it runs it runs freely, or once and under an approval
\* of its own.  ApprovalReplay_wrongcall.cfg shows what three asking steps do.
THEOREM ContractKept == ASSUME OneAsks PROVE Spec => KeepsContract
<1>1. Init => Once /\ Contract!Init
  BY InitOnce
<1>2. Inv /\ Once /\ [Next]_vars => Once' /\ ContractStep
  BY NextOnce
<1>3. QED
  BY <1>1, <1>2, Inductive, PTL DEF Spec, KeepsContract, Contract!Spec, ContractStep

-----------------------------------------------------------------------------
(* What a task at rest says, for users who wait until the worker is done.  *)

Finals == {"succeeded", "failed", "blocked"}

Idle == \A h \in Handlers : hpc[h] = "idle"

Alone == \A g, h \in Handlers : hpc[g] # "idle" /\ hpc[h] # "idle" => g = h

\* How the graph ends, and what a resume reports of it.
Ends == IF AnswerUnused THEN {"requires_approval", "failed"} ELSE Finals

EndedAs ==
  graph = "ended" =>
    /\ outcome \in Ends
    /\ ~AnswerUnused => ctx \in {"completed", "failed", "blocked"}

\* The worker has passed on, or is about to, one of the statuses in S.
Settled(S) ==
  /\ worker # "run" => graph # "running"
  /\ worker = "write" => read \in S
  /\ IF worker = "done" THEN status \in S ELSE status = "running"

Untouched == answers = <<>> /\ Idle /\ ~failedTold /\ adapter

\* The life of the task's one request.
Unasked ==
  /\ approvals = <<>> /\ pending = {} /\ Untouched
  /\ phase \notin {"bridge", "override"} /\ graph # "interrupted"
  /\ graph = "running" => ctx = "running"
  /\ Settled(Finals)

TheRequest(state) == Len(approvals) = 1 /\ approvals[1].state = state

Waiting ==
  /\ TheRequest("pending") /\ pending = {1} /\ Untouched
  /\ graph # "ended" /\ (graph = "running" => phase = "bridge")
  /\ graph = "interrupted" => ctx = "requires_approval"
  /\ Settled({"requires_approval"})

Denied ==
  /\ TheRequest("rejected") /\ worker = "done"
  /\ graph = "interrupted" /\ answers = <<>> /\ ~failedTold
  /\ \A h \in Handlers : hpc[h] \in {"idle", "drop", "rejectMark"}
  /\ status \in {"requires_approval", "rejected"}
  /\ Idle => status = "rejected"

Taken ==
  /\ TheRequest("approved") /\ worker = "done"
  /\ graph = "interrupted" /\ ctx = "requires_approval"
  /\ answers = <<>> /\ pending = {1} /\ adapter
  /\ \E h \in Handlers :
       /\ hid[h] = 1
       /\ \/ hpc[h] = "lookup" /\ status = "requires_approval"
          \/ hpc[h] = "invoke" /\ status = "resuming"

\* A step that asks is to come in the replay: the answer has not been given to
\* it, and its pending call has not been popped.
Unspent ==
  (\E k \in DOMAIN plan : k >= pos /\ "ask" \in Verdict[plan[k]]) =>
    /\ 1 \in pending
    /\ phase \in {"gate", "bridge"} \/ (phase = "tool" /\ under = 0) => asked = 0

\* The context keeps "requires_approval" until the answer is taken.
AskedShows == ctx = IF asked = 0 THEN "requires_approval" ELSE "resuming"

Replaying ==
  /\ TheRequest("approved") /\ worker = "done"
  /\ graph # "interrupted" /\ answers = <<1>> /\ status = "resuming"
  /\ \E h \in Handlers : hpc[h] = "await"
  /\ graph = "running" => Unspent /\ AskedShows

Over ==
  /\ TheRequest("approved") /\ worker = "done" /\ graph = "ended"
  /\ \/ \E h \in Handlers : hpc[h] = "mark" /\ result \in Ends /\ status = "resuming"
     \/ \E h \in Handlers : hpc[h] = "finish" /\ result \in Ends /\ status = result
     \/ Idle /\ status \in Ends /\ (status # "succeeded" => failedTold)

Life ==
  /\ Alone /\ EndedAs
  /\ Unasked \/ Waiting \/ Denied \/ Taken \/ Replaying \/ Over

LEMMA NodeStage ==
  ASSUME Life, graph = "running"
  PROVE  \/ Unasked /\ worker = "run"
         \/ Waiting /\ worker = "run" /\ phase = "bridge"
         \/ Replaying
BY DEF Life, Unasked, Waiting, Settled, Denied, Taken, Over

\* A request of a task with one asking step is found again by that step.
LEMMA FoundAgain ==
  ASSUME OneAsks, Inv, Once, graph = "running", phase # "report",
         "ask" \in Verdict[Call], Len(approvals) = 1, 1 \in pending
  PROVE  AskedApprovals(Call) = approvals /\ AskedPending(Call) = pending
<1>1. plan \in Plans /\ pos \in DOMAIN plan /\ 1 \in Ids
  BY AskingIsFirst, PlanType DEF Inv, Ids
<1>2. PICK k \in DOMAIN plan : plan[k] = approvals[1].call /\ "ask" \in Verdict[plan[k]]
  BY <1>1 DEF Once, RequestsAsked
<1>3. k = pos
  BY <1>1, <1>2 DEF OneAsks, Call
<1>4. 1 \in Existing(Call)
  BY <1>2, <1>3 DEF Existing, Call
<1>5. QED BY <1>4 DEF AskedApprovals, AskedPending

\* The first request of a task.
LEMMA FirstAsked ==
  ASSUME pending = {}, approvals = <<>>, NEW c
  PROVE  /\ AskedApprovals(c) = <<[call |-> c, state |-> "pending"]>>
         /\ AskedPending(c) = {1}
<1>1. Existing(c) = {}
  BY DEF Existing
<1>2. QED BY <1>1 DEF AskedApprovals, AskedPending

\* A step that ends the graph before the end of the plan, or for want of an
\* observation.
LEMMA EndedWell ==
  ASSUME End(ctx'), ctx' \in {"failed", "blocked"}, ~AnswerUnused' \/ ctx' = "failed"
  PROVE  EndedAs'
BY DEF End, EndedAs, Ends, Finals

\* A graph that stays ended ends as before.
LEMMA SameEnd ==
  ASSUME EndedAs, UNCHANGED <<phase, asked, answers, graph, ctx, outcome>>
  PROVE  EndedAs' /\ Ends' = Ends
BY DEF EndedAs, Ends, AnswerUnused

\* A step of the node before anything was asked, and in the replay.
LEMMA StaysUnasked ==
  ASSUME Unasked, worker = "run", Alone,
         UNCHANGED <<approvals, pending, answers, service, handler, workerVars>>,
         phase' \notin {"bridge", "override"}, graph' # "interrupted", EndedAs',
         graph' = "running" => ctx' = "running"
  PROVE  Life'
<1>1. Untouched'
  BY DEF Unasked, Untouched, Idle, service, handler
<1>2. Settled(Finals)'
  BY DEF Unasked, Settled, service, workerVars
<1>3. Alone'
  BY DEF Alone, handler
<1>4. Unasked'
  BY <1>1, <1>2 DEF Unasked
<1>5. QED BY <1>3, <1>4 DEF Life

LEMMA StaysReplaying ==
  ASSUME Replaying, Alone,
         UNCHANGED <<approvals, answers, service, handler, workerVars>>,
         graph' # "interrupted", EndedAs', graph' = "running" => Unspent' /\ AskedShows'
  PROVE  Life'
<1>1. Alone'
  BY DEF Alone, handler
<1>2. Replaying'
  BY DEF Replaying, TheRequest, service, handler, workerVars
<1>3. QED BY <1>1, <1>2 DEF Life

LEMMA NodeLife ==
  ASSUME OneAsks, Inv, Once, Life, NodeStep
  PROVE  Life'
<1>1. TypeOK /\ Placed /\ Granted /\ AskedHere /\ Alone
  BY DEF Inv, Once, Life
<1>2. UNCHANGED <<service, handler, workerVars>>
  BY DEF NodeStep
<1>3. graph = "running"
  BY DEF NodeStep, GateAllows, GateBlocks, GateAsks, Bridge, OverrideAdmits,
         OverrideAsksAgain, RunTool, EndUnseen, EndUnreported, Report, At
<1>4. \/ Unasked /\ worker = "run"
      \/ Waiting /\ worker = "run" /\ phase = "bridge"
      \/ Replaying
  BY <1>3, NodeStage
<1>5. Replaying => Unspent /\ AskedShows
  BY <1>3 DEF Replaying
<1>6. CASE GateAllows
  <2>1. UNCHANGED <<plan, pos, asked, answers, approvals, pending, graph, ctx>>
        /\ phase = "gate" /\ phase' = "tool" /\ under' = 0
    BY <1>6 DEF GateAllows, At, graphVars, store
  <2>2. EndedAs'
    BY <1>3, <2>1 DEF EndedAs
  <2>3. CASE Unasked /\ worker = "run"
    BY <1>1, <1>2, <1>3, <2>1, <2>2, <2>3, StaysUnasked DEF Unasked
  <2>4. CASE Replaying
    <3>1. Unspent' /\ AskedShows'
      BY <1>5, <2>1, <2>4 DEF Unspent, AskedShows
    <3>2. QED BY <1>1, <1>2, <1>3, <2>1, <2>2, <2>4, <3>1, StaysReplaying
  <2>5. QED BY <1>4, <2>1, <2>3, <2>4
<1>7. CASE GateBlocks \/ EndUnseen \/ EndUnreported \/ Report
  <2>1. UNCHANGED <<phase, asked, answers, approvals, pending>> /\ graph' = "ended"
        /\ phase \in {"gate", "report"} /\ End(ctx')
    BY <1>7 DEF GateBlocks, EndUnseen, EndUnreported, Report, At, End, nodeVars, store
  <2>2. EndedAs'
    <3>1. CASE GateBlocks
      BY <2>1, <3>1, EndedWell DEF GateBlocks, At, End, AnswerUnused
    <3>2. CASE EndUnseen
      BY <2>1, <3>2, EndedWell DEF EndUnseen, End
    <3>3. AnswerUnused => Replaying /\ ctx = "requires_approval"
      <4>1. ~AnswerUnused \/ Replaying
        BY <1>1, <1>4 DEF AnswerUnused, Unasked, Waiting, Untouched, TypeOK
      <4>2. Replaying /\ AnswerUnused => asked = 0
        BY <1>1 DEF Replaying, AnswerUnused, TypeOK
      <4>3. QED BY <1>5, <4>1, <4>2 DEF AskedShows
    <3>4. ctx = "requires_approval" /\ phase = "report" => AnswerUnused
      <4>1. SUFFICES ASSUME ctx = "requires_approval", phase = "report" PROVE AnswerUnused
        OBVIOUS
      <4>2. Replaying
        BY <1>3, <1>4, <4>1 DEF Unasked
      <4>3. asked = 0
        BY <1>5, <4>1, <4>2 DEF AskedShows
      <4>4. Len(answers) = 1
        BY <4>2 DEF Replaying
      <4>5. QED BY <4>1, <4>3, <4>4 DEF AnswerUnused
    <3>5. CASE EndUnreported
      <4>1. ctx' = ctx /\ outcome' = ctx /\ phase = "report" /\ ctx \in Terminal
        BY <3>5 DEF EndUnreported, End, At, Terminal
      <4>2. ctx = "requires_approval"
        BY <1>3, <1>4, <1>5, <4>1 DEF Unasked, Waiting, AskedShows, Terminal
      <4>3. AnswerUnused'
        BY <2>1, <3>4, <4>1, <4>2 DEF AnswerUnused
      <4>4. QED BY <4>1, <4>2, <4>3 DEF EndedAs, Ends
    <3>6. CASE Report
      <4>1. ~AnswerUnused'
        BY <2>1, <3>3, <3>6 DEF Report, Terminal, AnswerUnused
      <4>2. ctx' \in {"completed", "failed"} /\ outcome' \in Finals
        BY <3>6 DEF Report, End, Finals
      <4>3. QED BY <4>1, <4>2 DEF EndedAs, Ends
    <3>7. QED BY <1>7, <3>1, <3>2, <3>5, <3>6
  <2>3. QED
    BY <1>1, <1>2, <1>4, <2>1, <2>2, StaysUnasked, StaysReplaying
<1>8. CASE GateAsks
  <2>1. UNCHANGED <<plan, pos, asked, answers, graph, ctx, under>> /\ phase = "gate"
        /\ phase' = "bridge" /\ "ask" \in Verdict[Call]
        /\ approvals' = AskedApprovals(Call) /\ pending' = AskedPending(Call)
    BY <1>8 DEF GateAsks, At, AskFor, graphVars
  <2>2. EndedAs'
    BY <1>3, <2>1 DEF EndedAs
  <2>3. CASE Unasked /\ worker = "run"
    <3>1. approvals' = <<[call |-> Call, state |-> "pending"]>> /\ pending' = {1}
      BY <2>1, <2>3, FirstAsked DEF Unasked
    <3>2. TheRequest("pending")'
      BY <3>1 DEF TheRequest
    <3>3. Untouched'
      BY <1>2, <2>1, <2>3 DEF Unasked, Untouched, Idle, service, handler
    <3>4. Settled({"requires_approval"})'
      BY <1>2, <2>3 DEF Unasked, Settled, service, workerVars
    <3>5. Waiting'
      BY <1>3, <2>1, <3>1, <3>2, <3>3, <3>4 DEF Waiting
    <3>6. QED BY <1>1, <1>2, <2>2, <3>5 DEF Life, Alone, handler
  <2>4. CASE Replaying
    <3>1. pos \in DOMAIN plan /\ pos \in Nat
      BY <1>1, <1>3, <2>1, AskingIsFirst, PlanType
    <3>2. \E k \in DOMAIN plan : k >= pos /\ "ask" \in Verdict[plan[k]]
      BY <2>1, <3>1 DEF Call
    <3>3. 1 \in pending /\ asked = 0
      BY <1>5, <2>1, <2>4, <3>2 DEF Unspent
    <3>4. approvals' = approvals /\ pending' = pending
      BY <1>3, <2>1, <2>4, <3>3, FoundAgain DEF Replaying, TheRequest
    <3>5. Unspent' /\ AskedShows'
      BY <1>5, <2>1, <2>4, <3>3, <3>4 DEF Unspent, AskedShows
    <3>6. QED BY <1>1, <1>2, <1>3, <2>1, <2>2, <2>4, <3>4, <3>5, StaysReplaying
  <2>5. QED BY <1>4, <2>1, <2>3, <2>4
<1>9. CASE Bridge
  <2>1. UNCHANGED <<plan, pos, answers>> /\ phase = "bridge"
        /\ approvals' = AskedApprovals(Call) /\ pending' = AskedPending(Call)
        /\ "ask" \in Verdict[Call]
    BY <1>1, <1>9 DEF Bridge, At, AskFor, AskedHere
  <2>2. CASE Waiting
    <3>1. approvals' = approvals /\ pending' = pending
      BY <1>3, <2>1, <2>2, FoundAgain DEF Waiting, TheRequest
    <3>2. AnswerTo(asked + 1) = 0
      BY <1>1, <2>2 DEF AnswerTo, Waiting, Untouched, TypeOK
    <3>3. graph' = "interrupted" /\ ctx' = "requires_approval"
      BY <1>9, <3>2 DEF Bridge
    <3>4. Untouched' /\ TheRequest("pending")'
      BY <1>2, <2>1, <2>2, <3>1 DEF Waiting, Untouched, Idle, TheRequest, service, handler
    <3>5. Settled({"requires_approval"})'
      BY <1>2, <2>2, <3>3 DEF Waiting, Settled, service, workerVars
    <3>6. Waiting'
      BY <2>2, <3>1, <3>3, <3>4, <3>5 DEF Waiting
    <3>7. EndedAs' /\ Alone'
      BY <1>1, <1>2, <3>3 DEF EndedAs, Alone, handler
    <3>8. QED BY <3>6, <3>7 DEF Life
  <2>3. CASE Replaying
    <3>1. pos \in DOMAIN plan /\ pos \in Nat
      BY <1>1, <1>3, <2>1, AskingIsFirst, PlanType
    <3>2. \E k \in DOMAIN plan : k >= pos /\ "ask" \in Verdict[plan[k]]
      BY <2>1, <3>1 DEF Call
    <3>3. 1 \in pending /\ asked = 0
      BY <1>5, <2>1, <2>3, <3>2 DEF Unspent
    <3>4. approvals' = approvals /\ pending' = pending
      BY <1>3, <2>1, <2>3, <3>3, FoundAgain DEF Replaying, TheRequest
    <3>5. AnswerTo(asked + 1) = 1
      BY <2>3, <3>3 DEF AnswerTo, Replaying
    <3>6. graph' = graph /\ phase' = "override" /\ ctx' = "resuming" /\ asked' = 1
      BY <1>9, <3>3, <3>5 DEF Bridge
    <3>7. Unspent' /\ AskedShows' /\ EndedAs'
      BY <1>3, <3>3, <3>4, <3>6 DEF Unspent, AskedShows, EndedAs
    <3>8. QED BY <1>1, <1>2, <1>3, <2>1, <2>3, <3>4, <3>6, <3>7, StaysReplaying
  <2>4. QED BY <1>4, <2>1, <2>2, <2>3 DEF Unasked
<1>10. CASE OverrideAdmits
  <2>1. UNCHANGED <<plan, pos, under, asked, answers, approvals, pending, graph, ctx>>
        /\ phase = "override" /\ phase' = "tool"
    BY <1>10 DEF OverrideAdmits, At, graphVars, store
  <2>2. Replaying /\ under # 0
    BY <1>1, <1>3, <1>4, <2>1 DEF Unasked, Granted
  <2>3. Unspent' /\ AskedShows' /\ EndedAs'
    BY <1>3, <1>5, <2>1, <2>2 DEF Unspent, AskedShows, EndedAs
  <2>4. QED BY <1>1, <1>2, <1>3, <2>1, <2>2, <2>3, StaysReplaying
<1>11. CASE OverrideAsksAgain
  <2>1. phase = "override" /\ graph' = "ended" /\ "ask" \in Verdict[Call] /\ answers' = answers
        /\ approvals' = AskedApprovals(Call)
    BY <1>1, <1>11 DEF OverrideAsksAgain, At, End, AskedHere
  <2>2. Replaying
    BY <1>4, <2>1 DEF Unasked
  <2>3. pos \in DOMAIN plan /\ pos \in Nat
    BY <1>1, <1>3, <2>1, AskingIsFirst, PlanType
  <2>4. \E k \in DOMAIN plan : k >= pos /\ "ask" \in Verdict[plan[k]]
    BY <2>1, <2>3 DEF Call
  <2>5. 1 \in pending
    BY <1>5, <2>2, <2>4 DEF Unspent
  <2>6. approvals' = approvals
    BY <1>3, <2>1, <2>2, <2>5, FoundAgain DEF Replaying, TheRequest
  <2>7. EndedAs'
    BY <1>11, EndedWell DEF OverrideAsksAgain, End
  <2>8. QED BY <1>1, <1>2, <2>1, <2>2, <2>6, <2>7, StaysReplaying
<1>12. CASE RunTool
  <2>1. /\ phase = "tool" /\ UNCHANGED <<plan, asked, approvals, answers>>
        /\ pending' = pending \ {under} /\ under' = 0
    BY <1>12 DEF RunTool, At, Provider, NextStep, ToolEnds, graphVars
  <2>2. \/ pos' = pos + 1 /\ phase' \in {"gate", "report"} /\ graph' = "running"
           /\ ctx' = ctx
        \/ phase' = "tool" /\ graph' = "ended" /\ ctx' \in {"failed", "blocked"}
           /\ End(ctx')
    BY <1>3, <1>12, <2>1 DEF RunTool, Provider, NextStep, ToolEnds, End, graphVars
  <2>3. EndedAs'
    <3>1. CASE graph' = "running"
      BY <3>1 DEF EndedAs
    <3>2. CASE phase' = "tool" /\ ctx' \in {"failed", "blocked"} /\ End(ctx')
      BY <3>2, EndedWell DEF AnswerUnused
    <3>3. QED BY <2>2, <3>1, <3>2
  <2>4. CASE Unasked /\ worker = "run"
    <3>1. pending' = pending
      BY <2>1, <2>4 DEF Unasked
    <3>2. graph' = "running" => ctx' = "running"
      BY <1>3, <2>2, <2>4 DEF Unasked
    <3>3. QED BY <1>1, <1>2, <2>1, <2>2, <2>3, <2>4, <3>1, <3>2, StaysUnasked
  <2>5. CASE Replaying
    <3>10. graph' = "running" => AskedShows'
      BY <1>5, <2>1, <2>2, <2>5 DEF AskedShows
    <3>1. SUFFICES ASSUME graph' = "running" PROVE Unspent'
      BY <1>1, <1>2, <2>1, <2>2, <2>3, <2>5, <3>10, StaysReplaying
    <3>2. pos' = pos + 1 /\ phase' \in {"gate", "report"}
      BY <2>2, <3>1
    <3>3. SUFFICES ASSUME NEW k \in DOMAIN plan, k >= pos + 1, "ask" \in Verdict[plan[k]]
                   PROVE  1 \in pending' /\ asked = 0
      BY <2>1, <3>2 DEF Unspent
    <3>4. plan \in Plans /\ k \in Nat /\ pos \in Nat /\ pos \in DOMAIN plan
      BY <1>1, <2>1, PlanType DEF TypeOK, Placed
    <3>5. k >= pos /\ k # pos
      BY <3>3, <3>4
    <3>6. under = 0
      BY <1>1, <2>1, <3>3, <3>4, <3>5 DEF AskedHere, OneAsks, Call
    <3>7. 1 \in pending /\ asked = 0
      BY <1>5, <2>1, <2>5, <3>3, <3>5, <3>6 DEF Unspent
    <3>8. QED BY <2>1, <3>6, <3>7
  <2>6. QED BY <1>4, <2>1, <2>4, <2>5
<1>13. QED
  BY <1>6, <1>7, <1>8, <1>9, <1>10, <1>11, <1>12 DEF NodeStep

LEMMA WorkerLife ==
  ASSUME Inv, Life, WorkerAction
  PROVE  Life'
<1>1. UNCHANGED <<approvals, pending, phase, asked, answers, graph, ctx, outcome, adapter,
                  failedTold, hpc>>
  BY DEF WorkerAction, RunReturns, SettleRead, SettleWrite, graphVars, nodeVars, store,
         service, handler
<1>2. worker # "done"
  BY DEF WorkerAction, RunReturns, SettleRead, SettleWrite
<1>3. Alone' /\ EndedAs'
  BY <1>1, SameEnd DEF Life, Alone
<1>4. Unasked \/ Waiting
  BY <1>2 DEF Life, Denied, Taken, Replaying, Over
<1>5. ASSUME NEW S, Settled(S), graph # "running" => StatusOf(ctx) \in S
      PROVE  worker' # "run" /\ graph # "running" /\ (worker' = "write" => read' \in S)
             /\ IF worker' = "done" THEN status' \in S ELSE status' = "running"
  <2>1. CASE RunReturns
    BY <1>2, <1>5, <2>1 DEF RunReturns, Settled, service
  <2>2. CASE SettleRead
    BY <1>2, <1>5, <2>2 DEF SettleRead, Settled, service
  <2>3. CASE SettleWrite
    BY <1>2, <1>5, <2>3 DEF SettleWrite, Settled
  <2>4. QED BY <2>1, <2>2, <2>3 DEF WorkerAction
<1>6. CASE Unasked
  <2>1. graph # "running" => StatusOf(ctx) \in Finals
    <3>1. ~AnswerUnused
      BY <1>6 DEF Unasked, Untouched, AnswerUnused, Inv, TypeOK
    <3>2. graph # "running" => ctx \in {"completed", "failed", "blocked"}
      BY <1>6, <3>1 DEF Unasked, Life, EndedAs, Inv, TypeOK
    <3>3. QED BY <3>2 DEF StatusOf, Finals
  <2>2. Settled(Finals)'
    BY <1>1, <1>5, <1>6, <2>1 DEF Unasked, Settled
  <2>3. Untouched'
    BY <1>1, <1>6 DEF Unasked, Untouched, Idle
  <2>4. Unasked'
    BY <1>1, <1>6, <2>2, <2>3 DEF Unasked
  <2>5. QED BY <1>3, <2>4 DEF Life
<1>7. CASE Waiting
  <2>1. graph # "running" => StatusOf(ctx) \in {"requires_approval"}
    BY <1>7 DEF Waiting, Inv, TypeOK, StatusOf
  <2>2. Settled({"requires_approval"})'
    BY <1>1, <1>5, <1>7, <2>1 DEF Waiting, Settled
  <2>3. Untouched' /\ TheRequest("pending")'
    BY <1>1, <1>7 DEF Waiting, Untouched, Idle, TheRequest
  <2>4. Waiting'
    BY <1>1, <1>7, <2>2, <2>3 DEF Waiting
  <2>5. QED BY <1>3, <2>4 DEF Life
<1>8. QED BY <1>4, <1>6, <1>7

\* The one request is decided, in an interrupted graph.
LEMMA DecisionLife ==
  ASSUME Patient, Inv, Life, NEW h \in Handlers, NEW i \in Ids,
         NEW new \in {"approved", "rejected"}, DecideAs(h, i, new)
  PROVE  /\ Waiting /\ i = 1 /\ worker = "done" /\ graph = "interrupted"
         /\ TheRequest(new)'
<1>1. approvals \in Seq(Record) /\ Len(approvals) \in Nat
  BY DEF Inv, TypeOK, Record
<1>2. approvals[i].state = "pending" /\ worker = "done"
  BY DEF DecideAs, Undecided
<1>3. i \in 1 .. Len(approvals)
  BY DEF Ids
<1>4. Waiting /\ i = 1
  BY <1>1, <1>2, <1>3 DEF Life, Unasked, Waiting, Denied, Taken, Replaying, Over, TheRequest
<1>5. graph = "interrupted"
  BY <1>2, <1>4 DEF Waiting, Settled, Inv, TypeOK
<1>6. TheRequest(new)'
  <2>1. approvals' = [approvals EXCEPT ![i].state = new]
    BY DEF DecideAs
  <2>2. approvals[i] \in Record
    BY <1>1, <1>3
  <2>3. [approvals[i] EXCEPT !.state = new] \in Record
    BY <2>2 DEF Record
  <2>4. Len(approvals') = Len(approvals)
    <3>1. [approvals EXCEPT ![i].state = new] \in Seq(Record)
      BY <1>1, <1>3, <2>3
    <3>2. DOMAIN approvals' = DOMAIN approvals /\ approvals' \in Seq(Record)
      BY <2>1, <3>1
    <3>3. QED BY <1>1, <3>2
  <2>5. approvals'[i].state = new
    BY <1>1, <1>3, <2>1, <2>2 DEF Record
  <2>6. QED BY <1>4, <2>4, <2>5 DEF Waiting, TheRequest
<1>7. QED BY <1>2, <1>4, <1>5, <1>6

\* The handler that carries a decision out is the only one.
LEMMA HandlerMoves ==
  ASSUME Inv, Alone, NEW h \in Handlers, NEW s, Go(h, s), Idle \/ hpc[h] # "idle"
  PROVE  /\ hpc'[h] = s
         /\ \A g \in Handlers : g # h => hpc'[g] = "idle"
         /\ Alone' /\ (s = "idle" => Idle') /\ (s # "idle" => ~Idle')
<1>1. hpc' = [hpc EXCEPT ![h] = s] /\ DOMAIN hpc = Handlers
  BY DEF Go, Inv, TypeOK
<1>2. \A g \in Handlers : g # h => hpc[g] = "idle"
  BY DEF Alone, Idle
<1>3. hpc'[h] = s /\ \A g \in Handlers : g # h => hpc'[g] = "idle"
  BY <1>1, <1>2
<1>4. QED BY <1>3 DEF Alone, Idle

LEMMA HandlerLife ==
  ASSUME Patient, Inv, Life, NEW h \in Handlers, HandlerAction(h)
  PROVE  Life'
<1>1. TypeOK /\ Alone /\ EndedAs
  BY DEF Inv, Life
<1>2. ASSUME NEW i \in Ids, Approve(h, i) PROVE Life'
  <2>1. DecideAs(h, i, "approved") /\ Go(h, "lookup")
        /\ UNCHANGED <<pending, answers, graph, ctx, outcome, adapter, status, worker>>
    BY <1>2 DEF Approve, graphVars, service, workerVars
  <2>2. Waiting /\ i = 1 /\ worker = "done" /\ graph = "interrupted" /\ TheRequest("approved")'
    BY <2>1, DecisionLife
  <2>3. hid'[h] = 1
    BY <1>1, <2>1, <2>2 DEF DecideAs, TypeOK
  <2>4. hpc'[h] = "lookup" /\ Alone'
    BY <1>1, <2>1, <2>2, HandlerMoves DEF Waiting, Untouched
  <2>5. /\ status = "requires_approval" /\ ctx = "requires_approval"
        /\ answers = <<>> /\ pending = {1} /\ adapter
    BY <2>2 DEF Waiting, Settled, Untouched
  <2>6. Taken'
    BY <2>1, <2>2, <2>3, <2>4, <2>5 DEF Taken
  <2>7. EndedAs'
    BY <2>1, <2>2 DEF EndedAs
  <2>8. QED BY <2>4, <2>6, <2>7 DEF Life
<1>3. ASSUME NEW i \in Ids, Reject(h, i) PROVE Life'
  <2>1. DecideAs(h, i, "rejected") /\ Go(h, "drop")
        /\ UNCHANGED <<answers, graph, ctx, outcome, failedTold, status, worker>>
    BY <1>3 DEF Reject, graphVars, service, workerVars
  <2>2. Waiting /\ worker = "done" /\ graph = "interrupted" /\ TheRequest("rejected")'
    BY <2>1, DecisionLife
  <2>3. hpc'[h] = "drop" /\ (\A g \in Handlers : g # h => hpc'[g] = "idle") /\ Alone' /\ ~Idle'
    BY <1>1, <2>1, <2>2, HandlerMoves DEF Waiting, Untouched
  <2>4. status = "requires_approval" /\ ~failedTold /\ answers = <<>>
    BY <2>2 DEF Waiting, Settled, Untouched
  <2>5. Denied'
    BY <2>1, <2>2, <2>3, <2>4 DEF Denied
  <2>6. EndedAs'
    BY <2>1, <2>2 DEF EndedAs
  <2>7. QED BY <2>3, <2>5, <2>6 DEF Life
<1>4. CASE Drop(h) \/ RejectMark(h)
  <2>1. UNCHANGED <<approvals, answers, graph, ctx, outcome, failedTold, worker>>
        /\ hpc[h] \in {"drop", "rejectMark"}
    BY <1>4 DEF Drop, RejectMark, graphVars, store, service, workerVars
  <2>2. \/ Go(h, "rejectMark") /\ status' = status
        \/ Go(h, "idle") /\ status' = "rejected"
    BY <1>4 DEF Drop, RejectMark, service
  <2>3. Denied
    BY <1>1, <2>1 DEF Life, Unasked, Waiting, Untouched, Idle, Alone, Taken, Replaying, Over
  <2>4. /\ hpc'[h] \in {"rejectMark", "idle"} /\ \A g \in Handlers : g # h => hpc'[g] = "idle"
        /\ Alone' /\ (hpc'[h] = "rejectMark" => status' = status /\ ~Idle')
        /\ hpc'[h] = "idle" => status' = "rejected"
    <3>1. CASE Go(h, "rejectMark") /\ status' = status
      BY <1>1, <2>1, <3>1, HandlerMoves
    <3>2. CASE Go(h, "idle") /\ status' = "rejected"
      BY <1>1, <2>1, <3>2, HandlerMoves
    <3>3. QED BY <2>2, <3>1, <3>2
  <2>5. Denied'
    BY <2>1, <2>3, <2>4 DEF Denied, TheRequest
  <2>6. EndedAs'
    BY <2>1, <2>3 DEF Denied, EndedAs
  <2>7. QED BY <2>4, <2>5, <2>6 DEF Life
<1>5. CASE Lookup(h)
  <2>1. UNCHANGED <<approvals, pending, answers, graph, ctx, outcome, adapter, worker, hid>>
        /\ hpc[h] = "lookup"
    BY <1>5 DEF Lookup, graphVars, store, workerVars
  <2>2. Taken
    BY <2>1 DEF Life, Unasked, Waiting, Untouched, Idle, Denied, Alone, Replaying, Over
  <2>3. Go(h, "invoke") /\ status' = "resuming"
    BY <1>5, <2>2 DEF Lookup, Taken
  <2>4. hpc'[h] = "invoke" /\ Alone'
    BY <1>1, <2>1, <2>3, HandlerMoves
  <2>5. hid[h] = 1
    BY <1>1, <2>1, <2>2 DEF Taken, Alone
  <2>6. Taken'
    BY <2>1, <2>2, <2>3, <2>4, <2>5 DEF Taken, TheRequest
  <2>7. EndedAs'
    BY <2>1, <2>2 DEF Taken, EndedAs
  <2>8. QED BY <2>4, <2>6, <2>7 DEF Life
<1>6. CASE InvokeGraph(h)
  <2>1. UNCHANGED <<plan, approvals, pending, ctx, status, worker>> /\ hpc[h] = "invoke"
        /\ Go(h, "await")
    BY <1>6 DEF InvokeGraph, store, service, workerVars
  <2>2. Taken
    BY <2>1 DEF Life, Unasked, Waiting, Untouched, Idle, Denied, Alone, Replaying, Over
  <2>3. hid[h] = 1 /\ status = "resuming" /\ answers = <<>>
    BY <1>1, <2>1, <2>2 DEF Taken, Alone
  <2>4. graph' = "running" /\ answers' = <<1>> /\ asked' = 0
    BY <1>6, <2>2, <2>3 DEF InvokeGraph, Taken
  <2>5. hpc'[h] = "await" /\ Alone'
    BY <1>1, <2>1, HandlerMoves
  <2>6. Unspent' /\ AskedShows'
    BY <2>1, <2>2, <2>4 DEF Unspent, AskedShows, Taken
  <2>7. Replaying'
    BY <2>1, <2>2, <2>3, <2>4, <2>5, <2>6 DEF Replaying, Taken, TheRequest
  <2>8. QED BY <2>4, <2>5, <2>7 DEF Life, EndedAs
<1>7. CASE ResumeReturns(h)
  <2>1. UNCHANGED <<phase, asked, answers, approvals, graph, outcome, status, worker>>
        /\ hpc[h] = "await"
        /\ graph # "running" /\ Go(h, "mark")
    BY <1>7 DEF ResumeReturns, store, service, workerVars
  <2>2. Replaying
    BY <1>1, <2>1 DEF Life, Unasked, Waiting, Untouched, Idle, Denied, Taken, Alone, Over
  <2>3. graph = "ended"
    BY <1>1, <2>1, <2>2 DEF Replaying, TypeOK
  <2>4. result' \in Ends /\ (~AnswerUnused => ctx' \in {"completed", "failed", "blocked"})
    <3>1. outcome \in Ends /\ "failed" \in Ends
          /\ (~AnswerUnused => ctx \in {"completed", "failed", "blocked"})
      BY <1>1, <2>3 DEF EndedAs, Ends, Finals
    <3>2. \/ result' = outcome /\ ctx' = ctx
          \/ result' = "failed" /\ ctx' = "failed"
      BY <1>7, <2>3 DEF ResumeReturns
    <3>3. QED BY <3>1, <3>2
  <2>8. Ends' = Ends /\ AnswerUnused' = AnswerUnused
    BY <2>1 DEF Ends, AnswerUnused
  <2>5. hpc'[h] = "mark" /\ Alone'
    BY <1>1, <2>1, HandlerMoves
  <2>6. Over'
    BY <2>1, <2>2, <2>3, <2>4, <2>5, <2>8 DEF Over, Replaying, TheRequest
  <2>7. EndedAs'
    BY <1>1, <2>1, <2>4, <2>8 DEF EndedAs
  <2>9. QED BY <2>5, <2>6, <2>7 DEF Life
<1>8. CASE ResumeMark(h) \/ ResumeFinish(h)
  <2>1. UNCHANGED <<phase, asked, answers, approvals, graph, ctx, outcome, result, worker>>
        /\ hpc[h] \in {"mark", "finish"}
    BY <1>8 DEF ResumeMark, ResumeFinish, nodeVars, graphVars, store, workerVars
  <2>2. \/ hpc[h] = "mark" /\ Go(h, "finish") /\ status' = result
        \/ hpc[h] = "finish" /\ Go(h, "idle") /\ status' = status
           /\ (result # "succeeded" => failedTold')
    BY <1>8 DEF ResumeMark, ResumeFinish
  <2>3. Over
    BY <1>1, <2>1 DEF Life, Unasked, Waiting, Untouched, Idle, Denied, Taken, Replaying, Alone
  <2>4. result \in Ends /\ (hpc[h] = "finish" => status = result)
    BY <1>1, <2>1, <2>3 DEF Over, Alone, Idle
  <2>5. /\ Alone'
        /\ \/ hpc'[h] = "finish" /\ status' = result'
           \/ Idle' /\ status' = result /\ (status' # "succeeded" => failedTold')
    <3>1. CASE hpc[h] = "mark" /\ Go(h, "finish") /\ status' = result
      BY <1>1, <2>1, <3>1, HandlerMoves
    <3>2. CASE hpc[h] = "finish" /\ Go(h, "idle") /\ status' = status
               /\ (result # "succeeded" => failedTold')
      BY <1>1, <2>4, <3>2, HandlerMoves
    <3>3. QED BY <2>2, <3>1, <3>2
  <2>6. EndedAs' /\ Ends' = Ends
    BY <1>1, <2>1, SameEnd
  <2>7. Over'
    BY <2>1, <2>3, <2>4, <2>5, <2>6 DEF Over, TheRequest
  <2>8. QED BY <2>5, <2>6, <2>7 DEF Life
<1>9. QED
  BY <1>2, <1>3, <1>4, <1>5, <1>6, <1>7, <1>8 DEF HandlerAction

LEMMA NextLife ==
  ASSUME OneAsks, Patient, Inv, Once, Life, [Next]_vars
  PROVE  Life'
<1>1. CASE NodeStep
  BY <1>1, NodeLife
<1>2. CASE WorkerAction
  BY <1>2, WorkerLife
<1>3. CASE \E h \in Handlers : HandlerAction(h)
  BY <1>3, HandlerLife
<1>4. CASE UNCHANGED vars
  BY <1>4 DEF Life, Alone, EndedAs, Unasked, Waiting, Denied, Taken, Replaying, Over,
              TheRequest, Untouched, Settled, Unspent, AskedShows, Ends, AnswerUnused, Idle,
              vars, nodeVars, graphVars, store, service, handler, workerVars
<1>5. QED BY <1>1, <1>2, <1>3, <1>4 DEF Next

LEMMA InitLife == ASSUME Init PROVE Life
<1>1. Alone /\ EndedAs /\ Untouched
  BY DEF Init, Alone, EndedAs, Untouched, Idle
<1>2. Settled(Finals)
  BY DEF Init, Settled
<1>3. Unasked
  BY <1>1, <1>2 DEF Init, Unasked
<1>4. QED BY <1>1, <1>3 DEF Life

\* With a step that asks at most and a user who waits for the worker, the
\* request of a task has one life: asked, decided, replayed, over.
LEMMA Lives == ASSUME OneAsks, Patient PROVE Spec => [](Inv /\ Life)
<1>1. Init => Inv /\ Once /\ Life
  BY InitInv, InitOnce, InitLife
<1>2. Inv /\ Once /\ [Next]_vars => Once'
  BY NextOnce
<1>3. Inv /\ Once /\ Life /\ [Next]_vars => Life'
  BY NextLife
<1>4. QED BY <1>1, <1>2, <1>3, Inductive, PTL DEF Spec

\* What a task at rest says is so: it waits for an approval exactly while one
\* can be given, and a failure that the clients were told of is final, unless
\* the gate has let a replay through: that task never succeeds.
THEOREM RestIsTold == ASSUME OneAsks, Patient PROVE Spec => []ToldTruly
<1>1. Inv /\ Life => ToldTruly
  <2> SUFFICES ASSUME Inv, Life, AtRest PROVE
        /\ ~AnswerUnused => (status = "requires_approval" <=> \E i \in Ids : Undecided(i))
        /\ failedTold /\ ~AnswerUnused => status # "requires_approval"
        /\ AnswerUnused => /\ status \in {"requires_approval", "failed"}
                           /\ failedTold /\ ~ \E i \in Ids : Undecided(i)
    BY DEF ToldTruly, WaitsWhileUndecided, FailureToldIsFinal, UnusedNeverSucceeds
  <2>1. worker = "done" /\ Idle /\ Len(approvals) \in Nat
    BY DEF AtRest, Idle, Inv, TypeOK
  <2>2. answers = <<>> => ~AnswerUnused
    BY DEF AnswerUnused, Inv, TypeOK
  <2>3. CASE Unasked
    BY <2>1, <2>2, <2>3 DEF Unasked, Untouched, Settled, Finals, Ids
  <2>4. CASE Waiting
    <3>1. 1 \in Ids /\ Undecided(1)
      BY <2>4 DEF Waiting, TheRequest, Ids, Undecided
    <3>2. QED BY <2>1, <2>2, <2>4, <3>1 DEF Waiting, Settled, Untouched
  <2>5. ASSUME NEW s \in {"rejected", "approved"}, TheRequest(s)
        PROVE  ~ \E i \in Ids : Undecided(i)
    BY <2>5 DEF TheRequest, Ids, Undecided
  <2>6. CASE Denied
    BY <2>1, <2>2, <2>5, <2>6 DEF Denied
  <2>7. CASE Over
    <3>1. status \in Ends /\ (status # "succeeded" => failedTold)
      BY <2>1, <2>7 DEF Over, Idle
    <3>2. QED BY <2>5, <2>7, <3>1 DEF Over, Ends, Finals
  <2>8. ~Taken /\ ~Replaying
    BY <2>1 DEF Taken, Replaying, Idle
  <2>9. QED BY <2>3, <2>4, <2>6, <2>7, <2>8 DEF Life
<1>2. QED BY <1>1, Lives, PTL

\* A task that has succeeded is not written to again: the worker has written
\* before anything is decided, and no decision is left.
THEOREM SuccessStays == ASSUME OneAsks, Patient PROVE Spec => SuccessIsFinal
<1>1. Inv /\ Life /\ [Next]_vars => [status = "succeeded" => status' = "succeeded"]_vars
  <2> SUFFICES ASSUME Inv, Life, Next, status = "succeeded" PROVE status' = "succeeded"
    OBVIOUS
  <2>1. worker = "done" /\ (Unasked \/ Over)
    BY DEF Life, Unasked, Waiting, Settled, Denied, Taken, Replaying, Over
  <2>2. CASE NodeStep
    BY <2>2 DEF NodeStep, service
  <2>3. ~WorkerAction
    BY <2>1 DEF WorkerAction, RunReturns, SettleRead, SettleWrite
  <2>4. CASE \E h \in Handlers : HandlerAction(h)
    <3>1. PICK h \in Handlers : HandlerAction(h)
      BY <2>4
    <3>2. hpc[h] \in {"idle", "finish"}
      BY <2>1 DEF Life, Unasked, Untouched, Over, Idle, Alone
    <3>3. CASE \E i \in Ids : Approve(h, i) \/ Reject(h, i)
      BY <3>3 DEF Approve, Reject, service
    <3>4. CASE ~ \E i \in Ids : Approve(h, i) \/ Reject(h, i)
      <4>1. ResumeFinish(h)
        BY <3>1, <3>2, <3>4 DEF HandlerAction, Drop, RejectMark, Lookup, InvokeGraph,
                                ResumeReturns, ResumeMark
      <4>2. QED BY <4>1 DEF ResumeFinish
    <3>5. QED BY <3>3, <3>4
  <2>5. CASE UNCHANGED vars
    BY <2>5 DEF vars, service
  <2>6. QED BY <2>2, <2>3, <2>4, <2>5 DEF Next
<1>2. QED BY <1>1, Lives, PTL DEF Spec, SuccessIsFinal
=============================================================================
