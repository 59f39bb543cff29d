----------------------------- MODULE TaskRecords -----------------------------
(***************************************************************************)
(* What is known of one task, and by whom: the status in the service's     *)
(* memory, the transcript it is derived from after a restart, the database *)
(* row and the conversation (api/task_service.py, api/task_state.py,       *)
(* api/resume.py, runtime/persistence/sqlite_store.py).                    *)
(* Every line of the transcript that status_from_transcript reads sets the *)
(* status anew, so the last such line stands for the transcript.           *)
(* Workers follow one another here; TaskControl has those that overlap.    *)
(***************************************************************************)
EXTENDS Naturals, Sequences

CONSTANTS
    MaxRuns,      \* bound: executions of the workflow
    MaxRestarts,  \* bound: ends of the process
    MaxRequests   \* bound: requests of the user

ASSUME TaskRecordsAssumption ==
    MaxRuns \in Nat \ {0} /\ MaxRestarts \in Nat /\ MaxRequests \in Nat

VARIABLES
    kind,        \* POST /tasks ("sync") or POST /tasks/async
    named,       \* request.conversation_id: "none", "known" or "unknown"
    at,          \* the worker: "none", "run", "settle", "persist", "idle", or
                 \* "resumed", the graph in the thread that approved
    end,         \* how the execution in progress, or else the last one, ended
    wanted,      \* control request the execution has not heeded yet
    mem,         \* _task_states[task].status, "none" without an entry
    known,       \* the request is in _task_requests
    approval,    \* an adapter waits for an approval that is pending
    line,        \* last status line of transcript.jsonl
    row,         \* the tasks row: status and conversation_id
    convs,       \* rows of conversations: the one named, the one made for it
    messages,    \* rows of messages
    runs, restarts, requests,
    lost,        \* history: a database write failed, or the process ended
    settled,     \* history: the status the last worker settled on
    answers,     \* history: workers that settled on one to be answered
    good         \* history: some execution has completed

db == <<row, convs, messages>>
counters == <<runs, restarts, requests>>
vars == <<kind, named, at, end, wanted, mem, known, approval, line, db,
          counters, lost, settled, answers, good>>

Ends == {"succeeded", "succeeded_partial", "failed", "blocked", "canceled",
         "paused", "requires_approval"}
Requested == {"running", "cancel_requested", "stop_requested"}
Statuses == Ends \cup Requested \cup {"rejected", "resuming"}

-----------------------------------------------------------------------------
(* Statuses.                                                               *)

\* Mutant: a transcript without a status line is that of a finished task.
RememberedOptimist == IF line = "none" THEN "succeeded" ELSE line

\* status_from_transcript: what a new process makes of the task.
Remembered == IF line = "none" THEN "failed" ELSE line

\* get_task_status.
Reported == IF mem # "none" THEN mem
            ELSE IF at = "none" THEN "not_found" ELSE Remembered

\* The status line an execution's end writes: an interrupt says task_paused,
\* and a node that raises says nothing, nor does one that starts no context.
LineOf(e) == CASE e = "requires_approval" -> "paused"
               [] e \in {"raised", "no context"} -> line
               [] OTHER -> e

\* What the worker makes of the end: the workflow returns, context or not.
StatusOf(e) == CASE e = "raised" -> "failed"
                 [] e = "no context" -> IF kind = "sync" THEN "failed" ELSE "succeeded"
                 [] OTHER -> e

-----------------------------------------------------------------------------
(* The database.  Each write may fail and the rest is then left out.       *)

Answered == {"succeeded", "failed", "blocked", "rejected"}

Message(c, r) == [conv |-> c, role |-> r]

\* upsert_task.
Row(s, c) == [status |-> s, conv |-> c]

\* add_message.
Add(there, c, r) ==
    IF c \in there THEN Append(messages, Message(c, r)) ELSE messages

(* _persist_task_started: an unknown conversation is replaced by a new one.*)
PersistStarted(name) ==
    LET conv == CASE name = "none" -> "none" [] name = "known" -> "given"
                  [] OTHER -> "made"
    IN  \E n \in 0..3 :
          /\ convs' = IF conv = "made" /\ n > 0 THEN convs \cup {"made"} ELSE convs
          /\ messages' = IF n > 1 THEN Add(convs', conv, "user") ELSE messages
          /\ row' = IF n > 2 THEN Row("running", conv) ELSE row
          /\ lost' = (n < 3)

\* Mutant: a task that waits gets its answer as well.
PersistFinishedWaiting ==
    \E n \in 0..2 :
       LET conv == IF named = "none" THEN "none" ELSE "given"
       IN  /\ row' = IF n > 0 THEN Row(settled, conv) ELSE row
           /\ messages' = IF n > 1 THEN Add(convs, conv, "assistant") ELSE messages
           /\ lost' = (lost \/ n < 2)
           /\ UNCHANGED convs

(* _persist_task_finished: with the id of the request, whatever it named.  *)
PersistFinished ==
    \E n \in 0..2 :
       LET conv == IF named = "none" THEN "none" ELSE "given"
       IN  /\ row' = IF n > 0 THEN Row(settled, conv) ELSE row
           /\ messages' = IF n > 1 /\ settled \in Answered
                          THEN Add(convs, conv, "assistant") ELSE messages
           /\ lost' = (lost \/ n < 2)
           /\ UNCHANGED convs

-----------------------------------------------------------------------------
(* The service.                                                            *)

\* create_and_run_task, create_and_run_task_async.
Create ==
    /\ at = "none"
    /\ at' = "run" /\ runs' = 1 /\ known' = TRUE
    /\ mem' = IF kind = "async" THEN "running" ELSE "none"
    /\ PersistStarted(named)
    /\ UNCHANGED <<kind, named, end, wanted, approval, line, restarts, requests,
                   settled, answers, good>>

\* Mutant: a run that is canceled writes no line.
WorkflowEndsSilent ==
    /\ at \in {"run", "resumed"}
    /\ \E e \in Ends \cup {"raised", "no context"} :
          /\ e \in {"canceled", "succeeded_partial", "paused"} => e = wanted
          /\ e = "no context" => at = "run"
          /\ end' = e
          /\ line' = IF e = "canceled" THEN line ELSE LineOf(e)
          /\ wanted' = IF e = "succeeded_partial" THEN "none" ELSE wanted
          /\ approval' = (e = "requires_approval")
          /\ good' = (good \/ e = "succeeded")
    /\ at' = IF at = "run" THEN "settle" ELSE "return"
    /\ UNCHANGED <<kind, named, mem, known, db, counters, lost, settled, answers>>

(* The workflow ends, in a worker or in the thread of an approval.  What a *)
(* checkpoint heeds has been wanted; a standing request may be passed over *)
(* when it comes late.                                                     *)
WorkflowEnds ==
    /\ at \in {"run", "resumed"}
    /\ \E e \in Ends \cup {"raised", "no context"} :
          /\ e \in {"canceled", "succeeded_partial", "paused"} => e = wanted
          /\ e = "no context" => at = "run"
          /\ end' = e
          /\ line' = LineOf(e)
          /\ wanted' = IF e = "succeeded_partial" THEN "none" ELSE wanted
          /\ approval' = (e = "requires_approval")
          /\ good' = (good \/ e = "succeeded")
    /\ at' = IF at = "run" THEN "settle" ELSE "return"
    /\ UNCHANGED <<kind, named, mem, known, db, counters, lost, settled, answers>>

(* The worker writes the status, before the row and the conversation; the  *)
(* request that waited for its answer has no entry to write.  resume_task  *)
(* starts a worker of the other kind, and makes the entry.                 *)
Settle ==
    /\ at = "settle"
    /\ settled' = StatusOf(end)
    /\ answers' = IF settled' \in Answered THEN answers + 1 ELSE answers
    /\ mem' = IF kind = "sync" THEN mem ELSE StatusOf(end)
    /\ at' = "persist"
    /\ UNCHANGED <<kind, named, end, wanted, known, approval, line, db, counters,
                   lost, good>>

Persist ==
    /\ at = "persist"
    /\ PersistFinished
    /\ at' = "idle"
    /\ UNCHANGED <<kind, named, end, wanted, mem, known, approval, line, counters,
                   settled, answers, good>>

\* resume_langgraph_after_approval marks the status; no row is written.
ResumeReturns ==
    /\ at = "return"
    /\ mem' = StatusOf(end)
    /\ at' = "idle"
    /\ UNCHANGED <<kind, named, end, wanted, known, approval, line, db, counters,
                   lost, settled, answers, good>>

\* The process ends, wherever it is, and starts again.
Restart ==
    /\ restarts < MaxRestarts /\ at # "none"
    /\ restarts' = restarts + 1
    /\ mem' = "none" /\ known' = FALSE /\ approval' = FALSE /\ wanted' = "none"
    /\ end' = IF at \in {"run", "resumed"} THEN "cut" ELSE end
    /\ lost' = (lost \/ at \in {"run", "settle", "persist"})
    /\ at' = "idle"
    /\ UNCHANGED <<kind, named, line, db, runs, requests, settled, answers,
                   good>>

-----------------------------------------------------------------------------
(* The user.                                                               *)

Ask ==
    /\ requests < MaxRequests /\ at # "none"
    /\ requests' = requests + 1
    /\ UNCHANGED <<named, restarts, db, line, lost, settled, answers, good>>

Pause ==
    /\ Ask /\ mem' = "paused"
    /\ wanted' = IF wanted = "none" THEN "paused" ELSE wanted
    /\ UNCHANGED <<kind, at, end, known, approval, runs>>

Cancel ==
    /\ Ask /\ wanted' = "canceled" /\ mem' = "cancel_requested"
    /\ UNCHANGED <<kind, at, end, known, approval, runs>>

(* stop_and_summarize_task writes the partial report itself when the task  *)
(* is reported at rest, and says so in memory and nowhere else.            *)
Stop ==
    /\ Ask
    /\ IF Reported \in {"paused", "requires_approval", "failed"}
       THEN /\ mem' = "succeeded_partial"
            /\ wanted' = IF wanted = "canceled" THEN wanted ELSE "none"
       ELSE /\ mem' = "stop_requested"
            /\ wanted' = IF wanted = "canceled" THEN wanted ELSE "succeeded_partial"
    /\ UNCHANGED <<kind, at, end, known, approval, runs>>

\* resume_task: without the request there is nothing to start.  Under an
\* approval that waits it is the subject of ToolGateway.
Resume ==
    /\ Ask /\ at = "idle" /\ ~approval
    /\ mem' = "running" /\ wanted' = "none"
    /\ \/ /\ known /\ runs < MaxRuns
          /\ at' = "run" /\ kind' = "async" /\ runs' = runs + 1
       \/ ~known /\ UNCHANGED <<kind, at, runs>>
    /\ UNCHANGED <<end, known, approval>>

Approve ==
    /\ Ask /\ at = "idle" /\ approval /\ runs < MaxRuns
    /\ mem' = "resuming" /\ at' = "resumed" /\ runs' = runs + 1
    /\ approval' = FALSE
    /\ UNCHANGED <<kind, end, wanted, known>>

\* Mutant: a decision is an end of the run's own.
RejectWaiting ==
    /\ Ask /\ at = "idle" /\ approval
    /\ mem' = "rejected" /\ end' = "rejected"
    /\ UNCHANGED <<kind, at, wanted, known, approval, runs>>

\* After a restart no approval is known, and nothing can be decided.
Reject ==
    /\ Ask /\ at = "idle" /\ approval
    /\ mem' = "rejected" /\ approval' = FALSE
    /\ UNCHANGED <<kind, at, end, wanted, known, runs>>

User == Pause \/ Cancel \/ Stop \/ Resume \/ Approve \/ Reject

-----------------------------------------------------------------------------

Init ==
    /\ kind \in {"sync", "async"} /\ named \in {"none", "known", "unknown"}
    /\ at = "none" /\ end = "none" /\ wanted = "none" /\ mem = "none"
    /\ known = FALSE /\ approval = FALSE /\ line = "none"
    /\ row = Row("none", "none")
    /\ convs = IF named = "known" THEN {"given"} ELSE {}
    /\ messages = <<>>
    /\ runs = 0 /\ restarts = 0 /\ requests = 0
    /\ lost = FALSE /\ settled = "none" /\ good = FALSE /\ answers = 0

Work == WorkflowEnds \/ Settle \/ Persist \/ ResumeReturns

Next == Create \/ Work \/ Restart \/ User

Spec == Init /\ [][Next]_vars

-----------------------------------------------------------------------------
(* Properties.                                                             *)

TypeOK ==
    /\ kind \in {"sync", "async"} /\ named \in {"none", "known", "unknown"}
    /\ at \in {"none", "run", "settle", "persist", "resumed", "return", "idle"}
    /\ end \in Ends \cup {"none", "raised", "no context", "cut"}
    /\ wanted \in {"none", "paused", "canceled", "succeeded_partial"}
    /\ mem \in Statuses \cup {"none"} /\ line \in Ends \cup {"none"}
    /\ row \in [status : Ends \cup {"none", "running"}, conv : {"none", "given", "made"}]
    /\ convs \subseteq {"given", "made"}
    /\ messages \in Seq([conv : convs, role : {"user", "assistant"}])
    /\ runs \in 0..MaxRuns /\ restarts \in 0..MaxRestarts
    /\ requests \in 0..MaxRequests
    /\ settled \in Ends \cup {"none"} /\ answers \in 0..MaxRuns
    /\ known \in BOOLEAN /\ approval \in BOOLEAN
    /\ lost \in BOOLEAN /\ good \in BOOLEAN
    /\ approval => end = "requires_approval"

\* The API says "succeeded" of no task of which no execution has completed,
\* over interruptions, failures and restarts - save by the default for a
\* worker that never had a context.
SuccessIsReal ==
    Reported = "succeeded" => good \/ (mem = "succeeded" /\ end = "no context")

\* A restart does not change what is said of a task that has finished,
\* unless a node raised: that end is in no transcript, so that a task which
\* paused and then failed is said to be paused again.
RestartKeeps ==
    [][restarts' # restarts /\ at = "idle"
         /\ mem \in {"succeeded", "failed", "blocked", "canceled"}
       => Reported' = mem \/ end \in {"raised", "no context"}]_vars

\* The row of a task at rest says what memory says, unless the execution
\* that an approval resumed has ended it: then it waits in the row for ever.
RowAgrees ==
    at = "idle" /\ ~lost /\ mem \in {"succeeded", "failed", "blocked", "canceled"}
    => row.status \in {mem, "requires_approval"}

\* A row belongs to a conversation there is, until a worker ends whose
\* request named one that there was not.
RowInConversation ==
    row.conv \in convs \cup {"none"} \/ (named = "unknown" /\ settled # "none")

\* A conversation has one question and one answer for each worker that came
\* to an end worth telling; one made in place of an unknown one has none.
AnswersMatch ==
    at \in {"run", "idle"} /\ ~lost =>
       Len(messages) = CASE named = "none" -> 0
                         [] named = "known" -> 1 + answers
                         [] OTHER -> 1

\* Memory, the row and the conversation tell the same story, and where they
\* do not it is one of the exceptions above.
RowsAgree == RowAgrees /\ RowInConversation /\ AnswersMatch

\* A task that is said to be running has a worker, unless a restart has lost
\* the request, and with it what a resume could start.
RunningHasWorker ==
    /\ mem = "running" /\ known => at \in {"run", "settle"}
    /\ mem = "resuming" => at \in {"resumed", "return"}

\* What the API says of a task can be relied on: it succeeded, or it runs.
StatusIsReal == SuccessIsReal /\ RunningHasWorker
=============================================================================
