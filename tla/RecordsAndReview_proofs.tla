----------------------- MODULE RecordsAndReview_proofs ----------------------
(***************************************************************************)
(* Theorems about TaskRecords, for every number of executions, restarts    *)
(* and requests, and about ReportReview, for every report, every evidence  *)
(* list and every number of attempts.                                      *)
(***************************************************************************)
EXTENDS TaskRecords, ReportReview, SequenceTheorems, FiniteSetTheorems,
        WellFoundedInduction, TLAPS

-----------------------------------------------------------------------------
(* The inductive invariant.                                                *)

Finished == {"succeeded", "failed", "blocked", "canceled"}
Unwritten == {"raised", "no context"}

\* Before the task is created nothing is known of it; after a restart there is
\* no request to start a worker with, and no approval to decide.
Begun ==
    /\ at = "none" => /\ ~known /\ mem = "none" /\ end = "none"
                      /\ runs = 0 /\ answers = 0 /\ settled = "none"
                      /\ messages = <<>> /\ ~approval
    /\ ~known /\ at # "none" => at = "idle" /\ ~approval

\* A worker that has not settled is not counted among the answers yet.
Counted == answers <= runs /\ (at \in {"run", "settle"} => answers < runs)

\* The last status line of the transcript and the last end agree, and whoever
\* says that the task succeeded has seen an execution complete.
Ending ==
    /\ at \in {"settle", "persist", "return"} => end \in Ends \cup Unwritten
    /\ at = "persist" => settled = StatusOf(end)
    /\ end \in Finished => line = end
    /\ end = "succeeded" \/ line = "succeeded" => good

\* Memory says finished only at the end of an execution, and only what the
\* transcript says as well, or cannot say.
Memory ==
    /\ mem \in Finished => /\ at \in {"persist", "idle"}
                           /\ line = mem \/ end \in Unwritten
    /\ mem = "succeeded" => good \/ end = "no context"
    /\ at = "persist" /\ mem \in Finished => mem = settled
    /\ kind = "sync" /\ known => mem # "running"
    /\ RunningHasWorker

\* The row of a task that an approval holds says so until its worker persists.
RowKept ==
    /\ ~lost /\ (at \in {"resumed", "return"} \/ (at = "idle" /\ approval))
         => row.status = "requires_approval"
    /\ RowAgrees

Conversing ==
    /\ named = "known" <=> "given" \in convs
    /\ RowInConversation

\* Messages, with the one a worker is about to write.
Told ==
    ~lost /\ at # "none" =>
       Len(messages) + (IF named = "known" /\ at = "persist" /\ settled \in Answered
                        THEN 1 ELSE 0)
         = CASE named = "none" -> 0
             [] named = "known" -> 1 + answers
             [] OTHER -> 1

IInv ==
    /\ TypeOK /\ Begun /\ Counted /\ Ending /\ Memory /\ RowKept /\ Conversing
    /\ Told

-----------------------------------------------------------------------------
(* Facts the steps share.                                                  *)

\* TypeOK in parts: the Boolean variables, the database, the counters, and
\* all the others.
FlagsTyped ==
    /\ known \in BOOLEAN /\ approval \in BOOLEAN
    /\ lost \in BOOLEAN /\ good \in BOOLEAN
    /\ approval => end = "requires_approval"

WordsTyped ==
    /\ kind \in {"sync", "async"} /\ named \in {"none", "known", "unknown"}
    /\ at \in {"none", "run", "settle", "persist", "resumed", "return", "idle"}
    /\ end \in Ends \cup {"none", "raised", "no context", "cut"}
    /\ wanted \in {"none", "paused", "canceled", "succeeded_partial"}
    /\ mem \in Statuses \cup {"none"} /\ line \in Ends \cup {"none"}
    /\ settled \in Ends \cup {"none"}

StoredTyped ==
    /\ row \in [status : Ends \cup {"none", "running"}, conv : {"none", "given", "made"}]
    /\ convs \subseteq {"given", "made"}
    /\ messages \in Seq([conv : convs, role : {"user", "assistant"}])

CountsTyped ==
    /\ runs \in 0..MaxRuns /\ restarts \in 0..MaxRestarts
    /\ requests \in 0..MaxRequests /\ answers \in 0..MaxRuns

LEMMA TypeParts == TypeOK <=> FlagsTyped /\ WordsTyped /\ StoredTyped /\ CountsTyped
BY DEF TypeOK, FlagsTyped, WordsTyped, StoredTyped, CountsTyped

LEMMA TypePartsNext == TypeOK' <=> FlagsTyped' /\ WordsTyped' /\ StoredTyped' /\ CountsTyped'
BY TypeParts, PTL

LEMMA StoredKept ==
    ASSUME StoredTyped, row' = row, convs' = convs, messages' = messages
    PROVE  StoredTyped'
BY DEF StoredTyped

\* What an end makes of the status and of the transcript.
LEMMA EndIsToldSo ==
    ASSUME TypeOK, NEW e \in Ends \cup Unwritten
    PROVE  /\ StatusOf(e) \in Ends /\ LineOf(e) \in Ends \cup {"none"}
           /\ e \in Finished => LineOf(e) = e
           /\ LineOf(e) = "succeeded" => e = "succeeded" \/ line = "succeeded"
           /\ StatusOf(e) = "succeeded" => e \in {"succeeded", "no context"}
           /\ StatusOf(e) \in Finished => StatusOf(e) = e \/ e \in Unwritten
BY DEF TypeOK, Ends, Unwritten, Finished, StatusOf, LineOf

\* add_message: what was there stays, and a message comes to a conversation
\* that there is.
LEMMA MessageAdded ==
    ASSUME TypeOK, NEW there, convs \subseteq there, there \subseteq {"given", "made"},
           NEW c, NEW r \in {"user", "assistant"}
    PROVE  /\ Add(there, c, r) \in Seq([conv : there, role : {"user", "assistant"}])
           /\ messages \in Seq([conv : there, role : {"user", "assistant"}])
           /\ Len(messages) \in Nat
           /\ c \in there => Len(Add(there, c, r)) = Len(messages) + 1
           /\ c \notin there => Len(Add(there, c, r)) = Len(messages)
<1> DEFINE M == [conv : there, role : {"user", "assistant"}]
<1>1. messages \in Seq([conv : convs, role : {"user", "assistant"}])
  BY DEF TypeOK
<1>2. messages \in Seq(M)
  BY <1>1, SeqMonotonic
<1>3. Len(messages) \in Nat
  BY <1>2, LenProperties
<1>4. CASE c \in there
  <2>1. [conv |-> c, role |-> r] \in M
    BY <1>4
  <2>2. Add(there, c, r) = Append(messages, [conv |-> c, role |-> r])
    BY <1>4 DEF Add, Message
  <2>3. QED BY <1>2, <1>3, <1>4, <2>1, <2>2, AppendProperties
<1>5. CASE c \notin there
  BY <1>2, <1>3, <1>5 DEF Add
<1>6. QED BY <1>4, <1>5

-----------------------------------------------------------------------------
(* The invariant holds in the beginning.                                   *)

LEMMA InitIInv == Init => IInv
<1> SUFFICES ASSUME Init PROVE IInv
  OBVIOUS
<1>1. messages = <<>> /\ messages \in Seq([conv : convs, role : {"user", "assistant"}])
  BY EmptySeq DEF Init
<1>2. TypeOK
  <2>0. WordsTyped
    BY DEF Init, WordsTyped
  <2>1. StoredTyped
    BY <1>1 DEF Init, StoredTyped, Row
  <2>2. FlagsTyped
    BY DEF Init, FlagsTyped
  <2>3. CountsTyped
    BY TaskRecordsAssumption DEF Init, CountsTyped
  <2>4. QED BY <2>0, <2>1, <2>2, <2>3, TypeParts
<1>3. Begun /\ Counted /\ Ending
  BY DEF Init, Begun, Counted, Ending, Finished, Ends, Unwritten
<1>4. Memory /\ RowKept /\ Conversing
  BY DEF Init, Memory, RowKept, Conversing, Finished, RunningHasWorker, Row,
         RowAgrees, RowInConversation
<1>5. Told
  BY DEF Init, Told
<1>6. QED BY <1>2, <1>3, <1>4, <1>5 DEF IInv

-----------------------------------------------------------------------------
(* The steps.                                                              *)

LEMMA WorkflowEndsKeeps ==
    ASSUME IInv, WorkflowEnds
    PROVE  IInv'
<1>1. PICK e \in Ends \cup Unwritten :
          /\ e \in {"canceled", "succeeded_partial", "paused"} => e = wanted
          /\ e = "no context" => at = "run"
          /\ end' = e
          /\ line' = LineOf(e)
          /\ wanted' = IF e = "succeeded_partial" THEN "none" ELSE wanted
          /\ approval' = (e = "requires_approval")
          /\ good' = (good \/ e = "succeeded")
  BY DEF WorkflowEnds, Unwritten
<1>2. /\ at \in {"run", "resumed"}
      /\ at' = IF at = "run" THEN "settle" ELSE "return"
      /\ UNCHANGED <<kind, named, mem, known, row, convs, messages, runs, restarts,
                     requests, lost, settled, answers>>
  BY DEF WorkflowEnds, db, counters
<1>3. TypeOK /\ Begun /\ Counted /\ Ending /\ Memory /\ RowKept /\ Conversing /\ Told
  BY DEF IInv
<1>4. /\ StatusOf(e) \in Ends /\ LineOf(e) \in Ends \cup {"none"}
      /\ e \in Finished => LineOf(e) = e
      /\ LineOf(e) = "succeeded" => e = "succeeded" \/ line = "succeeded"
      /\ StatusOf(e) = "succeeded" => e \in {"succeeded", "no context"}
      /\ StatusOf(e) \in Finished => StatusOf(e) = e \/ e \in Unwritten
  BY <1>3, EndIsToldSo
<1>5. TypeOK'
  <2>1. FlagsTyped /\ WordsTyped /\ StoredTyped /\ CountsTyped
    BY <1>3, TypeParts
  <2>2. FlagsTyped'
    BY <1>1, <1>2, <2>1 DEF FlagsTyped
  <2>3. WordsTyped'
    <3>1. end' = e /\ line' = LineOf(e) /\ wanted' \in {"none", wanted}
      BY <1>1
    <3>2. end' \in Ends \cup {"none", "raised", "no context", "cut"}
      BY <3>1 DEF Unwritten
    <3>3. /\ wanted' \in {"none", "paused", "canceled", "succeeded_partial"}
          /\ at' \in {"settle", "return"} /\ line' \in Ends \cup {"none"}
      BY <1>2, <1>4, <2>1, <3>1 DEF WordsTyped
    <3>4. QED BY <1>2, <2>1, <3>2, <3>3 DEF WordsTyped
  <2>4. CountsTyped'
    BY <1>2, <2>1 DEF CountsTyped
  <2>5. StoredTyped'
    BY <1>2, <2>1, StoredKept
  <2>6. QED BY <2>2, <2>3, <2>4, <2>5, TypePartsNext
<1>6. Begun'
  BY <1>1, <1>2, <1>3 DEF Begun
<1>7. Counted'
  BY <1>2, <1>3 DEF Counted
<1>8. Ending'
  BY <1>1, <1>2, <1>3, <1>4 DEF Ending, Finished
<1>9. Memory'
  BY <1>1, <1>2, <1>3, <1>4 DEF Memory, Finished, RunningHasWorker
<1>10. RowKept'
  BY <1>1, <1>2, <1>3, <1>4 DEF RowKept, RowAgrees
<1>11. Conversing' /\ Told'
  BY <1>1, <1>2, <1>3, <1>4 DEF Conversing, RowInConversation, Told
<1>12. QED BY <1>5, <1>6, <1>7, <1>8, <1>9, <1>10, <1>11 DEF IInv

LEMMA CreateKeeps ==
    ASSUME IInv, Create
    PROVE  IInv'
<1> DEFINE conv == CASE named = "none" -> "none" [] named = "known" -> "given"
                     [] OTHER -> "made"
<1>1. PICK n \in 0..3 :
          /\ convs' = IF conv = "made" /\ n > 0 THEN convs \cup {"made"} ELSE convs
          /\ messages' = IF n > 1 THEN Add(convs', conv, "user") ELSE messages
          /\ row' = IF n > 2 THEN Row("running", conv) ELSE row
          /\ lost' = (n < 3)
  BY DEF Create, PersistStarted
<1>2. /\ at = "none" /\ at' = "run" /\ runs' = 1 /\ known' = TRUE
      /\ mem' = IF kind = "async" THEN "running" ELSE "none"
      /\ UNCHANGED <<kind, named, end, wanted, approval, line, restarts, requests,
                     settled, answers, good>>
  BY DEF Create
<1>3. TypeOK /\ Begun /\ Counted /\ Ending /\ Memory /\ RowKept /\ Conversing /\ Told
  BY DEF IInv
<1>4. FlagsTyped /\ WordsTyped /\ StoredTyped /\ CountsTyped
  BY <1>3, TypeParts
<1>5. /\ convs \subseteq convs' /\ convs' \subseteq {"given", "made"}
      /\ "given" \in convs' <=> "given" \in convs
      /\ n > 0 /\ conv = "made" => "made" \in convs'
      /\ conv \in {"none", "given", "made"}
  BY <1>1, <1>4 DEF WordsTyped, StoredTyped
<1>6. /\ messages' \in Seq([conv : convs', role : {"user", "assistant"}])
      /\ n > 1 /\ conv \in convs' => Len(messages') = Len(messages) + 1
      /\ n > 1 /\ conv \notin convs' => Len(messages') = Len(messages)
      /\ messages = <<>> /\ Len(messages) = 0
  <2>1. \A there : /\ convs \subseteq there /\ there \subseteq {"given", "made"}
                   => /\ Add(there, conv, "user")
                           \in Seq([conv : there, role : {"user", "assistant"}])
                      /\ messages \in Seq([conv : there, role : {"user", "assistant"}])
                      /\ conv \in there =>
                           Len(Add(there, conv, "user")) = Len(messages) + 1
                      /\ conv \notin there =>
                           Len(Add(there, conv, "user")) = Len(messages)
    BY <1>3, MessageAdded
  <2>2. messages = <<>> /\ Len(messages) = 0
    BY <1>2, <1>3, EmptySeq DEF Begun
  <2>3. QED BY <1>1, <1>5, <2>1, <2>2
<1>e. n # 3 => lost'
  <2>1. lost' = (n < 3)
    BY <1>1
  <2>2. n # 3 => n < 3
    OBVIOUS
  <2>3. QED BY <2>1, <2>2, Zenon
<1>7. TypeOK'
  <2>1. FlagsTyped'
    BY <1>1, <1>2, <1>4 DEF FlagsTyped
  <2>2. StoredTyped'
    BY <1>1, <1>4, <1>5, <1>6 DEF StoredTyped, Row
  <2>3. CountsTyped'
    BY <1>2, <1>4, TaskRecordsAssumption DEF CountsTyped
  <2>4. WordsTyped'
    BY <1>2, <1>4 DEF WordsTyped, Statuses, Requested
  <2>5. QED BY <2>1, <2>2, <2>3, <2>4, TypePartsNext
<1>8. Begun'
  BY <1>2 DEF Begun
<1>9. Counted'
  BY <1>2, <1>3 DEF Counted, Begun
<1>10. Ending'
  BY <1>2, <1>3 DEF Ending
<1>11. Memory'
  BY <1>2, <1>3, <1>4 DEF Memory, RunningHasWorker, Finished, WordsTyped, StoredTyped
<1>12. RowKept'
  BY <1>2 DEF RowKept, RowAgrees
<1>13. Conversing'
  <2>1. row'.conv \in convs' \cup {"none"}
    <3>1. CASE n > 2
      <4>1. row'.conv = conv
        BY <1>1, <3>1 DEF Row
      <4>2. conv \in convs' \cup {"none"}
        <5>1. named = "known" => "given" \in convs'
          BY <1>3, <1>5 DEF Conversing
        <5>2. conv = "given" => named = "known"
          OBVIOUS
        <5>3. n > 0 /\ (conv = "made" => "made" \in convs')
          BY <1>5, <3>1
        <5>4. QED BY <1>5, <5>1, <5>2, <5>3
      <4>3. QED BY <4>1, <4>2
    <3>2. CASE ~(n > 2)
      BY <1>1, <1>2, <1>3, <1>5, <3>2 DEF Conversing, RowInConversation, Begun
    <3>3. QED BY <3>1, <3>2
  <2>2. QED BY <1>2, <1>3, <1>5, <2>1 DEF Conversing, RowInConversation
<1>14. Told'
  <2>1. answers = 0
    BY <1>2, <1>3 DEF Begun
  <2>2. CASE n = 3
    <3>1. /\ named' = named /\ answers' = answers /\ at' = "run"
          /\ named \in {"none", "known", "unknown"}
      BY <1>2, <1>4 DEF WordsTyped, StoredTyped
    <3>2. "given" \in convs' <=> named = "known"
      BY <1>3, <1>5 DEF Conversing
    <3>3. CASE named = "none"
      <4>1. conv = "none" /\ conv \notin convs'
        BY <1>5, <3>3
      <4>2. Len(messages') = 0
        BY <1>6, <2>2, <4>1
      <4>3. QED BY <2>1, <3>1, <3>3, <4>2 DEF Told
    <3>4. CASE named # "none"
      <4>1. conv \in convs'
        BY <1>5, <2>2, <3>1, <3>2, <3>4
      <4>2. Len(messages') = 1
        BY <1>6, <2>2, <4>1
      <4>3. QED BY <2>1, <3>1, <3>4, <4>2 DEF Told
    <3>5. QED BY <3>3, <3>4
  <2>3. CASE n # 3
    BY <1>e, <2>3 DEF Told
  <2>4. QED BY <2>2, <2>3
<1>15. QED BY <1>7, <1>8, <1>9, <1>10, <1>11, <1>12, <1>13, <1>14 DEF IInv

LEMMA SettleKeeps ==
    ASSUME IInv, Settle
    PROVE  IInv'
<1>1. /\ at = "settle" /\ at' = "persist"
      /\ settled' = StatusOf(end)
      /\ answers' = IF settled' \in Answered THEN answers + 1 ELSE answers
      /\ mem' = IF kind = "sync" THEN mem ELSE StatusOf(end)
      /\ UNCHANGED <<kind, named, end, wanted, known, approval, line, row, convs,
                     messages, runs, restarts, requests, lost, good>>
  BY DEF Settle, db, counters
<1>2. TypeOK /\ Begun /\ Counted /\ Ending /\ Memory /\ RowKept /\ Conversing /\ Told
  BY DEF IInv
<1>3. FlagsTyped /\ WordsTyped /\ StoredTyped /\ CountsTyped
  BY <1>2, TypeParts
<1>4. /\ end \in Ends \cup Unwritten
      /\ StatusOf(end) \in Ends
      /\ StatusOf(end) = "succeeded" => end \in {"succeeded", "no context"}
      /\ StatusOf(end) \in Finished => StatusOf(end) = end \/ end \in Unwritten
  BY <1>1, <1>2, EndIsToldSo DEF Ending
<1>5. TypeOK'
  <2>1. FlagsTyped'
    BY <1>1, <1>3 DEF FlagsTyped
  <2>2. CountsTyped'
    BY <1>1, <1>2, <1>3, TaskRecordsAssumption DEF Counted, CountsTyped
  <2>3. WordsTyped'
    BY <1>1, <1>3, <1>4 DEF WordsTyped, Statuses
  <2>4. StoredTyped'
    BY <1>1, <1>3, StoredKept
  <2>5. QED BY <2>1, <2>2, <2>3, <2>4, TypePartsNext
<1>6. Begun'
  BY <1>1, <1>2 DEF Begun
<1>7. Counted'
  BY <1>1, <1>2, <1>3, TaskRecordsAssumption DEF Counted, CountsTyped
<1>8. Ending'
  <2>1. StatusOf(end)' = StatusOf(end)
    BY <1>1 DEF StatusOf
  <2>2. QED BY <1>1, <1>2, <1>4, <2>1 DEF Ending
<1>9. Memory'
  <2>1. kind = "sync" => mem \notin Finished
    BY <1>1, <1>2 DEF Memory
  <2>2. \A s \in Ends : s \notin Requested \cup {"resuming"}
    BY DEF Ends, Requested
  <2>3. /\ mem' \in Finished => mem' = settled'
        /\ mem' \in Finished => line' = mem' \/ end' \in Unwritten
        /\ mem' = "succeeded" => good' \/ end' = "no context"
    BY <1>1, <1>2, <1>4, <2>1 DEF Ending, Finished
  <2>4. RunningHasWorker' /\ (kind' = "sync" /\ known' => mem' # "running")
    BY <1>1, <1>2, <1>4, <2>2 DEF Memory, RunningHasWorker, Requested
  <2>5. at' = "persist"
    BY <1>1
  <2>6. mem' \in Finished => line' = mem' \/ end' \in Unwritten
    BY <2>3
  <2>7. mem' \in Finished => mem' = settled'
    BY <2>3
  <2>8. mem' = "succeeded" => good' \/ end' = "no context"
    BY <2>3
  <2>9. QED BY <2>4, <2>5, <2>6, <2>7, <2>8, Zenon DEF Memory
<1>10. RowKept'
  BY <1>1 DEF RowKept, RowAgrees
<1>11. Conversing'
  <2>1. settled' # "none"
    BY <1>1, <1>4 DEF Ends
  <2>2. QED BY <1>1, <1>2, <2>1 DEF Conversing, RowInConversation
<1>12. Told'
  <2>1. Len(messages) \in Nat
    BY <1>3, LenProperties DEF StoredTyped
  <2>2. /\ at = "settle" /\ at' = "persist"
        /\ answers' = IF settled' \in Answered THEN answers + 1 ELSE answers
        /\ messages' = messages /\ named' = named /\ (lost' <=> lost)
    BY <1>1
  <2>3. /\ answers \in Nat
        /\ ~lost => Len(messages) = CASE named = "none" -> 0
                                      [] named = "known" -> 1 + answers
                                      [] OTHER -> 1
    BY <1>2, <1>3, <2>1, <2>2 DEF Told, CountsTyped
  <2>4. SUFFICES ASSUME ~lost'
                 PROVE  Len(messages) + (IF named = "known" /\ settled' \in Answered
                                         THEN 1 ELSE 0)
                          = CASE named = "none" -> 0
                              [] named = "known" -> 1 + answers'
                              [] OTHER -> 1
    BY <2>2 DEF Told
  <2>5. ~lost
    BY <2>2, <2>4
  <2>6. CASE named = "known"
    BY <2>1, <2>2, <2>3, <2>5, <2>6
  <2>7. CASE named # "known"
    BY <2>1, <2>3, <2>5, <2>7
  <2>8. QED BY <2>6, <2>7
<1>13. QED BY <1>5, <1>6, <1>7, <1>8, <1>9, <1>10, <1>11, <1>12 DEF IInv

LEMMA PersistKeeps ==
    ASSUME IInv, Persist
    PROVE  IInv'
<1> DEFINE conv == IF named = "none" THEN "none" ELSE "given"
<1>1. PICK n \in 0..2 :
          /\ row' = IF n > 0 THEN Row(settled, conv) ELSE row
          /\ messages' = IF n > 1 /\ settled \in Answered
                         THEN Add(convs, conv, "assistant") ELSE messages
          /\ lost' = (lost \/ n < 2)
          /\ UNCHANGED convs
  BY DEF Persist, PersistFinished
<1>2. /\ at = "persist" /\ at' = "idle"
      /\ UNCHANGED <<kind, named, end, wanted, mem, known, approval, line, runs,
                     restarts, requests, settled, answers, good>>
  BY DEF Persist, counters
<1>3. TypeOK /\ Begun /\ Counted /\ Ending /\ Memory /\ RowKept /\ Conversing /\ Told
  BY DEF IInv
<1>4. FlagsTyped /\ WordsTyped /\ StoredTyped /\ CountsTyped
  BY <1>3, TypeParts
<1>5. settled \in Ends /\ settled # "none"
  <2>1. end \in Ends \cup Unwritten /\ settled = StatusOf(end)
    BY <1>2, <1>3 DEF Ending
  <2>2. settled \in Ends
    BY <1>3, <2>1, EndIsToldSo
  <2>3. QED BY <2>2 DEF Ends
<1>6. /\ messages' \in Seq([conv : convs', role : {"user", "assistant"}])
      /\ Len(messages) \in Nat
      /\ n > 1 /\ settled \in Answered /\ conv \in convs =>
           Len(messages') = Len(messages) + 1
      /\ ~(settled \in Answered /\ conv \in convs) => Len(messages') = Len(messages)
  <2>1. /\ Add(convs, conv, "assistant") \in Seq([conv : convs, role : {"user", "assistant"}])
        /\ messages \in Seq([conv : convs, role : {"user", "assistant"}])
        /\ Len(messages) \in Nat
        /\ conv \in convs => Len(Add(convs, conv, "assistant")) = Len(messages) + 1
        /\ conv \notin convs => Len(Add(convs, conv, "assistant")) = Len(messages)
    BY <1>3, <1>4, MessageAdded DEF WordsTyped, StoredTyped
  <2>2. QED BY <1>1, <2>1
<1>e. n # 2 => lost'
  <2>1. lost' = (lost \/ n < 2)
    BY <1>1
  <2>2. n # 2 => n < 2
    OBVIOUS
  <2>3. QED BY <2>1, <2>2, Zenon
<1>f. n = 2 => (lost' <=> lost)
  <2>1. lost' = (lost \/ n < 2) /\ lost \in BOOLEAN
    BY <1>1, <1>4 DEF FlagsTyped
  <2>2. n = 2 => ~(n < 2)
    OBVIOUS
  <2>3. QED BY <2>1, <2>2, Zenon
<1>7. TypeOK'
  <2>1. FlagsTyped'
    BY <1>1, <1>2, <1>4 DEF FlagsTyped
  <2>2. StoredTyped'
    BY <1>1, <1>4, <1>5, <1>6 DEF StoredTyped, Row
  <2>3. CountsTyped'
    BY <1>2, <1>4 DEF CountsTyped
  <2>4. WordsTyped'
    BY <1>2, <1>4 DEF WordsTyped
  <2>5. QED BY <2>1, <2>2, <2>3, <2>4, TypePartsNext
<1>8. Begun'
  BY <1>2, <1>3 DEF Begun
<1>9. Counted' /\ Ending'
  BY <1>2, <1>3 DEF Counted, Ending
<1>10. Memory'
  BY <1>2, <1>3 DEF Memory, RunningHasWorker, Finished
<1>11. RowKept'
  <2>1. CASE n = 2
    <3>1. row'.status = settled /\ (lost' <=> lost)
      BY <1>f, <1>1, <2>1 DEF Row
    <3>2. approval => settled = "requires_approval"
      BY <1>2, <1>3, <1>4 DEF Ending, FlagsTyped, StatusOf
    <3>3. mem \in Finished => mem = settled
      BY <1>2, <1>3 DEF Memory
    <3>4. QED BY <1>2, <3>1, <3>2, <3>3 DEF RowKept, RowAgrees, Finished
  <2>2. CASE n # 2
    BY <1>e, <2>2 DEF RowKept, RowAgrees
  <2>3. QED BY <2>1, <2>2
<1>12. Conversing'
  <2>1. CASE named = "unknown"
    BY <1>1, <1>2, <1>3, <1>5, <2>1 DEF Conversing, RowInConversation
  <2>2. CASE named # "unknown"
    <3>1. row.conv \in convs \cup {"none"} /\ conv \in convs \cup {"none"}
      BY <1>3, <1>4, <2>2 DEF Conversing, RowInConversation, WordsTyped
    <3>2. row'.conv \in {row.conv, conv}
      BY <1>1 DEF Row
    <3>3. convs' = convs /\ named' = named
      BY <1>1, <1>2
    <3>4. QED BY <1>3, <3>1, <3>2, <3>3 DEF Conversing, RowInConversation
  <2>3. QED BY <2>1, <2>2
<1>13. Told'
  <2>1. CASE n = 2
    <3>1. lost' <=> lost
      BY <1>f, <2>1
    <3>2. conv \in convs <=> named = "known"
      BY <1>3, <1>4 DEF Conversing, WordsTyped, StoredTyped
    <3>3. /\ at = "persist" /\ at' = "idle"
          /\ answers' = answers /\ settled' = settled /\ named' = named
      BY <1>2
    <3>4. Len(messages') = Len(messages) + (IF named = "known" /\ settled \in Answered
                                            THEN 1 ELSE 0)
      BY <1>6, <2>1, <3>2
    <3>5. Told /\ answers \in Nat
      BY <1>3, <1>4 DEF CountsTyped
    <3>6. QED BY <1>6, <3>1, <3>3, <3>4, <3>5 DEF Told
  <2>2. CASE n # 2
    BY <1>e, <2>2 DEF Told
  <2>3. QED BY <2>1, <2>2
<1>14. QED BY <1>7, <1>8, <1>9, <1>10, <1>11, <1>12, <1>13 DEF IInv

LEMMA ResumeReturnsKeeps ==
    ASSUME IInv, ResumeReturns
    PROVE  IInv'
<1>1. /\ at = "return" /\ at' = "idle" /\ mem' = StatusOf(end)
      /\ UNCHANGED <<kind, named, end, wanted, known, approval, line, row, convs,
                     messages, runs, restarts, requests, lost, settled, answers,
                     good>>
  BY DEF ResumeReturns, db, counters
<1>2. TypeOK /\ Begun /\ Counted /\ Ending /\ Memory /\ RowKept /\ Conversing /\ Told
  BY DEF IInv
<1>3. FlagsTyped /\ WordsTyped /\ StoredTyped /\ CountsTyped
  BY <1>2, TypeParts
<1>4. /\ end \in Ends \cup Unwritten
      /\ StatusOf(end) \in Ends
      /\ StatusOf(end) = "succeeded" => end \in {"succeeded", "no context"}
      /\ StatusOf(end) \in Finished => StatusOf(end) = end \/ end \in Unwritten
  BY <1>1, <1>2, EndIsToldSo DEF Ending
<1>5. TypeOK'
  <2>1. FlagsTyped'
    BY <1>1, <1>3 DEF FlagsTyped
  <2>2. WordsTyped'
    BY <1>1, <1>3, <1>4 DEF WordsTyped, Statuses
  <2>3. CountsTyped'
    BY <1>1, <1>3 DEF CountsTyped
  <2>4. StoredTyped'
    BY <1>1, <1>3, StoredKept
  <2>5. QED BY <2>1, <2>2, <2>3, <2>4, TypePartsNext
<1>6. Begun' /\ Counted' /\ Ending'
  BY <1>1, <1>2 DEF Begun, Counted, Ending
<1>7. Memory'
  <2>1. \A s \in Ends : s \notin Requested \cup {"resuming"}
    BY DEF Ends, Requested
  <2>2. QED BY <1>1, <1>2, <1>4, <2>1
            DEF Memory, RunningHasWorker, Requested, Ending, Finished
<1>8. RowKept'
  BY <1>1, <1>2 DEF RowKept, RowAgrees
<1>9. Conversing' /\ Told'
  BY <1>1, <1>2 DEF Conversing, RowInConversation, Told
<1>10. QED BY <1>5, <1>6, <1>7, <1>8, <1>9 DEF IInv

LEMMA RestartTakesMemory ==
    ASSUME IInv, Restart
    PROVE  IInv'
<1>1. /\ restarts < MaxRestarts /\ at # "none" /\ restarts' = restarts + 1
      /\ mem' = "none" /\ known' = FALSE /\ approval' = FALSE /\ wanted' = "none"
      /\ end' = IF at \in {"run", "resumed"} THEN "cut" ELSE end
      /\ lost' = (lost \/ at \in {"run", "settle", "persist"})
      /\ at' = "idle"
      /\ UNCHANGED <<kind, named, line, row, convs, messages, runs, requests,
                     settled, answers, good>>
  BY DEF Restart, db
<1>2. TypeOK /\ Begun /\ Counted /\ Ending /\ Memory /\ RowKept /\ Conversing /\ Told
  BY DEF IInv
<1>3. FlagsTyped /\ WordsTyped /\ StoredTyped /\ CountsTyped
  BY <1>2, TypeParts
<1>4. TypeOK'
  <2>1. FlagsTyped'
    BY <1>1, <1>3 DEF FlagsTyped
  <2>2. WordsTyped'
    BY <1>1, <1>3 DEF WordsTyped
  <2>3. CountsTyped'
    BY <1>1, <1>3, TaskRecordsAssumption DEF CountsTyped
  <2>4. StoredTyped'
    BY <1>1, <1>3, StoredKept
  <2>5. QED BY <2>1, <2>2, <2>3, <2>4, TypePartsNext
<1>5. Begun' /\ Counted' /\ Ending'
  BY <1>1, <1>2 DEF Begun, Counted, Ending, Finished
<1>6. Memory'
  BY <1>1 DEF Memory, RunningHasWorker, Finished
<1>7. RowKept'
  BY <1>1 DEF RowKept, RowAgrees
<1>8. Conversing' /\ Told'
  BY <1>1, <1>2 DEF Conversing, RowInConversation, Told
<1>9. QED BY <1>4, <1>5, <1>6, <1>7, <1>8 DEF IInv

\* A request writes no line, no row and no message, and is never itself the
\* word that the task has finished.
LEMMA UserKeeps ==
    ASSUME IInv, User
    PROVE  IInv'
<1>1. /\ requests < MaxRequests /\ at # "none" /\ requests' = requests + 1
      /\ UNCHANGED <<named, restarts, row, convs, messages, line, lost, settled,
                     answers, good, end>>
  BY DEF User, Pause, Cancel, Stop, Resume, Approve, Reject, Ask, db
<1>2. TypeOK /\ Begun /\ Counted /\ Ending /\ Memory /\ RowKept /\ Conversing /\ Told
  BY DEF IInv
<1>3. FlagsTyped /\ WordsTyped /\ StoredTyped /\ CountsTyped
  BY <1>2, TypeParts
<1>4. /\ mem' \in {"paused", "succeeded_partial", "rejected"} \cup Requested \cup {"resuming"}
      /\ wanted' \in {"none", "paused", "canceled", "succeeded_partial"}
      /\ known' = known
  BY <1>3 DEF User, Pause, Cancel, Stop, Resume, Approve, Reject, Requested, WordsTyped, StoredTyped
<1>5. \/ /\ UNCHANGED <<kind, at, runs, approval>>
         /\ mem' \in {"paused", "cancel_requested", "succeeded_partial", "stop_requested"}
      \/ /\ UNCHANGED <<kind, at, runs, approval>> /\ mem' = "running" /\ ~known
      \/ /\ at = "idle" /\ at' = "run" /\ kind' = "async" /\ runs' = runs + 1
         /\ runs < MaxRuns /\ mem' = "running" /\ known /\ ~approval /\ approval' = approval
      \/ /\ at = "idle" /\ at' = "resumed" /\ runs' = runs + 1 /\ runs < MaxRuns
         /\ approval /\ ~approval' /\ mem' = "resuming" /\ kind' = kind
      \/ /\ UNCHANGED <<kind, at, runs>> /\ approval /\ ~approval' /\ mem' = "rejected"
  BY DEF User, Pause, Cancel, Stop, Resume, Approve, Reject
<1>6. approval' \in BOOLEAN /\ (approval' => approval)
  <2>1. approval' = approval \/ approval' = FALSE
    BY DEF User, Pause, Cancel, Stop, Resume, Approve, Reject
  <2>2. approval \in BOOLEAN
    BY <1>3 DEF FlagsTyped
  <2>3. approval' \in BOOLEAN
    BY <2>1, <2>2, Zenon
  <2>4. approval' => approval
    BY <2>1, Zenon
  <2>5. QED BY <2>3, <2>4
<1>7. TypeOK'
  <2>1. FlagsTyped'
    BY <1>1, <1>3, <1>4, <1>6 DEF FlagsTyped
  <2>2. CountsTyped'
    BY <1>1, <1>3, <1>5, TaskRecordsAssumption DEF CountsTyped
  <2>3. kind' \in {"sync", "async"} /\ at' \in {at, "run", "resumed"}
    BY <1>3, <1>5 DEF WordsTyped
  <2>4. WordsTyped'
    <3>1. mem' \in Statuses \cup {"none"}
      BY <1>4 DEF Statuses, Ends
    <3>2. QED BY <1>1, <1>3, <1>4, <2>3, <3>1 DEF WordsTyped
  <2>5. StoredTyped'
    BY <1>1, <1>3, StoredKept
  <2>6. QED BY <2>1, <2>2, <2>4, <2>5, TypePartsNext
<1>8. Begun'
  BY <1>1, <1>2, <1>4, <1>5, <1>6 DEF Begun
<1>9. Counted'
  BY <1>1, <1>2, <1>3, <1>5, TaskRecordsAssumption DEF Counted, CountsTyped
<1>10. Ending'
  <2>1. at' \in {"settle", "persist", "return"} => at' = at /\ kind' = kind
    BY <1>5
  <2>2. QED BY <1>1, <1>2, <2>1 DEF Ending, StatusOf
<1>11. Memory'
  BY <1>1, <1>2, <1>4, <1>5 DEF Memory, RunningHasWorker, Finished, Requested
<1>12. RowKept'
  BY <1>1, <1>2, <1>4, <1>5, <1>6 DEF RowKept, RowAgrees, Requested
<1>13. Conversing' /\ Told'
  <2>1. at' = "persist" <=> at = "persist"
    BY <1>5
  <2>2. QED BY <1>1, <1>2, <2>1 DEF Conversing, RowInConversation, Told
<1>14. QED BY <1>7, <1>8, <1>9, <1>10, <1>11, <1>12, <1>13 DEF IInv

LEMMA StutterKeeps ==
    ASSUME IInv, UNCHANGED vars
    PROVE  IInv'
<1>1. TypeOK /\ Begun /\ Counted /\ Ending /\ Memory /\ RowKept /\ Conversing /\ Told
  BY DEF IInv
<1>2. TypeOK'
  <2>1. FlagsTyped /\ WordsTyped /\ StoredTyped /\ CountsTyped
    BY <1>1, TypeParts
  <2>2. FlagsTyped' /\ CountsTyped'
    BY <2>1 DEF FlagsTyped, CountsTyped, vars, db, counters
  <2>3. UNCHANGED <<kind, named, at, end, wanted, mem, line, row, convs, messages,
                    settled>>
    BY DEF vars, db
  <2>4. WordsTyped'
    BY <2>1, <2>3, ZenonT(40) DEF WordsTyped
  <2>5. StoredTyped'
    BY <2>1, <2>3, StoredKept
  <2>6. QED BY <2>2, <2>4, <2>5, TypePartsNext
<1>3. Begun' /\ Counted' /\ Told'
  BY <1>1 DEF Begun, Counted, Told, vars, db, counters
<1>4. Ending' /\ Memory'
  BY <1>1 DEF Ending, Memory, StatusOf, RunningHasWorker, vars, db, counters
<1>5. RowKept' /\ Conversing'
  BY <1>1 DEF RowKept, Conversing, RowAgrees, RowInConversation, vars, db, counters
<1>6. QED BY <1>2, <1>3, <1>4, <1>5 DEF IInv

LEMMA NextIInv == IInv /\ [Next]_vars => IInv'
BY CreateKeeps, WorkflowEndsKeeps, SettleKeeps, PersistKeeps, ResumeReturnsKeeps,
   RestartTakesMemory, UserKeeps, StutterKeeps DEF Next, Work

-----------------------------------------------------------------------------
(* The theorems.                                                           *)

\* What the service keeps of a task is always well formed.
THEOREM TypeCorrect == Spec => []TypeOK
<1>1. IInv => TypeOK
  BY DEF IInv
<1>2. QED BY InitIInv, NextIInv, <1>1, PTL DEF Spec

\* Memory, the row and the conversation tell the same story of a task, over
\* any number of executions, failed writes and ends of the process.
THEOREM RowsAgreeAlways == Spec => []RowsAgree
<1>1. IInv => RowsAgree
  <2> SUFFICES ASSUME IInv PROVE RowsAgree
    OBVIOUS
  <2>1. RowAgrees /\ RowInConversation
    BY DEF IInv, RowKept, Conversing
  <2>2. AnswersMatch
    <3>1. Told
      BY DEF IInv
    <3>2. Len(messages) \in Nat
      BY LenProperties DEF IInv, TypeOK
    <3>3. SUFFICES ASSUME at \in {"run", "idle"}, ~lost
                   PROVE  Len(messages) = CASE named = "none" -> 0
                                            [] named = "known" -> 1 + answers
                                            [] OTHER -> 1
      BY DEF AnswersMatch
    <3>4. Len(messages) + 0 = CASE named = "none" -> 0
                                [] named = "known" -> 1 + answers
                                [] OTHER -> 1
      BY <3>1, <3>3 DEF Told
    <3>5. QED BY <3>2, <3>4
  <2>3. QED BY <2>1, <2>2 DEF RowsAgree
<1>2. QED BY InitIInv, NextIInv, <1>1, PTL DEF Spec

\* What the API says of a task can be relied on: it says "succeeded" of a task
\* of which an execution has completed, and "running" of one with a worker.
THEOREM StatusAlwaysReal == Spec => []StatusIsReal
<1>1. IInv => StatusIsReal
  <2> SUFFICES ASSUME IInv PROVE StatusIsReal
    OBVIOUS
  <2>1. RunningHasWorker
    BY DEF IInv, Memory
  <2>2. SuccessIsReal
    BY DEF IInv, Memory, Ending, SuccessIsReal, Reported, Remembered
  <2>3. QED BY <2>1, <2>2 DEF StatusIsReal
<1>2. QED BY InitIInv, NextIInv, <1>1, PTL DEF Spec

\* A restart does not change what is said of a task that has finished, unless
\* its end is in no transcript.
THEOREM RestartKept == Spec => RestartKeeps
<1>1. IInv /\ [Next]_vars =>
        (restarts' # restarts /\ at = "idle"
           /\ mem \in {"succeeded", "failed", "blocked", "canceled"}
         => Reported' = mem \/ end \in {"raised", "no context"})
  <2> SUFFICES ASSUME IInv, [Next]_vars, restarts' # restarts, at = "idle",
                      mem \in {"succeeded", "failed", "blocked", "canceled"}
               PROVE  Reported' = mem \/ end \in {"raised", "no context"}
    OBVIOUS
  <2>1. Restart
    BY DEF Next, Work, User, vars, counters, Create, WorkflowEnds, Settle, Persist,
           ResumeReturns, Pause, Cancel, Stop, Resume, Approve, Reject, Ask
  <2>2. line = mem \/ end \in {"raised", "no context"}
    BY DEF IInv, Memory, Finished, Unwritten
  <2>3. mem' = "none" /\ at' = "idle" /\ line' = line
    BY <2>1 DEF Restart
  <2>4. QED BY <2>2, <2>3 DEF Reported, Remembered
<1>2. QED BY InitIInv, NextIInv, <1>1, PTL DEF Spec, RestartKeeps

-----------------------------------------------------------------------------
(* ReportReview: sequences and what they have.                             *)

\* Induction over the natural numbers, for a set.
LEMMA Inductive ==
    ASSUME NEW S, 0 \in S, \A n \in Nat : n \in S => n + 1 \in S
    PROVE  Nat \subseteq S
<1> DEFINE Bad == Nat \ S
<1>1. SUFFICES ASSUME Bad # {} PROVE FALSE
  OBVIOUS
<1>2. PICK m \in Bad : \A i \in Bad : <<i, m>> \notin OpToRel(<, Nat)
  BY <1>1, WFMin, NatLessThanWellFounded
<1>3. m \in Nat /\ m # 0 /\ m \notin S
  OBVIOUS
<1>4. m - 1 \in Nat /\ m - 1 < m /\ (m - 1) + 1 = m
  BY <1>3
<1>5. m - 1 \in S
  BY <1>2, <1>4 DEF OpToRel
<1>6. QED BY <1>3, <1>4, <1>5

\* Induction over the sequences of a set.
LEMMA SeqInductive ==
    ASSUME NEW S, NEW P, <<>> \in P,
           \A s \in Seq(S) : \A e \in S : s \in P => Append(s, e) \in P
    PROVE  Seq(S) \subseteq P
<1> DEFINE N == {n \in Nat : \A s \in Seq(S) : Len(s) = n => s \in P}
<1>1. 0 \in N
  <2>1. \A s \in Seq(S) : Len(s) = 0 => s = <<>>
    BY EmptySeq
  <2>2. QED BY <2>1
<1>2. ASSUME NEW n \in Nat, n \in N PROVE n + 1 \in N
  <2>1. ASSUME NEW s \in Seq(S), Len(s) = n + 1 PROVE s \in P
    <3>1. s # <<>>
      BY <2>1, EmptySeq
    <3>2. PICK t \in Seq(S), e \in S : s = Append(t, e)
      BY <3>1, SequenceEmptyOrAppend
    <3>3. Len(s) = Len(t) + 1 /\ Len(t) \in Nat
      BY <3>2, AppendProperties, LenProperties
    <3>4. t \in P
      BY <1>2, <2>1, <3>3
    <3>5. QED BY <3>2, <3>4
  <2>2. QED BY <2>1
<1>3. Nat \subseteq N
  <2> HIDE DEF N
  <2>1. QED BY <1>1, <1>2, Inductive
<1>4. QED BY <1>3, LenProperties

Has(s, e) == \E i \in DOMAIN s : s[i] = e

\* A concatenation has the elements of both.
LEMMA ConcatHas ==
    ASSUME NEW S, NEW s \in Seq(S), NEW t \in Seq(S)
    PROVE  /\ s \o t \in Seq(S) /\ Len(s \o t) = Len(s) + Len(t)
           /\ \A e : Has(s \o t, e) <=> Has(s, e) \/ Has(t, e)
<1>1. /\ s \o t \in Seq(S) /\ Len(s \o t) = Len(s) + Len(t)
      /\ \A i \in 1..Len(s) + Len(t) :
             (s \o t)[i] = IF i <= Len(s) THEN s[i] ELSE t[i - Len(s)]
  BY ConcatProperties
<1>2. /\ DOMAIN s = 1..Len(s) /\ DOMAIN t = 1..Len(t) /\ Len(s) \in Nat /\ Len(t) \in Nat
      /\ DOMAIN (s \o t) = 1..(Len(s) + Len(t))
  BY <1>1, LenProperties
<1>3. ASSUME NEW e, Has(s, e) PROVE Has(s \o t, e)
  BY <1>1, <1>2, <1>3 DEF Has
<1>4. ASSUME NEW e, Has(t, e) PROVE Has(s \o t, e)
  <2>1. PICK j \in 1..Len(t) : t[j] = e
    BY <1>2, <1>4 DEF Has
  <2>2. /\ j + Len(s) \in 1..(Len(s) + Len(t)) /\ ~(j + Len(s) <= Len(s))
        /\ (j + Len(s)) - Len(s) = j
    BY <1>2, <2>1
  <2>3. (s \o t)[j + Len(s)] = e
    BY <1>1, <2>1, <2>2
  <2>4. QED BY <1>2, <2>2, <2>3 DEF Has
<1>5. ASSUME NEW e, Has(s \o t, e) PROVE Has(s, e) \/ Has(t, e)
  <2>1. PICK j \in 1..(Len(s) + Len(t)) : (s \o t)[j] = e
    BY <1>2, <1>5 DEF Has
  <2>2. CASE j <= Len(s)
    BY <1>1, <1>2, <2>1, <2>2 DEF Has
  <2>3. CASE ~(j <= Len(s))
    <3>1. j - Len(s) \in 1..Len(t)
      BY <1>2, <2>1, <2>3
    <3>2. t[j - Len(s)] = e
      BY <1>1, <2>1, <2>3
    <3>3. QED BY <1>2, <3>1, <3>2 DEF Has
  <2>4. QED BY <2>2, <2>3
<1>6. QED BY <1>1, <1>3, <1>4, <1>5

\* What FlattenSeq is built of.
Joined(ss, i, g) == IF i = 1 THEN ss[i] ELSE g[i - 1] \o ss[i]
Joins(S, ss, m, g) == g \in [1..m -> Seq(S)] /\ \A i \in 1..m : g[i] = Joined(ss, i, g)

\* What FlattenSeq is built of, and that it can be built.
LEMMA FlattenBuilt ==
    ASSUME NEW S, NEW ss \in Seq(Seq(S)), Len(ss) # 0
    PROVE  \E f : Joins(S, ss, Len(ss), f) /\ FlattenSeq(ss) = f[Len(ss)]
<1> DEFINE n == Len(ss)
           Built == {m \in Nat : m <= n => \E g : Joins(S, ss, m, g)}
           body(f) == [i \in 1..n |-> IF i = 1 THEN ss[i] ELSE f[i - 1] \o ss[i]]
           flat == CHOOSE f : f = body(f)
<1>1. /\ n \in Nat /\ n >= 1
      /\ \A i \in 1..n : ss[i] \in Seq(S)
  BY LenProperties, ElementOfSeq
<1>2. 0 \in Built
  <2>1. 1..0 = {}
    OBVIOUS
  <2>2. Joins(S, ss, 0, <<>>)
    BY <2>1 DEF Joins
  <2>3. QED BY <2>2
<1>3. ASSUME NEW m \in Nat, m \in Built PROVE m + 1 \in Built
  <2>1. SUFFICES ASSUME m + 1 <= n PROVE \E g : Joins(S, ss, m + 1, g)
    OBVIOUS
  <2>2. m <= n
    BY <1>1, <2>1
  <2>3. PICK g : Joins(S, ss, m, g)
    BY <1>3, <2>2
  <2>4. ss[m + 1] \in Seq(S)
    BY <1>1, <2>1
  <2> DEFINE new == Joined(ss, m + 1, g)
             h == [i \in 1..(m + 1) |-> IF i = m + 1 THEN new ELSE g[i]]
  <2>5. new \in Seq(S)
    <3>1. CASE m = 0
      BY <2>4, <3>1 DEF Joined
    <3>2. CASE m # 0
      <4>1. g[m] \in Seq(S)
        BY <2>3, <3>2 DEF Joins
      <4>2. g[m] \o ss[m + 1] \in Seq(S)
        BY <2>4, <4>1, ConcatProperties
      <4>3. m + 1 # 1 /\ (m + 1) - 1 = m
        BY <3>2
      <4>4. new = g[m] \o ss[m + 1]
        BY <4>3 DEF Joined
      <4>5. QED BY <4>2, <4>4
    <3>3. QED BY <3>1, <3>2
  <2>6. \A i \in 1..(m + 1) : Joined(ss, i, h) = Joined(ss, i, g)
    BY DEF Joined
  <2> HIDE DEF new
  <2>7. h \in [1..(m + 1) -> Seq(S)]
    BY <2>3, <2>5 DEF Joins
  <2>8. \A i \in 1..(m + 1) : h[i] = Joined(ss, i, g)
    BY <2>3 DEF Joins, new
  <2> HIDE DEF h
  <2>9. Joins(S, ss, m + 1, h)
    BY <2>6, <2>7, <2>8 DEF Joins
  <2>10. QED BY <2>9
<1>4. n \in Built
  <2> HIDE DEF Built
  <2>1. Nat \subseteq Built
    BY <1>2, <1>3, Inductive
  <2>2. QED BY <1>1, <2>1
<1>5. PICK g : Joins(S, ss, n, g)
  BY <1>1, <1>4
<1>6. g = body(g)
  BY <1>5 DEF Joins, Joined
<1>7. flat = body(flat)
  BY <1>6
<1>8. FlattenSeq(ss) = flat[n]
  BY DEF FlattenSeq
<1> DEFINE Typed == {m \in Nat : m + 1 <= n => flat[m + 1] \in Seq(S)}
<1> HIDE DEF flat
<1>9. \A i \in 1..n : flat[i] = Joined(ss, i, flat)
  BY <1>7 DEF Joined
<1>10. 0 \in Typed
  BY <1>1, <1>9 DEF Joined
<1>11. ASSUME NEW m \in Nat, m \in Typed PROVE m + 1 \in Typed
  <2>1. SUFFICES ASSUME (m + 1) + 1 <= n PROVE flat[(m + 1) + 1] \in Seq(S)
    OBVIOUS
  <2>2. flat[m + 1] \in Seq(S) /\ ss[(m + 1) + 1] \in Seq(S)
    BY <1>1, <1>11, <2>1
  <2>3. (m + 1) + 1 \in 1..n /\ (m + 1) + 1 # 1 /\ ((m + 1) + 1) - 1 = m + 1
    BY <1>1, <2>1
  <2>4. flat[(m + 1) + 1] = flat[m + 1] \o ss[(m + 1) + 1]
    BY <1>9, <2>3 DEF Joined
  <2>5. QED BY <2>2, <2>4, ConcatProperties
<1>12. \A i \in 1..n : flat[i] \in Seq(S)
  <2>1. Nat \subseteq Typed
    <3> HIDE DEF Typed
    <3>1. QED BY <1>10, <1>11, Inductive
  <2>2. TAKE i \in 1..n
  <2>3. i - 1 \in Nat /\ (i - 1) + 1 = i /\ i <= n
    BY <1>1
  <2>4. i - 1 \in Typed
    BY <2>1, <2>3
  <2>5. QED BY <2>3, <2>4
<1>13. flat \in [1..n -> Seq(S)]
  <2>1. flat = [i \in 1..n |-> flat[i]]
    BY <1>7
  <2>2. QED BY <1>12, <2>1
<1>14. QED BY <1>8, <1>9, <1>13 DEF Joins

\* FlattenSeq of a longer sequence.
LEMMA FlattenAppend ==
    ASSUME NEW S, NEW ss \in Seq(Seq(S)), NEW s \in Seq(S)
    PROVE  FlattenSeq(Append(ss, s)) = FlattenSeq(ss) \o s
<1> DEFINE n == Len(ss)
           tt == Append(ss, s)
<1>1. /\ tt \in Seq(Seq(S)) /\ Len(tt) = n + 1 /\ n \in Nat
      /\ \A i \in 1..n : tt[i] = ss[i]
      /\ tt[n + 1] = s
  BY AppendProperties, LenProperties
<1> HIDE DEF tt
<1>2. Len(tt) # 0
  BY <1>1
<1>3. PICK g : Joins(S, tt, n + 1, g) /\ FlattenSeq(tt) = g[n + 1]
  BY <1>1, <1>2, FlattenBuilt
<1>4. g[n + 1] = Joined(tt, n + 1, g)
  BY <1>1, <1>3 DEF Joins
<1>5. CASE n = 0
  <2>1. ss = <<>> /\ FlattenSeq(ss) = <<>>
    BY <1>5, EmptySeq DEF FlattenSeq
  <2>2. g[n + 1] = s
    BY <1>1, <1>4, <1>5 DEF Joined
  <2>3. <<>> \o s = s
    BY ConcatEmptySeq
  <2>4. QED BY <1>3, <2>1, <2>2, <2>3 DEF tt
<1>6. CASE n # 0
  <2>1. PICK f : Joins(S, ss, n, f) /\ FlattenSeq(ss) = f[n]
    BY <1>6, FlattenBuilt
  <2> DEFINE Same == {m \in Nat : m + 1 <= n => g[m + 1] = f[m + 1]}
  <2>2. 0 \in Same
    <3>1. 1 \in 1..n /\ 1 \in 1..(n + 1)
      BY <1>1, <1>6
    <3>2. g[1] = tt[1] /\ f[1] = ss[1] /\ tt[1] = ss[1]
      BY <1>1, <1>3, <2>1, <3>1 DEF Joins, Joined
    <3>3. QED BY <3>2
  <2>3. ASSUME NEW m \in Nat, m \in Same PROVE m + 1 \in Same
    <3>1. SUFFICES ASSUME (m + 1) + 1 <= n PROVE g[(m + 1) + 1] = f[(m + 1) + 1]
      OBVIOUS
    <3>2. g[m + 1] = f[m + 1]
      BY <1>1, <2>3, <3>1
    <3> DEFINE k == (m + 1) + 1
    <3>3. k \in 1..n /\ k \in 1..(n + 1) /\ k # 1 /\ k - 1 = m + 1
      BY <1>1, <3>1
    <3> HIDE DEF k
    <3>4. g[k] = g[m + 1] \o tt[k] /\ f[k] = f[m + 1] \o ss[k]
      BY <1>3, <2>1, <3>3 DEF Joins, Joined
    <3>5. QED BY <1>1, <3>2, <3>3, <3>4 DEF k
  <2>4. n - 1 \in Same
    <3> HIDE DEF Same
    <3>1. Nat \subseteq Same
      BY <2>2, <2>3, Inductive
    <3>2. QED BY <1>1, <1>6, <3>1
  <2>5. g[n] = f[n]
    <3>1. (n - 1) + 1 = n /\ n <= n
      BY <1>1
    <3>2. QED BY <2>4, <3>1
  <2>6. g[n + 1] = g[n] \o s
    <3>1. n + 1 # 1 /\ (n + 1) - 1 = n
      BY <1>1, <1>6
    <3>2. QED BY <1>1, <1>4, <3>1 DEF Joined
  <2>7. QED BY <1>3, <2>1, <2>5, <2>6 DEF tt
<1>7. QED BY <1>5, <1>6

\* FlattenSeq has the elements of its sequences and no other.
LEMMA FlattenHas ==
    ASSUME NEW S, NEW ss \in Seq(Seq(S))
    PROVE  /\ FlattenSeq(ss) \in Seq(S)
           /\ \A e : Has(FlattenSeq(ss), e) <=> \E k \in DOMAIN ss : Has(ss[k], e)
<1> DEFINE Flat(tt) == /\ FlattenSeq(tt) \in Seq(S)
                       /\ \A e : Has(FlattenSeq(tt), e)
                                    <=> \E k \in DOMAIN tt : Has(tt[k], e)
           P == {tt \in Seq(Seq(S)) : Flat(tt)}
<1>1. <<>> \in P
  <2> DEFINE none == <<>>
  <2>1. none \in Seq(Seq(S)) /\ none \in Seq(S) /\ Len(none) = 0 /\ DOMAIN none = {}
    BY EmptySeq
  <2>2. FlattenSeq(none) = none
    BY <2>1 DEF FlattenSeq
  <2> HIDE DEF none
  <2>3. Flat(none)
    BY <2>1, <2>2 DEF Has
  <2>4. QED BY <2>1, <2>3 DEF none
<1>2. ASSUME NEW tt \in Seq(Seq(S)), NEW t \in Seq(S), tt \in P PROVE Append(tt, t) \in P
  <2> DEFINE uu == Append(tt, t)
             f == FlattenSeq(tt)
  <2>1. f \in Seq(S) /\ \A e : Has(f, e) <=> \E k \in DOMAIN tt : Has(tt[k], e)
    BY <1>2
  <2>2. /\ uu \in Seq(Seq(S)) /\ Len(uu) = Len(tt) + 1
        /\ \A i \in 1..Len(tt) : uu[i] = tt[i]
        /\ uu[Len(tt) + 1] = t
    BY AppendProperties
  <2>3. FlattenSeq(uu) = f \o t
    BY FlattenAppend
  <2> HIDE DEF uu, f
  <2>4. /\ f \o t \in Seq(S)
        /\ \A e : Has(f \o t, e) <=> Has(f, e) \/ Has(t, e)
    BY <2>1, ConcatHas
  <2>5. /\ DOMAIN uu = 1..(Len(tt) + 1) /\ DOMAIN tt = 1..Len(tt) /\ Len(tt) \in Nat
    BY <2>2, LenProperties
  <2>6. DOMAIN uu = DOMAIN tt \cup {Len(tt) + 1}
    BY <2>5
  <2>7. \A e : (\E k \in DOMAIN uu : Has(uu[k], e))
                  <=> (\E k \in DOMAIN tt : Has(tt[k], e)) \/ Has(t, e)
    BY <2>2, <2>5, <2>6
  <2>8. Flat(uu)
    BY <2>1, <2>3, <2>4, <2>7
  <2>9. QED BY <2>2, <2>8 DEF uu
<1>3. Seq(Seq(S)) \subseteq P
  <2> HIDE DEF P
  <2>1. QED BY <1>1, <1>2, SeqInductive
<1>4. QED BY <1>3

-----------------------------------------------------------------------------
(* What is kept of a report, and what is planned for it.                   *)

Titled(r, n) == Has(r, Line("heading", <<n>>))

\* Nothing but ids joins the references, and no heading is lost.
Kept(r, after, ids) ==
    /\ after \in Seq(Lines)
    /\ \A n \in Titles : Titled(r, n) => Titled(after, n)
    /\ References(after) \subseteq References(r) \cup ids

\* An action puts in only the run's evidence, moves only an unsupported claim
\* and replaces only an id that is not the run's.
Planned(a, ev) ==
    /\ ToSet(a.by) \subseteq ToSet(ev)
    /\ a.type \in {"cite", "remove"} => a.target # <<>> /\ ~Supported(a.target)
    /\ a.type = "rewrite" => a.target # <<>> /\ a.target[1] \in Ids \ ToSet(ev)

Rewrites(a, id) == a.type = "rewrite" /\ a.target[1] = id

-----------------------------------------------------------------------------
(* The inductive invariant.                                                *)

ReviewTyped ==
    /\ ReviewTypeOK
    /\ report \in Seq(Lines)

Reviewing ==
    /\ phase \in {"built", "reviewed"} => revised = report
    /\ phase # "built" => reviewed = ReviewOfTask(report, evidence, skill, lacks)
    /\ phase = "revising" \/ Revised => initial = Review(report, evidence)
    /\ Revised => plan = <<>> /\ final = Review(revised, evidence)

PlanSound == \A i \in DOMAIN plan : Planned(plan[i], evidence)

ReportKept == Kept(report, revised, ToSet(evidence))

\* The section is there, or will not come, or is the next to be added.
EvidenceHeaded ==
    phase = "revising" \/ Revised =>
        \/ HasHeading(revised, "Evidence")
        \/ HasText(report, "Evidence")
        \/ plan # <<>> /\ plan[1].type = "evidence" /\ revised = report

UnknownWillGo ==
    phase = "revising" \/ Revised =>
        \A id \in References(revised) \ ToSet(evidence) :
            \E i \in DOMAIN plan : Rewrites(plan[i], id)

ReviewInv ==
    /\ ReviewTyped /\ Reviewing /\ PlanSound
    /\ ReportKept /\ EvidenceHeaded /\ UnknownWillGo

-----------------------------------------------------------------------------
(* Lines, and what they cite.                                              *)

LEMMA Typing ==
    /\ Ids \subseteq Words /\ Titles \subseteq Words /\ Stock \subseteq Words
    /\ Titles \cap Ids = {} /\ Stock \cap Ids = {} /\ Titles \subseteq Short
    /\ Reports \subseteq Seq(Lines) /\ Evidences \subseteq Seq(Ids)
    /\ MaxRevisions \subseteq Nat
  BY ReportReviewAssumption

LEMMA TitlesAre ==
    ASSUME NEW name \in {"Result", "Evidence"}
    PROVE  {Spellings[name].exact, Spellings[name].loose, Spellings[name].zh} \subseteq Titles
<1>1. CASE name = "Result"
  BY <1>1 DEF Titles, Spellings
<1>2. CASE name = "Evidence"
  BY <1>2 DEF Titles, Spellings
<1>3. QED BY <1>1, <1>2

LEMMA OneWord ==
    ASSUME NEW S, NEW w \in S
    PROVE  <<w>> \in Seq(S) /\ Len(<<w>>) = 1 /\ <<w>>[1] = w /\ DOMAIN <<w>> = {1}
  OBVIOUS

LEMMA OneHas ==
    ASSUME NEW w, NEW e
    PROVE  Has(<<w>>, e) <=> e = w
  BY DEF Has

LEMMA TwoWords ==
    ASSUME NEW S, NEW v \in S, NEW w \in S
    PROVE  <<v, w>> \in Seq(S) /\ \A e : Has(<<v, w>>, e) <=> e = v \/ e = w
  BY DEF Has

LEMMA LineTyped ==
    ASSUME NEW sort \in Kinds, NEW words \in Seq(Words)
    PROVE  /\ Line(sort, words) \in Lines
           /\ Line(sort, words).kind = sort /\ Line(sort, words).words = words
  BY DEF Line, Lines

LEMMA Headings ==
    ASSUME NEW n \in Titles
    PROVE  /\ Line("heading", <<n>>) \in Lines
           /\ Line("heading", <<n>>).words = <<n>> /\ <<n>> \in Seq(Words)
           /\ \A e \in Ids : ~Has(<<n>>, e)
<1>1. n \in Words /\ n \notin Ids
  BY Typing
<1>2. "heading" \in Kinds
  BY DEF Kinds
<1>3. <<n>> \in Seq(Words)
  BY <1>1, OneWord
<1>4. QED BY <1>1, <1>2, <1>3, LineTyped, OneHas

LEMMA ElementsOf ==
    ASSUME NEW S, NEW s \in Seq(S)
    PROVE  /\ Len(s) \in Nat /\ DOMAIN s = 1..Len(s)
           /\ \A i \in DOMAIN s : s[i] \in S
           /\ \A e : Has(s, e) => e \in S
<1>1. Len(s) \in Nat /\ DOMAIN s = 1..Len(s)
  BY LenProperties
<1>2. \A i \in DOMAIN s : s[i] \in S
  BY <1>1, ElementOfSeq
<1>3. QED BY <1>1, <1>2 DEF Has

LEMMA LineWords ==
    ASSUME NEW ln \in Lines
    PROVE  ln.kind \in Kinds /\ ln.words \in Seq(Words)
  BY DEF Lines

\* An id is a reference of a report when one of its lines has it.
LEMMA RefersTo ==
    ASSUME NEW r, NEW e
    PROVE  e \in References(r) <=> e \in Ids /\ \E ln : Has(r, ln) /\ Has(ln.words, e)
<1>1. ASSUME e \in References(r)
      PROVE  e \in Ids /\ \E ln : Has(r, ln) /\ Has(ln.words, e)
  <2>1. PICK i \in DOMAIN r : e \in IdsIn(r[i].words)
    BY <1>1 DEF References
  <2>2. Has(r, r[i]) /\ Has(r[i].words, e) /\ e \in Ids
    BY <2>1 DEF IdsIn, ToSet, Has
  <2>3. QED BY <2>2
<1>2. ASSUME e \in Ids, NEW ln, Has(r, ln), Has(ln.words, e)
      PROVE  e \in References(r)
  <2>1. PICK i \in DOMAIN r : r[i] = ln
    BY <1>2 DEF Has
  <2>2. e \in IdsIn(r[i].words)
    BY <1>2, <2>1 DEF IdsIn, ToSet, Has
  <2>3. QED BY <2>2 DEF References
<1>3. QED BY <1>1, <1>2

\* A change of a report that keeps its headings and brings in only ids of a
\* set, line by line.
LEMMA KeptByLines ==
    ASSUME NEW r, NEW after \in Seq(Lines), NEW ids,
           \A n \in Titles : Titled(r, n) => Titled(after, n),
           \A ln : Has(after, ln) =>
               \A e \in Ids : Has(ln.words, e) =>
                   e \in ids \/ \E old : Has(r, old) /\ Has(old.words, e)
    PROVE  Kept(r, after, ids)
<1>1. ASSUME NEW e \in References(after) PROVE e \in References(r) \cup ids
  <2>1. PICK ln : e \in Ids /\ Has(after, ln) /\ Has(ln.words, e)
    BY RefersTo
  <2>2. QED BY <2>1, RefersTo
<1>2. QED BY <1>1 DEF Kept

LEMMA KeptIsTransitive ==
    ASSUME NEW r, NEW s, NEW t, NEW ids, Kept(r, s, ids), Kept(s, t, ids)
    PROVE  Kept(r, t, ids)
  BY DEF Kept

LEMMA KeptItself ==
    ASSUME NEW r \in Seq(Lines), NEW ids
    PROVE  Kept(r, r, ids)
  BY DEF Kept

-----------------------------------------------------------------------------
(* The operators on sequences.                                             *)

\* A nonempty set of positions has a first one.
LEMMA FirstOne ==
    ASSUME NEW I, I \subseteq Nat, I # {}
    PROVE  \E x \in I : \A y \in I : x <= y
<1>1. PICK x \in I : \A y \in I : <<y, x>> \notin OpToRel(<, Nat)
  BY WFMin, NatLessThanWellFounded
<1>2. \A y \in I : ~(y < x)
  BY <1>1 DEF OpToRel
<1>3. QED BY <1>2

LEMMA AmongHas ==
    ASSUME NEW S, NEW s \in Seq(S), NEW T
    PROVE  /\ Among(s, T) \in Seq(S)
           /\ \A e : Has(Among(s, T), e) <=> Has(s, e) /\ e \in T
<1> DEFINE ss == [i \in DOMAIN s |-> IF s[i] \in T THEN <<s[i]>> ELSE <<>>]
<1>1. /\ Len(s) \in Nat /\ DOMAIN s = 1..Len(s) /\ \A i \in DOMAIN s : s[i] \in S
  BY ElementsOf
<1>2. \A i \in DOMAIN s : ss[i] \in Seq(S)
  BY <1>1, OneWord, EmptySeq
<1>3. ss \in [1..Len(s) -> Seq(S)]
  BY <1>1, <1>2
<1>4. ss \in Seq(Seq(S)) /\ DOMAIN ss = DOMAIN s
  BY <1>1, <1>3, SeqDef
<1>5. \A e : \A i \in DOMAIN s : Has(ss[i], e) <=> s[i] \in T /\ e = s[i]
  <2>1. TAKE e
  <2>2. TAKE i \in DOMAIN s
  <2>3. CASE s[i] \in T
    BY <2>3, OneHas
  <2>4. CASE s[i] \notin T
    BY <2>4 DEF Has
  <2>5. QED BY <2>3, <2>4
<1>6. Among(s, T) = FlattenSeq(ss)
  BY DEF Among
<1> HIDE DEF ss
<1>7. /\ Among(s, T) \in Seq(S)
      /\ \A e : Has(Among(s, T), e) <=> \E k \in DOMAIN ss : Has(ss[k], e)
  BY <1>4, <1>6, FlattenHas
<1>8. \A e : Has(Among(s, T), e) <=> Has(s, e) /\ e \in T
  <2>1. TAKE e
  <2>2. ASSUME Has(Among(s, T), e) PROVE Has(s, e) /\ e \in T
    <3>1. PICK k \in DOMAIN ss : Has(ss[k], e)
      BY <1>7, <2>2
    <3>2. k \in DOMAIN s /\ s[k] \in T /\ e = s[k]
      BY <1>4, <1>5, <3>1
    <3>3. QED BY <3>2 DEF Has
  <2>3. ASSUME Has(s, e), e \in T PROVE Has(Among(s, T), e)
    <3>1. PICK k \in DOMAIN s : s[k] = e
      BY <2>3 DEF Has
    <3>2. Has(ss[k], e)
      BY <1>5, <2>3, <3>1
    <3>3. QED BY <1>4, <1>7, <3>1, <3>2
  <2>4. QED BY <2>2, <2>3
<1>9. QED BY <1>7, <1>8

\* The flattening of one sequence is that sequence.
LEMMA FlattenOne ==
    ASSUME NEW s, NEW ss, Len(ss) = 1, ss[1] = s
    PROVE  FlattenSeq(ss) = s
<1> DEFINE body(f) == [i \in 1..1 |-> IF i = 1 THEN ss[i] ELSE f[i - 1] \o ss[i]]
           flat == CHOOSE f : f = body(f)
           g == [i \in 1..1 |-> s]
<1>1. g = body(g)
  <2>1. \A i \in 1..1 : (IF i = 1 THEN ss[i] ELSE g[i - 1] \o ss[i]) = s
    OBVIOUS
  <2>2. QED BY <2>1
<1>2. flat = body(flat)
  BY <1>1
<1>3. flat[1] = s
  <2> HIDE DEF flat
  <2>1. QED BY <1>2
<1>4. FlattenSeq(ss) = flat[1]
  BY DEF FlattenSeq
<1>5. QED BY <1>3, <1>4

\* The elements of a sequence are finitely many.
LEMMA FinitelyMany ==
    ASSUME NEW S, NEW s \in Seq(S)
    PROVE  IsFiniteSet({e \in S : Has(s, e)})
<1> DEFINE T == {e \in S : Has(s, e)}
<1>1. Len(s) \in Nat /\ DOMAIN s = 1..Len(s) /\ \A i \in DOMAIN s : s[i] \in S
  BY ElementsOf
<1>2. IsFiniteSet(1..Len(s))
  BY <1>1, FS_Interval
<1>3. s \in [1..Len(s) -> S]
  BY <1>1, SeqDef
<1>4. s \in [1..Len(s) -> T]
  BY <1>1, <1>3 DEF Has
<1>5. \A e \in T : \E i \in 1..Len(s) : s[i] = e
  BY <1>1 DEF Has
<1>6. s \in Surjection(1..Len(s), T)
  BY <1>4, <1>5 DEF Surjection
<1>7. QED BY <1>2, <1>6, FS_Surjection

LEMMA ReferencesFinite ==
    ASSUME NEW r \in Seq(Lines)
    PROVE  IsFiniteSet(References(r))
<1> DEFINE ss == [i \in DOMAIN r |-> r[i].words]
           w == FlattenSeq(ss)
<1>1. /\ Len(r) \in Nat /\ DOMAIN r = 1..Len(r) /\ \A i \in DOMAIN r : r[i] \in Lines
  BY ElementsOf
<1>2. \A i \in DOMAIN r : r[i].words \in Seq(Words)
  BY <1>1, LineWords
<1>3. ss \in Seq(Seq(Words)) /\ DOMAIN ss = DOMAIN r
  BY <1>1, <1>2, SeqDef
<1>4. \A i \in DOMAIN r : ss[i] = r[i].words
  OBVIOUS
<1> HIDE DEF ss
<1>5. w \in Seq(Words) /\ \A e : Has(w, e) <=> \E k \in DOMAIN ss : Has(ss[k], e)
  BY <1>3, FlattenHas
<1>6. \A e \in References(r) : e \in Words /\ Has(w, e)
  <2>1. TAKE e \in References(r)
  <2>2. PICK ln : Has(r, ln) /\ Has(ln.words, e) /\ e \in Ids
    BY RefersTo
  <2>3. PICK i \in DOMAIN r : r[i] = ln
    BY <2>2 DEF Has
  <2>4. QED BY <1>3, <1>4, <1>5, <2>2, <2>3, Typing
<1> HIDE DEF w
<1>7. References(r) \subseteq {e \in Words : Has(w, e)}
  BY <1>6
<1>8. IsFiniteSet({e \in Words : Has(w, e)})
  BY <1>5, FinitelyMany
<1>9. QED BY <1>7, <1>8, FS_Subset

\* SetToSeq lists all of a finite set.
LEMMA SetListed ==
    ASSUME NEW S, IsFiniteSet(S)
    PROVE  SetToSeq(S) \in Seq(S) /\ \A e \in S : Has(SetToSeq(S), e)
<1> DEFINE n == Cardinality(S)
           f == SetToSeq(S)
<1>1. n \in Nat /\ ExistsBijection(1..n, S)
  BY FS_CardinalityType
<1>2. PICK g : g \in Bijection(1..n, S)
  BY <1>1 DEF ExistsBijection
<1>3. g \in [1..n -> S] /\ IsInjective(g)
  BY <1>2 DEF Bijection, Injection
<1>4. f \in [1..n -> S] /\ IsInjective(f)
  BY <1>3 DEF SetToSeq
<1> HIDE DEF f
<1>5. f \in Injection(1..n, S)
  BY <1>4 DEF Injection
<1>6. IsFiniteSet(1..n) /\ Cardinality(1..n) = n
  BY <1>1, FS_Interval
<1>7. f \in Surjection(1..n, S)
  BY <1>5, <1>6, FS_Injection
<1>8. f \in Seq(S) /\ DOMAIN f = 1..n
  BY <1>1, <1>4, SeqDef
<1>9. \A e \in S : Has(f, e)
  BY <1>7, <1>8 DEF Surjection, Has
<1>10. QED BY <1>8, <1>9 DEF f

-----------------------------------------------------------------------------
(* Unsupported claims.                                                     *)

LEMMA ClaimsOfLine ==
    ASSUME NEW ln \in Lines
    PROVE  ClaimsOf(ln) \in Seq(Seq(Words) \ {<<>>})
<1> DEFINE S == Seq(Words) \ {<<>>}
<1>1. ln.words \in Seq(Words)
  BY LineWords
<1>2. CASE ln.words = <<>>
  BY <1>2, EmptySeq DEF ClaimsOf
<1>3. CASE ln.words # <<>> /\ (ln.kind = "bullet" \/ IdsIn(ln.words) # {})
  <2>1. ln.words \in S /\ ClaimsOf(ln) = <<ln.words>>
    BY <1>1, <1>3 DEF ClaimsOf
  <2>2. QED BY <2>1, OneWord
<1>4. CASE ln.words # <<>> /\ ~(ln.kind = "bullet" \/ IdsIn(ln.words) # {})
  <2> DEFINE ss == [i \in DOMAIN ln.words |-> <<ln.words[i]>>]
  <2>1. ClaimsOf(ln) = ss
    BY <1>4 DEF ClaimsOf
  <2>2. /\ Len(ln.words) \in Nat /\ DOMAIN ln.words = 1..Len(ln.words)
        /\ \A i \in DOMAIN ln.words : ln.words[i] \in Words
    BY <1>1, ElementsOf
  <2>3. \A i \in DOMAIN ln.words : <<ln.words[i]>> \in S
    BY <2>2, OneWord
  <2>4. ss \in Seq(S)
    BY <2>2, <2>3, SeqDef
  <2>5. QED BY <2>1, <2>4
<1>5. QED BY <1>2, <1>3, <1>4

LEMMA SectionOf ==
    ASSUME NEW r \in Seq(Lines), NEW name
    PROVE  Section(r, name) \in Seq(Lines)
<1> DEFINE I == {i \in 1..Len(r) : r[i] = Line("heading", <<name>>)}
           first == IF I # {} THEN Min(I) ELSE 0
           ends == {i \in (first + 1)..Len(r) : r[i].kind = "heading"}
           next == CHOOSE i \in ends : \A j \in ends : i <= j
           last == IF ends = {} THEN Len(r) ELSE next - 1
<1>1. Section(r, name) = IF first = 0 THEN <<>> ELSE SubSeq(r, first + 1, last)
  BY DEF Section, SelectInSeq
<1>2. Len(r) \in Nat /\ DOMAIN r = 1..Len(r) /\ \A i \in DOMAIN r : r[i] \in Lines
  BY ElementsOf
<1>3. first \in 0..Len(r)
  <2>1. CASE I # {}
    <3>1. \E x \in I : \A y \in I : x <= y
      <4>1. I \subseteq Nat
        BY <1>2
      <4> HIDE DEF I
      <4>2. QED BY <2>1, <4>1, FirstOne
    <3>2. Min(I) \in I
      BY <3>1 DEF Min
    <3>3. QED BY <1>2, <2>1, <3>2
  <2>2. CASE I = {}
    BY <1>2, <2>2
  <2>3. QED BY <2>1, <2>2
<1> HIDE DEF first
<1>4. last \in Int /\ last <= Len(r)
  <2>1. CASE ends # {}
    <3>1. \E x \in ends : \A y \in ends : x <= y
      <4>1. ends \subseteq Nat
        BY <1>2, <1>3
      <4> HIDE DEF ends
      <4>2. QED BY <2>1, <4>1, FirstOne
    <3>2. next \in ends
      BY <3>1
    <3>3. next \in Int /\ next <= Len(r)
      BY <1>2, <1>3, <3>2
    <3> HIDE DEF next
    <3>4. QED BY <1>2, <2>1, <3>3
  <2>2. CASE ends = {}
    BY <1>2, <2>2
  <2>3. QED BY <2>1, <2>2
<1> HIDE DEF last
<1>5. CASE first = 0
  BY <1>1, <1>5, EmptySeq
<1>6. CASE first # 0
  <2>1. \A i \in (first + 1)..last : r[i] \in Lines
    BY <1>2, <1>3, <1>4
  <2>2. first + 1 \in Int
    BY <1>2, <1>3
  <2>3. SubSeq(r, first + 1, last) \in Seq(Lines)
    BY <1>4, <2>1, <2>2, SubSeqProperties
  <2>4. QED BY <1>1, <1>6, <2>3
<1>7. QED BY <1>5, <1>6

LEMMA ClaimsTyped ==
    ASSUME NEW r \in Seq(Lines)
    PROVE  Claims(r) \in Seq(Seq(Words) \ {<<>>})
<1> DEFINE S == Seq(Words) \ {<<>>}
           lines == Section(r, Spellings.Result.exact)
           ss == [i \in DOMAIN lines |-> ClaimsOf(lines[i])]
<1>1. lines \in Seq(Lines)
  BY SectionOf
<1>2. Claims(r) = FlattenSeq(ss)
  BY DEF Claims
<1> HIDE DEF lines
<1>3. /\ Len(lines) \in Nat /\ DOMAIN lines = 1..Len(lines)
      /\ \A i \in DOMAIN lines : lines[i] \in Lines
  BY <1>1, ElementsOf
<1>4. \A i \in DOMAIN lines : ClaimsOf(lines[i]) \in Seq(S)
  BY <1>3, ClaimsOfLine
<1> HIDE DEF S
<1>5. ss \in Seq(Seq(S))
  BY <1>3, <1>4, SeqDef
<1> HIDE DEF ss
<1>6. QED BY <1>2, <1>5, FlattenHas DEF S

\* What is planned for is a claim that neither cites evidence nor is short.
LEMMA UnsupportedAre ==
    ASSUME NEW r \in Seq(Lines)
    PROVE  /\ Unsupported(r) \in Seq(Seq(Words) \ {<<>>})
           /\ \A c : Has(Unsupported(r), c) => ~Supported(c)
<1> DEFINE S == Seq(Words) \ {<<>>}
           T == {c \in ToSet(Claims(r)) : ~Supported(c)}
<1>1. Claims(r) \in Seq(S)
  BY ClaimsTyped
<1>2. Unsupported(r) = Among(Claims(r), T)
  BY DEF Unsupported
<1>3. \A c \in T : ~Supported(c)
  OBVIOUS
<1> HIDE DEF S, T
<1>4. /\ Among(Claims(r), T) \in Seq(S)
      /\ \A c : Has(Among(Claims(r), T), c) => c \in T
  BY <1>1, AmongHas
<1>5. QED BY <1>2, <1>3, <1>4 DEF S

-----------------------------------------------------------------------------
(* The plan.                                                               *)

ActionTypes == {"evidence", "result", "cite", "rewrite", "remove", "no_op"}

LEMMA ActionTyped ==
    ASSUME NEW type \in ActionTypes, NEW target \in Seq(Words), NEW by \in Seq(Ids)
    PROVE  /\ Action(type, target, by) \in Actions
           /\ Action(type, target, by).type = type
           /\ Action(type, target, by).target = target
           /\ Action(type, target, by).by = by
  BY DEF Action, Actions, ActionTypes

LEMMA FirstTyped ==
    ASSUME NEW ev \in Seq(Ids)
    PROVE  First(ev) \in Seq(Ids) /\ ToSet(First(ev)) \subseteq ToSet(ev)
<1>1. Len(ev) \in Nat /\ DOMAIN ev = 1..Len(ev) /\ \A i \in DOMAIN ev : ev[i] \in Ids
  BY ElementsOf
<1>2. CASE ev = <<>>
  BY <1>2, EmptySeq DEF First, ToSet
<1>3. CASE ev # <<>>
  <2>1. 1 \in DOMAIN ev
    BY <1>1, <1>3, EmptySeq
  <2>2. First(ev) = <<ev[1]>> /\ ev[1] \in Ids /\ ev[1] \in ToSet(ev)
    BY <1>1, <1>3, <2>1 DEF First, ToSet
  <2>3. QED BY <2>2, OneWord DEF ToSet
<1>4. QED BY <1>2, <1>3

LEMMA ForClaimsPlanned ==
    ASSUME NEW ev \in Seq(Ids), NEW claims \in Seq(Seq(Words) \ {<<>>}),
           \A c : Has(claims, c) => ~Supported(c)
    PROVE  /\ ForClaims(claims, ev) \in Seq(Actions)
           /\ \A a : Has(ForClaims(claims, ev), a) => Planned(a, ev)
<1> DEFINE type == IF ev = <<>> THEN "remove" ELSE "cite"
           ss == ForClaims(claims, ev)
<1>1. /\ Len(claims) \in Nat /\ DOMAIN claims = 1..Len(claims)
      /\ \A i \in DOMAIN claims : claims[i] \in Seq(Words) \ {<<>>}
  BY ElementsOf
<1>2. First(ev) \in Seq(Ids) /\ ToSet(First(ev)) \subseteq ToSet(ev)
  BY FirstTyped
<1>3. type \in {"cite", "remove"}
  OBVIOUS
<1>4. ss = [i \in DOMAIN claims |-> Action(type, claims[i], First(ev))]
  BY DEF ForClaims
<1> HIDE DEF type
<1>5. \A i \in DOMAIN claims : LET a == Action(type, claims[i], First(ev))
                               IN  a \in Actions /\ Planned(a, ev)
  <2>1. TAKE i \in DOMAIN claims
  <2>2. claims[i] # <<>> /\ claims[i] \in Seq(Words) /\ ~Supported(claims[i])
    BY <1>1 DEF Has
  <2> DEFINE a == Action(type, claims[i], First(ev))
  <2>3. a \in Actions /\ a.type = type /\ a.target = claims[i] /\ a.by = First(ev)
    BY <1>2, <1>3, <2>2, ActionTyped DEF ActionTypes
  <2> HIDE DEF a
  <2>4. Planned(a, ev)
    BY <1>2, <1>3, <2>2, <2>3 DEF Planned
  <2>5. QED BY <2>3, <2>4 DEF a
<1>6. ss \in Seq(Actions) /\ DOMAIN ss = DOMAIN claims
  BY <1>1, <1>4, <1>5, SeqDef
<1>7. \A i \in DOMAIN ss : Planned(ss[i], ev)
  BY <1>4, <1>5
<1>8. QED BY <1>6, <1>7 DEF Has

LEMMA ForIdsPlanned ==
    ASSUME NEW ev \in Seq(Ids), NEW unknown, IsFiniteSet(unknown),
           unknown \subseteq Ids, unknown \cap ToSet(ev) = {}
    PROVE  /\ ForIds(unknown, ev) \in Seq(Actions)
           /\ \A a : Has(ForIds(unknown, ev), a) => Planned(a, ev)
           /\ \A id \in unknown : \E a : Has(ForIds(unknown, ev), a) /\ Rewrites(a, id)
<1> DEFINE ids == SetToSeq(unknown)
           ss == ForIds(unknown, ev)
<1>1. ids \in Seq(unknown) /\ \A id \in unknown : Has(ids, id)
  BY SetListed
<1>2. ss = [i \in DOMAIN ids |-> Action("rewrite", <<ids[i]>>, First(ev))]
  BY DEF ForIds
<1> HIDE DEF ids
<1>3. /\ Len(ids) \in Nat /\ DOMAIN ids = 1..Len(ids)
      /\ \A i \in DOMAIN ids : ids[i] \in unknown
  BY <1>1, ElementsOf
<1>4. First(ev) \in Seq(Ids) /\ ToSet(First(ev)) \subseteq ToSet(ev)
  BY FirstTyped
<1>5. \A i \in DOMAIN ids : LET a == Action("rewrite", <<ids[i]>>, First(ev))
                            IN  a \in Actions /\ Planned(a, ev) /\ Rewrites(a, ids[i])
  <2>1. TAKE i \in DOMAIN ids
  <2>2. ids[i] \in Ids \ ToSet(ev) /\ ids[i] \in Words
    BY <1>3, Typing
  <2>3. <<ids[i]>> \in Seq(Words) /\ <<ids[i]>>[1] = ids[i] /\ <<ids[i]>> # <<>>
    BY <2>2, OneWord
  <2> DEFINE a == Action("rewrite", <<ids[i]>>, First(ev))
  <2>4. a \in Actions /\ a.type = "rewrite" /\ a.target = <<ids[i]>> /\ a.by = First(ev)
    <3> DEFINE type == "rewrite"
               target == <<ids[i]>>
    <3>1. type \in ActionTypes /\ target \in Seq(Words)
      BY <2>3 DEF ActionTypes
    <3> HIDE DEF type, target
    <3>2. LET b == Action(type, target, First(ev))
          IN  b \in Actions /\ b.type = type /\ b.target = target /\ b.by = First(ev)
      BY <1>4, <3>1, ActionTyped
    <3>3. QED BY <3>2 DEF type, target
  <2> HIDE DEF a
  <2>5. Planned(a, ev) /\ Rewrites(a, ids[i])
    BY <1>4, <2>2, <2>3, <2>4 DEF Planned, Rewrites
  <2>6. QED BY <2>4, <2>5 DEF a
<1>6. ss \in Seq(Actions) /\ DOMAIN ss = DOMAIN ids
  BY <1>2, <1>3, <1>5, SeqDef
<1>7. \A i \in DOMAIN ss : Planned(ss[i], ev) /\ Rewrites(ss[i], ids[i])
  BY <1>2, <1>5
<1>8. \A id \in unknown : \E i \in DOMAIN ids : ids[i] = id
  BY <1>1 DEF Has
<1>9. \A id \in unknown : \E a : Has(ss, a) /\ Rewrites(a, id)
  BY <1>6, <1>7, <1>8 DEF Has
<1>10. \A a : Has(ss, a) => Planned(a, ev)
  BY <1>7 DEF Has
<1>11. QED BY <1>6, <1>9, <1>10

\* Every action of a plan is as it should be, the section of evidence comes
\* first, and every unknown id has an action.
LEMMA PlanIsSound ==
    ASSUME NEW r \in Seq(Lines), NEW ev \in Seq(Ids), NEW findings \in Findings
    PROVE  LET p == Plan(r, ev) \o findings
           IN  /\ p \in Seq(Actions)
               /\ \A a : Has(p, a) => Planned(a, ev)
               /\ \A id \in References(r) \ ToSet(ev) : \E a : Has(p, a) /\ Rewrites(a, id)
               /\ ~HasText(r, "Evidence") => p # <<>> /\ p[1].type = "evidence"
<1> DEFINE e == IF HasText(r, "Evidence") THEN <<>> ELSE <<Action("evidence", <<>>, ev)>>
           t == IF HasText(r, "Result") THEN <<>> ELSE <<Action("result", <<>>, First(ev))>>
           u == ForIds(References(r) \ ToSet(ev), ev)
           c == ForClaims(Unsupported(r), ev)
           p == Plan(r, ev) \o findings
<1>1. First(ev) \in Seq(Ids) /\ ToSet(First(ev)) \subseteq ToSet(ev) /\ <<>> \in Seq(Words)
      /\ <<>> \in Seq(Ids)
  BY FirstTyped, EmptySeq
<1>2. ASSUME NEW type, type \in {"evidence", "result", "no_op"}, NEW by \in Seq(Ids),
             ToSet(by) \subseteq ToSet(ev)
      PROVE  LET a == Action(type, <<>>, by)
             IN  a \in Actions /\ a.type = type /\ Planned(a, ev)
  <2> DEFINE a == Action(type, <<>>, by)
  <2>1. type \in ActionTypes
    BY <1>2 DEF ActionTypes
  <2>2. a \in Actions /\ a.type = type /\ a.by = by
    <3> DEFINE target == <<>>
    <3>1. target \in Seq(Words)
      BY <1>1
    <3> HIDE DEF target
    <3>2. LET b == Action(type, target, by)
          IN  b \in Actions /\ b.type = type /\ b.by = by
      BY <1>2, <2>1, <3>1, ActionTyped
    <3>3. QED BY <3>2 DEF target
  <2>3. type \notin {"cite", "remove", "rewrite"}
    BY <1>2
  <2> HIDE DEF a
  <2>4. Planned(a, ev)
    BY <1>2, <2>2, <2>3 DEF Planned
  <2>5. QED BY <2>2, <2>4 DEF a
<1>3. /\ e \in Seq(Actions) /\ \A a : Has(e, a) => Planned(a, ev)
      /\ ~HasText(r, "Evidence") => Len(e) = 1 /\ e[1].type = "evidence"
  <2> DEFINE a1 == Action("evidence", <<>>, ev)
  <2>1. a1 \in Actions /\ a1.type = "evidence" /\ Planned(a1, ev)
    BY <1>2
  <2> HIDE DEF a1
  <2>2. CASE HasText(r, "Evidence")
    BY <2>2, EmptySeq DEF Has
  <2>3. CASE ~HasText(r, "Evidence")
    <3>1. e = <<a1>>
      BY <2>3 DEF a1
    <3>2. QED BY <2>1, <3>1, OneWord, OneHas
  <2>4. QED BY <2>2, <2>3
<1>4. t \in Seq(Actions) /\ \A a : Has(t, a) => Planned(a, ev)
  <2> DEFINE a1 == Action("result", <<>>, First(ev))
  <2>1. a1 \in Actions /\ Planned(a1, ev)
    BY <1>1, <1>2
  <2> HIDE DEF a1
  <2>2. CASE HasText(r, "Result")
    BY <2>2, EmptySeq DEF Has
  <2>3. CASE ~HasText(r, "Result")
    <3>1. t = <<a1>>
      BY <2>3 DEF a1
    <3>2. QED BY <2>1, <3>1, OneWord, OneHas
  <2>4. QED BY <2>2, <2>3
<1>5. /\ u \in Seq(Actions) /\ \A a : Has(u, a) => Planned(a, ev)
      /\ \A id \in References(r) \ ToSet(ev) : \E a : Has(u, a) /\ Rewrites(a, id)
  <2>1. IsFiniteSet(References(r) \ ToSet(ev))
    BY ReferencesFinite, FS_Subset
  <2>2. /\ References(r) \ ToSet(ev) \subseteq Ids
        /\ (References(r) \ ToSet(ev)) \cap ToSet(ev) = {}
    BY RefersTo
  <2> DEFINE unknown == References(r) \ ToSet(ev)
  <2> HIDE DEF unknown
  <2>3. IsFiniteSet(unknown) /\ unknown \subseteq Ids /\ unknown \cap ToSet(ev) = {}
    BY <2>1, <2>2 DEF unknown
  <2>4. QED BY <2>3, ForIdsPlanned DEF unknown
<1>6. c \in Seq(Actions) /\ \A a : Has(c, a) => Planned(a, ev)
  BY UnsupportedAre, ForClaimsPlanned
<1>7. findings \in Seq(Actions) /\ \A a : Has(findings, a) => Planned(a, ev)
  <2> DEFINE a1 == Action("no_op", <<>>, <<>>)
  <2>1. ToSet(<<>>) \subseteq ToSet(ev)
    BY DEF ToSet
  <2>2. a1 \in Actions /\ Planned(a1, ev)
    BY <1>1, <1>2, <2>1
  <2>3. findings = <<>> \/ findings = <<a1>>
    BY DEF Findings
  <2> HIDE DEF a1
  <2>4. CASE findings = <<>>
    BY <2>4, EmptySeq DEF Has
  <2>5. CASE findings = <<a1>>
    BY <2>2, <2>5, OneWord, OneHas
  <2>6. QED BY <2>3, <2>4, <2>5
<1> DEFINE s1 == e \o t
           s2 == s1 \o u
           s3 == s2 \o c
<1>8. p = s3 \o findings
  BY DEF Plan
<1> HIDE DEF e, t, u, c, p
<1>9. /\ s1 \in Seq(Actions) /\ Len(s1) = Len(e) + Len(t)
      /\ \A a : Has(s1, a) <=> Has(e, a) \/ Has(t, a)
  BY <1>3, <1>4, ConcatHas
<1>10. Len(e) >= 1 => Len(s1) >= 1 /\ s1[1] = e[1]
  BY <1>3, <1>4, ConcatProperties, LenProperties
<1> HIDE DEF s1
<1>11. /\ s2 \in Seq(Actions) /\ Len(s2) = Len(s1) + Len(u)
       /\ \A a : Has(s2, a) <=> Has(s1, a) \/ Has(u, a)
  BY <1>5, <1>9, ConcatHas
<1>12. Len(s1) >= 1 => Len(s2) >= 1 /\ s2[1] = s1[1]
  BY <1>5, <1>9, ConcatProperties, LenProperties
<1> HIDE DEF s2
<1>13. /\ s3 \in Seq(Actions) /\ Len(s3) = Len(s2) + Len(c)
       /\ \A a : Has(s3, a) <=> Has(s2, a) \/ Has(c, a)
  BY <1>6, <1>11, ConcatHas
<1>14. Len(s2) >= 1 => Len(s3) >= 1 /\ s3[1] = s2[1]
  BY <1>6, <1>11, ConcatProperties, LenProperties
<1> HIDE DEF s3
<1>15. /\ p \in Seq(Actions) /\ Len(p) = Len(s3) + Len(findings)
       /\ \A a : Has(p, a) <=> Has(s3, a) \/ Has(findings, a)
  BY <1>7, <1>8, <1>13, ConcatHas
<1>16. Len(s3) >= 1 => Len(p) >= 1 /\ p[1] = s3[1]
  BY <1>7, <1>8, <1>13, ConcatProperties, LenProperties
<1>17. \A a : Has(p, a) => Planned(a, ev)
  BY <1>3, <1>4, <1>5, <1>6, <1>7, <1>9, <1>11, <1>13, <1>15
<1>18. \A id \in References(r) \ ToSet(ev) : \E a : Has(p, a) /\ Rewrites(a, id)
  BY <1>5, <1>11, <1>13, <1>15
<1>19. ASSUME ~HasText(r, "Evidence") PROVE p # <<>> /\ p[1].type = "evidence"
  <2>1. Len(p) >= 1 /\ p[1] = e[1] /\ e[1].type = "evidence"
    <3>1. Len(e) = 1 /\ e[1].type = "evidence"
      BY <1>3, <1>19
    <3>2. Len(s1) >= 1 /\ s1[1] = e[1]
      BY <1>10, <3>1
    <3>3. Len(s2) >= 1 /\ s2[1] = e[1]
      BY <1>12, <3>2
    <3>4. Len(s3) >= 1 /\ s3[1] = e[1]
      BY <1>14, <3>3
    <3>5. QED BY <1>16, <3>1, <3>4
  <2>2. p # <<>>
    BY <2>1, EmptySeq
  <2>3. QED BY <2>1, <2>2
<1>20. QED BY <1>15, <1>17, <1>18, <1>19 DEF p

-----------------------------------------------------------------------------
(* What an action does to a report.                                        *)

LEMMA EvidenceAdded ==
    ASSUME NEW r \in Seq(Lines), NEW ev \in Seq(Ids)
    PROVE  /\ Kept(r, WithEvidence(r, ev), ToSet(ev))
           /\ Titled(WithEvidence(r, ev), "Evidence")
<1> DEFINE h == Line("heading", <<"Evidence">>)
           nothing == "No evidence items available."
           preview == "preview"
           none == Line("bullet", <<nothing>>)
           item(i) == Line("bullet", <<ev[i], preview>>)
           all == [i \in DOMAIN ev |-> item(i)]
           body == IF ev = <<>> THEN <<none>> ELSE all
           after == WithEvidence(r, ev)
<1>1. h \in Lines /\ h.words = <<"Evidence">> /\ \A e \in Ids : ~Has(h.words, e)
  <2>1. "Evidence" \in Titles
    BY DEF Titles, Spellings
  <2>2. QED BY <2>1, Headings
<1>2. /\ none \in Lines /\ \A e \in Ids : ~Has(none.words, e)
      /\ preview \in Words /\ preview \notin Ids
  <2>1. nothing \in Stock /\ preview \in Stock /\ "bullet" \in Kinds
    BY DEF Stock, Kinds
  <2> HIDE DEF nothing, preview
  <2>2. nothing \in Words \ Ids /\ preview \in Words \ Ids
    BY <2>1, Typing
  <2>3. <<nothing>> \in Seq(Words) /\ \A e : Has(<<nothing>>, e) <=> e = nothing
    BY <2>2, OneWord, OneHas
  <2>4. none \in Lines /\ none.words = <<nothing>>
    BY <2>1, <2>3, LineTyped
  <2>5. QED BY <2>2, <2>3, <2>4
<1> HIDE DEF nothing, preview
<1>3. Len(ev) \in Nat /\ DOMAIN ev = 1..Len(ev) /\ \A i \in DOMAIN ev : ev[i] \in Ids
  BY ElementsOf
<1>4. \A i \in DOMAIN ev :
          item(i) \in Lines /\ \A e \in Ids : Has(item(i).words, e) => e \in ToSet(ev)
  <2>1. TAKE i \in DOMAIN ev
  <2>2. ev[i] \in Words /\ ev[i] \in ToSet(ev)
    BY <1>3, Typing DEF ToSet
  <2>3. /\ <<ev[i], preview>> \in Seq(Words)
        /\ \A e : Has(<<ev[i], preview>>, e) <=> e = ev[i] \/ e = preview
    BY <1>2, <2>2, TwoWords
  <2>4. "bullet" \in Kinds
    BY DEF Kinds
  <2>5. item(i) \in Lines /\ item(i).words = <<ev[i], preview>>
    BY <2>3, <2>4, LineTyped
  <2>6. QED BY <1>2, <2>2, <2>3, <2>5
<1> HIDE DEF item, none
<1>5. all \in Seq(Lines) /\ \A ln : Has(all, ln) => \E i \in DOMAIN ev : ln = item(i)
  <2>1. all \in Seq(Lines)
    BY <1>3, <1>4, SeqDef
  <2>2. QED BY <2>1 DEF Has
<1> HIDE DEF all
<1>6. /\ body \in Seq(Lines)
      /\ \A ln : Has(body, ln) => \A e \in Ids : Has(ln.words, e) => e \in ToSet(ev)
  <2>1. CASE ev = <<>>
    BY <1>2, <2>1, OneWord, OneHas
  <2>2. CASE ev # <<>>
    BY <1>4, <1>5, <2>2
  <2>3. QED BY <2>1, <2>2
<1>7. after = (r \o <<h>>) \o body
  BY DEF WithEvidence, all, item, none, nothing, preview
<1> HIDE DEF body, h, after
<1>8. <<h>> \in Seq(Lines) /\ \A ln : Has(<<h>>, ln) <=> ln = h
  BY <1>1, OneWord, OneHas
<1>9. /\ r \o <<h>> \in Seq(Lines)
      /\ \A ln : Has(r \o <<h>>, ln) <=> Has(r, ln) \/ ln = h
  BY <1>8, ConcatHas
<1>10. /\ after \in Seq(Lines)
       /\ \A ln : Has(after, ln) <=> Has(r, ln) \/ ln = h \/ Has(body, ln)
  BY <1>6, <1>7, <1>9, ConcatHas
<1>11. \A ln : Has(after, ln) =>
          \A e \in Ids : Has(ln.words, e) =>
              e \in ToSet(ev) \/ \E old : Has(r, old) /\ Has(old.words, e)
  BY <1>1, <1>6, <1>10
<1>12. \A n \in Titles : Titled(r, n) => Titled(after, n)
  BY <1>10 DEF Titled
<1>13. Titled(after, "Evidence")
  BY <1>10 DEF Titled, h
<1>14. Kept(r, after, ToSet(ev))
  BY <1>10, <1>11, <1>12, KeptByLines
<1>15. QED BY <1>13, <1>14 DEF after

LEMMA ResultAdded ==
    ASSUME NEW r \in Seq(Lines), NEW by \in Seq(Ids)
    PROVE  Kept(r, WithResult(r, by), ToSet(by))
<1> DEFINE h == Line("heading", <<"Result">>)
           done == "Task completed."
           see == "See evidence references below."
           said == <<done, see>>
           text == Line("text", said \o by)
           top == <<h, text>>
           after == WithResult(r, by)
<1>1. h \in Lines /\ \A e \in Ids : ~Has(h.words, e)
  <2>1. "Result" \in Titles
    BY DEF Titles, Spellings
  <2>2. QED BY <2>1, Headings
<1>2. said \in Seq(Words) /\ \A e \in Ids : ~Has(said, e)
  <2>1. done \in Stock /\ see \in Stock
    BY DEF Stock
  <2> HIDE DEF done, see
  <2>2. done \in Words \ Ids /\ see \in Words \ Ids
    BY <2>1, Typing
  <2>3. said \in Seq(Words) /\ \A e : Has(said, e) <=> e = done \/ e = see
    BY <2>2, TwoWords
  <2>4. QED BY <2>2, <2>3
<1>3. by \in Seq(Words) /\ \A e : Has(by, e) => e \in ToSet(by)
  <2>1. Len(by) \in Nat /\ DOMAIN by = 1..Len(by) /\ \A i \in DOMAIN by : by[i] \in Words
    BY ElementsOf, Typing
  <2>2. by \in [1..Len(by) -> Words]
    BY <2>1, LenProperties
  <2>3. QED BY <2>1, <2>2, SeqDef DEF Has, ToSet
<1> HIDE DEF said
<1>4. /\ said \o by \in Seq(Words)
      /\ \A e : Has(said \o by, e) <=> Has(said, e) \/ Has(by, e)
  BY <1>2, <1>3, ConcatHas
<1>5. text \in Lines /\ text.words = said \o by
  <2>1. "text" \in Kinds
    BY DEF Kinds
  <2>2. QED BY <1>4, <2>1, LineTyped
<1>6. after = top \o r
  BY DEF WithResult, said
<1> HIDE DEF h, text
<1>7. top \in Seq(Lines) /\ \A ln : Has(top, ln) => ln = h \/ ln = text
  BY <1>1, <1>5 DEF Has
<1> HIDE DEF top, after
<1>8. /\ after \in Seq(Lines)
      /\ \A ln : Has(after, ln) <=> Has(top, ln) \/ Has(r, ln)
  BY <1>6, <1>7, ConcatHas
<1>9. \A ln : Has(after, ln) =>
          \A e \in Ids : Has(ln.words, e) =>
              e \in ToSet(by) \/ \E old : Has(r, old) /\ Has(old.words, e)
  BY <1>1, <1>2, <1>3, <1>4, <1>5, <1>7, <1>8
<1>10. \A n \in Titles : Titled(r, n) => Titled(after, n)
  BY <1>8 DEF Titled
<1>11. Kept(r, after, ToSet(by))
  BY <1>8, <1>9, <1>10, KeptByLines
<1>12. QED BY <1>11 DEF after

\* A title is no part of a claim that is planned for.
LEMMA TitlesAreNoClaims ==
    ASSUME NEW n \in Titles, NEW c \in Seq(Words), c # <<>>, ~Supported(c)
    PROVE  Begins(<<n>>, c) = {}
<1>1. SUFFICES ASSUME NEW k \in Begins(<<n>>, c) PROVE FALSE
  OBVIOUS
<1>2. Len(c) \in Nat /\ Len(c) # 0
  BY LenProperties, EmptySeq
<1>3. n \in Words /\ n \in Short
  BY Typing
<1>4. /\ k \in 0..(1 - Len(c))
      /\ SubSeq(<<n>>, k + 1, k + Len(c)) = c
  BY <1>1 DEF Begins
<1>5. k = 0 /\ Len(c) = 1
  BY <1>2, <1>4
<1>6. SubSeq(<<n>>, 1, 1) = c
  BY <1>4, <1>5
<1>7. SubSeq(<<n>>, 1, 1)[1] = n
  <2>1. \A i \in 1..1 : <<n>>[i] \in Words
    BY <1>3
  <2>2. \A i \in 1..(1 - 1 + 1) : SubSeq(<<n>>, 1, 1)[i] = <<n>>[1 + i - 1]
    BY <2>1, SubSeqProperties
  <2>3. QED BY <2>2
<1>8. QED BY <1>3, <1>5, <1>6, <1>7 DEF Supported

LEMMA PartHas ==
    ASSUME NEW S, NEW s \in Seq(S), NEW m \in Int, NEW n \in Int, 1 <= m, n <= Len(s)
    PROVE  SubSeq(s, m, n) \in Seq(S) /\ \A e : Has(SubSeq(s, m, n), e) => Has(s, e)
<1> DEFINE t == SubSeq(s, m, n)
<1>1. Len(s) \in Nat /\ DOMAIN s = 1..Len(s) /\ \A i \in DOMAIN s : s[i] \in S
  BY ElementsOf
<1>2. \A i \in m..n : s[i] \in S
  BY <1>1
<1>3. /\ t \in Seq(S) /\ Len(t) = (IF m <= n THEN n - m + 1 ELSE 0)
      /\ \A i \in 1..(n - m + 1) : t[i] = s[m + i - 1]
  BY <1>2, SubSeqProperties
<1> HIDE DEF t
<1>4. ASSUME NEW e, Has(t, e) PROVE Has(s, e)
  <2>1. DOMAIN t = 1..Len(t)
    BY <1>3, LenProperties
  <2>2. PICK i \in 1..Len(t) : t[i] = e
    BY <1>4, <2>1 DEF Has
  <2>3. i \in 1..(n - m + 1) /\ m + i - 1 \in 1..Len(s)
    BY <1>1, <1>3, <2>2
  <2>4. s[m + i - 1] = e
    BY <1>3, <2>2, <2>3
  <2>5. QED BY <1>1, <2>3, <2>4 DEF Has
<1>5. QED BY <1>3, <1>4 DEF t

LEMMA ClaimCited ==
    ASSUME NEW r \in Seq(Lines), NEW by \in Seq(Ids), NEW c \in Seq(Words),
           c # <<>>, ~Supported(c)
    PROVE  Kept(r, Cited(r, c, by), ToSet(by))
<1> DEFINE I == {i \in 1..Len(r) : Begins(r[i].words, c) # {}}
           i == IF I # {} THEN Min(I) ELSE 0
           ks == IF i = 0 THEN {} ELSE Begins(r[i].words, c)
           k == CHOOSE k \in ks : \A j \in ks : k <= j
           w == r[i].words
           split == k + Len(c)
           first == SubSeq(w, 1, split)
           rest == SubSeq(w, split + 1, Len(w))
           new == first \o by \o rest
           after == [r EXCEPT ![i].words = new]
<1>1. Cited(r, c, by) = IF i = 0 THEN r ELSE after
  BY DEF Cited, SelectInSeq
<1>2. Len(r) \in Nat /\ DOMAIN r = 1..Len(r) /\ \A j \in DOMAIN r : r[j] \in Lines
  BY ElementsOf
<1>3. i = 0 \/ i \in I
  <2>1. CASE I # {}
    <3>1. \E x \in I : \A y \in I : x <= y
      <4>1. I \subseteq Nat
        BY <1>2
      <4> HIDE DEF I
      <4>2. QED BY <2>1, <4>1, FirstOne
    <3>2. QED BY <2>1, <3>1 DEF Min
  <2>2. CASE I = {}
    BY <2>2
  <2>3. QED BY <2>1, <2>2
<1> HIDE DEF i
<1>4. CASE i = 0
  BY <1>1, <1>4, KeptItself
<1>5. CASE i # 0
  <2>1. i \in 1..Len(r) /\ i \in DOMAIN r /\ Begins(w, c) # {} /\ ks = Begins(w, c)
    BY <1>2, <1>3, <1>5
  <2>2. w \in Seq(Words) /\ Len(w) \in Nat /\ Len(c) \in Nat
    BY <1>2, <2>1, LineWords, LenProperties
  <2>3. Begins(w, c) \subseteq 0..(Len(w) - Len(c))
    BY DEF Begins
  <2>4. k \in ks
    <3>1. ks \subseteq Nat /\ ks # {}
      BY <2>1, <2>2, <2>3
    <3> HIDE DEF ks
    <3>2. \E x \in ks : \A y \in ks : x <= y
      BY <3>1, FirstOne
    <3>3. QED BY <3>2
  <2> HIDE DEF k, ks
  <2>5. split \in Nat /\ split <= Len(w)
    BY <2>1, <2>2, <2>3, <2>4
  <2> HIDE DEF w, split
  <2>6. first \in Seq(Words) /\ \A e : Has(first, e) => Has(w, e)
    BY <2>2, <2>5, PartHas
  <2>7. rest \in Seq(Words) /\ \A e : Has(rest, e) => Has(w, e)
    BY <2>2, <2>5, PartHas
  <2>8. by \in Seq(Words)
    <3>1. Len(by) \in Nat /\ DOMAIN by = 1..Len(by) /\ \A j \in DOMAIN by : by[j] \in Words
      BY ElementsOf, Typing
    <3>2. by \in [1..Len(by) -> Words]
      BY <3>1, LenProperties
    <3>3. QED BY <3>1, <3>2, SeqDef
  <2> HIDE DEF first, rest
  <2>9. first \o by \in Seq(Words)
        /\ \A e : Has(first \o by, e) <=> Has(first, e) \/ Has(by, e)
    BY <2>6, <2>8, ConcatHas
  <2> DEFINE front == first \o by
  <2> HIDE DEF front
  <2>10. /\ front \in Seq(Words)
         /\ \A e : Has(front, e) <=> Has(first, e) \/ Has(by, e)
    BY <2>9 DEF front
  <2>11. /\ front \o rest \in Seq(Words)
         /\ \A e : Has(front \o rest, e) <=> Has(front, e) \/ Has(rest, e)
    BY <2>7, <2>10, ConcatHas
  <2>12. new \in Seq(Words) /\ \A e : Has(new, e) => Has(w, e) \/ Has(by, e)
    BY <2>6, <2>7, <2>10, <2>11 DEF front
  <2> HIDE DEF new
  <2>13. /\ DOMAIN after = 1..Len(r) /\ after[i] = [r[i] EXCEPT !.words = new]
         /\ \A j \in DOMAIN r : j # i => after[j] = r[j]
    BY <1>2, <2>1
  <2>14. after[i] \in Lines /\ after[i].words = new
    BY <1>2, <2>1, <2>12, <2>13 DEF Lines
  <2> HIDE DEF after
  <2>15. after \in Seq(Lines)
    <3>1. \A j \in 1..Len(r) : after[j] \in Lines
      BY <1>2, <2>13, <2>14
    <3>2. after \in [1..Len(r) -> Lines]
      <4>1. after = [j \in 1..Len(r) |-> after[j]]
        BY <1>2, <2>1, <2>13 DEF after
      <4>2. QED BY <3>1, <4>1
    <3>3. QED BY <1>2, <3>2, SeqDef
  <2>16. ASSUME NEW n \in Titles, Titled(r, n) PROVE Titled(after, n)
    <3>1. PICK j \in DOMAIN r : r[j] = Line("heading", <<n>>)
      BY <2>16 DEF Titled, Has
    <3>2. j # i
      <4>1. Begins(<<n>>, c) = {}
        BY TitlesAreNoClaims
      <4>2. Line("heading", <<n>>).words = <<n>>
        BY Headings
      <4>3. QED BY <2>1, <3>1, <4>1, <4>2 DEF w
    <3>3. after[j] = Line("heading", <<n>>) /\ j \in DOMAIN after
      BY <1>2, <2>13, <3>1, <3>2
    <3>4. QED BY <3>3 DEF Titled, Has
  <2>17. ASSUME NEW ln, Has(after, ln), NEW e \in Ids, Has(ln.words, e)
         PROVE  e \in ToSet(by) \/ \E old : Has(r, old) /\ Has(old.words, e)
    <3>1. PICK j \in DOMAIN r : after[j] = ln
      BY <1>2, <2>13, <2>17 DEF Has
    <3>2. CASE j = i
      <4>1. Has(w, e) \/ Has(by, e)
        BY <2>12, <2>14, <2>17, <3>1, <3>2
      <4>2. Has(by, e) => e \in ToSet(by)
        BY DEF Has, ToSet
      <4>3. Has(r, r[i]) /\ r[i].words = w
        BY <2>1 DEF Has, w
      <4>4. QED BY <4>1, <4>2, <4>3
    <3>3. CASE j # i
      <4>1. Has(r, ln)
        BY <2>13, <3>1, <3>3 DEF Has
      <4>2. QED BY <2>17, <4>1
    <3>4. QED BY <3>2, <3>3
  <2>18. Kept(r, after, ToSet(by))
    BY <2>15, <2>16, <2>17, KeptByLines
  <2>19. QED BY <1>1, <1>5, <2>18 DEF after
<1>6. QED BY <1>4, <1>5

LEMMA WordsReplaced ==
    ASSUME NEW w \in Seq(Words), NEW id \in Ids, NEW by \in Seq(Ids)
    PROVE  LET new == FlattenSeq([j \in DOMAIN w |-> IF w[j] = id THEN by ELSE <<w[j]>>])
           IN  /\ new \in Seq(Words)
               /\ \A e : Has(new, e) => Has(by, e) \/ (Has(w, e) /\ e # id)
               /\ \A n \in Titles : w = <<n>> => new = <<n>>
<1> DEFINE ss == [j \in DOMAIN w |-> IF w[j] = id THEN by ELSE <<w[j]>>]
           new == FlattenSeq(ss)
<1>1. Len(w) \in Nat /\ DOMAIN w = 1..Len(w) /\ \A j \in DOMAIN w : w[j] \in Words
  BY ElementsOf
<1>2. by \in Seq(Words)
  <2>1. Len(by) \in Nat /\ DOMAIN by = 1..Len(by) /\ \A j \in DOMAIN by : by[j] \in Words
    BY ElementsOf, Typing
  <2>2. by \in [1..Len(by) -> Words]
    BY <2>1, LenProperties
  <2>3. QED BY <2>1, <2>2, SeqDef
<1>3. \A j \in DOMAIN w : ss[j] \in Seq(Words)
  BY <1>1, <1>2, OneWord
<1>4. ss \in Seq(Seq(Words)) /\ DOMAIN ss = DOMAIN w /\ Len(ss) = Len(w)
  <2>1. ss \in [1..Len(w) -> Seq(Words)]
    BY <1>1, <1>3
  <2> HIDE DEF ss
  <2>2. ss \in Seq(Seq(Words)) /\ DOMAIN ss = 1..Len(w)
    BY <1>1, <2>1, SeqDef
  <2>3. QED BY <1>1, <2>2, LenProperties
<1>5. \A j \in DOMAIN w : \A e : Has(ss[j], e) => Has(by, e) \/ (e = w[j] /\ e # id)
  <2>1. TAKE j \in DOMAIN w
  <2>2. CASE w[j] = id
    BY <2>2
  <2>3. CASE w[j] # id
    BY <2>3, OneHas
  <2>4. QED BY <2>2, <2>3
<1>6. \A n \in Titles : w = <<n>> => Len(ss) = 1 /\ ss[1] = <<n>>
  <2>1. ASSUME NEW n \in Titles, w = <<n>> PROVE Len(ss) = 1 /\ ss[1] = <<n>>
    <3>1. n # id
      BY Typing
    <3>2. Len(w) = 1 /\ w[1] = n /\ 1 \in DOMAIN w
      BY <1>1, <2>1
    <3>3. QED BY <1>4, <3>1, <3>2
  <2>2. QED BY <2>1
<1> HIDE DEF ss
<1>7. new \in Seq(Words) /\ \A e : Has(new, e) <=> \E k \in DOMAIN ss : Has(ss[k], e)
  BY <1>4, FlattenHas
<1>8. \A e : Has(new, e) => Has(by, e) \/ (Has(w, e) /\ e # id)
  <2>1. TAKE e
  <2>2. HAVE Has(new, e)
  <2>3. PICK k \in DOMAIN w : Has(ss[k], e)
    BY <1>4, <1>7, <2>2
  <2>4. Has(by, e) \/ (e = w[k] /\ e # id)
    BY <1>5, <2>3
  <2>5. QED BY <2>3, <2>4 DEF Has
<1>9. \A n \in Titles : w = <<n>> => new = <<n>>
  BY <1>6, FlattenOne
<1>10. QED BY <1>7, <1>8, <1>9 DEF ss

LEMMA IdRewritten ==
    ASSUME NEW r \in Seq(Lines), NEW by \in Seq(Ids), NEW id \in Ids
    PROVE  /\ Kept(r, Rewritten(r, id, by), ToSet(by))
           /\ id \notin ToSet(by) => id \notin References(Rewritten(r, id, by))
<1> DEFINE new(w) == FlattenSeq([j \in DOMAIN w |-> IF w[j] = id THEN by ELSE <<w[j]>>])
           after == Rewritten(r, id, by)
<1>1. Len(r) \in Nat /\ DOMAIN r = 1..Len(r) /\ \A j \in DOMAIN r : r[j] \in Lines
  BY ElementsOf
<1>2. \A w \in Seq(Words) :
        /\ new(w) \in Seq(Words)
        /\ \A e : Has(new(w), e) => Has(by, e) \/ (Has(w, e) /\ e # id)
        /\ \A n \in Titles : w = <<n>> => new(w) = <<n>>
  BY WordsReplaced
<1>3. after = [j \in DOMAIN r |-> [r[j] EXCEPT !.words = new(r[j].words)]]
  BY DEF Rewritten
<1> HIDE DEF new, after
<1>4. DOMAIN after = DOMAIN r /\ \A j \in DOMAIN r : after[j] = [r[j] EXCEPT !.words = new(r[j].words)]
  BY <1>3
<1>5. \A j \in DOMAIN r : /\ r[j].words \in Seq(Words) /\ new(r[j].words) \in Seq(Words)
                          /\ after[j] \in Lines /\ after[j].words = new(r[j].words)
                          /\ after[j].kind = r[j].kind
  <2>1. TAKE j \in DOMAIN r
  <2>2. r[j] \in Lines /\ r[j].words \in Seq(Words)
    BY <1>1, LineWords
  <2>3. new(r[j].words) \in Seq(Words)
    BY <1>2, <2>2
  <2>4. QED BY <1>4, <2>2, <2>3 DEF Lines
<1>6. after \in Seq(Lines)
  <2>1. after \in [1..Len(r) -> Lines]
    BY <1>1, <1>3, <1>5
  <2>2. QED BY <1>1, <2>1, SeqDef
<1>7. ASSUME NEW n \in Titles, Titled(r, n) PROVE Titled(after, n)
  <2>1. PICK j \in DOMAIN r : r[j] = Line("heading", <<n>>)
    BY <1>7 DEF Titled, Has
  <2>2. r[j].words = <<n>> /\ r[j].kind = "heading"
    BY <2>1 DEF Line
  <2>3. new(r[j].words) = <<n>>
    BY <1>2, <1>5, <2>2
  <2>4. after[j] = Line("heading", <<n>>)
    BY <1>4, <2>1, <2>3 DEF Line
  <2>5. QED BY <1>4, <2>4 DEF Titled, Has
<1>8. ASSUME NEW ln, Has(after, ln), NEW e \in Ids, Has(ln.words, e)
      PROVE  e \in ToSet(by) \/ (e # id /\ \E old : Has(r, old) /\ Has(old.words, e))
  <2>1. PICK j \in DOMAIN r : after[j] = ln
    BY <1>4, <1>8 DEF Has
  <2>2. Has(by, e) \/ (Has(r[j].words, e) /\ e # id)
    BY <1>2, <1>5, <1>8, <2>1
  <2>3. Has(r, r[j])
    BY DEF Has
  <2>4. Has(by, e) => e \in ToSet(by)
    BY DEF Has, ToSet
  <2>5. QED BY <2>2, <2>3, <2>4
<1>9. Kept(r, after, ToSet(by))
  BY <1>6, <1>7, <1>8, KeptByLines
<1>10. id \notin ToSet(by) => id \notin References(after)
  BY <1>8, RefersTo
<1>11. QED BY <1>9, <1>10 DEF after

LEMMA LinesRemoved ==
    ASSUME NEW r \in Seq(Lines), NEW ids, NEW c \in Seq(Words), c # <<>>, ~Supported(c)
    PROVE  Kept(r, Without(r, c), ids)
<1> DEFINE T == {ln \in ToSet(r) : Begins(ln.words, c) = {}}
           after == Without(r, c)
<1>1. after \in Seq(Lines) /\ \A ln : Has(after, ln) <=> Has(r, ln) /\ ln \in T
  <2>1. after = Among(r, T)
    BY DEF Without
  <2> HIDE DEF T, after
  <2>2. QED BY <2>1, AmongHas
<1>2. ASSUME NEW n \in Titles, Titled(r, n) PROVE Titled(after, n)
  <2> DEFINE h == Line("heading", <<n>>)
  <2>1. Begins(h.words, c) = {}
    BY TitlesAreNoClaims, Headings
  <2>2. Has(r, h)
    BY <1>2 DEF Titled
  <2>3. h \in ToSet(r)
    BY <2>2 DEF Has, ToSet
  <2> HIDE DEF h
  <2>4. Has(after, h)
    BY <1>1, <2>1, <2>2, <2>3
  <2>5. QED BY <2>4 DEF Titled, h
<1> HIDE DEF T, after
<1>3. Kept(r, after, ids)
  BY <1>1, <1>2, KeptByLines
<1>4. QED BY <1>3 DEF after

\* Whatever is applied, the report is kept; what is added is there then, and
\* what is replaced is gone.
LEMMA ActionKeeps ==
    ASSUME NEW r \in Seq(Lines), NEW ev \in Seq(Ids), NEW a \in Actions,
           a.type # "no_op", Planned(a, ev)
    PROVE  /\ Kept(r, Apply(r, a, ev), ToSet(ev))
           /\ a.type = "evidence" => Titled(Apply(r, a, ev), "Evidence")
           /\ a.type = "rewrite" => a.target[1] \notin References(Apply(r, a, ev))
<1>1. /\ a.type \in ActionTypes /\ a.target \in Seq(Words) /\ a.by \in Seq(Ids)
  BY DEF Actions, ActionTypes
<1>2. \A after : Kept(r, after, ToSet(a.by)) => Kept(r, after, ToSet(ev))
  BY DEF Kept, Planned
<1>3. CASE a.type = "evidence"
  <2>1. Apply(r, a, ev) = WithEvidence(r, ev)
    BY <1>3 DEF Apply
  <2>2. QED BY <1>3, <2>1, EvidenceAdded
<1>4. CASE a.type = "result"
  <2>1. Apply(r, a, ev) = WithResult(r, a.by)
    BY <1>4 DEF Apply
  <2>2. QED BY <1>1, <1>2, <1>4, <2>1, ResultAdded
<1>5. CASE a.type = "cite"
  <2>1. Apply(r, a, ev) = Cited(r, a.target, a.by)
    BY <1>5 DEF Apply
  <2>2. a.target # <<>> /\ ~Supported(a.target)
    BY <1>5 DEF Planned
  <2>3. QED BY <1>1, <1>2, <1>5, <2>1, <2>2, ClaimCited
<1>6. CASE a.type = "rewrite"
  <2>1. Apply(r, a, ev) = Rewritten(r, a.target[1], a.by)
    BY <1>6 DEF Apply
  <2>2. a.target[1] \in Ids /\ a.target[1] \notin ToSet(a.by)
    BY <1>6 DEF Planned
  <2>3. QED BY <1>1, <1>2, <1>6, <2>1, <2>2, IdRewritten
<1>7. CASE a.type = "remove"
  <2>1. Apply(r, a, ev) = Without(r, a.target)
    BY <1>7 DEF Apply
  <2>2. a.target # <<>> /\ ~Supported(a.target)
    BY <1>7 DEF Planned
  <2>3. QED BY <1>1, <1>7, <2>1, <2>2, LinesRemoved
<1>8. QED BY <1>1, <1>3, <1>4, <1>5, <1>6, <1>7 DEF ActionTypes

\* A report that keeps its headings keeps what the reviewer looks for.
LEMMA HeadingKept ==
    ASSUME NEW r, NEW s, NEW ids, Kept(r, s, ids), NEW name \in {"Result", "Evidence"},
           HasHeading(r, name)
    PROVE  HasHeading(s, name)
<1> DEFINE names == {Spellings[name].exact, Spellings[name].loose, Spellings[name].zh}
<1>1. names \subseteq Titles
  BY TitlesAre
<1>2. \A q : HasHeading(q, name) <=> \E n \in names : Titled(q, n)
  BY DEF HasHeading, Titled, Has, ToSet
<1> HIDE DEF names
<1>3. QED BY <1>1, <1>2 DEF Kept

LEMMA TitledIsHeaded ==
    ASSUME NEW r, Titled(r, "Evidence")
    PROVE  HasHeading(r, "Evidence")
  BY DEF HasHeading, Titled, Has, ToSet, Spellings

-----------------------------------------------------------------------------
(* The invariant.                                                          *)

LEMMA ReviewStarts == ReviewInit => ReviewInv
<1> SUFFICES ASSUME ReviewInit PROVE ReviewInv
  OBVIOUS
<1>1. /\ phase = "built" /\ report \in Seq(Lines) /\ evidence \in Seq(Ids)
      /\ attempts \in Nat /\ revised = report
      /\ plan = <<>> /\ applied = <<>> /\ skipped = <<>>
  BY Typing DEF ReviewInit
<1>2. ReviewTyped
  BY <1>1, EmptySeq DEF ReviewTyped, ReviewTypeOK
<1>3. Reviewing /\ EvidenceHeaded /\ UnknownWillGo
  BY <1>1 DEF Reviewing, EvidenceHeaded, UnknownWillGo, Revised
<1>4. PlanSound
  BY <1>1 DEF PlanSound
<1>5. ReportKept
  BY <1>1, KeptItself DEF ReportKept
<1>6. QED BY <1>2, <1>3, <1>4, <1>5 DEF ReviewInv

LEMMA ReviewReportKeeps == ReviewInv /\ ReviewReport => ReviewInv'
<1> SUFFICES ASSUME ReviewInv, ReviewReport PROVE ReviewInv'
  OBVIOUS
<1>1. ReviewTyped' /\ phase = "built"
  BY DEF ReviewInv, ReviewTyped, ReviewTypeOK, ReviewReport
<1>2. phase' # "revising" /\ ~Revised'
  BY DEF ReviewReport, Revised
<1>3. Reviewing'
  BY <1>1, <1>2 DEF ReviewInv, Reviewing, ReviewReport
<1>4. EvidenceHeaded' /\ UnknownWillGo'
  BY <1>2 DEF EvidenceHeaded, UnknownWillGo
<1>5. PlanSound' /\ ReportKept'
  BY DEF ReviewInv, PlanSound, ReportKept, ReviewReport
<1>6. QED BY <1>1, <1>3, <1>4, <1>5 DEF ReviewInv

LEMMA BeginKeeps ==
    ASSUME ReviewInv, NEW findings \in Findings, Begin(findings)
    PROVE  ReviewInv'
<1>1. /\ phase = "reviewed" /\ phase' = "revising" /\ revised = report
      /\ report \in Seq(Lines) /\ evidence \in Seq(Ids)
      /\ plan' = Plan(report, evidence) \o findings
      /\ UNCHANGED <<report, evidence, skill, lacks, attempts, revised, reviewed,
                     applied, skipped>>
      /\ initial' = Review(report, evidence)
  BY DEF ReviewInv, Reviewing, ReviewTyped, ReviewTypeOK, Begin
<1>2. /\ plan' \in Seq(Actions)
      /\ \A a : Has(plan', a) => Planned(a, evidence)
      /\ \A id \in References(report) \ ToSet(evidence) :
             \E a : Has(plan', a) /\ Rewrites(a, id)
      /\ ~HasText(report, "Evidence") => plan' # <<>> /\ plan'[1].type = "evidence"
  BY <1>1, PlanIsSound
<1>3. ~Revised'
  BY <1>1 DEF Revised
<1>4. ReviewTyped'
  BY <1>1, <1>2 DEF ReviewInv, ReviewTyped, ReviewTypeOK
<1>5. Reviewing'
  BY <1>1, <1>3 DEF ReviewInv, Reviewing
<1>6. PlanSound'
  BY <1>1, <1>2 DEF PlanSound, Has
<1>7. ReportKept'
  BY <1>1 DEF ReviewInv, ReportKept
<1>8. EvidenceHeaded'
  BY <1>1, <1>2 DEF EvidenceHeaded
<1>9. UnknownWillGo'
  <2>1. \A id \in References(report) \ ToSet(evidence) :
            \E i \in DOMAIN plan' : Rewrites(plan'[i], id)
    BY <1>2 DEF Has
  <2>2. QED BY <1>1, <2>1 DEF UnknownWillGo
<1>10. QED BY <1>4, <1>5, <1>6, <1>7, <1>8, <1>9 DEF ReviewInv

LEMMA ReviseKeeps == ReviewInv /\ Revise => ReviewInv'
<1> SUFFICES ASSUME ReviewInv, Revise PROVE ReviewInv'
  OBVIOUS
<1> DEFINE a == Head(plan)
           after == IF Skips(a) THEN revised ELSE Apply(revised, a, evidence)
<1>1. /\ phase = "revising" /\ plan # <<>> /\ plan' = Tail(plan) /\ revised' = after
      /\ UNCHANGED <<phase, report, evidence, skill, lacks, attempts, reviewed,
                     initial, final>>
  BY DEF Revise
<1>2. /\ plan \in Seq(Actions) /\ revised \in Seq(Lines) /\ evidence \in Seq(Ids)
      /\ applied \in Seq(Actions) /\ skipped \in Seq(Actions)
      /\ attempts \in Nat /\ attempts # 0
      /\ \A i \in DOMAIN applied : applied[i].type # "no_op"
  BY <1>1 DEF ReviewInv, ReviewTyped, ReviewTypeOK
<1>3. /\ a \in Actions /\ Tail(plan) \in Seq(Actions) /\ Len(Tail(plan)) = Len(plan) - 1
      /\ \A i \in 1..Len(Tail(plan)) : Tail(plan)[i] = plan[i + 1]
  BY <1>1, <1>2, HeadTailProperties
<1>4. /\ Len(plan) \in Nat /\ DOMAIN plan = 1..Len(plan) /\ 1 \in DOMAIN plan
      /\ DOMAIN Tail(plan) = 1..(Len(plan) - 1) /\ a = plan[1]
  BY <1>1, <1>2, <1>3, LenProperties, EmptySeq
<1>5. Planned(a, evidence)
  BY <1>4 DEF ReviewInv, PlanSound
<1>6. ~Skips(a) => a.type # "no_op"
  BY DEF Skips
<1>7. ~Skips(a) => /\ Kept(revised, after, ToSet(evidence))
                   /\ a.type = "evidence" => Titled(after, "Evidence")
                   /\ a.type = "rewrite" => a.target[1] \notin References(after)
  BY <1>2, <1>3, <1>5, <1>6, ActionKeeps
<1>8. Kept(revised, after, ToSet(evidence))
  BY <1>2, <1>7, KeptItself
<1>9. after # revised => a.type # "no_op"
  BY <1>6
<1>10. \/ after # revised /\ applied' = Append(applied, a) /\ skipped' = skipped
       \/ skipped' = Append(skipped, a) /\ applied' = applied
  BY DEF Revise
<1>11. Skips(a) => \/ a.type = "no_op"
                   \/ a.type = "evidence" /\ HasText(revised, "Evidence")
                   \/ a.type = "result"
  BY DEF Skips
<1> HIDE DEF a, after
<1>12. /\ applied' \in Seq(Actions) /\ skipped' \in Seq(Actions)
       /\ \A i \in DOMAIN applied' : applied'[i].type # "no_op"
  <2>1. CASE after # revised /\ applied' = Append(applied, a) /\ skipped' = skipped
    <3>1. /\ applied' \in Seq(Actions) /\ Len(applied') = Len(applied) + 1
          /\ \A i \in 1..Len(applied) : applied'[i] = applied[i]
          /\ applied'[Len(applied) + 1] = a
      BY <1>2, <1>3, <2>1, AppendProperties
    <3>2. DOMAIN applied' = 1..(Len(applied) + 1) /\ DOMAIN applied = 1..Len(applied)
          /\ Len(applied) \in Nat
      BY <1>2, <3>1, LenProperties
    <3>3. \A i \in DOMAIN applied' : applied'[i].type # "no_op"
      BY <1>2, <1>9, <2>1, <3>1, <3>2
    <3>4. QED BY <1>2, <2>1, <3>1, <3>3
  <2>2. CASE skipped' = Append(skipped, a) /\ applied' = applied
    BY <1>2, <1>3, <2>2, AppendProperties
  <2>3. QED BY <1>10, <2>1, <2>2
<1>13. ~Revised' /\ phase' = "revising"
  BY <1>1 DEF Revised
<1>14. ReviewTyped'
  <2>1. revised' \in Seq(Lines)
    BY <1>1, <1>8 DEF Kept
  <2>2. QED BY <1>1, <1>2, <1>3, <1>12, <1>13, <2>1 DEF ReviewInv, ReviewTyped, ReviewTypeOK
<1>15. Reviewing'
  BY <1>1, <1>13 DEF ReviewInv, Reviewing
<1>16. PlanSound'
  <2>1. ASSUME NEW i \in DOMAIN Tail(plan) PROVE Planned(Tail(plan)[i], evidence)
    <3>1. i + 1 \in DOMAIN plan /\ Tail(plan)[i] = plan[i + 1]
      BY <1>3, <1>4
    <3>2. QED BY <3>1 DEF ReviewInv, PlanSound
  <2>2. QED BY <1>1, <2>1 DEF PlanSound
<1>17. ReportKept'
  BY <1>1, <1>8, KeptIsTransitive DEF ReviewInv, ReportKept
<1>18. EvidenceHeaded'
  <2>1. \/ HasHeading(revised, "Evidence")
        \/ HasText(report, "Evidence")
        \/ plan[1].type = "evidence" /\ revised = report
    BY <1>1 DEF ReviewInv, EvidenceHeaded
  <2>2. CASE HasHeading(revised, "Evidence")
    <3>1. HasHeading(after, "Evidence")
      BY <1>8, <2>2, HeadingKept
    <3>2. QED BY <1>1, <3>1 DEF EvidenceHeaded
  <2>3. CASE HasText(report, "Evidence")
    BY <1>1, <2>3 DEF EvidenceHeaded
  <2>4. CASE ~HasText(report, "Evidence") /\ plan[1].type = "evidence" /\ revised = report
    <3>1. ~Skips(a) /\ a.type = "evidence"
      BY <1>4, <1>11, <2>4
    <3>2. HasHeading(after, "Evidence")
      BY <1>7, <3>1, TitledIsHeaded
    <3>3. QED BY <1>1, <3>2 DEF EvidenceHeaded
  <2>5. QED BY <2>1, <2>2, <2>3, <2>4
<1>19. UnknownWillGo'
  <2>1. ASSUME NEW id \in References(after) \ ToSet(evidence)
        PROVE  \E i \in DOMAIN Tail(plan) : Rewrites(Tail(plan)[i], id)
    <3>1. id \in References(revised) \ ToSet(evidence)
      BY <1>8, <2>1 DEF Kept
    <3>2. PICK i \in DOMAIN plan : Rewrites(plan[i], id)
      BY <1>1, <3>1 DEF ReviewInv, UnknownWillGo
    <3>3. i # 1
      <4>1. SUFFICES ASSUME i = 1 PROVE FALSE
        OBVIOUS
      <4>2. a.type = "rewrite" /\ a.target[1] = id
        BY <1>4, <3>2, <4>1 DEF Rewrites
      <4>3. ~Skips(a)
        BY <1>11, <4>2
      <4>4. QED BY <1>7, <2>1, <4>2, <4>3
    <3>4. i - 1 \in DOMAIN Tail(plan) /\ (i - 1) + 1 = i
      BY <1>4, <3>2, <3>3
    <3>5. Tail(plan)[i - 1] = plan[i]
      BY <1>3, <1>4, <3>4
    <3>6. QED BY <3>2, <3>4, <3>5
  <2>2. QED BY <1>1, <2>1 DEF UnknownWillGo
<1>20. QED BY <1>14, <1>15, <1>16, <1>17, <1>18, <1>19 DEF ReviewInv

LEMMA FinishKeeps == ReviewInv /\ Finish => ReviewInv'
<1> SUFFICES ASSUME ReviewInv, Finish PROVE ReviewInv'
  OBVIOUS
<1>1. /\ phase = "revising" /\ plan = <<>> /\ phase' = "done"
      /\ final' = Review(revised, evidence)
      /\ UNCHANGED <<report, evidence, skill, lacks, attempts, reviewed, initial,
                     plan, revised, applied, skipped>>
  BY DEF Finish
<1>2. ReviewTyped'
  BY <1>1 DEF ReviewInv, ReviewTyped, ReviewTypeOK
<1>3. Reviewing'
  BY <1>1 DEF ReviewInv, Reviewing, Revised
<1>4. PlanSound' /\ ReportKept'
  BY <1>1 DEF ReviewInv, PlanSound, ReportKept
<1>5. EvidenceHeaded'
  BY <1>1 DEF ReviewInv, EvidenceHeaded
<1>6. UnknownWillGo'
  BY <1>1 DEF ReviewInv, UnknownWillGo
<1>7. QED BY <1>2, <1>3, <1>4, <1>5, <1>6 DEF ReviewInv

LEMMA ReviewStutters == ReviewInv /\ UNCHANGED reviewVars => ReviewInv'
  BY DEF ReviewInv, ReviewTyped, ReviewTypeOK, Reviewing, PlanSound, ReportKept,
         EvidenceHeaded, UnknownWillGo, Revised, reviewVars

LEMMA ReviewInvariant == ReviewSpec => []ReviewInv
<1>1. ReviewInv /\ [ReviewNext]_reviewVars => ReviewInv'
  BY ReviewReportKeeps, BeginKeeps, ReviseKeeps, FinishKeeps, ReviewStutters DEF ReviewNext
<1>2. QED BY <1>1, ReviewStarts, PTL DEF ReviewSpec

-----------------------------------------------------------------------------
(* ClaimsAnswered: how many elements of a sequence pass a test.            *)

\* Nothing flattens to nothing.
LEMMA FlattenNone == FlattenSeq(<<>>) = <<>>
  BY DEF FlattenSeq

LEMMA ConcatAppend ==
    ASSUME NEW S, NEW s \in Seq(S), NEW t \in Seq(S), NEW e \in S
    PROVE  s \o Append(t, e) = Append(s \o t, e)
<1> DEFINE one == <<e>>
<1>1. one \in Seq(S)
  BY OneWord
<1> HIDE DEF one
<1>2. s \o t \in Seq(S)
  BY ConcatProperties
<1>3. Append(t, e) = t \o one /\ Append(s \o t, e) = (s \o t) \o one
  BY <1>2, AppendIsConcat DEF one
<1>4. (s \o t) \o one = s \o (t \o one)
  BY <1>1, ConcatAssociative
<1>5. QED BY <1>3, <1>4

LEMMA AmongAppend ==
    ASSUME NEW S, NEW s \in Seq(S), NEW e \in S, NEW T
    PROVE  Among(Append(s, e), T) = IF e \in T THEN Append(Among(s, T), e) ELSE Among(s, T)
<1> DEFINE part(x) == IF x \in T THEN <<x>> ELSE <<>>
           t == Append(s, e)
           us == [i \in DOMAIN s |-> part(s[i])]
           vs == [i \in DOMAIN t |-> part(t[i])]
           n == Len(s)
           last == part(e)
<1>1. /\ t \in Seq(S) /\ Len(t) = n + 1 /\ \A i \in 1..n : t[i] = s[i]
      /\ t[n + 1] = e
  BY AppendProperties
<1>2. /\ n \in Nat /\ DOMAIN s = 1..n /\ \A i \in 1..n : s[i] \in S
      /\ DOMAIN t = 1..(n + 1)
  BY <1>1, ElementsOf
<1>3. Among(t, T) = FlattenSeq(vs) /\ Among(s, T) = FlattenSeq(us)
  BY DEF Among
<1>4. \A x \in S : part(x) \in Seq(S)
  BY OneWord, EmptySeq
<1>5. us \in Seq(Seq(S)) /\ Len(us) = n /\ \A i \in 1..n : us[i] = part(s[i])
  <2> HIDE DEF part
  <2>1. us \in [1..n -> Seq(S)]
    BY <1>2, <1>4
  <2>2. us \in Seq(Seq(S)) /\ DOMAIN us = 1..n /\ \A i \in 1..n : us[i] = part(s[i])
    BY <1>2, <2>1, SeqDef
  <2> HIDE DEF us
  <2>3. QED BY <1>2, <2>2, LenProperties
<1>6. /\ vs \in Seq(Seq(S)) /\ Len(vs) = n + 1
      /\ \A i \in 1..(n + 1) : vs[i] = part(t[i])
  <2> HIDE DEF part, t
  <2>1. \A i \in 1..(n + 1) : part(t[i]) \in Seq(S)
    BY <1>1, <1>2, <1>4
  <2>2. vs \in [1..(n + 1) -> Seq(S)]
    BY <1>2, <2>1
  <2>3. /\ vs \in Seq(Seq(S)) /\ DOMAIN vs = 1..(n + 1)
        /\ \A i \in 1..(n + 1) : vs[i] = part(t[i])
    BY <1>2, <2>2, SeqDef
  <2> HIDE DEF vs
  <2>4. QED BY <1>2, <2>3, LenProperties
<1>7. last \in Seq(S)
  BY <1>4
<1>8. FlattenSeq(us) \in Seq(S)
  <2> HIDE DEF us
  <2>1. QED BY <1>5, FlattenHas
<1>9. \/ e \in T /\ last = <<e>>
      \/ e \notin T /\ last = <<>>
  OBVIOUS
<1> HIDE DEF part, us, vs, t, last
<1>10. vs = Append(us, last)
  <2>1. /\ Append(us, last) \in Seq(Seq(S)) /\ Len(Append(us, last)) = n + 1
        /\ \A i \in 1..n : Append(us, last)[i] = us[i]
        /\ Append(us, last)[n + 1] = last
    BY <1>5, <1>7, AppendProperties
  <2>2. \A i \in 1..(n + 1) : vs[i] = Append(us, last)[i]
    BY <1>1, <1>2, <1>5, <1>6, <2>1 DEF last
  <2>3. QED BY <1>6, <2>1, <2>2, SeqEqual
<1>11. FlattenSeq(vs) = FlattenSeq(us) \o last
  BY <1>5, <1>7, <1>10, FlattenAppend
<1>12. CASE e \in T
  <2> DEFINE f == FlattenSeq(us)
  <2> HIDE DEF f
  <2>1. Append(f, e) = f \o <<e>>
    BY <1>8, AppendIsConcat DEF f
  <2>2. QED BY <1>3, <1>9, <1>11, <1>12, <2>1 DEF f, t
<1>13. CASE e \notin T
  <2>1. FlattenSeq(us) \o <<>> = FlattenSeq(us)
    BY <1>8, ConcatEmptySeq
  <2>2. QED BY <1>3, <1>9, <1>11, <1>13, <2>1 DEF t
<1>14. QED BY <1>12, <1>13

LEMMA AmongConcat ==
    ASSUME NEW S, NEW s \in Seq(S), NEW t \in Seq(S), NEW T
    PROVE  Len(Among(s \o t, T)) = Len(Among(s, T)) + Len(Among(t, T))
<1> DEFINE P == {q \in Seq(S) : Len(Among(s \o q, T)) = Len(Among(s, T)) + Len(Among(q, T))}
<1>1. Len(Among(s, T)) \in Nat
  BY AmongHas, LenProperties
<1>2. <<>> \in P
  <2> DEFINE none == <<>>
  <2>1. none \in Seq(S) /\ Len(none) = 0 /\ s \o none = s
    BY EmptySeq, ConcatEmptySeq
  <2>2. Among(none, T) = none
    <3>1. [i \in DOMAIN none |-> IF none[i] \in T THEN <<none[i]>> ELSE <<>>] = none
      OBVIOUS
    <3>2. QED BY <3>1, FlattenNone DEF Among
  <2>3. QED BY <1>1, <2>1, <2>2
<1>3. ASSUME NEW q \in Seq(S), NEW e \in S, q \in P PROVE Append(q, e) \in P
  <2> DEFINE a == Among(s \o q, T)
             b == Among(q, T)
  <2>1. s \o q \in Seq(S) /\ Append(q, e) \in Seq(S)
    BY ConcatProperties, AppendProperties
  <2>2. a \in Seq(S) /\ b \in Seq(S)
    BY <2>1, AmongHas
  <2>3. Len(a) = Len(Among(s, T)) + Len(b)
    BY <1>3
  <2>4. Among(s \o Append(q, e), T) = IF e \in T THEN Append(a, e) ELSE a
    <3>1. s \o Append(q, e) = Append(s \o q, e)
      BY ConcatAppend
    <3>2. Among(Append(s \o q, e), T) = IF e \in T THEN Append(a, e) ELSE a
      BY <2>1, AmongAppend
    <3>3. QED BY <3>1, <3>2
  <2>5. Among(Append(q, e), T) = IF e \in T THEN Append(b, e) ELSE b
    BY AmongAppend
  <2> HIDE DEF a, b
  <2>6. Len(Append(a, e)) = Len(a) + 1 /\ Len(Append(b, e)) = Len(b) + 1 /\ Len(b) \in Nat
    BY <2>2, AppendProperties, LenProperties
  <2>7. Len(Among(s \o Append(q, e), T)) = Len(Among(s, T)) + Len(Among(Append(q, e), T))
    BY <1>1, <2>3, <2>4, <2>5, <2>6
  <2>8. QED BY <2>1, <2>7
<1>4. Seq(S) \subseteq P
  <2> HIDE DEF P
  <2>1. QED BY <1>2, <1>3, SeqInductive
<1>5. QED BY <1>4

\* Where each of some sequences has fewer elements of a set, so has the whole.
LEMMA FewerAmong ==
    ASSUME NEW S, NEW T, NEW ss \in Seq(Seq(S)), NEW tt \in Seq(Seq(S)), Len(ss) = Len(tt),
           \A i \in 1..Len(tt) : Len(Among(ss[i], T)) <= Len(Among(tt[i], T))
    PROVE  Len(Among(FlattenSeq(ss), T)) <= Len(Among(FlattenSeq(tt), T))
<1> DEFINE Less(vs, us) == \A i \in 1..Len(us) : Len(Among(vs[i], T)) <= Len(Among(us[i], T))
           P == {us \in Seq(Seq(S)) :
                   \A vs \in Seq(Seq(S)) : Len(vs) = Len(us) /\ Less(vs, us) =>
                       Len(Among(FlattenSeq(vs), T)) <= Len(Among(FlattenSeq(us), T))}
<1>1. \A s \in Seq(S) : Len(Among(s, T)) \in Nat
  BY AmongHas, LenProperties
<1>2. <<>> \in P
  <2> DEFINE none == <<>>
  <2>1. none \in Seq(Seq(S)) /\ none \in Seq(S) /\ Len(none) = 0
    BY EmptySeq
  <2>2. \A vs \in Seq(Seq(S)) : Len(vs) = 0 => vs = none
    BY EmptySeq
  <2>3. Len(Among(FlattenSeq(none), T)) \in Nat
    BY <1>1, <2>1, FlattenNone
  <2> HIDE DEF none
  <2>4. \A vs \in Seq(Seq(S)) : Len(vs) = Len(none) =>
            Len(Among(FlattenSeq(vs), T)) <= Len(Among(FlattenSeq(none), T))
    BY <2>1, <2>2, <2>3
  <2>5. QED BY <2>1, <2>4 DEF none
<1>3. ASSUME NEW us \in Seq(Seq(S)), NEW u \in Seq(S), us \in P PROVE Append(us, u) \in P
  <2> DEFINE uu == Append(us, u)
  <2>1. /\ uu \in Seq(Seq(S)) /\ Len(uu) = Len(us) + 1
        /\ \A i \in 1..Len(us) : uu[i] = us[i]
        /\ uu[Len(us) + 1] = u /\ Len(us) \in Nat
    BY AppendProperties, LenProperties
  <2>2. FlattenSeq(uu) = FlattenSeq(us) \o u
    BY FlattenAppend
  <2> HIDE DEF uu
  <2>3. ASSUME NEW ww \in Seq(Seq(S)), Len(ww) = Len(uu), Less(ww, uu)
        PROVE  Len(Among(FlattenSeq(ww), T)) <= Len(Among(FlattenSeq(uu), T))
    <3>1. ww # <<>>
      BY <2>1, <2>3, EmptySeq
    <3>2. PICK vs \in Seq(Seq(S)), v \in Seq(S) : ww = Append(vs, v)
      BY <3>1, SequenceEmptyOrAppend
    <3>3. /\ Len(ww) = Len(vs) + 1 /\ Len(vs) \in Nat
          /\ \A i \in 1..Len(vs) : ww[i] = vs[i]
          /\ ww[Len(vs) + 1] = v
      BY <3>2, AppendProperties, LenProperties
    <3>4. Len(vs) = Len(us)
      BY <2>1, <2>3, <3>3
    <3>5. Less(vs, us)
      <4>1. TAKE i \in 1..Len(us)
      <4>2. i \in 1..Len(uu) /\ ww[i] = vs[i] /\ uu[i] = us[i]
        BY <2>1, <3>3, <3>4
      <4>3. QED BY <2>3, <4>2
    <3>6. Len(Among(v, T)) <= Len(Among(u, T))
      <4>1. Len(us) + 1 \in 1..Len(uu) /\ ww[Len(us) + 1] = v /\ uu[Len(us) + 1] = u
        BY <2>1, <3>3, <3>4
      <4>2. QED BY <2>3, <4>1
    <3>7. Len(Among(FlattenSeq(vs), T)) <= Len(Among(FlattenSeq(us), T))
      BY <1>3, <3>4, <3>5
    <3>8. FlattenSeq(vs) \in Seq(S) /\ FlattenSeq(us) \in Seq(S)
      BY FlattenHas
    <3>9. FlattenSeq(ww) = FlattenSeq(vs) \o v
      BY <3>2, FlattenAppend
    <3> DEFINE f == FlattenSeq(vs)
               g == FlattenSeq(us)
    <3> HIDE DEF f, g
    <3>10. /\ Len(Among(f \o v, T)) = Len(Among(f, T)) + Len(Among(v, T))
           /\ Len(Among(g \o u, T)) = Len(Among(g, T)) + Len(Among(u, T))
      BY <3>8, AmongConcat DEF f, g
    <3>11. /\ Len(Among(f, T)) \in Nat /\ Len(Among(v, T)) \in Nat
           /\ Len(Among(g, T)) \in Nat /\ Len(Among(u, T)) \in Nat
      BY <1>1, <3>8 DEF f, g
    <3>12. Len(Among(f, T)) <= Len(Among(g, T))
      BY <3>7 DEF f, g
    <3>13. Len(Among(f \o v, T)) <= Len(Among(g \o u, T))
      BY <3>6, <3>10, <3>11, <3>12
    <3>14. QED BY <2>2, <3>9, <3>13 DEF f, g
  <2>4. QED BY <2>1, <2>3 DEF uu
<1>4. Seq(Seq(S)) \subseteq P
  <2> HIDE DEF P
  <2>1. QED BY <1>2, <1>3, SeqInductive
<1>5. tt \in P
  BY <1>4
<1>6. QED BY <1>5

\* Sequences of one element flatten to these elements, in their order.
LEMMA FlattenSingles ==
    ASSUME NEW S, NEW ss \in Seq(Seq(S)), \A i \in 1..Len(ss) : Len(ss[i]) = 1
    PROVE  Len(FlattenSeq(ss)) = Len(ss) /\ \A i \in 1..Len(ss) : FlattenSeq(ss)[i] = ss[i][1]
<1> DEFINE Single(tt) == \A i \in 1..Len(tt) : Len(tt[i]) = 1
           Flat(tt) == /\ Len(FlattenSeq(tt)) = Len(tt)
                       /\ \A i \in 1..Len(tt) : FlattenSeq(tt)[i] = tt[i][1]
           P == {tt \in Seq(Seq(S)) : Single(tt) => Flat(tt)}
<1>1. <<>> \in P
  BY EmptySeq, FlattenNone
<1>2. ASSUME NEW tt \in Seq(Seq(S)), NEW t \in Seq(S), tt \in P PROVE Append(tt, t) \in P
  <2> DEFINE uu == Append(tt, t)
             f == FlattenSeq(tt)
  <2>1. /\ uu \in Seq(Seq(S)) /\ Len(uu) = Len(tt) + 1
        /\ \A i \in 1..Len(tt) : uu[i] = tt[i]
        /\ uu[Len(tt) + 1] = t /\ Len(tt) \in Nat
    BY AppendProperties, LenProperties
  <2>2. FlattenSeq(uu) = f \o t /\ f \in Seq(S)
    BY FlattenAppend, FlattenHas
  <2> HIDE DEF uu, f
  <2>3. SUFFICES ASSUME Single(uu) PROVE Flat(uu)
    BY <2>1 DEF uu
  <2>4. Single(tt) /\ Len(t) = 1
    <3>1. \A i \in 1..Len(tt) : i \in 1..Len(uu)
      BY <2>1
    <3>2. Len(tt) + 1 \in 1..Len(uu)
      BY <2>1
    <3>3. QED BY <2>1, <2>3, <3>1, <3>2
  <2>5. Len(f) = Len(tt) /\ \A i \in 1..Len(tt) : f[i] = tt[i][1]
    BY <1>2, <2>4 DEF f
  <2>6. /\ Len(f \o t) = Len(f) + Len(t)
        /\ \A i \in 1..Len(f) + Len(t) : (f \o t)[i] = IF i <= Len(f) THEN f[i] ELSE t[i - Len(f)]
    BY <2>2, ConcatProperties
  <2>7. Len(FlattenSeq(uu)) = Len(uu)
    BY <2>1, <2>2, <2>4, <2>5, <2>6
  <2>8. ASSUME NEW i \in 1..Len(uu) PROVE FlattenSeq(uu)[i] = uu[i][1]
    <3>1. CASE i <= Len(tt)
      BY <2>1, <2>2, <2>4, <2>5, <2>6, <3>1
    <3>2. CASE ~(i <= Len(tt))
      <4>1. i = Len(tt) + 1 /\ i - Len(f) = 1 /\ i \in 1..Len(f) + Len(t) /\ ~(i <= Len(f))
        BY <2>1, <2>4, <2>5, <3>2
      <4>2. (f \o t)[i] = t[1]
        BY <2>6, <4>1
      <4>3. QED BY <2>1, <2>2, <4>1, <4>2
    <3>3. QED BY <3>1, <3>2
  <2>9. QED BY <2>7, <2>8
<1>3. Seq(Seq(S)) \subseteq P
  <2> HIDE DEF P
  <2>1. QED BY <1>1, <1>2, SeqInductive
<1>4. QED BY <1>3

-----------------------------------------------------------------------------
(* Lines and reports after changes: what grows.                            *)

Cites(ln) == IdsIn(ln.words) # {}

\* A line after a change: its ids are not lost, without an id it is as it was, a
\* title stays, and words without an id that stand in it stood in it before.
LineKept(old, new) ==
    /\ new.kind = old.kind
    /\ Cites(old) => Cites(new)
    /\ ~Cites(new) => new = old
    /\ \A n \in Titles : old.words = <<n>> => new = old
    /\ \A c \in Seq(Words) :
          c # <<>> /\ IdsIn(c) = {} /\ Begins(new.words, c) # {} => Begins(old.words, c) # {}

LEMMA IdsAt ==
    ASSUME NEW w \in Seq(Words)
    PROVE  IdsIn(w) # {} <=> \E x \in 1..Len(w) : w[x] \in Ids
<1>1. DOMAIN w = 1..Len(w)
  BY LenProperties
<1>2. QED BY <1>1 DEF IdsIn, ToSet

LEMMA BeginsAt ==
    ASSUME NEW w \in Seq(Words), NEW c \in Seq(Words), NEW k \in Int
    PROVE  k \in Begins(w, c) <=>
               k \in 0..(Len(w) - Len(c)) /\ \A x \in 1..Len(c) : w[k + x] = c[x]
<1>1. /\ Len(w) \in Nat /\ Len(c) \in Nat /\ DOMAIN w = 1..Len(w)
      /\ \A x \in 1..Len(w) : w[x] \in Words
  BY ElementsOf
<1>2. SUFFICES ASSUME k \in 0..(Len(w) - Len(c))
               PROVE  SubSeq(w, k + 1, k + Len(c)) = c <=> \A x \in 1..Len(c) : w[k + x] = c[x]
  BY DEF Begins
<1> DEFINE s == SubSeq(w, k + 1, k + Len(c))
<1>3. \A x \in (k + 1)..(k + Len(c)) : w[x] \in Words
  BY <1>1, <1>2
<1>4. /\ s \in Seq(Words)
      /\ Len(s) = (IF k + 1 <= k + Len(c) THEN (k + Len(c)) - (k + 1) + 1 ELSE 0)
      /\ \A x \in 1..((k + Len(c)) - (k + 1) + 1) : s[x] = w[(k + 1) + x - 1]
  BY <1>1, <1>3, SubSeqProperties
<1> HIDE DEF s
<1>5. Len(s) = Len(c)
  BY <1>1, <1>4
<1>6. \A x \in 1..Len(c) : s[x] = w[k + x]
  <2>1. TAKE x \in 1..Len(c)
  <2>2. x \in 1..((k + Len(c)) - (k + 1) + 1) /\ (k + 1) + x - 1 = k + x
    BY <1>1
  <2>3. QED BY <1>4, <2>2
<1>7. s = c <=> \A x \in 1..Len(c) : s[x] = c[x]
  BY <1>4, <1>5, SeqEqual
<1>8. QED BY <1>6, <1>7 DEF s

LEMMA LineKeptItself ==
    ASSUME NEW ln
    PROVE  LineKept(ln, ln)
  BY DEF LineKept

LEMMA LineKeptOn ==
    ASSUME NEW a, NEW b, NEW d, LineKept(a, b), LineKept(b, d)
    PROVE  LineKept(a, d)
  BY DEF LineKept

\* Two lines of the same kind and the same words are the same.
LEMMA SameLine ==
    ASSUME NEW a \in Lines, NEW b \in Lines, a.kind = b.kind, a.words = b.words
    PROVE  a = b
  BY DEF Lines

\* A line whose words were given an id behind a place.
LEMMA LineGiven ==
    ASSUME NEW old \in Lines, NEW new \in Lines, new.kind = old.kind,
           NEW split \in 1..Len(old.words), NEW e \in Ids,
           Len(new.words) = Len(old.words) + 1,
           \A x \in 1..split : new.words[x] = old.words[x],
           new.words[split + 1] = e,
           \A x \in (split + 2)..Len(new.words) : new.words[x] = old.words[x - 1],
           \A n \in Titles : old.words # <<n>>
    PROVE  LineKept(old, new) /\ Cites(new)
<1> DEFINE w == old.words
           v == new.words
<1>1. w \in Seq(Words) /\ v \in Seq(Words) /\ Len(w) \in Nat
  BY LineWords, LenProperties
<1>2. Cites(new)
  <2>1. split + 1 \in 1..Len(v)
    BY <1>1
  <2>2. QED BY <1>1, <2>1, IdsAt DEF Cites
<1>3. ASSUME NEW c \in Seq(Words), c # <<>>, IdsIn(c) = {}, NEW k \in Begins(v, c)
      PROVE  Begins(w, c) # {}
  <2>1. k \in Int /\ k \in 0..(Len(v) - Len(c))
    BY <1>3 DEF Begins
  <2>2. \A x \in 1..Len(c) : v[k + x] = c[x]
    BY <1>1, <2>1, BeginsAt
  <2>3. Len(c) \in Nat
    BY LenProperties
  <2>4. \A x \in 1..Len(c) : c[x] \notin Ids
    BY <1>3, IdsAt
  <2>5. \A x \in 1..Len(c) : k + x # split + 1
    BY <2>2, <2>4
  <2>6. CASE k + Len(c) <= split
    <3>1. k \in 0..(Len(w) - Len(c))
      BY <1>1, <2>1, <2>3, <2>6
    <3>2. \A x \in 1..Len(c) : k + x \in 1..split
      BY <2>1, <2>3, <2>6
    <3>3. \A x \in 1..Len(c) : w[k + x] = c[x]
      BY <2>2, <3>2
    <3>4. QED BY <1>1, <2>1, <3>1, <3>3, BeginsAt
  <2>7. CASE ~(k + Len(c) <= split)
    <3>1. k >= split + 1
      <4>1. SUFFICES ASSUME k <= split PROVE FALSE
        BY <2>1
      <4>2. split + 1 - k \in 1..Len(c)
        BY <2>1, <2>3, <2>7, <4>1
      <4>3. k + (split + 1 - k) = split + 1
        BY <2>1
      <4>4. QED BY <2>5, <4>2, <4>3
    <3>2. k - 1 \in 0..(Len(w) - Len(c)) /\ k - 1 \in Int
      BY <1>1, <2>1, <2>3, <3>1
    <3>3. \A x \in 1..Len(c) : k + x \in (split + 2)..Len(v) /\ (k + x) - 1 = (k - 1) + x
      BY <1>1, <2>1, <2>3, <3>1
    <3>4. \A x \in 1..Len(c) : w[(k - 1) + x] = c[x]
      BY <2>2, <3>3
    <3>5. k - 1 \in Begins(w, c)
      BY <1>1, <3>2, <3>4, BeginsAt
    <3>6. QED BY <3>5
  <2>8. QED BY <2>6, <2>7
<1>4. QED BY <1>2, <1>3 DEF LineKept

\* A line whose words were replaced one by one: an id by an id.
LEMMA LineReplaced ==
    ASSUME NEW old \in Lines, NEW new \in Lines, new.kind = old.kind,
           NEW id \in Ids, NEW e \in Ids,
           Len(new.words) = Len(old.words),
           \A x \in 1..Len(old.words) :
               new.words[x] = IF old.words[x] = id THEN e ELSE old.words[x]
    PROVE  LineKept(old, new)
<1> DEFINE w == old.words
           v == new.words
<1>1. w \in Seq(Words) /\ v \in Seq(Words) /\ Len(w) \in Nat
  BY LineWords, LenProperties
<1>2. Cites(old) => Cites(new)
  BY <1>1, IdsAt DEF Cites
<1>3. IdsIn(w) = {} => new = old
  <2>1. SUFFICES ASSUME IdsIn(w) = {} PROVE new = old
    OBVIOUS
  <2>2. \A x \in 1..Len(w) : w[x] \notin Ids
    BY <1>1, <2>1, IdsAt
  <2>3. \A x \in 1..Len(w) : v[x] = w[x]
    BY <2>2
  <2>4. v = w
    BY <1>1, <2>3, SeqEqual
  <2>5. QED BY <2>4, SameLine
<1>4. ~Cites(new) => new = old
  BY <1>2, <1>3 DEF Cites
<1>5. ASSUME NEW n \in Titles, w = <<n>> PROVE new = old
  <2>1. n \notin Ids
    BY Typing
  <2>2. \A x \in 1..Len(w) : w[x] \notin Ids
    BY <1>5, <2>1
  <2>3. QED BY <1>1, <1>3, <2>2, IdsAt
<1>6. ASSUME NEW c \in Seq(Words), c # <<>>, IdsIn(c) = {}, NEW k \in Begins(v, c)
      PROVE  Begins(w, c) # {}
  <2>1. k \in Int /\ k \in 0..(Len(w) - Len(c))
    BY <1>6 DEF Begins
  <2>2. \A x \in 1..Len(c) : v[k + x] = c[x]
    BY <1>1, <2>1, BeginsAt
  <2>3. Len(c) \in Nat
    BY LenProperties
  <2>4. \A x \in 1..Len(c) : c[x] \notin Ids
    BY <1>6, IdsAt
  <2>5. \A x \in 1..Len(c) : k + x \in 1..Len(w)
    BY <1>1, <2>1, <2>3
  <2>6. \A x \in 1..Len(c) : w[k + x] = c[x]
    BY <2>2, <2>4, <2>5
  <2>7. QED BY <1>1, <2>1, <2>6, BeginsAt
<1>7. QED BY <1>2, <1>4, <1>5, <1>6 DEF LineKept

ResultHeading == Line("heading", <<"Result">>)

\* A report after changes: its lines are in their places, what comes behind them
\* begins with a heading and has no Result of its own.
Grown(old, new) ==
    /\ Len(old) <= Len(new)
    /\ \A j \in 1..Len(old) : LineKept(old[j], new[j])
    /\ Len(old) < Len(new) => new[Len(old) + 1].kind = "heading"
    /\ \A j \in 1..Len(new) : j > Len(old) => new[j] # ResultHeading

LEMMA ResultHeadingIs ==
    /\ ResultHeading \in Lines /\ ResultHeading.kind = "heading"
    /\ ResultHeading.words = <<"Result">> /\ "Result" \in Titles
    /\ ~Cites(ResultHeading)
<1> DEFINE n == "Result"
<1>1. n \in Titles
  BY DEF Titles, Spellings
<1> HIDE DEF n
<1>2. /\ Line("heading", <<n>>) \in Lines /\ Line("heading", <<n>>).words = <<n>>
      /\ \A e \in Ids : ~Has(<<n>>, e)
  BY <1>1, Headings
<1>3. Line("heading", <<n>>).kind = "heading"
  BY DEF Line
<1>4. IdsIn(<<n>>) = {}
  BY <1>2 DEF IdsIn, ToSet, Has
<1>5. QED BY <1>1, <1>2, <1>3, <1>4 DEF ResultHeading, Cites, n

LEMMA KeptTheHeading ==
    ASSUME NEW a, NEW b, LineKept(a, b)
    PROVE  a = ResultHeading <=> b = ResultHeading
  BY ResultHeadingIs DEF LineKept

LEMMA GrownItself ==
    ASSUME NEW r \in Seq(Lines)
    PROVE  Grown(r, r)
<1>1. Len(r) \in Nat
  BY LenProperties
<1>2. QED BY <1>1, LineKeptItself DEF Grown

LEMMA GrownOn ==
    ASSUME NEW r \in Seq(Lines), NEW s \in Seq(Lines), NEW t \in Seq(Lines),
           Grown(r, s), Grown(s, t)
    PROVE  Grown(r, t)
<1>1. /\ Len(r) \in Nat /\ Len(s) \in Nat /\ Len(t) \in Nat
      /\ Len(r) <= Len(s) /\ Len(s) <= Len(t)
  BY LenProperties DEF Grown
<1>2. \A j \in 1..Len(r) : LineKept(r[j], t[j])
  <2>1. TAKE j \in 1..Len(r)
  <2>2. j \in 1..Len(s)
    BY <1>1
  <2>3. LineKept(r[j], s[j]) /\ LineKept(s[j], t[j])
    BY <2>2 DEF Grown
  <2>4. QED BY <2>3, LineKeptOn
<1>3. ASSUME Len(r) < Len(t) PROVE t[Len(r) + 1].kind = "heading"
  <2>1. CASE Len(r) < Len(s)
    <3>1. s[Len(r) + 1].kind = "heading" /\ Len(r) + 1 \in 1..Len(s)
      BY <1>1, <2>1 DEF Grown
    <3>2. LineKept(s[Len(r) + 1], t[Len(r) + 1])
      BY <3>1 DEF Grown
    <3>3. QED BY <3>1, <3>2 DEF LineKept
  <2>2. CASE ~(Len(r) < Len(s))
    <3>1. Len(s) = Len(r)
      BY <1>1, <2>2
    <3>2. QED BY <1>3, <3>1 DEF Grown
  <2>3. QED BY <2>1, <2>2
<1>4. ASSUME NEW j \in 1..Len(t), j > Len(r) PROVE t[j] # ResultHeading
  <2>1. CASE j > Len(s)
    BY <2>1 DEF Grown
  <2>2. CASE ~(j > Len(s))
    <3>1. j \in 1..Len(s)
      BY <1>1, <2>2
    <3>2. s[j] # ResultHeading /\ LineKept(s[j], t[j])
      BY <1>4, <3>1 DEF Grown
    <3>3. QED BY <3>2, KeptTheHeading
  <2>3. QED BY <2>1, <2>2
<1>5. Len(r) <= Len(t)
  BY <1>1
<1>6. QED BY <1>2, <1>3, <1>4, <1>5 DEF Grown

\* A report that grows behind some lines.
LEMMA GrownUnder ==
    ASSUME NEW r \in Seq(Lines), NEW s \in Seq(Lines), NEW top \in Seq(Lines), Grown(r, s)
    PROVE  Grown(top \o r, top \o s)
<1> DEFINE n == Len(top)
           a == top \o r
           b == top \o s
<1>1. /\ n \in Nat /\ Len(r) \in Nat /\ Len(s) \in Nat /\ Len(r) <= Len(s)
      /\ Len(a) = n + Len(r) /\ Len(b) = n + Len(s)
      /\ \A j \in 1..(n + Len(r)) : a[j] = IF j <= n THEN top[j] ELSE r[j - n]
      /\ \A j \in 1..(n + Len(s)) : b[j] = IF j <= n THEN top[j] ELSE s[j - n]
  BY LenProperties, ConcatProperties DEF Grown
<1> HIDE DEF a, b
<1>2. ASSUME NEW j \in 1..Len(a) PROVE LineKept(a[j], b[j])
  <2>1. CASE j <= n
    BY <1>1, <2>1, LineKeptItself
  <2>2. CASE ~(j <= n)
    <3>1. j - n \in 1..Len(r) /\ j \in 1..(n + Len(r)) /\ j \in 1..(n + Len(s))
      BY <1>1, <2>2
    <3>2. a[j] = r[j - n] /\ b[j] = s[j - n]
      BY <1>1, <2>2, <3>1
    <3>3. QED BY <3>1, <3>2 DEF Grown
  <2>3. QED BY <2>1, <2>2
<1>3. ASSUME NEW j \in 1..Len(b), j > Len(a)
      PROVE  /\ b[j] # ResultHeading
             /\ j = Len(a) + 1 => b[j].kind = "heading"
  <2>1. /\ j - n \in 1..Len(s) /\ j - n > Len(r) /\ j \in 1..(n + Len(s)) /\ ~(j <= n)
        /\ (j = Len(a) + 1 => j - n = Len(r) + 1)
    BY <1>1, <1>3
  <2>2. b[j] = s[j - n]
    BY <1>1, <2>1
  <2>3. s[j - n] # ResultHeading
    BY <2>1 DEF Grown
  <2>4. j - n = Len(r) + 1 => s[j - n].kind = "heading"
    BY <1>1, <2>1 DEF Grown
  <2>5. QED BY <2>1, <2>2, <2>3, <2>4
<1>4. Len(a) < Len(b) => Len(a) + 1 \in 1..Len(b) /\ Len(a) + 1 > Len(a)
  BY <1>1
<1>5. Len(a) < Len(b) => b[Len(a) + 1].kind = "heading"
  BY <1>3, <1>4
<1>6. Len(a) <= Len(b)
  BY <1>1
<1>7. QED BY <1>2, <1>3, <1>5, <1>6 DEF Grown, a, b

-----------------------------------------------------------------------------

LEMMA EvidenceGrows ==
    ASSUME NEW r \in Seq(Lines), NEW ev \in Seq(Ids), ev # <<>>
    PROVE  /\ WithEvidence(r, ev) \in Seq(Lines)
           /\ Grown(r, WithEvidence(r, ev))
<1> DEFINE h == Line("heading", <<"Evidence">>)
           item(i) == Line("bullet", <<ev[i], "preview">>)
           all == [i \in DOMAIN ev |-> item(i)]
           front == r \o <<h>>
           after == WithEvidence(r, ev)
<1>1. after \in Seq(Lines)
  BY EvidenceAdded DEF Kept
<1>2. h.kind = "heading" /\ h # ResultHeading /\ h \in Lines
  <2>1. "Evidence" \in Titles
    BY DEF Titles, Spellings
  <2>2. h \in Lines /\ h.words = <<"Evidence">>
    BY <2>1, Headings
  <2>3. h.kind = "heading"
    BY DEF Line
  <2>4. ResultHeading.words = <<"Result">>
    BY ResultHeadingIs
  <2>5. <<"Evidence">> # <<"Result">>
    OBVIOUS
  <2>6. QED BY <2>2, <2>3, <2>4, <2>5
<1>3. Len(ev) \in Nat /\ DOMAIN ev = 1..Len(ev) /\ \A i \in DOMAIN ev : ev[i] \in Words
  BY ElementsOf, Typing
<1>4. /\ all \in Seq(Lines) /\ Len(all) = Len(ev)
      /\ \A i \in 1..Len(all) : all[i] # ResultHeading
  <2> DEFINE preview == "preview"
  <2>1. preview \in Words
    BY Typing DEF Stock
  <2> HIDE DEF preview
  <2>2. "bullet" \in Kinds
    BY DEF Kinds
  <2>3. \A i \in DOMAIN ev : Line("bullet", <<ev[i], preview>>) \in Lines
                             /\ Line("bullet", <<ev[i], preview>>).kind = "bullet"
    BY <1>3, <2>1, <2>2, TwoWords, LineTyped
  <2>4. \A i \in DOMAIN ev : item(i) \in Lines /\ item(i).kind = "bullet"
    BY <2>3 DEF preview
  <2>5. \A i \in DOMAIN ev : item(i) # ResultHeading
    BY <2>4, ResultHeadingIs
  <2> HIDE DEF item
  <2>6. all \in Seq(Lines) /\ DOMAIN all = 1..Len(ev) /\ \A i \in 1..Len(ev) : all[i] = item(i)
    BY <1>3, <2>4, SeqDef
  <2>7. Len(all) = Len(ev)
    <3> HIDE DEF all
    <3>1. QED BY <1>3, <2>6, LenProperties
  <2>8. QED BY <1>3, <2>5, <2>6, <2>7
<1>5. after = front \o all
  BY DEF WithEvidence
<1> HIDE DEF all, h, after
<1>6. /\ front \in Seq(Lines) /\ Len(front) = Len(r) + 1 /\ Len(r) \in Nat
      /\ \A j \in 1..Len(r) : front[j] = r[j]
      /\ front[Len(r) + 1] = h
  <2>1. front = Append(r, h)
    BY <1>2, AppendIsConcat
  <2>2. QED BY <1>2, <2>1, AppendProperties, LenProperties
<1> HIDE DEF front
<1>7. /\ Len(after) = Len(front) + Len(all) /\ Len(all) \in Nat
      /\ \A j \in 1..(Len(front) + Len(all)) :
             after[j] = IF j <= Len(front) THEN front[j] ELSE all[j - Len(front)]
  <2>1. front \in Seq(Lines) /\ all \in Seq(Lines)
    BY <1>4, <1>6
  <2>2. Len(all) \in Nat
    BY <2>1, LenProperties
  <2>3. /\ Len(front \o all) = Len(front) + Len(all)
        /\ \A j \in 1..(Len(front) + Len(all)) :
               (front \o all)[j] = IF j <= Len(front) THEN front[j] ELSE all[j - Len(front)]
    BY <2>1, ConcatProperties
  <2>4. QED BY <1>5, <2>2, <2>3
<1>8. \A j \in 1..Len(r) : LineKept(r[j], after[j])
  <2>1. TAKE j \in 1..Len(r)
  <2>2. after[j] = r[j]
    BY <1>6, <1>7
  <2>3. QED BY <2>2, LineKeptItself
<1>9. after[Len(r) + 1] = h
  BY <1>6, <1>7
<1>10. ASSUME NEW j \in 1..Len(after), j > Len(r) PROVE after[j] # ResultHeading
  <2>1. CASE j = Len(r) + 1
    BY <1>2, <1>9, <2>1
  <2>2. CASE j # Len(r) + 1
    <3>1. j - Len(front) \in 1..Len(all) /\ ~(j <= Len(front))
      BY <1>6, <1>7, <1>10, <2>2
    <3>2. QED BY <1>4, <1>7, <3>1
  <2>3. QED BY <2>1, <2>2
<1>11. Len(r) <= Len(after)
  BY <1>6, <1>7
<1>12. QED BY <1>1, <1>2, <1>8, <1>9, <1>10, <1>11 DEF Grown, after

\* A claim is given its reference behind place k of line i.
CitedAt(r, c, by, i, k) ==
    [r EXCEPT ![i].words = (SubSeq(@, 1, k + Len(c)) \o by) \o SubSeq(@, k + Len(c) + 1, Len(@))]

\* Where a claim is cited: in the first line where it stands.
LEMMA CitedWhere ==
    ASSUME NEW r \in Seq(Lines), NEW c \in Seq(Words), NEW by
    PROVE  \/ /\ \A j \in 1..Len(r) : Begins(r[j].words, c) = {}
              /\ Cited(r, c, by) = r
           \/ \E i \in 1..Len(r) : \E k \in Begins(r[i].words, c) :
                 /\ \A j \in 1..Len(r) : Begins(r[j].words, c) # {} => i <= j
                 /\ Cited(r, c, by) = CitedAt(r, c, by, i, k)
<1> DEFINE I == {i \in 1..Len(r) : Begins(r[i].words, c) # {}}
           i == IF I # {} THEN Min(I) ELSE 0
           ks == IF i = 0 THEN {} ELSE Begins(r[i].words, c)
           k == CHOOSE k \in ks : \A j \in ks : k <= j
<1>1. Cited(r, c, by) =
        IF i = 0 THEN r ELSE CitedAt(r, c, by, i, k)
  BY DEF Cited, SelectInSeq, CitedAt
<1>2. Len(r) \in Nat
  BY LenProperties
<1>3. CASE I = {}
  BY <1>1, <1>3
<1>4. CASE I # {}
  <2>1. \E x \in I : \A y \in I : x <= y
    <3>1. I \subseteq Nat
      BY <1>2
    <3> HIDE DEF I
    <3>2. QED BY <1>4, <3>1, FirstOne
  <2>2. i \in I /\ \A y \in I : i <= y
    BY <1>4, <2>1 DEF Min
  <2> HIDE DEF i
  <2>3. i # 0 /\ ks = Begins(r[i].words, c) /\ ks # {} /\ ks \subseteq Nat
    <3>1. i \in 1..Len(r) /\ Begins(r[i].words, c) # {}
      BY <2>2
    <3>2. i # 0 /\ ks = Begins(r[i].words, c)
      BY <1>2, <3>1
    <3>3. Begins(r[i].words, c) \subseteq Nat
      <4>1. Begins(r[i].words, c) \subseteq 0..(Len(r[i].words) - Len(c))
        BY DEF Begins
      <4>2. \A m, x : x \in 0..m => x \in Nat
        OBVIOUS
      <4>3. QED BY <4>1, <4>2
    <3>4. QED BY <3>1, <3>2, <3>3
  <2> HIDE DEF ks
  <2>4. \E x \in ks : \A y \in ks : x <= y
    BY <2>3, FirstOne
  <2>5. k \in ks
    BY <2>4
  <2> HIDE DEF k
  <2>6. QED BY <1>1, <2>2, <2>3, <2>5
<1>5. QED BY <1>3, <1>4

LEMMA WordInserted ==
    ASSUME NEW w \in Seq(Words), NEW split \in 1..Len(w), NEW e \in Words
    PROVE  LET v == (SubSeq(w, 1, split) \o <<e>>) \o SubSeq(w, split + 1, Len(w))
           IN  /\ v \in Seq(Words) /\ Len(v) = Len(w) + 1
               /\ \A x \in 1..split : v[x] = w[x]
               /\ v[split + 1] = e
               /\ \A x \in (split + 2)..Len(v) : v[x] = w[x - 1]
<1> DEFINE a == SubSeq(w, 1, split)
           b == SubSeq(w, split + 1, Len(w))
           f == a \o <<e>>
           v == f \o b
<1>1. /\ Len(w) \in Nat /\ split \in Nat /\ split >= 1 /\ split <= Len(w)
      /\ \A x \in 1..Len(w) : w[x] \in Words
  BY ElementsOf
<1>2. a \in Seq(Words) /\ Len(a) = split /\ \A x \in 1..split : a[x] = w[x]
  <2>1. \A x \in 1..split : w[x] \in Words
    BY <1>1
  <2>2. /\ a \in Seq(Words) /\ Len(a) = (IF 1 <= split THEN split - 1 + 1 ELSE 0)
        /\ \A x \in 1..(split - 1 + 1) : a[x] = w[1 + x - 1]
    BY <1>1, <2>1, SubSeqProperties
  <2> HIDE DEF a
  <2>3. \A x \in 1..split : x \in 1..(split - 1 + 1) /\ 1 + x - 1 = x
    BY <1>1
  <2>4. \A x \in 1..split : a[x] = w[x]
    BY <2>2, <2>3
  <2>5. QED BY <1>1, <2>2, <2>4
<1>3. /\ b \in Seq(Words) /\ Len(b) = Len(w) - split
      /\ \A x \in 1..(Len(w) - split) : b[x] = w[split + x]
  <2>1. \A x \in (split + 1)..Len(w) : w[x] \in Words
    BY <1>1
  <2>2. /\ b \in Seq(Words)
        /\ Len(b) = (IF split + 1 <= Len(w) THEN Len(w) - (split + 1) + 1 ELSE 0)
        /\ \A x \in 1..(Len(w) - (split + 1) + 1) : b[x] = w[(split + 1) + x - 1]
    BY <1>1, <2>1, SubSeqProperties
  <2> HIDE DEF b
  <2>3. \A x \in 1..(Len(w) - split) :
            x \in 1..(Len(w) - (split + 1) + 1) /\ (split + 1) + x - 1 = split + x
    BY <1>1
  <2>4. \A x \in 1..(Len(w) - split) : b[x] = w[split + x]
    BY <2>2, <2>3
  <2>5. QED BY <1>1, <2>2, <2>4
<1> HIDE DEF a, b
<1>4. /\ f \in Seq(Words) /\ Len(f) = split + 1
      /\ \A x \in 1..split : f[x] = a[x]
      /\ f[split + 1] = e
  <2>1. f = Append(a, e)
    BY <1>2, AppendIsConcat
  <2>2. QED BY <1>2, <2>1, AppendProperties
<1> HIDE DEF f
<1>5. /\ v \in Seq(Words) /\ Len(v) = Len(f) + Len(b)
      /\ \A x \in 1..(Len(f) + Len(b)) : v[x] = IF x <= Len(f) THEN f[x] ELSE b[x - Len(f)]
  BY <1>3, <1>4, ConcatProperties
<1> HIDE DEF v
<1>6. Len(v) = Len(w) + 1
  BY <1>1, <1>3, <1>4, <1>5
<1>7. \A x \in 1..split : v[x] = w[x]
  <2>1. TAKE x \in 1..split
  <2>2. x \in 1..(Len(f) + Len(b)) /\ x <= Len(f)
    BY <1>1, <1>3, <1>4
  <2>3. v[x] = f[x]
    BY <1>5, <2>2
  <2>4. QED BY <1>2, <1>4, <2>3
<1>8. v[split + 1] = e
  <2>1. split + 1 \in 1..(Len(f) + Len(b)) /\ split + 1 <= Len(f)
    BY <1>1, <1>3, <1>4
  <2>2. QED BY <1>4, <1>5, <2>1
<1>9. ASSUME NEW x \in (split + 2)..Len(v) PROVE v[x] = w[x - 1]
  <2>1. /\ x \in 1..(Len(f) + Len(b)) /\ ~(x <= Len(f))
        /\ x - Len(f) \in 1..(Len(w) - split) /\ split + (x - Len(f)) = x - 1
    BY <1>1, <1>3, <1>4, <1>6
  <2>2. v[x] = b[x - Len(f)]
    BY <1>5, <2>1
  <2>3. QED BY <1>3, <2>1, <2>2
<1>10. QED BY <1>5, <1>6, <1>7, <1>8, <1>9 DEF v, f, a, b

\* A report whose lines are kept, one by one.
LEMMA GrownByLines ==
    ASSUME NEW r \in Seq(Lines), NEW after, after = [j \in 1..Len(r) |-> after[j]],
           \A j \in 1..Len(r) : after[j] \in Lines /\ LineKept(r[j], after[j])
    PROVE  after \in Seq(Lines) /\ Len(after) = Len(r) /\ Grown(r, after)
<1>1. Len(r) \in Nat
  BY LenProperties
<1>2. after \in [1..Len(r) -> Lines]
  OBVIOUS
<1>3. after \in Seq(Lines) /\ DOMAIN after = 1..Len(r)
  BY <1>1, <1>2, SeqDef
<1>4. Len(after) = Len(r)
  BY <1>1, <1>3, LenProperties
<1>5. QED BY <1>1, <1>3, <1>4 DEF Grown

\* A citation: the first line with the claim has the id now.
LEMMA CitedGrows ==
    ASSUME NEW r \in Seq(Lines), NEW c \in Seq(Words), c # <<>>, ~Supported(c), NEW e \in Ids
    PROVE  LET after == Cited(r, c, <<e>>)
           IN  /\ after \in Seq(Lines) /\ Len(after) = Len(r) /\ Grown(r, after)
               /\ \A j \in 1..Len(r) :
                     /\ Begins(r[j].words, c) # {}
                     /\ \A i \in 1..Len(r) : Begins(r[i].words, c) # {} => j <= i
                     => Cites(after[j])
<1> DEFINE by == <<e>>
           after == Cited(r, c, by)
<1>1. /\ Len(r) \in Nat /\ DOMAIN r = 1..Len(r) /\ \A j \in 1..Len(r) : r[j] \in Lines
      /\ e \in Words /\ Len(c) \in Nat /\ Len(c) # 0
  BY ElementsOf, Typing, LenProperties, EmptySeq
<1>2. CASE /\ \A j \in 1..Len(r) : Begins(r[j].words, c) = {}
           /\ after = r
  BY <1>2, GrownItself
<1>3. ASSUME NEW i \in 1..Len(r), NEW k \in Begins(r[i].words, c),
             \A j \in 1..Len(r) : Begins(r[j].words, c) # {} => i <= j,
             after = CitedAt(r, c, by, i, k)
      PROVE  /\ after \in Seq(Lines) /\ Len(after) = Len(r) /\ Grown(r, after)
             /\ Cites(after[i])
  <2> DEFINE w == r[i].words
             split == k + Len(c)
             v == (SubSeq(w, 1, split) \o by) \o SubSeq(w, split + 1, Len(w))
  <2>1. w \in Seq(Words) /\ Len(w) \in Nat
    BY <1>1, LineWords, LenProperties
  <2>2. k \in 0..(Len(w) - Len(c))
    BY <1>3 DEF Begins
  <2> HIDE DEF w
  <2>3. split \in 1..Len(w)
    BY <1>1, <2>1, <2>2
  <2>4. after = [r EXCEPT ![i] = [r[i] EXCEPT !.words = v]]
    BY <1>3 DEF w, CitedAt
  <2> HIDE DEF split, after
  <2>5. /\ v \in Seq(Words) /\ Len(v) = Len(w) + 1
        /\ \A x \in 1..split : v[x] = w[x]
        /\ v[split + 1] = e
        /\ \A x \in (split + 2)..Len(v) : v[x] = w[x - 1]
    BY <1>1, <2>1, <2>3, WordInserted DEF by
  <2> HIDE DEF v
  <2>6. \A n \in Titles : w # <<n>>
    <3>1. ASSUME NEW n \in Titles, w = <<n>> PROVE FALSE
      BY <1>3, <3>1, TitlesAreNoClaims DEF w
    <3>2. QED BY <3>1
  <2> DEFINE new == [r[i] EXCEPT !.words = v]
  <2>7. new \in Lines /\ new.words = v /\ new.kind = r[i].kind
    BY <1>1, <2>5 DEF Lines
  <2> HIDE DEF new
  <2>8. LineKept(r[i], new) /\ Cites(new)
    <3>1. /\ r[i].words = w /\ r[i] \in Lines
      BY <1>1 DEF w
    <3>2. QED BY <2>3, <2>5, <2>6, <2>7, <3>1, LineGiven
  <2>9. after = [j \in 1..Len(r) |-> IF j = i THEN new ELSE r[j]]
    BY <1>1, <2>4 DEF new
  <2>10. \A j \in 1..Len(r) : after[j] \in Lines /\ LineKept(r[j], after[j])
    BY <1>1, <2>7, <2>8, <2>9, LineKeptItself
  <2>11. after = [j \in 1..Len(r) |-> after[j]] /\ after[i] = new
    BY <2>9
  <2>12. QED BY <2>8, <2>10, <2>11, GrownByLines
<1> HIDE DEF by
<1>4. \/ /\ \A j \in 1..Len(r) : Begins(r[j].words, c) = {}
         /\ after = r
      \/ \E i \in 1..Len(r) : \E k \in Begins(r[i].words, c) :
            /\ \A j \in 1..Len(r) : Begins(r[j].words, c) # {} => i <= j
            /\ after = CitedAt(r, c, by, i, k)
  BY CitedWhere
<1> HIDE DEF after
<1>5. CASE \E i \in 1..Len(r) : \E k \in Begins(r[i].words, c) :
            /\ \A j \in 1..Len(r) : Begins(r[j].words, c) # {} => i <= j
            /\ after = CitedAt(r, c, by, i, k)
  <2>1. PICK i \in 1..Len(r) : \E k \in Begins(r[i].words, c) :
            /\ \A j \in 1..Len(r) : Begins(r[j].words, c) # {} => i <= j
            /\ after = CitedAt(r, c, by, i, k)
    BY <1>5
  <2>2. PICK k \in Begins(r[i].words, c) :
            /\ \A j \in 1..Len(r) : Begins(r[j].words, c) # {} => i <= j
            /\ after = CitedAt(r, c, by, i, k)
    BY <2>1
  <2>3. /\ after \in Seq(Lines) /\ Len(after) = Len(r) /\ Grown(r, after)
        /\ Cites(after[i]) /\ Begins(r[i].words, c) # {}
    BY <1>3, <2>2
  <2>4. ASSUME NEW j \in 1..Len(r), Begins(r[j].words, c) # {},
               \A m \in 1..Len(r) : Begins(r[m].words, c) # {} => j <= m
        PROVE  Cites(after[j])
    <3>1. i <= j /\ j <= i
      BY <2>2, <2>3, <2>4
    <3>2. i = j
      BY <3>1
    <3>3. QED BY <2>3, <3>2
  <2>5. QED BY <2>3, <2>4 DEF after, by
<1>6. QED BY <1>2, <1>4, <1>5 DEF after, by

\* An id replaced by one: every line keeps its place and its words theirs.
LEMMA RewrittenGrows ==
    ASSUME NEW r \in Seq(Lines), NEW id \in Ids, NEW e \in Ids
    PROVE  /\ Rewritten(r, id, <<e>>) \in Seq(Lines)
           /\ Len(Rewritten(r, id, <<e>>)) = Len(r) /\ Grown(r, Rewritten(r, id, <<e>>))
<1> DEFINE parts(w) == [j \in DOMAIN w |-> IF w[j] = id THEN <<e>> ELSE <<w[j]>>]
           new(w) == FlattenSeq(parts(w))
           after == Rewritten(r, id, <<e>>)
<1>1. /\ Len(r) \in Nat /\ DOMAIN r = 1..Len(r) /\ \A j \in 1..Len(r) : r[j] \in Lines
      /\ e \in Words
  BY ElementsOf, Typing
<1>2. ASSUME NEW w \in Seq(Words)
      PROVE  /\ new(w) \in Seq(Words) /\ Len(new(w)) = Len(w)
             /\ \A x \in 1..Len(w) : new(w)[x] = IF w[x] = id THEN e ELSE w[x]
  <2> DEFINE ss == parts(w)
             word(x) == IF w[x] = id THEN e ELSE w[x]
  <2>1. Len(w) \in Nat /\ DOMAIN w = 1..Len(w) /\ \A x \in 1..Len(w) : w[x] \in Words
    BY ElementsOf
  <2>2. \A x \in 1..Len(w) : word(x) \in Words /\ ss[x] = <<word(x)>>
    BY <1>1, <2>1
  <2> HIDE DEF word
  <2>3. \A x \in 1..Len(w) : ss[x] \in Seq(Words) /\ Len(ss[x]) = 1 /\ ss[x][1] = word(x)
    <3>1. SUFFICES ASSUME NEW x \in 1..Len(w)
                   PROVE  ss[x] \in Seq(Words) /\ Len(ss[x]) = 1 /\ ss[x][1] = word(x)
      OBVIOUS
    <3>2. word(x) \in Words /\ ss[x] = <<word(x)>>
      BY <2>2
    <3> HIDE DEF ss
    <3>3. QED BY <3>2, OneWord
  <2>4. ss \in Seq(Seq(Words)) /\ Len(ss) = Len(w)
    <3>1. ss = [x \in 1..Len(w) |-> ss[x]]
      BY <2>1
    <3> HIDE DEF ss
    <3>2. ss \in [1..Len(w) -> Seq(Words)]
      BY <2>3, <3>1
    <3>3. ss \in Seq(Seq(Words)) /\ DOMAIN ss = 1..Len(w)
      BY <2>1, <3>2, SeqDef
    <3>4. QED BY <2>1, <3>3, LenProperties
  <2> HIDE DEF ss
  <2>5. /\ Len(FlattenSeq(ss)) = Len(ss)
        /\ \A x \in 1..Len(ss) : FlattenSeq(ss)[x] = ss[x][1]
    BY <2>3, <2>4, FlattenSingles
  <2>6. FlattenSeq(ss) \in Seq(Words)
    BY <2>4, FlattenHas
  <2>7. QED BY <2>3, <2>4, <2>5, <2>6 DEF ss, word
<1>3. after = [j \in DOMAIN r |-> [r[j] EXCEPT !.words = new(r[j].words)]]
  BY DEF Rewritten
<1> HIDE DEF new, after
<1>4. ASSUME NEW j \in 1..Len(r) PROVE after[j] \in Lines /\ LineKept(r[j], after[j])
  <2> DEFINE w == r[j].words
             v == new(w)
  <2>1. r[j] \in Lines /\ w \in Seq(Words)
    BY <1>1, LineWords
  <2>2. /\ v \in Seq(Words) /\ Len(v) = Len(w)
        /\ \A x \in 1..Len(w) : v[x] = IF w[x] = id THEN e ELSE w[x]
    BY <1>2, <2>1
  <2>3. after[j] = [r[j] EXCEPT !.words = v]
    BY <1>1, <1>3
  <2> HIDE DEF v
  <2>4. after[j] \in Lines /\ after[j].kind = r[j].kind /\ after[j].words = v
    BY <2>1, <2>2, <2>3 DEF Lines
  <2> HIDE DEF after
  <2> DEFINE old == r[j]
             changed == after[j]
  <2>5. /\ old \in Lines /\ changed \in Lines /\ changed.kind = old.kind
        /\ Len(changed.words) = Len(old.words)
        /\ \A x \in 1..Len(old.words) :
               changed.words[x] = IF old.words[x] = id THEN e ELSE old.words[x]
    BY <2>1, <2>2, <2>4
  <2> HIDE DEF old, changed
  <2>6. LineKept(old, changed)
    BY <2>5, LineReplaced
  <2>7. QED BY <2>4, <2>6 DEF old, changed
<1>5. after = [j \in 1..Len(r) |-> after[j]]
  BY <1>1, <1>3
<1>6. QED BY <1>4, <1>5, GrownByLines DEF after

\* What an action of a plan with evidence brings.
Answers(a, ev) ==
    /\ a.type # "remove"
    /\ a.type \in {"cite", "rewrite", "result"} => a.by = First(ev)

LEMMA ActionGrows ==
    ASSUME NEW r \in Seq(Lines), NEW ev \in Seq(Ids), ev # <<>>, NEW a \in Actions,
           a.type \notin {"no_op", "result"}, Planned(a, ev), Answers(a, ev)
    PROVE  /\ Apply(r, a, ev) \in Seq(Lines) /\ Grown(r, Apply(r, a, ev))
           /\ a.type = "cite" => \A j \in 1..Len(r) :
                /\ Begins(r[j].words, a.target) # {}
                /\ \A i \in 1..Len(r) : Begins(r[i].words, a.target) # {} => j <= i
                => Cites(Apply(r, a, ev)[j])
<1>1. /\ a.type \in ActionTypes /\ a.target \in Seq(Words)
  BY DEF Actions, ActionTypes
<1>2. First(ev) = <<ev[1]>> /\ ev[1] \in Ids
  <2>1. Len(ev) # 0 /\ Len(ev) \in Nat /\ DOMAIN ev = 1..Len(ev)
    BY ElementsOf, EmptySeq
  <2>2. 1 \in DOMAIN ev
    BY <2>1
  <2>3. QED BY <2>2, ElementsOf DEF First
<1> DEFINE e == ev[1]
<1>3. CASE a.type = "evidence"
  <2>1. Apply(r, a, ev) = WithEvidence(r, ev)
    BY <1>3 DEF Apply
  <2>2. QED BY <1>3, <2>1, EvidenceGrows
<1>4. CASE a.type = "cite"
  <2>1. Apply(r, a, ev) = Cited(r, a.target, <<e>>)
    BY <1>2, <1>4 DEF Apply, Answers
  <2>2. a.target # <<>> /\ ~Supported(a.target)
    BY <1>4 DEF Planned
  <2> HIDE DEF e
  <2>3. e \in Ids
    BY <1>2 DEF e
  <2>4. QED BY <1>1, <2>1, <2>2, <2>3, CitedGrows
<1>5. CASE a.type = "rewrite"
  <2>1. Apply(r, a, ev) = Rewritten(r, a.target[1], <<e>>)
    BY <1>2, <1>5 DEF Apply, Answers
  <2>2. a.target[1] \in Ids
    BY <1>5 DEF Planned
  <2> HIDE DEF e
  <2>3. e \in Ids
    BY <1>2 DEF e
  <2>4. QED BY <1>5, <2>1, <2>2, <2>3, RewrittenGrows
<1>6. QED BY <1>1, <1>3, <1>4, <1>5 DEF ActionTypes, Answers

-----------------------------------------------------------------------------
(* The claims of a report and of what has grown of it.                     *)

\* The Result section of a report lies behind line f and ends with line l.
Bounds(r, f, l) ==
    /\ f \in 1..Len(r) /\ r[f] = ResultHeading
    /\ \A i \in 1..Len(r) : r[i] = ResultHeading => f <= i
    /\ l \in f..Len(r)
    /\ \A i \in (f + 1)..l : r[i].kind # "heading"
    /\ l < Len(r) => r[l + 1].kind = "heading"

LEMMA SectionBounds ==
    ASSUME NEW r \in Seq(Lines)
    PROVE  \/ /\ \A i \in 1..Len(r) : r[i] # ResultHeading
              /\ Section(r, "Result") = <<>>
           \/ \E f, l : Bounds(r, f, l) /\ Section(r, "Result") = SubSeq(r, f + 1, l)
<1> DEFINE name == "Result"
<1> HIDE DEF name
<1> DEFINE I == {i \in 1..Len(r) : r[i] = Line("heading", <<name>>)}
           first == IF I # {} THEN Min(I) ELSE 0
           ends == {i \in (first + 1)..Len(r) : r[i].kind = "heading"}
           next == CHOOSE i \in ends : \A j \in ends : i <= j
           last == IF ends = {} THEN Len(r) ELSE next - 1
<1>1. Section(r, name) = IF first = 0 THEN <<>> ELSE SubSeq(r, first + 1, last)
  BY DEF Section, SelectInSeq
<1>2. Len(r) \in Nat /\ Line("heading", <<name>>) = ResultHeading
  BY LenProperties DEF ResultHeading, name
<1>3. CASE I = {}
  BY <1>1, <1>2, <1>3 DEF name
<1>4. CASE I # {}
  <2>1. \E x \in I : \A y \in I : x <= y
    <3>1. I \subseteq Nat
      BY <1>2
    <3> HIDE DEF I
    <3>2. QED BY <1>4, <3>1, FirstOne
  <2>2. first \in I /\ \A y \in I : first <= y
    BY <1>4, <2>1 DEF Min
  <2> HIDE DEF first
  <2>3. /\ first \in 1..Len(r) /\ r[first] = ResultHeading /\ first # 0
        /\ \A i \in 1..Len(r) : r[i] = ResultHeading => first <= i
    BY <1>2, <2>2
  <2>4. /\ last \in first..Len(r)
        /\ \A i \in (first + 1)..last : r[i].kind # "heading"
        /\ last < Len(r) => r[last + 1].kind = "heading"
    <3>1. CASE ends = {}
      BY <1>2, <2>3, <3>1
    <3>2. CASE ends # {}
      <4>1. \E x \in ends : \A y \in ends : x <= y
        <5>1. ends \subseteq Nat
          BY <1>2, <2>3
        <5> HIDE DEF ends
        <5>2. QED BY <3>2, <5>1, FirstOne
      <4>2. next \in ends /\ \A y \in ends : next <= y
        BY <4>1
      <4>3. last = next - 1
        BY <3>2
      <4> HIDE DEF next, last
      <4>4. next \in (first + 1)..Len(r) /\ r[next].kind = "heading"
        BY <4>2
      <4>5. last \in first..Len(r) /\ last + 1 = next
        BY <1>2, <2>3, <4>3, <4>4
      <4>6. ASSUME NEW i \in (first + 1)..last PROVE r[i].kind # "heading"
        <5>1. i \in (first + 1)..Len(r) /\ ~(next <= i)
          BY <1>2, <2>3, <4>4, <4>5
        <5>2. QED BY <4>2, <5>1
      <4>7. QED BY <4>4, <4>5, <4>6
    <3>3. QED BY <3>1, <3>2
  <2> HIDE DEF last
  <2>5. Bounds(r, first, last)
    BY <2>3, <2>4 DEF Bounds
  <2>6. Section(r, name) = SubSeq(r, first + 1, last)
    BY <1>1, <2>3
  <2>7. QED BY <2>5, <2>6 DEF name
<1>5. QED BY <1>3, <1>4

LEMMA OneSection ==
    ASSUME NEW r \in Seq(Lines), NEW f, NEW l, NEW g, NEW m, Bounds(r, f, l), Bounds(r, g, m)
    PROVE  f = g /\ l = m
<1>1. Len(r) \in Nat
  BY LenProperties
<1>2. /\ f \in 1..Len(r) /\ g \in 1..Len(r) /\ l \in f..Len(r) /\ m \in g..Len(r)
      /\ f <= g /\ g <= f
  BY DEF Bounds
<1>3. f = g
  BY <1>1, <1>2
<1>4. ~(l < m)
  <2>1. SUFFICES ASSUME l < m PROVE FALSE
    OBVIOUS
  <2>2. l < Len(r) /\ l + 1 \in (g + 1)..m
    BY <1>1, <1>2, <1>3, <2>1
  <2>3. QED BY <2>2 DEF Bounds
<1>5. ~(m < l)
  <2>1. SUFFICES ASSUME m < l PROVE FALSE
    OBVIOUS
  <2>2. m < Len(r) /\ m + 1 \in (f + 1)..l
    BY <1>1, <1>2, <1>3, <2>1
  <2>3. QED BY <2>2 DEF Bounds
<1>6. QED BY <1>1, <1>2, <1>3, <1>4, <1>5

\* A grown report has its section where it was.
LEMMA BoundsKept ==
    ASSUME NEW r \in Seq(Lines), NEW s \in Seq(Lines), Grown(r, s), NEW f, NEW l,
           Bounds(r, f, l)
    PROVE  Bounds(s, f, l)
<1>1. /\ Len(r) \in Nat /\ Len(s) \in Nat /\ Len(r) <= Len(s)
      /\ f \in 1..Len(r) /\ r[f] = ResultHeading /\ l \in f..Len(r)
  BY LenProperties DEF Grown, Bounds
<1>2. \A i \in 1..Len(r) : s[i].kind = r[i].kind /\ (s[i] = ResultHeading <=> r[i] = ResultHeading)
  <2>1. TAKE i \in 1..Len(r)
  <2>2. LineKept(r[i], s[i])
    BY DEF Grown
  <2>3. s[i] = ResultHeading <=> r[i] = ResultHeading
    BY <2>2, KeptTheHeading
  <2>4. QED BY <2>2, <2>3 DEF LineKept
<1>3. f \in 1..Len(s) /\ l \in f..Len(s) /\ s[f] = ResultHeading
  BY <1>1, <1>2
<1>4. ASSUME NEW i \in 1..Len(s), s[i] = ResultHeading PROVE f <= i
  <2>1. CASE i \in 1..Len(r)
    BY <1>2, <1>4, <2>1 DEF Bounds
  <2>2. CASE i \notin 1..Len(r)
    BY <1>1, <2>2
  <2>3. QED BY <2>1, <2>2
<1>5. ASSUME NEW i \in (f + 1)..l PROVE s[i].kind # "heading"
  <2>1. i \in 1..Len(r)
    BY <1>1
  <2>2. QED BY <1>2, <2>1 DEF Bounds
<1>6. ASSUME l < Len(s) PROVE s[l + 1].kind = "heading"
  <2>1. CASE l < Len(r)
    <3>1. l + 1 \in 1..Len(r)
      BY <1>1, <2>1
    <3>2. QED BY <1>2, <2>1, <3>1 DEF Bounds
  <2>2. CASE ~(l < Len(r))
    <3>1. l = Len(r)
      BY <1>1, <2>2
    <3>2. QED BY <1>6, <3>1 DEF Grown
  <2>3. QED BY <2>1, <2>2
<1>7. QED BY <1>3, <1>4, <1>5, <1>6 DEF Bounds

LEMMA PartOf ==
    ASSUME NEW r \in Seq(Lines), NEW f \in Nat, NEW l \in f..Len(r)
    PROVE  /\ Len(SubSeq(r, f + 1, l)) = l - f
           /\ \A i \in 1..(l - f) : SubSeq(r, f + 1, l)[i] = r[f + i]
<1>1. Len(r) \in Nat /\ \A i \in 1..Len(r) : r[i] \in Lines
  BY ElementsOf
<1>2. /\ l \in Int /\ f <= l /\ l <= Len(r) /\ f + 1 \in Int
      /\ \A i \in (f + 1)..l : r[i] \in Lines
  BY <1>1
<1> DEFINE s == SubSeq(r, f + 1, l)
<1>3. /\ Len(s) = (IF f + 1 <= l THEN l - (f + 1) + 1 ELSE 0)
      /\ \A i \in 1..(l - (f + 1) + 1) : s[i] = r[(f + 1) + i - 1]
  BY <1>2, SubSeqProperties
<1> HIDE DEF s
<1>4. Len(s) = l - f
  BY <1>2, <1>3
<1>5. \A i \in 1..(l - f) : i \in 1..(l - (f + 1) + 1) /\ (f + 1) + i - 1 = f + i
  BY <1>2
<1>6. QED BY <1>3, <1>4, <1>5 DEF s

\* The sections of a report and of what it has grown to, line by line.
LEMMA SectionsMatch ==
    ASSUME NEW r \in Seq(Lines), NEW s \in Seq(Lines), Grown(r, s)
    PROVE  LET a == Section(r, "Result")
               b == Section(s, "Result")
           IN  /\ Len(a) = Len(b)
               /\ \E f \in Nat : \A i \in 1..Len(a) :
                      f + i \in 1..Len(r) /\ a[i] = r[f + i] /\ b[i] = s[f + i]
<1> DEFINE a == Section(r, "Result")
           b == Section(s, "Result")
<1>1. /\ Len(r) \in Nat /\ Len(s) \in Nat /\ Len(r) <= Len(s)
  BY LenProperties DEF Grown
<1>2. CASE (\A i \in 1..Len(r) : r[i] # ResultHeading) /\ a = <<>>
  <2>1. ASSUME NEW i \in 1..Len(s) PROVE s[i] # ResultHeading
    <3>1. CASE i \in 1..Len(r)
      <4>1. LineKept(r[i], s[i])
        BY <3>1 DEF Grown
      <4>2. QED BY <1>2, <3>1, <4>1, KeptTheHeading
    <3>2. CASE i \notin 1..Len(r)
      <4>1. i > Len(r)
        BY <1>1, <3>2
      <4>2. QED BY <4>1 DEF Grown
    <3>3. QED BY <3>1, <3>2
  <2>2. \A f, l : ~Bounds(s, f, l)
    BY <2>1 DEF Bounds
  <2>3. b = <<>>
    BY <2>2, SectionBounds
  <2> HIDE DEF a, b
  <2>4. Len(a) = 0 /\ Len(b) = 0
    BY <1>2, <2>3, EmptySeq
  <2>5. 0 \in Nat /\ \A i \in 1..0 : FALSE
    OBVIOUS
  <2>6. QED BY <2>4, <2>5 DEF a, b
<1>3. ASSUME NEW f, NEW l, Bounds(r, f, l), a = SubSeq(r, f + 1, l)
      PROVE  /\ Len(a) = Len(b)
             /\ f \in Nat
             /\ \A i \in 1..Len(a) : f + i \in 1..Len(r) /\ a[i] = r[f + i] /\ b[i] = s[f + i]
  <2>1. Bounds(s, f, l)
    BY <1>3, BoundsKept
  <2>2. b = SubSeq(s, f + 1, l)
    <3>1. ~(\A i \in 1..Len(s) : s[i] # ResultHeading)
      BY <2>1 DEF Bounds
    <3>2. PICK g, m : Bounds(s, g, m) /\ b = SubSeq(s, g + 1, m)
      BY <3>1, SectionBounds
    <3>3. g = f /\ m = l
      BY <2>1, <3>2, OneSection
    <3>4. QED BY <3>2, <3>3
  <2> HIDE DEF a, b
  <2>3. f \in 1..Len(r) /\ l \in f..Len(r) /\ l \in f..Len(s)
    BY <1>3, <2>1 DEF Bounds
  <2>4. f \in Nat
    BY <1>1, <2>3
  <2>5. /\ Len(a) = l - f /\ \A i \in 1..(l - f) : a[i] = r[f + i]
        /\ Len(b) = l - f /\ \A i \in 1..(l - f) : b[i] = s[f + i]
    BY <1>3, <2>2, <2>3, <2>4, PartOf
  <2>6. \A i \in 1..(l - f) : f + i \in 1..Len(r)
    BY <1>1, <2>3
  <2>7. QED BY <2>4, <2>5, <2>6
<1>4. \/ (\A i \in 1..Len(r) : r[i] # ResultHeading) /\ a = <<>>
      \/ \E f, l : Bounds(r, f, l) /\ a = SubSeq(r, f + 1, l)
  BY SectionBounds
<1> HIDE DEF a, b
<1>5. QED BY <1>2, <1>3, <1>4 DEF a, b

\* The claims that ask for evidence.
Bare == {c \in Seq(Words) : ~Supported(c)}

LEMMA AmongSame ==
    ASSUME NEW s, NEW T, NEW U, \A i \in DOMAIN s : s[i] \in T <=> s[i] \in U
    PROVE  Among(s, T) = Among(s, U)
<1>1. [i \in DOMAIN s |-> IF s[i] \in T THEN <<s[i]>> ELSE <<>>]
        = [i \in DOMAIN s |-> IF s[i] \in U THEN <<s[i]>> ELSE <<>>]
  OBVIOUS
<1>2. QED BY <1>1 DEF Among

LEMMA UnsupportedIn ==
    ASSUME NEW r \in Seq(Lines)
    PROVE  LET lines == Section(r, "Result")
           IN  /\ Unsupported(r) = Among(FlattenSeq([i \in DOMAIN lines |-> ClaimsOf(lines[i])]), Bare)
               /\ [i \in DOMAIN lines |-> ClaimsOf(lines[i])] \in Seq(Seq(Seq(Words) \ {<<>>}))
               /\ Len([i \in DOMAIN lines |-> ClaimsOf(lines[i])]) = Len(lines)
               /\ \A c : Has(Unsupported(r), c) <=>
                     c \in Bare /\ \E i \in 1..Len(lines) : Has(ClaimsOf(lines[i]), c)
<1> DEFINE S == Seq(Words) \ {<<>>}
           lines == Section(r, "Result")
           ss == [i \in DOMAIN lines |-> ClaimsOf(lines[i])]
           T == {c \in ToSet(Claims(r)) : ~Supported(c)}
<1>1. Claims(r) \in Seq(S)
  BY ClaimsTyped
<1>2. Unsupported(r) = Among(Claims(r), T) /\ Claims(r) = FlattenSeq(ss)
  BY DEF Unsupported, Claims, Spellings
<1>3. Among(Claims(r), T) = Among(Claims(r), Bare)
  <2>1. ASSUME NEW i \in DOMAIN Claims(r) PROVE Claims(r)[i] \in T <=> Claims(r)[i] \in Bare
    <3>1. Claims(r)[i] \in S /\ Claims(r)[i] \in ToSet(Claims(r))
      BY <1>1, ElementsOf DEF ToSet
    <3>2. QED BY <3>1 DEF Bare
  <2> HIDE DEF T
  <2>2. QED BY <2>1, AmongSame
<1> HIDE DEF T
<1>4. lines \in Seq(Lines)
  BY SectionOf
<1> HIDE DEF lines
<1>5. /\ Len(lines) \in Nat /\ DOMAIN lines = 1..Len(lines)
      /\ \A i \in DOMAIN lines : lines[i] \in Lines
  BY <1>4, ElementsOf
<1>6. \A i \in DOMAIN lines : ClaimsOf(lines[i]) \in Seq(S)
  BY <1>5, ClaimsOfLine
<1> HIDE DEF S
<1>7. ss \in Seq(Seq(S)) /\ DOMAIN ss = 1..Len(lines)
  BY <1>5, <1>6, SeqDef
<1>8. \A i \in 1..Len(lines) : ss[i] = ClaimsOf(lines[i])
  BY <1>5
<1> HIDE DEF ss
<1>9. Len(ss) = Len(lines)
  BY <1>5, <1>7, LenProperties
<1>10. \A c : Has(FlattenSeq(ss), c) <=> \E i \in DOMAIN ss : Has(ss[i], c)
  BY <1>7, FlattenHas
<1>11. \A c : Has(Among(Claims(r), Bare), c) <=> Has(Claims(r), c) /\ c \in Bare
  BY <1>1, AmongHas DEF S
<1>12. \A c : Has(Unsupported(r), c) <=>
           c \in Bare /\ \E i \in 1..Len(lines) : Has(ClaimsOf(lines[i]), c)
  BY <1>2, <1>3, <1>7, <1>8, <1>10, <1>11
<1>13. QED BY <1>2, <1>3, <1>7, <1>9, <1>12 DEF S, ss, lines

\* A line that cites evidence makes supported claims only.
LEMMA CitedLineSupported ==
    ASSUME NEW ln \in Lines, Cites(ln)
    PROVE  /\ \A c : Has(ClaimsOf(ln), c) => c \notin Bare
           /\ Len(Among(ClaimsOf(ln), Bare)) = 0
<1> DEFINE S == Seq(Words) \ {<<>>}
<1>1. ln.words # <<>>
  BY DEF Cites, IdsIn, ToSet
<1>2. ClaimsOf(ln) = <<ln.words>>
  BY <1>1 DEF ClaimsOf, Cites
<1>3. \A c : Has(ClaimsOf(ln), c) => c = ln.words
  BY <1>2, OneHas
<1>4. ln.words \notin Bare
  BY DEF Bare, Supported, Cites
<1>5. ClaimsOf(ln) \in Seq(S)
  BY ClaimsOfLine
<1> HIDE DEF S
<1> DEFINE u == Among(ClaimsOf(ln), Bare)
<1>6. u \in Seq(S) /\ \A c : ~Has(u, c)
  BY <1>3, <1>4, <1>5, AmongHas
<1> HIDE DEF u
<1>7. Len(u) = 0
  <2>1. Len(u) \in Nat /\ DOMAIN u = 1..Len(u)
    BY <1>6, ElementsOf
  <2>2. 1 \notin DOMAIN u
    BY <1>6 DEF Has
  <2>3. QED BY <2>1, <2>2
<1>8. QED BY <1>3, <1>4, <1>7 DEF u

\* A claim that asks for evidence stands in its line.
LEMMA ClaimStands ==
    ASSUME NEW ln \in Lines, NEW c, Has(ClaimsOf(ln), c), c \in Bare
    PROVE  Begins(ln.words, c) # {}
<1> DEFINE w == ln.words
<1>1. /\ w \in Seq(Words) /\ c \in Seq(Words) /\ Len(w) \in Nat /\ DOMAIN w = 1..Len(w)
  BY LineWords, ElementsOf DEF Bare
<1>2. CASE w = <<>>
  BY <1>2 DEF ClaimsOf, Has
<1>3. CASE w # <<>> /\ (ln.kind = "bullet" \/ IdsIn(w) # {})
  <2>1. c = w
    BY <1>3, OneHas DEF ClaimsOf
  <2>2. 0 \in 0..(Len(w) - Len(c)) /\ \A x \in 1..Len(c) : w[0 + x] = c[x]
    BY <1>1, <2>1
  <2>3. 0 \in Begins(w, c)
    BY <1>1, <2>2, BeginsAt
  <2>4. QED BY <2>3
<1>4. CASE w # <<>> /\ ~(ln.kind = "bullet" \/ IdsIn(w) # {})
  <2>1. PICK i \in DOMAIN w : c = <<w[i]>>
    BY <1>4 DEF ClaimsOf, Has
  <2>2. Len(c) = 1 /\ c[1] = w[i]
    BY <2>1
  <2>3. /\ i - 1 \in Int /\ i - 1 \in 0..(Len(w) - Len(c))
        /\ \A x \in 1..Len(c) : x = 1 /\ (i - 1) + x = i
    BY <1>1, <2>2
  <2>4. \A x \in 1..Len(c) : w[(i - 1) + x] = c[x]
    BY <2>2, <2>3
  <2>5. i - 1 \in Begins(w, c)
    BY <1>1, <2>3, <2>4, BeginsAt
  <2>6. QED BY <2>5
<1>5. QED BY <1>2, <1>3, <1>4

\* A grown report has no claim without evidence that it had not before, and one
\* that is left stands in a line that cites nothing.
LEMMA StillUnsupported ==
    ASSUME NEW r \in Seq(Lines), NEW s \in Seq(Lines), Grown(r, s),
           NEW c, Has(Unsupported(s), c)
    PROVE  /\ Has(Unsupported(r), c)
           /\ \E j \in 1..Len(r) : Begins(r[j].words, c) # {} /\ ~Cites(s[j])
<1> DEFINE a == Section(r, "Result")
           b == Section(s, "Result")
<1>1. /\ Len(a) = Len(b) /\ Len(r) <= Len(s) /\ Len(r) \in Nat /\ Len(s) \in Nat
  BY SectionsMatch, LenProperties DEF Grown
<1>2. PICK f \in Nat : \A i \in 1..Len(a) :
          f + i \in 1..Len(r) /\ a[i] = r[f + i] /\ b[i] = s[f + i]
  BY SectionsMatch
<1>3. c \in Bare /\ \E i \in 1..Len(b) : Has(ClaimsOf(b[i]), c)
  BY UnsupportedIn
<1>4. PICK i \in 1..Len(b) : Has(ClaimsOf(b[i]), c)
  BY <1>3
<1> DEFINE j == f + i
<1>5. /\ j \in 1..Len(r) /\ a[i] = r[j] /\ b[i] = s[j]
  BY <1>1, <1>2
<1> HIDE DEF j
<1>6. /\ r[j] \in Lines /\ s[j] \in Lines
  <2>1. j \in 1..Len(s)
    BY <1>1, <1>5
  <2>2. QED BY <1>5, <2>1, ElementsOf
<1>7. ~Cites(s[j])
  BY <1>3, <1>4, <1>5, <1>6, CitedLineSupported
<1>8. s[j] = r[j]
  BY <1>5, <1>7 DEF Grown, LineKept
<1>9. Has(ClaimsOf(a[i]), c) /\ i \in 1..Len(a)
  BY <1>1, <1>4, <1>5, <1>8
<1>10. Has(Unsupported(r), c)
  BY <1>3, <1>9, UnsupportedIn
<1>11. Begins(r[j].words, c) # {}
  BY <1>3, <1>5, <1>6, <1>9, ClaimStands
<1>12. QED BY <1>5, <1>7, <1>10, <1>11

LEMMA FewerUnsupported ==
    ASSUME NEW r \in Seq(Lines), NEW s \in Seq(Lines), Grown(r, s)
    PROVE  Len(Unsupported(s)) <= Len(Unsupported(r))
<1> DEFINE S == Seq(Words) \ {<<>>}
           a == Section(r, "Result")
           b == Section(s, "Result")
           tt == [i \in DOMAIN a |-> ClaimsOf(a[i])]
           ss == [i \in DOMAIN b |-> ClaimsOf(b[i])]
<1>1. /\ Len(a) = Len(b) /\ Len(r) <= Len(s) /\ Len(r) \in Nat /\ Len(s) \in Nat
      /\ a \in Seq(Lines) /\ b \in Seq(Lines)
  BY SectionsMatch, SectionOf, LenProperties DEF Grown
<1>2. PICK f \in Nat : \A i \in 1..Len(a) :
          f + i \in 1..Len(r) /\ a[i] = r[f + i] /\ b[i] = s[f + i]
  BY SectionsMatch
<1>3. /\ Unsupported(r) = Among(FlattenSeq(tt), Bare) /\ Unsupported(s) = Among(FlattenSeq(ss), Bare)
      /\ tt \in Seq(Seq(S)) /\ ss \in Seq(Seq(S)) /\ Len(tt) = Len(a) /\ Len(ss) = Len(b)
  BY UnsupportedIn
<1> HIDE DEF a, b
<1>4. /\ DOMAIN a = 1..Len(a) /\ DOMAIN b = 1..Len(b)
      /\ \A i \in 1..Len(a) : a[i] \in Lines /\ b[i] \in Lines
  BY <1>1, ElementsOf
<1>5. ASSUME NEW i \in 1..Len(a) PROVE Len(Among(ss[i], Bare)) <= Len(Among(tt[i], Bare))
  <2>1. tt[i] = ClaimsOf(a[i]) /\ ss[i] = ClaimsOf(b[i])
    BY <1>1, <1>4
  <2>2. LineKept(a[i], b[i])
    BY <1>2 DEF Grown
  <2>3. tt[i] \in Seq(S)
    BY <1>4, <2>1, ClaimsOfLine
  <2>4. Len(Among(tt[i], Bare)) \in Nat
    <3> HIDE DEF S, tt
    <3>1. QED BY <2>3, AmongHas, LenProperties
  <2>5. CASE Cites(b[i])
    <3>1. Len(Among(ss[i], Bare)) = 0
      BY <1>4, <2>1, <2>5, CitedLineSupported
    <3>2. QED BY <2>4, <3>1
  <2>6. CASE ~Cites(b[i])
    <3>1. ss[i] = tt[i]
      BY <2>1, <2>2, <2>6 DEF LineKept
    <3>2. QED BY <2>4, <3>1
  <2>7. QED BY <2>5, <2>6
<1> HIDE DEF S, ss, tt
<1>6. QED BY <1>1, <1>3, <1>5, FewerAmong

-----------------------------------------------------------------------------
(* What a plan holds for claims without evidence.                          *)

NoResult(p, from) == \A i \in from..Len(p) : p[i].type # "result"

\* A plan that is continued without another Result section.
LEMMA PlanContinued ==
    ASSUME NEW s \in Seq(Actions), NEW t \in Seq(Actions), NEW m \in Nat \ {0},
           NoResult(s, m), \A a : Has(t, a) => a.type # "result"
    PROVE  /\ s \o t \in Seq(Actions) /\ NoResult(s \o t, m)
           /\ Len(s) <= Len(s \o t) /\ \A i \in 1..Len(s) : (s \o t)[i] = s[i]
           /\ \A a : Has(s \o t, a) <=> Has(s, a) \/ Has(t, a)
<1> DEFINE p == s \o t
<1>1. p \in Seq(Actions) /\ \A a : Has(p, a) <=> Has(s, a) \/ Has(t, a)
  BY ConcatHas
<1>2. /\ Len(p) = Len(s) + Len(t) /\ Len(s) \in Nat /\ Len(t) \in Nat
      /\ DOMAIN t = 1..Len(t)
      /\ \A i \in 1..(Len(s) + Len(t)) : p[i] = IF i <= Len(s) THEN s[i] ELSE t[i - Len(s)]
  BY ConcatProperties, LenProperties
<1> HIDE DEF p
<1>3. ASSUME NEW i \in m..Len(p) PROVE p[i].type # "result"
  <2>1. i \in 1..(Len(s) + Len(t))
    BY <1>2
  <2>2. CASE i <= Len(s)
    <3>1. p[i] = s[i] /\ i \in m..Len(s)
      BY <1>2, <2>1, <2>2
    <3>2. QED BY <3>1 DEF NoResult
  <2>3. CASE ~(i <= Len(s))
    <3>1. p[i] = t[i - Len(s)] /\ i - Len(s) \in DOMAIN t
      BY <1>2, <2>1, <2>3
    <3>2. QED BY <3>1 DEF Has
  <2>4. QED BY <2>2, <2>3
<1>4. Len(s) <= Len(p) /\ \A i \in 1..Len(s) : p[i] = s[i]
  BY <1>2
<1>5. QED BY <1>1, <1>3, <1>4 DEF NoResult, p

\* The parts of a plan are lists of actions.
LEMMA PlanParts ==
    ASSUME NEW r \in Seq(Lines), NEW ev \in Seq(Ids), NEW findings \in Findings
    PROVE  /\ ForIds(References(r) \ ToSet(ev), ev) \in Seq(Actions)
           /\ ForClaims(Unsupported(r), ev) \in Seq(Actions)
           /\ findings \in Seq(Actions)
           /\ \A a : Has(findings, a) => a.type = "no_op"
<1>1. ForIds(References(r) \ ToSet(ev), ev) \in Seq(Actions)
  <2> DEFINE unknown == References(r) \ ToSet(ev)
  <2>1. IsFiniteSet(unknown)
    BY ReferencesFinite, FS_Subset
  <2>2. unknown \subseteq Ids /\ unknown \cap ToSet(ev) = {}
    BY RefersTo
  <2> HIDE DEF unknown
  <2>3. ForIds(unknown, ev) \in Seq(Actions)
    BY <2>1, <2>2, ForIdsPlanned
  <2>4. QED BY <2>3 DEF unknown
<1>2. ForClaims(Unsupported(r), ev) \in Seq(Actions)
  BY UnsupportedAre, ForClaimsPlanned
<1>3. findings \in Seq(Actions) /\ \A a : Has(findings, a) => a.type = "no_op"
  <2> DEFINE none == <<>>
             a1 == Action("no_op", none, none)
  <2>1. none \in Seq(Words) /\ none \in Seq(Ids)
    BY EmptySeq
  <2>2. findings = <<>> \/ findings = <<a1>>
    BY DEF Findings
  <2> HIDE DEF none
  <2>3. a1 \in Actions /\ a1.type = "no_op"
    BY <2>1, ActionTyped DEF ActionTypes
  <2> HIDE DEF a1
  <2>4. CASE findings = <<>>
    BY <2>4, EmptySeq DEF Has
  <2>5. CASE findings = <<a1>>
    <3>1. findings \in Seq(Actions)
      BY <2>3, <2>5, OneWord
    <3>2. \A a : Has(findings, a) => a = a1
      BY <2>5, OneHas
    <3>3. QED BY <2>3, <3>1, <3>2
  <2>6. QED BY <2>2, <2>4, <2>5
<1>4. QED BY <1>1, <1>2, <1>3

\* What the parts of a plan are for.
LEMMA PartsAnswer ==
    ASSUME NEW r \in Seq(Lines), NEW ev \in Seq(Ids), ev # <<>>, NEW findings \in Findings
    PROVE  LET u == ForIds(References(r) \ ToSet(ev), ev)
               v == ForClaims(Unsupported(r), ev)
           IN  /\ \A a : Has(u, a) \/ Has(v, a) \/ Has(findings, a) =>
                      Answers(a, ev) /\ a.type # "result"
               /\ \A c : Has(Unsupported(r), c) =>
                      \E a : Has(v, a) /\ a.type = "cite" /\ a.target = c
<1> DEFINE unknown == References(r) \ ToSet(ev)
           claims == Unsupported(r)
           u == ForIds(unknown, ev)
           v == ForClaims(claims, ev)
<1>1. \A a : Has(u, a) => Answers(a, ev) /\ a.type # "result"
  <2>1. ASSUME NEW a, Has(u, a) PROVE a.type = "rewrite" /\ a.by = First(ev)
    BY <2>1 DEF Has, ForIds, Action
  <2>2. QED BY <2>1 DEF Answers
<1>2. v = [i \in DOMAIN claims |-> Action("cite", claims[i], First(ev))]
  BY DEF ForClaims
<1>3. \A i \in DOMAIN v : LET a == v[i] IN a.type = "cite" /\ a.by = First(ev) /\ a.target = claims[i]
  BY <1>2 DEF Action
<1>4. \A a : Has(v, a) => Answers(a, ev) /\ a.type # "result"
  BY <1>3 DEF Has, Answers
<1>5. \A c : Has(claims, c) => \E a : Has(v, a) /\ a.type = "cite" /\ a.target = c
  BY <1>2, <1>3 DEF Has
<1>6. \A a : Has(findings, a) => Answers(a, ev) /\ a.type # "result"
  <2>1. \A a : Has(findings, a) => a.type = "no_op"
    BY PlanParts
  <2>2. QED BY <2>1 DEF Answers
<1>7. QED BY <1>1, <1>4, <1>5, <1>6

\* The plan of a report with evidence: every claim has its citation, and a Result
\* section comes once, before all else but the Evidence section.
LEMMA PlanAnswers ==
    ASSUME NEW r \in Seq(Lines), NEW ev \in Seq(Ids), ev # <<>>, NEW findings \in Findings
    PROVE  LET p == Plan(r, ev) \o findings
           IN  /\ \A a : Has(p, a) => Answers(a, ev)
               /\ \A c : Has(Unsupported(r), c) =>
                      \E a : Has(p, a) /\ a.type = "cite" /\ a.target = c
               /\ HasText(r, "Result") => NoResult(p, 1)
               /\ ~HasText(r, "Result") =>
                     \/ p # <<>> /\ p[1].type = "result" /\ NoResult(p, 2)
                     \/ /\ Len(p) >= 2 /\ p[1].type = "evidence"
                        /\ p[2].type = "result" /\ NoResult(p, 3)
<1> DEFINE target == <<>>
           a1 == Action("evidence", target, ev)
           a2 == Action("result", target, First(ev))
           e == IF HasText(r, "Evidence") THEN <<>> ELSE <<a1>>
           t == IF HasText(r, "Result") THEN <<>> ELSE <<a2>>
           u == ForIds(References(r) \ ToSet(ev), ev)
           v == ForClaims(Unsupported(r), ev)
           m == IF HasText(r, "Result") THEN 1 ELSE IF HasText(r, "Evidence") THEN 2 ELSE 3
           s1 == e \o t
           s2 == s1 \o u
           s3 == s2 \o v
           p == Plan(r, ev) \o findings
<1>1. p = s3 \o findings
  BY DEF Plan
<1>2. /\ a1 \in Actions /\ a1.type = "evidence" /\ Answers(a1, ev)
      /\ a2 \in Actions /\ a2.type = "result" /\ Answers(a2, ev)
  <2>1. target \in Seq(Words) /\ First(ev) \in Seq(Ids)
    BY EmptySeq, FirstTyped
  <2> HIDE DEF target
  <2>2. /\ a1 \in Actions /\ a1.type = "evidence"
        /\ a2 \in Actions /\ a2.type = "result" /\ a2.by = First(ev)
    BY <2>1, ActionTyped DEF ActionTypes
  <2> HIDE DEF a1, a2
  <2>3. QED BY <2>2 DEF Answers
<1> HIDE DEF a1, a2
<1>3. /\ s1 \in Seq(Actions) /\ NoResult(s1, m)
      /\ \A a : Has(s1, a) => Answers(a, ev)
      /\ m = 2 => Len(s1) = 1 /\ s1[1] = a2
      /\ m = 3 => Len(s1) = 2 /\ s1[1] = a1 /\ s1[2] = a2
  <2> DEFINE first == <<a1>>
             second == <<a2>>
  <2>1. /\ first \in Seq(Actions) /\ Len(first) = 1 /\ first[1] = a1
        /\ second \in Seq(Actions) /\ Len(second) = 1 /\ second[1] = a2
        /\ \A a : (Has(first, a) <=> a = a1) /\ (Has(second, a) <=> a = a2)
    BY <1>2, OneWord, OneHas
  <2> HIDE DEF first, second
  <2>2. CASE HasText(r, "Result") /\ HasText(r, "Evidence")
    <3>1. s1 = <<>> \o <<>> /\ m = 1
      BY <2>2
    <3>2. s1 \in Seq(Actions) /\ Len(s1) = 0
      BY <3>1, EmptySeq, ConcatEmptySeq
    <3> HIDE DEF s1
    <3>3. DOMAIN s1 = {}
      BY <3>2, LenProperties
    <3>4. QED BY <3>1, <3>2, <3>3 DEF NoResult, Has
  <2>3. CASE HasText(r, "Result") /\ ~HasText(r, "Evidence")
    <3>1. s1 = first /\ m = 1
      BY <2>1, <2>3, ConcatEmptySeq DEF first
    <3> HIDE DEF s1, m
    <3>2. Len(s1) = 1 /\ s1[1] = a1
      BY <2>1, <3>1
    <3>3. NoResult(s1, m)
      BY <1>2, <3>1, <3>2 DEF NoResult
    <3>4. QED BY <1>2, <2>1, <3>1, <3>3
  <2>4. CASE ~HasText(r, "Result") /\ HasText(r, "Evidence")
    <3>1. s1 = second /\ m = 2
      BY <2>1, <2>4, ConcatEmptySeq DEF second
    <3> HIDE DEF s1, m
    <3>2. Len(s1) = 1 /\ s1[1] = a2
      BY <2>1, <3>1
    <3>3. NoResult(s1, m)
      BY <3>1, <3>2 DEF NoResult
    <3>4. QED BY <1>2, <2>1, <3>1, <3>3
  <2>5. CASE ~HasText(r, "Result") /\ ~HasText(r, "Evidence")
    <3>1. s1 = first \o second /\ m = 3
      BY <2>5 DEF first, second
    <3> HIDE DEF m
    <3>2. /\ s1 \in Seq(Actions) /\ \A a : Has(s1, a) <=> Has(first, a) \/ Has(second, a)
      BY <2>1, <3>1, ConcatHas
    <3>3. /\ Len(first \o second) = Len(first) + Len(second)
          /\ \A i \in 1..(Len(first) + Len(second)) : (first \o second)[i] =
                 IF i <= Len(first) THEN first[i] ELSE second[i - Len(first)]
      BY <2>1, ConcatProperties
    <3>4. Len(s1) = 2 /\ s1[1] = a1 /\ s1[2] = a2
      BY <2>1, <3>1, <3>3
    <3> HIDE DEF s1
    <3>5. QED BY <1>2, <2>1, <3>1, <3>2, <3>4 DEF NoResult
  <2>6. QED BY <2>2, <2>3, <2>4, <2>5
<1>4. u \in Seq(Actions) /\ v \in Seq(Actions) /\ findings \in Seq(Actions)
  BY PlanParts
<1>5. /\ \A a : Has(u, a) \/ Has(v, a) \/ Has(findings, a) =>
             Answers(a, ev) /\ a.type # "result"
      /\ \A c : Has(Unsupported(r), c) =>
             \E a : Has(v, a) /\ a.type = "cite" /\ a.target = c
  BY PartsAnswer
<1>6. /\ m \in Nat \ {0}
      /\ \/ HasText(r, "Result") /\ m = 1
         \/ ~HasText(r, "Result") /\ m \in {2, 3}
  OBVIOUS
<1> HIDE DEF s1, u, v, m, p
<1>7. /\ s2 \in Seq(Actions) /\ NoResult(s2, m)
      /\ Len(s1) <= Len(s2) /\ \A i \in 1..Len(s1) : s2[i] = s1[i]
      /\ \A a : Has(s2, a) <=> Has(s1, a) \/ Has(u, a)
  BY <1>3, <1>4, <1>5, <1>6, PlanContinued
<1> HIDE DEF s2
<1>8. /\ s3 \in Seq(Actions) /\ NoResult(s3, m)
      /\ Len(s2) <= Len(s3) /\ \A i \in 1..Len(s2) : s3[i] = s2[i]
      /\ \A a : Has(s3, a) <=> Has(s2, a) \/ Has(v, a)
  BY <1>4, <1>5, <1>6, <1>7, PlanContinued
<1> HIDE DEF s3
<1>9. /\ p \in Seq(Actions) /\ NoResult(p, m)
      /\ Len(s3) <= Len(p) /\ \A i \in 1..Len(s3) : p[i] = s3[i]
      /\ \A a : Has(p, a) <=> Has(s3, a) \/ Has(findings, a)
  BY <1>1, <1>4, <1>5, <1>6, <1>8, PlanContinued
<1>10. Len(s1) \in Nat /\ Len(s2) \in Nat /\ Len(s3) \in Nat /\ Len(p) \in Nat
  BY <1>3, <1>7, <1>8, <1>9, LenProperties
<1>11. Len(s1) <= Len(p) /\ \A i \in 1..Len(s1) : p[i] = s1[i]
  <2>1. ASSUME NEW i \in 1..Len(s1) PROVE p[i] = s1[i]
    <3>1. i \in 1..Len(s2) /\ i \in 1..Len(s3)
      BY <1>7, <1>8, <1>10
    <3>2. QED BY <1>7, <1>8, <1>9, <3>1
  <2>2. QED BY <1>7, <1>8, <1>9, <1>10, <2>1
<1>12. \A a : Has(p, a) => Answers(a, ev)
  BY <1>3, <1>5, <1>7, <1>8, <1>9
<1>13. \A c : Has(Unsupported(r), c) => \E a : Has(p, a) /\ a.type = "cite" /\ a.target = c
  BY <1>5, <1>8, <1>9
<1>14. CASE m = 1
  BY <1>6, <1>9, <1>12, <1>13, <1>14 DEF p
<1>15. CASE m = 2
  <2>1. Len(p) >= 1 /\ p[1] = a2
    <3>1. Len(s1) = 1 /\ s1[1] = a2
      BY <1>3, <1>15
    <3>2. 1 \in 1..Len(s1)
      BY <3>1
    <3>3. QED BY <1>10, <1>11, <3>1, <3>2
  <2>2. p # <<>>
    BY <2>1, EmptySeq
  <2>3. QED BY <1>2, <1>6, <1>9, <1>12, <1>13, <1>15, <2>1, <2>2 DEF p
<1>16. CASE m = 3
  <2>1. Len(p) >= 2 /\ p[1] = a1 /\ p[2] = a2
    <3>1. Len(s1) = 2 /\ s1[1] = a1 /\ s1[2] = a2
      BY <1>3, <1>16
    <3>2. 1 \in 1..Len(s1) /\ 2 \in 1..Len(s1)
      BY <3>1
    <3>3. QED BY <1>10, <1>11, <3>1, <3>2
  <2>2. QED BY <1>2, <1>6, <1>9, <1>12, <1>13, <1>16, <2>1 DEF p
<1>17. QED BY <1>6, <1>14, <1>15, <1>16

\* No Result section comes with the evidence.
LEMMA EvidenceIsNoResult ==
    ASSUME NEW r \in Seq(Lines), NEW ev \in Seq(Ids), ev # <<>>,
           HasText(WithEvidence(r, ev), "Result")
    PROVE  HasText(r, "Result")
<1> DEFINE n == "Evidence"
           h == Line("heading", <<n>>)
           item(i) == Line("bullet", <<ev[i], "preview">>)
           all == [i \in DOMAIN ev |-> item(i)]
           front == r \o <<h>>
           after == WithEvidence(r, ev)
<1>1. n \in Titles /\ n \notin {"Result", "Results"}
  BY DEF Titles, Spellings
<1>2. after = front \o all
  BY DEF WithEvidence
<1> HIDE DEF n
<1>3. h \in Lines /\ h.words = <<n>> /\ h.words[1] = n
  BY <1>1, Headings
<1>4. Len(ev) \in Nat /\ DOMAIN ev = 1..Len(ev) /\ \A i \in DOMAIN ev : ev[i] \in Words
  BY ElementsOf, Typing
<1>5. \A i \in DOMAIN ev : item(i) \in Lines /\ item(i).kind = "bullet"
  <2> DEFINE preview == "preview"
  <2>1. preview \in Words
    BY Typing DEF Stock
  <2> HIDE DEF preview
  <2>2. "bullet" \in Kinds
    BY DEF Kinds
  <2>3. \A i \in DOMAIN ev : Line("bullet", <<ev[i], preview>>) \in Lines
                             /\ Line("bullet", <<ev[i], preview>>).kind = "bullet"
    BY <1>4, <2>1, <2>2, TwoWords, LineTyped
  <2>4. QED BY <2>3 DEF preview
<1> HIDE DEF h, item
<1>6. all \in Seq(Lines) /\ \A ln : Has(all, ln) => ln.kind = "bullet"
  <2>1. all \in Seq(Lines)
    BY <1>4, <1>5, SeqDef
  <2>2. QED BY <1>5, <2>1 DEF Has
<1> HIDE DEF all
<1>7. front \in Seq(Lines) /\ \A ln : Has(front, ln) <=> Has(r, ln) \/ ln = h
  <2> DEFINE one == <<h>>
  <2>1. one \in Seq(Lines) /\ \A ln : Has(one, ln) <=> ln = h
    BY <1>3, OneWord, OneHas
  <2>2. front = r \o one
    OBVIOUS
  <2> HIDE DEF one, front
  <2>3. QED BY <2>1, <2>2, ConcatHas
<1> HIDE DEF front, after
<1>8. \A ln : Has(after, ln) <=> Has(front, ln) \/ Has(all, ln)
  BY <1>2, <1>6, <1>7, ConcatHas
<1>9. \A q : HasText(q, "Result") <=>
          \E ln : Has(q, ln) /\ ln.kind = "heading" /\ ln.words # <<>>
                  /\ ln.words[1] \in {"Result", "Results"}
  BY DEF HasText, Spellings, Has, ToSet
<1>10. PICK ln : /\ Has(after, ln) /\ ln.kind = "heading" /\ ln.words # <<>>
                 /\ ln.words[1] \in {"Result", "Results"}
  BY <1>9 DEF after
<1>11. Has(r, ln)
  BY <1>1, <1>3, <1>6, <1>7, <1>8, <1>10
<1>12. QED BY <1>9, <1>10, <1>11

\* What is put on top of a report without a Result: its heading, and a line that
\* cites evidence.
LEMMA ResultOnTop ==
    ASSUME NEW e \in Ids
    PROVE  \E top \in Seq(Lines) :
              /\ Len(top) = 2 /\ top[1] = ResultHeading
              /\ top[2].kind = "text" /\ Cites(top[2])
              /\ \A r : WithResult(r, <<e>>) = top \o r
<1> DEFINE done == "Task completed."
           see == "See evidence references below."
           by == <<e>>
           said == <<done, see>>
           text == Line("text", said \o by)
           top == <<ResultHeading, text>>
<1>1. \A r : WithResult(r, by) = top \o r
  BY DEF WithResult, ResultHeading
<1>2. said \in Seq(Words)
  <2>1. done \in Stock /\ see \in Stock
    BY DEF Stock
  <2> HIDE DEF done, see
  <2>2. done \in Words /\ see \in Words
    BY <2>1, Typing
  <2>3. QED BY <2>2, TwoWords
<1>3. by \in Seq(Words) /\ Has(by, e)
  BY Typing, OneWord, OneHas
<1> HIDE DEF said, by
<1> DEFINE words == said \o by
<1>4. words \in Seq(Words) /\ Has(words, e)
  BY <1>2, <1>3, ConcatHas
<1> HIDE DEF words
<1>5. text \in Lines /\ text.kind = "text" /\ text.words = words
  <2>1. "text" \in Kinds
    BY DEF Kinds
  <2>2. Line("text", words) \in Lines /\ Line("text", words).kind = "text"
        /\ Line("text", words).words = words
    BY <1>4, <2>1, LineTyped
  <2>3. QED BY <2>2 DEF words
<1> HIDE DEF text
<1>6. Cites(text)
  BY <1>4, <1>5 DEF Cites, IdsIn, ToSet, Has
<1> DEFINE heading == ResultHeading
<1>7. heading \in Lines
  BY ResultHeadingIs
<1>8. top = <<heading, text>>
  OBVIOUS
<1> HIDE DEF heading
<1>9. /\ top \in Seq(Lines) /\ Len(top) = 2 /\ top[1] = heading /\ top[2] = text
  BY <1>5, <1>7, <1>8
<1> HIDE DEF top
<1>10. top[1] = ResultHeading /\ top[2].kind = "text" /\ Cites(top[2])
  BY <1>5, <1>6, <1>9 DEF heading
<1>11. QED BY <1>1, <1>9, <1>10 DEF by

LEMMA ResultGrows ==
    ASSUME NEW r \in Seq(Lines), NEW s \in Seq(Lines), Grown(r, s), NEW e \in Ids
    PROVE  /\ WithResult(r, <<e>>) \in Seq(Lines) /\ WithResult(s, <<e>>) \in Seq(Lines)
           /\ Grown(WithResult(r, <<e>>), WithResult(s, <<e>>))
<1>1. PICK top \in Seq(Lines) : \A q : WithResult(q, <<e>>) = top \o q
  BY ResultOnTop
<1>2. /\ top \o r \in Seq(Lines) /\ top \o s \in Seq(Lines)
      /\ Grown(top \o r, top \o s)
  BY GrownUnder, ConcatProperties
<1>3. WithResult(r, <<e>>) = top \o r /\ WithResult(s, <<e>>) = top \o s
  BY <1>1
<1>4. QED BY <1>2, <1>3

\* Nothing under the title: the Result section that is put in has one claim, and
\* that cites evidence.
LEMMA NothingUnsupported ==
    ASSUME NEW r \in Seq(Lines), r = <<>> \/ r[1].kind = "heading", NEW e \in Ids
    PROVE  /\ Len(Unsupported(WithResult(r, <<e>>))) = 0
           /\ Titled(WithResult(r, <<e>>), "Result")
<1>1. PICK top \in Seq(Lines) :
          /\ Len(top) = 2 /\ top[1] = ResultHeading
          /\ top[2].kind = "text" /\ Cites(top[2])
          /\ \A q : WithResult(q, <<e>>) = top \o q
  BY ResultOnTop
<1> DEFINE s == WithResult(r, <<e>>)
<1>2. s = top \o r
  BY <1>1
<1> HIDE DEF s
<1>3. /\ s \in Seq(Lines) /\ Len(s) = 2 + Len(r) /\ Len(r) \in Nat
      /\ \A i \in 1..(2 + Len(r)) : s[i] = IF i <= 2 THEN top[i] ELSE r[i - 2]
  <2>1. /\ top \o r \in Seq(Lines) /\ Len(top \o r) = Len(top) + Len(r) /\ Len(r) \in Nat
        /\ \A i \in 1..(Len(top) + Len(r)) :
               (top \o r)[i] = IF i <= Len(top) THEN top[i] ELSE r[i - Len(top)]
    BY ConcatProperties, LenProperties
  <2>2. Len(top) = 2
    BY <1>1
  <2>3. QED BY <1>2, <2>1, <2>2
<1>4. 1 \in 1..(2 + Len(r)) /\ 2 \in 1..(2 + Len(r))
  BY <1>3
<1>5. s[1] = ResultHeading /\ s[2] = top[2] /\ s[2].kind = "text" /\ Cites(s[2])
  <2>1. s[1] = top[1] /\ s[2] = top[2]
    BY <1>3, <1>4
  <2>2. QED BY <1>1, <2>1
<1>6. Bounds(s, 1, 2)
  <2>1. 2 < Len(s) => s[3].kind = "heading"
    <3>1. SUFFICES ASSUME 2 < Len(s) PROVE s[3].kind = "heading"
      OBVIOUS
    <3>2. 3 \in 1..(2 + Len(r)) /\ Len(r) # 0
      BY <1>3, <3>1
    <3>3. s[3] = r[1] /\ r # <<>>
      BY <1>3, <3>2, EmptySeq
    <3>4. QED BY <3>3
  <2>2. \A i \in 2..2 : s[i].kind # "heading"
    BY <1>5
  <2>3. QED BY <1>3, <1>5, <2>1, <2>2 DEF Bounds
<1> DEFINE part == Section(s, "Result")
<1>7. part = SubSeq(s, 2, 2)
  <2>1. ~(\A i \in 1..Len(s) : s[i] # ResultHeading)
    BY <1>3, <1>5
  <2>2. PICK f, l : Bounds(s, f, l) /\ part = SubSeq(s, f + 1, l)
    BY <1>3, <2>1, SectionBounds
  <2>3. f = 1 /\ l = 2
    BY <1>3, <1>6, <2>2, OneSection
  <2>4. QED BY <2>2, <2>3
<1> HIDE DEF part
<1>8. Len(part) = 1 /\ part[1] = s[2]
  <2>1. 2 \in 1..Len(s) /\ 1 \in Nat
    BY <1>3
  <2>2. /\ Len(SubSeq(s, 1 + 1, 2)) = 2 - 1
        /\ \A i \in 1..(2 - 1) : SubSeq(s, 1 + 1, 2)[i] = s[1 + i]
    BY <1>3, <2>1, PartOf
  <2>3. QED BY <1>7, <2>2
<1>9. s[2] \in Lines
  BY <1>3, <1>4, ElementsOf
<1> DEFINE u == Unsupported(s)
<1>10. \A c : ~Has(u, c)
  <2>1. ASSUME NEW c, Has(u, c) PROVE FALSE
    <3>1. c \in Bare /\ \E i \in 1..Len(part) : Has(ClaimsOf(part[i]), c)
      BY <1>3, <2>1, UnsupportedIn DEF part
    <3>2. Has(ClaimsOf(s[2]), c)
      BY <1>8, <3>1
    <3>3. QED BY <1>5, <1>9, <3>1, <3>2, CitedLineSupported
  <2>2. QED BY <2>1
<1>11. u \in Seq(Seq(Words) \ {<<>>})
  BY <1>3, UnsupportedAre
<1> HIDE DEF u
<1>12. Len(u) = 0
  <2>1. Len(u) \in Nat /\ DOMAIN u = 1..Len(u)
    BY <1>11, LenProperties
  <2>2. 1 \notin DOMAIN u
    BY <1>10 DEF Has
  <2>3. QED BY <2>1, <2>2
<1>13. Titled(s, "Result")
  <2>1. 1 \in DOMAIN s
    BY <1>3, <1>4, LenProperties
  <2>2. QED BY <1>5, <2>1 DEF Titled, Has, ResultHeading
<1>14. QED BY <1>12, <1>13 DEF u, s

-----------------------------------------------------------------------------
(* The inductive invariant of the answers.                                 *)

\* A line is the only one of a report where a claim stands.
Alone(r, c, j) ==
    Begins(r[j].words, c) # {} /\ \A k \in 1..Len(r) : Begins(r[k].words, c) # {} => k = j

\* A claim has its citation still to come, or has it where it stands alone.
InHand(p, r, s, c) ==
    \/ \E k \in DOMAIN p : p[k].type = "cite" /\ p[k].target = c
    \/ \A j \in 1..Len(r) : Alone(r, c, j) => Cites(s[j])

ClaimsInHand ==
    \A c \in ToSet(Unsupported(report)) : InHand(plan, report, revised, c)

\* The Result section that a report has not is put on top of it before a claim of
\* it is cited.
ResultToCome ==
    \/ /\ revised = report /\ Len(plan) >= 2 /\ plan[1].type = "evidence"
       /\ plan[2].type = "result" /\ NoResult(plan, 3)
    \/ /\ revised \in {report, WithEvidence(report, evidence)} /\ plan # <<>>
       /\ plan[1].type = "result" /\ NoResult(plan, 2)
    \/ NoResult(plan, 1) /\ Grown(WithResult(report, First(evidence)), revised)

AnswerInv ==
    evidence # <<>> /\ (phase = "revising" \/ Revised) =>
        /\ \A i \in DOMAIN plan : Answers(plan[i], evidence)
        /\ HasText(report, "Result") =>
               Grown(report, revised) /\ NoResult(plan, 1) /\ ClaimsInHand
        /\ ~HasText(report, "Result") => ResultToCome

LEMMA InSet ==
    ASSUME NEW s, NEW e
    PROVE  e \in ToSet(s) <=> Has(s, e)
  BY DEF ToSet, Has

LEMMA FirstIs ==
    ASSUME NEW ev \in Seq(Ids), ev # <<>>
    PROVE  ev[1] \in Ids /\ First(ev) = <<ev[1]>>
<1>1. Len(ev) # 0 /\ Len(ev) \in Nat /\ DOMAIN ev = 1..Len(ev)
  BY ElementsOf, EmptySeq
<1>2. 1 \in DOMAIN ev
  BY <1>1
<1>3. QED BY <1>2, ElementsOf DEF First

\* A citation reaches the claim that stands alone.
LEMMA InHandKept ==
    ASSUME NEW r \in Seq(Lines), NEW s \in Seq(Lines), NEW after \in Seq(Lines),
           Grown(r, s), Grown(s, after),
           NEW p \in Seq(Actions), p # <<>>,
           NEW c \in Seq(Words), c # <<>>, ~Supported(c),
           InHand(p, r, s, c),
           p[1].type = "cite" =>
               \A j \in 1..Len(s) :
                  /\ Begins(s[j].words, p[1].target) # {}
                  /\ \A i \in 1..Len(s) : Begins(s[i].words, p[1].target) # {} => j <= i
                  => Cites(after[j])
    PROVE  InHand(Tail(p), r, after, c)
<1>1. /\ Len(p) \in Nat /\ DOMAIN p = 1..Len(p) /\ Len(p) # 0
      /\ DOMAIN Tail(p) = 1..(Len(p) - 1)
      /\ \A i \in 1..(Len(p) - 1) : Tail(p)[i] = p[i + 1]
  <2>1. /\ Tail(p) \in Seq(Actions) /\ Len(Tail(p)) = Len(p) - 1
        /\ \A i \in 1..Len(Tail(p)) : Tail(p)[i] = p[i + 1]
    BY HeadTailProperties
  <2>2. QED BY <2>1, LenProperties, EmptySeq
<1>2. /\ Len(r) \in Nat /\ Len(s) \in Nat /\ Len(r) <= Len(s)
      /\ \A j \in 1..Len(r) : LineKept(r[j], s[j])
      /\ \A j \in 1..Len(s) : LineKept(s[j], after[j])
  BY LenProperties DEF Grown
<1>3. \A j \in 1..Len(r) : j \in 1..Len(s)
  BY <1>2
<1>4. CASE \A j \in 1..Len(r) : Alone(r, c, j) => Cites(s[j])
  <2>1. \A j \in 1..Len(r) : Alone(r, c, j) => Cites(after[j])
    BY <1>2, <1>3, <1>4 DEF LineKept
  <2>2. QED BY <2>1 DEF InHand
<1>5. ASSUME NEW k \in DOMAIN p, p[k].type = "cite", p[k].target = c, k # 1
      PROVE  InHand(Tail(p), r, after, c)
  <2>1. k - 1 \in DOMAIN Tail(p) /\ Tail(p)[k - 1] = p[k]
    <3>1. k - 1 \in 1..(Len(p) - 1) /\ (k - 1) + 1 = k
      BY <1>1, <1>5
    <3>2. QED BY <1>1, <3>1
  <2>2. QED BY <1>5, <2>1 DEF InHand
<1>6. ASSUME p[1].type = "cite", p[1].target = c
      PROVE  InHand(Tail(p), r, after, c)
  <2>1. ASSUME NEW j \in 1..Len(r), Alone(r, c, j) PROVE Cites(after[j])
    <3>1. CASE Cites(s[j])
      BY <1>2, <1>3, <3>1 DEF LineKept
    <3>2. CASE ~Cites(s[j])
      <4>1. s[j] = r[j]
        BY <1>2, <3>2 DEF LineKept
      <4>2. Begins(s[j].words, c) # {}
        BY <2>1, <4>1 DEF Alone
      <4>3. ASSUME NEW i \in 1..Len(s), Begins(s[i].words, c) # {} PROVE j <= i
        <5>1. CASE i \in 1..Len(r)
          <6>1. IdsIn(c) = {}
            BY DEF Supported
          <6>2. LineKept(r[i], s[i])
            BY <1>2, <5>1
          <6>3. Begins(r[i].words, c) # {}
            BY <4>3, <6>1, <6>2 DEF LineKept
          <6>4. i = j
            BY <2>1, <5>1, <6>3 DEF Alone
          <6>5. QED BY <6>4
        <5>2. CASE i \notin 1..Len(r)
          BY <1>2, <5>2
        <5>3. QED BY <5>1, <5>2
      <4>4. QED BY <1>3, <1>6, <4>2, <4>3
    <3>3. QED BY <3>1, <3>2
  <2>2. QED BY <2>1 DEF InHand
<1>7. QED BY <1>4, <1>5, <1>6 DEF InHand

\* What is left of a plan.
LEMMA RestOfPlan ==
    ASSUME NEW p \in Seq(Actions), p # <<>>
    PROVE  /\ 1 \in DOMAIN p /\ Head(p) = p[1] /\ Head(p) \in Actions
           /\ \A i \in DOMAIN Tail(p) : i + 1 \in DOMAIN p /\ Tail(p)[i] = p[i + 1]
           /\ NoResult(p, 1) => p[1].type # "result" /\ NoResult(Tail(p), 1)
           /\ \A m \in Nat \ {0} : NoResult(p, m + 1) => NoResult(Tail(p), m)
           /\ Len(p) >= 2 => Tail(p) # <<>> /\ Tail(p)[1] = p[2]
<1>1. /\ Tail(p) \in Seq(Actions) /\ Len(Tail(p)) = Len(p) - 1
      /\ \A i \in 1..Len(Tail(p)) : Tail(p)[i] = p[i + 1]
      /\ Head(p) = p[1] /\ Head(p) \in Actions
  BY HeadTailProperties
<1>2. /\ Len(p) \in Nat /\ DOMAIN p = 1..Len(p) /\ Len(p) # 0
      /\ DOMAIN Tail(p) = 1..(Len(p) - 1)
  BY <1>1, LenProperties, EmptySeq
<1>3. 1 \in DOMAIN p /\ 1 \in 1..Len(p)
  BY <1>2
<1>4. \A i \in DOMAIN Tail(p) : i + 1 \in DOMAIN p /\ Tail(p)[i] = p[i + 1]
  BY <1>1, <1>2
<1>5. ASSUME NEW m \in Nat \ {0}, NoResult(p, m + 1) PROVE NoResult(Tail(p), m)
  <2>1. ASSUME NEW i \in m..Len(Tail(p)) PROVE Tail(p)[i].type # "result"
    <3>1. i \in 1..Len(Tail(p)) /\ i + 1 \in (m + 1)..Len(p)
      BY <1>1, <1>2
    <3>2. QED BY <1>1, <1>5, <3>1 DEF NoResult
  <2>2. QED BY <2>1 DEF NoResult
<1>6. ASSUME NoResult(p, 1) PROVE p[1].type # "result" /\ NoResult(Tail(p), 1)
  <2>1. NoResult(p, 1 + 1)
    BY <1>2, <1>6 DEF NoResult
  <2>2. NoResult(Tail(p), 1)
    BY <1>5, <2>1
  <2>3. QED BY <1>3, <1>6, <2>2 DEF NoResult
<1>7. ASSUME Len(p) >= 2 PROVE Tail(p) # <<>> /\ Tail(p)[1] = p[2]
  <2>1. 1 \in 1..Len(Tail(p)) /\ Len(Tail(p)) # 0
    BY <1>1, <1>2, <1>7
  <2>2. QED BY <1>1, <2>1, EmptySeq
<1>8. QED BY <1>1, <1>3, <1>4, <1>5, <1>6, <1>7

LEMMA BeginAnswers ==
    ASSUME ReviewInv, NEW findings \in Findings, Begin(findings)
    PROVE  AnswerInv'
<1>1. /\ phase' = "revising" /\ revised' = report
      /\ report \in Seq(Lines) /\ evidence \in Seq(Ids)
      /\ plan' = Plan(report, evidence) \o findings
      /\ report' = report /\ evidence' = evidence
  BY DEF ReviewInv, Reviewing, ReviewTyped, ReviewTypeOK, Begin
<1>2. SUFFICES ASSUME evidence # <<>>
               PROVE  /\ \A i \in DOMAIN plan' : Answers(plan'[i], evidence)
                      /\ HasText(report, "Result") =>
                             Grown(report, report) /\ NoResult(plan', 1) /\ ClaimsInHand'
                      /\ ~HasText(report, "Result") => ResultToCome'
  BY <1>1 DEF AnswerInv
<1>3. /\ \A a : Has(plan', a) => Answers(a, evidence)
      /\ \A c : Has(Unsupported(report), c) =>
             \E a : Has(plan', a) /\ a.type = "cite" /\ a.target = c
      /\ HasText(report, "Result") => NoResult(plan', 1)
      /\ ~HasText(report, "Result") =>
            \/ plan' # <<>> /\ plan'[1].type = "result" /\ NoResult(plan', 2)
            \/ /\ Len(plan') >= 2 /\ plan'[1].type = "evidence"
               /\ plan'[2].type = "result" /\ NoResult(plan', 3)
  BY <1>1, <1>2, PlanAnswers
<1>4. \A i \in DOMAIN plan' : Answers(plan'[i], evidence)
  BY <1>3 DEF Has
<1>5. ClaimsInHand'
  <2>1. ASSUME NEW c \in ToSet(Unsupported(report)) PROVE InHand(plan', report, report, c)
    <3>1. PICK a : Has(plan', a) /\ a.type = "cite" /\ a.target = c
      BY <1>3, <2>1, InSet
    <3>2. QED BY <3>1 DEF InHand, Has
  <2>2. QED BY <1>1, <2>1 DEF ClaimsInHand
<1>6. ~HasText(report, "Result") => ResultToCome'
  BY <1>1, <1>3 DEF ResultToCome
<1>7. Grown(report, report)
  BY <1>1, GrownItself
<1>8. QED BY <1>3, <1>4, <1>5, <1>6, <1>7

LEMMA ReviseAnswers == ReviewInv /\ AnswerInv /\ Revise => AnswerInv'
<1> SUFFICES ASSUME ReviewInv, AnswerInv, Revise PROVE AnswerInv'
  OBVIOUS
<1> DEFINE a == Head(plan)
           after == IF Skips(a) THEN revised ELSE Apply(revised, a, evidence)
<1>1. /\ phase = "revising" /\ plan # <<>> /\ plan' = Tail(plan) /\ revised' = after
      /\ phase' = phase /\ report' = report /\ evidence' = evidence
  BY DEF Revise
<1>2. /\ plan \in Seq(Actions) /\ revised \in Seq(Lines) /\ evidence \in Seq(Ids)
      /\ report \in Seq(Lines)
  BY DEF ReviewInv, ReviewTyped, ReviewTypeOK
<1>3. SUFFICES ASSUME evidence # <<>>
               PROVE  /\ \A i \in DOMAIN Tail(plan) : Answers(Tail(plan)[i], evidence)
                      /\ HasText(report, "Result") =>
                             Grown(report, after) /\ NoResult(Tail(plan), 1) /\ ClaimsInHand'
                      /\ ~HasText(report, "Result") => ResultToCome'
  BY <1>1 DEF AnswerInv
<1>4. /\ \A i \in DOMAIN plan : Answers(plan[i], evidence)
      /\ HasText(report, "Result") =>
             Grown(report, revised) /\ NoResult(plan, 1) /\ ClaimsInHand
      /\ ~HasText(report, "Result") => ResultToCome
  BY <1>1, <1>3 DEF AnswerInv
<1>5. /\ 1 \in DOMAIN plan /\ a = plan[1] /\ a \in Actions
      /\ \A i \in DOMAIN Tail(plan) : i + 1 \in DOMAIN plan /\ Tail(plan)[i] = plan[i + 1]
      /\ NoResult(plan, 1) => a.type # "result" /\ NoResult(Tail(plan), 1)
      /\ \A m \in Nat \ {0} : NoResult(plan, m + 1) => NoResult(Tail(plan), m)
      /\ Len(plan) >= 2 => Tail(plan) # <<>> /\ Tail(plan)[1] = plan[2]
  BY <1>1, <1>2, RestOfPlan
<1>6. Planned(a, evidence) /\ Answers(a, evidence)
  BY <1>4, <1>5 DEF ReviewInv, PlanSound
<1>7. ~Skips(a) => a.type # "no_op"
  BY DEF Skips
<1>8. Skips(a) => \/ a.type = "no_op"
                  \/ a.type = "evidence" /\ HasText(revised, "Evidence")
                  \/ a.type = "result" /\ HasText(revised, "Result")
  BY DEF Skips
<1>9. \A i \in DOMAIN Tail(plan) : Answers(Tail(plan)[i], evidence)
  BY <1>4, <1>5
<1> HIDE DEF a
<1>10. ASSUME a.type # "result"
       PROVE  /\ after \in Seq(Lines) /\ Grown(revised, after)
              /\ a.type = "cite" => \A j \in 1..Len(revised) :
                   /\ Begins(revised[j].words, a.target) # {}
                   /\ \A i \in 1..Len(revised) : Begins(revised[i].words, a.target) # {} => j <= i
                   => Cites(after[j])
  <2>1. CASE Skips(a)
    <3>1. after = revised /\ a.type # "cite"
      BY <1>8, <2>1
    <3>2. QED BY <1>2, <3>1, GrownItself
  <2>2. CASE ~Skips(a)
    <3>1. after = Apply(revised, a, evidence) /\ a.type \notin {"no_op", "result"}
      BY <1>7, <1>10, <2>2
    <3>2. QED BY <1>2, <1>3, <1>5, <1>6, <3>1, ActionGrows
  <2>3. QED BY <2>1, <2>2
<1>11. ASSUME HasText(report, "Result")
       PROVE  Grown(report, after) /\ NoResult(Tail(plan), 1) /\ ClaimsInHand'
  <2>1. /\ Grown(report, revised) /\ ClaimsInHand /\ NoResult(Tail(plan), 1)
        /\ a.type # "result"
    BY <1>4, <1>5, <1>11
  <2>2. after \in Seq(Lines) /\ Grown(revised, after)
    BY <1>10, <2>1
  <2>3. Grown(report, after)
    BY <1>2, <2>1, <2>2, GrownOn
  <2> DEFINE next == after
  <2> HIDE DEF after
  <2>4. ASSUME NEW c \in ToSet(Unsupported(report))
        PROVE  InHand(Tail(plan), report, after, c)
    <3>1. c \in Seq(Words) /\ c # <<>> /\ ~Supported(c)
      <4>1. Has(Unsupported(report), c)
        BY <2>4, InSet
      <4>2. c \in Seq(Words) \ {<<>>}
        <5> DEFINE S == Seq(Words) \ {<<>>}
        <5>1. Unsupported(report) \in Seq(S)
          BY <1>2, UnsupportedAre
        <5> HIDE DEF S
        <5>2. c \in S
          BY <4>1, <5>1, ElementsOf
        <5>3. QED BY <5>2 DEF S
      <4>3. QED BY <1>2, <4>1, <4>2, UnsupportedAre
    <3>2. InHand(plan, report, revised, c)
      BY <2>1, <2>4 DEF ClaimsInHand
    <3>3. plan[1].type = "cite" =>
               \A j \in 1..Len(revised) :
                  /\ Begins(revised[j].words, plan[1].target) # {}
                  /\ \A i \in 1..Len(revised) :
                        Begins(revised[i].words, plan[1].target) # {} => j <= i
                  => Cites(after[j])
      BY <1>5, <1>10, <2>1
    <3>4. QED BY <1>1, <1>2, <2>1, <2>2, <3>1, <3>2, <3>3, InHandKept
  <2>5. ClaimsInHand'
    BY <1>1, <2>4 DEF ClaimsInHand
  <2>6. QED BY <2>1, <2>3, <2>5
<1>12. ASSUME ~HasText(report, "Result")
       PROVE  ResultToCome'
  <2>1. ResultToCome
    BY <1>4, <1>12
  <2>2. CASE /\ revised = report /\ Len(plan) >= 2 /\ plan[1].type = "evidence"
             /\ plan[2].type = "result" /\ NoResult(plan, 3)
    <3>1. after \in {report, WithEvidence(report, evidence)}
      <4>1. a.type = "evidence"
        BY <1>5, <2>2
      <4>2. Apply(revised, a, evidence) = WithEvidence(report, evidence)
        BY <2>2, <4>1 DEF Apply
      <4>3. QED BY <2>2, <4>2
    <3>2. Tail(plan) # <<>> /\ Tail(plan)[1].type = "result"
      BY <1>5, <2>2
    <3>3. NoResult(Tail(plan), 2)
      <4>1. 2 \in Nat \ {0} /\ 2 + 1 = 3
        OBVIOUS
      <4>2. QED BY <1>5, <2>2, <4>1
    <3> HIDE DEF after
    <3>4. QED BY <1>1, <3>1, <3>2, <3>3 DEF ResultToCome
  <2>3. CASE /\ revised \in {report, WithEvidence(report, evidence)} /\ plan # <<>>
             /\ plan[1].type = "result" /\ NoResult(plan, 2)
    <3>1. ~HasText(revised, "Result")
      BY <1>2, <1>3, <1>12, <2>3, EvidenceIsNoResult
    <3>2. a.type = "result"
      BY <1>5, <2>3
    <3>3. ~Skips(a)
      BY <1>8, <3>1, <3>2
    <3>4. after = WithResult(revised, First(evidence))
      BY <1>6, <3>2, <3>3 DEF Apply, Answers
    <3>5. Grown(report, revised)
      BY <1>2, <1>3, <2>3, EvidenceGrows, GrownItself
    <3> DEFINE e == evidence[1]
    <3>6. First(evidence) = <<e>> /\ e \in Ids
      BY <1>2, <1>3, FirstIs
    <3> HIDE DEF e, after
    <3>7. Grown(WithResult(report, First(evidence)), after)
      BY <1>2, <3>4, <3>5, <3>6, ResultGrows
    <3>8. NoResult(Tail(plan), 1)
      <4>1. 1 \in Nat \ {0} /\ 1 + 1 = 2
        OBVIOUS
      <4>2. QED BY <1>5, <2>3, <4>1
    <3>9. QED BY <1>1, <3>7, <3>8 DEF ResultToCome
  <2>4. CASE NoResult(plan, 1) /\ Grown(WithResult(report, First(evidence)), revised)
    <3>1. a.type # "result" /\ NoResult(Tail(plan), 1)
      BY <1>5, <2>4
    <3>2. after \in Seq(Lines) /\ Grown(revised, after)
      BY <1>10, <3>1
    <3> DEFINE e == evidence[1]
    <3>3. First(evidence) = <<e>> /\ e \in Ids
      BY <1>2, <1>3, FirstIs
    <3> HIDE DEF e, after
    <3>4. WithResult(report, First(evidence)) \in Seq(Lines)
      BY <1>2, <3>3, ResultGrows, GrownItself
    <3>5. Grown(WithResult(report, First(evidence)), after)
      BY <1>2, <2>4, <3>2, <3>4, GrownOn
    <3>6. QED BY <1>1, <3>1, <3>5 DEF ResultToCome
  <2>5. QED BY <2>1, <2>2, <2>3, <2>4 DEF ResultToCome
<1>13. QED BY <1>9, <1>11, <1>12

LEMMA AnswersAlways == ReviewSpec => []AnswerInv
<1>1. ReviewInit => AnswerInv
  BY DEF ReviewInit, AnswerInv, Revised
<1>2. ReviewReport /\ ReviewInv => AnswerInv'
  <2> SUFFICES ASSUME ReviewReport, ReviewInv PROVE AnswerInv'
    OBVIOUS
  <2>1. phase' # "revising" /\ ~Revised'
    BY DEF ReviewReport, ReviewInv, ReviewTyped, ReviewTypeOK, Revised
  <2>2. QED BY <2>1 DEF AnswerInv
<1>3. AnswerInv /\ Finish => AnswerInv'
  <2> SUFFICES ASSUME AnswerInv, Finish PROVE AnswerInv'
    OBVIOUS
  <2>1. phase = "revising" /\ UNCHANGED <<report, evidence, plan, revised>>
    BY DEF Finish
  <2>2. QED BY <2>1 DEF AnswerInv, ResultToCome, ClaimsInHand
<1>4. AnswerInv /\ UNCHANGED reviewVars => AnswerInv'
  BY DEF AnswerInv, ResultToCome, ClaimsInHand, Revised, reviewVars
<1>5. ReviewInv /\ AnswerInv /\ [ReviewNext]_reviewVars => AnswerInv'
  BY <1>2, <1>3, <1>4, BeginAnswers, ReviseAnswers DEF ReviewNext
<1>6. QED BY <1>1, <1>5, ReviewInvariant, PTL DEF ReviewSpec

-----------------------------------------------------------------------------

LEMMA ErrorsFinite ==
    ASSUME NEW r \in Seq(Lines), NEW ev
    PROVE  IsFiniteSet(Errors(r, ev))
<1> DEFINE x == IF ev = <<>> THEN {"empty_evidence"} ELSE {}
           y == IF HasHeading(r, "Evidence") THEN {} ELSE {"missing_evidence_section"}
           z == References(r) \ ToSet(ev)
<1>1. IsFiniteSet(x) /\ IsFiniteSet(y)
  BY FS_EmptySet, FS_Singleton
<1>2. IsFiniteSet(z)
  BY ReferencesFinite, FS_Subset
<1>3. Errors(r, ev) = (x \cup y) \cup z
  BY DEF Errors
<1> HIDE DEF x, y, z
<1>4. QED BY <1>1, <1>2, <1>3, FS_Union

LEMMA ScoreFalls ==
    ASSUME NEW a, NEW b, IsFiniteSet(a.errors), b.errors \subseteq a.errors,
           a.warnings \in Nat, b.warnings \in Nat, b.warnings <= a.warnings
    PROVE  ~(Score(b) < Score(a))
<1>1. /\ Cardinality(a.errors) \in Nat /\ Cardinality(b.errors) \in Nat
      /\ Cardinality(b.errors) <= Cardinality(a.errors)
  BY FS_Subset, FS_CardinalityType
<1> DEFINE m == Cardinality(a.errors)
           n == Cardinality(b.errors)
<1>2. /\ Score(a) = (IF 35 * m + 15 * a.warnings > 100 THEN 0
                     ELSE 100 - (35 * m + 15 * a.warnings))
      /\ Score(b) = (IF 35 * n + 15 * b.warnings > 100 THEN 0
                     ELSE 100 - (35 * n + 15 * b.warnings))
  BY DEF Score
<1> HIDE DEF m, n
<1>3. QED BY <1>1, <1>2 DEF m, n

\* The invariant says what a revision mends.
LEMMA Mended == ReviewInv => RevisionMends
<1> SUFFICES ASSUME ReviewInv, Revised PROVE RevisionMends
  BY DEF RevisionMends, NoNewError, MendsWithEvidence, NoInventedEvidence, LoopForgetsSkill
<1>1. /\ phase = "done" /\ plan = <<>>
      /\ initial.errors = Errors(report, evidence)
      /\ final.errors = Errors(revised, evidence)
      /\ reviewed.errors = Errors(report, evidence) \cup SkillErrors(skill, lacks)
  BY DEF ReviewInv, Reviewing, Revised, Review, ReviewOfTask
<1>2. Kept(report, revised, ToSet(evidence))
  BY DEF ReviewInv, ReportKept
<1>3. References(revised) \subseteq ToSet(evidence)
  BY <1>1 DEF ReviewInv, UnknownWillGo
<1>4. HasHeading(revised, "Evidence") \/ HasText(report, "Evidence")
  BY <1>1 DEF ReviewInv, EvidenceHeaded
<1>5. HasHeading(report, "Evidence") => HasHeading(revised, "Evidence")
  BY <1>2, HeadingKept
<1>6. final.errors \subseteq initial.errors
  BY <1>1, <1>3, <1>5 DEF Errors
<1>7. evidence # <<>> => \/ final.errors = {}
                         \/ /\ final.errors = {"missing_evidence_section"}
                            /\ HasText(report, "Evidence")
  BY <1>1, <1>3, <1>4 DEF Errors
<1>8. LoopForgetsSkill
  <2>1. initial.errors = {} => reviewed.errors = SkillErrors(skill, lacks)
    BY <1>1
  <2>2. reviewed.errors = {} => final.errors = {}
    BY <1>1, <1>6
  <2>3. QED BY <2>1, <2>2 DEF LoopForgetsSkill, Passed
<1>9. QED BY <1>3, <1>6, <1>7, <1>8
          DEF RevisionMends, NoNewError, MendsWithEvidence, NoInventedEvidence, Passed

\* A claim that is still without evidence did not stand alone.
LEMMA CitedWhereAlone ==
    ASSUME ReviewInv, AnswerInv
    PROVE  ClaimsAreCited
<1>1. SUFFICES ASSUME Revised, evidence # <<>>, HasText(report, "Result"),
                      NEW i \in DOMAIN Unsupported(revised)
               PROVE  LET places == {j \in DOMAIN report :
                                       Begins(report[j].words, Unsupported(revised)[i]) # {}}
                      IN  Cardinality(places) > 1
  BY DEF ClaimsAreCited
<1> DEFINE c == Unsupported(revised)[i]
           places == {j \in DOMAIN report : Begins(report[j].words, c) # {}}
<1>2. /\ plan = <<>> /\ report \in Seq(Lines) /\ revised \in Seq(Lines)
  BY <1>1 DEF ReviewInv, Reviewing, ReviewTyped, ReviewTypeOK
<1>3. Grown(report, revised) /\ ClaimsInHand
  BY <1>1 DEF AnswerInv
<1>4. Has(Unsupported(revised), c)
  BY DEF Has
<1> HIDE DEF c
<1>5. /\ Has(Unsupported(report), c)
      /\ \E j \in 1..Len(report) : Begins(report[j].words, c) # {} /\ ~Cites(revised[j])
  BY <1>2, <1>3, <1>4, StillUnsupported
<1>6. PICK j \in 1..Len(report) : Begins(report[j].words, c) # {} /\ ~Cites(revised[j])
  BY <1>5
<1>7. InHand(plan, report, revised, c)
  BY <1>3, <1>5, InSet DEF ClaimsInHand
<1>8. ~Alone(report, c, j)
  BY <1>2, <1>6, <1>7 DEF InHand
<1>9. PICK k \in 1..Len(report) : Begins(report[k].words, c) # {} /\ k # j
  BY <1>6, <1>8 DEF Alone
<1>10. DOMAIN report = 1..Len(report) /\ Len(report) \in Nat
  BY <1>2, LenProperties
<1>11. j \in places /\ k \in places
  BY <1>6, <1>9, <1>10
<1>12. IsFiniteSet(places)
  <2>1. IsFiniteSet(DOMAIN report)
    BY <1>10, FS_Interval
  <2>2. places \subseteq DOMAIN report
    OBVIOUS
  <2> HIDE DEF places
  <2>3. QED BY <2>1, <2>2, FS_Subset
<1> HIDE DEF places
<1>13. Cardinality(places) \in Nat /\ Cardinality(places) # 0
  BY <1>11, <1>12, FS_CardinalityType, FS_EmptySet
<1>14. Cardinality(places) # 1
  <2>1. SUFFICES ASSUME Cardinality(places) = 1 PROVE FALSE
    OBVIOUS
  <2>2. PICK x : places = {x}
    BY <1>12, <2>1, FS_Singleton
  <2>3. QED BY <1>9, <1>11, <2>2
<1>15. Cardinality(places) > 1
  BY <1>13, <1>14
<1>16. QED BY <1>15 DEF places, c

\* The score falls only where the Result heading came in over the lines.
LEMMA ScoreIsKept ==
    ASSUME ReviewInv, AnswerInv
    PROVE  ScoreKept
<1>1. SUFFICES ASSUME Revised, evidence # <<>>,
                      HasText(report, "Result") \/ report = <<>> \/ report[1].kind = "heading"
               PROVE  ~(Score(final) < Score(initial))
  BY DEF ScoreKept
<1>2. /\ plan = <<>> /\ report \in Seq(Lines) /\ revised \in Seq(Lines)
      /\ evidence \in Seq(Ids)
      /\ initial = Review(report, evidence) /\ final = Review(revised, evidence)
  BY <1>1 DEF ReviewInv, Reviewing, ReviewTyped, ReviewTypeOK
<1>3. /\ initial.errors = Errors(report, evidence) /\ initial.warnings = Warnings(report)
      /\ final.errors = Errors(revised, evidence) /\ final.warnings = Warnings(revised)
  BY <1>2 DEF Review
<1>4. final.errors \subseteq initial.errors
  BY <1>1, Mended DEF RevisionMends, NoNewError
<1>5. Len(Unsupported(report)) \in Nat /\ Len(Unsupported(revised)) \in Nat
  BY <1>2, UnsupportedAre, LenProperties
<1>6. /\ Warnings(report) \in Nat /\ Warnings(report) >= 0
      /\ Warnings(revised) \in Nat
  BY <1>5 DEF Warnings
<1>7. Warnings(revised) <= Warnings(report)
  <2>1. CASE HasText(report, "Result")
    <3>1. Grown(report, revised)
      BY <1>1, <2>1 DEF AnswerInv
    <3>2. Len(Unsupported(revised)) <= Len(Unsupported(report))
      BY <1>2, <3>1, FewerUnsupported
    <3>3. HasHeading(report, "Result") => HasHeading(revised, "Result")
      BY HeadingKept DEF ReviewInv, ReportKept
    <3>4. QED BY <1>5, <3>2, <3>3 DEF Warnings
  <2>2. CASE ~HasText(report, "Result")
    <3> DEFINE e == evidence[1]
               base == WithResult(report, First(evidence))
    <3>1. First(evidence) = <<e>> /\ e \in Ids
      BY <1>1, <1>2, FirstIs
    <3>2. ResultToCome
      BY <1>1, <2>2 DEF AnswerInv
    <3>3. Len(plan) = 0
      BY <1>2, EmptySeq
    <3>4. Grown(base, revised)
      BY <1>2, <3>2, <3>3 DEF ResultToCome
    <3> HIDE DEF e
    <3>5. base \in Seq(Lines)
      BY <1>2, <3>1, ResultGrows, GrownItself
    <3>6. Len(Unsupported(base)) = 0 /\ Titled(base, "Result")
      BY <1>1, <1>2, <2>2, <3>1, NothingUnsupported
    <3> HIDE DEF base
    <3>7. Len(Unsupported(revised)) = 0
      BY <1>2, <1>5, <3>4, <3>5, <3>6, FewerUnsupported
    <3>8. HasHeading(revised, "Result")
      <4>1. DOMAIN base = 1..Len(base) /\ DOMAIN revised = 1..Len(revised)
            /\ Len(base) \in Nat /\ Len(revised) \in Nat /\ Len(base) <= Len(revised)
        BY <1>2, <3>4, <3>5, LenProperties DEF Grown
      <4>2. PICK j \in 1..Len(base) : base[j] = ResultHeading
        BY <3>6, <4>1 DEF Titled, Has, ResultHeading
      <4>3. LineKept(base[j], revised[j])
        BY <3>4 DEF Grown
      <4>4. revised[j] = ResultHeading
        BY <4>2, <4>3, KeptTheHeading
      <4>5. j \in DOMAIN revised
        BY <4>1
      <4>6. Line("heading", <<"Result">>) \in ToSet(revised)
        BY <4>4, <4>5 DEF ToSet, ResultHeading
      <4>7. QED BY <4>6 DEF HasHeading, Spellings
    <3>9. Warnings(revised) = 0
      BY <3>7, <3>8 DEF Warnings
    <3>10. QED BY <1>6, <3>9
  <2>3. QED BY <2>1, <2>2
<1>8. IsFiniteSet(initial.errors)
  BY <1>2, <1>3, ErrorsFinite
<1>9. QED BY <1>3, <1>4, <1>6, <1>7, <1>8, ScoreFalls

-----------------------------------------------------------------------------
(* The theorems.                                                           *)

(* The types hold: no action of a plan that was applied is a no_op, and    *)
(* where no revision is allowed the report stays and the loop never runs   *)
(* (reviewer.py, ReportReviser.apply_plan; pipeline.py).                   *)
THEOREM ReviewTypeCorrect == ReviewSpec => []ReviewTypeOK
<1>1. ReviewInv => ReviewTypeOK
  BY DEF ReviewInv, ReviewTyped
<1>2. QED BY <1>1, ReviewInvariant, PTL

(* For every report, evidence list and number of attempts: a revision makes *)
(* up no error and no evidence, and with evidence it mends every error but  *)
(* a heading that only begins like the reviewer's (reviewer.py,             *)
(* ReviewReviseLoop.run).                                                   *)
THEOREM ReportIsMended == ReviewSpec => []RevisionMends
  BY Mended, ReviewInvariant, PTL

(* For every report, evidence list and number of attempts: of a report with *)
(* a Result section and evidence, a claim that a revision left without any  *)
(* stands in several places, where the replacement of its text stops at the *)
(* first; and the score falls only where the Result heading put on top of   *)
(* the report turned the lines below it into claims (reviewer.py,           *)
(* ReportReviser.apply_plan, _insert_citation, ReviewReviseLoop.run).       *)
THEOREM ClaimsAlwaysAnswered == ReviewSpec => []ClaimsAnswered
<1>1. ReviewInv /\ AnswerInv => ClaimsAnswered
  BY CitedWhereAlone, ScoreIsKept DEF ClaimsAnswered
<1>2. QED BY <1>1, ReviewInvariant, AnswersAlways, PTL
=============================================================================
