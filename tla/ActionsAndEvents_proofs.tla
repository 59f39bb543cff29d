------------------------ MODULE ActionsAndEvents_proofs ------------------------
(***************************************************************************)
(* Theorems about two components that share no variable and no name.       *)
(* Of EventStream, for every set of workers, endpoints and connections,    *)
(* and every number of events and status changes; of ActionPlanning, for   *)
(* every set of answers a model may give, and every budget of steps and of *)
(* repairs.                                                                *)
(***************************************************************************)
EXTENDS EventStream, ActionPlanning, SequenceTheorems, FiniteSetTheorems,
        WellFoundedInduction, TLAPS

-----------------------------------------------------------------------------
(* EventStream: the inductive invariant.                                   *)

Queued(s, e) == \E k \in DOMAIN queue[s] : queue[s][k] = e

\* An event on its way to the bus is the last its publisher appended, and is
\* in no queue yet; a list read for the file is no longer than the log.
Publishing ==
    \A p \in Publishers :
        /\ pub[p].at = "publish" =>
              /\ pub[p].event \in DOMAIN log
              /\ log[pub[p].event].by = p
              /\ \A e \in DOMAIN log : log[e].by = p => e <= pub[p].event
              /\ \A s \in Streams : ~Queued(s, pub[p].event)
        /\ pub[p].at = "write" => pub[p].snap <= Len(log)

\* A connection between its subscription and its end is known to the bus, and
\* what it holds are events of the log; what it sent it has seen.
Subscribed(s) ==
    /\ at[s] \notin {"off", "closed"} => s \in subs
    /\ \A k \in DOMAIN queue[s] : queue[s][k] \in DOMAIN log
    /\ \A k \in DOMAIN sent[s] : sent[s][k] \in DOMAIN log /\ sent[s][k] \in seen[s]

\* From the moment it has read the history, every event is in the history, was
\* seen, waits in the queue, or is about to be published.
Covered(s) ==
    at[s] \in {"noevents", "sending"} \cup Listening =>
        \A e \in DOMAIN log :
            \/ at[s] \in {"noevents", "sending"} /\ e <= history[s]
            \/ e \in seen[s] \/ Queued(s, e) \/ InFlight(e)

\* Within a queue, and from what was sent to what waits and is not yet seen,
\* the events of one publisher go up.
QueueOrder(s) ==
    \A i, j \in DOMAIN queue[s] :
        i < j /\ log[queue[s][i]].by = log[queue[s][j]].by
          => queue[s][i] < queue[s][j]

SentBeforeQueued(s) ==
    \A i \in DOMAIN sent[s], k \in DOMAIN queue[s] :
        log[sent[s][i]].by = log[queue[s][k]].by
          => queue[s][k] \in seen[s] \/ sent[s][i] < queue[s][k]

SentOrder(s) ==
    \A i, j \in DOMAIN sent[s] :
        i < j /\ log[sent[s][i]].by = log[sent[s][j]].by
          => sent[s][i] < sent[s][j]

Once(s) == \A i, j \in DOMAIN sent[s] : sent[s][i] = sent[s][j] => i = j

StreamInv(s) ==
    /\ Subscribed(s) /\ Covered(s) /\ QueueOrder(s) /\ SentBeforeQueued(s)
    /\ SentOrder(s) /\ Once(s)

\* As long as no two writes overlapped, one publisher writes at most, and the
\* file is whole or somebody who will make it whole is on the way.
FileOnTheWay ==
    ~overlap =>
        /\ \A p, q \in Publishers :
              pub[p].at = "write" /\ pub[q].at = "write" => p = q
        /\ \/ \E p \in Publishers : pub[p].at \in {"publish", "list"}
           \/ \E p \in Publishers : pub[p].at = "write" /\ pub[p].snap = Len(log)
           \/ file = Len(log) /\ \A p \in Publishers : pub[p].at # "write"

IInv ==
    /\ TypeOK /\ Publishing /\ FileOnTheWay
    /\ \A s \in Streams : StreamInv(s)

-----------------------------------------------------------------------------
(* EventStream: facts the steps share.                                     *)

\* The log and what the connections hold, as functions.
LEMMA LogIsASeq ==
    ASSUME TypeOK
    PROVE  /\ Len(log) \in Nat /\ DOMAIN log = 1..Len(log)
           /\ MaxEvents \in Nat /\ MaxMarks \in Nat
           /\ \A e \in DOMAIN log : e \in Ids /\ log[e] \in Event
BY LenProperties, ElementOfSeq, EventStreamAssumption DEF TypeOK, Ids

\* append_event: the events that are there keep their places.
LEMMA LogGrows ==
    ASSUME TypeOK, NEW p \in Publishers, AppendEvent(p)
    PROVE  /\ log' \in Seq(Event) /\ Len(log') = Len(log) + 1
           /\ Len(log') <= MaxEvents
           /\ DOMAIN log' = DOMAIN log \cup {Len(log) + 1}
           /\ \A e \in DOMAIN log : log'[e] = log[e] /\ e <= Len(log)
           /\ log'[Len(log) + 1].by = p
<1>1. PICK terminal \in BOOLEAN :
        log' = Append(log, [by |-> p, terminal |-> terminal])
  BY DEF AppendEvent
<1>2. [by |-> p, terminal |-> terminal] \in Event /\ log \in Seq(Event)
  BY DEF Event, TypeOK
<1>3. /\ log' \in Seq(Event) /\ Len(log') = Len(log) + 1
      /\ \A e \in 1..Len(log) : log'[e] = log[e]
      /\ log'[Len(log) + 1] = [by |-> p, terminal |-> terminal]
  BY <1>1, <1>2, AppendProperties
<1>4. DOMAIN log = 1..Len(log) /\ Len(log) \in Nat /\ MaxEvents \in Nat
  BY LogIsASeq
<1>5. DOMAIN log' = 1..Len(log')
  BY <1>3, LenProperties
<1>6. Len(log) < MaxEvents
  BY DEF AppendEvent
<1>7. DOMAIN log' = DOMAIN log \cup {Len(log) + 1}
  BY <1>3, <1>4, <1>5
<1>8. QED BY <1>3, <1>4, <1>6, <1>7

\* put_nowait: what was queued stays in its place, the event comes last.
LEMMA QueueGrows ==
    ASSUME TypeOK, Publishing, NEW p \in Publishers, Publish(p), NEW s \in subs
    PROVE  /\ s \in Streams /\ queue'[s] \in Seq(Ids)
           /\ DOMAIN queue'[s] = DOMAIN queue[s] \cup {Len(queue[s]) + 1}
           /\ \A k \in DOMAIN queue[s] : queue'[s][k] = queue[s][k]
           /\ queue'[s][Len(queue[s]) + 1] = pub[p].event
           /\ \A k \in DOMAIN queue[s] : k < Len(queue[s]) + 1
           /\ Len(queue[s]) + 1 \notin DOMAIN queue[s]
<1>1. s \in Streams /\ queue[s] \in Seq(Ids)
  BY DEF TypeOK
<1>2. pub[p].event \in Ids
  BY LogIsASeq DEF Publish, Publishing
<1>3. queue'[s] = Append(queue[s], pub[p].event)
  BY <1>1 DEF Publish
<1>4. /\ queue'[s] \in Seq(Ids) /\ Len(queue'[s]) = Len(queue[s]) + 1
      /\ \A k \in 1..Len(queue[s]) : queue'[s][k] = queue[s][k]
      /\ queue'[s][Len(queue[s]) + 1] = pub[p].event
  BY <1>1, <1>2, <1>3, AppendProperties
<1>5. /\ DOMAIN queue[s] = 1..Len(queue[s]) /\ Len(queue[s]) \in Nat
      /\ DOMAIN queue'[s] = 1..Len(queue'[s])
  BY <1>1, <1>4, LenProperties
<1>6. DOMAIN queue'[s] = DOMAIN queue[s] \cup {Len(queue[s]) + 1}
  BY <1>4, <1>5
<1>7. QED BY <1>1, <1>4, <1>5, <1>6

\* queue.get: the others move up, in their order.
LEMMA QueueShrinks ==
    ASSUME NEW q \in Seq(Ids), q # <<>>
    PROVE  /\ Head(q) = q[1] /\ 1 \in DOMAIN q /\ Head(q) \in Ids
           /\ Tail(q) \in Seq(Ids)
           /\ DOMAIN q \subseteq Nat /\ DOMAIN Tail(q) \subseteq Nat
           /\ \A k \in DOMAIN Tail(q) : k + 1 \in DOMAIN q /\ Tail(q)[k] = q[k + 1]
           /\ \A k \in DOMAIN q : k = 1 \/ k - 1 \in DOMAIN Tail(q)
<1>1. /\ Tail(q) \in Seq(Ids) /\ Len(Tail(q)) = Len(q) - 1 /\ Head(q) \in Ids
      /\ \A k \in 1..Len(Tail(q)) : Tail(q)[k] = q[k + 1]
  BY HeadTailProperties
<1>2. Len(q) \in Nat /\ DOMAIN q = 1..Len(q) /\ Len(q) # 0
  BY LenProperties, EmptySeq
<1>3. DOMAIN Tail(q) = 1..Len(Tail(q))
  BY <1>1, LenProperties
<1>4. Head(q) = q[1]
  OBVIOUS
<1>5. QED BY <1>1, <1>2, <1>3, <1>4

\* A list of the first events.
LEMMA FirstEvents ==
    ASSUME TypeOK, NEW s \in Streams
    PROVE  LET l == [i \in 1..history[s] |-> i]
           IN  /\ l \in Seq(Ids) /\ 1..history[s] \subseteq DOMAIN log
               /\ DOMAIN l = 1..history[s] /\ \A i \in 1..history[s] : l[i] = i
<1>1. history[s] \in Nat /\ history[s] <= Len(log) /\ Len(log) <= MaxEvents
  BY LogIsASeq DEF TypeOK
<1>2. 1..history[s] \subseteq Ids /\ 1..history[s] \subseteq DOMAIN log
  BY <1>1, LogIsASeq DEF Ids
<1>3. [i \in 1..history[s] |-> i] \in Seq(Ids)
  BY <1>1, <1>2
<1>4. QED BY <1>2, <1>3

\* Appending to what was sent: the event comes last.
LEMMA SentGrows ==
    ASSUME NEW q \in Seq(Ids), NEW e \in Ids
    PROVE  /\ Append(q, e) \in Seq(Ids)
           /\ DOMAIN Append(q, e) = DOMAIN q \cup {Len(q) + 1}
           /\ \A k \in DOMAIN q : Append(q, e)[k] = q[k] /\ k < Len(q) + 1
           /\ Append(q, e)[Len(q) + 1] = e
           /\ Len(q) + 1 \notin DOMAIN q
<1>1. /\ Append(q, e) \in Seq(Ids) /\ Len(Append(q, e)) = Len(q) + 1
      /\ \A k \in 1..Len(q) : Append(q, e)[k] = q[k]
      /\ Append(q, e)[Len(q) + 1] = e
  BY AppendProperties
<1>2. /\ DOMAIN q = 1..Len(q) /\ Len(q) \in Nat
      /\ DOMAIN Append(q, e) = 1..Len(Append(q, e))
  BY <1>1, LenProperties
<1>3. QED BY <1>1, <1>2

-----------------------------------------------------------------------------
(* EventStream: types.                                                     *)

\* A step of a connection that does not append to the log keeps the types of
\* the task; one that only serves it keeps those of the connections.
TaskTyped ==
    /\ log \in Seq(Event) /\ Len(log) <= MaxEvents
    /\ file \in 0..Len(log)
    /\ status \in {"running", "other"}
    /\ pub \in [Publishers -> [at : {"idle", "publish", "list", "write"},
                               event : 0..MaxEvents, snap : 0..MaxEvents]]
    /\ settled \subseteq Workers
    /\ marks \in 0..MaxMarks

ConnTyped ==
    /\ queue \in [Streams -> Seq(Ids)]
    /\ subs \subseteq Streams
    /\ at \in [Streams -> Place]
    /\ history \in [Streams -> 0..Len(log)]
    /\ seen \in [Streams -> SUBSET Ids]
    /\ sent \in [Streams -> Seq(Ids)]

LEMMA TypeParts == TypeOK <=> TaskTyped /\ ConnTyped /\ overlap \in BOOLEAN
BY DEF TypeOK, TaskTyped, ConnTyped

LEMMA TypePartsNext ==
    TypeOK' <=> TaskTyped' /\ ConnTyped' /\ (overlap \in BOOLEAN)'
BY TypeParts, PTL

\* The steps of the publishers and of the status.
LEMMA TaskStep ==
    ASSUME TypeOK, Publishing,
           \/ \E p \in Publishers : AppendEvent(p) \/ Publish(p) \/ Write(p)
           \/ \E w \in Workers : Settle(w)
           \/ Mark
    PROVE  TypeOK'
<1> USE DEF TaskTyped, ConnTyped, connVars
<1>0. /\ TaskTyped /\ ConnTyped /\ overlap \in BOOLEAN
      /\ Len(log) \in Nat /\ MaxEvents \in Nat /\ MaxMarks \in Nat
      /\ Workers \subseteq Publishers
  BY LogIsASeq, TypeParts DEF Publishers
<1>1. ASSUME NEW p \in Publishers, AppendEvent(p) PROVE TypeOK'
  <2>1. log' \in Seq(Event) /\ Len(log') = Len(log) + 1 /\ Len(log') <= MaxEvents
    BY <1>1, LogGrows
  <2>2. pub' \in [Publishers -> [at : {"idle", "publish", "list", "write"},
                                 event : 0..MaxEvents, snap : 0..MaxEvents]]
    <3>1. Len(log) + 1 \in 0..MaxEvents
      BY <1>0, <2>1
    <3>2. [pub[p] EXCEPT !.at = "publish", !.event = Len(log) + 1]
            \in [at : {"idle", "publish", "list", "write"},
                event : 0..MaxEvents, snap : 0..MaxEvents]
      BY <1>0, <3>1
    <3>3. QED BY <1>0, <1>1, <3>2 DEF AppendEvent
  <2>3. file' \in 0..Len(log') /\ history' \in [Streams -> 0..Len(log')]
    <3>1. 0..Len(log) \subseteq 0..Len(log')
      BY <1>0, <2>1
    <3>2. file' = file /\ history' = history
      BY <1>1 DEF AppendEvent
    <3>3. QED BY <1>0, <3>1, <3>2
  <2>4. QED BY <1>0, <1>1, <2>1, <2>2, <2>3, TypePartsNext DEF AppendEvent
<1>2. ASSUME NEW p \in Publishers, Publish(p) PROVE TypeOK'
  <2>1. \A s \in subs : queue'[s] \in Seq(Ids)
    BY <1>2, QueueGrows
  <2>2. queue' \in [Streams -> Seq(Ids)]
    BY <1>0, <1>2, <2>1 DEF Publish
  <2>3. at' \in [Streams -> Place]
    BY <1>0, <1>2 DEF Publish, Place
  <2>4. TaskTyped'
    BY <1>0, <1>2 DEF Publish
  <2>5. QED BY <1>0, <1>2, <2>2, <2>3, <2>4, TypePartsNext DEF Publish
<1>3. ASSUME NEW p \in Publishers, ListEvents(p) PROVE TypeOK'
  <2>1. TaskTyped'
    BY <1>0, <1>3 DEF ListEvents
  <2>2. overlap' \in BOOLEAN
    BY <1>0, <1>3, Zenon DEF ListEvents
  <2>3. ConnTyped'
    BY <1>0, <1>3 DEF ListEvents
  <2>4. QED BY <2>1, <2>2, <2>3, TypePartsNext
<1>4. ASSUME NEW p \in Publishers, WriteFile(p) PROVE TypeOK'
  <2>1. pub[p].snap <= Len(log) /\ pub[p].snap \in Nat
    BY <1>0, <1>4 DEF WriteFile, Publishing
  <2>2. TaskTyped'
    BY <1>0, <1>4, <2>1 DEF WriteFile, Idle
  <2>3. QED BY <1>0, <1>4, <2>2, TypePartsNext DEF WriteFile
<1>5. ASSUME NEW w \in Workers, Settle(w) PROVE TypeOK'
  <2>1. TaskTyped'
    BY <1>0, <1>5 DEF Settle
  <2>2. QED BY <1>0, <1>5, <2>1, TypePartsNext DEF Settle
<1>6. CASE Mark
  <2>1. TaskTyped'
    BY <1>0, <1>6 DEF Mark
  <2>2. QED BY <1>0, <1>6, <2>1, TypePartsNext DEF Mark
<1>7. QED BY <1>1, <1>2, <1>3, <1>4, <1>5, <1>6 DEF Write

\* The steps of the connections.
LEMMA ConnStep ==
    ASSUME TypeOK, NEW s \in Streams, Open(s) \/ Serve(s) \/ Disconnect(s)
    PROVE  TypeOK' /\ UNCHANGED taskVars
<1> USE DEF ConnTyped
<1>0. /\ ConnTyped /\ TaskTyped /\ Len(log) \in Nat /\ 0 \in 0..Len(log)
      /\ <<>> \in Seq(Ids)
  BY LogIsASeq, TypeParts, EmptySeq
<1>1. UNCHANGED taskVars
  BY DEF Open, Serve, ReadHistory, NoHistory, SendHistory, CheckStatus, Deliver,
         LookEmpty, Register, Disconnect
<1>2. TaskTyped' /\ (overlap \in BOOLEAN)'
  BY <1>0, <1>1, TypeParts DEF TaskTyped, taskVars
<1>3. log' = log
  BY <1>1 DEF taskVars
<1>4. ASSUME NEW place \in Place, Goto(s, place) PROVE at' \in [Streams -> Place]
  BY <1>0, <1>4 DEF Goto
<1>5. ASSUME Close(s)
      PROVE  /\ at' \in [Streams -> Place] /\ subs' \subseteq Streams
             /\ queue' \in [Streams -> Seq(Ids)]
             /\ history' \in [Streams -> 0..Len(log)]
  <2>1. at' \in [Streams -> Place]
    BY <1>4, <1>5 DEF Close, Place
  <2>2. QED BY <1>0, <1>5, <2>1 DEF Close
<1>6. CASE Open(s)
  <2>1. at' \in [Streams -> Place]
    BY <1>4, <1>6 DEF Open, Place
  <2>2. ConnTyped'
    BY <1>0, <1>3, <1>6, <2>1 DEF Open
  <2>3. QED BY <1>1, <1>2, <2>2, TypePartsNext
<1>7. CASE ReadHistory(s)
  <2>1. at' \in [Streams -> Place]
    BY <1>4, <1>7 DEF ReadHistory, Place
  <2>2. Len(log) \in 0..Len(log)
    BY <1>0
  <2>3. history' \in [Streams -> 0..Len(log)]
    BY <1>0, <1>7, <2>2 DEF ReadHistory
  <2>4. ConnTyped'
    BY <1>0, <1>3, <1>7, <2>1, <2>3 DEF ReadHistory
  <2>5. QED BY <1>1, <1>2, <2>4, TypePartsNext
<1>8. CASE NoHistory(s) \/ CheckStatus(s)
  <2>1. Goto(s, "sending") => at' \in [Streams -> Place]
    BY <1>4 DEF Place
  <2>2. Goto(s, "live") => at' \in [Streams -> Place]
    BY <1>4 DEF Place
  <2>3. ConnTyped'
    BY <1>0, <1>3, <1>5, <1>8, <2>1, <2>2 DEF NoHistory, CheckStatus
  <2>4. QED BY <1>1, <1>2, <2>3, TypePartsNext
<1>9. CASE SendHistory(s)
  <2>1. at' \in [Streams -> Place]
    BY <1>4, <1>9 DEF SendHistory, Place
  <2>2. /\ [i \in 1..history[s] |-> i] \in Seq(Ids)
        /\ 1..history[s] \subseteq Ids
    BY FirstEvents, LogIsASeq
  <2>3. ConnTyped'
    BY <1>0, <1>3, <1>9, <2>1, <2>2 DEF SendHistory
  <2>4. QED BY <1>1, <1>2, <2>3, TypePartsNext
<1>10. CASE Deliver(s)
  <2>1. queue[s] \in Seq(Ids) /\ queue[s] # <<>> /\ sent[s] \in Seq(Ids)
    BY <1>0, <1>10 DEF Deliver
  <2>2. Head(queue[s]) \in Ids /\ Tail(queue[s]) \in Seq(Ids)
    BY <2>1, QueueShrinks
  <2>3. Append(sent[s], Head(queue[s])) \in Seq(Ids)
    BY <2>1, <2>2, SentGrows
  <2>4. /\ seen' \in [Streams -> SUBSET Ids]
        /\ sent' \in [Streams -> Seq(Ids)]
    BY <1>0, <1>10, <2>2, <2>3 DEF Deliver
  <2>5. /\ at' \in [Streams -> Place] /\ subs' \subseteq Streams
        /\ queue' \in [Streams -> Seq(Ids)]
        /\ history' \in [Streams -> 0..Len(log)]
    BY <1>0, <1>5, <1>10, <2>2 DEF Deliver
  <2>6. ConnTyped'
    BY <1>3, <2>4, <2>5
  <2>7. QED BY <1>1, <1>2, <2>6, TypePartsNext
<1>11. CASE LookEmpty(s) \/ Register(s)
  <2>1. at' \in [Streams -> Place]
    BY <1>4, <1>11 DEF LookEmpty, Register, Place
  <2>2. ConnTyped'
    BY <1>0, <1>3, <1>11, <2>1 DEF LookEmpty, Register
  <2>3. QED BY <1>1, <1>2, <2>2, TypePartsNext
<1>12. CASE Disconnect(s)
  <2>1. ConnTyped'
    BY <1>0, <1>3, <1>5, <1>12 DEF Disconnect
  <2>2. QED BY <1>1, <1>2, <2>1, TypePartsNext
<1>13. QED
  BY <1>6, <1>7, <1>8, <1>9, <1>10, <1>11, <1>12 DEF Serve

-----------------------------------------------------------------------------
(* The publishers.                                                         *)

\* What a publisher's place becomes in each step of its own.
LEMMA PlaceOf ==
    ASSUME TypeOK, NEW p \in Publishers
    PROVE  /\ AppendEvent(p) => /\ pub'[p].at = "publish"
                                /\ pub'[p].event = Len(log) + 1
                                /\ \A q \in Publishers \ {p} : pub'[q] = pub[q]
           /\ Publish(p) => /\ pub'[p].at = "list"
                            /\ \A q \in Publishers \ {p} : pub'[q] = pub[q]
           /\ ListEvents(p) => /\ pub'[p].at = "write" /\ pub'[p].snap = Len(log)
                               /\ \A q \in Publishers \ {p} : pub'[q] = pub[q]
           /\ WriteFile(p) => /\ pub'[p].at = "idle"
                              /\ \A q \in Publishers \ {p} : pub'[q] = pub[q]
           /\ Settle(p) => /\ pub'[p].at = "list"
                           /\ \A q \in Publishers \ {p} : pub'[q] = pub[q]
<1>1. /\ pub \in [Publishers -> [at : {"idle", "publish", "list", "write"},
                                 event : 0..MaxEvents, snap : 0..MaxEvents]]
  BY DEF TypeOK
<1>2. ASSUME NEW new, pub' = [pub EXCEPT ![p] = new]
      PROVE  pub'[p] = new /\ \A q \in Publishers \ {p} : pub'[q] = pub[q]
  BY <1>1, <1>2
<1>3. AppendEvent(p) =>
        pub' = [pub EXCEPT ![p] = [pub[p] EXCEPT !.at = "publish",
                                                 !.event = Len(log) + 1]]
  BY DEF AppendEvent
<1>4. /\ [pub[p] EXCEPT !.at = "publish", !.event = Len(log) + 1].at = "publish"
      /\ [pub[p] EXCEPT !.at = "publish", !.event = Len(log) + 1].event = Len(log) + 1
      /\ [pub[p] EXCEPT !.at = "list"].at = "list"
  BY <1>1
<1>5. Publish(p) \/ Settle(p) =>
        pub' = [pub EXCEPT ![p] = [pub[p] EXCEPT !.at = "list"]]
  BY <1>1 DEF Publish, Settle
<1>6. AppendEvent(p) => /\ pub'[p].at = "publish" /\ pub'[p].event = Len(log) + 1
                        /\ \A q \in Publishers \ {p} : pub'[q] = pub[q]
  BY <1>2, <1>3, <1>4
<1>7. Publish(p) \/ Settle(p) => /\ pub'[p].at = "list"
                                 /\ \A q \in Publishers \ {p} : pub'[q] = pub[q]
  BY <1>2, <1>4, <1>5
<1>8. ListEvents(p) => /\ pub'[p].at = "write" /\ pub'[p].snap = Len(log)
                       /\ \A q \in Publishers \ {p} : pub'[q] = pub[q]
  <2>1. PICK new : new = [at |-> "write", event |-> 0, snap |-> Len(log)]
    OBVIOUS
  <2>2. ListEvents(p) => pub' = [pub EXCEPT ![p] = new]
    BY <2>1 DEF ListEvents
  <2>3. new.at = "write" /\ new.snap = Len(log)
    BY <2>1
  <2>4. QED BY <1>2, <2>2, <2>3
<1>9. WriteFile(p) => /\ pub'[p].at = "idle"
                      /\ \A q \in Publishers \ {p} : pub'[q] = pub[q]
  <2>1. WriteFile(p) => pub' = [pub EXCEPT ![p] = Idle]
    BY DEF WriteFile
  <2>2. Idle.at = "idle"
    BY DEF Idle
  <2>3. QED BY <1>2, <2>1, <2>2
<1>10. QED BY <1>6, <1>7, <1>8, <1>9

\* A step of the task that is neither an append nor a publish leaves alone
\* what the connections depend on.
LEMMA InFlightKept ==
    ASSUME TypeOK, NEW p \in Publishers, Write(p) \/ Settle(p)
    PROVE  \A e : InFlight(e)' <=> InFlight(e)
<1>1. pub[p].at # "publish" /\ pub'[p].at # "publish"
  BY PlaceOf DEF Write, ListEvents, WriteFile, Settle
<1>2. \A q \in Publishers \ {p} : pub'[q] = pub[q]
  BY PlaceOf DEF Write
<1>3. QED BY <1>1, <1>2 DEF InFlight

\* Publishing is kept by every step of the task.
LEMMA PublishingTask ==
    ASSUME IInv, 
           \/ \E p \in Publishers : AppendEvent(p) \/ Publish(p) \/ Write(p)
           \/ \E w \in Workers : Settle(w)
           \/ Mark
    PROVE  Publishing'
<1> USE DEF Publishing, IInv
<1>0. /\ Len(log) \in Nat /\ DOMAIN log = 1..Len(log) /\ Workers \subseteq Publishers
  BY LogIsASeq DEF Publishers
<1>1. ASSUME NEW p \in Publishers, AppendEvent(p) PROVE Publishing'
  <2>1. /\ DOMAIN log' = DOMAIN log \cup {Len(log) + 1} /\ Len(log') = Len(log) + 1
        /\ \A e \in DOMAIN log : log'[e] = log[e] /\ e <= Len(log)
        /\ log'[Len(log) + 1].by = p
    BY <1>1, LogGrows
  <2>2. /\ pub[p].at = "idle" /\ pub'[p].at = "publish" /\ pub'[p].event = Len(log) + 1
        /\ \A q \in Publishers \ {p} : pub'[q] = pub[q]
    BY <1>1, PlaceOf DEF AppendEvent
  <2>3. queue' = queue
    BY <1>1 DEF AppendEvent, connVars
  <2>4. \A s \in Streams : ~Queued(s, Len(log) + 1)
    BY <1>0 DEF StreamInv, Subscribed, Queued
  <2>5. ASSUME NEW q \in Publishers, pub'[q].at = "publish"
        PROVE  /\ pub'[q].event \in DOMAIN log'
               /\ log'[pub'[q].event].by = q
               /\ \A e \in DOMAIN log' : log'[e].by = q => e <= pub'[q].event
               /\ \A s \in Streams : ~Queued(s, pub[q].event)'
    <3>1. CASE q = p
      BY <1>0, <2>1, <2>2, <2>3, <2>4, <3>1 DEF Queued
    <3>2. CASE q # p
      BY <2>1, <2>2, <2>3, <2>5, <3>2 DEF Queued
    <3>3. QED BY <3>1, <3>2
  <2>6. ASSUME NEW q \in Publishers, pub'[q].at = "write"
        PROVE  pub'[q].snap <= Len(log')
    <3>1. q # p /\ pub'[q] = pub[q] /\ pub[q].snap <= Len(log)
      BY <2>2, <2>6
    <3>2. pub[q].snap \in Nat
      BY DEF TypeOK
    <3>3. QED BY <1>0, <2>1, <3>1, <3>2
  <2>7. QED BY <2>5, <2>6 DEF Publishing
<1>2. ASSUME NEW p \in Publishers, Publish(p) PROVE Publishing'
  <2>1. /\ pub[p].at = "publish" /\ pub'[p].at = "list" /\ log' = log
        /\ \A q \in Publishers \ {p} : pub'[q] = pub[q]
    BY <1>2, PlaceOf DEF Publish
  <2>2. ASSUME NEW q \in Publishers \ {p}, pub[q].at = "publish", NEW s \in Streams
        PROVE  ~Queued(s, pub[q].event)'
    <3>1. pub[q].event # pub[p].event
      BY <2>1, <2>2
    <3>2. ~Queued(s, pub[q].event)
      BY <2>2
    <3>3. CASE s \in subs
      <4>1. /\ DOMAIN queue'[s] = DOMAIN queue[s] \cup {Len(queue[s]) + 1}
            /\ \A k \in DOMAIN queue[s] : queue'[s][k] = queue[s][k]
            /\ queue'[s][Len(queue[s]) + 1] = pub[p].event
        BY <1>2, <3>3, QueueGrows
      <4>2. pub'[q].event = pub[q].event
        BY <2>1
      <4>3. QED BY <3>1, <3>2, <4>1, <4>2 DEF Queued
    <3>4. CASE s \notin subs
      <4>1. queue'[s] = queue[s] /\ pub'[q].event = pub[q].event
        BY <1>2, <2>1, <3>4 DEF Publish
      <4>2. QED BY <3>2, <4>1 DEF Queued
    <3>5. QED BY <3>3, <3>4
  <2>3. QED BY <2>1, <2>2 DEF Queued
<1>3. ASSUME NEW p \in Publishers, Write(p) \/ Settle(p) PROVE Publishing'
  <2>1. /\ pub'[p].at # "publish" /\ log' = log /\ queue' = queue
        /\ pub'[p].at = "write" => pub'[p].snap = Len(log)
        /\ \A q \in Publishers \ {p} : pub'[q] = pub[q]
    BY <1>3, PlaceOf DEF Write, ListEvents, WriteFile, Settle, connVars
  <2>2. QED BY <1>0, <2>1 DEF Queued
<1>4. CASE Mark
  BY <1>4 DEF Mark, connVars, Queued
<1>5. QED BY <1>0, <1>1, <1>2, <1>3, <1>4

\* And the account of the file.
LEMMA FileTask ==
    ASSUME IInv,
           \/ \E p \in Publishers : AppendEvent(p) \/ Publish(p) \/ Write(p)
           \/ \E w \in Workers : Settle(w)
           \/ Mark
    PROVE  FileOnTheWay'
<1> USE DEF FileOnTheWay, IInv
<1>0. Len(log) \in Nat /\ Workers \subseteq Publishers
  BY LogIsASeq DEF Publishers
<1>1. ASSUME NEW p \in Publishers, AppendEvent(p) \/ Publish(p) \/ Settle(p)
      PROVE  FileOnTheWay'
  <2>1. /\ pub'[p].at \in {"publish", "list"} /\ overlap' = overlap
        /\ \A q \in Publishers \ {p} : pub'[q] = pub[q]
    BY <1>1, PlaceOf DEF AppendEvent, Publish, Settle
  <2>2. QED BY <2>1
<1>2. ASSUME NEW p \in Publishers, ListEvents(p) PROVE FileOnTheWay'
  <2>1. /\ pub'[p].at = "write" /\ pub'[p].snap = Len(log) /\ log' = log
        /\ \A q \in Publishers \ {p} : pub'[q] = pub[q]
    BY <1>2, PlaceOf DEF ListEvents
  <2>2. ~overlap' => \A q \in Publishers : pub[q].at # "write"
    BY <1>2 DEF ListEvents
  <2>3. QED BY <2>1, <2>2
<1>3. ASSUME NEW p \in Publishers, WriteFile(p) PROVE FileOnTheWay'
  <2>1. /\ pub[p].at = "write" /\ pub'[p].at = "idle"
        /\ log' = log /\ overlap' = overlap
        /\ \A q \in Publishers \ {p} : pub'[q] = pub[q]
    BY <1>3, PlaceOf DEF WriteFile
  <2>2. ~overlap => file' = pub[p].snap
    BY <1>3 DEF WriteFile
  <2>3. QED BY <2>1, <2>2
<1>4. CASE Mark
  BY <1>4 DEF Mark
<1>5. QED BY <1>0, <1>1, <1>2, <1>3, <1>4 DEF Write

-----------------------------------------------------------------------------
(* The connections.                                                        *)

\* What a connection holds does not change while its own variables do not, and
\* neither the log nor the publishers do.
LEMMA Untouched ==
    ASSUME NEW s \in Streams, StreamInv(s), log' = log,
           \A e : InFlight(e) => InFlight(e)',
           at'[s] = at[s], queue'[s] = queue[s], history'[s] = history[s],
           seen'[s] = seen[s], sent'[s] = sent[s], s \in subs => s \in subs'
    PROVE  StreamInv(s)'
<1> USE DEF StreamInv
<1>1. Subscribed(s)'
  BY DEF Subscribed
<1>2. Covered(s)'
  BY DEF Covered, Queued
<1>3. QueueOrder(s)' /\ SentBeforeQueued(s)'
  BY DEF QueueOrder, SentBeforeQueued
<1>4. SentOrder(s)' /\ Once(s)'
  BY DEF SentOrder, Once
<1>5. QED BY <1>1, <1>2, <1>3, <1>4

\* A new event is about to be published when it is in the log.
LEMMA StreamAppend ==
    ASSUME IInv, NEW p \in Publishers, AppendEvent(p), NEW s \in Streams
    PROVE  StreamInv(s)'
<1> USE DEF IInv, StreamInv
<1>1. /\ DOMAIN log' = DOMAIN log \cup {Len(log) + 1}
      /\ \A e \in DOMAIN log : log'[e] = log[e]
  BY LogGrows
<1>2. /\ at' = at /\ queue' = queue /\ history' = history /\ seen' = seen
      /\ sent' = sent /\ subs' = subs
  BY DEF AppendEvent, connVars
<1>3. Subscribed(s)'
  BY <1>1, <1>2 DEF Subscribed
<1>4. \A e : InFlight(e) => InFlight(e)'
  BY PlaceOf DEF InFlight, AppendEvent
<1>5. \A f : f = Len(log) + 1 => InFlight(f)'
  <2>1. pub'[p].at = "publish" /\ pub'[p].event = Len(log) + 1
    BY PlaceOf
  <2>2. QED BY <2>1 DEF InFlight
<1>6. Covered(s)'
  BY <1>1, <1>2, <1>4, <1>5 DEF Covered, Queued
<1>7. QueueOrder(s)' /\ SentBeforeQueued(s)'
  BY <1>1, <1>2 DEF QueueOrder, SentBeforeQueued, Subscribed
<1>8. SentOrder(s)' /\ Once(s)'
  BY <1>1, <1>2 DEF SentOrder, Once, Subscribed
<1>9. QED BY <1>3, <1>6, <1>7, <1>8

\* A published event is in the queue of every subscriber, behind all that its
\* publisher queued before.
LEMMA StreamPublish ==
    ASSUME IInv, NEW p \in Publishers, Publish(p), NEW s \in Streams
    PROVE  StreamInv(s)'
<1> USE DEF IInv, StreamInv
<1> DEFINE e == pub[p].event
           n == Len(queue[s]) + 1
<1>1. /\ log' = log /\ history' = history /\ seen' = seen /\ sent' = sent
      /\ subs' = subs
  BY DEF Publish
<1>2. /\ at'[s] = (IF s \in subs /\ at[s] = "asleep" THEN "live" ELSE at[s])
      /\ s \notin subs => queue'[s] = queue[s]
  BY DEF Publish
<1>3. /\ e \in DOMAIN log /\ log[e].by = p
      /\ \A f \in DOMAIN log : log[f].by = p => f <= e
      /\ \A k \in DOMAIN queue[s] : queue[s][k] # e
      /\ DOMAIN log \subseteq Nat
  BY LogIsASeq DEF Publish, Publishing, Queued, Ids
<1>4. \A f : InFlight(f) => InFlight(f)' \/ f = e
  BY PlaceOf DEF InFlight
<1>5. CASE s \notin subs
  <2>1. at[s] \in {"off", "closed"} /\ at'[s] = at[s]
    BY <1>2, <1>5 DEF Subscribed
  <2>2. Subscribed(s)'
    BY <1>1, <1>2, <1>5, <2>1 DEF Subscribed
  <2>3. Covered(s)'
    BY <2>1 DEF Covered, Listening
  <2>4. QueueOrder(s)' /\ SentBeforeQueued(s)'
    BY <1>1, <1>2, <1>5 DEF QueueOrder, SentBeforeQueued
  <2>5. SentOrder(s)' /\ Once(s)'
    BY <1>1 DEF SentOrder, Once
  <2>6. QED BY <2>2, <2>3, <2>4, <2>5
<1>6. CASE s \in subs
  <2>1. /\ DOMAIN queue'[s] = DOMAIN queue[s] \cup {n}
        /\ \A k \in DOMAIN queue[s] : queue'[s][k] = queue[s][k] /\ k < n
        /\ queue'[s][n] = e
        /\ n \notin DOMAIN queue[s]
    BY <1>6, QueueGrows
  <2>2. DOMAIN queue[s] \subseteq Nat /\ n \in Nat
    <3>1. queue[s] \in Seq(Ids)
      BY DEF TypeOK
    <3>2. QED BY <3>1, LenProperties
  <2> HIDE DEF e, n
  <2>3. Subscribed(s)'
    BY <1>1, <1>2, <1>3, <1>6, <2>1 DEF Subscribed
  <2>4. Covered(s)'
    <3>1. /\ at[s] \in {"noevents", "sending"} <=> at'[s] \in {"noevents", "sending"}
          /\ at[s] \in Listening <=> at'[s] \in Listening
      BY <1>2 DEF Listening
    <3>2. \A f : Queued(s, f) => Queued(s, f)'
      BY <2>1 DEF Queued
    <3>3. \A f : f = e => Queued(s, f)'
      BY <2>1 DEF Queued
    <3>4. QED BY <1>1, <1>4, <3>1, <3>2, <3>3 DEF Covered
  <2>5. QueueOrder(s)'
    <3> SUFFICES ASSUME NEW i \in DOMAIN queue'[s], NEW j \in DOMAIN queue'[s],
                        i < j, log[queue'[s][i]].by = log[queue'[s][j]].by
                 PROVE  queue'[s][i] < queue'[s][j]
      BY <1>1 DEF QueueOrder
    <3>1. i # n
      BY <2>1, <2>2
    <3>2. i \in DOMAIN queue[s] /\ queue'[s][i] = queue[s][i]
      BY <2>1, <3>1
    <3>3. CASE j = n
      <4>1. queue[s][i] \in DOMAIN log /\ log[queue[s][i]].by = p
        BY <1>3, <2>1, <3>2, <3>3 DEF Subscribed
      <4>2. queue[s][i] <= e /\ queue[s][i] # e
        BY <1>3, <3>2, <4>1
      <4>3. queue[s][i] \in Nat /\ e \in Nat
        BY <1>3, <4>1
      <4>4. QED BY <2>1, <3>2, <3>3, <4>2, <4>3
    <3>4. CASE j # n
      BY <2>1, <3>2, <3>4 DEF QueueOrder
    <3>5. QED BY <3>3, <3>4
  <2>6. SentBeforeQueued(s)'
    <3> SUFFICES ASSUME NEW i \in DOMAIN sent[s], NEW k \in DOMAIN queue'[s],
                        log[sent[s][i]].by = log[queue'[s][k]].by
                 PROVE  queue'[s][k] \in seen[s] \/ sent[s][i] < queue'[s][k]
      BY <1>1 DEF SentBeforeQueued
    <3>1. sent[s][i] \in DOMAIN log /\ sent[s][i] \in seen[s]
      BY DEF Subscribed
    <3>2. CASE k = n
      <4>1. sent[s][i] <= e /\ sent[s][i] \in Nat /\ e \in Nat
        BY <1>3, <2>1, <3>1, <3>2
      <4>2. QED BY <2>1, <3>1, <3>2, <4>1
    <3>3. CASE k # n
      BY <2>1, <3>3 DEF SentBeforeQueued
    <3>4. QED BY <3>2, <3>3
  <2>7. SentOrder(s)' /\ Once(s)'
    BY <1>1 DEF SentOrder, Once
  <2>8. QED BY <2>3, <2>4, <2>5, <2>6, <2>7
<1>7. QED BY <1>5, <1>6

\* The steps of the task keep what the connections hold.
LEMMA StreamTask ==
    ASSUME IInv, NEW s \in Streams,
           \/ \E p \in Publishers : AppendEvent(p) \/ Publish(p) \/ Write(p)
           \/ \E w \in Workers : Settle(w)
           \/ Mark
    PROVE  StreamInv(s)'
<1> USE DEF IInv
<1>1. ASSUME NEW p \in Publishers, Write(p) \/ Settle(p) PROVE StreamInv(s)'
  <2>1. log' = log /\ UNCHANGED connVars
    BY <1>1 DEF Write, ListEvents, WriteFile, Settle
  <2>2. \A e : InFlight(e) => InFlight(e)'
    BY <1>1, InFlightKept
  <2>3. QED BY <2>1, <2>2, Untouched DEF connVars
<1>2. CASE Mark
  <2>1. log' = log /\ UNCHANGED connVars /\ pub' = pub
    BY <1>2 DEF Mark
  <2>2. \A e : InFlight(e) => InFlight(e)'
    BY <2>1 DEF InFlight
  <2>3. QED BY <2>1, <2>2, Untouched DEF connVars
<1>3. QED BY <1>1, <1>2, StreamAppend, StreamPublish DEF Publishers

\* A connection that ends gives its subscription up; what it sent stays.
LEMMA Closing ==
    ASSUME TypeOK, NEW s \in Streams, Close(s), log' = log,
           SentOrder(s)', Once(s)',
           \A k \in DOMAIN sent'[s] : sent'[s][k] \in DOMAIN log
                                      /\ sent'[s][k] \in seen'[s]
    PROVE  StreamInv(s)'
<1>1. at'[s] = "closed" /\ queue'[s] = <<>>
  BY DEF Close, Goto, TypeOK
<1>2. DOMAIN queue'[s] = {}
  BY <1>1
<1>3. Subscribed(s)' /\ Covered(s)'
  BY <1>1, <1>2 DEF Subscribed, Covered, Listening
<1>4. QueueOrder(s)' /\ SentBeforeQueued(s)'
  BY <1>2 DEF QueueOrder, SentBeforeQueued
<1>5. QED BY <1>3, <1>4 DEF StreamInv

\* A step of a connection is nothing to the others.
LEMMA OthersKept ==
    ASSUME TypeOK, NEW s \in Streams, Open(s) \/ Serve(s) \/ Disconnect(s),
           NEW t \in Streams, t # s
    PROVE  /\ at'[t] = at[t] /\ queue'[t] = queue[t] /\ history'[t] = history[t]
           /\ seen'[t] = seen[t] /\ sent'[t] = sent[t]
           /\ t \in subs => t \in subs'
<1> USE DEF TypeOK, Goto, Close
<1>1. CASE Open(s) \/ ReadHistory(s)
  BY <1>1 DEF Open, ReadHistory
<1>2. CASE NoHistory(s) \/ CheckStatus(s) \/ Disconnect(s)
  BY <1>2 DEF NoHistory, CheckStatus, Disconnect
<1>3. CASE SendHistory(s)
  BY <1>3 DEF SendHistory
<1>4. CASE Deliver(s)
  BY <1>4 DEF Deliver
<1>5. CASE LookEmpty(s) \/ Register(s)
  BY <1>5 DEF LookEmpty, Register
<1>6. QED BY <1>1, <1>2, <1>3, <1>4, <1>5 DEF Serve

\* The history goes out first: the events up to the one that was last when it
\* was read.
LEMMA StreamSend ==
    ASSUME IInv, NEW s \in Streams, SendHistory(s) PROVE StreamInv(s)'
<1> USE DEF IInv, StreamInv
<1>1. /\ at[s] = "sending" /\ at'[s] = "check" /\ queue' = queue /\ subs' = subs
      /\ seen'[s] = seen[s] \cup 1..history[s]
      /\ sent'[s] = [i \in 1..history[s] |-> i]
      /\ log' = log /\ pub' = pub
  BY DEF SendHistory, Goto, TypeOK, taskVars
<1>2. /\ DOMAIN sent'[s] = 1..history[s] /\ 1..history[s] \subseteq DOMAIN log
      /\ \A i \in 1..history[s] : sent'[s][i] = i
  BY <1>1, FirstEvents
<1>3. DOMAIN log \subseteq Nat \ {0} /\ history[s] \in Nat
  <2>1. DOMAIN log = 1..Len(log) /\ Len(log) \in Nat
    BY LogIsASeq
  <2>2. history[s] \in 0..Len(log)
    BY DEF TypeOK
  <2>3. QED BY <2>1, <2>2
<1>4. Subscribed(s)'
  BY <1>1, <1>2 DEF Subscribed
<1>5. Covered(s)'
  <2>1. \A e \in DOMAIN log :
          e \in seen[s] \/ e <= history[s] \/ Queued(s, e) \/ InFlight(e)
    BY <1>1 DEF Covered
  <2>2. \A e \in DOMAIN log : e <= history[s] => e \in 1..history[s]
    BY <1>3
  <2>3. \A e : (Queued(s, e) <=> Queued(s, e)') /\ (InFlight(e) <=> InFlight(e)')
    BY <1>1 DEF Queued, InFlight
  <2>4. QED BY <1>1, <2>1, <2>2, <2>3 DEF Covered, Listening
<1>6. QueueOrder(s)'
  BY <1>1 DEF QueueOrder
<1>7. SentBeforeQueued(s)'
  <2> SUFFICES ASSUME NEW i \in DOMAIN sent'[s], NEW k \in DOMAIN queue[s]
               PROVE  queue[s][k] \in seen'[s] \/ sent'[s][i] < queue[s][k]
    BY <1>1 DEF SentBeforeQueued
  <2>1. queue[s][k] \in Nat \ {0} /\ sent'[s][i] <= history[s] /\ sent'[s][i] \in Nat
    BY <1>2, <1>3 DEF Subscribed
  <2>2. CASE queue[s][k] <= history[s]
    BY <1>1, <1>3, <2>1, <2>2
  <2>3. CASE ~(queue[s][k] <= history[s])
    BY <1>3, <2>1, <2>3
  <2>4. QED BY <2>2, <2>3
<1>8. SentOrder(s)' /\ Once(s)'
  BY <1>2 DEF SentOrder, Once
<1>9. QED BY <1>4, <1>5, <1>6, <1>7, <1>8

\* An event goes out unless it was seen, and the rest of the queue moves up.
LEMMA StreamDeliver ==
    ASSUME IInv, NEW s \in Streams, Deliver(s) PROVE StreamInv(s)'
<1> USE DEF IInv, StreamInv
<1> DEFINE q == queue[s]
           e == Head(queue[s])
<1>1. /\ at[s] = "live" /\ q # <<>> /\ q \in Seq(Ids) /\ sent[s] \in Seq(Ids)
      /\ seen'[s] = seen[s] \cup {e}
      /\ sent'[s] = (IF e \in seen[s] THEN sent[s] ELSE Append(sent[s], e))
      /\ log' = log /\ pub' = pub
      /\ IF IsTerminal(e) THEN Close(s)
         ELSE queue'[s] = Tail(q) /\ at' = at /\ subs' = subs /\ history' = history
  BY DEF Deliver, TypeOK, taskVars
<1>2. /\ e = q[1] /\ 1 \in DOMAIN q /\ e \in Ids
      /\ DOMAIN q \subseteq Nat /\ DOMAIN Tail(q) \subseteq Nat
      /\ \A k \in DOMAIN Tail(q) : k + 1 \in DOMAIN q /\ Tail(q)[k] = q[k + 1]
      /\ \A k \in DOMAIN q : k = 1 \/ k - 1 \in DOMAIN Tail(q)
  BY <1>1, QueueShrinks
<1>3. e \in DOMAIN log /\ DOMAIN log \subseteq Nat
  BY <1>2, LogIsASeq DEF Subscribed, Ids
<1> DEFINE n == Len(sent[s]) + 1
<1>4. e \notin seen[s] =>
        /\ DOMAIN sent'[s] = DOMAIN sent[s] \cup {n}
        /\ \A k \in DOMAIN sent[s] : sent'[s][k] = sent[s][k] /\ k < n
        /\ sent'[s][n] = e /\ n \notin DOMAIN sent[s]
  BY <1>1, <1>2, SentGrows
<1>5. DOMAIN sent[s] \subseteq Nat /\ n \in Nat
  BY <1>1, LenProperties
<1> HIDE DEF q, e, n
<1>6. \A k \in DOMAIN sent'[s] :
          sent'[s][k] = e \/ (k \in DOMAIN sent[s] /\ sent'[s][k] = sent[s][k])
  <2>1. CASE e \in seen[s]
    <3>1. sent'[s] = sent[s]
      BY <1>1, <2>1
    <3>2. QED BY <3>1
  <2>2. ASSUME e \notin seen[s], NEW k \in DOMAIN sent'[s]
        PROVE  sent'[s][k] = e \/ (k \in DOMAIN sent[s] /\ sent'[s][k] = sent[s][k])
    <3>1. k \in DOMAIN sent[s] \/ k = n
      BY <1>4, <2>2
    <3>2. CASE k = n
      BY <1>4, <2>2, <3>2
    <3>3. CASE k \in DOMAIN sent[s]
      BY <1>4, <2>2, <3>3
    <3>4. QED BY <3>1, <3>2, <3>3
  <2>3. QED BY <2>1, <2>2
<1>7. \A k \in DOMAIN sent'[s] : sent'[s][k] \in DOMAIN log /\ sent'[s][k] \in seen'[s]
  BY <1>1, <1>3, <1>6 DEF Subscribed
<1>8. \A i \in DOMAIN sent[s] :
          log[sent[s][i]].by = log[e].by => e \in seen[s] \/ sent[s][i] < e
  BY <1>2 DEF SentBeforeQueued, q
<1>9. SentOrder(s)'
  <2>1. CASE e \in seen[s]
    BY <1>1, <2>1 DEF SentOrder
  <2>2. CASE e \notin seen[s]
    <3> SUFFICES ASSUME NEW i \in DOMAIN sent'[s], NEW j \in DOMAIN sent'[s], i < j,
                        log[sent'[s][i]].by = log[sent'[s][j]].by
                 PROVE  sent'[s][i] < sent'[s][j]
      BY <1>1 DEF SentOrder
    <3>1. i # n
      BY <1>4, <1>5, <2>2
    <3>2. i \in DOMAIN sent[s] /\ sent'[s][i] = sent[s][i]
      BY <1>4, <2>2, <3>1
    <3>3. CASE j = n
      BY <1>4, <1>8, <2>2, <3>2, <3>3
    <3>4. CASE j # n
      BY <1>4, <2>2, <3>2, <3>4 DEF SentOrder
    <3>5. QED BY <3>3, <3>4
  <2>3. QED BY <2>1, <2>2
<1>10. Once(s)'
  <2>1. CASE e \in seen[s]
    BY <1>1, <2>1 DEF Once
  <2>2. CASE e \notin seen[s]
    <3>1. \A k \in DOMAIN sent[s] : sent[s][k] # e
      BY <2>2 DEF Subscribed
    <3>2. QED BY <1>4, <2>2, <3>1 DEF Once
  <2>3. QED BY <2>1, <2>2
<1>11. CASE IsTerminal(e)
  BY <1>1, <1>7, <1>9, <1>10, <1>11, Closing
<1>12. CASE ~IsTerminal(e)
  <2>1. queue'[s] = Tail(q) /\ at' = at /\ subs' = subs /\ history' = history
    BY <1>1, <1>12
  <2>2. \A k \in DOMAIN queue'[s] : k + 1 \in DOMAIN q /\ queue'[s][k] = q[k + 1]
    BY <1>2, <2>1
  <2>3. Subscribed(s)'
    BY <1>1, <1>7, <2>1, <2>2 DEF Subscribed, q
  <2>4. Covered(s)'
    <3>1. \A f : Queued(s, f) => f = e \/ Queued(s, f)'
      <4> SUFFICES ASSUME NEW f, NEW k \in DOMAIN q, q[k] = f, f # e
                   PROVE  Queued(s, f)'
        BY DEF Queued, q
      <4>1. k - 1 \in DOMAIN Tail(q) /\ k \in Nat
        BY <1>2
      <4>2. Tail(q)[k - 1] = f
        <5>1. PICK m \in DOMAIN Tail(q) : m = k - 1
          BY <4>1
        <5>2. m + 1 = k
          BY <1>2, <4>1, <5>1
        <5>3. QED BY <1>2, <5>1, <5>2
      <4>3. QED BY <2>1, <4>1, <4>2 DEF Queued
    <3>2. \A f : InFlight(f) <=> InFlight(f)'
      BY <1>1 DEF InFlight
    <3>3. QED BY <1>1, <2>1, <3>1, <3>2 DEF Covered, Listening
  <2>5. QueueOrder(s)'
    <3> SUFFICES ASSUME NEW i \in DOMAIN queue'[s], NEW j \in DOMAIN queue'[s], i < j,
                        log[queue'[s][i]].by = log[queue'[s][j]].by
                 PROVE  queue'[s][i] < queue'[s][j]
      BY <1>1 DEF QueueOrder
    <3>1. i + 1 < j + 1
      BY <1>2, <2>1
    <3>2. QED BY <2>2, <3>1 DEF QueueOrder, q
  <2>6. SentBeforeQueued(s)'
    <3> SUFFICES ASSUME NEW i \in DOMAIN sent'[s], NEW k \in DOMAIN queue'[s],
                        log[sent'[s][i]].by = log[queue'[s][k]].by
                 PROVE  queue'[s][k] \in seen'[s] \/ sent'[s][i] < queue'[s][k]
      BY <1>1 DEF SentBeforeQueued
    <3>1. CASE sent'[s][i] = e
      <4>1. 1 < k + 1
        <5>1. k \in Nat /\ k >= 1
          BY <1>1, <2>1, LenProperties, HeadTailProperties
        <5>2. QED BY <5>1
      <4>2. QED BY <1>2, <2>2, <3>1, <4>1 DEF QueueOrder, q
    <3>2. CASE sent'[s][i] # e
      BY <1>1, <1>6, <2>2, <3>2 DEF SentBeforeQueued, q
    <3>3. QED BY <3>1, <3>2
  <2>7. QED BY <1>9, <1>10, <2>3, <2>4, <2>5, <2>6
<1>13. QED BY <1>11, <1>12

\* Every step of a connection keeps what the connections hold.
LEMMA StreamConn ==
    ASSUME IInv, NEW s \in Streams, Open(s) \/ Serve(s) \/ Disconnect(s),
           NEW t \in Streams
    PROVE  StreamInv(t)'
<1> USE DEF IInv
<1>1. log' = log /\ pub' = pub /\ \A e : InFlight(e) <=> InFlight(e)'
  <2>1. log' = log /\ pub' = pub
    BY ConnStep DEF taskVars
  <2>2. QED BY <2>1 DEF InFlight
<1>2. CASE t # s
  BY <1>1, <1>2, OthersKept, Untouched
<1>t. SUFFICES StreamInv(s)'
  <2>1. CASE t = s
    BY <2>1
  <2>2. QED BY <1>2, <2>1
<1>3. ASSUME at'[s] \in Place, queue'[s] = queue[s], seen'[s] = seen[s],
             sent'[s] = sent[s], s \in subs', Covered(s)'
      PROVE  StreamInv(s)'
  <2>1. Subscribed(s)'
    BY <1>1, <1>3 DEF StreamInv, Subscribed
  <2>2. QueueOrder(s)' /\ SentBeforeQueued(s)' /\ SentOrder(s)' /\ Once(s)'
    BY <1>1, <1>3 DEF StreamInv, QueueOrder, SentBeforeQueued, SentOrder, Once
  <2>3. QED BY <1>3, <2>1, <2>2 DEF StreamInv
<1>4. ASSUME Close(s), seen' = seen, sent' = sent PROVE StreamInv(s)'
  <2>1. SentOrder(s)' /\ Once(s)'
    BY <1>1, <1>4 DEF StreamInv, SentOrder, Once
  <2>2. QED BY <1>1, <1>4, <2>1, Closing DEF StreamInv, Subscribed
<1>5. CASE Open(s)
  <2>1. at'[s] = "opened" /\ s \in subs'
    BY <1>5 DEF Open, Goto, TypeOK
  <2>2. Covered(s)'
    BY <2>1 DEF Covered, Listening
  <2>3. QED BY <1>3, <1>5, <2>1, <2>2 DEF Open, Place
<1>6. CASE ReadHistory(s)
  <2>1. /\ history'[s] = Len(log) /\ at'[s] \in {"noevents", "sending"}
        /\ at[s] = "opened" /\ subs' = subs
    BY <1>6 DEF ReadHistory, Goto, TypeOK
  <2>2. \A e \in DOMAIN log : e <= Len(log)
    BY LogIsASeq
  <2>3. Covered(s)'
    BY <1>1, <2>1, <2>2 DEF Covered
  <2>4. QED BY <1>3, <1>6, <2>1, <2>3 DEF ReadHistory, Place, StreamInv, Subscribed
<1>7. CASE NoHistory(s)
  <2>1. CASE Close(s)
    BY <1>4, <1>7, <2>1 DEF NoHistory
  <2>2. CASE ~Close(s)
    <3>1. /\ at[s] = "noevents" /\ at'[s] = "sending" /\ history' = history
          /\ subs' = subs /\ queue' = queue /\ seen' = seen /\ sent' = sent
      BY <1>7, <2>2 DEF NoHistory, Goto, TypeOK
    <3>2. Covered(s)'
      BY <1>1, <3>1 DEF StreamInv, Covered, Queued
    <3>3. QED BY <1>3, <3>1, <3>2 DEF Place, StreamInv, Subscribed
  <2>3. QED BY <2>1, <2>2
<1>8. CASE SendHistory(s)
  BY <1>8, StreamSend
<1>9. CASE CheckStatus(s)
  <2>1. CASE Close(s)
    BY <1>4, <1>9, <2>1 DEF CheckStatus
  <2>2. CASE ~Close(s)
    <3>1. /\ at[s] = "check" /\ at'[s] = "live"
          /\ subs' = subs /\ queue' = queue /\ seen' = seen /\ sent' = sent
      BY <1>9, <2>2 DEF CheckStatus, Goto, TypeOK
    <3>2. Covered(s)'
      BY <1>1, <3>1 DEF StreamInv, Covered, Queued, Listening
    <3>3. QED BY <1>3, <3>1, <3>2 DEF Place, StreamInv, Subscribed
  <2>3. QED BY <2>1, <2>2
<1>10. CASE Deliver(s)
  BY <1>10, StreamDeliver
<1>11. CASE LookEmpty(s) \/ Register(s)
  <2>1. /\ at[s] \in Listening /\ at'[s] \in {"registering", "asleep"}
        /\ subs' = subs /\ queue' = queue /\ seen' = seen /\ sent' = sent
    BY <1>11 DEF LookEmpty, Register, Goto, TypeOK, Listening
  <2>2. at[s] \notin {"off", "closed", "noevents", "sending"}
    BY <2>1 DEF Listening
  <2>3. Covered(s)'
    BY <1>1, <2>1, <2>2 DEF StreamInv, Covered, Queued
  <2>4. QED BY <1>3, <2>1, <2>2, <2>3 DEF Place, StreamInv, Subscribed
<1>12. CASE Disconnect(s)
  BY <1>4, <1>12 DEF Disconnect
<1>13. QED
  BY <1>5, <1>6, <1>7, <1>8, <1>9, <1>10, <1>11, <1>12 DEF Serve

-----------------------------------------------------------------------------
(* The theorems about EventStream.                                         *)

LEMMA InitIInv == Init => IInv
<1> SUFFICES ASSUME Init PROVE IInv
  OBVIOUS
<1>1. /\ <<>> \in Seq(Event) /\ <<>> \in Seq(Ids) /\ Len(<<>>) = 0
      /\ MaxEvents \in Nat /\ MaxMarks \in Nat /\ DOMAIN <<>> = {}
  BY EmptySeq, EventStreamAssumption
<1>2. TaskTyped
  BY <1>1 DEF Init, TaskTyped, Idle
<1>3. ConnTyped
  BY <1>1 DEF Init, ConnTyped, Place
<1>4. overlap \in BOOLEAN
  BY DEF Init
<1>5. Publishing /\ FileOnTheWay
  BY <1>1 DEF Init, Publishing, FileOnTheWay, Idle
<1>6. ASSUME NEW s \in Streams PROVE StreamInv(s)
  <2>1. at[s] = "off" /\ DOMAIN queue[s] = {} /\ DOMAIN sent[s] = {}
    BY <1>1 DEF Init
  <2>2. Subscribed(s) /\ Covered(s) /\ QueueOrder(s)
    BY <2>1 DEF Subscribed, Covered, QueueOrder, Listening
  <2>3. SentBeforeQueued(s) /\ SentOrder(s) /\ Once(s)
    BY <2>1 DEF SentBeforeQueued, SentOrder, Once
  <2>4. QED BY <2>2, <2>3 DEF StreamInv
<1>7. QED BY <1>2, <1>3, <1>4, <1>5, <1>6, TypeParts DEF IInv

\* IInv is inductive.
LEMMA InductiveStep == IInv /\ [Next]_vars => IInv'
<1> SUFFICES ASSUME IInv, [Next]_vars PROVE IInv'
  OBVIOUS
<1>1. CASE \/ \E p \in Publishers : AppendEvent(p) \/ Publish(p) \/ Write(p)
           \/ \E w \in Workers : Settle(w)
           \/ Mark
  <2>1. TypeOK'
    BY <1>1, TaskStep DEF IInv
  <2>2. Publishing' /\ FileOnTheWay'
    BY <1>1, PublishingTask, FileTask
  <2>3. \A s \in Streams : StreamInv(s)'
    BY <1>1, StreamTask
  <2>4. QED BY <2>1, <2>2, <2>3 DEF IInv
<1>2. ASSUME NEW s \in Streams, Open(s) \/ Serve(s) \/ Disconnect(s)
      PROVE  IInv'
  <2>1. TypeOK' /\ UNCHANGED taskVars
    BY <1>2, ConnStep DEF IInv
  <2>2. FileOnTheWay'
    BY <2>1 DEF IInv, FileOnTheWay, taskVars
  <2>3. Publishing'
    <3>1. pub' = pub /\ log' = log
      BY <2>1 DEF taskVars
    <3>2. ASSUME NEW t \in Streams, NEW k \in DOMAIN queue'[t]
          PROVE  \E j \in DOMAIN queue[t] : queue[t][j] = queue'[t][k]
      <4>1. queue[t] \in Seq(Ids)
        BY DEF IInv, TypeOK
      <4>2. CASE queue'[t] = queue[t]
        BY <3>2, <4>2
      <4>3. CASE queue'[t] = <<>>
        BY <3>2, <4>3
      <4>4. CASE queue[t] # <<>> /\ queue'[t] = Tail(queue[t])
        BY <3>2, <4>1, <4>4, QueueShrinks
      <4>5. QED
        BY <1>2, <4>1, <4>2, <4>3, <4>4
           DEF Open, Serve, ReadHistory, NoHistory, SendHistory, CheckStatus, Deliver,
               LookEmpty, Register, Disconnect, Close, IInv, TypeOK
    <3>3. QED BY <3>1, <3>2 DEF IInv, Publishing, Queued
  <2>4. \A t \in Streams : StreamInv(t)'
    BY <1>2, StreamConn
  <2>5. QED BY <2>1, <2>2, <2>3, <2>4 DEF IInv
<1>3. CASE UNCHANGED vars
  <2>1. TypeOK' /\ Publishing' /\ FileOnTheWay'
    BY <1>3 DEF IInv, vars, TypeOK, Publishing, FileOnTheWay, Queued
  <2>2. \A e : InFlight(e) => InFlight(e)'
    BY <1>3 DEF vars, InFlight
  <2>3. \A s \in Streams : StreamInv(s)'
    BY <1>3, <2>2, Untouched DEF IInv, vars
  <2>4. QED BY <2>1, <2>3 DEF IInv
<1>4. QED BY <1>1, <1>2, <1>3 DEF Next

LEMMA Invariance == Spec => []IInv
BY InitIInv, InductiveStep, PTL DEF Spec

\* The variables keep their types.
THEOREM TypeCorrect == Spec => []TypeOK
<1>1. IInv => TypeOK
  BY DEF IInv
<1>2. QED BY <1>1, Invariance, PTL

\* What a connection sends is the task's history: a listening connection has
\* sent every event, or has it queued, or it is about to be published; it
\* sends no event twice; and those of one publisher in their order.
THEOREM HistoryDelivered == Spec => []Delivered
<1>1. IInv => Delivered
  <2> SUFFICES ASSUME IInv PROVE Delivered
    OBVIOUS
  <2>1. NothingMissed
    <3> SUFFICES ASSUME NEW s \in Streams, at[s] \in Listening, NEW e \in DOMAIN log
                 PROVE  e \in seen[s] \/ e \in Range(queue[s]) \/ InFlight(e)
      BY DEF NothingMissed
    <3>1. at[s] \notin {"noevents", "sending"}
      BY DEF Listening
    <3>2. e \in seen[s] \/ Queued(s, e) \/ InFlight(e)
      BY <3>1 DEF IInv, StreamInv, Covered
    <3>3. QED BY <3>2 DEF Queued, Range
  <2>2. SentOnce
    BY DEF IInv, StreamInv, Once, SentOnce, IsInjective
  <2>3. ProducerOrder
    BY DEF IInv, StreamInv, SentOrder, ProducerOrder
  <2>4. QED BY <2>1, <2>2, <2>3 DEF Delivered
<1>2. QED BY <1>1, Invariance, PTL

\* When nobody publishes, events.jsonl holds the whole log, unless two writes
\* of it have overlapped.
THEOREM FileKeepsUp == Spec => []FileWhole
<1>1. IInv => FileWhole
  BY DEF IInv, FileOnTheWay, FileWhole
<1>2. QED BY <1>1, Invariance, PTL

-----------------------------------------------------------------------------
(* ActionPlanning: the inductive invariant.                                *)

Record == [step : 3..MaxSteps, ok : BOOLEAN]
RefusedRecord == {e \in Record : ~e.ok}
RecordOf(s) == {e \in Record : e.step = s}

\* How many elements of a list are of a kind.
Count(T, q) == Cardinality({i \in DOMAIN q : q[i] \in T})

\* Every step so far was one call that came back, and no decision is asked for
\* before the seed plan or after the last step.
StepByStep ==
    /\ stage = "seed" => step <= 2 /\ records = <<>> /\ errors = <<>>
                               /\ requests = 0 /\ asked = 0
    /\ stage \in {"ask", "read", "decided", "call"} => step >= 3
    /\ stage \in {"read", "decided", "call"} => step <= MaxSteps
    /\ stage # "ended" => executed = step - 1 /\ done = step - 1

\* The answers of this step have a record each, every refused record has an
\* error, and every error but one that was just found has its repair request.
AnswersCounted ==
    /\ Len(errors) = Count(RefusedRecord, records)
    /\ \A s \in 3..MaxSteps : Count(RecordOf(s), records) <= Repairs + 1
    /\ stage = "ask" =>
          /\ asked <= Repairs /\ Count(RecordOf(step), records) = asked
          /\ Len(errors) = IF asked = 0 THEN requests ELSE requests + 1
    /\ stage = "read" =>
          /\ asked >= 1 /\ Count(RecordOf(step), records) = asked - 1
          /\ Len(errors) = requests
    /\ stage \in {"decided", "call"} => Len(errors) = requests

\* Records are of this step and the ones before it, an accepted one of this
\* step ends the asking, and last_decision is the decision of one of them.
RecordsOfThePast ==
    /\ \A i \in DOMAIN records : records[i].step <= step
    /\ stage \in {"seed", "ask", "read"} =>
          /\ \A i \in DOMAIN records : records[i].ok => records[i].step < step
          /\ last < step
    /\ last # 0 => \E i \in DOMAIN records :
                       records[i].ok /\ records[i].step = last

\* A decision is the last answer of its step, and of a tool the page allows.
DecisionIsLast ==
    stage \in {"decided", "call"} =>
        /\ last = step /\ decision.step = step
        /\ decision.tool \in Available
        /\ records # <<>> /\ records[Len(records)] = [step |-> step, ok |-> TRUE]
        /\ \A i \in 1..(Len(records) - 1) : records[i].ok => records[i].step < step

\* What the file and the event say of the decision about to be called.
CallIsTold ==
    stage = "call" =>
        /\ artifact.final = step /\ artifact.status # "failed"
        /\ told.event = IF requests > 0 THEN "repaired" ELSE "validated"

\* How the loop left.
EndIsTold ==
    /\ stage # "ended" => result.error = "none"
    /\ result.error = "MAX_STEPS_EXCEEDED" => executed = MaxSteps /\ done = MaxSteps
    /\ FailureIsTold

PlanInv ==
    /\ PlanTypeOK /\ StepByStep /\ AnswersCounted /\ RecordsOfThePast
    /\ DecisionIsLast /\ CallIsTold /\ EndIsTold

-----------------------------------------------------------------------------
(* ActionPlanning: facts about the operators.                              *)

LEMMA BoundsAreNat ==
    /\ MaxSteps \in Nat /\ MaxSteps >= 2
    /\ Repairs \in Nat /\ Repairs >= 1
BY ActionPlanningAssumption DEF ActionPlanningAssumption, Repairs

LEMMA SmallestIndex ==
    ASSUME NEW I, I \subseteq Nat, I # {}
    PROVE  \E m \in I : \A i \in I : m <= i
<1>1. PICK m \in I : \A i \in I : <<i, m>> \notin OpToRel(<, Nat)
  BY WFMin, NatLessThanWellFounded
<1>2. \A i \in I : ~(i < m)
  BY <1>1 DEF OpToRel
<1>3. QED BY <1>2

\* The first text that is there is one of those asked for, and the other is
\* taken only when none is there.
LEMMA FirstIsFound ==
    ASSUME NEW order, NEW keys, NEW otherwise,
           \A i \in DOMAIN order : i \in Nat /\ 1..(i - 1) \subseteq DOMAIN order
    PROVE  \/ /\ \A i \in DOMAIN order : order[i] \notin keys
              /\ FirstOf(order, keys, otherwise) = otherwise
           \/ \E i \in DOMAIN order :
                 /\ order[i] \in keys
                 /\ \A j \in 1..(i - 1) : order[j] \notin keys
                 /\ FirstOf(order, keys, otherwise) = order[i]
<1> DEFINE There == {i \in DOMAIN order : order[i] \in keys}
           Least(i) == order[i] \in keys /\ \A j \in 1..(i - 1) : order[j] \notin keys
<1>1. CASE There = {}
  <2>1. \A i \in DOMAIN order : order[i] \notin keys
    BY <1>1
  <2>2. QED BY <2>1 DEF FirstOf
<1>2. CASE There # {}
  <2>1. There \subseteq Nat
    OBVIOUS
  <2>2. PICK m \in There : \A i \in There : m <= i
    BY <1>2, <2>1, SmallestIndex
  <2>3. m \in DOMAIN order /\ Least(m)
    BY <2>1, <2>2
  <2>4. \E i \in DOMAIN order : Least(i)
    BY <2>3
  <2> DEFINE i0 == CHOOSE i \in DOMAIN order : Least(i)
  <2>5. i0 \in DOMAIN order /\ Least(i0)
    BY <2>4
  <2>6. FirstOf(order, keys, otherwise) = order[i0]
    BY <2>3 DEF FirstOf
  <2>7. QED BY <2>5, <2>6
<1>3. QED BY <1>1, <1>2

\* Appending a record counts it among those of its kinds and no other.
LEMMA CountGrows ==
    ASSUME NEW S, NEW T, NEW q \in Seq(S), NEW e \in S
    PROVE  /\ Count(T, q) \in Nat /\ Count(T, <<>>) = 0
           /\ Count(T, Append(q, e)) = IF e \in T THEN Count(T, q) + 1
                                                  ELSE Count(T, q)
<1> DEFINE At(p) == {i \in DOMAIN p : p[i] \in T}
<1>1. /\ Append(q, e) \in Seq(S) /\ Len(Append(q, e)) = Len(q) + 1
      /\ \A i \in 1..Len(q) : Append(q, e)[i] = q[i]
      /\ Append(q, e)[Len(q) + 1] = e
  BY AppendProperties
<1>2. /\ Len(q) \in Nat /\ DOMAIN q = 1..Len(q)
      /\ DOMAIN Append(q, e) = 1..(Len(q) + 1)
  BY <1>1, LenProperties
<1>3. IsFiniteSet(1..Len(q)) /\ At(q) \subseteq 1..Len(q)
  BY <1>2, FS_Interval
<1>4. IsFiniteSet(At(q)) /\ Cardinality(At(q)) \in Nat
  BY <1>3, FS_Subset, FS_CardinalityType
<1>5. At(Append(q, e)) = IF e \in T THEN At(q) \cup {Len(q) + 1} ELSE At(q)
  BY <1>1, <1>2
<1>6. Len(q) + 1 \notin At(q)
  BY <1>2
<1>7. At(<<>>) = {} /\ Cardinality({}) = 0
  BY FS_EmptySet
<1>8. Cardinality(At(q) \cup {Len(q) + 1}) = Cardinality(At(q)) + 1
  BY <1>4, <1>6, FS_AddElement
<1>9. QED BY <1>4, <1>5, <1>7, <1>8 DEF Count

\* An alias is no schema's type, so a type of the schema stands for itself.
LEMMA TypesAreCanonical == \A t \in ActionTypes : Canonical(t) = t
BY DEF ActionTypes, Canonical, Alias

\* FirstOf on the orders the normalisation uses, as `a or b or c` reads.
LEMMA FirstOfTexts ==
    ASSUME NEW a, NEW b, NEW c, NEW keys, NEW o
    PROVE  /\ FirstOf(<<a>>, keys, o) = IF a \in keys THEN a ELSE o
           /\ FirstOf(<<a, b>>, keys, o) =
                 IF a \in keys THEN a ELSE IF b \in keys THEN b ELSE o
           /\ FirstOf(<<a, b, c>>, keys, o) =
                 IF a \in keys THEN a ELSE IF b \in keys THEN b
                 ELSE IF c \in keys THEN c ELSE o
<1>1. FirstOf(<<a>>, keys, o) = IF a \in keys THEN a ELSE o
  <2>1. DOMAIN <<a>> = 1..1 /\ <<a>>[1] = a
    OBVIOUS
  <2>2. \/ a \notin keys /\ FirstOf(<<a>>, keys, o) = o
        \/ a \in keys /\ FirstOf(<<a>>, keys, o) = a
    BY <2>1, FirstIsFound
  <2>3. QED BY <2>2
<1>2. FirstOf(<<a, b>>, keys, o) =
          IF a \in keys THEN a ELSE IF b \in keys THEN b ELSE o
  <2> DEFINE q == <<a, b>>
  <2>1. DOMAIN q = 1..2 /\ q[1] = a /\ q[2] = b
    OBVIOUS
  <2> HIDE DEF q
  <2>2. \/ /\ \A i \in DOMAIN q : q[i] \notin keys
           /\ FirstOf(q, keys, o) = o
        \/ \E i \in DOMAIN q : /\ q[i] \in keys
                               /\ \A j \in 1..(i - 1) : q[j] \notin keys
                               /\ FirstOf(q, keys, o) = q[i]
    BY <2>1, FirstIsFound
  <2>3. FirstOf(q, keys, o) = IF a \in keys THEN a ELSE IF b \in keys THEN b ELSE o
    BY <2>1, <2>2
  <2>4. QED BY <2>3 DEF q
<1>3. FirstOf(<<a, b, c>>, keys, o) =
          IF a \in keys THEN a ELSE IF b \in keys THEN b
          ELSE IF c \in keys THEN c ELSE o
  <2> DEFINE q == <<a, b, c>>
  <2>1. DOMAIN q = 1..3 /\ q[1] = a /\ q[2] = b /\ q[3] = c
    OBVIOUS
  <2> HIDE DEF q
  <2>2. \/ /\ \A i \in DOMAIN q : q[i] \notin keys
           /\ FirstOf(q, keys, o) = o
        \/ \E i \in DOMAIN q : /\ q[i] \in keys
                               /\ \A j \in 1..(i - 1) : q[j] \notin keys
                               /\ FirstOf(q, keys, o) = q[i]
    BY <2>1, FirstIsFound
  <2>3. FirstOf(q, keys, o) = IF a \in keys THEN a ELSE IF b \in keys THEN b
                              ELSE IF c \in keys THEN c ELSE o
    BY <2>1, <2>2
  <2>4. QED BY <2>3 DEF q
<1>4. QED BY <1>1, <1>2, <1>3

\* The normal form of an answer, text by text.
LEMMA NormalForm ==
    ASSUME NEW r
    PROVE  LET n == Normalized(r)
               type == n.type
               keys == n.keys
               Or(a, otherwise) == IF a \in keys THEN a ELSE otherwise
           IN  /\ type = IF Typed(r) THEN Canonical(r.type) ELSE "none"
               /\ keys = Collected(r)
               /\ type = "browser_extract" =>
                     n.instruction = Or("instruction", Or("summary", "goal"))
               /\ type = "finish_task" =>
                     n.instruction = Or("instruction", Or("summary", "none"))
               /\ type \notin {"browser_extract", "finish_task"} =>
                     n.instruction =
                         Or("instruction", IF type = "ask_human" /\ "question" \notin keys
                                           THEN "fixed" ELSE "none")
               /\ type = "tool_search" =>
                     n.query = Or("query", Or("instruction", "goal"))
               /\ type # "tool_search" => n.query = Or("query", "none")
               /\ type = "tool_load" =>
                     n.tool_id = Or("tool_id", Or("query", Or("instruction", "none")))
<1> DEFINE type == IF Typed(r) THEN Canonical(r.type) ELSE "none"
           keys == Collected(r)
<1>1. \A a, b, c, o :
          /\ FirstOf(<<a>>, keys, o) = IF a \in keys THEN a ELSE o
          /\ FirstOf(<<a, b>>, keys, o) =
                IF a \in keys THEN a ELSE IF b \in keys THEN b ELSE o
          /\ FirstOf(<<a, b, c>>, keys, o) =
                IF a \in keys THEN a ELSE IF b \in keys THEN b
                ELSE IF c \in keys THEN c ELSE o
  BY FirstOfTexts
<1> HIDE DEF keys
<1>2. /\ FirstOf(<<"instruction", "summary">>, keys, "goal") =
            IF "instruction" \in keys THEN "instruction"
            ELSE IF "summary" \in keys THEN "summary" ELSE "goal"
      /\ FirstOf(<<"instruction", "summary">>, keys, "none") =
            IF "instruction" \in keys THEN "instruction"
            ELSE IF "summary" \in keys THEN "summary" ELSE "none"
      /\ \A o : FirstOf(<<"instruction">>, keys, o) =
            IF "instruction" \in keys THEN "instruction" ELSE o
      /\ FirstOf(<<"query", "instruction">>, keys, "goal") =
            IF "query" \in keys THEN "query"
            ELSE IF "instruction" \in keys THEN "instruction" ELSE "goal"
      /\ FirstOf(<<"query">>, keys, "none") = IF "query" \in keys THEN "query" ELSE "none"
      /\ FirstOf(<<"tool_id", "query", "instruction">>, keys, "none") =
            IF "tool_id" \in keys THEN "tool_id"
            ELSE IF "query" \in keys THEN "query"
            ELSE IF "instruction" \in keys THEN "instruction" ELSE "none"
  BY <1>1
<1> DEFINE n == Normalized(r)
           Or(b, otherwise) == IF b \in keys THEN b ELSE otherwise
<1>3. n.type = type /\ n.keys = keys
  BY DEF Normalized, keys
<1>4. type = "browser_extract" =>
          n.instruction = Or("instruction", Or("summary", "goal"))
  BY <1>2 DEF Normalized, keys
<1>5. type = "finish_task" => n.instruction = Or("instruction", Or("summary", "none"))
  BY <1>2 DEF Normalized, keys
<1>6. type \notin {"browser_extract", "finish_task"} =>
          n.instruction = Or("instruction", IF type = "ask_human" /\ "question" \notin keys
                                            THEN "fixed" ELSE "none")
  BY <1>2 DEF Normalized, keys
<1>7. /\ type = "tool_search" => n.query = Or("query", Or("instruction", "goal"))
      /\ type # "tool_search" => n.query = Or("query", "none")
  BY <1>2 DEF Normalized, keys
<1>8. type = "tool_load" =>
          n.tool_id = Or("tool_id", Or("query", Or("instruction", "none")))
  BY <1>2 DEF Normalized, keys
<1>9. QED BY <1>3, <1>4, <1>5, <1>6, <1>7, <1>8 DEF keys

\* Every text of an accepted call has a source.
LEMMA ArgumentIsGiven ==
    ASSUME NEW r \in Answers, Accepts(r)
    PROVE  /\ Normalized(r).type \in Available
           /\ Normalized(r).type \in ActionTypes
           /\ Argument(Normalized(r)) \in Texts \cup {"goal", "fixed", "reason"}
<1> DEFINE n == Normalized(r)
<1>1. n.type \in Available /\ n.type \in ActionTypes /\ ~Misses(n)
  BY DEF Accepts, Validates, Available
<1>2. n.type = "tool_load" => n.tool_id # "none"
  BY <1>1 DEF Misses
<1>3. n.type = "browser_extract" => n.instruction \in Texts \cup {"goal"}
  BY NormalForm DEF Texts
<1>4. n.type = "tool_search" => n.query \in Texts \cup {"goal"}
  BY NormalForm DEF Texts
<1>5. n.type = "tool_load" => n.tool_id \in Texts
  BY NormalForm, <1>2 DEF Texts
<1>6. n.type = "finish_task" => n.instruction \in Texts \cup {"none"}
  BY NormalForm DEF Texts
<1> HIDE DEF n
<1>7. Argument(n) \in Texts \cup {"goal", "fixed", "reason"}
  BY <1>3, <1>4, <1>5, <1>6 DEF Argument, Texts
<1>8. QED BY <1>1, <1>7 DEF n

\* What the prompt asks for passes every check but that of the goal.
LEMMA ConformingIsAccepted ==
    ASSUME NEW r \in Answers, Conforms(r),
           ~ /\ goalRefused
             /\ \/ r.type = "browser_extract"
                \/ r.type = "tool_search" /\ "query" \notin r.act
             /\ "instruction" \notin r.act
    PROVE  Accepts(r)
<1> DEFINE n == Normalized(r)
<1>1. /\ r.shape = "object" /\ r.where = "action" /\ r.extra = "none"
      /\ "type" \in r.act /\ r.act \subseteq Schema /\ r.top = {}
      /\ r.type \in Available \ {"browser_select"} /\ Needs(r.type) \subseteq r.act
  BY DEF Conforms
<1>2. r.type \in ActionTypes /\ Canonical(r.type) = r.type
  BY <1>1, TypesAreCanonical DEF Available, ActionTypes, Input
<1>3. Own(r) = r.act /\ Typed(r)
  BY <1>1 DEF Own, Typed
<1>4. n.type = r.type /\ n.keys = Collected(r)
  BY <1>2, <1>3, NormalForm
<1>5. r.act \subseteq n.keys
  BY <1>3, <1>4 DEF Collected
<1>6. n.keys \subseteq r.act \cup {"tool_id"}
  BY <1>1, <1>3, <1>4 DEF Collected, Schema
<1>7. ~Refused(n, r.extra)
  <2>1. CASE ~goalRefused
    BY <1>1, <2>1 DEF Refused
  <2>2. CASE "instruction" \in r.act
    <3>1. n.instruction # "goal" /\ n.query # "goal"
      BY <1>5, <2>2, NormalForm
    <3>2. QED BY <1>1, <3>1 DEF Refused
  <2>3. CASE r.type # "browser_extract" /\ (r.type = "tool_search" => "query" \in r.act)
    <3>1. n.instruction # "goal"
      BY <1>4, <2>3, NormalForm
    <3>2. n.query # "goal"
      BY <1>4, <1>5, <2>3, NormalForm
    <3>3. QED BY <1>1, <3>1, <3>2 DEF Refused
  <2>4. QED BY <2>1, <2>2, <2>3
<1>8. ~Misses(n)
  <2>1. n.type = "tool_load" => n.tool_id = "tool_id"
    BY <1>1, <1>4, <1>5, NormalForm DEF Needs
  <2>2. n.type # "browser_open" /\ n.type # "browser_select"
    BY <1>1, <1>4 DEF Available, Input
  <2>3. /\ n.type \in {"browser_click", "browser_type"} => "target_hint" \in n.keys
        /\ n.type = "browser_type" => "text" \in n.keys
        /\ n.type = "browser_wait" => "condition" \in n.keys
    BY <1>1, <1>4, <1>5 DEF Needs
  <2> HIDE DEF n
  <2>4. QED BY <2>1, <2>2, <2>3 DEF Misses
<1>9. n.type \in Available /\ n.type \in ActionTypes
  BY <1>1, <1>2, <1>4
<1> HIDE DEF n
<1>10. Validates(n, r.extra)
  BY <1>1, <1>7, <1>8, <1>9 DEF Validates
<1>11. QED BY <1>1, <1>9, <1>10 DEF Accepts, Parses, n

\* A stock text is taken only where the answer has none of its own.
LEMMA OwnWordsFirst ==
    ASSUME NEW r \in Answers, Accepts(r),
           Argument(Normalized(r)) \in {"goal", "fixed", "reason"}
    PROVE  Reads(Normalized(r).type) \cap (r.act \cup r.top) = {}
<1> DEFINE n == Normalized(r)
           both == r.act \cup r.top
<1>1. n.keys = Collected(r) /\ n.type \in ActionTypes
  BY NormalForm DEF Accepts, Validates
<1>2. n.type # "none"
  BY <1>1 DEF ActionTypes
<1>3. Typed(r) /\ n.type = Canonical(r.type)
  BY <1>2, NormalForm
<1>4. r.where # "action" => r.act = {}
  BY ActionPlanningAssumption DEF ActionPlanningAssumption
<1>5. r.where \in {"action", "name", "flat"}
  BY ActionPlanningAssumption DEF ActionPlanningAssumption, Answer
<1>6. r.where = "flat" => Own(r) = r.top
  BY <1>3 DEF Own, Typed, LooksLikeAction
<1>7. r.where = "action" => Own(r) = r.act
  BY DEF Own
<1>8. both \subseteq Own(r) \cup r.top
  BY <1>4, <1>5, <1>6, <1>7
<1>9. /\ both \cap {"instruction", "query"} \subseteq n.keys
      /\ "summary" \in both => "summary" \in n.keys
      /\ n.type = "ask_human" /\ "question" \in both => "question" \in n.keys
  BY <1>1, <1>3, <1>8 DEF Collected
<1> HIDE DEF both
<1>10. CASE n.type = "tool_search"
  <2>1. Argument(n) = n.query
    BY <1>10 DEF Argument
  <2>2. "query" \notin n.keys /\ "instruction" \notin n.keys
    BY <1>10, <2>1, NormalForm
  <2>3. Reads(n.type) = {"query", "instruction"}
    BY <1>10 DEF Reads
  <2>4. QED BY <1>9, <2>2, <2>3 DEF both
<1>11. CASE n.type = "browser_extract"
  <2>1. Argument(n) = n.instruction
    BY <1>11 DEF Argument
  <2>2. "instruction" \notin n.keys /\ "summary" \notin n.keys
    BY <1>11, <2>1, NormalForm
  <2>3. Reads(n.type) = {"instruction", "summary"}
    BY <1>11 DEF Reads
  <2>4. QED BY <1>9, <2>2, <2>3 DEF both
<1>12. CASE n.type = "finish_task"
  <2>1. "summary" \notin n.keys
    BY <1>12 DEF Argument
  <2>2. n.instruction \notin {"instruction", "summary"}
    BY <1>12, <2>1 DEF Argument
  <2>3. "instruction" \notin n.keys
    BY <1>12, <2>2, NormalForm
  <2>4. Reads(n.type) = {"instruction", "summary"}
    BY <1>12 DEF Reads
  <2>5. QED BY <1>9, <2>1, <2>3, <2>4 DEF both
<1>13. CASE n.type = "ask_human"
  <2>1. "question" \notin n.keys
    BY <1>13 DEF Argument
  <2>2. Reads(n.type) = {"question"}
    BY <1>13 DEF Reads
  <2>3. QED BY <1>9, <1>13, <2>1, <2>2 DEF both
<1>14. CASE n.type \notin {"tool_search", "browser_extract", "finish_task", "ask_human"}
  BY <1>14 DEF Reads
<1>15. QED BY <1>10, <1>11, <1>12, <1>13, <1>14

-----------------------------------------------------------------------------
(* ActionPlanning: the steps.                                              *)

LEMMA RecordsTyped ==
    ASSUME PlanTypeOK
    PROVE  /\ DOMAIN records = 1..Len(records) /\ Len(records) \in Nat
           /\ \A i \in DOMAIN records : records[i].step \in 3..MaxSteps
                                      /\ records[i].ok \in BOOLEAN
<1>1. records \in Seq(Record)
  BY DEF PlanTypeOK, Record
<1>2. \A i \in DOMAIN records : records[i] \in Record
  BY <1>1, LenProperties, ElementOfSeq
<1>3. \A e \in Record : e.step \in 3..MaxSteps /\ e.ok \in BOOLEAN
  BY DEF Record
<1>4. QED BY <1>1, <1>2, <1>3, LenProperties

LEMMA FailureStatuses ==
    \A error, where : FailureStatus(error, where) \in {"asks", "blocked", "failed"}
BY DEF FailureStatus

\* A list without elements has none of any kind; an answer is never NoAnswer.
LEMMA Emptiness ==
    /\ \A T : Count(T, <<>>) = 0
    /\ \A S : <<>> \in Seq(S) /\ Len(<<>>) = 0
    /\ \A r \in Answers : r # NoAnswer
<1>1. \A T : Count(T, <<>>) = 0
  <2> TAKE T
  <2>1. {i \in DOMAIN <<>> : <<>>[i] \in T} = {}
    OBVIOUS
  <2>2. QED BY <2>1, FS_EmptySet DEF Count
<1>2. \A S : <<>> \in Seq(S) /\ Len(<<>>) = 0
  BY EmptySeq
<1>3. \A r \in Answers : r # NoAnswer
  BY ActionPlanningAssumption DEF ActionPlanningAssumption, Answer, NoAnswer
<1>4. QED BY <1>1, <1>2, <1>3

LEMMA PlanInitInv == PlanInit => PlanInv
<1> SUFFICES ASSUME PlanInit PROVE PlanInv
  OBVIOUS
<1> USE BoundsAreNat DEF PlanInit
<1>1. PlanTypeOK
  <2>1. records \in Seq([step : 3..MaxSteps, ok : BOOLEAN]) /\ errors \in Seq(3..MaxSteps)
    BY Emptiness
  <2>2. artifact \in [status : {"none", "failed", "repaired", "success"},
                     final : 0..MaxSteps, repairs : Nat]
    BY DEF NoArtifact
  <2>3. told \in [event : {"none", "validated", "repaired", "rejected"},
                 repair : BOOLEAN]
    OBVIOUS
  <2>4. answer \in Answers \cup {NoAnswer} /\ (stage = "read") = (answer # NoAnswer)
    OBVIOUS
  <2>5. result.status = "none"
    OBVIOUS
  <2>6. /\ step \in 1..(MaxSteps + 1) /\ asked \in 0..(Repairs + 1)
        /\ requests \in Nat /\ last \in 0..MaxSteps
        /\ executed \in 0..MaxSteps /\ done \in 0..MaxSteps
    OBVIOUS
  <2>7. /\ goalRefused \in BOOLEAN /\ interrupted \in BOOLEAN
        /\ stage = "seed" /\ page = "none" /\ decision \in Decision \cup {NoDecision}
    OBVIOUS
  <2> HIDE DEF PlanInit
  <2>8. QED BY <2>1, <2>2, <2>3, <2>4, <2>5, <2>6, <2>7 DEF PlanTypeOK
<1>2. StepByStep
  BY DEF StepByStep
<1>3. AnswersCounted
  BY Emptiness DEF AnswersCounted
<1>4. RecordsOfThePast /\ DecisionIsLast /\ CallIsTold
  BY DEF RecordsOfThePast, DecisionIsLast, CallIsTold
<1>5. EndIsTold
  BY DEF EndIsTold, FailureIsTold
<1>6. QED BY <1>1, <1>2, <1>3, <1>4, <1>5 DEF PlanInv

\* A step that writes no record and leaves the loop, or ends a step of the
\* seed plan, keeps what is said of the answers.
LEMMA SeedStep ==
    ASSUME PlanInv, NEW outcome \in Outcomes, NEW where \in Pages, Seed(outcome, where)
    PROVE  PlanInv'
<1> USE BoundsAreNat DEF PlanInv
<1>1. /\ stage = "seed" /\ stage' \in {"seed", "ask", "ended"}
      /\ UNCHANGED <<planner, account, decision, interrupted>>
      /\ page' \in {"none", "local", "public"}
      /\ executed' = executed + 1 /\ done' = done + 1
  BY DEF Seed, Fail, Leave, Pages
<1>2. /\ step \in 1..2 /\ records = <<>> /\ errors = <<>> /\ requests = 0 /\ asked = 0
      /\ executed = step - 1 /\ done = step - 1 /\ result.error = "none"
  BY <1>1 DEF StepByStep, PlanTypeOK, EndIsTold
<1>3. \/ /\ stage' = "ended" /\ step' = step
         /\ result' = [status |-> FailureStatus(outcome, where), error |-> outcome]
      \/ /\ stage' = IF step = 2 THEN "ask" ELSE "seed"
         /\ step' = step + 1 /\ result' = result
  BY DEF Seed, Fail, Leave
<1>4. PlanTypeOK'
  BY <1>1, <1>2, <1>3, FailureStatuses DEF PlanTypeOK, planner, account
<1>5. StepByStep'
  BY <1>1, <1>2, <1>3 DEF StepByStep, planner
<1>6. AnswersCounted'
  BY <1>1, <1>2, <1>3, Emptiness DEF AnswersCounted, planner
<1>7. RecordsOfThePast'
  BY <1>1, <1>2, <1>3 DEF RecordsOfThePast, planner
<1>8. DecisionIsLast' /\ CallIsTold'
  BY <1>1 DEF DecisionIsLast, CallIsTold
<1>9. EndIsTold'
  BY <1>2, <1>3 DEF EndIsTold, FailureIsTold, Outcomes
<1>10. QED BY <1>4, <1>5, <1>6, <1>7, <1>8, <1>9

\* Leaving the loop without a record changes nothing that is said of the
\* answers: only the end has to be told.
LEMMA LeavingStep ==
    ASSUME PlanInv, PlanTypeOK', stage' = "ended", EndIsTold',
           UNCHANGED <<step, records, errors, last>>
    PROVE  PlanInv'
<1>1. StepByStep'
  BY DEF StepByStep
<1>2. AnswersCounted'
  BY DEF AnswersCounted, PlanInv
<1>3. RecordsOfThePast'
  BY DEF RecordsOfThePast, PlanInv
<1>4. DecisionIsLast' /\ CallIsTold'
  BY DEF DecisionIsLast, CallIsTold
<1>5. QED BY <1>1, <1>2, <1>3, <1>4 DEF PlanInv

LEMMA ExceedStepsStep ==
    ASSUME PlanInv, ExceedSteps
    PROVE  PlanInv'
<1> USE BoundsAreNat DEF PlanInv, ExceedSteps
<1>1. /\ stage' = "ended"
      /\ result' = [status |-> FailureStatus("MAX_STEPS_EXCEEDED", page),
                    error |-> "MAX_STEPS_EXCEEDED"]
      /\ UNCHANGED <<step, page, planner, decision, account, executed, done,
                     interrupted>>
  BY DEF Fail, Leave
<1>2. PlanTypeOK'
  BY <1>1, FailureStatuses DEF PlanTypeOK, planner, account
<1>3. step = MaxSteps + 1 /\ executed = step - 1 /\ done = step - 1
  BY DEF OverBudget, PlanTypeOK, StepByStep
<1>4. EndIsTold'
  BY <1>1, <1>3 DEF EndIsTold, FailureIsTold
<1>5. QED BY <1>1, <1>2, <1>4, LeavingStep DEF planner

LEMMA GenerateStep ==
    ASSUME PlanInv, Asks, NEW r \in Answers, Generate(r)
    PROVE  PlanInv'
<1> USE BoundsAreNat DEF PlanInv, Asks, Generate
<1>1. /\ asked \in Nat /\ asked <= Repairs /\ step \in Nat /\ step <= MaxSteps
      /\ requests \in Nat
  BY DEF PlanTypeOK, AnswersCounted, OverBudget
<1>2. PlanTypeOK'
  BY <1>1, Emptiness DEF PlanTypeOK, account
<1>3. StepByStep'
  BY <1>1 DEF StepByStep
<1>4. AnswersCounted'
  BY <1>1 DEF AnswersCounted
<1>5. RecordsOfThePast'
  BY DEF RecordsOfThePast
<1>6. DecisionIsLast' /\ CallIsTold'
  BY DEF DecisionIsLast, CallIsTold
<1>7. EndIsTold'
  BY DEF EndIsTold, FailureIsTold, account
<1>8. QED BY <1>2, <1>3, <1>4, <1>5, <1>6, <1>7

LEMMA RefuseStep ==
    ASSUME PlanInv, NEW code, Refuse(code)
    PROVE  PlanInv'
<1> USE BoundsAreNat DEF PlanInv, Refuse, Asks, Leave
<1>1. asked \in Nat /\ asked <= Repairs /\ requests \in Nat
  BY DEF PlanTypeOK, AnswersCounted
<1>2. PlanTypeOK'
  BY <1>1 DEF PlanTypeOK, account
<1>3. EndIsTold'
  BY DEF EndIsTold, FailureIsTold, account
<1>4. QED BY <1>2, <1>3, LeavingStep

\* except RuntimeError: what is written and told when the loop gives up, where
\* a decision there is was reached in an earlier step or lost to a checkpoint.
LEMMA RejectTells ==
    ASSUME PlanInv, Reject, UNCHANGED step, last' \in 0..MaxSteps, requests' \in Nat,
           last' # 0 => \/ interrupted'
                        \/ \E i \in DOMAIN records' :
                               records'[i].ok /\ records'[i].step < step
    PROVE  /\ stage' = "ended" /\ goalRefused' = goalRefused /\ EndIsTold'
           /\ artifact' \in [status : {"none", "failed", "repaired", "success"},
                             final : 0..MaxSteps, repairs : Nat]
           /\ told' \in [event : {"none", "validated", "repaired", "rejected"},
                         repair : BOOLEAN]
           /\ result'.status \in {"asks", "blocked", "failed"}
<1>1. /\ stage' = "ended" /\ goalRefused' = goalRefused
      /\ result'.error = "LLM_ACTION_SCHEMA_INVALID"
      /\ result'.status \in {"asks", "blocked", "failed"}
  BY FailureStatuses DEF Reject, Fail, Leave
<1>2. /\ artifact' = [status |-> Status(last' # 0, requests' > 0), final |-> last',
                      repairs |-> requests']
      /\ told' = [event |-> "rejected", repair |-> last' # 0]
  BY DEF Reject, Written
<1>3. /\ Status(last' # 0, requests' > 0) \in {"failed", "repaired", "success"}
      /\ last' = 0 => Status(last' # 0, requests' > 0) = "failed"
  BY DEF Status
<1>4. (last' # 0) \in BOOLEAN
  OBVIOUS
<1>5. EndIsTold'
  <2>1. CASE last' = 0
    BY <1>1, <1>2, <1>3, <2>1 DEF EndIsTold, FailureIsTold
  <2>2. CASE last' # 0
    BY <1>1, <2>2 DEF EndIsTold, FailureIsTold
  <2>3. QED BY <2>1, <2>2
<1>6. QED BY <1>1, <1>2, <1>3, <1>4, <1>5

\* Before a step has its decision, the last decision is an earlier step's.
LEMMA LastIsEarlier ==
    ASSUME PlanInv, stage \in {"ask", "read"}, last # 0
    PROVE  \E i \in DOMAIN records : records[i].ok /\ records[i].step < step
BY DEF PlanInv, RecordsOfThePast

LEMMA BreakStep ==
    ASSUME PlanInv, NEW byControl \in BOOLEAN, Break(byControl)
    PROVE  PlanInv'
<1>1. /\ stage = "ask" /\ Reject
      /\ asked' = IF byControl THEN asked ELSE asked + 1
      /\ requests' = IF asked > 0 THEN requests + 1 ELSE requests
      /\ interrupted' = (interrupted \/ byControl)
      /\ UNCHANGED <<step, page, answer, records, errors, last, decision,
                     executed, done>>
  BY DEF Break, Asks
<1>2. /\ asked \in Nat /\ asked <= Repairs /\ requests \in Nat
      /\ last \in 0..MaxSteps /\ Repairs \in Nat
  BY <1>1, BoundsAreNat DEF PlanInv, PlanTypeOK, AnswersCounted
<1>3. requests' \in Nat /\ asked' \in 0..(Repairs + 1)
  BY <1>1, <1>2
<1>4. last' # 0 => \E i \in DOMAIN records' : records'[i].ok /\ records'[i].step < step
  BY <1>1, LastIsEarlier
<1>5. /\ stage' = "ended" /\ goalRefused' = goalRefused /\ EndIsTold'
      /\ artifact' \in [status : {"none", "failed", "repaired", "success"},
                        final : 0..MaxSteps, repairs : Nat]
      /\ told' \in [event : {"none", "validated", "repaired", "rejected"},
                    repair : BOOLEAN]
      /\ result'.status \in {"asks", "blocked", "failed"}
  BY <1>1, <1>2, <1>3, <1>4, RejectTells
<1>6. interrupted' \in BOOLEAN
  BY <1>1 DEF PlanInv, PlanTypeOK
<1>7. PlanTypeOK'
  BY <1>1, <1>3, <1>5, <1>6 DEF PlanInv, PlanTypeOK
<1>8. QED BY <1>1, <1>5, <1>7, LeavingStep

LEMMA InterruptDecisionStep ==
    ASSUME PlanInv, InterruptDecision
    PROVE  PlanInv'
<1>1. /\ Reject /\ interrupted' = TRUE
      /\ UNCHANGED <<step, page, planner, decision, executed, done>>
      /\ stage = "decided"
  BY DEF InterruptDecision
<1>2. last' \in 0..MaxSteps /\ requests' \in Nat
  BY <1>1 DEF PlanInv, PlanTypeOK, planner
<1>3. /\ stage' = "ended" /\ goalRefused' = goalRefused /\ EndIsTold'
      /\ artifact' \in [status : {"none", "failed", "repaired", "success"},
                        final : 0..MaxSteps, repairs : Nat]
      /\ told' \in [event : {"none", "validated", "repaired", "rejected"},
                    repair : BOOLEAN]
      /\ result'.status \in {"asks", "blocked", "failed"}
  BY <1>1, <1>2, RejectTells
<1>4. PlanTypeOK'
  BY <1>1, <1>3 DEF PlanInv, PlanTypeOK, planner
<1>5. QED BY <1>1, <1>3, <1>4, LeavingStep DEF planner

LEMMA InterruptCallStep ==
    ASSUME PlanInv, InterruptCall
    PROVE  PlanInv'
<1> USE BoundsAreNat DEF PlanInv
<1>1. /\ stage \in {"seed", "call"} /\ stage' = "ended"
      /\ result' = [status |-> "interrupted", error |-> "none"]
      /\ executed' \in {executed, executed + 1}
      /\ UNCHANGED <<step, page, planner, decision, account, done, interrupted>>
  BY DEF InterruptCall, Leave
<1>2. step \in Nat /\ step <= MaxSteps /\ executed = step - 1
  BY <1>1 DEF StepByStep, PlanTypeOK
<1>3. PlanTypeOK'
  BY <1>1, <1>2 DEF PlanTypeOK, planner, account
<1>4. EndIsTold'
  BY <1>1 DEF EndIsTold, FailureIsTold
<1>5. QED BY <1>1, <1>3, <1>4, LeavingStep DEF planner

LEMMA ProposeStep ==
    ASSUME PlanInv, Propose
    PROVE  PlanInv'
<1> USE BoundsAreNat DEF PlanInv, Propose
<1>1. /\ requests \in Nat /\ last \in 1..MaxSteps /\ last = step
      /\ step \in 3..MaxSteps
  BY DEF PlanTypeOK, DecisionIsLast, StepByStep
<1>2. /\ artifact'.status \in {"repaired", "success"} /\ artifact'.final = step
      /\ artifact' \in [status : {"none", "failed", "repaired", "success"},
                        final : 0..MaxSteps, repairs : Nat]
  <2>1. artifact' = [status |-> Status(last # 0, requests > 0), final |-> last,
                     repairs |-> requests]
    BY DEF Written
  <2>2. last # 0
    BY <1>1
  <2>3. Status(last # 0, requests > 0) \in {"repaired", "success"}
    BY <2>2 DEF Status
  <2>4. QED BY <1>1, <2>1, <2>3
<1>3. /\ told'.event = IF requests > 0 THEN "repaired" ELSE "validated"
      /\ told' \in [event : {"none", "validated", "repaired", "rejected"},
                    repair : BOOLEAN]
  <2>1. told' = [event |-> IF ToldRepaired THEN "repaired" ELSE "validated",
                 repair |-> ToldRepaired]
    OBVIOUS
  <2>2. ToldRepaired \in BOOLEAN
    BY DEF ToldRepaired
  <2>3. told'.event = IF ToldRepaired THEN "repaired" ELSE "validated"
    BY <2>1
  <2>4. QED BY <2>1, <2>2, <2>3 DEF ToldRepaired
<1>4. goalRefused' = goalRefused /\ stage' = "call"
  OBVIOUS
<1>5. PlanTypeOK'
  BY <1>1, <1>2, <1>3, <1>4 DEF PlanTypeOK, planner
<1>6. StepByStep' /\ AnswersCounted' /\ RecordsOfThePast'
  BY DEF StepByStep, AnswersCounted, RecordsOfThePast, planner
<1>7. DecisionIsLast'
  BY DEF DecisionIsLast, planner, Available
<1>8. CallIsTold'
  BY <1>2, <1>3 DEF CallIsTold, planner
<1>9. EndIsTold'
  BY DEF EndIsTold, FailureIsTold
<1>10. QED BY <1>5, <1>6, <1>7, <1>8, <1>9

LEMMA InvokeStep ==
    ASSUME PlanInv, NEW outcome \in Outcomes, NEW where \in Pages,
           Invoke(outcome, where)
    PROVE  PlanInv'
<1> USE BoundsAreNat DEF PlanInv
<1>1. /\ stage = "call" /\ page' \in {"none", "local", "public"}
      /\ executed' = executed + 1 /\ done' = done + 1
      /\ UNCHANGED <<answer, records, errors, requests, last, account, interrupted>>
      /\ step \in 3..MaxSteps /\ executed = step - 1 /\ done = step - 1
      /\ result.error = "none"
  BY DEF Invoke, Pages, StepByStep, PlanTypeOK, EndIsTold
<1>2. CASE /\ stage' = "ended" /\ UNCHANGED <<step, asked, decision>>
           /\ result'.status \in {"asks", "blocked", "failed", "success"}
           /\ result'.error \in {"none"} \cup Outcomes
  <2>1. PlanTypeOK'
    BY <1>1, <1>2 DEF PlanTypeOK, account
  <2>2. EndIsTold'
    BY <1>1, <1>2 DEF EndIsTold, FailureIsTold, Outcomes
  <2>3. QED BY <1>1, <1>2, <2>1, <2>2, LeavingStep
<1>3. CASE /\ stage' = "ask" /\ step' = step + 1 /\ asked' = 0
           /\ decision' = NoDecision /\ UNCHANGED result
  <2>1. PlanTypeOK'
    BY <1>1, <1>3 DEF PlanTypeOK, account
  <2>2. StepByStep'
    BY <1>1, <1>3 DEF StepByStep
  <2>3. RecordsOfThePast'
    <3>1. \A i \in DOMAIN records : records[i].step \in Nat /\ records[i].step <= step
      BY RecordsTyped DEF RecordsOfThePast
    <3>2. \A i \in DOMAIN records : records[i].step < step + 1
      BY <1>1, <3>1
    <3>3. last = step
      BY <1>1 DEF DecisionIsLast
    <3>4. QED BY <1>1, <1>3, <3>1, <3>2, <3>3 DEF RecordsOfThePast
  <2>4. Count(RecordOf(step + 1), records) = 0
    <3>1. {i \in DOMAIN records : records[i] \in RecordOf(step + 1)} = {}
      BY <1>1 DEF RecordOf, RecordsOfThePast
    <3>2. QED BY <3>1, FS_EmptySet DEF Count
  <2>5. AnswersCounted'
    BY <1>1, <1>3, <2>4 DEF AnswersCounted, PlanTypeOK
  <2>6. DecisionIsLast' /\ CallIsTold'
    BY <1>3 DEF DecisionIsLast, CallIsTold
  <2>7. EndIsTold'
    BY <1>1, <1>3 DEF EndIsTold, FailureIsTold
  <2>8. QED BY <2>1, <2>2, <2>3, <2>5, <2>6, <2>7
<1>4. \/ /\ stage' = "ended" /\ UNCHANGED <<step, asked, decision>>
         /\ result'.status \in {"asks", "blocked", "failed", "success"}
         /\ result'.error \in {"none"} \cup Outcomes
      \/ /\ stage' = "ask" /\ step' = step + 1 /\ asked' = 0
         /\ decision' = NoDecision /\ UNCHANGED result
  <2>1. CASE outcome = "RISK_APPROVAL_REQUIRED"
    <3>1. stage' = "ended" /\ result' = [status |-> "failed", error |-> outcome]
      BY <2>1 DEF Invoke, Leave, Succeeds
    <3>2. QED BY <2>1, <3>1 DEF Invoke, Succeeds
  <2>2. CASE outcome # "RISK_APPROVAL_REQUIRED" /\ ~Succeeds(outcome)
    <3>1. /\ stage' = "ended"
          /\ result' = [status |-> FailureStatus(outcome, where), error |-> outcome]
      BY <2>2 DEF Invoke, Fail, Leave
    <3>2. QED BY <2>2, <3>1, FailureStatuses DEF Invoke
  <2>3. CASE outcome = "ok" /\ decision.tool = "finish_task"
    BY <2>3 DEF Invoke, Leave, Succeeds
  <2>4. CASE outcome = "ok" /\ decision.tool # "finish_task"
    BY <2>4 DEF Invoke, Succeeds
  <2>5. QED BY <2>1, <2>2, <2>3, <2>4 DEF Succeeds
<1>5. QED BY <1>2, <1>3, <1>4

\* The record of the answer: what the lists of the planner become.
LEMMA ReadRecords ==
    ASSUME PlanInv, Read
    PROVE  LET e == [step |-> step, ok |-> Accepts(answer)]
           IN  /\ e \in Record /\ step \in 3..MaxSteps /\ answer \in Answers
               /\ records' = Append(records, e)
               /\ records' \in Seq(Record) /\ Len(records') = Len(records) + 1
               /\ DOMAIN records' = DOMAIN records \cup {Len(records) + 1}
               /\ \A i \in DOMAIN records : records'[i] = records[i]
               /\ records'[Len(records) + 1] = e
               /\ \A T : /\ Count(T, records) \in Nat
                         /\ Count(T, records') = IF e \in T THEN Count(T, records) + 1
                                                            ELSE Count(T, records)
<1> USE BoundsAreNat DEF PlanInv
<1> DEFINE e == [step |-> step, ok |-> Accepts(answer)]
<1>1. step \in 3..MaxSteps /\ stage = "read" /\ answer \in Answers
  BY DEF Read, StepByStep, PlanTypeOK
<1>2. Accepts(answer) \in BOOLEAN
  BY DEF Accepts
<1>3. e \in Record
  BY <1>1, <1>2 DEF Record
<1>4. records \in Seq(Record) /\ records' = Append(records, e)
  BY DEF PlanTypeOK, Record, Read, Validated
<1> HIDE DEF e
<1>5. /\ records' \in Seq(Record) /\ Len(records') = Len(records) + 1
      /\ \A i \in 1..Len(records) : records'[i] = records[i]
      /\ records'[Len(records) + 1] = e
  BY <1>3, <1>4, AppendProperties
<1>6. /\ DOMAIN records = 1..Len(records) /\ Len(records) \in Nat
      /\ DOMAIN records' = 1..Len(records')
  BY <1>4, <1>5, LenProperties
<1>7. DOMAIN records' = DOMAIN records \cup {Len(records) + 1}
  BY <1>5, <1>6
<1>8. \A T : /\ Count(T, records) \in Nat
             /\ Count(T, records') = IF e \in T THEN Count(T, records) + 1
                                                ELSE Count(T, records)
  BY <1>3, <1>4, CountGrows
<1>9. QED BY <1>1, <1>3, <1>4, <1>5, <1>6, <1>7, <1>8 DEF e

\* What both ways of reading an answer do to the counts.
LEMMA ReadCounts ==
    ASSUME PlanInv, Read
    PROVE  /\ \A s \in 3..MaxSteps : Count(RecordOf(s), records') <= Repairs + 1
           /\ Count(RecordOf(step), records') = asked
           /\ Accepts(answer) =>
                 /\ errors' = errors
                 /\ Count(RefusedRecord, records') = Len(errors)
           /\ ~Accepts(answer) =>
                 /\ errors' = Append(errors, step) /\ Len(errors') = Len(errors) + 1
                 /\ errors' \in Seq(3..MaxSteps)
                 /\ Count(RefusedRecord, records') = Len(errors')
           /\ Len(errors) = requests /\ Len(errors) \in Nat
<1> USE BoundsAreNat DEF PlanInv
<1> DEFINE e == [step |-> step, ok |-> Accepts(answer)]
<1>1. /\ e \in Record /\ step \in 3..MaxSteps
      /\ \A T : /\ Count(T, records) \in Nat
                /\ Count(T, records') = IF e \in T THEN Count(T, records) + 1
                                                   ELSE Count(T, records)
  BY ReadRecords
<1>2. /\ Len(errors) = Count(RefusedRecord, records) /\ Len(errors) = requests
      /\ \A s \in 3..MaxSteps : Count(RecordOf(s), records) <= Repairs + 1
      /\ Count(RecordOf(step), records) = asked - 1 /\ asked \in 0..(Repairs + 1)
  BY DEF AnswersCounted, Read, PlanTypeOK
<1>3. errors \in Seq(3..MaxSteps) /\ Len(errors) \in Nat
  BY LenProperties DEF PlanTypeOK
<1>4. \A s \in 3..MaxSteps : e \in RecordOf(s) <=> s = step
  BY <1>1 DEF RecordOf
<1>5. e \in RefusedRecord <=> ~Accepts(answer)
  BY <1>1 DEF RefusedRecord
<1> HIDE DEF e
<1>6. Count(RecordOf(step), records') = asked
  BY <1>1, <1>2, <1>4
<1>7. ASSUME NEW s \in 3..MaxSteps PROVE Count(RecordOf(s), records') <= Repairs + 1
  <2>1. CASE s = step
    BY <1>2, <1>6, <2>1
  <2>2. CASE s # step
    BY <1>1, <1>2, <1>4, <2>2
  <2>3. QED BY <2>1, <2>2
<1>8. ASSUME Accepts(answer)
      PROVE  errors' = errors /\ Count(RefusedRecord, records') = Len(errors)
  BY <1>1, <1>2, <1>5, <1>8 DEF Read, Validated
<1>9. ASSUME ~Accepts(answer)
      PROVE  /\ errors' = Append(errors, step) /\ Len(errors') = Len(errors) + 1
             /\ errors' \in Seq(3..MaxSteps)
             /\ Count(RefusedRecord, records') = Len(errors')
  <2>1. errors' = Append(errors, step)
    BY <1>9 DEF Read, Validated
  <2>2. errors' \in Seq(3..MaxSteps) /\ Len(errors') = Len(errors) + 1
    BY <1>1, <1>3, <2>1, AppendProperties
  <2>3. Count(RefusedRecord, records') = Count(RefusedRecord, records) + 1
    BY <1>1, <1>5, <1>9
  <2>4. QED BY <1>2, <2>1, <2>2, <2>3
<1>10. QED BY <1>2, <1>3, <1>6, <1>7, <1>8, <1>9

LEMMA ReadAccepted ==
    ASSUME PlanInv, Read, Accepts(answer)
    PROVE  PlanInv'
<1> USE BoundsAreNat DEF PlanInv
<1> DEFINE e == [step |-> step, ok |-> Accepts(answer)]
<1>1. /\ stage = "read" /\ stage' = "decided" /\ answer' = NoAnswer
      /\ UNCHANGED <<step, page, asked, requests, executed, done, interrupted>>
      /\ UNCHANGED <<account, result>> /\ last' = step
      /\ decision' = [tool |-> Normalized(answer).type,
                      argument |-> Argument(Normalized(answer)), step |-> step]
  BY DEF Read, Decide
<1>2. /\ step \in 3..MaxSteps /\ answer \in Answers
      /\ records' \in Seq(Record) /\ Len(records') = Len(records) + 1
      /\ DOMAIN records' = DOMAIN records \cup {Len(records) + 1}
      /\ \A i \in DOMAIN records : records'[i] = records[i]
      /\ records'[Len(records) + 1] = e
  BY ReadRecords
<1>3. e.step = step /\ e.ok = TRUE /\ e = [step |-> step, ok |-> TRUE]
  <2>1. Accepts(answer) = TRUE
    BY DEF Accepts
  <2>2. QED BY <2>1
<1> HIDE DEF e
<1>4. /\ DOMAIN records = 1..Len(records) /\ Len(records) \in Nat
      /\ \A i \in DOMAIN records : records[i].step \in 3..MaxSteps
  BY RecordsTyped
<1>5. /\ \A i \in DOMAIN records : records[i].ok => records[i].step < step
      /\ \A i \in DOMAIN records : records[i].step <= step
  BY <1>1 DEF RecordsOfThePast
<1>6. decision' \in Decision /\ decision'.tool \in Available /\ decision'.step = step
  BY <1>1, <1>2, ArgumentIsGiven DEF Decision
<1>7. PlanTypeOK'
  BY <1>1, <1>2, <1>6, ReadCounts DEF PlanTypeOK, account, Record
<1>8. StepByStep'
  BY <1>1, <1>2 DEF StepByStep
<1>9. AnswersCounted'
  BY <1>1, ReadCounts DEF AnswersCounted
<1>10. RecordsOfThePast'
  <2>1. \A i \in DOMAIN records' : records'[i].step <= step
    BY <1>2, <1>3, <1>5
  <2>2. Len(records) + 1 \in DOMAIN records'
    BY <1>2
  <2>3. QED BY <1>1, <1>2, <1>3, <2>1, <2>2 DEF RecordsOfThePast
<1>11. DecisionIsLast'
  <2>1. Available' = Available
    BY <1>1 DEF Available
  <2>2. records' # <<>> /\ records'[Len(records')] = [step |-> step, ok |-> TRUE]
    BY <1>2, <1>3, EmptySeq
  <2>3. \A i \in 1..(Len(records') - 1) : records'[i].ok => records'[i].step < step
    BY <1>2, <1>4, <1>5
  <2>4. QED BY <1>1, <1>6, <2>1, <2>2, <2>3 DEF DecisionIsLast
<1>12. CallIsTold'
  BY <1>1 DEF CallIsTold
<1>13. EndIsTold'
  <2>1. result.error = "none" /\ result' = result
    BY <1>1 DEF EndIsTold
  <2>2. QED BY <2>1 DEF EndIsTold, FailureIsTold
<1>14. QED BY <1>7, <1>8, <1>9, <1>10, <1>11, <1>12, <1>13

LEMMA ReadRefused ==
    ASSUME PlanInv, Read, ~Accepts(answer)
    PROVE  PlanInv'
<1> USE BoundsAreNat DEF PlanInv
<1> DEFINE e == [step |-> step, ok |-> Accepts(answer)]
<1>1. /\ stage = "read" /\ answer' = NoAnswer
      /\ UNCHANGED <<step, page, asked, requests, executed, done, interrupted>>
      /\ UNCHANGED <<last, decision>> /\ result.error = "none"
      /\ \/ MayRepair /\ stage' = "ask" /\ UNCHANGED <<account, result>>
         \/ ~MayRepair /\ Reject
  BY DEF Read, Decide, EndIsTold
<1>2. /\ step \in 3..MaxSteps /\ records' \in Seq(Record)
      /\ DOMAIN records' = DOMAIN records \cup {Len(records) + 1}
      /\ \A i \in DOMAIN records : records'[i] = records[i]
      /\ records'[Len(records) + 1] = e
  BY ReadRecords
<1>3. e.step = step /\ e.ok = FALSE
  <2>1. Accepts(answer) = FALSE
    BY DEF Accepts
  <2>2. QED BY <2>1
<1> HIDE DEF e
<1>4. RecordsOfThePast /\ last < step /\ last \in 0..MaxSteps /\ requests \in Nat
  BY <1>1 DEF RecordsOfThePast, PlanTypeOK
<1>5. /\ \A i \in DOMAIN records' : records'[i].step <= step
      /\ \A i \in DOMAIN records' : records'[i].ok => records'[i].step < step
      /\ last # 0 => \E i \in DOMAIN records' :
                         records'[i].ok /\ records'[i].step = last
  BY <1>1, <1>2, <1>3, <1>4 DEF RecordsOfThePast
<1>6. RecordsOfThePast'
  BY <1>1, <1>4, <1>5 DEF RecordsOfThePast
<1>7. AnswersCounted' \/ stage' = "ask"
  BY <1>1, ReadCounts DEF AnswersCounted, Reject, Fail, Leave
<1>8. CASE MayRepair
  <2>1. stage' = "ask" /\ UNCHANGED <<account, result>> /\ asked <= Repairs
    BY <1>1, <1>8 DEF MayRepair
  <2>2. PlanTypeOK'
    BY <1>1, <1>2, <2>1, ReadCounts DEF PlanTypeOK, account, Record
  <2>3. asked \in Nat /\ asked >= 1
    BY <1>1 DEF AnswersCounted, PlanTypeOK
  <2>4. AnswersCounted'
    BY <1>1, <2>1, <2>3, ReadCounts DEF AnswersCounted
  <2>5. StepByStep' /\ DecisionIsLast' /\ CallIsTold'
    BY <1>1, <1>2, <2>1 DEF StepByStep, DecisionIsLast, CallIsTold
  <2>6. EndIsTold'
    BY <1>1, <2>1 DEF EndIsTold, FailureIsTold
  <2>7. QED BY <1>6, <2>2, <2>4, <2>5, <2>6
<1>9. CASE ~MayRepair
  <2>1. Reject
    BY <1>1, <1>9
  <2>2. last' # 0 => \E i \in DOMAIN records' :
                         records'[i].ok /\ records'[i].step < step
    BY <1>1, <1>4, <1>5
  <2>3. /\ stage' = "ended" /\ goalRefused' = goalRefused /\ EndIsTold'
        /\ artifact' \in [status : {"none", "failed", "repaired", "success"},
                          final : 0..MaxSteps, repairs : Nat]
        /\ told' \in [event : {"none", "validated", "repaired", "rejected"},
                      repair : BOOLEAN]
        /\ result'.status \in {"asks", "blocked", "failed"}
    BY <1>1, <1>4, <2>1, <2>2, RejectTells
  <2>4. PlanTypeOK'
    BY <1>1, <1>2, <2>3, ReadCounts DEF PlanTypeOK, Record
  <2>5. AnswersCounted' /\ StepByStep' /\ DecisionIsLast' /\ CallIsTold'
    BY <1>7, <2>3 DEF StepByStep, DecisionIsLast, CallIsTold
  <2>6. QED BY <1>6, <2>3, <2>4, <2>5
<1>10. QED BY <1>8, <1>9

LEMMA PlanStep == PlanInv /\ [PlanNext]_planVars => PlanInv'
<1> SUFFICES ASSUME PlanInv, [PlanNext]_planVars PROVE PlanInv'
  OBVIOUS
<1>1. ASSUME NEW outcome \in Outcomes, NEW where \in Pages,
             Seed(outcome, where) \/ Invoke(outcome, where)
      PROVE  PlanInv'
  BY <1>1, SeedStep, InvokeStep
<1>2. CASE ExceedSteps
  BY <1>2, ExceedStepsStep
<1>3. ASSUME Asks, NEW r \in Answers, Generate(r) PROVE PlanInv'
  BY <1>3, GenerateStep
<1>4. ASSUME NEW code, Refuse(code) PROVE PlanInv'
  BY <1>4, RefuseStep
<1>5. ASSUME NEW byControl \in BOOLEAN, Break(byControl) PROVE PlanInv'
  BY <1>5, BreakStep
<1>6. CASE Read
  BY <1>6, ReadAccepted, ReadRefused
<1>7. CASE InterruptDecision
  BY <1>7, InterruptDecisionStep
<1>8. CASE Propose
  BY <1>8, ProposeStep
<1>9. CASE InterruptCall
  BY <1>9, InterruptCallStep
<1>10. CASE UNCHANGED planVars
  <2>1. PlanTypeOK' /\ StepByStep'
    BY <1>10 DEF planVars, PlanInv, PlanTypeOK, StepByStep
  <2>2. AnswersCounted' /\ RecordsOfThePast'
    BY <1>10 DEF planVars, PlanInv, AnswersCounted, RecordsOfThePast
  <2>3. DecisionIsLast' /\ CallIsTold'
    BY <1>10 DEF planVars, PlanInv, DecisionIsLast, CallIsTold, Available
  <2>4. EndIsTold'
    BY <1>10 DEF planVars, PlanInv, EndIsTold, FailureIsTold
  <2>5. QED BY <2>1, <2>2, <2>3, <2>4 DEF PlanInv
<1>11. QED
  BY <1>1, <1>2, <1>3, <1>4, <1>5, <1>6, <1>7, <1>8, <1>9, <1>10 DEF PlanNext

LEMMA PlanInvariance == PlanSpec => []PlanInv
BY PlanInitInv, PlanStep, PTL DEF PlanSpec

-----------------------------------------------------------------------------
(* The theorems about ActionPlanning.                                      *)

(* Every variable of the loop has its type, whatever the model answers and *)
(* however many steps and repairs a run is given.                          *)
THEOREM PlanTypeCorrect == PlanSpec => []PlanTypeOK
<1>1. PlanInv => PlanTypeOK
  BY DEF PlanInv
<1>2. QED BY <1>1, PlanInvariance, PTL

(* For every set of answers: what becomes a call is the accepted last      *)
(* answer of its step with a tool the page allows, an answer written as    *)
(* the prompt asks is accepted, and the model's own words come before      *)
(* stock ones (parse_auto_explore_decision, _normalize_decision_payload,   *)
(* decision_to_tool_call).                                                 *)
THEOREM AnswersWellRead == PlanSpec => []AnswersAreRead
<1>1. PlanInv => CallIsValidated
  <2> SUFFICES ASSUME PlanInv, stage = "call"
               PROVE  /\ decision.step = step /\ decision.tool \in Available
                      /\ decision.tool \in Input => page = "local"
                      /\ records[Len(records)] = [step |-> step, ok |-> TRUE]
                      /\ \A i \in 1..(Len(records) - 1) :
                             records[i].ok => records[i].step < step
    BY DEF CallIsValidated
  <2>1. /\ decision.step = step /\ decision.tool \in Available
        /\ records[Len(records)] = [step |-> step, ok |-> TRUE]
        /\ \A i \in 1..(Len(records) - 1) : records[i].ok => records[i].step < step
    BY DEF PlanInv, DecisionIsLast
  <2>2. decision.tool \in Input => page = "local"
    BY <2>1 DEF Available
  <2>3. QED BY <2>1, <2>2
<1>2. PlanInv => SchemaIsEnough
  <2> SUFFICES ASSUME PlanInv, stage = "read", Conforms(answer)
               PROVE  SchemaIsEnough
    BY DEF SchemaIsEnough
  <2>1. answer \in Answers
    BY DEF PlanInv, PlanTypeOK
  <2>2. QED BY <2>1, ConformingIsAccepted DEF SchemaIsEnough
<1>3. PlanInv => ModelsWordsAreUsed
  <2> SUFFICES ASSUME PlanInv, stage = "read", Accepts(answer),
                      Argument(Normalized(answer)) \in {"goal", "fixed", "reason"}
               PROVE  Reads(Normalized(answer).type)
                          \cap (answer.act \cup answer.top) = {}
    BY DEF ModelsWordsAreUsed
  <2>1. answer \in Answers
    BY DEF PlanInv, PlanTypeOK
  <2>2. QED BY <2>1, OwnWordsFirst
<1>4. PlanInv => AnswersAreRead
  BY <1>1, <1>2, <1>3 DEF AnswersAreRead
<1>5. QED BY <1>4, PlanInvariance, PTL

\* A list of errors that is as long as none was made is empty.
LEMMA NoErrors ==
    ASSUME PlanInv, Len(errors) = 0
    PROVE  errors = <<>> /\ \A i \in DOMAIN errors : FALSE
<1>1. errors \in Seq(3..MaxSteps)
  BY DEF PlanInv, PlanTypeOK
<1>2. QED BY <1>1, EmptySeq, LenProperties

(* For every set of answers and every budget: the file names the decision  *)
(* that is called, a failure without a decision is told as one, the        *)
(* planner's lists agree, "repaired" follows a refused answer, and the     *)
(* steps and repairs stay within their bounds                              *)
(* (_write_action_validation_artifact, AutoExploreActionPlanner).          *)
THEOREM OneAccountOfAnswers == PlanSpec => []RepairsAccounted
<1>1. PlanInv => ArtifactIsCurrent /\ FailureIsTold
  BY DEF PlanInv, DecisionIsLast, CallIsTold, EndIsTold, ArtifactIsCurrent
<1>2. PlanInv => RepairsAnswerErrors
  <2> SUFFICES ASSUME PlanInv PROVE RepairsAnswerErrors
    OBVIOUS
  <2>1. \A i \in DOMAIN records : records[i] \in RefusedRecord <=> ~records[i].ok
    <3>1. records \in Seq(Record)
      BY DEF PlanInv, PlanTypeOK, Record
    <3>2. \A i \in DOMAIN records : records[i] \in Record
      BY <3>1, LenProperties, ElementOfSeq
    <3>3. QED BY <3>2 DEF RefusedRecord
  <2>2. {i \in DOMAIN records : ~records[i].ok}
            = {i \in DOMAIN records : records[i] \in RefusedRecord}
    BY <2>1
  <2>3. Len(errors) = Cardinality({i \in DOMAIN records : ~records[i].ok})
    BY <2>2 DEF PlanInv, AnswersCounted, Count
  <2>4. stage \in {"decided", "call"} => requests = Len(errors)
    BY DEF PlanInv, AnswersCounted
  <2>5. QED BY <2>3, <2>4 DEF RepairsAnswerErrors
<1>3. PlanInv => RepairIsTold
  <2> SUFFICES ASSUME PlanInv, stage = "call"
               PROVE  IF told.event = "repaired" THEN errors # <<>>
                      ELSE \A i \in DOMAIN errors : errors[i] # step
    BY DEF RepairIsTold
  <2>1. /\ told.event = IF requests > 0 THEN "repaired" ELSE "validated"
        /\ Len(errors) = requests /\ requests \in Nat
    BY DEF PlanInv, CallIsTold, AnswersCounted, PlanTypeOK
  <2>2. CASE requests > 0
    BY <2>1, <2>2, EmptySeq
  <2>3. CASE requests = 0
    BY <2>1, <2>3, NoErrors
  <2>4. QED BY <2>1, <2>2, <2>3
<1>4. PlanInv => BudgetBounds
  <2> SUFFICES ASSUME PlanInv PROVE BudgetBounds
    OBVIOUS
  <2>1. ASSUME NEW s \in 3..MaxSteps
        PROVE  Cardinality({i \in DOMAIN records : records[i].step = s}) <= Repairs + 1
    <3>1. \A i \in DOMAIN records : records[i] \in RecordOf(s) <=> records[i].step = s
      <4>1. records \in Seq(Record)
        BY DEF PlanInv, PlanTypeOK, Record
      <4>2. \A i \in DOMAIN records : records[i] \in Record
        BY <4>1, LenProperties, ElementOfSeq
      <4>3. QED BY <4>2 DEF RecordOf
    <3>2. {i \in DOMAIN records : records[i].step = s}
              = {i \in DOMAIN records : records[i] \in RecordOf(s)}
      BY <3>1
    <3>3. QED BY <3>2 DEF PlanInv, AnswersCounted, Count
  <2>2. executed <= MaxSteps
    BY BoundsAreNat DEF PlanInv, PlanTypeOK
  <2>3. result.error = "MAX_STEPS_EXCEEDED" => executed = MaxSteps /\ done = MaxSteps
    BY DEF PlanInv, EndIsTold
  <2>4. QED BY <2>1, <2>2, <2>3 DEF BudgetBounds
<1>5. PlanInv => RepairsAccounted
  BY <1>1, <1>2, <1>3, <1>4 DEF RepairsAccounted
<1>6. QED BY <1>5, PlanInvariance, PTL
=============================================================================
