----------------------------- MODULE EventStream -----------------------------
(***************************************************************************)
(* The events of one task: the store that keeps them in order, the bus     *)
(* that copies each to the queue of every subscriber, the file             *)
(* events.jsonl, and the generator that serves one connection of a         *)
(* console (runtime/execution/events.py, _publish_task_event,              *)
(* stream_task_events).  Workers and endpoints publish from their own      *)
(* threads; the generators run on the event loop.                          *)
(***************************************************************************)
EXTENDS Naturals, Sequences, FiniteSets, Functions

CONSTANTS
    Workers,      \* threads that carry a run and settle the status
    Endpoints,    \* threads of the API that publish an event of their own
    Streams,      \* connections; a console that connects again has another
    MaxEvents,    \* bound on the events of the task
    MaxMarks      \* bound on the status changes endpoints make

ASSUME EventStreamAssumption ==
    /\ Workers \cap Endpoints = {}
    /\ {MaxEvents, MaxMarks} \subseteq Nat

VARIABLES
    log,      \* TaskEventStore._events: what happened, in order of append
    file,     \* number of events in events.jsonl, always the first ones
    status,   \* _TaskState.status: "running" or anything else
    pub,      \* a publisher's place in _publish_task_event
    settled,  \* workers whose run is over
    queue,    \* the asyncio.Queue of a subscription
    subs,     \* subscriptions the bus knows
    at,       \* a connection's place in event_generator
    history,  \* the events get_events returned to a connection
    seen,     \* seen_event_ids of a connection
    sent,     \* what a connection sent, in order
    marks,    \* status changes made by endpoints
    overlap   \* history: two writes of the file have overlapped

taskVars == <<log, file, status, pub, settled, marks, overlap>>
connVars == <<queue, subs, at, history, seen, sent>>
vars == <<log, file, status, pub, settled, queue, subs, at, history, seen,
          sent, marks, overlap>>

Publishers == Workers \cup Endpoints

(* An event is known by its number in the log; its kind matters only when *)
(* it ends a stream.                                                      *)
Event == [by : Publishers, terminal : BOOLEAN]

Ids == 1..MaxEvents

IsTerminal(e) == log[e].terminal

Place == {"off", "opened", "noevents", "sending", "check", "live",
          "registering", "asleep", "closed"}

Listening == {"check", "live", "registering", "asleep"}

Idle == [at |-> "idle", event |-> 0, snap |-> 0]

TypeOK ==
    /\ log \in Seq(Event) /\ Len(log) <= MaxEvents
    /\ file \in 0..Len(log)
    /\ status \in {"running", "other"}
    /\ pub \in [Publishers -> [at : {"idle", "publish", "list", "write"},
                               event : 0..MaxEvents, snap : 0..MaxEvents]]
    /\ settled \subseteq Workers
    /\ queue \in [Streams -> Seq(Ids)]
    /\ subs \subseteq Streams
    /\ at \in [Streams -> Place]
    /\ history \in [Streams -> 0..Len(log)]
    /\ seen \in [Streams -> SUBSET Ids]
    /\ sent \in [Streams -> Seq(Ids)]
    /\ marks \in 0..MaxMarks
    /\ overlap \in BOOLEAN

Init ==
    /\ log = <<>> /\ file = 0 /\ status = "running"
    /\ pub = [p \in Publishers |-> Idle]
    /\ settled = {} /\ marks = 0 /\ overlap = FALSE
    /\ queue = [s \in Streams |-> <<>>] /\ subs = {}
    /\ at = [s \in Streams |-> "off"]
    /\ history = [s \in Streams |-> 0]
    /\ seen = [s \in Streams |-> {}]
    /\ sent = [s \in Streams |-> <<>>]

-----------------------------------------------------------------------------
(* Publishing.  _publish_task_event appends under the store's lock, then  *)
(* publishes, then writes the file: three steps, and the write is three   *)
(* of its own, none of them under a lock.                                 *)

AppendEvent(p) ==
    /\ pub[p].at = "idle"
    /\ p \notin settled
    /\ Len(log) < MaxEvents
    /\ \E terminal \in BOOLEAN :
          log' = Append(log, [by |-> p, terminal |-> terminal])
    /\ pub' = [pub EXCEPT ![p] = [@ EXCEPT !.at = "publish", !.event = Len(log) + 1]]
    /\ UNCHANGED <<file, status, settled, marks, overlap>> /\ UNCHANGED connVars

\* Mutant: without a subscriber the event is not written to the file.
PublishOrWrite(p) ==
    /\ pub[p].at = "publish"
    /\ queue' = [s \in Streams |->
                    IF s \in subs THEN Append(queue[s], pub[p].event) ELSE queue[s]]
    /\ at' = [s \in Streams |->
                 IF s \in subs /\ at[s] = "asleep" THEN "live" ELSE at[s]]
    /\ pub' = [pub EXCEPT ![p] = IF subs = {} THEN Idle ELSE [@ EXCEPT !.at = "list"]]
    /\ UNCHANGED <<log, file, status, settled, marks, overlap>>
    /\ UNCHANGED <<subs, history, seen, sent>>

(* put_nowait wakes a getter that waits; one that has looked at the queue *)
(* and not registered yet is not there to be woken.                       *)
Publish(p) ==
    /\ pub[p].at = "publish"
    /\ queue' = [s \in Streams |->
                    IF s \in subs THEN Append(queue[s], pub[p].event) ELSE queue[s]]
    /\ at' = [s \in Streams |->
                 IF s \in subs /\ at[s] = "asleep" THEN "live" ELSE at[s]]
    /\ pub' = [pub EXCEPT ![p].at = "list"]
    /\ UNCHANGED <<log, file, status, settled, marks, overlap>>
    /\ UNCHANGED <<subs, history, seen, sent>>

ListEvents(p) ==
    /\ pub[p].at = "list"
    /\ pub' = [pub EXCEPT ![p] = [at |-> "write", event |-> 0, snap |-> Len(log)]]
    /\ overlap' = (overlap \/ \E q \in Publishers : pub[q].at = "write")
    /\ UNCHANGED <<log, file, status, settled, marks>> /\ UNCHANGED connVars

(* Opening the file truncates it.  Two handles open at once write the     *)
(* same lines from its start: the longer list may remain.                 *)
WriteFile(p) ==
    /\ pub[p].at = "write"
    /\ \/ file' = pub[p].snap
       \/ overlap /\ file > pub[p].snap /\ file' = file
    /\ pub' = [pub EXCEPT ![p] = Idle]
    /\ UNCHANGED <<log, status, settled, marks, overlap>> /\ UNCHANGED connVars

(* The end of _run_async_task: the status changes after the last event of *)
(* the run, and write_task_artifacts lists and writes the events again.   *)
Settle(w) ==
    /\ pub[w].at = "idle" /\ w \notin settled
    /\ status' = "other"
    /\ settled' = settled \cup {w}
    /\ pub' = [pub EXCEPT ![w].at = "list"]
    /\ UNCHANGED <<log, file, marks, overlap>> /\ UNCHANGED connVars

(* An endpoint marks the task paused, or running again, while a worker    *)
(* still carries it.                                                      *)
Mark ==
    /\ marks < MaxMarks
    /\ settled # Workers
    /\ status' = IF status = "running" THEN "other" ELSE "running"
    /\ marks' = marks + 1
    /\ UNCHANGED <<log, file, pub, settled, overlap>> /\ UNCHANGED connVars

-----------------------------------------------------------------------------
(* A connection: event_generator.                                         *)

Goto(s, place) == at' = [at EXCEPT ![s] = place]

(* The finally clause: subscription.close() makes the bus forget it.      *)
Close(s) ==
    /\ Goto(s, "closed")
    /\ subs' = subs \ {s}
    /\ queue' = [queue EXCEPT ![s] = <<>>]
    /\ history' = [history EXCEPT ![s] = 0]

Open(s) ==
    /\ at[s] = "off"
    /\ Goto(s, "opened")
    /\ subs' = subs \cup {s}
    /\ UNCHANGED <<queue, history, seen, sent>> /\ UNCHANGED taskVars

\* Mutant: the history is counted from the next event id.
ReadHistoryNextId(s) ==
    /\ at[s] = "opened"
    /\ history' = [history EXCEPT ![s] = Len(log) + 1]
    /\ Goto(s, IF log = <<>> THEN "noevents" ELSE "sending")
    /\ UNCHANGED <<queue, subs, seen, sent>> /\ UNCHANGED taskVars

ReadHistory(s) ==
    /\ at[s] = "opened"
    /\ history' = [history EXCEPT ![s] = Len(log)]
    /\ Goto(s, IF log = <<>> THEN "noevents" ELSE "sending")
    /\ UNCHANGED <<queue, subs, seen, sent>> /\ UNCHANGED taskVars

NoHistory(s) ==
    /\ at[s] = "noevents"
    /\ \/ /\ status # "running" /\ Close(s)
       \/ /\ status = "running" /\ Goto(s, "sending")
          /\ UNCHANGED <<queue, subs, history>>
    /\ UNCHANGED <<seen, sent>> /\ UNCHANGED taskVars

\* Mutant: what the history sent is not remembered as seen.
SendHistoryUnseen(s) ==
    /\ at[s] = "sending"
    /\ sent' = [sent EXCEPT ![s] = [i \in 1..history[s] |-> i]]
    /\ history' = [history EXCEPT ![s] = 0]
    /\ Goto(s, "check")
    /\ UNCHANGED <<queue, subs, seen>> /\ UNCHANGED taskVars

SendHistory(s) ==
    /\ at[s] = "sending"
    /\ seen' = [seen EXCEPT ![s] = @ \cup 1..history[s]]
    /\ sent' = [sent EXCEPT ![s] = [i \in 1..history[s] |-> i]]
    /\ history' = [history EXCEPT ![s] = 0]
    /\ Goto(s, "check")
    /\ UNCHANGED <<queue, subs>> /\ UNCHANGED taskVars

\* Mutant: the generator always listens on.
CheckStatusNever(s) ==
    /\ at[s] = "check"
    /\ Goto(s, "live")
    /\ UNCHANGED <<queue, subs, history, seen, sent>> /\ UNCHANGED taskVars

CheckStatus(s) ==
    /\ at[s] = "check"
    /\ \/ /\ status # "running" /\ Close(s)
       \/ /\ status = "running" /\ Goto(s, "live")
          /\ UNCHANGED <<queue, subs, history>>
    /\ UNCHANGED <<seen, sent>> /\ UNCHANGED taskVars

(* One turn of the loop over the subscription: an event already sent is   *)
(* skipped, a terminal one ends the stream either way.                    *)
Deliver(s) ==
    /\ at[s] = "live" /\ queue[s] # <<>>
    /\ LET e == Head(queue[s]) IN
       /\ seen' = [seen EXCEPT ![s] = @ \cup {e}]
       /\ sent' = [sent EXCEPT ![s] = IF e \in seen[s] THEN @ ELSE Append(@, e)]
       /\ IF IsTerminal(e)
          THEN Close(s)
          ELSE queue' = [queue EXCEPT ![s] = Tail(@)] /\ UNCHANGED <<at, subs, history>>
    /\ UNCHANGED taskVars

(* asyncio.Queue.get looks at the queue and then registers a getter.  The *)
(* publishers are other threads, so a put can fall in between.            *)
LookEmpty(s) ==
    /\ at[s] = "live" /\ queue[s] = <<>>
    /\ Goto(s, "registering")
    /\ UNCHANGED <<queue, subs, history, seen, sent>>
    /\ UNCHANGED taskVars

Register(s) ==
    /\ at[s] = "registering"
    /\ Goto(s, "asleep")
    /\ UNCHANGED <<queue, subs, history, seen, sent>>
    /\ UNCHANGED taskVars

(* The client goes away: the response is cancelled where it awaits.       *)
Disconnect(s) ==
    /\ at[s] \in {"sending", "check", "live", "asleep"}
    /\ Close(s)
    /\ UNCHANGED <<seen, sent>> /\ UNCHANGED taskVars

-----------------------------------------------------------------------------
Write(p) == ListEvents(p) \/ WriteFile(p)

Serve(s) ==
    \/ ReadHistory(s) \/ NoHistory(s) \/ SendHistory(s) \/ CheckStatus(s)
    \/ Deliver(s) \/ LookEmpty(s) \/ Register(s)

Next ==
    \/ \E p \in Publishers : AppendEvent(p) \/ Publish(p) \/ Write(p)
    \/ \E w \in Workers : Settle(w)
    \/ Mark
    \/ \E s \in Streams : Open(s) \/ Serve(s) \/ Disconnect(s)

(* Publishers are threads the operating system schedules, a run settles,  *)
(* the event loop serves what is ready, and the server's own timer keeps  *)
(* the loop turning.                                                      *)
Fairness ==
    /\ \A p \in Publishers : WF_vars(Publish(p)) /\ WF_vars(Write(p))
    /\ \A w \in Workers : WF_vars(Settle(w))
    /\ \A s \in Streams : WF_vars(Serve(s))

Spec == Init /\ [][Next]_vars /\ Fairness

-----------------------------------------------------------------------------
(* Safety.                                                                *)

InFlight(e) == \E p \in Publishers : pub[p].at = "publish" /\ pub[p].event = e

(* No event falls between the history and the subscription: what a        *)
(* listening connection has not sent waits in its queue or is about to be *)
(* published.  It rests on event_generator subscribing before it reads    *)
(* the history, and on append coming before publish.                      *)
NothingMissed ==
    \A s \in Streams : at[s] \in Listening =>
        \A e \in DOMAIN log :
            e \in seen[s] \/ e \in Range(queue[s]) \/ InFlight(e)

(* An event that is both in the history and in the queue is sent once: a  *)
(* connection never repeats an event.                                     *)
SentOnce == \A s \in Streams : IsInjective(sent[s])

(* The events of one publisher arrive in the order it appended them,      *)
(* whatever the others do, across the change from history to live events. *)
ProducerOrder ==
    \A s \in Streams : \A i, j \in DOMAIN sent[s] :
        /\ i < j
        /\ log[sent[s][i]].by = log[sent[s][j]].by
        => sent[s][i] < sent[s][j]

(* events.jsonl is what a console falls back to: when nobody publishes it *)
(* holds the whole log, unless two publishers wrote it at the same time.  *)
FileWhole ==
    (~overlap /\ \A p \in Publishers : pub[p].at = "idle") => file = Len(log)

(* What a connection sends is the task's history: whole, once, in order.  *)
Delivered == NothingMissed /\ SentOnce /\ ProducerOrder

-----------------------------------------------------------------------------
(* Liveness.                                                              *)

Rested == settled = Workers /\ status # "running"

(* A console that connects once the task rests is let go, whatever events *)
(* were published while nobody listened.  A connection opened earlier may  *)
(* not be: nobody tells it of a status that changes while it waits.        *)
LateConsoleReleased ==
    \A s \in Streams : (Rested /\ at[s] = "opened") ~> (at[s] = "closed")
=============================================================================
