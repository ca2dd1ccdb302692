----------------------------- MODULE EventOutbox -----------------------------
(***************************************************************************)
(* The outbox through which MCP sessions wake their clients (events,       *)
(* channel, webhook, work_notifications).  Every session has an owner      *)
(* identity of its own and a pump that sends its events; producers commit  *)
(* an event and then set the pump's wake flag; a client recovers events    *)
(* that another session left, at any moment of that session's pump.        *)
(*                                                                         *)
(* One task and one desktop job, both run by Runner: the task is asked     *)
(* about and ends, the job reports.  A row is named by the session that    *)
(* created it and its key, which is unique per owner.                      *)
(***************************************************************************)
EXTENDS Integers, FiniteSets

CONSTANTS
  Session,      \* MCP servers, each with its client
  Runner,       \* the session that runs the task
  MaxPending,   \* webhook events an owner may leave unacknowledged
  BatchLimit,   \* events a pump takes at a time
  MaxEvents,    \* bound: events ever created
  MaxTroubles   \* bound: failed writes to a client or the database, recoveries of events

NoOne == "no session"

ASSUME OutboxBounds ==
  /\ Runner \in Session /\ NoOne \notin Session
  /\ MaxPending \in Nat \ {0} /\ BatchLimit \in Nat \ {0}
  /\ MaxEvents \in Nat /\ MaxTroubles \in Nat

VARIABLES
  events,     \* the rows of channel_events
  job,        \* the status of the task
  channel,    \* each session's delivery: confirmation, wake flag and pump
  delivered,  \* history: the events each client was sent
  troubles    \* failures and recoveries so far

outboxVars == <<events, job, channel, delivered, troubles>>

-----------------------------------------------------------------------------
Key == {"question", "ended", "webhook", "desktop"}
OfTask == {"question", "ended"}
Row == Session \X Key

OutboxTypeOK ==
  /\ events \in [Row -> [owner : Session \union {NoOne}, sent : BOOLEAN, acked : BOOLEAN]]
  /\ job \in {"active", "waiting", "ended"}
  /\ channel \in [Session -> [alive : BOOLEAN, confirmed : BOOLEAN, wake : BOOLEAN,
        owed : BOOLEAN, at : {"wait", "read", "send", "mark"}, batch : SUBSET Row,
        full : BOOLEAN, last : SUBSET Row]]
  /\ delivered \in [Session -> SUBSET Row] /\ troubles \in 0..MaxTroubles

OutboxInit ==
  /\ events = [r \in Row |-> [owner |-> NoOne, sent |-> FALSE, acked |-> FALSE]]
  /\ job = "active"
  /\ channel = [s \in Session |-> [alive |-> TRUE, confirmed |-> FALSE, wake |-> FALSE,
        owed |-> FALSE, at |-> "wait", batch |-> {}, full |-> FALSE, last |-> {}]]
  /\ delivered = [s \in Session |-> {}] /\ troubles = 0

-----------------------------------------------------------------------------
Created == {r \in Row : events[r].owner # NoOne}
Unacked(s) == {r \in Row : events[r].owner = s /\ ~events[r].acked}
Unsent(s) == {r \in Unacked(s) : ~events[r].sent}
Hooks(s) == {r \in Unacked(s) : r[2] = "webhook"}
Attends(s) == channel[s].alive

\* The owner has, or had, an event under this key: nothing is added.
Known(s, key) == \E r \in Row : events[r].owner = s /\ r[2] = key

\* EventStore._enqueue.  (A row that was adopted by another owner keeps its name,
\* so the model lets a session create a key only once.)
Enqueued(s, key) ==
  IF Known(s, key) \/ <<s, key>> \in Created THEN events
  ELSE [events EXCEPT ![<<s, key>>].owner = s]
MayEnqueue(s, key) ==
  /\ Attends(s) /\ Cardinality(Created) < MaxEvents
  /\ key = "webhook" /\ ~Known(s, key) => Cardinality(Hooks(s)) < MaxPending

\* The signal follows the commit, in the producer's thread.
Owing(s) == channel' = [channel EXCEPT ![s].owed = TRUE]
Signal(s) ==
  /\ Attends(s) /\ channel[s].owed
  /\ channel' = [channel EXCEPT ![s].owed = FALSE, ![s].wake = TRUE]
  /\ UNCHANGED <<events, job, delivered, troubles>>

\* A question of the task and its end are committed with their event.
AskClient ==
  /\ job = "active" /\ MayEnqueue(Runner, "question")
  /\ job' = "waiting"
  /\ events' = Enqueued(Runner, "question") /\ Owing(Runner)
  /\ UNCHANGED <<delivered, troubles>>

\* TaskStore.finish in the runner, and TaskStore.recover after its death.
EndJob(s) ==
  /\ job # "ended" /\ MayEnqueue(s, "ended")
  /\ s = Runner \/ ~Attends(Runner)
  /\ job' = "ended"
  /\ events' = Enqueued(s, "ended") /\ Owing(s)
  /\ UNCHANGED <<delivered, troubles>>

\* ChannelDelivery._receive_webhook, only while the channel is confirmed; what
\* WorkNotifications._scan publishes differs in having no limit.
Publish(s) ==
  /\ channel[s].confirmed /\ MayEnqueue(s, "webhook")
  /\ events' = Enqueued(s, "webhook") /\ Owing(s)
  /\ UNCHANGED <<job, delivered, troubles>>

\* EventStore.record_desktop_result: publishes and, if the caller saw the result at once,
\* acknowledges in one step.
RecordDesktop ==
  /\ MayEnqueue(Runner, "desktop")
  /\ \E observed \in BOOLEAN :
       events' = IF observed /\ events[<<Runner, "desktop">>].owner \in {Runner, NoOne}
                 THEN [Enqueued(Runner, "desktop") EXCEPT ![<<Runner, "desktop">>].acked = TRUE]
                 ELSE Enqueued(Runner, "desktop")
  /\ Owing(Runner)
  /\ UNCHANGED <<job, delivered, troubles>>

-----------------------------------------------------------------------------
(* The pump of a session.                                                  *)

Pump(s, step) == Attends(s) /\ channel[s].at = step /\ UNCHANGED job
Fail == troubles < MaxTroubles /\ troubles' = troubles + 1
Unconfirmed(s) ==
  [channel EXCEPT ![s].confirmed = FALSE, ![s].at = "wait", ![s].batch = {}]

\* Mutant: what was signalled while the pump was reading is forgotten.
RestForgetting(s) ==
  [channel EXCEPT ![s].at = "wait", ![s].full = FALSE,
                  ![s].wake = channel[s].full /\ channel[s].confirmed]

\* A full batch may have left others behind.
Rest(s) ==
  [channel EXCEPT ![s].at = "wait", ![s].full = FALSE,
                  ![s].wake = @ \/ (channel[s].full /\ channel[s].confirmed)]

\* The flag is cleared before the outbox is read.
Wake(s) ==
  /\ Pump(s, "wait") /\ channel[s].wake
  /\ channel' = [channel EXCEPT ![s].wake = FALSE,
                   ![s].at = IF channel[s].confirmed THEN "read" ELSE "wait"]
  /\ UNCHANGED <<events, delivered, troubles>>

\* The oldest come first; whose turn it is makes no difference to what follows.
ReadBatch(s) ==
  /\ Pump(s, "read")
  /\ \/ /\ \E batch \in SUBSET Unsent(s) :
             /\ Cardinality(batch) <= BatchLimit
             /\ batch = Unsent(s) \/ Cardinality(batch) = BatchLimit
             /\ channel' = [channel EXCEPT ![s].at = "send", ![s].batch = batch,
                              ![s].full = Cardinality(batch) = BatchLimit]
        /\ UNCHANGED troubles
     \/ Fail /\ channel' = Unconfirmed(s)
  /\ UNCHANGED <<events, delivered>>

SendEvent(s, r) ==
  /\ Pump(s, "send") /\ r \in channel[s].batch
  /\ \/ /\ channel' = [channel EXCEPT ![s].at = "mark", ![s].batch = @ \ {r}, ![s].last = {r}]
        /\ delivered' = [delivered EXCEPT ![s] = @ \union {r}]
        /\ UNCHANGED troubles
     \/ Fail /\ channel' = Unconfirmed(s) /\ UNCHANGED delivered
  /\ UNCHANGED events

\* EventStore.mark_sent: the owner is part of the key.
Marked(s, r) == IF events[r].owner = s THEN [events EXCEPT ![r].sent = TRUE] ELSE events

Mark(s) ==
  /\ Pump(s, "mark")
  /\ \/ /\ \E r \in channel[s].last : events' = Marked(s, r)
        /\ channel' = [channel EXCEPT ![s].at = "send", ![s].last = {}]
        /\ UNCHANGED troubles
     \/ /\ Fail /\ UNCHANGED events
        /\ channel' = [Unconfirmed(s) EXCEPT ![s].last = {}]
  /\ UNCHANGED delivered

EndBatch(s) ==
  /\ Pump(s, "send") /\ channel[s].batch = {} /\ channel' = Rest(s)
  /\ UNCHANGED <<events, delivered, troubles>>

-----------------------------------------------------------------------------
(* What a client does.                                                     *)

\* A probe that was answered: the channel is used from now on.
Confirm(s) ==
  /\ Attends(s) /\ ~channel[s].confirmed
  /\ channel' = [channel EXCEPT ![s].confirmed = TRUE, ![s].owed = TRUE]
  /\ UNCHANGED <<events, job, delivered, troubles>>

Acknowledge(s, r) ==
  /\ Attends(s) /\ r \in Unacked(s)
  /\ events' = [events EXCEPT ![r].acked = TRUE]
  /\ UNCHANGED <<job, channel, delivered, troubles>>

\* ChannelDelivery.seen: the state an event is about was read by this client.
SeeEvents(s) ==
  /\ Attends(s) /\ job \in {"waiting", "ended"}
  /\ LET key == IF job = "ended" THEN "ended" ELSE "question" IN
     events' = [r \in Row |-> IF r \in Unacked(s) /\ r[2] = key
                              THEN [events[r] EXCEPT !.acked = TRUE] ELSE events[r]]
  /\ UNCHANGED <<job, channel, delivered, troubles>>

\* Events of a task that ended, or any one event, change their owner and are to be
\* sent again.  The unique key of the new owner, acknowledged or not, refuses all.
MayAdopt(s, rows) ==
  /\ Attends(s) /\ rows # {}
  /\ \A r \in rows : ~events[r].acked
  /\ \A r \in rows : \A q \in Row \ {r} : q[2] = r[2] => events[q].owner # s
  /\ Cardinality({r \in rows : r[2] = "webhook" /\ events[r].owner # s})
       + (IF \E r \in rows : r[2] = "webhook" /\ events[r].owner # s
          THEN Cardinality(Hooks(s)) ELSE 0) <= MaxPending
Adopted(s, rows) ==
  /\ events' = [r \in Row |-> IF r \in rows THEN [events[r] EXCEPT !.owner = s, !.sent = FALSE]
                              ELSE events[r]]
  /\ Owing(s)
  /\ troubles < MaxTroubles /\ troubles' = troubles + 1
  /\ UNCHANGED <<job, delivered>>

Adopt(s) ==
  /\ job = "ended"
  /\ LET rows == {r \in Created : r[2] \in OfTask /\ ~events[r].acked} IN
     MayAdopt(s, rows) /\ Adopted(s, rows)

AdoptEvent(s, r) ==
  /\ r \in Created /\ (r[2] \in OfTask => job = "ended")
  /\ MayAdopt(s, {r}) /\ Adopted(s, {r})

\* The server exits, or dies.
LeaveSession(s) ==
  /\ Attends(s)
  /\ channel' = [channel EXCEPT ![s] = [@ EXCEPT !.alive = FALSE, !.confirmed = FALSE,
                   !.wake = FALSE, !.owed = FALSE, !.at = "wait", !.batch = {}, !.full = FALSE,
                   !.last = {}]]
  /\ UNCHANGED <<events, job, delivered, troubles>>

OutboxNext ==
  \/ AskClient \/ RecordDesktop
  \/ \E s \in Session :
       \/ EndJob(s) \/ Signal(s) \/ Wake(s) \/ ReadBatch(s)
       \/ Mark(s) \/ EndBatch(s) \/ Confirm(s) \/ SeeEvents(s) \/ Adopt(s) \/ LeaveSession(s)
       \/ Publish(s)
       \/ \E r \in Row : SendEvent(s, r) \/ Acknowledge(s, r) \/ AdoptEvent(s, r)

OutboxSpec == OutboxInit /\ [][OutboxNext]_outboxVars

-----------------------------------------------------------------------------
\* A live session whose channel is confirmed does not sleep over an event of its
\* own, unless a producer is about to wake it: no wake is lost between the pump's
\* reading and its waiting, whoever commits, recovers or fails in between.  What is
\* marked as sent was sent to the client that owns it, also when the owner changed
\* while it was under way.  And no owner holds more webhook events than it may.
Sleeps(s) ==
  /\ Attends(s) /\ channel[s].confirmed /\ channel[s].at = "wait"
  /\ ~channel[s].wake /\ ~channel[s].owed
EventsReachTheirOwner ==
  /\ OutboxTypeOK
  /\ \A s \in Session : /\ Sleeps(s) => Unsent(s) = {}
                        /\ Cardinality(Hooks(s)) <= MaxPending
  /\ \A r \in Created : events[r].sent => r \in delivered[events[r].owner]
=============================================================================
