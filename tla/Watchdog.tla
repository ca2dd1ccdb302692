------------------------------ MODULE Watchdog -------------------------------
(***************************************************************************)
(* The timer a client may lean on instead of polling (watchdog).  A tool   *)
(* result carries tickets for the active tasks; a hook process of the      *)
(* client presents them to the server and, once armed, wakes the client    *)
(* when its lifetime is over, even when the server is gone.  The server    *)
(* tells in every result whether such a hook is on guard: it may say so    *)
(* only of a hook that is, and which owns the marker of the session.       *)
(*                                                                         *)
(* Servers are numbered in the order of their birth.  Of time only the     *)
(* order counts: a timer is far from its deadline, near (less than two     *)
(* seconds) or past it.                                                    *)
(***************************************************************************)
EXTENDS Integers

CONSTANTS
  Watched,        \* native tasks
  MaxServers,     \* bound: incarnations of the server
  MaxRenewals,    \* bound: later servers and later sessions together
  MaxHooks,       \* bound: hook processes
  MaxEpochs,      \* bound: starts of the session
  MaxGenerations  \* bound: tickets of a server

ASSUME WatchdogBounds ==
  {MaxServers, MaxHooks, MaxEpochs, MaxGenerations, MaxRenewals} \subseteq Nat \ {0}

VARIABLES
  marker,     \* the session's marker file
  incarnation,\* the servers
  hook,       \* the hook processes
  attested    \* the guards a client was told of

watchdogVars == <<marker, incarnation, hook, attested>>

-----------------------------------------------------------------------------
Born == 1..MaxServers
HookProcess == 1..MaxHooks
Ticket == Watched \X (1..MaxGenerations)
Timer == [hook : HookProcess, tasks : SUBSET Ticket, ready : BOOLEAN,
          deadline : {"far", "near", "passed"}]
Guard == [hook : HookProcess, server : Born, ticket : Ticket]

WatchdogTypeOK ==
  /\ marker \in [epoch : 0..MaxEpochs, owner : 0..MaxServers, last : 0..MaxEpochs]
  /\ \A s \in Born :
       /\ incarnation[s].life \in {"up", "closed", "dead"}
       /\ incarnation[s].entries \in [Watched -> 0..MaxGenerations]
       /\ incarnation[s].expired \subseteq Watched
       /\ incarnation[s].epoch \in 0..MaxEpochs /\ incarnation[s].probe \in 0..MaxHooks
       /\ incarnation[s].timer \subseteq Timer
  /\ hook \in [HookProcess ->
       [at : {"free", "told", "asked", "armed", "probed", "woke", "quiet", "killed"},
        server : Born, epoch : 0..MaxEpochs, tickets : SUBSET Ticket, ready : BOOLEAN,
        reply : {"none", "armed", "read", "probe", "wake", "ignore", "closed"}]]
  /\ attested \subseteq Guard

NewServer ==
  [life |-> "up", entries |-> [t \in Watched |-> 0], expired |-> {}, sequence |-> 0,
   epoch |-> 0, confirmed |-> FALSE, probe |-> 0, timer |-> {}]

\* An earlier hook may have confirmed the first server already.  The servers there will
\* be are there from the start, and as many sessions may follow as the bound leaves.
WatchdogInit ==
  /\ \E confirmed \in BOOLEAN, servers \in Born, epoch \in 1..MaxEpochs :
       /\ servers - 1 + MaxEpochs - epoch <= MaxRenewals
       /\ marker = [epoch |-> epoch, owner |-> IF confirmed THEN 1 ELSE 0, last |-> epoch]
       /\ incarnation = [s \in Born |->
            IF s > servers THEN [NewServer EXCEPT !.life = "dead"]
            ELSE IF confirmed /\ s = 1
                 THEN [NewServer EXCEPT !.epoch = epoch, !.confirmed = TRUE]
                 ELSE NewServer]
  /\ hook = [h \in HookProcess |->
       [at |-> "free", server |-> 1, epoch |-> 0, tickets |-> {}, ready |-> FALSE,
        reply |-> "none"]]
  /\ attested = {}

-----------------------------------------------------------------------------
Tickets(s) ==
  {<<t, incarnation[s].entries[t]>> : t \in
     {u \in Watched : incarnation[s].entries[u] # 0 /\ u \notin incarnation[s].expired}}
Owns(s) == marker.epoch # 0 /\ marker.epoch = incarnation[s].epoch /\ marker.owner = s
Valid(s, ticket) == incarnation[s].entries[ticket[1]] = ticket[2]

\* Mutant: it does not wait for the hook to say that it is ready.
GuardsUnready(s) ==
  IF incarnation[s].confirmed /\ Owns(s) /\ incarnation[s].life = "up"
  THEN {guard \in Guard : /\ guard.server = s /\ Valid(s, guard.ticket)
                          /\ \E timer \in incarnation[s].timer :
                               /\ timer.deadline = "far"
                               /\ guard.hook = timer.hook /\ guard.ticket \in timer.tasks}
  ELSE {}

\* What the tasks of a result are told (metadata): the guard of each that has one.
Guards(s) ==
  IF incarnation[s].confirmed /\ Owns(s) /\ incarnation[s].life = "up"
  THEN {guard \in Guard : /\ guard.server = s /\ Valid(s, guard.ticket)
                          /\ \E timer \in incarnation[s].timer :
                               /\ timer.ready /\ timer.deadline = "far"
                               /\ guard.hook = timer.hook /\ guard.ticket \in timer.tasks}
  ELSE {}

ObserveActive(s, t) ==
  /\ incarnation[s].life = "up"
  /\ incarnation[s].entries[t] = 0 \/ t \in incarnation[s].expired
  /\ incarnation[s].sequence < MaxGenerations
  /\ incarnation' = [incarnation EXCEPT
       ![s].sequence = @ + 1, ![s].expired = @ \ {t},
       ![s].entries[t] = incarnation[s].sequence + 1]
  /\ UNCHANGED <<marker, hook, attested>>

ObserveEnded(s, t) ==
  /\ incarnation[s].entries[t] # 0
  /\ incarnation' = [incarnation EXCEPT ![s].entries[t] = 0, ![s].expired = @ \ {t}]
  /\ UNCHANGED <<marker, hook, attested>>

TicketExpires(s, t) ==
  /\ incarnation[s].entries[t] # 0 /\ t \notin incarnation[s].expired
  /\ incarnation' = [incarnation EXCEPT ![s].expired = @ \union {t}]
  /\ UNCHANGED <<marker, hook, attested>>

\* A tool result; the client runs the hook on it.
Answer(s) ==
  /\ incarnation[s].life = "up"
  /\ attested' = attested \union Guards(s)
  /\ incarnation' = [incarnation EXCEPT ![s].confirmed = @ /\ Owns(s)]
  /\ \/ UNCHANGED hook
     \/ \E h \in HookProcess :
        /\ hook[h].at = "free" /\ \A g \in HookProcess : g < h => hook[g].at # "free"
        /\ Tickets(s) # {}
        /\ hook' = [hook EXCEPT ![h].at = "told", ![h].server = s, ![h].tickets = Tickets(s)]
  /\ UNCHANGED marker

\* The client passes on the token of a probe that woke it.
ConfirmProbe(s) ==
  /\ incarnation[s].life = "up" /\ incarnation[s].probe # 0
  /\ hook[incarnation[s].probe].at = "probed" /\ Owns(s)
  /\ incarnation' = [incarnation EXCEPT ![s].confirmed = TRUE, ![s].probe = 0]
  /\ UNCHANGED <<marker, hook, attested>>

ProbeExpires(s) ==
  /\ incarnation[s].probe # 0
  /\ incarnation' = [incarnation EXCEPT ![s].probe = 0]
  /\ UNCHANGED <<marker, hook, attested>>

-----------------------------------------------------------------------------
(* The hook.                                                               *)

StartSession ==
  /\ marker.last < MaxEpochs
  /\ marker' = [epoch |-> marker.last + 1, owner |-> 0, last |-> marker.last + 1]
  /\ UNCHANGED <<incarnation, hook, attested>>

EndSession ==
  /\ marker.epoch # 0
  /\ marker' = [marker EXCEPT !.epoch = 0, !.owner = 0]
  /\ UNCHANGED <<incarnation, hook, attested>>

StartHook(h) ==
  /\ hook[h].at = "told"
  /\ hook' = IF marker.epoch = 0 \/ incarnation[hook[h].server].life # "up"
             THEN [hook EXCEPT ![h].at = "quiet"]
             ELSE [hook EXCEPT ![h].at = "asked", ![h].epoch = marker.epoch]
  /\ UNCHANGED <<marker, incarnation, attested>>

\* A hook of an older session, or of a server that was superseded, leaves.
Look(h) ==
  /\ \/ hook[h].at = "asked" /\ marker.epoch # hook[h].epoch
     \/ /\ hook[h].at = "armed"
        /\ marker.epoch # hook[h].epoch \/ marker.owner # hook[h].server
  /\ hook' = [hook EXCEPT ![h].at = "quiet"]
  /\ UNCHANGED <<marker, incarnation, attested>>

\* It may fail to answer that it is ready when the other end is closed by then.
ReadReply(h) ==
  /\ hook[h].at \in {"asked", "armed"}
  /\ LET leave(state) == hook' = [hook EXCEPT ![h].at = state, ![h].reply = "read"] IN
     \/ /\ hook[h].reply = "armed"
        /\ hook' = [hook EXCEPT ![h].at = "armed", ![h].ready = TRUE, ![h].reply = "read"]
     \/ hook[h].reply = "closed" /\ leave(IF hook[h].at = "armed" THEN "woke" ELSE "quiet")
     \/ hook[h].reply = "closed" /\ ~hook[h].ready /\ leave("woke")
     \/ hook[h].reply = "probe" /\ leave("probed")
     \/ hook[h].reply = "wake" /\ leave("woke")
     \/ hook[h].reply = "ignore" /\ leave("quiet")
  /\ UNCHANGED <<marker, incarnation, attested>>

\* Its own deadline; armed, it needs no server to wake the client.
Timeout(h) ==
  /\ hook[h].at \in {"asked", "armed"}
  /\ hook' = [hook EXCEPT ![h].at = IF hook[h].at = "armed" THEN "woke" ELSE "quiet"]
  /\ UNCHANGED <<marker, incarnation, attested>>

KillHook(h) ==
  /\ hook[h].at = "armed"
  /\ hook' = [hook EXCEPT ![h].at = "killed"]
  /\ UNCHANGED <<marker, incarnation, attested>>

-----------------------------------------------------------------------------
(* The server's side of a connection (_arm).                               *)

\* A later incarnation takes the session over from an earlier one, never the reverse.
MayClaim(s) == marker.owner <= s

Acceptable(s, h) ==
  /\ marker.epoch # 0 /\ marker.epoch = hook[h].epoch
  /\ incarnation[s].life = "up" /\ incarnation[s].epoch \in {0, hook[h].epoch}
  /\ hook[h].tickets \subseteq Tickets(s)
  /\ MayClaim(s)

Gone(h) == hook[h].at \in {"woke", "quiet", "killed"}

HookReply(h, word) ==
  hook' = [hook EXCEPT ![h].reply = IF Gone(h) THEN "read" ELSE word]

\* Until a probe is confirmed nothing is armed; one timer runs at a time.
Arm(h) ==
  /\ hook[h].epoch # 0 /\ hook[h].reply = "none"
  /\ LET s == hook[h].server IN
     /\ incarnation[s].life # "dead"
     /\ IF ~Acceptable(s, h)
        THEN HookReply(h, "ignore") /\ UNCHANGED <<marker, incarnation>>
        ELSE /\ marker' = [marker EXCEPT !.owner = s]
             /\ \/ /\ ~incarnation[s].confirmed /\ incarnation[s].probe = 0
                   /\ incarnation' = [incarnation EXCEPT ![s].epoch = marker.epoch,
                                                         ![s].probe = h]
                   /\ HookReply(h, "probe")
                \/ /\ IF incarnation[s].confirmed THEN incarnation[s].timer # {}
                                                  ELSE incarnation[s].probe # 0
                   /\ incarnation' = [incarnation EXCEPT ![s].epoch = marker.epoch]
                   /\ HookReply(h, "ignore")
                \/ /\ incarnation[s].confirmed /\ incarnation[s].timer = {}
                   /\ incarnation' = [incarnation EXCEPT ![s].epoch = marker.epoch,
                        ![s].timer = {[hook |-> h, tasks |-> hook[h].tickets,
                                       ready |-> FALSE, deadline |-> "far"]}]
                   /\ HookReply(h, "armed")
  /\ UNCHANGED attested

\* The hook answers, or its end is closed, or it takes too long.
AwaitReady(s) ==
  /\ \E timer \in incarnation[s].timer :
       /\ ~timer.ready
       /\ \/ /\ hook[timer.hook].ready /\ UNCHANGED hook
             /\ incarnation' = [incarnation EXCEPT ![s].timer = {[timer EXCEPT !.ready = TRUE]}]
          \/ /\ Gone(timer.hook) \/ ~hook[timer.hook].ready
             /\ incarnation' = [incarnation EXCEPT ![s].timer = {}]
             /\ HookReply(timer.hook, "closed")
  /\ UNCHANGED <<marker, attested>>

StopTimer(s, timer, word) ==
  /\ incarnation' = [incarnation EXCEPT ![s].timer = {}]
  /\ HookReply(timer.hook, word)

\* The loop that watches over a ready timer.
WatchTimer(s) ==
  /\ \E timer \in incarnation[s].timer :
       LET current == {ticket \in timer.tasks : Valid(s, ticket)}
           stale == incarnation[s].life # "up" \/ ~Owns(s) \/ current = {}
       IN /\ timer.ready
          /\ \/ stale /\ StopTimer(s, timer, "ignore")
             \/ /\ ~stale /\ timer.deadline = "passed"
                /\ incarnation' = [incarnation EXCEPT ![s].timer = {},
                     ![s].entries = [t \in Watched |->
                        IF \E ticket \in current : ticket[1] = t THEN 0
                        ELSE incarnation[s].entries[t]]]
                /\ HookReply(timer.hook, "wake")
             \/ /\ ~stale /\ timer.deadline # "passed" /\ Gone(timer.hook)
                /\ StopTimer(s, timer, "ignore")
  /\ UNCHANGED <<marker, attested>>

TimePasses(s) ==
  /\ \E timer \in incarnation[s].timer :
       /\ timer.deadline # "passed"
       /\ incarnation' = [incarnation EXCEPT ![s].timer =
            {[timer EXCEPT !.deadline = IF @ = "far" THEN "near" ELSE "passed"]}]
  /\ UNCHANGED <<marker, hook, attested>>

\* Whatever it knew is of no use any more, but for the timer that a thread watches.
CloseWatchdog(s) ==
  /\ incarnation[s].life = "up"
  /\ incarnation' = [incarnation EXCEPT
       ![s] = [NewServer EXCEPT !.life = "closed", !.timer = incarnation[s].timer]]
  /\ UNCHANGED <<marker, hook, attested>>

\* The connections of a dead server are closed; what they carried can still be read.
ServerDies(s) ==
  /\ incarnation[s].life # "dead"
  /\ incarnation' = [incarnation EXCEPT ![s] = [NewServer EXCEPT !.life = "dead"]]
  /\ hook' = [h \in HookProcess |->
       IF hook[h].server = s /\ hook[h].at \in {"asked", "armed"}
          /\ hook[h].reply \in {"none", "read"}
       THEN [hook[h] EXCEPT !.reply = "closed"] ELSE hook[h]]
  /\ UNCHANGED <<marker, attested>>

WatchdogNext ==
  \/ StartSession \/ EndSession
  \/ \E h \in HookProcess :
       StartHook(h) \/ Look(h) \/ ReadReply(h) \/ Timeout(h) \/ KillHook(h) \/ Arm(h)
  \/ \E s \in Born :
       \/ ConfirmProbe(s) \/ ProbeExpires(s) \/ AwaitReady(s) \/ WatchTimer(s)
       \/ TimePasses(s) \/ CloseWatchdog(s) \/ ServerDies(s)
       \/ Answer(s)
       \/ \E t \in Watched : ObserveActive(s, t) \/ ObserveEnded(s, t) \/ TicketExpires(s, t)

WatchdogSpec == WatchdogInit /\ [][WatchdogNext]_watchdogVars

-----------------------------------------------------------------------------
\* A client that was told of a guard is not left alone: the hook is on guard, or has
\* woken the client, or was killed by someone; it leaves quietly only when the task's
\* ticket is no longer the one it was for, its server was closed in good order, or the
\* session is another one or another server's.
GuardStands ==
  /\ WatchdogTypeOK
  /\ \A guard \in attested :
       LET h == hook[guard.hook] IN
       \/ h.at \in {"armed", "woke", "killed"}
       \/ /\ h.at = "quiet"
          /\ \/ ~Valid(guard.server, guard.ticket) \/ incarnation[guard.server].life # "up"
             \/ marker.epoch # h.epoch \/ marker.owner # guard.server
=============================================================================
