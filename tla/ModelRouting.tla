----------------------------- MODULE ModelRouting -----------------------------
(***************************************************************************)
(* The shadow model routing of a native task (model_routing,               *)
(* model_routing_state, jev_client): before a worker starts, one observer  *)
(* probes the catalog, asks an external service to compare the eligible    *)
(* models and journals what came of it.  The native model is never         *)
(* changed.  The observer runs in the worker's thread, its record is a row *)
(* of the task; cancellation, two deadlines, failures of every call and    *)
(* the death of the server fall between any two of its steps.              *)
(***************************************************************************)
EXTENDS Integers

CONSTANT Candidate   \* the models of the frozen pool

VARIABLES
  record,    \* the journal row of the task
  observer,  \* the observing thread: where it is, what it knows
  native     \* the task it runs for, its two deadlines, the service

routingVars == <<record, observer, native>>

-----------------------------------------------------------------------------
Statuses == {"bypassed", "pending", "unavailable", "no_comparison", "completed", "none",
             "unclear", "host_lifecycle_failure"}

RoutingTypeOK ==
  /\ record \in [state : {"absent", "prepared", "observing", "reserved", "terminal"},
        status : Statuses, proposed : SUBSET Candidate, eligible : SUBSET Candidate,
        reserved : BOOLEAN]
  /\ observer \in [at : {"idle", "claimed", "probing", "stopping", "judging", "deciding", "sending",
                         "waiting", "closing", "done", "dead"},
        eligible : SUBSET Candidate, outcome : Statuses \union {"unresolved"},
        proposed : SUBSET Candidate, broken : BOOLEAN]
  /\ native \in [status : {"starting", "running", "failed", "ended", "interrupted"}, cancel : BOOLEAN,
        budget : BOOLEAN, deadline : BOOLEAN, requests : 0..2, answered : BOOLEAN]

\* prepare_routing: the row is written with the task, already terminal when the task,
\* its settings or its owner rule routing out; without a policy there is none.
RoutingInit ==
  /\ record \in {[state |-> st, status |-> IF st = "terminal" THEN "bypassed" ELSE "pending",
        proposed |-> {}, eligible |-> {}, reserved |-> FALSE]
          : st \in {"absent", "prepared", "terminal"}}
  /\ observer = [at |-> "idle", eligible |-> {}, outcome |-> "unresolved", proposed |-> {},
                 broken |-> FALSE]
  /\ native = [status |-> "starting", cancel |-> FALSE, budget |-> TRUE, deadline |-> TRUE,
               requests |-> 0, answered |-> FALSE]

-----------------------------------------------------------------------------
ObserverAt(step) == observer.at = step /\ native.status = "starting"
Go(step) == observer' = [observer EXCEPT !.at = step]
\* ModelRouter._interruption, with the deadline of the work and of the task.
Interrupted == native.cancel \/ ~native.budget
TaskInterrupted == native.cancel \/ ~native.deadline

\* RoutingJournal.claim
ClaimRouting ==
  /\ ObserverAt("idle")
  /\ IF record.state = "prepared"
     THEN record' = [record EXCEPT !.state = "observing"] /\ Go("claimed")
     ELSE UNCHANGED record /\ Go("done")
  /\ UNCHANGED native

\* RoutingJournal.finish: a choice needs the reservation that preceded the request.
Finishable(status, proposed) ==
  /\ record.state \in {"observing", "reserved"}
  /\ status \in {"completed", "none", "unclear"} => record.state = "reserved"
  /\ status = "completed" <=> proposed # {}
  /\ proposed \subseteq record.eligible

\* Every way out of the observation writes its outcome; when that fails the worker's
\* start fails with it, as it does after a probe that could not be stopped.
Finish(status, proposed) ==
  \/ /\ Finishable(status, proposed)
     /\ record' = [record EXCEPT !.state = "terminal", !.status = status, !.proposed = proposed]
     /\ observer' = [observer EXCEPT !.at = IF status = "host_lifecycle_failure"
                                            THEN "dead" ELSE "done"]
  \/ UNCHANGED record /\ Go("dead")

\* The checks before the probe: interruption, key, baseline and time for a teardown.
StartProbe ==
  /\ ObserverAt("claimed") /\ UNCHANGED native
  /\ \/ ~Interrupted /\ Go("probing") /\ UNCHANGED record
     \/ Finish("bypassed", {})

\* The catalog, an interruption, or an error: the probe is stopped in any case.
AskCatalog ==
  /\ ObserverAt("probing") /\ UNCHANGED <<record, native>>
  /\ \/ /\ ~Interrupted
        /\ \E known \in SUBSET Candidate :
             observer' = [observer EXCEPT !.at = "stopping", !.eligible = known,
                                          !.outcome = "pending"]
     \/ observer' = [observer EXCEPT !.at = "stopping", !.outcome = "bypassed"]
     \/ observer' = [observer EXCEPT !.at = "stopping", !.outcome = "unavailable"]

\* A probe that cannot be stopped ends the worker's start: nothing is started beside it.
StopProbe ==
  /\ ObserverAt("stopping") /\ UNCHANGED <<record, native>>
  /\ \E failed \in BOOLEAN :
       observer' = [observer EXCEPT !.at = "judging", !.broken = failed]

\* eligible_routes: a comparison needs two candidates.
JudgeCatalog ==
  /\ ObserverAt("judging") /\ UNCHANGED native
  /\ IF observer.broken THEN Finish("host_lifecycle_failure", {})
     ELSE IF observer.outcome # "pending" THEN Finish(observer.outcome, {})
     ELSE IF Interrupted THEN Finish("bypassed", {})
     ELSE IF \A c, d \in observer.eligible : c = d THEN Finish("no_comparison", {})
     ELSE Go("deciding") /\ UNCHANGED record

\* Mutant: the request goes out without its reservation.
ReserveLater == ObserverAt("deciding") /\ Go("sending") /\ UNCHANGED <<record, native>>

\* ModelRouter._decide up to RoutingJournal.reserve; a request that is too large, an
\* interruption and a failed reservation end it unsent.
ReserveRequest ==
  /\ ObserverAt("deciding") /\ UNCHANGED native
  /\ \/ /\ ~Interrupted
        /\ record' = [record EXCEPT !.state = "reserved", !.reserved = TRUE,
                                    !.eligible = observer.eligible]
        /\ Go("sending")
     \/ Finish(IF Interrupted THEN "bypassed" ELSE "unavailable", {})

\* The task's interruption leaves the reservation unresolved; routing's own deadline
\* is an outcome.
SendRequest ==
  /\ ObserverAt("sending")
  /\ IF TaskInterrupted THEN Go("done") /\ UNCHANGED <<record, native>>
     ELSE IF ~native.budget THEN Finish("unavailable", {}) /\ UNCHANGED native
     ELSE /\ native' = [native EXCEPT !.requests = @ + 1]
          /\ Go("waiting") /\ UNCHANGED record

\* External: the service answers, or the transport fails.
AnswerRequest ==
  /\ native.requests > 0 /\ ~native.answered /\ observer.at = "waiting"
  /\ native' = [native EXCEPT !.answered = TRUE] /\ UNCHANGED <<record, observer>>

\* The wait: every 50 ms the interruption is looked at first, then the deadline.
AwaitAnswer ==
  /\ ObserverAt("waiting") /\ UNCHANGED <<record, native>>
  /\ IF TaskInterrupted
     THEN observer' = [observer EXCEPT !.at = "closing", !.outcome = "unresolved"]
     ELSE \/ /\ ~native.budget
             /\ observer' = [observer EXCEPT !.at = "closing", !.outcome = "unavailable"]
          \/ /\ native.answered
             /\ \/ \E status \in {"none", "unclear", "unavailable"} :
                     observer' = [observer EXCEPT !.at = "closing", !.outcome = status]
                \/ \E c \in observer.eligible :
                     observer' = [observer EXCEPT !.at = "closing", !.outcome = "completed",
                                                  !.proposed = {c}]

\* The client is closed before the outcome is written.
CloseClient ==
  /\ ObserverAt("closing") /\ UNCHANGED native
  /\ \/ IF observer.outcome = "unresolved" THEN Go("done") /\ UNCHANGED record
        ELSE Finish(observer.outcome, observer.proposed)
     \/ Finish("unavailable", {})

-----------------------------------------------------------------------------
\* NativeWorker: the native process starts after the observation, as it would without.
StartWorker ==
  /\ native.status = "starting" /\ observer.at \in {"done", "dead"}
  /\ native' = [native EXCEPT !.status = IF observer.at = "done" THEN "running" ELSE "failed"]
  /\ UNCHANGED <<record, observer>>

\* The task is over, cancelled and late ones too: its row is active no more.
EndTask ==
  /\ native.status = "running"
  /\ native' = [native EXCEPT !.status = "ended"] /\ UNCHANGED <<record, observer>>

RequestCancel ==
  /\ native.status = "starting" /\ ~native.cancel
  /\ native' = [native EXCEPT !.cancel = TRUE] /\ UNCHANGED <<record, observer>>
SpendBudget ==
  /\ native.budget /\ native' = [native EXCEPT !.budget = FALSE]
  /\ UNCHANGED <<record, observer>>
PassDeadline ==
  /\ native.deadline /\ ~native.budget /\ native' = [native EXCEPT !.deadline = FALSE]
  /\ UNCHANGED <<record, observer>>

\* The server dies, and the task is recovered as interrupted: a row that was claimed
\* is not claimed again.
LoseServer ==
  /\ native.status = "starting"
  /\ native' = [native EXCEPT !.status = "interrupted"] /\ Go("dead") /\ UNCHANGED record

RoutingNext ==
  \/ ClaimRouting \/ StartProbe \/ AskCatalog \/ StopProbe \/ JudgeCatalog \/ ReserveRequest
  \/ SendRequest \/ AnswerRequest \/ AwaitAnswer \/ CloseClient \/ StartWorker \/ EndTask
  \/ RequestCancel \/ SpendBudget \/ PassDeadline \/ LoseServer

RoutingSpec == RoutingInit /\ [][RoutingNext]_routingVars

-----------------------------------------------------------------------------
\* RoutingJournal.view: what a reader of the row is told, at any time.
SendState == IF record.reserved THEN "may_have_been_sent" ELSE "not_sent"
ViewStatus ==
  IF record.state \in {"observing", "reserved"} /\ native.status \notin {"starting", "running"}
  THEN "unresolved" ELSE record.status

\* An observation that is over is still told to be pending if it never began; until the
\* start that could not write its outcome has failed; and, as a task that is cancelled
\* or late leaves its reservation unresolved, while that task has not ended itself.
PendingIsOpen ==
  ViewStatus = "pending" /\ observer.at \in {"done", "dead"} =>
    \/ record.state = "absent"
    \/ record.state = "prepared" /\ native.status = "interrupted"
    \/ observer.at = "dead" /\ native.status = "starting"
    \/ record.state = "reserved" /\ native.status \in {"starting", "running"} /\ TaskInterrupted

\* The journal never says less than what happened, wherever the observation stops: what
\* is told not to have been sent was not sent, whatever died in between, nothing is sent
\* twice, a choice was made from models that were eligible when the request was
\* reserved, and an observation that is over is called pending in the few cases of
\* PendingIsOpen alone, of an interrupted task above all (model_routing.py:174).
RoutingIsTold ==
  /\ RoutingTypeOK
  /\ native.requests <= 1
  /\ SendState = "not_sent" => native.requests = 0
  /\ record.status \in {"completed", "none", "unclear"} =>
       record.reserved /\ native.requests = 1 /\ native.answered
  /\ PendingIsOpen
  /\ record.proposed # {} => record.status = "completed" /\ record.proposed \subseteq record.eligible
=============================================================================
