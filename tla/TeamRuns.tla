------------------------------ MODULE TeamRuns ------------------------------
(***************************************************************************)
(* One team run (omp_tandem.team_runs): a plan of dependent steps, each a  *)
(* native turn, that the controller thread of one MCP server launches and  *)
(* watches.  Callers of that server assign models, cancel and shut down;   *)
(* other servers may only interrupt the run once the owner's lease is      *)
(* free.  The owner may die at any step.                                   *)
(*                                                                         *)
(* Everything the owner does to a run happens under its guard (an RLock),  *)
(* except the selection of models.  Under the guard the owner works step   *)
(* by step on rows that native turns change meanwhile, so `guard' says     *)
(* what its holder is doing and which steps it has still to visit.         *)
(*                                                                         *)
(* Abstractions.  Native turns live as NativeTasks describes, reduced to   *)
(* what a row tells: `starting' counts as running, and a report is filed   *)
(* once.  The declared conflicts of files and the worker slots are ways    *)
(* in which a launch is put off.  Models are the set of steps that have    *)
(* one.  The run's deadline may be over whenever the code looks at it.     *)
(***************************************************************************)
EXTENDS Integers, FiniteSets

CONSTANTS
  Step,          \* steps of the plan
  DependsOn,     \* the steps each step depends on
  Final,         \* the integration step
  Policy,        \* dependency_policy of each step
  MaxParallel,   \* max_parallel of the plan, at most the ordinary slots
  MaxEvents       \* bound: calls of assign and cancel, failures of the loop

ASSUME PlanAssumption ==
  /\ Final \in Step /\ DependsOn \in [Step -> SUBSET Step]
  /\ Policy \in [Step -> {"success", "reported_evidence"}]
  /\ \A s \in Step \ {Final} : Policy[s] = "success"

ASSUME BoundsAssumption == MaxParallel \in 1..3 /\ MaxEvents \in Nat

VARIABLES
  run,       \* the row of team_runs
  step,      \* the rows of team_steps
  task,      \* the native turn launched for each step, and whether it runs
  launches,  \* turns admitted for each step, ever
  server,    \* the owner's server and the controller's lease
  driver,    \* the controller thread outside the guard
  guard,     \* what the holder of the guard is doing
  events

rows == <<run, step>>
natives == <<task, launches>>
owner == <<server, driver, guard, events>>
vars == <<run, step, task, launches, server, driver, guard, events>>

-----------------------------------------------------------------------------
ACTIVE == {"running", "waiting_input", "cancelling"}
NativeTerminal == {"completed", "failed", "cancelled", "interrupted"}
ACTIVE_TEAM == {"running", "waiting_input", "waiting_models", "cancelling"}
TeamTerminal == {"completed", "failed", "cancelled", "interrupted"}
BUSY_STEPS == {"reserved"} \union ACTIVE
Reports == {"none", "success", "partial", "blocked"}
Result == [status : {"none"} \union ACTIVE \union NativeTerminal, report : Reports]

TypeOK ==
  /\ run \in [status : {"none"} \union ACTIVE_TEAM \union TeamTerminal,
              stop : {"none", "failed", "cancelled", "interrupted"},
              outcome : {"none", "success", "partial", "blocked"},
              selection : {"none", "started", "made", "unavailable"},
              assigned : SUBSET Step, due : BOOLEAN]
  /\ step \in [Step -> [status : {"pending", "partial", "blocked"} \union BUSY_STEPS
                                  \union NativeTerminal,
                        task : BOOLEAN, result : Result]]
  /\ task \in [Step -> [status : {"none"} \union ACTIVE \union NativeTerminal,
                        report : Reports, cancel : BOOLEAN, live : BOOLEAN]]
  /\ launches \in [Step -> Nat]
  /\ server \in {"up", "stopping", "closing", "closed", "dead"}
  /\ driver \in {"none", "loop", "selecting", "gone", "failed", "draining", "released"}
  /\ guard \in [doing : {"nothing", "refresh", "dispatch", "admit", "record", "flush"},
                by : {"driver", "caller"}, todo : SUBSET Step, active : BOOLEAN]
  /\ events \in 0..MaxEvents

Free == [doing |-> "nothing", by |-> "driver", todo |-> {}, active |-> FALSE]
Doing(what, todo) == [guard EXCEPT !.doing = what, !.todo = todo, !.active = FALSE]
Visited(s) == [guard EXCEPT !.todo = @ \ {s}]
Busy == {s \in Step : step[s].status \in BUSY_STEPS}
NoResult == [status |-> "none", report |-> "none"]
Cancelling == run.status = "cancelling"
Serving == server \in {"up", "stopping", "closing"}
LeaseHeld == Serving /\ driver # "released"
\* The flags `stopping' and `closing', which close() sets and a controller that
\* fails.
StoppingSet == server # "up" \/ driver \in {"failed", "draining", "released"}
ClosingSet == server \notin {"up", "stopping"} \/ driver \in {"draining", "released"}

\* cancel_requested and a missing status are told by the status alone.
Cancelled == StoppingSet \/ Cancelling \/ run.status \notin ACTIVE_TEAM \/ run.due

Init ==
  /\ run = [status |-> "none", stop |-> "none", outcome |-> "none",
            selection |-> "none", assigned |-> {}, due |-> FALSE]
  /\ step = [s \in Step |-> [status |-> "pending", task |-> FALSE, result |-> NoResult]]
  /\ task = [s \in Step |-> [status |-> "none", report |-> "none",
                             cancel |-> FALSE, live |-> FALSE]]
  /\ launches = [s \in Step |-> 0]
  /\ server = "up" /\ driver = "none" /\ guard = Free /\ events = 0

-----------------------------------------------------------------------------
(* Stopping a run.                                                         *)

\* A stop first closes the admission of further turns, then visits the busy
\* steps; a run that is stopping already keeps the status it was to end with.
Stop(row, status) ==
  /\ IF Cancelling THEN run' = row /\ UNCHANGED step
     ELSE /\ run' = [row EXCEPT !.status = "cancelling", !.stop = status]
          /\ step' = [s \in Step |->
               IF step[s].status # "pending" THEN step[s]
               ELSE [step[s] EXCEPT !.status = IF status = "cancelled" THEN status ELSE "blocked"]]
  /\ guard' = Doing("flush", Busy)
Stopping(status) == Stop(run, status)

\* The turn is told to stop and its row is read; what cannot be read counts as
\* active.  A reservation without a row has no turn.
Told(s) ==
  IF task[s].status \in ACTIVE THEN [task[s] EXCEPT !.status = "cancelling", !.cancel = TRUE]
  ELSE task[s]

FlushStep(s) ==
  /\ guard.doing = "flush" /\ s \in guard.todo
  /\ IF task[s].status = "none"
     THEN /\ step' = [step EXCEPT ![s].status = "interrupted"]
          /\ guard' = Visited(s)
          /\ UNCHANGED task
     ELSE LET told == Told(s) IN
          /\ task' = [task EXCEPT ![s] = told]
          /\ step' = [step EXCEPT ![s].status = told.status,
                                  ![s].result = [status |-> told.status, report |-> told.report]]
          /\ guard' = [Visited(s) EXCEPT !.active = @ \/ told.status \in ACTIVE]
  /\ UNCHANGED <<run, launches, server, driver, events>>

FlushFails(s) ==
  /\ guard.doing = "flush" /\ s \in guard.todo /\ task[s].status # "none"
  /\ task' = [task EXCEPT ![s] = Told(s)]
  /\ guard' = [Visited(s) EXCEPT !.active = TRUE]
  /\ UNCHANGED <<rows, launches, server, driver, events>>

EndFlush ==
  /\ guard.doing = "flush" /\ guard.todo = {}
  /\ run' = IF guard.active THEN run ELSE [run EXCEPT !.status = run.stop]
  /\ guard' = Free
  /\ UNCHANGED <<step, natives, server, driver, events>>

-----------------------------------------------------------------------------
(* The controller.                                                         *)

Start ==
  /\ run.status = "none" /\ ~ClosingSet
  /\ run' = [run EXCEPT !.status = "running"]
  /\ driver' = "loop"
  /\ UNCHANGED <<step, natives, server, guard, events>>

\* (A request to close that comes after the loop looked for one comes as if
\* after its pass.)
InLoop ==
  driver = "loop" /\ server = "up" /\ guard = Free /\ run.status \in ACTIVE_TEAM

SelectBegin ==
  /\ InLoop /\ run.selection = "none" /\ ~Cancelling
  /\ IF run.due THEN Stopping("failed") /\ UNCHANGED driver
     ELSE /\ run' = [run EXCEPT !.selection = "started"]
          /\ driver' = "selecting"
          /\ UNCHANGED <<step, guard>>
  /\ UNCHANGED <<natives, server, events>>

\* Mutant: the late selection sets the run going again.
SelectEndReviving ==
  /\ driver = "selecting" /\ guard = Free /\ Serving
  /\ \E assigned \in SUBSET Step :
       run' = [run EXCEPT !.selection = "made", !.assigned = assigned, !.status = "running"]
  /\ driver' = "loop"
  /\ UNCHANGED <<step, natives, server, guard, events>>

\* The selection ran without the guard.  What it found is kept even if it
\* comes late, but a run that stopped meanwhile stays stopped.
SelectEnd ==
  /\ driver = "selecting" /\ guard = Free /\ Serving
  /\ \E assigned \in SUBSET Step :
       LET kept == [run EXCEPT !.selection = "made", !.assigned = assigned] IN
       IF run.status \notin ACTIVE_TEAM THEN run' = kept /\ UNCHANGED <<step, guard>>
       ELSE IF Cancelled THEN Stop(kept, "failed")
       ELSE run' = [kept EXCEPT !.status = "running"] /\ UNCHANGED <<step, guard>>
  /\ driver' = "loop"
  /\ UNCHANGED <<natives, server, events>>

\* No models are available, or the selection failed.
SelectFails ==
  /\ driver = "selecting" /\ guard = Free /\ Serving
  /\ \E kept \in {run, [run EXCEPT !.selection = "unavailable"]} :
       IF run.status \notin ACTIVE_TEAM THEN run' = kept /\ UNCHANGED <<step, guard>>
       ELSE Stop(kept, IF kept = run THEN "interrupted" ELSE "failed")
  /\ driver' = "loop"
  /\ UNCHANGED <<natives, server, events>>

\* Mutant: a pass leaves a run that is stopping to whoever stopped it.
AdvanceOnly ==
  /\ InLoop /\ ~Cancelling /\ run.selection = "made"
  /\ IF run.due THEN Stopping("failed") ELSE guard' = Doing("refresh", Busy) /\ UNCHANGED rows
  /\ UNCHANGED <<natives, server, driver, events>>

\* A pass over the run begins by reading the rows of its busy steps.
Advance ==
  /\ InLoop /\ (run.selection \in {"made", "unavailable"} \/ Cancelling)
  /\ IF Cancelling THEN guard' = Doing("flush", Busy) /\ UNCHANGED rows
     ELSE IF run.due THEN Stopping("failed")
     ELSE guard' = Doing("refresh", Busy) /\ UNCHANGED rows
  /\ UNCHANGED <<natives, server, driver, events>>

Settled(t) ==
  IF t.status \in ACTIVE THEN t.status
  ELSE IF t.status = "completed" /\ t.report = "success" THEN "completed"
  ELSE IF t.status = "completed" /\ t.report \in {"partial", "blocked"} THEN t.report
  ELSE "failed"

RefreshStep(s) ==
  /\ guard.doing = "refresh" /\ s \in guard.todo
  /\ IF task[s].status = "none" THEN Stopping("interrupted")
     ELSE /\ step' = [step EXCEPT ![s].status = Settled(task[s]),
                     ![s].result = [status |-> task[s].status, report |-> task[s].report]]
          /\ guard' = Visited(s)
          /\ UNCHANGED run
  /\ UNCHANGED <<natives, server, driver, events>>

\* A row cannot be read: the controller stops the run, a caller gives up.
RefreshFails ==
  /\ guard.doing = "refresh" /\ guard.todo # {}
  /\ IF guard.by = "driver" THEN Stopping("interrupted") ELSE guard' = Free /\ UNCHANGED rows
  /\ UNCHANGED <<natives, server, driver, events>>

DependencyReady(policy, st) ==
  /\ st.status \in {"completed", "partial", "blocked"} /\ st.result.status = "completed"
  /\ \/ policy = "reported_evidence" /\ st.result.report \in {"success", "partial"}
     \/ policy = "success" /\ st.status = "completed" /\ st.result.report = "success"

Failed(st) == st.status \notin BUSY_STEPS \union {"pending"}

\* Pending steps that wait for a dependency which cannot serve them, directly
\* or through others; and the steps after they are marked.
Doomed(D) ==
  {s \in Step : step[s].status = "pending" /\
     \E d \in DependsOn[s] :
       d \in D \/ (Failed(step[d]) /\ ~DependencyReady(Policy[s], step[d]))}
AllDoomed == CHOOSE D \in SUBSET Step :
  D = Doomed(D) /\ \A E \in SUBSET Step : E = Doomed(E) => D \subseteq E
Blocked == [s \in Step |-> IF s \in AllDoomed THEN [step[s] EXCEPT !.status = "blocked"]
                           ELSE step[s]]

Launchable(steps) ==
  {s \in run.assigned : /\ steps[s].status = "pending"
                        /\ \A d \in DependsOn[s] : DependencyReady(Policy[s], steps[d])}

StatusOf(steps) ==
  IF \E s \in Step : steps[s].status = "waiting_input" THEN "waiting_input"
  ELSE IF Launchable(steps) # {} \/ \E s \in Step : steps[s].status \in BUSY_STEPS
  THEN "running" ELSE "waiting_models"

\* Mutant: a run is a success unless a turn failed.
OutcomeUnlessFailed(steps) ==
  IF \E s \in Step : steps[s].status = "failed" THEN "blocked" ELSE "success"

Outcome(steps) ==
  IF \A s \in Step : DependencyReady("success", steps[s]) THEN "success"
  ELSE IF /\ Policy[Final] = "reported_evidence"
          /\ DependencyReady("success", steps[Final])
          /\ \A s \in Step : DependencyReady(Policy[Final], steps[s])
  THEN "partial" ELSE "blocked"

\* All rows were read: doomed steps are marked; the run ends when no step is
\* left, otherwise its status is derived and the launchable steps are visited.
Consider ==
  /\ guard.doing = "refresh" /\ guard.by = "driver" /\ guard.todo = {}
  /\ IF run.due THEN Stopping("failed")
     ELSE /\ step' = Blocked
          /\ IF \A s \in Step : Failed(step'[s])
             THEN /\ run' = [run EXCEPT !.outcome = Outcome(step'),
                             !.status = IF Outcome(step') = "blocked" THEN "failed" ELSE "completed"]
                  /\ guard' = Free
             ELSE /\ run' = [run EXCEPT !.status = StatusOf(step')]
                  /\ guard' = Doing("dispatch", Launchable(step'))
  /\ UNCHANGED <<natives, server, driver, events>>

\* No slot is free or the step's files conflict: it waits for another pass.
PutOff(s) ==
  /\ guard.doing = "dispatch" /\ s \in guard.todo
  /\ guard' = Visited(s)
  /\ UNCHANGED <<rows, natives, server, driver, events>>

StopDispatching ==
  /\ guard.doing = "dispatch" /\ (guard.todo = {} \/ Cancelled)
  /\ guard' = Free
  /\ UNCHANGED <<rows, natives, server, driver, events>>

\* The identity of the turn is saved before anything is launched under it.
Reserve(s) ==
  /\ guard.doing = "dispatch" /\ s \in guard.todo /\ ~Cancelled
  /\ Cardinality(Busy) < MaxParallel
  /\ step' = [step EXCEPT ![s].status = "reserved", ![s].task = TRUE]
  /\ guard' = [Visited(s) EXCEPT !.doing = "admit"]
  /\ UNCHANGED <<run, natives, server, driver, events>>

-----------------------------------------------------------------------------
(* Admission of a reserved step by the task store.                         *)

Reserved(s) == guard.doing = "admit" /\ step[s].status = "reserved"

DependencyHolds(s, d) ==
  /\ step[d].result.status = task[d].status /\ step[d].result.report = task[d].report
  /\ DependencyReady(Policy[s], step[d])

Valid(s) ==
  /\ run.status \in {"running", "waiting_input"} /\ ~run.due
  /\ task[s].status = "none"
  /\ \A d \in DependsOn[s] : DependencyHolds(s, d)

\* The row is inserted and its thread started, or the thread cannot start.
Admit(s) ==
  /\ Reserved(s) /\ Valid(s)
  /\ launches' = [launches EXCEPT ![s] = @ + 1]
  /\ \/ /\ task' = [task EXCEPT ![s] = [status |-> "running", report |-> "none",
                                        cancel |-> FALSE, live |-> TRUE]]
        /\ guard' = [guard EXCEPT !.doing = "record"]
        /\ UNCHANGED rows
     \/ /\ task' = [task EXCEPT ![s] = [status |-> "failed", report |-> "none",
                                        cancel |-> FALSE, live |-> FALSE]]
        /\ Stopping("interrupted")
  /\ UNCHANGED <<server, driver, events>>

\* The store had no room and admitted nothing: the reservation is dropped.
AdmitBusy(s) ==
  /\ Reserved(s)
  /\ step' = [step EXCEPT ![s].status = "pending", ![s].task = FALSE]
  /\ guard' = [guard EXCEPT !.doing = "dispatch"]
  /\ UNCHANGED <<run, natives, server, driver, events>>

\* Any other refusal leaves it uncertain what happened.
AdmitFails(s) ==
  /\ Reserved(s)
  /\ Stopping("interrupted")
  /\ UNCHANGED <<natives, server, driver, events>>

RecordLaunch(s) ==
  /\ guard.doing = "record" /\ step[s].status = "reserved"
  /\ step' = [step EXCEPT ![s].status = "running",
                          ![s].result = [status |-> "running", report |-> "none"]]
  /\ guard' = [guard EXCEPT !.doing = "dispatch"]
  /\ UNCHANGED <<run, natives, server, driver, events>>

-----------------------------------------------------------------------------
(* Callers of the owner's server.                                          *)

Called ==
  /\ ~ClosingSet /\ guard = Free /\ events < MaxEvents
  /\ events' = events + 1

Cancel ==
  /\ Called /\ run.status \in ACTIVE_TEAM
  /\ Stopping("cancelled")
  /\ UNCHANGED <<natives, server, driver>>

\* The agreed models must be those of exactly the steps that wait for one.
Assign ==
  /\ Called /\ run.status \in ACTIVE_TEAM \ {"cancelling"}
  /\ IF run.due THEN Stopping("failed")
     ELSE guard' = [Doing("refresh", Busy) EXCEPT !.by = "caller"] /\ UNCHANGED rows
  /\ UNCHANGED <<natives, server, driver>>

Agreed ==
  /\ guard.doing = "refresh" /\ guard.by = "caller" /\ guard.todo = {}
  /\ \/ run.due /\ Stopping("failed")
     \/ /\ step' = Blocked
        /\ LET pending == {s \in Step : step'[s].status = "pending"} \ run.assigned IN
           run' = IF run.selection = "made" /\ pending # {} /\ ~run.due
                  THEN [run EXCEPT !.assigned = @ \union pending, !.status = "running"] ELSE run
        /\ guard' = Free
  /\ UNCHANGED <<natives, server, driver, events>>

\* close() asks the controller to leave, then stops the run under the guard.
RequestClose ==
  /\ server = "up"
  /\ server' = "stopping"
  /\ UNCHANGED <<rows, natives, driver, guard, events>>

CloseStop ==
  /\ server = "stopping" /\ guard = Free
  /\ server' = "closing"
  /\ IF run.status \in ACTIVE_TEAM THEN Stopping("interrupted") ELSE UNCHANGED <<rows, guard>>
  /\ UNCHANGED <<natives, driver, events>>

\* A controller that was asked to leaves its loop; it stops nothing.
Leave ==
  /\ server \in {"stopping", "closing"} /\ guard = Free /\ driver = "loop"
  /\ driver' = "gone"
  /\ UNCHANGED <<rows, natives, server, guard, events>>

\* A controller whose loop fails, as by a database that does not answer, closes
\* the admission of runs, stops the run, waits for its turns and gives up the
\* lease, while the server goes on.
LoopFails ==
  /\ driver = "loop" /\ Serving /\ events < MaxEvents
  /\ driver' = "failed" /\ events' = events + 1
  /\ UNCHANGED <<rows, natives, server, guard>>

FailStop ==
  /\ driver = "failed" /\ guard = Free /\ Serving
  /\ driver' = "draining"
  /\ IF run.status \in ACTIVE_TEAM THEN Stopping("interrupted") ELSE UNCHANGED <<rows, guard>>
  /\ UNCHANGED <<natives, server, events>>

Release ==
  /\ driver = "draining" /\ guard = Free /\ Serving /\ ~Cancelling
  /\ driver' = "released"
  /\ UNCHANGED <<rows, natives, server, guard, events>>

\* The failed controller, and close() once the controller is gone, visit the run
\* until it is no longer stopping.
Drain ==
  /\ Serving /\ guard = Free /\ Cancelling
  /\ driver = "draining" \/ (server = "closing" /\ driver \in {"none", "gone", "released"})
  /\ guard' = Doing("flush", Busy)
  /\ UNCHANGED <<rows, natives, server, driver, events>>

\* The server gives up the lease and ends; turns it still ran end with it.
Closed ==
  /\ server = "closing" /\ guard = Free /\ ~Cancelling
  /\ driver \in {"none", "gone", "released"}
  /\ server' = "closed"
  /\ task' = [s \in Step |-> [task[s] EXCEPT !.live = FALSE]]
  /\ UNCHANGED <<rows, launches, driver, guard, events>>

-----------------------------------------------------------------------------
(* Everything else.                                                        *)

Crash ==
  /\ Serving
  /\ server' = "dead" /\ driver' = "gone" /\ guard' = Free
  /\ task' = [s \in Step |-> [task[s] EXCEPT !.live = FALSE]]
  /\ UNCHANGED <<rows, launches, events>>

Interrupted(st) ==
  IF st.status \notin {"pending"} \union BUSY_STEPS THEN st
  ELSE [st EXCEPT !.status = IF st.task THEN "interrupted" ELSE "blocked"]

\* Another server that looks at the run finds the lease free.
Recover ==
  /\ run.status \in ACTIVE_TEAM /\ ~LeaseHeld
  /\ run' = [run EXCEPT !.status = "interrupted"]
  /\ step' = [s \in Step |-> Interrupted(step[s])]
  /\ UNCHANGED <<natives, owner>>

Elapse ==
  /\ run.status \in ACTIVE_TEAM /\ ~run.due
  /\ run' = [run EXCEPT !.due = TRUE]
  /\ UNCHANGED <<step, natives, owner>>

\* A turn asks, goes on, reports.
Work(s) ==
  /\ task[s].live /\ task[s].status \in ACTIVE /\ ~task[s].cancel
  /\ \/ \E status \in {"running", "waiting_input"} \ {task[s].status} :
          task' = [task EXCEPT ![s].status = status]
     \/ /\ task[s].report = "none"
        /\ \E report \in Reports \ {"none"} : task' = [task EXCEPT ![s].report = report]
  /\ UNCHANGED <<rows, launches, owner>>

\* A turn ends; one that was told to stop may have been past noticing it.
End(s) ==
  /\ task[s].live /\ task[s].status \in ACTIVE
  /\ \E status \in {"completed", "failed"} \union
                   (IF task[s].cancel THEN {"cancelled"} ELSE {}) :
       task' = [task EXCEPT ![s].status = status, ![s].live = FALSE]
  /\ UNCHANGED <<rows, launches, owner>>

\* TaskStore.recover: the turn's server is gone.
RecoverTask(s) ==
  /\ ~task[s].live /\ task[s].status \in ACTIVE
  /\ task' = [task EXCEPT ![s].status = "interrupted"]
  /\ UNCHANGED <<rows, launches, owner>>

Controller ==
  \/ SelectBegin \/ SelectEnd \/ SelectFails \/ Advance \/ Consider \/ StopDispatching
  \/ Leave \/ FailStop \/ Release
  \/ \E s \in Step : PutOff(s) \/ Reserve(s)
Holder ==
  \/ EndFlush \/ Agreed \/ Drain
  \/ \E s \in Step : FlushStep(s) \/ FlushFails(s) \/ RefreshStep(s) \/ RecordLaunch(s)
Admission == RefreshFails \/ \E s \in Step : Admit(s) \/ AdmitBusy(s) \/ AdmitFails(s)
Callers == Start \/ Cancel \/ Assign \/ RequestClose \/ CloseStop \/ Closed
Others == LoopFails \/ Crash \/ Recover \/ Elapse
Turn(s) == Work(s) \/ End(s) \/ RecoverTask(s)
Next == Controller \/ Holder \/ Admission \/ Callers \/ Others \/ \E s \in Step : Turn(s)

\* The controller and whoever holds the guard go on; a row is not unreadable
\* forever; time passes; a turn ends (NativeTasks); a server that began to close
\* goes on; somebody looks at the run of a dead owner.
Fairness ==
  /\ WF_vars(Controller \/ Holder \/ Admission) /\ WF_vars(CloseStop \/ Closed)
  /\ WF_vars(Elapse) /\ WF_vars(Recover)
  /\ WF_vars(\E s \in Step : End(s)) /\ WF_vars(\E s \in Step : RecoverTask(s))
  /\ SF_vars(\E s \in Step : FlushStep(s))

Spec == Init /\ [][Next]_vars /\ Fairness

-----------------------------------------------------------------------------
\* Accepted work is never replayed: one turn at most is admitted for a step,
\* whatever fails between its reservation and the record of its launch.
LaunchedOnce == \A s \in Step : launches[s] <= 1

\* A turn is launched only on what its predecessors really reported: each
\* ended completed with the report its policy asks for.
LaunchedOnEvidence ==
  \A s \in Step : launches[s] > 0 =>
    \A d \in DependsOn[s] :
      /\ task[d].status = "completed"
      /\ task[d].report \in (IF Policy[s] = "success" THEN {"success"} ELSE {"success", "partial"})

\* A completed run says no more than its turns did: success if every one
\* succeeded, partial if the final one did and all reported.
OutcomeIsEarned ==
  run.status = "completed" =>
    \A s \in Step :
      /\ task[s].status = "completed"
      /\ task[s].report \in (IF run.outcome = "success" \/ s = Final THEN {"success"}
                             ELSE {"success", "partial"})

\* docs/guide.md: "`cancelling` remains active until native stop is observed": no
\* run is over while a turn of it runs, whoever ended it, the controller, a
\* caller, close() or another server.
EndedIsQuiet == run.status \in TeamTerminal => \A s \in Step : ~task[s].live

\* A run that ended stays so: a late selection, pass or flush revives nothing.
EndIsFinal == [][run.status \in TeamTerminal => run'.status = run.status]_vars

\* Work is launched once, on evidence, and a run claims no more than it shows.
RunIsEarned == TypeOK /\ LaunchedOnce /\ LaunchedOnEvidence /\ OutcomeIsEarned

\* The end of a run is final, and quiet.
EndStands == EndIsFinal /\ []EndedIsQuiet

\* A run ends, by its work, its deadline, a caller or the loss of its owner.
RunEnds == (run.status \in ACTIVE_TEAM) ~> (run.status \in TeamTerminal)
=============================================================================
