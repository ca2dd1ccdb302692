----------------------------- MODULE ReviewRuns -----------------------------
(***************************************************************************)
(* One review run (omp_tandem.review_runs): a capture of the change by a   *)
(* killable child process, an independent assessment by a native turn and, *)
(* where it was asked for, a comparison by another turn of the same        *)
(* conversation.  The driver thread of one MCP server takes the run        *)
(* through these phases; callers of that server cancel, reply and shut     *)
(* down; other servers may only interrupt the run once the lease of its    *)
(* owner is free.                                                          *)
(*                                                                         *)
(* The writers of the database exclude each other by a file lock.  The     *)
(* child and other servers wait for it and hold it over several steps; the *)
(* owner never waits, so that what it decides may stay in its memory for   *)
(* long before it is saved.                                                *)
(*                                                                         *)
(* Abstractions.  A section under the owner's guard is one step unless it  *)
(* starts a turn or a process.  Whether SQLite is busy is a choice.  The   *)
(* deadline may be over whenever the code looks at it.  Turns live as      *)
(* NativeTasks describes, reduced to what a row tells.                     *)
(***************************************************************************)
EXTENDS Naturals

CONSTANT MaxFaults   \* bound: failures of the driver, its steps and its reads

ASSUME FaultsAssumption == MaxFaults \in Nat

VARIABLES
  run,      \* the row of review_runs
  stage,    \* of each stage: whether its turn is reserved, its saved result
  task,     \* the native turn of each stage
  launches, \* turns admitted for each stage, ever
  child,    \* the capture process
  lock,     \* who holds the publication lock
  memory,   \* of the owner: the stop it decided, the capture it collected
  server, driver, faults

rows == <<run, stage>>
natives == <<task, launches>>
owner == <<memory, server, driver, faults>>
vars == <<rows, natives, child, lock, owner>>

-----------------------------------------------------------------------------
Stage == {"independent", "comparison"}
RUN_ACTIVE == {"starting", "running", "waiting_input"}
RunTerminal == {"completed", "failed", "cancelled", "interrupted", "no_changes",
                "context_required"}
ACTIVE == {"running", "waiting_input", "cancelling"}
NativeTerminal == {"completed", "failed", "cancelled", "interrupted"}
Reports == {"none", "success", "partial", "blocked"}
Stops == {"none", "failed", "cancelled", "interrupted", "context_required"}
NoResult == [status |-> "none", report |-> "none"]

TypeOK ==
  /\ run \in [status : {"none"} \union RUN_ACTIVE \union RunTerminal,
              phase : {"capture"} \union Stage, mapped : BOOLEAN,
              capture_started : BOOLEAN, compare : BOOLEAN, due : BOOLEAN,
              outcome : Reports, untold : BOOLEAN]
  /\ stage \in [Stage -> [reserved : BOOLEAN,
                          saved : [status : {"none"} \union NativeTerminal, report : Reports]]]
  /\ task \in [Stage -> [status : {"none"} \union ACTIVE \union NativeTerminal,
                         report : Reports, told : BOOLEAN, live : BOOLEAN]]
  /\ launches \in [Stage -> Nat]
  /\ child \in [state : {"none", "reading", "publishing", "exited", "dead"},
                killed : BOOLEAN, changes : {"none", "some", "unknown"}]
  /\ lock \in {"free", "child", "owner", "other"}
  /\ memory \in [stop : Stops, capture : {"none", "some", "empty", "bad"}]
  /\ server \in {"up", "closing", "closed", "dead"}
  /\ driver \in {"none", "loop", "spawning", "reserved", "admitted", "failing",
                 "gone", "released"}
  /\ faults \in 0..MaxFaults

Active == run.status \in RUN_ACTIVE
Serving == server \in {"up", "closing"}
LeaseHeld == Serving /\ driver # "released"
GuardFree == driver \notin {"reserved", "admitted"}
Stopping == memory.stop # "none"

Init ==
  /\ run = [status |-> "none", phase |-> "capture", mapped |-> FALSE,
            capture_started |-> FALSE, compare |-> FALSE, due |-> FALSE,
            outcome |-> "none", untold |-> FALSE]
  /\ stage = [s \in Stage |-> [reserved |-> FALSE, saved |-> NoResult]]
  /\ task = [s \in Stage |-> [status |-> "none", report |-> "none",
                              told |-> FALSE, live |-> FALSE]]
  /\ launches = [s \in Stage |-> 0]
  /\ child = [state |-> "none", killed |-> FALSE, changes |-> "unknown"]
  /\ lock = "free" /\ memory = [stop |-> "none", capture |-> "none"]
  /\ server = "up" /\ driver = "none" /\ faults = 0

-----------------------------------------------------------------------------
(* Stopping a run.                                                         *)

\* The first intent to stop a run wins.
Intent(status) == IF Stopping THEN memory.stop ELSE status

\* ReviewRuns._kill_capture, of a process the owner knows already.
Kill == child' = [child EXCEPT !.killed = child.state # "none"]

\* A stop is decided in memory and the capture is killed.  Whether the stop can be
\* saved at once is for Flush.
Stop(status) == memory' = [memory EXCEPT !.stop = Intent(status)] /\ Kill

Told(s) ==
  IF task[s].status \in ACTIVE
  THEN [task[s] EXCEPT !.status = "cancelling", !.told = TRUE] ELSE task[s]

ActiveTurns == {s \in Stage : stage[s].reserved /\ task[s].status \in ACTIVE}

\* The owner has the lock for a moment: the status is saved first, then the turns
\* are told; that one of them could not be told is only noted in the row.
Flush ==
  /\ Serving /\ GuardFree /\ Stopping /\ lock = "free"
  /\ \E deaf \in SUBSET ActiveTurns :
       /\ run' = [run EXCEPT !.status = memory.stop, !.untold = deaf # {}]
       /\ task' = [s \in Stage |-> IF s \in ActiveTurns \ deaf THEN Told(s) ELSE task[s]]
  /\ memory' = [stop |-> "none", capture |-> "none"]
  /\ UNCHANGED <<stage, launches, child, lock, server, driver, faults>>

-----------------------------------------------------------------------------
(* Callers of the owner's server.                                          *)

Start ==
  /\ run.status = "none" /\ server = "up" /\ lock = "free" /\ driver = "none"
  /\ \E compare \in BOOLEAN :
       run' = [run EXCEPT !.status = "starting", !.compare = compare]
  /\ \/ driver' = "loop" /\ UNCHANGED <<memory, child>>
     \/ Stop("interrupted") /\ UNCHANGED driver        \* the thread cannot start
  /\ UNCHANGED <<stage, natives, lock, server, faults>>

\* Whoever looks at a run of a server whose driver is gone interrupts it first.
RecoverOwn ==
  /\ server = "up" /\ driver \in {"none", "released"} /\ Active
  /\ Stop("interrupted")
  /\ UNCHANGED <<rows, natives, lock, server, driver, faults>>

Cancel ==
  /\ server = "up" /\ GuardFree /\ driver \in {"loop", "spawning", "failing"} /\ Active
  /\ Stop("cancelled")
  /\ UNCHANGED <<rows, natives, lock, server, driver, faults>>

Reply ==
  /\ server = "up" /\ driver \in {"loop", "spawning", "failing"} /\ lock = "free"
  /\ Active /\ ~Stopping /\ ~run.due /\ run.phase \in Stage
  /\ LET s == run.phase IN
     /\ stage[s].reserved /\ task[s].status = "waiting_input"
     /\ task' = [task EXCEPT ![s].status = "running"]
  /\ UNCHANGED <<rows, launches, child, lock, owner>>

\* close() stops the run, joins the driver, tries once more to save the stop and
\* gives up the lease; turns of this server end with it.
Close ==
  /\ server = "up" /\ GuardFree
  /\ server' = "closing"
  /\ IF Active THEN Stop("interrupted")
     ELSE Kill /\ UNCHANGED memory
  /\ UNCHANGED <<rows, natives, lock, driver, faults>>

Closed ==
  /\ server = "closing" /\ driver \in {"none", "gone", "released"}
  /\ child.state \in {"none", "exited", "dead"}
  /\ server' = "closed"
  /\ memory' = [stop |-> "none", capture |-> "none"]
  /\ task' = [s \in Stage |-> [task[s] EXCEPT !.live = FALSE]]
  /\ UNCHANGED <<rows, launches, child, lock, driver, faults>>

-----------------------------------------------------------------------------
(* The driver and the capture.                                             *)

InLoop == driver = "loop" /\ Serving
Going == InLoop /\ server = "up" /\ ~Stopping /\ Active

\* The budget is over before any phase goes on.
Overdue ==
  /\ Going /\ run.due
  /\ Stop("failed")
  /\ UNCHANGED <<rows, natives, lock, server, driver, faults>>

\* The attempt is saved before the process exists, and never made twice.
StartCapture ==
  /\ Going /\ ~run.due /\ run.phase = "capture" /\ memory.capture = "none"
  /\ child.state = "none" /\ lock = "free"
  /\ IF run.capture_started
     THEN Stop("interrupted") /\ UNCHANGED <<run, driver>>
     ELSE /\ run' = [run EXCEPT !.capture_started = TRUE]
          /\ driver' = "spawning"
          /\ UNCHANGED <<memory, child>>
  /\ UNCHANGED <<stage, natives, lock, server, faults>>

\* The process is known to the owner only now: what was decided meanwhile kills
\* it.  A process that cannot be made fails the step.
Spawn ==
  /\ driver = "spawning" /\ Serving
  /\ driver' = "loop"
  /\ \/ child' = [child EXCEPT !.state = "reading",
                               !.killed = server = "closing" \/ Stopping \/ ~Active]
        /\ UNCHANGED memory
     \/ /\ memory' = IF Active THEN [memory EXCEPT !.stop = Intent("interrupted")] ELSE memory
        /\ UNCHANGED child
  /\ UNCHANGED <<rows, natives, lock, server, faults>>

\* The child waits for the lock when it has read the sources.
ChildLocks ==
  /\ child.state = "reading" /\ lock = "free"
  /\ lock' = "child" /\ child' = [child EXCEPT !.state = "publishing"]
  /\ UNCHANGED <<rows, natives, owner>>

\* Mutant: the reservation was checked before the sources were read.
PublishableOnce == run.capture_started /\ run.phase = "capture" /\ ~run.mapped

\* ReviewStore._check_reservation: the run is this child's to publish and its
\* owner is alive.
Publishable ==
  /\ run.capture_started /\ run.phase = "capture" /\ ~run.mapped
  /\ Active /\ ~run.due /\ LeaseHeld

\* The snapshot and its place in the row are committed at once, or neither is.
ChildPublishes ==
  /\ child.state = "publishing" /\ Publishable
  /\ \E changes \in {"none", "some"} : child' = [child EXCEPT !.state = "exited", !.changes = changes]
  /\ run' = [run EXCEPT !.mapped = TRUE]
  /\ lock' = "free"
  /\ UNCHANGED <<stage, natives, owner>>

\* It cannot read the sources or may not publish them.
ChildFails ==
  /\ child.state \in {"reading", "publishing"}
  /\ child' = [child EXCEPT !.state = "exited"]
  /\ lock' = IF lock = "child" THEN "free" ELSE lock
  /\ UNCHANGED <<rows, natives, owner>>

\* A killed process goes on until the signal reaches it; any process may be killed
\* by the host.
ChildDies ==
  /\ child.state \in {"reading", "publishing"}
  /\ child' = [child EXCEPT !.state = "dead"]
  /\ lock' = IF lock = "child" THEN "free" ELSE lock
  /\ UNCHANGED <<rows, natives, owner>>

\* The answer of the child is held against what it published.  The driver does
\* this without the guard.
Collect ==
  /\ InLoop /\ child.state \in {"exited", "dead"}
  /\ child' = [child EXCEPT !.state = "none", !.killed = FALSE]
  /\ memory' = [memory EXCEPT !.capture =
       IF ~(server = "up" /\ Active /\ ~Stopping) THEN "none"
       ELSE IF child.state = "exited" /\ ~child.killed /\ run.mapped
       THEN IF child.changes = "none" THEN "empty" ELSE "some"
       ELSE "bad"]
  /\ UNCHANGED <<rows, natives, lock, server, driver, faults>>

\* Then, under the guard: no changes end the run; an earlier run that lacked the
\* material this capture lacks as well refuses it; otherwise the assessment
\* begins.  A result that came after a stop is dropped.
Settle ==
  /\ InLoop /\ memory.capture # "none"
  /\ IF server = "closing" \/ Stopping \/ ~Active
     THEN memory' = [memory EXCEPT !.capture = "none"] /\ UNCHANGED <<run, child>>
     ELSE IF run.due \/ memory.capture = "bad"
     THEN /\ memory' = [stop |-> "failed", capture |-> "none"]
          /\ UNCHANGED <<run, child>>
     ELSE \/ /\ lock = "free"
             /\ run' = IF memory.capture = "empty" THEN [run EXCEPT !.status = "no_changes"]
                       ELSE [run EXCEPT !.phase = "independent"]
             /\ memory' = [memory EXCEPT !.capture = "none"]
             /\ UNCHANGED child
          \/ /\ lock = "free" /\ memory.capture = "some"
             /\ memory' = [stop |-> "context_required", capture |-> "none"]
             /\ UNCHANGED <<run, child>>
  /\ UNCHANGED <<stage, natives, lock, server, driver, faults>>

-----------------------------------------------------------------------------
(* The stages.                                                             *)

InStage(s) == Going /\ ~run.due /\ run.phase = s /\ lock = "free"

\* The identity of the turn is saved before it is asked for.  From here to the
\* record of the launch the driver has the guard and the lock.
Reserve(s) ==
  /\ InStage(s) /\ ~stage[s].reserved
  /\ stage' = [stage EXCEPT ![s].reserved = TRUE]
  /\ run' = [run EXCEPT !.status = "starting"]
  /\ driver' = "reserved" /\ lock' = "owner"
  /\ UNCHANGED <<natives, child, memory, server, faults>>

\* TaskStore.validate_review_reservation
Valid(s) ==
  /\ run.status = "starting" /\ run.phase = s /\ ~run.due /\ run.mapped
  /\ stage[s].reserved /\ task[s].status = "none"
  /\ s = "comparison" =>
       /\ task["independent"].status = "completed"
       /\ task["independent"].report = "success"
       /\ stage["independent"].saved # NoResult

\* The row of the turn is inserted and its thread started, or cannot be.
Admit(s) ==
  /\ driver = "reserved" /\ Serving /\ Valid(s)
  /\ launches' = [launches EXCEPT ![s] = @ + 1]
  /\ \/ /\ task' = [task EXCEPT ![s] = [status |-> "running", report |-> "none",
                                        told |-> FALSE, live |-> TRUE]]
        /\ driver' = "admitted"
        /\ UNCHANGED <<memory, child, lock>>
     \/ /\ task' = [task EXCEPT ![s] = [status |-> "failed", report |-> "none",
                                        told |-> FALSE, live |-> FALSE]]
        /\ Stop("failed")
        /\ driver' = "loop" /\ lock' = "free"
  /\ UNCHANGED <<rows, server, faults>>

AdmitFails ==
  /\ driver = "reserved" /\ Serving
  /\ Stop("failed")
  /\ driver' = "loop" /\ lock' = "free"
  /\ UNCHANGED <<rows, natives, server, faults>>

\* Mutant: a launch whose record fails is taken back, to be made again.
RecordReplaying ==
  /\ driver = "admitted" /\ Serving
  /\ driver' = "loop" /\ lock' = "free"
  /\ \/ run' = [run EXCEPT !.status = "running"] /\ UNCHANGED <<stage, task>>
     \/ stage' = [stage EXCEPT ![run.phase].reserved = FALSE]
        /\ task' = [task EXCEPT ![run.phase].status = "none"]
        /\ UNCHANGED run
  /\ UNCHANGED <<launches, child, memory, server, faults>>

\* If the record cannot be written the turn is looked at in a later pass.
Record ==
  /\ driver = "admitted" /\ Serving
  /\ driver' = "loop" /\ lock' = "free"
  /\ IF run.due THEN Stop("failed") /\ UNCHANGED run
     ELSE /\ run' \in {run, [run EXCEPT !.status = "running"]}
          /\ UNCHANGED <<memory, child>>
  /\ UNCHANGED <<stage, natives, server, faults>>

Watch(s) ==
  /\ InStage(s) /\ stage[s].reserved /\ task[s].status \in ACTIVE
  /\ run' = [run EXCEPT !.status =
       IF task[s].status = "waiting_input" THEN "waiting_input" ELSE "running"]
  /\ run' # run
  /\ UNCHANGED <<stage, natives, child, lock, owner>>

\* What the end of a turn makes of the run.
NextPhase(s, t) ==
  IF t.status # "completed" THEN [run EXCEPT !.status = t.status, !.outcome = t.report]
  ELSE IF t.report \in {"partial", "blocked"}
  THEN [run EXCEPT !.status = "completed", !.outcome = t.report]
  ELSE IF t.report = "none" THEN [run EXCEPT !.status = "failed"]
  ELSE IF s = "independent" /\ run.compare
  THEN [run EXCEPT !.phase = "comparison", !.status = "starting"]
  ELSE [run EXCEPT !.status = "completed", !.outcome = "success"]

\* The whole answer is saved before anything follows from it; the second write
\* may fail alone.
Finish(s) ==
  /\ InStage(s) /\ stage[s].reserved /\ task[s].status \in NativeTerminal
  /\ LET result == [status |-> task[s].status, report |-> task[s].report] IN
     /\ stage' = [stage EXCEPT ![s].saved = result]
     /\ run' \in {run, NextPhase(s, result)}
  /\ UNCHANGED <<natives, child, lock, owner>>

-----------------------------------------------------------------------------
(* Failures of the driver, the end of its server, other servers.           *)

Faulty == faults < MaxFaults /\ faults' = faults + 1

StepFails ==
  /\ Going /\ Faulty
  /\ Stop("interrupted")
  /\ UNCHANGED <<rows, natives, lock, server, driver>>

LoopFails ==
  /\ InLoop /\ Faulty
  /\ driver' = "failing"
  /\ UNCHANGED <<rows, natives, child, lock, memory, server>>

\* A driver that fails kills the capture, stops the run if it can read it, and
\* gives up the lease while its server goes on.
Release ==
  /\ driver = "failing" /\ Serving
  /\ driver' = "released"
  /\ \/ Active /\ Stop("interrupted") /\ UNCHANGED faults
     \/ /\ Active => Faulty
        /\ ~Active => UNCHANGED faults
        /\ Kill
        /\ UNCHANGED memory
  /\ UNCHANGED <<rows, natives, lock, server>>

\* A released driver has no loop to reap its capture in.
Reap ==
  /\ driver = "released" /\ child.state \in {"exited", "dead"}
  /\ child' = [child EXCEPT !.state = "none", !.killed = FALSE]
  /\ UNCHANGED <<rows, natives, lock, owner>>

Leave ==
  /\ InLoop /\ server = "closing"
  /\ driver' = "gone"
  /\ UNCHANGED <<rows, natives, child, lock, memory, server, faults>>

\* The capture is in a session of its own and survives its server.
Crash ==
  /\ Serving
  /\ server' = "dead" /\ driver' = "gone"
  /\ memory' = [stop |-> "none", capture |-> "none"]
  /\ lock' = IF lock = "owner" THEN "free" ELSE lock
  /\ task' = [s \in Stage |-> [task[s] EXCEPT !.live = FALSE]]
  /\ child' = IF driver = "spawning" /\ child.state = "none"
              THEN [child EXCEPT !.state = "reading"] ELSE child
  /\ UNCHANGED <<rows, launches, faults>>

OtherLocks ==
  /\ lock = "free" /\ lock' = "other"
  /\ UNCHANGED <<rows, natives, child, owner>>

OtherUnlocks ==
  /\ lock = "other" /\ lock' = "free"
  /\ UNCHANGED <<rows, natives, child, owner>>

\* Mutant: a run that waits for an answer is left as it is.
RecoverRunning ==
  /\ run.status \in {"starting", "running"} /\ ~LeaseHeld /\ lock = "free"
  /\ run' = [run EXCEPT !.status = "interrupted"]
  /\ UNCHANGED <<stage, natives, child, lock, owner>>

\* Another server looks at the run, finds its lease free and interrupts it, and
\* with it the turns of servers that are gone.
Orphaned(s) == task[s].status \in ACTIVE /\ ~task[s].live
Recover ==
  /\ Active /\ ~LeaseHeld /\ lock = "free"
  /\ run' = [run EXCEPT !.status = "interrupted"]
  /\ task' = [s \in Stage |->
       IF Orphaned(s) THEN [task[s] EXCEPT !.status = "interrupted"] ELSE task[s]]
  /\ UNCHANGED <<stage, launches, child, lock, owner>>

Elapse ==
  /\ Active /\ ~run.due
  /\ run' = [run EXCEPT !.due = TRUE]
  /\ UNCHANGED <<stage, natives, child, lock, owner>>

\* A turn asks, or files its report.
Work(s) ==
  /\ task[s].live /\ task[s].status \in {"running", "waiting_input"}
  /\ \/ task[s].status = "running" /\ task' = [task EXCEPT ![s].status = "waiting_input"]
     \/ /\ task[s].report = "none"
        /\ \E report \in Reports \ {"none"} : task' = [task EXCEPT ![s].report = report]
  /\ UNCHANGED <<rows, launches, child, lock, owner>>

\* A turn ends; one that was told to stop may be past noticing it.
End(s) ==
  /\ task[s].live /\ task[s].status \in ACTIVE
  /\ \E status \in {"completed", "failed"} \union (IF task[s].told THEN {"cancelled"} ELSE {}) :
       task' = [task EXCEPT ![s].status = status, ![s].live = FALSE]
  /\ UNCHANGED <<rows, launches, child, lock, owner>>

StageStep(s) == Reserve(s) \/ Admit(s) \/ Watch(s) \/ Finish(s)
Driver ==
  \/ Overdue \/ StartCapture \/ Spawn \/ Collect \/ Settle
  \/ AdmitFails \/ Record \/ Release \/ Reap \/ Leave
  \/ \E s \in Stage : StageStep(s)
Child == ChildLocks \/ ChildPublishes \/ ChildFails \/ ChildDies
Callers == Start \/ RecoverOwn \/ Cancel \/ Reply \/ Close \/ Closed
Others == StepFails \/ LoopFails \/ Crash \/ OtherLocks \/ OtherUnlocks \/ Recover \/ Elapse
StageTurn(s) == Work(s) \/ End(s)
Next == Driver \/ Flush \/ Child \/ Callers \/ Others \/ \E s \in Stage : StageTurn(s)

\* Whoever can go on again and again goes on some time: the driver, the child that has the
\* lock, or somebody who looks at the run of an owner that is gone; the lock they find
\* taken is not taken for ever; time passes; a turn ends (NativeTasks); a server that
\* began to close goes on.
Resolved == Driver \/ Flush \/ ChildFails \/ ChildPublishes \/ Recover

Fairness ==
  /\ SF_vars(Resolved) /\ WF_vars(OtherUnlocks) /\ WF_vars(Elapse) /\ WF_vars(Closed)
  /\ WF_vars(RecoverOwn) /\ \A s \in Stage : WF_vars(End(s))

Spec == Init /\ [][Next]_vars /\ Fairness

-----------------------------------------------------------------------------
\* A run that is over while its driver lives has told its turns to stop, or says
\* in its row that it could not.
EndedIsTold ==
  (run.status \in RunTerminal /\ driver = "loop" /\ Serving /\ ~Stopping) =>
    \A s \in Stage : task[s].status \in ACTIVE => task[s].told \/ run.untold

\* A stage is never replayed: one turn at most is admitted for it, whatever fails
\* between its reservation and the record of its launch.  A comparison is only
\* made of a complete and successful assessment whose answer was saved before,
\* of a snapshot that was published under this run.  The end is told to its turns.
StagesAreEarned ==
  /\ TypeOK /\ EndedIsTold
  /\ \A s \in Stage : launches[s] <= 1 /\ (launches[s] = 1 => run.mapped)
  /\ launches["comparison"] = 1 =>
       stage["independent"].saved = [status |-> "completed", report |-> "success"]
  /\ run.status = "completed" /\ run.outcome = "success" =>
       LET last == IF run.compare THEN "comparison" ELSE "independent" IN
       task[last].status = "completed" /\ task[last].report = "success"

\* "Cancellation and shutdown prevent a subsequent stage" (docs/guide.md), at any
\* time: once the run is over nothing is published under it and no turn starts,
\* by a late child, a late selection of the driver or another server; and
\* the end of a run is final, but that a stop decided before its owner was
\* given up may replace the interruption by another server.
EndedStaysEnded ==
  [][run.status \in RunTerminal =>
       /\ run'.mapped = run.mapped /\ launches' = launches /\ run'.phase = run.phase
       /\ run'.status = run.status \/ (run.status = "interrupted" /\ run'.status = memory.stop)]_vars

\* A run ends, by its work, its deadline, a caller or the loss of its owner.
ReviewEnds == Active ~> (run.status \in RunTerminal)
=============================================================================
