---------------------------- MODULE WorkAdapters ----------------------------
(***************************************************************************)
(* The adapters of managed work (work_adapters): how one attempt of the    *)
(* store becomes one execution - a native task for OMP, a process group of *)
(* the official CLI for Claude - how a supervisor's thread watches it and  *)
(* what it reports of it.  The execution, the reader of its output, the    *)
(* operator and the clock move between any two of the thread's steps.      *)
(*                                                                         *)
(* What is only compared and refused (tokens, paths, modes, models,        *)
(* repositories) is the choice to refuse.  A report is its outcome; what a *)
(* process of the group that left its group does is not followed.          *)
(***************************************************************************)
EXTENDS Integers

CONSTANT
  Budget      \* what the attempt may spend; bound of what its execution spends

ASSUME BudgetAssumption == Budget \in Nat \ {0}

VARIABLES
  assigned,   \* the attempt: whose it is, its kind, whether its plan fits a prompt
  entry,      \* its row in the store
  launcher,   \* the thread that launches and polls, and the adapter's closed flag
  handle,     \* the adapter's WorkHandle
  worker      \* the execution: its leader, what else of it lives, what it says

adapterVars == <<assigned, entry, launcher, handle, worker>>

-----------------------------------------------------------------------------
Said == {"success", "partial", "blocked", "failed", "garbage"}
Unknown == {}                     \* a cost is the set of its one amount, or unknown
NoReport == [outcome |-> "none", cost |-> Unknown]
Reports == [outcome : {"none", "success", "blocked", "failed", "interrupted"},
            cost : {Unknown} \union {{n} : n \in 0..Budget}]

AdapterTypeOK ==
  /\ assigned \in [actor : {"omp", "claude"}, kind : {"implement", "review", "independent"},
                   fits : BOOLEAN]
  /\ entry \in [state : {"reserved", "running", "ended"}, native : BOOLEAN,
                review : BOOLEAN, blocked : BOOLEAN, heartbeat : BOOLEAN]
  /\ launcher.at \in {"idle", "captured", "blocking", "launch", "spawn", "bound",
                      "acknowledge", "lost", "poll", "observed", "raised", "cleanup", "ended",
                      "closed", "dead"}
  /\ {launcher.uncaptured, launcher.taken, launcher.stop} \subseteq BOOLEAN
  /\ {handle.made, handle.native, handle.process, handle.failure, handle.cancelled,
      handle.acknowledged, handle.killed, handle.reaped} \subseteq BOOLEAN
  /\ handle.result \in Reports
  /\ worker \in [leader : {"none", "running", "exited"}, rest : BOOLEAN, spent : 0..Budget,
                 says : Said, metered : BOOLEAN]

AdapterInit ==
  /\ assigned \in [actor : {"omp", "claude"}, kind : {"implement", "review", "independent"},
                   fits : BOOLEAN]
  /\ entry = [state |-> "reserved", native |-> FALSE, review |-> FALSE, blocked |-> FALSE,
              heartbeat |-> FALSE]
  /\ launcher = [at |-> "idle", uncaptured |-> FALSE, taken |-> FALSE, stop |-> FALSE]
  /\ handle = [made |-> FALSE, native |-> FALSE, process |-> FALSE, failure |-> FALSE,
               cancelled |-> FALSE, acknowledged |-> FALSE, killed |-> FALSE,
               reaped |-> FALSE, result |-> NoReport, context |-> {}]
  /\ worker = [leader |-> "none", rest |-> FALSE, spent |-> 0, says |-> "garbage",
               metered |-> TRUE]

Omp == assigned.actor = "omp"
Independent == assigned.kind = "independent"
Admits == entry.state \in {"reserved", "running"}       \* WorkStore._authenticate
Proceeds(from, to) == launcher.at = from /\ launcher' = [launcher EXCEPT !.at = to]

-----------------------------------------------------------------------------
(* Preparation.                                                            *)

\* The refusals of _prepare before anything is written: the credential and its
\* file, the adapter's participant, the deadline, the budget, the grant, the card's
\* repository, the saved workspace.
RefusePreparation ==
  /\ launcher.at \in {"idle", "captured"}
  /\ Proceeds(launcher.at, "raised")
  /\ UNCHANGED <<assigned, entry, handle, worker>>

\* The row is read once, here.  An independent review is captured and pinned to its
\* attempt; a capture that its declared inputs do not allow is kept for later.
PinSnapshot ==
  /\ Proceeds("idle", "captured")
  /\ Admits /\ entry.state = "reserved"
  /\ Independent
  /\ entry' = [entry EXCEPT !.review = TRUE]
  /\ UNCHANGED <<assigned, handle, worker>>

CaptureBlocked ==
  /\ launcher.at = "idle" /\ Independent
  /\ entry.state = "reserved"
  /\ launcher' = [launcher EXCEPT !.at = "captured", !.uncaptured = TRUE]
  /\ UNCHANGED <<assigned, entry, handle, worker>>

NothingToPin ==
  /\ Proceeds("idle", "captured")
  /\ ~Independent /\ entry.state = "reserved"
  /\ UNCHANGED <<assigned, entry, handle, worker>>

\* _prompt: what of the attempt its worker is given.  A plan too large for the
\* prompt is replaced by the sections the worker has to read, never by an excerpt.
Context(decisions) ==
  {"identity", "workspace", "permissions"}
  \union (IF assigned.fits
          THEN {"plan", "dependencies", "submission", "verification"} ELSE {"required_read"})
  \union (IF decisions THEN {"decisions"} ELSE {})
  \union (IF decisions /\ ~assigned.fits THEN {"blocker_history"} ELSE {})
  \union (IF Independent THEN {"review"} ELSE {})

\* The exclusive private directory, which outlives the thread, and the handle.
\* Answers recorded on the card go to an implementer only.
MarkAttempt ==
  /\ launcher.at = "captured" /\ ~launcher.taken
  /\ launcher' = [launcher EXCEPT !.taken = TRUE,
                                  !.at = IF launcher.uncaptured THEN "blocking" ELSE "launch"]
  /\ \E answered \in BOOLEAN :
       handle' = [handle EXCEPT !.made = TRUE,
                                !.context = Context(answered /\ assigned.kind = "implement")]
  /\ UNCHANGED <<assigned, entry, worker>>

\* A failed capture ends as a blocked result of an attempt nothing was started for.
BlockCapture ==
  /\ launcher.at = "blocking"
  /\ IF Admits
     THEN /\ entry' = [entry EXCEPT !.blocked = TRUE]
          /\ handle' = [handle EXCEPT !.reaped = TRUE,
                                      !.result = [outcome |-> "blocked", cost |-> {0}]]
          /\ launcher' = [launcher EXCEPT !.at = "poll"]
     ELSE /\ launcher' = [launcher EXCEPT !.at = "raised"]
          /\ UNCHANGED <<entry, handle>>
  /\ UNCHANGED <<assigned, worker>>

-----------------------------------------------------------------------------
(* The launch.                                                             *)

\* Recorded as running first, started after.  A start that raises has no handle for
\* its caller: what was started is cancelled by start itself.
RecordClaudeStart ==
  /\ ~Omp /\ launcher.at = "launch"
  /\ entry' = IF Admits THEN [entry EXCEPT !.state = "running"] ELSE entry
  /\ launcher' = [launcher EXCEPT !.at = IF Admits THEN "spawn" ELSE "raised"]
  /\ UNCHANGED <<assigned, handle, worker>>

SpawnClaude ==
  /\ launcher.at = "spawn"
  /\ \/ /\ handle' = [handle EXCEPT !.process = TRUE]
        /\ worker' = [worker EXCEPT !.leader = "running", !.rest = TRUE]
        /\ launcher' = [launcher EXCEPT !.at = "poll"]
     \/ /\ launcher' = [launcher EXCEPT !.at = "raised"]
        /\ UNCHANGED <<handle, worker>>
  /\ UNCHANGED <<assigned, entry>>

\* The native task is bound to the attempt in the step that admits it, before its
\* thread runs; what follows may be lost.
BindNative ==
  /\ Omp /\ launcher.at = "launch"
  /\ entry' = IF Admits THEN [entry EXCEPT !.state = "running", !.native = TRUE] ELSE entry
  /\ launcher' = [launcher EXCEPT !.at = IF Admits THEN "bound" ELSE "lost"]
  /\ UNCHANGED <<assigned, handle, worker>>

RunNative ==
  /\ launcher.at = "bound"
  /\ \/ /\ worker' = [worker EXCEPT !.leader = "running", !.rest = TRUE]
        /\ launcher' = [launcher EXCEPT !.at = "acknowledge"]
     \/ /\ launcher' = [launcher EXCEPT !.at = "lost"]
        /\ UNCHANGED worker
  /\ UNCHANGED <<assigned, entry, handle>>

AcknowledgeNative ==
  /\ launcher.at = "acknowledge"
  /\ \/ /\ handle' = [handle EXCEPT !.native = TRUE]
        /\ launcher' = [launcher EXCEPT !.at = "poll"]
     \/ /\ launcher' = [launcher EXCEPT !.at = "lost"]
        /\ UNCHANGED handle
  /\ UNCHANGED <<assigned, entry, worker>>

-----------------------------------------------------------------------------
(* Stopping and watching it.                                               *)

Cost == IF worker.metered THEN {worker.spent} ELSE Unknown
Reported(outcome, cost) == [outcome |-> outcome, cost |-> cost]

\* What a confirmed stop leaves: of a native task nothing runs once its thread is
\* joined; of the CLI's group nothing lives, its leader waited for, the rest killed,
\* whether or not the leader ended by itself.
TornDown(w) == [w EXCEPT !.leader = IF w.leader = "none" THEN "none" ELSE "exited",
                      !.rest = FALSE]

\* OmpWorkAdapter.cancel and _join, ClaudeWorkAdapter._reap.  Once the handle is
\* reaped nothing is signalled again.
ReapedLeaderOnly(h) ==
  /\ worker' = IF handle.reaped THEN worker ELSE [TornDown(worker) EXCEPT !.rest = worker.rest]
  /\ handle' = [h EXCEPT !.reaped = TRUE, !.killed = @ \/ ~Omp]

Reaped(h) ==
  /\ worker' = IF handle.reaped THEN worker ELSE TornDown(worker)
  /\ handle' = [h EXCEPT !.reaped = TRUE, !.killed = @ \/ ~Omp]

\* The thread does not join, or the reader does not end: no stop is confirmed, and
\* of a native task nothing is known.
ReapFails ==
  /\ ~handle.reaped
  /\ worker' = IF Omp THEN worker ELSE TornDown(worker)
  /\ handle' = [handle EXCEPT !.killed = @ \/ ~Omp]

\* A start that raised after its task was bound finds it again and stops it.
StopLost ==
  /\ launcher.at = "lost"
  /\ \/ /\ Reaped([handle EXCEPT !.native = entry.native, !.cancelled = entry.native])
        /\ entry.native
     \/ /\ UNCHANGED worker
        /\ handle' = [handle EXCEPT !.native = entry.native]
  /\ launcher' = [launcher EXCEPT !.at = "raised"]
  /\ UNCHANGED <<assigned, entry>>

\* The supervisor's thread cancels what it may no longer run.
CancelExecution ==
  /\ launcher.at = "poll" /\ ~handle.cancelled
  /\ launcher.stop \/ ~Admits
  /\ \/ Reaped([handle EXCEPT !.cancelled = TRUE]) /\ UNCHANGED launcher
     \/ ReapFails /\ launcher' = [launcher EXCEPT !.at = "cleanup"]
  /\ UNCHANGED <<assigned, entry>>

\* poll answers a settled handle at once.
PollSettled ==
  /\ Proceeds("poll", "ended")
  /\ handle.result # NoReport
  /\ UNCHANGED <<assigned, entry, handle, worker>>

\* _observe: the row is read once; an acknowledgement is never forgotten.  Without
\* one the startup may be over.
Observe ==
  /\ Proceeds("poll", "observed")
  /\ handle.result = NoReport
  /\ \E slow \in BOOLEAN :
       handle' = [handle EXCEPT
         !.acknowledged = @ \/ entry.heartbeat,
         !.failure = @ \/ ~Admits
                       \/ (slow /\ ~handle.acknowledged /\ ~entry.heartbeat)]
  /\ UNCHANGED <<assigned, entry, worker>>

\* What a view of the native task adds: an account that is not complete once the
\* model answered, or one that reached the budget.
Overspent == Omp /\ worker.spent > 0 /\ (~worker.metered \/ worker.spent >= Budget)
PollStops == handle.failure \/ handle.cancelled \/ Overspent

\* A poll that finds a reason to stop: no outcome of the worker counts any more.
PollInterrupted ==
  /\ launcher.at = "observed" /\ PollStops
  /\ \/ /\ launcher' = [launcher EXCEPT !.at = "poll"]
        /\ Reaped([handle EXCEPT !.cancelled = TRUE,
                     !.result = Reported("interrupted", IF Omp THEN Cost ELSE Unknown)])
     \/ ReapFails /\ launcher' = [launcher EXCEPT !.at = "cleanup"]
  /\ UNCHANGED <<assigned, entry>>

PollRunning ==
  /\ Proceeds("observed", "poll")
  /\ ~PollStops /\ worker.leader = "running"
  /\ UNCHANGED <<assigned, entry, handle, worker>>

\* The verdict on an execution that ended, read only when nothing of it lives.  The
\* reader may have failed it meanwhile.
ReportOf ==
  IF handle.failure \/ ~handle.acknowledged \/ worker.says \in {"failed", "garbage"}
  THEN Reported("failed", Cost)
  ELSE IF ~worker.metered \/ (~Omp /\ worker.spent >= Budget)
       THEN Reported("failed", Cost)
       ELSE Reported(IF worker.says = "success" THEN "success" ELSE "blocked", Cost)

PollEnded ==
  /\ launcher.at = "observed"
  /\ ~PollStops /\ worker.leader # "running"
  /\ \/ /\ launcher' = [launcher EXCEPT !.at = "poll"]
        /\ Reaped([handle EXCEPT !.result = ReportOf])
     \/ ReapFails /\ launcher' = [launcher EXCEPT !.at = "cleanup"]
  /\ UNCHANGED <<assigned, entry>>

\* The supervisor's handler of an exception: cancel, and poll what was cancelled.
Cleanup ==
  /\ launcher.at = "cleanup"
  /\ launcher' = [launcher EXCEPT !.at = "ended"]
  /\ \/ Reaped([handle EXCEPT !.cancelled = TRUE,
                  !.result = IF @ # NoReport THEN @
                             ELSE Reported("interrupted", IF Omp THEN Cost ELSE Unknown)])
     \/ ReapFails
  /\ UNCHANGED <<assigned, entry>>

\* Without a handle there is nothing to clean up.
EndUnstarted ==
  /\ Proceeds("raised", "ended")
  /\ UNCHANGED <<assigned, entry, handle, worker>>

\* close, once every thread of the supervisor was joined: a stop that was not
\* confirmed is tried again.
CloseAdapter ==
  /\ Proceeds("ended", "closed")
  /\ launcher.stop
  /\ IF handle.made
     THEN Reaped([handle EXCEPT !.cancelled = TRUE]) \/ ReapFails
     ELSE UNCHANGED <<handle, worker>>
  /\ UNCHANGED <<assigned, entry>>

-----------------------------------------------------------------------------
(* The execution, its reader, the store and the clock.                     *)

SendHeartbeat ==
  /\ worker.leader = "running" /\ Admits /\ ~entry.heartbeat
  /\ entry' = [entry EXCEPT !.heartbeat = TRUE]
  /\ UNCHANGED <<assigned, launcher, handle, worker>>

Spend ==
  /\ worker.leader = "running" /\ worker.spent < Budget
  /\ \E known \in BOOLEAN :
       worker' = [worker EXCEPT !.spent = @ + 1, !.metered = @ /\ known]
  /\ UNCHANGED <<assigned, entry, launcher, handle>>

\* It ends by itself, is cancelled by somebody else or dies; what it started, or the
\* thread that tears it down, may outlive it.
WorkerExits ==
  /\ worker.leader = "running"
  /\ \E says \in Said : worker' = [worker EXCEPT !.leader = "exited", !.says = says]
  /\ UNCHANGED <<assigned, entry, launcher, handle>>

RestExits ==
  /\ worker.leader # "running" /\ worker.rest
  /\ worker' = [worker EXCEPT !.rest = FALSE]
  /\ UNCHANGED <<assigned, entry, launcher, handle>>

\* The reader of the CLI's output meets the deadline, the limit of the output or an
\* error and kills the group.
ReaderFails ==
  /\ ~Omp /\ handle.process /\ ~handle.killed /\ ~handle.reaped
  /\ worker.leader = "running" \/ worker.rest
  /\ launcher.at # "dead"
  /\ handle' = [handle EXCEPT !.failure = TRUE, !.killed = TRUE]
  /\ worker' = TornDown(worker)
  /\ UNCHANGED <<assigned, entry, launcher>>

\* Revoked, reconciled, finished or past its deadline: the row is no longer active,
\* and the clock of the handle says the same of a deadline.
EndEntry ==
  /\ Admits
  /\ entry' = [entry EXCEPT !.state = "ended"]
  /\ UNCHANGED <<assigned, launcher, handle, worker>>

StopSupervisor ==
  /\ ~launcher.stop
  /\ launcher' = [launcher EXCEPT !.stop = TRUE]
  /\ UNCHANGED <<assigned, entry, handle, worker>>

LauncherDies ==
  /\ launcher.at \notin {"ended", "closed", "dead"}
  /\ launcher' = [launcher EXCEPT !.at = "dead"]
  /\ UNCHANGED <<assigned, entry, handle, worker>>

AdapterNext ==
  \/ RefusePreparation \/ PinSnapshot \/ CaptureBlocked \/ NothingToPin
  \/ MarkAttempt \/ BlockCapture
  \/ RecordClaudeStart \/ SpawnClaude \/ BindNative \/ RunNative \/ AcknowledgeNative
  \/ StopLost \/ CancelExecution \/ PollSettled \/ Observe \/ PollInterrupted
  \/ PollRunning \/ PollEnded \/ Cleanup \/ EndUnstarted \/ CloseAdapter
  \/ SendHeartbeat \/ Spend \/ WorkerExits \/ RestExits \/ ReaderFails \/ EndEntry
  \/ StopSupervisor \/ LauncherDies

AdapterSpec == AdapterInit /\ [][AdapterNext]_adapterVars

-----------------------------------------------------------------------------
(* Properties.                                                             *)

Lives == worker.leader = "running" \/ worker.rest
WorkerAnswered == handle.result.outcome \in {"success", "blocked"} /\ ~launcher.uncaptured

\* What the supervisor is told of an execution.  Every report, and every handle that
\* counts as reaped, is of an execution of which nothing lives any more.  A success
\* or a block is what the worker itself said, of an attempt the worker acknowledged
\* in the store, with its exact cost and within the budget; a cost is never a
\* guess.  A review whose capture failed is reported blocked without an execution,
\* after its attempt holds the blocker.  A task bound to the attempt is either known
\* to the handle or was stopped, unless its stop is unconfirmed; then there is no
\* report.  No recorded answer reaches an independent reviewer.
ReportsAreEarned ==
  /\ AdapterTypeOK
  /\ handle.result # NoReport \/ handle.reaped => ~Lives
  /\ WorkerAnswered =>
       /\ entry.heartbeat /\ worker.metered
       /\ handle.result.cost = {worker.spent} /\ worker.spent < Budget
       /\ handle.result.outcome = IF worker.says = "success" THEN "success" ELSE "blocked"
       /\ worker.says \in {"success", "partial", "blocked"}
  /\ handle.result.cost # Unknown => handle.result.cost = {worker.spent}
  /\ launcher.uncaptured /\ handle.result # NoReport =>
       worker.leader = "none" /\ entry.blocked /\ ~entry.native
  /\ Lives => entry.state # "reserved" /\ handle.made
  /\ Independent => "decisions" \notin handle.context
=============================================================================
