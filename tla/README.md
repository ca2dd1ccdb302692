# omp-tandem: TLA+ specifications

omp-tandem lets two coding agents, Claude and OMP, work on one project. Each
agent talks to its own MCP server process; the servers, an autonomous
supervisor and the operator's commands share one SQLite database, a few status
files and kernel locks beside it, and Git. Nothing else coordinates them. What
is hard in this system is therefore in its protocols between processes that may
die, repeat themselves or look at old state, and that is what these modules
specify.

File names below are relative to `src/omp_tandem/`.

## The system and its parts

| part | state it keeps | operations | what makes it correct |
|---|---|---|---|
| work store (`work_items.py`) | one card document per work item with its plan, steps, blockers, grant and transition; attempt rows; bindings of claims | propose, agree, claim, submit, decide, block/unblock, pause/resume, authorize/revoke, reserve, started, finish_attempt, confirm_stopped, recover, reconcile, plan transitions, cancel, successor | one writer per step; output accepted only by the other participant, on the evidence it looked at; late results of fenced attempts are dead; spending stays within the grant; no step is lost; a credential passes on once, as the operator saw it |
| command receipts (`work_items.py`, `_perform_command`) | one receipt per operation identifier, the card's revision | perform, replay, conflict | a change is made once, and every answer tells the truth |
| work access (`work_access.py`) | the credentials of a session's claims | claim; submit as a chain of adopt, record, start, finish or preserve | completion, intent and kept commit belong together; a caller is told what the store holds |
| work supervisor (`work_supervisor.py`, `work_daemon.py`) | a lease, a status file, a stop file, threads, provider processes | the loop (recover, stop, reap, launch, publish, decide), threads (prepare, start, poll, finish, confirm), operator's stop, reconcile, pause, revoke | one execution per card; nothing is called gone that may run; a stop ends it |
| work adapters (`work_adapters.py`) | one handle per execution | prepare, start, poll, cancel, cleanup, close | a report is of something that ended, and says what the worker said |
| work workspaces (`work_workspace.py`, `work_daemon.py`) | worktrees, manifests, references of kept commits; the checkout | prepare, finish, preserve, adopt, dispose, cleanup; apply, assess | what is kept was one state of the copy; a copy is not removed with work; the checkout only moves forward to the result |
| native tasks (`task_store.py`, `task_runtime.py`, `native_worker.py`, `worker_turn.py`, `task_interaction.py`, `workspace.py`) | task and question rows; conversation locks, worker slots; native processes | start/continue, run, ask, reply, report, cancel, refresh, recover, finish | turns of a conversation are serial; files have one writer; an answer stands unless its turn became independent; a task ends |
| team runs (`team_runs.py`, `team_selection.py`, `team_models.py`) | runs and steps with dependencies; a guard, a controller thread and a lease per server | start, select, advance, dispatch, stop, cancel, assign, close, recover | a step is launched once, on what its predecessors reported; a run is over only when its turns are, says no more than they did, and ends |
| review runs (`review_runs.py`, `capture_worker.py`) | a run with two stages, a capture child, a publication lock | start, capture, advance, stop, reply, close, recover | nothing is published after a stop; a stage is never replayed; a run ends |
| review snapshots (`reviews.py`) | saved files of a change, its manifest | capture by two scans, assess, declare findings | a snapshot was there at one moment, but for a file absent at both readings |
| review checks (`review_check_state.py`, `review_checks.py`, `review_containers.py`) | a row and a container per check | reserve, create, start, watch, remove, finish, reconcile; gates of report, comparison and verdict | a command runs once, and what counts as passed was observed |
| findings (`findings.py`) | append-only histories with revisions, correction sets | create, update, ingest, pin, settle | a finding is closed by what was verified on its snapshot |
| channel and outbox (`events.py`, `channel.py`, `webhook.py`, `work_notifications.py`) | event rows with owner, sent and acknowledged; a pump per session | enqueue, pump, mark, acknowledge, observe, adopt | no event is slept over; what is marked was sent to its owner |
| result receipts (`receipts.py`) | one claim per result | claim, complete, view | an effect is authorized once |
| watchdog (`watchdog.py`) | tickets, a timer, a marker file | probe, arm, renew, expire, close | who was told of a guard has one |
| automation budget (`automation_budget.py`) | a grant and its admissions | authorize, extend, disable, admit | what runs was admitted; the ceiling is passed by races of reviews only |
| decisions (`decisions.py`) | a policy, consultations, recorded decisions | set policy, prepare, record, reply | a brief answers only what it may, once, and its record is true |
| model routing (`model_routing.py`, `model_routing_state.py`, `jev_client.py`) | one journal row per task | claim, probe, reserve, send, finish | the journal never denies what was sent |
| migration (`migration.py`) | a store in use, the project's own store, copied histories | lock, read, choose, copy, commit | what is imported is whole |
| the rest | none of its own | validation, rendering, bootstrap, desktop client, focus, artifacts, exchange of evidence | |

How they interact: an agent's `tandem_work` call goes through work access and
becomes commands of the store; the supervisor polls the store for ready steps,
reserves an attempt, prepares a working copy, has an adapter run a provider
process with a credential of that attempt, and reports the outcome as another
command. A native task is a row that a server admits and runs in a thread; the
worker's questions come back as calls into the same server and are answered
through rows by any server, or from a brief. Team and review runs launch native
tasks and watch their rows; the budget is asked before anything is launched.
Whatever changes may leave an event in the outbox of the session that asked for
it, and a client that sleeps instead of polling leans on the watchdog.

Hard behaviours: every participant may repeat or abandon a call; a supervisor
dies while provider processes live; a server dies while its native process
lives; results arrive after a fence; deadlines pass between two looks; a grant
is shared by parallel attempts; a plan changes under running work; people and
models edit files while they are read; Docker and Git act outside of every
transaction.

## Modules

| module | models | kind |
|---|---|---|
| `WorkItems` | one card of the work store | state machine; one action per transaction |
| `WorkItemsProofs` | | types and anchors of `WorkItems`: inductive invariant, five theorems |
| `WorkHistoryProofs` | | the history of a card: what is accepted, ended and frozen, the authority of what is published, and what a grant pays for |
| `ClaimRecovery` | the binding of one manual claim, its recovery and its successors | state machine with restarts |
| `OperationLog` | what the store promises of commands | abstract specification |
| `WorkReceipts` | `_perform_command`, its receipts, and callers that retry | state machine, implements `OperationLog` |
| `WorkReceiptsProofs` | | commands with their refinement; `WorkAccess`, `ClaimRecovery`, `WorkAdapters` |
| `WorkAccess` | claims and submissions of a session on one step | state machine with the death of the session |
| `WorkSupervisor` | the controller, its threads and processes, the operator's commands | state machine with crashes and fairness |
| `WorkSupervisorProofs` | | the controller's executions |
| `WorkAdapters` | one attempt and its execution | state machine with failures at every call |
| `WorkWorkspace` | one working copy from its preparation to its removal | state machine with deaths, edits without a lock |
| `WorkApplication` | apply and assess against a checkout in use | state machine with deaths |
| `NativeTasks` | native turns run by several servers | state machine with crashes and fairness |
| `NativeTasksProofs` | | the locks and the answers of native turns |
| `TeamRuns` | one team run: its controller, callers and turns | state machine with crashes and fairness |
| `TeamRunsProofs` | | what a team run may say and when it may end |
| `ReviewRuns` | one review run: driver, child, callers, other servers | state machine with crashes and fairness |
| `ReviewCapture` | the capture of one snapshot and its assessment | state machine |
| `ReviewChecks` | the checks of one review attempt | state machine with lost requests and deaths |
| `ReviewFindings` | findings, corrective reviews and correction sets | state machine |
| `EventOutbox` | the outbox and the pumps of its sessions | state machine with failing writes |
| `ResultReceipts` | the claims on one result | state machine with lost answers |
| `Watchdog` | session, servers, hooks and timer | state machine with restarts |
| `AutomationBudget` | grants and admissions | state machine |
| `BriefDecisions` | one question and the brief that may answer it | state machine |
| `ModelRouting` | one observation and its journal row | state machine with deaths |
| `LegacyMigration` | the import from a store that is in use | state machine with deaths of both sides |
| `ReviewProofs` | | `ReviewRuns`, `ReviewCapture`, `ReviewChecks`, `ReviewFindings`, `LegacyMigration` |
| `PartsProofs` | | `ResultReceipts`, `BriefDecisions`, `ModelRouting`, `AutomationBudget`, `WorkWorkspace`, `Watchdog`, `EventOutbox`, `WorkApplication` |
| `MCWorkItems`, `MCTeamRuns`, `MCNativeTasks`, `MCWorkSupervisor` | | the values TLC gives the constants of one module |
| `MCWorkParts`, `MCParts`, `MCReviews`, `MCEnds` | | several modules in one run, side by side |

Most modules share no state: where one component calls another, the callee's
answers are choices in the caller's module, those the callee's own module
allows. The four `MC` modules of the last row therefore
check their components side by side: `part` names, from the initial state on,
the component that runs, and the others stay in an initial state of theirs.
This says nothing of interactions; it only lets one run of TLC ask several
questions. What composes for real is inside the modules: cards, attempts and
grants in `WorkItems`; controller, store rows and operator in `WorkSupervisor`;
servers, turns and questions in `NativeTasks`; run, turns and owners in
`TeamRuns` and `ReviewRuns`; checks, verdicts and fences in `ReviewChecks`.

### WorkItems

`card` is the card document, `attempts` the attempt rows. Every command of the
store runs in one `BEGIN IMMEDIATE` transaction that loads the card, changes it,
and ends in `_record`, which derives the state of every step and of the card
(`_refresh`) before saving; so each action is one transaction and each applies
`Record`. Actions are named after the handlers: `Propose`, `Agree`, `Claim`,
`Submit`, `Report`, `Decide`, `Reserve`, `Started`, `FinishAttempt`, `Expire`,
`RecoverOwner`, `ConfirmStopped`, `Reconcile`, `TransitionBegin`/`Resolve`/
`Activate`/`Withdraw`, `Cancel` and so on.

Left out or simplified: texts, commits, workspaces and checkpoints (a submission
is named by the attempt that made it); one open blocker per author and place;
time is a flag that an attempt's or the grant's deadline is over; `allow_work`
is granted; refusals of the automation budget, of review coverage and of review
checks are commands that do not happen; heartbeat and link do not change what
the properties are about; the blocker a shell-review policy adds is not modelled.

### ClaimRecovery

A claim made by hand is bound to the principal, host and native turn that made
it. `RetryClaim` is the claimant fetching its credential again, `RecoverClaim`
anyone who asks for it: the host itself after a restart, a session of the same
host once the turn's process was seen to end, or the one the operator named in
`AuthorizeSuccessor`, for the claim's context as it was then. `ReplayRecovery`
is an exact retry. `Acts`, `Delegated` say who may submit, compare and close
under the credential. Turns fail, complete and leave stray processes; hosts
restart. One claim on a host `Home`; everything that must not have changed in it
is one number.

Two details that the model shows and a reader may not expect: the descriptor of a
claim of a turn that failed says `requires_stop_confirmation` is false once the
attempt was settled, while `_recover` keeps refusing with
`recovery_stop_unconfirmed` until the stop is confirmed; and a claim of a turn
that completed is never settled at all.

### WorkReceipts and OperationLog

A caller reads the revision, sends a command with an identifier, and waits. The
answer may be late or never come; the caller repeats it exactly, or uses the
identifier again on a newer revision. `Execute` is `_perform_command`: the
receipt is looked up first, a receipt with another fingerprint is a misuse, the
revision is compared, and the change and the receipt commit together. `Crash`
drops a call before or after its commit. `OperationLog` is the promise: a
command takes effect on the revision it names, once. The change of the card's
own gates (`Change`) includes the expiry that any command performs first
(`_maintenance`).

### WorkAccess

One step, its attempts (`held`), the session's credentials (`keptClaim`) and two
concurrent calls. A manual submission is `BeginSubmission`, `BindCaller`,
`AdoptOutput`, `Preflight`, `ValidateCopy`, `RecordIntent` (or
`ReplaySubmission`, `RefuseSubmission`), `StartOutput`, `FinishOutput` or
`PreserveOutput`: the steps of `perform_work` between two transactions. A managed
one records the intent only and `SuperviseFinish` is its supervisor. `FenceClaim`
and `SessionDies` may come anywhere. `AdoptOutput` keeps the commit before the
intent is recorded (`_retain`), so a submission that is refused afterwards has
already bound the attempt to its commit: the next one must name the same.

### WorkSupervisor

The loop of `run` is split at the points where another process can act: recover
each dead owner, check for a stop, pause cards one compare-and-swap at a time,
reap threads, launch, publish the status, decide to leave. Each execution thread
is `_run_attempt` split the same way. `live` holds the provider processes, which
survive a crash of the controller (`Crash`). Operator commands of `work_daemon`
that take several steps (reconcile: check the status file, attest, dispose) are
several actions.

Simplified: a card has one assignment at a time and a number of them complete
it; the grant is open, spent or revoked; `once` and a single `work_id` are left
out. `HonestOperator` says whether the operator attests only stops that
happened.

### WorkAdapters

`handle` is the `WorkHandle`, `worker` the execution: its leader, what else of
its group lives, what it said and spent. Preparation (`RefusePreparation`,
`PinSnapshot`, `CaptureBlocked`, `NothingToPin`, `MarkAttempt`, `BlockCapture`)
is `_prepare`; a native execution is bound and run (`BindNative`, `RunNative`,
`AcknowledgeNative`, `StopLost`), one of the CLI recorded and spawned
(`RecordClaudeStart`, `SpawnClaude`). The `Poll...` actions are `poll` of both
adapters, `CancelExecution`, `Cleanup` and `CloseAdapter` the three ways to tear
down. A process that leaves its process group is not followed.

### WorkWorkspace and WorkApplication

In `WorkWorkspace` the lock of the working copies is held by whoever scans
(`copyScan`); a model and what is left of it edit without it. A capture is
`BeginFinish` or `BeginPreserve`, one `ScanFile` per file, `EndCopyScan`, one
`RescanFile` per file, `Promote` (the reference) and `Record` (the store), and
`Die` may cut it anywhere. `SubmitManually` adopts a commit made by hand. Cleanup
is `ReadStates`, `LookAtCopy`, `RemoveCopy`. A file that is written away and back
between its two readings is not noticed, which the property allows for. `cleanup`
also removes a copy in which `git status` itself fails; that is not modelled.

In `WorkApplication` an operator's `apply` is `BeginApply`, `CheckProject`,
`MergeResult` (external: `git merge --ff-only`), `RecordReceipt`, and `assess` is
`ObserveHead`, `RecordAssessment`; `WorkInProject` commits, resets and edits the
checkout between any two of them. A completed card is final, so its result is
one commit.

### NativeTasks

A turn is a row, a thread, a native process, a conversation lock and a worker
slot. Admission (`Start`) checks the continuation and the ownership of files in
one transaction; the thread (`Launch`, `Spawn`, `Ready`, `EndTurn`, `Stop`,
`Finish`, `Fail`, `Release`) is `_run` and `NativeWorker.execute`; `Ask`, `Poll`,
`Report`, `Reply`, `Cancel` are `TaskInteraction`; `Refresh` is what any `get`
does to an overdue question; `Recover` is the recovery that any server runs.
`independent` are the turns in an independent stage, which the code looks up each
time it asks (`WorkStore.stage_attempt`): a turn enters it when it claims a review
(`ClaimReview`), leaves it when its own report is in and the comparison is opened
(`OpenComparison`), or when the claim ends (`EndReview`). `Ask`, `Poll` and `Reply`
look at it in the transaction that acts on it; `RequireSnapshot` is what becomes of
a question of an independent turn, one that was answered before included. `Fail` is
the database failing outside of the guarded part of `execute`, at its first write or
at its last: the row stays active and the locks held until the server exits.
`Crash` kills a server: its threads end and the kernel releases its locks, its
processes may go on as strays.

Simplified: a conversation's mode, files and recorded stage never change; of a claim
only what it discloses is kept, and `Claiming` says whose turns may have one; one
lane of slots; the deadline of a turn, or of a question, may be over whenever the
code looks; reservations of team runs, review runs and managed attempts are granted.

### TeamRuns

`run` and `step` are the rows of `team_runs` and `team_steps`, `task` what the
row and the thread of a step's native turn tell. Everything the owner does is
done under its guard, in steps between which the turns go on: `guard` says
whether the holder is flushing a stop, refreshing rows, dispatching, waiting for
an admission or recording a launch, and which steps it has still to visit.
`Start`, `Cancel`, `Assign` and `RequestClose`/`CloseStop`/`Closed` are calls;
`SelectBegin`, `SelectEnd`, `SelectFails`, `Advance`, `RefreshStep`, `Consider`,
`Reserve` and the rest are the controller; `Stop` followed by `FlushStep` is
`_stop` and `_flush_stop`; `Admit`, `AdmitBusy` and `AdmitFails` are the three
answers of the task store. `LoopFails` is an error outside the handler of a single
run: the controller then stops the run, waits for it and gives up the lease while
the server goes on. `Recover` is another server that finds the lease free.

Simplified: a native turn is reduced to its status, its report, whether it was
told to stop and whether it runs, moving as in `NativeTasks`; conflicts of files,
other runs and full slots are reasons to put a launch off, which may happen at
any time; a model is had or not; the loop of an owner without runs is not shown.
The deadline may be over whenever the code looks. After a failed loop the stop
itself succeeds.

### ReviewRuns

`run` is the row, `stage` what is saved of its two stages, `child` the capture
process, `lock` the publication lock and `memory` what the owner has decided but
not yet saved: the child and other servers wait for the lock and hold it over
several steps, the owner only tries it. The driver's steps (`Driver`) start and
collect the child, reserve, admit and record a stage, read its turn, choose the
next phase and flush a stop; `Callers` start, cancel, reply and shut down;
`Others` are failing steps and loops, the owner's death, another server's lock
and recovery, and time.

### ReviewCapture

`project` is the work tree, the index and the commits, which `Edit`, `StageFile`
and `Commit` change between any two reads. `Identify`, `ReadIndex`, `Select`,
`ReadTree`, one `Scan` per file, `EndScan`, `Compare`, one `Rescan` per file and
`Seal` are `_capture`; `Again` is its retry, three times at most. `middle` keeps
the project as it was when the first scan ended, which is the moment a snapshot
of the work tree is shown to be of. A file carries the change that wrote it last,
which stands for its time stamps; `StampOf` is what a read sees of it, and a file
that is absent has none, so that one created and deleted again between its two
readings goes unnoticed: `SnapshotIsTrue` excepts exactly that file
(`DeletedAgain`). `Assessment` is the later comparison of a
snapshot with the project.

### ReviewChecks

`ledger` holds the rows, `docker` the containers as they are, `verifier` the
thread that walks from check to check. A container is created and started by
requests that may be lost, refused, or arrive late (`ArriveLate`); its end is
seen by polling. `Report`, `CompareChecks`, `Accept`, `Reject`, `BlockReview` are
the gates of the model's answers, `FinishReview`, `GiveUpWaiting` the
supervisor's, and `FenceReview`, `PauseReview`, `ReviewExpires`,
`SupervisorDies` what may come between.

### ReviewFindings

A finding is the sequence of its entries. `RequestReview` checks the declaration
of a corrective review, `PublishReview` checks it again in the transaction that
publishes; turns of the snapshot `Update` findings or have them ingested from
their result (`Ingest`); `Pin` fixes a correction set, `IsSettled` is its
decision.

### EventOutbox

`events` are the rows, named by the session that made them; `channel` is a
session's pump: confirmed or not, woken or not, waiting, reading, sending,
marking. A producer commits and then signals (`Signal`), which a pump about to
wait must not miss. `Adopt`, `AdoptEvent` move rows between sessions. Events of
work cards are not enqueued where the owner has its fill; the next poll offers
them again. After `MaxTroubles` nothing fails any more.

### ResultReceipts, AutomationBudget

A result is claimed under an owner's name with a token; `ForgetToken` loses the
answer. `EffectsAreAuthorizedOnce` counts applications.

In the budget a task, step or attempt is admitted in one transaction
(`StartUnit`, which may spend and then not begin); a review in three
statements (`ReadBudget`, `InsertAdmission`, `CountAdmission`) and a start
(`StartReview`, `LoseReview`). Two things follow and are stated rather than
hidden: servers may together pass the ceiling by one review each, and a team
step that was put off spends another admission at each try, under a new identity
(bridge.py:304). `close` is never called, so a grant that admitted anything is
never replaced but only extended or disabled.

### BriefDecisions, ModelRouting, LegacyMigration, Watchdog

`BriefDecisions`: a task's question, the policy, a consultation and the decision
recorded from it. `ReplyDecision` and `RecordRefusal` are the two transactions of
a coordinator's reply, the operator's reply and the deadline fall between them.

`ModelRouting`: one observer from `ClaimRouting` to `StartWorker`, with the
catalog probe, the reservation of a request, its sending and its answer;
cancellation, two deadlines and the loss of the server may come at any step.
`SendState` and `ViewStatus` are what the view tells. A task that is cancelled or
late leaves its reservation unresolved, and the view calls it pending until the
task has ended (`EndTask`); `PendingIsOpen` names this and the other two cases in
which an observation that is over is still told to be pending.

`LegacyMigration`: legacy servers take turns, write histories, settle and die;
the new one locks each settled conversation, reads once, computes the components
of linked ones and imports each component whole or not at all, histories first.
Links stand for references to artifacts; shared contexts and histories link in
the same way and are left out, as are checks of paths and checksums.

`Watchdog`: a session's marker file, successive servers, hook processes. A hook
asks with its tickets (`Look`, `ReadReply`), and the server arms a timer for it
(`Arm`, `AwaitReady`). `attested` records whom a client was told of in an
answer. Time is far, near or past a deadline. An initial state has one or two
servers, in the first or the last start of the session, and the first server may
have been confirmed by a probe already; `MaxRenewals` bounds the later servers
and starts together.

## Runs

| run | instance | shows |
|---|---|---|
| `work_manual` | a plan of two serial steps and one of the final step alone, manual work, blockers, a change of plan | what is accepted was reviewed, two writers never share a step, a change of plan leaves nothing of the old one running, and what is over stays over |
| `work_parallel` | two parallel steps before a final one, launched under two successive grants with known, unknown and missing costs; beside it the four modules around a claim | the account of a grant is exact and its ceiling holds in the worst case, publication needs authority, no step is stranded; reports, submissions, recoveries and applications are what they claim to be |
| `supervisor` | one card of two assignments, two successive controllers, every operator command | one execution of a card, stops and fences take effect |
| `supervisor_stop` | two cards, one cancelled, a stop | expected violation, see Findings |
| `reconcile_race` | one card, an attestation of what did not happen | expected violation |
| `tasks` | two conversations that edit one file and whose turns may claim reviews, one that reads in an independent stage; two turns, one question each, one crash | the locks and the answers of native turns |
| `ends` | two turns of a conversation, a chain of two steps, or a review run | everything that was started ends |
| `team` | two parallel steps and a final one that takes partial reports, two at a time | launches, outcome and end of a team run |
| `reviews` | a review run, a capture, the checks of a review, findings, or the outbox | each component of a review under its own faults |
| `commit_race` | a capture of a branch that moves | expected violation |
| `parts` | command receipts, result receipts, a working copy, a brief decision, a routing, a migration, a watchdog, or a budget | each of the smaller components under its own faults |
| `cleanup_loss` | a working copy with edits git does not report | expected violation |

`work_manual` runs `ManualSpec`, the steps of a card that no operator ever
authorizes: there `Authorize`, `Reserve`, `GrantElapses` and `RecoverOwner` can
never happen, and `work_parallel` has them all. Its constraint `ThirdIsFinal`
admits a third attempt only as long as the plan in force and the one proposed
are the final step alone. In runs that hold several components side by side,
TLC reports the coverage of an action at the lines of the action, not at the
disjunct of the composition.

Why the bounds are enough: two plan revisions are one change of plan; a third
attempt is one that follows a rejected or fenced pair (an implementation and its
review); two grants are one replaced; two owners are one dead and one
recovering; two turns of a conversation are a turn and its continuation; two
conversations with the same file are the conflict; two servers are one that
looks while the other works; a fault is one step that fails, and `MaxFaults`,
`MaxTroubles`, `MaxCrashes` bound how many do. The code compares with one
predecessor, never further back. `Costs` has one positive value, since only sums
against limits matter, and the limits are chosen so that two attempts reach them
and three pass them. `ActiveLimit` is small in `work_parallel` so that the limit
refuses something. `ends` is smaller than `tasks` and `team` because liveness
costs more; its turns claim no reviews. `tasks` permutes its two editing
conversations, and `team` its two parallel steps, which the plan treats alike.
Where a theorem exists the bound no longer matters for its property.

`CHECK_DEADLOCK FALSE` stands in every configuration: a completed card, a
stopped controller and a project without turns are rest states.

### Fairness

`WorkSupervisor`: weak fairness of the controller's loop and of each execution
thread, which are Python threads that are scheduled while the process lives. No
fairness for provider processes, for the operator, nor for starting a
controller; `StopEnds` and `FencedEnds` hold because `adapter.cancel` kills the
process and waits for it.

`NativeTasks`: weak fairness of each turn's thread; of the end of a turn, since
its deadline ends it if nothing else does; and of recovery, since every start of
a server and every read of a task runs it. No fairness for answers: a question
nobody answers expires.

`TeamRuns`: weak fairness of the controller, of the holder of the guard and of
the answers of the task store, which are one thread at a time; strong fairness
of the visit of a stopped step, since a row that cannot be read is read again in
the next pass, every 50 ms; of time and of the end of a turn, which has a
deadline; of a server that began to close; and of another server's look at the
run of a dead owner, without which nobody would know the run is active. Nothing
is assumed of callers: models may never be agreed on, and then the deadline ends
the run.

`ReviewRuns`: strong fairness of what goes on by itself (`Resolved`: the driver's
loop, the flush of a stop, the child's publication or failure, recovery), since
each of them tries again when the publication lock was taken or a write failed;
weak fairness of another server's release of that lock, of time, of the end of a
turn, of the end of `close()`, and of the owner's recovery of its own run after a
restart.

`ends` combines the last three: since `part` never changes, fairness of a
disjunction of steps of different parts is fairness of each.

## Findings

`supervisor_stop`: the help of `stop` says it pauses owned tasks and stops the
controller. `_pause_owned` (work_supervisor.py:302) skips cards that are paused or
completed but not cancelled ones, so it tries to pause a cancelled card; the
store refuses with an error that is not `WorkConflict`, which ends the pass and
the loop. The cards after it keep their grants. `StopPausesOwned` is violated by
a cancel followed by a stop.

`reconcile_race`: `reconcile` refuses attempts that the running controller owns,
but learns which from the status file (work_daemon.py:525), which the controller
writes at the end of each turn of its loop. An attempt launched since then is not
in it, and the operator's attestation that it stopped is recorded while the
controller runs it. `AttestationRespectsOwner` is violated by that interleaving.

`commit_race`: a review of a commit resolves the name it was given once for the
tree it reads and again for the manifest (reviews.py:996). When the name is a
branch that moves in between, the manifest names a commit whose bytes are not
those that were saved. `CommitIsExact` is violated by one move.

`cleanup_loss`: cleanup takes a copy for clean when `git status` prints nothing
(work_workspace.py:1248). Git does not report files it is told to ignore,
although a step may own them, and it compares with the copy's own HEAD, which a
model may have moved. `UncapturedIsKept` is violated by either, although the
change log says that a copy with uncaptured edits is kept.

A fifth observation has no run of its own, since it came out of a proof. The
admission of a continued conversation looks at the turns of that conversation
(`_check_continuation`, task_runtime.py:610) and at the rows that are active
(`check_admission`, task_store.py:413). Let turn 1 of a conversation end, and
turn 2 continue it afresh in another conversation; turn 2's server dies, its row
is recovered, and its process goes on as a stray. A third turn, of the first
conversation again, is then admitted, although it may edit beside the stray that
continues the same work. `tasks` has two turns and cannot show it; the attempt to
prove `ConversationsAreSerial` for any number of turns did. The property
therefore excludes exactly this case and says so.

## Proofs

TLC answers for the instances above; the theorems below hold for every value of
the constants that satisfies the assumptions named in the modules (`ASSUME`).
Those only say what the code's own validation says (a step's owner is not its
reviewer, a plan depends on its own steps, limits are numbers) or what a
constant stands for (`Owned` and `Foreign` files are different, the servers and
the requests are finitely many and `"unit"` is none of them). TLC evaluates every
one of them on every run.

The pattern is the same everywhere: a safety property is seldom inductive, so an
invariant is found that is, TLC checks it on the instance of a run, and then
three facts are proved (it holds initially, every action keeps it, it implies
the property). Actions are not treated one by one where they have one shape: a
lemma says what a step of that shape keeps, and each action is shown to be of a
shape. Assumed of a schedule is nothing: all of these are safety properties and
hold without fairness.

**`WorkItemsProofs`: who may run.** The invariant `Sound` types the card and the
rows (`Typed`), says that an active or uncertain attempt is anchored in the step
it was launched for, in the card's current plan (`Anchored`), that a step that
awaits an attempt names an outstanding one (`Awaited`), and that a reconciled
attempt was attested to be gone. `CardIsSound` is the invariant; `TypeCorrect`,
`OutstandingAnchored`, `StepsNotStranded` and `OneWriter` are `TypeOK`,
`OutstandingIsAnchored`, `NoStrandedStep` and `SingleWriterPerStep`. That a step
has one writer follows only from every outstanding attempt being named by its
step, which in turn needs the plan transition to refuse activation over
outstanding attempts. `RecordSound` shows that the trailing refresh of every
command keeps all of it.

**`WorkHistoryProofs`: what was accepted.** `History` adds to `Sound` that each
submission is the published output of its owner's attempt and each verdict a
settled review of that output (`Earned`), that a begun transition has fenced
what it must (`Frozen`) and that a card that is over has nothing outstanding
(`Ended`). `NextKind` sorts every command into one of a few kinds. From it come
`OutputsAreEarned` (`AcceptanceIsEarned`), `StoppedCardsAreQuiet`
(`StoppedIsQuiet`) and the action property `HistoryIsKept` (`HistoryStands`).

What was published is proved from the same invariants. The store checks an
attempt's own authority when it publishes, but not the agreements again.
`Consenting` (whoever runs was launched by agreement, and a draft is not agreed)
closes that gap: `PublicationIsAuthorized` is `PublicationNeedsAuthority`.

What a grant pays for is proved in the same module. `Ledger` adds to `Sound` that
what the grant has used is the sum over its settled attempts (`Metered`), that
its launches are the number of attempts it launched (`Granted`), that an attempt
whose cost is open can still be booked, once (`Booked`, `Pending`), and that an
unknown cost is remembered as such. Each command is one of four kinds for the
books: it leaves them alone, begins a grant nobody was launched under, launches
an attempt or ends one (`BooksKept`, `BooksOpened`, `BooksReserve`, `BooksCharge`).
How a sum changes when one attempt joins a set, or changes its amount, is proved
by induction over the sizes of finite sets, stated for a set of sizes and proved
from the least size outside it; an operator as parameter is not needed for that.
`UsageExact` has no hypothesis beyond the constants. `GrantKept` is `GrantIsKept`
under `EnvelopesHold`: the cost that is reported at the end of an attempt is at
most what was set aside for it. `finish_attempt` books what it is told, so that
nothing in the code makes that true; it is a promise of the provider, and without
it the ceiling can be passed by the excess of what was already launched.

**`WorkReceiptsProofs`: commands.** `IInv` relates the bases of calls and answers
to the revision, and says that of a caller's identifiers only the current one can
still take effect. `MadeOnce` is `ChangeMadeOnce`; `ImplementsLog` is the
refinement, step by step, of `OperationLog`; `FatesAreSettled` and
`AnswersAreTrue` are `FateIsSettled` and `AnswerIsTruth`.

The same module has what surrounds the commands.

- `SubmissionsWhole` (`SubmissionsAreWhole`): a call keeps its own commit once it
  has resolved it, and is past a step of `perform_work` only when the store holds
  what that step wrote (`CallIsTrue`); an attempt has one intent, and what is kept
  and completed of a manual one is of that intent (`AttemptIsWhole`). What is
  recorded of a manual attempt is only added to, so that a call that slept over
  another's steps still finds what it relies on.
- `RecoveriesAuthorized` (`RecoveriesAreAuthorized`): each recovery is founded on
  an authorization that has been consumed by it and by no other (`Founded`), and
  a confirmed settlement implies that the turn's process is gone.
- `ReportsEarned` (`ReportsAreEarned`): nothing runs before its start is recorded,
  and what runs is not reaped (`LaunchIsTrue`, `WorkerIsTrue`); a report is
  written in the step that finds the execution stopped, so that nothing it was
  earned by can change afterwards (`AnswerIsTrue`).

**`WorkSupervisorProofs`: executions.** `ExecutionsSound` proves
`ExecutionsAreSound` for any number of cards, attempts, controllers and crashes,
under `HonestOperator`: an operator vouches only for stops that happened. The
code takes the operator's word as it is, and for a mistaken one the property
would be false; that case is the run `reconcile_race`.

**`NativeTasksProofs`: turns.** A thread keeps its slot and its leases from
admission until it knows its process gone (`Held`), so whoever takes a free lease
finds only processes whose server died; a row that says completed has no process
(`Won`); a row has one question under way and only while it waits (`Asked`); two
turns of a conversation are apart (`Serial`, `Apart`). A question's answer says
what its state was last, and stays when the turn is told to ask for a snapshot
instead (`Kept`, `Settled`). `LocksSound` is `LocksAreSound`, `ToldStanding` the
action property `ToldStands`, with the one exception it states: an answer is set
aside when its turn became independent before its call read it.

**`TeamRunsProofs`: team runs.** What a step says of an ended turn is what its row
says (`Turns`); whoever passes over an active run holds the guard, so that one
reservation at most is open (`Guarded`); a step is busy as long as its turn runs,
so that a flush cannot miss it (`Quiet`). `RunEarned` is `RunIsEarned`,
`EndStanding` the action property `EndStands`.

**`ReviewProofs`: reviews.** For a run: whoever decides holds the guard of the
project, and what the capture child still has to say is about the first phase
(`Owned`, `Captured`); a stage was launched once, by a reservation of a mapped
run, and what is saved of it is what its task ended with (`Launched`,
`ResultIsTrue`). Every step either leaves the rows and the tasks alone, lets them
go on, or is one of five that are treated singly. `StagesEarned` is
`StagesAreEarned`, `EndIsFinal` the action property `EndedStaysEnded`. For a
snapshot: every file that is there carries the change that wrote it last, so a
second reading with the stamp of the first is of the same file, and everything read
was so when the first scan ended (`Scans`, `Middle`, `Agreed`). Of a file that was
absent at both readings the invariant says no more than the property does: absent
at that moment too, or written since. `SnapshotTrue` is `SnapshotIsTrue`.

For checks: whatever of a container or of a request for one may exist belongs to
the check the verifier is at, unless it is known to be gone (`VerifierAlone`), and
where the verifier is says what it knows of it (`WorkIsTrue`). `ChecksSound` is
`ChecksAreSound`. For findings: a history only grows, and an entry rests on the
entries before it, on turns that keep what they are bound to and on snapshots that
never change (`HistoryHolds`: `Signed`, `ResolutionRests`, `ClosedAfter`).
`FindingsEarned` is `FindingsAreEarned`. For the import of conversations: what was
read under the migration's locks stays as it was read (`HeldStill`), a component
is chosen closed under its references (`Follows`) and copied where nobody else's
copy is (`CopyIsOwn`). `ImportsWhole` is `ImportsAreWhole`.

**`PartsProofs`: components without shared state.**

- `EffectsOnce`: the claim on a result is one (`ClaimIsOne`).
- `BriefAnswersFounded`: a question is closed once, and by a brief only on its
  own consultation.
- `RoutingTold`: the journal's row is never behind what was done; an observation is
  over because an outcome was written, its task was interrupted after the
  reservation, or its thread died (`OverAs`).
- `GrantCeiling`: the sums of a ledger. Beside every grant's spend the invariant
  keeps the admissions it paid for (`Promised`) and the starts of review runs that
  were checked and not yet counted (`Uncounted`), at most one of each server;
  spend and admissions agree by the cardinality of these finite sets.
- `WorkSaved`: two scans that agree bracket a moment, so that a file that was not
  then what was saved was edited before it and back before its second reading.
- `GuardStanding`: whoever was superseded as owner of the session stays so, a
  ticket is never issued twice, and a hook that said it is ready leaves quietly
  only when it was released.
- `EventsArrive`: what a pump has read, as long as nobody owes it a signal, is all
  its session has to be told (`Informed`), in each of the four places it can be at.
- `ApplicationsTrue`: at most one operator is about to merge (`MergesAlone`), and
  the checkout is then where that operator said, unless someone works in it.

## Only model-checked

Liveness (`StopEnds`, `FencedEnds`, `EveryTaskEnds`, `RunEnds`, `ReviewEnds`):
the proof system treats neither fairness nor `ENABLED`. The expected violations,
of course. Every other property of a passing run is a theorem.

## Not modelled, and what is left

Validation and rendering (`models.py`, `acceptance.py`, `task_results.py`,
`presentation.py`, `prompts.py`), provider and MCP protocols beyond what the
modules rely on (`api.py`, `bridge.py`), desktop QA, focus and artifacts
(`desktop.py`, `focus*.py`, `artifacts.py`), the exchange of evidence between
devices, bootstrap and diagnostics: they keep no state of their own or only
files that nobody else writes. `project_context` is a single optimistic update.

Some exits of modelled operations are left out as well, none of which a property
turns on. `TeamRuns`: an exception after the task store admitted a turn
(team_runs.py:1024) and a controller thread that cannot start (team_runs.py:313).
`ReviewRuns`: an admitted stage whose run is not yet marked running because the
publication is busy (review_runs.py:964), the stop of a stage whose reservation has no row
(review_runs.py:982), and a capture child that dies between publishing and
reporting (capture_worker.py:46). In `WorkApplication` nothing but the mutant loses
the edits of people in the checkout: `git merge --ff-only` refuses to.

Of the hazards one has no property: a failing team controller that cannot read
the runs it should stop leaves them active (`team_runs.py:1244`); the model
bounds it by the recovery of another server.
