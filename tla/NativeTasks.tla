----------------------------- MODULE NativeTasks -----------------------------
(***************************************************************************)
(* Native OMP turns of one project: TaskStore, TaskRuntime, NativeWorker   *)
(* and TaskInteraction, run by several MCP servers that share the task     *)
(* database and the kernel locks beside it.                                *)
(*                                                                         *)
(* A turn is a row of the database, a thread of the server that admitted   *)
(* it, a native process, a lease on its conversation (flock) and a worker  *)
(* slot (flock).  A server may die at any step: its threads end, its locks *)
(* are released by the kernel and its native processes may outlive it.     *)
(*                                                                         *)
(* Abstractions.  A conversation's mode, files and recorded review stage   *)
(* never change, so they are constants; the claims of reviews that bind a  *)
(* turn come and go, and are seen by what they disclose.  A server is the  *)
(* turns whose threads it runs.  One lane of worker slots.  The deadline   *)
(* of a turn, or of a question, may be over whenever the code looks at it, *)
(* for whoever finds it so writes it down or refuses.  A turn has one call *)
(* of ask under way at a time.  The refusals of _prepare that read the     *)
(* request alone are requests that are not made; reservations of team and  *)
(* review runs and managed attempts are taken as granted.  A server that   *)
(* shuts down cancels its tasks and dies.                                  *)
(***************************************************************************)
EXTENDS Integers, FiniteSets

CONSTANTS
  Conversation,
  WorkMode,        \* conversations in mode "work"
  Independent,     \* conversations recorded in an independent review stage
  Claiming,        \* conversations whose turns work on shared items: they may claim
                   \* reviews, and an independent one is of a managed attempt
  Owned,           \* the files each conversation owns
  SlotLimit,       \* WorkerSlots.LIMITS of the lane
  MaxTasks,        \* bound: turns that are ever admitted
  MaxQuestions,    \* bound: questions of one turn
  MaxCrashes       \* bound: servers that die with turns under way

None == 0

ASSUME ConversationAssumption ==
  /\ None \notin Conversation
  /\ {WorkMode, Independent, Claiming} \subseteq SUBSET Conversation
  /\ DOMAIN Owned = Conversation

ASSUME BoundsAssumption ==
  /\ SlotLimit \in Nat /\ MaxTasks \in Nat /\ MaxQuestions \in Nat /\ MaxCrashes \in Nat

Task == 1..MaxTasks
Question == 1..MaxQuestions

ACTIVE == {"starting", "running", "waiting_input", "cancelling"}
Terminal == {"completed", "failed", "cancelled", "interrupted"}
Unresolved == {"context_required", "expired", "decision_unresolved"}

VARIABLES
  task,        \* rows of tasks: conversation, source, status, cancel, report
  question,    \* rows of questions: state and answer
  independent, \* turns under way in an independent stage: by the live claim of a
               \* review that binds it, the most restrictive one, or else as recorded
  thread,      \* the worker thread of each turn: pc, verdict
  asking,      \* the question the turn's tandem_ask waits for
  process,     \* the native process of each turn
  lease,       \* the turn that holds each conversation's lock
  slots,       \* turns that hold a worker slot
  crashes

rows == <<task, question>>
locks == <<lease, slots>>
vars == <<task, question, independent, thread, asking, process, lease, slots, crashes>>

Turns(c) == {t \in Task : task[t].conversation = c /\ task[t].status # "none"}
Running(t) == task[t].status = "running" /\ ~task[t].cancel
Pending(t) == {q \in Question : question[t][q].state = "pending"}

Init ==
  /\ task = [t \in Task |-> [conversation |-> None, source |-> None, status |-> "none",
                             cancel |-> FALSE, report |-> "none"]]
  /\ question = [t \in Task |-> [q \in Question |->
                   [state |-> "none", answer |-> "none"]]]
  /\ independent = {}
  /\ thread = [t \in Task |-> [pc |-> "none", verdict |-> "failed"]]
  /\ asking = [t \in Task |-> None]
  /\ process = [t \in Task |-> "none"]
  /\ lease = [c \in Conversation |-> None] /\ slots = {}
  /\ crashes = 0

\* Mutant: every question of the row is closed, answered ones too.
CloseAll(t, state) ==
  [question EXCEPT ![t] = [q \in Question |->
     IF question[t][q].state = "none" THEN question[t][q]
     ELSE [question[t][q] EXCEPT !.state = state]]]

\* The pending questions of a row take another state.
Close(t, state) ==
  [question EXCEPT ![t] = [q \in Question |->
     IF q \in Pending(t) THEN [question[t][q] EXCEPT !.state = state] ELSE question[t][q]]]

-----------------------------------------------------------------------------
(* Admission: TaskRuntime.start under the conversation leases.             *)

\* A conversation whose work has uncertain effects does not go on.
Continuable(c) ==
  \A t \in Turns(c) :
    /\ task[t].status \in Terminal
    /\ c \in WorkMode => task[t].status = "completed"

\* Declared files are disjoint from those of every other active work turn.
FilesFree(c) ==
  c \in WorkMode =>
    \A t \in Task : task[t].status \in ACTIVE /\ task[t].conversation \in WorkMode =>
      Owned[task[t].conversation] \intersect Owned[c] = {}

\* A turn in c: the first one, the next one of a conversation with a saved
\* session, or the first one after the source it continues afresh.
Start(c, source) ==
  LET t == Cardinality({u \in Task : task[u].status # "none"}) + 1
      taken == {c} \union ({source} \ {None}) IN
  /\ t \in Task
  /\ \A d \in taken : lease[d] = None /\ Continuable(d)
  /\ IF source = None
     THEN Turns(c) # {} => \E u \in Turns(c) : process[u] # "none"
     ELSE /\ Turns(c) = {} /\ Turns(source) # {} /\ source \notin Independent
          /\ (source \in WorkMode <=> c \in WorkMode) /\ Owned[source] = Owned[c]
  /\ FilesFree(c) /\ Cardinality(slots) < SlotLimit
  /\ task' = [task EXCEPT ![t] = [@ EXCEPT !.conversation = c, !.source = source,
                                           !.status = "starting"]]
  /\ thread' = [thread EXCEPT ![t].pc = "launch"]
  /\ lease' = [d \in Conversation |-> IF d \in taken THEN t ELSE lease[d]]
  /\ slots' = slots \union {t}
  /\ independent' = IF c \in Independent THEN independent \union {t} ELSE independent
  /\ UNCHANGED <<question, asking, process, crashes>>

Released(t) == [c \in Conversation |-> IF lease[c] = t THEN None ELSE lease[c]]

\* The thread cannot start: the row fails, unless the database does too, and the
\* leases are given back.
Refuse(t) ==
  /\ thread[t].pc = "launch"
  /\ thread' = [thread EXCEPT ![t].pc = "done"]
  /\ task' \in {task, [task EXCEPT ![t].status = "failed"]}
  /\ lease' = Released(t) /\ slots' = slots \ {t}
  /\ independent' = independent \ {t}
  /\ UNCHANGED <<question, asking, process, crashes>>

-----------------------------------------------------------------------------
(* The worker thread: NativeWorker.execute.                                *)

To(t, pc, verdict) == thread' = [thread EXCEPT ![t].pc = pc, ![t].verdict = verdict]

\* The thread starts and looks at the row.
Launch(t) ==
  /\ thread[t].pc = "launch"
  /\ \/ task[t].cancel /\ To(t, "stop", "cancelled")
     \/ ~task[t].cancel /\ To(t, "stop", "failed")
     \/ ~task[t].cancel /\ To(t, "spawn", "failed")
  /\ UNCHANGED <<rows, independent, asking, process, locks, crashes>>

\* The row says running whatever a cancellation wrote since Launch looked.
Spawn(t) ==
  /\ thread[t].pc = "spawn"
  /\ task' = [task EXCEPT ![t].status = "running"]
  /\ \/ process' = [process EXCEPT ![t] = "alive"] /\ To(t, "ready", "failed")
     \/ UNCHANGED process /\ To(t, "stop", "failed")
  /\ UNCHANGED <<question, independent, asking, locks, crashes>>

Ready(t) ==
  /\ thread[t].pc = "ready"
  /\ \/ task[t].cancel /\ To(t, "stop", "cancelled")
     \/ ~task[t].cancel /\ To(t, "stop", "failed")
     \/ ~task[t].cancel /\ To(t, "turn", "failed")
  /\ UNCHANGED <<rows, independent, asking, process, locks, crashes>>

\* wait_for_turn returns or raises: a cancellation or the deadline first, a
\* provider error or a turn without an outcome, or a completed turn.
EndTurn(t) ==
  /\ thread[t].pc = "turn"
  /\ \/ task[t].cancel /\ To(t, "stop", "cancelled")
     \/ ~task[t].cancel /\ To(t, "stop", "failed")
     \/ /\ ~task[t].cancel /\ asking[t] = None
        /\ task[t].report # "none" /\ To(t, "stop", "completed")
  /\ UNCHANGED <<rows, independent, asking, process, locks, crashes>>

\* The process is stopped, or its end is not confirmed; then the last look at
\* the row: what is cancelled after it is not noticed.  An answer that cannot
\* be kept makes the turn fail.
Stop(t) ==
  /\ thread[t].pc = "stop"
  /\ \E end \in IF process[t] = "alive" THEN {"gone", "stray"} ELSE {process[t]} :
       /\ process' = [process EXCEPT ![t] = end]
       /\ \/ task[t].cancel /\ To(t, "finish", "cancelled")
          \/ ~task[t].cancel /\ end # "stray" /\ To(t, "finish", thread[t].verdict)
          \/ ~task[t].cancel /\ To(t, "finish", "failed")
  /\ UNCHANGED <<rows, independent, asking, locks, crashes>>

\* TaskStore.finish: questions, row and event in one transaction.
Finish(t) ==
  /\ thread[t].pc = "finish"
  /\ task' = [task EXCEPT ![t].status = thread[t].verdict]
  /\ question' = Close(t, "cancelled")
  /\ To(t, "release", "failed")
  /\ independent' = independent \ {t}
  /\ UNCHANGED <<asking, process, locks, crashes>>

\* The thread dies: the database fails before the work began or at the end of it.
\* The row stays as it is, and nobody gives the leases back.
Fail(t) ==
  /\ thread[t].pc \in {"launch", "finish", "release"}
  /\ thread' = [thread EXCEPT ![t].pc = "stuck"]
  /\ UNCHANGED <<rows, independent, asking, process, locks, crashes>>

\* Mutant: the leases of a process that may still run are given back.
ReleaseAlways(t) ==
  /\ thread[t].pc = "release"
  /\ thread' = [thread EXCEPT ![t].pc = "done"]
  /\ lease' = Released(t) /\ slots' = slots \ {t}
  /\ UNCHANGED <<rows, independent, asking, process, crashes>>

\* Leases are given back only when the process is known to be gone.
Release(t) ==
  /\ thread[t].pc = "release"
  /\ thread' = [thread EXCEPT ![t].pc = "done"]
  /\ IF process[t] = "stray" THEN UNCHANGED locks
     ELSE lease' = Released(t) /\ slots' = slots \ {t}
  /\ UNCHANGED <<rows, independent, asking, process, crashes>>

-----------------------------------------------------------------------------
(* The worker's callbacks: TaskInteraction, in threads of their own that   *)
(* may still be under way while the turn is wound up.                      *)

CallsBack(t) == thread[t].pc \in {"turn", "stop", "finish"}

\* The turn claims a review, which is independent first; a turn that reviews a
\* snapshot may not.
ClaimReview(t) ==
  /\ CallsBack(t) /\ task[t].conversation \in Claiming \ Independent
  /\ independent' = independent \union {t}
  /\ UNCHANGED <<rows, thread, asking, process, locks, crashes>>

\* Its own report is recorded, and the author's material is opened to it.
OpenComparison(t) ==
  /\ CallsBack(t) /\ t \in independent /\ task[t].conversation \in Claiming
  /\ independent' = independent \ {t}
  /\ UNCHANGED <<rows, thread, asking, process, locks, crashes>>

\* Its claim ends, by whoever settles it; that of a managed attempt counts for
\* ever.
EndReview(t) ==
  /\ t \in independent /\ task[t].conversation \notin Independent
  /\ independent' = independent \ {t}
  /\ UNCHANGED <<rows, thread, asking, process, locks, crashes>>

\* The turn is to end and to ask for a new snapshot; an answer stays in its column.
RequireSnapshot(t, q) ==
  /\ question' = [question EXCEPT ![t][q].state = "context_required"]
  /\ task' = [task EXCEPT ![t].status = "running"]

\* In an independent stage there is nobody to ask.
Ask(t, q) ==
  /\ CallsBack(t) /\ Running(t) /\ task[t].report = "none"
  /\ asking[t] = None /\ question[t][q].state = "none"
  /\ IF t \in independent
     THEN RequireSnapshot(t, q) /\ UNCHANGED asking
     ELSE /\ question' = [question EXCEPT ![t][q].state = "pending"]
          /\ task' = [task EXCEPT ![t].status = "waiting_input"]
          /\ asking' = [asking EXCEPT ![t] = q]
  /\ UNCHANGED <<independent, thread, process, locks, crashes>>

Expired(t, q) == [question EXCEPT ![t][q].state = "expired"]

Resumed(t) ==
  [task EXCEPT ![t].status = IF @ = "waiting_input" THEN "running" ELSE @]

\* The turn of ask's loop that ends it: with Cancelled; with the word that a
\* snapshot is required, even if an answer came before the turn became
\* independent; with the answer; or with the word that none came.
Poll(t) ==
  LET q == asking[t]
      over == task[t].cancel \/ task[t].status \notin ACTIVE
      withheld == question[t][q].state = "context_required" \/ t \in independent IN
  /\ q # None /\ thread[t].pc # "dead"
  /\ asking' = [asking EXCEPT ![t] = None]
  /\ \/ over /\ UNCHANGED rows
     \/ ~over /\ withheld /\ RequireSnapshot(t, q)
     \/ /\ ~over /\ ~withheld /\ question[t][q].state \notin {"pending", "expired"}
        /\ UNCHANGED rows
     \/ /\ ~over /\ ~withheld /\ question[t][q].state \in {"pending", "expired"}
        /\ question' = Expired(t, q) /\ task' = Resumed(t)
  /\ UNCHANGED <<independent, thread, process, locks, crashes>>

\* The native side gives up the call: ask raises and leaves its row behind.
AbandonCall(t) ==
  /\ asking[t] # None /\ asking' = [asking EXCEPT ![t] = None]
  /\ UNCHANGED <<rows, independent, thread, process, locks, crashes>>

\* A report is final, and says success only when every question was answered.
Report(t, outcome) ==
  /\ CallsBack(t) /\ Running(t)
  /\ outcome = "success" => \A q \in Question : question[t][q].state \notin Unresolved
  /\ task[t].report \in {"none", outcome}
  /\ task' = [task EXCEPT ![t].report = outcome]
  /\ UNCHANGED <<question, independent, thread, asking, process, locks, crashes>>

-----------------------------------------------------------------------------
(* Other callers: coordinators and readers through any server.             *)

\* An answer, or a recorded decision that there is none; none reaches an
\* independent stage.
Reply(t, q, state) ==
  /\ question[t][q].state = "pending"
  /\ task[t].status = "waiting_input" /\ ~task[t].cancel /\ t \notin independent
  /\ question' = [question EXCEPT ![t][q] = [state |-> state, answer |-> state]]
  /\ task' = [task EXCEPT ![t].status = "running"]
  /\ UNCHANGED <<independent, thread, asking, process, locks, crashes>>

\* TaskStore.get: a reader does not show a question whose time has passed.
Refresh(t) ==
  /\ task[t].status = "waiting_input"
  /\ \E overdue \in (SUBSET Pending(t)) \ {{}} :
       question' = [question EXCEPT ![t] = [q \in Question |->
         IF q \in overdue THEN [question[t][q] EXCEPT !.state = "expired"]
         ELSE question[t][q]]]
  /\ task' = IF task[t].cancel THEN task ELSE Resumed(t)
  /\ UNCHANGED <<independent, thread, asking, process, locks, crashes>>

Cancel(t) ==
  /\ task[t].status \in ACTIVE
  /\ task' = [task EXCEPT ![t].cancel = TRUE, ![t].status = "cancelling"]
  /\ question' = Close(t, "cancelled")
  /\ UNCHANGED <<independent, thread, asking, process, locks, crashes>>

\* Mutant: rows whose turn waited for an answer are left alone.
RecoverRunning(t) ==
  /\ task[t].status \in {"starting", "running"} /\ lease[task[t].conversation] = None
  /\ task' = [task EXCEPT ![t].status = "interrupted"]
  /\ question' = Close(t, "cancelled")
  /\ independent' = independent \ {t}
  /\ UNCHANGED <<thread, asking, process, locks, crashes>>

\* TaskStore.recover: an active row whose lease is free has no owner.
Recover(t) ==
  /\ task[t].status \in ACTIVE /\ lease[task[t].conversation] = None
  /\ task' = [task EXCEPT ![t].status = "interrupted"]
  /\ question' = Close(t, "cancelled")
  /\ independent' = independent \ {t}
  /\ UNCHANGED <<thread, asking, process, locks, crashes>>

-----------------------------------------------------------------------------
(* Servers and processes.                                                  *)

\* A server dies.  The kernel releases what it held; its native processes go on.
Crash(T) ==
  /\ T # {} /\ \A t \in T : thread[t].pc \notin {"none", "dead"}
  /\ crashes < MaxCrashes /\ crashes' = crashes + 1
  /\ thread' = [t \in Task |-> IF t \in T THEN [pc |-> "dead", verdict |-> "failed"] ELSE thread[t]]
  /\ asking' = [t \in Task |-> IF t \in T THEN None ELSE asking[t]]
  /\ lease' = [c \in Conversation |-> IF lease[c] \in T THEN None ELSE lease[c]]
  /\ slots' = slots \ T
  /\ process' = [t \in Task |-> IF t \in T /\ process[t] = "alive" THEN "stray" ELSE process[t]]
  /\ UNCHANGED <<rows, independent>>

\* A process nobody watches ends some day.
StrayExits(t) ==
  /\ process[t] = "stray" /\ process' = [process EXCEPT ![t] = "gone"]
  /\ UNCHANGED <<rows, independent, thread, asking, locks, crashes>>

-----------------------------------------------------------------------------

Threads(t) ==
  \/ Refuse(t) \/ Launch(t) \/ Spawn(t) \/ Ready(t) \/ Stop(t) \/ Finish(t) \/ Release(t)

Callbacks(t) ==
  \/ Poll(t) \/ AbandonCall(t) \/ ClaimReview(t) \/ OpenComparison(t)
  \/ \E q \in Question : Ask(t, q)
  \/ \E outcome \in {"success", "blocked"} : Report(t, outcome)

Others(t) ==
  \/ Refresh(t) \/ Cancel(t) \/ Recover(t) \/ StrayExits(t) \/ EndReview(t)
  \/ \E q \in Question, state \in {"answered", "decision_unresolved"} : Reply(t, q, state)

Next ==
  \/ \E c \in Conversation, source \in Conversation \union {None} : Start(c, source)
  \/ \E T \in SUBSET Task : Crash(T)
  \/ \E t \in Task : Threads(t) \/ EndTurn(t) \/ Fail(t) \/ Callbacks(t) \/ Others(t)

\* Threads go on while their server runs, a turn ends when its time is up at
\* the latest, and somebody reads tasks now and then.  Nothing makes
\* a process end, a worker report or a coordinator answer.
Fairness ==
  \A t \in Task :
    /\ WF_vars(Threads(t)) /\ WF_vars(EndTurn(t)) /\ WF_vars(Recover(t))

Spec == Init /\ [][Next]_vars /\ Fairness

-----------------------------------------------------------------------------
(* Properties.                                                             *)

\* The rows, threads and locks keep their types.
TypeOK ==
  /\ task \in [Task -> [conversation : Conversation \union {None},
                       source : Conversation \union {None},
                       status : {"none"} \union ACTIVE \union Terminal,
                       cancel : BOOLEAN, report : {"none", "success", "blocked"}]]
  /\ question \in [Task -> [Question ->
       [state : {"none", "pending", "answered", "cancelled"} \union Unresolved,
        answer : {"none", "answered", "decision_unresolved"}]]]
  /\ independent \subseteq Task
  /\ thread \in [Task ->
       [pc : {"none", "launch", "spawn", "ready", "turn", "stop", "finish", "release",
              "done", "stuck", "dead"},
        verdict : {"completed", "failed", "cancelled"}]]
  /\ asking \in [Task -> Question \union {None}]
  /\ slots \subseteq Task
  /\ process \in [Task -> {"none", "alive", "stray", "gone"}]
  /\ lease \in [Conversation -> Task \union {None}]
  /\ crashes \in 0..MaxCrashes

Live(t) == process[t] \in {"alive", "stray"}
Related(t, u) ==
  task[u].conversation \in {task[t].conversation, task[t].source}

\* One conversation, and one it continues, never have two processes at work: of
\* two, one is a stray nobody watches, and then the conversation only reads.  The
\* last does not hold of a turn that is admitted in the conversation another one
\* continues after that one's server died: admission reads the turns of its own
\* conversation only, so a work turn may start beside such a stray.
ConversationsAreSerial ==
  \A t, u \in Task : t # u /\ Live(t) /\ Live(u) /\ Related(t, u) =>
    /\ "stray" \in {process[t], process[u]}
    /\ task[t].conversation = task[u].conversation \/ u < t =>
         task[t].conversation \notin WorkMode

\* No file is owned by two watched work processes, whoever recovers or finishes
\* rows meanwhile.
FilesAreExclusive ==
  \A t, u \in Task :
    /\ t # u /\ process[t] = "alive" /\ process[u] = "alive"
    /\ {task[t].conversation, task[u].conversation} \subseteq WorkMode
    => Owned[task[t].conversation] \intersect Owned[task[u].conversation] = {}

\* A process is covered by a worker slot and its conversation's lease until it
\* is known to be gone, as long as the server that started it runs; so neither
\* is given to another turn while it works.
ProcessesAreCovered ==
  \A t \in Task : Live(t) /\ thread[t].pc # "dead" =>
    t \in slots /\ lease[task[t].conversation] = t

\* A success is never reported over a question that stayed without an answer,
\* before the report or after it.  Of a question whose call was still under way
\* when the turn became independent, the row no longer says so, but the answer is
\* there.
SuccessHasAnswers ==
  \A t \in Task : task[t].report = "success" =>
    \A q \in Question :
      \/ question[t][q].state \notin Unresolved \union {"pending"}
      \/ question[t][q].state = "context_required" /\ question[t][q].answer = "answered"

\* An answer that was accepted stands: no deadline, cancellation, recovery or late
\* callback expires or withdraws it, and none replaces it.  One thing alone sets it
\* aside: the turn became independent before its own call read it, and is told to
\* ask for a snapshot.
AnswersStand ==
  [][\A t \in Task, q \in Question : question[t][q].answer # "none" =>
       /\ question'[t][q].answer = question[t][q].answer
       /\ \/ question'[t][q] = question[t][q]
          \/ /\ question'[t][q].state = "context_required"
             /\ asking[t] = q /\ t \in independent]_vars

\* A terminal row is final: neither its status, which was announced, nor its
\* report and questions change, whatever still runs.
TerminalIsFinal ==
  [][\A t \in Task : task[t].status \in Terminal =>
       task'[t] = task[t] /\ question'[t] = question[t]]_vars

\* What turns share is never shared by two at a time, conversation, file or slot,
\* and a process never outlives what covers it.
LocksAreSound ==
  TypeOK /\ ConversationsAreSerial /\ FilesAreExclusive /\ ProcessesAreCovered

\* What was told stands: answers that were accepted, except for a turn that became
\* independent meanwhile, rows that were announced, and a success, which has all its
\* answers.
ToldStands == AnswersStand /\ TerminalIsFinal /\ []SuccessHasAnswers

\* Every turn ends, cancelled or not, with its server alive or dead, unless the
\* database failed its thread outside the part that is guarded: before the work
\* began or at its end.
EveryTaskEnds ==
  \A t \in Task :
    task[t].status \in ACTIVE ~> task[t].status \in Terminal \/ thread[t].pc = "stuck"
=============================================================================
