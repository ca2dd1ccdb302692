--------------------------- MODULE WorkSupervisor ---------------------------
(***************************************************************************)
(* The controller of autonomous work (omp_tandem.work_supervisor) with its *)
(* loop, its execution threads, the processes they start, the status and   *)
(* stop files it shares with the operator's commands (work_daemon), and    *)
(* the store between them.  The controller may die at any step; the        *)
(* processes it started then live on.                                      *)
(*                                                                         *)
(* Abstractions.  A card has one assignment at a time, and AssignmentsLeft *)
(* of them (an implementation, then its review) complete it; what the      *)
(* store does with plans, blockers and verdicts is in WorkItems.  The      *)
(* grant keeps only whether it still admits launches and whether it was    *)
(* revoked.  `seen' says whether the card changed since the controller     *)
(* read it, which is all its compare-and-swap on the revision can tell.    *)
(***************************************************************************)
EXTENDS Integers, FiniteSets

CONSTANTS
  Card,             \* the cards of the project
  MaxAttempts,      \* bound: attempts ever reserved
  MaxOwners,        \* bound: controllers ever started
  MaxCommands,      \* bound: commands of the operator
  Commands,         \* which commands the instance exercises
  Assignments,      \* assignments that complete a card
  Concurrency,      \* threads the controller may have
  HonestOperator    \* does the operator only attest stops that happened?

ASSUME ConstantsAssumption ==
  /\ MaxAttempts \in Nat /\ MaxOwners \in Nat /\ MaxCommands \in Nat
  /\ Card # {} /\ Assignments \in Nat \ {0} /\ Concurrency \in 1..4
  /\ HonestOperator \in BOOLEAN

Attempts == 1..MaxAttempts
None == 0

VARIABLES
  card,       \* the cards in the store
  row,        \* the attempt rows in the store
  live,       \* the attempts whose process runs
  thread,     \* the execution threads (_run_attempt)
  sup,        \* the controller and its loop (run)
  threads,    \* self.threads: attempts whose thread was not reaped yet
  seen,       \* the views of the cards _pause_owned works on
  status,     \* work-supervisor.json
  stopFile,   \* work-supervisor-stop.json: the owner asked to stop
  cli,        \* the operator's reconcile command
  commands    \* commands the operator may still give

store == <<card, row>>
controller == <<sup, threads, seen>>
files == <<status, stopFile>>
vars == <<card, row, live, thread, sup, threads, seen, status, stopFile, cli, commands>>

-----------------------------------------------------------------------------
ActiveStates == {"reserved", "running"}
RowStates == ActiveStates \union {"none", "recovery_required", "reconciled", "succeeded"}
Terminal == {"completed", "cancelled"}
Down == {"off", "stopped", "crashed"}
Working == {"prepare", "launch", "spawn", "poll", "confirm", "finish", "settle", "release"}

CardRecord ==
  [status : {"active", "paused"} \union Terminal, left : 0..Assignments,
   grant : {"none", "open", "spent", "revoked"}]
Row ==
  [state : RowStates, card : Card, owner : 0..MaxOwners, gone : BOOLEAN,
   attested : {"none", "supervisor", "operator"}, metered : BOOLEAN]
Thread ==
  [pc : Working \union {"none", "done", "lost"},
   launching : BOOLEAN, success : BOOLEAN, stopped : BOOLEAN]
Controller ==
  [pc : Down \union {"recover", "check", "pausing", "reap", "launch",
                     "publish", "decide", "closing"},
   owner : 0..MaxOwners, stop : BOOLEAN, cards : SUBSET Card]
Idle(pc) == [pc |-> pc, launching |-> FALSE, success |-> FALSE, stopped |-> FALSE]
View == [status : {"active", "paused"} \union Terminal, granted : BOOLEAN, fresh : BOOLEAN]

TypeOK ==
  /\ card \in [Card -> CardRecord] /\ row \in [Attempts -> Row]
  /\ live \subseteq Attempts /\ thread \in [Attempts -> Thread]
  /\ sup \in Controller /\ threads \subseteq Attempts
  /\ seen \in [Card -> View]
  /\ status \in [owner : 0..MaxOwners, active : SUBSET Attempts]
  /\ stopFile \in 0..MaxOwners
  /\ cli \in [pc : {"idle", "checked", "attested"}, attempt : Attempts \union {None}]
  /\ commands \in 0..MaxCommands

Active(a) == row[a].state \in ActiveStates
Uncertain(a) == row[a].state = "recovery_required"
Outstanding(a) == Active(a) \/ Uncertain(a)
Of(c) == {a \in Attempts : row[a].state # "none" /\ row[a].card = c}
Running == sup.pc \notin Down
Open(c) == card[c].status \notin Terminal
Granted(c) == card[c].grant # "none"

\* Every saved change of a card outdates what the controller read of it.
Touched(c) == seen' = [seen EXCEPT ![c].fresh = FALSE]
Unseen == [c \in Card |-> [status |-> "active", granted |-> FALSE, fresh |-> FALSE]]
ViewOf(c) == [status |-> card[c].status, granted |-> Granted(c), fresh |-> TRUE]

\* The rows after the active attempts in A lost their authority (`_fence').
Fenced(A) ==
  [a \in Attempts |-> IF a \in A /\ Active(a)
                      THEN [row[a] EXCEPT !.state = "recovery_required"] ELSE row[a]]

Init ==
  /\ card = [c \in Card |-> [status |-> "active", left |-> Assignments, grant |-> "open"]]
  /\ row \in {[a \in Attempts |-> [state |-> "none", card |-> c, owner |-> None,
                 gone |-> FALSE, attested |-> "none", metered |-> FALSE]] :
                c \in {CHOOSE c \in Card : TRUE}}
  /\ live = {}
  /\ thread = [a \in Attempts |-> Idle("none")]
  /\ sup = [pc |-> "off", owner |-> None, stop |-> FALSE, cards |-> {}]
  /\ threads = {}
  /\ seen = Unseen
  /\ status = [owner |-> None, active |-> {}]
  /\ stopFile = None
  /\ cli = [pc |-> "idle", attempt |-> None]
  /\ commands = MaxCommands

-----------------------------------------------------------------------------
(* The loop of the controller (run).                                       *)

Sup(pc) == sup' = [sup EXCEPT !.pc = pc]
Closing == [sup EXCEPT !.pc = "closing", !.stop = TRUE, !.cards = {}]

\* The kernel lease admits one controller; the files still speak of the last.
StartSupervisor ==
  /\ ~Running /\ sup.owner < MaxOwners
  /\ sup' = [pc |-> "recover", owner |-> sup.owner + 1, stop |-> FALSE, cards |-> {}]
  /\ threads' = {}
  /\ UNCHANGED <<store, live, thread, seen, files, cli, commands>>

\* Holding the lease proves that the former controllers are gone, not that
\* their processes are: what they had active becomes uncertain.
Recover ==
  /\ sup.pc = "recover"
  /\ row' = Fenced({a \in Attempts : row[a].owner # sup.owner})
  /\ status' = [owner |-> sup.owner, active |-> {}]
  /\ Sup("check")
  /\ UNCHANGED <<card, live, thread, threads, seen, stopFile, cli, commands>>

\* Mutant: a stop request is looked for only when nothing runs.
CheckStopWhenIdle ==
  LET stop == sup.stop \/ (stopFile = sup.owner /\ threads = {}) IN
  /\ sup.pc = "check"
  /\ IF stop
     THEN /\ sup' = [sup EXCEPT !.pc = "pausing", !.stop = TRUE, !.cards = Card]
          /\ seen' = [c \in Card |-> ViewOf(c)]
     ELSE Sup("reap") /\ UNCHANGED seen
  /\ UNCHANGED <<store, live, thread, threads, files, cli, commands>>

CheckStop ==
  LET stop == sup.stop \/ stopFile = sup.owner IN
  /\ sup.pc = "check"
  /\ IF stop
     THEN /\ sup' = [sup EXCEPT !.pc = "pausing", !.stop = TRUE, !.cards = Card]
          /\ seen' = [c \in Card |-> ViewOf(c)]
     ELSE Sup("reap") /\ UNCHANGED seen
  /\ UNCHANGED <<store, live, thread, threads, files, cli, commands>>

\* The views that _pause_owned still wants paused.
Targeted(c) == seen[c].status \notin {"paused", "completed"} /\ seen[c].granted

\* One turn of _pause_owned: a card changed meanwhile is read again; any other
\* refusal ends the loop, and with it run().
PauseOwned(c) ==
  /\ sup.pc = "pausing" /\ c \in sup.cards
  /\ \/ /\ ~Targeted(c)
        /\ sup' = [sup EXCEPT !.cards = @ \ {c}]
        /\ UNCHANGED <<store, seen>>
     \/ /\ Targeted(c) /\ seen[c].fresh /\ Open(c)
        /\ card' = [card EXCEPT ![c].status = "paused"]
        /\ row' = Fenced(Of(c))
        /\ sup' = [sup EXCEPT !.cards = @ \ {c}]
        /\ UNCHANGED seen
     \/ /\ Targeted(c) /\ ~seen[c].fresh
        /\ seen' = [seen EXCEPT ![c] = ViewOf(c)]
        /\ UNCHANGED <<store, sup>>
     \/ /\ Targeted(c) /\ seen[c].fresh /\ ~Open(c)
        /\ sup' = Closing /\ seen' = Unseen
        /\ UNCHANGED store
  /\ UNCHANGED <<live, thread, threads, files, cli, commands>>

PausedOwned ==
  /\ sup.pc = "pausing" /\ sup.cards = {}
  /\ Sup("reap") /\ seen' = Unseen
  /\ UNCHANGED <<store, live, thread, threads, files, cli, commands>>

\* Mutant: an uncertain attempt does not hold back the next one.
ReservableDespiteDoubt(c) ==
  /\ card[c].status = "active" /\ card[c].grant = "open"
  /\ \A a \in Of(c) : ~Active(a)

\* The card's assignment is ready and its grant admits another launch.
Reservable(c) ==
  /\ card[c].status = "active" /\ card[c].grant = "open"
  /\ \A a \in Of(c) : ~Outstanding(a)

\* Finished threads are dropped and, unless stopping, the ready list is read.
Reap ==
  /\ sup.pc = "reap"
  /\ threads' = {a \in threads : thread[a].pc # "done"}
  /\ sup' = IF sup.stop THEN [sup EXCEPT !.pc = "publish"]
            ELSE [sup EXCEPT !.pc = "launch", !.cards = {c \in Card : Reservable(c)}]
  /\ UNCHANGED <<store, live, thread, seen, files, cli, commands>>

IsNew(a) == row[a].state = "none" /\ \A b \in Attempts : b < a => row[b].state # "none"

RowOf(c, state, gone) ==
  [state |-> state, card |-> c, owner |-> sup.owner, gone |-> gone,
   attested |-> IF gone THEN "supervisor" ELSE "none", metered |-> gone]

\* Readiness may have changed since the list was read; then the entry is
\* skipped.  A thread that cannot start ends the attempt and run().
Launch(c) ==
  /\ sup.pc = "launch" /\ c \in sup.cards /\ Cardinality(threads) < Concurrency
  /\ \/ /\ ~Reservable(c)
        /\ sup' = [sup EXCEPT !.cards = @ \ {c}]
        /\ UNCHANGED <<row, thread, threads>>
     \/ \E a \in Attempts :
          /\ Reservable(c) /\ IsNew(a)
          /\ \/ /\ row' = [row EXCEPT ![a] = RowOf(c, "reserved", FALSE)]
                /\ thread' = [thread EXCEPT ![a].pc = "prepare"]
                /\ threads' = threads \union {a}
                /\ sup' = [sup EXCEPT !.cards = @ \ {c}]
             \/ /\ row' = [row EXCEPT ![a] = RowOf(c, "recovery_required", TRUE)]
                /\ sup' = Closing
                /\ UNCHANGED <<thread, threads>>
  /\ UNCHANGED <<card, live, seen, files, cli, commands>>

\* The bound on attempts also ends the launching.
Launched ==
  /\ sup.pc = "launch"
  /\ \/ sup.cards = {} \/ Cardinality(threads) >= Concurrency
     \/ \A a \in Attempts : row[a].state # "none"
  /\ sup' = [sup EXCEPT !.pc = "publish", !.cards = {}]
  /\ UNCHANGED <<store, live, thread, threads, seen, files, cli, commands>>

Publish ==
  /\ sup.pc = "publish"
  /\ status' = [owner |-> sup.owner, active |-> threads]
  /\ Sup("decide")
  /\ UNCHANGED <<store, live, thread, threads, seen, stopFile, cli, commands>>

HasGrants == \E c \in Card : card[c].status = "active" /\ card[c].grant = "open"

Decide ==
  /\ sup.pc = "decide"
  /\ sup' = IF threads = {} /\ (sup.stop \/ ~HasGrants) THEN Closing
            ELSE [sup EXCEPT !.pc = "check"]
  /\ UNCHANGED <<store, live, thread, threads, seen, files, cli, commands>>

\* Every thread is joined, then the adapters try once more to end what is left.
Close ==
  /\ sup.pc = "closing"
  /\ \A a \in threads : thread[a].pc = "done"
  /\ \E ended \in SUBSET {a \in live : row[a].owner = sup.owner} : live' = live \ ended
  /\ status' = [owner |-> sup.owner, active |-> threads]
  /\ Sup("stopped")
  /\ UNCHANGED <<store, thread, threads, seen, stopFile, cli, commands>>

\* The controller dies, and its threads with it; the processes do not.
Crash ==
  /\ Running
  /\ sup' = [sup EXCEPT !.pc = "crashed", !.stop = FALSE, !.cards = {}]
  /\ thread' = [a \in Attempts |-> IF thread[a].pc \in Working
                                   THEN Idle("lost") ELSE thread[a]]
  /\ threads' = {} /\ seen' = Unseen
  /\ UNCHANGED <<store, live, files, cli, commands>>

-----------------------------------------------------------------------------
(* One execution thread (_run_attempt).                                    *)

Goes(a, pc) == thread' = [thread EXCEPT ![a].pc = pc]
Done(a) == thread' = [thread EXCEPT ![a] = Idle("done")]
Raises(a, stopped) == thread' = [thread EXCEPT ![a].pc = "settle", ![a].stopped = stopped]

\* The attempt's credential is still good (`authenticate').
Authentic(a) ==
  Active(a) /\ card[row[a].card].status = "active" /\ card[row[a].card].grant # "revoked"

\* The workspace is prepared and the stop and the credential are looked at;
\* whatever goes wrong here, nothing was launched.
Prepare(a) ==
  /\ thread[a].pc = "prepare"
  /\ \/ /\ ~sup.stop /\ Authentic(a)
        /\ thread' = [thread EXCEPT ![a].pc = "launch", ![a].launching = TRUE]
     \/ Raises(a, TRUE)
  /\ UNCHANGED <<store, live, controller, files, cli, commands>>

\* The store learns of the start before the process exists.
Start(a) ==
  /\ thread[a].pc = "launch"
  /\ \/ /\ Authentic(a)
        /\ row' = [row EXCEPT ![a].state = "running"]
        /\ Goes(a, "spawn") /\ Touched(row[a].card)
     \/ Raises(a, FALSE) /\ UNCHANGED <<row, seen>>
  /\ UNCHANGED <<card, live, sup, threads, files, cli, commands>>

\* A start that fails may or may not leave a process behind.
Spawn(a) ==
  /\ thread[a].pc = "spawn"
  /\ \/ Goes(a, "poll") /\ live' = live \union {a}
     \/ Raises(a, FALSE) /\ live' \in {live, live \union {a}}
  /\ UNCHANGED <<store, controller, files, cli, commands>>

\* Mutant: only the stop of the controller ends an execution.
InvalidOnStop(a) == sup.stop

\* The execution lost its authority.
Invalid(a) == sup.stop \/ ~Active(a)

\* Either the cancellation ends the process or it raises, and then a second
\* one in the handler of the exception may.
PollInvalid(a) ==
  /\ thread[a].pc = "poll" /\ Invalid(a)
  /\ \/ live' = live \ {a} /\ Goes(a, "confirm")
     \/ live' = live \ {a} /\ Raises(a, TRUE)
     \/ UNCHANGED live /\ Raises(a, FALSE)
  /\ UNCHANGED <<store, controller, files, cli, commands>>

\* The process ended by itself; its output is captured, which may fail.
PollResult(a) ==
  /\ thread[a].pc = "poll" /\ ~Invalid(a) /\ a \notin live
  /\ \/ \E success \in BOOLEAN :
          thread' = [thread EXCEPT ![a].pc = "confirm", ![a].success = success]
     \/ \E stopped \in BOOLEAN : Raises(a, stopped)
  /\ UNCHANGED <<store, live, controller, files, cli, commands>>

ConfirmStopped(a, who) ==
  row' = [row EXCEPT ![a].gone = TRUE, ![a].attested = who]

Confirm(a) ==
  /\ thread[a].pc = "confirm"
  /\ ConfirmStopped(a, "supervisor")
  /\ Goes(a, "finish") /\ Touched(row[a].card)
  /\ UNCHANGED <<card, live, sup, threads, files, cli, commands>>

\* finish_attempt takes the end of an attempt that is not settled yet.
Admitted(a) == Open(row[a].card) /\ Outstanding(a)

\* The result counts only while the attempt has its authority.
Current(a) ==
  Active(a) /\ card[row[a].card].status # "paused" /\ card[row[a].card].grant # "revoked"

Succeeded(c) ==
  [card[c] EXCEPT !.left = @ - 1, !.status = IF card[c].left = 1 THEN "completed" ELSE @]

\* finish_attempt with an uncertain result; an unknown cost pauses the card.
\* What was never launched cost nothing.
FinishUncertain(a) ==
  \E known \in BOOLEAN :
    /\ known \/ thread[a].launching
    /\ row' = [row EXCEPT ![a].state = "recovery_required", ![a].metered = TRUE]
    /\ card' = IF known THEN card
               ELSE [card EXCEPT ![row[a].card].status = "paused",
                                 ![row[a].card].grant = IF @ = "open" THEN "spent" ELSE @]

Finish(a) ==
  /\ thread[a].pc = "finish"
  /\ Done(a) /\ Touched(row[a].card)
  /\ IF ~Admitted(a) THEN UNCHANGED store
     ELSE IF thread[a].success /\ Current(a)
     THEN /\ row' = [row EXCEPT ![a].state = "succeeded", ![a].metered = TRUE]
          /\ card' = [card EXCEPT ![row[a].card] = Succeeded(row[a].card)]
     ELSE FinishUncertain(a)
  /\ UNCHANGED <<live, sup, threads, files, cli, commands>>

\* The handler of an exception: first the attempt is finished as uncertain,
\* and only if that is admitted is an observed stop recorded.
Settle(a) ==
  /\ thread[a].pc = "settle"
  /\ Touched(row[a].card)
  /\ IF Admitted(a) THEN FinishUncertain(a) /\ Goes(a, "release")
     ELSE Done(a) /\ UNCHANGED store
  /\ UNCHANGED <<live, sup, threads, files, cli, commands>>

Release(a) ==
  /\ thread[a].pc = "release"
  /\ IF thread[a].stopped
     THEN ConfirmStopped(a, "supervisor") /\ Touched(row[a].card)
     ELSE UNCHANGED <<row, seen>>
  /\ Done(a)
  /\ UNCHANGED <<card, live, sup, threads, files, cli, commands>>

-----------------------------------------------------------------------------
(* Processes, deadlines and grants.                                        *)

ProcessExits(a) ==
  /\ a \in live
  /\ live' = live \ {a}
  /\ UNCHANGED <<store, thread, controller, files, cli, commands>>

Expire(a) ==
  /\ Active(a)
  /\ row' = Fenced({a}) /\ Touched(row[a].card)
  /\ UNCHANGED <<card, live, thread, sup, threads, files, cli, commands>>

\* The launches or the money of the grant are used up, or its time is over.
GrantSpent(c) ==
  /\ card[c].grant = "open"
  /\ card' = [card EXCEPT ![c].grant = "spent"] /\ Touched(c)
  /\ UNCHANGED <<row, live, thread, sup, threads, files, cli, commands>>

-----------------------------------------------------------------------------
(* The operator's commands (work_daemon.main).                             *)

Command(name) == name \in Commands /\ commands > 0 /\ commands' = commands - 1

Pause(c) ==
  /\ Command("pause") /\ Open(c)
  /\ card' = [card EXCEPT ![c].status = "paused"]
  /\ row' = Fenced(Of(c)) /\ Touched(c)
  /\ UNCHANGED <<live, thread, sup, threads, files, cli>>

Resume(c) ==
  /\ Command("resume") /\ card[c].status = "paused"
  /\ card' = [card EXCEPT ![c].status = "active"] /\ Touched(c)
  /\ UNCHANGED <<row, live, thread, sup, threads, files, cli>>

Authorize(c) ==
  /\ Command("authorize") /\ card[c].status = "active"
  /\ \A a \in Of(c) : ~Outstanding(a)
  /\ card' = [card EXCEPT ![c].grant = "open"] /\ Touched(c)
  /\ UNCHANGED <<row, live, thread, sup, threads, files, cli>>

Revoke(c) ==
  /\ Command("revoke") /\ Open(c) /\ Granted(c)
  /\ card' = [card EXCEPT ![c].grant = "revoked"]
  /\ row' = Fenced(Of(c)) /\ Touched(c)
  /\ UNCHANGED <<live, thread, sup, threads, files, cli>>

\* A cancelled card keeps its grant, revoked.
Cancel(c) ==
  /\ Command("cancel") /\ Open(c)
  /\ \A a \in Of(c) : ~Outstanding(a)
  /\ card' = [card EXCEPT ![c].status = "cancelled",
                          ![c].grant = IF @ = "none" THEN @ ELSE "revoked"]
  /\ Touched(c)
  /\ UNCHANGED <<row, live, thread, sup, threads, files, cli>>

\* `stop' names the owner it read in the status file.
RequestStop ==
  /\ Command("stop") /\ Running
  /\ stopFile' = status.owner
  /\ UNCHANGED <<store, live, thread, controller, status, cli>>

Signal ==
  /\ Command("signal") /\ Running
  /\ sup' = [sup EXCEPT !.stop = TRUE]
  /\ UNCHANGED <<store, live, thread, threads, seen, files, cli>>

\* `reconcile' asks the status file whether a controller owns the step's
\* attempt, then vouches for the stop, then disposes of the attempt.
ReconcileCheck(a) ==
  /\ Command("reconcile") /\ cli.pc = "idle" /\ Outstanding(a)
  /\ HonestOperator => a \notin live /\ thread[a].pc \notin Working
  /\ ~(Running /\ a \in status.active)
  /\ cli' = [pc |-> "checked", attempt |-> a]
  /\ UNCHANGED <<store, live, thread, controller, files>>

ReconcileAttest ==
  LET a == cli.attempt IN
  /\ cli.pc = "checked"
  /\ ConfirmStopped(a, "operator") /\ Touched(row[a].card)
  /\ cli' = [cli EXCEPT !.pc = "attested"]
  /\ UNCHANGED <<card, live, thread, sup, threads, files, commands>>

\* Refused unless the attempt is uncertain by now; a cost nobody recorded
\* pauses the card.
ReconcileDispose ==
  LET a == cli.attempt  c == row[cli.attempt].card IN
  /\ cli.pc = "attested"
  /\ cli' = [pc |-> "idle", attempt |-> None]
  /\ IF Open(c) /\ Uncertain(a) /\ row[a].gone
     THEN /\ row' = [row EXCEPT ![a].state = "reconciled"]
          /\ card' = IF row[a].metered THEN card
                     ELSE [card EXCEPT ![c].status = "paused",
                             ![c].grant = IF @ = "open" THEN "spent" ELSE @]
          /\ Touched(c)
     ELSE UNCHANGED <<store, seen>>
  /\ UNCHANGED <<live, thread, sup, threads, files, commands>>

-----------------------------------------------------------------------------
Loop ==
  \/ Recover \/ CheckStop \/ PausedOwned \/ Reap \/ Launched \/ Publish \/ Decide \/ Close
  \/ \E c \in Card : PauseOwned(c) \/ Launch(c)

Executes(a) ==
  \/ Prepare(a) \/ Start(a) \/ Spawn(a) \/ PollInvalid(a) \/ PollResult(a)
  \/ Confirm(a) \/ Finish(a) \/ Settle(a) \/ Release(a)

Environment ==
  \/ StartSupervisor \/ Crash
  \/ \E a \in Attempts : ProcessExits(a) \/ Expire(a)
  \/ \E c \in Card : GrantSpent(c)

Operator ==
  \/ \E c \in Card : Pause(c) \/ Resume(c) \/ Authorize(c) \/ Revoke(c) \/ Cancel(c)
  \/ RequestStop \/ Signal
  \/ \E a \in Attempts : ReconcileCheck(a)
  \/ ReconcileAttest \/ ReconcileDispose

Next == Loop \/ (\E a \in Attempts : Executes(a)) \/ Environment \/ Operator

\* The loop and the threads run; nothing makes a process end, a controller
\* start or an operator act.
Fairness == WF_vars(Loop) /\ \A a \in Attempts : WF_vars(Executes(a))

Spec == Init /\ [][Next]_vars /\ Fairness

-----------------------------------------------------------------------------
(* Properties.                                                             *)

\* Two processes never work on one card's assignment, whatever died before:
\* not the controller's, not an orphan of a controller that crashed.
OneExecutionPerCard ==
  \A a, b \in live : row[a].card = row[b].card => a = b

\* A recorded stop is a fact: the process is gone and no thread will start it.
GoneIsDead ==
  \A a \in Attempts : row[a].gone =>
    a \notin live /\ thread[a].pc \notin {"prepare", "launch", "spawn", "poll"}

\* Work counts only when the controller itself saw its process end.
SuccessWasObserved ==
  \A a \in Attempts : row[a].state = "succeeded" =>
    row[a].attested = "supervisor" /\ a \notin live

\* One execution at a time on a card, and what the rows say of a process was seen: its
\* stop, and its success.
ExecutionsAreSound == TypeOK /\ OneExecutionPerCard /\ GoneIsDead /\ SuccessWasObserved

\* A stop request that names the controller ends it, unless it crashes first.
StopEnds ==
  (Running /\ (sup.stop \/ stopFile = sup.owner)) ~> ~Running

\* An execution that lost its authority is brought to an end by its thread.
FencedEnds ==
  \A a \in Attempts :
    (thread[a].pc \in Working /\ ~Active(a)) ~> thread[a].pc \notin Working

\* The help of `stop' says "Pause owned tasks and stop this project's
\* controller": when the controller leaves because of a stop, no card is left
\* active under a grant.
StopPausesOwned ==
  [][sup.pc \in {"pausing", "decide"} /\ sup'.pc = "closing" /\ sup.stop =>
       \A c \in Card : card[c].status = "active" => ~Granted(c)]_vars

\* The guide says "`reconcile` refuses while a running controller still owns
\* the attempt": the operator's word is never recorded for such an attempt.
AttestationRespectsOwner ==
  [][\A a \in Attempts :
       row[a].attested # "operator" /\ row'[a].attested = "operator" =>
         ~(Running /\ a \in threads /\ thread[a].pc \in Working)]_vars

=============================================================================
