---------------------------- MODULE TeamRunsProofs ----------------------------
(***************************************************************************)
(* Proofs about team runs, for any plan: a step is launched once, on what  *)
(* its predecessors really reported; a run that is completed claims no     *)
(* more than its turns did; and the end of a run is final and quiet.       *)
(*                                                                         *)
(* The argument.  What a step says of a turn that ended is what its row    *)
(* says, and that no longer changes (Turns).  Whoever passes over an       *)
(* active run holds the guard, so at most one reservation is open and the  *)
(* steps still to visit are pending (Guarded).  A step counts as busy as   *)
(* long as its turn runs, so a flush, which visits the busy ones, cannot   *)
(* miss it, and a run ends only when none is left (Quiet).                 *)
(***************************************************************************)
EXTENDS TeamRuns, TLAPS

Launching == {"dispatch", "admit", "record"}
Passing == Launching \union {"refresh"}
Open == ACTIVE_TEAM \ {"cancelling"}
Lost == {"closed", "dead"}

\* What a step and its turn say of each other.
Turns(s) ==
  /\ launches[s] = IF task[s].status = "none" THEN 0 ELSE 1
  /\ task[s].live => task[s].status \in ACTIVE /\ step[s].status \in BUSY_STEPS
  /\ step[s].status = "pending" => task[s].status = "none"
  /\ step[s].result.status \in NativeTerminal =>
       step[s].result = [status |-> task[s].status, report |-> task[s].report]
  /\ task[s].status # "none" =>
       \A d \in DependsOn[s] :
         /\ task[d].status = "completed"
         /\ task[d].report \in (IF Policy[s] = "success" THEN {"success"} ELSE {"success", "partial"})

\* Who holds the guard works on a run that may be worked on, and an owner that is
\* gone left nothing that runs.
Guarded ==
  /\ guard.doing = "flush" => Cancelling
  /\ guard.doing \in Passing => run.status \in Open
  /\ server \in Lost => guard.doing = "nothing" /\ \A s \in Step : ~task[s].live
  /\ guard.doing \in Launching => \A s \in guard.todo : step[s].status = "pending"
  /\ Cancelling => run.stop # "none"
  /\ run.status = "none" => \A s \in Step : step[s].status = "pending"
  /\ driver \in {"draining", "released"} \/ server \in {"closing", "closed"} => run.status \notin Open
  /\ driver = "released" \/ server = "closed" => run.status \notin ACTIVE_TEAM

\* As long as the owner works on the run, one reservation at most is open.
Reservations ==
  Serving /\ run.status \in Open =>
    \A s \in Step : step[s].status = "reserved" =>
      /\ guard.doing \in {"admit", "record"}
      /\ guard.doing = "admit" => task[s].status = "none"
      /\ \A r \in Step : step[r].status = "reserved" => r = s

\* What runs is still to be visited, and nothing runs once the run ended.
Quiet ==
  /\ run.status \in TeamTerminal => \A s \in Step : ~task[s].live
  /\ guard.doing = "flush" => \A s \in Step : task[s].live => s \in guard.todo \/ guard.active

Invariant ==
  /\ TypeOK
  /\ \A s \in Step : Turns(s)
  /\ Guarded /\ Reservations /\ Quiet /\ OutcomeIsEarned

RunRow == [status : {"none"} \union ACTIVE_TEAM \union TeamTerminal,
           stop : {"none", "failed", "cancelled", "interrupted"},
           outcome : {"none", "success", "partial", "blocked"},
           selection : {"none", "started", "made", "unavailable"},
           assigned : SUBSET Step, due : BOOLEAN]
StepStatus == {"pending", "partial", "blocked"} \union BUSY_STEPS \union NativeTerminal
StepRow == [status : StepStatus, task : BOOLEAN, result : Result]
TaskStatus == {"none"} \union ACTIVE \union NativeTerminal
TaskRow == [status : TaskStatus, report : Reports, cancel : BOOLEAN, live : BOOLEAN]
Doings == {"nothing", "refresh", "dispatch", "admit", "record", "flush"}
Guards == [doing : Doings, by : {"driver", "caller"}, todo : SUBSET Step, active : BOOLEAN]
Servers == {"up", "stopping", "closing", "closed", "dead"}
Drivers == {"none", "loop", "selecting", "gone", "failed", "draining", "released"}

USE PlanAssumption, BoundsAssumption

-----------------------------------------------------------------------------
(* Types, and what an update of a step, its turn or the guard does.        *)

\* The type invariant in terms of the rows.
LEMMA Types ==
  TypeOK <=> /\ run \in RunRow /\ step \in [Step -> StepRow] /\ task \in [Step -> TaskRow]
             /\ launches \in [Step -> Nat] /\ server \in Servers /\ driver \in Drivers
             /\ guard \in Guards /\ events \in 0..MaxEvents
BY Zenon DEF TypeOK, RunRow, StepRow, StepStatus, TaskRow, TaskStatus, Guards, Doings, Servers, Drivers

\* The same of the next state.
LEMMA TypesAfter ==
  TypeOK' <=> /\ run' \in RunRow /\ step' \in [Step -> StepRow] /\ task' \in [Step -> TaskRow]
              /\ launches' \in [Step -> Nat] /\ server' \in Servers /\ driver' \in Drivers
              /\ guard' \in Guards /\ events' \in 0..MaxEvents
BY Zenon DEF TypeOK, RunRow, StepRow, StepStatus, TaskRow, TaskStatus, Guards, Doings, Servers, Drivers

\* The row of s is another one; the others stay.
LEMMA StepSet ==
  ASSUME step \in [Step -> StepRow], NEW s \in Step, NEW record \in StepRow,
         step' = [step EXCEPT ![s] = record]
  PROVE  /\ step' \in [Step -> StepRow] /\ step'[s] = record
         /\ \A r \in Step : r # s => step'[r] = step[r]
OBVIOUS

\* The status of s is another one.
LEMMA StepStated ==
  ASSUME step \in [Step -> StepRow], NEW s \in Step, NEW status \in StepStatus,
         step' = [step EXCEPT ![s].status = status]
  PROVE  /\ step' \in [Step -> StepRow] /\ step'[s].status = status
         /\ step'[s].task = step[s].task /\ step'[s].result = step[s].result
         /\ \A r \in Step : r # s => step'[r] = step[r]
<1>1. step[s] \in StepRow
  OBVIOUS
<1>2. [step[s] EXCEPT !.status = status] \in StepRow
  BY <1>1 DEF StepRow
<1> QED
  BY <1>1, <1>2 DEF StepRow

\* The status and the result of s are other ones.
LEMMA StepTold ==
  ASSUME step \in [Step -> StepRow], NEW s \in Step, NEW status \in StepStatus, NEW result \in Result,
         step' = [step EXCEPT ![s].status = status, ![s].result = result]
  PROVE  /\ step' \in [Step -> StepRow] /\ step'[s].status = status /\ step'[s].result = result
         /\ \A r \in Step : r # s => step'[r] = step[r]
<1>1. step[s] \in StepRow
  OBVIOUS
<1> DEFINE record == [[step[s] EXCEPT !.status = status] EXCEPT !.result = result]
<1>2. record \in StepRow /\ record.status = status /\ record.result = result
  BY <1>1 DEF StepRow
<1>3. step' = [step EXCEPT ![s] = record]
  BY <1>1 DEF StepRow
<1> HIDE DEF record
<1>4. step' \in [Step -> StepRow]
  BY <1>2, <1>3, Zenon
<1>5. step'[s] = record
  BY <1>3, Zenon
<1>6. \A r \in Step : r # s => step'[r] = step[r]
  BY <1>3, Zenon
<1> QED
  BY <1>2, <1>4, <1>5, <1>6, Zenon

\* The status of s and whether it has a turn are other ones.
LEMMA StepReserved ==
  ASSUME step \in [Step -> StepRow], NEW s \in Step, NEW status \in StepStatus, NEW turn \in BOOLEAN,
         step' = [step EXCEPT ![s].status = status, ![s].task = turn]
  PROVE  /\ step' \in [Step -> StepRow] /\ step'[s].status = status
         /\ step'[s].result = step[s].result
         /\ \A r \in Step : r # s => step'[r] = step[r]
<1>1. step[s] \in StepRow
  OBVIOUS
<1> DEFINE record == [[step[s] EXCEPT !.status = status] EXCEPT !.task = turn]
<1>2. record \in StepRow /\ record.status = status /\ record.result = step[s].result
  BY <1>1 DEF StepRow
<1>3. step' = [step EXCEPT ![s] = record]
  BY <1>1 DEF StepRow
<1> HIDE DEF record
<1>4. step' \in [Step -> StepRow]
  BY <1>2, <1>3, Zenon
<1>5. step'[s] = record
  BY <1>3, Zenon
<1>6. \A r \in Step : r # s => step'[r] = step[r]
  BY <1>3, Zenon
<1> QED
  BY <1>2, <1>4, <1>5, <1>6, Zenon

\* The turn of s is another one.
LEMMA TaskSet ==
  ASSUME task \in [Step -> TaskRow], NEW s \in Step, NEW record \in TaskRow,
         task' = [task EXCEPT ![s] = record]
  PROVE  /\ task' \in [Step -> TaskRow] /\ task'[s] = record
         /\ \A r \in Step : r # s => task'[r] = task[r]
OBVIOUS

\* A step that was visited.
LEMMA VisitedFields ==
  ASSUME guard \in Guards, NEW s
  PROVE  /\ Visited(s) \in Guards /\ Visited(s).doing = guard.doing
         /\ Visited(s).todo = guard.todo \ {s} /\ Visited(s).active = guard.active
         /\ Visited(s).by = guard.by
BY DEF Guards, Visited

\* Another occupation of the guard's holder.
LEMMA DoingFields ==
  ASSUME guard \in Guards, NEW what \in Doings, NEW todo \in SUBSET Step
  PROVE  /\ Doing(what, todo) \in Guards /\ Doing(what, todo).doing = what
         /\ Doing(what, todo).todo = todo /\ Doing(what, todo).active = FALSE
BY DEF Guards, Doing

-----------------------------------------------------------------------------
(* Native turns, time and the owner's server.                              *)

\* A turn that has not ended goes on or ends.
LEMMA TurnGoesOn ==
  ASSUME Invariant, NEW s \in Step, NEW record \in TaskRow, task' = [task EXCEPT ![s] = record],
         UNCHANGED <<rows, launches, owner>>, task[s].status \in ACTIVE,
         record.status \in ACTIVE \union NativeTerminal,
         record.live => task[s].live /\ record.status \in ACTIVE
  PROVE  Invariant'
<1>1. TypeOK /\ \A r \in Step : Turns(r)
  BY DEF Invariant
<1>2. /\ task' \in [Step -> TaskRow] /\ task'[s] = record
      /\ \A r \in Step : r # s => task'[r] = task[r]
  BY <1>1, TaskSet, Types
<1> USE DEF rows, owner
<1>3. TypeOK'
  BY <1>1, <1>2, Types, TypesAfter
<1>4. task[s].status \notin {"none", "completed"} \union NativeTerminal /\ record.status # "none"
  BY DEF ACTIVE, NativeTerminal
<1>5. ASSUME NEW r \in Step
      PROVE  Turns(r)'
  <2>1. step[s].result.status \notin NativeTerminal
    <3>1. step[s].result.status \in NativeTerminal => step[s].result.status = task[s].status
      <4>1. step[s].result.status \in NativeTerminal =>
              step[s].result = [status |-> task[s].status, report |-> task[s].report]
        BY <1>1 DEF Turns
      <4>2. [status |-> task[s].status, report |-> task[s].report].status = task[s].status
        OBVIOUS
      <4> QED
        BY <4>1, <4>2, Zenon
    <3> QED
      BY <1>4, <3>1
  <2>2. \A d \in Step : task[d].status = "completed" => task'[d] = task[d]
    BY <1>2, <1>4
  <2>3. Turns(r) /\ (task'[r].status = "none" <=> task[r].status = "none")
    BY <1>1, <1>2, <1>4
  <2>4. CASE r = s
    BY <1>2, <1>4, <2>1, <2>2, <2>3, <2>4 DEF Turns
  <2>5. CASE r # s
    BY <1>2, <2>2, <2>3, <2>5 DEF Turns
  <2> QED
    BY <2>4, <2>5
<1>6. Guarded' /\ Reservations' /\ Quiet'
  BY <1>2, <1>4 DEF Invariant, Guarded, Reservations, Quiet, Cancelling, Serving
<1>7. OutcomeIsEarned'
  BY <1>2, <1>4 DEF Invariant, OutcomeIsEarned
<1> QED
  BY <1>3, <1>5, <1>6, <1>7 DEF Invariant

\* Turns ask, report and end.
LEMMA TurnSound ==
  ASSUME Invariant, NEW s \in Step, Turn(s)
  PROVE  Invariant'
<1>1. TypeOK /\ task[s] \in TaskRow
  BY Types DEF Invariant
<1>2. PICK record \in TaskRow :
        /\ task' = [task EXCEPT ![s] = record] /\ UNCHANGED <<rows, launches, owner>>
        /\ task[s].status \in ACTIVE /\ record.status \in ACTIVE \union NativeTerminal
        /\ record.live => task[s].live /\ record.status \in ACTIVE
  <2>1. CASE Work(s)
    <3>1. CASE \E status \in {"running", "waiting_input"} : task' = [task EXCEPT ![s].status = status]
      <4>1. PICK status \in {"running", "waiting_input"} : task' = [task EXCEPT ![s].status = status]
        BY <3>1
      <4> DEFINE record == [task[s] EXCEPT !.status = status]
      <4>2. record \in TaskRow /\ record.status = status /\ record.live = task[s].live
        BY <1>1 DEF TaskRow, TaskStatus, ACTIVE
      <4>3. task' = [task EXCEPT ![s] = record]
        BY <4>1
      <4> HIDE DEF record
      <4> QED
        BY <2>1, <4>2, <4>3 DEF Work, ACTIVE
    <3>2. CASE \E report \in Reports : task' = [task EXCEPT ![s].report = report]
      <4>1. PICK report \in Reports : task' = [task EXCEPT ![s].report = report]
        BY <3>2
      <4> DEFINE record == [task[s] EXCEPT !.report = report]
      <4>2. record \in TaskRow /\ record.status = task[s].status /\ record.live = task[s].live
        BY <1>1 DEF TaskRow
      <4>3. task' = [task EXCEPT ![s] = record]
        BY <4>1
      <4> HIDE DEF record
      <4> QED
        BY <2>1, <4>2, <4>3 DEF Work
    <3> QED
      BY <2>1, <3>1, <3>2 DEF Work
  <2>2. CASE End(s)
    <3>1. PICK status \in {"completed", "failed", "cancelled"} :
            task' = [task EXCEPT ![s].status = status, ![s].live = FALSE]
      BY <2>2 DEF End
    <3> DEFINE record == [[task[s] EXCEPT !.status = status] EXCEPT !.live = FALSE]
    <3>2. record \in TaskRow /\ record.status = status /\ record.live = FALSE
      BY <1>1 DEF TaskRow, TaskStatus, NativeTerminal
    <3>3. task' = [task EXCEPT ![s] = record]
      BY <1>1, <3>1 DEF TaskRow
    <3> HIDE DEF record
    <3> QED
      BY <2>2, <3>2, <3>3 DEF End, NativeTerminal
  <2>3. CASE RecoverTask(s)
    <3> DEFINE record == [task[s] EXCEPT !.status = "interrupted"]
    <3>1. record \in TaskRow /\ record.status = "interrupted" /\ record.live = task[s].live
      BY <1>1 DEF TaskRow, TaskStatus, NativeTerminal
    <3>2. task' = [task EXCEPT ![s] = record]
      BY <2>3 DEF RecoverTask
    <3> HIDE DEF record
    <3> QED
      BY <2>3, <3>1, <3>2 DEF RecoverTask, NativeTerminal
  <2> QED
    BY <2>1, <2>2, <2>3 DEF Turn
<1> QED
  BY <1>2, TurnGoesOn

\* The server of the owner ends, by itself or not, and with it what it still ran.
LEMMA ServerEnds ==
  ASSUME Invariant, Crash \/ Closed
  PROVE  Invariant'
<1>1. TypeOK /\ \A r \in Step : Turns(r)
  BY DEF Invariant
<1>2. /\ task' \in [Step -> TaskRow]
      /\ \A r \in Step : /\ task'[r].status = task[r].status /\ task'[r].report = task[r].report
                         /\ ~task'[r].live
  <2>1. ASSUME NEW r \in Step
        PROVE  LET ended == [task[r] EXCEPT !.live = FALSE] IN
               /\ ended \in TaskRow /\ ended.status = task[r].status
               /\ ended.report = task[r].report /\ ended.live = FALSE
    <3>1. task[r] \in TaskRow
      BY <1>1, Types
    <3> QED
      BY <3>1 DEF TaskRow
  <2>2. task' = [r \in Step |-> [task[r] EXCEPT !.live = FALSE]]
    BY DEF Crash, Closed
  <2> QED
    BY <2>1, <2>2
<1>3. /\ UNCHANGED <<run, step, launches>> /\ server' \in Lost /\ guard' = Free /\ driver' \in Drivers
      /\ server' = "closed" => driver' = driver /\ server = "closing" /\ ~Cancelling
      /\ server' # "closed" => driver' = "gone"
      /\ events' = events
  BY <1>1, Types DEF Crash, Closed, Lost, rows, Drivers
<1>4. TypeOK'
  BY <1>1, <1>2, <1>3, Types, TypesAfter DEF Free, Guards, Doings, Lost, Servers
<1>5. ASSUME NEW r \in Step
      PROVE  Turns(r)'
  BY <1>1, <1>2, <1>3 DEF Turns
<1>6. Guarded'
  BY <1>2, <1>3 DEF Invariant, Guarded, Cancelling, Free, Lost, Passing, Launching, Open
<1>7. Reservations' /\ Quiet'
  BY <1>2, <1>3 DEF Reservations, Quiet, Serving, Free, Lost
<1>8. OutcomeIsEarned'
  BY <1>2, <1>3 DEF Invariant, OutcomeIsEarned
<1> QED
  BY <1>4, <1>5, <1>6, <1>7, <1>8 DEF Invariant

\* Another server settles what an owner that is gone left behind.
LEMMA RecoverSound ==
  ASSUME Invariant, Recover
  PROVE  Invariant'
<1>1. TypeOK /\ \A r \in Step : Turns(r)
  BY DEF Invariant
<1>2. server \in Lost /\ guard.doing = "nothing" /\ \A r \in Step : ~task[r].live
  BY <1>1, Types DEF Recover, LeaseHeld, Serving, Servers, Invariant, Guarded, Lost
<1>3. /\ step' \in [Step -> StepRow]
      /\ \A r \in Step : step'[r].result = step[r].result /\ step'[r].status # "pending"
  <2>1. ASSUME NEW r \in Step
        PROVE  /\ Interrupted(step[r]) \in StepRow /\ Interrupted(step[r]).result = step[r].result
               /\ Interrupted(step[r]).status # "pending"
    <3>1. step[r] \in StepRow
      BY <1>1, Types
    <3> QED
      BY <3>1 DEF StepRow, StepStatus, NativeTerminal, Interrupted
  <2> QED
    BY <2>1 DEF Recover
<1>4. /\ run' \in RunRow /\ run'.status = "interrupted" /\ UNCHANGED <<task, launches, owner>>
  BY <1>1, Types DEF Recover, RunRow, TeamTerminal, natives
<1>5. TypeOK'
  BY <1>1, <1>3, <1>4, Types, TypesAfter DEF owner
<1>6. ASSUME NEW r \in Step
      PROVE  Turns(r)'
  BY <1>1, <1>2, <1>3, <1>4 DEF Turns
<1>7. Guarded' /\ Reservations' /\ Quiet' /\ OutcomeIsEarned'
  BY <1>2, <1>4 DEF Guarded, Reservations, Quiet, OutcomeIsEarned, Cancelling, Serving, owner,
                    Launching, Passing, Open, ACTIVE_TEAM
<1> QED
  BY <1>5, <1>6, <1>7 DEF Invariant

\* Steps of the owner that touch no row of a step and launch nothing.
LEMMA OwnerSound ==
  ASSUME Invariant,
         \/ Leave \/ Release \/ StopDispatching \/ EndFlush \/ Drain \/ Start \/ RequestClose
         \/ LoopFails \/ Elapse
  PROVE  Invariant'
<1> USE DEF rows, natives, owner, Doing, Busy, Free, Cancelling, Serving, ACTIVE_TEAM, TeamTerminal,
            BUSY_STEPS, Open, Launching, Passing, Lost, ClosingSet, NativeTerminal, ACTIVE
<1>1. CASE Leave
  <2>1. TypeOK'
    BY <1>1 DEF Invariant, TypeOK, Leave, Result, Reports
  <2>2. ASSUME NEW r \in Step
        PROVE  Turns(r)'
    BY <1>1 DEF Invariant, TypeOK, Leave, Turns
  <2>3. Guarded'
    BY <1>1 DEF Invariant, TypeOK, Leave, Guarded, Quiet, Turns, Reservations
  <2>4. Reservations'
    BY <1>1 DEF Invariant, TypeOK, Leave, Guarded, Reservations
  <2>5. Quiet'
    BY <1>1 DEF Invariant, TypeOK, Leave, Guarded, Quiet, Turns, Reservations
  <2>6. OutcomeIsEarned'
    BY <1>1 DEF Invariant, TypeOK, Leave, OutcomeIsEarned, Guarded, Turns
  <2> QED
    BY <2>1, <2>2, <2>3, <2>4, <2>5, <2>6 DEF Invariant
<1>2. CASE Release
  <2>1. TypeOK'
    BY <1>2 DEF Invariant, TypeOK, Release, Result, Reports
  <2>2. ASSUME NEW r \in Step
        PROVE  Turns(r)'
    BY <1>2 DEF Invariant, TypeOK, Release, Turns
  <2>3. Guarded'
    BY <1>2 DEF Invariant, TypeOK, Release, Guarded, Quiet, Turns, Reservations
  <2>4. Reservations'
    BY <1>2 DEF Invariant, TypeOK, Release, Guarded, Reservations
  <2>5. Quiet'
    BY <1>2 DEF Invariant, TypeOK, Release, Guarded, Quiet, Turns, Reservations
  <2>6. OutcomeIsEarned'
    BY <1>2 DEF Invariant, TypeOK, Release, OutcomeIsEarned, Guarded, Turns
  <2> QED
    BY <2>1, <2>2, <2>3, <2>4, <2>5, <2>6 DEF Invariant
<1>3. CASE StopDispatching
  <2>1. TypeOK'
    BY <1>3 DEF Invariant, TypeOK, StopDispatching, Result, Reports
  <2>2. ASSUME NEW r \in Step
        PROVE  Turns(r)'
    BY <1>3 DEF Invariant, TypeOK, StopDispatching, Turns
  <2>3. Guarded'
    BY <1>3 DEF Invariant, TypeOK, StopDispatching, Guarded, Quiet, Turns, Reservations
  <2>4. Reservations'
    BY <1>3 DEF Invariant, TypeOK, StopDispatching, Guarded, Reservations
  <2>5. Quiet'
    BY <1>3 DEF Invariant, TypeOK, StopDispatching, Guarded, Quiet, Turns, Reservations
  <2>6. OutcomeIsEarned'
    BY <1>3 DEF Invariant, TypeOK, StopDispatching, OutcomeIsEarned, Guarded, Turns
  <2> QED
    BY <2>1, <2>2, <2>3, <2>4, <2>5, <2>6 DEF Invariant
<1>4. CASE EndFlush
  <2>1. TypeOK'
    BY <1>4 DEF Invariant, TypeOK, EndFlush, Result, Reports
  <2>2. ASSUME NEW r \in Step
        PROVE  Turns(r)'
    BY <1>4 DEF Invariant, TypeOK, EndFlush, Turns
  <2>3. Guarded'
    BY <1>4 DEF Invariant, TypeOK, EndFlush, Guarded, Quiet, Turns, Reservations
  <2>4. Reservations'
    BY <1>4 DEF Invariant, TypeOK, EndFlush, Guarded, Reservations
  <2>5. Quiet'
    BY <1>4 DEF Invariant, TypeOK, EndFlush, Guarded, Quiet, Turns, Reservations
  <2>6. OutcomeIsEarned'
    BY <1>4 DEF Invariant, TypeOK, EndFlush, OutcomeIsEarned, Guarded, Turns
  <2> QED
    BY <2>1, <2>2, <2>3, <2>4, <2>5, <2>6 DEF Invariant
<1>5. CASE Drain
  <2>1. TypeOK'
    BY <1>5, ZenonT(60) DEF Invariant, TypeOK, Drain, Result, Reports
  <2>2. ASSUME NEW r \in Step
        PROVE  Turns(r)'
    BY <1>5 DEF Invariant, TypeOK, Drain, Turns
  <2>3. Guarded'
    BY <1>5 DEF Invariant, TypeOK, Drain, Guarded, Quiet, Turns, Reservations
  <2>4. Reservations'
    BY <1>5 DEF Invariant, TypeOK, Drain, Guarded, Reservations
  <2>5. Quiet'
    BY <1>5 DEF Invariant, TypeOK, Drain, Guarded, Quiet, Turns, Reservations
  <2>6. OutcomeIsEarned'
    BY <1>5 DEF Invariant, TypeOK, Drain, OutcomeIsEarned, Guarded, Turns
  <2> QED
    BY <2>1, <2>2, <2>3, <2>4, <2>5, <2>6 DEF Invariant
<1>6. CASE Start
  <2>1. TypeOK'
    BY <1>6 DEF Invariant, TypeOK, Start, Result, Reports
  <2>2. ASSUME NEW r \in Step
        PROVE  Turns(r)'
    BY <1>6 DEF Invariant, TypeOK, Start, Turns
  <2>3. Guarded'
    BY <1>6 DEF Invariant, TypeOK, Start, Guarded, Quiet, Turns, Reservations
  <2>4. Reservations'
    BY <1>6 DEF Invariant, TypeOK, Start, Guarded, Reservations
  <2>5. Quiet'
    BY <1>6 DEF Invariant, TypeOK, Start, Guarded, Quiet, Turns, Reservations
  <2>6. OutcomeIsEarned'
    BY <1>6 DEF Invariant, TypeOK, Start, OutcomeIsEarned, Guarded, Turns
  <2> QED
    BY <2>1, <2>2, <2>3, <2>4, <2>5, <2>6 DEF Invariant
<1>7. CASE RequestClose
  <2>1. TypeOK'
    BY <1>7 DEF Invariant, TypeOK, RequestClose, Result, Reports
  <2>2. ASSUME NEW r \in Step
        PROVE  Turns(r)'
    BY <1>7 DEF Invariant, TypeOK, RequestClose, Turns
  <2>3. Guarded'
    BY <1>7 DEF Invariant, TypeOK, RequestClose, Guarded, Quiet, Turns, Reservations
  <2>4. Reservations'
    BY <1>7 DEF Invariant, TypeOK, RequestClose, Guarded, Reservations
  <2>5. Quiet'
    BY <1>7 DEF Invariant, TypeOK, RequestClose, Guarded, Quiet, Turns, Reservations
  <2>6. OutcomeIsEarned'
    BY <1>7 DEF Invariant, TypeOK, RequestClose, OutcomeIsEarned, Guarded, Turns
  <2> QED
    BY <2>1, <2>2, <2>3, <2>4, <2>5, <2>6 DEF Invariant
<1>8. CASE LoopFails
  <2>1. TypeOK'
    BY <1>8 DEF Invariant, TypeOK, LoopFails, Result, Reports
  <2>2. ASSUME NEW r \in Step
        PROVE  Turns(r)'
    BY <1>8 DEF Invariant, TypeOK, LoopFails, Turns
  <2>3. Guarded'
    BY <1>8 DEF Invariant, TypeOK, LoopFails, Guarded, Quiet, Turns, Reservations
  <2>4. Reservations'
    BY <1>8 DEF Invariant, TypeOK, LoopFails, Guarded, Reservations
  <2>5. Quiet'
    BY <1>8 DEF Invariant, TypeOK, LoopFails, Guarded, Quiet, Turns, Reservations
  <2>6. OutcomeIsEarned'
    BY <1>8 DEF Invariant, TypeOK, LoopFails, OutcomeIsEarned, Guarded, Turns
  <2> QED
    BY <2>1, <2>2, <2>3, <2>4, <2>5, <2>6 DEF Invariant
<1>9. CASE Elapse
  <2>1. TypeOK'
    BY <1>9, ZenonT(60) DEF Invariant, TypeOK, Elapse, Result, Reports
  <2>2. ASSUME NEW r \in Step
        PROVE  Turns(r)'
    BY <1>9 DEF Invariant, TypeOK, Elapse, Turns
  <2>3. Guarded'
    BY <1>9 DEF Invariant, TypeOK, Elapse, Guarded, Quiet, Turns, Reservations
  <2>4. Reservations'
    BY <1>9 DEF Invariant, TypeOK, Elapse, Guarded, Reservations
  <2>5. Quiet'
    BY <1>9 DEF Invariant, TypeOK, Elapse, Guarded, Quiet, Turns, Reservations
  <2>6. OutcomeIsEarned'
    BY <1>9 DEF Invariant, TypeOK, Elapse, OutcomeIsEarned, Guarded, Turns
  <2> QED
    BY <2>1, <2>2, <2>3, <2>4, <2>5, <2>6 DEF Invariant
<1> QED
  BY <1>1, <1>2, <1>3, <1>4, <1>5, <1>6, <1>7, <1>8, <1>9

\* A launch that is put off.
LEMMA PutOffSound ==
  ASSUME Invariant, NEW s \in Step, PutOff(s)
  PROVE  Invariant'
<1>1. TypeOK /\ guard.doing = "dispatch"
  BY DEF Invariant, PutOff
<1>2. /\ guard' \in Guards /\ guard'.doing = "dispatch" /\ guard'.todo = guard.todo \ {s}
      /\ UNCHANGED <<run, step, task, launches, server, driver, events>>
  BY <1>1, VisitedFields, Types DEF PutOff, rows, natives
<1>3. TypeOK'
  BY <1>1, <1>2, Types, TypesAfter
<1>4. \A r \in Step : Turns(r)'
  BY <1>2 DEF Invariant, Turns
<1>5. Guarded' /\ Reservations' /\ Quiet' /\ OutcomeIsEarned'
  BY <1>1, <1>2 DEF Invariant, Guarded, Reservations, Quiet, OutcomeIsEarned, Cancelling, Serving,
                    Passing, Launching
<1> QED
  BY <1>3, <1>4, <1>5 DEF Invariant

\* A reservation is made where none is open, of a step that is pending.
LEMMA ReserveSound ==
  ASSUME Invariant, NEW s \in Step, Reserve(s)
  PROVE  Invariant'
<1>1. TypeOK /\ guard.doing = "dispatch" /\ s \in guard.todo
  BY DEF Invariant, Reserve
<1>2. run.status \in Open /\ step[s].status = "pending" /\ task[s].status = "none"
  BY <1>1 DEF Invariant, Guarded, Passing, Launching, Turns
<1>3. /\ guard' \in Guards /\ guard'.doing = "admit" /\ guard'.todo = guard.todo \ {s}
  <2>1. guard' = [Visited(s) EXCEPT !.doing = "admit"]
    BY DEF Reserve
  <2> QED
    BY <1>1, <2>1, VisitedFields, Types DEF Guards, Doings
<1>4. /\ step' \in [Step -> StepRow] /\ step'[s].status = "reserved"
      /\ step'[s].result = step[s].result /\ \A r \in Step : r # s => step'[r] = step[r]
  BY <1>1, Types, StepReserved DEF Reserve, StepStatus, BUSY_STEPS
<1>5. UNCHANGED <<run, task, launches, server, driver, events>>
  BY DEF Reserve, natives
<1>6. TypeOK'
  BY <1>1, <1>3, <1>4, <1>5, Types, TypesAfter
<1>7. ASSUME NEW r \in Step
      PROVE  Turns(r)'
  BY <1>2, <1>4, <1>5 DEF Invariant, Turns, BUSY_STEPS
<1>8. Guarded'
  <2>1. Guarded /\ server \notin Lost /\ run.status \notin {"none", "cancelling"}
    BY <1>1, <1>2 DEF Invariant, Guarded, Open, ACTIVE_TEAM
  <2>2. guard.todo \subseteq Step
    BY <1>1, Types DEF Guards
  <2>3. \A r \in guard'.todo : step'[r].status = "pending"
    BY <2>2, <1>1, <1>2, <1>3, <1>4, <1>5, <2>1 DEF Guarded, Launching
  <2> QED
    BY <1>1, <1>2, <1>3, <1>4, <1>5, <2>1, <2>3 DEF Guarded, Cancelling, Passing, Launching
<1>9. Reservations'
  <2> SUFFICES ASSUME Serving, run.status \in Open, NEW r \in Step, step'[r].status = "reserved"
               PROVE  r = s
    BY <1>2, <1>3, <1>5 DEF Reservations, Serving
  <2> QED
    BY <1>1, <1>4 DEF Invariant, Reservations
<1>10. Quiet' /\ OutcomeIsEarned'
  BY <1>3, <1>5 DEF Invariant, Quiet, OutcomeIsEarned
<1> QED
  BY <1>6, <1>7, <1>8, <1>9, <1>10 DEF Invariant

\* The store admitted nothing: the reservation is dropped.
LEMMA AdmitBusySound ==
  ASSUME Invariant, NEW s \in Step, AdmitBusy(s)
  PROVE  Invariant'
<1>1. TypeOK /\ guard.doing = "admit" /\ step[s].status = "reserved"
  BY DEF Invariant, AdmitBusy, Reserved
<1>2. run.status \in Open /\ Serving
  BY <1>1, Types DEF Invariant, Guarded, Passing, Launching, Serving, Lost, Servers
<1>3. task[s].status = "none" /\ \A r \in Step : step[r].status = "reserved" => r = s
  BY <1>1, <1>2 DEF Invariant, Reservations
<1>4. /\ guard' \in Guards /\ guard'.doing = "dispatch" /\ guard'.todo = guard.todo
  BY <1>1, Types DEF AdmitBusy, Guards, Doings
<1>5. /\ step' \in [Step -> StepRow] /\ step'[s].status = "pending"
      /\ step'[s].result = step[s].result /\ \A r \in Step : r # s => step'[r] = step[r]
  BY <1>1, Types, StepReserved DEF AdmitBusy, StepStatus
<1>6. UNCHANGED <<run, task, launches, server, driver, events>>
  BY DEF AdmitBusy, natives
<1>7. TypeOK'
  BY <1>1, <1>4, <1>5, <1>6, Types, TypesAfter
<1>8. ASSUME NEW r \in Step
      PROVE  Turns(r)'
  BY <1>3, <1>5, <1>6 DEF Invariant, Turns, ACTIVE
<1>9. Guarded'
  <2>1. Guarded /\ server \notin Lost /\ run.status \notin {"none", "cancelling"}
    BY <1>1, <1>2 DEF Invariant, Guarded, Open, ACTIVE_TEAM
  <2>2. guard.todo \subseteq Step
    BY <1>1, Types DEF Guards
  <2>3. \A r \in guard'.todo : step'[r].status = "pending"
    BY <2>2, <1>1, <1>2, <1>4, <1>5, <1>6, <2>1 DEF Guarded, Launching
  <2> QED
    BY <1>1, <1>2, <1>4, <1>5, <1>6, <2>1, <2>3 DEF Guarded, Cancelling, Passing, Launching
<1>10. Reservations' /\ Quiet' /\ OutcomeIsEarned'
  BY <1>3, <1>4, <1>5, <1>6 DEF Invariant, Reservations, Quiet, OutcomeIsEarned
<1> QED
  BY <1>7, <1>8, <1>9, <1>10 DEF Invariant

\* The launch of the one reservation is recorded.
LEMMA RecordLaunchSound ==
  ASSUME Invariant, NEW s \in Step, RecordLaunch(s)
  PROVE  Invariant'
<1>1. TypeOK /\ guard.doing = "record" /\ step[s].status = "reserved"
  BY DEF Invariant, RecordLaunch
<1>2. run.status \in Open /\ Serving
  BY <1>1, Types DEF Invariant, Guarded, Passing, Launching, Serving, Lost, Servers
<1>3. \A r \in Step : step[r].status = "reserved" => r = s
  BY <1>1, <1>2 DEF Invariant, Reservations
<1>4. /\ guard' \in Guards /\ guard'.doing = "dispatch" /\ guard'.todo = guard.todo
  BY <1>1, Types DEF RecordLaunch, Guards, Doings
<1> DEFINE result == [status |-> "running", report |-> "none"]
<1>5. result \in Result /\ result.status = "running"
  BY DEF Result, ACTIVE, Reports
<1>6. step' = [step EXCEPT ![s].status = "running", ![s].result = result]
  BY DEF RecordLaunch
<1> HIDE DEF result
<1>7. /\ step' \in [Step -> StepRow] /\ step'[s].status = "running"
      /\ step'[s].result = result /\ \A r \in Step : r # s => step'[r] = step[r]
  BY <1>1, <1>5, <1>6, Types, StepTold, ZenonT(60) DEF StepStatus, BUSY_STEPS, ACTIVE
<1>8. UNCHANGED <<run, task, launches, server, driver, events>>
  BY DEF RecordLaunch, natives
<1>9. TypeOK'
  BY <1>1, <1>4, <1>7, <1>8, Types, TypesAfter
<1>10. ASSUME NEW r \in Step
       PROVE  Turns(r)'
  BY <1>5, <1>7, <1>8 DEF Invariant, Turns, ACTIVE, NativeTerminal, BUSY_STEPS
<1>11. Guarded'
  <2>1. Guarded /\ server \notin Lost /\ run.status \notin {"none", "cancelling"}
    BY <1>1, <1>2 DEF Invariant, Guarded, Open, ACTIVE_TEAM
  <2>2. guard.todo \subseteq Step
    BY <1>1, Types DEF Guards
  <2>3. \A r \in guard'.todo : step'[r].status = "pending"
    BY <2>2, <1>1, <1>2, <1>4, <1>7, <1>8, <2>1 DEF Guarded, Launching
  <2> QED
    BY <1>1, <1>2, <1>4, <1>7, <1>8, <2>1, <2>3 DEF Guarded, Cancelling, Passing, Launching
<1>12. Reservations' /\ Quiet' /\ OutcomeIsEarned'
  BY <1>3, <1>4, <1>7, <1>8 DEF Invariant, Reservations, Quiet, OutcomeIsEarned
<1> QED
  BY <1>9, <1>10, <1>11, <1>12 DEF Invariant

-----------------------------------------------------------------------------
(* Stopping a run.                                                         *)

\* What a stop does: the run is cancelling, a pending step is not pending any more,
\* and the holder of the guard goes on to visit the busy ones.
LEMMA StopFacts ==
  ASSUME TypeOK, NEW record \in RunRow, record.status = run.status, record.stop = run.stop,
         Cancelling => run.stop # "none",
         NEW status \in {"failed", "cancelled", "interrupted"}, Stop(record, status)
  PROVE  /\ run' \in RunRow /\ run'.status = "cancelling" /\ run'.stop # "none"
         /\ step' \in [Step -> StepRow]
         /\ \A s \in Step :
              /\ step'[s].result = step[s].result
              /\ step'[s] = step[s] \/ (step[s].status = "pending" /\ step'[s].status \in {"cancelled", "blocked"})
         /\ guard' \in Guards /\ guard'.doing = "flush" /\ guard'.todo = Busy
<1>1. /\ guard' \in Guards /\ guard'.doing = "flush" /\ guard'.todo = Busy
  <2>1. Busy \in SUBSET Step /\ "flush" \in Doings
    BY DEF Busy, Doings
  <2> QED
    BY <2>1, DoingFields, Types, ZenonT(60) DEF Stop
<1>2. CASE Cancelling
  BY <1>1, <1>2, Types DEF Stop, Cancelling
<1>3. CASE ~Cancelling
  <2>1. /\ run' \in RunRow /\ run'.status = "cancelling" /\ run'.stop # "none"
    BY <1>3 DEF Stop, RunRow, ACTIVE_TEAM
  <2>2. ASSUME NEW s \in Step
        PROVE  LET stopped == [step[s] EXCEPT !.status = IF status = "cancelled" THEN status ELSE "blocked"] IN
               /\ stopped \in StepRow /\ stopped.result = step[s].result
               /\ stopped.status \in {"cancelled", "blocked"}
    <3>1. step[s] \in StepRow
      BY Types
    <3> QED
      BY <3>1 DEF StepRow, StepStatus, NativeTerminal
  <2>3. step' = [s \in Step |->
          IF step[s].status # "pending" THEN step[s]
          ELSE [step[s] EXCEPT !.status = IF status = "cancelled" THEN status ELSE "blocked"]]
    BY <1>3 DEF Stop
  <2>4. \A s \in Step : step[s] \in StepRow
    BY Types
  <2> QED
    BY <1>1, <2>1, <2>2, <2>3, <2>4
<1> QED
  BY <1>2, <1>3

\* A turn that was admitted for the open reservation but whose thread cannot start;
\* all others are as they were.
Refused ==
  \E s \in Step :
    /\ step[s].status = "reserved" /\ task[s].status = "none" /\ launches' = [launches EXCEPT ![s] = @ + 1]
    /\ task' = [task EXCEPT ![s] = [status |-> "failed", report |-> "none",
                                    cancel |-> FALSE, live |-> FALSE]]
    /\ \A d \in DependsOn[s] : DependencyHolds(s, d)

\* What a predecessor reported, as the evidence a launch rests on.
LEMMA Evidence ==
  ASSUME NEW s \in Step, NEW d \in Step, DependencyHolds(s, d)
  PROVE  /\ task[d].status = "completed"
         /\ task[d].report \in (IF Policy[s] = "success" THEN {"success"} ELSE {"success", "partial"})
BY DEF DependencyHolds, DependencyReady

\* A step that is admitted: its turn is new, and rests on what others reported.
LEMMA AdmittedTurns ==
  ASSUME Invariant, NEW s \in Step, NEW record \in TaskRow, task[s].status = "none",
         step[s].status # "pending", record.live => record.status \in ACTIVE /\ step[s].status \in BUSY_STEPS,
         record.status \notin {"none", "completed"},
         launches' = [launches EXCEPT ![s] = @ + 1], task' = [task EXCEPT ![s] = record],
         \A d \in DependsOn[s] : DependencyHolds(s, d), 
         \A r \in Step :
           /\ step'[r].result = step[r].result
           /\ step'[r] = step[r] \/ (step[r].status = "pending" /\ step'[r].status \in {"cancelled", "blocked"})
  PROVE  (\A r \in Step : Turns(r)') /\ task' \in [Step -> TaskRow] /\ launches' \in [Step -> Nat]
<1>1. TypeOK /\ \A r \in Step : Turns(r)
  BY DEF Invariant
<1>2. /\ task' \in [Step -> TaskRow] /\ task'[s] = record
      /\ \A r \in Step : r # s => task'[r] = task[r]
  BY <1>1, TaskSet, Types
<1>3. /\ launches' \in [Step -> Nat] /\ launches'[s] = 1
      /\ \A r \in Step : r # s => launches'[r] = launches[r]
  <2>1. launches[s] = 0 /\ launches \in [Step -> Nat]
    BY <1>1, Types DEF Turns
  <2> QED
    BY <2>1
<1>4. \A r, d \in Step : d \in DependsOn[r] /\ (task[r].status # "none" \/ r = s) =>
        /\ task[d].status = "completed"
        /\ task[d].report \in (IF Policy[r] = "success" THEN {"success"} ELSE {"success", "partial"})
  <2> SUFFICES ASSUME NEW r \in Step, NEW d \in Step, d \in DependsOn[r], task[r].status # "none" \/ r = s
               PROVE  /\ task[d].status = "completed"
                      /\ task[d].report \in (IF Policy[r] = "success" THEN {"success"}
                                             ELSE {"success", "partial"})
    OBVIOUS
  <2>1. CASE r = s
    BY <2>1, Evidence
  <2>2. CASE task[r].status # "none"
    BY <1>1, <2>2 DEF Turns
  <2> QED
    BY <2>1, <2>2
<1>5. step[s].result.status \notin NativeTerminal
  <2>1. step[s].result.status \in NativeTerminal =>
          step[s].result = [status |-> "none", report |-> task[s].report]
    BY <1>1 DEF Turns
  <2>2. [status |-> "none", report |-> task[s].report].status = "none"
    OBVIOUS
  <2>3. "none" \notin NativeTerminal
    BY DEF NativeTerminal
  <2> QED
    BY <2>1, <2>2, <2>3, Zenon
<1>6. \A r \in Step : DependsOn[r] \subseteq Step
  OBVIOUS
<1>7. Turns(s)'
  <2>1. \A d \in DependsOn[s] : task'[d] = task[d]
    BY <1>2, <1>4, <1>6
  <2> QED
    BY <1>2, <1>3, <1>4, <1>5, <1>6, <2>1 DEF Turns
<1>8. ASSUME NEW r \in Step, r # s
      PROVE  Turns(r)'
  <2>1. Turns(r) /\ task'[r] = task[r] /\ launches'[r] = launches[r]
    BY <1>1, <1>2, <1>3, <1>8
  <2>2. \A d \in DependsOn[r] : task[r].status # "none" => task'[d] = task[d]
    BY <1>2, <1>4, <1>6
  <2>3. task[r].live => step'[r].status \in BUSY_STEPS
    BY <2>1 DEF Turns, BUSY_STEPS, ACTIVE
  <2>4. step'[r].status = "pending" => step[r].status = "pending"
    OBVIOUS
  <2> QED
    BY <2>1, <2>2, <2>3, <2>4 DEF Turns
<1> QED
  BY <1>2, <1>3, <1>7, <1>8

\* A run that may be stopped is stopped; nothing runs that will not be visited.
LEMMA StopSound ==
  ASSUME Invariant, NEW record \in RunRow, record.status = run.status, record.stop = run.stop,
         run.status \in ACTIVE_TEAM, NEW status \in {"failed", "cancelled", "interrupted"},
         Stop(record, status), UNCHANGED <<task, launches>> \/ Refused,
         server' \in Servers \ Lost, driver' \in Drivers \ {"released"}, events' \in 0..MaxEvents
  PROVE  Invariant'
<1>1. TypeOK /\ (\A s \in Step : Turns(s)) /\ Guarded
  BY DEF Invariant
<1>2. /\ run' \in RunRow /\ run'.status = "cancelling" /\ run'.stop # "none"
      /\ step' \in [Step -> StepRow]
      /\ \A s \in Step :
           /\ step'[s].result = step[s].result
           /\ step'[s] = step[s] \/ (step[s].status = "pending" /\ step'[s].status \in {"cancelled", "blocked"})
      /\ guard' \in Guards /\ guard'.doing = "flush" /\ guard'.todo = Busy
  BY <1>1, StopFacts DEF Guarded
<1>3. /\ task' \in [Step -> TaskRow] /\ launches' \in [Step -> Nat]
      /\ \A s \in Step : Turns(s)' /\ (task'[s].live => task[s].live)
  <2>1. CASE UNCHANGED <<task, launches>>
    <3>1. ASSUME NEW s \in Step
          PROVE  Turns(s)'
      <4>1. Turns(s) /\ step'[s].result = step[s].result
        BY <1>1, <1>2
      <4>2. task[s].live => step'[s].status \in BUSY_STEPS
        BY <1>2, <4>1 DEF Turns, BUSY_STEPS, ACTIVE
      <4>3. step'[s].status = "pending" => step[s].status = "pending"
        BY <1>2
      <4> QED
        BY <2>1, <4>1, <4>2, <4>3 DEF Turns
    <3> QED
      BY <1>1, <2>1, <3>1, Types
  <2>2. CASE Refused
    <3> DEFINE failed == [status |-> "failed", report |-> "none", cancel |-> FALSE, live |-> FALSE]
    <3>1. failed \in TaskRow /\ failed.status = "failed" /\ failed.live = FALSE
      BY DEF TaskRow, TaskStatus, NativeTerminal, Reports
    <3>2. PICK s \in Step :
            /\ step[s].status = "reserved" /\ task[s].status = "none"
            /\ launches' = [launches EXCEPT ![s] = @ + 1] /\ task' = [task EXCEPT ![s] = failed]
            /\ \A d \in DependsOn[s] : DependencyHolds(s, d)
      BY <2>2 DEF Refused
    <3> HIDE DEF failed
    <3>3. (\A r \in Step : Turns(r)') /\ task' \in [Step -> TaskRow] /\ launches' \in [Step -> Nat]
      BY <1>2, <3>1, <3>2, AdmittedTurns
    <3>4. \A r \in Step : task'[r].live => task[r].live
      BY <1>1, <3>1, <3>2, Types
    <3> QED
      BY <3>3, <3>4
  <2> QED
    BY <2>1, <2>2
<1>4. TypeOK'
  BY <1>2, <1>3, TypesAfter
<1>5. Guarded'
  BY <1>2 DEF Guarded, Cancelling, Passing, Launching, Open, Lost, Servers
<1>6. Reservations' /\ OutcomeIsEarned'
  BY <1>2 DEF Reservations, OutcomeIsEarned, Open
<1>7. Quiet'
  <2>1. \A s \in Step : task'[s].live => s \in Busy
    BY <1>1, <1>3 DEF Turns, Busy
  <2> QED
    BY <1>2, <2>1 DEF Quiet, TeamTerminal
<1> QED
  BY <1>3, <1>4, <1>5, <1>6, <1>7 DEF Invariant

-----------------------------------------------------------------------------
(* A pass over the run.                                                    *)

\* The owner goes on in the same run: what it selects and whether it is due changes, and
\* the holder of the guard begins to read rows at most.
LEMMA GoesOn ==
  ASSUME Invariant, run' \in RunRow, run'.stop = run.stop, run'.outcome = run.outcome,
         run'.status = run.status \/ {run.status, run'.status} \subseteq Open,
         UNCHANGED <<step, task, launches>>, guard' \in Guards,
         guard'.doing \in {"nothing", "refresh"}, guard'.doing = "refresh" => run.status \in Open,
         guard.doing \in {"nothing", "refresh"},
         server' \in Servers, server \notin Lost \/ UNCHANGED server,
         server' \in Lost => server \in Lost /\ guard' = guard,
         server' = "closing" => server = "closing" \/ run.status \notin Open,
         driver' \in Drivers, driver' = "draining" => driver = "draining" \/ run.status \notin Open,
         driver' = "released" => driver = "released",
         events' \in 0..MaxEvents
  PROVE  Invariant'
<1>1. TypeOK /\ Guarded
  BY DEF Invariant
<1>2. TypeOK'
  BY <1>1, Types, TypesAfter
<1>3. \A s \in Step : Turns(s)'
  BY DEF Invariant, Turns
<1>4. Guarded'
  BY <1>1 DEF Guarded, Cancelling, Passing, Launching, Open, Lost, ACTIVE_TEAM
<1>5. Reservations'
  <2>1. Serving' /\ run'.status \in Open => Serving /\ run.status \in Open
    BY <1>1, Types DEF Serving, Lost, Servers, Open
  <2> QED
    BY <2>1 DEF Invariant, Reservations
<1>6. Quiet' /\ OutcomeIsEarned'
  BY DEF Invariant, Quiet, OutcomeIsEarned, Open, ACTIVE_TEAM, TeamTerminal
<1> QED
  BY <1>2, <1>3, <1>4, <1>5, <1>6 DEF Invariant

\* A run that is stopping is visited again.
LEMMA FlushesAgain ==
  ASSUME Invariant, Cancelling, Serving, guard' = Doing("flush", Busy),
         UNCHANGED <<run, step, task, launches, server, driver, events>>
  PROVE  Invariant'
<1>1. TypeOK /\ (\A s \in Step : Turns(s)) /\ Guarded
  BY DEF Invariant
<1>2. guard' \in Guards /\ guard'.doing = "flush" /\ guard'.todo = Busy
  <2>1. Busy \in SUBSET Step /\ "flush" \in Doings
    BY DEF Busy, Doings
  <2> QED
    BY <1>1, <2>1, DoingFields, Types
<1>3. TypeOK'
  BY <1>1, <1>2, Types, TypesAfter
<1>4. \A s \in Step : Turns(s)'
  BY <1>1 DEF Turns
<1>5. Guarded'
  BY <1>1, <1>2 DEF Guarded, Cancelling, Passing, Launching, Serving, Lost
<1>6. Reservations' /\ OutcomeIsEarned'
  BY DEF Invariant, Reservations, OutcomeIsEarned, Cancelling, Open
<1>7. Quiet'
  BY <1>1, <1>2 DEF Quiet, Turns, Busy, Cancelling, TeamTerminal
<1> QED
  BY <1>3, <1>4, <1>5, <1>6, <1>7 DEF Invariant

\* Models are selected beside the guard; what comes late changes nothing of a run that
\* stopped.
LEMMA SelectionSound ==
  ASSUME Invariant, SelectBegin \/ SelectEnd \/ SelectFails
  PROVE  Invariant'
<1>1. TypeOK /\ Guarded /\ run \in RunRow /\ guard \in Guards /\ server \in Servers
  BY Types DEF Invariant
<1>2. /\ UNCHANGED <<task, launches, server, events>> /\ guard = Free /\ server \notin Lost
      /\ driver' \in {"selecting", "loop"}
  <2>1. CASE SelectBegin
    BY <2>1 DEF SelectBegin, natives, InLoop, Lost, Stopping, Stop
  <2>2. CASE SelectEnd
    BY <2>2 DEF SelectEnd, natives, Serving, Lost
  <2>3. CASE SelectFails
    BY <2>3 DEF SelectFails, natives, Serving, Lost
  <2> QED
    BY <2>1, <2>2, <2>3
<1>3. guard.doing = "nothing" /\ events' \in 0..MaxEvents
  BY <1>1, <1>2, Types DEF Free
<1>4. ASSUME NEW record \in RunRow, record.status = run.status, record.stop = run.stop,
             run.status \in ACTIVE_TEAM, NEW status \in {"failed", "interrupted"}, Stop(record, status)
      PROVE  Invariant'
  BY <1>1, <1>2, <1>3, <1>4, StopSound DEF Drivers
<1>5. ASSUME run' \in RunRow, run'.stop = run.stop, run'.outcome = run.outcome,
             run'.status = run.status \/ {run.status, run'.status} \subseteq Open,
             UNCHANGED <<step, guard>>
      PROVE  Invariant'
  BY <1>1, <1>2, <1>3, <1>5, GoesOn, Types DEF Drivers
<1>6. CASE SelectBegin
  <2>1. CASE run.due
    BY <1>1, <1>4, <1>6, <2>1 DEF SelectBegin, Stopping, InLoop
  <2>2. CASE ~run.due
    <3>1. run' = [run EXCEPT !.selection = "started"] /\ UNCHANGED <<step, guard>>
      BY <1>6, <2>2 DEF SelectBegin
    <3>2. run' \in RunRow /\ run'.stop = run.stop /\ run'.outcome = run.outcome /\ run'.status = run.status
      BY <1>1, <3>1 DEF RunRow
    <3> QED
      BY <1>5, <3>1, <3>2
  <2> QED
    BY <2>1, <2>2
<1>7. CASE SelectEnd
  <2>1. PICK assigned \in SUBSET Step :
          LET kept == [run EXCEPT !.selection = "made", !.assigned = assigned] IN
          IF run.status \notin ACTIVE_TEAM THEN run' = kept /\ UNCHANGED <<step, guard>>
          ELSE IF Cancelled THEN Stop(kept, "failed")
          ELSE run' = [kept EXCEPT !.status = "running"] /\ UNCHANGED <<step, guard>>
    BY <1>7 DEF SelectEnd
  <2> DEFINE kept == [run EXCEPT !.selection = "made", !.assigned = assigned]
  <2>2. /\ kept \in RunRow /\ kept.status = run.status /\ kept.stop = run.stop
        /\ kept.outcome = run.outcome
    BY <1>1 DEF RunRow
  <2>3. CASE run.status \notin ACTIVE_TEAM
    <3>1. run' = kept /\ UNCHANGED <<step, guard>>
      BY <2>1, <2>3
    <3> HIDE DEF kept
    <3> QED
      BY <1>5, <2>2, <3>1
  <2>4. CASE run.status \in ACTIVE_TEAM /\ Cancelled
    <3>1. Stop(kept, "failed")
      BY <2>1, <2>4
    <3> HIDE DEF kept
    <3> QED
      BY <1>4, <2>2, <2>4, <3>1
  <2>5. CASE run.status \in ACTIVE_TEAM /\ ~Cancelled
    <3>1. run' = [kept EXCEPT !.status = "running"] /\ UNCHANGED <<step, guard>>
      BY <2>1, <2>5
    <3> HIDE DEF kept
    <3>2. run' \in RunRow /\ run'.status = "running" /\ run'.stop = run.stop /\ run'.outcome = run.outcome
      BY <2>2, <3>1 DEF RunRow, ACTIVE_TEAM
    <3>3. {run.status, run'.status} \subseteq Open
      BY <2>5, <3>2 DEF Cancelled, Cancelling, Open, ACTIVE_TEAM
    <3> QED
      BY <1>5, <3>1, <3>2, <3>3
  <2> QED
    BY <2>3, <2>4, <2>5, SMTT(30)
<1>8. CASE SelectFails
  <2>1. PICK kept \in {run, [run EXCEPT !.selection = "unavailable"]} :
          IF run.status \notin ACTIVE_TEAM THEN run' = kept /\ UNCHANGED <<step, guard>>
          ELSE Stop(kept, IF kept = run THEN "interrupted" ELSE "failed")
    BY <1>8 DEF SelectFails
  <2>2. /\ kept \in RunRow /\ kept.status = run.status /\ kept.stop = run.stop
        /\ kept.outcome = run.outcome
    BY <1>1 DEF RunRow
  <2>3. CASE run.status \notin ACTIVE_TEAM
    BY <1>5, <2>1, <2>2, <2>3
  <2>4. CASE run.status \in ACTIVE_TEAM
    BY <1>4, <2>1, <2>2, <2>4
  <2> QED
    BY <2>3, <2>4
<1> QED
  BY <1>6, <1>7, <1>8

\* Whoever stops the run, the controller, a caller or a server that closes.
LEMMA StopsSound ==
  ASSUME Invariant,
         \/ Advance \/ Cancel \/ Assign \/ CloseStop \/ FailStop \/ RefreshFails
         \/ \E s \in Step : AdmitFails(s)
  PROVE  Invariant'
<1>1. TypeOK /\ Guarded /\ run \in RunRow /\ guard \in Guards /\ server \in Servers /\ driver \in Drivers
  BY Types DEF Invariant
<1>2. ASSUME run.status \in ACTIVE_TEAM, NEW status \in {"failed", "cancelled", "interrupted"},
             Stopping(status), UNCHANGED <<task, launches>>, server' \in Servers \ Lost,
             driver' \in Drivers \ {"released"}, events' \in 0..MaxEvents
      PROVE  Invariant'
  BY <1>1, <1>2, StopSound DEF Stopping
<1>3. guard.doing # "nothing" => run.status \in ACTIVE_TEAM /\ server \notin Lost /\ driver # "released"
  BY <1>1 DEF Guarded, Passing, Launching, Open, Guards, Doings, Cancelling, ACTIVE_TEAM
<1>4. driver = "released" => run.status \notin ACTIVE_TEAM
  BY <1>1 DEF Guarded
<1>5. events \in 0..MaxEvents /\ (Called => events' \in 0..MaxEvents)
  BY <1>1, Types DEF Called
<1>6. /\ Doing("refresh", Busy) \in Guards /\ Doing("refresh", Busy).doing = "refresh"
      /\ [Doing("refresh", Busy) EXCEPT !.by = "caller"] \in Guards
      /\ [Doing("refresh", Busy) EXCEPT !.by = "caller"].doing = "refresh"
  <2>1. Busy \in SUBSET Step /\ "refresh" \in Doings
    BY DEF Busy, Doings
  <2>2. Doing("refresh", Busy) \in Guards /\ Doing("refresh", Busy).doing = "refresh"
    BY <1>1, <2>1, DoingFields
  <2> QED
    BY <2>2 DEF Guards
<1> USE DEF rows, natives
<1>7. CASE Advance
  <2>1. /\ guard.doing = "nothing" /\ server = "up" /\ driver = "loop" /\ run.status \in ACTIVE_TEAM
        /\ UNCHANGED <<task, launches, server, driver, events>>
    BY <1>7 DEF Advance, InLoop, Free
  <2>2. CASE Cancelling
    BY <1>7, <2>1, <2>2, FlushesAgain DEF Advance, Serving
  <2>3. CASE ~Cancelling /\ run.due
    BY <1>2, <1>5, <1>7, <2>1, <2>3 DEF Advance, Servers, Lost, Drivers
  <2>4. CASE ~Cancelling /\ ~run.due
    <3>1. guard' = Doing("refresh", Busy) /\ UNCHANGED <<run, step>> /\ run.status \in Open
      BY <1>7, <2>1, <2>4 DEF Advance, Open, Cancelling
    <3> QED
      BY <1>1, <1>5, <1>6, <2>1, <3>1, GoesOn DEF Lost
  <2> QED
    BY <2>2, <2>3, <2>4
<1>8. CASE Cancel
  BY <1>1, <1>2, <1>4, <1>5, <1>8 DEF Cancel, Called, ClosingSet, Lost
<1>9. CASE Assign
  <2>1. /\ server \notin Lost /\ driver # "released" /\ run.status \in Open
        /\ UNCHANGED <<task, launches, server, driver>> /\ events' \in 0..MaxEvents
        /\ guard.doing = "nothing"
    BY <1>1, <1>5, <1>9 DEF Assign, Called, ClosingSet, Lost, Servers, Open, Free
  <2>2. CASE run.due
    BY <1>1, <1>2, <1>9, <2>1, <2>2 DEF Assign, Open
  <2>3. CASE ~run.due
    <3>1. guard' = [Doing("refresh", Busy) EXCEPT !.by = "caller"] /\ UNCHANGED <<run, step>>
      BY <1>9, <2>3 DEF Assign
    <3> QED
      BY <1>1, <1>6, <2>1, <3>1, GoesOn
  <2> QED
    BY <2>2, <2>3
<1>10. CASE CloseStop
  <2>1. CASE run.status \in ACTIVE_TEAM
    BY <1>1, <1>2, <1>4, <1>5, <1>10, <2>1 DEF CloseStop, Servers, Lost
  <2>2. CASE run.status \notin ACTIVE_TEAM
    <3>1. /\ UNCHANGED <<run, step, task, launches, driver, guard, events>> /\ server' = "closing"
          /\ guard.doing = "nothing" /\ server \notin Lost /\ server' \notin Lost /\ server' \in Servers
          /\ run.status \notin Open
      BY <1>10, <2>2 DEF CloseStop, Free, Servers, Lost, Open
    <3> QED
      BY <1>1, <1>5, <3>1, GoesOn
  <2> QED
    BY <2>1, <2>2
<1>11. CASE FailStop
  <2>1. CASE run.status \in ACTIVE_TEAM
    BY <1>1, <1>2, <1>5, <1>11, <2>1 DEF FailStop, Serving, Lost, Drivers
  <2>2. CASE run.status \notin ACTIVE_TEAM
    <3>1. /\ UNCHANGED <<run, step, task, launches, server, guard, events>> /\ driver' = "draining"
          /\ guard.doing = "nothing" /\ server \notin Lost /\ driver' \in Drivers
          /\ run.status \notin Open
      BY <1>11, <2>2 DEF FailStop, Free, Serving, Lost, Drivers, Open
    <3> QED
      BY <1>1, <1>5, <3>1, GoesOn
  <2> QED
    BY <2>1, <2>2
<1>12. CASE RefreshFails
  <2>1. CASE guard.by = "driver"
    BY <1>1, <1>2, <1>3, <1>5, <1>12, <2>1 DEF RefreshFails
  <2>2. CASE guard.by # "driver"
    <3>1. Free \in Guards /\ Free.doing = "nothing"
      BY DEF Free, Guards, Doings
    <3> QED
      BY <1>1, <1>3, <1>5, <1>12, <2>2, <3>1, GoesOn DEF RefreshFails
  <2> QED
    BY <2>1, <2>2
<1>13. CASE \E s \in Step : AdmitFails(s)
  BY <1>1, <1>2, <1>3, <1>5, <1>13 DEF AdmitFails, Reserved
<1> QED
  BY <1>7, <1>8, <1>9, <1>10, <1>11, <1>12, <1>13

\* The steps that are doomed are pending: the least set closed under the rule exists.
LEMMA DoomedArePending ==
  AllDoomed \in SUBSET Step /\ \A s \in AllDoomed : step[s].status = "pending"
<1> DEFINE Least == {s \in Step : \A E \in SUBSET Step : Doomed(E) \subseteq E => s \in E}
<1>1. \A D, E \in SUBSET Step : D \subseteq E => Doomed(D) \subseteq Doomed(E)
  BY DEF Doomed
<1>2. Least \in SUBSET Step /\ \A E \in SUBSET Step : Doomed(E) \subseteq E => Least \subseteq E
  OBVIOUS
<1>3. \A E \in SUBSET Step : Doomed(E) \in SUBSET Step
  BY DEF Doomed
<1> HIDE DEF Least
<1>4. Doomed(Least) \subseteq Least
  <2>1. \A E \in SUBSET Step : Doomed(E) \subseteq E => Doomed(Least) \subseteq E
    BY <1>1, <1>2
  <2> QED
    BY <1>2, <1>3, <2>1 DEF Least
<1>5. Least \subseteq Doomed(Least)
  BY <1>1, <1>2, <1>3, <1>4
<1>6. \E D \in SUBSET Step : D = Doomed(D) /\ \A E \in SUBSET Step : E = Doomed(E) => D \subseteq E
  <2>1. Least = Doomed(Least)
    BY <1>4, <1>5
  <2> QED
    BY <1>2, <2>1
<1>7. AllDoomed \in SUBSET Step /\ AllDoomed = Doomed(AllDoomed)
  BY <1>6 DEF AllDoomed
<1> QED
  BY <1>7 DEF Doomed

\* Doomed steps are blocked; the others stay.
LEMMA BlockedFacts ==
  ASSUME step \in [Step -> StepRow], step' = Blocked
  PROVE  /\ step' \in [Step -> StepRow]
         /\ \A s \in Step :
              /\ step'[s].result = step[s].result
              /\ step'[s] = step[s] \/ (step[s].status = "pending" /\ step'[s].status = "blocked")
<1>1. ASSUME NEW s \in Step
      PROVE  LET blocked == [step[s] EXCEPT !.status = "blocked"] IN
             blocked \in StepRow /\ blocked.result = step[s].result /\ blocked.status = "blocked"
  <2>1. step[s] \in StepRow
    OBVIOUS
  <2> QED
    BY <2>1 DEF StepRow, StepStatus
<1>2. step' = [s \in Step |-> IF s \in AllDoomed THEN [step[s] EXCEPT !.status = "blocked"] ELSE step[s]]
  BY DEF Blocked
<1> QED
  BY <1>1, <1>2, DoomedArePending

\* When steps change and turns do not: a busy step stays so, and results stay.
LEMMA StepsMove ==
  ASSUME Invariant, UNCHANGED <<task, launches>>,
         \A s \in Step :
           /\ step'[s].result = step[s].result
           /\ step'[s] = step[s] \/ (step[s].status = "pending" /\ step'[s].status = "blocked")
  PROVE  \A s \in Step : Turns(s)' /\ (task'[s].live => step'[s].status \in BUSY_STEPS)
<1> SUFFICES ASSUME NEW s \in Step
             PROVE  Turns(s)' /\ (task'[s].live => step'[s].status \in BUSY_STEPS)
  OBVIOUS
<1>1. Turns(s) /\ step'[s].result = step[s].result
  BY DEF Invariant
<1>2. task[s].live => step'[s].status \in BUSY_STEPS
  BY <1>1 DEF Turns, ACTIVE
<1>3. step'[s].status = "pending" => step[s].status = "pending"
  OBVIOUS
<1> QED
  BY <1>1, <1>2, <1>3 DEF Turns

\* All rows were read: the run ends, or goes on with the steps that can be launched.
LEMMA ConsiderSound ==
  ASSUME Invariant, Consider
  PROVE  Invariant'
<1>1. /\ TypeOK /\ Guarded /\ Reservations /\ run \in RunRow /\ guard \in Guards
      /\ step \in [Step -> StepRow] /\ \A s \in Step : Turns(s)
  BY Types DEF Invariant
<1>2. /\ guard.doing = "refresh" /\ run.status \in Open
      /\ UNCHANGED <<task, launches, server, driver, events>>
  BY <1>1 DEF Consider, natives, Guarded, Passing
<1>3. server \notin Lost /\ driver \notin {"draining", "released"} /\ server \notin {"closing", "closed"}
  BY <1>1, <1>2 DEF Guarded
<1>4. CASE run.due
  <2>1. Stopping("failed")
    BY <1>4 DEF Consider
  <2> QED
    BY <1>1, <1>2, <1>3, <2>1, StopSound, Types DEF Stopping, Open
<1>5. CASE ~run.due
  <2>1. /\ step' = Blocked
        /\ IF \A s \in Step : Failed(step'[s])
           THEN /\ run' = [run EXCEPT !.outcome = Outcome(step'),
                           !.status = IF Outcome(step') = "blocked" THEN "failed" ELSE "completed"]
                /\ guard' = Free
           ELSE /\ run' = [run EXCEPT !.status = StatusOf(step')]
                /\ guard' = Doing("dispatch", Launchable(step'))
    BY <1>5 DEF Consider
  <2>2. /\ step' \in [Step -> StepRow]
        /\ \A s \in Step :
             /\ step'[s].result = step[s].result
             /\ step'[s] = step[s] \/ (step[s].status = "pending" /\ step'[s].status = "blocked")
    BY <1>1, <2>1, BlockedFacts
  <2>3. \A s \in Step : Turns(s)' /\ (task'[s].live => step'[s].status \in BUSY_STEPS)
    BY <1>2, <2>2, StepsMove
  <2>4. \A s \in Step : step'[s].status # "reserved"
    <3>1. Serving
      BY <1>1, <1>3, Types DEF Serving, Servers, Lost
    <3> QED
      BY <1>1, <1>2, <2>2, <3>1 DEF Reservations
  <2>5. CASE \A s \in Step : Failed(step'[s])
    <3>1. Outcome(step') \in {"success", "partial", "blocked"}
      BY DEF Outcome
    <3> DEFINE outcome == Outcome(step')
               status == IF outcome = "blocked" THEN "failed" ELSE "completed"
    <3>2. run' = [[run EXCEPT !.outcome = outcome] EXCEPT !.status = status] /\ guard' = Free
      BY <1>1, <2>1, <2>5 DEF RunRow
    <3>3. /\ run' \in RunRow /\ run'.outcome = outcome /\ run'.status = status
          /\ run'.status \in {"failed", "completed"}
      <4> HIDE DEF outcome
      <4>1. outcome \in {"success", "partial", "blocked"}
        BY <3>1 DEF outcome
      <4> QED
        BY <1>1, <3>2, <4>1 DEF RunRow, TeamTerminal
    <3>4. TypeOK'
      BY <1>1, <1>2, <2>2, <3>2, <3>3, Types, TypesAfter DEF Free, Guards, Doings
    <3>5. Guarded'
      BY <1>2, <1>3, <3>2, <3>3 DEF Guarded, Free, Cancelling, Passing, Launching, Open, ACTIVE_TEAM
    <3>6. Reservations'
      BY <3>3 DEF Reservations, Open, ACTIVE_TEAM
    <3>7. Quiet'
      BY <2>3, <2>5, <3>2 DEF Quiet, Free, Failed
    <3>8. ASSUME NEW policy \in {"success", "reported_evidence"}, NEW s \in Step,
                 DependencyReady(policy, step'[s])
          PROVE  /\ task'[s].status = "completed"
                 /\ task'[s].report \in (IF policy = "success" THEN {"success"} ELSE {"success", "partial"})
      <4>1. /\ step'[s].result.status = "completed"
            /\ step'[s].result.report \in (IF policy = "success" THEN {"success"} ELSE {"success", "partial"})
        BY <3>8 DEF DependencyReady
      <4>2. step'[s].result = [status |-> task'[s].status, report |-> task'[s].report]
        BY <2>3, <4>1 DEF Turns, NativeTerminal
      <4>3. /\ [status |-> task'[s].status, report |-> task'[s].report].status = task'[s].status
            /\ [status |-> task'[s].status, report |-> task'[s].report].report = task'[s].report
        OBVIOUS
      <4> HIDE DEF outcome
      <4>4. step'[s].result.status = task'[s].status /\ step'[s].result.report = task'[s].report
        BY <4>2, <4>3, Zenon
      <4> QED
        BY <4>1, <4>4
    <3>9. OutcomeIsEarned'
      <4>1. CASE \A s \in Step : DependencyReady("success", step'[s])
        <5>1. \A s \in Step : task'[s].status = "completed" /\ task'[s].report = "success"
          BY <3>8, <4>1
        <5> QED
          BY <5>1 DEF OutcomeIsEarned
      <4>2. CASE /\ Policy[Final] = "reported_evidence"
                 /\ DependencyReady("success", step'[Final])
                 /\ \A s \in Step : DependencyReady(Policy[Final], step'[s])
                 /\ ~\A s \in Step : DependencyReady("success", step'[s])
        <5>1. outcome = "partial"
          BY <4>2 DEF Outcome
        <5>2. task'[Final].report = "success"
          BY <3>8, <4>2
        <5>3. \A s \in Step : task'[s].status = "completed" /\ task'[s].report \in {"success", "partial"}
          BY <3>8, <4>2
        <5> HIDE DEF outcome, status
        <5> QED
          BY <3>3, <5>1, <5>2, <5>3 DEF OutcomeIsEarned
      <4>3. CASE outcome = "blocked"
        BY <3>3, <4>3 DEF OutcomeIsEarned
      <4> QED
        BY <4>1, <4>2, <4>3 DEF Outcome
    <3> QED
      BY <2>3, <3>4, <3>5, <3>6, <3>7, <3>9 DEF Invariant
  <2>6. CASE ~\A s \in Step : Failed(step'[s])
    <3> DEFINE status == StatusOf(step')
    <3>1. status \in {"waiting_input", "running", "waiting_models"}
      BY DEF StatusOf
    <3>2. run' = [run EXCEPT !.status = status] /\ guard' = Doing("dispatch", Launchable(step'))
      BY <2>1, <2>6
    <3>3. /\ run' \in RunRow /\ run'.status \in Open
      <4> HIDE DEF status
      <4> QED
        BY <1>1, <3>1, <3>2 DEF RunRow, Open, ACTIVE_TEAM
    <3>4. Launchable(step') \in SUBSET Step /\ \A s \in Launchable(step') : step'[s].status = "pending"
      BY <1>1 DEF Launchable, RunRow
    <3>5. /\ guard' \in Guards /\ guard'.doing = "dispatch" /\ guard'.todo = Launchable(step')
      BY <1>1, <3>2, <3>4, DoingFields DEF Doings
    <3>6. TypeOK'
      BY <1>1, <1>2, <2>2, <3>3, <3>5, Types, TypesAfter
    <3>7. Guarded'
      BY <1>2, <1>3, <3>3, <3>4, <3>5 DEF Guarded, Cancelling, Passing, Launching, Open, ACTIVE_TEAM
    <3>8. Reservations' /\ Quiet' /\ OutcomeIsEarned'
      BY <2>4, <3>3, <3>5 DEF Reservations, Quiet, OutcomeIsEarned, Open, ACTIVE_TEAM, TeamTerminal
    <3> QED
      BY <2>3, <3>6, <3>7, <3>8 DEF Invariant
  <2> QED
    BY <2>5, <2>6
<1> QED
  BY <1>4, <1>5

\* A caller's pass ends with models for the steps that waited for one.
LEMMA AgreedSound ==
  ASSUME Invariant, Agreed
  PROVE  Invariant'
<1>1. /\ TypeOK /\ Guarded /\ Reservations /\ run \in RunRow /\ guard \in Guards
      /\ step \in [Step -> StepRow]
  BY Types DEF Invariant
<1>2. /\ guard.doing = "refresh" /\ run.status \in Open
      /\ UNCHANGED <<task, launches, server, driver, events>>
  BY <1>1 DEF Agreed, natives, Guarded, Passing
<1>3. server \notin Lost /\ driver \notin {"draining", "released"} /\ server \notin {"closing", "closed"}
  BY <1>1, <1>2 DEF Guarded
<1>4. CASE Stopping("failed")
  BY <1>1, <1>2, <1>3, <1>4, StopSound, Types DEF Stopping, Open
<1>5. CASE ~Stopping("failed")
  <2>1. /\ step' = Blocked /\ guard' = Free
        /\ \E pending \in SUBSET Step :
             run' \in {run, [run EXCEPT !.assigned = @ \union pending, !.status = "running"]}
    <3>1. /\ step' = Blocked /\ guard' = Free
          /\ LET pending == {s \in Step : step'[s].status = "pending"} \ run.assigned IN
             run' = IF run.selection = "made" /\ pending # {} /\ ~run.due
                    THEN [run EXCEPT !.assigned = @ \union pending, !.status = "running"] ELSE run
      BY <1>5 DEF Agreed
    <3>2. {s \in Step : step'[s].status = "pending"} \ run.assigned \in SUBSET Step
      OBVIOUS
    <3> QED
      BY <3>1, <3>2
  <2>2. /\ step' \in [Step -> StepRow]
        /\ \A s \in Step :
             /\ step'[s].result = step[s].result
             /\ step'[s] = step[s] \/ (step[s].status = "pending" /\ step'[s].status = "blocked")
    BY <1>1, <2>1, BlockedFacts
  <2>3. \A s \in Step : Turns(s)'
    BY <1>2, <2>2, StepsMove
  <2>4. run' \in RunRow /\ run'.status \in Open
    <3>1. PICK pending \in SUBSET Step :
             run' \in {run, [run EXCEPT !.assigned = @ \union pending, !.status = "running"]}
      BY <2>1
    <3>2. run.assigned \union pending \in SUBSET Step
      BY <1>1 DEF RunRow
    <3>3. LET agreed == [run EXCEPT !.assigned = @ \union pending, !.status = "running"] IN
          agreed \in RunRow /\ agreed.status = "running"
      BY <1>1, <3>2 DEF RunRow, ACTIVE_TEAM
    <3> QED
      BY <1>1, <1>2, <3>1, <3>3 DEF Open, ACTIVE_TEAM
  <2>5. TypeOK'
    BY <1>1, <1>2, <2>1, <2>2, <2>4, Types, TypesAfter DEF Free, Guards, Doings
  <2>6. Guarded'
    BY <1>2, <1>3, <2>1, <2>4 DEF Guarded, Free, Cancelling, Passing, Launching, Open, ACTIVE_TEAM
  <2>7. Reservations'
    <3>1. Serving
      BY <1>1, <1>3, Types DEF Serving, Servers, Lost
    <3> QED
      BY <1>1, <1>2, <2>2, <3>1 DEF Reservations
  <2>8. Quiet' /\ OutcomeIsEarned'
    BY <2>1, <2>4 DEF Quiet, OutcomeIsEarned, Free, Open, ACTIVE_TEAM, TeamTerminal
  <2> QED
    BY <2>3, <2>5, <2>6, <2>7, <2>8 DEF Invariant
<1> QED
  BY <1>4, <1>5

\* A busy step is told what the row of its turn says.
LEMMA RefreshStepSound ==
  ASSUME Invariant, NEW s \in Step, RefreshStep(s)
  PROVE  Invariant'
<1>1. /\ TypeOK /\ Guarded /\ Reservations /\ run \in RunRow /\ guard \in Guards /\ Turns(s)
      /\ step \in [Step -> StepRow] /\ task[s] \in TaskRow
  BY Types DEF Invariant
<1>2. /\ guard.doing = "refresh" /\ run.status \in Open /\ s \in guard.todo
      /\ UNCHANGED <<task, launches, server, driver, events>>
  BY <1>1 DEF RefreshStep, natives, Guarded, Passing
<1>3. server \notin Lost /\ driver \notin {"draining", "released"}
  BY <1>1, <1>2 DEF Guarded
<1>4. CASE task[s].status = "none"
  <2>1. Stopping("interrupted")
    BY <1>4 DEF RefreshStep
  <2> QED
    BY <1>1, <1>2, <1>3, <2>1, StopSound, Types DEF Stopping, Open
<1>5. CASE task[s].status # "none"
  <2> DEFINE settled == Settled(task[s])
             result == [status |-> task[s].status, report |-> task[s].report]
  <2>1. /\ step' = [step EXCEPT ![s].status = settled, ![s].result = result]
        /\ guard' = Visited(s) /\ UNCHANGED run
    BY <1>5 DEF RefreshStep
  <2>2. /\ settled \in StepStatus \ {"pending", "reserved"} /\ (task[s].status \in ACTIVE => settled \in BUSY_STEPS)
    BY <1>1 DEF Settled, TaskRow, StepStatus, BUSY_STEPS, ACTIVE, NativeTerminal
  <2>3. result \in Result
    BY <1>1 DEF Result, TaskRow, TaskStatus
  <2>4. /\ step' \in [Step -> StepRow] /\ step'[s].status = settled /\ step'[s].result = result
        /\ \A r \in Step : r # s => step'[r] = step[r]
    <3> HIDE DEF settled, result
    <3> QED
      BY <1>1, <2>1, <2>2, <2>3, StepTold
  <2>5. /\ guard' \in Guards /\ guard'.doing = "refresh" /\ guard'.todo = guard.todo \ {s}
    BY <1>1, <1>2, <2>1, VisitedFields
  <2>6. TypeOK'
    BY <1>1, <1>2, <2>1, <2>4, <2>5, Types, TypesAfter
  <2>7. ASSUME NEW r \in Step
        PROVE  Turns(r)'
    <3>1. CASE r = s
      <4>1. task[s].live => step'[s].status \in BUSY_STEPS
        BY <1>1, <2>2, <2>4 DEF Turns
      <4>2. step'[s].result = [status |-> task[s].status, report |-> task[s].report] /\ step'[s].status # "pending"
        BY <2>2, <2>4
      <4> QED
        BY <1>1, <1>2, <3>1, <4>1, <4>2 DEF Turns
    <3>2. CASE r # s
      BY <1>2, <2>4, <3>2 DEF Invariant, Turns
    <3> QED
      BY <3>1, <3>2
  <2>8. Guarded'
    BY <1>2, <1>3, <2>1, <2>5, <1>1 DEF Guarded, Cancelling, Passing, Launching, Open, ACTIVE_TEAM
  <2>9. Reservations' /\ Quiet' /\ OutcomeIsEarned'
    <3>1. Serving
      BY <1>1, <1>3, Types DEF Serving, Servers, Lost
    <3>2. \A r \in Step : step'[r].status # "reserved"
      BY <1>1, <1>2, <2>2, <2>4, <3>1 DEF Reservations
    <3> QED
      BY <1>2, <2>1, <2>5, <3>2 DEF Invariant, Reservations, Quiet, OutcomeIsEarned
  <2> QED
    BY <2>6, <2>7, <2>8, <2>9 DEF Invariant
<1> QED
  BY <1>4, <1>5

\* A turn is admitted for the open reservation.
LEMMA AdmitSound ==
  ASSUME Invariant, NEW s \in Step, Admit(s)
  PROVE  Invariant'
<1>1. /\ TypeOK /\ Guarded /\ Reservations /\ run \in RunRow /\ guard \in Guards
      /\ step \in [Step -> StepRow]
  BY Types DEF Invariant
<1>2. /\ guard.doing = "admit" /\ step[s].status = "reserved" /\ task[s].status = "none"
      /\ run.status \in Open /\ launches' = [launches EXCEPT ![s] = @ + 1]
      /\ \A d \in DependsOn[s] : DependencyHolds(s, d)
      /\ UNCHANGED <<server, driver, events>>
  BY <1>1 DEF Admit, Reserved, Valid, Guarded, Passing, Launching
<1>3. server \notin Lost /\ driver \notin {"draining", "released"}
  BY <1>1, <1>2 DEF Guarded
<1>4. CASE Stopping("interrupted") /\
           task' = [task EXCEPT ![s] = [status |-> "failed", report |-> "none",
                                        cancel |-> FALSE, live |-> FALSE]]
  <2>1. Refused
    BY <1>2, <1>4 DEF Refused
  <2> QED
    BY <1>1, <1>2, <1>3, <1>4, <2>1, StopSound, Types DEF Stopping, Open
<1> DEFINE started == [status |-> "running", report |-> "none", cancel |-> FALSE, live |-> TRUE]
<1>5. CASE /\ task' = [task EXCEPT ![s] = started]
           /\ guard' = [guard EXCEPT !.doing = "record"] /\ UNCHANGED rows
  <2>1. started \in TaskRow /\ started.status = "running"
    BY DEF TaskRow, TaskStatus, ACTIVE, Reports
  <2>2. guard' \in Guards /\ guard'.doing = "record" /\ guard'.todo = guard.todo
    BY <1>1, <1>5 DEF Guards, Doings
  <2>3. UNCHANGED <<run, step>>
    BY <1>5 DEF rows
  <2>4. task' = [task EXCEPT ![s] = started]
    BY <1>5
  <2> HIDE DEF started
  <2>5. (\A r \in Step : Turns(r)') /\ task' \in [Step -> TaskRow] /\ launches' \in [Step -> Nat]
    BY <1>2, <2>1, <2>3, <2>4, AdmittedTurns DEF ACTIVE, BUSY_STEPS
  <2>6. TypeOK'
    BY <1>1, <1>2, <2>2, <2>3, <2>5, Types, TypesAfter
  <2>7. Guarded'
    BY <1>1, <1>2, <1>3, <2>2, <2>3 DEF Guarded, Cancelling, Passing, Launching, Open, ACTIVE_TEAM
  <2>8. Reservations'
    BY <1>1, <1>2, <2>2, <2>3 DEF Reservations, Serving
  <2>9. Quiet' /\ OutcomeIsEarned'
    BY <1>2, <2>2, <2>3 DEF Quiet, OutcomeIsEarned, Open, ACTIVE_TEAM, TeamTerminal
  <2> QED
    BY <2>5, <2>6, <2>7, <2>8, <2>9 DEF Invariant
<1> QED
  BY <1>4, <1>5 DEF Admit

\* A busy step is told to stop, and its row is read or not.
LEMMA FlushSound ==
  ASSUME Invariant, NEW s \in Step, FlushStep(s) \/ FlushFails(s)
  PROVE  Invariant'
<1>1. /\ TypeOK /\ Guarded /\ Quiet /\ OutcomeIsEarned /\ run \in RunRow /\ guard \in Guards
      /\ step \in [Step -> StepRow] /\ task \in [Step -> TaskRow] /\ \A r \in Step : Turns(r)
  BY Types DEF Invariant
<1>2. /\ guard.doing = "flush" /\ run.status = "cancelling" /\ s \in guard.todo
      /\ UNCHANGED <<run, launches, server, driver, events>>
  BY <1>1 DEF FlushStep, FlushFails, rows, Guarded, Cancelling
<1> DEFINE told == Told(s)
           result == [status |-> told.status, report |-> told.report]
<1>3. /\ told \in TaskRow /\ told.report = task[s].report /\ told.live = task[s].live
      /\ told.status = IF task[s].status \in ACTIVE THEN "cancelling" ELSE task[s].status
  <2>1. task[s] \in TaskRow
    BY <1>1
  <2> QED
    BY <2>1 DEF Told, TaskRow, TaskStatus, ACTIVE
<1>4. result \in Result /\ result.status = told.status
  BY <1>3 DEF TaskRow, TaskStatus, Result
<1> HIDE DEF told, result
<1>5. task[s].live => told.status \in ACTIVE
  BY <1>1, <1>3 DEF Turns, ACTIVE
<1>6. ASSUME /\ task' = [task EXCEPT ![s] = told] \/ (task' = task /\ task[s].status = "none")
             /\ step' \in [Step -> StepRow] /\ \A r \in Step : r # s => step'[r] = step[r]
             /\ \/ step'[s] = step[s]
                \/ step'[s].status = told.status /\ step'[s].result = result
                   /\ task' = [task EXCEPT ![s] = told] /\ task[s].status # "none"
                \/ step'[s].status = "interrupted" /\ step'[s].result = step[s].result
                   /\ task[s].status = "none"
             /\ guard' \in Guards /\ guard'.doing = "flush" /\ guard'.todo = guard.todo \ {s}
             /\ guard.active => guard'.active
             /\ task[s].live => guard'.active
      PROVE  Invariant'
  <2>1. /\ task' \in [Step -> TaskRow] /\ \A r \in Step : r # s => task'[r] = task[r]
        /\ task'[s].report = task[s].report /\ task'[s].live = task[s].live
        /\ task'[s].status = told.status
    <3>1. CASE task' = [task EXCEPT ![s] = told]
      BY <1>1, <1>3, <3>1
    <3>2. CASE task' = task /\ task[s].status = "none"
      BY <1>1, <1>3, <3>2 DEF ACTIVE
    <3> QED
      BY <1>6, <3>1, <3>2
  <2>2. TypeOK'
    BY <1>1, <1>2, <1>6, <2>1, Types, TypesAfter
  <2>3. \A r \in Step : task[r].status = "completed" => task'[r].status = "completed"
    BY <1>3, <2>1 DEF ACTIVE
  <2>4. \A r \in Step : task'[r].report = task[r].report /\ task'[r].live = task[r].live
                        /\ (task'[r].status = "none" <=> task[r].status = "none")
    BY <1>3, <2>1 DEF ACTIVE
  <2>5. step[s].result.status \in NativeTerminal => task'[s].status = task[s].status
    <3> SUFFICES ASSUME step[s].result.status \in NativeTerminal
                 PROVE  task[s].status \notin ACTIVE
      BY <1>3, <2>1
    <3>1. step[s].result = [status |-> task[s].status, report |-> task[s].report]
      BY <1>1 DEF Turns
    <3>2. [status |-> task[s].status, report |-> task[s].report].status = task[s].status
      OBVIOUS
    <3>3. task[s].status \in NativeTerminal
      BY <3>1, <3>2, Zenon
    <3> QED
      BY <3>3 DEF NativeTerminal, ACTIVE
  <2>6. ASSUME NEW r \in Step
        PROVE  Turns(r)'
    <3>1. Turns(r) /\ launches'[r] = launches[r] /\ DependsOn[r] \subseteq Step
      BY <1>1, <1>2
    <3>2. CASE r # s
      <4>1. step'[r] = step[r] /\ task'[r] = task[r]
        BY <1>6, <2>1, <3>2
      <4> QED
        BY <2>3, <2>4, <3>1, <4>1 DEF Turns
    <3>3. CASE r = s
      <4>1. task'[s].live => task'[s].status \in ACTIVE
        BY <1>5, <2>1
      <4>2. CASE step'[s] = step[s]
        BY <2>1, <2>3, <2>4, <2>5, <3>1, <3>3, <4>1, <4>2 DEF Turns
      <4>3. CASE step'[s].status = told.status /\ step'[s].result = result /\ task[s].status # "none"
        <5>1. step'[s].result = [status |-> task'[s].status, report |-> task'[s].report]
          BY <1>3, <2>1, <4>3 DEF result
        <5>2. step'[s].status # "pending" /\ (task'[s].live => step'[s].status \in BUSY_STEPS)
          <6>1. told.status # "pending"
            BY <1>3 DEF TaskRow, TaskStatus, ACTIVE, NativeTerminal
          <6> QED
            BY <1>5, <2>1, <4>3, <6>1 DEF BUSY_STEPS
        <5> QED
          BY <2>3, <2>4, <3>1, <3>3, <4>1, <5>1, <5>2 DEF Turns
      <4>4. CASE step'[s].status = "interrupted" /\ step'[s].result = step[s].result /\ task[s].status = "none"
        <5>1. ~task'[s].live
          BY <2>1, <3>1, <3>3, <4>4 DEF Turns, ACTIVE
        <5> QED
          BY <2>1, <2>3, <2>4, <2>5, <3>1, <3>3, <4>4, <5>1 DEF Turns
      <4> QED
        BY <1>6, <4>2, <4>3, <4>4
    <3> QED
      BY <3>2, <3>3
  <2>7. Guarded'
    BY <1>1, <1>2, <1>6, <2>4 DEF Guarded, Cancelling, Passing, Launching, Open, ACTIVE_TEAM
  <2>8. Reservations' /\ OutcomeIsEarned'
    BY <1>2 DEF Reservations, OutcomeIsEarned, Open
  <2>9. Quiet'
    <3>1. \A r \in Step : task'[r].live => r \in guard'.todo \/ guard'.active
      BY <1>1, <1>2, <1>6, <2>4 DEF Quiet
    <3> QED
      BY <1>2, <3>1 DEF Quiet, TeamTerminal
  <2> QED
    BY <2>2, <2>6, <2>7, <2>8, <2>9 DEF Invariant
<1>7. CASE FlushFails(s)
  <2>1. /\ task' = [task EXCEPT ![s] = told] /\ step' = step
        /\ guard' = [Visited(s) EXCEPT !.active = TRUE]
    BY <1>7 DEF FlushFails, rows, told
  <2>2. /\ guard' \in Guards /\ guard'.doing = "flush" /\ guard'.todo = guard.todo \ {s} /\ guard'.active
    BY <1>1, <1>2, <2>1, VisitedFields DEF Guards
  <2> QED
    BY <1>1, <1>6, <2>1, <2>2
<1>8. CASE FlushStep(s) /\ task[s].status = "none"
  <2>1. /\ UNCHANGED task /\ step' = [step EXCEPT ![s].status = "interrupted"] /\ guard' = Visited(s)
    BY <1>8 DEF FlushStep
  <2>2. /\ guard' \in Guards /\ guard'.doing = "flush" /\ guard'.todo = guard.todo \ {s}
        /\ guard'.active = guard.active
    BY <1>1, <1>2, <2>1, VisitedFields
  <2>3. /\ step' \in [Step -> StepRow] /\ step'[s].status = "interrupted"
        /\ step'[s].result = step[s].result /\ \A r \in Step : r # s => step'[r] = step[r]
    BY <1>1, <2>1, StepStated DEF StepStatus, NativeTerminal
  <2>4. ~task[s].live
    BY <1>1, <1>8 DEF Turns, ACTIVE
  <2> QED
    BY <1>6, <1>8, <2>1, <2>2, <2>3, <2>4
<1>9. CASE FlushStep(s) /\ task[s].status # "none"
  <2>1. /\ task' = [task EXCEPT ![s] = told]
        /\ step' = [step EXCEPT ![s].status = told.status, ![s].result = result]
        /\ guard' = [Visited(s) EXCEPT !.active = @ \/ told.status \in ACTIVE]
    BY <1>9 DEF FlushStep, told, result
  <2>2. /\ guard' \in Guards /\ guard'.doing = "flush" /\ guard'.todo = guard.todo \ {s}
        /\ guard'.active = (guard.active \/ told.status \in ACTIVE)
    BY <1>1, <1>2, <2>1, VisitedFields DEF Guards
  <2>3. told.status \in StepStatus
    BY <1>3, <1>9 DEF TaskRow, TaskStatus, StepStatus, ACTIVE, BUSY_STEPS
  <2>4. /\ step' \in [Step -> StepRow] /\ step'[s].status = told.status
        /\ step'[s].result = result /\ \A r \in Step : r # s => step'[r] = step[r]
    BY <1>1, <1>4, <2>1, <2>3, StepTold, ZenonT(60)
  <2> QED
    BY <1>5, <1>6, <1>9, <2>1, <2>2, <2>4
<1> QED
  BY <1>7, <1>8, <1>9

-----------------------------------------------------------------------------
(* The theorems.                                                           *)

\* The invariant holds at first.
LEMMA InitInvariant == Init => Invariant
<1> SUFFICES ASSUME Init
             PROVE  Invariant
  OBVIOUS
<1>1. TypeOK
  BY DEF Init, TypeOK, Free, NoResult, Result, Reports
<1>2. \A s \in Step : Turns(s)
  BY DEF Init, Turns, NoResult, NativeTerminal
<1>3. Guarded /\ Reservations /\ Quiet /\ OutcomeIsEarned
  BY DEF Init, Guarded, Reservations, Quiet, OutcomeIsEarned, Free, Cancelling, Open, ACTIVE_TEAM,
         TeamTerminal, Passing, Launching, Lost
<1> QED
  BY <1>1, <1>2, <1>3 DEF Invariant

\* Every step keeps the invariant.
LEMMA NextInvariant == Invariant /\ [Next]_vars => Invariant'
<1> SUFFICES ASSUME Invariant, [Next]_vars
             PROVE  Invariant'
  OBVIOUS
<1>1. CASE Controller
  BY <1>1, SelectionSound, StopsSound, ConsiderSound, OwnerSound, PutOffSound, ReserveSound DEF Controller
<1>2. CASE Holder
  BY <1>2, OwnerSound, AgreedSound, FlushSound, RefreshStepSound, RecordLaunchSound DEF Holder
<1>3. CASE Admission
  BY <1>3, StopsSound, AdmitSound, AdmitBusySound DEF Admission
<1>4. CASE Callers
  BY <1>4, OwnerSound, StopsSound, ServerEnds DEF Callers
<1>5. CASE Others
  BY <1>5, OwnerSound, ServerEnds, RecoverSound DEF Others
<1>6. CASE \E s \in Step : Turn(s)
  BY <1>6, TurnSound
<1>7. CASE UNCHANGED vars
  <2> USE <1>7 DEF vars
  <2>1. TypeOK'
    BY DEF Invariant, TypeOK
  <2>2. \A s \in Step : Turns(s)'
    BY DEF Invariant, Turns
  <2>3. Guarded' /\ Reservations' /\ Quiet' /\ OutcomeIsEarned'
    BY DEF Invariant, Guarded, Reservations, Quiet, OutcomeIsEarned, Cancelling, Serving
  <2> QED
    BY <2>1, <2>2, <2>3 DEF Invariant
<1> QED
  BY <1>1, <1>2, <1>3, <1>4, <1>5, <1>6, <1>7 DEF Next

\* The rows of a run, its steps and their turns agree in every state.
THEOREM RunsAreInductive == Spec => []Invariant
BY InitInvariant, NextInvariant, PTL DEF Spec

\* Work is launched once for a step and on evidence, and a completed run claims no more
\* than its turns did.
THEOREM RunEarned == Spec => []RunIsEarned
<1>1. Invariant => RunIsEarned
  <2> SUFFICES ASSUME Invariant
               PROVE  RunIsEarned
    OBVIOUS
  <2>1. TypeOK /\ OutcomeIsEarned /\ \A s \in Step : Turns(s)
    BY DEF Invariant
  <2>2. ASSUME NEW s \in Step
        PROVE  launches[s] <= 1 /\ (launches[s] > 0 => task[s].status # "none")
    <3>1. Turns(s)
      BY <2>1
    <3>2. launches[s] = IF task[s].status = "none" THEN 0 ELSE 1
      BY <3>1 DEF Turns
    <3> QED
      BY <3>2
  <2>3. LaunchedOnce
    BY <2>2 DEF LaunchedOnce
  <2>4. LaunchedOnEvidence
    <3> SUFFICES ASSUME NEW s \in Step, launches[s] > 0, NEW d \in DependsOn[s]
                 PROVE  /\ task[d].status = "completed"
                        /\ task[d].report \in (IF Policy[s] = "success" THEN {"success"}
                                              ELSE {"success", "partial"})
      BY DEF LaunchedOnEvidence
    <3> QED
      BY <2>1, <2>2 DEF Turns
  <2> QED
    BY <2>1, <2>3, <2>4 DEF RunIsEarned
<1> QED
  BY <1>1, RunsAreInductive, PTL

\* A step revives no run that ended.
LEMMA EndedStays ==
  ASSUME Invariant, [Next]_vars, run.status \in TeamTerminal
  PROVE  run'.status = run.status
<1>1. /\ TypeOK /\ run \in RunRow
      /\ run.status \notin ACTIVE_TEAM \union {"none"} /\ guard.doing = "nothing"
  BY Types DEF Invariant, Guarded, Cancelling, Passing, Launching, Open, ACTIVE_TEAM, TeamTerminal,
               Guards, Doings
<1>2. CASE SelectEnd
  BY <1>1, <1>2 DEF SelectEnd, RunRow
<1>3. CASE SelectFails
  BY <1>1, <1>3 DEF SelectFails, RunRow
<1>4. CASE ~SelectEnd /\ ~SelectFails
  BY <1>1, <1>4
     DEF vars, rows, natives, owner, InLoop, Free, Cancelling, ACTIVE_TEAM,
         Next, Controller, Holder, Admission, Callers, Others, Turn,
         SelectBegin, Advance, Consider, StopDispatching, Leave, FailStop, Release, PutOff, Reserve,
         EndFlush, Agreed, Drain, FlushStep, FlushFails, RefreshStep, RecordLaunch,
         RefreshFails, Reserved, Admit, AdmitBusy, AdmitFails, Start, Cancel, Assign, RequestClose,
         CloseStop, Closed, LoopFails, Crash, Recover, Elapse, Work, End, RecoverTask
<1> QED
  BY <1>2, <1>3, <1>4

\* The end of a run is final, whoever was late; and none of its turns runs any more.
THEOREM EndStanding == Spec => EndStands
<1>1. Invariant => EndedIsQuiet
  BY DEF Invariant, Quiet, EndedIsQuiet
<1>2. Invariant /\ [Next]_vars => [run.status \in TeamTerminal => run'.status = run.status]_vars
  BY EndedStays
<1> QED
  BY <1>1, <1>2, RunsAreInductive, PTL DEF Spec, EndStands, EndIsFinal
=============================================================================
