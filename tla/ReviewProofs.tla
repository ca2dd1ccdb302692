---------------------------- MODULE ReviewProofs ----------------------------
(***************************************************************************)
(* Proofs about reviews: the stages of a review run and its end, the       *)
(* snapshot that a capture takes of a project that keeps moving, the       *)
(* checks run for a review attempt, the findings and their corrective      *)
(* reviews, and the import of conversations from the store that projects   *)
(* once shared.  The five share no state; each has an inductive invariant  *)
(* of its own.                                                             *)
(***************************************************************************)
EXTENDS ReviewRuns, ReviewCapture, ReviewChecks, ReviewFindings, LegacyMigration,
        SequenceTheorems, TLAPS

-----------------------------------------------------------------------------
(* ReviewRuns.  The owner of a run decides under the guard of the project, *)
(* so that a stage is reserved, admitted and finished by one driver; what  *)
(* a stop, a crash or a recovery changes is the end of the run only.       *)

\* The rows of a run, its stages, their tasks, and what its owner remembers.
RunRow == [status : {"none"} \union RUN_ACTIVE \union RunTerminal,
              phase : {"capture"} \union Stage, mapped : BOOLEAN,
              capture_started : BOOLEAN, compare : BOOLEAN, due : BOOLEAN,
              outcome : Reports, untold : BOOLEAN]
StageRow == [reserved : BOOLEAN,
                          saved : [status : {"none"} \union NativeTerminal, report : Reports]]
TurnRow == [status : {"none"} \union ACTIVE \union NativeTerminal,
                         report : Reports, told : BOOLEAN, live : BOOLEAN]
ChildRow == [state : {"none", "reading", "publishing", "exited", "dead"},
                killed : BOOLEAN, changes : {"none", "some", "unknown"}]
OwnerMemory == [stop : Stops, capture : {"none", "some", "empty", "bad"}]
RunTyped ==
  /\ run \in RunRow /\ stage \in [Stage -> StageRow] /\ task \in [Stage -> TurnRow]
  /\ launches \in [Stage -> Nat] /\ child \in ChildRow
  /\ lock \in {"free", "child", "owner", "other"}
  /\ memory \in OwnerMemory
  /\ server \in {"up", "closing", "closed", "dead"}
  /\ driver \in {"none", "loop", "spawning", "reserved", "admitted", "failing",
                 "gone", "released"}
  /\ faults \in 0..MaxFaults

Deciding == driver \in {"reserved", "admitted"}

\* A run that is being decided on holds the guard of the project, and so does a child
\* that publishes; neither lets it go on its own.
Owned ==
  /\ Deciding => lock = "owner" /\ run.status = "starting"
  /\ child.state = "publishing" => lock = "child"
\* A run that was not started was not stopped, and one that is stopped and over is
\* interrupted: no other end follows a stop.
NotStarted == run.status = "none" => run.phase = "capture" /\ ~Stopping
Decided == (Stopping /\ ~Active) => run.status = "interrupted"
\* What the child or the capture still has to say is about the first phase.
Captured ==
  /\ driver = "spawning" => child.state = "none"
  /\ driver = "spawning" \/ child.state # "none" => memory.capture = "none"
  /\ driver = "spawning" \/ child.state # "none" \/ memory.capture # "none" =>
       run.phase = "capture"
ControlInv == Owned /\ NotStarted /\ Decided /\ Captured

\* A stage is launched once, from a reservation of a mapped run, in its phase; what is
\* saved of it is what its task ended with; the comparison only begins on a success.
Launched(s) ==
  /\ launches[s] \in {0, 1}
  /\ launches[s] = 0 <=> task[s].status = "none"
  /\ launches[s] = 1 => stage[s].reserved /\ run.mapped /\ run.phase \in {s, "comparison"}
ResultIsTrue(s) ==
  stage[s].saved # NoResult =>
    /\ task[s].status \in NativeTerminal
    /\ stage[s].saved = [status |-> task[s].status, report |-> task[s].report]
Compared ==
  run.phase = "comparison" =>
    /\ run.compare
    /\ stage["independent"].saved = [status |-> "completed", report |-> "success"]
Outcome ==
  (run.status = "completed" /\ run.outcome = "success") =>
     LET last == IF run.compare THEN "comparison" ELSE "independent" IN
       task[last].status = "completed" /\ task[last].report = "success"
Earned == (\A s \in Stage : Launched(s) /\ ResultIsTrue(s)) /\ Compared /\ Outcome

\* The tasks of a run that is over know it.
EndTold ==
  (run.status \in RunTerminal /\ driver \in {"loop", "spawning"} /\ Serving /\ ~Stopping) =>
    \A s \in Stage : task[s].status \in ACTIVE => task[s].told \/ run.untold

RunInv == RunTyped /\ ControlInv /\ Earned /\ EndTold

LEMMA RunTypes == TypeOK <=> RunTyped
BY DEF TypeOK, RunTyped, RunRow, StageRow, TurnRow, ChildRow, OwnerMemory

\* Killing the child and stopping the run decide nothing else.
LEMMA KillDoes ==
  ASSUME child \in ChildRow, Kill
  PROVE  child' \in ChildRow /\ child'.state = child.state /\ child'.changes = child.changes
<1> PICK k \in BOOLEAN : child' = [child EXCEPT !.killed = k]  BY DEF Kill
<1> QED BY DEF ChildRow

LEMMA StopDoes ==
  ASSUME child \in ChildRow, memory \in OwnerMemory, NEW status \in Stops \ {"none"}, Stop(status)
  PROVE  /\ child' \in ChildRow /\ child'.state = child.state
         /\ memory' \in OwnerMemory /\ memory'.stop # "none" /\ memory'.capture = memory.capture
         /\ memory'.stop = IF Stopping THEN memory.stop ELSE status
<1>1. child' \in ChildRow /\ child'.state = child.state  BY KillDoes DEF Stop
<1>2. Intent(status) \in Stops \ {"none"} /\ Intent(status) = IF Stopping THEN memory.stop ELSE status
  BY DEF Intent, Stopping, OwnerMemory
<1>3. memory' = [memory EXCEPT !.stop = Intent(status)]  BY DEF Stop
<1> QED BY <1>1, <1>2, <1>3 DEF OwnerMemory

LEMMA ChildRows ==
  ASSUME NEW c \in ChildRow, NEW st \in {"none", "reading", "publishing", "exited", "dead"},
         NEW b \in BOOLEAN, NEW ch \in {"none", "some", "unknown"}
  PROVE  /\ [c EXCEPT !.state = st] \in ChildRow
         /\ [c EXCEPT !.state = st, !.killed = b] \in ChildRow
         /\ [c EXCEPT !.state = st, !.changes = ch] \in ChildRow
BY DEF ChildRow

LEMMA RunStaysTyped == ASSUME RunTyped, Next PROVE RunTyped'
<1> USE DEF RunTyped, rows, natives, owner

<1>1. CASE RecoverOwn
  BY <1>1, StopDoes DEF RecoverOwn, Stops
<1>2. CASE Cancel
  BY <1>2, StopDoes DEF Cancel, Stops
<1>3. CASE Overdue
  BY <1>3, StopDoes DEF Overdue, Stops
<1>4. CASE AdmitFails
  BY <1>4, StopDoes DEF AdmitFails, Stops
<1>5. CASE StepFails
  BY <1>5, StopDoes, FaultsAssumption DEF StepFails, Stops, Faulty
<1>6. CASE LoopFails
  BY <1>6, FaultsAssumption DEF LoopFails, Faulty
<1>7. CASE Release
  BY <1>7, StopDoes, KillDoes, FaultsAssumption DEF Release, Stops, Faulty
<1>8. CASE Close
  BY <1>8, StopDoes, KillDoes, SMTT(30) DEF Close, Stops
<1>9. CASE ChildLocks
  BY <1>9, ChildRows, ZenonT(60) DEF ChildLocks
<1>10. CASE ChildFails
  BY <1>10, ChildRows, ZenonT(60) DEF ChildFails
<1>11. CASE ChildDies
  BY <1>11, ChildRows, ZenonT(60) DEF ChildDies
<1>12. CASE Reap
  BY <1>12, ChildRows, ZenonT(60) DEF Reap
<1>13. CASE Leave
  BY <1>13 DEF Leave
<1>14. CASE OtherLocks
  BY <1>14 DEF OtherLocks
<1>15. CASE OtherUnlocks
  BY <1>15, SMTT(30) DEF OtherUnlocks
<1>16. CASE ChildPublishes
  <2>1. run' \in RunRow
    BY <1>16 DEF ChildPublishes, RunRow
  <2> QED BY <2>1, <1>16, ChildRows, ZenonT(60) DEF ChildPublishes
<1>17. CASE Start
  <2>1. run' \in RunRow
    BY <1>17 DEF Start, RunRow, RUN_ACTIVE
  <2> QED BY <2>1, <1>17, StopDoes DEF Start, Stops
<1>18. CASE StartCapture
  <2>1. run' \in RunRow
    BY <1>18 DEF StartCapture, RunRow
  <2> QED BY <2>1, <1>18, StopDoes DEF StartCapture, Stops
<1>19. CASE Elapse
  <2>1. run' \in RunRow
    BY <1>19 DEF Elapse, RunRow
  <2> QED BY <2>1, <1>19 DEF Elapse
<1>20. CASE Record
  <2>1. run' \in RunRow
    BY <1>20 DEF Record, RunRow, RUN_ACTIVE
  <2> QED BY <2>1, <1>20, StopDoes DEF Record, Stops
<1>21. CASE Recover
  <2>1. run' \in RunRow /\ task' \in [Stage -> TurnRow]
    BY <1>21 DEF Recover, RunRow, TurnRow, RunTerminal, NativeTerminal, Orphaned
  <2> QED BY <2>1, <1>21 DEF Recover
<1>22. CASE Closed
  <2>1. memory' \in OwnerMemory /\ task' \in [Stage -> TurnRow]
    BY <1>22, ZenonT(60) DEF Closed, OwnerMemory, TurnRow, Stops
  <2> QED BY <2>1, <1>22 DEF Closed
<1>23. CASE Crash
  <2>1. memory' \in OwnerMemory /\ task' \in [Stage -> TurnRow]
    BY <1>23 DEF Crash, OwnerMemory, TurnRow, Stops
  <2> QED BY <2>1, <1>23, ChildRows, ZenonT(60) DEF Crash
<1>24. CASE Collect
  <2>1. memory' \in OwnerMemory
    BY <1>24 DEF Collect, OwnerMemory
  <2> QED BY <2>1, <1>24, ChildRows, ZenonT(60) DEF Collect
<1>j. CASE Settle
  <2>1. PICK st \in Stops, c \in {"none", memory.capture} : memory' = [stop |-> st, capture |-> c]
    BY <1>j DEF Settle, OwnerMemory, Stops
  <2>2. memory' \in OwnerMemory  BY <2>1 DEF OwnerMemory
  <2>3. \/ run' = run
        \/ run' = IF memory.capture = "empty" THEN [run EXCEPT !.status = "no_changes"]
                  ELSE [run EXCEPT !.phase = "independent"]
    <3> HIDE DEF RunTyped
    <3> QED BY <1>j DEF Settle
  <2>4. run' \in RunRow  BY <2>3 DEF RunRow, RunTerminal, Stage
  <2> QED BY <1>j, <2>2, <2>4 DEF Settle
<1>a. CASE Reply
  <2>1. task' \in [Stage -> TurnRow]
    <3>1. PICK st \in ACTIVE : task' = [task EXCEPT ![run.phase].status = st]  BY <1>a DEF Reply, ACTIVE
    <3> QED BY <3>1 DEF TurnRow
  <2> QED BY <1>a, <2>1 DEF Reply
<1>b. CASE Spawn
  <2>1. PICK b \in BOOLEAN : child' \in {child, [child EXCEPT !.state = "reading", !.killed = b]}
    BY <1>b DEF Spawn
  <2>2. memory' \in OwnerMemory  BY <1>b DEF Spawn, OwnerMemory, Intent, Stops, Stopping
  <2>3. child' \in ChildRow  BY <2>1, ChildRows, ZenonT(60)
  <2> QED BY <1>b, <2>2, <2>3 DEF Spawn
<1>c. CASE Flush
  <2>1. memory.stop \in RunTerminal  BY <1>c DEF Flush, Stopping, OwnerMemory, Stops, RunTerminal
  <2>2. PICK deaf \in SUBSET ActiveTurns :
          /\ run' = [run EXCEPT !.status = memory.stop, !.untold = deaf # {}]
          /\ task' = [s \in Stage |-> IF s \in ActiveTurns \ deaf THEN Told(s) ELSE task[s]]
    BY <1>c DEF Flush
  <2>3. PICK b \in BOOLEAN : run' = [run EXCEPT !.status = memory.stop, !.untold = b]
    BY <2>2
  <2>4. run' \in RunRow  BY <2>1, <2>3 DEF RunRow
  <2>5. \A s \in Stage : Told(s) \in TurnRow  BY DEF Told, TurnRow, ACTIVE
  <2>6. task' \in [Stage -> TurnRow]  BY <2>2, <2>5
  <2>7. memory' \in OwnerMemory  BY <1>c DEF Flush, OwnerMemory, Stops
  <2> QED BY <2>4, <2>6, <2>7, <1>c DEF Flush
<1>d. ASSUME NEW s \in Stage, Watch(s) PROVE RunTyped'
  <2>1. run' \in RunRow  BY <1>d DEF Watch, RunRow, RUN_ACTIVE
  <2> QED BY <1>d, <2>1 DEF Watch
<1>e. ASSUME NEW s \in Stage, Reserve(s) PROVE RunTyped'
  <2>1. run' \in RunRow  BY <1>e DEF Reserve, RunRow, RUN_ACTIVE
  <2>2. stage' \in [Stage -> StageRow]
    <3>1. PICK b \in BOOLEAN : stage' = [stage EXCEPT ![s].reserved = b]  BY <1>e DEF Reserve
    <3> QED BY <3>1 DEF StageRow
  <2> QED BY <1>e, <2>1, <2>2 DEF Reserve
<1>f. ASSUME NEW s \in Stage, Finish(s) PROVE RunTyped'
  <2>1. task[s].status \in NativeTerminal /\ task[s].report \in Reports  BY <1>f DEF Finish, TurnRow
  <2> DEFINE result == [status |-> task[s].status, report |-> task[s].report]
  <2>2. result \in [status : {"none"} \union NativeTerminal, report : Reports]  BY <2>1
  <2>3. stage' = [stage EXCEPT ![s].saved = result] /\ run' \in {run, NextPhase(s, result)}  BY <1>f DEF Finish
  <2>4. result.status = task[s].status /\ result.report = task[s].report  OBVIOUS
  <2> HIDE DEF result
  <2>5. stage' \in [Stage -> StageRow]  BY <2>2, <2>3 DEF StageRow
  <2>6. NextPhase(s, result) \in RunRow
    <3>1. \/ NextPhase(s, result) = [run EXCEPT !.status = result.status, !.outcome = result.report]
          \/ NextPhase(s, result) = [run EXCEPT !.status = "completed", !.outcome = result.report]
          \/ NextPhase(s, result) = [run EXCEPT !.status = "failed"]
          \/ NextPhase(s, result) = [run EXCEPT !.phase = "comparison", !.status = "starting"]
          \/ NextPhase(s, result) = [run EXCEPT !.status = "completed", !.outcome = "success"]
      BY DEF NextPhase
    <3>2. result.status \in RunTerminal /\ result.report \in Reports /\ "success" \in Reports
      BY <2>1, <2>4 DEF NativeTerminal, RunTerminal, Reports
    <3> HIDE DEF RunTyped
    <3>3. run \in RunRow  BY DEF RunTyped
    <3>4. {"failed", "completed"} \subseteq RunTerminal /\ "starting" \in RUN_ACTIVE
      BY DEF RunTerminal, RUN_ACTIVE
    <3>5. \A st \in RUN_ACTIVE \union RunTerminal : [run EXCEPT !.status = st] \in RunRow
      BY <3>3 DEF RunRow
    <3>6. \A st \in RUN_ACTIVE \union RunTerminal, o \in Reports :
            [run EXCEPT !.status = st, !.outcome = o] \in RunRow
      BY <3>3 DEF RunRow
    <3>7. [run EXCEPT !.phase = "comparison", !.status = "starting"] \in RunRow
      BY <3>3 DEF RunRow, RUN_ACTIVE, Stage
    <3>8. [run EXCEPT !.status = result.status, !.outcome = result.report] \in RunRow
      BY <3>2, <3>6
    <3>9. [run EXCEPT !.status = "completed", !.outcome = result.report] \in RunRow
      BY <3>2, <3>4, <3>6
    <3>10. [run EXCEPT !.status = "completed", !.outcome = "success"] \in RunRow
      BY <3>2, <3>4, <3>6
    <3>11. [run EXCEPT !.status = "failed"] \in RunRow  BY <3>4, <3>5
    <3> QED BY <3>1, <3>7, <3>8, <3>9, <3>10, <3>11
  <2> QED BY <1>f, <2>3, <2>5, <2>6 DEF Finish
<1>g. ASSUME NEW s \in Stage, Work(s) PROVE RunTyped'
  <2>1. task' \in [Stage -> TurnRow]  BY <1>g DEF Work, TurnRow, ACTIVE
  <2> QED BY <1>g, <2>1 DEF Work
<1>h. ASSUME NEW s \in Stage, End(s) PROVE RunTyped'
  <2>1. PICK st \in NativeTerminal : task' = [task EXCEPT ![s].status = st, ![s].live = FALSE]
    BY <1>h DEF End, NativeTerminal
  <2>2. task' \in [Stage -> TurnRow]  BY <2>1 DEF TurnRow
  <2> QED BY <1>h, <2>2 DEF End
<1>i. ASSUME NEW s \in Stage, Admit(s) PROVE RunTyped'
  <2>1. PICK t \in TurnRow : task' = [task EXCEPT ![s] = t]
    <3>1. [status |-> "running", report |-> "none", told |-> FALSE, live |-> TRUE] \in TurnRow
      BY DEF TurnRow, ACTIVE, Reports
    <3>2. [status |-> "failed", report |-> "none", told |-> FALSE, live |-> FALSE] \in TurnRow
      BY DEF TurnRow, NativeTerminal, Reports
    <3> QED BY <1>i, <3>1, <3>2 DEF Admit
  <2>2. task' \in [Stage -> TurnRow]  BY <2>1
  <2>3. launches' \in [Stage -> Nat]  BY <1>i DEF Admit
  <2> QED BY <1>i, <2>2, <2>3, StopDoes DEF Admit, Stops
<1> QED BY <1>1, <1>2, <1>3, <1>4, <1>5, <1>6, <1>7, <1>8, <1>9, <1>10, <1>11, <1>12, <1>13,
     <1>14, <1>15, <1>16, <1>17, <1>18, <1>19, <1>20, <1>21, <1>22, <1>23, <1>24, <1>a,
     <1>b, <1>c, <1>d, <1>e, <1>f, <1>g, <1>h, <1>i, <1>j DEF Next, Driver, Child, Callers,
     Others, StageStep, StageTurn

\* Who decides, and what is still to be heard, after every step.
LEMMA ControlKept == ASSUME RunTyped, ControlInv, Next PROVE ControlInv'
<1>0. run \in RunRow /\ child \in ChildRow /\ memory \in OwnerMemory /\ stage \in [Stage -> StageRow]
  BY DEF RunTyped
<1> USE <1>0 DEF rows, natives, owner
<1> USE DEF ControlInv, Owned, NotStarted, Decided, Captured, Deciding, Active, Stopping, RunRow, ChildRow, OwnerMemory, RUN_ACTIVE

<1>1. CASE RecoverOwn
  BY <1>1, StopDoes DEF RecoverOwn, Stops, Going, InLoop, GuardFree
<1>2. CASE Cancel
  BY <1>2, StopDoes DEF Cancel, Stops, Going, InLoop, GuardFree
<1>3. CASE Overdue
  BY <1>3, StopDoes DEF Overdue, Stops, Going, InLoop, GuardFree
<1>4. CASE AdmitFails
  BY <1>4, StopDoes DEF AdmitFails, Stops, Going, InLoop, GuardFree
<1>5. CASE StepFails
  BY <1>5, StopDoes DEF StepFails, Stops, Going, InLoop, GuardFree
<1>6. CASE StartCapture
  BY <1>6, StopDoes DEF StartCapture, Stops, Going, InLoop, GuardFree
<1>7. CASE Start
  BY <1>7, StopDoes DEF Start, Stops, Going, InLoop, GuardFree
<1>8. CASE Record
  BY <1>8, StopDoes DEF Record, Stops, Going, InLoop, GuardFree
<1>9. CASE Release
  BY <1>9, StopDoes, KillDoes DEF Release, Stops, GuardFree
<1>10. CASE Close
  BY <1>10, StopDoes, KillDoes DEF Close, Stops, GuardFree
<1>11. CASE LoopFails
  BY <1>11 DEF LoopFails, InLoop, Publishable, GuardFree, LeaseHeld, Intent, Stops, RunTerminal
<1>12. CASE ChildLocks
  BY <1>12 DEF ChildLocks, InLoop, Publishable, GuardFree, LeaseHeld, Intent, Stops, RunTerminal
<1>13. CASE ChildFails
  BY <1>13 DEF ChildFails, InLoop, Publishable, GuardFree, LeaseHeld, Intent, Stops, RunTerminal
<1>14. CASE ChildDies
  BY <1>14 DEF ChildDies, InLoop, Publishable, GuardFree, LeaseHeld, Intent, Stops, RunTerminal
<1>15. CASE Reap
  BY <1>15 DEF Reap, InLoop, Publishable, GuardFree, LeaseHeld, Intent, Stops, RunTerminal
<1>16. CASE Leave
  BY <1>16 DEF Leave, InLoop, Publishable, GuardFree, LeaseHeld, Intent, Stops, RunTerminal
<1>17. CASE OtherLocks
  BY <1>17 DEF OtherLocks, InLoop, Publishable, GuardFree, LeaseHeld, Intent, Stops, RunTerminal
<1>18. CASE OtherUnlocks
  BY <1>18 DEF OtherUnlocks, InLoop, Publishable, GuardFree, LeaseHeld, Intent, Stops, RunTerminal
<1>19. CASE Elapse
  BY <1>19 DEF Elapse, InLoop, Publishable, GuardFree, LeaseHeld, Intent, Stops, RunTerminal
<1>20. CASE Collect
  BY <1>20 DEF Collect, InLoop, Publishable, GuardFree, LeaseHeld, Intent, Stops, RunTerminal
<1>21. CASE Recover
  BY <1>21 DEF Recover, InLoop, Publishable, GuardFree, LeaseHeld, Intent, Stops, RunTerminal
<1>22. CASE Closed
  BY <1>22 DEF Closed, InLoop, Publishable, GuardFree, LeaseHeld, Intent, Stops, RunTerminal
<1>23. CASE Crash
  BY <1>23 DEF Crash, InLoop, Publishable, GuardFree, LeaseHeld, Intent, Stops, RunTerminal
<1>24. CASE Settle
  BY <1>24 DEF Settle, InLoop, Publishable, GuardFree, LeaseHeld, Intent, Stops, RunTerminal
<1>25. CASE Spawn
  BY <1>25 DEF Spawn, InLoop, Publishable, GuardFree, LeaseHeld, Intent, Stops, RunTerminal
<1>26. CASE Flush
  BY <1>26 DEF Flush, InLoop, Publishable, GuardFree, LeaseHeld, Intent, Stops, RunTerminal
<1>27. CASE Reply
  BY <1>27 DEF Reply, InLoop, Publishable, GuardFree, LeaseHeld, Intent, Stops, RunTerminal
<1>a. CASE ChildPublishes
  <2>0. PICK changes \in {"none", "some"} :
          child' = [child EXCEPT !.state = "exited", !.changes = changes]
    BY <1>a DEF ChildPublishes
  <2>1. child'.state = "exited"  BY <2>0
  <2>2. run'.phase = run.phase /\ run'.status = run.status  BY <1>a DEF ChildPublishes
  <2>3. run.phase = "capture" /\ child.state # "none" /\ UNCHANGED owner /\ ~Deciding
    BY <1>a DEF ChildPublishes, Publishable
  <2> QED BY <2>1, <2>2, <2>3
<1>28. ASSUME NEW s \in Stage, Watch(s) PROVE ControlInv'
  BY <1>28 DEF Watch, InStage, Going
<1>29. ASSUME NEW s \in Stage, Work(s) PROVE ControlInv'
  BY <1>29 DEF Work, InStage, Going
<1>30. ASSUME NEW s \in Stage, End(s) PROVE ControlInv'
  BY <1>30 DEF End, InStage, Going
<1>31. ASSUME NEW s \in Stage, Reserve(s) PROVE ControlInv'
  BY <1>31 DEF Reserve, InStage, Going
<1>32. ASSUME NEW s \in Stage, Finish(s) PROVE ControlInv'
  BY <1>32, ZenonT(60) DEF Finish, InStage, Going, NextPhase, NativeTerminal, Stage
<1>33. ASSUME NEW s \in Stage, Admit(s) PROVE ControlInv'
  BY <1>33, StopDoes DEF Admit, Stops
<1> QED BY <1>1, <1>2, <1>3, <1>4, <1>5, <1>6, <1>7, <1>8, <1>9, <1>10, <1>11, <1>12, <1>13,
     <1>14, <1>15, <1>16, <1>17, <1>18, <1>19, <1>20, <1>21, <1>22, <1>23, <1>24, <1>25,
     <1>26, <1>27, <1>a, <1>28, <1>29, <1>30, <1>31, <1>32, <1>33 DEF Next, Driver, Child,
     Callers, Others, StageStep, StageTurn

\* A task goes on: it is not made by a step of another kind, and what it ended with stays.
TurnGoesOn(s) ==
  /\ task[s].status = "none" => task'[s].status = "none"
  /\ task[s].status \in NativeTerminal =>
       task'[s].status = task[s].status /\ task'[s].report = task[s].report
  /\ task[s].status \in ACTIVE => task'[s].status \in ACTIVE \union NativeTerminal
  /\ task'[s].status \in ACTIVE /\ task[s].told => task'[s].told
TurnsGoOn == launches' = launches /\ \A s \in Stage : TurnGoesOn(s)
TurnSteps == Reply \/ Closed \/ Crash \/ Flush \/ Recover \/ \E s \in Stage : StageTurn(s)

LEMMA TurnsKept == ASSUME RunTyped, TurnSteps PROVE TurnsGoOn
<1>0. task \in [Stage -> TurnRow]  BY DEF RunTyped
<1> USE <1>0 DEF TurnsGoOn, TurnGoesOn, natives, TurnRow, ACTIVE, NativeTerminal
<1>1. CASE Reply
  BY <1>1 DEF Reply
<1>2. CASE Closed
  BY <1>2 DEF Closed
<1>3. CASE Crash
  BY <1>3 DEF Crash
<1>4. CASE Flush
  BY <1>4, ZenonT(60) DEF Flush, Told, ActiveTurns
<1>5. CASE Recover
  BY <1>5 DEF Recover, Orphaned
<1>6. ASSUME NEW s \in Stage, Work(s) PROVE TurnsGoOn
  BY <1>6 DEF Work
<1>7. ASSUME NEW s \in Stage, End(s) PROVE TurnsGoOn
  BY <1>7 DEF End
<1> QED BY <1>1, <1>2, <1>3, <1>4, <1>5, <1>6, <1>7 DEF TurnSteps, StageTurn

\* The run goes on: no stage begins, and it is not completed.
RowsGoOn ==
  /\ stage' = stage /\ run'.phase = run.phase /\ run'.compare = run.compare
  /\ run.mapped => run'.mapped
  /\ run'.status = "completed" => run.status = "completed"
  /\ run'.outcome = run.outcome

LEMMA EarnedGoesOn == ASSUME RunTyped, Earned, TurnsGoOn, RowsGoOn PROVE Earned'
<1>0. task \in [Stage -> TurnRow] /\ launches \in [Stage -> Nat]  BY DEF RunTyped
<1>1. \A s \in Stage : TurnGoesOn(s)  BY DEF TurnsGoOn
<1>2. \A s \in Stage : Launched(s)'
  <2> TAKE s \in Stage
  <2>1. Launched(s) /\ TurnGoesOn(s) /\ launches'[s] = launches[s]  BY <1>1 DEF Earned, TurnsGoOn
  <2>2. task[s].status \in {"none"} \union ACTIVE \union NativeTerminal  BY <1>0 DEF TurnRow
  <2>3. (task'[s].status = "none") <=> (task[s].status = "none")
    BY <2>1, <2>2 DEF TurnGoesOn, ACTIVE, NativeTerminal
  <2>4. stage' = stage /\ run'.phase = run.phase /\ (run.mapped => run'.mapped)  BY DEF RowsGoOn
  <2> QED BY <2>1, <2>3, <2>4 DEF Launched
<1>3. \A s \in Stage : ResultIsTrue(s)'
  BY <1>1 DEF Earned, ResultIsTrue, TurnGoesOn, RowsGoOn
<1>4. Compared'  BY DEF Earned, Compared, RowsGoOn
<1>5. Outcome'
  <2>1. \A s \in Stage : task[s].status = "completed" =>
          task'[s].status = "completed" /\ task'[s].report = task[s].report
    BY <1>1 DEF TurnGoesOn, NativeTerminal
  <2>2. Outcome  BY DEF Earned
  <2> QED BY <2>1, <2>2 DEF Outcome, RowsGoOn, Stage
<1> QED BY <1>2, <1>3, <1>4, <1>5 DEF Earned

\* The steps that leave the rows of the run and the tasks alone, and those that only
\* move its status.
Aside ==
  \/ RecoverOwn \/ Cancel \/ Close \/ Overdue \/ Spawn \/ ChildLocks \/ ChildFails \/ ChildDies
  \/ Collect \/ AdmitFails \/ StepFails \/ LoopFails \/ Release \/ Reap \/ Leave
  \/ OtherLocks \/ OtherUnlocks
RowSteps == StartCapture \/ ChildPublishes \/ Record \/ Elapse \/ \E s \in Stage : Watch(s)

LEMMA Asides == ASSUME Aside PROVE UNCHANGED <<rows, natives>>
BY DEF Aside, RecoverOwn, Cancel, Close, Overdue, Spawn, ChildLocks, ChildFails, ChildDies,
      Collect, AdmitFails, StepFails, LoopFails, Release, Reap, Leave, OtherLocks, OtherUnlocks,
      rows, natives, owner

LEMMA NextIs ==
  ASSUME Next
  PROVE  \/ Aside \/ RowSteps \/ TurnSteps \/ Start \/ Settle
         \/ \E s \in Stage : Reserve(s) \/ Admit(s) \/ Finish(s)
BY DEF Next, Driver, Child, Callers, Others, StageStep, Aside, RowSteps, TurnSteps

LEMMA RowStepsGoOn == ASSUME RunTyped, RowSteps PROVE RowsGoOn /\ UNCHANGED natives
<1>0. run \in RunRow  BY DEF RunTyped
<1> USE <1>0 DEF RowsGoOn, rows, natives, RunRow
<1>1. CASE StartCapture  BY <1>1 DEF StartCapture
<1>2. CASE ChildPublishes  BY <1>2 DEF ChildPublishes
<1>3. CASE Record  BY <1>3 DEF Record
<1>4. CASE Elapse  BY <1>4 DEF Elapse
<1>5. ASSUME NEW s \in Stage, Watch(s) PROVE RowsGoOn /\ UNCHANGED natives
  BY <1>5 DEF Watch
<1> QED BY <1>1, <1>2, <1>3, <1>4, <1>5 DEF RowSteps

LEMMA TurnStepsGoOn == ASSUME RunTyped, TurnSteps PROVE RowsGoOn
<1>0. run \in RunRow /\ memory \in OwnerMemory  BY DEF RunTyped
<1> USE <1>0 DEF RowsGoOn, rows, RunRow
<1>1. CASE Reply  BY <1>1 DEF Reply
<1>2. CASE Closed  BY <1>2 DEF Closed
<1>3. CASE Crash  BY <1>3 DEF Crash
<1>4. CASE Flush
  <2>1. PICK deaf \in SUBSET ActiveTurns :
          run' = [run EXCEPT !.status = memory.stop, !.untold = deaf # {}]
    BY <1>4 DEF Flush
  <2>2. memory.stop # "completed"  BY DEF OwnerMemory, Stops
  <2>3. run'.phase = run.phase /\ run'.compare = run.compare /\ run'.mapped = run.mapped
    /\ run'.status = memory.stop /\ run'.outcome = run.outcome
    BY <2>1
  <2> QED BY <1>4, <2>2, <2>3 DEF Flush
<1>5. CASE Recover  BY <1>5 DEF Recover
<1>6. ASSUME NEW s \in Stage, StageTurn(s) PROVE RowsGoOn
  BY <1>6 DEF StageTurn, Work, End
<1> QED BY <1>1, <1>2, <1>3, <1>4, <1>5, <1>6 DEF TurnSteps

LEMMA EarnedKept == ASSUME RunTyped, ControlInv, Earned, Next PROVE Earned'
<1>0. run \in RunRow /\ task \in [Stage -> TurnRow] /\ stage \in [Stage -> StageRow]
        /\ launches \in [Stage -> Nat]
  BY DEF RunTyped
<1>1. CASE UNCHANGED <<rows, natives>>
  BY <1>1 DEF Earned, Launched, ResultIsTrue, Compared, Outcome, rows, natives
<1>2. CASE UNCHANGED natives /\ RowsGoOn
  <2>1. TurnsGoOn  BY <1>2 DEF TurnsGoOn, TurnGoesOn, natives
  <2> QED BY <1>2, <2>1, EarnedGoesOn
<1>3. CASE TurnSteps
  BY <1>3, TurnsKept, TurnStepsGoOn, EarnedGoesOn
<1>4. CASE Start
  <2>1. run'.phase = "capture" /\ run'.mapped = run.mapped /\ run'.status # "completed" /\ run.phase = "capture"
    BY <1>0, <1>4 DEF Start, RunRow, ControlInv, NotStarted
  <2>2. UNCHANGED <<stage, task, launches>>  BY <1>4 DEF Start, natives
  <2> QED BY <2>1, <2>2 DEF Earned, Launched, ResultIsTrue, Compared, Outcome
<1>5. CASE Settle
  <2>1. run.phase = "capture"  BY <1>5 DEF Settle, ControlInv, Captured
  <2>2. UNCHANGED <<stage, task, launches>>  BY <1>5 DEF Settle, natives
  <2>3. /\ run'.phase \in {"capture", "independent"} /\ run'.mapped = run.mapped
        /\ run'.compare = run.compare /\ run'.outcome = run.outcome
        /\ run'.status = "completed" => run.status = "completed"
    BY <1>0, <2>1, <1>5 DEF Settle, RunRow
  <2>4. \A s \in Stage : Launched(s)'
    BY <2>1, <2>2, <2>3 DEF Earned, Launched, Stage
  <2>5. (\A s \in Stage : ResultIsTrue(s)') /\ Compared'
    BY <2>1, <2>2, <2>3 DEF Earned, ResultIsTrue, Compared
  <2>6. Outcome'  BY <2>2, <2>3 DEF Earned, Outcome
  <2> QED BY <2>4, <2>5, <2>6 DEF Earned
<1>6. ASSUME NEW s \in Stage, Reserve(s) PROVE Earned'
  <2>1. UNCHANGED <<task, launches>>  BY <1>6 DEF Reserve, natives
  <2>2. /\ run'.phase = run.phase /\ run'.mapped = run.mapped /\ run'.compare = run.compare
        /\ run'.status = "starting"
    BY <1>0, <1>6 DEF Reserve, RunRow
  <2>3. \A z \in Stage : /\ stage'[z].saved = stage[z].saved
                         /\ stage[z].reserved => stage'[z].reserved
    BY <1>0, <1>6 DEF Reserve, StageRow
  <2>4. (\A z \in Stage : Launched(z)')  BY <2>1, <2>2, <2>3 DEF Earned, Launched
  <2>5. (\A z \in Stage : ResultIsTrue(z)')  BY <2>1, <2>2, <2>3 DEF Earned, ResultIsTrue
  <2>6. Compared'  BY <2>1, <2>2, <2>3 DEF Earned, Compared, Stage
  <2>7. Outcome'  BY <2>2 DEF Outcome
  <2> QED BY <2>4, <2>5, <2>6, <2>7 DEF Earned
<1>7. ASSUME NEW s \in Stage, Admit(s) PROVE Earned'
  <2>1. UNCHANGED <<run, stage>>  BY <1>7 DEF Admit, rows
  <2>2. Launched(s) /\ task[s].status = "none" /\ run.status = "starting" /\ run.phase = s /\ run.mapped
          /\ stage[s].reserved
    BY <1>7 DEF Admit, Valid, Earned
  <2>3. launches[s] = 0 /\ launches'[s] = 1 /\ task'[s].status # "none"
    BY <1>0, <1>7, <2>2 DEF Admit, Launched
  <2>4. \A z \in Stage \ {s} : task'[z] = task[z] /\ launches'[z] = launches[z]
    BY <1>0, <1>7 DEF Admit
  <2>5. \A z \in Stage : Launched(z)'
    BY <2>1, <2>2, <2>3, <2>4 DEF Earned, Launched
  <2>6. \A z \in Stage : ResultIsTrue(z)'
    BY <2>1, <2>2, <2>4 DEF Earned, ResultIsTrue, NativeTerminal
  <2>7. Compared' /\ Outcome'  BY <2>1, <2>2 DEF Earned, Compared, Outcome
  <2> QED BY <2>5, <2>6, <2>7 DEF Earned
<1>8. ASSUME NEW s \in Stage, Finish(s) PROVE Earned'
  <2>1. UNCHANGED <<task, launches>>  BY <1>8 DEF Finish, natives
  <2> DEFINE result == [status |-> task[s].status, report |-> task[s].report]
  <2>2. task[s].status \in NativeTerminal /\ task[s].report \in Reports
    BY <1>8, <1>0 DEF Finish, TurnRow
  <2>3. stage' = [stage EXCEPT ![s].saved = result] /\ run' \in {run, NextPhase(s, result)}
    BY <1>8 DEF Finish
  <2>4. result.status = task[s].status /\ result.report = task[s].report  OBVIOUS
  <2>5. run.phase = s /\ run.status \in RUN_ACTIVE
    BY <1>8 DEF Finish, InStage, Going, Active
  <2>6. result = [status |-> task[s].status, report |-> task[s].report]  OBVIOUS
  <2> HIDE DEF result
  <2>7. \A z \in Stage : /\ stage'[z].reserved = stage[z].reserved
                         /\ stage'[z].saved = IF z = s THEN result ELSE stage[z].saved
    BY <1>0, <2>3 DEF StageRow
  <2>8. /\ run'.mapped = run.mapped /\ run'.compare = run.compare
        /\ run'.phase # run.phase => /\ s = "independent" /\ run.compare /\ run'.phase = "comparison"
                                     /\ result.status = "completed" /\ result.report = "success"
        /\ run'.status = "completed" /\ run'.outcome = "success" =>
             /\ result.status = "completed" /\ result.report = "success"
             /\ s = "independent" => ~run.compare
    <3>1. CASE run' = run
      BY <3>1, <2>5 DEF RUN_ACTIVE
    <3>2. CASE run' = NextPhase(s, result)
      BY <3>2, <2>2, <2>4, <2>5, <1>0 DEF NextPhase, RunRow, Reports
    <3> QED BY <3>1, <3>2, <2>3
  <2>9. \A z \in Stage : Launched(z)'
    BY <2>1, <2>5, <2>7, <2>8 DEF Earned, Launched, Stage
  <2>10. \A z \in Stage : ResultIsTrue(z)'
    BY <2>1, <2>2, <2>6, <2>7 DEF Earned, ResultIsTrue
  <2>11. Compared'
    <3> SUFFICES ASSUME run'.phase = "comparison"
                 PROVE run'.compare /\ stage'["independent"].saved = [status |-> "completed", report |-> "success"]
      BY DEF Compared
    <3>1. CASE run'.phase # run.phase
      BY <3>1, <2>4, <2>6, <2>7, <2>8 DEF Stage
    <3>2. CASE run.phase = "comparison"
      BY <3>2, <2>5, <2>7, <2>8 DEF Earned, Compared, Stage
    <3> QED BY <3>1, <3>2
  <2>12. Outcome'
    BY <2>1, <2>4, <2>5, <2>8 DEF Earned, Compared, Outcome, Stage
  <2> QED BY <2>9, <2>10, <2>11, <2>12 DEF Earned
<1> QED BY <1>1, <1>2, <1>3, <1>4, <1>5, <1>6, <1>7, <1>8, NextIs, Asides, RowStepsGoOn

\* The run has ended, and a driver is there to tell it.
Over == run.status \in RunTerminal /\ driver \in {"loop", "spawning"} /\ Serving /\ ~Stopping

LEMMA EndToldGoesOn ==
  ASSUME RunTyped, EndTold, TurnsGoOn, Over' => Over, run.untold => run'.untold
  PROVE  EndTold'
<1>0. task \in [Stage -> TurnRow]  BY DEF RunTyped
<1> SUFFICES ASSUME Over', NEW s \in Stage, task'[s].status \in ACTIVE
             PROVE  task'[s].told \/ run'.untold
  BY DEF EndTold, Over
<1>1. TurnGoesOn(s)  BY DEF TurnsGoOn
<1>2. task[s].status \in {"none"} \union ACTIVE \union NativeTerminal  BY <1>0 DEF TurnRow
<1>3. task[s].status \in ACTIVE
  BY <1>1, <1>2 DEF TurnGoesOn, ACTIVE, NativeTerminal
<1>4. task[s].told \/ run.untold  BY <1>3 DEF EndTold, Over
<1>5. CASE task[s].told  BY <1>1, <1>5 DEF TurnGoesOn
<1>6. CASE run.untold  BY <1>6
<1> QED BY <1>4, <1>5, <1>6

LEMMA EndToldKept == ASSUME RunTyped, ControlInv, Earned, EndTold, Next PROVE EndTold'
<1>0. /\ run \in RunRow /\ task \in [Stage -> TurnRow] /\ stage \in [Stage -> StageRow]
      /\ child \in ChildRow /\ memory \in OwnerMemory
  BY DEF RunTyped
<1>a. ASSUME run'.status \in {"starting", "running", "waiting_input"} PROVE EndTold'
  BY <1>a DEF EndTold, RunTerminal
<1>1. CASE Aside
  <2>1. UNCHANGED <<rows, natives>>  BY <1>1, Asides
  <2>2. TurnsGoOn  BY <2>1 DEF TurnsGoOn, TurnGoesOn, natives
  <2>3. Over' => Over
    <3> USE <1>0, <2>1 DEF Over, Serving, Stopping, rows, natives, owner
    <3>1. CASE RecoverOwn \/ Cancel \/ Overdue \/ Close \/ StepFails \/ Release
      BY <3>1, StopDoes DEF RecoverOwn, Cancel, Overdue, Close, StepFails, Release, Stops,
           Going, InLoop, Active, RUN_ACTIVE, RunTerminal
    <3>2. CASE Spawn
      BY <3>2 DEF Spawn, Intent, OwnerMemory, Active
    <3>3. CASE AdmitFails
      BY <3>3 DEF AdmitFails, ControlInv, Owned, Deciding, RunTerminal
    <3>4. CASE ChildLocks \/ ChildFails \/ ChildDies \/ LoopFails \/ Reap \/ Leave \/ OtherLocks \/ OtherUnlocks
      BY <3>4 DEF ChildLocks, ChildFails, ChildDies, LoopFails, Reap, Leave, OtherLocks,
           OtherUnlocks
    <3>5. CASE Collect
      BY <3>5 DEF Collect, OwnerMemory
    <3> QED BY <1>1, <3>1, <3>2, <3>3, <3>4, <3>5 DEF Aside
  <2>4. run' = run  BY <2>1 DEF rows
  <2> QED BY <2>2, <2>3, <2>4, EndToldGoesOn
<1>2. CASE RowSteps
  <2>1. TurnsGoOn  BY <1>2, RowStepsGoOn DEF TurnsGoOn, TurnGoesOn, natives
  <2>2. ((Over' => Over) /\ (run.untold => run'.untold)) \/ EndTold'
    <3> USE <1>0 DEF Over, Serving, Stopping, rows, natives, owner, RunRow
    <3>1. CASE StartCapture  BY <3>1 DEF StartCapture, Going, Active, RUN_ACTIVE, RunTerminal
    <3>2. CASE ChildPublishes  BY <3>2 DEF ChildPublishes
    <3>3. CASE Record  BY <3>3 DEF Record, ControlInv, Owned, Deciding, RunTerminal
    <3>4. CASE Elapse  BY <3>4 DEF Elapse
    <3>5. ASSUME NEW s \in Stage, Watch(s) PROVE EndTold'
      <4>1. run'.status \in {"running", "waiting_input"}  BY <3>5 DEF Watch
      <4> QED BY <4>1, <1>a
    <3> QED BY <1>2, <3>1, <3>2, <3>3, <3>4, <3>5 DEF RowSteps
  <2> QED BY <2>1, <2>2, EndToldGoesOn
<1>3. CASE Flush
  <2>1. PICK deaf \in SUBSET ActiveTurns :
          /\ run' = [run EXCEPT !.status = memory.stop, !.untold = deaf # {}]
          /\ task' = [s \in Stage |-> IF s \in ActiveTurns \ deaf THEN Told(s) ELSE task[s]]
    BY <1>3 DEF Flush
  <2>2. stage' = stage  BY <1>3 DEF Flush
  <2>3. run'.untold = (deaf # {})  BY <1>0, <2>1 DEF RunRow
  <2> SUFFICES ASSUME NEW s \in Stage, task'[s].status \in ACTIVE, deaf = {}
               PROVE  task'[s].told
    BY <2>3 DEF EndTold
  <2>4. task[s].status \in ACTIVE  BY <2>1 DEF Told, ACTIVE
  <2>5. stage[s].reserved
    <3>1. Launched(s)  BY DEF Earned
    <3> QED BY <3>1, <2>4 DEF Launched, ACTIVE
  <2>6. s \in ActiveTurns \ deaf  BY <2>4, <2>5 DEF ActiveTurns
  <2>7. task'[s] = Told(s)  BY <2>1, <2>6
  <2> QED BY <1>0, <2>4, <2>7 DEF Told, TurnRow
<1>4. CASE TurnSteps /\ ~Flush
  <2>1. TurnsGoOn  BY <1>4, TurnsKept
  <2>2. (Over' => Over) /\ (run.untold => run'.untold)
    <3> USE <1>0 DEF Over, Serving, Stopping, rows, owner, RunRow
    <3>1. CASE Reply  BY <3>1 DEF Reply
    <3>2. CASE Closed  BY <3>2 DEF Closed
    <3>3. CASE Crash  BY <3>3 DEF Crash
    <3>4. CASE Recover  BY <3>4 DEF Recover, LeaseHeld
    <3>5. ASSUME NEW s \in Stage, StageTurn(s) PROVE UNCHANGED <<rows, owner>>
      BY <3>5 DEF StageTurn, Work, End
    <3> QED BY <1>4, <3>1, <3>2, <3>3, <3>4, <3>5 DEF TurnSteps
  <2> QED BY <2>1, <2>2, EndToldGoesOn
<1>5. CASE Start
  <2>1. run'.status = "starting"  BY <1>0, <1>5 DEF Start, RunRow
  <2> QED BY <2>1, <1>a
<1>6. ASSUME NEW s \in Stage, Reserve(s) \/ Admit(s) PROVE EndTold'
  <2>1. run'.status = "starting"  BY <1>0, <1>6 DEF Reserve, Admit, Valid, rows, RunRow
  <2> QED BY <2>1, <1>a
<1>7. CASE Settle
  <2>1. UNCHANGED <<task, launches>> /\ TurnsGoOn
    BY <1>7 DEF Settle, natives, TurnsGoOn, TurnGoesOn
  <2>2. \A s \in Stage : task[s].status = "none"
    <3> TAKE s \in Stage
    <3>1. Launched(s) /\ run.phase = "capture"
      BY <1>7 DEF Settle, ControlInv, Captured, Earned
    <3> QED BY <3>1 DEF Launched, Stage
  <2> QED BY <2>1, <2>2 DEF EndTold, ACTIVE
<1>8. ASSUME NEW s \in Stage, Finish(s) PROVE EndTold'
  <2>1. task' = task /\ task[s].status \in NativeTerminal /\ run.phase = s
    BY <1>8 DEF Finish, natives, InStage
  <2>2. \A z \in Stage : task[z].status \notin ACTIVE
    <3> TAKE z \in Stage
    <3>1. CASE z = s  BY <2>1, <3>1 DEF NativeTerminal, ACTIVE
    <3>2. CASE z = "comparison" /\ s = "independent"
      <4>1. Launched(z)  BY DEF Earned
      <4> QED BY <2>1, <3>2, <4>1 DEF Launched, ACTIVE
    <3>3. CASE z = "independent" /\ s = "comparison"
      <4>1. ResultIsTrue(z) /\ Compared  BY DEF Earned
      <4>2. stage[z].saved.status = "completed"  BY <2>1, <3>3, <4>1 DEF Compared
      <4> QED BY <4>1, <4>2 DEF ResultIsTrue, NoResult, NativeTerminal, ACTIVE
    <3> QED BY <3>1, <3>2, <3>3 DEF Stage
  <2> QED BY <2>1, <2>2 DEF EndTold
<1> QED BY <1>1, <1>2, <1>3, <1>4, <1>5, <1>6, <1>7, <1>8, NextIs

\* The action property: what has ended keeps its stages, and only a stop renames its end.
EndHolds ==
  run.status \in RunTerminal =>
       /\ run'.mapped = run.mapped /\ launches' = launches /\ run'.phase = run.phase
       /\ run'.status = run.status \/ (run.status = "interrupted" /\ run'.status = memory.stop)

LEMMA EndStep == ASSUME RunTyped, ControlInv, Next PROVE EndHolds
<1>0. run \in RunRow  BY DEF RunTyped
<1>1. CASE Aside \/ Settle \/ (RowSteps /\ ~Elapse)
  <2> SUFFICES ASSUME ~Active PROVE UNCHANGED natives /\ run'.mapped = run.mapped /\ run'.phase = run.phase
                                    /\ run'.status = run.status
    BY DEF EndHolds, Active, RUN_ACTIVE, RunTerminal, natives
  <2>1. CASE Aside  BY <2>1, Asides DEF rows
  <2>2. CASE Settle  BY <2>2 DEF Settle, natives
  <2>3. CASE StartCapture \/ ChildPublishes \/ Record \/ \E s \in Stage : Watch(s)
    BY <2>3 DEF StartCapture, ChildPublishes, Publishable, Record, Watch, InStage, Going,
         ControlInv, Owned, Deciding, Active, RUN_ACTIVE
  <2> QED BY <1>1, <2>1, <2>2, <2>3 DEF RowSteps
<1>2. CASE Elapse \/ Start
  BY <1>2 DEF Elapse, Start, EndHolds, Active, RUN_ACTIVE, RunTerminal
<1>3. CASE Flush
  <2>1. PICK deaf \in SUBSET ActiveTurns :
          run' = [run EXCEPT !.status = memory.stop, !.untold = deaf # {}]
    BY <1>3 DEF Flush
  <2>2. run'.phase = run.phase /\ run'.mapped = run.mapped /\ run'.status = memory.stop
    BY <1>0, <2>1 DEF RunRow
  <2>3. run.status \in RunTerminal => run.status = "interrupted"
    BY <1>3 DEF Flush, ControlInv, Decided, Active, RUN_ACTIVE, RunTerminal
  <2> QED BY <1>3, <2>2, <2>3 DEF Flush, EndHolds
<1>4. CASE TurnSteps /\ ~Flush
  BY <1>4 DEF TurnSteps, StageTurn, Reply, Closed, Crash, Recover, Work, End, rows, EndHolds,
       Active, RUN_ACTIVE, RunTerminal
<1>5. ASSUME NEW s \in Stage, Reserve(s) \/ Admit(s) \/ Finish(s) PROVE EndHolds
  BY <1>5 DEF Reserve, Admit, Valid, Finish, InStage, Going, EndHolds, Active, RUN_ACTIVE,
       RunTerminal
<1> QED BY <1>1, <1>2, <1>3, <1>4, <1>5, NextIs DEF RowSteps

LEMMA RunBegins == ASSUME Init PROVE RunInv
<1> USE DEF Init
<1>1. RunTyped
  <2>1. run \in RunRow /\ child \in ChildRow /\ memory \in OwnerMemory
    BY DEF RunRow, ChildRow, OwnerMemory, Reports, Stops
  <2>2. stage \in [Stage -> StageRow]  BY DEF StageRow, NoResult, Reports
  <2>3. task \in [Stage -> TurnRow]  BY DEF TurnRow, Reports
  <2>4. faults \in 0..MaxFaults /\ launches \in [Stage -> Nat]  BY FaultsAssumption
  <2> QED BY <2>1, <2>2, <2>3, <2>4 DEF RunTyped
<1>2. ControlInv
  BY DEF ControlInv, Owned, NotStarted, Decided, Captured, Deciding, Stopping
<1>3. Earned  BY DEF Earned, Launched, ResultIsTrue, Compared, Outcome
<1>4. EndTold  BY DEF EndTold, RunTerminal
<1> QED BY <1>1, <1>2, <1>3, <1>4 DEF RunInv

LEMMA RunStays == ASSUME RunInv, [Next]_vars PROVE RunInv'
<1>1. CASE Next
  BY <1>1, RunStaysTyped, ControlKept, EarnedKept, EndToldKept DEF RunInv
<1>2. CASE UNCHANGED vars
  <2> USE <1>2 DEF vars, rows, natives, owner, RunInv
  <2>1. RunTyped'  BY DEF RunTyped
  <2>2. ControlInv'
    BY DEF ControlInv, Owned, NotStarted, Decided, Captured, Deciding, Stopping, Active
  <2>3. Earned'  BY DEF Earned, Launched, ResultIsTrue, Compared, Outcome
  <2>4. EndTold'  BY DEF EndTold, Serving, Stopping
  <2> QED BY <2>1, <2>2, <2>3, <2>4
<1> QED BY <1>1, <1>2

LEMMA RunImplies == ASSUME RunInv PROVE StagesAreEarned
<1>1. TypeOK  BY RunTypes DEF RunInv
<1>2. EndedIsTold  BY DEF RunInv, EndTold, EndedIsTold
<1>3. \A s \in Stage : launches[s] <= 1 /\ (launches[s] = 1 => run.mapped)
  <2> TAKE s \in Stage
  <2>1. Launched(s)  BY DEF RunInv, Earned
  <2> QED BY <2>1 DEF Launched
<1>4. launches["comparison"] = 1 =>
       stage["independent"].saved = [status |-> "completed", report |-> "success"]
  <2>1. Launched("comparison") /\ Compared  BY DEF RunInv, Earned, Stage
  <2> QED BY <2>1 DEF Launched, Compared
<1>5. Outcome  BY DEF RunInv, Earned
<1> QED BY <1>1, <1>2, <1>3, <1>4, <1>5 DEF StagesAreEarned, Outcome

\* No stage of a review is launched twice or out of order, its comparison follows a
\* successful review, and a success is the success of its last stage, whoever stops,
\* closes, crashes or recovers in between.
THEOREM StagesEarned == Spec => []StagesAreEarned
<1>1. Init => RunInv  BY RunBegins
<1>2. RunInv /\ [Next]_vars => RunInv'  BY RunStays
<1>3. RunInv => StagesAreEarned  BY RunImplies
<1> QED BY <1>1, <1>2, <1>3, PTL DEF Spec

\* A run that has ended launches nothing more and keeps its end, which only the stop
\* that interrupted it may say more exactly.
THEOREM EndIsFinal == Spec => EndedStaysEnded
<1>1. Init => RunInv  BY RunBegins
<1>2. RunInv /\ [Next]_vars => RunInv'  BY RunStays
<1>3. RunInv /\ [Next]_vars => [EndHolds]_vars
  BY EndStep DEF RunInv
<1> QED BY <1>1, <1>2, <1>3, PTL DEF Spec, EndedStaysEnded, EndHolds

-----------------------------------------------------------------------------
(* ReviewCapture.  Every file that is there carries the change that wrote  *)
(* it last, so two readings with the same stamp are of one file: the       *)
(* second scan shows that the whole of the first was true at the moment    *)
(* between them, except of a file that was absent at both.  That one was   *)
(* written between the moment and the second reading, if it was there.     *)

WorkFile == [data : Datum, stamp : 0..MaxMoves]
WorkTree == [Path -> WorkFile]
ProjectState ==
  [work : WorkTree, index : Tree, commits : Seq(Tree), head : 1..MaxMoves + 1,
   branch : 1..MaxMoves + 1, changes : 0..MaxMoves]
CaptureState ==
  [at : {"identity", "index", "select", "tree", "scan", "compare", "rescan",
         "seal", "saved", "refused", "failed"},
   attempt : Attempts, source : {"worktree", "staged", "commit"}, named : SUBSET Path,
   context : SUBSET Path, head : 0..MaxMoves + 1, base : Nat, index : Tree, tree : Tree,
   selected : SUBSET Path, todo : SUBSET Path, files : [Path -> Scanned], commit : Nat]
Reads == {"index", "select", "tree", "scan", "compare", "rescan", "saved"}

CaptureTyped ==
  /\ project \in ProjectState /\ capture \in CaptureState /\ middle \in ProjectState
  /\ Len(project.commits) \in 1..project.changes + 1
  /\ project.head \in DOMAIN project.commits /\ project.branch \in DOMAIN project.commits
  /\ capture.at \in Reads => capture.base \in DOMAIN project.commits

\* What one project is to an earlier one.
Grown(before, after) ==
  /\ before.changes <= after.changes
  /\ before.changes = after.changes => before = after
  /\ \A p \in Path : /\ before.work[p].stamp <= after.work[p].stamp
                     /\ before.work[p].stamp = after.work[p].stamp =>
                          before.work[p].data = after.work[p].data
\* What was read of a file is of some project before this one.  Of a file that was
\* not there nothing more is known.
ReadOf(file, there) ==
  file.selected # "absent" =>
    file.stamp <= there.stamp /\ (file.stamp = there.stamp => file.selected = there.data)

\* No file is newer than the last change.
Dated == \A p \in Path : project.work[p].stamp <= project.changes
ReadFiles == CASE capture.at = "scan" -> Paths \ capture.todo
               [] capture.at \in {"compare", "rescan", "saved"} -> Paths
               [] OTHER -> {}
AfterScan == capture.at \in {"compare", "rescan", "saved"}
\* What a scan has read is the index that was read before, and the file at that moment.
Scans ==
  /\ \A p \in ReadFiles : capture.source # "commit" => capture.files[p].staged = capture.index[p]
  /\ capture.at = "scan" /\ capture.source = "worktree" =>
       \A p \in ReadFiles : ReadOf(capture.files[p], project.work[p])
\* Between the two scans the project was the middle one: no file outside the selection
\* had changed, and what was read is not newer.
Middle ==
  AfterScan =>
    /\ Grown(middle, project)
    /\ \A p \in Paths \ capture.selected : ~Changed(p)
    /\ capture.source = "worktree" => \A p \in Paths : ReadOf(capture.files[p], middle.work[p])
\* While nothing has moved since, the project still is what was compared; what was read
\* again was the same file as the first time.
Agreed ==
  capture.at \in {"rescan", "saved"} =>
    /\ project = middle => /\ project.head = capture.head
                           /\ capture.source # "commit" =>
                                \A p \in Paths : project.index[p] = capture.files[p].staged
    /\ capture.source = "worktree" =>
         \A p \in Paths \ capture.todo : \/ capture.files[p].selected = middle.work[p].data
                                        \/ DeletedAgain(p)
    /\ capture.at = "saved" => capture.todo = {}
CaptureInv == CaptureTyped /\ Dated /\ Scans /\ Middle /\ Agreed

\* The steps of the operator.
Moving == Commit \/ \E p \in Path : Edit(p) \/ StageFile(p)

LEMMA MoveFields ==
  ASSUME CaptureTyped, Dated, Moving
  PROVE  /\ UNCHANGED <<capture, middle>> /\ project' \in ProjectState
         /\ project'.changes = project.changes + 1
         /\ \A p \in Path : \/ project'.work[p] = project.work[p]
                            \/ project'.work[p].stamp = project.changes + 1
         /\ Len(project'.commits) \in Len(project.commits)..Len(project.commits) + 1
         /\ project'.head \in DOMAIN project'.commits /\ project'.branch \in DOMAIN project'.commits
<1>0. /\ project \in ProjectState /\ project.changes \in Nat /\ project.work \in WorkTree
      /\ project.index \in Tree /\ project.commits \in Seq(Tree)
      /\ Len(project.commits) \in 1..project.changes + 1
      /\ project.head \in DOMAIN project.commits /\ project.branch \in DOMAIN project.commits
  BY CaptureBound DEF CaptureTyped, ProjectState
<1>1. ASSUME NEW p \in Path, Edit(p)
      PROVE  /\ UNCHANGED <<capture, middle>> /\ project' \in ProjectState
             /\ project'.changes = project.changes + 1
             /\ \A q \in Path : \/ project'.work[q] = project.work[q]
                                \/ project'.work[q].stamp = project.changes + 1
             /\ project'.commits = project.commits
             /\ project'.head = project.head /\ project'.branch = project.branch
  <2>1. PICK data \in Datum :
          project' = [project EXCEPT !.changes = @ + 1,
                        !.work[p] = [data |-> data, stamp |-> project.changes + 1]]
    BY <1>1 DEF Edit
  <2>2. project.changes < MaxMoves /\ UNCHANGED <<capture, middle>>
    BY <1>1 DEF Edit, Changing
  <2>3. PICK new \in WorkTree : new = [project.work EXCEPT ![p] = [data |-> data, stamp |-> project.changes + 1]]
    <3>1. project.changes + 1 \in 0..MaxMoves  BY <1>0, <2>2, CaptureBound
    <3>2. [data |-> data, stamp |-> project.changes + 1] \in WorkFile  BY <3>1 DEF WorkFile
    <3> QED BY <1>0, <3>2 DEF WorkTree
  <2>4. project' = [project EXCEPT !.changes = @ + 1, !.work = new]
    BY <1>0, <2>1, <2>3 DEF ProjectState
  <2>5. /\ project'.changes = project.changes + 1 /\ project'.work = new
        /\ project'.commits = project.commits /\ project'.index = project.index
        /\ project'.head = project.head /\ project'.branch = project.branch
    BY <1>0, <2>4 DEF ProjectState
  <2>6. project' \in ProjectState
    <3>1. project.changes + 1 \in 0..MaxMoves  BY <1>0, <2>2, CaptureBound
    <3> QED BY <1>0, <2>4, <3>1 DEF ProjectState
  <2>7. \A q \in Path : new[q] = project.work[q] \/ new[q].stamp = project.changes + 1
    BY <1>0, <2>3 DEF WorkTree
  <2> QED BY <2>2, <2>5, <2>6, <2>7
<1>2. ASSUME NEW p \in Path, StageFile(p)
      PROVE  /\ UNCHANGED <<capture, middle>> /\ project' \in ProjectState
             /\ project'.changes = project.changes + 1
             /\ project'.work = project.work /\ project'.commits = project.commits
             /\ project'.head = project.head /\ project'.branch = project.branch
  <2>1. project' = [project EXCEPT !.changes = @ + 1, !.index[p] = project.work[p].data]
    BY <1>2 DEF StageFile
  <2>2. project.changes < MaxMoves /\ UNCHANGED <<capture, middle>>
    BY <1>2 DEF StageFile, Changing
  <2>3. PICK new \in Tree : new = [project.index EXCEPT ![p] = project.work[p].data]
    BY <1>0 DEF WorkTree, WorkFile, Tree
  <2>4. project' = [project EXCEPT !.changes = @ + 1, !.index = new]
    BY <1>0, <2>1, <2>3 DEF ProjectState
  <2>5. project.changes + 1 \in 0..MaxMoves  BY <1>0, <2>2, CaptureBound
  <2>6. project' \in ProjectState  BY <1>0, <2>4, <2>5 DEF ProjectState
  <2> QED BY <1>0, <2>2, <2>4, <2>6 DEF ProjectState
<1>3. ASSUME Commit
      PROVE  /\ UNCHANGED <<capture, middle>> /\ project' \in ProjectState
             /\ project'.changes = project.changes + 1
             /\ project'.work = project.work
             /\ Len(project'.commits) = Len(project.commits) + 1
             /\ project'.head \in DOMAIN project'.commits /\ project'.branch \in DOMAIN project'.commits
  <2> DEFINE next == Len(project.commits) + 1
             moved == [project EXCEPT !.changes = @ + 1, !.commits = Append(@, project.index)]
  <2>1. project' = [moved EXCEPT !.head = next] \/ project' = [moved EXCEPT !.branch = next]
    BY <1>3 DEF Commit
  <2>2. project.changes < MaxMoves /\ UNCHANGED <<capture, middle>>
    BY <1>3 DEF Commit, Changing
  <2>3. next \in 1..MaxMoves + 1 /\ project.changes + 1 \in 0..MaxMoves
    BY <1>0, <2>2, CaptureBound
  <2>4. PICK new \in Seq(Tree) :
          new = Append(project.commits, project.index) /\ Len(new) = next /\ DOMAIN new = 1..next
    <3>1. project.commits \in Seq(Tree) /\ project.index \in Tree  BY <1>0
    <3>2. /\ Append(project.commits, project.index) \in Seq(Tree)
          /\ Len(Append(project.commits, project.index)) = Len(project.commits) + 1
      BY <3>1
    <3>3. DOMAIN Append(project.commits, project.index) = 1..Len(project.commits) + 1
      BY <3>1
    <3> QED BY <3>2, <3>3
  <2>5. moved = [project EXCEPT !.changes = @ + 1, !.commits = new]
    BY <1>0, <2>4 DEF ProjectState
  <2>6. moved \in ProjectState /\ moved.changes = project.changes + 1 /\ moved.work = project.work
          /\ moved.commits = new /\ moved.head = project.head /\ moved.branch = project.branch
    BY <1>0, <2>3, <2>5 DEF ProjectState
  <2>7. next \in DOMAIN new /\ project.head \in DOMAIN new /\ project.branch \in DOMAIN new
    BY <1>0, <2>4
  <2> HIDE DEF next, moved
  <2>8. project' \in ProjectState /\ project'.commits = new /\ project'.changes = moved.changes
          /\ project'.work = moved.work
          /\ project'.head \in {next, moved.head} /\ project'.branch \in {next, moved.branch}
    BY <2>1, <2>3, <2>6 DEF ProjectState
  <2>9. Len(new) = Len(project.commits) + 1  BY <2>4 DEF next
  <2> QED BY <2>2, <2>6, <2>7, <2>8, <2>9
<1>4. Len(project.commits) \in Nat  BY <1>0
<1> QED BY <1>0, <1>1, <1>2, <1>3, <1>4 DEF Moving

\* A change of the project takes nothing back of what was read.
LEMMA MovesGrow ==
  ASSUME CaptureInv, Moving PROVE CaptureInv'
<1>0. /\ project \in ProjectState /\ project.changes \in Nat /\ project.work \in WorkTree
      /\ Len(project.commits) \in 1..project.changes + 1 /\ middle \in ProjectState
      /\ middle.work \in WorkTree
  BY CaptureBound DEF CaptureInv, CaptureTyped, ProjectState
<1>1. /\ UNCHANGED <<capture, middle>> /\ project' \in ProjectState
      /\ project'.changes = project.changes + 1
      /\ \A p \in Path : \/ project'.work[p] = project.work[p]
                         \/ project'.work[p].stamp = project.changes + 1
      /\ Len(project'.commits) \in Len(project.commits)..Len(project.commits) + 1
      /\ project'.head \in DOMAIN project'.commits /\ project'.branch \in DOMAIN project'.commits
  BY MoveFields DEF CaptureInv
<1>2. \A p \in Path : project.work[p].stamp <= project.changes /\ project.work[p].stamp \in Nat
  <2> TAKE p \in Path
  <2>1. project.work[p] \in WorkFile  BY <1>0 DEF WorkTree
  <2>2. project.work[p].stamp \in 0..MaxMoves  BY <2>1 DEF WorkFile
  <2> QED BY <2>2, CaptureBound DEF CaptureInv, Dated
<1>3. CaptureTyped'
  <2>1. DOMAIN project.commits \subseteq DOMAIN project'.commits
    <3>1. project.commits \in Seq(Tree) /\ project'.commits \in Seq(Tree)
      BY <1>0, <1>1 DEF ProjectState
    <3> QED BY <1>1, <3>1
  <2>2. Len(project'.commits) \in 1..project'.changes + 1
    BY <1>0, <1>1
  <2>3. capture \in CaptureState /\ (capture.at \in Reads => capture.base \in DOMAIN project.commits)
    BY DEF CaptureInv, CaptureTyped
  <2> QED BY <1>0, <1>1, <2>1, <2>2, <2>3 DEF CaptureTyped
<1>4. Dated'
  BY <1>0, <1>1, <1>2 DEF Dated
<1>5. \A p \in Path : /\ project.work[p].stamp <= project'.work[p].stamp
                      /\ project.work[p].stamp = project'.work[p].stamp => project'.work[p] = project.work[p]
  BY <1>0, <1>1, <1>2
<1>6. capture \in CaptureState /\ ReadFiles \subseteq Path /\ Paths \subseteq Path
  BY DEF CaptureInv, CaptureTyped, CaptureState, ReadFiles, Paths
<1>7. Scans'
  <2>1. ReadFiles' = ReadFiles  BY <1>1 DEF ReadFiles, Paths
  <2>2. \A p \in ReadFiles : capture.files[p].stamp \in Nat
    BY <1>6 DEF CaptureState, Scanned
  <2>3. \A p \in ReadFiles : ReadOf(capture.files[p], project.work[p]) => ReadOf(capture.files[p], project'.work[p])
    <3>1. \A p \in Path : project'.work[p].stamp \in Nat
      BY <1>0, <1>1, <1>2
    <3> QED BY <1>2, <1>5, <1>6, <2>2, <3>1 DEF ReadOf
  <2> QED BY <1>1, <2>1, <2>3 DEF CaptureInv, Scans
<1>8. AfterScan => middle.changes < project'.changes /\ Grown(middle, project')
  <2> SUFFICES ASSUME AfterScan PROVE middle.changes < project'.changes /\ Grown(middle, project')
    OBVIOUS
  <2>1. Grown(middle, project)  BY DEF CaptureInv, Middle
  <2>2. middle.changes \in Nat /\ \A p \in Path : middle.work[p].stamp \in Nat
    BY <1>0, CaptureBound DEF ProjectState, WorkTree, WorkFile
  <2>3. middle.changes < project'.changes  BY <1>0, <1>1, <2>1, <2>2 DEF Grown
  <2>4. ASSUME NEW p \in Path
        PROVE  /\ middle.work[p].stamp <= project'.work[p].stamp
               /\ middle.work[p].stamp = project'.work[p].stamp => middle.work[p].data = project'.work[p].data
    <3>1. /\ middle.work[p].stamp <= project.work[p].stamp
          /\ middle.work[p].stamp = project.work[p].stamp => middle.work[p].data = project.work[p].data
      BY <2>1 DEF Grown
    <3>2. project'.work[p] = project.work[p] \/ project'.work[p].stamp = project.changes + 1
      BY <1>1
    <3> QED BY <1>0, <1>2, <2>2, <3>1, <3>2
  <2> QED BY <1>0, <1>1, <2>2, <2>3, <2>4 DEF Grown
<1>9. Middle'
  BY <1>1, <1>8 DEF CaptureInv, Middle, AfterScan, Paths, Changed
<1>10. Agreed'
  <2>1. AfterScan => project' # middle
    BY <1>0, <1>8, CaptureBound DEF ProjectState
  <2>2. ASSUME AfterScan, NEW p \in Path, DeletedAgain(p) PROVE DeletedAgain(p)'
    <3>1. middle.work[p].stamp < project.work[p].stamp /\ capture.files[p].selected = "absent"
      BY <2>2 DEF DeletedAgain
    <3>2. middle.work[p].stamp \in Nat
      BY <1>0, CaptureBound DEF WorkTree, WorkFile
    <3>3. project.work[p].stamp \in Nat /\ project'.work[p].stamp \in Nat
            /\ project.work[p].stamp <= project'.work[p].stamp
      BY <1>0, <1>1, <1>2, <1>5
    <3>4. middle.work[p].stamp < project'.work[p].stamp  BY <3>1, <3>2, <3>3
    <3> QED BY <1>1, <3>1, <3>4 DEF DeletedAgain
  <2>3. UNCHANGED <<capture, middle>> /\ Paths' = Paths /\ Paths \subseteq Path
    BY <1>1, <1>6 DEF Paths
  <2>4. ASSUME capture.at \in {"rescan", "saved"}, capture.source = "worktree",
               NEW p \in Paths \ capture.todo
        PROVE  capture.files[p].selected = middle.work[p].data \/ DeletedAgain(p)'
    <3>1. capture.files[p].selected = middle.work[p].data \/ DeletedAgain(p)
      BY <2>4 DEF CaptureInv, Agreed
    <3> QED BY <2>2, <2>3, <2>4, <3>1 DEF AfterScan
  <2>5. AfterScan /\ capture.at = "saved" => capture.todo = {}
    BY DEF CaptureInv, Agreed
  <2> QED BY <2>1, <2>3, <2>4, <2>5 DEF Agreed, AfterScan
<1> QED BY <1>3, <1>4, <1>7, <1>9, <1>10 DEF CaptureInv

LEMMA CaptureFields ==
  ASSUME CaptureInv
  PROVE  /\ project \in ProjectState /\ capture \in CaptureState /\ middle \in ProjectState
         /\ project.commits \in Seq(Tree) /\ project.index \in Tree /\ project.work \in WorkTree
         /\ project.head \in DOMAIN project.commits /\ project.branch \in DOMAIN project.commits
         /\ project.commits[project.branch] \in Tree /\ project.head \in 1..MaxMoves + 1
         /\ \A n \in DOMAIN project.commits : n \in Nat
         /\ 1 \in DOMAIN project.commits
         /\ capture.at \in Reads => capture.base \in DOMAIN project.commits /\ BaseTree \in Tree
         /\ ReadFiles \subseteq Path /\ Paths \subseteq Path
         /\ capture.files \in [Path -> Scanned] /\ capture.selected \subseteq Path
         /\ capture.context \subseteq Path /\ capture.todo \subseteq Path
<1>0. CaptureTyped  BY DEF CaptureInv
<1>1. /\ project \in ProjectState /\ capture \in CaptureState /\ middle \in ProjectState
      /\ project.commits \in Seq(Tree) /\ project.index \in Tree /\ project.work \in WorkTree
      /\ project.head \in 1..MaxMoves + 1
  BY <1>0 DEF CaptureTyped, ProjectState
<1>2. /\ project.head \in DOMAIN project.commits /\ project.branch \in DOMAIN project.commits
      /\ capture.at \in Reads => capture.base \in DOMAIN project.commits
      /\ Len(project.commits) \in 1..project.changes + 1
  BY <1>0 DEF CaptureTyped
<1>3. DOMAIN project.commits = 1..Len(project.commits) /\ Len(project.commits) \in Nat
        /\ \A n \in DOMAIN project.commits : project.commits[n] \in Tree
  BY <1>1
<1>4. 1 \in DOMAIN project.commits
  <2>1. project.changes \in Nat  BY <1>1, CaptureBound DEF ProjectState
  <2> QED BY <1>2, <1>3, <2>1
<1>5. ReadFiles \subseteq Path /\ Paths \subseteq Path /\ capture.files \in [Path -> Scanned]
       /\ capture.selected \subseteq Path /\ capture.context \subseteq Path /\ capture.todo \subseteq Path
  BY <1>1 DEF CaptureState, ReadFiles, Paths
<1> QED BY <1>1, <1>2, <1>3, <1>4, <1>5 DEF BaseTree

LEMMA Empties == Nothing \in Tree /\ NoFiles \in [Path -> Scanned]
BY DEF Nothing, NoFiles, Tree, Scanned, Datum

LEMMA AgainFields ==
  ASSUME capture \in CaptureState, Again
  PROVE  capture' \in CaptureState /\ capture'.at \in {"identity", "failed"}
<1>1. CASE capture.attempt = 3
  BY <1>1 DEF Again, CaptureState
<1>2. CASE capture.attempt # 3
  <2>1. capture.attempt + 1 \in Attempts  BY <1>2 DEF CaptureState, Attempts
  <2>2. capture' = Fresh(capture.attempt + 1)  BY <1>2 DEF Again
  <2>3. capture.source \in {"worktree", "staged", "commit"} /\ capture.named \subseteq Path
          /\ capture.context \subseteq Path
    BY DEF CaptureState
  <2>4. {} \subseteq Path /\ 0 \in 0..MaxMoves + 1  BY CaptureBound
  <2>5. Fresh(capture.attempt + 1) \in CaptureState
    BY <2>1, <2>3, <2>4, Empties DEF Fresh, CaptureState
  <2>6. Fresh(capture.attempt + 1).at = "identity"  BY DEF Fresh
  <2> QED BY <2>2, <2>5, <2>6
<1> QED BY <1>1, <1>2

\* A capture that begins again, or is over without a snapshot, has read nothing.
LEMMA Unread ==
  ASSUME CaptureInv, UNCHANGED <<project, middle>>, capture' \in CaptureState,
         capture'.at \in {"identity", "index", "select", "tree", "refused", "failed"},
         capture'.at \in Reads => capture'.base \in DOMAIN project.commits
  PROVE  CaptureInv'
<1>1. CaptureTyped' /\ Dated'  BY DEF CaptureInv, CaptureTyped, Dated
<1>2. Scans'  BY DEF Scans, ReadFiles
<1>3. Middle' /\ Agreed'  BY DEF Middle, Agreed, AfterScan
<1> QED BY <1>1, <1>2, <1>3 DEF CaptureInv

LEMMA Selections == ASSUME CaptureInv, NEW index PROVE Selection(index) \subseteq Path
BY CaptureFields DEF Selection, CaptureState

\* The steps of the capture itself.
LEMMA CaptureSteps == ASSUME CaptureInv, CaptureNext, ~Moving PROVE CaptureInv'
<1> USE CaptureFields
<1>1. CASE Identify
  <2>1. capture' = [capture EXCEPT !.at = "index", !.head = project.head,
                                   !.base = BaseOf(project.head)]
    BY <1>1 DEF Identify
  <2>2. BaseOf(project.head) \in DOMAIN project.commits /\ BaseOf(project.head) \in Nat
    BY DEF BaseOf
  <2>3. project.head \in 0..MaxMoves + 1  BY CaptureBound
  <2>4. capture' \in CaptureState /\ capture'.at = "index" /\ capture'.base = BaseOf(project.head)
    BY <2>1, <2>2, <2>3 DEF CaptureState
  <2> QED BY <1>1, <2>2, <2>4, Unread DEF Identify
<1>2. CASE ReadIndex
  <2>1. capture' \in CaptureState /\ capture'.at = "select" /\ capture'.base = capture.base
    BY <1>2 DEF ReadIndex, CaptureState
  <2> QED BY <1>2, <2>1, Unread DEF ReadIndex, Reads
<1>3. CASE Select
  <2>1. capture' \in CaptureState /\ capture'.at = "tree" /\ capture'.base = capture.base
    BY <1>3, Selections DEF Select, CaptureState
  <2> QED BY <1>3, <2>1, Unread DEF Select, Reads
<1>4. CASE ReadTree
  <2>1. /\ capture' = [capture EXCEPT !.at = "scan", !.todo = Paths,
                   !.tree = IF capture.source = "commit" THEN project.commits[project.branch]
                            ELSE Nothing]
        /\ UNCHANGED <<project, middle>> /\ capture.at = "tree"
    BY <1>4 DEF ReadTree
  <2>2. PICK tree \in Tree : capture' = [capture EXCEPT !.at = "scan", !.todo = Paths, !.tree = tree]
    BY <2>1, Empties
  <2>3. capture' \in CaptureState /\ capture'.at = "scan" /\ capture'.base = capture.base
          /\ capture'.todo = Paths
          /\ capture'.selected = capture.selected /\ capture'.context = capture.context
    BY <2>2 DEF CaptureState
  <2>4. CaptureTyped' /\ Dated'
    BY <2>1, <2>3 DEF CaptureInv, CaptureTyped, Dated, Reads
  <2>5. ReadFiles' = {}  BY <2>3 DEF ReadFiles, Paths
  <2>6. Scans' /\ Middle' /\ Agreed'
    BY <2>3, <2>5 DEF Scans, Middle, Agreed, AfterScan
  <2> QED BY <2>4, <2>6 DEF CaptureInv
<1>5. ASSUME NEW p \in Path, Scan(p) PROVE CaptureInv'
  <2>1. CASE Unreadable(p, Reading(p))
    <3>1. capture' \in CaptureState /\ capture'.at = "refused"
      BY <1>5, <2>1 DEF Scan, CaptureState
    <3> QED BY <1>5, <3>1, Unread DEF Scan, Reads
  <2>2. CASE ~Unreadable(p, Reading(p))
    <3> DEFINE file == Reading(p)
    <3>1. capture' = [capture EXCEPT !.todo = @ \ {p}, !.files[p] = file]
      BY <1>5, <2>2 DEF Scan
    <3>2. capture.at = "scan" /\ p \in capture.todo /\ UNCHANGED <<project, middle>>
      BY <1>5 DEF Scan
    <3>3. /\ file \in Scanned
          /\ file.staged = IF capture.source = "commit" THEN "absent" ELSE capture.index[p]
          /\ capture.source = "worktree" =>
               /\ file.selected = project.work[p].data
               /\ file.selected # "absent" => file.stamp = project.work[p].stamp
      <4>1. BaseTree \in Tree /\ capture.index \in Tree /\ capture.tree \in Tree
        BY <3>2 DEF Reads, CaptureState
      <4>2. project.work[p] \in WorkFile  BY DEF WorkTree
      <4>3. project.work[p].data \in Datum /\ project.work[p].stamp \in Nat
        BY <4>2, CaptureBound DEF WorkFile
      <4>4. StampOf(p) \in Nat /\ (project.work[p].data # "absent" => StampOf(p) = project.work[p].stamp)
        BY <4>3 DEF StampOf
      <4> QED BY <4>1, <4>3, <4>4 DEF Reading, Scanned, Tree, Datum
    <3> HIDE DEF file
    <3>4. PICK files \in [Path -> Scanned] : files = [capture.files EXCEPT ![p] = file]
      BY <3>3
    <3>5. capture' = [capture EXCEPT !.todo = @ \ {p}, !.files = files]
      BY <3>1, <3>4 DEF CaptureState
    <3>6. capture' \in CaptureState /\ capture'.at = "scan" /\ capture'.base = capture.base
            /\ capture'.todo = capture.todo \ {p} /\ capture'.files = files
            /\ capture'.selected = capture.selected /\ capture'.context = capture.context
            /\ capture'.source = capture.source /\ capture'.index = capture.index
      BY <3>2, <3>5 DEF CaptureState
    <3>7. CaptureTyped' /\ Dated'
      BY <3>2, <3>6 DEF CaptureInv, CaptureTyped, Dated
    <3>8. ReadFiles' \subseteq ReadFiles \union {p}
      BY <3>2, <3>6 DEF ReadFiles, Paths
    <3>9. \A q \in ReadFiles' : q # p => q \in ReadFiles /\ files[q] = capture.files[q]
      BY <3>4, <3>8
    <3>10. \A q \in ReadFiles' : capture'.source # "commit" => capture'.files[q].staged = capture'.index[q]
      BY <3>3, <3>4, <3>6, <3>9 DEF CaptureInv, Scans
    <3>11. ASSUME capture.source = "worktree", NEW q \in ReadFiles'
           PROVE  ReadOf(capture'.files[q], project'.work[q])
      <4>1. CASE q = p
        <5>1. file.stamp \in Nat  BY <3>3 DEF Scanned
        <5>2. files[p] = file  BY <3>4
        <5>3. ReadOf(file, project.work[p])  BY <3>3, <3>11, <5>1 DEF ReadOf
        <5> QED BY <3>2, <3>6, <4>1, <5>2, <5>3
      <4>2. CASE q # p
        <5>1. q \in ReadFiles /\ files[q] = capture.files[q]  BY <3>9, <4>2
        <5>2. ReadOf(capture.files[q], project.work[q])
          BY <3>2, <3>11, <5>1 DEF CaptureInv, Scans
        <5> QED BY <3>2, <3>6, <5>1, <5>2
      <4> QED BY <4>1, <4>2
    <3>12. Scans'  BY <3>6, <3>10, <3>11 DEF Scans
    <3>13. Middle' /\ Agreed'  BY <3>6 DEF Middle, Agreed, AfterScan
    <3> QED BY <3>7, <3>12, <3>13 DEF CaptureInv
  <2> QED BY <2>1, <2>2
<1>6. CASE EndScan
  <2>1. /\ capture' = [capture EXCEPT !.at = IF Conflicts # {} THEN "refused" ELSE "compare"]
        /\ middle' = project /\ project' = project /\ capture.at = "scan" /\ capture.todo = {}
    BY <1>6 DEF EndScan
  <2>2. /\ capture' \in CaptureState /\ capture'.base = capture.base
        /\ capture'.files = capture.files /\ capture'.selected = capture.selected
        /\ capture'.context = capture.context /\ capture'.source = capture.source
        /\ capture'.index = capture.index
        /\ capture'.at = IF Conflicts # {} THEN "refused" ELSE "compare"
    BY <2>1 DEF CaptureState
  <2>3. CaptureTyped' /\ Dated'
    BY <2>1, <2>2 DEF CaptureInv, CaptureTyped, Dated, Reads
  <2>4. CASE Conflicts # {}
    BY <2>2, <2>3, <2>4 DEF CaptureInv, Scans, ReadFiles, Middle, Agreed, AfterScan
  <2>5. CASE Conflicts = {}
    <3>1. ReadFiles' = Paths /\ ReadFiles = Paths /\ Paths' = Paths
      BY <2>1, <2>2, <2>5 DEF ReadFiles, Paths
    <3>2. Scans'
      BY <2>1, <2>2, <2>5, <3>1 DEF CaptureInv, Scans
    <3>3. Grown(middle', project')
      <4>1. \A p \in Path : project.work[p].stamp \in Nat
        BY CaptureBound DEF WorkTree, WorkFile
      <4>2. project.changes \in Nat  BY CaptureBound DEF ProjectState
      <4> QED BY <2>1, <4>1, <4>2 DEF Grown
    <3>4. \A p \in Paths' \ capture'.selected : ~Changed(p)'
      BY <2>2, <2>5, <3>1 DEF Conflicts, Changed
    <3>5. capture'.source = "worktree" =>
            \A p \in Paths' : ReadOf(capture'.files[p], middle'.work[p])
      BY <2>1, <2>2, <3>1 DEF CaptureInv, Scans
    <3>6. Middle'  BY <3>3, <3>4, <3>5 DEF Middle
    <3>7. Agreed'  BY <2>2, <2>5 DEF Agreed
    <3> QED BY <2>3, <3>2, <3>6, <3>7 DEF CaptureInv
  <2> QED BY <2>4, <2>5
<1>7. CASE Compare
  <2> DEFINE moved == \/ project.head # capture.head
                      \/ Selection(project.index) # capture.selected
                      \/ capture.source # "commit" /\ \E p \in Paths : project.index[p] # capture.index[p]
  <2>1. CASE Again
    BY <1>7, <2>1, AgainFields, Unread DEF Compare, Reads
  <2>2. CASE ~moved /\ capture' = [capture EXCEPT !.at = "rescan",
                           !.todo = IF capture.source = "worktree" THEN Paths ELSE {}]
    <3>1. capture.at = "compare" /\ UNCHANGED <<project, middle>>  BY <1>7 DEF Compare
    <3>2. PICK todo \in SUBSET Path : /\ capture' = [capture EXCEPT !.at = "rescan", !.todo = todo]
                                      /\ capture.source = "worktree" => todo = Paths
      <4>1. CASE capture.source = "worktree"
        <5>1. capture' = [capture EXCEPT !.at = "rescan", !.todo = Paths]  BY <2>2, <4>1
        <5> QED BY <5>1
      <4>2. CASE capture.source # "worktree"
        <5>1. capture' = [capture EXCEPT !.at = "rescan", !.todo = {}]  BY <2>2, <4>2
        <5>2. {} \in SUBSET Path  OBVIOUS
        <5> QED BY <4>2, <5>1, <5>2
      <4> QED BY <4>1, <4>2
    <3>3. /\ capture' \in CaptureState /\ capture'.base = capture.base /\ capture'.at = "rescan"
          /\ capture'.files = capture.files /\ capture'.selected = capture.selected
          /\ capture'.context = capture.context /\ capture'.source = capture.source
          /\ capture'.index = capture.index /\ capture'.head = capture.head /\ capture'.todo = todo
      BY <3>2 DEF CaptureState
    <3>4. CaptureTyped' /\ Dated'
      BY <3>1, <3>3 DEF CaptureInv, CaptureTyped, Dated, Reads
    <3>5. ReadFiles' = Paths /\ ReadFiles = Paths /\ Paths' = Paths
      BY <3>1, <3>3 DEF ReadFiles, Paths
    <3>6. Scans'  BY <3>1, <3>3, <3>5 DEF CaptureInv, Scans
    <3>7. Middle'  BY <3>1, <3>3, <3>5 DEF CaptureInv, Middle, AfterScan, Changed
    <3>8. Agreed'
      <4>1. capture.source # "commit" => \A p \in Paths : project.index[p] = capture.files[p].staged
        BY <2>2, <3>1, <3>5 DEF CaptureInv, Scans
      <4> QED BY <2>2, <3>1, <3>2, <3>3, <3>5, <4>1 DEF Agreed
    <3> QED BY <3>4, <3>6, <3>7, <3>8 DEF CaptureInv
  <2> QED BY <1>7, <2>1, <2>2 DEF Compare
<1>8. ASSUME NEW p \in Path, Rescan(p) PROVE CaptureInv'
  <2>1. CASE Again
    BY <1>8, <2>1, AgainFields, Unread DEF Rescan, Reads
  <2>2. CASE SameRead(p) /\ capture' = [capture EXCEPT !.todo = @ \ {p}]
    <3>1. capture.at = "rescan" /\ UNCHANGED <<project, middle>>  BY <1>8 DEF Rescan
    <3>2. /\ capture' \in CaptureState /\ capture'.base = capture.base /\ capture'.at = "rescan"
          /\ capture'.files = capture.files /\ capture'.selected = capture.selected
          /\ capture'.context = capture.context /\ capture'.source = capture.source
          /\ capture'.index = capture.index /\ capture'.head = capture.head
          /\ capture'.todo = capture.todo \ {p}
      BY <2>2, <3>1 DEF CaptureState
    <3>3. CaptureTyped' /\ Dated'
      BY <3>1, <3>2 DEF CaptureInv, CaptureTyped, Dated
    <3>4. ReadFiles' = Paths /\ ReadFiles = Paths /\ Paths' = Paths
      BY <3>1, <3>2 DEF ReadFiles, Paths
    <3>5. Scans'  BY <3>1, <3>2, <3>4 DEF CaptureInv, Scans
    <3>6. Middle'  BY <3>1, <3>2, <3>4 DEF CaptureInv, Middle, AfterScan, Changed
    <3>7. ASSUME capture.source = "worktree", p \in Paths
          PROVE  capture.files[p].selected = middle.work[p].data \/ DeletedAgain(p)
      <4>1. Grown(middle, project) /\ ReadOf(capture.files[p], middle.work[p])
        BY <3>1, <3>7 DEF CaptureInv, Middle, AfterScan
      <4>2. project.work[p].data = capture.files[p].selected /\ StampOf(p) = capture.files[p].stamp
        BY <2>2 DEF SameRead
      <4>3. capture.files[p] \in Scanned /\ middle.work[p] \in WorkFile /\ project.work[p] \in WorkFile
        BY DEF ProjectState, WorkTree
      <4>4. capture.files[p].stamp \in Nat /\ middle.work[p].stamp \in Nat /\ project.work[p].stamp \in Nat
        BY <4>3, CaptureBound DEF Scanned, WorkFile
      <4>5. /\ middle.work[p].stamp <= project.work[p].stamp
            /\ middle.work[p].stamp = project.work[p].stamp =>
                 middle.work[p].data = project.work[p].data
        BY <4>1 DEF Grown
      <4>6. CASE capture.files[p].selected = "absent"
        <5>1. CASE middle.work[p].stamp = project.work[p].stamp  BY <4>2, <4>5, <5>1
        <5>2. CASE middle.work[p].stamp # project.work[p].stamp
          <6>1. middle.work[p].stamp < project.work[p].stamp  BY <4>4, <4>5, <5>2
          <6> QED BY <4>6, <6>1 DEF DeletedAgain
        <5> QED BY <5>1, <5>2
      <4>7. CASE capture.files[p].selected # "absent"
        <5>1. capture.files[p].stamp = project.work[p].stamp  BY <4>2, <4>7 DEF StampOf
        <5>2. capture.files[p].stamp <= middle.work[p].stamp  BY <4>1, <4>7 DEF ReadOf
        <5>3. middle.work[p].stamp = project.work[p].stamp  BY <4>4, <4>5, <5>1, <5>2
        <5> QED BY <4>2, <4>5, <5>3
      <4> QED BY <4>6, <4>7
    <3>8. \A q \in Path : DeletedAgain(q)' <=> DeletedAgain(q)
      BY <3>1, <3>2 DEF DeletedAgain
    <3>9. ASSUME capture'.source = "worktree", NEW q \in Paths' \ capture'.todo
          PROVE  capture'.files[q].selected = middle'.work[q].data \/ DeletedAgain(q)'
      <4>1. CASE q = p
        BY <3>1, <3>2, <3>4, <3>7, <3>8, <3>9, <4>1
      <4>2. CASE q # p
        <5>1. q \in Paths \ capture.todo  BY <3>2, <3>4, <4>2
        <5>2. capture.files[q].selected = middle.work[q].data \/ DeletedAgain(q)
          BY <3>1, <3>2, <3>9, <5>1 DEF CaptureInv, Agreed
        <5> QED BY <3>1, <3>2, <3>8, <5>1, <5>2
      <4> QED BY <4>1, <4>2
    <3>10. Agreed'
      BY <3>1, <3>2, <3>4, <3>9 DEF CaptureInv, Agreed
    <3> QED BY <3>3, <3>5, <3>6, <3>10 DEF CaptureInv
  <2> QED BY <1>8, <2>1, <2>2 DEF Rescan
<1>9. CASE Seal
  <2>1. capture.at = "rescan" /\ capture.todo = {} /\ UNCHANGED <<project, middle>>
    BY <1>9 DEF Seal
  <2>2. PICK commit \in Nat : capture' = [capture EXCEPT !.at = "saved", !.commit = commit]
    BY <1>9 DEF Seal
  <2>3. /\ capture' \in CaptureState /\ capture'.base = capture.base /\ capture'.at = "saved"
        /\ capture'.files = capture.files /\ capture'.selected = capture.selected
        /\ capture'.context = capture.context /\ capture'.source = capture.source
        /\ capture'.index = capture.index /\ capture'.head = capture.head
        /\ capture'.todo = {}
    BY <2>1, <2>2 DEF CaptureState
  <2>4. CaptureTyped' /\ Dated'
    BY <2>1, <2>3 DEF CaptureInv, CaptureTyped, Dated, Reads
  <2>5. ReadFiles' = Paths /\ ReadFiles = Paths /\ Paths' = Paths
    BY <2>1, <2>3 DEF ReadFiles, Paths
  <2>6. Scans'  BY <2>1, <2>3, <2>5 DEF CaptureInv, Scans
  <2>7. Middle'  BY <2>1, <2>3, <2>5 DEF CaptureInv, Middle, AfterScan, Changed
  <2>8. \A p \in Path : DeletedAgain(p)' <=> DeletedAgain(p)
    BY <2>1, <2>3 DEF DeletedAgain
  <2>9. Agreed'  BY <2>1, <2>3, <2>5, <2>8 DEF CaptureInv, Agreed
  <2> QED BY <2>4, <2>6, <2>7, <2>9 DEF CaptureInv
<1> QED BY <1>1, <1>2, <1>3, <1>4, <1>5, <1>6, <1>7, <1>8, <1>9 DEF CaptureNext, Moving

LEMMA CaptureBegins == ASSUME CaptureInit PROVE CaptureInv
<1>1. PICK source \in {"worktree", "staged", "commit"}, named \in SUBSET Path, context \in SUBSET Path :
        capture = [at |-> "identity", attempt |-> 1, source |-> source,
                  named |-> named, context |-> context, head |-> 0, base |-> 0,
                  index |-> Nothing, tree |-> Nothing, selected |-> {}, todo |-> {},
                  files |-> NoFiles, commit |-> 0]
  BY DEF CaptureInit
<1>2. capture \in CaptureState
  <2>1. {} \subseteq Path /\ 0 \in 0..MaxMoves + 1 /\ 1 \in Attempts  BY CaptureBound DEF Attempts
  <2> QED BY <1>1, <2>1, Empties DEF CaptureState
<1>3. /\ project = [work |-> [p \in Path |-> [data |-> "old", stamp |-> 0]],
                    index |-> [p \in Path |-> "old"],
                    commits |-> <<[p \in Path |-> "old"]>>, head |-> 1, branch |-> 1,
                    changes |-> 0]
      /\ middle = project
  BY DEF CaptureInit
<1>4. project \in ProjectState
  <2>1. 0 \in 0..MaxMoves /\ 1 \in 1..MaxMoves + 1  BY CaptureBound
  <2>2. [p \in Path |-> "old"] \in Tree /\ [p \in Path |-> [data |-> "old", stamp |-> 0]] \in WorkTree
    BY <2>1 DEF Tree, Datum, WorkTree, WorkFile
  <2>3. <<[p \in Path |-> "old"]>> \in Seq(Tree)  BY <2>2
  <2> QED BY <1>3, <2>1, <2>2, <2>3 DEF ProjectState
<1>5. Len(project.commits) = 1 /\ DOMAIN project.commits = {1} /\ project.head = 1
        /\ project.branch = 1 /\ project.changes = 0
  BY <1>3
<1>6. CaptureTyped
  <2>1. Len(project.commits) \in 1..project.changes + 1  BY <1>5
  <2>2. capture.at \notin Reads  BY <1>1 DEF Reads
  <2>3. middle \in ProjectState  BY <1>3, <1>4
  <2>4. project.head \in DOMAIN project.commits /\ project.branch \in DOMAIN project.commits
    BY <1>5
  <2> QED BY <1>2, <1>4, <2>1, <2>2, <2>3, <2>4 DEF CaptureTyped
<1>7. Dated
  <2>1. \A p \in Path : project.work[p].stamp = 0  BY <1>3
  <2>2. project.changes = 0  BY <1>3
  <2>3. ASSUME NEW p \in Path PROVE project.work[p].stamp <= project.changes
    <3>1. project.work[p].stamp = 0 /\ 0 <= 0  BY <2>1
    <3> QED BY <3>1, <2>2
  <2> QED BY <2>3 DEF Dated
<1>8. Scans /\ Middle /\ Agreed
  BY <1>1 DEF Scans, ReadFiles, Middle, AfterScan, Agreed
<1> QED BY <1>6, <1>7, <1>8 DEF CaptureInv

LEMMA CaptureStays == ASSUME CaptureInv, [CaptureNext]_captureVars PROVE CaptureInv'
<1>1. CASE Moving  BY <1>1, MovesGrow
<1>2. CASE CaptureNext /\ ~Moving  BY <1>2, CaptureSteps
<1>3. CASE UNCHANGED captureVars
  <2> USE <1>3 DEF captureVars
  <2>1. CaptureTyped' /\ Dated'  BY DEF CaptureInv, CaptureTyped, Dated
  <2>2. Scans'  BY DEF CaptureInv, Scans, ReadFiles, Paths
  <2>3. Middle' /\ Agreed'  BY DEF CaptureInv, Middle, AfterScan, Agreed, Paths, Changed, DeletedAgain
  <2> QED BY <2>1, <2>2, <2>3 DEF CaptureInv
<1> QED BY <1>1, <1>2, <1>3

LEMMA CaptureImplies == ASSUME CaptureInv PROVE SnapshotIsTrue
<1>0. CaptureTyped  BY DEF CaptureInv
<1>1. CaptureTypeOK
  <2>1. project \in [work : [Path -> [data : Datum, stamp : 0..MaxMoves]],
                  index : Tree, commits : Seq(Tree),
                  head : 1..MaxMoves + 1, branch : 1..MaxMoves + 1, changes : 0..MaxMoves]
    BY <1>0 DEF CaptureTyped, ProjectState, WorkTree, WorkFile
  <2> QED BY <1>0, <2>1 DEF CaptureTypeOK, CaptureTyped, CaptureState
<1>2. Saved => \A p \in Paths \ capture.selected : ~Changed(p)
  BY DEF Saved, CaptureInv, Middle, AfterScan
<1>3. Saved /\ capture.source = "worktree" =>
       \A p \in Paths : capture.files[p].selected = middle.work[p].data \/ DeletedAgain(p)
  BY DEF Saved, CaptureInv, Agreed
<1>4. Saved /\ project = middle => Assessment = "current_selected_state"
  <2> SUFFICES ASSUME Saved, project = middle PROVE Drifted = {} /\ project.head = capture.head
    BY DEF Assessment
  <2>1. project.head = capture.head  BY DEF Saved, CaptureInv, Agreed
  <2>2. \A p \in Paths : ~DeletedAgain(p)
    <3>1. Paths \subseteq Path /\ project \in ProjectState  BY CaptureFields
    <3>2. \A p \in Path : project.work[p].stamp \in Nat
      BY <3>1, CaptureBound DEF ProjectState, WorkTree, WorkFile
    <3> QED BY <3>1, <3>2 DEF DeletedAgain
  <2>3. Drifted = {}  BY <1>3, <2>2 DEF Drifted, Saved, CaptureInv, Agreed
  <2> QED BY <2>1, <2>3
<1> QED BY <1>1, <1>2, <1>3, <1>4 DEF SnapshotIsTrue

\* A sealed snapshot is one state of the project that existed between its two scans, but
\* for a file that was absent at both of its readings and there only in between; and
\* what is said of it afterwards is true of the project, whatever is edited, staged or
\* committed while it is taken.
THEOREM SnapshotTrue == CaptureSpec => []SnapshotIsTrue
BY CaptureBegins, CaptureStays, CaptureImplies, PTL DEF CaptureSpec

-----------------------------------------------------------------------------
(* ReviewChecks.  The verifier works on one check at a time and gives up   *)
(* for good: what it has not confirmed to be gone is the container of the  *)
(* check it stopped at, and that check is never done.                      *)

\* The rows of the checks, of the attempt, of the verifier and of what was seen.
LedgerRows == [state : {"none", "reserved", "running", "finished"}, result : Results,
               gone : BOOLEAN, unchanged : BOOLEAN]
ReviewRows == [state : {"running", "succeeded", "recovery"}, report : {"none", "success", "partial"},
               compared : BOOLEAN, verdict : {"none", "accept", "reject"}, blocked : BOOLEAN,
               paused : BOOLEAN, late : BOOLEAN, ended : BOOLEAN, confirmed : BOOLEAN]
CheckSteps == {"none", "next", "prepare", "create", "start", "record", "watch", "remove", "settle",
               "done", "dead"}
ExitCodes == {"none", "zero", "other"}
Assessments == {"none", "running", "uncertain", "not_run", "passed", "failed"}
VerifierRows == [at : CheckSteps, check : Check \union {NoCheck}, todo : SUBSET Check,
                 stop : BOOLEAN, gone : BOOLEAN, asked : BOOLEAN, known : BOOLEAN,
                 started : BOOLEAN, interrupted : BOOLEAN, code : ExitCodes, result : Assessments]
Vessels == Present \union {"none", "removed"}
SeenRows == [starts : 0..2, code : ExitCodes, dirty : BOOLEAN]
ChecksTyped ==
  /\ ledger \in [Check -> LedgerRows] /\ review \in ReviewRows /\ verifier \in VerifierRows
  /\ docker \in [Check -> Vessels] /\ witness \in [Check -> SeenRows]

\* The row of a check, its container and what was seen of its command.
RowIsTrue(row, vessel, seen) ==
  /\ row.state = "none" => vessel = "none"
  /\ row.state = "finished" <=> row.result # "none"
  /\ row.state = "finished" /\ row.gone => vessel \notin Present
  /\ row.result \in {"passed", "failed"} =>
       row.gone /\ row.unchanged /\ seen.starts = 1 /\ vessel = "removed"
  /\ row.result = "passed" => seen.code = "zero" /\ ~seen.dirty
  /\ seen.starts \in {0, 1}
  /\ seen.starts = 0 => vessel \in {"none", "asked", "created", "removed"}
  /\ seen.starts = 1 => vessel \in {"running", "exited", "removed"}

\* What the verifier knows of the check it is at.
Doings == {"prepare", "create", "start", "record", "watch", "remove", "settle"}
WorkIsTrue(v, row, vessel, seen) ==
  /\ row.state \in {"reserved", "running"}
  /\ v.at \in {"prepare", "create"} =>
       vessel = "none" /\ v.gone /\ ~v.asked /\ ~v.known
  /\ v.at \in {"prepare", "create", "start"} => seen.starts = 0 /\ ~v.started /\ v.code = "none"
  /\ v.at \in {"start", "record", "watch", "remove"} => ~v.gone
  /\ v.at = "start" => vessel = "created" /\ v.known /\ v.asked
  /\ v.at \in {"record", "watch"} =>
       seen.starts = 1 /\ v.known /\ v.asked /\ vessel \in {"running", "exited"} /\ v.code = "none"
  /\ v.at = "remove" => /\ ~v.asked => vessel = "none"
                        /\ v.known => vessel \in {"created", "running", "exited"}
  /\ v.started => seen.starts = 1
  /\ v.code # "none" => v.code = seen.code /\ vessel # "running"
  /\ v.at = "settle" => v.gone \/ v.interrupted

VerifierAlone ==
  /\ verifier.at \in {"none", "next"} =>
       verifier.gone /\ \A c \in Check : ledger[c].state \in {"none", "finished"}
  /\ verifier.at \in Doings =>
       /\ verifier.check \in Check
       /\ WorkIsTrue(verifier, ledger[verifier.check], docker[verifier.check],
                     witness[verifier.check])
       /\ \A c \in Check \ {verifier.check} : ledger[c].state \in {"none", "finished"}
  /\ \A c \in Check : c # verifier.check \/ verifier.gone => docker[c] \notin Present
ReviewIsTrue ==
  /\ review.compared => \A c \in Check : ledger[c].result \in {"passed", "failed"}
  /\ review.verdict = "accept" => \A c \in Check : ledger[c].result = "passed"
  /\ review.state = "succeeded" \/ review.confirmed =>
       review.state # "running" /\ verifier.gone /\ verifier.at \in {"none", "done", "dead"}
ChecksHold ==
  /\ ChecksTyped /\ VerifierAlone /\ ReviewIsTrue
  /\ \A c \in Check : RowIsTrue(ledger[c], docker[c], witness[c])

LEMMA CheckRows ==
  ASSUME ChecksHold
  PROVE  /\ ledger \in [Check -> LedgerRows] /\ review \in ReviewRows /\ verifier \in VerifierRows
         /\ docker \in [Check -> Vessels] /\ witness \in [Check -> SeenRows]
         /\ \A c \in Check : /\ ledger[c] \in LedgerRows /\ docker[c] \in Vessels
                             /\ witness[c] \in SeenRows
                             /\ RowIsTrue(ledger[c], docker[c], witness[c])
BY DEF ChecksHold, ChecksTyped

\* The assessment of the rows.
LEMMA AssessedIs ==
  ASSUME ChecksHold
  PROVE  /\ CheckAssessment \in Assessments
         /\ Settled => \A c \in Check : ledger[c].result \in {"passed", "failed"}
         /\ CheckAssessment = "passed" => \A c \in Check : ledger[c].result = "passed"
<1>1. CheckAssessment \in Assessments  BY DEF CheckAssessment, Assessments
<1>2. ASSUME Settled PROVE \A c \in Check : ledger[c].result \in {"passed", "failed"}
  <2> TAKE c \in Check
  <2>1. c \in Reserved /\ ledger[c].state # "running" /\ ~Uncertain(ledger[c])
    BY <1>2 DEF Settled, CheckAssessment, AllReserved
  <2>2. ledger[c] \in LedgerRows /\ ledger[c].state # "none" /\ ledger[c].state # "reserved"
        /\ ledger[c].result \notin {"interrupted", "not_run"}
    BY <2>1, CheckRows DEF Uncertain, Reserved
  <2>3. ledger[c].state = "finished" /\ ledger[c].result \in Results  BY <2>1, <2>2 DEF LedgerRows
  <2>4. ledger[c].result # "none"  BY <2>3, CheckRows DEF RowIsTrue
  <2> QED BY <2>2, <2>3, <2>4 DEF Results
<1>3. CheckAssessment = "passed" => \A c \in Check : ledger[c].result = "passed"
  BY DEF CheckAssessment, AllReserved
<1> QED BY <1>1, <1>2, <1>3

\* A step of the reviewing model, the operator or time.
LEMMA ReviewMoves ==
  ASSUME ChecksHold, UNCHANGED <<ledger, verifier, docker, witness>>, NEW new \in ReviewRows,
         review' = new, new.compared => review.compared \/ Settled,
         new.verdict = "accept" => review.verdict = "accept" \/ CheckAssessment = "passed",
         new.confirmed = review.confirmed,
         new.state = review.state \/ new.state = "recovery"
  PROVE  ChecksHold'
<1>1. ReviewIsTrue'
  <2>1. new.compared => \A c \in Check : ledger[c].result \in {"passed", "failed"}
    BY AssessedIs DEF ChecksHold, ReviewIsTrue
  <2>2. new.verdict = "accept" => \A c \in Check : ledger[c].result = "passed"
    BY AssessedIs DEF ChecksHold, ReviewIsTrue
  <2>3. new.state = "succeeded" \/ new.confirmed =>
          new.state # "running" /\ verifier.gone /\ verifier.at \in {"none", "done", "dead"}
    BY DEF ChecksHold, ReviewIsTrue
  <2> QED BY <2>1, <2>2, <2>3 DEF ReviewIsTrue
<1> QED BY <1>1 DEF ChecksHold, ChecksTyped, VerifierAlone

LEMMA ReviewersKeep ==
  ASSUME ChecksHold,
         \/ Report \/ CompareChecks \/ Accept \/ Reject \/ BlockReview \/ ModelEnds
         \/ FenceReview \/ PauseReview \/ ReviewExpires
  PROVE  ChecksHold'
<1>0. review \in ReviewRows  BY CheckRows
<1>1. CASE Report
  <2>1. PICK outcome \in {"success", "partial"} : review' = [review EXCEPT !.report = outcome]
    BY <1>1 DEF Report
  <2>2. PICK new \in ReviewRows : new = [review EXCEPT !.report = outcome]  BY <1>0 DEF ReviewRows
  <2>3. review' = new /\ new.compared = review.compared /\ new.verdict = review.verdict
        /\ new.confirmed = review.confirmed /\ new.state = review.state
    BY <1>0, <2>1, <2>2 DEF ReviewRows
  <2> QED BY <1>1, <2>3, ReviewMoves DEF Report, Reviewing
<1>2. CASE CompareChecks
  <2>2. PICK new \in ReviewRows : new = [review EXCEPT !.compared = TRUE]  BY <1>0 DEF ReviewRows
  <2>3. review' = new /\ new.verdict = review.verdict
        /\ new.confirmed = review.confirmed /\ new.state = review.state
    BY <1>0, <1>2, <2>2 DEF ReviewRows, CompareChecks
  <2> QED BY <1>2, <2>3, ReviewMoves DEF CompareChecks, Reviewing
<1>3. CASE Accept
  <2>2. PICK new \in ReviewRows : new = [review EXCEPT !.verdict = "accept"]  BY <1>0 DEF ReviewRows
  <2>3. review' = new /\ new.compared = review.compared
        /\ new.confirmed = review.confirmed /\ new.state = review.state
    BY <1>0, <1>3, <2>2 DEF ReviewRows, Accept
  <2> QED BY <1>3, <2>3, ReviewMoves DEF Accept, Reviewing
<1>4. CASE Reject
  <2>2. PICK new \in ReviewRows : new = [review EXCEPT !.verdict = "reject"]  BY <1>0 DEF ReviewRows
  <2>3. review' = new /\ new.compared = review.compared /\ new.verdict = "reject"
        /\ new.confirmed = review.confirmed /\ new.state = review.state
    BY <1>0, <1>4, <2>2 DEF ReviewRows, Reject
  <2> QED BY <1>4, <2>3, ReviewMoves DEF Reject, Reviewing
<1>5. CASE BlockReview \/ ModelEnds \/ PauseReview \/ ReviewExpires
  <2>1. PICK blocked \in BOOLEAN, ended \in BOOLEAN, paused \in BOOLEAN, late \in BOOLEAN :
          review' = [review EXCEPT !.blocked = blocked, !.ended = ended, !.paused = paused,
                                   !.late = late]
    <3>1. /\ review.blocked \in BOOLEAN /\ review.ended \in BOOLEAN
          /\ review.paused \in BOOLEAN /\ review.late \in BOOLEAN
      BY <1>0 DEF ReviewRows
    <3>2. CASE BlockReview
      <4>1. review' = [review EXCEPT !.blocked = TRUE, !.ended = review.ended,
                                     !.paused = review.paused, !.late = review.late]
        BY <1>0, <3>2 DEF BlockReview, ReviewRows
      <4> QED BY <3>1, <4>1
    <3>3. CASE ModelEnds
      <4>1. review' = [review EXCEPT !.blocked = review.blocked, !.ended = TRUE,
                                     !.paused = review.paused, !.late = review.late]
        BY <1>0, <3>3 DEF ModelEnds, ReviewRows
      <4> QED BY <3>1, <4>1
    <3>4. CASE PauseReview
      <4>0. PICK paused \in BOOLEAN : paused = ~review.paused  OBVIOUS
      <4>1. review' = [review EXCEPT !.blocked = review.blocked, !.ended = review.ended,
                                     !.paused = paused, !.late = review.late]
        BY <1>0, <3>4, <4>0 DEF PauseReview, ReviewRows
      <4> QED BY <3>1, <4>1
    <3>5. CASE ReviewExpires
      <4>1. review' = [review EXCEPT !.blocked = review.blocked, !.ended = review.ended,
                                     !.paused = review.paused, !.late = TRUE]
        BY <1>0, <3>5 DEF ReviewExpires, ReviewRows
      <4> QED BY <3>1, <4>1
    <3> QED BY <1>5, <3>2, <3>3, <3>4, <3>5
  <2>2. PICK new \in ReviewRows :
          new = [review EXCEPT !.blocked = blocked, !.ended = ended, !.paused = paused,
                               !.late = late]
    BY <1>0, ZenonT(60) DEF ReviewRows
  <2>3. review' = new /\ new.compared = review.compared /\ new.verdict = review.verdict
        /\ new.confirmed = review.confirmed /\ new.state = review.state
    BY <1>0, <2>1, <2>2 DEF ReviewRows
  <2>4. UNCHANGED <<ledger, verifier, docker, witness>>
    BY <1>5 DEF BlockReview, ModelEnds, PauseReview, ReviewExpires, Reviewing
  <2> QED BY <2>3, <2>4, ReviewMoves
<1>6. CASE FenceReview
  <2>2. PICK new \in ReviewRows : new = [review EXCEPT !.state = "recovery"]  BY <1>0 DEF ReviewRows
  <2>3. review' = new /\ new.compared = review.compared /\ new.verdict = review.verdict
        /\ new.confirmed = review.confirmed /\ new.state = "recovery"
    BY <1>0, <1>6, <2>2 DEF ReviewRows, FenceReview
  <2> QED BY <1>6, <2>3, ReviewMoves DEF FenceReview, Reviewing
<1> QED BY <1>1, <1>2, <1>3, <1>4, <1>5, <1>6

\* The verifier goes on with a check that is not finished.
LEMMA WorkGoesOn ==
  ASSUME ChecksHold, UNCHANGED review, NEW c \in Check, ledger[c].state # "finished",
         verifier.at = "next" \/ (verifier.at \in Doings /\ verifier.check = c),
         NEW v \in VerifierRows, NEW row \in LedgerRows, NEW vessel \in Vessels, NEW seen \in SeenRows,
         verifier' = v, ledger' = [ledger EXCEPT ![c] = row],
         docker' = [docker EXCEPT ![c] = vessel], witness' = [witness EXCEPT ![c] = seen],
         v.at \in Doings \union {"next", "done"}, v.at # "next" => v.check = c,
         RowIsTrue(row, vessel, seen),
         v.at \in Doings => WorkIsTrue(v, row, vessel, seen),
         v.at = "next" => v.gone /\ row.state = "finished",
         v.gone => vessel \notin Present
  PROVE  ChecksHold'
<1>1. ledger'[c] = row /\ docker'[c] = vessel /\ witness'[c] = seen
      /\ \A d \in Check \ {c} : /\ ledger'[d] = ledger[d] /\ docker'[d] = docker[d]
                                /\ witness'[d] = witness[d]
  BY CheckRows
<1>2. ChecksTyped'  BY CheckRows DEF ChecksTyped
<1>3. \A d \in Check : RowIsTrue(ledger'[d], docker'[d], witness'[d])
  BY <1>1, CheckRows
<1>4. \A d \in Check \ {c} : ledger[d].state \in {"none", "finished"} /\ docker[d] \notin Present
  BY DEF ChecksHold, VerifierAlone, Doings
<1>5. VerifierAlone'
  <2>1. v.at = "next" => v.gone /\ \A d \in Check : ledger'[d].state \in {"none", "finished"}
    BY <1>1, <1>4
  <2>2. v.at \in Doings => /\ v.check \in Check
                           /\ WorkIsTrue(v, ledger'[v.check], docker'[v.check], witness'[v.check])
                           /\ \A d \in Check \ {v.check} : ledger'[d].state \in {"none", "finished"}
    BY <1>1, <1>4 DEF Doings
  <2>3. \A d \in Check : d # v.check \/ v.gone => docker'[d] \notin Present
    BY <1>1, <1>4
  <2>4. v.at # "none"  BY DEF Doings
  <2> QED BY <2>1, <2>2, <2>3, <2>4 DEF VerifierAlone
<1>6. ledger[c].result = "none"  BY CheckRows DEF RowIsTrue
<1>7. verifier.at \notin {"none", "done", "dead"}  BY DEF Doings
<1>8. ReviewIsTrue'
  BY <1>6, <1>7 DEF ReviewIsTrue, ChecksHold
<1> QED BY <1>2, <1>3, <1>5, <1>8 DEF ChecksHold

\* The check the verifier is at.
LEMMA WorkFacts ==
  ASSUME ChecksHold, verifier.at \in Doings
  PROVE  /\ verifier.check \in Check /\ verifier \in VerifierRows
         /\ ledger[verifier.check] \in LedgerRows /\ docker[verifier.check] \in Vessels
         /\ witness[verifier.check] \in SeenRows
         /\ RowIsTrue(ledger[verifier.check], docker[verifier.check], witness[verifier.check])
         /\ WorkIsTrue(verifier, ledger[verifier.check], docker[verifier.check],
                       witness[verifier.check])
         /\ ledger[verifier.check].state # "finished"
         /\ ledger = [ledger EXCEPT ![verifier.check] = ledger[verifier.check]]
         /\ docker = [docker EXCEPT ![verifier.check] = docker[verifier.check]]
         /\ witness = [witness EXCEPT ![verifier.check] = witness[verifier.check]]
<1>1. verifier.check \in Check
      /\ WorkIsTrue(verifier, ledger[verifier.check], docker[verifier.check],
                    witness[verifier.check])
  BY DEF ChecksHold, VerifierAlone
<1> QED BY <1>1, CheckRows DEF WorkIsTrue

\* The rows the verifier's steps make of its own.
LEMMA VerifierMakes ==
  ASSUME verifier \in VerifierRows
  PROVE  /\ GiveUp \in VerifierRows /\ GiveUp.at = "done" /\ GiveUp.check = verifier.check
         /\ GiveUp.gone = verifier.gone
         /\ ToRemove \in VerifierRows /\ ToRemove.at = "remove"
         /\ ToRemove.check = verifier.check /\ ToRemove.gone = verifier.gone
         /\ ToRemove.asked = verifier.asked /\ ToRemove.known = verifier.known
         /\ ToRemove.started = verifier.started /\ ToRemove.code = verifier.code
BY DEF VerifierRows, GiveUp, ToRemove, CheckSteps, Assessments

LEMMA ReserveKeeps ==
  ASSUME ChecksHold, NEW c \in Check, ReserveCheck(c) PROVE ChecksHold'
<1>1. /\ verifier.at = "next" /\ c \in verifier.todo /\ UNCHANGED <<review, docker, witness>>
      /\ verifier \in VerifierRows
  BY CheckRows DEF ReserveCheck, VerifierAt
<1>2. verifier.gone /\ \A d \in Check : ledger[d].state \in {"none", "finished"}
      /\ docker[d] \notin Present
  BY <1>1 DEF ChecksHold, VerifierAlone
<1>3. CASE ledger' = ledger /\ verifier' = GiveUp
  <2>1. ChecksTyped'  BY <1>1, <1>3, CheckRows, VerifierMakes DEF ChecksTyped
  <2>2. VerifierAlone' /\ ReviewIsTrue'
    BY <1>1, <1>2, <1>3, VerifierMakes DEF ChecksHold, VerifierAlone, ReviewIsTrue, Doings
  <2> QED BY <1>1, <1>3, <2>1, <2>2 DEF ChecksHold
<1>4. CASE /\ ledger[c].state = "none"
           /\ ledger' = [ledger EXCEPT ![c].state = "reserved"]
           /\ verifier' = [verifier EXCEPT !.at = "prepare", !.check = c, !.todo = @ \ {c},
                            !.asked = FALSE, !.known = FALSE, !.started = FALSE,
                            !.interrupted = FALSE, !.code = "none"]
  <2>1. PICK v \in VerifierRows :
          v = [verifier EXCEPT !.at = "prepare", !.check = c, !.todo = verifier.todo \ {c},
                            !.asked = FALSE, !.known = FALSE, !.started = FALSE,
                            !.interrupted = FALSE, !.code = "none"]
    BY <1>1 DEF VerifierRows, CheckSteps, ExitCodes
  <2>2. verifier' = v  BY <1>4, <2>1
  <2>3. /\ v.at = "prepare" /\ v.check = c /\ ~v.asked /\ ~v.known /\ ~v.started
        /\ v.code = "none" /\ v.gone
    BY <1>1, <1>2, <2>1 DEF VerifierRows
  <2>4. PICK row \in LedgerRows : row = [ledger[c] EXCEPT !.state = "reserved"]
    BY CheckRows DEF LedgerRows
  <2>5. row.state = "reserved" /\ row.result = ledger[c].result  BY <2>4, CheckRows DEF LedgerRows
  <2>6. ledger' = [ledger EXCEPT ![c] = row]  BY <1>4, <2>4, CheckRows
  <2>7. /\ RowIsTrue(ledger[c], docker[c], witness[c]) /\ docker[c] \in Vessels
        /\ witness[c] \in SeenRows
    BY CheckRows
  <2>8. docker[c] = "none" /\ witness[c].starts = 0 /\ ledger[c].result = "none"
    BY <1>4, <2>7 DEF RowIsTrue
  <2>9. RowIsTrue(row, docker[c], witness[c]) /\ WorkIsTrue(v, row, docker[c], witness[c])
    BY <2>3, <2>5, <2>7, <2>8 DEF RowIsTrue, WorkIsTrue, Present
  <2>10. docker' = [docker EXCEPT ![c] = docker[c]] /\ witness' = [witness EXCEPT ![c] = witness[c]]
    BY <1>1, CheckRows
  <2>11. v.at \in Doings /\ docker[c] \notin Present  BY <1>2, <2>3 DEF Doings
  <2>12. ledger[c].state # "finished"  BY <1>4
  <2> QED BY <1>1, <2>2, <2>3, <2>6, <2>7, <2>9, <2>10, <2>11, <2>12, WorkGoesOn
<1> QED BY <1>3, <1>4 DEF ReserveCheck

\* The verifier gives up.
LEMMA WorkEnds ==
  ASSUME ChecksHold, UNCHANGED review, verifier.at \in Doings, NEW c \in Check, verifier.check = c,
         NEW row \in LedgerRows, NEW vessel \in Vessels, NEW seen \in SeenRows,
         verifier' = GiveUp, ledger' = [ledger EXCEPT ![c] = row],
         docker' = [docker EXCEPT ![c] = vessel], witness' = [witness EXCEPT ![c] = seen],
         RowIsTrue(row, vessel, seen), verifier.gone => vessel \notin Present
  PROVE  ChecksHold'
<1>1. verifier \in VerifierRows /\ ledger[c].state # "finished"  BY WorkFacts
<1>2. PICK v \in VerifierRows : v = GiveUp  BY <1>1, VerifierMakes
<1>3. v.at = "done" /\ v.check = c /\ v.gone = verifier.gone  BY <1>1, <1>2, VerifierMakes
<1>4. v.at \in Doings \union {"next", "done"} /\ v.at \notin Doings /\ v.at # "next"
  BY <1>3 DEF Doings
<1>5. verifier' = v /\ (v.gone => vessel \notin Present)  BY <1>2, <1>3
<1> QED BY <1>1, <1>3, <1>4, <1>5, WorkGoesOn

\* A check that ends without a container.
LEMMA UnstartedKeeps ==
  ASSUME ChecksHold, verifier.at \in {"prepare", "create"}, UNCHANGED <<review, docker, witness>>,
         NEW result \in {"not_run", "interrupted"}, Unstarted(result), verifier' = GiveUp
  PROVE  ChecksHold'
<1>0. PICK c : c = verifier.check  OBVIOUS
<1>1. verifier.at \in Doings  BY DEF Doings
<1>2. /\ c \in Check /\ verifier \in VerifierRows /\ ledger[c] \in LedgerRows
      /\ docker[c] \in Vessels /\ witness[c] \in SeenRows
      /\ RowIsTrue(ledger[c], docker[c], witness[c])
      /\ WorkIsTrue(verifier, ledger[c], docker[c], witness[c])
      /\ ledger[c].state # "finished"
      /\ docker = [docker EXCEPT ![c] = docker[c]] /\ witness = [witness EXCEPT ![c] = witness[c]]
  BY <1>0, <1>1, WorkFacts
<1>3. docker[c] = "none" /\ witness[c].starts = 0  BY <1>2 DEF WorkIsTrue
<1>4. PICK row \in LedgerRows : row = [state |-> "finished", result |-> result,
                                      gone |-> TRUE, unchanged |-> FALSE]
  BY DEF LedgerRows, Results
<1>5. ledger' = [ledger EXCEPT ![c] = row]  BY <1>0, <1>4 DEF Unstarted, c0
<1>6. RowIsTrue(row, docker[c], witness[c])
  BY <1>2, <1>3, <1>4 DEF RowIsTrue, Present
<1>7. docker[c] \notin Present /\ GiveUp.at \notin Doings /\ GiveUp.at # "next"
  BY <1>2, <1>3, VerifierMakes DEF Present, Doings
<1>8. /\ docker' = [docker EXCEPT ![c] = docker[c]] /\ verifier.check = c
      /\ witness' = [witness EXCEPT ![c] = witness[c]] /\ UNCHANGED review
  BY <1>0, <1>2
<1> QED BY <1>1, <1>2, <1>4, <1>5, <1>6, <1>7, <1>8, WorkEnds, ZenonT(60)

LEMMA PrepareKeeps == ASSUME ChecksHold, PrepareCheck PROVE ChecksHold'
<1>0. PICK c : c = verifier.check  OBVIOUS
<1>1. verifier.at = "prepare" /\ verifier.at \in Doings /\ UNCHANGED <<review, docker, witness>>
  BY DEF PrepareCheck, VerifierAt, Doings
<1>2. /\ c \in Check /\ verifier \in VerifierRows /\ ledger[c] \in LedgerRows
      /\ docker[c] \in Vessels /\ witness[c] \in SeenRows
      /\ RowIsTrue(ledger[c], docker[c], witness[c])
      /\ WorkIsTrue(verifier, ledger[c], docker[c], witness[c])
      /\ ledger[c].state # "finished" /\ ledger = [ledger EXCEPT ![c] = ledger[c]]
      /\ docker = [docker EXCEPT ![c] = docker[c]] /\ witness = [witness EXCEPT ![c] = witness[c]]
  BY <1>0, <1>1, WorkFacts
<1>3. docker[c] = "none" /\ verifier.gone /\ witness[c].starts = 0
  BY <1>1, <1>2 DEF WorkIsTrue
<1>4. CASE ledger' = ledger /\ verifier' = [verifier EXCEPT !.at = "create"]
  <2>1. PICK v \in VerifierRows : v = [verifier EXCEPT !.at = "create"]
    BY <1>2 DEF VerifierRows, CheckSteps
  <2>2. v.at = "create" /\ v.check = c /\ v.gone /\ v.asked = verifier.asked
        /\ v.known = verifier.known /\ v.started = verifier.started /\ v.code = verifier.code
    BY <1>0, <1>2, <1>3, <2>1 DEF VerifierRows
  <2>3. WorkIsTrue(v, ledger[c], docker[c], witness[c])
    BY <1>1, <1>2, <2>2 DEF WorkIsTrue
  <2>4. v.at \in Doings /\ docker[c] \notin Present  BY <1>3, <2>2 DEF Doings, Present
  <2>5. /\ ledger' = [ledger EXCEPT ![c] = ledger[c]] /\ docker' = [docker EXCEPT ![c] = docker[c]]
        /\ witness' = [witness EXCEPT ![c] = witness[c]] /\ verifier' = v /\ UNCHANGED review
        /\ verifier.at \in Doings /\ verifier.check = c
    BY <1>0, <1>1, <1>2, <1>4, <2>1
  <2>6. v.at # "next"  BY <2>2
  <2> QED BY <1>2, <2>2, <2>3, <2>4, <2>5, <2>6, WorkGoesOn
<1>5. ASSUME NEW result \in {"not_run", "interrupted"}, Unstarted(result), verifier' = GiveUp
      PROVE  ChecksHold'
  BY <1>0, <1>1, <1>2, <1>3, <1>5, UnstartedKeeps
<1> QED BY <1>4, <1>5 DEF PrepareCheck

\* The verifier goes on with its check.
LEMMA WorkContinues ==
  ASSUME ChecksHold, UNCHANGED review, verifier.at \in Doings, NEW c \in Check, verifier.check = c,
         NEW v \in VerifierRows, v.at \in Doings, v.check = c,
         NEW row \in LedgerRows, NEW vessel \in Vessels, NEW seen \in SeenRows,
         verifier' = v, ledger' = [ledger EXCEPT ![c] = row],
         docker' = [docker EXCEPT ![c] = vessel], witness' = [witness EXCEPT ![c] = seen],
         RowIsTrue(row, vessel, seen), WorkIsTrue(v, row, vessel, seen),
         v.gone => vessel \notin Present
  PROVE  ChecksHold'
<1>1. ledger[c].state # "finished"  BY WorkFacts
<1>2. v.at # "next" /\ v.at \in Doings \union {"next", "done"}  BY DEF Doings
<1> QED BY <1>1, <1>2, WorkGoesOn

\* What is true of the check at hand, whatever the verifier does.
AtHand(c) ==
  /\ c \in Check /\ verifier.check = c /\ verifier.at \in Doings /\ verifier \in VerifierRows
  /\ ledger[c] \in LedgerRows /\ docker[c] \in Vessels /\ witness[c] \in SeenRows
  /\ RowIsTrue(ledger[c], docker[c], witness[c])
  /\ WorkIsTrue(verifier, ledger[c], docker[c], witness[c])
  /\ ledger = [ledger EXCEPT ![c] = ledger[c]] /\ docker = [docker EXCEPT ![c] = docker[c]]
  /\ witness = [witness EXCEPT ![c] = witness[c]]
LEMMA HandFacts ==
  ASSUME ChecksHold, verifier.at \in Doings PROVE AtHand(verifier.check)
BY WorkFacts DEF AtHand

LEMMA CreateKeeps == ASSUME ChecksHold, CreateContainer PROVE ChecksHold'
<1>0. PICK c : c = verifier.check  OBVIOUS
<1>1. verifier.at = "create" /\ verifier.at \in Doings /\ UNCHANGED <<review, witness>>
  BY DEF CreateContainer, VerifierAt, Doings
<1>2. AtHand(c)  BY <1>0, <1>1, HandFacts
<1>3. /\ docker[c] = "none" /\ verifier.gone /\ witness[c].starts = 0 /\ ~verifier.started
      /\ ~verifier.asked /\ ~verifier.known /\ verifier.code = "none"
  BY <1>1, <1>2 DEF AtHand, WorkIsTrue
<1>4. CASE Unstarted("interrupted") /\ verifier' = GiveUp /\ docker' = docker
  BY <1>1, <1>4, UnstartedKeeps
<1>5. ASSUME NEW v \in VerifierRows, NEW vessel \in {"none", "asked", "created"},
             verifier' = v, ledger' = ledger, docker' = [docker EXCEPT ![c] = vessel],
             v.at \in {"start", "remove"}, v.check = c, ~v.gone, ~v.started, v.code = "none",
             v.at = "start" => vessel = "created" /\ v.known /\ v.asked,
             ~v.asked => vessel = "none", v.known => vessel = "created"
      PROVE  ChecksHold'
  <2>1. RowIsTrue(ledger[c], vessel, witness[c]) /\ WorkIsTrue(v, ledger[c], vessel, witness[c])
    BY <1>1, <1>2, <1>3, <1>5 DEF AtHand, RowIsTrue, WorkIsTrue, Present
  <2>2. v.at \in Doings /\ vessel \in Vessels  BY <1>5 DEF Doings, Vessels, Present
  <2>3. /\ ledger' = [ledger EXCEPT ![c] = ledger[c]] /\ witness' = [witness EXCEPT ![c] = witness[c]]
        /\ c \in Check /\ verifier.check = c /\ ledger[c] \in LedgerRows /\ witness[c] \in SeenRows
    BY <1>1, <1>2, <1>5 DEF AtHand
  <2> QED BY <1>1, <1>5, <2>1, <2>2, <2>3, WorkContinues
<1>6. PICK asked \in VerifierRows : asked = [verifier EXCEPT !.gone = FALSE, !.asked = TRUE]
  BY <1>2 DEF AtHand, VerifierRows
<1>7. /\ asked.check = c /\ ~asked.gone /\ asked.asked /\ ~asked.known /\ ~asked.started
      /\ asked.code = "none"
  BY <1>0, <1>2, <1>3, <1>6 DEF AtHand, VerifierRows
<1>8. CASE /\ ledger' = ledger /\ docker' = [docker EXCEPT ![c] = "created"]
           /\ verifier' = [asked EXCEPT !.at = "start", !.known = TRUE]
  <2>1. PICK v \in VerifierRows : v = [asked EXCEPT !.at = "start", !.known = TRUE]
    BY DEF VerifierRows, CheckSteps
  <2>2. /\ v.at = "start" /\ v.known /\ v.check = c /\ ~v.gone /\ v.asked /\ ~v.started
        /\ v.code = "none"
    BY <1>7, <2>1 DEF VerifierRows
  <2> QED BY <1>5, <1>8, <2>1, <2>2
<1>9. ASSUME NEW known \in BOOLEAN, NEW vessel \in {"asked", "created"}, known => vessel = "created",
             ledger' = ledger, docker' = [docker EXCEPT ![c] = vessel],
             verifier' = [asked EXCEPT !.at = "remove", !.known = known, !.interrupted = TRUE]
      PROVE  ChecksHold'
  <2>1. PICK v \in VerifierRows :
          v = [asked EXCEPT !.at = "remove", !.known = known, !.interrupted = TRUE]
    BY DEF VerifierRows, CheckSteps
  <2>2. /\ v.at = "remove" /\ v.known = known /\ v.check = c /\ ~v.gone /\ v.asked /\ ~v.started
        /\ v.code = "none"
    BY <1>7, <2>1 DEF VerifierRows
  <2> QED BY <1>5, <1>9, <2>1, <2>2
<1>10. [asked EXCEPT !.at = "remove", !.interrupted = TRUE]
         = [asked EXCEPT !.at = "remove", !.known = FALSE, !.interrupted = TRUE]
  BY <1>6, <1>7 DEF VerifierRows
<1>11. CASE ledger' = ledger /\ docker' = docker /\ verifier' = [ToRemove EXCEPT !.gone = FALSE]
  <2>1. PICK v \in VerifierRows : v = [ToRemove EXCEPT !.gone = FALSE]
    BY <1>2, VerifierMakes DEF AtHand, VerifierRows
  <2>2. ToRemove \in VerifierRows /\ ToRemove.at = "remove" /\ ToRemove.check = c
        /\ ~ToRemove.asked /\ ~ToRemove.known /\ ~ToRemove.started /\ ToRemove.code = "none"
    BY <1>0, <1>2, <1>3, VerifierMakes DEF AtHand
  <2>3. /\ v.at = "remove" /\ ~v.known /\ v.check = c /\ ~v.gone /\ ~v.asked /\ ~v.started
        /\ v.code = "none"
    BY <2>1, <2>2 DEF VerifierRows
  <2>4. docker' = [docker EXCEPT ![c] = "none"]  BY <1>2, <1>3, <1>11 DEF AtHand
  <2> QED BY <1>5, <1>11, <2>1, <2>3, <2>4
<1>12. \/ Unstarted("interrupted") /\ verifier' = GiveUp /\ docker' = docker
       \/ /\ ledger' = ledger /\ docker' = [docker EXCEPT ![c] = "created"]
          /\ verifier' \in {[asked EXCEPT !.at = "start", !.known = TRUE],
                            [asked EXCEPT !.at = "remove", !.known = TRUE, !.interrupted = TRUE],
                            [asked EXCEPT !.at = "remove", !.interrupted = TRUE]}
       \/ /\ ledger' = ledger /\ docker' = [docker EXCEPT ![c] = "asked"]
          /\ verifier' = [asked EXCEPT !.at = "remove", !.interrupted = TRUE]
       \/ ledger' = ledger /\ docker' = docker /\ verifier' = [ToRemove EXCEPT !.gone = FALSE]
  BY <1>0, <1>6 DEF CreateContainer, c0
<1> QED BY <1>4, <1>8, <1>9, <1>10, <1>11, <1>12

\* A verifier step that changes no row, no container and nothing seen.
LEMMA WorkStays ==
  ASSUME ChecksHold, NEW c, AtHand(c), UNCHANGED <<review, ledger, docker, witness>>,
         NEW v \in VerifierRows, verifier' = v, v.at \in Doings, v.check = c, ~v.gone,
         WorkIsTrue(v, ledger[c], docker[c], witness[c])
  PROVE  ChecksHold'
<1>1. PICK row \in LedgerRows, vessel \in Vessels, seen \in SeenRows :
        row = ledger[c] /\ vessel = docker[c] /\ seen = witness[c]
  BY DEF AtHand
<1>2. /\ ledger' = [ledger EXCEPT ![c] = row] /\ docker' = [docker EXCEPT ![c] = vessel]
      /\ witness' = [witness EXCEPT ![c] = seen] /\ review' = review
  BY <1>1 DEF AtHand
<1>3. /\ RowIsTrue(row, vessel, seen) /\ WorkIsTrue(v, row, vessel, seen)
      /\ c \in Check /\ verifier.check = c /\ verifier.at \in Doings
  BY <1>1 DEF AtHand
<1> QED BY <1>2, <1>3, WorkContinues

\* A container that is up is removed, whatever its verifier knows of it.
LEMMA RemovalKeeps ==
  ASSUME ChecksHold, verifier.at \in {"start", "record", "watch"}, verifier' = ToRemove,
         UNCHANGED <<review, ledger, docker, witness>>
  PROVE  ChecksHold'
<1>0. PICK c : c = verifier.check  OBVIOUS
<1>1. AtHand(c)  BY <1>0, HandFacts DEF Doings
<1>2. PICK v \in VerifierRows : v = ToRemove  BY <1>1, VerifierMakes DEF AtHand
<1>3. /\ v.at = "remove" /\ v.check = c /\ v.gone = verifier.gone /\ v.asked = verifier.asked
      /\ v.known = verifier.known /\ v.started = verifier.started /\ v.code = verifier.code
  BY <1>0, <1>1, <1>2, VerifierMakes DEF AtHand
<1>4. /\ ~verifier.gone /\ verifier.known /\ verifier.asked
      /\ docker[c] \in {"created", "running", "exited"} /\ verifier.code = "none"
      /\ verifier.started => witness[c].starts = 1
      /\ ledger[c].state \in {"reserved", "running"}
  BY <1>1 DEF AtHand, WorkIsTrue
<1>5. WorkIsTrue(v, ledger[c], docker[c], witness[c])  BY <1>3, <1>4 DEF WorkIsTrue
<1>6. v.at \in Doings /\ ~v.gone  BY <1>3, <1>4 DEF Doings
<1> QED BY <1>1, <1>2, <1>3, <1>5, <1>6, WorkStays

LEMMA StartKeeps == ASSUME ChecksHold, StartContainer PROVE ChecksHold'
<1>0. PICK c : c = verifier.check  OBVIOUS
<1>1. verifier.at = "start" /\ verifier.at \in Doings /\ UNCHANGED <<review, ledger>>
  BY DEF StartContainer, VerifierAt, Doings
<1>2. AtHand(c)  BY <1>0, <1>1, HandFacts
<1>3. /\ docker[c] = "created" /\ ~verifier.gone /\ witness[c].starts = 0 /\ verifier.known
      /\ verifier.asked /\ verifier.code = "none" /\ ledger[c].state \in {"reserved", "running"}
  BY <1>1, <1>2 DEF AtHand, WorkIsTrue
<1>4. CASE verifier' = ToRemove /\ UNCHANGED <<docker, witness>>
  BY <1>1, <1>4, RemovalKeeps
<1>5. CASE /\ docker' = [docker EXCEPT ![c] = "running"]
           /\ witness' = [witness EXCEPT ![c].starts = @ + 1]
           /\ verifier' \in {[verifier EXCEPT !.at = "record", !.started = TRUE], ToRemove}
  <2>0. PICK once \in 0..2 : once = 1  OBVIOUS
  <2>1. PICK seen \in SeenRows : seen = [witness[c] EXCEPT !.starts = once]
    BY <1>2 DEF AtHand, SeenRows
  <2>2. seen.starts = 1 /\ seen.code = witness[c].code /\ witness[c].starts + 1 = 1
    BY <1>2, <1>3, <2>0, <2>1 DEF AtHand, SeenRows
  <2>3. witness' = [witness EXCEPT ![c] = seen]
    BY <1>2, <1>5, <2>0, <2>1, <2>2, CheckRows DEF AtHand
  <2>4. RowIsTrue(ledger[c], "running", seen)
    BY <1>2, <1>3, <2>2 DEF AtHand, RowIsTrue, Present
  <2>5. PICK v \in VerifierRows :
          /\ verifier' = v /\ v.at \in {"record", "remove"} /\ v.check = c /\ ~v.gone
          /\ v.asked /\ v.known /\ v.code = "none"
    <3>1. CASE verifier' = ToRemove
      <4>1. /\ ToRemove \in VerifierRows /\ ToRemove.at = "remove" /\ ToRemove.check = c
            /\ ToRemove.gone = verifier.gone /\ ToRemove.asked = verifier.asked
            /\ ToRemove.known = verifier.known /\ ToRemove.code = verifier.code
        BY <1>2, VerifierMakes DEF AtHand
      <4> QED BY <1>3, <3>1, <4>1
    <3>2. CASE verifier' = [verifier EXCEPT !.at = "record", !.started = TRUE]
      <4>1. PICK v \in VerifierRows : v = [verifier EXCEPT !.at = "record", !.started = TRUE]
        BY <1>2 DEF AtHand, VerifierRows, CheckSteps
      <4>2. /\ v.at = "record" /\ v.check = c /\ v.gone = verifier.gone /\ v.asked = verifier.asked
            /\ v.known = verifier.known /\ v.code = verifier.code
        BY <1>2, <4>1 DEF AtHand, VerifierRows
      <4> QED BY <1>3, <3>2, <4>1, <4>2
    <3> QED BY <1>5, <3>1, <3>2
  <2>6. WorkIsTrue(v, ledger[c], "running", seen)  BY <1>3, <2>2, <2>5 DEF WorkIsTrue
  <2>7. v.at \in Doings /\ "running" \in Vessels  BY <2>5 DEF Doings, Vessels, Present
  <2>8. /\ ledger' = [ledger EXCEPT ![c] = ledger[c]] /\ ledger[c] \in LedgerRows
        /\ c \in Check /\ verifier.check = c
    BY <1>1, <1>2 DEF AtHand
  <2> QED BY <1>1, <1>5, <2>3, <2>4, <2>5, <2>6, <2>7, <2>8, WorkContinues
<1> QED BY <1>0, <1>4, <1>5 DEF StartContainer, c0

LEMMA RecordKeeps == ASSUME ChecksHold, RecordStart PROVE ChecksHold'
<1>0. PICK c : c = verifier.check  OBVIOUS
<1>1. verifier.at = "record" /\ verifier.at \in Doings /\ UNCHANGED <<review, docker, witness>>
  BY DEF RecordStart, VerifierAt, Doings
<1>2. AtHand(c)  BY <1>0, <1>1, HandFacts
<1>3. CASE ledger' = ledger /\ verifier' = ToRemove
  BY <1>1, <1>3, RemovalKeeps
<1>4. CASE /\ ledger' = [ledger EXCEPT ![c].state = "running"]
           /\ verifier' = [verifier EXCEPT !.at = "watch"]
  <2>1. PICK v \in VerifierRows : v = [verifier EXCEPT !.at = "watch"]
    BY <1>2 DEF AtHand, VerifierRows, CheckSteps
  <2>2. /\ v.at = "watch" /\ v.check = c /\ v.gone = verifier.gone /\ v.asked = verifier.asked
        /\ v.known = verifier.known /\ v.started = verifier.started /\ v.code = verifier.code
    BY <1>2, <2>1 DEF AtHand, VerifierRows
  <2>3. PICK row \in LedgerRows : row = [ledger[c] EXCEPT !.state = "running"]
    BY <1>2 DEF AtHand, LedgerRows
  <2>4. row.state = "running" /\ row.result = ledger[c].result  BY <1>2, <2>3 DEF AtHand, LedgerRows
  <2>5. ledger' = [ledger EXCEPT ![c] = row]  BY <1>2, <1>4, <2>3, CheckRows DEF AtHand
  <2>6. ledger[c].state # "finished"  BY <1>2 DEF AtHand, WorkIsTrue
  <2>7. RowIsTrue(row, docker[c], witness[c])  BY <1>2, <2>4, <2>6 DEF AtHand, RowIsTrue
  <2>8. ~v.gone /\ WorkIsTrue(v, row, docker[c], witness[c])
    BY <1>1, <1>2, <2>2, <2>4 DEF AtHand, WorkIsTrue
  <2>9. v.at \in Doings /\ verifier' = v  BY <1>4, <2>1, <2>2 DEF Doings
  <2>10. /\ docker' = [docker EXCEPT ![c] = docker[c]] /\ docker[c] \in Vessels
         /\ witness' = [witness EXCEPT ![c] = witness[c]] /\ witness[c] \in SeenRows
         /\ c \in Check /\ verifier.check = c /\ UNCHANGED review
    BY <1>1, <1>2 DEF AtHand
  <2> QED BY <1>1, <2>2, <2>5, <2>7, <2>8, <2>9, <2>10, WorkContinues
<1> QED BY <1>0, <1>3, <1>4 DEF RecordStart, c0

LEMMA WatchKeeps == ASSUME ChecksHold, WatchContainer PROVE ChecksHold'
<1>0. PICK c : c = verifier.check  OBVIOUS
<1>1. verifier.at = "watch" /\ verifier.at \in Doings /\ UNCHANGED <<review, ledger, docker, witness>>
  BY DEF WatchContainer, VerifierAt, Doings
<1>2. AtHand(c)  BY <1>0, <1>1, HandFacts
<1>3. CASE verifier' = ToRemove
  BY <1>1, <1>3, RemovalKeeps
<1>4. ASSUME NEW code \in ExitCodes, code = "none" \/ (code = witness[c].code /\ docker[c] = "exited"),
             verifier' = [verifier EXCEPT !.at = "remove", !.code = code]
      PROVE  ChecksHold'
  <2>1. PICK v \in VerifierRows : v = [verifier EXCEPT !.at = "remove", !.code = code]
    BY <1>2 DEF AtHand, VerifierRows, CheckSteps
  <2>2. /\ v.at = "remove" /\ v.check = c /\ v.gone = verifier.gone /\ v.asked = verifier.asked
        /\ v.known = verifier.known /\ v.started = verifier.started /\ v.code = code
    BY <1>2, <2>1 DEF AtHand, VerifierRows
  <2>3. ~v.gone /\ WorkIsTrue(v, ledger[c], docker[c], witness[c])
    BY <1>1, <1>2, <1>4, <2>2 DEF AtHand, WorkIsTrue
  <2>4. v.at \in Doings /\ verifier' = v  BY <1>4, <2>1, <2>2 DEF Doings
  <2> QED BY <1>1, <1>2, <2>2, <2>3, <2>4, WorkStays
<1>5. CASE verifier' = [verifier EXCEPT !.at = "remove"]
  <2>1. verifier.code = "none"  BY <1>1, <1>2 DEF AtHand, WorkIsTrue
  <2>2. verifier' = [verifier EXCEPT !.at = "remove", !.code = "none"]
    BY <1>2, <1>5, <2>1 DEF AtHand, VerifierRows
  <2> QED BY <1>4, <2>2 DEF ExitCodes
<1>6. CASE docker[c] = "exited" /\ verifier' = [verifier EXCEPT !.at = "remove", !.code = witness[c].code]
  <2>1. witness[c].code \in ExitCodes  BY <1>2 DEF AtHand, SeenRows
  <2> QED BY <1>4, <1>6, <2>1
<1> QED BY <1>0, <1>3, <1>5, <1>6 DEF WatchContainer, c0
LEMMA RemoveKeeps == ASSUME ChecksHold, RemoveContainer PROVE ChecksHold'
<1>0. PICK c : c = verifier.check  OBVIOUS
<1>1. /\ verifier.at = "remove" /\ verifier.at \in Doings /\ UNCHANGED review
      /\ UNCHANGED <<ledger, witness>>
  BY DEF RemoveContainer, VerifierAt, Doings
<1>2. AtHand(c)  BY <1>0, <1>1, HandFacts
<1>3. /\ ledger[c].state \in {"reserved", "running"} /\ ~verifier.gone
      /\ ~verifier.asked => docker[c] = "none"
      /\ verifier.known => docker[c] \in {"created", "running", "exited"}
      /\ verifier.started => witness[c].starts = 1
      /\ verifier.code # "none" => verifier.code = witness[c].code /\ docker[c] # "running"
  BY <1>1, <1>2 DEF AtHand, WorkIsTrue
<1>4. ASSUME NEW v \in VerifierRows, NEW vessel \in Vessels, verifier' = v,
             docker' = [docker EXCEPT ![c] = vessel], v.at = "settle", v.check = c,
             v.started = verifier.started, v.code = verifier.code, v.gone \/ v.interrupted,
             v.gone => vessel \notin Present,
             vessel = docker[c] \/ (vessel = "removed" /\ docker[c] # "none")
      PROVE  ChecksHold'
  <2>1. RowIsTrue(ledger[c], vessel, witness[c])
    BY <1>2, <1>3, <1>4 DEF AtHand, RowIsTrue, Present
  <2>2. WorkIsTrue(v, ledger[c], vessel, witness[c])
    BY <1>3, <1>4 DEF WorkIsTrue
  <2>3. v.at \in Doings  BY <1>4 DEF Doings
  <2>4. /\ ledger' = [ledger EXCEPT ![c] = ledger[c]] /\ witness' = [witness EXCEPT ![c] = witness[c]]
        /\ verifier.check = c /\ c \in Check /\ ledger[c] \in LedgerRows /\ witness[c] \in SeenRows
    BY <1>1, <1>2 DEF AtHand
  <2> QED BY <1>1, <1>4, <2>1, <2>2, <2>3, <2>4, WorkContinues
<1>5. PICK gone \in VerifierRows : gone = [verifier EXCEPT !.at = "settle", !.gone = TRUE]
  BY <1>2 DEF AtHand, VerifierRows, CheckSteps
<1>6. /\ gone.at = "settle" /\ gone.check = c /\ gone.started = verifier.started
      /\ gone.code = verifier.code /\ gone.gone
  BY <1>2, <1>5 DEF AtHand, VerifierRows
<1>7. PICK unconfirmed \in VerifierRows :
        unconfirmed = [verifier EXCEPT !.at = "settle", !.interrupted = TRUE]
  BY <1>2 DEF AtHand, VerifierRows, CheckSteps
<1>8. /\ unconfirmed.at = "settle" /\ unconfirmed.check = c
      /\ unconfirmed.started = verifier.started /\ unconfirmed.code = verifier.code
      /\ unconfirmed.interrupted /\ ~unconfirmed.gone
      /\ [ToRemove EXCEPT !.at = "settle"] = unconfirmed
  BY <1>2, <1>3, <1>7 DEF AtHand, VerifierRows, ToRemove
<1>9. docker[c] \in Vessels /\ docker = [docker EXCEPT ![c] = docker[c]] /\ "removed" \in Vessels
  BY <1>2 DEF AtHand, Vessels
<1>10. CASE docker' = docker /\ verifier' = unconfirmed
  <2>1. docker' = [docker EXCEPT ![c] = docker[c]]  BY <1>9, <1>10
  <2> QED BY <1>4, <1>8, <1>9, <1>10, <2>1
<1>11. CASE /\ docker[c] # "none" /\ docker' = [docker EXCEPT ![c] = "removed"]
            /\ verifier' \in {gone, unconfirmed}
  <2>1. "removed" \notin Present  BY DEF Present
  <2> QED BY <1>4, <1>6, <1>8, <1>9, <1>11, <2>1
<1>12. CASE docker[c] = "none" /\ docker' = docker /\ verifier' = gone
  <2>1. docker[c] \notin Present  BY <1>12 DEF Present
  <2>2. docker' = [docker EXCEPT ![c] = docker[c]]  BY <1>9, <1>12
  <2> QED BY <1>4, <1>6, <1>9, <1>12, <2>1, <2>2
<1>13. CASE docker[c] \in Present \ {"asked"}
  <2>1. docker[c] # "none"  BY <1>13 DEF Present
  <2>2. \/ docker' = [docker EXCEPT ![c] = "removed"] /\ verifier' = gone
        \/ docker' \in {docker, [docker EXCEPT ![c] = "removed"]} /\ verifier' = unconfirmed
    BY <1>0, <1>5, <1>8, <1>13 DEF RemoveContainer, c0
  <2> QED BY <1>10, <1>11, <2>1, <2>2
<1>14. CASE docker[c] \notin Present \ {"asked"}
  <2>1. docker' = docker /\ verifier' = IF AbsentIsGone THEN gone ELSE unconfirmed
    BY <1>0, <1>5, <1>8, <1>14 DEF RemoveContainer, c0
  <2>2. AbsentIsGone => docker[c] = "none"
    BY <1>3, <1>14 DEF AbsentIsGone, Present
  <2> QED BY <1>10, <1>12, <2>1, <2>2
<1> QED BY <1>13, <1>14

LEMMA FinishKeeps == ASSUME ChecksHold, FinishCheck PROVE ChecksHold'
<1>0. PICK c : c = verifier.check  OBVIOUS
<1>1. verifier.at = "settle" /\ verifier.at \in Doings /\ UNCHANGED <<review, docker, witness>>
  BY DEF FinishCheck, VerifierAt, Doings
<1>2. AtHand(c)  BY <1>0, <1>1, HandFacts
<1>3. /\ verifier.gone \/ verifier.interrupted
      /\ verifier.started => witness[c].starts = 1
      /\ verifier.code # "none" => verifier.code = witness[c].code
      /\ verifier.gone => docker[c] \notin Present
      /\ verifier.gone \in BOOLEAN
  BY <1>1, <1>2 DEF AtHand, WorkIsTrue, ChecksHold, VerifierAlone, VerifierRows
<1>4. /\ docker' = [docker EXCEPT ![c] = docker[c]] /\ witness' = [witness EXCEPT ![c] = witness[c]]
      /\ c \in Check /\ verifier.check = c /\ docker[c] \in Vessels /\ witness[c] \in SeenRows
      /\ UNCHANGED review /\ verifier \in VerifierRows /\ ledger[c] \in LedgerRows
      /\ RowIsTrue(ledger[c], docker[c], witness[c])
  BY <1>1, <1>2 DEF AtHand
<1>5. CASE ledger' = ledger /\ verifier' = GiveUp
  <2>1. ledger' = [ledger EXCEPT ![c] = ledger[c]]  BY <1>2, <1>5 DEF AtHand
  <2> QED BY <1>1, <1>3, <1>4, <1>5, <2>1, WorkEnds
<1>6. ASSUME NEW complete \in BOOLEAN, NEW unchanged \in BOOLEAN, NEW interrupted \in BOOLEAN,
             unchanged => verifier.gone /\ ~witness[c].dirty,
             ~interrupted => ~verifier.interrupted /\ unchanged,
             NEW result, result = CheckOutcome(complete, unchanged, interrupted),
             ledger' = [ledger EXCEPT ![c] = [state |-> "finished", result |-> result,
                                              gone |-> verifier.gone, unchanged |-> unchanged]],
             verifier' = IF result \in {"interrupted", "not_run"} THEN GiveUp
                         ELSE [verifier EXCEPT !.at = "next", !.check = NoCheck]
      PROVE  ChecksHold'
  <2>1. /\ result \in {"not_run", "interrupted", "passed", "failed"}
        /\ result \in {"passed", "failed"} => verifier.started /\ ~interrupted
        /\ result = "passed" => verifier.code = "zero"
    BY <1>6 DEF CheckOutcome
  <2>2. PICK row \in LedgerRows : row = [state |-> "finished", result |-> result,
                                        gone |-> verifier.gone, unchanged |-> unchanged]
    BY <1>3, <1>6, <2>1 DEF LedgerRows, Results
  <2>3. ledger' = [ledger EXCEPT ![c] = row]  BY <1>6, <2>2
  <2>4. witness[c].starts = 1 /\ docker[c] \notin Present => docker[c] = "removed"
    BY <1>4 DEF RowIsTrue, Present
  <2>5. RowIsTrue(row, docker[c], witness[c])
    <3>1. /\ row.state = "finished" /\ row.result = result /\ row.gone = verifier.gone
          /\ row.unchanged = unchanged
      BY <2>2
    <3>2. result \in {"passed", "failed"} =>
            row.gone /\ row.unchanged /\ witness[c].starts = 1 /\ docker[c] = "removed"
      BY <1>3, <1>6, <2>1, <2>4, <3>1
    <3>3. result = "passed" => witness[c].code = "zero" /\ ~witness[c].dirty
      BY <1>3, <1>6, <2>1
    <3>4. row.gone => docker[c] \notin Present  BY <1>3, <3>1
    <3> QED BY <1>4, <2>1, <3>1, <3>2, <3>3, <3>4 DEF RowIsTrue
  <2>6. CASE result \in {"interrupted", "not_run"}
    <3>1. verifier' = GiveUp  BY <1>6, <2>6
    <3> QED BY <1>1, <1>3, <1>4, <2>3, <2>5, <3>1, WorkEnds
  <2>7. CASE result \in {"passed", "failed"}
    <3>1. PICK v \in VerifierRows : v = [verifier EXCEPT !.at = "next", !.check = NoCheck]
      BY <1>4 DEF VerifierRows, CheckSteps
    <3>2. v.at = "next" /\ v.gone = verifier.gone  BY <1>4, <3>1 DEF VerifierRows
    <3>3. verifier' = v  BY <1>6, <2>7, <3>1
    <3>4. verifier.gone  BY <1>6, <2>1, <2>7
    <3>5. ~(v.at \in Doings) /\ v.at \in Doings \union {"next", "done"}  BY <3>2 DEF Doings
    <3>6. ledger[c].state # "finished" /\ row.state = "finished"
      BY <1>2, <2>2 DEF AtHand, WorkIsTrue
    <3> QED BY <1>1, <1>3, <1>4, <2>3, <2>5, <3>2, <3>3, <3>4, <3>5, <3>6, WorkGoesOn
  <2> QED BY <2>1, <2>6, <2>7
<1>7. ASSUME NEW complete \in BOOLEAN, NEW verified \in BOOLEAN, NEW unchanged, NEW interrupted,
             NEW result,
             unchanged = (verifier.gone /\ verified /\ ~witness[c].dirty),
             interrupted = (verifier.interrupted \/ ~MayRun \/ (verifier.gone /\ ~unchanged)),
             result = CheckOutcome(complete, unchanged, interrupted),
             ledger' = [ledger EXCEPT ![c] = [state |-> "finished", result |-> result,
                                              gone |-> verifier.gone, unchanged |-> unchanged]],
             verifier' = IF result \in {"interrupted", "not_run"} THEN GiveUp
                         ELSE [verifier EXCEPT !.at = "next", !.check = NoCheck]
      PROVE  ChecksHold'
  <2>1. unchanged \in BOOLEAN /\ interrupted \in BOOLEAN  BY <1>7
  <2>2. unchanged => verifier.gone /\ ~witness[c].dirty  BY <1>7
  <2>3. ~interrupted => ~verifier.interrupted /\ unchanged  BY <1>3, <1>7
  <2> QED BY <1>6, <1>7, <2>1, <2>2, <2>3
<1>8. PICK complete \in BOOLEAN, verified \in BOOLEAN :
        LET unchanged == verifier.gone /\ verified /\ ~witness[c].dirty
            interrupted == \/ verifier.interrupted \/ ~MayRun
                           \/ verifier.gone /\ ~unchanged
            result == CheckOutcome(complete, unchanged, interrupted) IN
        \/ /\ ledger' = [ledger EXCEPT ![c] = [state |-> "finished", result |-> result,
                                               gone |-> verifier.gone, unchanged |-> unchanged]]
           /\ verifier' = IF result \in {"interrupted", "not_run"} THEN GiveUp
                          ELSE [verifier EXCEPT !.at = "next", !.check = NoCheck]
        \/ ledger' = ledger /\ verifier' = GiveUp
  BY <1>0, ZenonT(60) DEF FinishCheck, c0
<1>9. PICK unchanged : unchanged = (verifier.gone /\ verified /\ ~witness[c].dirty)  OBVIOUS
<1>10. PICK interrupted :
         interrupted = (verifier.interrupted \/ ~MayRun \/ (verifier.gone /\ ~unchanged))  OBVIOUS
<1>11. PICK result : result = CheckOutcome(complete, unchanged, interrupted)  OBVIOUS
<1> QED BY <1>5, <1>7, <1>8, <1>9, <1>10, <1>11

\* A step of the supervisor: the verifier's rows, containers and results are as they were.
LEMMA SupervisorMoves ==
  ASSUME ChecksHold, UNCHANGED <<ledger, docker, witness>>, NEW v \in VerifierRows, verifier' = v,
         NEW new \in ReviewRows, review' = new, v.check = verifier.check, v.gone = verifier.gone,
         \/ v.at = verifier.at \/ v.at = "dead" \/ (v.at = "done" /\ verifier.at = "next")
         \/ v.at = "next" /\ verifier.at = "none" /\ review.state = "running"
         ,
         v.at = verifier.at =>
           /\ v.asked = verifier.asked /\ v.known = verifier.known /\ v.started = verifier.started
           /\ v.code = verifier.code /\ v.interrupted = verifier.interrupted,
         new.compared = review.compared, new.verdict = review.verdict,
         new.state = "succeeded" \/ new.confirmed =>
           \/ new.state = review.state /\ new.confirmed = review.confirmed
           \/ new.state # "running" /\ verifier.gone /\ v.at \in {"none", "done", "dead"}
  PROVE  ChecksHold'
<1>1. ChecksTyped'  BY CheckRows DEF ChecksTyped
<1>2. VerifierAlone'
  <2>1. v.at \in {"none", "next"} =>
          v.gone /\ \A c \in Check : ledger[c].state \in {"none", "finished"}
    BY DEF ChecksHold, VerifierAlone
  <2>2. \A c \in Check : c # v.check \/ v.gone => docker[c] \notin Present
    BY DEF ChecksHold, VerifierAlone
  <2>3. ASSUME v.at \in Doings
        PROVE  /\ v.check \in Check
               /\ WorkIsTrue(v, ledger[v.check], docker[v.check], witness[v.check])
               /\ \A c \in Check \ {v.check} : ledger[c].state \in {"none", "finished"}
    <3>1. v.at = verifier.at  BY <2>3 DEF Doings
    <3>2. /\ verifier.check \in Check
          /\ WorkIsTrue(verifier, ledger[verifier.check], docker[verifier.check],
                        witness[verifier.check])
          /\ \A c \in Check \ {verifier.check} : ledger[c].state \in {"none", "finished"}
      BY <2>3, <3>1 DEF ChecksHold, VerifierAlone
    <3> QED BY <3>1, <3>2 DEF WorkIsTrue
  <2> QED BY <2>1, <2>2, <2>3 DEF VerifierAlone
<1>3. ReviewIsTrue'
  <2>1. /\ new.compared => \A c \in Check : ledger[c].result \in {"passed", "failed"}
        /\ new.verdict = "accept" => \A c \in Check : ledger[c].result = "passed"
    BY DEF ChecksHold, ReviewIsTrue
  <2>2. ASSUME new.state = "succeeded" \/ new.confirmed
        PROVE  new.state # "running" /\ v.gone /\ v.at \in {"none", "done", "dead"}
    BY <2>2 DEF ChecksHold, ReviewIsTrue
  <2> QED BY <2>1, <2>2 DEF ReviewIsTrue
<1> QED BY <1>1, <1>2, <1>3 DEF ChecksHold

LEMMA SupervisorKeeps ==
  ASSUME ChecksHold,
         AllChecked \/ StartChecks \/ CancelChecks \/ FinishReview \/ GiveUpWaiting \/ SupervisorDies
  PROVE  ChecksHold'
<1>0. verifier \in VerifierRows /\ review \in ReviewRows  BY CheckRows
<1>1. CASE AllChecked
  <2>1. PICK outcome \in Assessments : outcome = CheckAssessment  BY AssessedIs
  <2>2. PICK v \in VerifierRows : v = [verifier EXCEPT !.at = "done", !.result = outcome]
    BY <1>0 DEF VerifierRows, CheckSteps
  <2>3. v.at = "done" /\ v.check = verifier.check /\ v.gone = verifier.gone
    BY <1>0, <2>2 DEF VerifierRows
  <2>4. verifier.at = "next" /\ verifier' = v /\ review' = review
        /\ UNCHANGED <<ledger, docker, witness>>
    BY <1>1, <2>1, <2>2 DEF AllChecked, VerifierAt
  <2> QED BY <1>0, <2>3, <2>4, SupervisorMoves
<1>2. CASE StartChecks
  <2>2. PICK v \in VerifierRows : v = [verifier EXCEPT !.at = "next"]
    BY <1>0 DEF VerifierRows, CheckSteps
  <2>3. v.at = "next" /\ v.check = verifier.check /\ v.gone = verifier.gone
    BY <1>0, <2>2 DEF VerifierRows
  <2>4. verifier.at = "none" /\ verifier' = v /\ review' = review /\ review.state = "running"
        /\ UNCHANGED <<ledger, docker, witness>>
    BY <1>2, <2>2 DEF StartChecks, Eligible, Supervising
  <2> QED BY <1>0, <2>3, <2>4, SupervisorMoves
<1>3. CASE SupervisorDies
  <2>2. PICK v \in VerifierRows : v = [verifier EXCEPT !.at = "dead"]
    BY <1>0 DEF VerifierRows, CheckSteps
  <2>3. v.at = "dead" /\ v.check = verifier.check /\ v.gone = verifier.gone
    BY <1>0, <2>2 DEF VerifierRows
  <2>4. verifier.at # "dead" /\ verifier' = v /\ review' = review
        /\ UNCHANGED <<ledger, docker, witness>>
    BY <1>3, <2>2 DEF SupervisorDies, Alive, Supervising
  <2> QED BY <1>0, <2>3, <2>4, SupervisorMoves
<1>4. PICK v \in VerifierRows : v = [verifier EXCEPT !.stop = TRUE]
  BY <1>0 DEF VerifierRows
<1>5. /\ v.at = verifier.at /\ v.check = verifier.check /\ v.gone = verifier.gone
      /\ v.asked = verifier.asked /\ v.known = verifier.known /\ v.started = verifier.started
      /\ v.code = verifier.code /\ v.interrupted = verifier.interrupted
  BY <1>0, <1>4 DEF VerifierRows
<1>6. CASE CancelChecks
  <2>1. verifier' = v /\ review' = review /\ UNCHANGED <<ledger, docker, witness>>
    BY <1>4, <1>6 DEF CancelChecks, Supervising
  <2> QED BY <1>0, <1>5, <2>1, SupervisorMoves
<1>7. CASE FinishReview
  <2>1. PICK state \in {"succeeded", "recovery"}, confirmed \in BOOLEAN :
          /\ review' = [review EXCEPT !.state = state, !.confirmed = confirmed]
          /\ state = "succeeded" \/ confirmed => verifier.gone
    <3>0. verifier.gone \in BOOLEAN  BY <1>0 DEF VerifierRows
    <3> QED BY <1>7, <3>0 DEF FinishReview
  <2>2. PICK new \in ReviewRows : new = [review EXCEPT !.state = state, !.confirmed = confirmed]
    BY <1>0 DEF ReviewRows
  <2>3. /\ new.state = state /\ new.confirmed = confirmed /\ new.compared = review.compared
        /\ new.verdict = review.verdict
    BY <1>0, <2>2 DEF ReviewRows
  <2>4. verifier.at \in {"none", "done"} /\ verifier' = v /\ review' = new
        /\ UNCHANGED <<ledger, docker, witness>>
    BY <1>4, <1>7, <2>1, <2>2 DEF FinishReview, Supervising
  <2> QED BY <1>5, <2>1, <2>3, <2>4, SupervisorMoves
<1>8. CASE GiveUpWaiting
  <2>2. PICK new \in ReviewRows : new = [review EXCEPT !.state = "recovery"]
    BY <1>0 DEF ReviewRows
  <2>3. /\ new.state = "recovery" /\ new.confirmed = review.confirmed
        /\ new.compared = review.compared /\ new.verdict = review.verdict
    BY <1>0, <2>2 DEF ReviewRows
  <2>4. review.state = "running" /\ verifier' = v /\ review' = new
        /\ UNCHANGED <<ledger, docker, witness>>
    BY <1>4, <1>8, <2>2 DEF GiveUpWaiting, Supervising
  <2>5. ~new.confirmed  BY <2>3, <2>4 DEF ChecksHold, ReviewIsTrue
  <2> QED BY <1>5, <2>3, <2>4, <2>5, SupervisorMoves
<1> QED BY <1>1, <1>2, <1>3, <1>6, <1>7, <1>8

\* A container that is there, or may come, is its verifier's own, and stays so.
LEMMA DockerMoves ==
  ASSUME ChecksHold, UNCHANGED <<ledger, review, verifier>>, NEW c \in Check, docker[c] \in Present,
         NEW vessel \in Present, NEW seen \in SeenRows,
         docker' = [docker EXCEPT ![c] = vessel], witness' = [witness EXCEPT ![c] = seen],
         RowIsTrue(ledger[c], vessel, seen),
         verifier.check = c /\ WorkIsTrue(verifier, ledger[c], docker[c], witness[c]) =>
           WorkIsTrue(verifier, ledger[c], vessel, seen)
  PROVE  ChecksHold'
<1>1. c = verifier.check /\ ~verifier.gone  BY DEF ChecksHold, VerifierAlone
<1>2. docker'[c] = vessel /\ witness'[c] = seen
      /\ \A d \in Check \ {c} : docker'[d] = docker[d] /\ witness'[d] = witness[d]
  BY CheckRows
<1>3. vessel \in Vessels  BY DEF Vessels
<1>4. ChecksTyped'  BY <1>3, CheckRows DEF ChecksTyped
<1>5. VerifierAlone'  BY <1>1, <1>2 DEF ChecksHold, VerifierAlone
<1>6. \A d \in Check : RowIsTrue(ledger'[d], docker'[d], witness'[d])  BY <1>2, CheckRows
<1> QED BY <1>4, <1>5, <1>6 DEF ChecksHold, ReviewIsTrue

LEMMA DockerKeeps ==
  ASSUME ChecksHold, NEW c \in Check, ArriveLate(c) \/ Exit(c) PROVE ChecksHold'
<1>0. /\ ledger[c] \in LedgerRows /\ docker[c] \in Vessels /\ witness[c] \in SeenRows
      /\ RowIsTrue(ledger[c], docker[c], witness[c]) /\ UNCHANGED <<ledger, review, verifier>>
      /\ witness = [witness EXCEPT ![c] = witness[c]]
  BY CheckRows DEF ArriveLate, Exit
<1>1. CASE ArriveLate(c)
  <2>1. /\ docker[c] = "asked" /\ docker' = [docker EXCEPT ![c] = "created"]
        /\ witness' = [witness EXCEPT ![c] = witness[c]]
    BY <1>0, <1>1 DEF ArriveLate
  <2>2. RowIsTrue(ledger[c], "created", witness[c])  BY <1>0, <2>1 DEF RowIsTrue, Present
  <2>3. WorkIsTrue(verifier, ledger[c], docker[c], witness[c]) =>
          WorkIsTrue(verifier, ledger[c], "created", witness[c])
    BY <2>1 DEF WorkIsTrue
  <2>4. docker[c] \in Present /\ "created" \in Present  BY <2>1 DEF Present
  <2> QED BY <1>0, <2>1, <2>2, <2>3, <2>4, DockerMoves
<1>2. CASE Exit(c)
  <2>1. PICK code \in {"zero", "other"}, dirty \in BOOLEAN :
          witness' = [witness EXCEPT ![c].code = code, ![c].dirty = dirty]
    BY <1>2 DEF Exit
  <2>2. PICK seen \in SeenRows : seen = [witness[c] EXCEPT !.code = code, !.dirty = dirty]
    BY <1>0 DEF SeenRows, ExitCodes
  <2>3. seen.starts = witness[c].starts  BY <1>0, <2>2 DEF SeenRows
  <2>4. witness' = [witness EXCEPT ![c] = seen]  BY <2>1, <2>2, CheckRows
  <2>5. docker[c] = "running" /\ docker' = [docker EXCEPT ![c] = "exited"]  BY <1>2 DEF Exit
  <2>6. RowIsTrue(ledger[c], "exited", seen)  BY <1>0, <2>3, <2>5 DEF RowIsTrue, Present
  <2>7. WorkIsTrue(verifier, ledger[c], docker[c], witness[c]) =>
          WorkIsTrue(verifier, ledger[c], "exited", seen)
    BY <2>3, <2>5 DEF WorkIsTrue
  <2>8. docker[c] \in Present /\ "exited" \in Present  BY <2>5 DEF Present
  <2> QED BY <1>0, <2>4, <2>5, <2>6, <2>7, <2>8, DockerMoves
<1> QED BY <1>1, <1>2

LEMMA ChecksStart == ChecksInit => ChecksHold
<1> SUFFICES ASSUME ChecksInit PROVE ChecksHold  OBVIOUS
<1>1. ledger \in [Check -> LedgerRows] /\ docker \in [Check -> Vessels]
  BY DEF ChecksInit, NoRow, LedgerRows, Results, Vessels
<1>2. review \in ReviewRows  BY DEF ChecksInit, ReviewRows
<1>3. verifier \in VerifierRows
  BY DEF ChecksInit, VerifierRows, CheckSteps, ExitCodes, Assessments
<1>4. witness \in [Check -> SeenRows]
  <2>1. PICK none \in 0..2 : none = 0  OBVIOUS
  <2> QED BY <2>1 DEF ChecksInit, SeenRows, ExitCodes
<1>5. VerifierAlone
  BY DEF ChecksInit, VerifierAlone, NoRow, Doings, Present
<1>6. ReviewIsTrue  BY DEF ChecksInit, ReviewIsTrue
<1>7. \A c \in Check : RowIsTrue(ledger[c], docker[c], witness[c])
  <2> TAKE c \in Check
  <2>1. /\ ledger[c].state = "none" /\ ledger[c].result = "none" /\ docker[c] = "none"
        /\ witness[c].starts = 0
    BY DEF ChecksInit, NoRow
  <2> QED BY <2>1 DEF RowIsTrue
<1>8. ChecksTyped  BY <1>1, <1>2, <1>3, <1>4 DEF ChecksTyped
<1> QED BY <1>5, <1>6, <1>7, <1>8 DEF ChecksHold

LEMMA ChecksGoOn == ASSUME ChecksHold, [ChecksNext]_checksVars PROVE ChecksHold'
<1>1. CASE UNCHANGED checksVars
  BY <1>1 DEF checksVars, ChecksHold, ChecksTyped, VerifierAlone, ReviewIsTrue
<1>2. CASE \E c \in Check : ArriveLate(c) \/ Exit(c) \/ ReserveCheck(c)
  BY <1>2, DockerKeeps, ReserveKeeps
<1> QED BY <1>1, <1>2, ReviewersKeep, PrepareKeeps, CreateKeeps, StartKeeps, RecordKeeps, WatchKeeps,
           RemoveKeeps, FinishKeeps, SupervisorKeeps DEF ChecksNext

LEMMA ChecksHoldMeans == ASSUME ChecksHold PROVE ChecksAreSound
<1>1. ChecksTypeOK
  BY DEF ChecksHold, ChecksTyped, ChecksTypeOK, LedgerRows, ReviewRows, VerifierRows, SeenRows,
         Vessels, CheckSteps, ExitCodes, Assessments
<1>2. \A c \in Check : /\ witness[c].starts <= 1
                       /\ ledger[c].result = "passed" => Truly(c)
                       /\ ledger[c].result \in {"passed", "failed"} =>
                            witness[c].starts = 1 /\ docker[c] = "removed"
  <2> TAKE c \in Check
  <2>1. RowIsTrue(ledger[c], docker[c], witness[c])  BY CheckRows
  <2>2. witness[c].starts <= 1  BY <2>1 DEF RowIsTrue
  <2> QED BY <2>1, <2>2 DEF RowIsTrue, Truly
<1>3. /\ review.compared => \A c \in Check : witness[c].starts = 1 /\ docker[c] = "removed"
      /\ review.verdict = "accept" => \A c \in Check : Truly(c)
  BY <1>2 DEF ChecksHold, ReviewIsTrue
<1>4. review.state = "succeeded" \/ review.confirmed => \A c \in Check : docker[c] \notin Present
  BY DEF ChecksHold, ReviewIsTrue, VerifierAlone
<1> QED BY <1>1, <1>2, <1>3, <1>4 DEF ChecksAreSound

\* A check's command is started at most once and counts as passed only if it ended with
\* zero on an input it left intact and its container is gone; the comparison is opened
\* and the submission accepted only on such checks, and a review that ended, or whose
\* execution is confirmed gone, leaves no container and no request that may create one.
THEOREM ChecksSound == ChecksSpec => []ChecksAreSound
<1>1. ChecksInit => ChecksHold  BY ChecksStart
<1>2. ChecksHold /\ [ChecksNext]_checksVars => ChecksHold'  BY ChecksGoOn
<1>3. ChecksHold => ChecksAreSound  BY ChecksHoldMeans
<1> QED BY <1>1, <1>2, <1>3, PTL DEF ChecksSpec

-----------------------------------------------------------------------------
(* LegacyMigration.  The startup holds the locks of what it reads until it   *)
(* ends, so the rows it read stay the rows of the store while it copies; a   *)
(* component is chosen closed under its references, and copied into a        *)
(* directory that nothing imported points to until the commit.               *)

\* The records of the two stores, the startup and the directories.
Conversations == [row : LegacyRow, lock : {"free", "server", "migration"}]
Startups ==
  [at : Steps, todo : SUBSET Legacy, held : SUBSET Legacy, snapshot : [Legacy -> LegacyRow],
   pending : SUBSET Legacy, component : SUBSET Legacy, directory : 0..MaxImports]
ImportedRows ==
  [row : SUBSET LegacyRow, history : 0..MaxTurns, directory : 0..MaxImports]
Directories == [there : BOOLEAN, files : [Legacy -> 0..MaxTurns]]
MigrationTyped ==
  /\ legacy \in [Legacy -> Conversations] /\ migration \in Startups
  /\ imported \in [Legacy -> ImportedRows] /\ staged \in [Directory -> Directories]

\* A turn that is under way may still be counted, and a reference is to a turn that ended.
RowsAreSound(table) ==
  /\ \A c \in Legacy : table[c].active => table[c].turns < MaxTurns
  /\ \A c, d \in Legacy : table[c].refs[d] <= table[d].turns
LegacyRows == [c \in Legacy |-> legacy[c].row]

\* What the startup works on is under its locks, as it was read, settled, and new.
Chosen == migration.at \in {"choose", "copy"}
HeldStill ==
  /\ \A c \in migration.held : legacy[c].lock = "migration"
  /\ Chosen =>
       /\ migration.todo \subseteq migration.held
       /\ \A c \in migration.todo : migration.snapshot[c] = legacy[c].row
                                    /\ ~migration.snapshot[c].active
       /\ RowsAreSound(migration.snapshot)
       /\ migration.pending \union migration.component \subseteq migration.todo
       /\ migration.pending \intersect migration.component = {}
       /\ (migration.pending \union migration.component) \intersect Imported = {}
\* A pending conversation whose references resolve is put off with none of those it
\* refers to left behind: they are pending too, or imported.
Refers(c, d) == migration.snapshot[c].refs[d] > 0
Follows ==
  Chosen => \A c \in migration.pending, d \in Legacy :
              Resolvable(c) /\ Refers(c, d) => d \in migration.pending \union Imported
\* The component that is copied is complete, and its directory is nobody else's.
CopyIsOwn ==
  /\ migration.at # "copy" => migration.directory = 0 /\ migration.component = {}
  /\ migration.at = "copy" =>
       /\ \A c \in migration.component :
            /\ Resolvable(c)
            /\ \A d \in Legacy : Refers(c, d) => d \in migration.component \union Imported
       /\ IF migration.directory = 0 THEN Planned(migration.component) = {}
          ELSE /\ staged[migration.directory].there
               /\ \A c \in Legacy : imported[c].directory # migration.directory
               /\ \A c \in migration.component :
                    staged[migration.directory].files[c] \in {0, legacy[c].row.history}
ImportIsWhole(c) ==
  /\ imported[c].history > 0 => imported[c].directory # 0
  /\ imported[c].directory # 0 =>
       /\ staged[imported[c].directory].there
       /\ staged[imported[c].directory].files[c] = imported[c].history
  /\ \A row \in imported[c].row :
       /\ ~row.active /\ imported[c].history = row.history
       /\ \A d \in Legacy : row.refs[d] > 0 =>
            \E other \in imported[d].row : other.turns >= row.refs[d]
MigrationIsSound ==
  /\ MigrationTyped /\ RowsAreSound(LegacyRows) /\ HeldStill /\ Follows /\ CopyIsOwn
  /\ \A c \in Legacy : ImportIsWhole(c)

LEMMA LegacyTypes ==
  ASSUME MigrationIsSound
  PROVE  /\ legacy \in [Legacy -> Conversations] /\ migration \in Startups
         /\ imported \in [Legacy -> ImportedRows] /\ staged \in [Directory -> Directories]
         /\ \A c \in Legacy : legacy[c] \in Conversations /\ legacy[c].row \in LegacyRow
         /\ MaxTurns \in Nat \ {0} /\ MaxImports \in Nat \ {0}
BY MigrationBounds DEF MigrationIsSound, MigrationTyped, Conversations

\* The legacy servers change what is not under the migration's locks.
LEMMA ServersApart ==
  ASSUME MigrationIsSound, UNCHANGED <<migration, imported, staged>>,
         legacy' \in [Legacy -> Conversations], RowsAreSound(LegacyRows'),
         \A c \in Legacy : legacy[c].lock = "migration" => legacy'[c] = legacy[c]
  PROVE  MigrationIsSound'
<1>1. Imported' = Imported /\ (\A c \in Legacy : ImportIsWhole(c)')
  BY DEF Imported, ImportIsWhole, MigrationIsSound
<1>2. \A c \in migration.held : legacy'[c] = legacy[c]
  BY LegacyTypes DEF MigrationIsSound, HeldStill, Startups
<1>3. HeldStill'
  BY <1>1, <1>2 DEF MigrationIsSound, HeldStill, Chosen
<1>4. Follows'
  BY <1>1 DEF MigrationIsSound, Follows, Chosen, Resolvable, Refers
<1>5. CopyIsOwn'
  <2>1. migration.at = "copy" => \A c \in migration.component : legacy'[c] = legacy[c]
    BY <1>2 DEF MigrationIsSound, HeldStill, Chosen
  <2>2. migration.at = "copy" => Planned(migration.component)' = Planned(migration.component)
    BY <2>1 DEF Planned
  <2> QED BY <1>1, <2>1, <2>2 DEF MigrationIsSound, CopyIsOwn, Resolvable, Refers
<1>6. MigrationTyped'  BY DEF MigrationIsSound, MigrationTyped
<1> QED BY <1>1, <1>3, <1>4, <1>5, <1>6 DEF MigrationIsSound

\* One conversation of a server changes.
LEMMA OneServer ==
  ASSUME MigrationIsSound, UNCHANGED <<migration, imported, staged>>,
         NEW c \in Legacy, NEW new \in Conversations, legacy' = [legacy EXCEPT ![c] = new],
         legacy[c].lock # "migration", legacy[c].row.turns <= new.row.turns,
         new.row.active => new.row.turns < MaxTurns,
         \A d \in Legacy : new.row.refs[d] <= legacy[d].row.turns
  PROVE  MigrationIsSound'
<1>1. legacy' \in [Legacy -> Conversations] /\ legacy'[c] = new
      /\ \A d \in Legacy \ {c} : legacy'[d] = legacy[d]
  BY LegacyTypes
<1>2. RowsAreSound(LegacyRows)  BY DEF MigrationIsSound
<1>3. \A d, e \in Legacy : legacy[d].row.refs[e] \in Nat /\ legacy[d].row.turns \in Nat
                           /\ new.row.refs[e] \in Nat /\ new.row.turns \in Nat
  BY LegacyTypes DEF LegacyRow, Conversations
<1>4. \A d \in Legacy : legacy[d].row.turns <= legacy'[d].row.turns
  BY <1>1, <1>3
<1>5. \A d, e \in Legacy : legacy'[d].row.refs[e] <= legacy[e].row.turns
  BY <1>1, <1>2 DEF RowsAreSound, LegacyRows
<1>6. \A d, e \in Legacy : legacy'[d].row.refs[e] <= legacy'[e].row.turns
  <2> TAKE d, e \in Legacy
  <2>1. legacy'[d].row.refs[e] \in Nat /\ legacy'[e].row.turns \in Nat  BY <1>1, <1>3
  <2> QED BY <1>3, <1>4, <1>5, <2>1
<1>7. \A d \in Legacy : legacy'[d].row.active => legacy'[d].row.turns < MaxTurns
  BY <1>1, <1>2 DEF RowsAreSound, LegacyRows
<1>8. RowsAreSound(LegacyRows')  BY <1>6, <1>7 DEF RowsAreSound, LegacyRows
<1> QED BY <1>1, <1>8, ServersApart

LEMMA ServersKeep ==
  ASSUME MigrationIsSound, NEW c \in Legacy,
         \/ StartLegacyTurn(c) \/ WriteHistory(c) \/ EndLegacyTurn(c)
         \/ UnlockLegacy(c) \/ RecoverLegacy(c) \/ LegacyServerDies(c)
  PROVE  MigrationIsSound'
<1>0. /\ legacy \in [Legacy -> Conversations] /\ legacy[c] \in Conversations
      /\ legacy[c].row \in LegacyRow /\ legacy[c].row.turns \in 1..MaxTurns
      /\ MaxTurns \in Nat \ {0}
      /\ \A d \in Legacy : /\ legacy[c].row.refs[d] <= legacy[d].row.turns
                           /\ legacy[c].row.refs[d] \in Nat /\ legacy[d].row.turns \in 1..MaxTurns
      /\ legacy[c].row.active => legacy[c].row.turns < MaxTurns
  BY LegacyTypes DEF MigrationIsSound, RowsAreSound, LegacyRows, LegacyRow
<1> DEFINE was == legacy[c].row
<1>1. CASE StartLegacyTurn(c) \/ RecoverLegacy(c)
  <2>1. PICK active \in BOOLEAN, holder \in {"free", "server"} :
          /\ legacy' = [legacy EXCEPT ![c].lock = holder, ![c].row.active = active]
          /\ legacy[c].lock = "free" /\ (active => was.turns < MaxTurns)
          /\ UNCHANGED <<migration, imported, staged>>
    <3>1. CASE StartLegacyTurn(c)
      BY <1>0, <3>1 DEF StartLegacyTurn
    <3>2. CASE RecoverLegacy(c)
      <4>1. legacy' = [legacy EXCEPT ![c].lock = "free", ![c].row.active = FALSE]
        BY <1>0, <3>2 DEF RecoverLegacy, Conversations
      <4> QED BY <3>2, <4>1 DEF RecoverLegacy
    <3> QED BY <1>1, <3>1, <3>2
  <2>2. PICK row \in LegacyRow : row = [was EXCEPT !.active = active]  BY <1>0 DEF LegacyRow
  <2>3. row.active = active /\ row.turns = was.turns /\ row.refs = was.refs
    BY <1>0, <2>2 DEF LegacyRow
  <2>4. PICK new \in Conversations : new = [legacy[c] EXCEPT !.row = row, !.lock = holder]
    BY <1>0 DEF Conversations
  <2>5. legacy' = [legacy EXCEPT ![c] = new] /\ new.row = row
    BY <1>0, <2>1, <2>2, <2>4 DEF Conversations
  <2>6. was.turns <= was.turns  BY <1>0
  <2>7. \A d \in Legacy : new.row.refs[d] <= legacy[d].row.turns  BY <1>0, <2>3, <2>5
  <2>8. was.turns <= new.row.turns /\ (new.row.active => new.row.turns < MaxTurns)
    BY <2>1, <2>3, <2>5, <2>6
  <2>9. legacy[c].lock # "migration" /\ UNCHANGED <<migration, imported, staged>>  BY <2>1
  <2> QED BY <2>4, <2>5, <2>7, <2>8, <2>9, OneServer
<1>2. CASE WriteHistory(c)
  <2>1. /\ legacy' = [legacy EXCEPT ![c].row.history = was.turns + 1]
        /\ legacy[c].lock = "server" /\ was.active /\ UNCHANGED <<migration, imported, staged>>
    BY <1>2 DEF WriteHistory
  <2>2. was.turns + 1 \in 0..MaxTurns  BY <1>0, <2>1
  <2>3. PICK row \in LegacyRow : row = [was EXCEPT !.history = was.turns + 1]
    BY <1>0, <2>2 DEF LegacyRow
  <2>4. row.active = was.active /\ row.turns = was.turns /\ row.refs = was.refs
    BY <1>0, <2>3 DEF LegacyRow
  <2>5. PICK new \in Conversations : new = [legacy[c] EXCEPT !.row = row]
    BY <1>0 DEF Conversations
  <2>6. legacy' = [legacy EXCEPT ![c] = new] /\ new.row = row
    BY <1>0, <2>1, <2>3, <2>5 DEF Conversations
  <2>7. was.turns <= was.turns  BY <1>0
  <2>8. \A d \in Legacy : new.row.refs[d] <= legacy[d].row.turns  BY <1>0, <2>4, <2>6
  <2>9. was.turns <= new.row.turns /\ (new.row.active => new.row.turns < MaxTurns)
    BY <1>0, <2>4, <2>6, <2>7
  <2>10. legacy[c].lock # "migration" /\ UNCHANGED <<migration, imported, staged>>  BY <2>1
  <2> QED BY <2>5, <2>6, <2>8, <2>9, <2>10, OneServer
<1>3. CASE EndLegacyTurn(c)
  <2>1. /\ legacy[c].lock = "server" /\ was.active /\ UNCHANGED <<migration, imported, staged>>
    BY <1>3 DEF EndLegacyTurn
  <2>a. PICK d \in Legacy \ {c} : \E k \in 0..legacy[d].row.turns :
             legacy' = [legacy EXCEPT ![c].row.active = FALSE, ![c].row.turns = @ + 1,
                                ![c].row.refs[d] = IF k > @ THEN k ELSE @]
    BY <1>3, ZenonT(60) DEF EndLegacyTurn
  <2>2. PICK k \in 0..legacy[d].row.turns :
             legacy' = [legacy EXCEPT ![c].row.active = FALSE, ![c].row.turns = @ + 1,
                                ![c].row.refs[d] = IF k > @ THEN k ELSE @]
    BY <2>a
  <2>3. PICK most \in 0..MaxTurns :
          most = (IF k > was.refs[d] THEN k ELSE was.refs[d]) /\ most <= legacy[d].row.turns
    <3>1. k \in Nat /\ k <= legacy[d].row.turns /\ k <= MaxTurns  BY <1>0
    <3>2. was.refs[d] \in 0..MaxTurns /\ was.refs[d] <= legacy[d].row.turns
      BY <1>0 DEF LegacyRow
    <3> QED BY <1>0, <3>1, <3>2
  <2>4. PICK count \in 1..MaxTurns : count = was.turns + 1  BY <1>0, <2>1
  <2>5. PICK refs \in [Legacy -> 0..MaxTurns] : refs = [was.refs EXCEPT ![d] = most]
    BY <1>0 DEF LegacyRow
  <2>6. PICK row \in LegacyRow :
          row = [was EXCEPT !.active = FALSE, !.turns = count, !.refs = refs]
    BY <1>0 DEF LegacyRow
  <2>7. ~row.active /\ row.turns = count /\ row.refs = refs
    BY <1>0, <2>6 DEF LegacyRow
  <2>8. PICK new \in Conversations : new = [legacy[c] EXCEPT !.row = row]
    BY <1>0 DEF Conversations
  <2>9. [was EXCEPT !.active = FALSE, !.turns = @ + 1, !.refs[d] = IF k > @ THEN k ELSE @] = row
    BY <1>0, <2>3, <2>4, <2>5, <2>6 DEF LegacyRow
  <2>10. legacy' = [legacy EXCEPT ![c].row =
           [was EXCEPT !.active = FALSE, !.turns = @ + 1, !.refs[d] = IF k > @ THEN k ELSE @]]
    BY <1>0, <2>2, ZenonT(60) DEF Conversations, LegacyRow
  <2>11. legacy' = [legacy EXCEPT ![c] = new] /\ new.row = row
    BY <1>0, <2>8, <2>9, <2>10 DEF Conversations
  <2>12. \A e \in Legacy : refs[e] <= legacy[e].row.turns
    BY <1>0, <2>3, <2>5 DEF LegacyRow
  <2>13. was.turns <= count  BY <1>0, <2>4
  <2> QED BY <1>0, <2>1, <2>7, <2>8, <2>11, <2>12, <2>13, OneServer
<1>4. CASE UnlockLegacy(c) \/ LegacyServerDies(c)
  <2>1. /\ legacy' = [legacy EXCEPT ![c].lock = "free"] /\ legacy[c].lock = "server"
        /\ UNCHANGED <<migration, imported, staged>>
    BY <1>4 DEF UnlockLegacy, LegacyServerDies
  <2>2. PICK new \in Conversations : new = [legacy[c] EXCEPT !.lock = "free"]
    BY <1>0 DEF Conversations
  <2>3. legacy' = [legacy EXCEPT ![c] = new] /\ new.row = was
    BY <1>0, <2>1, <2>2 DEF Conversations
  <2>4. was.turns <= was.turns  BY <1>0
  <2> QED BY <1>0, <2>1, <2>2, <2>3, <2>4, OneServer
<1> QED BY <1>1, <1>2, <1>3, <1>4

\* A step of the startup that has not read the store yet, or is over.
LEMMA StartupApart ==
  ASSUME MigrationIsSound, UNCHANGED <<imported, staged>>,
         migration' \in Startups, migration'.at \in {"idle", "lock"}, migration'.directory = 0,
         migration'.component = {},
         legacy' \in [Legacy -> Conversations], \A c \in Legacy : legacy'[c].row = legacy[c].row,
         \A c \in migration'.held : legacy'[c].lock = "migration"
  PROVE  MigrationIsSound'
<1>1. Imported' = Imported /\ (\A c \in Legacy : ImportIsWhole(c)')
  BY DEF Imported, ImportIsWhole, MigrationIsSound
<1>2. LegacyRows' = LegacyRows  BY DEF LegacyRows
<1>3. RowsAreSound(LegacyRows')  BY <1>2 DEF MigrationIsSound
<1>4. HeldStill' /\ Follows' /\ CopyIsOwn'  BY DEF HeldStill, Follows, CopyIsOwn, Chosen
<1>5. MigrationTyped'  BY DEF MigrationIsSound, MigrationTyped
<1> QED BY <1>1, <1>3, <1>4, <1>5 DEF MigrationIsSound

LEMMA IdleIs ==
  Idle \in Startups /\ Idle.at = "idle" /\ Idle.held = {} /\ Idle.directory = 0
  /\ Idle.component = {}
<1>1. FirstRow \in LegacyRow  BY MigrationBounds DEF FirstRow, LegacyRow, NoRefs
<1> QED BY <1>1, MigrationBounds DEF Idle, Startups, Steps

LEMMA StartupEnds ==
  ASSUME MigrationIsSound, UNCHANGED <<imported, staged>>, migration' = Idle,
         legacy' = Released
  PROVE  MigrationIsSound'
<1>1. ASSUME NEW c \in Legacy
      PROVE  legacy'[c] \in Conversations /\ legacy'[c].row = legacy[c].row
  <2>1. legacy[c] \in Conversations  BY LegacyTypes
  <2>2. PICK new \in Conversations : new = [legacy[c] EXCEPT !.lock = "free"]
    BY <2>1 DEF Conversations
  <2>3. new.row = legacy[c].row  BY <2>1, <2>2 DEF Conversations
  <2>4. legacy'[c] \in {new, legacy[c]}  BY <2>2 DEF Released
  <2> QED BY <2>1, <2>3, <2>4
<1>2. legacy' \in [Legacy -> Conversations]  BY <1>1 DEF Released
<1> QED BY <1>1, <1>2, IdleIs, StartupApart

LEMMA BeforeReading ==
  ASSUME MigrationIsSound, Discover \/ \E c \in Legacy : LockConversation(c)
  PROVE  MigrationIsSound'
<1>1. CASE Discover
  <2>1. PICK todo \in SUBSET Legacy : migration' = [Idle EXCEPT !.at = "lock", !.todo = todo]
    BY <1>1 DEF Discover
  <2>2. /\ migration' \in Startups /\ migration'.at = "lock" /\ migration'.held = {}
        /\ migration'.directory = 0 /\ migration'.component = {}
    BY <2>1, IdleIs DEF Startups, Steps
  <2>3. UNCHANGED <<legacy, imported, staged>>  BY <1>1 DEF Discover
  <2> QED BY <2>2, <2>3, LegacyTypes, StartupApart
<1>2. ASSUME NEW c \in Legacy, LockConversation(c) PROVE MigrationIsSound'
  <2>1. migration \in Startups /\ migration.at = "lock" /\ migration.directory = 0
        /\ migration.component = {}
    BY <1>2, LegacyTypes DEF LockConversation, At, MigrationIsSound, CopyIsOwn
  <2>2. UNCHANGED <<imported, staged>>  BY <1>2 DEF LockConversation
  <2>3. CASE legacy[c].lock = "free"
    <3>1. /\ legacy' = [legacy EXCEPT ![c].lock = "migration"]
          /\ migration' = [migration EXCEPT !.todo = @ \ {c}, !.held = @ \union {c}]
      BY <1>2, <2>3 DEF LockConversation
    <3>2. /\ migration' \in Startups /\ migration'.at = "lock" /\ migration'.directory = 0
          /\ migration'.component = {} /\ migration'.held = migration.held \union {c}
      BY <2>1, <3>1 DEF Startups
    <3>3. PICK new \in Conversations : new = [legacy[c] EXCEPT !.lock = "migration"]
      BY LegacyTypes DEF Conversations
    <3>4. /\ legacy' = [legacy EXCEPT ![c] = new] /\ new.row = legacy[c].row
          /\ new.lock = "migration"
      BY <3>1, <3>3, LegacyTypes DEF Conversations
    <3>5. \A d \in migration.held : legacy[d].lock = "migration"
      BY DEF MigrationIsSound, HeldStill
    <3>6. migration.held \subseteq Legacy  BY <2>1 DEF Startups
    <3>7. legacy' \in [Legacy -> Conversations]
          /\ \A d \in Legacy : legacy'[d].row = legacy[d].row
      BY <3>4, LegacyTypes
    <3>8. \A d \in migration'.held : legacy'[d].lock = "migration"
      BY <3>2, <3>4, <3>5, <3>6, LegacyTypes
    <3> QED BY <2>2, <3>2, <3>7, <3>8, StartupApart
  <2>4. CASE legacy[c].lock # "free"
    <3>1. migration' = [migration EXCEPT !.todo = @ \ {c}] /\ UNCHANGED legacy
      BY <1>2, <2>4 DEF LockConversation
    <3>2. /\ migration' \in Startups /\ migration'.at = "lock" /\ migration'.directory = 0
          /\ migration'.component = {} /\ migration'.held = migration.held
      BY <2>1, <3>1 DEF Startups
    <3> QED BY <2>2, <3>1, <3>2, LegacyTypes, StartupApart DEF MigrationIsSound, HeldStill
  <2> QED BY <2>3, <2>4
<1> QED BY <1>1, <1>2

LEMMA ReadKeepsImports == ASSUME MigrationIsSound, ReadStore PROVE MigrationIsSound'
<1>0. /\ migration \in Startups /\ migration.at = "lock" /\ migration.directory = 0
      /\ migration.component = {} /\ UNCHANGED <<legacy, imported>>
  BY LegacyTypes DEF ReadStore, At, MigrationIsSound, CopyIsOwn
<1> DEFINE settled == StillSettled(LegacyRows)
<1>1. migration' = [migration EXCEPT !.at = "choose", !.snapshot = LegacyRows,
                      !.todo = settled, !.pending = settled \ Imported]
  BY DEF ReadStore, LegacyRows
<1>2. settled \subseteq migration.held /\ settled \subseteq Legacy
      /\ \A c \in settled : ~LegacyRows[c].active
  BY <1>0 DEF StillSettled, Startups
<1>3. LegacyRows \in [Legacy -> LegacyRow]  BY LegacyTypes DEF LegacyRows
<1> HIDE DEF settled
<1>4. /\ migration' \in Startups /\ migration'.at = "choose" /\ migration'.snapshot = LegacyRows
      /\ migration'.todo = settled /\ migration'.pending = settled \ Imported
      /\ migration'.held = migration.held /\ migration'.directory = 0
      /\ migration'.component = migration.component
  BY <1>0, <1>1, <1>2, <1>3 DEF Startups, Steps
<1>6. ASSUME NEW d \in Directory
      PROVE  /\ staged'[d] \in Directories /\ staged'[d].files = staged[d].files
             /\ staged'[d].there <=> (staged[d].there /\ Named(d))
  <2>1. staged[d] \in Directories  BY LegacyTypes
  <2>2. PICK there \in BOOLEAN : there = (staged[d].there /\ Named(d))  OBVIOUS
  <2>3. staged'[d] = [staged[d] EXCEPT !.there = there]  BY <2>2 DEF ReadStore
  <2> QED BY <2>1, <2>2, <2>3 DEF Directories
<1>7. staged' \in [Directory -> Directories]  BY <1>6 DEF ReadStore
<1>8. \A c \in Legacy : ImportIsWhole(c)'
  <2> TAKE c \in Legacy
  <2>1. ImportIsWhole(c)  BY DEF MigrationIsSound
  <2>2. imported[c].directory # 0 => imported[c].directory \in Directory /\ Named(imported[c].directory)
    BY LegacyTypes DEF ImportedRows, Directory, Named
  <2> QED BY <1>0, <1>6, <2>1, <2>2 DEF ImportIsWhole
<1>9. MigrationTyped'  BY <1>0, <1>4, <1>7, LegacyTypes DEF MigrationTyped
<1>10. LegacyRows' = LegacyRows /\ Imported' = Imported  BY <1>0 DEF LegacyRows, Imported
<1>11. HeldStill'
  <2>1. \A c \in settled : LegacyRows[c] = legacy[c].row  BY <1>2 DEF LegacyRows
  <2>2. \A c \in migration.held : legacy[c].lock = "migration"  BY DEF MigrationIsSound, HeldStill
  <2>3. RowsAreSound(LegacyRows)  BY DEF MigrationIsSound
  <2> QED BY <1>0, <1>2, <1>4, <1>10, <2>1, <2>2, <2>3 DEF HeldStill, Chosen
<1>12. Follows'  BY <1>0, <1>4, <1>10 DEF Follows, Resolvable, Refers
<1>13. CopyIsOwn'  BY <1>0, <1>4 DEF CopyIsOwn
<1> QED BY <1>8, <1>9, <1>10, <1>11, <1>12, <1>13 DEF MigrationIsSound

\* The conversations that are pulled along: whatever links to one of them, of those that
\* name all they refer to, is one of them.
LEMMA ComponentIsJoined ==
  ASSUME NEW c, NEW silent
  PROVE  /\ ComponentOf(c, silent) \subseteq migration.pending
         /\ \A e \in ComponentOf(c, silent), d \in migration.pending :
              Linked(e, d, silent) => d \in ComponentOf(c, silent)
<1>1. ASSUME NEW e \in ComponentOf(c, silent), NEW d \in migration.pending, Linked(e, d, silent),
             NEW members \in SUBSET migration.pending, c \in members, Joined(members, silent)
      PROVE  d \in members
  <2>1. e \in members  BY <1>1 DEF ComponentOf
  <2> QED BY <1>1, <2>1 DEF Joined
<1> QED BY <1>1 DEF ComponentOf

LEMMA ChooseKeeps == ASSUME MigrationIsSound, ChooseComponent PROVE MigrationIsSound'
<1>0. /\ migration \in Startups /\ migration.at = "choose" /\ migration.directory = 0
      /\ migration.component = {} /\ UNCHANGED <<legacy, imported>> /\ Chosen
  BY LegacyTypes DEF ChooseComponent, At, MigrationIsSound, CopyIsOwn, Chosen
<1>1. PICK c \in migration.pending,
           silent \in SUBSET {d \in migration.pending : ~Resolvable(d)} :
        LET component == ComponentOf(c, silent)
            left == [migration EXCEPT !.pending = @ \ component]
            taken == [left EXCEPT !.at = "copy", !.component = component]
        IN \/ migration' = left /\ UNCHANGED staged
           \/ /\ \A d \in component : Resolvable(d)
              /\ Planned(component) = {}
              /\ migration' = taken /\ UNCHANGED staged
           \/ /\ \A d \in component : Resolvable(d)
              /\ Planned(component) # {}
              /\ \E dir \in Directory :
                   /\ ~staged[dir].there /\ \A b \in Directory : b < dir => staged[b].there
                   /\ staged' = [staged EXCEPT ![dir] = [there |-> TRUE, files |-> NoRefs]]
                   /\ migration' = [taken EXCEPT !.directory = dir]
  BY DEF ChooseComponent
<1>2. PICK component : component = ComponentOf(c, silent)  OBVIOUS
<1>3. /\ component \subseteq migration.pending /\ component \in SUBSET Legacy
      /\ \A e \in component, d \in migration.pending :
           e \notin silent /\ Refers(e, d) => d \in component
      /\ \A e \in component, d \in migration.pending :
           d \notin silent /\ Refers(d, e) => d \in component
  BY <1>0, <1>2, ComponentIsJoined DEF Linked, Refers, Startups
<1>4. /\ \A d \in migration.pending : Resolvable(d) => d \notin silent
      /\ migration.pending \subseteq migration.todo /\ migration.pending \intersect Imported = {}
      /\ migration.todo \subseteq Legacy
  BY <1>0 DEF MigrationIsSound, HeldStill, Startups
<1>5. ASSUME NEW new \in Startups, migration' = new, new.todo = migration.todo,
             new.held = migration.held, new.snapshot = migration.snapshot,
             new.pending = migration.pending \ component, new.at \in {"choose", "copy"},
             new.component \in {{}, component}, CopyIsOwn',
             staged' \in [Directory -> Directories], \A d \in Legacy : ImportIsWhole(d)'
      PROVE  MigrationIsSound'
  <2>1. MigrationTyped' /\ LegacyRows' = LegacyRows /\ Imported' = Imported
    BY <1>0, <1>5, LegacyTypes DEF MigrationTyped, LegacyRows, Imported
  <2>2. HeldStill'
    <3>1. /\ \A d \in migration.held : legacy[d].lock = "migration"
          /\ migration.todo \subseteq migration.held
          /\ \A d \in migration.todo : migration.snapshot[d] = legacy[d].row
                                        /\ ~migration.snapshot[d].active
          /\ RowsAreSound(migration.snapshot)
      BY <1>0 DEF MigrationIsSound, HeldStill
    <3>2. /\ new.pending \union new.component \subseteq new.todo
          /\ new.pending \intersect new.component = {}
          /\ (new.pending \union new.component) \intersect Imported = {}
      BY <1>3, <1>4, <1>5
    <3> QED BY <1>0, <1>5, <2>1, <3>1, <3>2 DEF HeldStill, Chosen
  <2>3. Follows'
    <3> SUFFICES ASSUME NEW b \in new.pending, NEW d \in Legacy, Resolvable(b), Refers(b, d)
                 PROVE  d \in new.pending \union Imported
      BY <1>0, <1>5, <2>1 DEF Follows, Resolvable, Refers
    <3>1. d \in migration.pending \union Imported  BY <1>0, <1>5 DEF MigrationIsSound, Follows
    <3>2. d \in component => b \in component  BY <1>3, <1>4, <1>5
    <3> QED BY <1>5, <3>1, <3>2
  <2> QED BY <1>0, <1>5, <2>1, <2>2, <2>3 DEF MigrationIsSound
<1>6. PICK left \in Startups : left = [migration EXCEPT !.pending = migration.pending \ component]
  BY <1>0 DEF Startups
<1>7. /\ left.todo = migration.todo /\ left.held = migration.held /\ left.at = "choose"
      /\ left.snapshot = migration.snapshot /\ left.pending = migration.pending \ component
      /\ left.component = {} /\ left.directory = 0
  BY <1>0, <1>6 DEF Startups
<1>8. PICK taken \in Startups : taken = [left EXCEPT !.at = "copy", !.component = component]
  BY <1>3 DEF Startups, Steps
<1>9. /\ taken.todo = migration.todo /\ taken.held = migration.held /\ taken.at = "copy"
      /\ taken.snapshot = migration.snapshot /\ taken.pending = migration.pending \ component
      /\ taken.component = component /\ taken.directory = 0
  BY <1>7, <1>8 DEF Startups
<1>10. ASSUME \A d \in component : Resolvable(d)
       PROVE  \A e \in component : /\ Resolvable(e)
                                   /\ \A d \in Legacy : Refers(e, d) => d \in component \union Imported
  <2> SUFFICES ASSUME NEW e \in component, NEW d \in Legacy, Refers(e, d)
               PROVE  d \in component \union Imported
    BY <1>10
  <2>1. d \in migration.pending \union Imported
    BY <1>0, <1>3, <1>10 DEF MigrationIsSound, Follows
  <2> QED BY <1>3, <1>4, <1>10, <2>1
<1>11. ASSUME UNCHANGED staged PROVE \A d \in Legacy : ImportIsWhole(d)'
  BY <1>0, <1>11 DEF MigrationIsSound, ImportIsWhole
<1>12. CASE migration' = left /\ UNCHANGED staged
  <2>1. CopyIsOwn'  BY <1>7, <1>12 DEF CopyIsOwn
  <2> QED BY <1>5, <1>7, <1>11, <1>12, <2>1, LegacyTypes
<1>13. CASE /\ \A d \in component : Resolvable(d)
            /\ Planned(component) = {} /\ migration' = taken /\ UNCHANGED staged
  <2>1. CopyIsOwn'
    BY <1>0, <1>9, <1>10, <1>13 DEF CopyIsOwn, Resolvable, Refers, Planned, Imported
  <2> QED BY <1>5, <1>9, <1>11, <1>13, <2>1, LegacyTypes
<1>14. ASSUME \A d \in component : Resolvable(d), NEW dir \in Directory, ~staged[dir].there,
              staged' = [staged EXCEPT ![dir] = [there |-> TRUE, files |-> NoRefs]],
              migration' = [taken EXCEPT !.directory = dir]
       PROVE  MigrationIsSound'
  <2>1. dir \in 1..MaxImports /\ dir \in 0..MaxImports /\ dir # 0
    BY <1>14, LegacyTypes DEF Directory
  <2>2. PICK new \in Startups : new = [taken EXCEPT !.directory = dir]  BY <2>1 DEF Startups
  <2>3. /\ new.todo = migration.todo /\ new.held = migration.held /\ new.at = "copy"
        /\ new.snapshot = migration.snapshot /\ new.pending = migration.pending \ component
        /\ new.component = component /\ new.directory = dir
    BY <1>9, <2>2 DEF Startups
  <2>4. PICK fresh \in Directories : fresh = [there |-> TRUE, files |-> NoRefs]
    <3>1. 0 \in 0..MaxTurns  BY LegacyTypes
    <3> QED BY <3>1 DEF Directories, NoRefs
  <2>5. /\ staged' \in [Directory -> Directories] /\ staged'[dir] = fresh
        /\ \A d \in Directory : d # dir => staged'[d] = staged[d]
    BY <1>14, <2>4, LegacyTypes
  <2>6. \A d \in Legacy : imported[d].directory # dir
    BY <1>14, <2>1 DEF MigrationIsSound, ImportIsWhole
  <2>7. \A d \in Legacy : ImportIsWhole(d)'
    <3> TAKE d \in Legacy
    <3>1. imported[d].directory # 0 => imported[d].directory \in Directory
      BY LegacyTypes DEF ImportedRows, Directory
    <3>2. ImportIsWhole(d)  BY DEF MigrationIsSound
    <3> QED BY <1>0, <2>5, <2>6, <3>1, <3>2 DEF ImportIsWhole
  <2>8. CopyIsOwn'
    <3>1. fresh.there /\ \A d \in Legacy : fresh.files[d] = 0  BY <2>4 DEF NoRefs
    <3>2. \A d \in component : staged'[dir].files[d] \in {0, legacy[d].row.history}
      BY <1>3, <2>5, <3>1
    <3>3. \A e \in component : /\ Resolvable(e)'
                               /\ \A d \in Legacy : Refers(e, d)' => d \in component \union Imported'
      BY <1>0, <1>10, <1>14, <2>2, <2>3 DEF Resolvable, Refers, Imported
    <3> QED BY <1>0, <1>14, <2>1, <2>2, <2>3, <2>5, <2>6, <3>1, <3>2, <3>3 DEF CopyIsOwn
  <2> QED BY <1>5, <1>14, <2>2, <2>3, <2>5, <2>7, <2>8
<1>15. \/ migration' = left /\ UNCHANGED staged
       \/ /\ \A d \in component : Resolvable(d)
          /\ Planned(component) = {} /\ migration' = taken /\ UNCHANGED staged
       \/ /\ \A d \in component : Resolvable(d)
          /\ \E dir \in Directory :
               /\ ~staged[dir].there
               /\ staged' = [staged EXCEPT ![dir] = [there |-> TRUE, files |-> NoRefs]]
               /\ migration' = [taken EXCEPT !.directory = dir]
  BY <1>1, <1>2, <1>6, <1>8
<1> QED BY <1>12, <1>13, <1>14, <1>15

LEMMA CopyKeeps == ASSUME MigrationIsSound, NEW c \in Legacy, CopyHistory(c) PROVE MigrationIsSound'
<1>1. PICK dir : dir = migration.directory  OBVIOUS
<1>2. /\ migration.at = "copy" /\ c \in migration.component /\ Planned(migration.component) # {}
      /\ UNCHANGED <<legacy, migration, imported>>
      /\ staged' = [staged EXCEPT ![dir].files[c] = legacy[c].row.history]
  BY <1>1 DEF CopyHistory, At, Planned
<1>3. /\ dir # 0 /\ staged[dir].there /\ \A d \in Legacy : imported[d].directory # dir
      /\ \A d \in migration.component : staged[dir].files[d] \in {0, legacy[d].row.history}
  BY <1>1, <1>2 DEF MigrationIsSound, CopyIsOwn
<1>4. dir \in Directory
  <2>1. dir \in 0..MaxImports  BY <1>1, LegacyTypes DEF Startups
  <2> QED BY <1>3, <2>1, LegacyTypes DEF Directory
<1>5. staged[dir] \in Directories /\ legacy[c].row.history \in 0..MaxTurns
  BY <1>4, LegacyTypes DEF LegacyRow
<1>6. PICK files \in [Legacy -> 0..MaxTurns] :
        files = [staged[dir].files EXCEPT ![c] = legacy[c].row.history]
  BY <1>5 DEF Directories
<1>7. PICK new \in Directories : new = [staged[dir] EXCEPT !.files = files]
  BY <1>5, <1>6 DEF Directories
<1>8. new.there /\ new.files = files  BY <1>3, <1>5, <1>7 DEF Directories
<1>9. staged' = [staged EXCEPT ![dir] = new]
  <2>1. staged' = [staged EXCEPT ![dir] =
                     [staged[dir] EXCEPT !.files =
                        [staged[dir].files EXCEPT ![c] = legacy[c].row.history]]]
    BY <1>2, <1>4, LegacyTypes DEF Directories
  <2> QED BY <1>6, <1>7, <2>1
<1>10. /\ staged' \in [Directory -> Directories] /\ staged'[dir] = new
       /\ \A d \in Directory : d # dir => staged'[d] = staged[d]
  BY <1>4, <1>9, LegacyTypes
<1>11. MigrationTyped' /\ LegacyRows' = LegacyRows /\ Imported' = Imported
  BY <1>2, <1>10, LegacyTypes DEF MigrationTyped, LegacyRows, Imported
<1>12. HeldStill' /\ Follows'
  BY <1>2, <1>11 DEF MigrationIsSound, HeldStill, Follows, Chosen, Resolvable, Refers
<1>13. \A d \in Legacy : ImportIsWhole(d)'
  <2> TAKE d \in Legacy
  <2>1. imported[d].directory # 0 => imported[d].directory \in Directory
    BY LegacyTypes DEF ImportedRows, Directory
  <2>2. ImportIsWhole(d)  BY DEF MigrationIsSound
  <2> QED BY <1>2, <1>3, <1>10, <2>1, <2>2 DEF ImportIsWhole
<1>14. CopyIsOwn'
  <2>1. \A d \in migration.component : staged'[dir].files[d] \in {0, legacy[d].row.history}
    <3> TAKE d \in migration.component
    <3>1. d \in Legacy  BY LegacyTypes DEF Startups
    <3>2. files[d] = legacy[d].row.history \/ files[d] = staged[dir].files[d]
      BY <1>5, <1>6, <3>1 DEF Directories
    <3> QED BY <1>3, <1>8, <1>10, <3>2
  <2>2. \A e \in migration.component :
          /\ Resolvable(e)' /\ \A d \in Legacy : Refers(e, d)' => d \in migration.component \union Imported'
    BY <1>2, <1>11 DEF MigrationIsSound, CopyIsOwn, Resolvable, Refers
  <2>3. staged'[dir].there  BY <1>8, <1>10
  <2> QED BY <1>1, <1>2, <1>3, <2>1, <2>2, <2>3 DEF CopyIsOwn
<1> QED BY <1>2, <1>11, <1>12, <1>13, <1>14 DEF MigrationIsSound

\* The copy ends: what is left to choose is as it was, and what was imported is there.
LEMMA CopyEnds ==
  ASSUME MigrationIsSound, migration.at = "copy", UNCHANGED legacy,
         migration' = [migration EXCEPT !.at = "choose", !.component = {}, !.directory = 0],
         imported' \in [Legacy -> ImportedRows], staged' \in [Directory -> Directories],
         \A d \in Legacy : d \notin migration.component => imported'[d] = imported[d],
         \A d \in Legacy : ImportIsWhole(d)'
  PROVE  MigrationIsSound'
<1>1. migration \in Startups /\ Chosen  BY LegacyTypes DEF Chosen
<1>2. PICK new \in Startups : new = [migration EXCEPT !.at = "choose", !.component = {}, !.directory = 0]
  <2>1. 0 \in 0..MaxImports  BY LegacyTypes
  <2> QED BY <1>1, <2>1 DEF Startups, Steps
<1>3. /\ migration' = new /\ new.at = "choose" /\ new.component = {} /\ new.directory = 0
      /\ new.todo = migration.todo /\ new.held = migration.held /\ new.pending = migration.pending
      /\ new.snapshot = migration.snapshot
  BY <1>1, <1>2 DEF Startups
<1>4. /\ migration.pending \subseteq migration.todo /\ migration.todo \subseteq Legacy
      /\ migration.pending \intersect migration.component = {}
      /\ migration.pending \intersect Imported = {}
      /\ migration.component \intersect Imported = {}
  BY <1>1 DEF MigrationIsSound, HeldStill, Startups
<1>5. /\ \A d \in migration.pending : imported'[d] = imported[d]
      /\ Imported \subseteq Imported' /\ migration.pending \intersect Imported' = {}
  BY <1>4 DEF Imported
<1>6. MigrationTyped' /\ LegacyRows' = LegacyRows
  BY <1>3, LegacyTypes DEF MigrationTyped, LegacyRows
<1>7. HeldStill'
  BY <1>1, <1>3, <1>4, <1>5 DEF MigrationIsSound, HeldStill, Chosen
<1>8. Follows'
  <2> SUFFICES ASSUME NEW b \in migration.pending, NEW d \in Legacy, Resolvable(b)', Refers(b, d)
               PROVE  d \in migration.pending \union Imported'
    BY <1>3 DEF Follows, Refers
  <2>1. Resolvable(b)
    <3> SUFFICES ASSUME NEW e \in Legacy, migration.snapshot[b].refs[e] > 0
                 PROVE  /\ e \in migration.todo
                        /\ \A row \in imported[e].row : row.turns >= migration.snapshot[b].refs[e]
      BY DEF Resolvable
    <3>1. /\ e \in migration.todo
          /\ \A row \in imported'[e].row : row.turns >= migration.snapshot[b].refs[e]
      BY <1>3 DEF Resolvable
    <3>2. e \in migration.component => imported[e].row = {}  BY <1>4 DEF Imported
    <3> QED BY <3>1, <3>2
  <2>2. d \in migration.pending \union Imported
    BY <1>1, <2>1 DEF MigrationIsSound, Follows
  <2> QED BY <1>5, <2>2
<1>9. CopyIsOwn'  BY <1>3 DEF CopyIsOwn
<1>10. RowsAreSound(LegacyRows')  BY <1>6 DEF MigrationIsSound
<1> QED BY <1>6, <1>7, <1>8, <1>9, <1>10 DEF MigrationIsSound

LEMMA CommitKeeps == ASSUME MigrationIsSound, CommitImport PROVE MigrationIsSound'
<1>1. PICK dir, component, copied : /\ dir = migration.directory
                                    /\ component = migration.component
                                    /\ copied = Planned(component)
  OBVIOUS
<1>2. /\ migration.at = "copy" /\ UNCHANGED legacy /\ Chosen /\ dir \in 0..MaxImports
      /\ migration' = [migration EXCEPT !.at = "choose", !.component = {}, !.directory = 0]
      /\ component \subseteq Legacy /\ copied \subseteq component
  BY <1>1, LegacyTypes DEF CommitImport, At, Chosen, Startups, Planned
<1>3. dir \in Directory \/ (dir = 0 /\ copied = {})
  <2>1. dir = 0 => copied = {}  BY <1>1, <1>2 DEF MigrationIsSound, CopyIsOwn
  <2>2. dir # 0 => dir \in Directory  BY <1>2, LegacyTypes DEF Directory
  <2> QED BY <2>1, <2>2
<1>4. dir # 0 => /\ staged[dir].there /\ \A d \in Legacy : imported[d].directory # dir
                 /\ \A d \in component : staged[dir].files[d] \in {0, legacy[d].row.history}
  BY <1>1, <1>2 DEF MigrationIsSound, CopyIsOwn
<1>5. CASE /\ staged' = [d \in Directory |->
                IF d = dir THEN [staged[d] EXCEPT !.there = FALSE] ELSE staged[d]]
           /\ UNCHANGED imported
  <2>1. ASSUME NEW d \in Directory
        PROVE  staged'[d] \in Directories /\ (d # dir => staged'[d] = staged[d])
    <3>1. staged[d] \in Directories  BY LegacyTypes
    <3>2. [staged[d] EXCEPT !.there = FALSE] \in Directories  BY <3>1 DEF Directories
    <3> QED BY <1>5, <3>1, <3>2
  <2>2. staged' \in [Directory -> Directories]  BY <1>5, <2>1
  <2>3. ASSUME NEW c \in Legacy PROVE ImportIsWhole(c)'
    <3>1. ImportIsWhole(c)  BY DEF MigrationIsSound
    <3>2. imported[c].directory # 0 => imported[c].directory \in Directory
      BY LegacyTypes DEF ImportedRows, Directory
    <3>3. imported[c].directory # 0 => imported[c].directory # dir  BY <1>3, <1>4
    <3>4. imported[c].directory # 0 => staged'[imported[c].directory] = staged[imported[c].directory]
      BY <2>1, <3>2, <3>3
    <3> QED BY <1>5, <3>1, <3>4 DEF ImportIsWhole
  <2> QED BY <1>2, <1>5, <2>2, <2>3, LegacyTypes, CopyEnds
<1>6. CASE /\ \A c \in copied : staged[dir].files[c] # 0
           /\ imported' = [c \in Legacy |->
                IF c \in component
                THEN [row |-> {migration.snapshot[c]},
                      history |-> IF c \in copied THEN staged[dir].files[c] ELSE 0,
                      directory |-> IF c \in copied THEN dir ELSE 0]
                ELSE imported[c]]
           /\ UNCHANGED staged
  <2>1. /\ component \subseteq migration.todo /\ component \intersect Imported = {}
        /\ \A c \in component : /\ migration.snapshot[c] = legacy[c].row
                                /\ ~migration.snapshot[c].active
                                /\ Resolvable(c)
                                /\ \A d \in Legacy : Refers(c, d) => d \in component \union Imported
    BY <1>1, <1>2 DEF MigrationIsSound, HeldStill, CopyIsOwn
  <2>2. \A c \in copied : dir # 0 /\ staged[dir].files[c] = legacy[c].row.history
    BY <1>2, <1>3, <1>4, <1>6, LegacyTypes DEF Directory
  <2>3. \A c \in component : c \notin copied => legacy[c].row.history = 0
    <3> SUFFICES ASSUME NEW c \in component, c \notin copied PROVE legacy[c].row.history = 0
      OBVIOUS
    <3>1. ~(legacy[c].row.history > 0)  BY <1>1 DEF Planned
    <3>2. legacy[c].row.history \in 0..MaxTurns  BY <1>2, LegacyTypes DEF LegacyRow
    <3> QED BY <3>1, <3>2, LegacyTypes
  <2>4. ASSUME NEW c \in component
        PROVE  /\ imported'[c].row = {legacy[c].row} /\ imported'[c].history = legacy[c].row.history
               /\ imported'[c].directory = IF c \in copied THEN dir ELSE 0
               /\ imported'[c] \in ImportedRows
    <3>1. c \in Legacy  BY <1>2
    <3>2. imported'[c] = [row |-> {legacy[c].row}, history |-> legacy[c].row.history,
                          directory |-> IF c \in copied THEN dir ELSE 0]
      BY <1>6, <2>1, <2>2, <2>3, <3>1
    <3>3. legacy[c].row \in LegacyRow /\ legacy[c].row.history \in 0..MaxTurns
      BY <3>1, LegacyTypes DEF LegacyRow
    <3>4. (IF c \in copied THEN dir ELSE 0) \in 0..MaxImports  BY <1>2, LegacyTypes
    <3> QED BY <3>2, <3>3, <3>4 DEF ImportedRows
  <2>5. \A c \in Legacy : c \notin component => imported'[c] = imported[c]  BY <1>6
  <2>6. imported' \in [Legacy -> ImportedRows]  BY <1>6, <2>4, <2>5, LegacyTypes
  <2>7. ASSUME NEW c \in Legacy, c \notin component PROVE ImportIsWhole(c)'
    <3>1. ImportIsWhole(c)  BY DEF MigrationIsSound
    <3>2. ASSUME NEW row \in imported[c].row, NEW d \in Legacy, row.refs[d] > 0
          PROVE  \E other \in imported'[d].row : other.turns >= row.refs[d]
      <4>1. PICK other \in imported[d].row : other.turns >= row.refs[d]
        BY <3>1, <3>2 DEF ImportIsWhole
      <4>2. d \notin component  BY <2>1, <4>1 DEF Imported
      <4> QED BY <2>5, <4>1, <4>2
    <3> QED BY <1>6, <2>5, <2>7, <3>1, <3>2 DEF ImportIsWhole
  <2>8. ASSUME NEW c \in component PROVE ImportIsWhole(c)'
    <3>0. c \in Legacy /\ legacy[c].row \in LegacyRow  BY <1>2, LegacyTypes
    <3>1. /\ imported'[c].history > 0 => imported'[c].directory # 0
          /\ imported'[c].directory # 0 =>
               /\ staged'[imported'[c].directory].there
               /\ staged'[imported'[c].directory].files[c] = imported'[c].history
      <4>1. c \in copied => staged[dir].there  BY <1>4, <2>2
      <4>2. c \notin copied => ~(imported'[c].history > 0)  BY <2>3, <2>4
      <4>3. CASE c \in copied
        <5>1. imported'[c].directory = dir /\ staged' = staged  BY <1>6, <2>4, <4>3
        <5>2. staged[dir].files[c] = imported'[c].history  BY <2>2, <2>4, <4>3
        <5> QED BY <2>2, <4>1, <4>3, <5>1, <5>2
      <4>4. CASE c \notin copied
        <5>1. imported'[c].directory = 0  BY <2>4, <4>4
        <5> QED BY <4>2, <4>4, <5>1
      <4> QED BY <4>3, <4>4
    <3>2. ASSUME NEW d \in Legacy, legacy[c].row.refs[d] > 0
          PROVE  \E other \in imported'[d].row : other.turns >= legacy[c].row.refs[d]
      <4>1. Refers(c, d) /\ migration.snapshot[c].refs[d] = legacy[c].row.refs[d]
        BY <2>1, <3>2 DEF Refers
      <4>2. CASE d \in component
        <5>1. legacy[c].row.refs[d] <= legacy[d].row.turns
          BY <3>0 DEF MigrationIsSound, RowsAreSound, LegacyRows
        <5>2. legacy[c].row.refs[d] \in Nat /\ legacy[d].row.turns \in Nat
          BY <3>0, LegacyTypes DEF LegacyRow
        <5>3. legacy[d].row.turns >= legacy[c].row.refs[d]  BY <5>1, <5>2
        <5> QED BY <2>4, <4>2, <5>3
      <4>3. CASE d \notin component
        <5>1. d \in Imported /\ imported'[d] = imported[d]  BY <2>1, <2>5, <4>1, <4>3
        <5>2. \A row \in imported[d].row : row.turns >= legacy[c].row.refs[d]
          BY <2>1, <3>2, <4>1 DEF Resolvable
        <5> QED BY <5>1, <5>2 DEF Imported
      <4> QED BY <4>2, <4>3
    <3>3. ~legacy[c].row.active  BY <2>1
    <3> QED BY <2>4, <3>1, <3>2, <3>3 DEF ImportIsWhole
  <2>9. \A c \in Legacy : ImportIsWhole(c)'  BY <2>7, <2>8
  <2>10. \A d \in Legacy : d \notin migration.component => imported'[d] = imported[d]
    BY <1>1, <2>5
  <2> QED BY <1>2, <1>6, <2>6, <2>9, <2>10, LegacyTypes, CopyEnds
<1> QED BY <1>1, <1>5, <1>6 DEF CommitImport

LEMMA MigrationStarts == MigrationInit => MigrationIsSound
<1> SUFFICES ASSUME MigrationInit PROVE MigrationIsSound  OBVIOUS
<1>0. /\ 1 \in 1..MaxTurns /\ 0 \in 0..MaxTurns /\ 1 \in 0..MaxTurns /\ 0 \in 0..MaxImports
  BY MigrationBounds
<1>1. FirstRow \in LegacyRow /\ [FirstRow EXCEPT !.history = 0] \in LegacyRow
      /\ NoRefs \in [Legacy -> 0..MaxTurns]
  BY <1>0 DEF FirstRow, LegacyRow, NoRefs
<1>2. PICK gone \in SUBSET Legacy :
        legacy = [c \in Legacy |->
                   [row |-> IF c \in gone THEN [FirstRow EXCEPT !.history = 0] ELSE FirstRow,
                    lock |-> "free"]]
  BY DEF MigrationInit
<1>3. \A c \in Legacy : /\ legacy[c] \in Conversations
                        /\ ~legacy[c].row.active /\ legacy[c].row.turns = 1
                        /\ legacy[c].row.refs = NoRefs
  BY <1>1, <1>2 DEF Conversations, FirstRow
<1>4. legacy \in [Legacy -> Conversations]  BY <1>2, <1>3
<1>5. migration = Idle /\ imported = [c \in Legacy |-> NoCopy]
      /\ staged = [d \in Directory |-> [there |-> FALSE, files |-> NoRefs]]
  BY DEF MigrationInit
<1>6. MigrationTyped
  BY <1>0, <1>1, <1>4, <1>5, IdleIs DEF MigrationTyped, NoCopy, ImportedRows, Directories
<1>7. RowsAreSound(LegacyRows)
  <2>1. \A c, d \in Legacy : legacy[c].row.refs[d] = 0 /\ legacy[d].row.turns = 1
    BY <1>3 DEF NoRefs
  <2> QED BY <1>3, <2>1 DEF RowsAreSound, LegacyRows
<1>8. HeldStill /\ Follows /\ CopyIsOwn
  BY <1>5, IdleIs DEF HeldStill, Follows, CopyIsOwn, Chosen
<1>9. \A c \in Legacy : ImportIsWhole(c)
  <2> TAKE c \in Legacy
  <2>1. imported[c].row = {} /\ imported[c].history = 0 /\ imported[c].directory = 0
    BY <1>5 DEF NoCopy
  <2> QED BY <2>1 DEF ImportIsWhole
<1> QED BY <1>6, <1>7, <1>8, <1>9 DEF MigrationIsSound

LEMMA MigrationGoesOn ==
  ASSUME MigrationIsSound, [MigrationNext]_migrationVars PROVE MigrationIsSound'
<1>1. CASE UNCHANGED migrationVars
  BY <1>1 DEF migrationVars, MigrationIsSound, MigrationTyped, LegacyRows, HeldStill, Follows,
              CopyIsOwn, ImportIsWhole, Chosen, Imported, Resolvable, Refers, Planned
<1>2. CASE EndMigration \/ MigrationDies
  BY <1>2, StartupEnds DEF EndMigration, MigrationDies
<1>3. ASSUME NEW c \in Legacy,
             \/ StartLegacyTurn(c) \/ WriteHistory(c) \/ EndLegacyTurn(c)
             \/ UnlockLegacy(c) \/ RecoverLegacy(c) \/ LegacyServerDies(c)
      PROVE  MigrationIsSound'
  BY <1>3, ServersKeep
<1> QED BY <1>1, <1>2, <1>3, BeforeReading, ReadKeepsImports, ChooseKeeps, CopyKeeps, CommitKeeps
        DEF MigrationNext

LEMMA MigrationSoundMeans == ASSUME MigrationIsSound PROVE ImportsAreWhole
<1>1. MigrationTypeOK
  BY LegacyTypes DEF MigrationTypeOK, Conversations, Startups, ImportedRows, Directories
<1>2. \A c \in Imported : \A row \in imported[c].row :
       /\ ~row.active /\ imported[c].history = row.history
       /\ imported[c].history > 0 =>
            /\ staged[imported[c].directory].there
            /\ staged[imported[c].directory].files[c] = imported[c].history
       /\ \A d \in Legacy : row.refs[d] > 0 =>
            \E other \in imported[d].row : other.turns >= row.refs[d]
  BY DEF MigrationIsSound, ImportIsWhole, Imported
<1> QED BY <1>1, <1>2 DEF ImportsAreWhole

\* Whatever the legacy servers do meanwhile and wherever an earlier startup died, an
\* imported conversation has no turn under way, its history is the one of its rows and
\* still there, and whatever it refers to is imported as well.
THEOREM ImportsWhole == MigrationSpec => []ImportsAreWhole
<1>1. MigrationInit => MigrationIsSound  BY MigrationStarts
<1>2. MigrationIsSound /\ [MigrationNext]_migrationVars => MigrationIsSound'  BY MigrationGoesOn
<1>3. MigrationIsSound => ImportsAreWhole  BY MigrationSoundMeans
<1> QED BY <1>1, <1>2, <1>3, PTL DEF MigrationSpec

-----------------------------------------------------------------------------
(* ReviewFindings.  Each history is looked at by itself: an update appends   *)
(* one entry, and what an entry rests on lies in the entries before it, in   *)
(* turns that keep what they are bound to and in snapshots that never        *)
(* change once published.                                                    *)

\* The histories, the turns and the pinned set.
Validities == {"hypothesis", "confirmed", "rejected"}
Resolutions == {"open", "claimed_fixed", "verified_fixed"}
ReviewTurns ==
  [conversation : Conversation \union {Nowhere}, review : 0..MaxSnapshots, stage : BOOLEAN,
   status : {"none", "active", "completed", "failed"}, success : BOOLEAN, ingested : BOOLEAN]
Pins == [review : 0..MaxSnapshots, baseline : [Finding -> 0..MaxRevision]]
FindingTyped ==
  /\ findings \in [Finding -> Seq(Entry)] /\ home \in [Finding -> Conversation \union {Nowhere}]
  /\ snapshots \in Seq(Reference) /\ Len(snapshots) \in 1..MaxSnapshots
  /\ captured \in Reference /\ (captured # NoReference => Len(snapshots) < MaxSnapshots)
  /\ turns \in [Turn -> ReviewTurns] /\ pinned \in Pins

\* What was declared was there, and a turn that started has its snapshot.
TurnsAreBound ==
  \A t \in Turn : turns[t].status # "none" => turns[t].review \in 1..Len(snapshots)
Declared ==
  \A r \in 1..Len(snapshots), f \in Finding : snapshots[r].revision[f] > 0 =>
    /\ snapshots[r].published[f] = snapshots[r].revision[f]
    /\ snapshots[r].revision[f] <= Len(findings[f])

\* A turn of another conversation signs only what its own snapshot declares, and nobody
\* else had touched since.  The citations of an entry are turns that had completed.
Covered(h, i, subject, published, f) ==
  /\ published[subject].revision[f] \in 1..(i - 1)
  /\ \A j \in (published[subject].revision[f] + 1)..i : h[j].review = subject
Signed(h, f, place, ts, published) ==
  \A i \in 1..Len(h), t \in Turn : t \in h[i].by \union h[i].evidence =>
    /\ ts[t].status # "none" /\ (t \in h[i].evidence => ts[t].status = "completed")
    /\ ts[t].conversation # place => Covered(h, i, ts[t].review, published, f)

\* A resolution rests on the actions that lead to it, with nothing that undid them.
Unbroken(h, i) == \A k \in i..Len(h) : h[k].action \notin {"reject", "reopen"}
Claimed(h) == \E i \in 1..Len(h) : h[i].action = "claim_fixed" /\ Unbroken(h, i)
Verified(h, ts) ==
  \E i, j \in 1..Len(h) :
    /\ i < j /\ h[i].action = "claim_fixed" /\ h[j].action = "verify_fixed" /\ Unbroken(h, i)
    /\ \A k \in (j + 1)..Len(h) : h[k].action # "verify_fixed"
    /\ h[j].evidence # {}
    /\ \A t \in h[j].evidence : ts[t].success /\ ts[t].review = h[j].review
ResolutionRests(h, ts) ==
  Len(h) > 0 => /\ h[Len(h)].resolution = "claimed_fixed" => Claimed(h)
                /\ h[Len(h)].resolution = "verified_fixed" => Verified(h, ts)

\* What closed a pinned finding came after the pin.
ClosedAfter(h, baseline) ==
  baseline > 0 =>
    /\ baseline <= Len(h)
    /\ ~Open(h[Len(h)]) =>
         \E i \in 1..Len(h) : i > baseline /\ h[i].action \in {"reject", "verify_fixed"}
HistoryHolds(h, f, place, ts, published, baseline) ==
  /\ Len(h) <= MaxRevision /\ Signed(h, f, place, ts, published) /\ ResolutionRests(h, ts)
  /\ ClosedAfter(h, baseline)
FindingHolds ==
  /\ FindingTyped /\ TurnsAreBound /\ Declared
  /\ \A f \in Finding :
       HistoryHolds(findings[f], f, home[f], turns, snapshots, pinned.baseline[f])

LEMMA FindingTypes ==
  ASSUME FindingHolds
  PROVE  /\ findings \in [Finding -> Seq(Entry)] /\ snapshots \in Seq(Reference)
         /\ home \in [Finding -> Conversation \union {Nowhere}]
         /\ Len(snapshots) \in 1..MaxSnapshots /\ captured \in Reference
         /\ turns \in [Turn -> ReviewTurns] /\ pinned \in Pins
         /\ MaxSnapshots \in Nat \ {0} /\ MaxRevision \in Nat \ {0}
BY FindingBounds DEF FindingHolds, FindingTyped

\* A history that one entry was appended to.
Grows(h, n, e) ==
  /\ n \in Seq(Entry) /\ Len(n) = Len(h) + 1 /\ Len(h) \in Nat
  /\ \A i \in 1..Len(h) : n[i] = h[i]
  /\ n[Len(h) + 1] = e
LEMMA AppendGrows ==
  ASSUME NEW h \in Seq(Entry), NEW e \in Entry PROVE Grows(h, Append(h, e), e)
BY DEF Grows

\* Turns go on: what a started turn is bound to stays, and so does what a completed one said.
TurnRowsGoOn(ts, later) ==
  \A t \in Turn : ts[t].status # "none" =>
    /\ later[t].status # "none" /\ later[t].conversation = ts[t].conversation
    /\ later[t].review = ts[t].review
    /\ ts[t].status = "completed" => later[t].status = "completed" /\ later[t].success = ts[t].success
LEMMA HistoryStays ==
  ASSUME NEW h \in Seq(Entry), NEW f \in Finding, NEW place, NEW baseline,
         NEW ts \in [Turn -> ReviewTurns], NEW later \in [Turn -> ReviewTurns],
         NEW published \in Seq(Reference), NEW more \in Seq(Reference),
         HistoryHolds(h, f, place, ts, published, baseline), TurnRowsGoOn(ts, later),
         \A t \in Turn : ts[t].status # "none" => ts[t].review \in 1..Len(published),
         \A r \in 1..Len(published) : more[r] = published[r]
  PROVE  HistoryHolds(h, f, place, later, more, baseline)
<1>0. Len(h) \in Nat /\ \A i \in 1..Len(h) : h[i] \in Entry  OBVIOUS
<1>1. Signed(h, f, place, later, more)
  <2> SUFFICES ASSUME NEW i \in 1..Len(h), NEW t \in Turn, t \in h[i].by \union h[i].evidence
               PROVE  /\ later[t].status # "none"
                      /\ t \in h[i].evidence => later[t].status = "completed"
                      /\ later[t].conversation # place => Covered(h, i, later[t].review, more, f)
    BY DEF Signed
  <2>1. /\ ts[t].status # "none" /\ (t \in h[i].evidence => ts[t].status = "completed")
        /\ ts[t].conversation # place => Covered(h, i, ts[t].review, published, f)
    BY DEF HistoryHolds, Signed
  <2>2. ts[t].review \in 1..Len(published) /\ more[ts[t].review] = published[ts[t].review]
    BY <2>1
  <2>3. later[t].review = ts[t].review /\ later[t].conversation = ts[t].conversation
        /\ later[t].status # "none"
    BY <2>1 DEF TurnRowsGoOn
  <2>4. later[t].conversation # place => Covered(h, i, later[t].review, more, f)
    BY <2>1, <2>2, <2>3 DEF Covered
  <2> QED BY <2>1, <2>3, <2>4 DEF TurnRowsGoOn
<1>2. ASSUME Verified(h, ts) PROVE Verified(h, later)
  <2>1. PICK i, j \in 1..Len(h) :
          /\ i < j /\ h[i].action = "claim_fixed" /\ h[j].action = "verify_fixed" /\ Unbroken(h, i)
          /\ \A k \in (j + 1)..Len(h) : h[k].action # "verify_fixed"
          /\ h[j].evidence # {}
          /\ \A t \in h[j].evidence : ts[t].success /\ ts[t].review = h[j].review
    BY <1>2 DEF Verified
  <2>2. h[j].evidence \subseteq Turn  BY <1>0 DEF Entry
  <2>3. \A t \in h[j].evidence : ts[t].status = "completed" /\ ts[t].status # "none"
    BY <2>2 DEF HistoryHolds, Signed
  <2>4. \A t \in h[j].evidence : later[t].success /\ later[t].review = h[j].review
    BY <2>1, <2>2, <2>3 DEF TurnRowsGoOn
  <2> QED BY <2>1, <2>4 DEF Verified
<1> QED BY <1>1, <1>2 DEF HistoryHolds, ResolutionRests

\* What an action makes of validity and resolution, and what it needs.
Moved(row, e, action) ==
  /\ action \in {"note", "confirm"} => e.resolution = row.resolution
  /\ action = "note" => e.validity = row.validity
  /\ action = "confirm" => e.validity = "confirmed" /\ row.validity # "rejected"
  /\ action = "reopen" => e.validity # "rejected"
  /\ action \in {"reject", "reopen"} => e.resolution = "open"
  /\ action = "claim_fixed" => e.resolution = "claimed_fixed" /\ e.validity # "rejected"
  /\ action = "verify_fixed" => e.resolution = "verified_fixed" /\ row.resolution = "claimed_fixed"
LEMMA ActionMoves ==
  ASSUME NEW f \in Finding, NEW action \in Action \ {"create"}, Applicable(f, action),
         LastEntry(f) \in Entry
  PROVE  \E validity \in Validities, resolution \in Resolutions :
           /\ Applied(LastEntry(f), action)
              = [LastEntry(f) EXCEPT !.validity = validity, !.resolution = resolution]
           /\ Moved(LastEntry(f), [validity |-> validity, resolution |-> resolution], action)
<1> DEFINE row == LastEntry(f)
<1> DEFINE Goal(v, r) ==
      /\ Applied(row, action) = [row EXCEPT !.validity = v, !.resolution = r]
      /\ Moved(row, [validity |-> v, resolution |-> r], action)
<1> SUFFICES \E v \in Validities, r \in Resolutions : Goal(v, r)
  OBVIOUS
<1>1. row \in Entry /\ row.validity \in Validities /\ row.resolution \in Resolutions
  BY DEF Entry, Validities, Resolutions
<1>2. CASE action = "note"
  <2>1. Applied(row, action) = row  BY <1>2 DEF Applied
  <2>2. row = [row EXCEPT !.validity = row.validity, !.resolution = row.resolution]
    BY <1>1 DEF Entry
  <2>3. Moved(row, [validity |-> row.validity, resolution |-> row.resolution], action)
    BY <1>2 DEF Moved
  <2> QED BY <1>1, <2>1, <2>2, <2>3
<1>3. CASE action = "confirm"
  <2>1. Applied(row, action) = [row EXCEPT !.validity = "confirmed"] /\ row.validity = "hypothesis"
    BY <1>3 DEF Applied, Applicable
  <2>2. [row EXCEPT !.validity = "confirmed"]
        = [row EXCEPT !.validity = "confirmed", !.resolution = row.resolution]
    BY <1>1 DEF Entry
  <2>3. Moved(row, [validity |-> "confirmed", resolution |-> row.resolution], action)
    BY <1>3, <2>1 DEF Moved
  <2>4. Goal("confirmed", row.resolution)  BY <2>1, <2>2, <2>3
  <2> QED BY <1>1, <2>4 DEF Validities
<1>4. CASE action = "reject"
  <2>1. Applied(row, action) = [row EXCEPT !.validity = "rejected", !.resolution = "open"]
    BY <1>4 DEF Applied
  <2>2. Moved(row, [validity |-> "rejected", resolution |-> "open"], action)
    BY <1>4 DEF Moved
  <2>3. Goal("rejected", "open")  BY <2>1, <2>2
  <2> QED BY <2>3 DEF Validities, Resolutions
<1>5. CASE action = "reopen"
  <2>1. Applied(row, action) = [row EXCEPT !.resolution = "open",
          !.validity = IF row.validity = "rejected" THEN "hypothesis" ELSE row.validity]
    BY <1>5, <1>1 DEF Applied, Entry
  <2>2. PICK v \in Validities \ {"rejected"} :
          v = IF row.validity = "rejected" THEN "hypothesis" ELSE row.validity
    BY <1>1 DEF Validities
  <2>3. Applied(row, action) = [row EXCEPT !.validity = v, !.resolution = "open"]
    BY <2>1, <2>2, <1>1 DEF Entry
  <2>4. Moved(row, [validity |-> v, resolution |-> "open"], action)
    BY <1>5, <2>2 DEF Moved
  <2>5. Goal(v, "open")  BY <2>3, <2>4
  <2> QED BY <2>2, <2>5 DEF Resolutions
<1>6. CASE action = "claim_fixed"
  <2>1. Applied(row, action) = [row EXCEPT !.resolution = "claimed_fixed"] /\ row.validity = "confirmed"
    BY <1>6 DEF Applied, Applicable
  <2>2. [row EXCEPT !.resolution = "claimed_fixed"]
        = [row EXCEPT !.validity = row.validity, !.resolution = "claimed_fixed"]
    BY <1>1 DEF Entry
  <2>3. Moved(row, [validity |-> row.validity, resolution |-> "claimed_fixed"], action)
    BY <1>6, <2>1 DEF Moved
  <2>4. Goal(row.validity, "claimed_fixed")  BY <2>1, <2>2, <2>3
  <2> QED BY <1>1, <2>4 DEF Resolutions
<1>7. CASE action = "verify_fixed"
  <2>1. /\ Applied(row, action) = [row EXCEPT !.resolution = "verified_fixed"]
        /\ row.validity = "confirmed" /\ row.resolution = "claimed_fixed"
    BY <1>7 DEF Applied, Applicable
  <2>2. [row EXCEPT !.resolution = "verified_fixed"]
        = [row EXCEPT !.validity = row.validity, !.resolution = "verified_fixed"]
    BY <1>1 DEF Entry
  <2>3. Moved(row, [validity |-> row.validity, resolution |-> "verified_fixed"], action)
    BY <1>7, <2>1 DEF Moved
  <2>4. Goal(row.validity, "verified_fixed")  BY <2>1, <2>2, <2>3
  <2> QED BY <1>1, <2>4 DEF Resolutions
<1> HIDE DEF Goal
<1> QED BY <1>2, <1>3, <1>4, <1>5, <1>6, <1>7 DEF Action

\* An entry that moves the row keeps its resolution founded.
LEMMA ResolvedGrows ==
  ASSUME NEW h, NEW n, NEW e, NEW ts, NEW action \in Action \ {"create"}, Len(h) > 0, Grows(h, n, e),
         ResolutionRests(h, ts), e.action = action, Moved(h[Len(h)], e, action),
         action = "verify_fixed" =>
           e.evidence # {} /\ \A t \in e.evidence : ts[t].success /\ ts[t].review = e.review
  PROVE  ResolutionRests(n, ts)
<1>1. Len(n) = Len(h) + 1 /\ Len(h) \in Nat /\ n[Len(n)] = e
      /\ \A i \in 1..Len(h) : n[i] = h[i] /\ i \in 1..Len(n)
  BY DEF Grows
<1>2. action \in {"note", "confirm", "reject", "reopen", "claim_fixed", "verify_fixed"}
  BY DEF Action
<1>3. \A i \in 1..Len(h) : Unbroken(h, i) /\ action \notin {"reject", "reopen"} => Unbroken(n, i)
  <2> SUFFICES ASSUME NEW i \in 1..Len(h), Unbroken(h, i), action \notin {"reject", "reopen"},
                      NEW k \in i..Len(n)
               PROVE  n[k].action \notin {"reject", "reopen"}
    BY DEF Unbroken
  <2>1. CASE k = Len(n)
    BY <2>1, <1>1
  <2>2. CASE k # Len(n)
    <3>1. k \in 1..Len(h) /\ k \in i..Len(h)  BY <2>2, <1>1
    <3>2. n[k] = h[k]  BY <3>1, <1>1
    <3> QED BY <3>1, <3>2 DEF Unbroken
  <2> QED BY <2>1, <2>2
<1>4. ASSUME e.resolution = "claimed_fixed" PROVE Claimed(n)
  <2>1. CASE action = "claim_fixed"
    <3>1. Len(n) \in 1..Len(n) /\ n[Len(n)].action = "claim_fixed"  BY <2>1, <1>1
    <3>2. Unbroken(n, Len(n))
      <4>1. \A k \in Len(n)..Len(n) : k = Len(n)  BY <1>1
      <4> QED BY <4>1, <2>1, <1>1 DEF Unbroken
    <3> QED BY <3>1, <3>2 DEF Claimed
  <2>2. CASE action # "claim_fixed"
    <3>1. action \in {"note", "confirm"} /\ h[Len(h)].resolution = "claimed_fixed"
      BY <2>2, <1>2, <1>4 DEF Moved
    <3>2. PICK i \in 1..Len(h) : h[i].action = "claim_fixed" /\ Unbroken(h, i)
      BY <3>1 DEF ResolutionRests, Claimed
    <3> QED BY <1>1, <1>3, <3>1, <3>2 DEF Claimed
  <2> QED BY <2>1, <2>2
<1>5. ASSUME e.resolution = "verified_fixed" PROVE Verified(n, ts)
  <2>1. CASE action = "verify_fixed"
    <3>1. PICK i \in 1..Len(h) : h[i].action = "claim_fixed" /\ Unbroken(h, i)
      BY <2>1 DEF Moved, ResolutionRests, Claimed
    <3>2. i \in 1..Len(n) /\ i < Len(n) /\ n[i].action = "claim_fixed" /\ Unbroken(n, i)
      BY <3>1, <2>1, <1>1, <1>3
    <3>3. Len(n) \in 1..Len(n) /\ n[Len(n)].action = "verify_fixed"
      BY <2>1, <1>1
    <3>4. \A k \in (Len(n) + 1)..Len(n) : n[k].action # "verify_fixed"  BY <1>1
    <3>5. /\ n[Len(n)].evidence # {}
          /\ \A t \in n[Len(n)].evidence : ts[t].success /\ ts[t].review = n[Len(n)].review
      BY <2>1, <1>1
    <3> QED BY <3>2, <3>3, <3>4, <3>5 DEF Verified
  <2>2. CASE action # "verify_fixed"
    <3>1. action \in {"note", "confirm"} /\ h[Len(h)].resolution = "verified_fixed"
      BY <2>2, <1>2, <1>5 DEF Moved
    <3>2. PICK i, j \in 1..Len(h) :
            /\ i < j /\ h[i].action = "claim_fixed" /\ h[j].action = "verify_fixed" /\ Unbroken(h, i)
            /\ \A k \in (j + 1)..Len(h) : h[k].action # "verify_fixed"
            /\ h[j].evidence # {}
            /\ \A t \in h[j].evidence : ts[t].success /\ ts[t].review = h[j].review
      BY <3>1 DEF ResolutionRests, Verified
    <3>3. Unbroken(n, i)  BY <1>3, <3>1, <3>2
    <3>4. \A k \in (j + 1)..Len(n) : n[k].action # "verify_fixed"
      <4> SUFFICES ASSUME NEW k \in (j + 1)..Len(n) PROVE n[k].action # "verify_fixed"
        OBVIOUS
      <4>1. CASE k = Len(n)
        BY <4>1, <1>1, <3>1
      <4>2. CASE k # Len(n)
        <5>1. k \in (j + 1)..Len(h) /\ k \in 1..Len(h)  BY <4>2, <1>1
        <5> QED BY <5>1, <1>1, <3>2
      <4> QED BY <4>1, <4>2
    <3>5. /\ i \in 1..Len(n) /\ j \in 1..Len(n) /\ n[i] = h[i] /\ n[j] = h[j]  BY <1>1
    <3> QED BY <3>2, <3>3, <3>4, <3>5 DEF Verified
  <2> QED BY <2>1, <2>2
<1> QED BY <1>1, <1>4, <1>5 DEF ResolutionRests

\* The entry an update appends, of turns that may use the finding.
LEMMA UpdateGrows ==
  ASSUME FindingHolds, NEW f \in Finding, NEW action \in Action \ {"create"}, NEW subject,
         NEW by \in SUBSET Turn, NEW evidence \in SUBSET Turn,
         Updatable(f, action, subject, by, evidence)
  PROVE  \E e \in Entry :
           /\ Updated(f, action, subject, by, evidence)
              = [findings EXCEPT ![f] = Append(findings[f], e)]
           /\ Len(findings[f]) > 0 /\ Len(findings[f]) < MaxRevision
           /\ e.action = action /\ e.review = subject /\ e.by = by /\ e.evidence = evidence
           /\ Moved(findings[f][Len(findings[f])], e, action)
<1> DEFINE h == findings[f]
<1> DEFINE row == LastEntry(f)
<1>1. h \in Seq(Entry) /\ h # <<>> /\ Len(h) < MaxRevision
  BY FindingTypes DEF Updatable, Raised, Revision
<1>2. Len(h) \in 1..Len(h) /\ Len(h) > 0  BY <1>1
<1>3. row = h[Len(h)] /\ row \in Entry /\ Last(h) = row
  BY <1>1, <1>2 DEF LastEntry, Last
<1>4. PICK validity \in Validities, resolution \in Resolutions :
        /\ Applied(row, action) = [row EXCEPT !.validity = validity, !.resolution = resolution]
        /\ Moved(row, [validity |-> validity, resolution |-> resolution], action)
  BY <1>3, ActionMoves DEF Updatable
<1>5. subject \in Snapshot
  <2>1. row.review \in 1..MaxSnapshots  BY <1>3 DEF Entry, Snapshot
  <2>2. subject \in row.review..Len(snapshots)  BY DEF Updatable
  <2> QED BY <2>1, <2>2, FindingTypes DEF Snapshot
<1>6. PICK e \in Entry :
        e = [row EXCEPT !.validity = validity, !.resolution = resolution, !.action = action,
                        !.review = subject, !.by = by, !.evidence = evidence]
  BY <1>3, <1>5 DEF Entry, Validities, Resolutions
<1>7. /\ e.validity = validity /\ e.resolution = resolution /\ e.action = action
      /\ e.review = subject /\ e.by = by /\ e.evidence = evidence
  BY <1>3, <1>6 DEF Entry
<1>8. [Applied(row, action) EXCEPT !.action = action, !.review = subject, !.by = by,
                                   !.evidence = evidence] = e
  BY <1>3, <1>4, <1>6 DEF Entry
<1>9. Updated(f, action, subject, by, evidence) = [findings EXCEPT ![f] = Append(h, e)]
  BY <1>3, <1>8, FindingTypes DEF Updated
<1>10. Moved(row, e, action)  BY <1>4, <1>7 DEF Moved
<1> QED BY <1>1, <1>2, <1>3, <1>7, <1>9, <1>10

\* Whoever may use a finding for a review may sign the entry that comes next.
LEMMA UserCovers ==
  ASSUME FindingHolds, NEW f \in Finding, NEW t \in Turn, NEW subject, MayUse(t, f, subject),
         NEW n, NEW e, Grows(findings[f], n, e), e.review = subject
  PROVE  /\ turns[t].status # "none" /\ turns[t].review = subject
         /\ turns[t].conversation # home[f] =>
              Covered(n, Len(findings[f]) + 1, turns[t].review, snapshots, f)
<1>1. turns[t].status # "none" /\ turns[t].review = subject  BY DEF MayUse
<1>2. ASSUME turns[t].conversation # home[f]
      PROVE  Covered(n, Len(findings[f]) + 1, subject, snapshots, f)
  <2>1. DeclaredFor(t, f)  BY <1>2 DEF MayUse
  <2>2. subject \in 1..Len(snapshots)  BY <1>1 DEF FindingHolds, TurnsAreBound
  <2>3. PICK from \in Nat : from = snapshots[subject].revision[f]
    <3>1. snapshots[subject] \in Reference  BY <2>2, FindingTypes
    <3> QED BY <3>1, FindingTypes DEF Reference
  <2>4. from > 0 /\ from <= Len(findings[f])
    BY <2>1, <2>2, <2>3, <1>1 DEF DeclaredFor, FindingHolds, Declared
  <2>5. \A i \in 1..Len(findings[f]) : i > from => findings[f][i].review = subject
    <3>1. findings[f] \in Seq(Entry)  BY FindingTypes
    <3>2. DOMAIN findings[f] = 1..Len(findings[f])  BY <3>1
    <3> QED BY <2>1, <2>3, <1>1, <3>2 DEF DeclaredFor
  <2>6. \A j \in (from + 1)..(Len(findings[f]) + 1) : n[j].review = subject
    <3> SUFFICES ASSUME NEW j \in (from + 1)..(Len(findings[f]) + 1) PROVE n[j].review = subject
      OBVIOUS
    <3>1. Len(findings[f]) \in Nat  BY DEF Grows
    <3>2. CASE j = Len(findings[f]) + 1
      BY <3>2 DEF Grows
    <3>3. CASE j # Len(findings[f]) + 1
      <4>1. j \in 1..Len(findings[f]) /\ j > from  BY <3>1, <3>3, <2>3
      <4> QED BY <4>1, <2>5 DEF Grows
    <3> QED BY <3>2, <3>3
  <2>7. from \in 1..((Len(findings[f]) + 1) - 1)
    <3>1. Len(findings[f]) \in Nat  BY DEF Grows
    <3> QED BY <3>1, <2>3, <2>4
  <2> QED BY <2>3, <2>6, <2>7 DEF Covered
<1> QED BY <1>1, <1>2

\* The history of a finding after an update.
LEMMA HistoryUpdated ==
  ASSUME FindingHolds, NEW f \in Finding, NEW action \in Action \ {"create"}, NEW subject,
         NEW by \in SUBSET Turn, NEW evidence \in SUBSET Turn,
         Updatable(f, action, subject, by, evidence),
         findings' = Updated(f, action, subject, by, evidence)
  PROVE  \E n \in Seq(Entry) :
           /\ findings' = [findings EXCEPT ![f] = n]
           /\ Len(n) = Len(findings[f]) + 1 /\ Len(findings[f]) > 0
           /\ HistoryHolds(n, f, home[f], turns, snapshots, pinned.baseline[f])
<1> DEFINE h == findings[f]
<1>1. PICK e \in Entry :
        /\ Updated(f, action, subject, by, evidence) = [findings EXCEPT ![f] = Append(h, e)]
        /\ Len(h) > 0 /\ Len(h) < MaxRevision
        /\ e.action = action /\ e.review = subject /\ e.by = by /\ e.evidence = evidence
        /\ Moved(h[Len(h)], e, action)
  BY UpdateGrows
<1>2. PICK n : n = Append(h, e) /\ Grows(h, n, e)  BY AppendGrows, FindingTypes
<1>3. /\ n \in Seq(Entry) /\ Len(n) = Len(h) + 1 /\ Len(h) \in Nat /\ n[Len(n)] = e
      /\ \A i \in 1..Len(h) : n[i] = h[i] /\ i \in 1..Len(n)
  BY <1>2 DEF Grows
<1>4. HistoryHolds(h, f, home[f], turns, snapshots, pinned.baseline[f])  BY DEF FindingHolds
<1>5. \A t \in by \union evidence :
        /\ turns[t].status # "none" /\ turns[t].review = subject
        /\ turns[t].conversation # home[f] => Covered(n, Len(h) + 1, turns[t].review, snapshots, f)
  <2> SUFFICES ASSUME NEW t \in by \union evidence PROVE MayUse(t, f, subject)
    BY <1>1, <1>2, UserCovers, ZenonT(60)
  <2> QED BY DEF Updatable
<1>6. evidence # {} => action = "verify_fixed"  BY DEF Updatable
<1>7. action = "verify_fixed" =>
        evidence # {} /\ \A t \in evidence : turns[t].status = "completed" /\ turns[t].success
  BY DEF Updatable
<1>8. Signed(n, f, home[f], turns, snapshots)
  <2> SUFFICES ASSUME NEW i \in 1..Len(n), NEW t \in Turn, t \in n[i].by \union n[i].evidence
               PROVE  /\ turns[t].status # "none"
                      /\ t \in n[i].evidence => turns[t].status = "completed"
                      /\ turns[t].conversation # home[f] =>
                           Covered(n, i, turns[t].review, snapshots, f)
    BY DEF Signed
  <2>1. CASE i = Len(n)
    <3>1. n[i].by = by /\ n[i].evidence = evidence /\ i = Len(h) + 1  BY <2>1, <1>1, <1>3
    <3> QED BY <3>1, <1>5, <1>6, <1>7
  <2>2. CASE i # Len(n)
    <3>1. i \in 1..Len(h) /\ n[i] = h[i]  BY <2>2, <1>3
    <3>2. /\ turns[t].status # "none" /\ (t \in h[i].evidence => turns[t].status = "completed")
          /\ turns[t].conversation # home[f] => Covered(h, i, turns[t].review, snapshots, f)
      BY <3>1, <1>4 DEF HistoryHolds, Signed
    <3>3. ASSUME Covered(h, i, turns[t].review, snapshots, f)
          PROVE  Covered(n, i, turns[t].review, snapshots, f)
      <4>1. PICK from \in Nat : from = snapshots[turns[t].review].revision[f]
        BY <3>3, <3>1, <1>3 DEF Covered
      <4>2. \A j \in (from + 1)..i : j \in 1..Len(h)  BY <3>1, <1>3
      <4> QED BY <3>3, <4>1, <4>2, <1>3 DEF Covered
    <3> QED BY <3>1, <3>2, <3>3
  <2> QED BY <2>1, <2>2
<1>9. ResolutionRests(n, turns)
  <2>1. ResolutionRests(h, turns)  BY <1>4 DEF HistoryHolds
  <2>2. action = "verify_fixed" =>
          e.evidence # {} /\ \A t \in e.evidence : turns[t].success /\ turns[t].review = e.review
    BY <1>1, <1>5, <1>7
  <2> QED BY <1>1, <1>2, <2>1, <2>2, ResolvedGrows
<1>10. ClosedAfter(n, pinned.baseline[f])
  <2>1. ClosedAfter(h, pinned.baseline[f]) /\ pinned.baseline[f] \in Nat
    BY <1>4, FindingTypes DEF HistoryHolds, Pins
  <2>2. ASSUME pinned.baseline[f] > 0, ~Open(e)
        PROVE  \E i \in 1..Len(n) : i > pinned.baseline[f] /\ n[i].action \in {"reject", "verify_fixed"}
    <3>1. pinned.baseline[f] <= Len(h)  BY <2>1, <2>2 DEF ClosedAfter
    <3>2. CASE action \in {"reject", "verify_fixed"}
      <4>1. Len(n) \in 1..Len(n) /\ Len(n) > pinned.baseline[f] BY <3>1, <2>1, <1>3
      <4> QED BY <4>1, <3>2, <1>1, <1>3
    <3>3. CASE action \notin {"reject", "verify_fixed"}
      <4>1. action \in {"note", "confirm", "reopen", "claim_fixed"}  BY <3>3 DEF Action
      <4>2. ~Open(h[Len(h)])  BY <4>1, <2>2, <1>1 DEF Moved, Open
      <4> QED BY <4>2, <2>1, <2>2, <1>3 DEF ClosedAfter
    <3> QED BY <3>2, <3>3
  <2>3. pinned.baseline[f] > 0 => pinned.baseline[f] <= Len(n)
    BY <2>1, <1>3 DEF ClosedAfter
  <2> QED BY <2>2, <2>3, <1>3 DEF ClosedAfter
<1>11. Len(n) <= MaxRevision
  BY <1>1, <1>3, FindingTypes
<1> QED BY <1>1, <1>2, <1>3, <1>8, <1>9, <1>10, <1>11 DEF HistoryHolds

\* The history of a finding that is raised, by nobody or by a turn of its conversation.
LEMMA HistoryCreated ==
  ASSUME FindingHolds, NEW f \in Finding, NEW place \in Conversation \union {Nowhere},
         NEW subject \in 1..Len(snapshots), NEW by \in SUBSET Turn, Create(f, place, subject, by),
         \A t \in by : turns[t].status # "none" /\ turns[t].conversation = place
  PROVE  \E n \in Seq(Entry) :
           /\ findings' = [findings EXCEPT ![f] = n] /\ home' = [home EXCEPT ![f] = place]
           /\ Len(n) = 1 /\ Len(findings[f]) = 0
           /\ HistoryHolds(n, f, place, turns, snapshots, pinned.baseline[f])
<1>1. PICK validity \in {"hypothesis", "confirmed"} :
        findings' = [findings EXCEPT ![f] = <<[action |-> "create", review |-> subject,
          validity |-> validity, resolution |-> "open", by |-> by, evidence |-> {}]>>]
  BY DEF Create
<1>2. PICK e \in Entry :
        /\ e = [action |-> "create", review |-> subject, validity |-> validity,
                resolution |-> "open", by |-> by, evidence |-> {}]
        /\ e.by = by /\ e.evidence = {} /\ e.resolution = "open"
  <2>1. subject \in Snapshot  BY FindingTypes DEF Snapshot
  <2>2. [action |-> "create", review |-> subject, validity |-> validity,
         resolution |-> "open", by |-> by, evidence |-> {}] \in Entry
    BY <2>1 DEF Entry, Action
  <2> QED BY <2>2
<1>3. PICK n \in Seq(Entry) : n = <<e>> /\ Len(n) = 1 /\ n[1] = e
  <2>1. <<e>> \in Seq(Entry) /\ Len(<<e>>) = 1 /\ <<e>>[1] = e  OBVIOUS
  <2> QED BY <2>1
<1>4. Len(findings[f]) = 0
  <2>1. findings[f] = <<>>  BY DEF Create, Raised
  <2> QED BY <2>1
<1>5. pinned.baseline[f] = 0
  <2>1. pinned.baseline[f] \in Nat  BY FindingTypes DEF Pins
  <2> QED BY <2>1, <1>4 DEF FindingHolds, HistoryHolds, ClosedAfter
<1>6. Signed(n, f, place, turns, snapshots)
  BY <1>2, <1>3 DEF Signed
<1>7. ResolutionRests(n, turns) /\ ClosedAfter(n, pinned.baseline[f])
  BY <1>2, <1>3, <1>5 DEF ResolutionRests, ClosedAfter
<1>8. Len(n) <= MaxRevision  BY <1>3, FindingTypes
<1> QED BY <1>1, <1>2, <1>3, <1>4, <1>6, <1>7, <1>8 DEF HistoryHolds, Create

\* Histories and turns go on; what is published stays as it is.
LEMMA HistoriesGoOn ==
  ASSUME FindingHolds, UNCHANGED <<snapshots, captured, pinned>>,
         findings' \in [Finding -> Seq(Entry)],
         home' \in [Finding -> Conversation \union {Nowhere}],
         \A f \in Finding :
           /\ Len(findings'[f]) >= Len(findings[f])
           /\ HistoryHolds(findings'[f], f, home'[f], turns, snapshots, pinned.baseline[f]),
         turns' \in [Turn -> ReviewTurns], TurnRowsGoOn(turns, turns'),
         \A t \in Turn : turns'[t].status # "none" => turns'[t].review \in 1..Len(snapshots)
  PROVE  FindingHolds'
<1>1. FindingTyped'  BY FindingTypes DEF FindingHolds, FindingTyped
<1>2. TurnsAreBound'  BY DEF TurnsAreBound
<1>3. Declared'
  <2> SUFFICES ASSUME NEW r \in 1..Len(snapshots), NEW f \in Finding, snapshots[r].revision[f] > 0
               PROVE  /\ snapshots[r].published[f] = snapshots[r].revision[f]
                      /\ snapshots[r].revision[f] <= Len(findings'[f])
    BY DEF Declared
  <2>1. snapshots[r].revision[f] \in Nat
    <3>1. snapshots[r] \in Reference  BY FindingTypes
    <3> QED BY <3>1, FindingTypes DEF Reference
  <2>2. Len(findings[f]) \in Nat /\ Len(findings'[f]) \in Nat  BY FindingTypes
  <2> QED BY <2>1, <2>2 DEF FindingHolds, Declared
<1>4. ASSUME NEW f \in Finding
      PROVE  HistoryHolds(findings'[f], f, home'[f], turns', snapshots, pinned.baseline[f])
  <2>1. HistoryHolds(findings'[f], f, home'[f], turns, snapshots, pinned.baseline[f])
    OBVIOUS
  <2>2. \A t \in Turn : turns[t].status # "none" => turns[t].review \in 1..Len(snapshots)
    BY DEF FindingHolds, TurnsAreBound
  <2>3. findings'[f] \in Seq(Entry)  OBVIOUS
  <2>4. \A r \in 1..Len(snapshots) : snapshots[r] = snapshots[r]  OBVIOUS
  <2> QED BY <2>1, <2>2, <2>3, <2>4, FindingTypes, HistoryStays
<1> QED BY <1>1, <1>2, <1>3, <1>4 DEF FindingHolds

\* One history grows, or none.
LEMMA OneHistory ==
  ASSUME FindingHolds, UNCHANGED <<snapshots, captured, pinned>>,
         NEW f \in Finding, NEW n \in Seq(Entry), NEW place \in Conversation \union {Nowhere},
         findings' = [findings EXCEPT ![f] = n], home' = [home EXCEPT ![f] = place],
         Len(n) >= Len(findings[f]),
         HistoryHolds(n, f, place, turns, snapshots, pinned.baseline[f]),
         turns' \in [Turn -> ReviewTurns], TurnRowsGoOn(turns, turns'),
         \A t \in Turn : turns'[t].status # "none" => turns'[t].review \in 1..Len(snapshots)
  PROVE  FindingHolds'
<1>1. findings' \in [Finding -> Seq(Entry)] /\ home' \in [Finding -> Conversation \union {Nowhere}]
  BY FindingTypes
<1>2. ASSUME NEW g \in Finding
      PROVE  /\ Len(findings'[g]) >= Len(findings[g])
             /\ HistoryHolds(findings'[g], g, home'[g], turns, snapshots, pinned.baseline[g])
  <2>1. CASE g = f
    BY <2>1, FindingTypes
  <2>2. CASE g # f
    <3>1. findings'[g] = findings[g] /\ home'[g] = home[g]  BY <2>2, FindingTypes
    <3>2. Len(findings[g]) \in Nat  BY FindingTypes
    <3>3. HistoryHolds(findings[g], g, home[g], turns, snapshots, pinned.baseline[g])
      BY DEF FindingHolds
    <3> QED BY <3>1, <3>2, <3>3
  <2> QED BY <2>1, <2>2
<1> QED BY <1>1, <1>2, HistoriesGoOn

LEMMA TurnsStill ==
  ASSUME FindingHolds, turns' = turns
  PROVE  /\ turns' \in [Turn -> ReviewTurns] /\ TurnRowsGoOn(turns, turns')
         /\ \A t \in Turn : turns'[t].status # "none" => turns'[t].review \in 1..Len(snapshots)
BY FindingTypes DEF TurnRowsGoOn, FindingHolds, TurnsAreBound

LEMMA UpdateKeeps ==
  ASSUME FindingHolds, NEW f \in Finding, NEW action \in Action \ {"create"}, NEW subject,
         NEW by \in SUBSET Turn, NEW evidence \in SUBSET Turn,
         Updatable(f, action, subject, by, evidence),
         findings' = Updated(f, action, subject, by, evidence),
         UNCHANGED <<home, snapshots, captured, pinned>>,
         turns' \in [Turn -> ReviewTurns], TurnRowsGoOn(turns, turns'),
         \A t \in Turn : turns'[t].status # "none" => turns'[t].review \in 1..Len(snapshots)
  PROVE  FindingHolds'
<1>1. PICK n \in Seq(Entry) :
        /\ findings' = [findings EXCEPT ![f] = n]
        /\ Len(n) = Len(findings[f]) + 1 /\ Len(findings[f]) > 0
        /\ HistoryHolds(n, f, home[f], turns, snapshots, pinned.baseline[f])
  BY HistoryUpdated
<1>2. home' = [home EXCEPT ![f] = home[f]] /\ home[f] \in Conversation \union {Nowhere}
  BY FindingTypes
<1>3. Len(findings[f]) \in Nat  BY FindingTypes
<1>4. Len(n) >= Len(findings[f])  BY <1>1, <1>3
<1> QED BY <1>1, <1>2, <1>4, OneHistory

LEMMA FindingCreateKeeps ==
  ASSUME FindingHolds, NEW f \in Finding, NEW place \in Conversation \union {Nowhere},
         NEW subject \in 1..Len(snapshots), NEW by \in SUBSET Turn, Create(f, place, subject, by),
         \A t \in by : turns[t].status # "none" /\ turns[t].conversation = place,
         UNCHANGED <<snapshots, captured, pinned>>,
         turns' \in [Turn -> ReviewTurns], TurnRowsGoOn(turns, turns'),
         \A t \in Turn : turns'[t].status # "none" => turns'[t].review \in 1..Len(snapshots)
  PROVE  FindingHolds'
<1>1. PICK n \in Seq(Entry) :
        /\ findings' = [findings EXCEPT ![f] = n] /\ home' = [home EXCEPT ![f] = place]
        /\ Len(n) = 1 /\ Len(findings[f]) = 0
        /\ HistoryHolds(n, f, place, turns, snapshots, pinned.baseline[f])
  BY HistoryCreated
<1>2. Len(n) >= Len(findings[f]) /\ place \in Conversation \union {Nowhere}  BY <1>1
<1> QED BY <1>1, <1>2, OneHistory

\* The changes of findings, by a client or by the final report of a turn.
LEMMA ChangesKeep ==
  ASSUME FindingHolds, NEW f \in Finding, NEW subject \in DOMAIN snapshots,
         \/ \E c \in Conversation : Raise(f, c, subject)
         \/ \E action \in Action \ {"create"}, evidence \in SUBSET Turn :
              Update(f, action, subject, evidence)
  PROVE  FindingHolds'
<1>1. turns' = turns /\ UNCHANGED <<snapshots, captured, pinned>>  BY DEF Raise, Update
<1>2. CASE \E c \in Conversation : Raise(f, c, subject)
  <2>1. PICK c \in Conversation : Create(f, c, subject, {})  BY <1>2 DEF Raise
  <2>2. subject \in 1..Len(snapshots)  BY FindingTypes
  <2>3. c \in Conversation \union {Nowhere} /\ {} \in SUBSET Turn  OBVIOUS
  <2> QED BY <1>1, <2>1, <2>2, <2>3, TurnsStill, FindingCreateKeeps
<1>3. CASE \E action \in Action \ {"create"}, evidence \in SUBSET Turn :
             Update(f, action, subject, evidence)
  <2>1. PICK action \in Action \ {"create"}, evidence \in SUBSET Turn :
          /\ Updatable(f, action, subject, {}, evidence) /\ home' = home
          /\ findings' = Updated(f, action, subject, {}, evidence)
    BY <1>3 DEF Update
  <2>2. {} \in SUBSET Turn  OBVIOUS
  <2> QED BY <1>1, <2>1, <2>2, TurnsStill, UpdateKeeps
<1> QED BY <1>2, <1>3

LEMMA IngestKeeps == ASSUME FindingHolds, NEW t \in Turn, Ingest(t) PROVE FindingHolds'
<1>1. PICK row \in ReviewTurns : row = [turns[t] EXCEPT !.ingested = TRUE]
  BY FindingTypes DEF ReviewTurns
<1>2. /\ row.conversation = turns[t].conversation /\ row.review = turns[t].review
      /\ row.status = turns[t].status /\ row.success = turns[t].success
  BY <1>1, FindingTypes DEF ReviewTurns
<1>3. turns' = [turns EXCEPT ![t] = row] /\ turns[t].status = "active"
      /\ UNCHANGED <<snapshots, captured, pinned>>
  BY <1>1, FindingTypes DEF Ingest
<1>4. turns' \in [Turn -> ReviewTurns]  BY <1>3, FindingTypes
<1>5. \A u \in Turn : /\ turns'[u].conversation = turns[u].conversation
                      /\ turns'[u].review = turns[u].review /\ turns'[u].status = turns[u].status
                      /\ turns'[u].success = turns[u].success
  BY <1>2, <1>3, FindingTypes
<1>6. TurnRowsGoOn(turns, turns')  BY <1>5 DEF TurnRowsGoOn
<1>7. \A u \in Turn : turns'[u].status # "none" => turns'[u].review \in 1..Len(snapshots)
  BY <1>5 DEF FindingHolds, TurnsAreBound
<1>8. turns[t].review \in 1..Len(snapshots)  BY <1>3 DEF FindingHolds, TurnsAreBound
<1>9. {t} \in SUBSET Turn  OBVIOUS
<1>10. CASE \E f \in Finding : Create(f, turns[t].conversation, turns[t].review, {t})
  <2>1. PICK f \in Finding : Create(f, turns[t].conversation, turns[t].review, {t})  BY <1>10
  <2>2. \A u \in {t} : turns[u].status # "none" /\ turns[u].conversation = turns[t].conversation
    BY <1>3
  <2>3. turns[t].conversation \in Conversation \union {Nowhere}
    BY FindingTypes DEF ReviewTurns
  <2> QED BY <1>3, <1>4, <1>6, <1>7, <1>8, <1>9, <2>1, <2>2, <2>3, FindingCreateKeeps, ZenonT(60)
<1>11. CASE \E f \in Finding, action \in Action \ {"create"}, evidence \in SUBSET Turn :
              /\ Updatable(f, action, turns[t].review, {t}, evidence)
              /\ findings' = Updated(f, action, turns[t].review, {t}, evidence)
              /\ UNCHANGED home
  <2>1. PICK f \in Finding, action \in Action \ {"create"}, evidence \in SUBSET Turn :
          /\ Updatable(f, action, turns[t].review, {t}, evidence)
          /\ findings' = Updated(f, action, turns[t].review, {t}, evidence)
          /\ UNCHANGED home
    BY <1>11
  <2> QED BY <1>3, <1>4, <1>6, <1>7, <1>9, <2>1, UpdateKeeps
<1> QED BY <1>10, <1>11 DEF Ingest

\* A turn starts or ends; no history changes.
LEMMA TurnKeeps ==
  ASSUME FindingHolds, NEW t \in Turn, StartTurn(t) \/ EndTurn(t) PROVE FindingHolds'
<1>1. UNCHANGED <<findings, home, snapshots, captured, pinned>>  BY DEF StartTurn, EndTurn
<1>2. PICK row \in ReviewTurns :
        /\ turns' = [turns EXCEPT ![t] = row]
        /\ row.review \in 1..Len(snapshots)
        /\ turns[t].status # "completed"
        /\ turns[t].status = "none" \/ (/\ row.status # "none"
                                        /\ row.conversation = turns[t].conversation
                                        /\ row.review = turns[t].review)
  <2>1. CASE StartTurn(t)
    <3>1. PICK c \in Conversation, r \in DOMAIN snapshots, inReview \in BOOLEAN :
            turns' = [turns EXCEPT ![t] = [turns[t] EXCEPT !.conversation = c, !.review = r,
                                             !.stage = inReview, !.status = "active"]]
      BY <2>1, FindingTypes DEF StartTurn
    <3>2. r \in 1..Len(snapshots) /\ r \in 0..MaxSnapshots  BY FindingTypes
    <3>3. PICK row \in ReviewTurns :
            row = [turns[t] EXCEPT !.conversation = c, !.review = r, !.stage = inReview,
                                   !.status = "active"]
      BY <3>2, FindingTypes DEF ReviewTurns
    <3>4. row.review = r  BY <3>3, FindingTypes DEF ReviewTurns
    <3>5. turns[t].status = "none"  BY <2>1 DEF StartTurn
    <3> QED BY <3>1, <3>2, <3>3, <3>4, <3>5
  <2>2. CASE EndTurn(t)
    <3>1. PICK status \in {"completed", "failed"}, success \in BOOLEAN :
            turns' = [turns EXCEPT ![t].status = status, ![t].success = success]
      BY <2>2 DEF EndTurn
    <3>2. PICK row \in ReviewTurns : row = [turns[t] EXCEPT !.status = status, !.success = success]
      BY FindingTypes DEF ReviewTurns
    <3>3. row.status = status /\ row.conversation = turns[t].conversation
          /\ row.review = turns[t].review
      BY <3>2, FindingTypes DEF ReviewTurns
    <3>4. turns' = [turns EXCEPT ![t] = row]  BY <3>1, <3>2, FindingTypes
    <3>5. turns[t].status = "active"  BY <2>2 DEF EndTurn
    <3>6. turns[t].review \in 1..Len(snapshots)  BY <3>5 DEF FindingHolds, TurnsAreBound
    <3> QED BY <3>3, <3>4, <3>5, <3>6
  <2> QED BY <2>1, <2>2
<1>3. turns' \in [Turn -> ReviewTurns]  BY <1>2, FindingTypes
<1>4. \A u \in Turn : turns'[u] = IF u = t THEN row ELSE turns[u]  BY <1>2, FindingTypes
<1>5. TurnRowsGoOn(turns, turns')  BY <1>2, <1>4 DEF TurnRowsGoOn
<1>6. \A u \in Turn : turns'[u].status # "none" => turns'[u].review \in 1..Len(snapshots)
  BY <1>2, <1>4 DEF FindingHolds, TurnsAreBound
<1>7. \A f \in Finding :
        /\ Len(findings'[f]) >= Len(findings[f])
        /\ HistoryHolds(findings'[f], f, home'[f], turns, snapshots, pinned.baseline[f])
  <2>1. \A f \in Finding : Len(findings[f]) \in Nat  BY FindingTypes
  <2> QED BY <1>1, <2>1 DEF FindingHolds
<1>8. findings' \in [Finding -> Seq(Entry)] /\ home' \in [Finding -> Conversation \union {Nowhere}]
  BY <1>1, FindingTypes
<1> QED BY <1>1, <1>3, <1>5, <1>6, <1>7, <1>8, HistoriesGoOn

LEMMA RequestKeeps == ASSUME FindingHolds, RequestReview PROVE FindingHolds'
<1>1. UNCHANGED <<findings, home, snapshots, turns, pinned>> /\ Len(snapshots) < MaxSnapshots
  BY DEF RequestReview
<1>2. captured' \in Reference
  <2>1. PICK previous \in DOMAIN snapshots, declared \in SUBSET {f \in Finding : Raised(f)} :
          captured' = [previous |-> previous,
            revision |-> [f \in Finding |-> IF f \in declared THEN Revision(f) ELSE 0],
            published |-> [f \in Finding |-> 0]]
    BY DEF RequestReview
  <2>2. previous \in 0..MaxSnapshots /\ 0 \in 0..MaxRevision  BY FindingTypes
  <2>3. \A f \in Finding : (IF f \in declared THEN Revision(f) ELSE 0) \in 0..MaxRevision
    <3>1. \A f \in Finding : Len(findings[f]) \in Nat /\ Len(findings[f]) <= MaxRevision
      BY FindingTypes DEF FindingHolds, HistoryHolds
    <3> QED BY <3>1, FindingTypes DEF Revision
  <2>4. [f \in Finding |-> IF f \in declared THEN Revision(f) ELSE 0] \in [Finding -> 0..MaxRevision]
    BY <2>3
  <2>5. [f \in Finding |-> 0] \in [Finding -> 0..MaxRevision]  BY <2>2
  <2> QED BY <2>1, <2>2, <2>4, <2>5 DEF Reference
<1> QED BY <1>1, <1>2 DEF FindingHolds, FindingTyped, TurnsAreBound, Declared

LEMMA PublishKeeps == ASSUME FindingHolds, PublishReview PROVE FindingHolds'
<1>1. /\ UNCHANGED <<findings, home, turns, pinned>> /\ captured' = NoReference
      /\ Len(snapshots) < MaxSnapshots
  BY DEF PublishReview, FindingHolds, FindingTyped
<1>2. captured' \in Reference
  <2>1. 0 \in 0..MaxRevision /\ 0 \in 0..MaxSnapshots  BY FindingTypes
  <2> QED BY <1>1, <2>1 DEF NoReference, Reference
<1>3. CASE ~PublishableReference(captured)
  <2>1. snapshots' = snapshots  BY <1>3 DEF PublishReview
  <2> QED BY <1>1, <1>2, <2>1 DEF FindingHolds, FindingTyped, TurnsAreBound, Declared
<1>4. CASE PublishableReference(captured)
  <2>1. \A f \in Finding : Len(findings[f]) \in 0..MaxRevision
    <3>1. \A f \in Finding : Len(findings[f]) \in Nat /\ Len(findings[f]) <= MaxRevision
      BY FindingTypes DEF FindingHolds, HistoryHolds
    <3> QED BY <3>1, FindingTypes
  <2>2. PICK last \in Reference :
          /\ last = [captured EXCEPT !.published = [f \in Finding |-> Revision(f)]]
          /\ last.revision = captured.revision /\ \A f \in Finding : last.published[f] = Len(findings[f])
    <3>1. PICK now \in [Finding -> 0..MaxRevision] :
            now = [f \in Finding |-> Revision(f)] /\ \A f \in Finding : now[f] = Len(findings[f])
      <4>1. [f \in Finding |-> Revision(f)] \in [Finding -> 0..MaxRevision]
        BY <2>1 DEF Revision
      <4>2. \A f \in Finding : [g \in Finding |-> Revision(g)][f] = Len(findings[f])
        BY DEF Revision
      <4> QED BY <4>1, <4>2
    <3>2. PICK last \in Reference : last = [captured EXCEPT !.published = now]
      BY FindingTypes DEF Reference
    <3>3. last.revision = captured.revision /\ last.published = now
      BY <3>2, FindingTypes DEF Reference
    <3> QED BY <3>1, <3>2, <3>3
  <2>3. snapshots' = Append(snapshots, last)  BY <1>4, <2>2 DEF PublishReview
  <2>4. /\ snapshots' \in Seq(Reference) /\ Len(snapshots') = Len(snapshots) + 1
        /\ \A r \in 1..Len(snapshots) : snapshots'[r] = snapshots[r]
        /\ snapshots'[Len(snapshots) + 1] = last /\ Len(snapshots) \in Nat
    BY <2>3, FindingTypes
  <2>5. Len(snapshots') \in 1..MaxSnapshots  BY <1>1, <2>4, FindingTypes
  <2>6. \A f \in Finding : last.revision[f] > 0 => last.revision[f] = Len(findings[f])
    BY <1>4, <2>2 DEF PublishableReference, Declarable, Revision
  <2>7. Declared'
    <3> SUFFICES ASSUME NEW r \in 1..Len(snapshots'), NEW f \in Finding,
                        snapshots'[r].revision[f] > 0
                 PROVE  /\ snapshots'[r].published[f] = snapshots'[r].revision[f]
                        /\ snapshots'[r].revision[f] <= Len(findings[f])
      BY <1>1 DEF Declared
    <3>1. CASE r \in 1..Len(snapshots)
      BY <3>1, <2>4 DEF FindingHolds, Declared
    <3>2. CASE r = Len(snapshots) + 1
      BY <3>2, <2>1, <2>2, <2>4, <2>6
    <3> QED BY <2>4, <3>1, <3>2
  <2>8. TurnsAreBound'
    <3>1. 1..Len(snapshots) \subseteq 1..Len(snapshots')  BY <2>4
    <3> QED BY <1>1, <3>1 DEF FindingHolds, TurnsAreBound
  <2>9. ASSUME NEW f \in Finding
        PROVE  HistoryHolds(findings[f], f, home[f], turns, snapshots', pinned.baseline[f])
    <3>1. HistoryHolds(findings[f], f, home[f], turns, snapshots, pinned.baseline[f])
      BY DEF FindingHolds
    <3>2. \A t \in Turn : turns[t].status # "none" => turns[t].review \in 1..Len(snapshots)
      BY DEF FindingHolds, TurnsAreBound
    <3>3. TurnRowsGoOn(turns, turns)  BY DEF TurnRowsGoOn
    <3>4. findings[f] \in Seq(Entry)  BY FindingTypes
    <3> QED BY <2>4, <3>1, <3>2, <3>3, <3>4, FindingTypes, HistoryStays
  <2>10. FindingTyped'
    BY <1>1, <1>2, <2>4, <2>5 DEF FindingHolds, FindingTyped
  <2> QED BY <1>1, <2>7, <2>8, <2>9, <2>10 DEF FindingHolds
<1> QED BY <1>3, <1>4

\* What is pinned is open.
LEMMA PinKept == ASSUME FindingHolds, Pin PROVE FindingHolds'
<1>1. UNCHANGED <<findings, home, snapshots, captured, turns>>  BY DEF Pin
<1>2. PICK subject \in DOMAIN snapshots, members \in SUBSET {f \in Finding : Raised(f) /\ Open(LastEntry(f))} :
        pinned' = [review |-> subject,
          baseline |-> [f \in Finding |-> IF f \in members THEN Revision(f) ELSE 0]]
  BY DEF Pin
<1>3. \A f \in Finding : Len(findings[f]) \in 0..MaxRevision
  <2>1. \A f \in Finding : Len(findings[f]) \in Nat /\ Len(findings[f]) <= MaxRevision
    BY FindingTypes DEF FindingHolds, HistoryHolds
  <2> QED BY <2>1, FindingTypes
<1>4. PICK baseline \in [Finding -> 0..MaxRevision] :
        /\ baseline = [f \in Finding |-> IF f \in members THEN Revision(f) ELSE 0]
        /\ \A f \in Finding : baseline[f] = (IF f \in members THEN Len(findings[f]) ELSE 0)
  <2>1. \A f \in Finding : (IF f \in members THEN Revision(f) ELSE 0) \in 0..MaxRevision
    BY <1>3, FindingTypes DEF Revision
  <2>2. [f \in Finding |-> IF f \in members THEN Revision(f) ELSE 0] \in [Finding -> 0..MaxRevision]
    BY <2>1
  <2>3. \A f \in Finding : [g \in Finding |-> IF g \in members THEN Revision(g) ELSE 0][f]
                           = IF f \in members THEN Len(findings[f]) ELSE 0
    BY DEF Revision
  <2> QED BY <2>2, <2>3
<1>5. pinned' = [review |-> subject, baseline |-> baseline]  BY <1>2, <1>4
<1>6. pinned' \in Pins
  <2>1. subject \in 0..MaxSnapshots  BY FindingTypes
  <2> QED BY <1>5, <2>1 DEF Pins
<1>7. ASSUME NEW f \in Finding PROVE ClosedAfter(findings[f], pinned'.baseline[f])
  <2>1. pinned'.baseline[f] = IF f \in members THEN Len(findings[f]) ELSE 0  BY <1>4, <1>5
  <2>2. CASE f \in members
    <3>1. Open(findings[f][Len(findings[f])])  BY <2>2, <1>2 DEF LastEntry, Last
    <3>2. Len(findings[f]) \in Nat  BY <1>3, FindingTypes
    <3> QED BY <2>1, <2>2, <3>1, <3>2 DEF ClosedAfter
  <2>3. CASE f \notin members
    BY <2>1, <2>3 DEF ClosedAfter
  <2> QED BY <2>2, <2>3
<1>8. ASSUME NEW f \in Finding
      PROVE  HistoryHolds(findings[f], f, home[f], turns, snapshots, pinned'.baseline[f])
  BY <1>7 DEF FindingHolds, HistoryHolds
<1> QED BY <1>1, <1>6, <1>8 DEF FindingHolds, FindingTyped, TurnsAreBound, Declared

LEMMA FindingStart == FindingInit => FindingHolds
<1> SUFFICES ASSUME FindingInit PROVE FindingHolds
  OBVIOUS
<1>1. 0 \in 0..MaxSnapshots /\ 0 \in 0..MaxRevision /\ MaxSnapshots \in Nat \ {0}
      /\ MaxRevision \in Nat \ {0}
  BY FindingBounds
<1>2. NoReference \in Reference
  <2>1. [f \in Finding |-> 0] \in [Finding -> 0..MaxRevision]  BY <1>1
  <2> QED BY <1>1, <2>1 DEF NoReference, Reference
<1>3. findings = [f \in Finding |-> <<>>] /\ <<>> \in Seq(Entry)  BY DEF FindingInit
<1>4. snapshots = <<NoReference>> /\ captured = NoReference  BY DEF FindingInit
<1>5. snapshots \in Seq(Reference) /\ Len(snapshots) = 1 /\ snapshots[1] = NoReference
  BY <1>2, <1>4
<1>6. turns \in [Turn -> ReviewTurns] /\ \A t \in Turn : turns[t].status = "none"
  BY <1>1 DEF FindingInit, ReviewTurns
<1>7. pinned \in Pins /\ \A f \in Finding : pinned.baseline[f] = 0
  BY <1>1 DEF FindingInit, Pins
<1>8. FindingTyped
  <2>1. findings \in [Finding -> Seq(Entry)]  BY <1>3
  <2>2. home \in [Finding -> Conversation \union {Nowhere}]  BY DEF FindingInit
  <2>3. Len(snapshots) \in 1..MaxSnapshots  BY <1>1, <1>5
  <2> QED BY <1>2, <1>4, <1>5, <1>6, <1>7, <2>1, <2>2, <2>3 DEF FindingTyped
<1>9. TurnsAreBound  BY <1>6 DEF TurnsAreBound
<1>10. Declared
  <2>1. \A f \in Finding : NoReference.revision[f] = 0  BY DEF NoReference
  <2>2. \A r \in 1..Len(snapshots) : snapshots[r] = NoReference  BY <1>5
  <2> QED BY <2>1, <2>2 DEF Declared
<1>11. ASSUME NEW f \in Finding
       PROVE  HistoryHolds(findings[f], f, home[f], turns, snapshots, pinned.baseline[f])
  <2>1. findings[f] = <<>> /\ Len(findings[f]) = 0  BY <1>3
  <2>2. Signed(findings[f], f, home[f], turns, snapshots)  BY <2>1 DEF Signed
  <2>3. ResolutionRests(findings[f], turns)  BY <2>1 DEF ResolutionRests
  <2>4. ClosedAfter(findings[f], pinned.baseline[f])  BY <1>7 DEF ClosedAfter
  <2> QED BY <1>1, <2>1, <2>2, <2>3, <2>4 DEF HistoryHolds
<1> QED BY <1>8, <1>9, <1>10, <1>11 DEF FindingHolds

LEMMA FindingSteps == ASSUME FindingHolds, [FindingNext]_findingVars PROVE FindingHolds'
<1>1. CASE UNCHANGED findingVars
  BY <1>1 DEF findingVars, FindingHolds, FindingTyped, TurnsAreBound, Declared
<1>2. CASE RequestReview \/ PublishReview \/ Pin
  BY <1>2, RequestKeeps, PublishKeeps, PinKept
<1>3. CASE \E t \in Turn : StartTurn(t) \/ EndTurn(t) \/ Ingest(t)
  BY <1>3, TurnKeeps, IngestKeeps
<1>4. CASE \E f \in Finding, subject \in DOMAIN snapshots :
             \/ \E c \in Conversation : Raise(f, c, subject)
             \/ \E action \in Action \ {"create"}, evidence \in SUBSET Turn :
                  Update(f, action, subject, evidence)
  BY <1>4, ChangesKeep
<1> QED BY <1>1, <1>2, <1>3, <1>4 DEF FindingNext

\* The last verification of a history is the one VerifiedOn finds.
LEMMA LastVerification ==
  ASSUME NEW f \in Finding, findings[f] \in Seq(Entry), NEW j \in 1..Len(findings[f]),
         findings[f][j].action = "verify_fixed",
         \A k \in (j + 1)..Len(findings[f]) : findings[f][k].action # "verify_fixed"
  PROVE  VerifiedOn(f) = findings[f][j].review
<1>1. DOMAIN findings[f] = 1..Len(findings[f]) /\ Len(findings[f]) \in Nat  OBVIOUS
<1>2. j \in Verifications(f)  BY <1>1 DEF Verifications
<1>3. \A k \in Verifications(f) : k \in 1..Len(findings[f]) /\ k <= j
  <2> SUFFICES ASSUME NEW k \in Verifications(f) PROVE k \in 1..Len(findings[f]) /\ k <= j
    OBVIOUS
  <2>1. k \in 1..Len(findings[f]) /\ findings[f][k].action = "verify_fixed"
    BY <1>1 DEF Verifications
  <2>2. k \notin (j + 1)..Len(findings[f])  BY <2>1
  <2> QED BY <1>1, <2>1, <2>2
<1>4. \A i \in Verifications(f) : (\A k \in Verifications(f) : k <= i) => i = j
  <2> SUFFICES ASSUME NEW i \in Verifications(f), \A k \in Verifications(f) : k <= i PROVE i = j
    OBVIOUS
  <2>1. j <= i /\ i <= j /\ i \in 1..Len(findings[f])  BY <1>2, <1>3
  <2> QED BY <1>1, <2>1
<1>5. (CHOOSE i \in Verifications(f) : \A k \in Verifications(f) : k <= i) = j
  BY <1>2, <1>3, <1>4
<1> QED BY <1>5 DEF VerifiedOn

LEMMA FindingsEarn == FindingHolds => FindingsAreEarned
<1> SUFFICES ASSUME FindingHolds PROVE FindingsAreEarned
  OBVIOUS
<1>1. \A f \in Finding : /\ findings[f] \in Seq(Entry) /\ DOMAIN findings[f] = 1..Len(findings[f])
                         /\ Len(findings[f]) \in Nat
  BY FindingTypes
<1>2. DOMAIN snapshots = 1..Len(snapshots)  BY FindingTypes
<1>3. FindingTypeOK
  <2>1. \A f \in Finding : Len(findings[f]) <= MaxRevision /\ \A i \in DOMAIN findings[f] : findings[f][i] \in Entry
    BY <1>1 DEF FindingHolds, HistoryHolds
  <2>2. Len(snapshots) <= MaxSnapshots /\ \A r \in DOMAIN snapshots : snapshots[r] \in Reference
    BY FindingTypes
  <2> QED BY <2>1, <2>2, FindingTypes DEF FindingTypeOK, ReviewTurns, Pins
<1>4. \A r \in DOMAIN snapshots, f \in Finding :
        snapshots[r].revision[f] > 0 => snapshots[r].published[f] = snapshots[r].revision[f]
  BY <1>2 DEF FindingHolds, Declared
<1>5. \A f \in Finding : \A i \in DOMAIN findings[f], t \in Turn :
        t \in findings[f][i].by \union findings[f][i].evidence /\ turns[t].conversation # home[f] =>
          LET reference == snapshots[turns[t].review] IN
          /\ reference.revision[f] \in 1..(i - 1)
          /\ \A j \in (reference.revision[f] + 1)..i : findings[f][j].review = turns[t].review
  BY <1>1 DEF FindingHolds, HistoryHolds, Signed, Covered
<1>6. ASSUME NEW f \in Finding, Raised(f), LastEntry(f).resolution = "verified_fixed"
      PROVE  \E i, j \in DOMAIN findings[f] :
               /\ i < j /\ findings[f][i].action = "claim_fixed" /\ findings[f][j].action = "verify_fixed"
               /\ \A k \in i..Revision(f) : findings[f][k].action \notin {"reject", "reopen"}
               /\ \A t \in findings[f][j].evidence : turns[t].success /\ turns[t].review = VerifiedOn(f)
               /\ findings[f][j].evidence # {}
  <2>1. Len(findings[f]) > 0  BY <1>1, <1>6 DEF Raised
  <2>2. Verified(findings[f], turns)
    BY <1>6, <2>1 DEF FindingHolds, HistoryHolds, ResolutionRests, LastEntry, Last
  <2>3. PICK i, j \in 1..Len(findings[f]) :
          /\ i < j /\ findings[f][i].action = "claim_fixed" /\ findings[f][j].action = "verify_fixed"
          /\ Unbroken(findings[f], i)
          /\ \A k \in (j + 1)..Len(findings[f]) : findings[f][k].action # "verify_fixed"
          /\ findings[f][j].evidence # {}
          /\ \A t \in findings[f][j].evidence : turns[t].success /\ turns[t].review = findings[f][j].review
    BY <2>2 DEF Verified
  <2>4. VerifiedOn(f) = findings[f][j].review  BY <1>1, <2>3, LastVerification
  <2>5. \A k \in i..Revision(f) : findings[f][k].action \notin {"reject", "reopen"}
    BY <2>3 DEF Unbroken, Revision
  <2> QED BY <1>1, <2>3, <2>4, <2>5
<1>7. ASSUME NEW target \in DOMAIN snapshots, IsSettled(target), NEW f \in Finding,
             pinned.baseline[f] > 0
      PROVE  \E i \in DOMAIN findings[f] : /\ i > pinned.baseline[f]
                                           /\ findings[f][i].action \in {"reject", "verify_fixed"}
  <2>1. ~Open(LastEntry(f))  BY <1>7 DEF IsSettled, Open
  <2>2. ~Open(findings[f][Len(findings[f])])  BY <2>1 DEF LastEntry, Last
  <2> QED BY <1>1, <1>7, <2>2 DEF FindingHolds, HistoryHolds, ClosedAfter
<1> QED BY <1>3, <1>4, <1>5, <1>6, <1>7 DEF FindingsAreEarned

\* Who changed a finding could, a verified finding was confirmed, claimed and verified
\* in this order, and what settles a pinned set came after the pin: findings, for every
\* number of findings, conversations and turns.
THEOREM FindingsEarned == FindingSpec => []FindingsAreEarned
<1> QED BY FindingStart, FindingSteps, FindingsEarn, PTL DEF FindingSpec
=============================================================================
