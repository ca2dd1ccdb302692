------------------------------- MODULE MCEnds -------------------------------
(* What must end, on small instances for TLC: a team run of two steps in a    *)
(* chain, two native turns of one conversation that edits nothing, and a      *)
(* review run.  They share no state here; a behaviour is one of one of them.  *)
EXTENDS TeamRuns

VARIABLES
  part,
  turn, question, independent, thread, asking, process, lease, slots, crashes,
  review, stage, reviewing, admitted, child, lock, memory, host, loop, faults

Chain == {"first", "last"}
ChainDepends == [s \in Chain |-> IF s = "last" THEN {"first"} ELSE {}]
Strict == [s \in Chain |-> "success"]

Tasks == INSTANCE NativeTasks WITH
  Conversation <- {1}, WorkMode <- {}, Independent <- {}, Claiming <- {},
  Owned <- [c \in {1} |-> {}], SlotLimit <- 1, MaxTasks <- 2, MaxQuestions <- 1, MaxCrashes <- 1, task <- turn

Review == INSTANCE ReviewRuns WITH
  MaxFaults <- 1, run <- review, task <- reviewing, launches <- admitted, server <- host,
  driver <- loop

tasksVars == <<turn, question, independent, thread, asking, process, lease, slots, crashes>>
reviewVars == <<review, stage, reviewing, admitted, child, lock, memory, host, loop, faults>>
endsVars == <<part, vars, tasksVars, reviewVars>>

OfTeam(A) == part = "team" /\ A /\ UNCHANGED <<part, tasksVars, reviewVars>>
OfTasks(A) == part = "tasks" /\ A /\ UNCHANGED <<part, vars, reviewVars>>
OfReview(A) == part = "review" /\ A /\ UNCHANGED <<part, vars, tasksVars>>

EndsInit == part \in {"team", "tasks", "review"} /\ Init /\ Tasks!Init /\ Review!Init
EndsNext == OfTeam(Next) \/ OfTasks(Tasks!Next) \/ OfReview(Review!Next)

\* The fairness of the three modules.  Since part never changes, fairness of a disjunction
\* of steps of different parts is fairness of each.
EndsFairness ==
  LET t1 == CHOOSE t \in Tasks!Task : \A u \in Tasks!Task : t <= u
      t2 == CHOOSE t \in Tasks!Task : t # t1
  IN /\ SF_endsVars(OfTeam(\E s \in Step : FlushStep(s)) \/ OfReview(Review!Resolved))
     /\ WF_endsVars(OfTeam(Controller \/ Holder \/ Admission) \/ OfTasks(Tasks!Threads(t1))
                    \/ OfReview(Review!OtherUnlocks))
     /\ WF_endsVars(OfTeam(CloseStop \/ Closed) \/ OfTasks(Tasks!Threads(t2))
                    \/ OfReview(Review!Closed))
     /\ WF_endsVars(OfTeam(Elapse) \/ OfTasks(Tasks!EndTurn(t1)) \/ OfReview(Review!Elapse))
     /\ WF_endsVars(OfTeam(Recover) \/ OfTasks(Tasks!EndTurn(t2))
                    \/ OfReview(Review!RecoverOwn))
     /\ WF_endsVars(OfTeam(\E s \in Step : End(s)) \/ OfTasks(Tasks!Recover(t1))
                    \/ OfReview(Review!End("independent")))
     /\ WF_endsVars(OfTeam(\E s \in Step : RecoverTask(s)) \/ OfTasks(Tasks!Recover(t2))
                    \/ OfReview(Review!End("comparison")))

EndsSpec == EndsInit /\ [][EndsNext]_endsVars /\ EndsFairness

\* Every native task ends, although its process may not and nobody may answer its
\* question (task_store, native_worker, task_interaction; see NativeTasks).
EveryTaskEnds == Tasks!EveryTaskEnds

\* Every review run ends, whatever becomes of its server (review_runs; see ReviewRuns).
ReviewEnds == Review!ReviewEnds
=============================================================================
