---------------------------- MODULE MCWorkItems ----------------------------
(* Instances of WorkItems for TLC.                                         *)
EXTENDS WorkItems

\* An investigation followed by the final step, and the final step alone.
SerialPlan == [s \in {"draft", "final"} |-> IF s = "final" THEN {"draft"} ELSE {}]
FinalPlan == [s \in {"final"} |-> {}]
SerialPlans == {SerialPlan, FinalPlan}
SerialOwner == [s \in {"draft", "final"} |-> IF s = "draft" THEN "claude" ELSE "omp"]
SerialReviewer == [s \in {"draft", "final"} |-> IF s = "draft" THEN "omp" ELSE "claude"]
SerialSteps == {"draft", "final"}

\* The bound of the manual run: a third attempt only when the final step alone is,
\* has been from the first, and has been proposed to be, the plan.
ThirdIsFinal ==
  \/ Cardinality({a \in AttemptIds : attempts[a].state # "none"}) <= 2
  \/ card.plan = FinalPlan /\ card.proposal.plan = FinalPlan /\ card.planRevision = 1

\* The steps of a card no operator authorizes: without a grant nothing is
\* reserved, so no grant elapses and no new owner has a reservation to recover.
ManualNext ==
  \/ Negotiation \/ Revoke
  \/ \E a \in AttemptIds, s \in Step, actor \in Principals : Claim(a, s, actor)
  \/ Working \/ Expire
  \/ \E a \in AttemptIds : ClaimElapses(a) \/ ConfirmStopped(a)
  \/ Disposing

ManualSpec == Init /\ [][ManualNext]_vars

\* Two parallel steps and the final step that combines them.
ParallelSteps == {"left", "right", "final"}
ParallelPlan ==
  [s \in ParallelSteps |-> IF s = "final" THEN {"left", "right"} ELSE {}]
ParallelPlans == {ParallelPlan}
ParallelOwner == [s \in ParallelSteps |-> IF s = "right" THEN "omp" ELSE "claude"]
ParallelReviewer == [s \in ParallelSteps |-> IF s = "right" THEN "claude" ELSE "omp"]
=============================================================================
