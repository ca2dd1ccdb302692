----------------------------- MODULE MCReviews ------------------------------
(***************************************************************************)
(* The components of a review, checked side by side: its run, the capture  *)
(* of its input, its checks, its findings and the outbox that tells of its *)
(* end.  They share no state in the model: a behaviour is one of one of    *)
(* them, chosen in its initial state.                                      *)
(***************************************************************************)
EXTENDS ReviewRuns, ReviewCapture, ReviewChecks, ReviewFindings, EventOutbox

VARIABLE part   \* the component that runs

ReviewsInit ==
  /\ part \in {"run", "capture", "checks", "findings", "outbox"}
  /\ Init /\ ChecksInit /\ FindingInit /\ OutboxInit
  /\ CaptureInit /\ (part # "capture" => capture = [Fresh(1) EXCEPT !.source = "worktree",
                                                      !.named = {}, !.context = {}])

ReviewsNext ==
  /\ UNCHANGED part
  /\ part = "run" => Next
  /\ part = "capture" => CaptureNext
  /\ part = "checks" => ChecksNext
  /\ part = "findings" => FindingNext
  /\ part = "outbox" => OutboxNext
  /\ part # "run" => UNCHANGED vars
  /\ part # "capture" => UNCHANGED captureVars
  /\ part # "checks" => UNCHANGED checksVars
  /\ part # "findings" => UNCHANGED findingVars
  /\ part # "outbox" => UNCHANGED outboxVars

reviewsVars == <<part, vars, captureVars, checksVars, findingVars, outboxVars>>

ReviewsSpec == ReviewsInit /\ [][ReviewsNext]_reviewsVars
=============================================================================
