---------------------------- MODULE ReviewChecks ----------------------------
(***************************************************************************)
(* The checks a supervisor runs for a review attempt (review_checks,       *)
(* review_check_state, review_containers): one verifier thread reserves a  *)
(* row, creates, starts, watches and removes a container and records what  *)
(* it saw, check after check, while the reviewing model reports, compares  *)
(* and decides, the operator fences or pauses, the deadline passes, and    *)
(* Docker loses requests and answers.                                      *)
(*                                                                         *)
(* A reading of the context and the transaction that repeats it are one    *)
(* step.  Policies, images and output frames are data: a change of any of  *)
(* them is a preparation or a creation that fails.                         *)
(***************************************************************************)
EXTENDS Integers

CONSTANT Check   \* the checks the plan declares for the review

VARIABLES
  ledger,     \* the row of each check (work_review_checks)
  review,     \* the review attempt and its card
  verifier,   \* the verifier thread of the supervisor
  docker,     \* the container of each check, as it is
  witness     \* history: starts, exit code and kept input of each check

checksVars == <<ledger, review, verifier, docker, witness>>

-----------------------------------------------------------------------------
NoCheck == "no check"
NoRow == [state |-> "none", result |-> "none", gone |-> FALSE, unchanged |-> FALSE]
Results == {"none", "passed", "failed", "interrupted", "not_run"}
Present == {"asked", "created", "running", "exited"}

ChecksTypeOK ==
  /\ ledger \in [Check -> [state : {"none", "reserved", "running", "finished"},
                           result : Results, gone : BOOLEAN, unchanged : BOOLEAN]]
  /\ review \in [state : {"running", "succeeded", "recovery"}, report : {"none", "success", "partial"},
                 compared : BOOLEAN, verdict : {"none", "accept", "reject"},
                 blocked : BOOLEAN, paused : BOOLEAN, late : BOOLEAN, ended : BOOLEAN,
                 confirmed : BOOLEAN]
  /\ verifier \in [at : {"none", "next", "prepare", "create", "start", "record", "watch",
                         "remove", "settle", "done", "dead"},
                   check : Check \union {NoCheck}, todo : SUBSET Check, stop : BOOLEAN,
                   gone : BOOLEAN, asked : BOOLEAN, known : BOOLEAN, started : BOOLEAN,
                   interrupted : BOOLEAN, code : {"none", "zero", "other"}, result : {"none",
                   "running", "uncertain", "not_run", "passed", "failed"}]
  /\ docker \in [Check -> Present \union {"none", "removed"}]
  /\ witness \in [Check -> [starts : 0..2, code : {"none", "zero", "other"}, dirty : BOOLEAN]]

ChecksInit ==
  /\ ledger = [c \in Check |-> NoRow]
  /\ review = [state |-> "running", report |-> "none", compared |-> FALSE, verdict |-> "none",
               blocked |-> FALSE, paused |-> FALSE, late |-> FALSE, ended |-> FALSE,
               confirmed |-> FALSE]
  /\ verifier = [at |-> "none", check |-> NoCheck, todo |-> Check, stop |-> FALSE, gone |-> TRUE,
                 asked |-> FALSE, known |-> FALSE, started |-> FALSE, interrupted |-> FALSE,
                 code |-> "none", result |-> "none"]
  /\ docker = [c \in Check |-> "none"]
  /\ witness = [c \in Check |-> [starts |-> 0, code |-> "none", dirty |-> FALSE]]

-----------------------------------------------------------------------------
(* What the store decides from the rows.                                   *)

\* ReviewCheckState._review_check_context: whether checks may (still) run.
Eligible ==
  /\ review.state = "running" /\ ~review.late /\ ~review.paused
  /\ ~review.blocked /\ review.verdict = "none" /\ review.report = "success"
  /\ \A c \in Check : ledger[c].state = "finished" => ledger[c].gone /\ ledger[c].unchanged

Reserved == {c \in Check : ledger[c].state # "none"}
Uncertain(row) ==
  \/ row.state = "reserved" \/ ~row.gone \/ ~row.unchanged
  \/ row.result \in {"interrupted", "not_run"}

AllReserved == Reserved = Check

\* ReviewCheckState._review_assessment.
CheckAssessment ==
  IF \E c \in Reserved : ledger[c].state = "running" THEN "running"
  ELSE IF \E c \in Reserved : Uncertain(ledger[c]) THEN "uncertain"
  ELSE IF ~AllReserved THEN "not_run"
  ELSE IF \A c \in Reserved : ledger[c].result = "passed" THEN "passed" ELSE "failed"
Settled == CheckAssessment \in {"passed", "failed"}

\* ReviewCheckState.require_finalization, when the attempt's success is recorded.
Finalizable ==
  IF review.verdict = "accept" THEN CheckAssessment = "passed" /\ review.compared
  ELSE \A c \in Check : ledger[c].state \in {"none", "finished"}
                        /\ (ledger[c].state = "finished" => ledger[c].gone)

-----------------------------------------------------------------------------
(* The reviewing model, the operator and time.                             *)

\* The token is accepted: the attempt is current, and its process still runs.
Authentic == review.state = "running" /\ ~review.late /\ ~review.paused /\ ~review.ended
Reviewing == UNCHANGED <<ledger, verifier, docker, witness>>

Report ==
  /\ Authentic /\ review.report = "none"
  /\ \E outcome \in {"success", "partial"} : review' = [review EXCEPT !.report = outcome]
  /\ Reviewing

\* WorkStore.transition(compare): opened once, on settled checks.
CompareChecks ==
  /\ Authentic /\ review.report = "success" /\ ~review.compared /\ Settled
  /\ review' = [review EXCEPT !.compared = TRUE]
  /\ Reviewing

Accept ==
  /\ Authentic /\ review.report = "success" /\ review.verdict = "none"
  /\ CheckAssessment = "passed" /\ review.compared
  /\ review' = [review EXCEPT !.verdict = "accept"]
  /\ Reviewing

Reject ==
  /\ Authentic /\ review.report # "none" /\ review.verdict = "none"
  /\ review' = [review EXCEPT !.verdict = "reject"]
  /\ Reviewing

BlockReview ==
  /\ Authentic /\ ~review.blocked
  /\ review' = [review EXCEPT !.blocked = TRUE]
  /\ Reviewing

ModelEnds ==
  /\ ~review.ended
  /\ review' = [review EXCEPT !.ended = TRUE]
  /\ Reviewing

\* A revoked grant, a cancelled card, a new plan or a recovered owner fences the
\* attempt; the unknown cost of another attempt merely pauses its card.
FenceReview ==
  /\ review.state = "running"
  /\ review' = [review EXCEPT !.state = "recovery"]
  /\ Reviewing
PauseReview == review' = [review EXCEPT !.paused = ~@] /\ Reviewing
ReviewExpires == ~review.late /\ review' = [review EXCEPT !.late = TRUE] /\ Reviewing

-----------------------------------------------------------------------------
(* Docker and the commands in the containers.                              *)

\* A creation whose answer was lost may still be carried out.
ArriveLate(c) ==
  /\ docker[c] = "asked"
  /\ docker' = [docker EXCEPT ![c] = "created"]
  /\ UNCHANGED <<ledger, review, verifier, witness>>

\* The command ends; it may have written to the work tree it checks.
Exit(c) ==
  /\ docker[c] = "running"
  /\ docker' = [docker EXCEPT ![c] = "exited"]
  /\ \E code \in {"zero", "other"}, dirty \in BOOLEAN :
       witness' = [witness EXCEPT ![c].code = code, ![c].dirty = dirty]
  /\ UNCHANGED <<ledger, review, verifier>>

-----------------------------------------------------------------------------
(* The verifier thread (ReviewChecks._run and _execute).                   *)

c0 == verifier.check
VerifierAt(step) == verifier.at = step /\ UNCHANGED review
MayRun == Eligible /\ ~verifier.stop
GiveUp == [verifier EXCEPT !.at = "done", !.result = "uncertain"]
ToRemove == [verifier EXCEPT !.at = "remove", !.interrupted = TRUE]

\* A row of a check whose container was never asked for.
Unstarted(result) ==
  ledger' = [ledger EXCEPT ![c0] = [state |-> "finished", result |-> result,
                                    gone |-> TRUE, unchanged |-> FALSE]]

\* One row per check, and none while another is unfinished; any row of this
\* check would be an earlier execution, and is never run again.
ReserveCheck(c) ==
  /\ VerifierAt("next") /\ c \in verifier.todo
  /\ IF /\ MayRun /\ ledger[c].state = "none"
        /\ \A d \in Check : ledger[d].state \in {"none", "finished"}
     THEN /\ ledger' = [ledger EXCEPT ![c].state = "reserved"]
          /\ verifier' = [verifier EXCEPT !.at = "prepare", !.check = c, !.todo = @ \ {c},
                            !.asked = FALSE, !.known = FALSE, !.started = FALSE,
                            !.interrupted = FALSE, !.code = "none"]
     ELSE ledger' = ledger /\ verifier' = GiveUp
  /\ UNCHANGED <<docker, witness>>

\* The environment and a standalone copy of the submission; either may fail.
PrepareCheck ==
  /\ VerifierAt("prepare")
  /\ \/ /\ MayRun /\ ledger' = ledger
        /\ verifier' = [verifier EXCEPT !.at = "create"]
     \/ \E result \in {"not_run", "interrupted"} : Unstarted(result) /\ verifier' = GiveUp
  /\ UNCHANGED <<docker, witness>>

\* ReviewContainer.create: acknowledged, refused before it was asked for, created
\* without the configuration that was asked, or not answered.
CreateContainer ==
  /\ VerifierAt("create")
  /\ \/ /\ ~MayRun /\ Unstarted("interrupted") /\ verifier' = GiveUp /\ docker' = docker
     \/ /\ MayRun /\ ledger' = ledger
        /\ LET asked == [verifier EXCEPT !.gone = FALSE, !.asked = TRUE] IN
           \/ /\ docker' = [docker EXCEPT ![c0] = "created"]
              /\ verifier' \in {[asked EXCEPT !.at = "start", !.known = TRUE],
                                [asked EXCEPT !.at = "remove", !.known = TRUE, !.interrupted = TRUE],
                                [asked EXCEPT !.at = "remove", !.interrupted = TRUE]}
           \/ /\ docker' = [docker EXCEPT ![c0] = "asked"]
              /\ verifier' = [asked EXCEPT !.at = "remove", !.interrupted = TRUE]
           \/ /\ docker' = docker
              /\ verifier' = [ToRemove EXCEPT !.gone = FALSE]
  /\ UNCHANGED witness

\* Once, whatever the answer: a request without an answer is not repeated.
StartContainer ==
  /\ VerifierAt("start")
  /\ \/ ~MayRun /\ verifier' = ToRemove /\ UNCHANGED <<docker, witness>>
     \/ /\ MayRun
        /\ docker' = [docker EXCEPT ![c0] = "running"]
        /\ witness' = [witness EXCEPT ![c0].starts = @ + 1]
        /\ verifier' \in {[verifier EXCEPT !.at = "record", !.started = TRUE], ToRemove}
     \/ verifier' = ToRemove /\ UNCHANGED <<docker, witness>>
  /\ UNCHANGED ledger

RecordStart ==
  /\ VerifierAt("record")
  /\ IF Eligible
     THEN /\ ledger' = [ledger EXCEPT ![c0].state = "running"]
          /\ verifier' = [verifier EXCEPT !.at = "watch"]
     ELSE ledger' = ledger /\ verifier' = ToRemove
  /\ UNCHANGED <<docker, witness>>

\* Lost authority, its time or output limit, a failed inspection, or the end.
WatchContainer ==
  /\ VerifierAt("watch")
  /\ \/ verifier' = ToRemove
     \/ MayRun /\ verifier' = [verifier EXCEPT !.at = "remove"]
     \/ /\ MayRun /\ docker[c0] = "exited"
        /\ verifier' = [verifier EXCEPT !.at = "remove", !.code = witness[c0].code]
  /\ UNCHANGED <<ledger, docker, witness>>

\* Mutant: a container that is not found is gone.
AbsentAlways == TRUE

\* The absence of a container whose creation was never answered proves nothing, it
\* may still come.
AbsentIsGone == ~verifier.asked \/ verifier.known

\* ReviewContainer.remove: found and removed, found but the removal fails or cannot
\* be observed, or not found.
RemoveContainer ==
  /\ VerifierAt("remove")
  /\ LET gone == [verifier EXCEPT !.at = "settle", !.gone = TRUE]
         unconfirmed == [ToRemove EXCEPT !.at = "settle"]
         removed == [docker EXCEPT ![c0] = "removed"] IN
     IF docker[c0] \in Present \ {"asked"}
     THEN \/ docker' = removed /\ verifier' = gone
          \/ docker' \in {docker, removed} /\ verifier' = unconfirmed
     ELSE docker' = docker /\ verifier' = IF AbsentIsGone THEN gone ELSE unconfirmed
  /\ UNCHANGED <<ledger, witness>>

\* What is recorded of the check (finish_review_check, once).  "complete" is the
\* output read to its end, "unchanged" the work tree verified after the removal.
CheckOutcome(complete, unchanged, interrupted) ==
  IF ~verifier.started THEN "not_run"
  ELSE IF interrupted THEN "interrupted"
  ELSE IF verifier.code = "zero" /\ complete /\ unchanged THEN "passed" ELSE "failed"

FinishCheck ==
  /\ VerifierAt("settle")
  /\ \E complete, verified \in BOOLEAN :
       LET unchanged == verifier.gone /\ verified /\ ~witness[c0].dirty
           interrupted == \/ verifier.interrupted \/ ~MayRun
                          \/ verifier.gone /\ ~unchanged
           result == CheckOutcome(complete, unchanged, interrupted) IN
       \/ /\ ledger' = [ledger EXCEPT ![c0] = [state |-> "finished", result |-> result,
                                               gone |-> verifier.gone, unchanged |-> unchanged]]
          /\ verifier' = IF result \in {"interrupted", "not_run"} THEN GiveUp
                         ELSE [verifier EXCEPT !.at = "next", !.check = NoCheck]
       \/ ledger' = ledger /\ verifier' = GiveUp   \* the store fails
  /\ UNCHANGED <<docker, witness>>

AllChecked ==
  /\ VerifierAt("next") /\ verifier.todo = {}
  /\ verifier' = [verifier EXCEPT !.at = "done", !.result = CheckAssessment]
  /\ UNCHANGED <<ledger, docker, witness>>

-----------------------------------------------------------------------------
(* The execution thread of the supervisor (WorkSupervisor._run_attempt).   *)

Alive == verifier.at # "dead"
Supervising == UNCHANGED <<ledger, docker, witness>>

StartChecks ==
  /\ verifier.at = "none" /\ Eligible /\ ~review.ended
  /\ verifier' = [verifier EXCEPT !.at = "next"]
  /\ Supervising /\ UNCHANGED review

\* A fence, a rejection or a block is noticed; a stop of the supervisor too.
CancelChecks ==
  /\ Alive /\ verifier.at # "none" /\ ~verifier.stop
  /\ verifier' = [verifier EXCEPT !.stop = TRUE]
  /\ Supervising /\ UNCHANGED review

\* The model's process is gone: the verifier is told to stop and waited for.  The
\* verdict may have been recorded after the thread looked for one.
FinishReview ==
  /\ Alive /\ review.ended /\ review.state = "running" /\ verifier.at \in {"none", "done"}
  /\ \E rejected \in {FALSE, review.verdict = "reject"} :
       LET sound == verifier.gone /\ (verifier.result = "uncertain" => rejected)
           success == /\ sound /\ review.verdict # "none" /\ ~review.late /\ ~review.paused
                      /\ ~review.blocked /\ Finalizable IN
       review' = [review EXCEPT !.state = IF success THEN "succeeded" ELSE "recovery",
                                !.confirmed = verifier.gone]
  /\ verifier' = [verifier EXCEPT !.stop = TRUE]
  /\ Supervising

\* The verifier does not end in time, so nothing is confirmed.
GiveUpWaiting ==
  /\ Alive /\ review.ended /\ review.state = "running" /\ verifier.at \notin {"none", "done"}
  /\ review' = [review EXCEPT !.state = "recovery"]
  /\ verifier' = [verifier EXCEPT !.stop = TRUE]
  /\ Supervising

SupervisorDies ==
  /\ Alive
  /\ verifier' = [verifier EXCEPT !.at = "dead"]
  /\ Supervising /\ UNCHANGED review

ChecksNext ==
  \/ Report \/ CompareChecks \/ Accept \/ Reject \/ BlockReview \/ ModelEnds
  \/ FenceReview \/ PauseReview \/ ReviewExpires
  \/ PrepareCheck \/ CreateContainer \/ StartContainer \/ RecordStart \/ WatchContainer
  \/ RemoveContainer \/ FinishCheck \/ AllChecked
  \/ StartChecks \/ CancelChecks \/ FinishReview \/ GiveUpWaiting \/ SupervisorDies
  \/ \E c \in Check : ArriveLate(c) \/ Exit(c) \/ ReserveCheck(c)

ChecksSpec == ChecksInit /\ [][ChecksNext]_checksVars

-----------------------------------------------------------------------------
\* A check's command is started at most once, whatever happens to its request,
\* and counts as passed only if it ended with zero on an input it left intact and
\* its container is gone.  The comparison with the author's answer is opened, and
\* the submission accepted, only on checks that all ended that way or, for the
\* comparison, failed; so it is at every later moment.  A review that ended, with
\* either verdict, and one whose execution is confirmed to be gone leave no container
\* behind, nor a request that may still create one.
Truly(c) == witness[c].code = "zero" /\ ~witness[c].dirty /\ docker[c] = "removed"
ChecksAreSound ==
  /\ ChecksTypeOK
  /\ \A c \in Check : witness[c].starts <= 1 /\ (ledger[c].result = "passed" => Truly(c))
  /\ review.compared => \A c \in Check : witness[c].starts = 1 /\ docker[c] = "removed"
  /\ review.verdict = "accept" => \A c \in Check : Truly(c)
  /\ review.state = "succeeded" \/ review.confirmed => \A c \in Check : docker[c] \notin Present
=============================================================================
