----------------------------- MODULE WorkAccess -----------------------------
(***************************************************************************)
(* How a participant's claims and submissions reach the store              *)
(* (work_access.perform_work).  A claim's credential is kept by the        *)
(* session; a manual submission is a chain of steps - authenticate, adopt  *)
(* the commit, record the intent, start, finish - that calls of the same   *)
(* session go through side by side, and that a fence or the death of the   *)
(* server may cut anywhere; a managed one records the intent only, and its *)
(* supervisor finishes.                                                    *)
(*                                                                         *)
(* One implementation step.  An operation's text is its identity and its   *)
(* commit; what is refused for its shape is left out, and so are blockers, *)
(* which fence or refuse in WorkItems.                                     *)
(***************************************************************************)
EXTENDS Integers

CONSTANTS
  Submitter,    \* concurrent calls of the session
  Output,       \* commits a submission may name
  Unproven,     \* those of them the declared acceptance evidence does not cover
  MaxClaims,    \* bound: claims of the step
  MaxRevisions  \* bound: revisions of the card

ASSUME AccessAssumption == Unproven \subseteq Output /\ {MaxClaims, MaxRevisions} \subseteq Nat

VARIABLES
  held,         \* the attempts of the step: state, intent, completion, retained commit
  steward,      \* are they managed by a supervisor?
  written,      \* the card's revision and the receipts of its operations
  keptClaim,    \* the session's claims: the attempt whose credential it holds, or 0
  submission    \* the calls

accessVars == <<held, steward, written, keptClaim, submission>>

-----------------------------------------------------------------------------
Holding == 1..MaxClaims
Unclaimed == [state |-> "none", intent |-> {}, finish |-> {}, ref |-> {}]
Quiescent == [at |-> "idle", of |-> 0, op |-> 0, commit |-> CHOOSE c \in Output : TRUE,
              expected |-> 0, output |-> FALSE, told |-> "nothing"]
Completion == [outcome : {"success", "interrupted"}, commit : Output]

AccessTypeOK ==
  /\ \A a \in Holding :
       /\ held[a].state \in {"none", "active", "recovery", "succeeded", "reconciled"}
       /\ held[a].intent \subseteq [op : 1..2, commit : Output]
       /\ held[a].finish \subseteq Completion /\ held[a].ref \subseteq Output
  /\ steward \in BOOLEAN /\ keptClaim \in 0..MaxClaims
  /\ written.revision \in 0..MaxRevisions
  /\ written.receipts \in [1..2 -> SUBSET [of : Holding, commit : Output]]
  /\ \A s \in Submitter :
       /\ submission[s].at \in {"idle", "install", "bind", "adopt", "preflight", "validate",
                                "perform", "start", "finish", "preserve"}
       /\ submission[s].told \in {"nothing", "refused", "conflict", "intent", "finished",
                                  "preserved"}

AccessInit ==
  /\ held = [a \in Holding |-> Unclaimed]
  /\ steward \in BOOLEAN
  /\ written = [revision |-> 0, receipts |-> [o \in 1..2 |-> {}]]
  /\ keptClaim = 0
  /\ submission = [s \in Submitter |-> Quiescent]

Goes(s, at) == submission' = [submission EXCEPT ![s].at = at]
Tells(s, what) == submission' = [submission EXCEPT ![s].at = "idle", ![s].told = what]
Live(a) == held[a].state = "active"
Revised == written.revision < MaxRevisions
           /\ written' = [written EXCEPT !.revision = @ + 1]

-----------------------------------------------------------------------------
(* Claims.                                                                 *)

\* The store creates the attempt; the session keeps its credential afterwards.
ClaimTheStep(s) ==
  /\ submission[s].at = "idle"
  /\ \A a \in Holding : held[a].state \in {"none", "reconciled"}
  /\ \E a \in Holding :
       /\ held[a].state = "none" /\ \A b \in Holding : b < a => held[b].state # "none"
       /\ held' = [held EXCEPT ![a].state = "active"]
       /\ submission' = [submission EXCEPT ![s] = [Quiescent EXCEPT !.at = "install", !.of = a]]
  /\ Revised
  /\ UNCHANGED <<steward, keptClaim>>

InstallClaim(s) ==
  /\ submission[s].at = "install"
  /\ keptClaim' = submission[s].of
  /\ Goes(s, "idle")
  /\ UNCHANGED <<held, steward, written>>

-----------------------------------------------------------------------------
(* A submission.                                                           *)

\* Its operation is new, or the retry of one whose answer was lost or is still to
\* come; its revision is the one the caller read last.
BeginSubmission(s) ==
  /\ submission[s].at = "idle" /\ keptClaim # 0
  /\ \E op \in 1..2, commit \in Output, expected \in {written.revision, written.revision - 1} :
       submission' = [submission EXCEPT ![s] =
         [at |-> "bind", of |-> keptClaim, op |-> op, commit |-> commit,
          expected |-> expected, output |-> FALSE, told |-> "nothing"]]
  /\ UNCHANGED <<held, steward, written, keptClaim>>

\* A credential that is no longer active binds nothing: only a receipt may answer.
BindCaller(s) ==
  /\ submission[s].at = "bind"
  /\ Goes(s, IF ~Live(submission[s].of) THEN "perform"
             ELSE IF steward THEN "preflight" ELSE "adopt")
  /\ UNCHANGED <<held, steward, written, keptClaim>>

\* The commit is validated and kept under the attempt's reference before any intent
\* is recorded.  An attempt keeps one commit.
AdoptOutput(s) ==
  LET a == submission[s].of  c == submission[s].commit IN
  /\ submission[s].at = "adopt"
  /\ \/ /\ held[a].ref \subseteq {c}
        /\ held' = [held EXCEPT ![a].ref = {c}]
        /\ submission' = [submission EXCEPT ![s].at = "perform", ![s].output = TRUE]
     \/ Tells(s, "refused") /\ UNCHANGED held
  /\ UNCHANGED <<steward, written, keptClaim>>

Receipt(s) == written.receipts[submission[s].op]
Mine(s) == [of |-> submission[s].of, commit |-> submission[s].commit]

AdmissibleTwice(s) == Live(submission[s].of) /\ submission[s].expected = written.revision

\* What the store admits as a new submission (_perform_command): an active
\* credential, the current revision, no intent yet.
Admissible(s) ==
  /\ Live(submission[s].of)
  /\ submission[s].expected = written.revision
  /\ held[submission[s].of].intent = {}

\* The same admission, rolled back: nothing is recorded before the working copy was
\* looked at.
Preflight(s) ==
  /\ submission[s].at = "preflight"
  /\ \/ Receipt(s) = {Mine(s)} /\ Tells(s, "intent")
     \/ Receipt(s) = {} /\ Admissible(s) /\ Goes(s, "validate")
     \/ /\ Receipt(s) # {Mine(s)} /\ (Receipt(s) # {} \/ ~Admissible(s))
        /\ Tells(s, "refused")
  /\ UNCHANGED <<held, steward, written, keptClaim>>

ValidateCopy(s) ==
  /\ submission[s].at = "validate"
  /\ Goes(s, "perform") \/ Tells(s, "refused")
  /\ UNCHANGED <<held, steward, written, keptClaim>>

\* A receipt answers an exact retry whatever became of the attempt; the retry goes
\* on to finish what its first call may not have finished.
ReplaySubmission(s) ==
  /\ submission[s].at = "perform" /\ Receipt(s) # {}
  /\ IF Receipt(s) # {Mine(s)} THEN Tells(s, "refused")
     ELSE IF submission[s].output THEN Goes(s, "start") ELSE Tells(s, "intent")
  /\ UNCHANGED <<held, steward, written, keptClaim>>

RefuseSubmission(s) ==
  /\ submission[s].at = "perform" /\ Receipt(s) = {} /\ ~Admissible(s)
  /\ Tells(s, IF Live(submission[s].of) /\ submission[s].expected # written.revision
              THEN "conflict" ELSE "refused")
  /\ UNCHANGED <<held, steward, written, keptClaim>>

RecordIntent(s) ==
  LET a == submission[s].of IN
  /\ submission[s].at = "perform" /\ Receipt(s) = {} /\ Admissible(s)
  /\ written.revision < MaxRevisions
  /\ written' = [revision |-> written.revision + 1,
                 receipts |-> [written.receipts EXCEPT ![submission[s].op] = {Mine(s)}]]
  /\ held' = [held EXCEPT ![a].intent = {[op |-> submission[s].op,
                                         commit |-> submission[s].commit]}]
  /\ IF submission[s].output THEN Goes(s, "start") ELSE Tells(s, "intent")
  /\ UNCHANGED <<steward, keptClaim>>

\* The row is authenticated again, and may have been fenced or finished meanwhile.
StartOutput(s) ==
  /\ submission[s].at = "start"
  /\ IF Live(submission[s].of) THEN Goes(s, "finish") ELSE Tells(s, "refused")
  /\ UNCHANGED <<held, steward, written, keptClaim>>

\* finish_attempt: a completion is recorded once, and only an equal one is answered
\* again.  Evidence that does not cover the output undoes the transaction.
Completes(a, completion, state) ==
  held' = [held EXCEPT ![a].finish = {completion}, ![a].state = state]

FinishOutput(s) ==
  LET a == submission[s].of
      done == [outcome |-> "success", commit |-> submission[s].commit] IN
  /\ submission[s].at = "finish"
  /\ \/ /\ held[a].finish # {}
        /\ Tells(s, IF held[a].finish = {done} THEN "finished" ELSE "refused")
        /\ UNCHANGED <<held, written>>
     \/ /\ held[a].finish = {} /\ held[a].state \in {"active", "recovery"}
        /\ submission[s].commit \notin Unproven \/ ~Live(a)
        /\ Completes(a, done, IF Live(a) THEN "succeeded" ELSE "recovery")
        /\ Revised /\ Tells(s, "finished")
     \/ /\ held[a].finish = {} /\ Live(a) /\ submission[s].commit \in Unproven
        /\ Goes(s, "preserve")
        /\ UNCHANGED <<held, written>>
     \/ /\ held[a].finish = {} /\ held[a].state = "reconciled"
        /\ Tells(s, "refused") /\ UNCHANGED <<held, written>>
  /\ UNCHANGED <<steward, keptClaim>>

\* The adopted output of a refused completion is kept as an interrupted one.
PreserveOutput(s) ==
  LET a == submission[s].of
      kept == [outcome |-> "interrupted", commit |-> submission[s].commit] IN
  /\ submission[s].at = "preserve"
  /\ \/ /\ held[a].finish # {}
        /\ Tells(s, IF held[a].finish = {kept} THEN "preserved" ELSE "refused")
        /\ UNCHANGED <<held, written>>
     \/ /\ held[a].finish = {} /\ held[a].state \in {"active", "recovery"}
        /\ Completes(a, kept, "recovery")
        /\ Revised /\ Tells(s, "preserved")
     \/ /\ held[a].finish = {} /\ held[a].state = "reconciled"
        /\ Tells(s, "refused") /\ UNCHANGED <<held, written>>
  /\ UNCHANGED <<steward, keptClaim>>

-----------------------------------------------------------------------------
(* Everybody else.                                                         *)

\* A pause, a revision of the plan, a block of the step, the deadline.
FenceClaim(a) ==
  /\ Live(a) /\ Revised
  /\ held' = [held EXCEPT ![a].state = "recovery"]
  /\ UNCHANGED <<steward, keptClaim, submission>>

ReconcileClaim(a) ==
  /\ held[a].state = "recovery" /\ Revised
  /\ held' = [held EXCEPT ![a].state = "reconciled"]
  /\ UNCHANGED <<steward, keptClaim, submission>>

\* The supervisor finishes a managed attempt with the commit it captured.
SuperviseFinish(a) ==
  /\ steward /\ Live(a) /\ Revised
  /\ \E c \in Output :
       held' = [held EXCEPT ![a].finish = {[outcome |-> "success", commit |-> c]},
                            ![a].ref = {c}, ![a].state = "succeeded"]
  /\ UNCHANGED <<steward, keptClaim, submission>>

\* The session ends with its claims and its calls.
SessionDies ==
  /\ \E s \in Submitter : submission[s].at # "idle"
  /\ keptClaim' = 0
  /\ submission' = [s \in Submitter |-> Quiescent]
  /\ UNCHANGED <<held, steward, written>>

AccessNext ==
  \/ \E s \in Submitter :
       \/ ClaimTheStep(s) \/ InstallClaim(s) \/ BeginSubmission(s) \/ BindCaller(s)
       \/ AdoptOutput(s) \/ Preflight(s) \/ ValidateCopy(s) \/ ReplaySubmission(s)
       \/ RefuseSubmission(s) \/ RecordIntent(s) \/ StartOutput(s) \/ FinishOutput(s)
       \/ PreserveOutput(s)
  \/ \E a \in Holding : FenceClaim(a) \/ ReconcileClaim(a) \/ SuperviseFinish(a)
  \/ SessionDies

AccessSpec == AccessInit /\ [][AccessNext]_accessVars

-----------------------------------------------------------------------------
(* Properties.                                                             *)

\* However calls of a session interleave, a manual attempt's completion, its recorded
\* intent and the commit kept for it are of one commit; a success was proven.  An
\* intent has the receipt that answers its retries.  A caller is told of a finished
\* or preserved submission only when the store holds that completion with the
\* caller's own commit, and of an intent only when its own is recorded.
SubmissionsAreWhole ==
  /\ AccessTypeOK
  /\ \A a \in Holding :
       /\ \A i \in held[a].intent :
            [of |-> a, commit |-> i.commit] \in written.receipts[i.op]
       /\ ~steward => /\ \A i \in held[a].intent : held[a].ref = {i.commit}
                      /\ \A f \in held[a].finish :
                           \E i \in held[a].intent : i.commit = f.commit
       /\ held[a].state = "succeeded" /\ ~steward =>
            \E f \in held[a].finish : f.outcome = "success" /\ f.commit \notin Unproven
  /\ \A s \in Submitter : LET a == submission[s].of IN
       /\ submission[s].told = "finished" =>
            [outcome |-> "success", commit |-> submission[s].commit] \in held[a].finish
       /\ submission[s].told = "preserved" =>
            [outcome |-> "interrupted", commit |-> submission[s].commit] \in held[a].finish
       /\ submission[s].told = "intent" =>
            [op |-> submission[s].op, commit |-> submission[s].commit] \in held[a].intent
=============================================================================
