--------------------------- MODULE WorkApplication ---------------------------
(***************************************************************************)
(* The accepted result of a completed card reaches the project only when   *)
(* an operator says so (work apply, work assess; WorkWorkspace.apply and   *)
(* assess).  An application fast-forwards the checkout under the lock of   *)
(* the working copies, which the people who commit, reset and edit there   *)
(* do not take, and is recorded afterwards, which may fail; an assessment  *)
(* observes and records.  A completed card does not change any more, so    *)
(* its result is one commit, Result.                                       *)
(***************************************************************************)
EXTENDS Integers

CONSTANTS
  Operator,    \* terminals of operators
  History,     \* commits of the project
  Older,       \* pairs of them: the first is an ancestor of the second
  Origin,      \* the commit the work started from
  Result,      \* the accepted output
  MaxMoves     \* bound: what people do in the checkout

ASSUME HistoryAssumption ==
  /\ {Origin, Result} \subseteq History /\ Older \subseteq History \X History
  /\ <<Origin, Result>> \in Older
  /\ MaxMoves \in Nat

VARIABLES
  project,     \* the checkout: HEAD and the work nobody has committed
  terminal,    \* the operators' commands
  application, \* the last entry of the card's list of receipts and assessments
  forward      \* history: the last move of HEAD by an application

applicationVars == <<project, terminal, application, forward>>

-----------------------------------------------------------------------------
Ancestor(c, d) == c = d \/ <<c, d>> \in Older
Relation(target, observed) ==
  IF observed = target THEN "equal"
  ELSE IF Ancestor(target, observed) THEN "ancestor"
  ELSE IF Ancestor(observed, target) THEN "descendant" ELSE "diverged"
Relations == {"equal", "ancestor", "descendant", "diverged"}

ApplicationTypeOK ==
  /\ project.head \in History
  \* Uncommitted work: of files Git reports, or an ignored file where Result adds one.
  /\ {project.edited, project.ignored, project.lost} \subseteq BOOLEAN
  /\ \A o \in Operator :
       /\ terminal[o].at \in {"idle", "apply", "merge", "receipt", "assessment"}
       /\ {terminal[o].expected, terminal[o].observed} \subseteq History
  /\ application \subseteq
       [kind : {"apply_receipt"}, expected : History] \union
       [kind : {"git_assessment"}, observed : History, relation : Relations]
  /\ forward \subseteq [from : History, expected : History, raced : BOOLEAN]

NoCommand == [at |-> "idle", expected |-> Origin, observed |-> Origin, raced |-> FALSE]

ApplicationInit ==
  /\ project = [head |-> Origin, edited |-> FALSE, ignored |-> FALSE, lost |-> FALSE,
                moves |-> 0]
  /\ terminal = [o \in Operator |-> NoCommand]
  /\ application = {} /\ forward = {}

Ends(o) == terminal' = [terminal EXCEPT ![o] = NoCommand]

-----------------------------------------------------------------------------
(* Application.                                                            *)

\* The operator names the HEAD it saw.
BeginApply(o) ==
  /\ terminal[o].at = "idle"
  /\ \E expected \in History :
       terminal' = [terminal EXCEPT ![o].at = "apply", ![o].expected = expected]
  /\ UNCHANGED <<project, application, forward>>

Applicable(expected) ==
  /\ project.head = expected /\ ~project.edited
  /\ Ancestor(expected, Result) /\ ~project.ignored

\* The lock is taken and the checks begin; one command is past this point at a time.
CheckProject(o) ==
  /\ terminal[o].at = "apply"
  /\ \A p \in Operator : terminal[p].at # "merge"
  /\ IF Applicable(terminal[o].expected)
     THEN terminal' = [terminal EXCEPT ![o].at = "merge"]
     ELSE Ends(o)
  /\ UNCHANGED <<project, application, forward>>

Moved(o) == {[from |-> project.head, expected |-> terminal[o].expected,
              raced |-> terminal[o].raced]}

\* Mutant: HEAD is set to the result.
FastForwardForced(o) ==
  /\ project' = [project EXCEPT !.head = Result, !.lost = @ \/ project.ignored]
  /\ forward' = Moved(o)
  /\ terminal' = [terminal EXCEPT ![o].at = "receipt"]

\* git merge --ff-only --no-autostash --no-overwrite-ignore: it does nothing when HEAD
\* has the result, and fails over diverged commits, an ignored file in its way and
\* edits of the files it changes.
FastForward(o) ==
  \/ /\ Ancestor(Result, project.head)
     /\ terminal' = [terminal EXCEPT ![o].at = "receipt"]
     /\ UNCHANGED <<project, forward>>
  \/ /\ project.head # Result /\ Ancestor(project.head, Result) /\ ~project.ignored
     /\ project' = [project EXCEPT !.head = Result]
     /\ forward' = Moved(o)
     /\ terminal' = [terminal EXCEPT ![o].at = "receipt"]
  \/ /\ \/ ~Ancestor(Result, project.head) /\ ~Ancestor(project.head, Result)
        \/ project.ignored \/ project.edited
     /\ Ends(o)
     /\ UNCHANGED <<project, forward>>

MergeResult(o) ==
  /\ terminal[o].at = "merge"
  /\ FastForward(o)
  /\ UNCHANGED application

\* The merge is made whether or not it can be recorded, and is never made again.
RecordReceipt(o) ==
  /\ terminal[o].at = "receipt"
  /\ \/ /\ application' = {[kind |-> "apply_receipt", expected |-> terminal[o].expected]}
        /\ Ends(o)
     \/ Ends(o) /\ UNCHANGED application
  /\ UNCHANGED <<project, forward>>

-----------------------------------------------------------------------------
(* Assessment: no lock, no change of the checkout.                         *)

ObserveHead(o) ==
  /\ terminal[o].at = "idle"
  /\ terminal' = [terminal EXCEPT ![o].at = "assessment", ![o].observed = project.head]
  /\ UNCHANGED <<project, application, forward>>

RecordAssessment(o) ==
  /\ terminal[o].at = "assessment"
  /\ \/ /\ application' = {[kind |-> "git_assessment", observed |-> terminal[o].observed,
                           relation |-> Relation(Result, terminal[o].observed)]}
        /\ Ends(o)
     \/ Ends(o) /\ UNCHANGED application
  /\ UNCHANGED <<project, forward>>

-----------------------------------------------------------------------------
(* Everybody else.                                                         *)

\* A person, or a tool of theirs, in the checkout.
WorkInProject ==
  /\ project.moves < MaxMoves
  /\ \E head \in History, edited, ignored \in BOOLEAN :
       project' = [project EXCEPT !.head = head, !.edited = edited, !.ignored = ignored,
                                  !.moves = @ + 1]
  /\ terminal' = [o \in Operator |->
       IF terminal[o].at = "merge" THEN [terminal[o] EXCEPT !.raced = TRUE] ELSE terminal[o]]
  /\ UNCHANGED <<application, forward>>

CommandDies(o) ==
  /\ terminal[o].at # "idle"
  /\ Ends(o)
  /\ UNCHANGED <<project, application, forward>>

ApplicationNext ==
  \/ \E o \in Operator :
       \/ BeginApply(o) \/ CheckProject(o)
       \/ MergeResult(o) \/ RecordReceipt(o) \/ ObserveHead(o) \/ RecordAssessment(o)
       \/ CommandDies(o)
  \/ WorkInProject

ApplicationSpec == ApplicationInit /\ [][ApplicationNext]_applicationVars

-----------------------------------------------------------------------------
\* Whatever people do in the checkout meanwhile, an application only adds the result to
\* it: HEAD moves along the result's own history, from the commit the operator named
\* unless someone worked there after the checks, and no uncommitted file is lost.  What
\* is recorded of it is true of the commits it names.
ApplicationsAreTrue ==
  /\ ApplicationTypeOK
  /\ ~project.lost
  /\ \A f \in forward :
       /\ Ancestor(f.from, Result) /\ f.from # Result
       /\ ~f.raced => f.from = f.expected
  /\ \A r \in application :
       /\ r.kind = "apply_receipt" => Ancestor(r.expected, Result)
       /\ r.kind = "git_assessment" =>
            (r.relation \in {"equal", "ancestor"} <=> Ancestor(Result, r.observed))
=============================================================================
