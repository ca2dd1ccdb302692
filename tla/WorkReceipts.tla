---------------------------- MODULE WorkReceipts ----------------------------
(***************************************************************************)
(* Commands on one card and their receipts: WorkStore._perform_command and *)
(* the callers that retry it.  A call may be answered late, or never: the  *)
(* caller's patience ends, or the process that executes the call dies      *)
(* before or after the transaction commits.  A caller may repeat an        *)
(* unanswered call exactly, or reuse its identifier for a command on a     *)
(* newer revision; after a revision conflict it takes a new identifier.    *)
(*                                                                         *)
(* Abstractions.  A command is its identifier and the revision it expects, *)
(* which is what its fingerprint tells apart here; what the command does   *)
(* to the card is one change of the revision (the gates of each action are *)
(* in WorkItems).  An operation identifier is the caller and a number.     *)
(***************************************************************************)
EXTENDS Integers, FiniteSets

CONSTANTS
  Caller,        \* the principals, each with one change to make
  MaxIds,        \* bound: identifiers a caller uses for its change
  MaxCalls,      \* bound: calls of one caller
  MaxChanges     \* bound: changes made by nobody's command

ASSUME BoundsAssumption == MaxIds \in Nat \ {0} /\ MaxCalls \in Nat /\ MaxChanges \in Nat

None == 0
Operation == Caller \X (1..MaxIds)

VARIABLES
  revision,   \* of the card
  receipts,   \* work_operations: the revision in each operation's fingerprint
  gate,       \* does the card still admit the callers' commands?
  calls,      \* calls that were sent and not executed yet
  answers,    \* answers that were not read yet
  caller,     \* what each caller knows
  changes     \* changes still to come from elsewhere

store == <<revision, receipts, gate>>
vars == <<revision, receipts, gate, calls, answers, caller, changes>>

Call(c) == [caller |-> c, id |-> caller[c].id, base |-> caller[c].base,
            number |-> caller[c].calls]

Init ==
  /\ revision = 1 /\ receipts = [op \in Operation |-> None] /\ gate = "open"
  /\ calls = {} /\ answers = {}
  /\ caller = [c \in Caller |-> [pc |-> "read", id |-> 1, base |-> None, calls |-> 0]]
  /\ changes = MaxChanges

-----------------------------------------------------------------------------
(* The callers.                                                            *)

Read(c) ==
  /\ caller[c].pc = "read"
  /\ caller' = [caller EXCEPT ![c].pc = "send", ![c].base = revision]
  /\ UNCHANGED <<store, calls, answers, changes>>

Send(c) ==
  /\ caller[c].pc = "send" /\ caller[c].calls < MaxCalls
  /\ caller' = [caller EXCEPT ![c].pc = "wait", ![c].calls = @ + 1]
  /\ calls' = calls \union {Call(c)'}
  /\ UNCHANGED <<store, answers, changes>>

\* No answer came: the call is repeated as it was, or on a newer revision.
LosePatience(c) ==
  /\ caller[c].pc = "wait" /\ caller[c].calls < MaxCalls
  /\ \E pc \in {"send", "read"} : caller' = [caller EXCEPT ![c].pc = pc]
  /\ answers' = {answer \in answers : answer.call # Call(c)}
  /\ UNCHANGED <<store, calls, changes>>

\* A revision conflict is met with a new identifier; an identifier that was
\* used for another command tells the caller that an earlier call took effect.
ReadAnswer(c) ==
  /\ caller[c].pc = "wait"
  /\ \E answer \in answers :
       /\ answer.call = Call(c)
       /\ answers' = answers \ {answer}
       /\ IF answer.outcome = "stale" /\ caller[c].id < MaxIds
          THEN caller' = [caller EXCEPT ![c].pc = "read", ![c].id = @ + 1]
          ELSE caller' = [caller EXCEPT ![c].pc = answer.outcome]
  /\ UNCHANGED <<store, calls, changes>>

-----------------------------------------------------------------------------
(* The store: one transaction per call.                                    *)

\* Mutant: the revision is compared before the receipt is looked up.
OutcomeRevisionFirst(call, receipt) ==
  IF call.base # revision THEN "stale"
  ELSE IF receipt # None THEN IF receipt = call.base THEN "applied" ELSE "misused"
  ELSE IF gate = "open" THEN "applied" ELSE "refused"

\* Mutant: a command takes effect on whatever revision it finds.
OutcomeOnAnyRevision(call, receipt) ==
  IF receipt # None THEN IF receipt = call.base THEN "applied" ELSE "misused"
  ELSE IF gate = "open" THEN "applied" ELSE "refused"

\* A receipt answers before anything else is asked: the credential (retired),
\* the revision, then the gates of the command (closed).
Outcome(call, receipt) ==
  IF receipt # None THEN IF receipt = call.base THEN "applied" ELSE "misused"
  ELSE IF gate = "retired" THEN "refused"
  ELSE IF call.base # revision THEN "stale"
  ELSE IF gate = "closed" THEN "refused"
  ELSE "applied"

\* The answer reaches a caller that still waits for this call.
Answered(call, outcome) ==
  IF caller[call.caller].pc = "wait" /\ Call(call.caller) = call
  THEN answers \union {[call |-> call, outcome |-> outcome]} ELSE answers

\* Mutant: the effect commits, the receipt does not.
ExecuteInTwo(call) ==
  LET op == <<call.caller, call.id>>
      outcome == Outcome(call, receipts[op]) IN
  /\ call \in calls /\ calls' = calls \ {call}
  /\ answers' = Answered(call, outcome)
  /\ IF outcome = "applied" /\ receipts[op] = None
     THEN /\ revision' = revision + 1
          /\ receipts' \in {receipts, [receipts EXCEPT ![op] = call.base]}
     ELSE UNCHANGED <<revision, receipts>>
  /\ UNCHANGED <<gate, caller, changes>>

\* Mutant: the answer may leave before the transaction commits.
ExecuteAnsweringFirst(call) ==
  LET op == <<call.caller, call.id>>
      outcome == Outcome(call, receipts[op]) IN
  /\ call \in calls
  /\ answers' = Answered(call, outcome)
  /\ \/ UNCHANGED <<calls, revision, receipts>>
     \/ /\ calls' = calls \ {call}
        /\ IF outcome = "applied" /\ receipts[op] = None
           THEN /\ revision' = revision + 1
                /\ receipts' = [receipts EXCEPT ![op] = call.base]
           ELSE UNCHANGED <<revision, receipts>>
  /\ UNCHANGED <<gate, caller, changes>>

\* The effect and its receipt commit together.
Execute(call) ==
  LET op == <<call.caller, call.id>>
      outcome == Outcome(call, receipts[op]) IN
  /\ call \in calls /\ calls' = calls \ {call}
  /\ answers' = Answered(call, outcome)
  /\ IF outcome = "applied" /\ receipts[op] = None
     THEN /\ revision' = revision + 1
          /\ receipts' = [receipts EXCEPT ![op] = call.base]
     ELSE UNCHANGED <<revision, receipts>>
  /\ UNCHANGED <<gate, caller, changes>>

\* The process dies: what it had not executed or answered is lost.
Crash ==
  /\ calls \union answers # {}
  /\ calls' = {} /\ answers' = {}
  /\ UNCHANGED <<store, caller, changes>>

\* Something else saves the card, closes it or retires the credential.
Change ==
  /\ changes > 0 /\ changes' = changes - 1
  /\ revision' = revision + 1
  /\ gate' \in {gate} \union (IF gate = "open" THEN {"closed", "retired"} ELSE {})
  /\ UNCHANGED <<receipts, calls, answers, caller>>

Next ==
  \/ \E c \in Caller : Read(c) \/ Send(c) \/ LosePatience(c) \/ ReadAnswer(c)
  \/ \E call \in calls : Execute(call)
  \/ Crash \/ Change

Spec == Init /\ [][Next]_vars

-----------------------------------------------------------------------------
(* Properties.                                                             *)

\* The change a caller wants to make is made at most once, over all the
\* identifiers and retries it took.
ChangeMadeOnce ==
  \A c \in Caller : \A i, j \in 1..MaxIds :
    receipts[<<c, i>>] # None /\ receipts[<<c, j>>] # None => i = j

\* An answer is the truth about the caller's change, then and for ever: after
\* "applied" it is made, after a conflict or a refusal of the last call no
\* call that still lingers makes it.
AnswerIsTruth ==
  \A answer \in answers :
    LET made == \E i \in 1..MaxIds : receipts[<<answer.call.caller, i>>] # None IN
    made <=> answer.outcome \in {"applied", "misused"}

\* A change that no lingering call could still make is not made later: once a
\* caller knows its fate, the fate is settled.
FateIsSettled ==
  [][\A c \in Caller : caller[c].pc \in {"applied", "refused", "misused", "stale"} =>
       \A i \in 1..MaxIds : receipts'[<<c, i>>] = receipts[<<c, i>>]]_vars

\* Retries never look like new effects: the card behaves as if every operation
\* took effect at most once, on the revision its caller named.
Log == INSTANCE OperationLog WITH applied <- receipts
AtMostOnce == Log!Spec
=============================================================================
