---------------------------- MODULE ResultReceipts ----------------------------
(***************************************************************************)
(* Claims on the result of a task (receipts): a client that means to apply *)
(* a result outside of the project claims it first and completes the claim *)
(* afterwards.  Answers are lost and clients forget what they were told;   *)
(* several clients may call themselves by one owner name.                  *)
(***************************************************************************)
EXTENDS Integers

CONSTANTS
  Applier,   \* clients that may apply the result
  Namesake   \* those of them that use one owner name, the others use their own

ASSUME NamesAssumption == Namesake \subseteq Applier

VARIABLES
  result,    \* whether the task has ended
  receipt,   \* the row: who claimed, whether it was completed
  applier,   \* what each client knows
  effects    \* history: how often the result was applied

receiptVars == <<result, receipt, applier, effects>>

NameOf(a) == IF a \in Namesake THEN Namesake ELSE {a}

ResultTypeOK ==
  /\ result \in {"active", "terminal"}
  /\ receipt \in [state : {"none", "claimed", "completed"}, owner : SUBSET Applier]
  /\ applier \in [Applier -> {"idle", "authorized", "applied"}]
  /\ effects \in 0..2

ResultInit ==
  /\ result = "active" /\ receipt = [state |-> "none", owner |-> {}]
  /\ applier = [a \in Applier |-> "idle"] /\ effects = 0

EndResult ==
  /\ result' = "terminal" /\ UNCHANGED <<receipt, applier, effects>>

\* Mutant: the owner of a claim may have it again.
ClaimableByOwner(a) == receipt.state = "none" \/ receipt.owner = NameOf(a)

\* ReceiptStore.claim: "Even the same owner must not replay an ambiguous external
\* effect."
Claimable(a) == receipt.state = "none"

\* The row is committed; the answer with the token arrives or is lost.
ClaimResult(a) ==
  /\ result = "terminal" /\ applier[a] = "idle" /\ Claimable(a)
  /\ receipt' = [state |-> "claimed", owner |-> NameOf(a)]
  /\ applier' \in {applier, [applier EXCEPT ![a] = "authorized"]}
  /\ UNCHANGED <<result, effects>>

ApplyResult(a) ==
  /\ applier[a] = "authorized" /\ effects < 2
  /\ applier' = [applier EXCEPT ![a] = "applied"] /\ effects' = effects + 1
  /\ UNCHANGED <<result, receipt>>

\* ReceiptStore.complete, with the owner's name and the token of the claim; a
\* repeated completion changes nothing.
CompleteReceipt(a) ==
  /\ applier[a] = "applied" /\ receipt.owner = NameOf(a)
  /\ receipt' = [receipt EXCEPT !.state = "completed"]
  /\ UNCHANGED <<result, applier, effects>>

\* The client dies and is restarted: it has no token any more.
ForgetToken(a) ==
  /\ applier[a] # "idle" /\ applier' = [applier EXCEPT ![a] = "idle"]
  /\ UNCHANGED <<result, receipt, effects>>

ResultNext ==
  \/ EndResult
  \/ \E a \in Applier : ClaimResult(a) \/ ApplyResult(a) \/ CompleteReceipt(a) \/ ForgetToken(a)

ResultSpec == ResultInit /\ [][ResultNext]_receiptVars

\* ReceiptStore._view
ReceiptView ==
  IF receipt.state = "completed" THEN "completed"
  ELSE IF receipt.state = "claimed" THEN "uncertain"
  ELSE IF result = "terminal" THEN "unclaimed" ELSE "not_ready"

-----------------------------------------------------------------------------
\* A result is applied at most once, whichever client asks under whichever name, loses
\* the answer or is restarted; and what the view says of it is so: nothing was applied
\* before a claim, and a completed receipt was applied.
EffectsAreAuthorizedOnce ==
  /\ ResultTypeOK /\ effects <= 1
  /\ ReceiptView \in {"not_ready", "unclaimed"} => effects = 0
  /\ ReceiptView = "completed" => effects = 1
=============================================================================
