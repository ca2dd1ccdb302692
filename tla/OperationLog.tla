---------------------------- MODULE OperationLog ----------------------------
(***************************************************************************)
(* What the work store promises about commands: the card moves through a   *)
(* sequence of revisions, a command takes effect on exactly the revision   *)
(* its caller names, and an operation identifier takes effect at most once.*)
(***************************************************************************)
EXTENDS Integers

CONSTANTS Operation    \* the operation identifiers of all callers

VARIABLES
  revision,   \* the card's revision
  applied     \* the revision each operation took effect on; 0 = none yet

Init == revision = 1 /\ applied = [op \in Operation |-> 0]

Apply(op) ==
  /\ applied[op] = 0
  /\ applied' = [applied EXCEPT ![op] = revision]
  /\ revision' = revision + 1

\* A change that no participant's command made.
Change == revision' = revision + 1 /\ UNCHANGED applied

Next == Change \/ \E op \in Operation : Apply(op)

Spec == Init /\ [][Next]_<<revision, applied>>
=============================================================================
