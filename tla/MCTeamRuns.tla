----------------------------- MODULE MCTeamRuns -----------------------------
(* Instances of TeamRuns for TLC: two parallel steps and a final one that     *)
(* also takes partial reports.                                                *)
EXTENDS TeamRuns, TLC

CONSTANTS left, right, final

Fork == {left, right, final}
ForkDepends == [s \in Fork |-> IF s = final THEN {left, right} ELSE {}]
Lenient == [s \in Fork |-> IF s = final THEN "reported_evidence" ELSE "success"]
Branches == Permutations({left, right})
=============================================================================
