---------------------------- MODULE MCWorkParts -----------------------------
(***************************************************************************)
(* A card of two parallel steps under a grant, and beside it four parts of *)
(* shared work that share no state with it in the model: the adapter that  *)
(* runs an attempt, the calls of a session, the recovery of a claim and    *)
(* the application of a result.  A behaviour is one of one of them, chosen *)
(* in its initial state, while the others stay in an initial state of      *)
(* theirs.                                                                 *)
(***************************************************************************)
EXTENDS MCWorkItems, WorkAdapters, WorkAccess, ClaimRecovery, WorkApplication

VARIABLE part   \* the part that runs

\* The result's own line of history, and a commit beside it.
ProjectHistory ==
  {<<"base", "between">>, <<"base", "result">>, <<"base", "beyond">>, <<"base", "other">>,
   <<"between", "result">>, <<"between", "beyond">>, <<"result", "beyond">>}

WorkPartsInit ==
  /\ part \in {"card", "adapters", "access", "recovery", "application"}
  /\ Init
  /\ AdapterInit
  /\ part # "adapters" => assigned.actor = "omp" /\ assigned.kind = "review" /\ assigned.fits
  /\ AccessInit /\ (part # "access" => steward)
  /\ RecoveryInit /\ ApplicationInit

WorkPartsNext ==
  /\ UNCHANGED part
  /\ part = "card" => Next
  /\ part = "adapters" => AdapterNext
  /\ part = "access" => AccessNext
  /\ part = "recovery" => RecoveryNext
  /\ part = "application" => ApplicationNext
  /\ part # "card" => UNCHANGED vars
  /\ part # "adapters" => UNCHANGED adapterVars
  /\ part # "access" => UNCHANGED accessVars
  /\ part # "recovery" => UNCHANGED recoveryVars
  /\ part # "application" => UNCHANGED applicationVars

workPartsVars == <<part, vars, adapterVars, accessVars, recoveryVars, applicationVars>>

WorkPartsSpec == WorkPartsInit /\ [][WorkPartsNext]_workPartsVars
=============================================================================
