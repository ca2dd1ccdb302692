------------------------------- MODULE MCParts -------------------------------
(***************************************************************************)
(* Eight components that share no state in the model, checked side by      *)
(* side: a behaviour is one of one of them, chosen in its initial state,   *)
(* while the others stay in an initial state of theirs.                    *)
(***************************************************************************)
EXTENDS WorkReceipts, ResultReceipts, WorkWorkspace, BriefDecisions, ModelRouting,
        LegacyMigration, Watchdog, AutomationBudget

VARIABLE part   \* the component that runs

PartsInit ==
  /\ part \in {"commands", "results", "workspace", "decisions", "routing", "migration",
               "watchdog", "budget"}
  /\ Init /\ ResultInit
  /\ WorkspaceInit /\ (part # "workspace" => attempt.kind = "implement")
  /\ MigrationInit
  /\ part # "migration" => \A c \in Legacy : legacy[c].row.history > 0
  /\ DecisionInit
  /\ part # "decisions" => asking.independent /\ asking.shared /\ asking.kind = "information"
  /\ RoutingInit /\ (part # "routing" => record.state = "prepared")
  /\ WatchdogInit /\ (part # "watchdog" => marker.owner = 0 /\ marker.last = MaxEpochs
                                           /\ \A s \in Born : incarnation[s].life = "up")
  /\ BudgetInit

PartsNext ==
  /\ UNCHANGED part
  /\ part = "commands" => Next
  /\ part = "results" => ResultNext
  /\ part = "workspace" => WorkspaceNext
  /\ part = "decisions" => DecisionNext
  /\ part = "routing" => RoutingNext
  /\ part = "migration" => MigrationNext
  /\ part = "watchdog" => WatchdogNext
  /\ part = "budget" => BudgetNext
  /\ part # "commands" => UNCHANGED vars
  /\ part # "results" => UNCHANGED receiptVars
  /\ part # "workspace" => UNCHANGED workspaceVars
  /\ part # "decisions" => UNCHANGED decisionVars
  /\ part # "routing" => UNCHANGED routingVars
  /\ part # "migration" => UNCHANGED migrationVars
  /\ part # "watchdog" => UNCHANGED watchdogVars
  /\ part # "budget" => UNCHANGED budgetVars

partsVars == <<part, vars, receiptVars, workspaceVars, decisionVars, routingVars,
               migrationVars, watchdogVars, budgetVars>>

PartsSpec == PartsInit /\ [][PartsNext]_partsVars
=============================================================================
