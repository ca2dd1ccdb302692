SPECIFICATION Spec
CONSTANTS
  Card = {c1}
  MaxAttempts = 1
  MaxOwners = 1
  MaxCommands = 1
  Commands = {"reconcile"}
  Assignments = 1
  Concurrency = 1
  HonestOperator = FALSE
PROPERTY AttestationRespectsOwner
CHECK_DEADLOCK FALSE
