SPECIFICATION Spec
CONSTANTS
  Card = {c1, c2}
  MaxAttempts = 1
  MaxOwners = 1
  MaxCommands = 2
  Commands = {"cancel", "stop"}
  Assignments = 1
  Concurrency = 2
  HonestOperator = TRUE
PROPERTY StopPausesOwned
CHECK_DEADLOCK FALSE
