SPECIFICATION Spec
CONSTANTS
  Card = {c1}
  MaxAttempts = 2
  MaxOwners = 2
  MaxCommands = 3
  Commands <- AllCommands
  Assignments = 2
  Concurrency = 1
  HonestOperator = TRUE
INVARIANT ExecutionsAreSound
PROPERTY StopEnds
PROPERTY FencedEnds
CHECK_DEADLOCK FALSE
