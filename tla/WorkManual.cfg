SPECIFICATION ManualSpec
CONSTANTS
  Step <- SerialSteps
  Plans <- SerialPlans
  Owner <- SerialOwner
  Reviewer <- SerialReviewer
  Modes = {"manual"}
  BlockAuthors = {"claude"}
  MaxAttempts = 3
  MaxPlanRevision = 2
  MaxGrants = 0
  MaxLaunches = 0
  MaxCost = 0
  MaxAttemptCost = 0
  Costs = {0}
  ActiveLimit = 4
CONSTRAINT ThirdIsFinal
INVARIANT TypeOK
INVARIANT SingleWriterPerStep
INVARIANT AcceptanceIsEarned
INVARIANT OutstandingIsAnchored
INVARIANT StoppedIsQuiet
PROPERTY HistoryIsKept
CHECK_DEADLOCK FALSE
