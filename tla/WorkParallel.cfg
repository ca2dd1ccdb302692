SPECIFICATION WorkPartsSpec
CONSTANTS
  Step <- ParallelSteps
  Plans <- ParallelPlans
  Owner <- ParallelOwner
  Reviewer <- ParallelReviewer
  Modes = {"managed"}
  BlockAuthors = {}
  MaxAttempts = 2
  MaxPlanRevision = 1
  MaxGrants = 2
  MaxLaunches = 2
  MaxCost = 3
  MaxAttemptCost = 2
  Costs = {1}
  ActiveLimit = 2
  Budget = 2
  Submitter = {s1, s2}
  Output = {o1, o2}
  Unproven = {o2}
  MaxClaims = 2
  MaxRevisions = 4
  Host = {h1, h2}
  Home = h1
  MaxTurnsHome = 2
  MaxSuccessors = 2
  MaxOperations = 2
  MaxContexts = 1
  Operator = {p1, p2}
  History = {"base", "between", "result", "beyond", "other"}
  Older <- ProjectHistory
  Origin = "base"
  Result = "result"
  MaxMoves = 2
INVARIANT GrantIsKept
PROPERTY PublicationNeedsAuthority
INVARIANT NoStrandedStep
INVARIANT ReportsAreEarned
INVARIANT SubmissionsAreWhole
INVARIANT RecoveriesAreAuthorized
INVARIANT ApplicationsAreTrue
CHECK_DEADLOCK FALSE
