SPECIFICATION PartsSpec
CONSTANTS
  Caller = {claude, omp}
  MaxIds = 2
  MaxCalls = 3
  MaxChanges = 1
  Applier = {"a1", "a2", "a3"}
  Namesake = {"a1", "a2"}
  Owned = {"src", "gen"}
  Ignored = {"gen"}
  Foreign = {"other"}
  MaxEdits = 2
  Client = {r1, r2}
  MaxAnswers = 2
  Candidate = {m1, m2, m3}
  Legacy = {l1, l2}
  MaxTurns = 2
  MaxImports = 2
  Watched = {t1}
  MaxServers = 2
  MaxRenewals = 1
  MaxHooks = 2
  MaxEpochs = 2
  MaxGenerations = 1
  Server = {v1, v2}
  Request = {q1}
  MaxGrants = 2
  MaxCeiling = 2
  MaxUnits = 2
INVARIANT ChangeMadeOnce
INVARIANT AnswerIsTruth
PROPERTY FateIsSettled
PROPERTY AtMostOnce
INVARIANT EffectsAreAuthorizedOnce
INVARIANT SavedWorkIsTrue
INVARIANT BriefAnswersAreFounded
 
INVARIANT ImportsAreWhole
INVARIANT GuardStands
INVARIANT GrantIsACeiling
CHECK_DEADLOCK FALSE
