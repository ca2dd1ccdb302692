SPECIFICATION ReviewsSpec
CONSTANTS
  MaxFaults = 1
  Path = {p1, p2}
  MaxMoves = 3
  Check = {k1, k2}
  Finding = {f1}
  Conversation = {c1, c2}
  Turn = {t1}
  MaxSnapshots = 2
  MaxRevision = 4
  Session = {s1, s2}
  Runner = s1
  MaxPending = 1
  BatchLimit = 1
  MaxEvents = 2
  MaxTroubles = 1
INVARIANT StagesAreEarned
PROPERTY EndedStaysEnded
INVARIANT SnapshotIsTrue
INVARIANT ChecksAreSound
INVARIANT FindingsAreEarned
INVARIANT EventsReachTheirOwner
CHECK_DEADLOCK FALSE
