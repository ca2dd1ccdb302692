-------------------------- MODULE WorkItemsProofs --------------------------
(***************************************************************************)
(* Proofs about one card of the work store, for every plan, every number   *)
(* of attempts and every bound.                                            *)
(*                                                                         *)
(* The inductive invariant is Sound: the types, the correspondence between *)
(* a step and the attempt it waits for, in both directions, and the fact   *)
(* that a reconciled attempt was confirmed to have stopped.  It is stated  *)
(* of any card document c and attempt rows, because the code computes the  *)
(* new document first and refreshes it afterwards: each operation is shown *)
(* to build a sound document, and Refresh is shown, once, to keep it so.   *)
(***************************************************************************)
EXTENDS WorkItems, TLAPS

OutstandingStates == ActiveStates \union {"recovery_required"}

Anchored(c, rows, a) ==
  rows[a].state \in OutstandingStates =>
    /\ rows[a].planRevision = c.planRevision
    /\ rows[a].step \in StepsOf(c)
    /\ c.steps[rows[a].step].attempt = a
    /\ rows[a].state \in ActiveStates => c.steps[rows[a].step].state = "running"
    /\ rows[a].state = "recovery_required" =>
         c.steps[rows[a].step].state = "recovery_required"
    /\ rows[a].managed => c.authorization.id # None /\ c.authorization.id = rows[a].grant

Awaited(c, rows, s) ==
  LET a == c.steps[s].attempt IN
  /\ c.steps[s].state = "running" =>
       a \in AttemptIds /\ rows[a].state \in ActiveStates /\ rows[a].step = s
  /\ c.steps[s].state = "recovery_required" =>
       a \in AttemptIds /\ rows[a].state = "recovery_required" /\ rows[a].step = s

Typed(c, rows) == c \in Card /\ rows \in [AttemptIds -> Attempt]

Sound(c, rows) ==
  /\ Typed(c, rows)
  /\ \A a \in AttemptIds : Anchored(c, rows, a)
  /\ \A s \in StepsOf(c) : Awaited(c, rows, s)
  /\ \A a \in AttemptIds : rows[a].state = "reconciled" => rows[a].gone

-----------------------------------------------------------------------------
(* The refresh.                                                            *)

\* A plan's steps are steps.
LEMMA PlanSteps ==
  ASSUME NEW c \in Card
  PROVE  StepsOf(c) \subseteq Step
BY PlansAssumption DEF Card, StepsOf

\* The refreshed state of a step is a step state; a running, uncertain or
\* accepted step keeps its state and no other step enters one of these states.
LEMMA RefreshedStepFacts ==
  ASSUME NEW c \in Card, NEW s \in Step
  PROVE  /\ RefreshedStep(c, s) \in StepStates
         /\ c.steps[s].state \in {"running", "recovery_required", "accepted"} =>
              RefreshedStep(c, s) = c.steps[s].state
         /\ c.steps[s].state \notin {"running", "recovery_required", "accepted"} =>
              RefreshedStep(c, s) \notin {"running", "recovery_required", "accepted"}
<1>1. c.steps[s].state \in StepStates
  BY DEF Card, StepRecord
<1> QED
  BY <1>1 DEF RefreshedStep, StepStates

\* Refreshing changes nothing of a card but the states of steps and the status.
LEMMA RefreshFrame ==
  ASSUME NEW c \in Card
  PROVE  /\ Refresh(c).planRevision = c.planRevision
         /\ Refresh(c).plan = c.plan
         /\ Refresh(c).agreements = c.agreements
         /\ Refresh(c).proposal = c.proposal
         /\ Refresh(c).transition = c.transition
         /\ Refresh(c).blockers = c.blockers
         /\ Refresh(c).authorization = c.authorization
         /\ \A s \in Step :
              /\ Refresh(c).steps[s].attempt = c.steps[s].attempt
              /\ Refresh(c).steps[s].submission = c.steps[s].submission
              /\ Refresh(c).steps[s].acceptance = c.steps[s].acceptance
              /\ Refresh(c).steps[s].blockers = c.steps[s].blockers
              /\ c.steps[s].state \in {"running", "recovery_required", "accepted"} =>
                   Refresh(c).steps[s].state = c.steps[s].state
              /\ c.steps[s].state \notin {"running", "recovery_required", "accepted"} =>
                   Refresh(c).steps[s].state \notin
                     {"running", "recovery_required", "accepted"}
BY RefreshedStepFacts DEF Refresh, Card, StepRecord

\* A refreshed card is a card.
LEMMA RefreshType ==
  ASSUME NEW c \in Card
  PROVE  Refresh(c) \in Card
<1>1. RefreshedStatus(c) \in CardStates
  BY DEF RefreshedStatus, CardStates, Terminal
<1>2. [s \in Step |-> IF s \in StepsOf(c)
                      THEN [c.steps[s] EXCEPT !.state = RefreshedStep(c, s)]
                      ELSE c.steps[s]] \in [Step -> StepRecord]
  <2>1. ASSUME NEW s \in Step
        PROVE  [c.steps[s] EXCEPT !.state = RefreshedStep(c, s)] \in StepRecord
    BY RefreshedStepFacts DEF Card, StepRecord
  <2> QED
    BY <2>1 DEF Card
<1> QED
  BY <1>1, <1>2 DEF Refresh, Card

\* A sound document is still sound when it has been refreshed.
LEMMA RefreshSound ==
  ASSUME NEW c, NEW rows, Sound(c, rows)
  PROVE  Sound(Refresh(c), rows)
<1>1. c \in Card /\ rows \in [AttemptIds -> Attempt]
  BY DEF Sound, Typed
<1>2. Typed(Refresh(c), rows)
  BY <1>1, RefreshType DEF Typed
<1>3. StepsOf(Refresh(c)) = StepsOf(c) /\ StepsOf(c) \subseteq Step
  BY <1>1, RefreshFrame, PlanSteps DEF StepsOf
<1>4. ASSUME NEW a \in AttemptIds
      PROVE  Anchored(Refresh(c), rows, a)
  BY <1>1, <1>3, RefreshFrame DEF Sound, Anchored
<1>5. ASSUME NEW s \in StepsOf(c)
      PROVE  Awaited(Refresh(c), rows, s)
  BY <1>1, <1>3, RefreshFrame DEF Sound, Awaited
<1> QED
  BY <1>2, <1>3, <1>4, <1>5 DEF Sound

\* Saving a sound document leaves a sound card.
LEMMA RecordSound ==
  ASSUME NEW c, Record(c), Sound(c, attempts')
  PROVE  Sound(card, attempts)'
<1>1. Sound(Refresh(c), attempts')
  BY RefreshSound
<1> QED
  BY <1>1 DEF Record, Sound, Typed, Anchored, Awaited, StepsOf

-----------------------------------------------------------------------------
(* Changes that keep a document sound.                                     *)

\* Edits of the document that move no step and no attempt; the grant may be
\* replaced when nothing is outstanding.
LEMMA EditSound ==
  ASSUME NEW c, NEW d \in Card, NEW rows, Sound(c, rows),
         d.planRevision = c.planRevision, d.plan = c.plan,
         d.authorization.id = c.authorization.id
           \/ \A a \in AttemptIds : rows[a].state \notin OutstandingStates,
         \A s \in Step : /\ d.steps[s].state = c.steps[s].state
                         /\ d.steps[s].attempt = c.steps[s].attempt
  PROVE  Sound(d, rows)
<1>1. c \in Card /\ StepsOf(c) \subseteq Step /\ StepsOf(d) = StepsOf(c)
  BY PlanSteps DEF Sound, Typed, StepsOf
<1>2. ASSUME NEW a \in AttemptIds
      PROVE  Anchored(d, rows, a)
  BY <1>1 DEF Sound, Anchored
<1>3. ASSUME NEW s \in StepsOf(d)
      PROVE  Awaited(d, rows, s)
  BY <1>1 DEF Sound, Awaited
<1> QED
  BY <1>2, <1>3 DEF Sound, Typed

\* Edits of the rows that move no attempt, except from reserved to running.
LEMMA RowsSound ==
  ASSUME NEW c, NEW rows, NEW changed \in [AttemptIds -> Attempt], Sound(c, rows),
         \A a \in AttemptIds :
           /\ \/ changed[a].state = rows[a].state
              \/ {changed[a].state, rows[a].state} \subseteq ActiveStates
           /\ changed[a].step = rows[a].step
           /\ changed[a].planRevision = rows[a].planRevision
           /\ changed[a].managed = rows[a].managed
           /\ changed[a].grant = rows[a].grant
           /\ rows[a].gone => changed[a].gone
  PROVE  Sound(c, changed)
<1>1. ASSUME NEW a \in AttemptIds
      PROVE  Anchored(c, changed, a)
  BY DEF Sound, Anchored, OutstandingStates, ActiveStates
<1>2. ASSUME NEW s \in StepsOf(c)
      PROVE  Awaited(c, changed, s)
  BY DEF Sound, Awaited, ActiveStates
<1> QED
  BY <1>1, <1>2 DEF Sound, Typed, ActiveStates

\* Editing one row, moving no attempt.
LEMMA RowSound ==
  ASSUME NEW c, NEW rows, NEW a \in AttemptIds, NEW r \in Attempt, Sound(c, rows),
         \/ r.state = rows[a].state
         \/ {r.state, rows[a].state} \subseteq ActiveStates,
         r.step = rows[a].step, r.planRevision = rows[a].planRevision,
         r.managed = rows[a].managed, r.grant = rows[a].grant,
         rows[a].gone => r.gone
  PROVE  Sound(c, [rows EXCEPT ![a] = r])
<1> DEFINE R == [rows EXCEPT ![a] = r]
<1>1. rows \in [AttemptIds -> Attempt]
  BY DEF Sound, Typed
<1>2. /\ R \in [AttemptIds -> Attempt]
      /\ R[a] = r /\ \A b \in AttemptIds \ {a} : R[b] = rows[b]
  BY <1>1
<1> HIDE DEF R
<1>3. Sound(c, R)
  BY <1>2, RowsSound
<1> QED
  BY <1>3 DEF R

\* Attempts are numbered from one.
LEMMA AttemptNumbers == \A a \in AttemptIds : a \in Nat /\ a # None
BY DEF AttemptIds, None

\* Naming an attempt in a step record changes its state and its attempt.
LEMMA NamingFacts ==
  ASSUME NEW r \in StepRecord, NEW st \in StepStates, NEW a \in Nat
  PROVE  LET q == Naming(r, st, a) IN
         /\ q \in StepRecord
         /\ q.state = st /\ q.attempt = a
         /\ q.submission = r.submission /\ q.acceptance = r.acceptance
         /\ q.blockers = r.blockers
BY DEF StepRecord, Naming

\* Fencing active attempts, together with their steps.
LEMMA FencedSound ==
  ASSUME NEW c, NEW rows, NEW A \in SUBSET AttemptIds, Sound(c, rows),
         \A a \in A : rows[a].state \in ActiveStates,
         \A a \in AttemptIds : rows[a].step = attempts[a].step
  PROVE  Sound(FencedCard(c, A), FencedRows(rows, A))
<1> DEFINE d == FencedCard(c, A)
           R == FencedRows(rows, A)
<1>1. c \in Card /\ rows \in [AttemptIds -> Attempt] /\ StepsOf(c) \subseteq Step
  BY PlanSteps DEF Sound, Typed
<1>2. \A a \in A : /\ attempts[a].step \in StepsOf(c)
                   /\ c.steps[attempts[a].step].attempt = a
  BY DEF Sound, Anchored, OutstandingStates
<1>3. \A a \in A : AttemptOf(attempts, A, attempts[a].step) = a
  <2> SUFFICES ASSUME NEW a \in A
               PROVE  AttemptOf(attempts, A, attempts[a].step) = a
    OBVIOUS
  <2> DEFINE b == AttemptOf(attempts, A, attempts[a].step)
  <2>1. b \in A /\ attempts[b].step = attempts[a].step
    BY Zenon DEF AttemptOf
  <2> QED
    BY <1>2, <2>1
<1>4. R \in [AttemptIds -> Attempt]
  BY <1>1 DEF FencedRows, Attempt, AttemptStates
<1>11. d.steps = [s \in Step |-> IF \E a \in A : attempts[a].step = s
            THEN Naming(c.steps[s], "recovery_required", AttemptOf(attempts, A, s))
            ELSE c.steps[s]]
  BY <1>1 DEF FencedCard, Card
<1>5. \A s \in Step :
        /\ d.steps[s].attempt = c.steps[s].attempt
        /\ d.steps[s].state = IF \E a \in A : attempts[a].step = s
                              THEN "recovery_required" ELSE c.steps[s].state
  <2>1. ASSUME NEW s \in Step, NEW a \in A, attempts[a].step = s
        PROVE  d.steps[s] = Naming(c.steps[s], "recovery_required", a)
    <3>1. AttemptOf(attempts, A, s) = a
      BY <1>3, <2>1
    <3>2. d.steps[s] = Naming(c.steps[s], "recovery_required", AttemptOf(attempts, A, s))
      BY <1>11, <2>1
    <3> QED
      BY <3>1, <3>2
  <2>2. ASSUME NEW s \in Step, ~ \E a \in A : attempts[a].step = s
        PROVE  d.steps[s] = c.steps[s]
    BY <1>11, <2>2
  <2>3. \A s \in Step : c.steps[s] \in StepRecord
    BY <1>1 DEF Card
  <2>4. ASSUME NEW s \in Step
        PROVE  /\ d.steps[s].attempt = c.steps[s].attempt
               /\ d.steps[s].state = IF \E a \in A : attempts[a].step = s
                                     THEN "recovery_required" ELSE c.steps[s].state
    <3>1. CASE \E a \in A : attempts[a].step = s
      <4>1. PICK a \in A : attempts[a].step = s
        BY <3>1
      <4>2. d.steps[s] = Naming(c.steps[s], "recovery_required", a)
        BY <2>1, <4>1
      <4>3. a \in Nat /\ "recovery_required" \in StepStates
        BY AttemptNumbers DEF StepStates
      <4>4. /\ Naming(c.steps[s], "recovery_required", a).state = "recovery_required"
            /\ Naming(c.steps[s], "recovery_required", a).attempt = a
        BY <2>3, <4>3, NamingFacts
      <4> QED
        BY <1>2, <3>1, <4>1, <4>2, <4>4
    <3>2. CASE ~ \E a \in A : attempts[a].step = s
      BY <2>2, <3>2
    <3> QED
      BY <3>1, <3>2
  <2> QED
    BY <2>4
<1>6. d \in Card
  <2>1. ASSUME NEW s \in Step, NEW a \in A, attempts[a].step = s
        PROVE  Naming(c.steps[s], "recovery_required", AttemptOf(attempts, A, s)) \in StepRecord
    <3>1. AttemptOf(attempts, A, s) = a
      BY <1>3, <2>1
    <3>2. a \in Nat /\ c.steps[s] \in StepRecord
      BY <1>1, AttemptNumbers DEF Card
    <3> QED
      BY <3>1, <3>2, NamingFacts DEF StepStates
  <2>2. [s \in Step |-> IF \E a \in A : attempts[a].step = s
            THEN Naming(c.steps[s], "recovery_required", AttemptOf(attempts, A, s))
            ELSE c.steps[s]] \in [Step -> StepRecord]
    BY <1>1, <2>1 DEF Card
  <2> QED
    BY <1>1, <2>2 DEF FencedCard, Card
<1>7. /\ d.planRevision = c.planRevision /\ d.plan = c.plan
      /\ d.authorization = c.authorization /\ StepsOf(d) = StepsOf(c)
  BY <1>1 DEF FencedCard, Card, StepsOf
<1>8. \A a \in AttemptIds :
        /\ R[a].step = rows[a].step /\ R[a].planRevision = rows[a].planRevision
        /\ R[a].managed = rows[a].managed /\ R[a].grant = rows[a].grant
        /\ R[a].gone = rows[a].gone
        /\ R[a].state = IF a \in A THEN "recovery_required" ELSE rows[a].state
  BY <1>1 DEF FencedRows, Attempt
<1>9. ASSUME NEW a \in AttemptIds
      PROVE  Anchored(d, R, a)
  <2>1. CASE a \in A
    BY <1>1, <1>2, <1>5, <1>7, <1>8, <2>1 DEF Sound, Anchored, OutstandingStates, ActiveStates
  <2>2. CASE a \notin A
    BY <1>1, <1>2, <1>5, <1>7, <1>8, <2>2 DEF Sound, Anchored, OutstandingStates, ActiveStates
  <2> QED
    BY <2>1, <2>2
<1>10. ASSUME NEW s \in StepsOf(d)
       PROVE  Awaited(d, R, s)
  <2>1. CASE \E a \in A : attempts[a].step = s
    BY <1>1, <1>2, <1>5, <1>7, <1>8, <2>1 DEF Sound, Awaited, ActiveStates
  <2>2. CASE ~ \E a \in A : attempts[a].step = s
    BY <1>1, <1>2, <1>5, <1>7, <1>8, <2>2 DEF Sound, Awaited, ActiveStates
  <2> QED
    BY <2>1, <2>2
<1> QED
  BY <1>4, <1>6, <1>7, <1>8, <1>9, <1>10 DEF Sound, Typed, ActiveStates

\* Reserving a new attempt for a step that nobody works on.
LEMMA LaunchSound ==
  ASSUME NEW c, NEW d \in Card, NEW rows, NEW a \in AttemptIds, NEW s \in StepsOf(c),
         NEW r \in Attempt, Sound(c, rows),
         d.planRevision = c.planRevision, d.plan = c.plan,
         d.authorization.id = c.authorization.id,
         \A t \in Step \ {s} : /\ d.steps[t].state = c.steps[t].state
                               /\ d.steps[t].attempt = c.steps[t].attempt,
         d.steps[s].state = "running", d.steps[s].attempt = a,
         c.steps[s].state \notin {"running", "recovery_required"},
         rows[a].state = "none", r.state = "reserved", r.step = s,
         r.planRevision = c.planRevision,
         r.managed => c.authorization.id # None /\ c.authorization.id = r.grant
  PROVE  Sound(d, [rows EXCEPT ![a] = r])
<1> DEFINE R == [rows EXCEPT ![a] = r]
<1>1. /\ c \in Card /\ rows \in [AttemptIds -> Attempt]
      /\ StepsOf(c) \subseteq Step /\ StepsOf(d) = StepsOf(c)
  BY PlanSteps DEF Sound, Typed, StepsOf
<1>2. R \in [AttemptIds -> Attempt]
  BY <1>1
<1>3. R[a] = r /\ \A b \in AttemptIds \ {a} : R[b] = rows[b]
  BY <1>1
<1>4. ASSUME NEW b \in AttemptIds
      PROVE  Anchored(d, R, b)
  <2>1. CASE b = a
    BY <1>1, <1>3, <2>1 DEF Anchored, ActiveStates
  <2>2. CASE b # a
    BY <1>1, <1>3, <2>2 DEF Sound, Anchored, OutstandingStates, ActiveStates
  <2> QED
    BY <2>1, <2>2
<1>5. ASSUME NEW t \in StepsOf(d)
      PROVE  Awaited(d, R, t)
  <2>1. CASE t = s
    BY <1>1, <1>3, <2>1 DEF Awaited, ActiveStates
  <2>2. CASE t # s
    BY <1>1, <1>3, <2>2 DEF Sound, Awaited, ActiveStates
  <2> QED
    BY <2>1, <2>2
<1> HIDE DEF R
<1> QED
  BY <1>2, <1>3, <1>4, <1>5 DEF Sound, Typed, R

\* Settling an attempt with its step: both are finished, or both uncertain.
LEMMA SettleSound ==
  ASSUME NEW c, NEW d \in Card, NEW rows, NEW a \in AttemptIds,
         NEW R \in [AttemptIds -> Attempt], Sound(c, rows),
         rows[a].state \in OutstandingStates,
         d.planRevision = c.planRevision, d.plan = c.plan,
         d.authorization.id = c.authorization.id,
         \A t \in Step : /\ t # rows[a].step => d.steps[t].state = c.steps[t].state
                         /\ d.steps[t].attempt = c.steps[t].attempt,
         \A b \in AttemptIds \ {a} : R[b] = rows[b],
         R[a].step = rows[a].step, R[a].planRevision = rows[a].planRevision,
         R[a].managed = rows[a].managed, R[a].grant = rows[a].grant,
         \/ /\ R[a].state = "recovery_required"
            /\ d.steps[rows[a].step].state = "recovery_required"
         \/ /\ R[a].state \notin OutstandingStates \union {"reconciled"}
            /\ d.steps[rows[a].step].state \notin {"running", "recovery_required"}
  PROVE  Sound(d, R)
<1>1. /\ c \in Card /\ rows \in [AttemptIds -> Attempt]
      /\ StepsOf(c) \subseteq Step /\ StepsOf(d) = StepsOf(c)
  BY PlanSteps DEF Sound, Typed, StepsOf
<1>2. rows[a].step \in StepsOf(c) /\ c.steps[rows[a].step].attempt = a
  BY DEF Sound, Anchored
<1>3. ASSUME NEW b \in AttemptIds
      PROVE  Anchored(d, R, b)
  <2>1. CASE b = a
    BY <1>1, <1>2, <2>1 DEF Sound, Anchored, OutstandingStates, ActiveStates
  <2>2. CASE b # a
    BY <1>1, <1>2, <2>2 DEF Sound, Anchored
  <2> QED
    BY <2>1, <2>2
<1>4. ASSUME NEW t \in StepsOf(d)
      PROVE  Awaited(d, R, t)
  <2>1. CASE t = rows[a].step
    BY <1>1, <1>2, <2>1 DEF Awaited, OutstandingStates
  <2>2. CASE t # rows[a].step
    BY <1>1, <1>2, <2>2 DEF Sound, Awaited
  <2> QED
    BY <2>1, <2>2
<1> QED
  BY <1>3, <1>4 DEF Sound, Typed

\* Disposing of attempts that no longer run and freeing the steps they held.
LEMMA DisposeSound ==
  ASSUME NEW c, NEW d \in Card, NEW rows, NEW A \in SUBSET AttemptIds,
         NEW release \in SUBSET Step,
         NEW R \in [AttemptIds -> Attempt], Sound(c, rows),
         d.planRevision = c.planRevision, d.plan = c.plan,
         d.authorization.id = c.authorization.id,
         \A s \in Step \ release : /\ d.steps[s].state = c.steps[s].state
                                   /\ d.steps[s].attempt = c.steps[s].attempt,
         \A s \in release : d.steps[s].state \notin {"running", "recovery_required"},
         \A s \in release : c.steps[s].attempt \in A,
         \A a \in A : rows[a].state \in OutstandingStates => rows[a].step \in release,
         \A a \in AttemptIds \ A : R[a] = rows[a],
         \A a \in A : R[a].state = "reconciled" /\ R[a].gone
  PROVE  Sound(d, R)
<1>1. /\ c \in Card /\ rows \in [AttemptIds -> Attempt]
      /\ StepsOf(c) \subseteq Step /\ StepsOf(d) = StepsOf(c)
  BY PlanSteps DEF Sound, Typed, StepsOf
<1>2. ASSUME NEW a \in AttemptIds
      PROVE  Anchored(d, R, a)
  <2>1. CASE a \in A
    BY <2>1 DEF Anchored, OutstandingStates, ActiveStates
  <2>2. CASE a \notin A
    BY <1>1, <2>2 DEF Sound, Anchored
  <2> QED
    BY <2>1, <2>2
<1>3. ASSUME NEW s \in StepsOf(d)
      PROVE  Awaited(d, R, s)
  <2>1. CASE s \in release
    BY <2>1 DEF Awaited
  <2>2. CASE s \notin release
    BY <1>1, <2>2 DEF Sound, Awaited, OutstandingStates
  <2> QED
    BY <2>1, <2>2
<1> QED
  BY <1>2, <1>3 DEF Sound, Typed

\* A plan put in force while nothing is outstanding and no step waits.
LEMMA QuietSound ==
  ASSUME NEW d \in Card, NEW rows \in [AttemptIds -> Attempt],
         \A a \in AttemptIds : rows[a].state \notin OutstandingStates,
         \A a \in AttemptIds : rows[a].state = "reconciled" => rows[a].gone,
         \A s \in StepsOf(d) : d.steps[s].state \notin {"running", "recovery_required"}
  PROVE  Sound(d, rows)
BY DEF Sound, Typed, Anchored, Awaited

-----------------------------------------------------------------------------
(* Every operation keeps the card sound.                                   *)

\* What the type of a sound card says of its parts.
LEMMA SoundTyped ==
  ASSUME Sound(card, attempts)
  PROVE  /\ card \in Card /\ attempts \in [AttemptIds -> Attempt]
         /\ StepsOf(card) \subseteq Step
         /\ \A s \in Step : card.steps[s] \in StepRecord
         /\ \A a \in AttemptIds : attempts[a] \in Attempt /\ attempts[a].step \in Step
BY PlanSteps DEF Sound, Typed, Card, Attempt

\* Replacing the record of one step.
LEMMA WithStepFacts ==
  ASSUME NEW c \in Card, NEW s \in Step, NEW r \in StepRecord
  PROVE  LET d == WithStep(c, s, r) IN
         /\ d \in Card
         /\ d.planRevision = c.planRevision /\ d.plan = c.plan
         /\ d.authorization = c.authorization /\ d.status = c.status
         /\ d.proposal = c.proposal /\ d.transition = c.transition
         /\ d.blockers = c.blockers /\ d.agreements = c.agreements
         /\ d.steps[s] = r
         /\ \A t \in Step \ {s} : d.steps[t] = c.steps[t]
BY DEF WithStep, Card

\* Changing the objections against a step moves no attempt.
LEMMA BlockersSound ==
  ASSUME NEW s \in Step, NEW B \in SUBSET Actors, NEW rows, Sound(card, rows)
  PROVE  Sound(WithBlockers(card, s, B), rows)
<1> DEFINE r == [card.steps[s] EXCEPT !.blockers = B]
           d == WithBlockers(card, s, B)
<1>1. card \in Card /\ card.steps[s] \in StepRecord
  BY DEF Sound, Typed, Card
<1>2. /\ r \in StepRecord /\ r.state = card.steps[s].state
      /\ r.attempt = card.steps[s].attempt
  BY <1>1 DEF StepRecord
<1>3. d = WithStep(card, s, r)
  BY DEF WithBlockers
<1> HIDE DEF r, d
<1>4. /\ d \in Card /\ d.planRevision = card.planRevision /\ d.plan = card.plan
      /\ d.authorization = card.authorization
      /\ \A t \in Step : d.steps[t].state = card.steps[t].state
                        /\ d.steps[t].attempt = card.steps[t].attempt
  BY <1>1, <1>2, <1>3, WithStepFacts, SMTT(30)
<1> QED
  BY <1>4, EditSound DEF d

\* Proposing and agreeing on a plan, pausing, and blocking a step or the card.
LEMMA NegotiationSound ==
  ASSUME Sound(card, attempts), Negotiation
  PROVE  Sound(card, attempts)'
<1> USE SoundTyped
<1>1. ASSUME NEW p \in Plans, Propose(p)
      PROVE  Sound(card, attempts)'
  <2> DEFINE d == [card EXCEPT !.proposal =
                     IF p = card.plan THEN NoProposal(card)
                     ELSE [plan |-> p, base |-> card.planRevision]]
  <2>1. d \in Card
    BY DEF Card, NoProposal, None
  <2>2. Sound(d, attempts)
    BY <2>1, EditSound DEF Card
  <2> QED
    BY <1>1, <2>2, RecordSound DEF Propose
<1>2. ASSUME NEW actor \in Principals, Agree(actor)
      PROVE  Sound(card, attempts)'
  <2> DEFINE d == [card EXCEPT !.agreements[actor] = card.planRevision]
  <2>1. d \in Card
    BY DEF Card
  <2>2. Sound(d, attempts)
    BY <2>1, EditSound DEF Card
  <2> QED
    BY <1>2, <2>2, RecordSound DEF Agree
<1>3. ASSUME Pause
      PROVE  Sound(card, attempts)'
  <2> DEFINE f == FencedCard(card, ActiveAttempts)
             d == [f EXCEPT !.status = "paused"]
             R == FencedRows(attempts, ActiveAttempts)
  <2>1. Sound(f, R)
    BY FencedSound DEF ActiveAttempts, Active
  <2>2. f \in Card
    BY <2>1 DEF Sound, Typed
  <2> HIDE DEF f
  <2>3. d \in Card
    BY <2>2 DEF Card, CardStates
  <2>4. Sound(d, R)
    BY <2>1, <2>2, <2>3, EditSound DEF Card
  <2> QED
    BY <1>3, <2>4, RecordSound DEF Pause, f
<1>4. ASSUME Resume
      PROVE  Sound(card, attempts)'
  <2> DEFINE d == [card EXCEPT !.status = "draft"]
  <2>1. d \in Card
    BY DEF Card, CardStates
  <2>2. Sound(d, attempts)
    BY <2>1, EditSound DEF Card
  <2> QED
    BY <1>4, <2>2, RecordSound DEF Resume
<1>5. ASSUME NEW actor \in BlockAuthors, NEW s \in Step, NEW bound \in BOOLEAN,
             Block(actor, s, bound)
      PROVE  Sound(card, attempts)'
  <2> DEFINE a == card.steps[s].attempt
             d == WithBlockers(card, s, card.steps[s].blockers \union {actor})
             A == {b \in AttemptIds : b = a /\ Active(b)}
  <2>1. card.steps[s].blockers \union {actor} \in SUBSET Actors
    BY BoundsAssumption DEF StepRecord
  <2>2. Sound(d, attempts)
    BY <2>1, BlockersSound
  <2> HIDE DEF d
  <2>3. CASE bound
    <3> DEFINE r == [attempts[a] EXCEPT !.blockIntent = TRUE]
    <3>1. a \in AttemptIds /\ Record(d) /\ attempts' = [attempts EXCEPT ![a] = r]
      BY <1>5, <2>3 DEF Block, d
    <3>2. attempts[a] \in Attempt
      BY <3>1
    <3>3. /\ r \in Attempt /\ r.state = attempts[a].state /\ r.step = attempts[a].step
          /\ r.planRevision = attempts[a].planRevision /\ r.gone = attempts[a].gone
          /\ r.managed = attempts[a].managed /\ r.grant = attempts[a].grant
      BY <3>2 DEF Attempt
    <3> HIDE DEF r, a
    <3>4. Sound(d, [attempts EXCEPT ![a] = r])
      BY <2>2, <3>1, <3>3, RowSound
    <3> QED
      BY <3>1, <3>4, RecordSound
  <2>4. CASE ~bound
    <3>1. Record(FencedCard(d, A)) /\ attempts' = FencedRows(attempts, A)
      BY <1>5, <2>4 DEF Block, d
    <3>2. Sound(FencedCard(d, A), FencedRows(attempts, A))
      BY <2>2, FencedSound DEF Active
    <3> QED
      BY <3>1, <3>2, RecordSound
  <2> QED
    BY <2>3, <2>4
<1>6. ASSUME NEW actor \in Actors, NEW author \in Actors, NEW s \in Step,
             UnblockStep(actor, author, s)
      PROVE  Sound(card, attempts)'
  <2> DEFINE d == WithBlockers(card, s, card.steps[s].blockers \ {author})
  <2>1. card.steps[s].blockers \ {author} \in SUBSET Actors
    BY DEF StepRecord
  <2>2. Sound(d, attempts)
    BY <2>1, BlockersSound
  <2> QED
    BY <1>6, <2>2, RecordSound DEF UnblockStep
<1>7. ASSUME NEW actor \in Actors, NEW author \in Actors, UnblockCard(actor, author)
      PROVE  Sound(card, attempts)'
  <2> DEFINE d == [card EXCEPT !.blockers = @ \ {author}]
  <2>1. d \in Card
    BY DEF Card
  <2>2. Sound(d, attempts)
    BY <2>1, EditSound DEF Card
  <2> QED
    BY <1>7, <2>2, RecordSound DEF UnblockCard
<1> QED
  BY <1>1, <1>2, <1>3, <1>4, <1>5, <1>6, <1>7 DEF Negotiation

\* A revoked grant is the same grant, revoked.
LEMMA RevokedGrantFacts ==
  ASSUME NEW g \in Grant
  PROVE  RevokedGrant(g) \in Grant /\ RevokedGrant(g).id = g.id
BY DEF RevokedGrant, Grant

\* The step a claim reserves is nobody's, and it exists.
LEMMA ClaimableFacts ==
  ASSUME NEW s, Claimable(s)
  PROVE  s \in StepsOf(card)
         /\ card.steps[s].state \notin {"running", "recovery_required"}
BY DEF Claimable

\* A reservation of step s by attempt a keeps the card sound.
LEMMA ReservationSound ==
  ASSUME Sound(card, attempts), NEW a \in AttemptIds, NEW s \in Step,
         NEW actor \in Principals, NEW managed \in BOOLEAN, NEW envelope \in Nat,
         NEW grant \in Grant, grant.id = card.authorization.id,
         managed => card.authorization.id # None,
         IsNew(a), Claimable(s)
  PROVE  Sound([StepRunning(s, a) EXCEPT !.authorization = grant],
               Reserved(a, s, actor, managed, envelope))
<1> DEFINE q == Naming(card.steps[s], "running", a)
           c == StepRunning(s, a)
           d == [c EXCEPT !.authorization = grant]
           r == Reserved(a, s, actor, managed, envelope)[a]
<1>1. /\ card \in Card /\ attempts \in [AttemptIds -> Attempt]
      /\ card.steps[s] \in StepRecord /\ card.authorization \in Grant
  BY SoundTyped DEF Card
<1>2. q \in StepRecord /\ q.state = "running" /\ q.attempt = a
  <2>1. a \in Nat /\ "running" \in StepStates
    BY AttemptNumbers DEF StepStates
  <2> QED
    BY <1>1, <2>1, NamingFacts
<1>3. c = WithStep(card, s, q)
  BY DEF StepRunning
<1> HIDE DEF q, c
<1>4. /\ c \in Card /\ c.planRevision = card.planRevision /\ c.plan = card.plan
      /\ c.steps[s] = q /\ \A t \in Step \ {s} : c.steps[t] = card.steps[t]
  BY <1>1, <1>2, <1>3, WithStepFacts
<1>5. /\ d \in Card /\ d.planRevision = card.planRevision /\ d.plan = card.plan
      /\ d.steps = c.steps /\ d.authorization = grant
  BY <1>4 DEF Card
<1> HIDE DEF d
<1>6. /\ Reserved(a, s, actor, managed, envelope) = [attempts EXCEPT ![a] = r]
      /\ r.state = "reserved" /\ r.step = s /\ r.managed = managed
      /\ r.planRevision = card.planRevision
      /\ managed => r.grant = card.authorization.id
  BY <1>1 DEF Reserved
<1>7. r \in Attempt
  <2>1. KindOf(s) \in {"implement", "review"}
    BY DEF KindOf
  <2>2. /\ card.planRevision \in Nat /\ card.authorization.id \in Nat
        /\ card.steps[s].submission \in Nat
    BY <1>1 DEF Card, Grant, StepRecord
  <2> QED
    BY <1>1, <2>1, <2>2 DEF Reserved, Attempt, AttemptStates, ActiveStates, None
<1> HIDE DEF r
<1>8. attempts[a].state = "none"
  BY DEF IsNew
<1>9. Sound(d, [attempts EXCEPT ![a] = r])
  <2>1. /\ s \in StepsOf(card)
        /\ card.steps[s].state \notin {"running", "recovery_required"}
    BY ClaimableFacts
  <2>2. d.authorization.id = card.authorization.id
    BY <1>5
  <2>3. \A t \in Step \ {s} : /\ d.steps[t].state = card.steps[t].state
                              /\ d.steps[t].attempt = card.steps[t].attempt
    BY <1>4, <1>5
  <2>4. d.steps[s].state = "running" /\ d.steps[s].attempt = a
    BY <1>2, <1>4, <1>5
  <2>5. r.managed => card.authorization.id # None /\ card.authorization.id = r.grant
    BY <1>6, Zenon
  <2> QED
    BY <1>5, <1>6, <1>7, <1>8, <2>1, <2>2, <2>3, <2>4, <2>5, LaunchSound, ZenonT(120)
<1> QED
  BY <1>6, <1>9 DEF d, c

\* Authorizing a plan, revoking the grant, and claiming or reserving a step.
LEMMA LaunchingSound ==
  ASSUME Sound(card, attempts), Launching
  PROVE  Sound(card, attempts)'
<1> USE SoundTyped
<1>1. ASSUME Authorize
      PROVE  Sound(card, attempts)'
  <2> DEFINE g == [id |-> card.authorization.id + 1, planRevision |-> card.planRevision,
                   revoked |-> FALSE, due |-> FALSE, unknownCost |-> FALSE,
                   launches |-> 0, used |-> 0]
             d == [card EXCEPT !.authorization = g]
  <2>1. card.planRevision \in Nat /\ card.authorization \in Grant
    BY DEF Card
  <2>2. g \in Grant
    BY <2>1 DEF Grant
  <2>3. Record(d) /\ attempts' = attempts
    BY <1>1 DEF Authorize
  <2>4. \A a \in AttemptIds : attempts[a].state \notin OutstandingStates
    BY <1>1 DEF Authorize, OutstandingAttempts, Outstanding, Active, Uncertain,
                OutstandingStates
  <2> HIDE DEF g
  <2>5. /\ d \in Card /\ d.planRevision = card.planRevision /\ d.plan = card.plan
        /\ d.steps = card.steps
    BY <2>2 DEF Card
  <2> HIDE DEF d
  <2>6. Sound(d, attempts)
    BY <2>4, <2>5, EditSound
  <2> QED
    BY <2>3, <2>6, RecordSound
<1>2. ASSUME Revoke
      PROVE  Sound(card, attempts)'
  <2> DEFINE f == FencedCard(card, ActiveAttempts)
             g == RevokedGrant(card.authorization)
             d == [f EXCEPT !.authorization = g]
             R == FencedRows(attempts, ActiveAttempts)
  <2>1. Sound(f, R)
    BY FencedSound DEF ActiveAttempts, Active
  <2>2. f \in Card /\ f.authorization = card.authorization
    BY <2>1 DEF Sound, Typed, FencedCard, Card
  <2>3. g \in Grant /\ g.id = card.authorization.id
    BY RevokedGrantFacts DEF Card
  <2>4. Record(d) /\ attempts' = R
    BY <1>2 DEF Revoke
  <2> HIDE DEF f, g
  <2>5. /\ d \in Card /\ d.planRevision = f.planRevision /\ d.plan = f.plan
        /\ d.steps = f.steps /\ d.authorization.id = f.authorization.id
    BY <2>2, <2>3 DEF Card
  <2> HIDE DEF d
  <2>6. Sound(d, R)
    BY <2>1, <2>5, EditSound
  <2> QED
    BY <2>4, <2>6, RecordSound
<1>3. ASSUME NEW a \in AttemptIds, NEW s \in Step, NEW actor \in Principals,
             Claim(a, s, actor)
      PROVE  Sound(card, attempts)'
  <2> DEFINE c == StepRunning(s, a)
             d == [c EXCEPT !.authorization = card.authorization]
             R == Reserved(a, s, actor, FALSE, 0)
  <2>1. Record(c) /\ attempts' = R /\ IsNew(a) /\ Claimable(s)
    BY <1>3 DEF Claim
  <2>2. card.authorization \in Grant
    BY DEF Card
  <2>3. Sound(d, R)
    BY <2>1, <2>2, ReservationSound, ZenonT(60)
  <2>4. d = c
    BY DEF StepRunning, WithStep, Card
  <2> HIDE DEF c, d, R
  <2>5. Sound(c, R)
    BY <2>3, <2>4
  <2> QED
    BY <2>1, <2>5, RecordSound
<1>4. ASSUME NEW a \in AttemptIds, NEW s \in Step, NEW envelope \in 1..MaxAttemptCost,
             Reserve(a, s, envelope)
      PROVE  Sound(card, attempts)'
  <2> DEFINE g == [card.authorization EXCEPT !.launches = @ + 1]
             d == [StepRunning(s, a) EXCEPT !.authorization = g]
             R == Reserved(a, s, PrincipalFor(s), TRUE, envelope)
  <2>1. Record(d) /\ attempts' = R
    BY <1>4 DEF Reserve
  <2>2. IsNew(a) /\ Claimable(s) /\ card.authorization.id # None
    BY <1>4 DEF Reserve
  <2>3. PrincipalFor(s) \in Principals /\ envelope \in Nat
    BY RolesAssumption, BoundsAssumption DEF PrincipalFor
  <2>4. card.authorization \in Grant
    BY DEF Card
  <2>5. g \in Grant /\ g.id = card.authorization.id
    BY <2>4 DEF Grant
  <2> HIDE DEF g
  <2>6. Sound(d, R)
    BY <2>2, <2>3, <2>5, ReservationSound, ZenonT(60)
  <2> QED
    BY <2>1, <2>6, RecordSound
<1> QED
  BY <1>1, <1>2, <1>3, <1>4 DEF Launching

\* A verdict changes the state of one step, and names no other attempt.
LEMMA DecidedFacts ==
  ASSUME NEW c \in Card, NEW a \in AttemptIds, NEW verdict, attempts[a].step \in Step
  PROVE  LET d == Decided(c, a, verdict) IN
         /\ d \in Card /\ d.planRevision = c.planRevision /\ d.plan = c.plan
         /\ d.authorization = c.authorization
         /\ d.steps[attempts[a].step].state \notin {"running", "recovery_required"}
         /\ d.steps[attempts[a].step].attempt = c.steps[attempts[a].step].attempt
         /\ \A t \in Step \ {attempts[a].step} : d.steps[t] = c.steps[t]
<1> DEFINE s == attempts[a].step
           accepted == [c.steps[s] EXCEPT !.state = "accepted", !.acceptance = a]
           rejected == [c.steps[s] EXCEPT !.state = "changes_requested",
                                          !.acceptance = None, !.submission = None]
           r == IF verdict = "accept" THEN accepted ELSE rejected
           d == WithStep(c, s, r)
<1>1. c.steps[s] \in StepRecord /\ a \in Nat
  BY AttemptNumbers DEF Card
<1>2. accepted \in StepRecord /\ accepted.state = "accepted"
      /\ accepted.attempt = c.steps[s].attempt
  BY <1>1 DEF StepRecord, StepStates
<1>3. rejected \in StepRecord /\ rejected.state = "changes_requested"
      /\ rejected.attempt = c.steps[s].attempt
  BY <1>1 DEF StepRecord, StepStates, None
<1> HIDE DEF accepted, rejected
<1>4. /\ r \in StepRecord /\ r.attempt = c.steps[s].attempt
      /\ r.state \notin {"running", "recovery_required"}
  BY <1>2, <1>3
<1>5. Decided(c, a, verdict) = d
  BY DEF Decided, accepted, rejected
<1> HIDE DEF r
<1>6. /\ d \in Card /\ d.planRevision = c.planRevision /\ d.plan = c.plan
      /\ d.authorization = c.authorization /\ d.steps[s] = r
      /\ \A t \in Step \ {s} : d.steps[t] = c.steps[t]
  BY <1>4, WithStepFacts
<1> HIDE DEF d
<1> QED
  BY <1>4, <1>5, <1>6

\* Charging an attempt touches the books of the grant only.
LEMMA ChargedFacts ==
  ASSUME NEW c \in Card, NEW a \in AttemptIds, NEW known \in BOOLEAN, NEW cost \in Nat
  PROVE  LET d == Charged(c, a, known, cost) IN
         /\ d \in Card /\ d.planRevision = c.planRevision /\ d.plan = c.plan
         /\ d.authorization.id = c.authorization.id /\ d.steps = c.steps
<1> DEFINE g == c.authorization
           paid == [g EXCEPT !.used = @ + cost]
           unpaid == [g EXCEPT !.unknownCost = TRUE]
<1>1. g \in Grant
  BY DEF Card
<1>2. paid \in Grant /\ paid.id = g.id /\ unpaid \in Grant /\ unpaid.id = g.id
  <2> DEFINE total == g.used + cost
  <2>1. total \in Nat
    BY <1>1 DEF Grant
  <2>2. paid = [g EXCEPT !.used = total]
    OBVIOUS
  <2> HIDE DEF total, g
  <2>3. paid \in Grant /\ paid.id = g.id
    BY <1>1, <2>1, <2>2 DEF Grant
  <2>4. unpaid \in Grant /\ unpaid.id = g.id
    BY <1>1 DEF Grant
  <2> QED
    BY <2>3, <2>4
<1>3. Charged(c, a, known, cost) \in
        {c, [c EXCEPT !.authorization = paid], [c EXCEPT !.authorization = unpaid]}
  BY DEF Charged
<1> HIDE DEF paid, unpaid
<1>4. ASSUME NEW h \in Grant, h.id = g.id
      PROVE  LET d == [c EXCEPT !.authorization = h] IN
             /\ d \in Card /\ d.planRevision = c.planRevision /\ d.plan = c.plan
             /\ d.authorization.id = c.authorization.id /\ d.steps = c.steps
  BY <1>4 DEF Card
<1> QED
  BY <1>2, <1>3, <1>4

\* The end of an outstanding attempt, before it is charged.
LEMMA SettledSound ==
  ASSUME Sound(card, attempts), NEW a \in AttemptIds, Outstanding(a),
         NEW outcome, NEW known \in BOOLEAN, NEW output \in BOOLEAN,
         NEW r \in Attempt,
         r.state = Settled(a, outcome, known, output).state,
         r.step = attempts[a].step, r.planRevision = attempts[a].planRevision,
         r.managed = attempts[a].managed, r.grant = attempts[a].grant
  PROVE  Sound(Settled(a, outcome, known, output).card, [attempts EXCEPT ![a] = r])
<1> DEFINE s == attempts[a].step
           st == card.steps[s]
           published == [st EXCEPT !.submission = a, !.acceptance = None, !.state = "review"]
           blocked == [st EXCEPT !.state = "blocked", !.acceptance = None]
           uncertain == [st EXCEPT !.state = "recovery_required", !.acceptance = None]
           z == Settled(a, outcome, known, output)
           R == [attempts EXCEPT ![a] = r]
<1>1. /\ card \in Card /\ attempts \in [AttemptIds -> Attempt] /\ s \in Step
      /\ st \in StepRecord /\ a \in Nat
  BY SoundTyped, AttemptNumbers
<1>2. /\ published \in StepRecord /\ published.state = "review"
      /\ published.attempt = st.attempt
  BY <1>1 DEF StepRecord, StepStates, None
<1>3. /\ blocked \in StepRecord /\ blocked.state = "blocked"
      /\ blocked.attempt = st.attempt
  BY <1>1 DEF StepRecord, StepStates, None
<1>4. /\ uncertain \in StepRecord /\ uncertain.state = "recovery_required"
      /\ uncertain.attempt = st.attempt
  BY <1>1 DEF StepRecord, StepStates, None
<1>5. \/ z.state = "succeeded" /\ z.card = WithStep(card, s, published)
      \/ z.state = "blocked" /\ z.card = WithStep(card, s, blocked)
      \/ z.state = "succeeded" /\ z.card = Decided(card, a, attempts[a].verdict)
      \/ z.state = "recovery_required" /\ z.card = WithStep(card, s, uncertain)
  BY DEF Settled
<1> HIDE DEF published, blocked, uncertain, z
<1>6. /\ z.card \in Card /\ z.card.planRevision = card.planRevision
      /\ z.card.plan = card.plan /\ z.card.authorization = card.authorization
      /\ \A t \in Step \ {s} : z.card.steps[t] = card.steps[t]
      /\ z.card.steps[s].attempt = card.steps[s].attempt
      /\ \/ /\ z.state = "recovery_required"
            /\ z.card.steps[s].state = "recovery_required"
         \/ /\ z.state \in {"succeeded", "blocked"}
            /\ z.card.steps[s].state \notin {"running", "recovery_required"}
  <2>1. CASE z.state = "succeeded" /\ z.card = WithStep(card, s, published)
    BY <1>1, <1>2, <2>1, WithStepFacts
  <2>2. CASE z.state = "blocked" /\ z.card = WithStep(card, s, blocked)
    BY <1>1, <1>3, <2>2, WithStepFacts
  <2>3. CASE z.state = "succeeded" /\ z.card = Decided(card, a, attempts[a].verdict)
    BY <1>1, <2>3, DecidedFacts
  <2>4. CASE z.state = "recovery_required" /\ z.card = WithStep(card, s, uncertain)
    BY <1>1, <1>4, <2>4, WithStepFacts
  <2> QED
    BY <1>5, <2>1, <2>2, <2>3, <2>4
<1>7. /\ R \in [AttemptIds -> Attempt]
      /\ R[a] = r /\ \A b \in AttemptIds \ {a} : R[b] = attempts[b]
  BY <1>1
<1>8. r.state = z.state /\ attempts[a].state \in OutstandingStates
  BY DEF z, Outstanding, Active, Uncertain, OutstandingStates
<1> HIDE DEF R
<1>9. \A t \in Step : /\ t # attempts[a].step => z.card.steps[t].state = card.steps[t].state
                      /\ z.card.steps[t].attempt = card.steps[t].attempt
  BY <1>6
<1>10. \/ /\ R[a].state = "recovery_required"
          /\ z.card.steps[attempts[a].step].state = "recovery_required"
       \/ /\ R[a].state \notin OutstandingStates \union {"reconciled"}
          /\ z.card.steps[attempts[a].step].state \notin {"running", "recovery_required"}
  BY <1>6, <1>7, <1>8 DEF OutstandingStates, ActiveStates
<1>11. z.card \in Card /\ z.card.planRevision = card.planRevision /\ z.card.plan = card.plan
       /\ z.card.authorization.id = card.authorization.id
  BY <1>6
<1>12. /\ R[a].step = attempts[a].step /\ R[a].planRevision = attempts[a].planRevision
       /\ R[a].managed = attempts[a].managed /\ R[a].grant = attempts[a].grant
  BY <1>7
<1>13. Sound(z.card, R)
  BY <1>7, <1>8, <1>9, <1>10, <1>11, <1>12, SettleSound, SMTT(60)
<1> QED
  BY <1>13 DEF z, R

\* Fencing the other attempts of the card and pausing it.
LEMMA FinishPausedSound ==
  ASSUME NEW c, NEW rows, NEW A \in SUBSET AttemptIds, Sound(c, rows),
         \A b \in A : rows[b].state \in ActiveStates,
         \A b \in AttemptIds : rows[b].step = attempts[b].step
  PROVE  Sound([FencedCard(c, A) EXCEPT !.status = "paused"], FencedRows(rows, A))
<1> DEFINE f == FencedCard(c, A)
           d == [f EXCEPT !.status = "paused"]
           R == FencedRows(rows, A)
<1>1. Sound(f, R)
  BY FencedSound
<1>2. f \in Card
  BY <1>1 DEF Sound, Typed
<1> HIDE DEF f, R
<1>3. /\ d \in Card /\ d.planRevision = f.planRevision /\ d.plan = f.plan
      /\ d.steps = f.steps /\ d.authorization = f.authorization
  BY <1>2 DEF Card, CardStates
<1> HIDE DEF d
<1>4. Sound(d, R)
  BY <1>1, <1>3, EditSound
<1> QED
  BY <1>4 DEF d, f, R

\* An attempt that ends with a report, a failure or no answer settles its own step.
LEMMA FinishAttemptSound ==
  ASSUME Sound(card, attempts), NEW a \in AttemptIds,
         NEW outcome, NEW known \in BOOLEAN, NEW cost \in Costs, NEW output \in BOOLEAN,
         FinishAttempt(a, outcome, known, cost, output)
  PROVE  Sound(card, attempts)'
<1> DEFINE z == Settled(a, outcome, known, output)
           charged == Charged(z.card, a, known, cost)
           r == [attempts[a] EXCEPT !.state = z.state,
                   !.cost = IF known THEN "known" ELSE "unknown",
                   !.spend = IF known THEN cost ELSE @]
           rows == [attempts EXCEPT ![a] = r]
           others == ActiveAttempts \ {a}
<1>1. attempts[a] \in Attempt /\ attempts \in [AttemptIds -> Attempt] /\ cost \in Nat
  BY SoundTyped, BoundsAssumption
<1>2. z.state \in AttemptStates
  BY DEF Settled, AttemptStates
<1>3. /\ Outstanding(a)
      /\ IF attempts[a].managed /\ ~known
         THEN /\ Record([FencedCard(charged, others) EXCEPT !.status = "paused"])
              /\ attempts' = FencedRows(rows, others)
         ELSE Record(charged) /\ attempts' = rows
  BY <1>1 DEF FinishAttempt
<1> HIDE DEF z
<1>4. /\ r \in Attempt /\ r.state = z.state /\ r.step = attempts[a].step
      /\ r.planRevision = attempts[a].planRevision
      /\ r.managed = attempts[a].managed /\ r.grant = attempts[a].grant
  <2> DEFINE price == IF known THEN cost ELSE attempts[a].spend
             fate == IF known THEN "known" ELSE "unknown"
  <2>1. price \in Nat /\ fate \in {"open", "known", "unknown"}
    BY <1>1 DEF Attempt
  <2>2. r = [attempts[a] EXCEPT !.state = z.state, !.cost = fate, !.spend = price]
    BY <1>1
  <2> HIDE DEF price, fate, r
  <2> QED
    BY <1>1, <1>2, <2>1, <2>2 DEF Attempt
<1> HIDE DEF r
<1>5. Sound(z.card, rows)
  BY <1>3, <1>4, SettledSound DEF z
<1>6. Sound(charged, rows)
  <2>1. z.card \in Card
    BY <1>5 DEF Sound, Typed
  <2>2. /\ charged \in Card /\ charged.planRevision = z.card.planRevision
        /\ charged.plan = z.card.plan /\ charged.steps = z.card.steps
        /\ charged.authorization.id = z.card.authorization.id
    BY <1>1, <2>1, ChargedFacts
  <2> HIDE DEF charged
  <2> QED
    BY <1>5, <2>2, EditSound, ZenonT(60)
<1>7. /\ \A b \in others : rows[b].state \in ActiveStates
      /\ \A b \in AttemptIds : rows[b].step = attempts[b].step
      /\ others \in SUBSET AttemptIds
  BY <1>1, <1>4 DEF ActiveAttempts, Active
<1> HIDE DEF charged, rows, others
<1>8. CASE attempts[a].managed /\ ~known
  <2>1. Record([FencedCard(charged, others) EXCEPT !.status = "paused"])
        /\ attempts' = FencedRows(rows, others)
    BY <1>3, <1>8
  <2>2. Sound([FencedCard(charged, others) EXCEPT !.status = "paused"],
              FencedRows(rows, others))
    BY <1>6, <1>7, FinishPausedSound
  <2> QED
    BY <2>1, <2>2, RecordSound
<1>9. CASE ~(attempts[a].managed /\ ~known)
  <2>1. Record(charged) /\ attempts' = rows
    BY <1>3, <1>9
  <2> QED
    BY <1>6, <2>1, RecordSound
<1> QED
  BY <1>8, <1>9

\* Starting, submitting, comparing, reporting, deciding and ending an attempt.
LEMMA WorkingSound ==
  ASSUME Sound(card, attempts), Working
  PROVE  Sound(card, attempts)'
<1> USE SoundTyped
<1>1. PICK a \in AttemptIds :
        \/ Started(a) \/ Submit(a) \/ Compare(a) \/ BlockReviewContext(a)
        \/ \E outcome \in {"success", "other"} : Report(a, outcome)
        \/ \E verdict \in {"accept", "reject"} : Decide(a, verdict)
        \/ \E outcome \in {"success", "blocked", "failed"}, known \in BOOLEAN,
              cost \in Costs, output \in BOOLEAN :
             FinishAttempt(a, outcome, known, cost, output)
  BY DEF Working
<1> DEFINE r == attempts[a]
<1>2. r \in Attempt
  OBVIOUS
\* A record of row a that moves no attempt, on the card as it is.
<1>3. ASSUME NEW q \in Attempt, Record(card), attempts' = [attempts EXCEPT ![a] = q],
             q.state = r.state \/ {q.state, r.state} \subseteq ActiveStates,
             q.step = r.step, q.planRevision = r.planRevision,
             q.managed = r.managed, q.grant = r.grant, q.gone = r.gone
      PROVE  Sound(card, attempts)'
  <2>1. Sound(card, [attempts EXCEPT ![a] = q])
    BY <1>3, RowSound
  <2> QED
    BY <1>3, <2>1, RecordSound
<1>4. CASE Started(a)
  <2> DEFINE q == [r EXCEPT !.state = "running"]
  <2>1. /\ q \in Attempt /\ q.state = "running" /\ q.step = r.step
        /\ q.planRevision = r.planRevision /\ q.managed = r.managed
        /\ q.grant = r.grant /\ q.gone = r.gone
    BY <1>2 DEF Attempt, AttemptStates, ActiveStates
  <2>2. Record(card) /\ attempts' = [attempts EXCEPT ![a] = q] /\ r.state \in ActiveStates
    BY <1>4 DEF Started, Authenticated, Active
  <2> HIDE DEF q
  <2> QED
    BY <1>3, <2>1, <2>2 DEF ActiveStates
<1>5. CASE Submit(a)
  <2> DEFINE q == [r EXCEPT !.intent = TRUE]
  <2>1. /\ q \in Attempt /\ q.state = r.state /\ q.step = r.step
        /\ q.planRevision = r.planRevision /\ q.managed = r.managed
        /\ q.grant = r.grant /\ q.gone = r.gone
    BY <1>2 DEF Attempt
  <2>2. Record(card) /\ attempts' = [attempts EXCEPT ![a] = q]
    BY <1>5 DEF Submit
  <2> HIDE DEF q
  <2> QED
    BY <1>3, <2>1, <2>2
<1>6. CASE Compare(a)
  <2> DEFINE q == [r EXCEPT !.stage = "comparison"]
  <2>1. /\ q \in Attempt /\ q.state = r.state /\ q.step = r.step
        /\ q.planRevision = r.planRevision /\ q.managed = r.managed
        /\ q.grant = r.grant /\ q.gone = r.gone
    BY <1>2 DEF Attempt
  <2>2. Record(card) /\ attempts' = [attempts EXCEPT ![a] = q]
    BY <1>6 DEF Compare
  <2> HIDE DEF q
  <2> QED
    BY <1>3, <2>1, <2>2
<1>7. CASE BlockReviewContext(a)
  <2> DEFINE q == [r EXCEPT !.stage = "blocked", !.blockIntent = TRUE]
             B == card.steps[r.step].blockers \union {r.actor}
             d == WithBlockers(card, r.step, B)
  <2>1. /\ q \in Attempt /\ q.state = r.state /\ q.step = r.step
        /\ q.planRevision = r.planRevision /\ q.managed = r.managed
        /\ q.grant = r.grant /\ q.gone = r.gone
    BY <1>2 DEF Attempt
  <2>2. Record(d) /\ attempts' = [attempts EXCEPT ![a] = q]
    BY <1>7 DEF BlockReviewContext
  <2>3. r.step \in Step /\ B \in SUBSET Actors
    BY <1>2 DEF Attempt, StepRecord, Actors
  <2>4. Sound(d, attempts)
    BY <2>3, BlockersSound
  <2> HIDE DEF q, d
  <2>5. Sound(d, [attempts EXCEPT ![a] = q])
    BY <2>1, <2>4, RowSound
  <2> QED
    BY <2>2, <2>5, RecordSound
<1>8. ASSUME NEW outcome \in {"success", "other"}, Report(a, outcome)
      PROVE  Sound(card, attempts)'
  <2> DEFINE q == [r EXCEPT !.report = outcome]
  <2>1. /\ q \in Attempt /\ q.state = r.state /\ q.step = r.step
        /\ q.planRevision = r.planRevision /\ q.managed = r.managed
        /\ q.grant = r.grant /\ q.gone = r.gone
    BY <1>2 DEF Attempt
  <2>2. Record(card) /\ attempts' = [attempts EXCEPT ![a] = q]
    BY <1>8 DEF Report
  <2> HIDE DEF q
  <2> QED
    BY <1>3, <2>1, <2>2
<1>9. ASSUME NEW verdict \in {"accept", "reject"}, Decide(a, verdict)
      PROVE  Sound(card, attempts)'
  <2>1. CASE attempts[a].managed
    <3> DEFINE q == [r EXCEPT !.verdict = verdict]
    <3>1. /\ q \in Attempt /\ q.state = r.state /\ q.step = r.step
          /\ q.planRevision = r.planRevision /\ q.managed = r.managed
          /\ q.grant = r.grant /\ q.gone = r.gone
      BY <1>2 DEF Attempt
    <3>2. Record(card) /\ attempts' = [attempts EXCEPT ![a] = q]
      BY <1>9, <2>1 DEF Decide
    <3> HIDE DEF q
    <3> QED
      BY <1>3, <3>1, <3>2
  <2>2. CASE ~attempts[a].managed
    <3> DEFINE q == [r EXCEPT !.verdict = verdict, !.state = "succeeded",
                              !.cost = "unknown"]
               d == Decided(card, a, verdict)
               R == [attempts EXCEPT ![a] = q]
    <3>1. /\ q \in Attempt /\ q.state = "succeeded" /\ q.step = r.step
          /\ q.planRevision = r.planRevision /\ q.managed = r.managed
          /\ q.grant = r.grant
      BY <1>2, ZenonT(60) DEF Attempt, AttemptStates
    <3>2. Record(d) /\ attempts' = R /\ r.state \in OutstandingStates
      BY <1>9, <2>2 DEF Decide, Authenticated, Active, OutstandingStates
    <3> HIDE DEF q
    <3>3. /\ R \in [AttemptIds -> Attempt]
          /\ R[a] = q /\ \A b \in AttemptIds \ {a} : R[b] = attempts[b]
      BY <3>1
    <3>4. /\ d \in Card /\ d.planRevision = card.planRevision /\ d.plan = card.plan
          /\ d.authorization = card.authorization
          /\ d.steps[r.step].state \notin {"running", "recovery_required"}
          /\ \A t \in Step : /\ t # r.step => d.steps[t].state = card.steps[t].state
                            /\ d.steps[t].attempt = card.steps[t].attempt
      BY DecidedFacts
    <3>5. q.state \notin OutstandingStates \union {"reconciled"}
      BY <3>1 DEF OutstandingStates, ActiveStates
    <3> HIDE DEF d, R
    <3>6. Sound(d, R)
      BY <3>1, <3>2, <3>3, <3>4, <3>5, SettleSound, SMTT(30)
    <3> QED
      BY <3>2, <3>6, RecordSound
  <2> QED
    BY <2>1, <2>2
<1> QED
  BY <1>1, <1>4, <1>5, <1>6, <1>7, <1>8, <1>9, FinishAttemptSound, ZenonT(60)

\* A grant that runs out, a lease that is lost, and an owner that is recovered.
LEMMA LosingSound ==
  ASSUME Sound(card, attempts), Losing
  PROVE  Sound(card, attempts)'
<1> USE SoundTyped
<1>1. ASSUME GrantElapses
      PROVE  Sound(card, attempts)'
  <2> DEFINE g == [card.authorization EXCEPT !.due = TRUE]
             d == [card EXCEPT !.authorization = g]
             R == [a \in AttemptIds |->
                     IF Active(a) /\ attempts[a].managed
                     THEN [attempts[a] EXCEPT !.due = TRUE] ELSE attempts[a]]
  <2>1. card.authorization \in Grant
    BY DEF Card
  <2>2. g \in Grant /\ g.id = card.authorization.id
    BY <2>1 DEF Grant
  <2>3. card' = d /\ attempts' = R
    BY <1>1 DEF GrantElapses
  <2> HIDE DEF g
  <2>4. /\ d \in Card /\ d.planRevision = card.planRevision /\ d.plan = card.plan
        /\ d.steps = card.steps /\ d.authorization.id = card.authorization.id
    BY <2>2 DEF Card
  <2> HIDE DEF d
  <2>5. Sound(d, attempts)
    BY <2>4, EditSound
  <2>6. ASSUME NEW a \in AttemptIds
        PROVE  LET q == [attempts[a] EXCEPT !.due = TRUE] IN
               /\ q \in Attempt /\ q.state = attempts[a].state
               /\ q.step = attempts[a].step
               /\ q.planRevision = attempts[a].planRevision
               /\ q.managed = attempts[a].managed /\ q.grant = attempts[a].grant
               /\ q.gone = attempts[a].gone
    BY ZenonT(60) DEF Attempt
  <2>7. /\ R \in [AttemptIds -> Attempt]
        /\ \A a \in AttemptIds : R[a] \in {attempts[a], [attempts[a] EXCEPT !.due = TRUE]}
    BY <2>6
  <2> HIDE DEF R
  <2>8. ASSUME NEW a \in AttemptIds
        PROVE  /\ R[a].state = attempts[a].state /\ R[a].step = attempts[a].step
               /\ R[a].planRevision = attempts[a].planRevision
               /\ R[a].managed = attempts[a].managed /\ R[a].grant = attempts[a].grant
               /\ attempts[a].gone => R[a].gone
    <3>1. CASE R[a] = attempts[a]
      BY <3>1
    <3>2. CASE R[a] = [attempts[a] EXCEPT !.due = TRUE]
      BY <2>6, <3>2
    <3> QED
      BY <2>7, <3>1, <3>2
  <2>9. Sound(d, R)
    BY <2>5, <2>7, <2>8, RowsSound
  <2> QED
    BY <2>3, <2>9 DEF Sound, Typed, Anchored, Awaited, StepsOf
<1>2. ASSUME NEW A \in SUBSET ActiveAttempts, Record(FencedCard(card, A)),
             attempts' = FencedRows(attempts, A)
      PROVE  Sound(card, attempts)'
  <2>1. Sound(FencedCard(card, A), FencedRows(attempts, A))
    BY FencedSound DEF ActiveAttempts, Active
  <2> QED
    BY <1>2, <2>1, RecordSound
<1>3. ASSUME Expire
      PROVE  Sound(card, attempts)'
  BY <1>2, <1>3 DEF Expire
<1>4. ASSUME RecoverOwner
      PROVE  Sound(card, attempts)'
  BY <1>2, <1>4 DEF RecoverOwner
<1>5. ASSUME NEW a \in AttemptIds, ClaimElapses(a)
      PROVE  Sound(card, attempts)'
  <2> DEFINE q == [attempts[a] EXCEPT !.due = TRUE]
  <2>1. attempts[a] \in Attempt
    OBVIOUS
  <2>2. /\ q \in Attempt /\ q.state = attempts[a].state /\ q.step = attempts[a].step
        /\ q.planRevision = attempts[a].planRevision
        /\ q.managed = attempts[a].managed /\ q.grant = attempts[a].grant
        /\ q.gone = attempts[a].gone
    BY <2>1 DEF Attempt
  <2>3. card' = card /\ attempts' = [attempts EXCEPT ![a] = q]
    BY <1>5 DEF ClaimElapses
  <2> HIDE DEF q
  <2>4. Sound(card, [attempts EXCEPT ![a] = q])
    BY <2>2, RowSound
  <2> QED
    BY <2>3, <2>4 DEF Sound, Typed, Anchored, Awaited, StepsOf
<1>6. ASSUME NEW a \in AttemptIds, ConfirmStopped(a)
      PROVE  Sound(card, attempts)'
  <2> DEFINE q == [attempts[a] EXCEPT !.gone = TRUE]
  <2>1. attempts[a] \in Attempt
    OBVIOUS
  <2>2. /\ q \in Attempt /\ q.state = attempts[a].state /\ q.step = attempts[a].step
        /\ q.planRevision = attempts[a].planRevision
        /\ q.managed = attempts[a].managed /\ q.grant = attempts[a].grant
        /\ q.gone
    BY <2>1 DEF Attempt
  <2>3. Record(card) /\ attempts' = [attempts EXCEPT ![a] = q]
    BY <1>6 DEF ConfirmStopped
  <2> HIDE DEF q
  <2>4. Sound(card, [attempts EXCEPT ![a] = q])
    BY <2>2, RowSound
  <2> QED
    BY <2>3, <2>4, RecordSound
<1> QED
  BY <1>1, <1>3, <1>4, <1>5, <1>6 DEF Losing

\* Document d is the card after attempts were disposed of and the steps in
\* release were freed.
FreedDocument(d, release) ==
  /\ d \in Card /\ d.planRevision = card.planRevision /\ d.plan = card.plan
  /\ d.authorization.id = card.authorization.id
  /\ d.status \in {card.status, "paused"} /\ d.blockers = card.blockers
  /\ d.transition = card.transition /\ d.proposal = card.proposal
  /\ \A s \in Step :
       /\ s \in release => d.steps[s].state = "todo"
       /\ s \notin release => /\ d.steps[s].state = card.steps[s].state
                             /\ d.steps[s].attempt = card.steps[s].attempt
       /\ d.steps[s].submission = card.steps[s].submission
       /\ d.steps[s].acceptance = card.steps[s].acceptance

\* What the operator's disposition leaves as it was, and what it frees.
LEMMA DisposedDocument ==
  ASSUME Sound(card, attempts), NEW A \in SUBSET AttemptIds,
         NEW release \in SUBSET Step, NEW resolution
  PROVE  FreedDocument(DisposedCard(A, release, resolution), release)
<1> DEFINE freed(s) == IF s \in release THEN Naming(card.steps[s], "todo", None)
                       ELSE card.steps[s]
           after(s) == IF resolution = "abandon" /\ \E a \in A : attempts[a].step = s
                       THEN [freed(s) EXCEPT !.blockers = @ \union {"operator"}]
                       ELSE freed(s)
           steps == [s \in Step |-> after(s)]
           d == DisposedCard(A, release, resolution)
<1>1. card \in Card /\ \A s \in Step : card.steps[s] \in StepRecord
  BY SoundTyped
<1>2. ASSUME NEW s \in Step
      PROVE  /\ freed(s) \in StepRecord
             /\ s \in release => freed(s).state = "todo"
             /\ s \notin release => freed(s) = card.steps[s]
             /\ freed(s).submission = card.steps[s].submission
             /\ freed(s).acceptance = card.steps[s].acceptance
  <2>1. "todo" \in StepStates /\ None \in Nat
    BY DEF StepStates, None
  <2> QED
    BY <1>1, <2>1, NamingFacts
<1> HIDE DEF freed
<1>3. ASSUME NEW s \in Step
      PROVE  /\ after(s) \in StepRecord /\ after(s).state = freed(s).state
             /\ after(s).attempt = freed(s).attempt
             /\ after(s).submission = freed(s).submission
             /\ after(s).acceptance = freed(s).acceptance
  <2> DEFINE B == freed(s).blockers \union {"operator"}
  <2>1. B \in SUBSET Actors
    BY <1>2 DEF StepRecord, Actors
  <2>2. [freed(s) EXCEPT !.blockers = @ \union {"operator"}]
          = [freed(s) EXCEPT !.blockers = B]
    OBVIOUS
  <2> HIDE DEF B
  <2> QED
    BY <1>2, <2>1, <2>2 DEF StepRecord
<1>4. steps \in [Step -> StepRecord] /\ \A s \in Step : steps[s] = after(s)
  BY <1>3, SMTT(30)
<1>5. \E g \in Grant, status \in CardStates :
        /\ g.id = card.authorization.id /\ status \in {card.status, "paused"}
        /\ d = [card EXCEPT !.steps = steps, !.authorization = g, !.status = status]
  <2> DEFINE g == Unbooked(card.authorization, Unmetered(A) # {})
             status == IF resolution = "abandon" \/ Unmetered(A) # {}
                       THEN "paused" ELSE card.status
  <2>1. status \in CardStates /\ status \in {card.status, "paused"}
    BY <1>1 DEF Card, CardStates
  <2>2. g \in Grant /\ g.id = card.authorization.id
    BY <1>1 DEF Card, Unbooked, Grant
  <2>3. d = [card EXCEPT !.steps = steps, !.authorization = g, !.status = status]
    BY DEF DisposedCard, freed
  <2> QED
    BY <2>1, <2>2, <2>3
<1> HIDE DEF steps, after, d
<1>6. /\ d \in Card /\ d.planRevision = card.planRevision /\ d.plan = card.plan
      /\ d.authorization.id = card.authorization.id /\ d.steps = steps
      /\ d.status \in {card.status, "paused"}
      /\ d.transition = card.transition /\ d.proposal = card.proposal
      /\ d.blockers = card.blockers
  BY <1>1, <1>4, <1>5, ZenonT(60) DEF Card
<1> QED
  BY <1>2, <1>3, <1>4, <1>6 DEF d, FreedDocument

\* Of that, what the correspondence of steps and attempts rests on.
LEMMA DisposedFacts ==
  ASSUME Sound(card, attempts), NEW A \in SUBSET AttemptIds,
         NEW release \in SUBSET Step, NEW resolution
  PROVE  LET d == DisposedCard(A, release, resolution) IN
         /\ d \in Card /\ d.planRevision = card.planRevision /\ d.plan = card.plan
         /\ d.authorization.id = card.authorization.id
         /\ \A s \in Step \ release : /\ d.steps[s].state = card.steps[s].state
                                     /\ d.steps[s].attempt = card.steps[s].attempt
         /\ \A s \in release : d.steps[s].state \notin {"running", "recovery_required"}
<1> DEFINE d == DisposedCard(A, release, resolution)
<1>1. /\ d \in Card /\ d.planRevision = card.planRevision /\ d.plan = card.plan
      /\ d.authorization.id = card.authorization.id
      /\ \A s \in Step \ release : /\ d.steps[s].state = card.steps[s].state
                                  /\ d.steps[s].attempt = card.steps[s].attempt
  BY DisposedDocument DEF FreedDocument
<1>2. \A s \in release : d.steps[s].state \notin {"running", "recovery_required"}
  BY DisposedDocument DEF FreedDocument
<1> HIDE DEF d
<1> QED
  BY <1>1, <1>2 DEF d

\* Attempts that are not outstanding leave no step waiting.
LEMMA QuietSteps ==
  ASSUME Sound(card, attempts), OutstandingAttempts = {}
  PROVE  /\ \A a \in AttemptIds : attempts[a].state \notin OutstandingStates
         /\ \A s \in StepsOf(card) :
              card.steps[s].state \notin {"running", "recovery_required"}
<1>1. \A a \in AttemptIds : attempts[a].state \notin OutstandingStates
  BY DEF OutstandingAttempts, Outstanding, Active, Uncertain, OutstandingStates
<1> QED
  BY <1>1 DEF Sound, Awaited, OutstandingStates

\* The plan put in force is a card whose steps wait for nobody.
LEMMA ActivatedFacts ==
  ASSUME Sound(card, attempts), OutstandingAttempts = {}, NEW p \in Plans
  PROVE  /\ Activated(p) \in Card
         /\ Activated(p).plan = p /\ Activated(p).planRevision = card.planRevision + 1
         /\ Activated(p).status = card.status
         /\ Activated(p).agreements = [x \in Principals |-> None]
         /\ Activated(p).transition = NoTransition
         /\ Activated(p).authorization = RevokedGrant(card.authorization)
         /\ Activated(p).blockers = card.blockers
              \union UNION {card.steps[s].blockers : s \in StepsOf(card) \ DOMAIN p}
         /\ \A s \in Step :
              /\ Activated(p).steps[s].state = "todo"
              /\ Activated(p).steps[s].submission = None
              /\ s \in DOMAIN p \intersect StepsOf(card) =>
                   Activated(p).steps[s].blockers = card.steps[s].blockers
<1> DEFINE kept(s) == [NewStep EXCEPT !.blockers = card.steps[s].blockers]
           moved == card.blockers
                      \union UNION {card.steps[s].blockers : s \in StepsOf(card) \ DOMAIN p}
           steps == [s \in Step |->
              IF s \notin DOMAIN p \/ s \notin StepsOf(card) THEN NewStep
              ELSE IF card.steps[s].state = "recovery_required"
                   THEN Naming(kept(s), "recovery_required", card.steps[s].attempt)
                   ELSE kept(s)]
           g == RevokedGrant(card.authorization)
           agreements == [x \in Principals |-> None]
           proposal == [plan |-> p, base |-> None]
           d == Activated(p)
<1>1. /\ card \in Card /\ \A s \in Step : card.steps[s] \in StepRecord
      /\ StepsOf(card) \subseteq Step
  BY SoundTyped
<1>2. NewStep \in StepRecord /\ NewStep.state = "todo" /\ NewStep.submission = None
  BY DEF NewStep, StepRecord, StepStates, None
<1>3. ASSUME NEW s \in Step
      PROVE  /\ kept(s) \in StepRecord /\ kept(s).state = "todo"
             /\ kept(s).submission = None /\ kept(s).blockers = card.steps[s].blockers
  <2>1. card.steps[s].blockers \in SUBSET Actors
    BY <1>1 DEF StepRecord
  <2> QED
    BY <1>2, <2>1 DEF StepRecord
<1> HIDE DEF kept
<1>4. ASSUME NEW s \in Step
      PROVE  /\ steps[s] \in StepRecord /\ steps[s].state = "todo"
             /\ steps[s].submission = None
             /\ s \in DOMAIN p \intersect StepsOf(card) =>
                  steps[s].blockers = card.steps[s].blockers
  BY <1>2, <1>3, QuietSteps
<1>5. steps \in [Step -> StepRecord]
  BY <1>4
<1>6. moved \in SUBSET Actors
  BY <1>1 DEF Card, StepRecord
<1>7. g \in Grant
  BY <1>1, RevokedGrantFacts DEF Card
<1>8. /\ agreements \in [Principals -> Nat]
      /\ proposal \in [plan : Plans, base : Nat]
      /\ NoTransition \in [phase : TransitionOpen \union {"none"},
                           inventory : SUBSET AttemptIds, disposed : SUBSET AttemptIds]
  BY DEF None, NoTransition
<1>9. card.planRevision + 1 \in Nat \ {0}
  BY <1>1 DEF Card
<1>10. d = [card EXCEPT !.plan = p, !.planRevision = card.planRevision + 1,
              !.agreements = agreements, !.steps = steps, !.blockers = moved,
              !.authorization = g, !.proposal = proposal, !.transition = NoTransition]
  BY DEF Activated, kept
<1> HIDE DEF steps, moved, g, agreements, proposal, d
<1>11. /\ d \in Card /\ d.steps = steps /\ d.plan = p /\ d.status = card.status
       /\ d.planRevision = card.planRevision + 1 /\ d.agreements = agreements
       /\ d.blockers = moved /\ d.authorization = g /\ d.transition = NoTransition
  BY <1>1, <1>5, <1>6, <1>7, <1>8, <1>9, <1>10 DEF Card
<1> QED
  BY <1>4, <1>11 DEF d, agreements, moved, g

\* Disposing of what is uncertain: reconciliation, the transition to another plan, and
\* the cancellation of the card.
LEMMA DisposingSound ==
  ASSUME Sound(card, attempts), Disposing
  PROVE  Sound(card, attempts)'
<1> USE SoundTyped
<1>1. ASSUME NEW scope \in {Step} \union {{s} : s \in Step}, NEW resolution,
             Reconcile(scope, resolution)
      PROVE  Sound(card, attempts)'
  <2> DEFINE A == {a \in AttemptIds : Uncertain(a) /\ attempts[a].step \in scope}
             release == {attempts[a].step : a \in A}
             d == DisposedCard(A, release, resolution)
             R == [a \in AttemptIds |->
                    IF a \in A THEN [attempts[a] EXCEPT !.state = "reconciled"]
                    ELSE attempts[a]]
  <2>1. Record(d) /\ attempts' = R /\ \A a \in A : attempts[a].gone
    BY <1>1 DEF Reconcile
  <2>2. release \in SUBSET Step /\ A \in SUBSET AttemptIds
    OBVIOUS
  <2>3. /\ d \in Card /\ d.planRevision = card.planRevision /\ d.plan = card.plan
        /\ d.authorization.id = card.authorization.id
        /\ \A s \in Step \ release : /\ d.steps[s].state = card.steps[s].state
                                    /\ d.steps[s].attempt = card.steps[s].attempt
        /\ \A s \in release : d.steps[s].state \notin {"running", "recovery_required"}
    <3> HIDE DEF A, release
    <3> QED
      BY <2>2, DisposedFacts
  <2>4. \A s \in release : card.steps[s].attempt \in A
    <3>1. \A a \in A : card.steps[attempts[a].step].attempt = a
      BY DEF Sound, Anchored, OutstandingStates, Uncertain
    <3> QED
      BY <3>1
  <2>5. \A a \in A : attempts[a].step \in release
    OBVIOUS
  <2>6. ASSUME NEW a \in A
        PROVE  LET q == [attempts[a] EXCEPT !.state = "reconciled"] IN
               /\ q \in Attempt /\ q.state = "reconciled" /\ q.gone
    <3>1. attempts[a] \in Attempt
      OBVIOUS
    <3>2. [attempts[a] EXCEPT !.state = "reconciled"].gone = attempts[a].gone
      BY <3>1 DEF Attempt
    <3>3. /\ [attempts[a] EXCEPT !.state = "reconciled"] \in Attempt
          /\ [attempts[a] EXCEPT !.state = "reconciled"].state = "reconciled"
      BY <3>1 DEF Attempt, AttemptStates
    <3> QED
      BY <2>1, <3>2, <3>3
  <2>7. /\ R \in [AttemptIds -> Attempt]
        /\ \A a \in AttemptIds \ A : R[a] = attempts[a]
        /\ \A a \in A : R[a] = [attempts[a] EXCEPT !.state = "reconciled"]
    BY <2>6
  <2>8. \A a \in A : R[a].state = "reconciled" /\ R[a].gone
    BY <2>6, <2>7
  <2> HIDE DEF A, release, d, R
  <2>9. Sound(d, R)
    BY <2>2, <2>3, <2>4, <2>5, <2>7, <2>8, DisposeSound, ZenonT(120)
  <2> QED
    BY <2>1, <2>9, RecordSound
<1>2. ASSUME TransitionBegin
      PROVE  Sound(card, attempts)'
  <2> DEFINE f == FencedCard(card, ActiveAttempts)
             R == FencedRows(attempts, ActiveAttempts)
             t == [phase |-> IF OutstandingAttempts = {} THEN "ready" ELSE "stopping",
                   inventory |-> OutstandingAttempts, disposed |-> {}]
             d == [f EXCEPT !.transition = t]
  <2>1. Record(d) /\ attempts' = R
    BY <1>2 DEF TransitionBegin
  <2>2. Sound(f, R)
    BY FencedSound DEF ActiveAttempts, Active
  <2>3. f \in Card
    BY <2>2 DEF Sound, Typed
  <2>4. t \in [phase : TransitionOpen \union {"none"},
               inventory : SUBSET AttemptIds, disposed : SUBSET AttemptIds]
    BY DEF TransitionOpen, OutstandingAttempts
  <2> HIDE DEF f, t
  <2>5. /\ d \in Card /\ d.planRevision = f.planRevision /\ d.plan = f.plan
        /\ d.steps = f.steps /\ d.authorization = f.authorization
    BY <2>3, <2>4 DEF Card
  <2> HIDE DEF d
  <2>6. Sound(d, R)
    BY <2>2, <2>5, EditSound
  <2> QED
    BY <2>1, <2>6, RecordSound
<1>3. ASSUME TransitionActivate
      PROVE  Sound(card, attempts)'
  <2> DEFINE p == card.proposal.plan
             d == Activated(p)
  <2>1. Record(d) /\ attempts' = attempts /\ OutstandingAttempts = {}
    BY <1>3 DEF TransitionActivate
  <2>2. p \in Plans
    BY DEF Card
  <2>3. d \in Card /\ \A s \in Step : d.steps[s].state \notin {"running", "recovery_required"}
    BY <2>1, <2>2, ActivatedFacts
  <2> HIDE DEF d
  <2>4. StepsOf(d) \subseteq Step
    BY <2>3, PlanSteps
  <2>5. Sound(d, attempts)
    BY <2>1, <2>3, <2>4, QuietSteps, QuietSound DEF Sound
  <2> QED
    BY <2>1, <2>5, RecordSound
<1>4. ASSUME TransitionWithdraw
      PROVE  Sound(card, attempts)'
  <2> DEFINE d == [card EXCEPT !.proposal = NoProposal(card), !.transition = NoTransition]
  <2>1. Record(d) /\ attempts' = attempts
    BY <1>4 DEF TransitionWithdraw
  <2>2. /\ d \in Card /\ d.planRevision = card.planRevision /\ d.plan = card.plan
        /\ d.steps = card.steps /\ d.authorization = card.authorization
    BY DEF Card, NoProposal, NoTransition, None
  <2> HIDE DEF d
  <2>3. Sound(d, attempts)
    BY <2>2, EditSound
  <2> QED
    BY <2>1, <2>3, RecordSound
<1>5. ASSUME Cancel
      PROVE  Sound(card, attempts)'
  <2> DEFINE g == RevokedGrant(card.authorization)
             d == [card EXCEPT !.status = "cancelled", !.proposal = NoProposal(card),
                     !.transition = NoTransition, !.authorization = g]
  <2>1. Record(d) /\ attempts' = attempts
    BY <1>5 DEF Cancel
  <2>2. g \in Grant /\ g.id = card.authorization.id
    BY RevokedGrantFacts DEF Card
  <2> HIDE DEF g
  <2>3. /\ d \in Card /\ d.planRevision = card.planRevision /\ d.plan = card.plan
        /\ d.steps = card.steps /\ d.authorization = g
    BY <2>2 DEF Card, NoProposal, NoTransition, None, CardStates, Terminal
  <2> HIDE DEF d
  <2>4. Sound(d, attempts)
    BY <2>2, <2>3, EditSound
  <2> QED
    BY <2>1, <2>4, RecordSound
<1>6. ASSUME NEW a \in AttemptIds, NEW resolution, TransitionResolve(a, resolution)
      PROVE  Sound(card, attempts)'
  <2> DEFINE s == attempts[a].step
             release == IF card.steps[s].attempt = a THEN {s} ELSE {}
             disposed == card.transition.disposed \union {a}
             c == DisposedCard({a}, release, resolution)
             t == [card.transition EXCEPT !.disposed = disposed,
                     !.phase = IF disposed = card.transition.inventory THEN "ready" ELSE @]
             d == [c EXCEPT !.transition = t]
             q == [attempts[a] EXCEPT !.state = "reconciled",
                                      !.gone = @ \/ ~attempts[a].managed]
             R == [attempts EXCEPT ![a] = q]
  <2>1. /\ Record(d) /\ attempts' = R /\ ~Active(a)
        /\ attempts[a].managed => attempts[a].gone
    BY <1>6 DEF TransitionResolve
  <2>2. attempts[a] \in Attempt /\ s \in Step /\ release \in SUBSET Step
    OBVIOUS
  <2>3. q \in Attempt /\ q.state = "reconciled" /\ q.gone
    <3> DEFINE gone == attempts[a].gone \/ ~attempts[a].managed
    <3>1. gone = TRUE
      BY <2>1
    <3>2. q = [attempts[a] EXCEPT !.state = "reconciled", !.gone = TRUE]
      BY <3>1
    <3> HIDE DEF q
    <3> QED
      BY <2>2, <3>2 DEF Attempt, AttemptStates
  <2>4. /\ R \in [AttemptIds -> Attempt] /\ R[a] = q
        /\ \A b \in AttemptIds \ {a} : R[b] = attempts[b]
    BY <2>3
  <2>5. /\ c \in Card /\ c.planRevision = card.planRevision /\ c.plan = card.plan
        /\ c.authorization.id = card.authorization.id
        /\ \A x \in Step \ release : /\ c.steps[x].state = card.steps[x].state
                                    /\ c.steps[x].attempt = card.steps[x].attempt
        /\ \A x \in release : c.steps[x].state \notin {"running", "recovery_required"}
    <3> HIDE DEF release
    <3> QED
      BY <2>2, DisposedFacts
  <2>6. \A x \in release : card.steps[x].attempt \in {a}
    OBVIOUS
  <2>7. attempts[a].state \in OutstandingStates => attempts[a].step \in release
    BY DEF Sound, Anchored
  <2>8. t \in [phase : TransitionOpen \union {"none"},
               inventory : SUBSET AttemptIds, disposed : SUBSET AttemptIds]
    BY DEF Card, TransitionOpen
  <2> HIDE DEF release, c, t, q, R
  <2>9. Sound(c, R)
    <3> DEFINE A == {a}
    <3>1. /\ A \in SUBSET AttemptIds
          /\ \A x \in release : card.steps[x].attempt \in A
          /\ \A b \in A : attempts[b].state \in OutstandingStates =>
                            attempts[b].step \in release
          /\ \A b \in AttemptIds \ A : R[b] = attempts[b]
          /\ \A b \in A : R[b].state = "reconciled" /\ R[b].gone
      BY <2>3, <2>4, <2>6, <2>7
    <3> HIDE DEF A
    <3> QED
      BY <2>2, <2>4, <2>5, <3>1, DisposeSound, ZenonT(60)
  <2>10. /\ d \in Card /\ d.planRevision = c.planRevision /\ d.plan = c.plan
         /\ d.steps = c.steps /\ d.authorization = c.authorization
    BY <2>5, <2>8 DEF Card
  <2> HIDE DEF d
  <2>11. Sound(d, R)
    BY <2>9, <2>10, EditSound
  <2> QED
    BY <2>1, <2>11, RecordSound
<1> QED
  BY <1>1, <1>2, <1>3, <1>4, <1>5, <1>6 DEF Disposing

-----------------------------------------------------------------------------
(* The theorems.                                                           *)

\* A card is sound when it is opened.
LEMMA InitSound == Init => Sound(card, attempts)
<1> SUFFICES ASSUME Init
             PROVE  Sound(card, attempts)
  OBVIOUS
<1>1. PICK p \in Plans :
        card = [status |-> "draft", planRevision |-> 1, plan |-> p,
                agreements |-> [x \in Principals |-> None],
                proposal |-> [plan |-> p, base |-> None],
                transition |-> NoTransition,
                steps |-> [s \in Step |-> NewStep], blockers |-> {},
                authorization |-> [id |-> None, planRevision |-> None,
                   revoked |-> FALSE, due |-> FALSE, unknownCost |-> FALSE,
                   launches |-> 0, used |-> 0]]
  BY DEF Init
<1>2. NewStep \in StepRecord /\ NewStep.state = "todo"
  BY DEF NewStep, StepRecord, StepStates, None
<1>3. /\ card \in Card
      /\ \A s \in Step : card.steps[s].state \notin {"running", "recovery_required"}
  BY <1>1, <1>2 DEF Card, CardStates, NoTransition, Grant, None
<1>4. (CHOOSE s \in Step : TRUE) \in Step
  <2>1. Step # {}
    BY PlansAssumption
  <2> QED
    BY <2>1, Zenon
<1>5. /\ attempts \in [AttemptIds -> Attempt]
      /\ \A a \in AttemptIds : attempts[a].state = "none"
  <2> DEFINE s == CHOOSE s \in Step : TRUE
             r == [state |-> "none", step |-> s, kind |-> "implement",
                   actor |-> Owner[s], managed |-> FALSE, grant |-> None,
                   planRevision |-> None, due |-> FALSE, gone |-> FALSE,
                   intent |-> FALSE, blockIntent |-> FALSE, stage |-> "independent",
                   report |-> "none", verdict |-> "none", submission |-> None,
                   cost |-> "open", spend |-> 0]
  <2>1. attempts = [a \in AttemptIds |-> r]
    BY DEF Init
  <2>2. s \in Step
    BY <1>4
  <2> HIDE DEF s
  <2>3. r \in Attempt /\ r.state = "none"
    BY <2>2, RolesAssumption DEF Attempt, AttemptStates, None
  <2> HIDE DEF r
  <2> QED
    BY <2>1, <2>3
<1>6. StepsOf(card) \subseteq Step
  BY <1>3, PlanSteps
<1> QED
  BY <1>3, <1>5, <1>6, QuietSound DEF OutstandingStates, ActiveStates

\* Every step keeps the card sound.
LEMMA NextSound == Sound(card, attempts) /\ [Next]_vars => Sound(card, attempts)'
<1> SUFFICES ASSUME Sound(card, attempts), [Next]_vars
             PROVE  Sound(card, attempts)'
  OBVIOUS
<1>1. CASE Negotiation
  BY <1>1, NegotiationSound
<1>2. CASE Launching
  BY <1>2, LaunchingSound
<1>3. CASE Working
  BY <1>3, WorkingSound
<1>4. CASE Losing
  BY <1>4, LosingSound
<1>5. CASE Disposing
  BY <1>5, DisposingSound
<1>6. CASE UNCHANGED vars
  BY <1>6 DEF vars, Sound, Typed, Anchored, Awaited, StepsOf
<1> QED
  BY <1>1, <1>2, <1>3, <1>4, <1>5, <1>6 DEF Next

\* The correspondence of steps and attempts is an invariant of every command.
THEOREM CardIsSound == Spec => []Sound(card, attempts)
BY InitSound, NextSound, PTL DEF Spec

\* Every command leaves a card document and attempt rows of the right type.
THEOREM TypeCorrect == Spec => []TypeOK
<1>1. Sound(card, attempts) => TypeOK
  BY DEF Sound, Typed, TypeOK
<1> QED
  BY <1>1, CardIsSound, PTL

\* An attempt whose end is not settled is the attempt its step waits for, under
\* the plan and the grant in force: for any number of steps and attempts.
THEOREM OutstandingAnchored == Spec => []OutstandingIsAnchored
<1>1. Sound(card, attempts) => OutstandingIsAnchored
  BY DEF Sound, Anchored, OutstandingIsAnchored, Outstanding, Active, Uncertain,
         SameGrant, OutstandingStates, ActiveStates
<1> QED
  BY <1>1, CardIsSound, PTL

\* No step waits for an attempt that can never end.
THEOREM StepsNotStranded == Spec => []NoStrandedStep
<1>1. Sound(card, attempts) => NoStrandedStep
  BY DEF Sound, Awaited, NoStrandedStep, Active, Uncertain
<1> QED
  BY <1>1, CardIsSound, PTL

\* Two attempts that may both still be executing never share a step.
THEOREM OneWriter == Spec => []SingleWriterPerStep
<1>1. Sound(card, attempts) => SingleWriterPerStep
  <2> SUFFICES ASSUME Sound(card, attempts), NEW a \in AttemptIds, NEW b \in AttemptIds,
                      a # b, attempts[a].step = attempts[b].step,
                      MayStillRun(a), MayStillRun(b)
               PROVE  FALSE
    BY DEF SingleWriterPerStep
  <2>1. attempts[a].state \in OutstandingStates /\ attempts[b].state \in OutstandingStates
    BY DEF Sound, MayStillRun, OutstandingStates
  <2> QED
    BY <2>1 DEF Sound, Anchored
<1> QED
  BY <1>1, CardIsSound, PTL
=============================================================================
