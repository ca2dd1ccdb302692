------------------------- MODULE WorkHistoryProofs -------------------------
(***************************************************************************)
(* What the history of a card may contain: proofs that what is accepted    *)
(* was earned and stays, that what lost its authority never publishes,     *)
(* that a card that is stopped or over is quiet, and that what is          *)
(* published had the authority it needs at that moment; and that the grant *)
(* is charged exactly and never overdrawn.                                 *)
(*                                                                         *)
(* Every step of WorkItems is of one of a few kinds: it keeps the outputs, *)
(* it launches an attempt, it settles a review, it publishes an output, it *)
(* puts another plan in force, it ends the card or it lets time pass.      *)
(* Each command is shown to be of one of these kinds (NextKind), and each  *)
(* kind to keep the inductive invariant History: the soundness of the      *)
(* card, the outputs Earned, a begun transition Frozen and a finished card *)
(* Ended.  What a step does to the grant is told apart in the same way     *)
(* (NextBooks); the invariant of that part is the Ledger, and its sums are *)
(* reasoned about by induction on the number of attempts they range over.  *)
(***************************************************************************)
EXTENDS WorkItemsProofs, FiniteSetTheorems

\* The submission of a step is the published output of its owner's attempt at
\* that step, under the plan in force.
Output(c, rows, s) ==
  LET w == c.steps[s].submission IN
  w # None =>
    /\ w \in AttemptIds /\ rows[w].kind = "implement" /\ rows[w].state = "succeeded"
    /\ rows[w].step = s /\ rows[w].actor = Owner[s] /\ rows[w].planRevision = c.planRevision

\* An accepted step names the review that accepted its output, which is also the
\* last attempt at the step, and depends on accepted steps only.
Approved(c, rows, s) ==
  LET w == c.steps[s].submission  v == c.steps[s].acceptance IN
  Accepted(c, s) =>
    /\ w # None /\ v \in AttemptIds /\ c.steps[s].attempt = v
    /\ rows[v].kind = "review" /\ rows[v].state = "succeeded"
    /\ rows[v].actor = Reviewer[s] /\ rows[v].submission = w
    /\ rows[v].report = "success" /\ rows[v].verdict = "accept"
    /\ \A d \in c.plan[s] : Accepted(c, d)

\* A row of an attempt that was made: who made it, what it may have decided, and
\* that a review is of something published.
Recorded(rows, a) ==
  rows[a].state # "none" =>
    /\ rows[a].kind = "implement" =>
         rows[a].actor = Owner[rows[a].step] /\ rows[a].verdict = "none"
    /\ rows[a].kind = "review" =>
         /\ rows[a].actor = Reviewer[rows[a].step]
         /\ rows[a].submission \in AttemptIds
         /\ rows[rows[a].submission].state = "succeeded"
    /\ rows[a].verdict = "accept" => rows[a].report = "success"

\* While an attempt runs its step keeps the output it started from, which a
\* review has and an implementation has not, and what the step depends on.
Founded(c, rows, a) ==
  rows[a].state \in ActiveStates =>
    /\ rows[a].submission = c.steps[rows[a].step].submission
    /\ rows[a].kind = "review" <=> rows[a].submission # None
    /\ \A d \in c.plan[rows[a].step] : Accepted(c, d)

\* What a finished review rejected is nobody's output.
Refused(c, rows, a) ==
  rows[a].state = "succeeded" /\ rows[a].verdict = "reject" =>
    \A s \in StepsOf(c) : c.steps[s].submission # rows[a].submission

\* The inductive invariant of the outputs.
Earned(c, rows) ==
  /\ \A s \in StepsOf(c) : Output(c, rows, s) /\ Approved(c, rows, s)
  /\ \A a \in AttemptIds : Recorded(rows, a) /\ Founded(c, rows, a) /\ Refused(c, rows, a)

\* A begun transition has fenced all that ran, and what it fenced it still counts.
Frozen(c, rows) ==
  c.transition.phase \in TransitionOpen =>
    /\ c.proposal.base = c.planRevision
    /\ \A a \in c.transition.inventory :
         rows[a].state \in {"recovery_required", "reconciled"} /\ rows[a].step \in StepsOf(c)
    /\ \A a \in AttemptIds :
         /\ rows[a].state \notin ActiveStates
         /\ rows[a].state = "recovery_required" =>
              a \in c.transition.inventory \ c.transition.disposed

\* A card that is over has nothing outstanding and was not completed early.
Ended(c, rows) ==
  /\ c.status \in Terminal => \A a \in AttemptIds : rows[a].state \notin OutstandingStates
  /\ c.status = "completed" =>
       (\A s \in StepsOf(c) : Accepted(c, s)) /\ c.blockers = {}

-----------------------------------------------------------------------------
(* The kinds of steps.                                                     *)

SamePlan == card'.plan = card.plan /\ card'.planRevision = card.planRevision

\* The output and the acceptance of step s stay.
KeptStep(s) ==
  /\ card'.steps[s].submission = card.steps[s].submission
  /\ card'.steps[s].state = "accepted" <=> card.steps[s].state = "accepted"
  /\ card.steps[s].state = "accepted" =>
       /\ card'.steps[s].acceptance = card.steps[s].acceptance
       /\ card'.steps[s].attempt = card.steps[s].attempt

\* Row a is still about the same work.
SameWork(a) ==
  /\ attempts'[a].step = attempts[a].step /\ attempts'[a].kind = attempts[a].kind
  /\ attempts'[a].actor = attempts[a].actor
  /\ attempts'[a].planRevision = attempts[a].planRevision
  /\ attempts'[a].submission = attempts[a].submission

\* Row a changes neither into nor out of a published result, and only a running
\* review writes a report or a verdict.
KeptRow(a) ==
  LET old == attempts[a]  new == attempts'[a] IN
  /\ SameWork(a)
  /\ \/ new.state = old.state
     \/ old.state \in ActiveStates /\ new.state \in {"running", "recovery_required", "blocked"}
     \/ old.state = "recovery_required" /\ new.state = "reconciled"
  /\ \/ new.report = old.report /\ new.verdict = old.verdict
     \/ /\ old.state \in ActiveStates /\ new.state = old.state /\ old.kind = "review"
        /\ new.verdict = "accept" => new.report = "success"

Kept ==
  SamePlan /\ (\A s \in Step : KeptStep(s)) /\ (\A a \in AttemptIds : KeptRow(a))

Launched(a, s) ==
  LET new == attempts'[a] IN
  /\ SamePlan /\ (\A t \in Step : KeptStep(t))
  /\ \A b \in AttemptIds \ {a} : KeptRow(b)
  /\ attempts[a].state = "none" /\ s \in StepsOf(card) /\ ~Accepted(card, s)
  /\ new.state = "reserved" /\ new.step = s /\ new.verdict = "none"
  /\ new.submission = card.steps[s].submission
  /\ new.kind = KindOf(s) /\ new.actor = PrincipalFor(s)
  /\ \A d \in card.plan[s] : Accepted(card, d)

\* Review a settles its step.
Ruled(a) ==
  LET s == attempts[a].step  new == attempts'[a] IN
  /\ SamePlan /\ (\A t \in Step \ {s} : KeptStep(t))
  /\ \A b \in AttemptIds \ {a} : KeptRow(b)
  /\ attempts[a].state \in ActiveStates /\ attempts[a].kind = "review"
  /\ SameWork(a) /\ new.state = "succeeded"
  /\ \/ /\ new.verdict = "accept" /\ new.report = "success"
        /\ card'.steps[s].state = "accepted" /\ card'.steps[s].acceptance = a
        /\ card'.steps[s].attempt = a
        /\ card'.steps[s].submission = card.steps[s].submission
     \/ /\ new.verdict = "reject"
        /\ card'.steps[s].state # "accepted" /\ card'.steps[s].submission = None

\* Implementation a becomes the output of its step.
Published(a) ==
  LET s == attempts[a].step  new == attempts'[a] IN
  /\ SamePlan /\ (\A t \in Step \ {s} : KeptStep(t))
  /\ \A b \in AttemptIds \ {a} : KeptRow(b)
  /\ attempts[a].state \in ActiveStates /\ attempts[a].kind = "implement"
  /\ SameWork(a) /\ new.state = "succeeded" /\ new.verdict = attempts[a].verdict
  /\ card'.steps[s].state # "accepted" /\ card'.steps[s].submission = a

\* Another plan starts without outputs.
Replanned ==
  /\ OutstandingAttempts = {} /\ attempts' = attempts
  /\ \A s \in Step : /\ card'.steps[s].submission = None
                     /\ card'.steps[s].state # "accepted"

\* The step is no move of the plan transition.
Stays ==
  card'.transition = card.transition /\ (TransitionBegun => card'.proposal = card.proposal)

\* What a saved card says of its own end.
Tidy ==
  /\ card'.status # "cancelled"
  /\ card'.status = "completed" =>
       (\A s \in StepsOf(card') : Accepted(card', s)) /\ card'.blockers = {}

-----------------------------------------------------------------------------
(* Each kind of step keeps the outputs earned.                             *)

\* What keeps the outputs and the decided reviews keeps them earned.
LEMMA KeptEarned ==
  ASSUME Sound(card, attempts), Sound(card, attempts)', Earned(card, attempts), Kept
  PROVE  Earned(card, attempts)'
<1>1. /\ StepsOf(card) \subseteq Step /\ StepsOf(card)' = StepsOf(card)
      /\ \A s \in StepsOf(card) : card.plan[s] \subseteq StepsOf(card)
  BY SoundTyped, PlansAssumption DEF Kept, SamePlan, StepsOf, Sound, Typed, Card
<1>2. ASSUME NEW s \in StepsOf(card)
      PROVE  Output(card, attempts, s)' /\ Approved(card, attempts, s)'
  <2>1. Output(card, attempts, s)'
    BY <1>1 DEF Earned, Output, Kept, KeptStep, KeptRow, SameWork, SamePlan, ActiveStates
  <2>2. Approved(card, attempts, s)'
    BY <1>1 DEF Earned, Approved, Accepted, Kept, KeptStep, KeptRow, SameWork, SamePlan,
                ActiveStates
  <2> QED
    BY <2>1, <2>2
<1>3. ASSUME NEW a \in AttemptIds
      PROVE  Recorded(attempts, a)' /\ Founded(card, attempts, a)' /\ Refused(card, attempts, a)'
  <2>1. KeptRow(a) /\ Recorded(attempts, a) /\ Founded(card, attempts, a)
        /\ Refused(card, attempts, a)
    BY DEF Kept, Earned
  <2>2. Recorded(attempts, a)'
    <3>1. attempts[a].submission \in AttemptIds
            => KeptRow(attempts[a].submission)
      BY DEF Kept
    <3> QED
      BY <2>1, <3>1 DEF Recorded, KeptRow, SameWork, ActiveStates
  <2>3. Founded(card, attempts, a)'
    <3>1. attempts[a].state \in ActiveStates => attempts[a].step \in StepsOf(card)
      BY DEF Sound, Anchored, OutstandingStates
    <3> QED
      BY <1>1, <2>1, <3>1 DEF Founded, Accepted, Kept, KeptStep, KeptRow, SameWork, SamePlan,
                              ActiveStates
  <2>4. Refused(card, attempts, a)'
    BY <1>1, <2>1 DEF Refused, Kept, KeptStep, KeptRow, SameWork, ActiveStates
  <2> QED
    BY <2>2, <2>3, <2>4
<1> QED
  BY <1>1, <1>2, <1>3 DEF Earned

\* The types of the card and of its rows, and of the plan's dependencies.
LEMMA PlanFacts ==
  ASSUME Sound(card, attempts)
  PROVE  /\ StepsOf(card) \subseteq Step
         /\ \A s \in StepsOf(card) : card.plan[s] \subseteq StepsOf(card)
         /\ \A a \in AttemptIds : attempts[a].state \in ActiveStates =>
              /\ attempts[a].step \in StepsOf(card)
              /\ card.steps[attempts[a].step].state = "running"
              /\ card.steps[attempts[a].step].attempt = a
BY SoundTyped, PlansAssumption DEF StepsOf, Sound, Typed, Card, Anchored, OutstandingStates

\* A launch is founded on the output of its step.
LEMMA LaunchedEarned ==
  ASSUME Sound(card, attempts), Earned(card, attempts),
         NEW a \in AttemptIds, NEW s \in Step, Launched(a, s)
  PROVE  Earned(card, attempts)'
<1> USE PlanFacts
<1>1. StepsOf(card)' = StepsOf(card)
  BY DEF Launched, SamePlan, StepsOf
<1>2. ASSUME NEW t \in StepsOf(card)
      PROVE  Output(card, attempts, t)' /\ Approved(card, attempts, t)'
  <2>1. Output(card, attempts, t)'
    BY <1>1 DEF Earned, Output, Launched, KeptStep, KeptRow, SameWork, SamePlan, ActiveStates
  <2>2. Approved(card, attempts, t)'
    BY <1>1 DEF Earned, Approved, Accepted, Launched, KeptStep, KeptRow, SameWork, SamePlan,
                ActiveStates
  <2> QED
    BY <2>1, <2>2
<1>3. ASSUME NEW b \in AttemptIds, b # a
      PROVE  Recorded(attempts, b)' /\ Founded(card, attempts, b)' /\ Refused(card, attempts, b)'
  <2>1. KeptRow(b) /\ Recorded(attempts, b) /\ Founded(card, attempts, b)
        /\ Refused(card, attempts, b)
    BY <1>3 DEF Launched, Earned
  <2>2. Recorded(attempts, b)'
    <3>1. /\ attempts[b].submission \in AttemptIds \ {a}
               => KeptRow(attempts[b].submission)
          /\ attempts[a].state = "none"
      BY DEF Launched
    <3> QED
      BY <2>1, <3>1 DEF Recorded, KeptRow, SameWork, ActiveStates
  <2>3. Founded(card, attempts, b)'
    BY <1>1, <2>1 DEF Founded, Accepted, Launched, KeptStep, KeptRow, SameWork, SamePlan,
                      ActiveStates
  <2>4. Refused(card, attempts, b)'
    BY <1>1, <2>1 DEF Refused, Launched, KeptStep, KeptRow, SameWork, ActiveStates
  <2> QED
    BY <2>2, <2>3, <2>4
<1>4. Recorded(attempts, a)' /\ Founded(card, attempts, a)' /\ Refused(card, attempts, a)'
  <2>1. Output(card, attempts, s)
    BY DEF Launched, Earned
  <2>2. Recorded(attempts, a)'
    <3>1. card.steps[s].submission # None =>
            /\ card.steps[s].submission \in AttemptIds
            /\ attempts'[card.steps[s].submission].state = "succeeded"
      BY <2>1 DEF Output, Launched, KeptRow, ActiveStates
    <3> QED
      BY <3>1 DEF Recorded, Launched, KindOf, PrincipalFor, ActiveStates
  <2>3. Founded(card, attempts, a)'
    BY <1>1 DEF Founded, Accepted, Launched, KindOf, KeptStep, SamePlan, ActiveStates
  <2>4. Refused(card, attempts, a)'
    BY DEF Refused, Launched
  <2> QED
    BY <2>2, <2>3, <2>4
<1> QED
  BY <1>1, <1>2, <1>3, <1>4 DEF Earned

\* A verdict gives its step an acceptance, or takes its output away for good.
LEMMA RuledEarned ==
  ASSUME Sound(card, attempts), Earned(card, attempts), NEW a \in AttemptIds, Ruled(a)
  PROVE  Earned(card, attempts)'
<1> DEFINE s == attempts[a].step
<1> USE PlanFacts
<1>1. StepsOf(card)' = StepsOf(card) /\ s \in StepsOf(card)
  BY DEF Ruled, SamePlan, StepsOf
<1>2. /\ attempts[a].submission = card.steps[s].submission
      /\ attempts[a].submission # None /\ attempts[a].actor = Reviewer[s]
      /\ \A d \in card.plan[s] : card.steps[d].state = "accepted" /\ d # s
  <2>1. Founded(card, attempts, a) /\ Recorded(attempts, a)
    BY DEF Earned
  <2> QED
    BY <1>1, <2>1 DEF Founded, Recorded, Ruled, Accepted, ActiveStates
<1>3. ASSUME NEW t \in StepsOf(card), t # s
      PROVE  Output(card, attempts, t)' /\ Approved(card, attempts, t)'
  <2>1. KeptStep(t) /\ Output(card, attempts, t) /\ Approved(card, attempts, t)
    BY <1>3 DEF Ruled, Earned
  <2>2. Output(card, attempts, t)'
    BY <1>1, <2>1 DEF Output, Ruled, KeptStep, KeptRow, SameWork, SamePlan, ActiveStates
  <2>3. Approved(card, attempts, t)'
    <3>1. \A d \in card.plan[t] : card.steps[d].state = "accepted"
                                    => card'.steps[d].state = "accepted"
      BY <1>1 DEF Ruled, KeptStep
    <3> QED
      BY <2>1, <3>1 DEF Approved, Accepted, Ruled, KeptStep, KeptRow, SameWork,
                        SamePlan, ActiveStates
  <2> QED
    BY <2>2, <2>3
<1>4. ASSUME NEW t \in StepsOf(card), t = s
      PROVE  Output(card, attempts, t)' /\ Approved(card, attempts, t)'
  <2>1. Output(card, attempts, t)
    BY SMTT(30) DEF Earned
  <2>2. Output(card, attempts, t)'
    BY <1>4, <2>1 DEF Output, Ruled, KeptRow, SameWork, SamePlan, ActiveStates
  <2>3. Approved(card, attempts, t)'
    <3>1. \A d \in card.plan[t] : card'.steps[d].state = "accepted"
      BY <1>1, <1>2, <1>4 DEF Ruled, KeptStep
    <3> QED
      BY <1>2, <1>4, <3>1 DEF Approved, Accepted, Ruled, SameWork, SamePlan
  <2> QED
    BY <2>2, <2>3
<1>5. ASSUME NEW b \in AttemptIds
      PROVE  Recorded(attempts, b)'
  <2>1. Recorded(attempts, b) /\ Recorded(attempts, a)
    BY DEF Earned
  <2>2. attempts[b].submission \in AttemptIds =>
          \/ KeptRow(attempts[b].submission)
          \/ attempts'[attempts[b].submission].state = "succeeded"
    BY DEF Ruled
  <2>3. CASE b = a
    BY <2>1, <2>2, <2>3 DEF Recorded, Ruled, KeptRow, SameWork, ActiveStates
  <2>4. CASE b # a
    <3>1. KeptRow(b)
      BY <2>4 DEF Ruled
    <3> QED
      BY <2>1, <2>2, <3>1 DEF Recorded, KeptRow, SameWork, ActiveStates
  <2> QED
    BY <2>3, <2>4
<1>6. ASSUME NEW b \in AttemptIds
      PROVE  Founded(card, attempts, b)'
  <2>1. CASE b = a
    BY <2>1 DEF Founded, Ruled, ActiveStates
  <2>2. CASE b # a
    <3>1. KeptRow(b) /\ Founded(card, attempts, b)
      BY <2>2 DEF Ruled, Earned
    <3>2. ASSUME attempts'[b].state \in ActiveStates
          PROVE  /\ attempts[b].state \in ActiveStates
                 /\ attempts[b].step \in StepsOf(card) /\ attempts[b].step # s
      BY <2>2, <3>1, <3>2 DEF KeptRow, Ruled, ActiveStates
    <3>3. \A d \in Step : card.steps[d].state = "accepted"
                              => card'.steps[d].state = "accepted"
      BY <1>1 DEF Ruled, KeptStep
    <3> QED
      BY <1>1, <3>1, <3>2, <3>3 DEF Founded, Accepted, Ruled, KeptStep, KeptRow, SameWork, SamePlan
  <2> QED
    BY <2>1, <2>2
<1>7. ASSUME NEW b \in AttemptIds
      PROVE  Refused(card, attempts, b)'
  <2>1. CASE b = a
    <3>1. \A t \in StepsOf(card) \ {s} :
            /\ Output(card, attempts, t) /\ Output(card, attempts, s)
            /\ KeptStep(t)
      BY <1>1, SMTT(30) DEF Earned, Ruled
    <3>2. \A t \in StepsOf(card) \ {s} : card'.steps[t].submission # attempts[a].submission
      BY <1>2, <3>1 DEF Output, KeptStep
    <3> QED
      BY <1>1, <1>2, <2>1, <3>2 DEF Refused, Ruled, SameWork
  <2>2. CASE b # a
    <3>1. KeptRow(b) /\ Refused(card, attempts, b) /\ Recorded(attempts, b)
      BY <2>2 DEF Ruled, Earned
    <3>2. attempts[b].verdict = "reject" /\ attempts[b].state = "succeeded"
            => attempts[b].submission # None
      BY <3>1, AttemptNumbers, SoundTyped DEF Recorded, Attempt
    <3> QED
      BY <1>1, <3>1, <3>2 DEF Refused, Ruled, KeptStep, KeptRow, SameWork, ActiveStates
  <2> QED
    BY <2>1, <2>2
<1>8. ASSUME NEW t \in StepsOf(card)
      PROVE  Output(card, attempts, t)' /\ Approved(card, attempts, t)'
  BY <1>3, <1>4
<1> QED
  BY <1>1, <1>5, <1>6, <1>7, <1>8 DEF Earned

\* A published output is its owner's, and nobody's acceptance depended on the step.
LEMMA PublishedEarned ==
  ASSUME Sound(card, attempts), Earned(card, attempts), NEW a \in AttemptIds, Published(a),
         Sound(card, attempts)'
  PROVE  Earned(card, attempts)'
<1> DEFINE s == attempts[a].step
<1> USE PlanFacts
<1>1. StepsOf(card)' = StepsOf(card) /\ s \in StepsOf(card) /\ s \in Step
  BY DEF Published, SamePlan, StepsOf
<1>2. /\ Recorded(attempts, a) /\ Founded(card, attempts, a)
      /\ card.steps[s].state = "running" /\ a # None
      /\ attempts[a].planRevision = card.planRevision
  BY <1>1, AttemptNumbers
     DEF Earned, Published, Sound, Anchored, OutstandingStates
<1>3. ASSUME NEW t \in StepsOf(card)
      PROVE  Output(card, attempts, t)'
  <2>1. Output(card, attempts, t)
    BY DEF Earned
  <2>2. CASE t = s
    BY <1>1, <1>2, <2>2 DEF Output, Published, SameWork, SamePlan, Recorded, ActiveStates
  <2>3. CASE t # s
    <3>1. KeptStep(t)
      BY <2>3, <1>1 DEF Published
    <3> QED
      BY <2>1, <3>1 DEF Output, Published, KeptStep, KeptRow, SameWork, SamePlan, ActiveStates
  <2> QED
    BY <2>2, <2>3
<1>4. \A d \in Step : card.steps[d].state = "accepted" => card'.steps[d].state = "accepted"
  BY <1>1, <1>2 DEF Published, KeptStep
<1>5. ASSUME NEW t \in StepsOf(card)
      PROVE  Approved(card, attempts, t)'
  <2>1. CASE t = s
    BY <2>1 DEF Approved, Accepted, Published
  <2>2. CASE t # s
    <3>1. KeptStep(t) /\ Approved(card, attempts, t)
      BY <2>2, <1>1 DEF Published, Earned
    <3> QED
      BY <1>1, <1>4, <3>1 DEF Approved, Accepted, Published, KeptStep, KeptRow, SameWork,
                              SamePlan, ActiveStates
  <2> QED
    BY <2>1, <2>2
<1>6. ASSUME NEW b \in AttemptIds
      PROVE  Recorded(attempts, b)'
  <2>1. Recorded(attempts, b) /\ Recorded(attempts, a)
    BY DEF Earned
  <2>2. attempts[b].submission \in AttemptIds =>
          \/ KeptRow(attempts[b].submission)
          \/ attempts'[attempts[b].submission].state = "succeeded"
    BY DEF Published
  <2>3. CASE b = a
    BY <2>1, <2>3 DEF Recorded, Published, SameWork, ActiveStates
  <2>4. CASE b # a
    <3>1. KeptRow(b)
      BY <2>4 DEF Published
    <3> QED
      BY <2>1, <2>2, <3>1 DEF Recorded, KeptRow, SameWork, ActiveStates
  <2> QED
    BY <2>3, <2>4
<1>7. ASSUME NEW b \in AttemptIds
      PROVE  Founded(card, attempts, b)'
  <2>1. CASE b = a
    BY <2>1 DEF Founded, Published, ActiveStates
  <2>2. CASE b # a
    <3>1. KeptRow(b) /\ Founded(card, attempts, b)
      BY <2>2 DEF Published, Earned
    <3>2. ASSUME attempts'[b].state \in ActiveStates
          PROVE  /\ attempts[b].state \in ActiveStates
                 /\ attempts[b].step \in StepsOf(card) /\ attempts[b].step # s
      BY <2>2, <3>1, <3>2 DEF KeptRow, Published, ActiveStates
    <3> QED
      BY <1>1, <1>4, <3>1, <3>2
         DEF Founded, Accepted, Published, KeptStep, KeptRow, SameWork, SamePlan
  <2> QED
    BY <2>1, <2>2
<1>8. ASSUME NEW b \in AttemptIds
      PROVE  Refused(card, attempts, b)'
  <2>1. CASE b = a
    BY <1>2, <2>1 DEF Refused, Recorded, Published, ActiveStates
  <2>2. CASE b # a
    <3>1. KeptRow(b) /\ Refused(card, attempts, b) /\ Recorded(attempts, b)
      BY <2>2 DEF Published, Earned
    <3>2. /\ attempts[b].verdict = "reject" /\ attempts[b].state = "succeeded"
            => attempts[attempts[b].submission].state = "succeeded"
          /\ attempts[a].state # "succeeded"
      BY <3>1, SoundTyped DEF Recorded, Attempt, Published, ActiveStates
    <3> QED
      BY <1>1, <3>1, <3>2 DEF Refused, Published, KeptStep, KeptRow, SameWork, ActiveStates
  <2> QED
    BY <2>1, <2>2
<1> QED
  BY <1>1, <1>3, <1>5, <1>6, <1>7, <1>8 DEF Earned

\* A plan without outputs owes nothing.
LEMMA ReplannedEarned ==
  ASSUME Sound(card, attempts), Sound(card, attempts)', Earned(card, attempts), Replanned
  PROVE  Earned(card, attempts)'
<1>1. StepsOf(card)' \subseteq Step
  BY PlansAssumption DEF Sound, Typed, Card, StepsOf
<1>2. ASSUME NEW s \in StepsOf(card)'
      PROVE  Output(card, attempts, s)' /\ Approved(card, attempts, s)'
  BY <1>1 DEF Output, Approved, Accepted, Replanned
<1>3. ASSUME NEW a \in AttemptIds
      PROVE  Recorded(attempts, a)' /\ Founded(card, attempts, a)' /\ Refused(card, attempts, a)'
  <2>1. Recorded(attempts, a) /\ attempts[a] \in Attempt
    BY SoundTyped DEF Earned
  <2>2. Recorded(attempts, a)'
    BY <2>1 DEF Recorded, Replanned
  <2>3. Founded(card, attempts, a)'
    BY DEF Founded, Replanned, OutstandingAttempts, Outstanding, Active
  <2>4. Refused(card, attempts, a)'
    BY <1>1, <2>1, AttemptNumbers DEF Refused, Recorded, Replanned, Attempt
  <2> QED
    BY <2>2, <2>3, <2>4
<1> QED
  BY <1>2, <1>3 DEF Earned

-----------------------------------------------------------------------------
(* What a saved document and the rows of a step say of its kind.           *)

\* A document d that keeps the plan and the outputs of the card.
KeepsOutputs(d) ==
  /\ d \in Card /\ d.plan = card.plan /\ d.planRevision = card.planRevision
  /\ \A s \in Step :
       /\ d.steps[s].submission = card.steps[s].submission
       /\ d.steps[s].state = "accepted" <=> card.steps[s].state = "accepted"
       /\ card.steps[s].state = "accepted" =>
            /\ d.steps[s].acceptance = card.steps[s].acceptance
            /\ d.steps[s].attempt = card.steps[s].attempt

\* What is saved is the document, but for the states of steps that are open.
LEMMA SavedFacts ==
  ASSUME NEW d \in Card, Record(d)
  PROVE  /\ card'.plan = d.plan /\ card'.planRevision = d.planRevision
         /\ card'.transition = d.transition /\ card'.proposal = d.proposal
         /\ card'.blockers = d.blockers /\ card'.authorization = d.authorization
         /\ card'.agreements = d.agreements
         /\ \A s \in Step :
              /\ card'.steps[s].attempt = d.steps[s].attempt
              /\ card'.steps[s].submission = d.steps[s].submission
              /\ card'.steps[s].acceptance = d.steps[s].acceptance
              /\ card'.steps[s].blockers = d.steps[s].blockers
              /\ card'.steps[s].state = "accepted" <=> d.steps[s].state = "accepted"
<1>1. card' = Refresh(d)
  BY DEF Record
<1> QED
  BY <1>1, RefreshFrame

\* Saving a card that is not over leaves a tidy one, and keeps a pause.
LEMMA SavedTidy ==
  ASSUME NEW d \in Card, Record(d), d.status \notin Terminal
  PROVE  /\ Tidy
         /\ d.status = "paused" => card'.status = "paused"
         /\ card'.status = "active" => Agreed(d)
<1>1. card'.status = RefreshedStatus(d)
  BY DEF Record, Refresh, Card
<1>2. /\ StepsOf(card') = StepsOf(d) /\ StepsOf(d) \subseteq Step
      /\ card'.blockers = d.blockers
      /\ \A s \in Step : card'.steps[s].state = "accepted" <=> d.steps[s].state = "accepted"
  BY SavedFacts, PlanSteps DEF StepsOf
<1> QED
  BY <1>1, <1>2 DEF RefreshedStatus, Tidy, Accepted

\* Saving a document with the card's outputs keeps plan and outputs.
LEMMA OutputsKept ==
  ASSUME NEW d, KeepsOutputs(d), Record(d)
  PROVE  SamePlan /\ \A s \in Step : KeptStep(s)
BY SavedFacts DEF KeepsOutputs, SamePlan, KeptStep

\* The card itself keeps its outputs.
LEMMA EditKeeps ==
  ASSUME card \in Card, NEW d \in Card,
         d.plan = card.plan, d.planRevision = card.planRevision, d.steps = card.steps
  PROVE  KeepsOutputs(d)
BY DEF KeepsOutputs

\* Rows that are not touched are kept.
LEMMA RowsKept ==
  ASSUME attempts' = attempts
  PROVE  \A a \in AttemptIds : KeptRow(a)
BY DEF KeptRow, SameWork

\* Fencing keeps the rows.
LEMMA FencedRowsKept ==
  ASSUME NEW rows, NEW A \in SUBSET AttemptIds, rows \in [AttemptIds -> Attempt],
         \A a \in A : rows[a].state \in ActiveStates,
         attempts' = FencedRows(rows, A)
  PROVE  \A a \in AttemptIds : rows[a] = attempts[a] => KeptRow(a)
<1> SUFFICES ASSUME NEW a \in AttemptIds, rows[a] = attempts[a]
             PROVE  KeptRow(a)
  OBVIOUS
<1>1. CASE a \in A
  <2>1. attempts'[a] = [attempts[a] EXCEPT !.state = "recovery_required"]
    BY <1>1 DEF FencedRows
  <2> QED
    BY <1>1, <2>1 DEF KeptRow, SameWork, Attempt
<1>2. CASE a \notin A
  <2>1. attempts'[a] = attempts[a]
    BY <1>2 DEF FencedRows
  <2> QED
    BY <2>1 DEF KeptRow, SameWork
<1> QED
  BY <1>1, <1>2

\* Fencing a document changes only the steps of the attempts it fences, and of
\* those only the state and the attempt they name.
LEMMA FencedFacts ==
  ASSUME NEW c \in Card, NEW A
  PROVE  LET d == FencedCard(c, A) IN
         /\ d.plan = c.plan /\ d.planRevision = c.planRevision /\ d.status = c.status
         /\ d.transition = c.transition /\ d.proposal = c.proposal
         /\ d.blockers = c.blockers /\ d.authorization = c.authorization
         /\ d.agreements = c.agreements
         /\ \A s \in Step :
              /\ d.steps[s].submission = c.steps[s].submission
              /\ d.steps[s].acceptance = c.steps[s].acceptance
              /\ d.steps[s].blockers = c.steps[s].blockers
              /\ (\E a \in A : attempts[a].step = s) => d.steps[s].state = "recovery_required"
              /\ ~(\E a \in A : attempts[a].step = s) => d.steps[s] = c.steps[s]
<1> DEFINE d == FencedCard(c, A)
<1>1. d.steps = [s \in Step |-> IF \E a \in A : attempts[a].step = s
            THEN Naming(c.steps[s], "recovery_required", AttemptOf(attempts, A, s))
            ELSE c.steps[s]]
  BY DEF FencedCard, Card
<1>2. \A s \in Step : c.steps[s] \in StepRecord
  BY DEF Card
<1>3. ASSUME NEW s \in Step, \E a \in A : attempts[a].step = s
      PROVE  /\ d.steps[s].submission = c.steps[s].submission
             /\ d.steps[s].acceptance = c.steps[s].acceptance
             /\ d.steps[s].blockers = c.steps[s].blockers
             /\ d.steps[s].state = "recovery_required"
  <2>1. d.steps[s] = Naming(c.steps[s], "recovery_required", AttemptOf(attempts, A, s))
    BY <1>1, <1>3
  <2> QED
    BY <1>2, <2>1 DEF Naming, StepRecord
<1>4. ASSUME NEW s \in Step, ~ \E a \in A : attempts[a].step = s
      PROVE  d.steps[s] = c.steps[s]
  BY <1>1, <1>4
<1>5. /\ d.plan = c.plan /\ d.planRevision = c.planRevision /\ d.status = c.status
      /\ d.transition = c.transition /\ d.proposal = c.proposal
      /\ d.blockers = c.blockers /\ d.authorization = c.authorization
      /\ d.agreements = c.agreements
  BY DEF FencedCard, Card
<1> QED
  BY <1>3, <1>4, <1>5

\* A fenced document is a document.
LEMMA FencedType ==
  ASSUME NEW c \in Card, NEW A \in SUBSET AttemptIds
  PROVE  FencedCard(c, A) \in Card
<1> DEFINE steps == [s \in Step |-> IF \E a \in A : attempts[a].step = s
             THEN Naming(c.steps[s], "recovery_required", AttemptOf(attempts, A, s))
             ELSE c.steps[s]]
<1>1. ASSUME NEW s \in Step, \E a \in A : attempts[a].step = s
      PROVE  Naming(c.steps[s], "recovery_required", AttemptOf(attempts, A, s)) \in StepRecord
  <2>1. AttemptOf(attempts, A, s) \in A
    BY <1>1, Zenon DEF AttemptOf
  <2>2. AttemptOf(attempts, A, s) \in Nat /\ c.steps[s] \in StepRecord
    BY <2>1, AttemptNumbers DEF Card
  <2> QED
    BY <2>2, NamingFacts DEF StepStates
<1>2. steps \in [Step -> StepRecord]
  BY <1>1 DEF Card
<1>3. FencedCard(c, A) = [c EXCEPT !.steps = steps]
  BY DEF FencedCard
<1> HIDE DEF steps
<1> QED
  BY <1>2, <1>3 DEF Card

\* Fencing running attempts keeps the outputs.
LEMMA FencingKeeps ==
  ASSUME Sound(card, attempts), NEW c, KeepsOutputs(c), NEW A \in SUBSET AttemptIds,
         \A a \in A : attempts[a].state \in ActiveStates,
         FencedCard(c, A) \in Card
  PROVE  KeepsOutputs(FencedCard(c, A))
<1> DEFINE d == FencedCard(c, A)
<1>1. \A a \in A : card.steps[attempts[a].step].state = "running"
  BY PlanFacts
<1>2. /\ d.plan = c.plan /\ d.planRevision = c.planRevision
      /\ \A s \in Step :
           /\ d.steps[s].submission = c.steps[s].submission
           /\ (\E a \in A : attempts[a].step = s) => d.steps[s].state = "recovery_required"
           /\ ~(\E a \in A : attempts[a].step = s) => d.steps[s] = c.steps[s]
  BY FencedFacts DEF KeepsOutputs
<1> HIDE DEF d
<1> QED
  BY <1>1, <1>2 DEF KeepsOutputs, d

-----------------------------------------------------------------------------
(* The kind of each command.                                               *)

\* Most commands keep the outputs and leave the transition alone.
Quiet == Kept /\ Tidy /\ Stays

\* What is to be shown of a command that saves document d.
LEMMA QuietBy ==
  ASSUME NEW d, KeepsOutputs(d), Record(d), d.status \notin Terminal,
         d.transition = card.transition, TransitionBegun => d.proposal = card.proposal,
         \A a \in AttemptIds : KeptRow(a)
  PROVE  Quiet
<1>1. d \in Card
  BY DEF KeepsOutputs
<1>2. Tidy
  BY <1>1, SavedTidy
<1>3. Stays
  BY <1>1, SavedFacts DEF Stays
<1> QED
  BY <1>2, <1>3, OutputsKept DEF Quiet, Kept

\* Fencing the running attempts in A, pausing the card or revoking its grant.
LEMMA FencingQuiet ==
  ASSUME Sound(card, attempts), NEW c, KeepsOutputs(c), NEW A \in SUBSET AttemptIds,
         \A a \in A : attempts[a].state \in ActiveStates,
         FencedCard(c, A) \in Card, NEW d \in Card,
         d.plan = FencedCard(c, A).plan, d.planRevision = FencedCard(c, A).planRevision,
         d.steps = FencedCard(c, A).steps, d.status \notin Terminal,
         d.transition = card.transition, TransitionBegun => d.proposal = card.proposal,
         Record(d), attempts' = FencedRows(attempts, A)
  PROVE  Quiet
<1>1. KeepsOutputs(FencedCard(c, A))
  BY FencingKeeps
<1>2. KeepsOutputs(d)
  BY <1>1 DEF KeepsOutputs
<1>3. \A a \in AttemptIds : KeptRow(a)
  BY SoundTyped, FencedRowsKept
<1> QED
  BY <1>2, <1>3, QuietBy

\* The card with other objections against one of its steps.
LEMMA BlockersKeep ==
  ASSUME card \in Card, NEW s \in Step, NEW B \in SUBSET Actors
  PROVE  /\ KeepsOutputs(WithBlockers(card, s, B))
         /\ WithBlockers(card, s, B).status = card.status
         /\ WithBlockers(card, s, B).transition = card.transition
         /\ WithBlockers(card, s, B).proposal = card.proposal
<1> DEFINE r == [card.steps[s] EXCEPT !.blockers = B]
           d == WithBlockers(card, s, B)
<1>1. card.steps[s] \in StepRecord
  BY DEF Card
<1>2. /\ r \in StepRecord /\ r.state = card.steps[s].state
      /\ r.submission = card.steps[s].submission
      /\ r.acceptance = card.steps[s].acceptance /\ r.attempt = card.steps[s].attempt
  BY <1>1 DEF StepRecord
<1>3. d = WithStep(card, s, r)
  BY DEF WithBlockers
<1> HIDE DEF r, d
<1>4. /\ d \in Card /\ d.plan = card.plan /\ d.planRevision = card.planRevision
      /\ d.status = card.status /\ d.transition = card.transition
      /\ d.proposal = card.proposal /\ d.steps[s] = r
      /\ \A t \in Step \ {s} : d.steps[t] = card.steps[t]
  BY <1>1, <1>2, <1>3, WithStepFacts
<1>5. KeepsOutputs(d)
  BY <1>2, <1>4 DEF KeepsOutputs
<1> QED
  BY <1>4, <1>5 DEF d

\* Proposals, agreements, pauses and blockers leave every output and transition alone.
LEMMA NegotiationKind ==
  ASSUME Sound(card, attempts), Negotiation
  PROVE  Quiet
<1> USE SoundTyped
<1>1. ASSUME NEW p \in Plans, Propose(p)
      PROVE  Quiet
  <2> DEFINE d == [card EXCEPT !.proposal =
                     IF p = card.plan THEN NoProposal(card)
                     ELSE [plan |-> p, base |-> card.planRevision]]
  <2>1. d \in Card
    BY DEF Card, NoProposal, None
  <2>2. /\ KeepsOutputs(d) /\ d.status = card.status /\ d.transition = card.transition
    BY <2>1, EditKeeps DEF Card
  <2> QED
    BY <1>1, <2>2, RowsKept, QuietBy DEF Propose, Open
<1>2. ASSUME NEW actor \in Principals, Agree(actor)
      PROVE  Quiet
  <2> DEFINE d == [card EXCEPT !.agreements[actor] = card.planRevision]
  <2>1. d \in Card
    BY DEF Card
  <2>2. /\ KeepsOutputs(d) /\ d.status = card.status /\ d.transition = card.transition
        /\ d.proposal = card.proposal
    BY <2>1, EditKeeps DEF Card
  <2> QED
    BY <1>2, <2>2, RowsKept, QuietBy DEF Agree, Open
<1>3. ASSUME Pause
      PROVE  Quiet
  <2> DEFINE f == FencedCard(card, ActiveAttempts)
             d == [f EXCEPT !.status = "paused"]
  <2>1. \A a \in ActiveAttempts : attempts[a].state \in ActiveStates
    BY DEF ActiveAttempts, Active
  <2>2. ActiveAttempts \in SUBSET AttemptIds
    BY DEF ActiveAttempts
  <2>3. f \in Card
    BY <2>1, <2>2, FencedSound DEF Sound, Typed
  <2>4. f.transition = card.transition /\ f.proposal = card.proposal
    BY FencedFacts
  <2>5. KeepsOutputs(card)
    BY EditKeeps
  <2>6. Record(d) /\ attempts' = FencedRows(attempts, ActiveAttempts)
    BY <1>3 DEF Pause
  <2> HIDE DEF f
  <2>7. /\ d \in Card /\ d.plan = f.plan /\ d.planRevision = f.planRevision
        /\ d.steps = f.steps /\ d.transition = f.transition /\ d.proposal = f.proposal
        /\ d.status \notin Terminal
    BY <2>3 DEF Card, CardStates, Terminal
  <2> QED
    BY <2>1, <2>2, <2>3, <2>4, <2>5, <2>6, <2>7, FencingQuiet DEF f
<1>4. ASSUME Resume
      PROVE  Quiet
  <2> DEFINE d == [card EXCEPT !.status = "draft"]
  <2>1. d \in Card
    BY DEF Card, CardStates
  <2>2. /\ KeepsOutputs(d) /\ d.status = "draft" /\ d.transition = card.transition
        /\ d.proposal = card.proposal
    BY <2>1, EditKeeps DEF Card
  <2> QED
    BY <1>4, <2>2, RowsKept, QuietBy DEF Resume, Terminal
<1>5. ASSUME NEW actor \in BlockAuthors, NEW s \in Step, NEW bound \in BOOLEAN,
             Block(actor, s, bound)
      PROVE  Quiet
  <2> DEFINE a == card.steps[s].attempt
             B == card.steps[s].blockers \union {actor}
             d == WithBlockers(card, s, B)
             A == {b \in AttemptIds : b = a /\ Active(b)}
  <2>1. B \in SUBSET Actors
    BY BoundsAssumption DEF StepRecord
  <2>2. /\ KeepsOutputs(d) /\ d.status \notin Terminal /\ d.transition = card.transition
        /\ d.proposal = card.proposal
    BY <1>5, <2>1, BlockersKeep DEF Block, Open
  <2> HIDE DEF d
  <2>3. CASE bound
    <3>1. /\ a \in AttemptIds /\ Record(d)
          /\ attempts' = [attempts EXCEPT ![a].blockIntent = TRUE]
      BY <1>5, <2>3 DEF Block, d
    <3>2. \A b \in AttemptIds : KeptRow(b)
      BY <3>1 DEF KeptRow, SameWork, Attempt
    <3> QED
      BY <2>2, <3>1, <3>2, QuietBy
  <2>4. CASE ~bound
    <3> DEFINE f == FencedCard(d, A)
    <3>1. Record(f) /\ attempts' = FencedRows(attempts, A)
      BY <1>5, <2>4 DEF Block, d
    <3>2. A \in SUBSET AttemptIds /\ \A b \in A : attempts[b].state \in ActiveStates
      BY DEF Active
    <3>3. Sound(d, attempts)
      BY <2>1, BlockersSound DEF d
    <3>4. f \in Card
      BY <3>2, <3>3, FencedSound DEF Sound, Typed
    <3>5. /\ f.status = d.status /\ f.transition = d.transition /\ f.proposal = d.proposal
      BY <2>2, FencedFacts DEF KeepsOutputs
    <3> HIDE DEF f, A
    <3>6. \A b \in AttemptIds : KeptRow(b)
      BY <3>1, <3>2, FencedRowsKept
    <3>7. KeepsOutputs(f)
      BY <2>2, <3>2, <3>4, FencingKeeps DEF f
    <3> QED
      BY <2>2, <3>1, <3>5, <3>6, <3>7, QuietBy
  <2> QED
    BY <2>3, <2>4
<1>6. ASSUME NEW actor \in Actors, NEW author \in Actors, NEW s \in Step,
             UnblockStep(actor, author, s)
      PROVE  Quiet
  <2> DEFINE d == WithBlockers(card, s, card.steps[s].blockers \ {author})
  <2>1. card.steps[s].blockers \ {author} \in SUBSET Actors
    BY DEF StepRecord
  <2> QED
    BY <1>6, <2>1, BlockersKeep, RowsKept, QuietBy DEF UnblockStep, Open
<1>7. ASSUME NEW actor \in Actors, NEW author \in Actors, UnblockCard(actor, author)
      PROVE  Quiet
  <2> DEFINE d == [card EXCEPT !.blockers = @ \ {author}]
  <2>1. d \in Card
    BY DEF Card
  <2>2. /\ KeepsOutputs(d) /\ d.status = card.status /\ d.transition = card.transition
        /\ d.proposal = card.proposal
    BY <2>1, EditKeeps DEF Card
  <2> QED
    BY <1>7, <2>2, RowsKept, QuietBy DEF UnblockCard, Open
<1> QED
  BY <1>1, <1>2, <1>3, <1>4, <1>5, <1>6, <1>7 DEF Negotiation

\* Fencing everything that runs, with other books or another status.
LEMMA StoppingQuiet ==
  ASSUME Sound(card, attempts), NEW A \in SUBSET ActiveAttempts, NEW d \in Card,
         d.plan = card.plan, d.planRevision = card.planRevision,
         d.steps = FencedCard(card, A).steps, d.status \notin Terminal,
         d.transition = card.transition, TransitionBegun => d.proposal = card.proposal,
         Record(d), attempts' = FencedRows(attempts, A)
  PROVE  Quiet
<1>1. /\ A \in SUBSET AttemptIds
      /\ \A a \in A : attempts[a].state \in ActiveStates
  BY DEF ActiveAttempts, Active
<1>2. FencedCard(card, A) \in Card /\ KeepsOutputs(card)
  BY <1>1, FencedSound, SoundTyped, EditKeeps DEF Sound, Typed
<1>3. /\ FencedCard(card, A).plan = card.plan
      /\ FencedCard(card, A).planRevision = card.planRevision
  BY SoundTyped, FencedFacts
<1> QED
  BY <1>1, <1>2, <1>3, FencingQuiet

\* The card after a reservation.
LEMMA ReservationKind ==
  ASSUME Sound(card, attempts), NEW a \in AttemptIds, NEW s \in Step,
         NEW actor \in Principals, NEW managed \in BOOLEAN, NEW envelope \in Nat,
         NEW grant \in Grant, actor = PrincipalFor(s), IsNew(a), Claimable(s),
         Record([StepRunning(s, a) EXCEPT !.authorization = grant]),
         attempts' = Reserved(a, s, actor, managed, envelope)
  PROVE  Launched(a, s) /\ Tidy /\ Stays /\ ~TransitionBegun
<1> DEFINE q == Naming(card.steps[s], "running", a)
           c == StepRunning(s, a)
           d == [c EXCEPT !.authorization = grant]
<1>1. card \in Card /\ attempts \in [AttemptIds -> Attempt] /\ card.steps[s] \in StepRecord
  BY SoundTyped
<1>2. /\ q \in StepRecord /\ q.state = "running" /\ q.submission = card.steps[s].submission
  <2>1. a \in Nat /\ "running" \in StepStates
    BY AttemptNumbers DEF StepStates
  <2> QED
    BY <1>1, <2>1, NamingFacts
<1>3. c = WithStep(card, s, q)
  BY DEF StepRunning
<1> HIDE DEF q, c
<1>4. /\ c \in Card /\ c.planRevision = card.planRevision /\ c.plan = card.plan
      /\ c.status = card.status /\ c.transition = card.transition
      /\ c.proposal = card.proposal
      /\ c.steps[s] = q /\ \A t \in Step \ {s} : c.steps[t] = card.steps[t]
  BY <1>1, <1>2, <1>3, WithStepFacts
<1>5. /\ d \in Card /\ d.planRevision = card.planRevision /\ d.plan = card.plan
      /\ d.status = card.status /\ d.transition = card.transition
      /\ d.proposal = card.proposal /\ d.steps = c.steps
  BY <1>4 DEF Card
<1>6. Record(d)
  BY DEF c
<1> HIDE DEF d
<1>7. /\ card.status = "active" /\ ~TransitionBegun /\ s \in StepsOf(card)
      /\ card.steps[s].state \notin {"running", "recovery_required", "accepted"}
      /\ \A e \in card.plan[s] : Accepted(card, e)
  BY DEF Claimable
<1>8. KeepsOutputs(d)
  BY <1>2, <1>4, <1>5, <1>7 DEF KeepsOutputs
<1>9. SamePlan /\ \A t \in Step : KeptStep(t)
  BY <1>6, <1>8, OutputsKept
<1>10. Tidy /\ Stays
  BY <1>5, <1>6, <1>7, SavedTidy, SavedFacts DEF Stays, Terminal
<1>11. /\ \A b \in AttemptIds \ {a} : attempts'[b] = attempts[b]
       /\ attempts'[a].state = "reserved" /\ attempts'[a].step = s
       /\ attempts'[a].verdict = "none" /\ attempts'[a].kind = KindOf(s)
       /\ attempts'[a].submission = card.steps[s].submission
       /\ attempts'[a].actor = actor
  BY <1>1 DEF Reserved
<1>12. \A b \in AttemptIds \ {a} : KeptRow(b)
  BY <1>11 DEF KeptRow, SameWork
<1> QED
  BY <1>7, <1>9, <1>10, <1>11, <1>12 DEF Launched, IsNew, Accepted

\* A claim or a reservation launches; a grant or its revocation does not.
LEMMA LaunchingKind ==
  ASSUME Sound(card, attempts), Launching
  PROVE  \/ Quiet
         \/ \E a \in AttemptIds, s \in Step :
              Launched(a, s) /\ Tidy /\ Stays /\ ~TransitionBegun
<1> USE SoundTyped
<1>1. ASSUME Authorize
      PROVE  Quiet
  <2> DEFINE g == [id |-> card.authorization.id + 1, planRevision |-> card.planRevision,
                   revoked |-> FALSE, due |-> FALSE, unknownCost |-> FALSE,
                   launches |-> 0, used |-> 0]
             d == [card EXCEPT !.authorization = g]
  <2>1. g \in Grant
    BY DEF Card, Grant
  <2>2. Record(d) /\ attempts' = attempts /\ card.status = "active"
    BY <1>1 DEF Authorize
  <2> HIDE DEF g
  <2>3. d \in Card
    BY <2>1 DEF Card
  <2>4. /\ KeepsOutputs(d) /\ d.status = card.status /\ d.transition = card.transition
        /\ d.proposal = card.proposal
    BY <2>3, EditKeeps DEF Card
  <2> QED
    BY <2>2, <2>4, RowsKept, QuietBy DEF Terminal
<1>2. ASSUME Revoke
      PROVE  Quiet
  <2> DEFINE f == FencedCard(card, ActiveAttempts)
             g == RevokedGrant(card.authorization)
             d == [f EXCEPT !.authorization = g]
  <2>1. f \in Card /\ g \in Grant
    BY FencedSound, RevokedGrantFacts DEF Sound, Typed, Card, ActiveAttempts, Active
  <2>2. /\ f.plan = card.plan /\ f.planRevision = card.planRevision
        /\ f.status = card.status /\ f.transition = card.transition
        /\ f.proposal = card.proposal
    BY FencedFacts
  <2>3. Record(d) /\ attempts' = FencedRows(attempts, ActiveAttempts) /\ Open
    BY <1>2 DEF Revoke
  <2> HIDE DEF f, g
  <2>4. /\ d \in Card /\ d.plan = f.plan /\ d.planRevision = f.planRevision
        /\ d.steps = f.steps /\ d.transition = f.transition /\ d.proposal = f.proposal
        /\ d.status = f.status
    BY <2>1 DEF Card
  <2> QED
    BY <2>2, <2>3, <2>4, StoppingQuiet DEF f, Open
<1>3. ASSUME NEW a \in AttemptIds, NEW s \in Step, NEW actor \in Principals,
             Claim(a, s, actor)
      PROVE  Launched(a, s) /\ Tidy /\ Stays /\ ~TransitionBegun
  <2> DEFINE c == StepRunning(s, a)
             d == [c EXCEPT !.authorization = card.authorization]
  <2>1. c = [card EXCEPT !.steps[s] = Naming(card.steps[s], "running", a)]
    BY DEF StepRunning, WithStep
  <2>2. c = d
    BY <2>1 DEF Card
  <2> HIDE DEF c
  <2>3. /\ Record(d) /\ attempts' = Reserved(a, s, actor, FALSE, 0)
        /\ IsNew(a) /\ Claimable(s) /\ actor = PrincipalFor(s)
    BY <1>3, <2>2 DEF Claim, c
  <2>4. card.authorization \in Grant
    BY DEF Card
  <2> QED
    BY <2>3, <2>4, ReservationKind DEF c
<1>4. ASSUME NEW a \in AttemptIds, NEW s \in Step, NEW envelope \in 1..MaxAttemptCost,
             Reserve(a, s, envelope)
      PROVE  Launched(a, s) /\ Tidy /\ Stays /\ ~TransitionBegun
  <2> DEFINE g == [card.authorization EXCEPT !.launches = @ + 1]
  <2>1. g \in Grant
    BY DEF Card, Grant
  <2>2. PrincipalFor(s) \in Principals /\ envelope \in Nat
    BY RolesAssumption, BoundsAssumption DEF PrincipalFor
  <2>3. /\ Record([StepRunning(s, a) EXCEPT !.authorization = g])
        /\ attempts' = Reserved(a, s, PrincipalFor(s), TRUE, envelope)
        /\ IsNew(a) /\ Claimable(s)
    BY <1>4 DEF Reserve
  <2> HIDE DEF g
  <2> QED
    BY <2>1, <2>2, <2>3, ReservationKind, ZenonT(60)
<1> QED
  BY <1>1, <1>2, <1>3, <1>4 DEF Launching

\* What a verdict makes of the step and of the rest of the document.
LEMMA DecidedOutput ==
  ASSUME NEW c \in Card, NEW a \in AttemptIds, NEW verdict, attempts[a].step \in Step
  PROVE  LET d == Decided(c, a, verdict)  r == d.steps[attempts[a].step]
             old == c.steps[attempts[a].step] IN
         /\ d.status = c.status /\ d.transition = c.transition /\ d.proposal = c.proposal
         /\ r.attempt = old.attempt
         /\ IF verdict = "accept"
            THEN /\ r.state = "accepted" /\ r.acceptance = a
                 /\ r.submission = old.submission
            ELSE r.state = "changes_requested" /\ r.submission = None
<1> DEFINE s == attempts[a].step
           accepted == [c.steps[s] EXCEPT !.state = "accepted", !.acceptance = a]
           rejected == [c.steps[s] EXCEPT !.state = "changes_requested",
                                          !.acceptance = None, !.submission = None]
           r == IF verdict = "accept" THEN accepted ELSE rejected
           d == WithStep(c, s, r)
<1>1. c.steps[s] \in StepRecord /\ a \in Nat
  BY AttemptNumbers DEF Card
<1>2. /\ accepted \in StepRecord /\ accepted.state = "accepted" /\ accepted.acceptance = a
      /\ accepted.attempt = c.steps[s].attempt /\ accepted.submission = c.steps[s].submission
  BY <1>1 DEF StepRecord, StepStates
<1>3. /\ rejected \in StepRecord /\ rejected.state = "changes_requested"
      /\ rejected.attempt = c.steps[s].attempt /\ rejected.submission = None
  BY <1>1 DEF StepRecord, StepStates, None
<1>4. Decided(c, a, verdict) = d
  BY DEF Decided
<1> HIDE DEF accepted, rejected
<1>5. /\ d.status = c.status /\ d.transition = c.transition /\ d.proposal = c.proposal
      /\ d.steps[s] = r
  BY <1>2, <1>3, WithStepFacts, SMTT(30)
<1> HIDE DEF d
<1> QED
  BY <1>2, <1>3, <1>4, <1>5

\* Charging leaves everything but the books.
LEMMA ChargedOutput ==
  ASSUME NEW c \in Card, NEW a, NEW known, NEW cost
  PROVE  LET d == Charged(c, a, known, cost) IN
         /\ d.status = c.status /\ d.transition = c.transition /\ d.proposal = c.proposal
         /\ d.steps = c.steps /\ d.plan = c.plan /\ d.planRevision = c.planRevision
BY DEF Charged, Card

\* The ends of an attempt: what becomes of its step, and when.
LEMMA SettledKinds ==
  ASSUME Sound(card, attempts), Earned(card, attempts), NEW a \in AttemptIds, Outstanding(a),
         NEW outcome, NEW known, NEW output
  PROVE  LET z == Settled(a, outcome, known, output)  s == attempts[a].step
             old == card.steps[s]  r == z.card.steps[s] IN
         /\ z.card \in Card
         /\ z.card.plan = card.plan /\ z.card.planRevision = card.planRevision
         /\ z.card.status = card.status /\ z.card.transition = card.transition
         /\ z.card.proposal = card.proposal
         /\ \A t \in Step \ {s} : z.card.steps[t] = card.steps[t]
         /\ r.attempt = old.attempt
         /\ \/ /\ attempts[a].state \in ActiveStates /\ attempts[a].kind = "implement"
               /\ z.state = "succeeded" /\ r.state = "review" /\ r.submission = a
            \/ /\ attempts[a].state \in ActiveStates /\ z.state = "blocked"
               /\ r.state = "blocked" /\ r.submission = old.submission
            \/ /\ attempts[a].state \in ActiveStates /\ attempts[a].kind = "review"
               /\ z.state = "succeeded" /\ attempts[a].verdict = "accept"
               /\ attempts[a].report = "success"
               /\ r.state = "accepted" /\ r.acceptance = a /\ r.submission = old.submission
            \/ /\ attempts[a].state \in ActiveStates /\ attempts[a].kind = "review"
               /\ z.state = "succeeded" /\ attempts[a].verdict = "reject"
               /\ r.state = "changes_requested" /\ r.submission = None
            \/ /\ z.state = "recovery_required" /\ r.state = "recovery_required"
               /\ r.submission = old.submission
<1> DEFINE s == attempts[a].step
           st == card.steps[s]
           published == [st EXCEPT !.submission = a, !.acceptance = None, !.state = "review"]
           blocked == [st EXCEPT !.state = "blocked", !.acceptance = None]
           uncertain == [st EXCEPT !.state = "recovery_required", !.acceptance = None]
           z == Settled(a, outcome, known, output)
<1>1. /\ card \in Card /\ attempts \in [AttemptIds -> Attempt] /\ s \in Step
      /\ st \in StepRecord /\ a \in Nat /\ attempts[a] \in Attempt
  BY SoundTyped, AttemptNumbers
<1>2. /\ published \in StepRecord /\ published.state = "review"
      /\ published.attempt = st.attempt /\ published.submission = a
  BY <1>1 DEF StepRecord, StepStates, None
<1>3. /\ blocked \in StepRecord /\ blocked.state = "blocked"
      /\ blocked.attempt = st.attempt /\ blocked.submission = st.submission
  BY <1>1 DEF StepRecord, StepStates, None
<1>4. /\ uncertain \in StepRecord /\ uncertain.state = "recovery_required"
      /\ uncertain.attempt = st.attempt /\ uncertain.submission = st.submission
  BY <1>1 DEF StepRecord, StepStates, None
<1>5. /\ Publishes(a, outcome) =>
           attempts[a].state \in ActiveStates /\ attempts[a].kind = "implement"
      /\ Cooperates(a, outcome, known, output) => attempts[a].state \in ActiveStates
      /\ Rules(a, outcome) =>
           /\ attempts[a].state \in ActiveStates /\ attempts[a].kind = "review"
           /\ attempts[a].verdict \in {"accept", "reject"}
           /\ attempts[a].verdict = "accept" => attempts[a].report = "success"
  <2>1. /\ Recorded(attempts, a) /\ attempts[a].verdict \in {"none", "accept", "reject"}
        /\ Current(a) => attempts[a].state \in ActiveStates
    BY <1>1 DEF Earned, Attempt, Current, Active
  <2> QED
    BY <2>1 DEF Publishes, Cooperates, Rules, Recorded, ActiveStates
<1>6. \/ /\ z.state = "succeeded" /\ z.card = WithStep(card, s, published)
         /\ Publishes(a, outcome)
      \/ /\ z.state = "blocked" /\ z.card = WithStep(card, s, blocked)
         /\ Cooperates(a, outcome, known, output)
      \/ /\ z.state = "succeeded" /\ z.card = Decided(card, a, attempts[a].verdict)
         /\ Rules(a, outcome)
      \/ z.state = "recovery_required" /\ z.card = WithStep(card, s, uncertain)
  BY DEF Settled
<1> HIDE DEF published, blocked, uncertain, z
<1>7. CASE z.state = "succeeded" /\ z.card = WithStep(card, s, published)
           /\ Publishes(a, outcome)
  <2>1. /\ z.card \in Card /\ z.card.plan = card.plan
        /\ z.card.planRevision = card.planRevision /\ z.card.status = card.status
        /\ z.card.transition = card.transition /\ z.card.proposal = card.proposal
        /\ \A t \in Step \ {s} : z.card.steps[t] = card.steps[t]
        /\ z.card.steps[s] = published
    BY <1>1, <1>2, <1>7, WithStepFacts
  <2> QED
    BY <1>2, <1>5, <1>7, <2>1 DEF z
<1>8. CASE z.state = "blocked" /\ z.card = WithStep(card, s, blocked)
           /\ Cooperates(a, outcome, known, output)
  <2>1. /\ z.card \in Card /\ z.card.plan = card.plan
        /\ z.card.planRevision = card.planRevision /\ z.card.status = card.status
        /\ z.card.transition = card.transition /\ z.card.proposal = card.proposal
        /\ \A t \in Step \ {s} : z.card.steps[t] = card.steps[t]
        /\ z.card.steps[s] = blocked
    BY <1>1, <1>3, <1>8, WithStepFacts
  <2> QED
    BY <1>3, <1>5, <1>8, <2>1 DEF z
<1>9. CASE z.state = "succeeded" /\ z.card = Decided(card, a, attempts[a].verdict)
           /\ Rules(a, outcome)
  <2>1. /\ z.card \in Card /\ z.card.plan = card.plan
        /\ z.card.planRevision = card.planRevision /\ z.card.status = card.status
        /\ z.card.transition = card.transition /\ z.card.proposal = card.proposal
        /\ \A t \in Step \ {s} : z.card.steps[t] = card.steps[t]
        /\ z.card.steps[s].attempt = st.attempt
        /\ IF attempts[a].verdict = "accept"
           THEN /\ z.card.steps[s].state = "accepted" /\ z.card.steps[s].acceptance = a
                /\ z.card.steps[s].submission = st.submission
           ELSE /\ z.card.steps[s].state = "changes_requested"
                /\ z.card.steps[s].submission = None
    BY <1>1, <1>9, DecidedFacts, DecidedOutput
  <2> QED
    BY <1>5, <1>9, <2>1 DEF z
<1>10. CASE z.state = "recovery_required" /\ z.card = WithStep(card, s, uncertain)
  <2>1. /\ z.card \in Card /\ z.card.plan = card.plan
        /\ z.card.planRevision = card.planRevision /\ z.card.status = card.status
        /\ z.card.transition = card.transition /\ z.card.proposal = card.proposal
        /\ \A t \in Step \ {s} : z.card.steps[t] = card.steps[t]
        /\ z.card.steps[s] = uncertain
    BY <1>1, <1>4, <1>10, WithStepFacts
  <2> QED
    BY <1>4, <1>10, <2>1 DEF z
<1> QED
  BY <1>6, <1>7, <1>8, <1>9, <1>10, ZenonT(60)

\* The end of an attempt publishes, rules or leaves the outputs alone.
LEMMA FinishKind ==
  ASSUME Sound(card, attempts), Earned(card, attempts), NEW a \in AttemptIds,
         NEW outcome, NEW known \in BOOLEAN, NEW cost \in Costs, NEW output \in BOOLEAN,
         FinishAttempt(a, outcome, known, cost, output)
  PROVE  (Kept \/ Ruled(a) \/ Published(a)) /\ Tidy /\ Stays
<1> DEFINE s == attempts[a].step
           z == Settled(a, outcome, known, output)
           charged == Charged(z.card, a, known, cost)
           r == [attempts[a] EXCEPT !.state = z.state,
                   !.cost = IF known THEN "known" ELSE "unknown",
                   !.spend = IF known THEN cost ELSE @]
           rows == [attempts EXCEPT ![a] = r]
           others == ActiveAttempts \ {a}
           paused == [FencedCard(charged, others) EXCEPT !.status = "paused"]
<1>1. /\ card \in Card /\ attempts \in [AttemptIds -> Attempt] /\ attempts[a] \in Attempt
      /\ s \in Step /\ cost \in Nat
  BY SoundTyped, BoundsAssumption
<1>2. /\ Outstanding(a) /\ card.status \notin Terminal
      /\ IF attempts[a].managed /\ ~known
         THEN Record(paused) /\ attempts' = FencedRows(rows, others)
         ELSE Record(charged) /\ attempts' = rows
  BY <1>1 DEF FinishAttempt, Open
<1>3. z.state \in {"succeeded", "blocked", "recovery_required"}
  BY DEF Settled
<1> HIDE DEF z
<1>4. /\ r.state = z.state /\ r.step = s /\ r.kind = attempts[a].kind
      /\ r.actor = attempts[a].actor /\ r.planRevision = attempts[a].planRevision
      /\ r.submission = attempts[a].submission /\ r.report = attempts[a].report
      /\ r.verdict = attempts[a].verdict
  BY <1>1, SMTT(30) DEF Attempt
<1>5. /\ z.card \in Card
      /\ z.card.plan = card.plan /\ z.card.planRevision = card.planRevision
      /\ z.card.status = card.status /\ z.card.transition = card.transition
      /\ z.card.proposal = card.proposal
      /\ \A t \in Step \ {s} : z.card.steps[t] = card.steps[t]
      /\ z.card.steps[s].attempt = card.steps[s].attempt
  BY <1>2, SettledKinds DEF z
<1>6. /\ charged \in Card
      /\ charged.plan = card.plan /\ charged.planRevision = card.planRevision
      /\ charged.status = card.status /\ charged.transition = card.transition
      /\ charged.proposal = card.proposal /\ charged.steps = z.card.steps
  BY <1>1, <1>5, ChargedFacts, ChargedOutput
<1>7. /\ rows[a] = r /\ \A b \in AttemptIds \ {a} : rows[b] = attempts[b]
      /\ others \in SUBSET AttemptIds
      /\ \A b \in others : rows[b].state \in ActiveStates /\ attempts[b].state \in ActiveStates
  BY <1>1 DEF ActiveAttempts, Active
<1> HIDE DEF r, rows, charged, others
\* The rows: attempt a ends, the others are kept or fenced.
<1>8. attempts'[a] = r /\ \A b \in AttemptIds \ {a} : KeptRow(b)
  <2>1. ASSUME NEW b \in AttemptIds \ {a}
        PROVE  attempts'[b] \in {attempts[b], [attempts[b] EXCEPT !.state = "recovery_required"]}
               /\ (attempts'[b] # attempts[b] => attempts[b].state \in ActiveStates)
    BY <1>2, <1>7 DEF FencedRows
  <2>2. attempts'[a] = r
    BY <1>2, <1>7 DEF FencedRows, others
  <2>3. ASSUME NEW b \in AttemptIds \ {a}
        PROVE  KeptRow(b)
    BY <1>1, <2>1 DEF KeptRow, SameWork, Attempt
  <2> QED
    BY <2>2, <2>3
\* The document that is saved keeps every other step, and step s as it was settled.
<1>9. PICK d \in Card :
        /\ Record(d) /\ d.status \notin Terminal
        /\ d.plan = card.plan /\ d.planRevision = card.planRevision
        /\ d.transition = card.transition /\ d.proposal = card.proposal
        /\ d.steps[s] = z.card.steps[s]
        /\ \A t \in Step \ {s} :
             /\ d.steps[t].submission = card.steps[t].submission
             /\ d.steps[t].state = "accepted" <=> card.steps[t].state = "accepted"
             /\ card.steps[t].state = "accepted" => d.steps[t] = card.steps[t]
  <2>1. CASE attempts[a].managed /\ ~known
    <3> DEFINE f == FencedCard(charged, others)
    <3>1. f \in Card
      BY <1>6, <1>7, FencedType
    <3>2. /\ f.plan = card.plan /\ f.planRevision = card.planRevision
          /\ f.transition = card.transition /\ f.proposal = card.proposal
          /\ \A t \in Step :
               /\ f.steps[t].submission = charged.steps[t].submission
               /\ (\E b \in others : attempts[b].step = t)
                    => f.steps[t].state = "recovery_required"
               /\ ~(\E b \in others : attempts[b].step = t) => f.steps[t] = charged.steps[t]
      BY <1>6, FencedFacts
    <3>3. \A b \in others : card.steps[attempts[b].step].state = "running"
                              /\ attempts[b].step # s
      <4>1. card.steps[s].attempt = a
        BY <1>2 DEF Sound, Anchored, Outstanding, Active, Uncertain, OutstandingStates
      <4>2. \A b \in others : card.steps[attempts[b].step].state = "running"
                                /\ card.steps[attempts[b].step].attempt = b
        BY <1>7, PlanFacts
      <4> QED
        BY <4>1, <4>2 DEF others
    <3> HIDE DEF f
    <3>4. /\ paused \in Card /\ paused.plan = f.plan /\ paused.planRevision = f.planRevision
          /\ paused.transition = f.transition /\ paused.proposal = f.proposal
          /\ paused.steps = f.steps /\ paused.status = "paused"
      BY <3>1 DEF Card, CardStates, f
    <3>5. f.steps[s] = z.card.steps[s]
      BY <1>1, <1>6, <3>2, <3>3
    <3>6. ASSUME NEW t \in Step \ {s}
          PROVE  /\ f.steps[t].submission = card.steps[t].submission
                 /\ f.steps[t].state = "accepted" <=> card.steps[t].state = "accepted"
                 /\ card.steps[t].state = "accepted" => f.steps[t] = card.steps[t]
      BY <1>5, <1>6, <3>2, <3>3
    <3>7. Record(paused) /\ "paused" \notin Terminal
      BY <1>2, <2>1 DEF Terminal
    <3> HIDE DEF paused
    <3> QED
      BY <3>2, <3>4, <3>5, <3>6, <3>7
  <2>2. CASE ~(attempts[a].managed /\ ~known)
    <3>1. Record(charged)
      BY <1>2, <2>2
    <3> QED
      BY <1>2, <1>5, <1>6, <3>1
  <2> QED
    BY <2>1, <2>2
<1>10. Tidy /\ Stays
  BY <1>9, SavedTidy, SavedFacts DEF Stays
<1>11. /\ SamePlan /\ \A t \in Step \ {s} : KeptStep(t)
       /\ card'.steps[s].attempt = card.steps[s].attempt
       /\ card'.steps[s].submission = z.card.steps[s].submission
       /\ card'.steps[s].acceptance = z.card.steps[s].acceptance
       /\ card'.steps[s].state = "accepted" <=> z.card.steps[s].state = "accepted"
  BY <1>1, <1>5, <1>9, SavedFacts DEF SamePlan, KeptStep
<1>12. card.steps[s].state # "accepted" /\ card.steps[s].attempt = a
  BY <1>2 DEF Sound, Anchored, Outstanding, Active, Uncertain, OutstandingStates
<1>13. SameWork(a) /\ attempts'[a].state = z.state /\ attempts'[a].report = attempts[a].report
       /\ attempts'[a].verdict = attempts[a].verdict
  BY <1>4, <1>8 DEF SameWork
<1>14. \/ /\ attempts[a].state \in ActiveStates /\ attempts[a].kind = "implement"
          /\ z.state = "succeeded" /\ z.card.steps[s].state = "review"
          /\ z.card.steps[s].submission = a
       \/ /\ attempts[a].state \in ActiveStates /\ z.state = "blocked"
          /\ z.card.steps[s].state = "blocked"
          /\ z.card.steps[s].submission = card.steps[s].submission
       \/ /\ attempts[a].state \in ActiveStates /\ attempts[a].kind = "review"
          /\ z.state = "succeeded" /\ attempts[a].verdict = "accept"
          /\ attempts[a].report = "success" /\ z.card.steps[s].state = "accepted"
          /\ z.card.steps[s].acceptance = a
          /\ z.card.steps[s].submission = card.steps[s].submission
       \/ /\ attempts[a].state \in ActiveStates /\ attempts[a].kind = "review"
          /\ z.state = "succeeded" /\ attempts[a].verdict = "reject"
          /\ z.card.steps[s].state = "changes_requested"
          /\ z.card.steps[s].submission = None
       \/ /\ z.state = "recovery_required" /\ z.card.steps[s].state = "recovery_required"
          /\ z.card.steps[s].submission = card.steps[s].submission
  BY <1>2, SettledKinds DEF z
<1>15. Kept \/ Ruled(a) \/ Published(a)
  <2>1. CASE z.state = "succeeded" /\ z.card.steps[s].state = "review"
    BY <1>8, <1>11, <1>13, <1>14, <2>1 DEF Published
  <2>2. CASE z.state = "succeeded" /\ z.card.steps[s].state # "review"
    BY <1>8, <1>11, <1>12, <1>13, <1>14, <2>2 DEF Ruled
  <2>3. CASE z.state # "succeeded"
    <3>1. KeptStep(s)
      BY <1>11, <1>12, <1>14, <2>3 DEF KeptStep
    <3>2. KeptRow(a)
      <4>1. attempts[a].state \in ActiveStates \/ attempts[a].state = "recovery_required"
        BY <1>2 DEF Outstanding, Active, Uncertain
      <4> QED
        BY <1>13, <1>14, <2>3, <4>1 DEF KeptRow
    <3> QED
      BY <1>8, <1>11, <3>1, <3>2 DEF Kept
  <2> QED
    BY <2>1, <2>2, <2>3
<1> QED
  BY <1>10, <1>15

\* A worker's calls change at most the output of its own step.
LEMMA WorkingKind ==
  ASSUME Sound(card, attempts), Earned(card, attempts), Working
  PROVE  \E a \in AttemptIds : (Kept \/ Ruled(a) \/ Published(a)) /\ Tidy /\ Stays
<1> USE SoundTyped
<1>1. PICK a \in AttemptIds :
        \/ Started(a) \/ Submit(a) \/ Compare(a) \/ BlockReviewContext(a)
        \/ \E outcome \in {"success", "other"} : Report(a, outcome)
        \/ \E verdict \in {"accept", "reject"} : Decide(a, verdict)
        \/ \E outcome \in {"success", "blocked", "failed"}, known \in BOOLEAN,
              cost \in Costs, output \in BOOLEAN :
             FinishAttempt(a, outcome, known, cost, output)
  BY DEF Working
<1>2. attempts[a] \in Attempt /\ KeepsOutputs(card) /\ Recorded(attempts, a)
  BY EditKeeps DEF Earned
<1>3. ASSUME Authenticated(a), Record(card), \A b \in AttemptIds : KeptRow(b)
      PROVE  Quiet
  BY <1>2, <1>3, QuietBy DEF Authenticated
<1>4. CASE Started(a)
  <2>1. \A b \in AttemptIds : KeptRow(b)
    BY <1>4 DEF Started, Authenticated, Active, KeptRow, SameWork, Attempt
  <2> QED
    BY <1>3, <1>4, <2>1 DEF Started, Quiet
<1>5. CASE Submit(a)
  <2>1. \A b \in AttemptIds : KeptRow(b)
    BY <1>5 DEF Submit, KeptRow, SameWork, Attempt
  <2> QED
    BY <1>3, <1>5, <2>1 DEF Submit, Quiet
<1>6. CASE Compare(a)
  <2>1. \A b \in AttemptIds : KeptRow(b)
    BY <1>6 DEF Compare, KeptRow, SameWork, Attempt
  <2> QED
    BY <1>3, <1>6, <2>1 DEF Compare, Quiet
<1>7. CASE BlockReviewContext(a)
  <2> DEFINE B == card.steps[attempts[a].step].blockers \union {attempts[a].actor}
             d == WithBlockers(card, attempts[a].step, B)
  <2>1. \A b \in AttemptIds : KeptRow(b)
    BY <1>7 DEF BlockReviewContext, KeptRow, SameWork, Attempt
  <2>2. attempts[a].step \in Step /\ B \in SUBSET Actors
    BY <1>2 DEF Attempt, StepRecord, Actors
  <2>3. Record(d) /\ card.status \notin Terminal
    BY <1>7 DEF BlockReviewContext, Authenticated
  <2> HIDE DEF B
  <2>4. Quiet
    BY <2>1, <2>2, <2>3, BlockersKeep, QuietBy
  <2> QED
    BY <2>4 DEF Quiet
<1>8. ASSUME NEW outcome \in {"success", "other"}, Report(a, outcome)
      PROVE  Quiet
  <2>1. /\ Authenticated(a) /\ attempts[a].state \in ActiveStates
        /\ attempts[a].kind = "review" /\ attempts[a].report = "none"
        /\ Record(card) /\ attempts' = [attempts EXCEPT ![a].report = outcome]
    BY <1>8 DEF Report, Authenticated, Active, ReviewsCurrent
  <2>2. attempts[a].verdict # "accept"
    BY <1>2, <2>1 DEF Recorded, ActiveStates
  <2>3. \A b \in AttemptIds : KeptRow(b)
    BY <2>1, <2>2 DEF KeptRow, SameWork, Attempt
  <2> QED
    BY <1>3, <2>1, <2>3
<1>9. ASSUME NEW verdict \in {"accept", "reject"}, Decide(a, verdict)
      PROVE  (Kept \/ Ruled(a)) /\ Tidy /\ Stays
  <2>1. /\ Authenticated(a) /\ attempts[a].state \in ActiveStates
        /\ attempts[a].kind = "review" /\ card.status \notin Terminal
        /\ verdict = "accept" => attempts[a].report = "success"
    BY <1>9 DEF Decide, Authenticated, Active, ReviewsCurrent
  <2>2. CASE attempts[a].managed
    <3>1. Record(card) /\ attempts' = [attempts EXCEPT ![a].verdict = verdict]
      BY <1>9, <2>2 DEF Decide
    <3>2. \A b \in AttemptIds : KeptRow(b)
      BY <2>1, <3>1 DEF KeptRow, SameWork, Attempt
    <3> QED
      BY <1>3, <2>1, <3>1, <3>2 DEF Quiet
  <2>3. CASE ~attempts[a].managed
    <3> DEFINE s == attempts[a].step
               d == Decided(card, a, verdict)
    <3>1. /\ Record(d)
          /\ attempts' = [attempts EXCEPT ![a].verdict = verdict, ![a].state = "succeeded",
                                          ![a].cost = "unknown"]
      BY <1>9, <2>3 DEF Decide
    <3>2. s \in Step
      BY <1>2 DEF Attempt
    <3>3. /\ d \in Card /\ d.planRevision = card.planRevision /\ d.plan = card.plan
          /\ d.status = card.status /\ d.transition = card.transition
          /\ d.proposal = card.proposal
          /\ \A t \in Step \ {s} : d.steps[t] = card.steps[t]
      BY <3>2, DecidedFacts, DecidedOutput
    <3>4. /\ d.steps[s].attempt = card.steps[s].attempt
          /\ IF verdict = "accept"
             THEN /\ d.steps[s].state = "accepted" /\ d.steps[s].acceptance = a
                  /\ d.steps[s].submission = card.steps[s].submission
             ELSE d.steps[s].state = "changes_requested" /\ d.steps[s].submission = None
      BY <3>2, DecidedOutput
    <3> HIDE DEF d
    <3>5. Tidy /\ Stays
      BY <2>1, <3>1, <3>3, SavedTidy, SavedFacts DEF Stays
    <3>6. /\ SamePlan /\ \A t \in Step \ {s} : KeptStep(t)
          /\ card'.steps[s].attempt = d.steps[s].attempt
          /\ card'.steps[s].submission = d.steps[s].submission
          /\ card'.steps[s].acceptance = d.steps[s].acceptance
          /\ card'.steps[s].state = "accepted" <=> d.steps[s].state = "accepted"
      BY <3>1, <3>2, <3>3, SavedFacts DEF SamePlan, KeptStep
    <3>7. /\ SameWork(a) /\ attempts'[a].state = "succeeded"
          /\ attempts'[a].verdict = verdict /\ attempts'[a].report = attempts[a].report
          /\ \A b \in AttemptIds \ {a} : KeptRow(b)
      BY <1>2, <3>1 DEF SameWork, KeptRow, Attempt
    <3>8. card.steps[s].attempt = a
      BY <2>1, PlanFacts
    <3>9. Ruled(a)
      BY <2>1, <3>4, <3>6, <3>7, <3>8 DEF Ruled
    <3> QED
      BY <3>5, <3>9
  <2> QED
    BY <2>2, <2>3
<1>10. ASSUME NEW outcome, NEW known \in BOOLEAN, NEW cost \in Costs, NEW output \in BOOLEAN,
              FinishAttempt(a, outcome, known, cost, output)
       PROVE  (Kept \/ Ruled(a) \/ Published(a)) /\ Tidy /\ Stays
  BY <1>10, FinishKind
<1> QED
  BY <1>1, <1>4, <1>5, <1>6, <1>7, <1>8, <1>9, <1>10, ZenonT(60) DEF Quiet

\* Time passes: nothing of the card that anybody decides on changes.
Elapsed ==
  /\ card'.status = card.status /\ card'.steps = card.steps
  /\ card'.blockers = card.blockers /\ card'.planRevision = card.planRevision

\* Lost authority takes no output back.
LEMMA LosingKind ==
  ASSUME Sound(card, attempts), Ended(card, attempts), Losing
  PROVE  Quiet \/ (Kept /\ Stays /\ Elapsed)
<1> USE SoundTyped
<1>1. ASSUME GrantElapses
      PROVE  Kept /\ Stays /\ Elapsed
  <2>1. /\ card' = [card EXCEPT !.authorization.due = TRUE]
        /\ attempts' = [a \in AttemptIds |->
             IF Active(a) /\ attempts[a].managed
             THEN [attempts[a] EXCEPT !.due = TRUE] ELSE attempts[a]]
    BY <1>1 DEF GrantElapses
  <2>2. /\ card'.plan = card.plan /\ card'.planRevision = card.planRevision
        /\ card'.steps = card.steps /\ card'.status = card.status
        /\ card'.blockers = card.blockers /\ card'.transition = card.transition
        /\ card'.proposal = card.proposal
    BY <2>1 DEF Card
  <2>3. \A a \in AttemptIds :
          attempts'[a] \in {attempts[a], [attempts[a] EXCEPT !.due = TRUE]}
    BY <2>1
  <2>4. \A a \in AttemptIds : KeptRow(a)
    BY <2>3 DEF KeptRow, SameWork, Attempt
  <2> QED
    BY <2>2, <2>4 DEF Kept, SamePlan, KeptStep, Stays, Elapsed
<1>2. ASSUME NEW A \in SUBSET ActiveAttempts, A # {}, Record(FencedCard(card, A)),
             attempts' = FencedRows(attempts, A)
      PROVE  Quiet
  <2> DEFINE d == FencedCard(card, A)
  <2>1. A \in SUBSET AttemptIds /\ \A a \in A : attempts[a].state \in ActiveStates
    BY DEF ActiveAttempts, Active
  <2>2. d \in Card
    BY <2>1, FencedType
  <2>3. /\ d.plan = card.plan /\ d.planRevision = card.planRevision
        /\ d.status = card.status /\ d.transition = card.transition
        /\ d.proposal = card.proposal
    BY FencedFacts
  <2>4. card.status \notin Terminal
    BY <1>2, <2>1 DEF Ended, OutstandingStates
  <2> QED
    BY <1>2, <2>2, <2>3, <2>4, StoppingQuiet
<1>3. ASSUME Expire
      PROVE  Quiet
  BY <1>2, <1>3 DEF Expire
<1>4. ASSUME RecoverOwner
      PROVE  Quiet
  BY <1>2, <1>4 DEF RecoverOwner
<1>5. ASSUME NEW a \in AttemptIds, ClaimElapses(a)
      PROVE  Kept /\ Stays /\ Elapsed
  <2>1. card' = card /\ attempts' = [attempts EXCEPT ![a].due = TRUE]
    BY <1>5 DEF ClaimElapses
  <2>2. \A b \in AttemptIds : KeptRow(b)
    BY <2>1 DEF KeptRow, SameWork, Attempt
  <2> QED
    BY <2>1, <2>2 DEF Kept, SamePlan, KeptStep, Stays, Elapsed
<1>6. ASSUME NEW a \in AttemptIds, ConfirmStopped(a)
      PROVE  Quiet
  <2>1. /\ Record(card) /\ attempts' = [attempts EXCEPT ![a].gone = TRUE]
        /\ attempts[a].state \in OutstandingStates
    BY <1>6 DEF ConfirmStopped, Outstanding, Active, Uncertain, OutstandingStates
  <2>2. \A b \in AttemptIds : KeptRow(b)
    BY <2>1 DEF KeptRow, SameWork, Attempt
  <2>3. KeepsOutputs(card) /\ card.status \notin Terminal
    BY <2>1, EditKeeps DEF Ended
  <2> QED
    BY <2>1, <2>2, <2>3, QuietBy
<1> QED
  BY <1>1, <1>3, <1>4, <1>5, <1>6 DEF Losing

\* A disposition of attempts that frees steps which wait for them.
LEMMA DispositionKeeps ==
  ASSUME Sound(card, attempts), NEW A \in SUBSET AttemptIds, NEW release \in SUBSET Step,
         NEW resolution, \A s \in release : card.steps[s].state # "accepted"
  PROVE  /\ KeepsOutputs(DisposedCard(A, release, resolution))
         /\ DisposedCard(A, release, resolution).status \in {card.status, "paused"}
         /\ DisposedCard(A, release, resolution).transition = card.transition
         /\ DisposedCard(A, release, resolution).proposal = card.proposal
<1> DEFINE d == DisposedCard(A, release, resolution)
<1>1. FreedDocument(d, release)
  BY DisposedDocument
<1> HIDE DEF d
<1>2. KeepsOutputs(d)
  BY <1>1 DEF KeepsOutputs, FreedDocument
<1> QED
  BY <1>1, <1>2 DEF d, FreedDocument

\* The plan changed over nothing that is outstanding: without agreement or grant,
\* keeping a pause and every open objection.
CleanChange ==
  /\ OutstandingAttempts = {} /\ card'.planRevision # card.planRevision
  /\ ~Agreed(card)' /\ card'.status \in {"draft", "paused"}
  /\ card.status = "paused" => card'.status = "paused"
  /\ card'.authorization.id # None => card'.authorization.revoked
  /\ OpenBlockers(card) \subseteq OpenBlockers(card)'

\* The card was cancelled with nothing outstanding.
Cancelled == card'.status = "cancelled" /\ OutstandingAttempts = {} /\ attempts' = attempts

\* An activation is a clean change of the plan.
LEMMA ActivationKind ==
  ASSUME Sound(card, attempts), TransitionActivate
  PROVE  Replanned /\ Tidy /\ CleanChange /\ card'.transition = NoTransition
<1> DEFINE p == card.proposal.plan
           d == Activated(p)
<1>1. /\ card \in Card /\ p \in Plans /\ OutstandingAttempts = {} /\ Record(d)
      /\ attempts' = attempts /\ card.status \notin Terminal
  BY SoundTyped DEF TransitionActivate, Open, Card
<1>2. /\ d \in Card /\ d.plan = p /\ d.planRevision = card.planRevision + 1
      /\ d.status = card.status /\ d.agreements = [x \in Principals |-> None]
      /\ d.transition = NoTransition /\ d.authorization = RevokedGrant(card.authorization)
      /\ d.blockers = card.blockers
           \union UNION {card.steps[s].blockers : s \in StepsOf(card) \ DOMAIN p}
  BY <1>1, ActivatedFacts
<1>3. \A s \in Step :
        /\ d.steps[s].state = "todo" /\ d.steps[s].submission = None
        /\ s \in DOMAIN p \intersect StepsOf(card) =>
             d.steps[s].blockers = card.steps[s].blockers
  BY <1>1, ActivatedFacts
<1> HIDE DEF d, p
<1>4. Tidy /\ (card.status = "paused" => card'.status = "paused")
      /\ (card'.status = "active" => Agreed(d))
  BY <1>1, <1>2, SavedTidy
<1>5. /\ card'.plan = p /\ card'.planRevision = card.planRevision + 1
      /\ card'.agreements = [x \in Principals |-> None] /\ card'.transition = NoTransition
      /\ card'.authorization = RevokedGrant(card.authorization)
      /\ card'.blockers = d.blockers
      /\ \A s \in Step :
           /\ card'.steps[s].submission = None /\ card'.steps[s].state # "accepted"
           /\ card'.steps[s].blockers = d.steps[s].blockers
  BY <1>1, <1>2, <1>3, SavedFacts
<1>6. /\ card.planRevision + 1 \notin {None, card.planRevision}
      /\ card.authorization \in Grant
  BY <1>1 DEF Card, None
<1>7. ~Agreed(card)' /\ ~Agreed(d)
  BY <1>2, <1>5, <1>6 DEF Agreed, Principals
<1>8. card'.status \in {"draft", "paused"}
  <2>1. card'.status \in {"draft", "active", "paused", "completed"}
    <3>1. card'.status = RefreshedStatus(d)
      BY <1>1, <1>2 DEF Record, Refresh, Card
    <3> QED
      BY <3>1 DEF RefreshedStatus
  <2>2. card'.status # "completed"
    <3>1. DOMAIN p # {} /\ DOMAIN p \subseteq Step
      BY <1>1, PlansAssumption
    <3> QED
      BY <1>4, <1>5, <3>1 DEF Tidy, StepsOf, Accepted
  <2> QED
    BY <1>4, <1>7, <2>1, <2>2
<1>9. card'.authorization.id # None => card'.authorization.revoked
  BY <1>5, <1>6 DEF RevokedGrant, Grant
<1>10. OpenBlockers(card) \subseteq OpenBlockers(card)'
  <2> SUFFICES ASSUME NEW x \in OpenBlockers(card)
               PROVE  x \in OpenBlockers(card')
    BY DEF OpenBlockers
  <2>1. CASE x \in card.blockers
    BY <1>2, <1>5, <2>1 DEF OpenBlockers
  <2>2. CASE x \notin card.blockers
    <3>1. PICK s \in DOMAIN card.plan : x \in card.steps[s].blockers
      BY <2>2 DEF OpenBlockers
    <3>2. CASE s \in DOMAIN p
      <4>1. s \in Step /\ card'.steps[s].blockers = card.steps[s].blockers
        BY <1>1, <1>3, <1>5, <3>1, <3>2, PlansAssumption DEF StepsOf
      <4> QED
        BY <1>5, <3>1, <3>2, <4>1 DEF OpenBlockers
    <3>3. CASE s \notin DOMAIN p
      <4>1. x \in d.blockers
        BY <1>2, <3>1, <3>3 DEF StepsOf
      <4> QED
        BY <1>5, <4>1 DEF OpenBlockers
    <3> QED
      BY <3>2, <3>3
  <2> QED
    BY <2>1, <2>2
<1> QED
  BY <1>1, <1>4, <1>5, <1>6, <1>7, <1>8, <1>9, <1>10 DEF Replanned, CleanChange

\* Fencing everything that runs leaves nothing running, and what is uncertain then
\* was outstanding before.
LEMMA FencedAll ==
  ASSUME attempts \in [AttemptIds -> Attempt], attempts' = FencedRows(attempts, ActiveAttempts)
  PROVE  \A a \in AttemptIds :
           /\ attempts'[a].step = attempts[a].step
           /\ attempts'[a].state \notin ActiveStates
           /\ attempts'[a].state = "recovery_required" <=> a \in OutstandingAttempts
<1> SUFFICES ASSUME NEW a \in AttemptIds
             PROVE  /\ attempts'[a].step = attempts[a].step
                    /\ attempts'[a].state \notin ActiveStates
                    /\ attempts'[a].state = "recovery_required" <=> a \in OutstandingAttempts
  OBVIOUS
<1>1. CASE a \in ActiveAttempts
  BY <1>1 DEF FencedRows, ActiveAttempts, OutstandingAttempts, Outstanding, Active,
              Attempt, ActiveStates
<1>2. CASE a \notin ActiveAttempts
  BY <1>2 DEF FencedRows, ActiveAttempts, OutstandingAttempts, Outstanding, Active,
              Uncertain, ActiveStates
<1> QED
  BY <1>1, <1>2

\* Beginning a transition freezes the card and keeps its outputs.
LEMMA BeginKind ==
  ASSUME Sound(card, attempts), TransitionBegin
  PROVE  Kept /\ Tidy /\ Frozen(card, attempts)'
<1> DEFINE f == FencedCard(card, ActiveAttempts)
           t == [phase |-> IF OutstandingAttempts = {} THEN "ready" ELSE "stopping",
                 inventory |-> OutstandingAttempts, disposed |-> {}]
           d == [f EXCEPT !.transition = t]
<1>1. /\ card \in Card /\ attempts \in [AttemptIds -> Attempt] /\ KeepsOutputs(card)
      /\ ActiveAttempts \in SUBSET AttemptIds
      /\ \A a \in ActiveAttempts : attempts[a].state \in ActiveStates
  BY SoundTyped, EditKeeps DEF ActiveAttempts, Active
<1>2. /\ card.status \notin Terminal /\ Record(d)
      /\ card.proposal.base = card.planRevision
      /\ attempts' = FencedRows(attempts, ActiveAttempts)
  BY DEF TransitionBegin, Open
<1>3. f \in Card
  BY <1>1, FencedType
<1>4. KeepsOutputs(f)
  BY <1>1, <1>3, FencingKeeps
<1>5. f.status = card.status /\ f.proposal = card.proposal /\ f.planRevision = card.planRevision
  BY <1>1, FencedFacts
<1>6. t \in [phase : TransitionOpen \union {"none"},
              inventory : SUBSET AttemptIds, disposed : SUBSET AttemptIds]
  BY DEF TransitionOpen, OutstandingAttempts
<1>7. t.inventory = OutstandingAttempts /\ t.disposed = {}
  OBVIOUS
<1> HIDE DEF f, t
<1>8. /\ d \in Card /\ d.status = f.status /\ d.proposal = f.proposal /\ d.transition = t
      /\ d.plan = f.plan /\ d.planRevision = f.planRevision /\ d.steps = f.steps
  BY <1>3, <1>6 DEF Card
<1>9. KeepsOutputs(d)
  BY <1>4, <1>8 DEF KeepsOutputs
<1> HIDE DEF d
<1>10. Tidy /\ SamePlan /\ \A s \in Step : KeptStep(s)
  BY <1>2, <1>5, <1>8, <1>9, SavedTidy, OutputsKept
<1>11. \A a \in AttemptIds : KeptRow(a)
  BY <1>1, <1>2, FencedRowsKept
<1>12. /\ card'.proposal.base = card'.planRevision
       /\ card'.transition.inventory = OutstandingAttempts /\ card'.transition.disposed = {}
       /\ card'.plan = card.plan
  BY <1>2, <1>5, <1>7, <1>8, <1>9, SavedFacts DEF KeepsOutputs
<1>13. Frozen(card, attempts)'
  <2>1. \A a \in AttemptIds :
          /\ attempts'[a].step = attempts[a].step
          /\ attempts'[a].state \notin ActiveStates
          /\ attempts'[a].state = "recovery_required" <=> a \in OutstandingAttempts
    BY <1>1, <1>2, FencedAll
  <2>2. \A a \in OutstandingAttempts : a \in AttemptIds /\ attempts[a].step \in StepsOf(card)
    BY DEF OutstandingAttempts, Outstanding, Active, Uncertain, Sound, Anchored,
           OutstandingStates
  <2>3. StepsOf(card') = StepsOf(card)
    BY <1>12 DEF StepsOf
  <2> QED
    BY <1>12, <2>1, <2>2, <2>3 DEF Frozen
<1> QED
  BY <1>10, <1>11, <1>13 DEF Kept

\* Resolving one attempt of the inventory keeps the transition frozen.
LEMMA ResolveKind ==
  ASSUME Sound(card, attempts), Earned(card, attempts), Frozen(card, attempts),
         NEW a \in AttemptIds, NEW resolution, TransitionResolve(a, resolution)
  PROVE  Kept /\ Tidy /\ Frozen(card, attempts)'
<1> DEFINE s == attempts[a].step
           release == IF card.steps[s].attempt = a THEN {s} ELSE {}
           disposed == card.transition.disposed \union {a}
           c == DisposedCard({a}, release, resolution)
           t == [card.transition EXCEPT !.disposed = disposed,
                   !.phase = IF disposed = card.transition.inventory THEN "ready" ELSE @]
           d == [c EXCEPT !.transition = t]
<1>1. /\ card \in Card /\ attempts \in [AttemptIds -> Attempt] /\ attempts[a] \in Attempt
      /\ s \in Step /\ release \in SUBSET Step
  BY SoundTyped
<1>2. /\ card.status \notin Terminal /\ Record(d) /\ TransitionBegun
      /\ a \in card.transition.inventory
      /\ attempts' = [attempts EXCEPT ![a].state = "reconciled",
                                      ![a].gone = @ \/ ~attempts[a].managed]
  BY DEF TransitionResolve, Open
<1>3. /\ attempts[a].state \in {"recovery_required", "reconciled"}
      /\ s \in StepsOf(card)
  BY <1>2 DEF Frozen, TransitionBegun
<1>4. \A x \in release : card.steps[x].state # "accepted"
  BY <1>3 DEF Earned, Approved, Accepted
<1>5. /\ KeepsOutputs(c) /\ c.status \in {card.status, "paused"}
      /\ c.proposal = card.proposal
  BY <1>1, <1>4, DispositionKeeps
<1>6. /\ t \in [phase : TransitionOpen \union {"none"},
                 inventory : SUBSET AttemptIds, disposed : SUBSET AttemptIds]
      /\ t.inventory = card.transition.inventory /\ t.disposed = disposed
  BY <1>1 DEF Card, TransitionOpen
<1> HIDE DEF c, t
<1>7. /\ d \in Card /\ d.status = c.status /\ d.proposal = c.proposal /\ d.transition = t
      /\ d.plan = c.plan /\ d.planRevision = c.planRevision /\ d.steps = c.steps
  BY <1>5, <1>6 DEF Card, KeepsOutputs
<1>8. KeepsOutputs(d)
  BY <1>5, <1>7 DEF KeepsOutputs
<1> HIDE DEF d
<1>9. Tidy /\ SamePlan /\ \A x \in Step : KeptStep(x)
  BY <1>2, <1>5, <1>7, <1>8, SavedTidy, OutputsKept DEF Terminal
<1>10. /\ \A b \in AttemptIds \ {a} : attempts'[b] = attempts[b]
       /\ SameWork(a) /\ attempts'[a].state = "reconciled"
       /\ attempts'[a].report = attempts[a].report /\ attempts'[a].verdict = attempts[a].verdict
  BY <1>1, <1>2 DEF SameWork, Attempt
<1>11. \A b \in AttemptIds : KeptRow(b)
  BY <1>3, <1>10 DEF KeptRow, SameWork
<1>12. /\ card'.transition = t /\ card'.proposal = card.proposal
       /\ card'.plan = card.plan /\ card'.planRevision = card.planRevision
  BY <1>2, <1>5, <1>7, <1>8, SavedFacts DEF KeepsOutputs
<1>13. Frozen(card, attempts)'
  <2>1. /\ card.proposal.base = card.planRevision
        /\ \A b \in card.transition.inventory :
             attempts[b].state \in {"recovery_required", "reconciled"}
             /\ attempts[b].step \in StepsOf(card)
        /\ \A b \in AttemptIds :
             /\ attempts[b].state \notin ActiveStates
             /\ attempts[b].state = "recovery_required" =>
                  b \in card.transition.inventory \ card.transition.disposed
    BY <1>2 DEF Frozen, TransitionBegun
  <2>2. StepsOf(card') = StepsOf(card) /\ card.transition.inventory \subseteq AttemptIds
    BY <1>1, <1>12 DEF StepsOf, Card
  <2> QED
    BY <1>6, <1>10, <1>12, <2>1, <2>2 DEF Frozen, ActiveStates, SameWork
<1> QED
  BY <1>9, <1>11, <1>13 DEF Kept

\* The operator's decisions keep the outputs, or put another plan in force.
LEMMA DisposingKind ==
  ASSUME Sound(card, attempts), Earned(card, attempts), Frozen(card, attempts), Disposing
  PROVE  \/ Quiet
         \/ Kept /\ Tidy /\ Frozen(card, attempts)'
         \/ Replanned /\ Tidy /\ CleanChange /\ card'.transition = NoTransition
         \/ Kept /\ Cancelled /\ card'.transition = NoTransition
<1> USE SoundTyped
<1>1. ASSUME NEW scope \in {Step} \union {{s} : s \in Step}, NEW resolution,
             Reconcile(scope, resolution)
      PROVE  Quiet
  <2> DEFINE A == {a \in AttemptIds : Uncertain(a) /\ attempts[a].step \in scope}
             release == {attempts[a].step : a \in A}
             d == DisposedCard(A, release, resolution)
  <2>1. /\ Record(d) /\ card.status \notin Terminal
        /\ attempts' = [a \in AttemptIds |->
             IF a \in A THEN [attempts[a] EXCEPT !.state = "reconciled"] ELSE attempts[a]]
    BY <1>1 DEF Reconcile, Open
  <2>2. release \in SUBSET Step /\ A \in SUBSET AttemptIds
    OBVIOUS
  <2>3. \A a \in A : attempts[a].state = "recovery_required"
    BY DEF Uncertain
  <2> HIDE DEF A
  <2>4. \A s \in release : card.steps[s].state # "accepted"
    <3>1. \A a \in A : card.steps[attempts[a].step].state = "recovery_required"
      BY <2>2, <2>3 DEF Sound, Anchored, OutstandingStates
    <3> QED
      BY <3>1
  <2> HIDE DEF release
  <2>5. /\ KeepsOutputs(d) /\ d.status \in {card.status, "paused"}
        /\ d.transition = card.transition /\ d.proposal = card.proposal
    BY <2>2, <2>4, DispositionKeeps
  <2>6. ASSUME NEW a \in AttemptIds
        PROVE  KeptRow(a)
    <3>1. CASE a \in A
      BY <2>1, <2>3, <3>1 DEF KeptRow, SameWork, Attempt
    <3>2. CASE a \notin A
      BY <2>1, <3>2 DEF KeptRow, SameWork
    <3> QED
      BY <3>1, <3>2
  <2> HIDE DEF d
  <2> QED
    BY <2>1, <2>5, <2>6, QuietBy DEF Terminal
<1>2. ASSUME TransitionWithdraw
      PROVE  Kept /\ Tidy /\ Frozen(card, attempts)'
  <2> DEFINE d == [card EXCEPT !.proposal = NoProposal(card), !.transition = NoTransition]
  <2>1. /\ NoProposal(card) \in [plan : Plans, base : Nat]
        /\ NoTransition \in [phase : TransitionOpen \union {"none"},
                             inventory : SUBSET AttemptIds, disposed : SUBSET AttemptIds]
    BY DEF NoProposal, NoTransition, Card, None
  <2>2. d \in Card
    BY <2>1 DEF Card
  <2>3. /\ KeepsOutputs(d) /\ d.status = card.status /\ d.transition = NoTransition
    BY <2>2, EditKeeps DEF Card
  <2>4. Record(d) /\ attempts' = attempts /\ card.status \notin Terminal
    BY <1>2 DEF TransitionWithdraw, Open
  <2> HIDE DEF d
  <2>5. Kept /\ Tidy /\ card'.transition = NoTransition
    BY <2>2, <2>3, <2>4, SavedTidy, SavedFacts, OutputsKept, RowsKept DEF Kept
  <2> QED
    BY <2>5 DEF Frozen, NoTransition, TransitionOpen
<1>3. ASSUME Cancel
      PROVE  Kept /\ Cancelled /\ card'.transition = NoTransition
  <2> DEFINE g == RevokedGrant(card.authorization)
             d == [card EXCEPT !.status = "cancelled",
                     !.proposal = NoProposal(card), !.transition = NoTransition,
                     !.authorization = g]
  <2>1. /\ NoProposal(card) \in [plan : Plans, base : Nat]
        /\ NoTransition \in [phase : TransitionOpen \union {"none"},
                             inventory : SUBSET AttemptIds, disposed : SUBSET AttemptIds]
        /\ g \in Grant
    BY RevokedGrantFacts DEF NoProposal, NoTransition, Card, None
  <2>2. Record(d) /\ attempts' = attempts /\ OutstandingAttempts = {}
    BY <1>3 DEF Cancel
  <2> HIDE DEF g
  <2>3. /\ d \in Card /\ d.plan = card.plan /\ d.planRevision = card.planRevision
        /\ d.steps = card.steps /\ d.status = "cancelled" /\ d.transition = NoTransition
    BY <2>1 DEF Card, CardStates, Terminal
  <2> HIDE DEF d
  <2>4. KeepsOutputs(d) /\ card'.status = "cancelled" /\ card'.transition = NoTransition
    BY <2>2, <2>3, EditKeeps DEF Record, Refresh, Terminal
  <2> QED
    BY <2>2, <2>4, OutputsKept, RowsKept DEF Kept, Cancelled
<1> QED
  BY <1>1, <1>2, <1>3, BeginKind, ActivationKind, ResolveKind DEF Disposing

-----------------------------------------------------------------------------
(* The card's history.                                                     *)

\* The inductive invariant.
History(c, rows) ==
  Sound(c, rows) /\ Earned(c, rows) /\ Frozen(c, rows) /\ Ended(c, rows)

\* Whatever the store or the time does is a step of one of these kinds.
LEMMA NextKind ==
  ASSUME History(card, attempts), Next
  PROVE  \/ Quiet
         \/ \E a \in AttemptIds, s \in Step :
              Launched(a, s) /\ Tidy /\ Stays /\ ~TransitionBegun
         \/ \E a \in AttemptIds : (Ruled(a) \/ Published(a)) /\ Tidy /\ Stays
         \/ Kept /\ Stays /\ Elapsed
         \/ Kept /\ Tidy /\ Frozen(card, attempts)'
         \/ Replanned /\ Tidy /\ CleanChange /\ card'.transition = NoTransition
         \/ Kept /\ Cancelled /\ card'.transition = NoTransition
<1> USE DEF History
<1>1. CASE Negotiation
  BY <1>1, NegotiationKind
<1>2. CASE Launching
  BY <1>2, LaunchingKind
<1>3. CASE Working
  BY <1>3, WorkingKind DEF Quiet
<1>4. CASE Losing
  BY <1>4, LosingKind
<1>5. CASE Disposing
  BY <1>5, DisposingKind
<1> QED
  BY <1>1, <1>2, <1>3, <1>4, <1>5 DEF Next

\* A transition stays frozen when the command is not about it.
LEMMA KeptFrozen ==
  ASSUME Sound(card, attempts), Frozen(card, attempts), Kept, Stays
  PROVE  Frozen(card, attempts)'
<1>1. SUFFICES ASSUME card'.transition.phase \in TransitionOpen
               PROVE  Frozen(card, attempts)'
  BY DEF Frozen
<1>2. /\ card'.transition = card.transition /\ card'.proposal = card.proposal
      /\ card.transition.phase \in TransitionOpen
  BY <1>1 DEF Stays, TransitionBegun
<1>3. /\ card.transition.inventory \subseteq AttemptIds
      /\ card'.planRevision = card.planRevision /\ StepsOf(card') = StepsOf(card)
  BY SoundTyped DEF Card, Kept, SamePlan, StepsOf
<1>4. \A a \in AttemptIds : KeptRow(a) /\ attempts[a].state \notin ActiveStates
  BY <1>2 DEF Kept, Frozen
<1>5. \A a \in AttemptIds : /\ attempts'[a].step = attempts[a].step
                            /\ \/ attempts'[a].state = attempts[a].state
                               \/ /\ attempts[a].state = "recovery_required"
                                  /\ attempts'[a].state = "reconciled"
  BY <1>4 DEF KeptRow, SameWork
<1> QED
  BY <1>2, <1>3, <1>5 DEF Frozen, ActiveStates

\* While a transition is open nothing runs that could be settled.
LEMMA NothingSettlesFrozen ==
  ASSUME Frozen(card, attempts), NEW a \in AttemptIds, Ruled(a) \/ Published(a), Stays
  PROVE  Frozen(card, attempts)'
<1>1. card.transition.phase \notin TransitionOpen
  BY DEF Frozen, Ruled, Published
<1> QED
  BY <1>1 DEF Frozen, Stays

\* A saved card that says it is completed is: nothing waits on an accepted step.
LEMMA TidyEnded ==
  ASSUME Tidy, Sound(card, attempts)'
  PROVE  Ended(card, attempts)'
<1>1. ASSUME card'.status \in Terminal, NEW a \in AttemptIds,
             attempts'[a].state \in OutstandingStates
      PROVE  FALSE
  <2>1. \A s \in StepsOf(card') : card'.steps[s].state = "accepted"
    BY <1>1 DEF Tidy, Terminal, Accepted
  <2>2. /\ attempts'[a].step \in StepsOf(card')
        /\ card'.steps[attempts'[a].step].state \in {"running", "recovery_required"}
    BY <1>1 DEF Sound, Anchored, OutstandingStates
  <2> QED
    BY <2>1, <2>2
<1> QED
  BY <1>1 DEF Tidy, Ended

\* Time that passes starts no work on a card that is over.
LEMMA ElapsedEnded ==
  ASSUME Ended(card, attempts), Kept, Elapsed
  PROVE  Ended(card, attempts)'
<1>1. \A a \in AttemptIds : attempts'[a].state \in OutstandingStates
                              => attempts[a].state \in OutstandingStates
  BY DEF Kept, KeptRow, OutstandingStates, ActiveStates
<1>2. StepsOf(card') = StepsOf(card)
  BY DEF Kept, SamePlan, StepsOf
<1> QED
  BY <1>1, <1>2 DEF Ended, Elapsed, Accepted

\* A card is cancelled only when nothing is outstanding.
LEMMA CancelledEnded ==
  ASSUME Cancelled
  PROVE  Ended(card, attempts)'
BY DEF Cancelled, Ended, OutstandingAttempts, Outstanding, Active, Uncertain,
       OutstandingStates

\* A card that was just created has no history.
LEMMA InitHistory == Init => History(card, attempts)
<1> SUFFICES ASSUME Init
             PROVE  History(card, attempts)
  OBVIOUS
<1>1. Sound(card, attempts)
  BY InitSound
<1>2. /\ card.status = "draft" /\ card.transition = NoTransition
      /\ card.steps = [s \in Step |-> NewStep]
  BY DEF Init
<1>3. \A a \in AttemptIds : attempts[a].state = "none"
  BY DEF Init
<1>4. \A s \in StepsOf(card) : /\ card.steps[s].submission = None
                               /\ card.steps[s].state = "todo"
  BY <1>1, <1>2, SoundTyped DEF NewStep
<1>5. Earned(card, attempts)
  BY <1>3, <1>4 DEF Earned, Output, Approved, Accepted, Recorded, Founded, Refused, ActiveStates
<1>6. Frozen(card, attempts) /\ Ended(card, attempts)
  BY <1>2 DEF Frozen, Ended, NoTransition, TransitionOpen, Terminal
<1> QED
  BY <1>1, <1>5, <1>6 DEF History

\* Every kind of step keeps the history.
LEMMA NextHistory == History(card, attempts) /\ [Next]_vars => History(card, attempts)'
<1> SUFFICES ASSUME History(card, attempts), [Next]_vars
             PROVE  History(card, attempts)'
  OBVIOUS
<1>1. /\ Sound(card, attempts) /\ Earned(card, attempts)
      /\ Frozen(card, attempts) /\ Ended(card, attempts)
  BY DEF History
<1>2. Sound(card, attempts)'
  BY <1>1, NextSound
<1>3. ASSUME card'.transition = NoTransition
      PROVE  Frozen(card, attempts)'
  BY <1>3 DEF Frozen, NoTransition, TransitionOpen
<1>4. CASE Quiet
  <2>1. Kept /\ Tidy /\ Stays
    BY <1>4 DEF Quiet
  <2> QED
    BY <1>1, <1>2, <2>1, KeptEarned, KeptFrozen, TidyEnded DEF History
<1>5. ASSUME NEW a \in AttemptIds, NEW s \in Step,
             Launched(a, s), Tidy, Stays, ~TransitionBegun
      PROVE  History(card, attempts)'
  <2>1. Frozen(card, attempts)'
    BY <1>5 DEF Frozen, Stays, TransitionBegun
  <2> QED
    BY <1>1, <1>2, <1>5, <2>1, LaunchedEarned, TidyEnded DEF History
<1>6. ASSUME NEW a \in AttemptIds, Ruled(a) \/ Published(a), Tidy, Stays
      PROVE  History(card, attempts)'
  <2>1. Earned(card, attempts)'
    BY <1>1, <1>2, <1>6, RuledEarned, PublishedEarned
  <2> QED
    BY <1>1, <1>2, <1>6, <2>1, NothingSettlesFrozen, TidyEnded DEF History
<1>7. CASE Kept /\ Stays /\ Elapsed
  BY <1>1, <1>2, <1>7, KeptEarned, KeptFrozen, ElapsedEnded DEF History
<1>8. CASE Kept /\ Tidy /\ Frozen(card, attempts)'
  BY <1>1, <1>2, <1>8, KeptEarned, TidyEnded DEF History
<1>9. CASE Replanned /\ Tidy /\ CleanChange /\ card'.transition = NoTransition
  BY <1>1, <1>2, <1>3, <1>9, ReplannedEarned, TidyEnded DEF History
<1>10. CASE Kept /\ Cancelled /\ card'.transition = NoTransition
  BY <1>1, <1>2, <1>3, <1>10, KeptEarned, CancelledEnded DEF History
<1>11. CASE UNCHANGED vars
  BY <1>1, <1>2, <1>11
     DEF vars, History, Earned, Output, Approved, Accepted, Recorded, Founded, Refused,
         Frozen, Ended, StepsOf
<1> QED
  BY <1>4, <1>5, <1>6, <1>7, <1>8, <1>9, <1>10, <1>11, NextKind

\* The history of the card is sound after every command (WorkStore.perform and the
\* attempt operations), for every plan and any number of attempts.
THEOREM HistoryIsInductive == Spec => []History(card, attempts)
BY InitHistory, NextHistory, PTL DEF Spec

\* What is accepted was made by its owner and accepted by the other principal in a
\* review of exactly that output, and what was rejected is nobody's output again.
THEOREM OutputsAreEarned == Spec => []AcceptanceIsEarned
<1>1. History(card, attempts) => AcceptanceIsEarned
  <2> SUFFICES ASSUME History(card, attempts)
               PROVE  AcceptedOutputReviewed /\ RejectedStaysRejected
    BY DEF AcceptanceIsEarned
  <2>1. Sound(card, attempts) /\ Earned(card, attempts)
    BY DEF History
  <2>2. AcceptedOutputReviewed
    <3> SUFFICES ASSUME NEW s \in StepsOf(card), Accepted(card, s)
                 PROVE  LET w == card.steps[s].submission
                            v == card.steps[s].acceptance IN
                        /\ w \in AttemptIds /\ v \in AttemptIds
                        /\ attempts[w].kind = "implement" /\ attempts[v].kind = "review"
                        /\ attempts[w].state = "succeeded" /\ attempts[v].state = "succeeded"
                        /\ attempts[w].step = s /\ attempts[v].submission = w
                        /\ attempts[v].report = "success" /\ attempts[v].verdict = "accept"
                        /\ attempts[w].actor # attempts[v].actor
                        /\ attempts[w].planRevision = card.planRevision
                        /\ \A d \in card.plan[s] : Accepted(card, d)
      BY DEF AcceptedOutputReviewed
    <3>1. Output(card, attempts, s) /\ Approved(card, attempts, s)
      BY <2>1 DEF Earned
    <3>2. Owner[s] # Reviewer[s]
      BY <2>1, SoundTyped, RolesAssumption
    <3> QED
      BY <3>1, <3>2 DEF Output, Approved
  <2>3. RejectedStaysRejected
    BY <2>1 DEF Earned, Refused, RejectedStaysRejected
  <2> QED
    BY <2>2, <2>3
<1> QED
  BY <1>1, HistoryIsInductive, PTL

\* Nothing runs once a transition has begun, and a card that is completed or
\* cancelled leaves no execution and no uncertainty behind.
THEOREM StoppedCardsAreQuiet == Spec => []StoppedIsQuiet
<1>1. History(card, attempts) => StoppedIsQuiet
  <2> SUFFICES ASSUME History(card, attempts)
               PROVE  TransitionFreezes /\ TerminalIsQuiet
    BY DEF StoppedIsQuiet
  <2>1. Frozen(card, attempts) /\ Ended(card, attempts)
    BY DEF History
  <2>2. TransitionFreezes
    BY <2>1 DEF Frozen, TransitionFreezes, TransitionBegun, ActiveAttempts,
                OutstandingAttempts, Outstanding, Active, Uncertain
  <2>3. TerminalIsQuiet
    BY <2>1 DEF Ended, TerminalIsQuiet, OutstandingAttempts, Outstanding, Active,
                Uncertain, OutstandingStates
  <2> QED
    BY <2>2, <2>3
<1> QED
  BY <1>1, HistoryIsInductive, PTL

-----------------------------------------------------------------------------
(* What a step may never do.                                               *)

\* Once a card is over only its grant's deadline still passes.
LEMMA OverIsOver ==
  ASSUME Sound(card, attempts), Ended(card, attempts), card.status \in Terminal, Next
  PROVE  GrantElapses
<1>1. ~Open /\ card.status \notin {"active", "paused"}
  BY DEF Open, Terminal
<1>2. \A a \in AttemptIds : ~Active(a) /\ ~Uncertain(a)
  BY DEF Ended, Active, Uncertain, OutstandingStates
<1>3. ActiveAttempts = {} /\ \A a \in AttemptIds : ~Authenticated(a) /\ ~Outstanding(a)
  BY <1>2 DEF ActiveAttempts, Authenticated, Outstanding
<1>4. ~Negotiation
  BY <1>1, <1>3
     DEF Negotiation, Propose, Agree, Pause, Resume, Block, UnblockStep, UnblockCard
<1>5. ~Launching
  BY <1>1 DEF Launching, Authorize, Revoke, Claim, Reserve, Claimable
<1>6. ~Working
  <2>1. \A a \in AttemptIds :
          /\ ~Started(a) /\ ~Submit(a) /\ ~Compare(a) /\ ~BlockReviewContext(a)
          /\ \A outcome : ~Report(a, outcome)
          /\ \A verdict : ~Decide(a, verdict)
    BY <1>3, ZenonT(60) DEF Started, Submit, Compare, BlockReviewContext, Report, Decide
  <2>2. \A a \in AttemptIds : \A outcome, known, cost, output :
          ~FinishAttempt(a, outcome, known, cost, output)
    BY <1>1 DEF FinishAttempt
  <2> QED
    BY <2>1, <2>2, SMTT(30) DEF Working
<1>7. Losing => GrantElapses
  BY <1>2, <1>3 DEF Losing, Expire, RecoverOwner, ClaimElapses, ConfirmStopped
<1>8. ~Disposing
  BY <1>1, ZenonT(60) DEF Disposing, Reconcile, TransitionBegin, TransitionActivate,
              TransitionWithdraw, Cancel, TransitionResolve
<1> QED
  BY <1>4, <1>5, <1>6, <1>7, <1>8 DEF Next

\* No kind of step gives a fenced attempt its authority back.
LEMMA StepFencing ==
  ASSUME History(card, attempts), Next, NEW a \in AttemptIds,
         attempts[a].state \in {"recovery_required", "reconciled"}
  PROVE  attempts'[a].state \in {attempts[a].state, "reconciled"}
<1>1. KeptRow(a) => attempts'[a].state \in {attempts[a].state, "reconciled"}
  BY DEF KeptRow, ActiveStates
<1>2. CASE \E b \in AttemptIds, s \in Step : Launched(b, s)
  BY <1>1, <1>2 DEF Launched
<1>3. CASE \E b \in AttemptIds : Ruled(b) \/ Published(b)
  BY <1>1, <1>3 DEF Ruled, Published, ActiveStates
<1>4. CASE Kept
  BY <1>1, <1>4 DEF Kept
<1>5. CASE Replanned
  BY <1>5 DEF Replanned
<1> QED
  BY <1>2, <1>3, <1>4, <1>5, NextKind DEF Quiet

\* No kind of step but another plan touches an acceptance.
LEMMA StepAcceptance ==
  ASSUME History(card, attempts), Next, NEW s \in StepsOf(card), Accepted(card, s),
         card'.planRevision = card.planRevision
  PROVE  /\ card'.steps[s].state = "accepted"
         /\ card'.steps[s].submission = card.steps[s].submission
         /\ card'.steps[s].acceptance = card.steps[s].acceptance
<1>1. s \in Step /\ Sound(card, attempts)
  BY SoundTyped DEF History
<1>2. KeptStep(s) => /\ card'.steps[s].state = "accepted"
                     /\ card'.steps[s].submission = card.steps[s].submission
                     /\ card'.steps[s].acceptance = card.steps[s].acceptance
  BY DEF KeptStep, Accepted
<1>3. CASE \E b \in AttemptIds, t \in Step : Launched(b, t)
  BY <1>1, <1>2, <1>3 DEF Launched
<1>4. ASSUME NEW b \in AttemptIds, Ruled(b) \/ Published(b)
      PROVE  KeptStep(s)
  <2>1. attempts[b].state \in ActiveStates
    BY <1>4 DEF Ruled, Published
  <2>2. attempts[b].step # s
    BY <1>1, <2>1, PlanFacts DEF Accepted
  <2> QED
    BY <1>1, <1>4, <2>2 DEF Ruled, Published
<1>5. CASE Kept
  BY <1>1, <1>2, <1>5 DEF Kept
<1>6. ~CleanChange
  BY DEF CleanChange
<1> QED
  BY <1>2, <1>3, <1>4, <1>5, <1>6, NextKind DEF Quiet

\* Only an activation changes the plan.
LEMMA StepPlan ==
  ASSUME History(card, attempts), Next, card'.planRevision # card.planRevision
  PROVE  CleanChange
<1>1. ~SamePlan
  BY DEF SamePlan
<1> QED
  BY <1>1, NextKind DEF Quiet, Kept, Launched, Ruled, Published

\* Nothing of a finished card changes but its grant's deadline.
LEMMA StepTerminal ==
  ASSUME History(card, attempts), Next, card.status \in Terminal
  PROVE  /\ card'.status = card.status /\ card'.steps = card.steps
         /\ card'.planRevision = card.planRevision
<1>1. Sound(card, attempts) /\ Ended(card, attempts) /\ card \in Card
  BY SoundTyped DEF History
<1>2. card' = [card EXCEPT !.authorization.due = TRUE]
  BY <1>1, OverIsOver DEF GrantElapses
<1> QED
  BY <1>1, <1>2 DEF Card

\* An attempt that lost its authority is only ever reconciled, an acceptance stays
\* until the plan changes, a plan changes over nothing that is outstanding and
\* without losing a blocker, and a card that is over keeps its outcome.
THEOREM HistoryStands == Spec => HistoryIsKept
<1>1. History(card, attempts) /\ [Next]_vars =>
        [\A a \in AttemptIds :
           attempts[a].state \in {"recovery_required", "reconciled"} =>
             attempts'[a].state \in {attempts[a].state, "reconciled"}]_vars
  BY StepFencing
<1>2. History(card, attempts) /\ [Next]_vars =>
        [\A s \in StepsOf(card) :
           Accepted(card, s) /\ card'.planRevision = card.planRevision =>
             /\ card'.steps[s].state = "accepted"
             /\ card'.steps[s].submission = card.steps[s].submission
             /\ card'.steps[s].acceptance = card.steps[s].acceptance]_vars
  BY StepAcceptance
<1>3. History(card, attempts) /\ [Next]_vars =>
        [card.status \in Terminal =>
           /\ card'.status = card.status /\ card'.steps = card.steps
           /\ card'.planRevision = card.planRevision]_vars
  BY StepTerminal
<1>4. History(card, attempts) /\ [Next]_vars =>
        [card'.planRevision # card.planRevision =>
           /\ OutstandingAttempts = {}
           /\ ~Agreed(card)' /\ card'.status \in {"draft", "paused"}
           /\ card.status = "paused" => card'.status = "paused"
           /\ card'.authorization.id # None => card'.authorization.revoked
           /\ OpenBlockers(card) \subseteq OpenBlockers(card)']_vars
  BY StepPlan DEF CleanChange
<1>5. Spec => FencingIsFinal
  BY <1>1, HistoryIsInductive, PTL DEF Spec, FencingIsFinal
<1>6. Spec => AcceptanceSticks
  BY <1>2, HistoryIsInductive, PTL DEF Spec, AcceptanceSticks
<1>7. Spec => TerminalIsFinal
  BY <1>3, HistoryIsInductive, PTL DEF Spec, TerminalIsFinal
<1>8. Spec => PlanChangeIsClean
  BY <1>4, HistoryIsInductive, PTL DEF Spec, PlanChangeIsClean
<1> QED
  BY <1>5, <1>6, <1>7, <1>8, PTL DEF HistoryIsKept

-----------------------------------------------------------------------------
(* What is published, and when.  The store checks an attempt's own        *)
(* authority (Current) but never looks at the agreements again: that the   *)
(* plan is still agreed follows from the history of the card.  The         *)
(* invariant adds to History that whoever runs was launched by agreement   *)
(* and that a draft is not agreed.                                         *)

\* Whoever runs was launched by agreement, and a draft is not agreed.
Consenting(c, rows) ==
  /\ \A a \in AttemptIds : rows[a].state \in ActiveStates => Agreed(c)
  /\ c.status = "draft" => ~Agreed(c)

\* A document whose agreements are the card's.
Consented(d) ==
  /\ DOMAIN d = DOMAIN card
  /\ d.agreements = card.agreements /\ d.planRevision = card.planRevision

\* Nobody withdrew an agreement, and the status follows the agreements.
Consent ==
  /\ card'.planRevision = card.planRevision
  /\ Agreed(card) => Agreed(card')
  /\ card'.status = "draft" => ~Agreed(card')

\* The status that is saved was refreshed from what is saved.
LEMMA SavedStatus ==
  ASSUME NEW d, {"agreements", "planRevision", "status", "steps"} \subseteq DOMAIN d,
         Record(d)
  PROVE  /\ card'.agreements = d.agreements /\ card'.planRevision = d.planRevision
         /\ card'.status = "draft" => ~Agreed(card')
<1>1. CASE d.status \in Terminal
  BY <1>1 DEF Record, Refresh, Terminal
<1>2. CASE d.status \notin Terminal
  <2> DEFINE steps == [s \in Step |-> IF s \in StepsOf(d)
                         THEN [d.steps[s] EXCEPT !.state = RefreshedStep(d, s)] ELSE d.steps[s]]
             status == RefreshedStatus(d)
  <2>1. card' = [d EXCEPT !.steps = steps, !.status = status]
    BY <1>2 DEF Record, Refresh
  <2>2. status = "draft" => ~Agreed(d)
    BY DEF RefreshedStatus
  <2> HIDE DEF steps, status
  <2>3. /\ card'.agreements = d.agreements /\ card'.planRevision = d.planRevision
        /\ card'.status = status
    BY <2>1
  <2> QED
    BY <2>2, <2>3 DEF Agreed
<1> QED
  BY <1>1, <1>2

\* Saving such a document withdraws no agreement.
LEMMA ConsentedSaved ==
  ASSUME card \in Card, NEW d, Consented(d), Record(d)
  PROVE  Consent
<1>1. {"agreements", "planRevision", "status", "steps"} \subseteq DOMAIN d
  BY DEF Consented, Card
<1>2. /\ card'.agreements = d.agreements /\ card'.planRevision = d.planRevision
      /\ card'.status = "draft" => ~Agreed(card')
  BY <1>1, SavedStatus
<1> QED
  BY <1>2 DEF Consented, Consent, Agreed

\* The operators that build a document leave the agreements alone.
LEMMA BuiltConsented ==
  ASSUME card \in Card
  PROVE  /\ Consented(card)
         /\ \A c : Consented(c) =>
              /\ \A A : Consented(FencedCard(c, A))
              /\ \A s, r : Consented(WithStep(c, s, r))
              /\ \A s, B : Consented(WithBlockers(c, s, B))
              /\ \A a, verdict : Consented(Decided(c, a, verdict))
              /\ \A a, known, cost : Consented(Charged(c, a, known, cost))
              /\ \A x : Consented([c EXCEPT !.status = x])
              /\ \A x : Consented([c EXCEPT !.authorization = x])
              /\ \A x : Consented([c EXCEPT !.transition = x])
              /\ \A x : Consented([c EXCEPT !.proposal = x])
              /\ \A x : Consented([c EXCEPT !.blockers = x])
         /\ \A A, release, resolution : Consented(DisposedCard(A, release, resolution))
<1>1. {"agreements", "planRevision"} \subseteq DOMAIN card
  BY DEF Card
<1>2. Consented(card)
  BY DEF Consented
<1>3. ASSUME NEW c, Consented(c)
      PROVE  /\ \A x : Consented([c EXCEPT !.status = x])
             /\ \A x : Consented([c EXCEPT !.authorization = x])
             /\ \A x : Consented([c EXCEPT !.transition = x])
             /\ \A x : Consented([c EXCEPT !.proposal = x])
             /\ \A x : Consented([c EXCEPT !.blockers = x])
             /\ \A x : Consented([c EXCEPT !.steps = x])
  BY <1>1, <1>3 DEF Consented
<1>4. ASSUME NEW c, Consented(c), NEW s, NEW r
      PROVE  Consented(WithStep(c, s, r))
  BY <1>1, <1>4 DEF Consented, WithStep
<1>5. ASSUME NEW c, Consented(c), NEW A
      PROVE  Consented(FencedCard(c, A))
  BY <1>3, <1>5 DEF FencedCard
<1>6. ASSUME NEW c, Consented(c), NEW s, NEW B
      PROVE  Consented(WithBlockers(c, s, B))
  BY <1>4, <1>6 DEF WithBlockers
<1>7. ASSUME NEW c, Consented(c), NEW a, NEW verdict
      PROVE  Consented(Decided(c, a, verdict))
  BY <1>4, <1>7 DEF Decided
<1>8. ASSUME NEW c, Consented(c), NEW a, NEW known, NEW cost
      PROVE  Consented(Charged(c, a, known, cost))
  BY <1>3, <1>8 DEF Charged
<1>9. ASSUME NEW A, NEW release, NEW resolution
      PROVE  Consented(DisposedCard(A, release, resolution))
  BY <1>1 DEF Consented, DisposedCard
<1> QED
  BY <1>2, <1>3, <1>4, <1>5, <1>6, <1>7, <1>8, <1>9

\* An agreement is given, never withdrawn, by a command of the negotiation.
LEMMA NegotiationConsents ==
  ASSUME card \in Card, Negotiation
  PROVE  Consent
<1> USE BuiltConsented
<1>1. ASSUME NEW p \in Plans, Propose(p)
      PROVE  Consent
  BY <1>1, ConsentedSaved DEF Propose
<1>2. ASSUME NEW actor \in Principals, Agree(actor)
      PROVE  Consent
  <2> DEFINE d == [card EXCEPT !.agreements[actor] = card.planRevision]
  <2>1. /\ {"agreements", "planRevision", "status", "steps"} \subseteq DOMAIN d
        /\ d.agreements = [card.agreements EXCEPT ![actor] = card.planRevision]
        /\ d.planRevision = card.planRevision
        /\ card.agreements \in [Principals -> Nat]
    BY DEF Card
  <2>2. Record(d)
    BY <1>2 DEF Agree
  <2> HIDE DEF d
  <2>3. /\ card'.agreements = d.agreements /\ card'.planRevision = d.planRevision
        /\ card'.status = "draft" => ~Agreed(card')
    BY <2>1, <2>2, SavedStatus
  <2> QED
    BY <2>1, <2>3 DEF Consent, Agreed
<1>3. ASSUME Pause
      PROVE  Consent
  BY <1>3, ConsentedSaved DEF Pause
<1>4. ASSUME Resume
      PROVE  Consent
  BY <1>4, ConsentedSaved DEF Resume
<1>5. ASSUME NEW actor, NEW s, NEW bound, Block(actor, s, bound)
      PROVE  Consent
  <2>1. \E d : Consented(d) /\ Record(d)
    BY <1>5 DEF Block
  <2> QED
    BY <2>1, ConsentedSaved
<1>6. ASSUME NEW actor, NEW author, NEW s, UnblockStep(actor, author, s)
      PROVE  Consent
  BY <1>6, ConsentedSaved DEF UnblockStep
<1>7. ASSUME NEW actor, NEW author, UnblockCard(actor, author)
      PROVE  Consent
  BY <1>7, ConsentedSaved DEF UnblockCard
<1> QED
  BY <1>1, <1>2, <1>3, <1>4, <1>5, <1>6, <1>7 DEF Negotiation

\* Launches and grants leave the agreements alone.
LEMMA LaunchingConsents ==
  ASSUME card \in Card, Launching
  PROVE  Consent
<1> USE BuiltConsented
<1>1. ASSUME Authorize
      PROVE  Consent
  BY <1>1, ConsentedSaved DEF Authorize
<1>2. ASSUME Revoke
      PROVE  Consent
  BY <1>2, ConsentedSaved DEF Revoke
<1>3. ASSUME NEW a, NEW s, NEW actor, Claim(a, s, actor)
      PROVE  Consent
  BY <1>3, ConsentedSaved DEF Claim, StepRunning
<1>4. ASSUME NEW a, NEW s, NEW envelope, Reserve(a, s, envelope)
      PROVE  Consent
  <2>1. \E d : Consented(d) /\ Record(d)
    BY <1>4 DEF Reserve, StepRunning
  <2> QED
    BY <2>1, ConsentedSaved
<1> QED
  BY <1>1, <1>2, <1>3, <1>4 DEF Launching

\* So do the calls of the worker and the end of its attempt.
LEMMA WorkingConsents ==
  ASSUME card \in Card, Working
  PROVE  Consent
<1> USE BuiltConsented
<1>1. ASSUME NEW a, NEW outcome, NEW known, NEW cost, NEW output,
             FinishAttempt(a, outcome, known, cost, output)
      PROVE  \E d : Consented(d) /\ Record(d)
  <2> DEFINE z == Settled(a, outcome, known, output)
             charged == Charged(z.card, a, known, cost)
             others == ActiveAttempts \ {a}
  <2>1. Consented(z.card)
    BY DEF Settled
  <2> HIDE DEF z
  <2>2. Consented(charged) /\ Consented([FencedCard(charged, others) EXCEPT !.status = "paused"])
    BY <2>1
  <2>3. \/ Record(charged)
        \/ Record([FencedCard(charged, others) EXCEPT !.status = "paused"])
    BY <1>1 DEF FinishAttempt, z
  <2> QED
    BY <2>2, <2>3
<1>2. ASSUME NEW a, NEW verdict, Decide(a, verdict)
      PROVE  \E d : Consented(d) /\ Record(d)
  BY <1>2 DEF Decide
<1>3. ASSUME NEW a, \/ Started(a) \/ Submit(a) \/ Compare(a) \/ BlockReviewContext(a)
                    \/ \E outcome : Report(a, outcome)
      PROVE  \E d : Consented(d) /\ Record(d)
  BY <1>3 DEF Started, Submit, Compare, BlockReviewContext, Report
<1> QED
  BY <1>1, <1>2, <1>3, ConsentedSaved DEF Working

\* So does lost authority.
LEMMA LosingConsents ==
  ASSUME card \in Card, Consenting(card, attempts), Losing
  PROVE  Consent
<1> USE BuiltConsented
<1>1. ASSUME GrantElapses
      PROVE  Consent
  <2>1. card' = [card EXCEPT !.authorization.due = TRUE]
    BY <1>1 DEF GrantElapses
  <2>2. /\ card'.agreements = card.agreements /\ card'.status = card.status
        /\ card'.planRevision = card.planRevision
    BY <2>1 DEF Card
  <2> QED
    BY <2>2 DEF Consent, Consenting, Agreed
<1>2. ASSUME NEW a, ClaimElapses(a)
      PROVE  Consent
  BY <1>2 DEF ClaimElapses, Consent, Consenting
<1>3. ASSUME Expire \/ RecoverOwner \/ \E a \in AttemptIds : ConfirmStopped(a)
      PROVE  \E d : Consented(d) /\ Record(d)
  BY <1>3 DEF Expire, RecoverOwner, ConfirmStopped
<1> QED
  BY <1>1, <1>2, <1>3, ConsentedSaved DEF Losing

\* So do the operator's decisions, but for an activation.
LEMMA DisposingConsents ==
  ASSUME card \in Card, Disposing, ~TransitionActivate
  PROVE  Consent
<1> USE BuiltConsented
<1>1. ASSUME NEW scope, NEW resolution, Reconcile(scope, resolution)
      PROVE  \E d : Consented(d) /\ Record(d)
  BY <1>1 DEF Reconcile
<1>2. ASSUME NEW a, NEW resolution, TransitionResolve(a, resolution)
      PROVE  \E d : Consented(d) /\ Record(d)
  BY <1>2 DEF TransitionResolve
<1>3. ASSUME TransitionBegin
      PROVE  \E d : Consented(d) /\ Record(d)
  BY <1>3 DEF TransitionBegin
<1>4. ASSUME TransitionWithdraw
      PROVE  \E d : Consented(d) /\ Record(d)
  <2> DEFINE c == [card EXCEPT !.proposal = NoProposal(card)]
             d == [c EXCEPT !.transition = NoTransition]
  <2>1. Consented(d)
    OBVIOUS
  <2>2. Record(d)
    BY <1>4 DEF TransitionWithdraw
  <2> QED
    BY <2>1, <2>2
<1>5. ASSUME Cancel
      PROVE  \E d : Consented(d) /\ Record(d)
  <2> DEFINE g == RevokedGrant(card.authorization)
             c == [card EXCEPT !.status = "cancelled"]
             e == [c EXCEPT !.proposal = NoProposal(card)]
             f == [e EXCEPT !.transition = NoTransition]
             d == [f EXCEPT !.authorization = g]
  <2>1. Consented(d)
    OBVIOUS
  <2>2. Record(d)
    BY <1>5 DEF Cancel
  <2> QED
    BY <2>1, <2>2
<1> QED
  BY <1>1, <1>2, <1>3, <1>4, <1>5, ConsentedSaved DEF Disposing

\* Only finishing an attempt, or deciding a review by hand, publishes.
LEMMA PublishingStep ==
  ASSUME History(card, attempts), Next, NEW a \in AttemptIds,
         attempts[a].state # "succeeded", attempts'[a].state = "succeeded"
  PROVE  /\ Open /\ Current(a) /\ Unresolved(card, attempts[a].step) = {}
<1> USE SoundTyped
<1>1. Sound(card, attempts) /\ Earned(card, attempts) /\ Frozen(card, attempts)
      /\ Ended(card, attempts)
  BY DEF History
<1>2. ~Kept /\ ~Replanned
  BY DEF Kept, KeptRow, ActiveStates, Replanned
<1>3. ~Negotiation
  BY <1>1, <1>2, NegotiationKind DEF Quiet
<1>4. ~Launching
  <2>1. ~\E b \in AttemptIds, s \in Step : Launched(b, s)
    BY DEF Launched, KeptRow, ActiveStates
  <2> QED
    BY <1>1, <1>2, <2>1, LaunchingKind DEF Quiet
<1>5. ~Losing
  BY <1>1, <1>2, LosingKind DEF Quiet
<1>6. ~Disposing
  BY <1>1, <1>2, DisposingKind DEF Quiet
<1>7. Working
  BY <1>3, <1>4, <1>5, <1>6 DEF Next
<1>8. ASSUME NEW b \in AttemptIds, NEW outcome, NEW known, NEW cost, NEW output,
             FinishAttempt(b, outcome, known, cost, output)
      PROVE  Open /\ Current(a) /\ Unresolved(card, attempts[a].step) = {}
  <2> DEFINE z == Settled(b, outcome, known, output)
             r == [attempts[b] EXCEPT !.state = z.state,
                     !.cost = IF known THEN "known" ELSE "unknown",
                     !.spend = IF known THEN cost ELSE @]
             rows == [attempts EXCEPT ![b] = r]
             others == ActiveAttempts \ {b}
  <2>1. /\ Open /\ (attempts' = rows \/ attempts' = FencedRows(rows, others))
    BY <1>1, <1>8 DEF FinishAttempt
  <2>2. r.state = z.state /\ \A c \in AttemptIds \ {b} : rows[c] = attempts[c]
    BY <1>1 DEF Attempt
  <2>3. rows[b] = r
    BY <1>1
  <2>4. z.state = "succeeded" => Current(b) /\ Unresolved(card, attempts[b].step) = {}
    BY DEF Settled, Publishes, Rules
  <2>5. "state" \in DOMAIN rows[a]
    BY <1>1 DEF Attempt
  <2> HIDE DEF z, r, rows, others
  <2>6. attempts'[a].state \in {rows[a].state, "recovery_required"}
    BY <2>1, <2>5 DEF FencedRows
  <2> QED
    BY <1>1, <2>1, <2>2, <2>3, <2>4, <2>6
<1>9. ASSUME NEW b \in AttemptIds, NEW verdict, Decide(b, verdict)
      PROVE  Open /\ Current(a) /\ Unresolved(card, attempts[a].step) = {}
  <2>1. a = b
    BY <1>1, <1>9 DEF Decide, Attempt
  <2> QED
    BY <1>9, <2>1 DEF Decide, Authenticated, Current, Open
<1>10. ASSUME NEW b \in AttemptIds,
              \/ Started(b) \/ Submit(b) \/ Compare(b) \/ BlockReviewContext(b)
              \/ \E outcome : Report(b, outcome)
       PROVE  attempts'[a].state \in {attempts[a].state, "running"}
  BY <1>1, <1>10 DEF Started, Submit, Compare, BlockReviewContext, Report, Attempt
<1> QED
  BY <1>7, <1>8, <1>9, <1>10 DEF Working

-----------------------------------------------------------------------------
\* The inductive invariant.
Authorized(c, rows) == History(c, rows) /\ Consenting(c, rows)

\* The new card is agreed by nobody.
LEMMA InitAuthorized == Init => Authorized(card, attempts)
<1> SUFFICES ASSUME Init
             PROVE  Authorized(card, attempts)
  OBVIOUS
<1>1. \A a \in AttemptIds : attempts[a].state = "none"
  BY DEF Init
<1>2. card.agreements = [x \in Principals |-> None] /\ card.planRevision = 1
  BY DEF Init
<1> QED
  BY <1>1, <1>2, InitHistory
     DEF Authorized, Consenting, Agreed, ActiveStates, Principals, None

\* Nobody runs on a card that is not agreed, after any command.
LEMMA NextAuthorized == Authorized(card, attempts) /\ [Next]_vars => Authorized(card, attempts)'
<1> SUFFICES ASSUME Authorized(card, attempts), [Next]_vars
             PROVE  Authorized(card, attempts)'
  OBVIOUS
<1>1. /\ History(card, attempts) /\ Consenting(card, attempts) /\ Sound(card, attempts)
      /\ card \in Card
  BY SoundTyped DEF Authorized, History
<1>2. History(card, attempts)'
  BY <1>1, NextHistory
<1>3. CASE UNCHANGED vars
  BY <1>1, <1>2, <1>3 DEF vars, Authorized, Consenting, Agreed
<1>4. CASE TransitionActivate
  <2>1. /\ ~Agreed(card)' /\ \A a \in AttemptIds : attempts'[a].state \notin ActiveStates
    BY <1>1, <1>4, ActivationKind
       DEF CleanChange, Replanned, OutstandingAttempts, Outstanding, Active
  <2> QED
    BY <1>2, <2>1 DEF Authorized, Consenting
<1>5. ASSUME Next, ~TransitionActivate
      PROVE  Authorized(card, attempts)'
  <2>1. Consent
    BY <1>1, <1>5, NegotiationConsents, LaunchingConsents, WorkingConsents, LosingConsents,
       DisposingConsents DEF Next
  <2>2. ASSUME NEW a \in AttemptIds, attempts'[a].state \in ActiveStates
        PROVE  Agreed(card)
    <3>1. CASE attempts[a].state \in ActiveStates
      BY <1>1, <3>1 DEF Consenting
    <3>2. CASE attempts[a].state \notin ActiveStates
      <4>1. ~KeptRow(a)
        BY <2>2, <3>2 DEF KeptRow, ActiveStates
      <4>2. ~Kept /\ ~Replanned
        BY <2>2, <3>2, <4>1 DEF Kept, Replanned
      <4>3. ~\E b \in AttemptIds : Ruled(b) \/ Published(b)
        BY <2>2, <3>2, <4>1 DEF Ruled, Published, ActiveStates
      <4>4. \E b \in AttemptIds, s \in Step : \E actor, envelope :
              Claim(b, s, actor) \/ Reserve(b, s, envelope)
        <5>1. Launching
          BY <1>1, <1>5, <4>2, <4>3, NegotiationKind, WorkingKind, LosingKind, DisposingKind
             DEF Next, Quiet, History
        <5>2. ~Authorize
          BY <2>2, <3>2 DEF Authorize
        <5>3. ~Revoke
          <6>1. "state" \in DOMAIN attempts[a]
            BY <1>1, SoundTyped DEF Attempt
          <6> QED
            BY <2>2, <3>2, <6>1 DEF Revoke, FencedRows, ActiveStates
        <5> QED
          BY <5>1, <5>2, <5>3 DEF Launching
      <4> QED
        BY <4>4, ZenonT(60) DEF Claim, Reserve, Claimable
    <3> QED
      BY <3>1, <3>2
  <2> QED
    BY <1>2, <2>1, <2>2 DEF Authorized, Consenting, Consent
<1> QED
  BY <1>3, <1>4, <1>5

\* The invariant behind the publications, for every plan and any number of attempts.
THEOREM AuthorityIsInductive == Spec => []Authorized(card, attempts)
BY InitAuthorized, NextAuthorized, PTL DEF Spec

\* Work is published on an active, agreed card only, with no transition under way,
\* no objection against the step and within the attempt's own authority.
THEOREM PublicationIsAuthorized == Spec => PublicationNeedsAuthority
<1>1. ASSUME Authorized(card, attempts), Next, NEW a \in AttemptIds,
             attempts[a].state # "succeeded", attempts'[a].state = "succeeded"
      PROVE  /\ card.status = "active" /\ Agreed(card) /\ ~TransitionBegun
             /\ Unresolved(card, attempts[a].step) = {}
             /\ ~attempts[a].due
             /\ attempts[a].managed => SameGrant(a) /\ ~card.authorization.revoked
  <2>1. /\ History(card, attempts) /\ Consenting(card, attempts)
        /\ Frozen(card, attempts) /\ card \in Card
    BY <1>1, SoundTyped DEF Authorized, History
  <2>2. Open /\ Current(a) /\ Unresolved(card, attempts[a].step) = {}
    BY <1>1, <2>1, PublishingStep
  <2>3. Agreed(card) /\ ~TransitionBegun
    BY <2>1, <2>2 DEF Consenting, Frozen, Current, Active, TransitionBegun
  <2>4. card.status = "active"
    BY <2>1, <2>2, <2>3 DEF Consenting, Current, Open, Card, CardStates, Terminal
  <2> QED
    BY <2>2, <2>3, <2>4 DEF Current
<1>2. Authorized(card, attempts) /\ [Next]_vars =>
        [\A a \in AttemptIds :
           attempts[a].state # "succeeded" /\ attempts'[a].state = "succeeded" =>
             /\ card.status = "active" /\ Agreed(card) /\ ~TransitionBegun
             /\ Unresolved(card, attempts[a].step) = {}
             /\ ~attempts[a].due
             /\ attempts[a].managed => SameGrant(a) /\ ~card.authorization.revoked]_vars
  BY <1>1
<1> QED
  BY <1>2, AuthorityIsInductive, PTL DEF Spec, PublicationNeedsAuthority

-----------------------------------------------------------------------------
(* Sums over attempts.                                                     *)

\* What the attempts in S cost, or may cost, together.
SpendOf(rows, S) == MapThenSumSet(LAMBDA a : rows[a].spend, S)

Some(s) == CHOOSE x \in s : TRUE

\* One equation of the recursion behind the sum, and the function it defines.
Tallied(it, rows, s) ==
  IF s = {} THEN 0 ELSE rows[Some(s)].spend + it[s \ {Some(s)}]

IsTally(it, rows, S) == it = [s \in SUBSET S |-> Tallied(it, rows, s)]

\* Induction on the naturals, for a set of them.
LEMMA Induction ==
  ASSUME NEW T \in SUBSET Nat, 0 \in T, \A n \in T : n + 1 \in T
  PROVE  T = Nat
<1> SUFFICES ASSUME Nat \ T # {}
             PROVE  FALSE
  OBVIOUS
<1>1. PICK n \in Nat \ T : \A m \in Nat \ T : ~ (<<m, n>> \in OpToRel(<, Nat))
  BY NatLessThanWellFounded, WFMin, Zenon
<1>2. n # 0
  OBVIOUS
<1>3. n - 1 \in Nat
  BY <1>2
<1>4. <<n - 1, n>> \in OpToRel(<, Nat)
  BY <1>3 DEF OpToRel
<1>5. n - 1 \in T
  BY <1>1, <1>3, <1>4
<1> QED
  BY <1>5

\* The least member of a nonempty finite set, and what is left without it.
LEMMA SomeFacts ==
  ASSUME NEW s, IsFiniteSet(s), s # {}
  PROVE  /\ Some(s) \in s
         /\ IsFiniteSet(s \ {Some(s)})
         /\ Cardinality(s) \in Nat /\ Cardinality(s) # 0
         /\ Cardinality(s \ {Some(s)}) = Cardinality(s) - 1
<1>1. Some(s) \in s
  BY Zenon DEF Some
<1>2. Cardinality(s) \in Nat /\ Cardinality(s) # 0
  BY FS_CardinalityType, FS_EmptySet
<1> QED
  BY <1>1, <1>2, FS_RemoveElement

\* The recursion has a solution.
LEMMA TallyExists ==
  ASSUME NEW rows, NEW S, IsFiniteSet(S)
  PROVE  \E it : IsTally(it, rows, S)
<1> DEFINE Fits(g, n) == \A s \in SUBSET S :
                           Cardinality(s) <= n => g[s] = Tallied(g, rows, s)
           T == {n \in Nat : \E g : Fits(g, n)}
<1>0. \A s \in SUBSET S : IsFiniteSet(s) /\ Cardinality(s) \in Nat
  BY FS_Subset, FS_CardinalityType
<1>1. 0 \in T
  <2> DEFINE g == [s \in SUBSET S |-> 0]
  <2>1. Fits(g, 0)
    <3> SUFFICES ASSUME NEW s \in SUBSET S, Cardinality(s) <= 0
                 PROVE  g[s] = Tallied(g, rows, s)
      OBVIOUS
    <3>1. s = {}
      BY <1>0, FS_EmptySet
    <3> QED
      BY <3>1 DEF Tallied
  <2> QED
    BY <2>1
<1>2. ASSUME NEW n \in T
      PROVE  n + 1 \in T
  <2>1. PICK g : Fits(g, n)
    OBVIOUS
  <2> DEFINE h == [s \in SUBSET S |-> Tallied(g, rows, s)]
  <2>2. ASSUME NEW s \in SUBSET S, Cardinality(s) <= n + 1
        PROVE  h[s] = Tallied(h, rows, s)
    <3>1. CASE s = {}
      BY <3>1 DEF Tallied
    <3>2. CASE s # {}
      <4> DEFINE r == s \ {Some(s)}
      <4>1. r \in SUBSET S /\ Cardinality(r) <= n
        BY <1>0, <2>2, <3>2, SomeFacts
      <4>2. h[r] = g[r]
        BY <2>1, <4>1
      <4> QED
        BY <3>2, <4>2 DEF Tallied
    <3> QED
      BY <3>1, <3>2
  <2>3. Fits(h, n + 1)
    BY <2>2
  <2> HIDE DEF h, Fits
  <2> QED
    BY <2>3
<1> HIDE DEF T
<1>3. T = Nat
  BY <1>1, <1>2, Induction DEF T
<1>4. PICK g : Fits(g, Cardinality(S))
  BY <1>0, <1>3 DEF T
<1> DEFINE h == [s \in SUBSET S |-> g[s]]
<1>5. \A s \in SUBSET S : g[s] = Tallied(g, rows, s)
  BY <1>4, <1>0, FS_Subset
<1>6. ASSUME NEW s \in SUBSET S
      PROVE  g[s] = Tallied(h, rows, s)
  BY <1>5 DEF Tallied
<1>7. IsTally(h, rows, S)
  BY <1>6 DEF IsTally
<1> QED
  BY <1>7

\* The sum is the value of a solution.
LEMMA SpendIsTally ==
  ASSUME NEW rows, NEW S, IsFiniteSet(S)
  PROVE  \E it : IsTally(it, rows, S) /\ SpendOf(rows, S) = it[S]
<1> DEFINE iter == CHOOSE it : IsTally(it, rows, S)
<1>1. IsTally(iter, rows, S)
  BY TallyExists, Zenon
<1>2. SpendOf(rows, S) = iter[S]
  BY DEF SpendOf, MapThenSumSet, MapThenFoldSet, IsTally, Tallied, Some
<1> QED
  BY <1>1, <1>2

\* Solutions agree, on the sets they share, when the rows of these sets do.
LEMMA TalliesAgree ==
  ASSUME NEW rows, NEW more, NEW S, NEW R, NEW it, NEW jt,
         IsFiniteSet(S), S \subseteq R, IsTally(it, rows, S), IsTally(jt, more, R),
         \A a \in S : rows[a].spend = more[a].spend
  PROVE  it[S] = jt[S]
<1> DEFINE T == {n \in Nat : \A s \in SUBSET S : Cardinality(s) = n => it[s] = jt[s]}
<1>0. \A s \in SUBSET S : IsFiniteSet(s) /\ Cardinality(s) \in Nat
  BY FS_Subset, FS_CardinalityType
<1>1. \A s \in SUBSET S : it[s] = Tallied(it, rows, s) /\ jt[s] = Tallied(jt, more, s)
  BY DEF IsTally
<1>2. 0 \in T
  BY <1>0, <1>1, FS_EmptySet DEF Tallied
<1>3. ASSUME NEW n \in T
      PROVE  n + 1 \in T
  <2> SUFFICES ASSUME NEW s \in SUBSET S, Cardinality(s) = n + 1
               PROVE  it[s] = jt[s]
    OBVIOUS
  <2>0. n \in Nat
    OBVIOUS
  <2>1. s # {}
    <3>1. Cardinality({}) = 0
      BY FS_EmptySet
    <3> QED
      BY <2>0, <3>1
  <2>2. Some(s) \in S /\ it[s \ {Some(s)}] = jt[s \ {Some(s)}]
    BY <1>0, <2>1, SomeFacts
  <2> QED
    BY <1>1, <2>1, <2>2 DEF Tallied
<1> HIDE DEF T
<1>4. T = Nat
  BY <1>2, <1>3, Induction DEF T
<1> QED
  BY <1>0, <1>4 DEF T

\* Sums over equal rows are equal.
LEMMA SpendSame ==
  ASSUME NEW rows, NEW more, NEW S, IsFiniteSet(S),
         \A a \in S : rows[a].spend = more[a].spend
  PROVE  SpendOf(rows, S) = SpendOf(more, S)
BY SpendIsTally, TalliesAgree

\* The sum over nothing, and what one member adds.
LEMMA SpendSteps ==
  ASSUME NEW rows
  PROVE  /\ SpendOf(rows, {}) = 0
         /\ \A S : IsFiniteSet(S) /\ S # {} =>
              SpendOf(rows, S) = rows[Some(S)].spend + SpendOf(rows, S \ {Some(S)})
<1>1. SpendOf(rows, {}) = 0
  <2>1. PICK it : IsTally(it, rows, {}) /\ SpendOf(rows, {}) = it[{}]
    BY SpendIsTally, FS_EmptySet
  <2> QED
    BY <2>1 DEF IsTally, Tallied
<1>2. ASSUME NEW S, IsFiniteSet(S), S # {}
      PROVE  SpendOf(rows, S) = rows[Some(S)].spend + SpendOf(rows, S \ {Some(S)})
  <2> DEFINE R == S \ {Some(S)}
  <2>1. IsFiniteSet(R)
    BY <1>2, SomeFacts
  <2>2. PICK it : IsTally(it, rows, S) /\ SpendOf(rows, S) = it[S]
    BY <1>2, SpendIsTally
  <2>3. PICK jt : IsTally(jt, rows, R) /\ SpendOf(rows, R) = jt[R]
    BY <2>1, SpendIsTally
  <2>4. it[S] = rows[Some(S)].spend + it[R]
    BY <1>2, <2>2 DEF IsTally, Tallied
  <2>5. jt[R] = it[R]
    BY <2>1, <2>2, <2>3, TalliesAgree
  <2> QED
    BY <2>2, <2>3, <2>4, <2>5
<1> QED
  BY <1>1, <1>2

\* Sums are natural, and a new member adds its own spending.
LEMMA SpendAdds ==
  ASSUME NEW rows, NEW U, IsFiniteSet(U), \A a \in U : rows[a].spend \in Nat
  PROVE  \A s \in SUBSET U :
           /\ SpendOf(rows, s) \in Nat
           /\ \A x \in U \ s : SpendOf(rows, s \union {x}) = SpendOf(rows, s) + rows[x].spend
<1> DEFINE Adds(s) ==
             /\ SpendOf(rows, s) \in Nat
             /\ \A x \in U \ s : SpendOf(rows, s \union {x}) = SpendOf(rows, s) + rows[x].spend
           T == {n \in Nat : \A s \in SUBSET U : Cardinality(s) <= n => Adds(s)}
<1>0. \A s \in SUBSET U : IsFiniteSet(s) /\ Cardinality(s) \in Nat
  BY FS_Subset, FS_CardinalityType
<1>1. 0 \in T
  <2> SUFFICES ASSUME NEW s \in SUBSET U, Cardinality(s) <= 0
               PROVE  Adds(s)
    OBVIOUS
  <2>1. s = {}
    BY <1>0, FS_EmptySet
  <2>2. ASSUME NEW x \in U
        PROVE  SpendOf(rows, {x}) = rows[x].spend
    <3>1. IsFiniteSet({x}) /\ {x} # {} /\ Some({x}) = x
      BY FS_Singleton, Zenon DEF Some
    <3>2. SpendOf(rows, {x}) = rows[x].spend + SpendOf(rows, {x} \ {x})
      BY <3>1, SpendSteps
    <3>3. {x} \ {x} = {} /\ rows[x].spend \in Nat
      OBVIOUS
    <3>4. SpendOf(rows, {}) = 0
      BY SpendSteps
    <3> QED
      BY <3>2, <3>3, <3>4
  <2>3. SpendOf(rows, {}) = 0
    BY SpendSteps
  <2>4. ASSUME NEW x \in U \ s
        PROVE  SpendOf(rows, s \union {x}) = SpendOf(rows, s) + rows[x].spend
    <3>1. s \union {x} = {x} /\ rows[x].spend \in Nat
      BY <2>1
    <3> QED
      BY <2>1, <2>2, <2>3, <3>1
  <2> QED
    BY <2>1, <2>3, <2>4
<1>2. ASSUME NEW n \in T
      PROVE  n + 1 \in T
  <2>0. n \in Nat /\ \A s \in SUBSET U : Cardinality(s) <= n => Adds(s)
    OBVIOUS
  <2> HIDE DEF T
  <2>1. ASSUME NEW s \in SUBSET U, Cardinality(s) = n + 1
        PROVE  Adds(s)
    <3> DEFINE c == Some(s)
               r == s \ {c}
    <3>1. s # {}
      <4>1. Cardinality({}) = 0
        BY FS_EmptySet
      <4> QED
        BY <2>0, <2>1, <4>1
    <3>2. c \in s /\ r \in SUBSET U /\ c \in U \ r /\ s = r \union {c} /\ Cardinality(r) = n
      BY <1>0, <2>0, <2>1, <3>1, SomeFacts
    <3>3. Adds(r)
      <4>1. r \in SUBSET U /\ Cardinality(r) <= n
        BY <2>0, <3>2
      <4> HIDE DEF Adds, r
      <4> QED
        BY <2>0, <4>1
    <3>4. SpendOf(rows, s) = SpendOf(rows, r) + rows[c].spend
      BY <3>2, <3>3
    <3>5. ASSUME NEW x \in U \ s
          PROVE  SpendOf(rows, s \union {x}) = SpendOf(rows, s) + rows[x].spend
      <4> DEFINE q == s \union {x}
                 d == Some(q)
                 p == q \ {d}
      <4>1. IsFiniteSet(q) /\ q # {} /\ q \in SUBSET U
        BY <1>0, FS_AddElement
      <4>2. d \in q /\ SpendOf(rows, q) = rows[d].spend + SpendOf(rows, p)
        BY <4>1, SomeFacts, SpendSteps
      <4>3. CASE d = x
        <5>1. p = s
          BY <4>3
        <5>2. SpendOf(rows, s) \in Nat
          BY <3>2, <3>3, <3>4
        <5> HIDE DEF p, d, q, c, r
        <5> QED
          BY <4>2, <4>3, <5>1, <5>2 DEF q
      <4>4. CASE d # x
        <5> DEFINE t == s \ {d}
        <5>0. d \in s /\ IsFiniteSet(s)
          BY <1>0, <4>2, <4>4
        <5>6. Cardinality(t) = n
          <6>1. Cardinality(t) = Cardinality(s) - 1
            BY <5>0, FS_RemoveElement
          <6> QED
            BY <2>0, <2>1, <6>1
        <5>1. t \in SUBSET U /\ d \in U \ t /\ x \in U \ t
              /\ s = t \union {d} /\ p = t \union {x}
          BY <4>4, <5>0
        <5>2. Adds(t)
          <6>1. t \in SUBSET U /\ Cardinality(t) <= n
            BY <2>0, <5>1, <5>6
          <6> HIDE DEF Adds, t
          <6> QED
            BY <2>0, <6>1
        <5>3. /\ SpendOf(rows, s) = SpendOf(rows, t) + rows[d].spend
              /\ SpendOf(rows, p) = SpendOf(rows, t) + rows[x].spend
              /\ SpendOf(rows, t) \in Nat
          BY <5>1, <5>2
        <5>4. rows[d].spend \in Nat /\ rows[x].spend \in Nat
          BY <5>1
        <5> HIDE DEF t, p, d, q, c, r
        <5> QED
          BY <4>2, <5>3, <5>4 DEF q
      <4> QED
        BY <4>3, <4>4
    <3>6. SpendOf(rows, s) \in Nat
      BY <3>2, <3>3, <3>4
    <3> QED
      BY <3>5, <3>6
  <2>2. ASSUME NEW s \in SUBSET U, Cardinality(s) <= n + 1
        PROVE  Adds(s)
    <3> HIDE DEF Adds
    <3>1. Cardinality(s) <= n \/ Cardinality(s) = n + 1
      BY <1>0, <2>0, <2>2
    <3> QED
      BY <2>0, <2>1, <3>1
  <2> HIDE DEF Adds
  <2> QED
    BY <2>0, <2>2 DEF T
<1>3. T = Nat
  <2> HIDE DEF T
  <2> QED
    BY <1>1, <1>2, Induction DEF T
<1> HIDE DEF Adds
<1>4. ASSUME NEW s \in SUBSET U
      PROVE  Adds(s)
  <2>1. Cardinality(s) \in T /\ Cardinality(s) <= Cardinality(s)
    BY <1>0, <1>3
  <2> QED
    BY <2>1
<1> QED
  BY <1>4 DEF Adds

\* The sum over two disjoint sets.
LEMMA SpendSplits ==
  ASSUME NEW rows, NEW U, IsFiniteSet(U), \A a \in U : rows[a].spend \in Nat,
         NEW A \in SUBSET U, NEW B \in SUBSET U, A \intersect B = {}
  PROVE  SpendOf(rows, A \union B) = SpendOf(rows, A) + SpendOf(rows, B)
<1> DEFINE Splits(s) == SpendOf(rows, A \union s) = SpendOf(rows, A) + SpendOf(rows, s)
           T == {n \in Nat : \A s \in SUBSET B : Cardinality(s) = n => Splits(s)}
<1>0. \A s \in SUBSET B : IsFiniteSet(s) /\ Cardinality(s) \in Nat
  BY FS_Subset, FS_CardinalityType
<1>a. \A s \in SUBSET U : SpendOf(rows, s) \in Nat
  BY SpendAdds
<1>1. 0 \in T
  <2> SUFFICES ASSUME NEW s \in SUBSET B, Cardinality(s) = 0
               PROVE  Splits(s)
    OBVIOUS
  <2>1. s = {} /\ A \union s = A
    BY <1>0, FS_EmptySet
  <2>2. SpendOf(rows, {}) = 0 /\ SpendOf(rows, A) \in Nat
    BY <1>a, SpendSteps
  <2> QED
    BY <2>1, <2>2
<1>2. ASSUME NEW n \in T
      PROVE  n + 1 \in T
  <2>0. n \in Nat /\ \A s \in SUBSET B : Cardinality(s) = n => Splits(s)
    OBVIOUS
  <2> SUFFICES ASSUME NEW s \in SUBSET B, Cardinality(s) = n + 1
               PROVE  Splits(s)
    BY <2>0
  <2> HIDE DEF T
  <2> DEFINE c == Some(s)
             r == s \ {c}
  <2>1. s # {}
    BY <2>0, FS_EmptySet
  <2>2. c \in s /\ r \in SUBSET B /\ s = r \union {c} /\ Cardinality(r) = n
    BY <1>0, <2>0, <2>1, SomeFacts
  <2>3. Splits(r)
    BY <2>0, <2>2
  <2>4. c \in U \ r /\ c \in U \ (A \union r)
        /\ A \union s = (A \union r) \union {c} /\ r \in SUBSET U /\ A \union r \in SUBSET U
    BY <2>2
  <2>5. /\ SpendOf(rows, s) = SpendOf(rows, r) + rows[c].spend
        /\ SpendOf(rows, A \union s) = SpendOf(rows, A \union r) + rows[c].spend
    <3>0. \A q \in SUBSET U : \A x \in U \ q :
            SpendOf(rows, q \union {x}) = SpendOf(rows, q) + rows[x].spend
      BY SpendAdds
    <3> HIDE DEF c, r
    <3>1. SpendOf(rows, r \union {c}) = SpendOf(rows, r) + rows[c].spend
      BY <2>4, <3>0
    <3>2. SpendOf(rows, (A \union r) \union {c}) = SpendOf(rows, A \union r) + rows[c].spend
      BY <2>4, <3>0
    <3> QED
      BY <2>2, <2>4, <3>1, <3>2
  <2>6. /\ rows[c].spend \in Nat /\ SpendOf(rows, r) \in Nat /\ SpendOf(rows, A) \in Nat
    BY <1>a, <2>4
  <2> HIDE DEF c, r
  <2> QED
    BY <2>3, <2>5, <2>6
<1>3. T = Nat
  <2> HIDE DEF T
  <2> QED
    BY <1>1, <1>2, Induction DEF T
<1> HIDE DEF Splits
<1>4. Splits(B)
  <2>1. Cardinality(B) \in T
    BY <1>0, <1>3
  <2> QED
    BY <2>1
<1> QED
  BY <1>4 DEF Splits

-----------------------------------------------------------------------------
(* The books of a grant.                                                   *)

\* The attempts launched under grant g, and those whose cost is recorded.
Granted(g, rows) == {a \in AttemptIds : rows[a].managed /\ g.id # None /\ g.id = rows[a].grant}
Metered(g, rows) == {a \in AttemptIds : /\ rows[a].managed /\ g.id # None
                                        /\ g.id = rows[a].grant /\ rows[a].cost = "known"}

\* A row that was never launched is nobody's; a launched one carries the number
\* of a grant that was given; while it runs its cost is open.
Booked(g, row) ==
  /\ row.state = "none" => ~row.managed
  /\ row.managed => row.grant <= g.id
  /\ ~row.managed => row.grant = None
  /\ row.managed /\ row.state \in ActiveStates => row.cost = "open"

\* A cost that is not recorded belongs to work that is not over, or the grant
\* knows that it does not know.
Pending(g, row) ==
  row.managed /\ g.id = row.grant /\ row.cost # "known" =>
    (row.cost = "open" /\ row.state \in OutstandingStates) \/ g.unknownCost

\* The inductive invariant of the books.
Accounted(g, rows) ==
  /\ \A a \in AttemptIds : Booked(g, rows[a]) /\ Pending(g, rows[a])
  /\ g.used = SpendOf(rows, Metered(g, rows))
  /\ g.launches = Cardinality(Granted(g, rows))
  /\ g.launches <= MaxLaunches

\* What the grant may have cost in the worst case stays under its ceiling.
Covered(g, rows) == SpendOf(rows, Granted(g, rows)) <= MaxCost

\* A provider keeps to the envelope of an attempt: the cost it reports at the end
\* is no more than was set aside for it.
EnvelopesHold ==
  \A a \in AttemptIds :
    attempts[a].cost = "open" /\ attempts'[a].cost = "known"
      => attempts'[a].spend <= attempts[a].spend

-----------------------------------------------------------------------------
(* The kinds of steps, for the books.                                      *)

SameBooks(g, h) ==
  /\ h.id = g.id /\ h.used = g.used /\ h.launches = g.launches
  /\ g.unknownCost => h.unknownCost

\* Row `new' is on the books what row `old' was, and an unmetered attempt that is
\* over leaves a mark on the grant.
SameTerms(g, h, old, new) ==
  /\ new.managed = old.managed
  /\ old.managed => new.grant = old.grant /\ new.cost = old.cost /\ new.spend = old.spend
  /\ ~old.managed => new.grant = old.grant \/ new.grant = None
  /\ old.managed /\ new.state \in ActiveStates => old.state \in ActiveStates
  /\ new.state = "none" => old.state = "none"
  /\ /\ old.managed /\ g.id = old.grant /\ old.cost = "open"
     /\ old.state \in OutstandingStates /\ new.state \notin OutstandingStates
     => h.unknownCost

BooksKept ==
  /\ SameBooks(card.authorization, card'.authorization)
  /\ \A a \in AttemptIds :
       SameTerms(card.authorization, card'.authorization, attempts[a], attempts'[a])

\* The operator grants anew: the books are empty.
BooksOpened ==
  /\ attempts' = attempts
  /\ card'.authorization.id = card.authorization.id + 1
  /\ card'.authorization.used = 0 /\ card'.authorization.launches = 0

\* An attempt is launched under the grant, within what is left of it.
BooksReserve(a) ==
  LET g == card.authorization  h == card'.authorization IN
  /\ attempts[a].state = "none" /\ \A b \in AttemptIds : attempts[b].state # "recovery_required"
  /\ g.id # None /\ ~g.unknownCost /\ g.launches < MaxLaunches
  /\ h.id = g.id /\ h.used = g.used /\ h.launches = g.launches + 1
  /\ attempts' = [attempts EXCEPT ![a] = attempts'[a]]
  /\ attempts'[a].managed /\ attempts'[a].grant = g.id /\ attempts'[a].cost = "open"
  /\ attempts'[a].state = "reserved"
  /\ attempts'[a].spend <= MaxCost - g.used - ReservedCost

\* The cost of attempt a is recorded, or it is recorded that nobody knows it.
BooksCharge(a) ==
  LET g == card.authorization  h == card'.authorization  old == attempts[a]  new == attempts'[a] IN
  /\ old.managed /\ old.cost = "open"
  /\ \A b \in AttemptIds \ {a} : SameTerms(g, h, attempts[b], attempts'[b])
  /\ new.managed /\ new.grant = old.grant
  /\ new.state \notin ActiveStates \union {"none"}
  /\ h.id = g.id /\ h.launches = g.launches
  /\ g.unknownCost => h.unknownCost
  /\ \/ /\ new.cost = "known"
        /\ h.used = g.used + IF g.id # None /\ g.id = old.grant THEN new.spend ELSE 0
     \/ /\ new.cost = "unknown" /\ new.spend = old.spend /\ h.used = g.used
        /\ g.id = old.grant => h.unknownCost

-----------------------------------------------------------------------------
(* Each kind of step keeps the books.                                      *)

LEMMA AttemptsFinite == IsFiniteSet(AttemptIds)
BY BoundsAssumption, FS_Interval DEF AttemptIds

\* Sets of attempts can be summed over.
LEMMA SpendTypes ==
  ASSUME NEW rows \in [AttemptIds -> Attempt]
  PROVE  /\ \A a \in AttemptIds : rows[a].spend \in Nat
         /\ \A s \in SUBSET AttemptIds : IsFiniteSet(s) /\ SpendOf(rows, s) \in Nat
<1>1. \A a \in AttemptIds : rows[a].spend \in Nat
  BY DEF Attempt
<1>2. \A s \in SUBSET AttemptIds : IsFiniteSet(s)
  BY AttemptsFinite, FS_Subset
<1>3. \A s \in SUBSET AttemptIds : SpendOf(rows, s) \in Nat
  BY <1>1, AttemptsFinite, SpendAdds
<1> QED
  BY <1>1, <1>2, <1>3

\* Keeping the terms keeps the books, and what they may come to.
LEMMA KeptAccounted ==
  ASSUME NEW g \in Grant, NEW h \in Grant,
         NEW rows \in [AttemptIds -> Attempt], NEW more \in [AttemptIds -> Attempt],
         SameBooks(g, h), \A a \in AttemptIds : SameTerms(g, h, rows[a], more[a]),
         Accounted(g, rows)
  PROVE  Accounted(h, more) /\ (Covered(g, rows) => Covered(h, more))
<1>1. Granted(h, more) = Granted(g, rows) /\ Metered(h, more) = Metered(g, rows)
  BY DEF Granted, Metered, SameBooks, SameTerms
<1>2. \A a \in Granted(g, rows) : rows[a].spend = more[a].spend
  BY DEF Granted, SameTerms
<1>3. \A a \in Metered(g, rows) : rows[a].spend = more[a].spend
  BY DEF Metered, SameTerms
<1>4. Granted(g, rows) \in SUBSET AttemptIds /\ Metered(g, rows) \in SUBSET AttemptIds
  BY DEF Granted, Metered
<1>5. SpendOf(more, Granted(g, rows)) = SpendOf(rows, Granted(g, rows))
  BY <1>2, <1>4, SpendTypes, SpendSame
<1>6. SpendOf(more, Metered(g, rows)) = SpendOf(rows, Metered(g, rows))
  BY <1>3, <1>4, SpendTypes, SpendSame
<1>7. ASSUME NEW a \in AttemptIds
      PROVE  Booked(h, more[a]) /\ Pending(h, more[a])
  BY DEF Accounted, Booked, Pending, SameBooks, SameTerms
<1> QED
  BY <1>1, <1>5, <1>6, <1>7 DEF Accounted, Covered, SameBooks

\* A new grant has no attempts.
LEMMA OpenedAccounted ==
  ASSUME NEW g \in Grant, NEW h \in Grant, NEW rows \in [AttemptIds -> Attempt],
         h.id = g.id + 1, h.used = 0, h.launches = 0, Accounted(g, rows)
  PROVE  Accounted(h, rows) /\ Covered(h, rows)
<1>1. ASSUME NEW a \in AttemptIds
      PROVE  /\ rows[a].managed => h.id # rows[a].grant
             /\ Booked(h, rows[a]) /\ Pending(h, rows[a])
  BY DEF Accounted, Booked, Pending, Grant, Attempt
<1>2. Granted(h, rows) = {} /\ Metered(h, rows) = {}
  BY <1>1 DEF Granted, Metered
<1>3. SpendOf(rows, {}) = 0 /\ Cardinality({}) = 0
  BY SpendSteps, FS_EmptySet
<1>4. 0 <= MaxLaunches /\ 0 <= MaxCost
  BY BoundsAssumption
<1> QED
  BY <1>1, <1>2, <1>3, <1>4 DEF Accounted, Covered

\* What is set aside for the attempts that run is what is not metered yet, so a
\* launch within what is left cannot pass the ceiling.
LEMMA ReservedAccounted ==
  ASSUME NEW g \in Grant, NEW h \in Grant,
         NEW rows \in [AttemptIds -> Attempt], NEW more \in [AttemptIds -> Attempt],
         NEW a \in AttemptIds, Accounted(g, rows),
         \A b \in AttemptIds \ {a} : more[b] = rows[b],
         rows[a].state = "none", \A b \in AttemptIds : rows[b].state # "recovery_required",
         g.id # None, ~g.unknownCost, g.launches < MaxLaunches,
         h.id = g.id, h.used = g.used, h.launches = g.launches + 1,
         more[a].managed, more[a].grant = g.id, more[a].cost = "open",
         more[a].state = "reserved",
         more[a].spend <= MaxCost - g.used
           - SpendOf(rows, {b \in AttemptIds : rows[b].state \in ActiveStates
                                               /\ rows[b].grant = g.id})
  PROVE  Accounted(h, more) /\ Covered(h, more)
<1> DEFINE G == Granted(g, rows)
           M == Metered(g, rows)
           R == {b \in AttemptIds : rows[b].state \in ActiveStates /\ rows[b].grant = g.id}
<1>1. ~rows[a].managed /\ G \in SUBSET AttemptIds /\ M \in SUBSET AttemptIds
      /\ R \in SUBSET AttemptIds
  BY DEF Accounted, Booked, Granted, Metered
<1>2. a \notin G /\ a \notin M
  BY <1>1 DEF Granted, Metered
<1>3. Granted(h, more) = G \union {a}
  BY DEF Granted
<1>4. Metered(h, more) = M
  BY <1>1 DEF Metered
<1>5. \A b \in AttemptIds : /\ Booked(h, more[b])
                            /\ Pending(h, more[b])
  <2>1. ASSUME NEW b \in AttemptIds, b # a
        PROVE  Booked(h, more[b]) /\ Pending(h, more[b])
    BY <2>1 DEF Accounted, Booked, Pending
  <2>2. Booked(h, more[a]) /\ Pending(h, more[a])
    BY DEF Booked, Pending, Grant, OutstandingStates, ActiveStates
  <2> QED
    BY <2>1, <2>2
<1>6. M \union R = G
  <2>1. ASSUME NEW b \in AttemptIds
        PROVE  b \in G <=> b \in M \/ b \in R
    <3>1. CASE rows[b].managed
      <4>1. b \in G <=> g.id = rows[b].grant
        BY <3>1 DEF Granted
      <4>2. b \in M <=> g.id = rows[b].grant /\ rows[b].cost = "known"
        BY <3>1 DEF Metered
      <4>3. rows[b].cost # "known" /\ g.id = rows[b].grant => rows[b].state \in ActiveStates
        BY <3>1 DEF Accounted, Pending, OutstandingStates
      <4> QED
        BY <4>1, <4>2, <4>3
    <3>2. CASE ~rows[b].managed
      BY <3>2 DEF Granted, Metered, Accounted, Booked
    <3> QED
      BY <3>1, <3>2
  <2> QED
    BY <1>1, <2>1
<1>7. M \intersect R = {}
  BY DEF Metered, Accounted, Booked
<1> HIDE DEF G, M, R
<1>8. SpendOf(rows, G) = SpendOf(rows, M) + SpendOf(rows, R)
  BY <1>1, <1>6, <1>7, SpendTypes, AttemptsFinite, SpendSplits
<1>9. SpendOf(more, G) = SpendOf(rows, G) /\ SpendOf(more, M) = SpendOf(rows, M)
  <2>1. IsFiniteSet(G) /\ IsFiniteSet(M)
    BY <1>1, SpendTypes
  <2>2. (\A b \in G : more[b].spend = rows[b].spend) /\ (\A b \in M : more[b].spend = rows[b].spend)
    BY <1>1, <1>2
  <2> QED
    BY <2>1, <2>2, SpendSame
<1>10. SpendOf(more, G \union {a}) = SpendOf(more, G) + more[a].spend
  <2>1. \A s \in SUBSET AttemptIds : \A x \in AttemptIds \ s :
          SpendOf(more, s \union {x}) = SpendOf(more, s) + more[x].spend
    BY SpendTypes, AttemptsFinite, SpendAdds, ZenonT(60)
  <2> QED
    BY <1>1, <1>2, <2>1
<1>11. Cardinality(G \union {a}) = Cardinality(G) + 1 /\ Cardinality(G) \in Nat
  BY <1>1, <1>2, SpendTypes, FS_AddElement, FS_CardinalityType
<1>12. /\ SpendOf(rows, M) \in Nat /\ SpendOf(rows, R) \in Nat /\ more[a].spend \in Nat
       /\ g.used = SpendOf(rows, M) /\ MaxCost \in Nat
  BY <1>1, SpendTypes, BoundsAssumption DEF Accounted, M
<1>13. more[a].spend <= MaxCost - g.used - SpendOf(rows, R)
  BY DEF R
<1>14. Covered(h, more)
  <2>1. SpendOf(more, G \union {a}) = g.used + SpendOf(rows, R) + more[a].spend
    BY <1>8, <1>9, <1>10, <1>12
  <2> QED
    BY <1>3, <1>12, <1>13, <2>1 DEF Covered
<1>15. h.launches = Cardinality(Granted(h, more)) /\ h.launches <= MaxLaunches
  <2>1. g.launches = Cardinality(G) /\ MaxLaunches \in Nat
    BY BoundsAssumption DEF Accounted, G
  <2> QED
    BY <1>3, <1>11, <2>1
<1>16. h.used = SpendOf(more, Metered(h, more))
  BY <1>4, <1>9, <1>12
<1> QED
  BY <1>5, <1>14, <1>15, <1>16 DEF Accounted

\* Recording the cost of an attempt books it once, and within its envelope the
\* worst case does not grow.
LEMMA ChargedAccounted ==
  ASSUME NEW g \in Grant, NEW h \in Grant,
         NEW rows \in [AttemptIds -> Attempt], NEW more \in [AttemptIds -> Attempt],
         NEW a \in AttemptIds, Accounted(g, rows),
         rows[a].managed, rows[a].cost = "open",
         \A b \in AttemptIds \ {a} : SameTerms(g, h, rows[b], more[b]),
         more[a].managed, more[a].grant = rows[a].grant,
         more[a].state \notin ActiveStates \union {"none"},
         h.id = g.id, h.launches = g.launches, g.unknownCost => h.unknownCost,
         \/ /\ more[a].cost = "known"
            /\ h.used = g.used + IF g.id # None /\ g.id = rows[a].grant
                                 THEN more[a].spend ELSE 0
         \/ /\ more[a].cost = "unknown" /\ more[a].spend = rows[a].spend /\ h.used = g.used
            /\ g.id = rows[a].grant => h.unknownCost
  PROVE  /\ Accounted(h, more)
         /\ (more[a].cost = "known" => more[a].spend <= rows[a].spend)
              => (Covered(g, rows) => Covered(h, more))
<1> DEFINE G == Granted(g, rows)
           M == Metered(g, rows)
<1>1. G \in SUBSET AttemptIds /\ M \in SUBSET AttemptIds /\ a \notin M
  BY DEF Granted, Metered
<1>2. Granted(h, more) = G
  BY DEF Granted, SameTerms
<1>3. \A b \in AttemptIds \ {a} : b \in Metered(h, more) <=> b \in M
  BY DEF Metered, SameTerms
<1>4. a \in Metered(h, more) <=> a \in G /\ more[a].cost = "known"
  BY DEF Metered, Granted
<1>5. a \in G <=> g.id # None /\ g.id = rows[a].grant
  BY DEF Granted
<1>6. Metered(h, more) \in SUBSET AttemptIds
  BY DEF Metered
<1>7. \A b \in AttemptIds : Booked(h, more[b]) /\ Pending(h, more[b])
  <2>1. ASSUME NEW b \in AttemptIds, b # a
        PROVE  Booked(h, more[b]) /\ Pending(h, more[b])
    BY <2>1 DEF Accounted, Booked, Pending, SameTerms
  <2>2. Booked(h, more[a]) /\ Pending(h, more[a])
    BY DEF Booked, Pending, Accounted
  <2> QED
    BY <2>1, <2>2
<1>8. (\A b \in G : b # a => more[b].spend = rows[b].spend)
      /\ (\A b \in M : more[b].spend = rows[b].spend)
  BY <1>1 DEF Granted, Metered, SameTerms
<1> HIDE DEF G, M
<1>9. /\ g.used = SpendOf(rows, M) /\ g.launches = Cardinality(G) /\ g.launches <= MaxLaunches
  BY DEF Accounted, G, M
<1>10. SpendOf(more, M) = SpendOf(rows, M)
  BY <1>1, <1>8, SpendTypes, SpendSame
<1>11. \A s \in SUBSET AttemptIds : \A x \in AttemptIds \ s :
          /\ SpendOf(more, s \union {x}) = SpendOf(more, s) + more[x].spend
          /\ SpendOf(rows, s \union {x}) = SpendOf(rows, s) + rows[x].spend
  <2>1. \A s \in SUBSET AttemptIds : \A x \in AttemptIds \ s :
          SpendOf(more, s \union {x}) = SpendOf(more, s) + more[x].spend
    BY SpendTypes, AttemptsFinite, SpendAdds, ZenonT(60)
  <2>2. \A s \in SUBSET AttemptIds : \A x \in AttemptIds \ s :
          SpendOf(rows, s \union {x}) = SpendOf(rows, s) + rows[x].spend
    BY SpendTypes, AttemptsFinite, SpendAdds, ZenonT(60)
  <2> QED
    BY <2>1, <2>2
<1>12. /\ SpendOf(rows, M) \in Nat /\ SpendOf(rows, G) \in Nat /\ SpendOf(more, G) \in Nat
       /\ rows[a].spend \in Nat /\ more[a].spend \in Nat /\ MaxCost \in Nat
  BY <1>1, SpendTypes, BoundsAssumption
<1>13. h.used = SpendOf(more, Metered(h, more))
  <2>1. CASE more[a].cost = "known" /\ a \in G
    <3>1. Metered(h, more) = M \union {a}
      BY <1>1, <1>3, <1>4, <1>6, <2>1
    <3>2. SpendOf(more, M \union {a}) = SpendOf(more, M) + more[a].spend
      BY <1>1, <1>11
    <3>3. h.used = g.used + more[a].spend
      BY <1>5, <2>1
    <3> QED
      BY <1>9, <1>10, <3>1, <3>2, <3>3
  <2>2. CASE ~(more[a].cost = "known" /\ a \in G)
    <3>1. Metered(h, more) = M
      BY <1>1, <1>3, <1>4, <1>6, <2>2
    <3>2. h.used = g.used
      BY <1>5, <1>9, <1>12, <2>2
    <3> QED
      BY <1>9, <1>10, <3>1, <3>2
  <2> QED
    BY <2>1, <2>2
<1>14. ASSUME more[a].spend <= rows[a].spend
       PROVE  SpendOf(more, G) <= SpendOf(rows, G)
  <2>1. CASE a \notin G
    <3>1. \A b \in G : more[b].spend = rows[b].spend
      BY <1>8, <2>1
    <3>2. SpendOf(more, G) = SpendOf(rows, G)
      BY <1>1, <3>1, SpendTypes, SpendSame
    <3> QED
      BY <1>12, <3>2
  <2>2. CASE a \in G
    <3> DEFINE H == G \ {a}
    <3>1. H \in SUBSET AttemptIds /\ a \in AttemptIds \ H /\ G = H \union {a}
          /\ \A b \in H : more[b].spend = rows[b].spend
      BY <1>1, <1>8, <2>2
    <3> HIDE DEF H
    <3>2. /\ SpendOf(more, G) = SpendOf(more, H) + more[a].spend
          /\ SpendOf(rows, G) = SpendOf(rows, H) + rows[a].spend
      BY <1>11, <3>1
    <3>3. SpendOf(more, H) = SpendOf(rows, H) /\ SpendOf(rows, H) \in Nat
      BY <3>1, SpendTypes, SpendSame
    <3> QED
      BY <1>12, <1>14, <3>2, <3>3
  <2> QED
    BY <2>1, <2>2
<1>15. ASSUME more[a].cost = "known" => more[a].spend <= rows[a].spend, Covered(g, rows)
       PROVE  Covered(h, more)
  <2>1. more[a].spend <= rows[a].spend
    BY <1>12, <1>15
  <2>2. SpendOf(more, G) <= SpendOf(rows, G) /\ SpendOf(rows, G) <= MaxCost
    BY <1>14, <1>15, <2>1 DEF Covered, G
  <2> QED
    BY <1>2, <1>12, <2>2 DEF Covered
<1>16. Accounted(h, more)
  BY <1>2, <1>7, <1>9, <1>13 DEF Accounted
<1> QED
  BY <1>15, <1>16

-----------------------------------------------------------------------------
(* What each command does to the books.                                    *)

\* Refreshing and saving a document leaves its grant alone.
LEMMA SavedGrant ==
  ASSUME NEW c, "authorization" \in DOMAIN c, Record(c)
  PROVE  card'.authorization = c.authorization
<1>1. CASE c.status \in Terminal
  BY <1>1 DEF Record, Refresh
<1>2. CASE c.status \notin Terminal
  <2> DEFINE steps == [s \in Step |-> IF s \in StepsOf(c)
                         THEN [c.steps[s] EXCEPT !.state = RefreshedStep(c, s)]
                         ELSE c.steps[s]]
             status == RefreshedStatus(c)
  <2>1. card' = [c EXCEPT !.steps = steps, !.status = status]
    BY <1>2 DEF Record, Refresh
  <2> HIDE DEF steps, status
  <2> QED
    BY <2>1
<1> QED
  BY <1>1, <1>2

\* A command whose document has the grant and whose rows are as before keeps the books.
LEMMA EditBooks ==
  ASSUME NEW c, "authorization" \in DOMAIN c, Record(c),
         SameBooks(card.authorization, c.authorization),
         \A a \in AttemptIds : attempts'[a] = attempts[a]
  PROVE  BooksKept
<1>1. card'.authorization = c.authorization
  BY SavedGrant
<1>2. \A a \in AttemptIds : SameTerms(card.authorization, card'.authorization, attempts[a], attempts'[a])
  BY DEF SameTerms
<1> QED
  BY <1>1, <1>2 DEF BooksKept

\* Fencing running attempts changes no term.
LEMMA FencedTerms ==
  ASSUME NEW rows \in [AttemptIds -> Attempt], NEW A \in SUBSET AttemptIds,
         \A a \in A : rows[a].state \in ActiveStates, NEW g, NEW h
  PROVE  \A a \in AttemptIds : SameTerms(g, h, rows[a], FencedRows(rows, A)[a])
<1> SUFFICES ASSUME NEW a \in AttemptIds
             PROVE  SameTerms(g, h, rows[a], FencedRows(rows, A)[a])
  OBVIOUS
<1>0. rows[a] \in Attempt
  OBVIOUS
<1>1. CASE a \in A
  <2>1. FencedRows(rows, A)[a] = [rows[a] EXCEPT !.state = "recovery_required"]
    BY <1>1 DEF FencedRows
  <2> QED
    BY <1>0, <1>1, <2>1 DEF SameTerms, Attempt, OutstandingStates, ActiveStates
<1>2. CASE a \notin A
  <2>1. FencedRows(rows, A)[a] = rows[a]
    BY <1>2 DEF FencedRows
  <2> QED
    BY <2>1 DEF SameTerms
<1> QED
  BY <1>1, <1>2

\* A command that fences and saves a document with the same books keeps them.
LEMMA FencingBooks ==
  ASSUME Sound(card, attempts), NEW c, "authorization" \in DOMAIN c, Record(c),
         SameBooks(card.authorization, c.authorization),
         NEW A \in SUBSET AttemptIds, \A a \in A : attempts[a].state \in ActiveStates,
         attempts' = FencedRows(attempts, A)
  PROVE  BooksKept
<1>1. card'.authorization = c.authorization
  BY SavedGrant
<1>2. attempts \in [AttemptIds -> Attempt]
  BY SoundTyped
<1>3. \A a \in AttemptIds : SameTerms(card.authorization, card'.authorization, attempts[a], attempts'[a])
  BY <1>2, FencedTerms
<1> QED
  BY <1>1, <1>3 DEF BooksKept

\* One row changes and keeps its terms.
LEMMA RowBooks ==
  ASSUME Sound(card, attempts), NEW c, "authorization" \in DOMAIN c, Record(c),
         SameBooks(card.authorization, c.authorization),
         NEW a \in AttemptIds, NEW r, attempts' = [attempts EXCEPT ![a] = r],
         SameTerms(card.authorization, c.authorization, attempts[a], r)
  PROVE  BooksKept
<1>1. card'.authorization = c.authorization
  BY SavedGrant
<1>2. attempts \in [AttemptIds -> Attempt]
  BY SoundTyped
<1>3. attempts'[a] = r /\ \A b \in AttemptIds \ {a} : attempts'[b] = attempts[b]
  BY <1>2
<1>4. ASSUME NEW b \in AttemptIds, b # a
      PROVE  SameTerms(card.authorization, card'.authorization, attempts[b], attempts'[b])
  BY <1>3, <1>4 DEF SameTerms
<1>5. SameTerms(card.authorization, card'.authorization, attempts[a], attempts'[a])
  BY <1>1, <1>3
<1> QED
  BY <1>1, <1>4, <1>5 DEF BooksKept

\* The grant of a card, and of the documents the commands build of it.
LEMMA GrantOf ==
  ASSUME card \in Card
  PROVE  /\ "authorization" \in DOMAIN card /\ card.authorization \in Grant
         /\ SameBooks(card.authorization, card.authorization)
         /\ SameBooks(card.authorization, RevokedGrant(card.authorization))
         /\ \A A : /\ "authorization" \in DOMAIN FencedCard(card, A)
                   /\ FencedCard(card, A).authorization = card.authorization
         /\ \A s, r : /\ "authorization" \in DOMAIN WithStep(card, s, r)
                      /\ WithStep(card, s, r).authorization = card.authorization
<1>1. "authorization" \in DOMAIN card /\ card.authorization \in Grant
  BY DEF Card
<1>2. SameBooks(card.authorization, RevokedGrant(card.authorization))
  BY <1>1 DEF SameBooks, RevokedGrant, Grant
<1>3. ASSUME NEW A
      PROVE  /\ "authorization" \in DOMAIN FencedCard(card, A)
             /\ FencedCard(card, A).authorization = card.authorization
  BY <1>1 DEF FencedCard
<1>4. ASSUME NEW s, NEW r
      PROVE  /\ "authorization" \in DOMAIN WithStep(card, s, r)
             /\ WithStep(card, s, r).authorization = card.authorization
  BY <1>1 DEF WithStep
<1> QED
  BY <1>1, <1>2, <1>3, <1>4 DEF SameBooks

\* Negotiation moves no money.
LEMMA NegotiationBooks ==
  ASSUME Sound(card, attempts), Negotiation
  PROVE  BooksKept
<1>0. card \in Card /\ attempts \in [AttemptIds -> Attempt]
  BY SoundTyped
<1>1. ASSUME NEW p \in Plans, Propose(p)
      PROVE  BooksKept
  <2> DEFINE q == IF p = card.plan THEN NoProposal(card)
                  ELSE [plan |-> p, base |-> card.planRevision]
             d == [card EXCEPT !.proposal = q]
  <2>1. Record(d) /\ attempts' = attempts
    BY <1>1 DEF Propose
  <2> HIDE DEF q
  <2>2. "authorization" \in DOMAIN d /\ d.authorization = card.authorization
    BY <1>0, GrantOf
  <2> HIDE DEF d
  <2> QED
    BY <1>0, <2>1, <2>2, GrantOf, EditBooks
<1>2. ASSUME NEW actor \in Principals, Agree(actor)
      PROVE  BooksKept
  <2> DEFINE d == [card EXCEPT !.agreements[actor] = card.planRevision]
  <2>1. Record(d) /\ attempts' = attempts
    BY <1>2 DEF Agree
  <2>2. "authorization" \in DOMAIN d /\ d.authorization = card.authorization
    BY <1>0, GrantOf
  <2> HIDE DEF d
  <2> QED
    BY <1>0, <2>1, <2>2, GrantOf, EditBooks
<1>3. ASSUME Pause
      PROVE  BooksKept
  <2> DEFINE c == FencedCard(card, ActiveAttempts)
             d == [c EXCEPT !.status = "paused"]
  <2>1. Record(d) /\ attempts' = FencedRows(attempts, ActiveAttempts)
    BY <1>3 DEF Pause
  <2>2. "authorization" \in DOMAIN c /\ c.authorization = card.authorization
    BY <1>0, GrantOf
  <2> HIDE DEF c
  <2>3. "authorization" \in DOMAIN d /\ d.authorization = card.authorization
    BY <2>2
  <2> HIDE DEF d
  <2>4. ActiveAttempts \in SUBSET AttemptIds /\ \A a \in ActiveAttempts : attempts[a].state \in ActiveStates
    BY DEF ActiveAttempts, Active
  <2> QED
    BY <1>0, <2>1, <2>3, <2>4, GrantOf, FencingBooks
<1>4. ASSUME Resume
      PROVE  BooksKept
  <2> DEFINE d == [card EXCEPT !.status = "draft"]
  <2>1. Record(d) /\ attempts' = attempts
    BY <1>4 DEF Resume
  <2>2. "authorization" \in DOMAIN d /\ d.authorization = card.authorization
    BY <1>0, GrantOf
  <2> HIDE DEF d
  <2> QED
    BY <1>0, <2>1, <2>2, GrantOf, EditBooks
<1>5. ASSUME NEW actor \in BlockAuthors, NEW s \in Step, NEW bound \in BOOLEAN,
             Block(actor, s, bound)
      PROVE  BooksKept
  <2> DEFINE a == card.steps[s].attempt
             d == WithBlockers(card, s, card.steps[s].blockers \union {actor})
             F == {b \in AttemptIds : b = a /\ Active(b)}
             f == FencedCard(d, F)
  <2>1. "authorization" \in DOMAIN d /\ d.authorization = card.authorization
    BY <1>0, GrantOf DEF WithBlockers
  <2>2. CASE bound
    <3> DEFINE r == [attempts[a] EXCEPT !.blockIntent = TRUE]
    <3>1. /\ a \in AttemptIds /\ Record(d)
          /\ attempts' = [attempts EXCEPT ![a].blockIntent = TRUE]
      BY <1>5, <2>2 DEF Block
    <3>2. attempts' = [attempts EXCEPT ![a] = r]
      BY <3>1
    <3>3. attempts[a] \in Attempt
      BY <1>0, <3>1
    <3>4. SameTerms(card.authorization, d.authorization, attempts[a], r)
      BY <3>3 DEF SameTerms, Attempt
    <3> HIDE DEF a, d, r
    <3> QED
      BY <1>0, <2>1, <3>1, <3>2, <3>4, GrantOf, RowBooks
  <2>3. CASE ~bound
    <3>1. Record(f) /\ attempts' = FencedRows(attempts, F)
      BY <1>5, <2>3 DEF Block
    <3> HIDE DEF d
    <3>2. "authorization" \in DOMAIN f /\ f.authorization = card.authorization
      BY <2>1 DEF FencedCard
    <3>3. F \in SUBSET AttemptIds /\ \A b \in F : attempts[b].state \in ActiveStates
      BY DEF Active
    <3> HIDE DEF f, F
    <3> QED
      BY <1>0, <3>1, <3>2, <3>3, GrantOf, FencingBooks
  <2> QED
    BY <2>2, <2>3
<1>6. ASSUME NEW actor \in Actors, NEW author \in Actors, NEW s \in Step,
             UnblockStep(actor, author, s)
      PROVE  BooksKept
  <2> DEFINE d == WithBlockers(card, s, card.steps[s].blockers \ {author})
  <2>1. Record(d) /\ attempts' = attempts
    BY <1>6 DEF UnblockStep
  <2>2. "authorization" \in DOMAIN d /\ d.authorization = card.authorization
    BY <1>0, GrantOf DEF WithBlockers
  <2> HIDE DEF d
  <2> QED
    BY <1>0, <2>1, <2>2, GrantOf, EditBooks
<1>7. ASSUME NEW actor \in Actors, NEW author \in Actors, UnblockCard(actor, author)
      PROVE  BooksKept
  <2> DEFINE d == [card EXCEPT !.blockers = @ \ {author}]
  <2>1. Record(d) /\ attempts' = attempts
    BY <1>7 DEF UnblockCard
  <2>2. "authorization" \in DOMAIN d /\ d.authorization = card.authorization
    BY <1>0, GrantOf
  <2> HIDE DEF d
  <2> QED
    BY <1>0, <2>1, <2>2, GrantOf, EditBooks
<1> QED
  BY <1>1, <1>2, <1>3, <1>4, <1>5, <1>6, <1>7 DEF Negotiation

\* Authorizing opens the books, reserving charges them with an envelope; a revoked
\* grant and a claim by hand leave them as they are.
LEMMA LaunchingBooks ==
  ASSUME Sound(card, attempts), Launching,
         \A a \in AttemptIds : Booked(card.authorization, attempts[a])
  PROVE  BooksKept \/ BooksOpened \/ \E a \in AttemptIds : BooksReserve(a)
<1>0. /\ card \in Card /\ attempts \in [AttemptIds -> Attempt] /\ card.authorization \in Grant
      /\ "authorization" \in DOMAIN card
  BY SoundTyped, GrantOf
<1>1. ASSUME Authorize
      PROVE  BooksOpened
  <2> DEFINE h == [id |-> card.authorization.id + 1, planRevision |-> card.planRevision,
                   revoked |-> FALSE, due |-> FALSE, unknownCost |-> FALSE,
                   launches |-> 0, used |-> 0]
             d == [card EXCEPT !.authorization = h]
  <2>1. Record(d) /\ attempts' = attempts
    BY <1>1 DEF Authorize
  <2>2. h.id = card.authorization.id + 1 /\ h.used = 0 /\ h.launches = 0
    OBVIOUS
  <2> HIDE DEF h
  <2>3. "authorization" \in DOMAIN d /\ d.authorization = h
    BY <1>0
  <2> HIDE DEF d
  <2>4. card'.authorization = h
    BY <2>1, <2>3, SavedGrant
  <2> QED
    BY <2>1, <2>2, <2>4 DEF BooksOpened
<1>2. ASSUME Revoke
      PROVE  BooksKept
  <2> DEFINE c == FencedCard(card, ActiveAttempts)
             d == [c EXCEPT !.authorization = RevokedGrant(card.authorization)]
  <2>1. Record(d) /\ attempts' = FencedRows(attempts, ActiveAttempts)
    BY <1>2 DEF Revoke
  <2>2. "authorization" \in DOMAIN c
    BY <1>0, GrantOf
  <2> HIDE DEF c
  <2>3. "authorization" \in DOMAIN d /\ d.authorization = RevokedGrant(card.authorization)
    BY <2>2
  <2> HIDE DEF d
  <2>4. ActiveAttempts \in SUBSET AttemptIds /\ \A a \in ActiveAttempts : attempts[a].state \in ActiveStates
    BY DEF ActiveAttempts, Active
  <2> QED
    BY <1>0, <2>1, <2>3, <2>4, GrantOf, FencingBooks
<1>3. ASSUME NEW a \in AttemptIds, NEW s \in Step, NEW actor \in Principals, Claim(a, s, actor)
      PROVE  BooksKept
  <2> DEFINE d == StepRunning(s, a)
             r == Reserved(a, s, actor, FALSE, 0)[a]
  <2>1. Record(d) /\ attempts' = Reserved(a, s, actor, FALSE, 0) /\ attempts[a].state = "none"
    BY <1>3 DEF Claim, IsNew
  <2>2. Reserved(a, s, actor, FALSE, 0) = [attempts EXCEPT ![a] = r]
        /\ r.managed = FALSE /\ r.grant = None /\ r.state = "reserved"
    BY <1>0 DEF Reserved
  <2>3. "authorization" \in DOMAIN d /\ d.authorization = card.authorization
    BY <1>0, GrantOf DEF StepRunning
  <2>4. attempts[a].managed = FALSE
    BY <1>0, <2>1 DEF Booked, Attempt
  <2> HIDE DEF d, r
  <2>5. SameTerms(card.authorization, d.authorization, attempts[a], r)
    BY <2>2, <2>4 DEF SameTerms
  <2> QED
    BY <1>0, <2>1, <2>2, <2>3, <2>5, GrantOf, RowBooks
<1>4. ASSUME NEW a \in AttemptIds, NEW s \in Step, NEW envelope \in 1..MaxAttemptCost,
             Reserve(a, s, envelope)
      PROVE  BooksReserve(a)
  <2> DEFINE g == card.authorization
             h == [g EXCEPT !.launches = @ + 1]
             c == StepRunning(s, a)
             d == [c EXCEPT !.authorization = h]
             actor == PrincipalFor(s)
             r == Reserved(a, s, actor, TRUE, envelope)[a]
             left == MaxCost - g.used - ReservedCost
  <2>1. /\ IsNew(a) /\ Claimable(s) /\ g.id # None /\ ~g.unknownCost
        /\ g.launches < MaxLaunches
        /\ envelope = IF left < MaxAttemptCost THEN left ELSE MaxAttemptCost
        /\ Record(d) /\ attempts' = Reserved(a, s, actor, TRUE, envelope)
    BY <1>4 DEF Reserve
  <2>2. /\ Reserved(a, s, actor, TRUE, envelope) = [attempts EXCEPT ![a] = r]
        /\ r.managed = TRUE /\ r.grant = g.id /\ r.state = "reserved" /\ r.cost = "open"
        /\ r.spend = envelope
    BY <1>0 DEF Reserved
  <2>3. h.id = g.id /\ h.used = g.used /\ h.launches = g.launches + 1
    BY <1>0 DEF Grant
  <2>4. "authorization" \in DOMAIN c
    BY <1>0, GrantOf DEF StepRunning
  <2>5. attempts[a].state = "none" /\ \A b \in AttemptIds : attempts[b].state # "recovery_required"
    BY <2>1 DEF IsNew, Claimable, Uncertain
  <2>6. left \in Int /\ MaxAttemptCost \in Int
    <3> DEFINE A == {b \in ActiveAttempts : attempts[b].grant = card.authorization.id}
    <3>1. A \in SUBSET AttemptIds
      BY DEF ActiveAttempts
    <3>2. ReservedCost = SpendOf(attempts, A)
      BY DEF ReservedCost, SpendOf
    <3>3. SpendOf(attempts, A) \in Nat
      BY <1>0, <3>1, SpendTypes
    <3> QED
      BY <1>0, <3>2, <3>3, BoundsAssumption DEF Grant
  <2> HIDE DEF c, h, r, left
  <2>7. envelope <= left
    BY <2>1, <2>6
  <2>8. "authorization" \in DOMAIN d /\ d.authorization = h
    BY <2>4
  <2> HIDE DEF d
  <2>9. card'.authorization = h
    BY <2>1, <2>8, SavedGrant
  <2>10. attempts' = [attempts EXCEPT ![a] = r] /\ attempts'[a] = r
    BY <1>0, <2>1, <2>2
  <2>11. attempts'[a].spend <= MaxCost - g.used - ReservedCost
    BY <2>2, <2>7, <2>10 DEF left
  <2> QED
    BY <2>1, <2>2, <2>3, <2>5, <2>9, <2>10, <2>11 DEF BooksReserve
<1> QED
  BY <1>1, <1>2, <1>3, <1>4 DEF Launching

\* How an attempt ends: on its step, off the running states, the grant untouched.
LEMMA SettledBooks ==
  ASSUME card \in Card, NEW a \in AttemptIds, NEW outcome, NEW known, NEW output
  PROVE  LET z == Settled(a, outcome, known, output) IN
         /\ "authorization" \in DOMAIN z.card /\ z.card.authorization = card.authorization
         /\ z.state \in {"succeeded", "blocked", "recovery_required"}
<1> DEFINE z == Settled(a, outcome, known, output)
<1>1. /\ z.state \in {"succeeded", "blocked", "recovery_required"}
      /\ \E s, r : z.card = WithStep(card, s, r)
  <2>1. CASE Publishes(a, outcome)
    BY <2>1 DEF Settled
  <2>2. CASE ~Publishes(a, outcome) /\ Cooperates(a, outcome, known, output)
    BY <2>2 DEF Settled
  <2>3. CASE ~Publishes(a, outcome) /\ ~Cooperates(a, outcome, known, output) /\ Rules(a, outcome)
    BY <2>3 DEF Settled, Decided
  <2>4. CASE ~Publishes(a, outcome) /\ ~Cooperates(a, outcome, known, output) /\ ~Rules(a, outcome)
    BY <2>4 DEF Settled
  <2> QED
    BY <2>1, <2>2, <2>3, <2>4
<1> HIDE DEF z
<1> QED
  BY <1>1, GrantOf DEF z

\* An attempt's row stays well typed when its end is written into it.
LEMMA EndedRow ==
  ASSUME NEW x \in Attempt, NEW st \in AttemptStates,
         NEW c \in {"open", "known", "unknown"}, NEW m \in Nat
  PROVE  [x EXCEPT !.state = st, !.cost = c, !.spend = m] \in Attempt
<1> USE DEF Attempt
<1>1. [x EXCEPT !.state = st] \in Attempt
  OBVIOUS
<1>2. [[x EXCEPT !.state = st] EXCEPT !.cost = c] \in Attempt
  BY <1>1
<1>3. [[[x EXCEPT !.state = st] EXCEPT !.cost = c] EXCEPT !.spend = m] \in Attempt
  BY <1>2
<1> QED
  BY <1>3

\* The end of an attempt is booked once, whether it publishes or not.
LEMMA FinishBooks ==
  ASSUME Sound(card, attempts), NEW a \in AttemptIds, NEW outcome,
         NEW known \in BOOLEAN, NEW cost \in Costs, NEW output \in BOOLEAN,
         FinishAttempt(a, outcome, known, cost, output)
  PROVE  BooksKept \/ BooksCharge(a)
<1> DEFINE z == Settled(a, outcome, known, output)
           d == Charged(z.card, a, known, cost)
           r == [attempts[a] EXCEPT !.state = z.state,
                   !.cost = IF known THEN "known" ELSE "unknown",
                   !.spend = IF known THEN cost ELSE @]
           R == [attempts EXCEPT ![a] = r]
           others == ActiveAttempts \ {a}
           g == card.authorization
<1>0. /\ card \in Card /\ attempts \in [AttemptIds -> Attempt] /\ g \in Grant
      /\ attempts[a] \in Attempt /\ cost \in Nat
  BY SoundTyped, GrantOf, BoundsAssumption
<1>1. /\ Outstanding(a) /\ attempts[a].cost = "open" /\ (known => attempts[a].managed)
      /\ IF attempts[a].managed /\ ~known
         THEN /\ Record([FencedCard(d, others) EXCEPT !.status = "paused"])
              /\ attempts' = FencedRows(R, others)
         ELSE Record(d) /\ attempts' = R
  BY DEF FinishAttempt
<1>2. /\ "authorization" \in DOMAIN z.card /\ z.card.authorization = g
      /\ z.state \in {"succeeded", "blocked", "recovery_required"}
  BY <1>0, SettledBooks
<1> HIDE DEF z
<1>3. /\ r.managed = attempts[a].managed /\ r.grant = attempts[a].grant /\ r.state = z.state
      /\ r.cost = IF known THEN "known" ELSE "unknown"
      /\ r.spend = IF known THEN cost ELSE attempts[a].spend
  BY <1>0 DEF Attempt
<1>4. r \in Attempt
  <2> DEFINE st == z.state
             c == IF known THEN "known" ELSE "unknown"
             m == IF known THEN cost ELSE attempts[a].spend
  <2>1. st \in AttemptStates /\ c \in {"open", "known", "unknown"} /\ m \in Nat
    BY <1>0, <1>2 DEF Attempt, AttemptStates, ActiveStates
  <2>2. r = [attempts[a] EXCEPT !.state = st, !.cost = c, !.spend = m]
    BY <1>0
  <2> HIDE DEF st, c, m, r
  <2> QED
    BY <1>0, <2>1, <2>2, EndedRow
<1>5. "authorization" \in DOMAIN d
      /\ \/ known /\ attempts[a].managed /\ SameGrant(a)
              /\ d.authorization = [g EXCEPT !.used = @ + cost]
         \/ ~known /\ attempts[a].managed /\ SameGrant(a)
              /\ d.authorization = [g EXCEPT !.unknownCost = TRUE]
         \/ ~(attempts[a].managed /\ SameGrant(a)) /\ d.authorization = g
  <2>1. CASE ~(attempts[a].managed /\ SameGrant(a))
    BY <1>2, <2>1 DEF Charged
  <2>2. CASE attempts[a].managed /\ SameGrant(a) /\ known
    <3> DEFINE h == [g EXCEPT !.used = @ + cost]
    <3>1. d = [z.card EXCEPT !.authorization = h]
      BY <1>2, <2>2 DEF Charged
    <3> HIDE DEF h
    <3>2. "authorization" \in DOMAIN d /\ d.authorization = h
      BY <1>2, <3>1
    <3> QED
      BY <2>2, <3>2 DEF h
  <2>3. CASE attempts[a].managed /\ SameGrant(a) /\ ~known
    <3> DEFINE h == [g EXCEPT !.unknownCost = TRUE]
    <3>1. d = [z.card EXCEPT !.authorization = h]
      BY <1>2, <2>3 DEF Charged
    <3> HIDE DEF h
    <3>2. "authorization" \in DOMAIN d /\ d.authorization = h
      BY <1>2, <3>1
    <3> QED
      BY <2>3, <3>2 DEF h
  <2> QED
    BY <2>1, <2>2, <2>3
<1> HIDE DEF d, r
<1>6. /\ R \in [AttemptIds -> Attempt] /\ R[a] = r
      /\ \A b \in AttemptIds \ {a} : R[b] = attempts[b]
  BY <1>0, <1>4
<1>7. SameGrant(a) <=> g.id # None /\ g.id = attempts[a].grant
  BY DEF SameGrant
<1> HIDE DEF R
<1>8. CASE ~attempts[a].managed
  <2>1. Record(d) /\ attempts' = R /\ d.authorization = g
    BY <1>1, <1>5, <1>8
  <2>2. attempts' = [attempts EXCEPT ![a] = r]
    BY <2>1 DEF R
  <2>3. SameTerms(g, d.authorization, attempts[a], r)
    BY <1>2, <1>3, <1>8 DEF SameTerms, ActiveStates
  <2>4. SameBooks(g, d.authorization)
    BY <1>0, <2>1, GrantOf
  <2> HIDE DEF g
  <2>5. BooksKept
    BY <1>5, <2>1, <2>2, <2>3, <2>4, RowBooks DEF g
  <2> QED
    BY <2>5
<1>9. CASE attempts[a].managed /\ known
  <2>1. Record(d) /\ attempts' = R
    BY <1>1, <1>9
  <2>2. card'.authorization = d.authorization
    BY <1>5, <2>1, SavedGrant
  <2>3. \A b \in AttemptIds \ {a} : SameTerms(g, card'.authorization, attempts[b], attempts'[b])
    BY <1>6, <2>1 DEF SameTerms
  <2>4. /\ d.authorization.id = g.id /\ d.authorization.launches = g.launches
        /\ g.unknownCost => d.authorization.unknownCost
        /\ d.authorization.used = g.used + IF g.id # None /\ g.id = attempts[a].grant
                                           THEN cost ELSE 0
    <3>1. CASE SameGrant(a)
      BY <1>0, <1>5, <1>7, <1>9, <3>1 DEF Grant
    <3>2. CASE ~SameGrant(a)
      <4>1. d.authorization = g /\ g.used \in Nat
        BY <1>0, <1>5, <3>2 DEF Grant
      <4> QED
        BY <1>7, <3>2, <4>1
    <3> QED
      BY <3>1, <3>2
  <2>5. /\ attempts'[a] = r /\ r.managed /\ r.cost = "known" /\ r.spend = cost
        /\ r.state \notin ActiveStates \union {"none"}
    BY <1>2, <1>3, <1>6, <1>9, <2>1 DEF ActiveStates
  <2> QED
    BY <1>1, <1>3, <1>9, <2>2, <2>3, <2>4, <2>5 DEF BooksCharge
<1>10. CASE attempts[a].managed /\ ~known
  <2> DEFINE f == FencedCard(d, others)
             e == [f EXCEPT !.status = "paused"]
  <2>1. Record(e) /\ attempts' = FencedRows(R, others)
    BY <1>1, <1>10
  <2>2. "authorization" \in DOMAIN f /\ f.authorization = d.authorization
    BY <1>5 DEF FencedCard
  <2> HIDE DEF f
  <2>3. "authorization" \in DOMAIN e /\ e.authorization = d.authorization
    BY <2>2
  <2> HIDE DEF e
  <2>4. card'.authorization = d.authorization
    BY <2>1, <2>3, SavedGrant
  <2>5. others \in SUBSET AttemptIds /\ a \notin others
        /\ \A b \in others : R[b].state \in ActiveStates
    BY <1>6 DEF ActiveAttempts, Active
  <2> HIDE DEF others
  <2>6. \A b \in AttemptIds : SameTerms(g, card'.authorization, R[b], attempts'[b])
    BY <1>6, <2>1, <2>5, FencedTerms
  <2>7. \A b \in AttemptIds \ {a} : SameTerms(g, card'.authorization, attempts[b], attempts'[b])
    BY <1>6, <2>6
  <2>8. attempts'[a] = r
    BY <1>6, <2>1, <2>5 DEF FencedRows
  <2>9. /\ d.authorization.id = g.id /\ d.authorization.launches = g.launches
        /\ g.unknownCost => d.authorization.unknownCost
        /\ d.authorization.used = g.used
        /\ SameGrant(a) => d.authorization.unknownCost
    BY <1>0, <1>5, <1>10 DEF Grant
  <2>10. g.id = attempts[a].grant => SameGrant(a)
    BY <1>1, <1>10 DEF Sound, Anchored, Outstanding, Active, Uncertain, OutstandingStates, SameGrant
  <2>11. /\ r.managed /\ r.cost = "unknown" /\ r.spend = attempts[a].spend
         /\ r.state \notin ActiveStates \union {"none"}
    BY <1>2, <1>3, <1>10 DEF ActiveStates
  <2> QED
    BY <1>1, <1>3, <1>10, <2>4, <2>7, <2>8, <2>9, <2>10, <2>11 DEF BooksCharge
<1> QED
  BY <1>8, <1>9, <1>10

\* What a worker records on its attempt costs nothing until it ends.
LEMMA WorkingBooks ==
  ASSUME Sound(card, attempts), Working
  PROVE  BooksKept \/ \E a \in AttemptIds : BooksCharge(a)
<1>0. card \in Card /\ attempts \in [AttemptIds -> Attempt]
  BY SoundTyped
<1>1. PICK a \in AttemptIds :
        \/ Started(a) \/ Submit(a) \/ Compare(a) \/ BlockReviewContext(a)
        \/ \E outcome \in {"success", "other"} : Report(a, outcome)
        \/ \E verdict \in {"accept", "reject"} : Decide(a, verdict)
        \/ \E outcome \in {"success", "blocked", "failed"}, known \in BOOLEAN,
              cost \in Costs, output \in BOOLEAN :
             FinishAttempt(a, outcome, known, cost, output)
  BY DEF Working
<1> DEFINE r == attempts[a]
           g == card.authorization
<1>2. r \in Attempt
  BY <1>0
<1>3. ASSUME NEW c, Record(c), "authorization" \in DOMAIN c, c.authorization = g,
             NEW q, attempts' = [attempts EXCEPT ![a] = q], SameTerms(g, g, r, q)
      PROVE  BooksKept
  BY <1>0, <1>3, GrantOf, RowBooks
<1>4. "authorization" \in DOMAIN card
  BY <1>0, GrantOf
<1>5. CASE Started(a)
  <2> DEFINE q == [r EXCEPT !.state = "running"]
  <2>1. Record(card) /\ attempts' = [attempts EXCEPT ![a] = q] /\ r.state \in ActiveStates
    BY <1>5 DEF Started, Authenticated, Active
  <2>2. SameTerms(g, g, r, q)
    BY <1>2, <2>1 DEF SameTerms, Attempt, ActiveStates, OutstandingStates
  <2> QED
    BY <1>3, <1>4, <2>1, <2>2
<1>6. CASE Submit(a)
  <2> DEFINE q == [r EXCEPT !.intent = TRUE]
  <2>1. Record(card) /\ attempts' = [attempts EXCEPT ![a] = q]
    BY <1>6 DEF Submit
  <2>2. SameTerms(g, g, r, q)
    BY <1>2 DEF SameTerms, Attempt
  <2> QED
    BY <1>3, <1>4, <2>1, <2>2
<1>7. CASE Compare(a)
  <2> DEFINE q == [r EXCEPT !.stage = "comparison"]
  <2>1. Record(card) /\ attempts' = [attempts EXCEPT ![a] = q]
    BY <1>7 DEF Compare
  <2>2. SameTerms(g, g, r, q)
    BY <1>2 DEF SameTerms, Attempt
  <2> QED
    BY <1>3, <1>4, <2>1, <2>2
<1>8. CASE BlockReviewContext(a)
  <2> DEFINE q == [r EXCEPT !.stage = "blocked", !.blockIntent = TRUE]
             s == r.step
             d == WithBlockers(card, s, card.steps[s].blockers \union {r.actor})
  <2>1. Record(d) /\ attempts' = [attempts EXCEPT ![a] = q]
    BY <1>0, <1>8 DEF BlockReviewContext
  <2>2. SameTerms(g, g, r, q)
    BY <1>2 DEF SameTerms, Attempt
  <2>3. "authorization" \in DOMAIN d /\ d.authorization = g
    BY <1>0, GrantOf DEF WithBlockers
  <2> QED
    BY <1>3, <2>1, <2>2, <2>3
<1>9. ASSUME NEW outcome \in {"success", "other"}, Report(a, outcome)
      PROVE  BooksKept
  <2> DEFINE q == [r EXCEPT !.report = outcome]
  <2>1. Record(card) /\ attempts' = [attempts EXCEPT ![a] = q]
    BY <1>9 DEF Report
  <2>2. SameTerms(g, g, r, q)
    BY <1>2 DEF SameTerms, Attempt
  <2> QED
    BY <1>3, <1>4, <2>1, <2>2
<1>10. ASSUME NEW verdict \in {"accept", "reject"}, Decide(a, verdict)
       PROVE  BooksKept
  <2>1. CASE r.managed
    <3> DEFINE q == [r EXCEPT !.verdict = verdict]
    <3>1. Record(card) /\ attempts' = [attempts EXCEPT ![a] = q]
      BY <1>10, <2>1 DEF Decide
    <3>2. SameTerms(g, g, r, q)
      BY <1>2 DEF SameTerms, Attempt
    <3> QED
      BY <1>3, <1>4, <3>1, <3>2
  <2>2. CASE ~r.managed
    <3> DEFINE q == [r EXCEPT !.verdict = verdict, !.state = "succeeded", !.cost = "unknown"]
               d == Decided(card, a, verdict)
    <3>1. Record(d) /\ attempts' = [attempts EXCEPT ![a] = q]
      BY <1>0, <1>10, <2>2 DEF Decide
    <3>2. SameTerms(g, g, r, q)
      BY <1>2, <2>2 DEF SameTerms, Attempt, ActiveStates
    <3>3. "authorization" \in DOMAIN d /\ d.authorization = g
      BY <1>0, GrantOf DEF Decided
    <3> QED
      BY <1>3, <3>1, <3>2, <3>3
  <2> QED
    BY <2>1, <2>2
<1>11. ASSUME NEW outcome \in {"success", "blocked", "failed"}, NEW known \in BOOLEAN,
              NEW cost \in Costs, NEW output \in BOOLEAN,
              FinishAttempt(a, outcome, known, cost, output)
       PROVE  BooksKept \/ BooksCharge(a)
  BY <1>11, FinishBooks
<1> QED
  BY <1>1, <1>5, <1>6, <1>7, <1>8, <1>9, <1>10, <1>11

\* Losing authority is no charge.
LEMMA LosingBooks ==
  ASSUME Sound(card, attempts), Losing
  PROVE  BooksKept
<1>0. /\ card \in Card /\ attempts \in [AttemptIds -> Attempt] /\ card.authorization \in Grant
      /\ "authorization" \in DOMAIN card
  BY SoundTyped, GrantOf
<1>1. ASSUME GrantElapses
      PROVE  BooksKept
  <2> DEFINE h == [card.authorization EXCEPT !.due = TRUE]
  <2>1. card' = [card EXCEPT !.authorization = h]
    BY <1>1 DEF GrantElapses
  <2>2. SameBooks(card.authorization, h)
    BY <1>0 DEF SameBooks, Grant
  <2> HIDE DEF h
  <2>3. card'.authorization = h
    BY <1>0, <2>1
  <2>4. ASSUME NEW a \in AttemptIds
        PROVE  SameTerms(card.authorization, h, attempts[a], attempts'[a])
    <3>1. attempts'[a] = attempts[a] \/ attempts'[a] = [attempts[a] EXCEPT !.due = TRUE]
      BY <1>1 DEF GrantElapses
    <3>2. attempts[a] \in Attempt
      BY <1>0
    <3> QED
      BY <3>1, <3>2 DEF SameTerms, Attempt
  <2> QED
    BY <2>2, <2>3, <2>4 DEF BooksKept
<1>2. ASSUME NEW A \in SUBSET ActiveAttempts, Record(FencedCard(card, A)),
             attempts' = FencedRows(attempts, A)
      PROVE  BooksKept
  <2>1. A \in SUBSET AttemptIds /\ \A a \in A : attempts[a].state \in ActiveStates
    BY DEF ActiveAttempts, Active
  <2> DEFINE d == FencedCard(card, A)
  <2>2. "authorization" \in DOMAIN d /\ d.authorization = card.authorization
    BY <1>0, GrantOf
  <2>3. Record(d)
    BY <1>2
  <2> HIDE DEF d
  <2> QED
    BY <1>0, <1>2, <2>1, <2>2, <2>3, GrantOf, FencingBooks
<1>3. ASSUME Expire
      PROVE  BooksKept
  <2> DEFINE A == {a \in ActiveAttempts : attempts[a].due}
  <2>1. Record(FencedCard(card, A)) /\ attempts' = FencedRows(attempts, A)
    BY <1>3 DEF Expire
  <2>2. A \in SUBSET ActiveAttempts
    OBVIOUS
  <2> HIDE DEF A
  <2> QED
    BY <1>2, <2>1, <2>2
<1>4. ASSUME RecoverOwner
      PROVE  BooksKept
  <2> DEFINE A == {a \in ActiveAttempts : attempts[a].managed}
  <2>1. Record(FencedCard(card, A)) /\ attempts' = FencedRows(attempts, A)
    BY <1>4 DEF RecoverOwner
  <2>2. A \in SUBSET ActiveAttempts
    OBVIOUS
  <2> HIDE DEF A
  <2> QED
    BY <1>2, <2>1, <2>2
<1>5. ASSUME NEW a \in AttemptIds, ClaimElapses(a)
      PROVE  BooksKept
  <2>1. /\ attempts' = [attempts EXCEPT ![a].due = TRUE] /\ card' = card
    BY <1>5 DEF ClaimElapses
  <2>2. ASSUME NEW b \in AttemptIds
        PROVE  SameTerms(card.authorization, card.authorization, attempts[b], attempts'[b])
    <3>1. attempts'[b] = attempts[b] \/ attempts'[b] = [attempts[b] EXCEPT !.due = TRUE]
      BY <1>0, <2>1
    <3>2. attempts[b] \in Attempt
      BY <1>0
    <3> QED
      BY <3>1, <3>2 DEF SameTerms, Attempt
  <2> QED
    BY <1>0, <2>1, <2>2, GrantOf DEF BooksKept
<1>6. ASSUME NEW a \in AttemptIds, ConfirmStopped(a)
      PROVE  BooksKept
  <2> DEFINE q == [attempts[a] EXCEPT !.gone = TRUE]
  <2>1. Record(card) /\ attempts' = [attempts EXCEPT ![a] = q]
    BY <1>6 DEF ConfirmStopped
  <2>2. attempts[a] \in Attempt
    BY <1>0
  <2>3. SameTerms(card.authorization, card.authorization, attempts[a], q)
    BY <2>2 DEF SameTerms, Attempt
  <2> HIDE DEF q
  <2> QED
    BY <1>0, <2>1, <2>3, GrantOf, RowBooks
<1> QED
  BY <1>1, <1>3, <1>4, <1>5, <1>6 DEF Losing

\* Disposing of attempts leaves their recorded costs; one of unknown cost marks
\* the grant.
LEMMA DisposedBooks ==
  ASSUME Sound(card, attempts), NEW A \in SUBSET AttemptIds, NEW release, NEW resolution
  PROVE  LET d == DisposedCard(A, release, resolution) IN
         /\ "authorization" \in DOMAIN d /\ SameBooks(card.authorization, d.authorization)
         /\ \A a \in A : /\ attempts[a].managed /\ attempts[a].cost = "open"
                         /\ attempts[a].state \in OutstandingStates
                         => d.authorization.unknownCost
<1> DEFINE h == Unbooked(card.authorization, Unmetered(A) # {})
           d == DisposedCard(A, release, resolution)
<1>0. card \in Card /\ card.authorization \in Grant /\ "authorization" \in DOMAIN card
  BY SoundTyped, GrantOf
<1>1. "authorization" \in DOMAIN d /\ d.authorization = h
  BY <1>0 DEF DisposedCard
<1> HIDE DEF d
<1>2. SameBooks(card.authorization, h)
  BY <1>0 DEF SameBooks, Unbooked, Grant
<1>3. ASSUME NEW a \in A, attempts[a].managed, attempts[a].cost = "open",
             attempts[a].state \in OutstandingStates
      PROVE  h.unknownCost
  <2>1. SameGrant(a)
    BY <1>3 DEF Sound, Anchored, SameGrant
  <2>2. a \in Unmetered(A)
    BY <1>3, <2>1 DEF Unmetered
  <2>3. h = [card.authorization EXCEPT !.unknownCost = TRUE]
    BY <2>2 DEF Unbooked
  <2> QED
    BY <1>0, <2>3 DEF Grant
<1> QED
  BY <1>1, <1>2, <1>3 DEF d

\* The operator's decisions and the plan transition leave the books as they are.
LEMMA DisposingBooks ==
  ASSUME Sound(card, attempts), Disposing
  PROVE  BooksKept
<1>0. /\ card \in Card /\ attempts \in [AttemptIds -> Attempt] /\ card.authorization \in Grant
      /\ "authorization" \in DOMAIN card
  BY SoundTyped, GrantOf
<1>1. ASSUME NEW scope \in {Step} \union {{s} : s \in Step}, NEW resolution,
             Reconcile(scope, resolution)
      PROVE  BooksKept
  <2> DEFINE A == {a \in AttemptIds : Uncertain(a) /\ attempts[a].step \in scope}
             d == DisposedCard(A, {attempts[a].step : a \in A}, resolution)
  <2>1. /\ Record(d)
        /\ attempts' = [a \in AttemptIds |->
             IF a \in A THEN [attempts[a] EXCEPT !.state = "reconciled"] ELSE attempts[a]]
    BY <1>1 DEF Reconcile
  <2>2. A \in SUBSET AttemptIds
    OBVIOUS
  <2> HIDE DEF A
  <2>3. /\ "authorization" \in DOMAIN d /\ SameBooks(card.authorization, d.authorization)
        /\ \A a \in A : /\ attempts[a].managed /\ attempts[a].cost = "open"
                        /\ attempts[a].state \in OutstandingStates
                        => d.authorization.unknownCost
    BY <2>2, DisposedBooks
  <2> HIDE DEF d
  <2>4. card'.authorization = d.authorization
    BY <2>1, <2>3, SavedGrant
  <2>5. ASSUME NEW a \in AttemptIds
        PROVE  SameTerms(card.authorization, d.authorization, attempts[a], attempts'[a])
    <3>1. attempts[a] \in Attempt
      BY <1>0
    <3>2. CASE a \in A
      <4>1. attempts'[a] = [attempts[a] EXCEPT !.state = "reconciled"]
        BY <2>1, <3>2
      <4> QED
        BY <2>3, <3>1, <3>2, <4>1 DEF SameTerms, Attempt, ActiveStates
    <3>3. CASE a \notin A
      <4>1. attempts'[a] = attempts[a]
        BY <2>1, <3>3
      <4> QED
        BY <4>1 DEF SameTerms
    <3> QED
      BY <3>2, <3>3
  <2> QED
    BY <2>3, <2>4, <2>5 DEF BooksKept
<1>2. ASSUME TransitionBegin
      PROVE  BooksKept
  <2> DEFINE c == FencedCard(card, ActiveAttempts)
             t == [phase |-> IF OutstandingAttempts = {} THEN "ready" ELSE "stopping",
                   inventory |-> OutstandingAttempts, disposed |-> {}]
             d == [c EXCEPT !.transition = t]
  <2>1. Record(d) /\ attempts' = FencedRows(attempts, ActiveAttempts)
    BY <1>2 DEF TransitionBegin
  <2>2. "authorization" \in DOMAIN c /\ c.authorization = card.authorization
    BY <1>0, GrantOf
  <2> HIDE DEF c, t
  <2>3. "authorization" \in DOMAIN d /\ d.authorization = card.authorization
    BY <2>2
  <2> HIDE DEF d
  <2>4. ActiveAttempts \in SUBSET AttemptIds /\ \A a \in ActiveAttempts : attempts[a].state \in ActiveStates
    BY DEF ActiveAttempts, Active
  <2> QED
    BY <1>0, <2>1, <2>3, <2>4, GrantOf, FencingBooks
<1>3. ASSUME TransitionActivate
      PROVE  BooksKept
  <2> DEFINE d == Activated(card.proposal.plan)
  <2>1. Record(d) /\ attempts' = attempts
    BY <1>3 DEF TransitionActivate
  <2>2. "authorization" \in DOMAIN d /\ d.authorization = RevokedGrant(card.authorization)
    BY <1>0 DEF Activated
  <2> HIDE DEF d
  <2> QED
    BY <1>0, <2>1, <2>2, GrantOf, EditBooks
<1>4. ASSUME TransitionWithdraw
      PROVE  BooksKept
  <2> DEFINE d == [card EXCEPT !.proposal = NoProposal(card), !.transition = NoTransition]
  <2>1. Record(d) /\ attempts' = attempts
    BY <1>4 DEF TransitionWithdraw
  <2>2. "authorization" \in DOMAIN d /\ d.authorization = card.authorization
    BY <1>0
  <2> HIDE DEF d
  <2> QED
    BY <1>0, <2>1, <2>2, GrantOf, EditBooks
<1>5. ASSUME Cancel
      PROVE  BooksKept
  <2> DEFINE d == [card EXCEPT !.status = "cancelled",
                     !.proposal = NoProposal(card), !.transition = NoTransition,
                     !.authorization = RevokedGrant(card.authorization)]
  <2>1. Record(d) /\ attempts' = attempts
    BY <1>5 DEF Cancel
  <2>2. "authorization" \in DOMAIN d /\ d.authorization = RevokedGrant(card.authorization)
    BY <1>0
  <2> HIDE DEF d
  <2> QED
    BY <1>0, <2>1, <2>2, GrantOf, EditBooks
<1>6. ASSUME NEW a \in AttemptIds, NEW resolution, TransitionResolve(a, resolution)
      PROVE  BooksKept
  <2> DEFINE s == attempts[a].step
             freed == IF card.steps[s].attempt = a THEN {s} ELSE {}
             disposed == card.transition.disposed \union {a}
             t == [card.transition EXCEPT !.disposed = disposed,
                     !.phase = IF disposed = card.transition.inventory THEN "ready" ELSE @]
             c == DisposedCard({a}, freed, resolution)
             d == [c EXCEPT !.transition = t]
             q == [attempts[a] EXCEPT !.state = "reconciled", !.gone = @ \/ ~attempts[a].managed]
  <2>1. Record(d) /\ attempts' = [attempts EXCEPT ![a] = q]
    BY <1>0, <1>6 DEF TransitionResolve
  <2>2. /\ "authorization" \in DOMAIN c /\ SameBooks(card.authorization, c.authorization)
        /\ /\ attempts[a].managed /\ attempts[a].cost = "open"
           /\ attempts[a].state \in OutstandingStates
           => c.authorization.unknownCost
    BY DisposedBooks
  <2> HIDE DEF c, t
  <2>3. "authorization" \in DOMAIN d /\ d.authorization = c.authorization
    BY <2>2
  <2> HIDE DEF d
  <2>4. attempts[a] \in Attempt
    BY <1>0
  <2>5. SameTerms(card.authorization, d.authorization, attempts[a], q)
    BY <2>2, <2>3, <2>4 DEF SameTerms, Attempt, ActiveStates
  <2> HIDE DEF q
  <2> QED
    BY <2>1, <2>2, <2>3, <2>5, RowBooks
<1> QED
  BY <1>1, <1>2, <1>3, <1>4, <1>5, <1>6 DEF Disposing

-----------------------------------------------------------------------------
(* The theorems about the grant.                                           *)

Ledger == Sound(card, attempts) /\ Accounted(card.authorization, attempts)

LEMMA InitLedger == Init => Ledger /\ Covered(card.authorization, attempts)
<1> SUFFICES ASSUME Init
             PROVE  Ledger /\ Covered(card.authorization, attempts)
  OBVIOUS
<1>0. Sound(card, attempts)
  BY InitSound
<1>1. /\ card.authorization.id = None /\ card.authorization.used = 0
      /\ card.authorization.launches = 0
      /\ \A a \in AttemptIds : ~attempts[a].managed /\ attempts[a].grant = None
  BY DEF Init
<1>2. Granted(card.authorization, attempts) = {} /\ Metered(card.authorization, attempts) = {}
  BY <1>1 DEF Granted, Metered
<1>3. SpendOf(attempts, {}) = 0 /\ Cardinality({}) = 0
  BY SpendSteps, FS_EmptySet
<1>4. \A a \in AttemptIds : Booked(card.authorization, attempts[a])
                            /\ Pending(card.authorization, attempts[a])
  BY <1>1 DEF Booked, Pending
<1>5. 0 <= MaxLaunches /\ 0 <= MaxCost
  BY BoundsAssumption
<1> QED
  BY <1>0, <1>1, <1>2, <1>3, <1>4, <1>5 DEF Ledger, Accounted, Covered

\* What any step does to the books.
LEMMA NextBooks ==
  ASSUME Ledger, [Next]_vars
  PROVE  \/ BooksKept \/ BooksOpened
         \/ \E a \in AttemptIds : BooksReserve(a) \/ BooksCharge(a)
<1>0. Sound(card, attempts) /\ \A a \in AttemptIds : Booked(card.authorization, attempts[a])
  BY DEF Ledger, Accounted
<1>1. CASE UNCHANGED vars
  <2>1. card' = card /\ attempts' = attempts
    BY <1>1 DEF vars
  <2> QED
    BY <2>1 DEF BooksKept, SameBooks, SameTerms
<1>2. CASE Next
  BY <1>0, <1>2, NegotiationBooks, LaunchingBooks, WorkingBooks, LosingBooks, DisposingBooks
     DEF Next
<1> QED
  BY <1>1, <1>2

\* Every step keeps the books; and if no attempt ends above its envelope, it keeps
\* the worst case under the ceiling.
LEMMA NextLedger ==
  ASSUME Ledger, [Next]_vars
  PROVE  /\ Ledger'
         /\ EnvelopesHold /\ Covered(card.authorization, attempts)
              => Covered(card.authorization, attempts)'
<1> DEFINE g == card.authorization
           h == card'.authorization
<1>0. /\ Sound(card, attempts) /\ Sound(card, attempts)' /\ Accounted(g, attempts)
  BY NextSound DEF Ledger
<1>1. /\ card \in Card /\ attempts \in [AttemptIds -> Attempt]
      /\ card' \in Card /\ attempts' \in [AttemptIds -> Attempt]
  BY <1>0 DEF Sound, Typed
<1>2. g \in Grant /\ h \in Grant
  BY <1>1 DEF Card
<1> SUFFICES /\ Accounted(h, attempts')
             /\ EnvelopesHold /\ Covered(g, attempts) => Covered(h, attempts')
  BY <1>0 DEF Ledger, Accounted, Covered, Granted, Metered, Booked, Pending
<1>3. CASE BooksKept
  <2>1. /\ SameBooks(g, h)
        /\ \A a \in AttemptIds : SameTerms(g, h, attempts[a], attempts'[a])
    BY <1>3 DEF BooksKept
  <2> HIDE DEF g, h
  <2> QED
    BY <1>0, <1>1, <1>2, <2>1, KeptAccounted
<1>4. CASE BooksOpened
  <2>1. attempts' = attempts /\ h.id = g.id + 1 /\ h.used = 0 /\ h.launches = 0
    BY <1>4 DEF BooksOpened
  <2> HIDE DEF g, h
  <2> QED
    BY <1>0, <1>1, <1>2, <2>1, OpenedAccounted
<1>5. ASSUME NEW a \in AttemptIds, BooksReserve(a)
      PROVE  Accounted(h, attempts') /\ Covered(h, attempts')
  <2> DEFINE R == {b \in AttemptIds : attempts[b].state \in ActiveStates /\ attempts[b].grant = g.id}
  <2>1. {b \in ActiveAttempts : attempts[b].grant = card.authorization.id} = R
    BY DEF ActiveAttempts, Active
  <2>2. ReservedCost = SpendOf(attempts, R)
    BY <2>1 DEF ReservedCost, SpendOf
  <2>3. /\ attempts[a].state = "none" /\ \A b \in AttemptIds : attempts[b].state # "recovery_required"
        /\ g.id # None /\ ~g.unknownCost /\ g.launches < MaxLaunches
        /\ h.id = g.id /\ h.used = g.used /\ h.launches = g.launches + 1
        /\ attempts'[a].managed /\ attempts'[a].grant = g.id /\ attempts'[a].cost = "open"
        /\ attempts'[a].state = "reserved"
        /\ attempts'[a].spend <= MaxCost - g.used - SpendOf(attempts, R)
    BY <1>5, <2>2 DEF BooksReserve
  <2>4. \A b \in AttemptIds \ {a} : attempts'[b] = attempts[b]
    BY <1>1, <1>5 DEF BooksReserve
  <2> HIDE DEF g, h
  <2> QED
    BY <1>0, <1>1, <1>2, <2>3, <2>4, ReservedAccounted
<1>6. ASSUME NEW a \in AttemptIds, BooksCharge(a)
      PROVE  /\ Accounted(h, attempts')
             /\ EnvelopesHold /\ Covered(g, attempts) => Covered(h, attempts')
  <2>1. /\ attempts[a].managed /\ attempts[a].cost = "open"
        /\ \A b \in AttemptIds \ {a} : SameTerms(g, h, attempts[b], attempts'[b])
        /\ attempts'[a].managed /\ attempts'[a].grant = attempts[a].grant
        /\ attempts'[a].state \notin ActiveStates \union {"none"}
        /\ h.id = g.id /\ h.launches = g.launches /\ (g.unknownCost => h.unknownCost)
        /\ \/ /\ attempts'[a].cost = "known"
              /\ h.used = g.used + IF g.id # None /\ g.id = attempts[a].grant
                                   THEN attempts'[a].spend ELSE 0
           \/ /\ attempts'[a].cost = "unknown" /\ attempts'[a].spend = attempts[a].spend
              /\ h.used = g.used
              /\ g.id = attempts[a].grant => h.unknownCost
    BY <1>6 DEF BooksCharge
  <2>2. EnvelopesHold => (attempts'[a].cost = "known" => attempts'[a].spend <= attempts[a].spend)
    BY <2>1 DEF EnvelopesHold
  <2> HIDE DEF g, h
  <2>3. /\ Accounted(h, attempts')
        /\ (attempts'[a].cost = "known" => attempts'[a].spend <= attempts[a].spend)
             => (Covered(g, attempts) => Covered(h, attempts'))
    BY <1>0, <1>1, <1>2, <2>1, ChargedAccounted
  <2> QED
    BY <2>2, <2>3
<1> QED
  BY <1>3, <1>4, <1>5, <1>6, NextBooks

\* The books are kept: in every reachable state the grant has recorded exactly
\* what its attempts reported, and has launched no more than it allows.
THEOREM LedgerIsKept == Spec => []Ledger
<1>1. Init => Ledger
  BY InitLedger
<1>2. Ledger /\ [Next]_vars => Ledger'
  BY NextLedger
<1> QED
  BY <1>1, <1>2, PTL DEF Spec

\* What the books say, in the words of the properties.
LEMMA LedgerSays ==
  ASSUME Ledger
  PROVE  UsageIsExact /\ (Covered(card.authorization, attempts) => WorstCaseWithinGrant)
<1>1. Metered(card.authorization, attempts) =
        {a \in AttemptIds : attempts[a].managed /\ SameGrant(a) /\ attempts[a].cost = "known"}
  BY DEF Metered, SameGrant
<1>2. Granted(card.authorization, attempts) =
        {a \in AttemptIds : attempts[a].managed /\ SameGrant(a)}
  BY DEF Granted, SameGrant
<1>3. UsageIsExact
  BY <1>1 DEF Ledger, Accounted, SpendOf, UsageIsExact
<1>4. ASSUME Covered(card.authorization, attempts)
      PROVE  WorstCaseWithinGrant
  BY <1>2, <1>4 DEF Ledger, Accounted, Covered, SpendOf, WorstCaseWithinGrant
<1> QED
  BY <1>3, <1>4

\* Whatever a provider reports, the grant's total is the sum of the recorded costs
\* of its attempts, each counted once (`finish_attempt', `_charge').
THEOREM UsageExact == Spec => []UsageIsExact
<1>1. Ledger => UsageIsExact
  BY LedgerSays
<1> QED
  BY <1>1, LedgerIsKept, PTL

\* If every attempt ends within the envelope that was set aside for it, the grant
\* is kept: the total is exact, there are no more launches than granted, and all
\* that was launched under the grant stays under its ceiling, even if every
\* attempt whose cost is unknown spends its whole envelope.
THEOREM GrantKept == Spec /\ [][EnvelopesHold]_vars => []GrantIsKept
<1> DEFINE Cover == Covered(card.authorization, attempts)
<1>1. Init => Ledger /\ Cover
  BY InitLedger
<1>2. Ledger /\ Cover /\ [Next]_vars /\ [EnvelopesHold]_vars => (Ledger /\ Cover)'
  <2> SUFFICES ASSUME Ledger, Cover, [Next]_vars, [EnvelopesHold]_vars
               PROVE  Ledger' /\ Cover'
    OBVIOUS
  <2>1. Ledger'
    BY NextLedger
  <2>2. CASE EnvelopesHold
    BY <2>2, NextLedger
  <2>3. CASE UNCHANGED vars
    <3>1. card' = card /\ attempts' = attempts
      BY <2>3 DEF vars
    <3> QED
      BY <2>1, <3>1 DEF Covered, Granted
  <2> QED
    BY <2>1, <2>2, <2>3
<1>3. Ledger /\ Cover => GrantIsKept
  BY LedgerSays DEF GrantIsKept
<1> HIDE DEF Cover
<1> QED
  BY <1>1, <1>2, <1>3, PTL DEF Spec

=============================================================================
