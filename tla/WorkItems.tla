------------------------------ MODULE WorkItems ------------------------------
(***************************************************************************)
(* One card of the shared work store (omp_tandem.work_items.WorkStore):    *)
(* its negotiated plan, its steps, the attempts launched for them, the     *)
(* operator's grant and the plan transition.                               *)
(*                                                                         *)
(* Every operation of the store runs in one BEGIN IMMEDIATE transaction    *)
(* and ends in _record, which refreshes the derived step states and the    *)
(* status before it saves.  An action below is one such transaction: it    *)
(* reads `card' and `attempts', raises (is disabled) or commits both.      *)
(*                                                                         *)
(* Abstractions.  Texts, evidence, commits, workspaces and checkpoints are *)
(* left out; a submission is named by the attempt that made it and an      *)
(* acceptance by the attempt that recorded the verdict.  A place (a step,  *)
(* or the card) keeps the set of authors with an open blocker there, so    *)
(* one author has at most one open blocker per place.  Time is two flags:  *)
(* `due' on an attempt and on the grant.  Command receipts and the         *)
(* compare-and-swap on the revision are the subject of WorkReceipts.       *)
(***************************************************************************)
EXTENDS Integers, FiniteSets, FiniteSetsExt

CONSTANTS
  Step,              \* identifiers of steps
  Plans,             \* the plans that may be proposed: [steps -> dependencies]
  Owner, Reviewer,   \* the two principals of each step
  Modes,             \* which launches the instance exercises
  BlockAuthors,      \* who raises blockers in the instance
  MaxAttempts,       \* bound: attempts ever made on the card
  MaxPlanRevision,   \* bound: plan revisions
  MaxGrants,         \* bound: authorizations
  MaxLaunches,       \* max_launches of every grant
  MaxCost,           \* max_cost_usd of every grant
  MaxAttemptCost,    \* max_attempt_cost_usd of every grant
  Costs,             \* the costs a provider may report for one attempt
  ActiveLimit        \* project-wide limit on active attempts (4 in the code)

Principals == {"claude", "omp"}
Actors == Principals \union {"operator"}

ASSUME PlansAssumption ==
  /\ Plans # {}
  /\ \A p \in Plans : /\ DOMAIN p # {} /\ DOMAIN p \subseteq Step
                      /\ p \in [DOMAIN p -> SUBSET (DOMAIN p)]
ASSUME RolesAssumption ==
  /\ Owner \in [Step -> Principals] /\ Reviewer \in [Step -> Principals]
  /\ \A s \in Step : Owner[s] # Reviewer[s]
ASSUME BoundsAssumption ==
  /\ MaxAttempts \in Nat /\ MaxPlanRevision \in Nat /\ MaxGrants \in Nat
  /\ MaxLaunches \in Nat /\ MaxCost \in Nat /\ MaxAttemptCost \in Nat
  /\ ActiveLimit \in Nat /\ Costs \subseteq Nat
  /\ Modes \subseteq {"manual", "managed"} /\ BlockAuthors \subseteq Actors

AttemptIds == 1..MaxAttempts
None == 0

VARIABLES
  card,      \* the card document (work_cards.card)
  attempts   \* the attempt rows (work_attempts.attempt)

vars == <<card, attempts>>

-----------------------------------------------------------------------------
(* Types.                                                                  *)

Terminal == {"completed", "cancelled"}
CardStates == {"draft", "active", "paused"} \union Terminal
StepStates == {"todo", "ready", "blocked", "review", "running",
               "recovery_required", "accepted", "changes_requested"}
ActiveStates == {"reserved", "running"}
AttemptStates == ActiveStates \union
                 {"none", "recovery_required", "reconciled", "succeeded", "blocked"}
TransitionOpen == {"stopping", "ready"}

StepRecord ==
  [state : StepStates, blockers : SUBSET Actors, submission : Nat,
   acceptance : Nat, attempt : Nat]

Grant ==
  [id : Nat, planRevision : Nat, revoked : BOOLEAN, due : BOOLEAN,
   unknownCost : BOOLEAN, launches : Nat, used : Nat]

Card ==
  [status : CardStates, planRevision : Nat \ {0}, plan : Plans,
   agreements : [Principals -> Nat],
   proposal : [plan : Plans, base : Nat],          \* base = 0: no proposal
   transition : [phase : TransitionOpen \union {"none"},
                 inventory : SUBSET AttemptIds, disposed : SUBSET AttemptIds],
   steps : [Step -> StepRecord],
   blockers : SUBSET Actors,
   authorization : Grant]                          \* id = 0: never authorized

\* stage: review_stage of an independent-first review.  cost: has the cost of
\* the attempt been recorded, and was it known?  spend: the reserved envelope
\* until a known cost replaces it.
Attempt ==
  [state : AttemptStates, step : Step, kind : {"implement", "review"},
   actor : Principals, managed : BOOLEAN, grant : Nat, planRevision : Nat,
   due : BOOLEAN, gone : BOOLEAN, intent : BOOLEAN, blockIntent : BOOLEAN,
   stage : {"independent", "comparison", "blocked"},
   report : {"none", "success", "other"}, verdict : {"none", "accept", "reject"},
   submission : Nat, cost : {"open", "known", "unknown"}, spend : Nat]

TypeOK == card \in Card /\ attempts \in [AttemptIds -> Attempt]

-----------------------------------------------------------------------------
(* Reading the card and its attempts.                                      *)

StepsOf(c) == DOMAIN c.plan
Agreed(c) == \A p \in Principals : c.agreements[p] = c.planRevision
Unresolved(c, s) == c.blockers \union c.steps[s].blockers
Accepted(c, s) == c.steps[s].state = "accepted"

Active(a) == attempts[a].state \in ActiveStates
Uncertain(a) == attempts[a].state = "recovery_required"
Outstanding(a) == Active(a) \/ Uncertain(a)
ActiveAttempts == {a \in AttemptIds : Active(a)}
OutstandingAttempts == {a \in AttemptIds : Outstanding(a)}

Open == card.status \notin Terminal                      \* _require_open
TransitionBegun == card.transition.phase \in TransitionOpen
NoTransition == [phase |-> "none", inventory |-> {}, disposed |-> {}]
NoProposal(c) == [plan |-> c.plan, base |-> None]

\* The grant under which managed attempt a was launched is the card's grant.
SameGrant(a) == card.authorization.id # None
                /\ card.authorization.id = attempts[a].grant

\* `_authenticate': what an attempt credential still allows.
Authenticated(a) ==
  /\ Active(a) /\ ~attempts[a].due
  /\ card.status \notin Terminal \union {"paused"}
  /\ card.planRevision = attempts[a].planRevision
  /\ attempts[a].managed => SameGrant(a) /\ ~card.authorization.revoked

-----------------------------------------------------------------------------
(* Writing the card: _refresh, _record and the fences.                     *)

\* Mutant: a step that may not start yet is labelled like a card.
RefreshedStepAsDraft(c, s) ==
  IF c.steps[s].state \in {"running", "recovery_required", "accepted"}
  THEN c.steps[s].state
  ELSE IF c.steps[s].submission # None THEN "review"
  ELSE IF Agreed(c) THEN "ready" ELSE "draft"

RefreshedStep(c, s) ==
  LET st == c.steps[s].state IN
  IF st \in {"running", "recovery_required", "accepted"} THEN st
  ELSE IF Unresolved(c, s) # {} THEN "blocked"
  ELSE IF c.steps[s].submission # None THEN "review"
  ELSE IF \A d \in c.plan[s] : Accepted(c, d)
       THEN IF Agreed(c) THEN "ready" ELSE "todo"
  ELSE IF st = "changes_requested" THEN st ELSE "todo"

RefreshedStatus(c) ==
  IF c.status = "paused" THEN "paused"
  ELSE IF (\A s \in StepsOf(c) : Accepted(c, s)) /\ c.blockers = {} THEN "completed"
  ELSE IF Agreed(c) THEN "active" ELSE "draft"

\* A step's refresh never makes it accepted or stops it being so, which is why
\* the loop over the steps can be one simultaneous assignment.
Refresh(c) ==
  IF c.status \in Terminal THEN c
  ELSE [c EXCEPT !.steps = [s \in Step |->
                    IF s \in StepsOf(c)
                    THEN [c.steps[s] EXCEPT !.state = RefreshedStep(c, s)]
                    ELSE c.steps[s]],
                 !.status = RefreshedStatus(c)]

Record(c) == card' = Refresh(c)

WithStep(c, s, record) == [c EXCEPT !.steps[s] = record]
WithBlockers(c, s, B) == WithStep(c, s, [c.steps[s] EXCEPT !.blockers = B])

\* The rows and steps after the attempts in A lost their authority: `_fence',
\* `_fence_step', `_expire' and `recover_owner' all write this.
FencedRows(rows, A) ==
  [a \in AttemptIds |->
     IF a \in A THEN [rows[a] EXCEPT !.state = "recovery_required"] ELSE rows[a]]

\* A step record in state st that names attempt a.
Naming(record, st, a) == [record EXCEPT !.state = st, !.attempt = a]

AttemptOf(rows, A, s) == CHOOSE a \in A : rows[a].step = s

FencedCard(c, A) ==
  [c EXCEPT !.steps = [s \in Step |->
     IF \E a \in A : attempts[a].step = s
     THEN Naming(c.steps[s], "recovery_required", AttemptOf(attempts, A, s))
     ELSE c.steps[s]]]

RevokedGrant(grant) == [grant EXCEPT !.revoked = @ \/ grant.id # None]

NewStep == [state |-> "todo", blockers |-> {}, submission |-> None,
            acceptance |-> None, attempt |-> None]

-----------------------------------------------------------------------------
(* The card before any command but `create'.                               *)

Init ==
  /\ \E p \in Plans :
       card = [status |-> "draft", planRevision |-> 1, plan |-> p,
               agreements |-> [x \in Principals |-> None],
               proposal |-> [plan |-> p, base |-> None],
               transition |-> NoTransition,
               steps |-> [s \in Step |-> NewStep], blockers |-> {},
               authorization |-> [id |-> None, planRevision |-> None,
                  revoked |-> FALSE, due |-> FALSE, unknownCost |-> FALSE,
                  launches |-> 0, used |-> 0]]
  /\ LET s == CHOOSE s \in Step : TRUE IN
       attempts = [a \in AttemptIds |->
         [state |-> "none", step |-> s, kind |-> "implement",
          actor |-> Owner[s], managed |-> FALSE, grant |-> None,
          planRevision |-> None, due |-> FALSE, gone |-> FALSE,
          intent |-> FALSE, blockIntent |-> FALSE, stage |-> "independent",
          report |-> "none", verdict |-> "none", submission |-> None,
          cost |-> "open", spend |-> 0]]

-----------------------------------------------------------------------------
(* Commands of the negotiation (perform).                                  *)

\* The plan in force withdraws a pending proposal; another plan replaces it.
Propose(p) ==
  /\ Open /\ ~TransitionBegun
  /\ Record([card EXCEPT !.proposal =
       IF p = card.plan THEN NoProposal(card)
       ELSE [plan |-> p, base |-> card.planRevision]])
  /\ UNCHANGED attempts

Agree(actor) ==
  /\ Open
  /\ Record([card EXCEPT !.agreements[actor] = card.planRevision])
  /\ UNCHANGED attempts

Pause ==
  /\ Open
  /\ Record([FencedCard(card, ActiveAttempts) EXCEPT !.status = "paused"])
  /\ attempts' = FencedRows(attempts, ActiveAttempts)

Resume ==
  /\ card.status = "paused"
  /\ Record([card EXCEPT !.status = "draft"])
  /\ UNCHANGED attempts

-----------------------------------------------------------------------------
(* Blockers.                                                               *)

\* A worker blocking its own step stops cooperatively; anyone else's blocker
\* fences the step's attempt.
Block(actor, s, bound) ==
  LET a == card.steps[s].attempt
      blocked == WithBlockers(card, s, card.steps[s].blockers \union {actor})
      fenced == {b \in AttemptIds : b = a /\ Active(b)}
  IN
  /\ Open /\ s \in StepsOf(card)
  /\ actor \in {Owner[s], Reviewer[s], "operator"}
  /\ ~Accepted(card, s)
  /\ IF bound
     THEN /\ a \in AttemptIds /\ attempts[a].actor = actor
          /\ attempts[a].step = s /\ Authenticated(a)
          /\ Record(blocked)
          /\ attempts' = [attempts EXCEPT ![a].blockIntent = TRUE]
     ELSE /\ Record(FencedCard(blocked, fenced))
          /\ attempts' = FencedRows(attempts, fenced)

\* A review that lacks context blocks itself before its comparison opens.
BlockReviewContext(a) ==
  LET s == attempts[a].step IN
  /\ Authenticated(a)
  /\ attempts[a].kind = "review" /\ attempts[a].stage = "independent"
  /\ Record(WithBlockers(card, s, card.steps[s].blockers \union {attempts[a].actor}))
  /\ attempts' = [attempts EXCEPT ![a].stage = "blocked", ![a].blockIntent = TRUE]

\* Only the author of a blocker or the operator resolves it.
UnblockStep(actor, author, s) ==
  /\ Open /\ s \in StepsOf(card)
  /\ author \in card.steps[s].blockers /\ actor \in {author, "operator"}
  /\ Record(WithBlockers(card, s, card.steps[s].blockers \ {author}))
  /\ UNCHANGED attempts

UnblockCard(actor, author) ==
  /\ Open
  /\ author \in card.blockers /\ actor \in {author, "operator"}
  /\ Record([card EXCEPT !.blockers = @ \ {author}])
  /\ UNCHANGED attempts

-----------------------------------------------------------------------------
(* Grants and reservations.                                                *)

Authorize ==
  /\ Agreed(card) /\ card.status = "active"
  /\ OutstandingAttempts = {}
  /\ card.authorization.id < MaxGrants
  /\ Record([card EXCEPT !.authorization =
       [id |-> card.authorization.id + 1, planRevision |-> card.planRevision,
        revoked |-> FALSE, due |-> FALSE, unknownCost |-> FALSE,
        launches |-> 0, used |-> 0]])
  /\ UNCHANGED attempts

Revoke ==
  /\ Open
  /\ Record([FencedCard(card, ActiveAttempts) EXCEPT
               !.authorization = RevokedGrant(card.authorization)])
  /\ attempts' = FencedRows(attempts, ActiveAttempts)

\* Mutant: a claim does not notice that a transition was begun.
ClaimableDuringTransition(s) ==
  /\ card.status = "active" /\ Agreed(card)
  /\ s \in StepsOf(card) /\ Unresolved(card, s) = {}
  /\ \A a \in AttemptIds : attempts[a].step = s => ~Active(a)
  /\ \A d \in card.plan[s] : Accepted(card, d)
  /\ card.steps[s].state \in {"ready", "review", "changes_requested"}

\* `_claim_reason' finds nothing against a claim of step s.
Claimable(s) ==
  /\ card.status = "active" /\ ~TransitionBegun /\ Agreed(card)
  /\ s \in StepsOf(card) /\ Unresolved(card, s) = {}
  /\ \A a \in AttemptIds : ~Uncertain(a) /\ ~(Active(a) /\ attempts[a].due)
  /\ \A a \in AttemptIds : attempts[a].step = s => ~Active(a)
  /\ \A d \in card.plan[s] : Accepted(card, d)
  /\ card.steps[s].state \in {"ready", "review", "changes_requested"}

KindOf(s) == IF card.steps[s].submission # None THEN "review" ELSE "implement"
PrincipalFor(s) == IF KindOf(s) = "review" THEN Reviewer[s] ELSE Owner[s]

\* Attempts are numbered in the order of their reservation.
IsNew(a) == attempts[a].state = "none"
            /\ \A b \in AttemptIds : b < a => attempts[b].state # "none"

Reserved(a, s, actor, managed, envelope) ==
  [attempts EXCEPT ![a] =
     [state |-> "reserved", step |-> s, kind |-> KindOf(s), actor |-> actor,
      managed |-> managed,
      grant |-> IF managed THEN card.authorization.id ELSE None,
      planRevision |-> card.planRevision, due |-> FALSE, gone |-> FALSE,
      intent |-> FALSE, blockIntent |-> FALSE, stage |-> "independent",
      report |-> "none", verdict |-> "none",
      submission |-> card.steps[s].submission, cost |-> "open",
      spend |-> envelope]]

StepRunning(s, a) ==
  WithStep(card, s, Naming(card.steps[s], "running", a))

\* A principal claims a step by hand.
Claim(a, s, actor) ==
  /\ "manual" \in Modes /\ IsNew(a)
  /\ Claimable(s) /\ actor = PrincipalFor(s)
  /\ Record(StepRunning(s, a))
  /\ attempts' = Reserved(a, s, actor, FALSE, 0)

\* What the grant's active attempts may still spend.
ReservedCost ==
  MapThenSumSet(LAMBDA a : attempts[a].spend,
                {a \in ActiveAttempts : attempts[a].grant = card.authorization.id})

\* The supervisor reserves a step under the operator's grant.
Reserve(a, s, envelope) ==
  LET grant == card.authorization
      left == MaxCost - grant.used - ReservedCost
  IN
  /\ "managed" \in Modes /\ IsNew(a)
  /\ Claimable(s)
  /\ grant.id # None /\ ~grant.revoked /\ ~grant.due
  /\ grant.planRevision = card.planRevision
  /\ ~grant.unknownCost /\ grant.used < MaxCost /\ grant.launches < MaxLaunches
  /\ Cardinality(ActiveAttempts) < ActiveLimit
  /\ envelope > 0 /\ envelope <= MaxAttemptCost
  /\ envelope = IF left < MaxAttemptCost THEN left ELSE MaxAttemptCost
  /\ Record([StepRunning(s, a) EXCEPT !.authorization =
               [grant EXCEPT !.launches = @ + 1]])
  /\ attempts' = Reserved(a, s, PrincipalFor(s), TRUE, envelope)

Started(a) ==
  /\ Authenticated(a)
  /\ Record(card)
  /\ attempts' = [attempts EXCEPT ![a].state = "running"]

-----------------------------------------------------------------------------
(* What the bound worker records on its attempt.                           *)

\* The intent is immutable: one submission per attempt.
Submit(a) ==
  LET s == attempts[a].step IN
  /\ Authenticated(a) /\ Unresolved(card, s) = {}
  /\ attempts[a].kind = "implement" /\ ~attempts[a].intent
  /\ Record(card)
  /\ attempts' = [attempts EXCEPT ![a].intent = TRUE]

\* The submission under review is still the step's submission.
ReviewsCurrent(a) ==
  /\ attempts[a].kind = "review"
  /\ card.steps[attempts[a].step].submission # None
  /\ attempts[a].submission = card.steps[attempts[a].step].submission

Report(a, outcome) ==
  /\ Authenticated(a) /\ ReviewsCurrent(a)
  /\ attempts[a].report = "none"
  /\ outcome = "success" => attempts[a].stage # "blocked"
  /\ Record(card)
  /\ attempts' = [attempts EXCEPT ![a].report = outcome]

\* Opening the comparison discloses the author's account to the reviewer.
Compare(a) ==
  /\ Authenticated(a) /\ attempts[a].kind = "review"
  /\ attempts[a].stage = "independent" /\ attempts[a].report = "success"
  /\ Record(card)
  /\ attempts' = [attempts EXCEPT ![a].stage = "comparison"]

\* Mutant: a rejection keeps the submission.
DecidedKeepingSubmission(c, a, verdict) ==
  WithStep(c, attempts[a].step,
    [c.steps[attempts[a].step] EXCEPT
       !.state = IF verdict = "accept" THEN "accepted" ELSE "changes_requested",
       !.acceptance = IF verdict = "accept" THEN a ELSE None])

\* The step after review attempt a decided it.
Decided(c, a, verdict) ==
  WithStep(c, attempts[a].step,
    IF verdict = "accept"
    THEN [c.steps[attempts[a].step] EXCEPT !.state = "accepted", !.acceptance = a]
    ELSE [c.steps[attempts[a].step] EXCEPT !.state = "changes_requested",
                                           !.acceptance = None, !.submission = None])

\* A manual verdict settles the step at once; a managed one waits for the
\* attempt to finish.
Decide(a, verdict) ==
  LET s == attempts[a].step IN
  /\ Authenticated(a) /\ Unresolved(card, s) = {}
  /\ ReviewsCurrent(a)
  /\ attempts[attempts[a].submission].planRevision = card.planRevision
  /\ attempts[a].verdict = "none" /\ attempts[a].report # "none"
  /\ verdict = "accept" => attempts[a].report = "success"
  /\ \A d \in card.plan[s] : Accepted(card, d)
  /\ IF attempts[a].managed
     THEN /\ Record(card)
          /\ attempts' = [attempts EXCEPT ![a].verdict = verdict]
     ELSE /\ Record(Decided(card, a, verdict))
          /\ attempts' = [attempts EXCEPT ![a].verdict = verdict,
                            ![a].state = "succeeded", ![a].cost = "unknown"]

-----------------------------------------------------------------------------
(* The end of an attempt (finish_attempt).                                 *)

\* The attempt still has the authority to publish what it did.
Current(a) ==
  /\ Active(a) /\ ~attempts[a].due
  /\ card.status # "paused"
  /\ card.planRevision = attempts[a].planRevision
  /\ attempts[a].managed => SameGrant(a) /\ ~card.authorization.revoked

\* Mutant: the reported cost replaces the total instead of adding to it.
ChargedAnew(c, a, known, cost) ==
  IF ~(attempts[a].managed /\ SameGrant(a)) THEN c
  ELSE IF known THEN [c EXCEPT !.authorization.used = cost]
  ELSE [c EXCEPT !.authorization.unknownCost = TRUE]

Charged(c, a, known, cost) ==
  IF ~(attempts[a].managed /\ SameGrant(a)) THEN c
  ELSE IF known
  THEN [c EXCEPT !.authorization = [c.authorization EXCEPT !.used = @ + cost]]
  ELSE [c EXCEPT !.authorization = [c.authorization EXCEPT !.unknownCost = TRUE]]

\* The attempt did what it was asked and nobody objects.
Publishes(a, outcome) ==
  /\ Current(a) /\ outcome = "success" /\ attempts[a].kind = "implement"
  /\ Unresolved(card, attempts[a].step) = {}

\* It stopped on a blocker it recorded itself, and its stop is observed.
Cooperates(a, outcome, known, output) ==
  /\ Current(a) /\ outcome = "blocked" /\ attempts[a].blockIntent
  /\ attempts[a].managed => known /\ attempts[a].gone
  /\ attempts[a].kind = "review" \/ output

\* Mutant: a verdict recorded before an objection still settles the step.
RulesDespiteBlockers(a, outcome) ==
  /\ Current(a) /\ outcome = "success" /\ attempts[a].kind = "review"
  /\ attempts[a].verdict # "none"

\* It recorded a verdict and nobody objects.
Rules(a, outcome) ==
  /\ Current(a) /\ outcome = "success" /\ attempts[a].kind = "review"
  /\ attempts[a].verdict # "none"
  /\ Unresolved(card, attempts[a].step) = {}

Settled(a, outcome, known, output) ==
  LET s == attempts[a].step  st == card.steps[s] IN
  IF Publishes(a, outcome)
  THEN [card |-> WithStep(card, s, [st EXCEPT !.submission = a, !.acceptance = None,
                                              !.state = "review"]),
        state |-> "succeeded"]
  ELSE IF Cooperates(a, outcome, known, output)
  THEN [card |-> WithStep(card, s, [st EXCEPT !.state = "blocked", !.acceptance = None]),
        state |-> "blocked"]
  ELSE IF Rules(a, outcome)
  THEN [card |-> Decided(card, a, attempts[a].verdict), state |-> "succeeded"]
  ELSE [card |-> WithStep(card, s, [st EXCEPT !.state = "recovery_required",
                                              !.acceptance = None]),
        state |-> "recovery_required"]

\* `output': the worker's workspace was captured, which needs a started attempt.
\* A managed attempt of unknown cost pauses the card and fences the others.
FinishAttempt(a, outcome, known, cost, output) ==
  LET settled == Settled(a, outcome, known, output)
      charged == Charged(settled.card, a, known, cost)
      rows == [attempts EXCEPT ![a].state = settled.state,
                 ![a].cost = IF known THEN "known" ELSE "unknown",
                 ![a].spend = IF known THEN cost ELSE @]
      others == ActiveAttempts \ {a}
  IN
  /\ Open /\ Outstanding(a) /\ attempts[a].cost = "open"
  /\ output => attempts[a].state # "reserved"
  /\ Publishes(a, outcome) => output
  /\ known => attempts[a].managed
  /\ IF attempts[a].managed /\ ~known
     THEN /\ Record([FencedCard(charged, others) EXCEPT !.status = "paused"])
          /\ attempts' = FencedRows(rows, others)
     ELSE Record(charged) /\ attempts' = rows

-----------------------------------------------------------------------------
(* Lost authority: elapsed deadlines, a lost owner, a stopped process.     *)

\* A manual claim lasts an hour; a managed one as long as its grant.
ClaimElapses(a) ==
  /\ Active(a) /\ ~attempts[a].managed /\ ~attempts[a].due
  /\ attempts' = [attempts EXCEPT ![a].due = TRUE]
  /\ UNCHANGED card

GrantElapses ==
  /\ card.authorization.id # None /\ ~card.authorization.due
  /\ card' = [card EXCEPT !.authorization.due = TRUE]
  /\ attempts' = [a \in AttemptIds |->
       IF Active(a) /\ attempts[a].managed
       THEN [attempts[a] EXCEPT !.due = TRUE] ELSE attempts[a]]

\* A timeout is uncertainty, never permission for another writer.
Expire ==
  LET due == {a \in ActiveAttempts : attempts[a].due} IN
  /\ due # {}
  /\ Record(FencedCard(card, due))
  /\ attempts' = FencedRows(attempts, due)

\* Mutant: the lost owner's rows are fenced, its steps are not.
RecoverOwnerRowsOnly ==
  LET lost == {a \in ActiveAttempts : attempts[a].managed} IN
  /\ lost # {}
  /\ Record(card)
  /\ attempts' = FencedRows(attempts, lost)

\* A new supervisor fences what the supervisor before it had launched.
RecoverOwner ==
  LET lost == {a \in ActiveAttempts : attempts[a].managed} IN
  /\ lost # {}
  /\ Record(FencedCard(card, lost))
  /\ attempts' = FencedRows(attempts, lost)

\* The supervisor saw the process exit, or the operator says it did.  The code
\* takes any attempt; the flag is only ever read of an outstanding one.
ConfirmStopped(a) ==
  /\ Outstanding(a)
  /\ Record(card)
  /\ attempts' = [attempts EXCEPT ![a].gone = TRUE]

-----------------------------------------------------------------------------
(* The operator's decisions about uncertain work.                          *)

\* Managed attempts of the card's grant whose cost nobody recorded.
Unmetered(A) == {a \in A : attempts[a].managed /\ attempts[a].cost = "open" /\ SameGrant(a)}

Unbooked(grant, unmetered) ==
  IF unmetered THEN [grant EXCEPT !.unknownCost = TRUE] ELSE grant

\* The card after the operator disposed of the attempts in A: their steps are
\* free again (`release'), abandonment leaves a blocker, and an abandonment or
\* an unmetered attempt pauses the card.
DisposedCard(A, release, resolution) ==
  LET unmetered == Unmetered(A) # {} IN
  [card EXCEPT
     !.steps = [s \in Step |->
        LET st == card.steps[s]
            freed == IF s \in release
                     THEN Naming(st, "todo", None) ELSE st
        IN IF resolution = "abandon" /\ \E a \in A : attempts[a].step = s
           THEN [freed EXCEPT !.blockers = @ \union {"operator"}] ELSE freed],
     !.authorization = Unbooked(card.authorization, unmetered),
     !.status = IF resolution = "abandon" \/ unmetered THEN "paused" ELSE @]

\* Mutant: nobody needs to vouch that the old process stopped.
ReconcileUnconfirmed(scope, resolution) ==
  LET A == {a \in AttemptIds : Uncertain(a) /\ attempts[a].step \in scope} IN
  /\ Open /\ A # {}
  /\ Record(DisposedCard(A, {attempts[a].step : a \in A}, resolution))
  /\ attempts' = [a \in AttemptIds |->
       IF a \in A THEN [attempts[a] EXCEPT !.state = "reconciled"] ELSE attempts[a]]

\* The operator reconciles one step or the whole card.
Reconcile(scope, resolution) ==
  LET A == {a \in AttemptIds : Uncertain(a) /\ attempts[a].step \in scope} IN
  /\ Open
  /\ A # {} /\ \A a \in A : attempts[a].gone
  /\ Record(DisposedCard(A, {attempts[a].step : a \in A}, resolution))
  /\ attempts' = [a \in AttemptIds |->
       IF a \in A THEN [attempts[a] EXCEPT !.state = "reconciled"] ELSE attempts[a]]

-----------------------------------------------------------------------------
(* Plan transitions.                                                       *)

\* Freeze the proposal and fence everything that runs.
TransitionBegin ==
  LET inventory == OutstandingAttempts IN
  /\ Open /\ ~TransitionBegun
  /\ card.proposal.base # None /\ card.proposal.base = card.planRevision
  /\ Record([FencedCard(card, ActiveAttempts) EXCEPT !.transition =
       [phase |-> IF inventory = {} THEN "ready" ELSE "stopping",
        inventory |-> inventory, disposed |-> {}]])
  /\ attempts' = FencedRows(attempts, ActiveAttempts)

\* A managed attempt needs its stop confirmed; for a manual one the operator's
\* own statement is the confirmation.
TransitionResolve(a, resolution) ==
  LET s == attempts[a].step
      freed == IF card.steps[s].attempt = a THEN {s} ELSE {}
      disposed == card.transition.disposed \union {a}
  IN
  /\ Open /\ TransitionBegun
  /\ a \in card.transition.inventory \ card.transition.disposed
  /\ ~Active(a)
  /\ attempts[a].managed => attempts[a].gone
  /\ Record([DisposedCard({a}, freed, resolution) EXCEPT !.transition =
       [card.transition EXCEPT !.disposed = disposed,
          !.phase = IF disposed = card.transition.inventory THEN "ready" ELSE @]])
  /\ attempts' = [attempts EXCEPT ![a].state = "reconciled",
                                  ![a].gone = @ \/ ~attempts[a].managed]

\* Mutant: the blockers of a removed step go with it.
ActivatedDroppingBlockers(p) ==
  [card EXCEPT
     !.plan = p, !.planRevision = @ + 1,
     !.agreements = [x \in Principals |-> None],
     !.steps = [s \in Step |->
        IF s \notin DOMAIN p \/ s \notin StepsOf(card) THEN NewStep
        ELSE [NewStep EXCEPT !.blockers = card.steps[s].blockers]],
     !.authorization = RevokedGrant(card.authorization),
     !.proposal = [plan |-> p, base |-> None], !.transition = NoTransition]

\* `_activate_plan': blockers follow their step, or the card if it is gone, and
\* every agreement and the grant lapse.
Activated(p) ==
  [card EXCEPT
     !.plan = p, !.planRevision = @ + 1,
     !.agreements = [x \in Principals |-> None],
     !.steps = [s \in Step |->
        IF s \notin DOMAIN p \/ s \notin StepsOf(card) THEN NewStep
        ELSE LET kept == [NewStep EXCEPT !.blockers = card.steps[s].blockers] IN
             IF card.steps[s].state = "recovery_required"
             THEN Naming(kept, "recovery_required", card.steps[s].attempt)
             ELSE kept],
     !.blockers = @ \union UNION {card.steps[s].blockers : s \in StepsOf(card) \ DOMAIN p},
     !.authorization = RevokedGrant(card.authorization),
     !.proposal = [plan |-> p, base |-> None],
     !.transition = NoTransition]

\* Mutant: the one-step activation overlooks attempts that still run.
TransitionActivateOverRunning ==
  /\ Open /\ card.planRevision < MaxPlanRevision
  /\ card.proposal.base # None /\ card.proposal.base = card.planRevision
  /\ card.transition.inventory = card.transition.disposed
  /\ Record(Activated(card.proposal.plan))
  /\ UNCHANGED attempts

\* With nothing outstanding the operator may activate a proposal at once;
\* a begun transition needs every attempt of its inventory disposed of.
TransitionActivate ==
  /\ Open /\ card.planRevision < MaxPlanRevision
  /\ card.proposal.base # None /\ card.proposal.base = card.planRevision
  /\ card.transition.inventory = card.transition.disposed
  /\ OutstandingAttempts = {}
  /\ Record(Activated(card.proposal.plan))
  /\ UNCHANGED attempts

\* Quiescence stays: what begin fenced still needs reconciliation.
TransitionWithdraw ==
  /\ Open
  /\ card.proposal.base # None \/ TransitionBegun
  /\ Record([card EXCEPT !.proposal = NoProposal(card), !.transition = NoTransition])
  /\ UNCHANGED attempts

Cancel ==
  /\ Open
  /\ OutstandingAttempts = {}
  /\ TransitionBegun => card.transition.inventory = card.transition.disposed
  /\ Record([card EXCEPT !.status = "cancelled",
       !.proposal = NoProposal(card), !.transition = NoTransition,
       !.authorization = RevokedGrant(card.authorization)])
  /\ UNCHANGED attempts

-----------------------------------------------------------------------------
Negotiation ==
  \/ \E p \in Plans : Propose(p)
  \/ \E actor \in Principals : Agree(actor)
  \/ Pause \/ Resume
  \/ \E actor \in BlockAuthors, s \in Step, bound \in BOOLEAN : Block(actor, s, bound)
  \/ \E actor \in Actors, author \in Actors, s \in Step : UnblockStep(actor, author, s)
  \/ \E actor \in Actors, author \in Actors : UnblockCard(actor, author)

Launching ==
  \/ Authorize \/ Revoke
  \/ \E a \in AttemptIds, s \in Step, actor \in Principals : Claim(a, s, actor)
  \/ \E a \in AttemptIds, s \in Step, envelope \in 1..MaxAttemptCost :
       Reserve(a, s, envelope)

Working ==
  \E a \in AttemptIds :
    \/ Started(a) \/ Submit(a) \/ Compare(a) \/ BlockReviewContext(a)
    \/ \E outcome \in {"success", "other"} : Report(a, outcome)
    \/ \E verdict \in {"accept", "reject"} : Decide(a, verdict)
    \/ \E outcome \in {"success", "blocked", "failed"}, known \in BOOLEAN,
          cost \in Costs, output \in BOOLEAN :
         FinishAttempt(a, outcome, known, cost, output)

Losing ==
  \/ GrantElapses \/ Expire \/ RecoverOwner
  \/ \E a \in AttemptIds : ClaimElapses(a) \/ ConfirmStopped(a)

Disposing ==
  \/ \E scope \in {Step} \union {{s} : s \in Step}, resolution \in {"retry", "abandon"} :
       Reconcile(scope, resolution)
  \/ TransitionBegin \/ TransitionActivate \/ TransitionWithdraw \/ Cancel
  \/ \E a \in AttemptIds, resolution \in {"retry", "abandon"} :
       TransitionResolve(a, resolution)

Next == Negotiation \/ Launching \/ Working \/ Losing \/ Disposing

Spec == Init /\ [][Next]_vars

-----------------------------------------------------------------------------
(* Properties.                                                             *)

\* Every attempt whose execution or uncertainty is not over belongs to the plan
\* in force, is the attempt its step names (so a step has at most one), and a
\* managed one runs under the grant the card still holds.
OutstandingIsAnchored ==
  \A a \in AttemptIds : Outstanding(a) =>
    LET s == attempts[a].step IN
    /\ attempts[a].planRevision = card.planRevision
    /\ s \in StepsOf(card) /\ card.steps[s].attempt = a
    /\ card.steps[s].state = IF Active(a) THEN "running" ELSE "recovery_required"
    /\ attempts[a].managed => SameGrant(a)

\* A step that waits for an attempt names one that can still end: a running
\* step has an active attempt and an uncertain step an uncertain one.  Nothing
\* else would ever move such a step again.
NoStrandedStep ==
  \A s \in StepsOf(card) :
    LET a == card.steps[s].attempt IN
    /\ card.steps[s].state = "running" =>
         a \in AttemptIds /\ Active(a) /\ attempts[a].step = s
    /\ card.steps[s].state = "recovery_required" =>
         a \in AttemptIds /\ Uncertain(a) /\ attempts[a].step = s

\* Two executions never work on one step: an attempt whose process may still
\* run is replaced only after somebody vouched that it stopped.
MayStillRun(a) ==
  attempts[a].state \in ActiveStates \union {"recovery_required", "reconciled"}
  /\ ~attempts[a].gone

SingleWriterPerStep ==
  \A a, b \in AttemptIds :
    a # b /\ attempts[a].step = attempts[b].step => ~(MayStillRun(a) /\ MayStillRun(b))

\* An accepted step holds an output of the plan in force, made by its owner and
\* accepted by the other principal in an independent review of exactly that
\* output, and what it depends on is accepted too.
AcceptedOutputReviewed ==
  \A s \in StepsOf(card) : Accepted(card, s) =>
    LET w == card.steps[s].submission  v == card.steps[s].acceptance IN
    /\ w \in AttemptIds /\ v \in AttemptIds
    /\ attempts[w].kind = "implement" /\ attempts[v].kind = "review"
    /\ attempts[w].state = "succeeded" /\ attempts[v].state = "succeeded"
    /\ attempts[w].step = s /\ attempts[v].submission = w
    /\ attempts[v].report = "success" /\ attempts[v].verdict = "accept"
    /\ attempts[w].actor # attempts[v].actor
    /\ attempts[w].planRevision = card.planRevision
    /\ \A d \in card.plan[s] : Accepted(card, d)

\* What a finished review rejected is never a step's output again.
RejectedStaysRejected ==
  \A a \in AttemptIds :
    attempts[a].state = "succeeded" /\ attempts[a].verdict = "reject" =>
      \A s \in StepsOf(card) : card.steps[s].submission # attempts[a].submission

\* A finished card leaves nothing behind: no execution, no uncertainty, and if
\* it is completed every step is accepted and no objection is open on the card.
TerminalIsQuiet ==
  /\ card.status \in Terminal => OutstandingAttempts = {}
  /\ card.status = "completed" =>
       (\A s \in StepsOf(card) : Accepted(card, s)) /\ card.blockers = {}

\* Between begin and activation nothing runs, the frozen proposal still fits
\* the plan in force, and whatever is uncertain awaits its disposition.
TransitionFreezes ==
  TransitionBegun =>
    /\ ActiveAttempts = {}
    /\ card.proposal.base = card.planRevision
    /\ OutstandingAttempts \subseteq card.transition.inventory \ card.transition.disposed

\* The money the grant has recorded is the money its attempts reported, once each.
UsageIsExact ==
  card.authorization.used =
    MapThenSumSet(LAMBDA a : attempts[a].spend,
      {a \in AttemptIds : /\ attempts[a].managed /\ SameGrant(a)
                          /\ attempts[a].cost = "known"})

\* If providers keep to their envelopes, all the attempts ever launched under a
\* grant together cost at most its ceiling, even when every attempt whose cost
\* is still unknown spends its whole envelope; and there are no more launches
\* than granted.
WorstCaseWithinGrant ==
  LET launched == {a \in AttemptIds : attempts[a].managed /\ SameGrant(a)} IN
  /\ MapThenSumSet(LAMBDA a : attempts[a].spend, launched) <= MaxCost
  /\ Cardinality(launched) <= MaxLaunches

\* Accepted output stays accepted, and stays the same, until the plan changes.
AcceptanceSticks ==
  [][\A s \in StepsOf(card) :
       Accepted(card, s) /\ card'.planRevision = card.planRevision =>
         /\ card'.steps[s].state = "accepted"
         /\ card'.steps[s].submission = card.steps[s].submission
         /\ card'.steps[s].acceptance = card.steps[s].acceptance]_vars

\* Fencing is final: an attempt that lost its authority never publishes; it is
\* only ever reconciled.
FencingIsFinal ==
  [][\A a \in AttemptIds :
       attempts[a].state \in {"recovery_required", "reconciled"} =>
         attempts'[a].state \in {attempts[a].state, "reconciled"}]_vars

\* Work is published only on an active, agreed card with no transition under way
\* and no open objection against the step, within the attempt's deadline.
PublicationNeedsAuthority ==
  [][\A a \in AttemptIds :
       attempts[a].state # "succeeded" /\ attempts'[a].state = "succeeded" =>
         /\ card.status = "active" /\ Agreed(card) /\ ~TransitionBegun
         /\ Unresolved(card, attempts[a].step) = {}
         /\ ~attempts[a].due
         /\ attempts[a].managed => SameGrant(a) /\ ~card.authorization.revoked]_vars

\* A plan changes only when nothing is outstanding; the new plan starts without
\* agreement or grant, keeps a pause, and loses nobody's open blocker.
OpenBlockers(c) == c.blockers \union UNION {c.steps[s].blockers : s \in DOMAIN c.plan}

PlanChangeIsClean ==
  [][card'.planRevision # card.planRevision =>
       /\ OutstandingAttempts = {}
       /\ ~Agreed(card)' /\ card'.status \in {"draft", "paused"}
       /\ card.status = "paused" => card'.status = "paused"
       /\ card'.authorization.id # None => card'.authorization.revoked
       /\ OpenBlockers(card) \subseteq OpenBlockers(card)']_vars

\* A completed or cancelled card never changes its outcome again.
TerminalIsFinal ==
  [][card.status \in Terminal =>
       /\ card'.status = card.status /\ card'.steps = card.steps
       /\ card'.planRevision = card.planRevision]_vars

\* What gets accepted was reviewed, and what was rejected stays so.
AcceptanceIsEarned == AcceptedOutputReviewed /\ RejectedStaysRejected

\* Whatever stops the card stops its work: a transition that has begun, a completion,
\* a cancellation.
StoppedIsQuiet == TransitionFreezes /\ TerminalIsQuiet

\* The grant is charged exactly, and its ceiling holds even in the worst case.
GrantIsKept == UsageIsExact /\ WorstCaseWithinGrant

\* Nothing that is over is taken back: neither a lost authority, nor an acceptance
\* under the plan it was given for, nor the outcome of a finished card; and a plan
\* changes over nothing that is outstanding.
HistoryIsKept == FencingIsFinal /\ AcceptanceSticks /\ TerminalIsFinal /\ PlanChangeIsClean
=============================================================================
