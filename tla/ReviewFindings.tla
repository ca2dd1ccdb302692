---------------------------- MODULE ReviewFindings ----------------------------
(***************************************************************************)
(* The findings of a project and their corrective reviews (findings, the   *)
(* corrective part of reviews).  A finding is a row with a revision and an *)
(* append-only history.  A corrective review declares the findings it is   *)
(* about at their revisions; the declaration is checked before the capture *)
(* and again in the transaction that publishes the snapshot.  Only the     *)
(* turns of such a snapshot may change a finding of another conversation.  *)
(*                                                                         *)
(* Snapshots are numbered in the order of their creation.                  *)
(***************************************************************************)
EXTENDS Integers, Sequences, SequencesExt

CONSTANTS
  Finding, Conversation, Turn,
  MaxSnapshots,   \* bound: review snapshots
  MaxRevision     \* bound: revisions of a finding

ASSUME FindingBounds == MaxSnapshots \in Nat \ {0} /\ MaxRevision \in Nat \ {0}

VARIABLES
  findings,   \* the history of each finding; its row is the last entry
  home,       \* the conversation each finding was raised in
  snapshots,  \* what each published review declares as corrective context
  captured,    \* the corrective review that is being captured
  turns,      \* the tasks that review, and what came of them
  pinned      \* the members of a correction set, with their baseline

findingVars == <<findings, home, snapshots, captured, turns, pinned>>

-----------------------------------------------------------------------------
Snapshot == 1..MaxSnapshots
Nowhere == "no conversation"
\* A declaration: which findings, at which revision (0: not declared), of which review.
Reference == [previous : 0..MaxSnapshots, revision : [Finding -> 0..MaxRevision],
              published : [Finding -> 0..MaxRevision]]
NoReference == [previous |-> 0, revision |-> [f \in Finding |-> 0],
                published |-> [f \in Finding |-> 0]]
Action == {"create", "note", "confirm", "reject", "reopen", "claim_fixed", "verify_fixed"}
Entry == [action : Action, review : Snapshot, validity : {"hypothesis", "confirmed", "rejected"},
          resolution : {"open", "claimed_fixed", "verified_fixed"}, by : SUBSET Turn,
          evidence : SUBSET Turn]

FindingTypeOK ==
  /\ \A f \in Finding : Len(findings[f]) <= MaxRevision /\ \A i \in DOMAIN findings[f] : findings[f][i] \in Entry
  /\ home \in [Finding -> Conversation \union {Nowhere}]
  /\ Len(snapshots) <= MaxSnapshots /\ \A r \in DOMAIN snapshots : snapshots[r] \in Reference
  /\ captured \in Reference
  /\ turns \in [Turn -> [conversation : Conversation \union {Nowhere}, review : 0..MaxSnapshots,
        stage : BOOLEAN, status : {"none", "active", "completed", "failed"}, success : BOOLEAN,
        ingested : BOOLEAN]]
  /\ pinned \in [review : 0..MaxSnapshots, baseline : [Finding -> 0..MaxRevision]]

FindingInit ==
  /\ findings = [f \in Finding |-> <<>>] /\ home = [f \in Finding |-> Nowhere]
  /\ snapshots = <<NoReference>> /\ captured = NoReference
  /\ turns = [t \in Turn |-> [conversation |-> Nowhere, review |-> 0, stage |-> FALSE,
        status |-> "none", success |-> FALSE, ingested |-> FALSE]]
  /\ pinned = [review |-> 0, baseline |-> [f \in Finding |-> 0]]

-----------------------------------------------------------------------------
Raised(f) == findings[f] # <<>>
Revision(f) == Len(findings[f])
LastEntry(f) == Last(findings[f])
\* FindingStore._eligible
Open(entry) == entry.validity # "rejected" /\ entry.resolution # "verified_fixed"

(* Reviews and their turns.                                                *)

\* ReviewStore._corrective_context: the references are current and open.
Declarable(reference) ==
  \A f \in Finding : reference.revision[f] > 0 =>
    /\ Raised(f) /\ Revision(f) = reference.revision[f]
    /\ LastEntry(f).review = reference.previous /\ Open(LastEntry(f))

\* validate_corrective, before the capture starts.
RequestReview ==
  /\ captured = NoReference /\ Len(snapshots) < MaxSnapshots
  /\ \E previous \in DOMAIN snapshots, declared \in SUBSET {f \in Finding : Raised(f)} :
       /\ declared # {}
       /\ captured' = [previous |-> previous,
            revision |-> [f \in Finding |-> IF f \in declared THEN Revision(f) ELSE 0],
            published |-> [f \in Finding |-> 0]]
       /\ Declarable(captured')
  /\ UNCHANGED <<findings, home, snapshots, turns, pinned>>

\* Mutant: what was declarable when the capture began is published.
PublishableAsRequested(reference) == TRUE

\* ReviewStore.create: the references are checked again where they are published.
PublishableReference(reference) == Declarable(reference)

PublishReview ==
  /\ captured # NoReference
  /\ captured' = NoReference
  /\ snapshots' = IF PublishableReference(captured)
                  THEN Append(snapshots, [captured EXCEPT !.published = [f \in Finding |-> Revision(f)]])
                  ELSE snapshots
  /\ UNCHANGED <<findings, home, turns, pinned>>

\* A turn is bound to a snapshot, as a stage of its review or as an ordinary task.
StartTurn(t) ==
  /\ turns[t].status = "none"
  /\ \E c \in Conversation, r \in DOMAIN snapshots, stage \in BOOLEAN :
       turns' = [turns EXCEPT ![t] = [@ EXCEPT !.conversation = c, !.review = r,
                                               !.stage = stage, !.status = "active"]]
  /\ UNCHANGED <<findings, home, snapshots, captured, pinned>>

EndTurn(t) ==
  /\ turns[t].status = "active"
  /\ \E status \in {"completed", "failed"}, success \in BOOLEAN :
       turns' = [turns EXCEPT ![t].status = status, ![t].success = success]
  /\ UNCHANGED <<findings, home, snapshots, captured, pinned>>

-----------------------------------------------------------------------------
(* Changing findings.                                                      *)

\* FindingStore._finding_task: a stage of the snapshot that declares the finding, which
\* nothing but that snapshot has touched since the declared revision.
DeclaredFor(t, f) ==
  LET reference == snapshots[turns[t].review] IN
  /\ turns[t].stage /\ reference.revision[f] > 0
  /\ LET entry == findings[f][reference.revision[f]] IN
     entry.review = reference.previous /\ Open(entry)
  /\ \A i \in DOMAIN findings[f] :
       i > reference.revision[f] => findings[f][i].review = turns[t].review

MayUse(t, f, review) ==
  /\ turns[t].status # "none" /\ turns[t].review = review
  /\ turns[t].conversation = home[f] \/ DeclaredFor(t, f)

\* FindingStore._update: what an action makes of the row, and when it is refused.
Applicable(f, action) ==
  LET row == LastEntry(f) IN
  CASE action = "note" -> TRUE
    [] action = "confirm" -> row.validity = "hypothesis"
    [] action = "reject" -> row.validity # "rejected"
    [] action = "reopen" -> row.validity = "rejected" \/ row.resolution # "open"
    [] action = "claim_fixed" -> row.validity = "confirmed" /\ row.resolution = "open"
    [] action = "verify_fixed" -> row.validity = "confirmed" /\ row.resolution = "claimed_fixed"
Applied(row, action) ==
  CASE action = "note" -> row
    [] action = "confirm" -> [row EXCEPT !.validity = "confirmed"]
    [] action = "reject" -> [row EXCEPT !.validity = "rejected", !.resolution = "open"]
    [] action = "reopen" -> [row EXCEPT !.resolution = "open",
         !.validity = IF @ = "rejected" THEN "hypothesis" ELSE @]
    [] action = "claim_fixed" -> [row EXCEPT !.resolution = "claimed_fixed"]
    [] action = "verify_fixed" -> [row EXCEPT !.resolution = "verified_fixed"]

\* The current or a newer snapshot; a verification by a completed, successful turn.
Updatable(f, action, review, by, evidence) ==
  /\ Raised(f) /\ Revision(f) < MaxRevision /\ review \in LastEntry(f).review..Len(snapshots)
  /\ Applicable(f, action) /\ \A t \in by : MayUse(t, f, review)
  /\ IF action = "verify_fixed"
     THEN \E t \in Turn : /\ evidence = {t} /\ MayUse(t, f, review)
                          /\ turns[t].status = "completed" /\ turns[t].success
     ELSE evidence = {}
Updated(f, action, review, by, evidence) ==
  [findings EXCEPT ![f] = Append(@, [Applied(Last(@), action) EXCEPT
     !.action = action, !.review = review, !.by = by, !.evidence = evidence])]

\* The expected revision is the row's: an update by a client that read an older one is
\* refused and changes nothing.
Update(f, action, review, evidence) ==
  /\ Updatable(f, action, review, {}, evidence)
  /\ findings' = Updated(f, action, review, {}, evidence)
  /\ UNCHANGED <<home, snapshots, captured, turns, pinned>>

Create(f, conversation, review, by) ==
  /\ ~Raised(f)
  /\ \E validity \in {"hypothesis", "confirmed"} :
       findings' = [findings EXCEPT ![f] = <<[action |-> "create", review |-> review,
         validity |-> validity, resolution |-> "open", by |-> by, evidence |-> {}]>>]
  /\ home' = [home EXCEPT ![f] = conversation]

Raise(f, conversation, review) ==
  /\ Create(f, conversation, review, {})
  /\ UNCHANGED <<snapshots, captured, turns, pinned>>

\* FindingStore.ingest_report, in the transaction of the worker's final report: once
\* per task, whole or not at all.  A worker cannot cite itself: it is not completed.
Ingest(t) ==
  /\ turns[t].status = "active" /\ ~turns[t].ingested
  /\ turns' = [turns EXCEPT ![t].ingested = TRUE]
  /\ \/ \E f \in Finding : Create(f, turns[t].conversation, turns[t].review, {t})
     \/ \E f \in Finding, action \in Action \ {"create"}, evidence \in SUBSET Turn :
          /\ Updatable(f, action, turns[t].review, {t}, evidence)
          /\ findings' = Updated(f, action, turns[t].review, {t}, evidence)
          /\ UNCHANGED home
  /\ UNCHANGED <<snapshots, captured, pinned>>

\* FindingStore.pin: the open findings that are bound to the snapshot, or some of them.
Pin ==
  /\ pinned.review = 0
  /\ \E review \in DOMAIN snapshots :
       LET bound == {f \in Finding : Raised(f) /\ LastEntry(f).review = review /\ Open(LastEntry(f))} IN
       \E members \in SUBSET bound :
         /\ members # {}
         /\ pinned' = [review |-> review,
              baseline |-> [f \in Finding |-> IF f \in members THEN Revision(f) ELSE 0]]
  /\ UNCHANGED <<findings, home, snapshots, captured, turns>>

FindingNext ==
  \/ RequestReview \/ PublishReview \/ Pin
  \/ \E t \in Turn : StartTurn(t) \/ EndTurn(t) \/ Ingest(t)
  \/ \E f \in Finding, review \in DOMAIN snapshots :
       \/ \E c \in Conversation : Raise(f, c, review)
       \/ \E action \in Action \ {"create"}, evidence \in SUBSET Turn :
            Update(f, action, review, evidence)

FindingSpec == FindingInit /\ [][FindingNext]_findingVars

-----------------------------------------------------------------------------
\* The snapshot a fix was last verified on (verified_review_id).
Verifications(f) == {i \in DOMAIN findings[f] : findings[f][i].action = "verify_fixed"}
VerifiedOn(f) ==
  LET i == CHOOSE i \in Verifications(f) : \A j \in Verifications(f) : j <= i IN
  findings[f][i].review

\* FindingStore.project: nothing in a pinned set is left to do for a target review.
IsSettled(target) ==
  \A f \in Finding : pinned.baseline[f] > 0 =>
    \/ LastEntry(f).validity = "rejected"
    \/ LastEntry(f).resolution = "verified_fixed" /\ VerifiedOn(f) = target

\* A snapshot declares its findings as they were when it was published, whatever was
\* recorded while it was captured.  A turn of another conversation changed a finding only
\* from such a snapshot, and while nobody else had changed it since.  A finding that is
\* verified was confirmed, claimed and then verified, in this order and with nothing
\* that reopens it in between, by a successful turn on the very snapshot; and a pinned
\* set is settled for a review only by dispositions that were recorded after the pin.
FindingsAreEarned ==
  /\ FindingTypeOK
  /\ \A r \in DOMAIN snapshots, f \in Finding :
       snapshots[r].revision[f] > 0 => snapshots[r].published[f] = snapshots[r].revision[f]
  /\ \A f \in Finding : \A i \in DOMAIN findings[f], t \in Turn :
       t \in findings[f][i].by \union findings[f][i].evidence /\ turns[t].conversation # home[f] =>
         LET reference == snapshots[turns[t].review] IN
         /\ reference.revision[f] \in 1..(i - 1)
         /\ \A j \in (reference.revision[f] + 1)..i : findings[f][j].review = turns[t].review
  /\ \A f \in Finding : Raised(f) /\ LastEntry(f).resolution = "verified_fixed" =>
       \E i, j \in DOMAIN findings[f] :
         /\ i < j /\ findings[f][i].action = "claim_fixed" /\ findings[f][j].action = "verify_fixed"
         /\ \A k \in i..Revision(f) : findings[f][k].action \notin {"reject", "reopen"}
         /\ \A t \in findings[f][j].evidence : turns[t].success /\ turns[t].review = VerifiedOn(f)
         /\ findings[f][j].evidence # {}
  /\ pinned.review > 0 => \A target \in DOMAIN snapshots : IsSettled(target) =>
       \A f \in Finding : pinned.baseline[f] > 0 =>
         \E i \in DOMAIN findings[f] : /\ i > pinned.baseline[f]
                                       /\ findings[f][i].action \in {"reject", "verify_fixed"}
=============================================================================
